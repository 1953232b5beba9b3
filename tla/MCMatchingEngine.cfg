SPECIFICATION FairSpec
CONSTANTS
  N = 4
  SeqAfter <- MCSeqAfter
  Reporting = {2, 3, 4}
  EmptyBooks = {0, 2}
  KeepLatest = 1
  MaxFaults = 2
  MaxStops = 1
  MaxPurged = 2
  
PROPERTIES CommandsComplete
CHECK_DEADLOCK FALSE
