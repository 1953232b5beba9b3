---------------------------- MODULE MatchingEngine ----------------------------
(***************************************************************************)
(* One partition of the matching engine, from the commands in Kafka to the *)
(* checkpoint: intake, event loop, publisher, checkpoint coordinator,      *)
(* snapshots, depth feed, crash, recovery and shutdown                     *)
(* (services/matching-engine).                                             *)
(*                                                                         *)
(* A market owns its partition (validateMarketConfigs), so its commands    *)
(* complete in the order of their offsets.  Offsets count from 1; 0 stands *)
(* for no offset.  The book is abstracted to its sequence number, which    *)
(* tells books apart (OrderBook!SequenceTellsBooksApart): applying the     *)
(* commands 1 .. o to an empty book gives the number SeqAfter[o].          *)
(*                                                                         *)
(* Faults are crashes and failed calls to Kafka, Redis or PostgreSQL, with *)
(* or without effect; the process halts on a failed call and is started    *)
(* again.  MaxFaults bounds them, MaxStops the orderly shutdowns and       *)
(* MaxPurged the commands that Kafka's retention removes.  Another market  *)
(* of the instance is live: a process whose markets are all blocked exits. *)
(***************************************************************************)
EXTENDS Naturals, Sequences, FiniteSets

CONSTANTS
  N,           \* number of commands
  SeqAfter,    \* sequence number of the book after each prefix of the log
  Reporting,   \* the commands that have fills or an outcome to publish
  EmptyBooks,  \* sequence numbers of the books without orders
  KeepLatest,  \* snapshots the retention job keeps (3)
  MaxFaults, MaxStops, MaxPurged

ASSUME LogAssumption ==
  /\ N \in Nat
  /\ SeqAfter \in [0 .. N -> Nat]
  /\ SeqAfter[0] = 0
  /\ \A o, p \in 0 .. N : o <= p => SeqAfter[o] <= SeqAfter[p]
  /\ Reporting \subseteq 1 .. N
ASSUME LimitAssumption ==
  /\ KeepLatest \in Nat
  /\ MaxFaults \in Nat
  /\ MaxStops \in Nat
  /\ MaxPurged \in Nat

VARIABLES
  \* Kafka
  hwm,            \* commands produced so far
  lwm,            \* the earliest command Kafka still has
  published,      \* <<offset, sequence>> of the results published
  rejected,       \* commands answered with market_blocked
  \* PostgreSQL
  checkpoint,     \* kafka_checkpoints
  dbSequence,     \* market_sequences
  snapshots,      \* market_snapshots: [seq, offset]
  \* Redis
  depth,          \* sequence number of the depth on display
  \* the process
  phase,          \* "down" or "up"
  mode,           \* "LIVE" or "BLOCKED"
  fetched,        \* last offset put into the input queue
  queued,         \* length of the input queue
  applied,        \* lastAppliedOffset
  sequence,       \* book.Sequence
  output,         \* the output queue: [offset, seq, cmd, snap]
  step,           \* what the publisher does next: "idle", "depth", "commit"
  lastCommitted,  \* the coordinator's watermark
  cached,         \* currentDepth of the publisher
  seeded,         \* latestDepth: the depth seeded at startup, until flushed
  stopping,       \* SIGTERM has arrived
  drained,        \* the event loop has ended
  drain,          \* the publisher's answer to SIGTERM: "no", "yes", "quit"
  faults, stops

kafka   == <<hwm, lwm, published, rejected>>
db      == <<checkpoint, dbSequence, snapshots>>
feed    == <<cached, seeded>>
halting == <<stopping, drained, drain>>
memory  == <<mode, fetched, queued, applied, sequence, output, step, lastCommitted,
             cached, seeded, stopping, drained, drain>>
bounds  == <<faults, stops>>
vars    == <<kafka, db, depth, phase, memory, bounds>>

Fault == faults < MaxFaults /\ faults' = faults + 1

\* The process has gone, and its memory with it.
Halt ==
  /\ phase' = "down"
  /\ mode' = "LIVE" /\ fetched' = 0 /\ queued' = 0 /\ applied' = 0 /\ sequence' = 0
  /\ output' = <<>> /\ step' = "idle" /\ lastCommitted' = 0
  /\ cached' = 0 /\ seeded' = {}
  /\ stopping' = FALSE /\ drained' = FALSE /\ drain' = "no"

-----------------------------------------------------------------------------
(***************************************************************************)
(* Kafka.                                                                  *)
(***************************************************************************)
Produce ==
  /\ hwm < N
  /\ hwm' = hwm + 1
  /\ UNCHANGED <<lwm, published, rejected, db, depth, phase, memory, bounds>>

\* Retention removes the oldest command while the engine is down.
Purge ==
  /\ phase = "down"
  /\ lwm <= hwm
  /\ lwm <= MaxPurged
  /\ lwm' = lwm + 1
  /\ UNCHANGED <<hwm, published, rejected, db, depth, phase, memory, bounds>>

(***************************************************************************)
(* Intake and event loop.                                                  *)
(***************************************************************************)
Fetch ==
  /\ phase = "up"
  /\ ~stopping
  /\ fetched < hwm
  /\ fetched' = fetched + 1
  /\ queued' = queued + 1
  /\ UNCHANGED <<kafka, db, depth, phase, mode, applied, sequence, output, step,
                 lastCommitted, feed, halting, bounds>>

\* A blocked market rejects every command.  A snapshot goes with the command
\* that brings the sequence to 1 and, by time or count, with any other one.
SnapshotDue(seq) == IF seq = 1 THEN {TRUE}
                    ELSE IF stopping THEN {FALSE} ELSE BOOLEAN

\* What a command adds to the sequence; one already applied adds nothing.
Delta(o) == IF o <= applied THEN 0 ELSE SeqAfter[o] - SeqAfter[o - 1]

Apply ==
  LET o   == fetched - queued + 1
      new == o > applied
      seq == IF mode = "LIVE" THEN sequence + Delta(o) ELSE sequence
  IN /\ phase = "up"
     /\ queued > 0
     /\ queued' = queued - 1
     /\ applied' = IF new THEN o ELSE applied
     /\ sequence' = seq
     /\ \E snap \in SnapshotDue(seq) :
          output' = Append(output, [offset |-> o, seq |-> seq, cmd |-> new,
                                    snap |-> new /\ snap])
     /\ UNCHANGED <<kafka, db, depth, phase, mode, fetched, step, lastCommitted, feed,
                    halting, bounds>>

(***************************************************************************)
(* The publisher: trades and outcomes, then depth, then the checkpoint.    *)
(***************************************************************************)

Results(e) ==
  /\ published' = IF e.cmd /\ mode = "LIVE" /\ e.offset \in Reporting
                  THEN published \cup {<<e.offset, e.seq>>} ELSE published
  /\ rejected' = IF e.cmd /\ mode = "BLOCKED" THEN rejected \cup {e.offset} ELSE rejected

Working == phase = "up" /\ output # <<>>

PublishResult ==
  /\ Working
  /\ step = "idle"
  /\ drain = "yes" \/ (drain = "no" /\ ~stopping)
  /\ Results(Head(output))
  /\ step' = "depth"
  /\ UNCHANGED <<hwm, lwm, db, depth, phase, mode, fetched, queued, applied, sequence, output,
                 lastCommitted, feed, halting, bounds>>

PushDepth ==
  /\ Working
  /\ step = "depth"
  /\ depth' = Head(output).seq
  /\ step' = "commit"
  /\ UNCHANGED <<kafka, db, phase, mode, fetched, queued, applied, sequence, output,
                 lastCommitted, feed, halting, bounds>>

\* The guards of the transaction: the sequence may not go back, and a snapshot
\* row with this sequence must have the same checksum, which covers the offset.
SequenceRegresses(e) == e.seq < dbSequence
SnapshotConflicts(e) ==
  e.snap /\ \E s \in snapshots : s.seq = e.seq /\ s.offset # e.offset

\* MarkDoneWithSequence commits sequence, snapshot and checkpoint in one
\* transaction.  An offset already committed only persists its snapshot, one
\* beyond the next waits for the missing offsets.
Advances(e) == e.offset = lastCommitted + 1
Writes(e)   == Advances(e) \/ (e.offset <= lastCommitted /\ e.snap)

Persist_SnapshotFirst(e) ==
  /\ snapshots' = IF e.snap THEN snapshots \cup {[seq |-> e.seq, offset |-> e.offset]}
                  ELSE snapshots
  /\ UNCHANGED <<dbSequence, checkpoint>>

Persist(e) ==
  /\ dbSequence' = IF Writes(e) THEN e.seq ELSE dbSequence
  /\ snapshots' = IF Writes(e) /\ e.snap
                  THEN snapshots \cup {[seq |-> e.seq, offset |-> e.offset]}
                  ELSE snapshots
  /\ checkpoint' = IF Advances(e) /\ e.offset > checkpoint THEN e.offset ELSE checkpoint

Refused(e) == Writes(e) /\ (SequenceRegresses(e) \/ SnapshotConflicts(e))

MarkDone ==
  LET e == Head(output)
  IN /\ Working
     /\ step = "commit"
     /\ ~Refused(e)
     /\ Persist(e)
     /\ lastCommitted' = IF Advances(e) THEN e.offset ELSE lastCommitted
     /\ output' = Tail(output)
     /\ step' = "idle"
     /\ cached' = IF drain = "no" THEN e.seq ELSE cached
     /\ UNCHANGED <<kafka, depth, phase, mode, fetched, queued, applied, sequence, seeded,
                    halting, bounds>>

\* The transaction is refused: a fatal halt of the whole process.
MarkDoneRefused ==
  /\ Working
  /\ step = "commit"
  /\ Refused(Head(output))
  /\ Halt
  /\ UNCHANGED <<kafka, db, depth, bounds>>

\* A call of the publisher fails, with or without effect, and the process halts.
CallFails ==
  /\ Working
  /\ Fault
  /\ \/ /\ step = "idle" /\ Results(Head(output))
        /\ UNCHANGED <<db, depth>>
     \/ /\ step = "depth" /\ depth' = Head(output).seq
        /\ UNCHANGED <<published, rejected, db>>
     \/ /\ step = "commit" /\ ~Refused(Head(output)) /\ Persist(Head(output))
        /\ UNCHANGED <<published, rejected, depth>>
  /\ Halt
  /\ UNCHANGED <<hwm, lwm, stops>>

\* The heartbeat shows the publisher's last depth again, the retry ticker the
\* depth seeded at startup, once.
Heartbeat ==
  /\ phase = "up" /\ step = "idle" /\ drain = "no" /\ ~stopping
  /\ cached \notin EmptyBooks
  /\ depth # cached
  /\ depth' = cached
  /\ UNCHANGED <<kafka, db, phase, memory, bounds>>

FlushSeeded ==
  /\ phase = "up" /\ step = "idle" /\ drain # "quit"
  /\ seeded # {}
  /\ depth' \in seeded
  /\ seeded' = {}
  /\ UNCHANGED <<kafka, db, phase, mode, fetched, queued, applied, sequence, output, step,
                 lastCommitted, cached, halting, bounds>>

\* runRetention keeps the latest snapshots and the anchor of the checkpoint.
Retain ==
  LET latest == {s \in snapshots :
                   Cardinality({t \in snapshots : t.seq > s.seq}) < KeepLatest}
      usable == {s \in snapshots : s.offset <= checkpoint}
      anchor == {s \in usable : \A t \in usable : t.offset <= s.offset}
  IN /\ phase = "up"
     /\ snapshots # latest \cup anchor
     /\ snapshots' = latest \cup anchor
     /\ UNCHANGED <<kafka, checkpoint, dbSequence, depth, phase, memory, bounds>>

-----------------------------------------------------------------------------
(***************************************************************************)
(* Shutdown.  The publisher's context is a child of the one the signal     *)
(* cancels: it drains the queue once, or returns at the top of its loop.   *)
(***************************************************************************)
Sigterm ==
  /\ phase = "up"
  /\ ~stopping
  /\ stops < MaxStops
  /\ stops' = stops + 1
  /\ stopping' = TRUE
  /\ UNCHANGED <<kafka, db, depth, phase, mode, fetched, queued, applied, sequence, output, step,
                 lastCommitted, feed, drained, drain, faults>>

PublisherSeesSignal ==
  /\ phase = "up" /\ stopping /\ drain = "no" /\ step = "idle"
  /\ drain' \in {"yes", "quit"}
  /\ UNCHANGED <<kafka, db, depth, phase, mode, fetched, queued, applied, sequence, output, step,
                 lastCommitted, feed, stopping, drained, bounds>>

\* In the middle of a result the cancelled context fails the next call.
PublisherCancelled ==
  /\ phase = "up" /\ stopping /\ drain = "no" /\ step # "idle"
  /\ Halt
  /\ UNCHANGED <<kafka, db, depth, bounds>>

DrainEnds ==
  /\ phase = "up" /\ drain = "yes" /\ step = "idle" /\ output = <<>>
  /\ drain' = "quit"
  /\ UNCHANGED <<kafka, db, depth, phase, mode, fetched, queued, applied, sequence, output, step,
                 lastCommitted, feed, stopping, drained, bounds>>

\* The event loop has drained its queue and adds the final snapshot.
FinalSnapshot ==
  /\ phase = "up" /\ stopping /\ ~drained
  /\ queued = 0
  /\ drained' = TRUE
  /\ output' = IF applied > 0
               THEN Append(output, [offset |-> applied, seq |-> sequence,
                                    cmd |-> FALSE, snap |-> TRUE])
               ELSE output
  /\ UNCHANGED <<kafka, db, depth, phase, mode, fetched, queued, applied, sequence, step,
                 lastCommitted, feed, stopping, drain, bounds>>

Exit ==
  /\ phase = "up" /\ drained /\ drain = "quit"
  /\ Halt
  /\ UNCHANGED <<kafka, db, depth, bounds>>

Crash ==
  /\ phase = "up"
  /\ Fault
  /\ Halt
  /\ UNCHANGED <<kafka, db, depth, stops>>

-----------------------------------------------------------------------------
(***************************************************************************)
(* Recovery: the latest snapshot at or below the checkpoint, then a replay *)
(* of the commands up to the checkpoint, whose results are dropped.        *)
(***************************************************************************)
Usable == {s \in snapshots : s.offset <= checkpoint}

\* ORDER BY "offset" DESC, sequence DESC; no snapshot is an empty book.
LoadLatestSnapshot(s) ==
  \/ /\ s \in Usable
     /\ \A t \in Usable : \/ t.offset < s.offset
                          \/ t.offset = s.offset /\ t.seq <= s.seq
  \/ /\ Usable = {}
     /\ s = [seq |-> 0, offset |-> 0]

SnapshotCandidates == Usable \cup {[seq |-> 0, offset |-> 0]}

\* replayPartition refuses a database and a log that do not fit together.
LogHolds ==
  IF checkpoint = 0
  THEN hwm = 0 /\ snapshots = {} /\ dbSequence = 0
  ELSE /\ checkpoint <= hwm
       /\ checkpoint + 1 >= lwm
       /\ snapshots = Usable

CanReplay(s) ==
  LogHolds /\ (s.offset = checkpoint \/ s.offset + 1 >= lwm)

Replayed_Inclusive(s) ==
  s.seq + (SeqAfter[checkpoint] - SeqAfter[IF s.offset = 0 THEN 0 ELSE s.offset - 1])

\* The sequence after restoring s and replaying up to the checkpoint.
Replayed(s) == s.seq + (SeqAfter[checkpoint] - SeqAfter[s.offset])

Baseline_NotLoaded == 0

\* InitBaseline, or the offset before the first one that completes.
Baseline == IF checkpoint = 0 THEN lwm - 1 ELSE checkpoint

StartWith(seq) ==
  /\ phase' = "up"
  /\ sequence' = seq
  /\ queued' = 0
  /\ output' = <<>>
  /\ step' = "idle"
  /\ stopping' = FALSE
  /\ drained' = FALSE
  /\ drain' = "no"

\* The book is seeded to Redis before the intake starts; a failure to do so
\* does not stop the start.
RecoverLive ==
  /\ phase = "down"
  /\ \E s \in SnapshotCandidates :
       /\ LoadLatestSnapshot(s)
       /\ CanReplay(s)
       /\ Replayed(s) >= dbSequence
       /\ dbSequence' = Replayed(s)
       /\ StartWith(Replayed(s))
       /\ \/ depth' = Replayed(s) /\ UNCHANGED faults
          \/ Fault /\ UNCHANGED depth
       /\ cached' = Replayed(s)
       /\ seeded' = {Replayed(s)}
  /\ mode' = "LIVE"
  /\ fetched' = checkpoint
  /\ applied' = checkpoint
  /\ lastCommitted' = Baseline
  /\ UNCHANGED <<kafka, checkpoint, snapshots, stops>>

\* The commands that are needed are gone, or there are commands without any
\* checkpoint: the market is BLOCKED, with the book of its snapshot if the
\* replay got that far.  The intake begins after the checkpoint, or with the
\* earliest command Kafka has.
RecoverBlocked ==
  /\ phase = "down"
  /\ \E s \in SnapshotCandidates :
       /\ LoadLatestSnapshot(s)
       /\ ~CanReplay(s)
       /\ StartWith(IF LogHolds THEN s.seq ELSE 0)
       /\ applied' = IF LogHolds THEN s.offset ELSE 0
  /\ mode' = "BLOCKED"
  /\ fetched' = IF checkpoint + 1 < lwm THEN lwm - 1 ELSE checkpoint
  /\ lastCommitted' = Baseline
  /\ cached' = 0
  /\ seeded' = {}
  /\ UNCHANGED <<kafka, db, depth, bounds>>

-----------------------------------------------------------------------------
Init ==
  /\ hwm = 0 /\ lwm = 1 /\ published = {} /\ rejected = {}
  /\ checkpoint = 0 /\ dbSequence = 0 /\ snapshots = {}
  /\ depth = 0
  /\ phase = "down"
  /\ mode = "LIVE" /\ fetched = 0 /\ queued = 0 /\ applied = 0 /\ sequence = 0
  /\ output = <<>> /\ step = "idle" /\ lastCommitted = 0
  /\ cached = 0 /\ seeded = {}
  /\ stopping = FALSE /\ drained = FALSE /\ drain = "no"
  /\ faults = 0 /\ stops = 0

Engine    == Fetch \/ Apply \/ FinalSnapshot
Publisher == \/ PublishResult \/ PushDepth \/ MarkDone \/ MarkDoneRefused
             \/ PublisherSeesSignal \/ DrainEnds \/ Exit
Recover   == RecoverLive \/ RecoverBlocked

Next ==
  \/ Produce \/ Purge
  \/ Engine \/ Publisher \/ Recover
  \/ Heartbeat \/ FlushSeeded \/ Retain
  \/ CallFails \/ PublisherCancelled \/ Sigterm \/ Crash

\* The goroutines run, the tickers fire, and a stopped process is restarted.
Fairness == /\ WF_vars(Engine)
            /\ WF_vars(Publisher)
            /\ WF_vars(Recover)
            /\ WF_vars(FlushSeeded)
            /\ WF_vars(Heartbeat)

Spec     == Init /\ [][Next]_vars
FairSpec == Spec /\ Fairness

-----------------------------------------------------------------------------
Entry == [offset : 1 .. N, seq : Nat, cmd : BOOLEAN, snap : BOOLEAN]

\* Every variable keeps its type; nothing is checkpointed, fetched, queued or
\* applied that has not been produced, nor queued or applied before fetched.
TypeOK ==
  /\ hwm \in 0 .. N
  /\ lwm \in 1 .. hwm + 1
  /\ published \subseteq (1 .. N) \X Nat
  /\ rejected \subseteq 1 .. N
  /\ checkpoint \in 0 .. hwm
  /\ dbSequence \in Nat
  /\ snapshots \subseteq [seq : Nat, offset : 0 .. N]
  /\ depth \in Nat
  /\ phase \in {"down", "up"}
  /\ mode \in {"LIVE", "BLOCKED"}
  /\ fetched \in 0 .. hwm
  /\ queued \in 0 .. fetched
  /\ applied \in 0 .. fetched
  /\ sequence \in Nat
  /\ output \in Seq(Entry)
  /\ step \in {"idle", "depth", "commit"}
  /\ lastCommitted \in 0 .. N
  /\ cached \in Nat
  /\ seeded \subseteq Nat
  /\ stopping \in BOOLEAN /\ drained \in BOOLEAN
  /\ drain \in {"no", "yes", "quit"}
  /\ faults \in 0 .. MaxFaults
  /\ stops \in 0 .. MaxStops

\* The market has never turned a command away because it was blocked.
NeverRejected == rejected = {}

\* The book of a live engine is what the commands up to its last applied
\* offset make of an empty book: recovery neither skips nor repeats one.
BookIsReplay ==
  phase = "up" /\ mode = "LIVE" /\ NeverRejected => sequence = SeqAfter[applied]

\* What the checkpoint covers is published: a replay may drop its results.
CheckpointCovers ==
  NeverRejected =>
    \A o \in Reporting : o <= checkpoint => <<o, SeqAfter[o]>> \in published

\* However often a command is executed, its results carry the same number: the
\* trade ids and sequences of a re-execution are those of the first.
ResultsStable == NeverRejected => \A r \in published : r[2] = SeqAfter[r[1]]

\* A crash between any two steps, a failed call or a final drain leaves a book, a checkpoint
\* and results that belong together.
RecoverySound == BookIsReplay /\ CheckpointCovers /\ ResultsStable

\* No stored snapshot is ahead of the checkpoint, whatever fails, so that the
\* next start can use it; and it is the book at its offset.
SnapshotsFaithful ==
  \A s \in snapshots :
    /\ s.offset <= checkpoint
    /\ NeverRejected => s.seq = SeqAfter[s.offset]

\* Every command is checkpointed in the end, through crashes, failed calls,
\* shutdowns and BLOCKED starts, unless Kafka removed commands the engine still
\* needs or the database refuses the transaction at every attempt.
CommandsComplete ==
  \A o \in 1 .. N :
    hwm >= o ~> (\/ checkpoint >= o
                 \/ lwm > checkpoint + 1
                 \/ Working /\ step = "commit" /\ Refused(Head(output)))

\* "the snapshot and sequence MUST be durably persisted": the database refuses
\* no snapshot of a healthy engine.
SnapshotAccepted ==
  Working /\ step = "commit" /\ mode = "LIVE" => ~SnapshotConflicts(Head(output))

\* "replayed logs match live execution exactly": what a market rejected while
\* blocked is not in the book of the next start.
RejectedStaysOut ==
  mode = "LIVE" =>
    \A o \in rejected : o <= applied => SeqAfter[o] = SeqAfter[o - 1]

\* "terminates downstream publishers last to prevent data truncation": an
\* orderly shutdown ends with every applied command checkpointed.
ShutdownDrains ==
  [][phase = "up" /\ mode = "LIVE" /\ drained /\ drain = "quit" /\ phase' = "down" =>
       checkpoint >= applied \/ faults' # faults]_vars

\* The depth on display never goes back while the engine is live.
DepthMovesForward ==
  [][phase = "up" /\ mode = "LIVE" /\ phase' = "up" => depth' >= depth]_vars
=============================================================================
