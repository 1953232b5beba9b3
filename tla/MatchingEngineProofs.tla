------------------------- MODULE MatchingEngineProofs -------------------------
(***************************************************************************)
(* Proofs about MatchingEngine, for a log of any length, any number of     *)
(* faults, shutdowns and purged commands.                                  *)
(***************************************************************************)
EXTENDS MatchingEngine, TLAPS

-----------------------------------------------------------------------------
(***************************************************************************)
(* The inductive invariant.                                                *)
(***************************************************************************)
\* Offsets in memory are behind the intake; the publisher works on an entry.
Bounded ==
  /\ applied <= fetched - queued
  /\ \A i \in 1 .. Len(output) : output[i].offset <= fetched
  /\ step # "idle" => output # <<>>
  /\ phase = "down" => output = <<>>

\* What is stored and published, as long as nothing has been rejected.
Stored ==
  /\ \A o \in Reporting : o <= checkpoint => <<o, SeqAfter[o]>> \in published
  /\ \A r \in published : r[2] = SeqAfter[r[1]]
  /\ \A s \in snapshots : s.seq = SeqAfter[s.offset] /\ s.offset <= checkpoint

\* The output queue of a live engine: the offsets after the checkpoint one by
\* one, and the final snapshot of the last of them.
LiveAt(i) ==
  /\ output[i].seq = SeqAfter[output[i].offset]
  /\ \/ output[i].cmd /\ output[i].offset = lastCommitted + i
     \/ /\ ~output[i].cmd
        /\ drained
        /\ i = Len(output)
        /\ output[i].offset = lastCommitted + (i - 1)

LiveQueue ==
  /\ \A i \in 1 .. Len(output) : LiveAt(i)
  /\ step # "idle" /\ output[1].cmd /\ output[1].offset \in Reporting =>
       <<output[1].offset, output[1].seq>> \in published

Live ==
  /\ sequence = SeqAfter[applied]
  /\ applied = fetched - queued
  /\ lastCommitted = checkpoint
  /\ ~drained => applied = lastCommitted + Len(output)
  /\ drained => stopping /\ queued = 0
  /\ LiveQueue

\* A blocked engine that has rejected nothing yet: behind a command nothing
\* reaches the database, and before it only the snapshot it was started with.
Blocked ==
  /\ lastCommitted >= checkpoint
  /\ (\A i \in 1 .. Len(output) : ~output[i].cmd) =>
       applied = 0 \/ (sequence = SeqAfter[applied] /\ applied <= checkpoint)
  /\ \A i \in 1 .. Len(output) :
       ~output[i].cmd =>
         \/ /\ output[i].seq = SeqAfter[output[i].offset]
            /\ output[i].offset <= checkpoint
         \/ \E j \in 1 .. i - 1 : output[j].cmd
  /\ step # "idle" => ~output[1].cmd

Clean ==
  /\ Stored
  /\ phase = "up" /\ mode = "LIVE" => Live
  /\ phase = "up" /\ mode = "BLOCKED" => Blocked

IInv == TypeOK /\ Bounded /\ (NeverRejected => Clean)

-----------------------------------------------------------------------------
(***************************************************************************)
(* Facts about the queue.                                                  *)
(***************************************************************************)
\* Appending a result leaves the others where they are.
LEMMA AppendAt ==
  ASSUME NEW S, NEW s \in Seq(S), NEW x \in S
  PROVE  /\ Append(s, x) \in Seq(S)
         /\ Append(s, x) # <<>>
         /\ Len(Append(s, x)) = Len(s) + 1
         /\ Append(s, x)[Len(s) + 1] = x
         /\ \A i \in 1 .. Len(s) : Append(s, x)[i] = s[i]
  OBVIOUS

\* Taking the first result away moves the others up by one.
LEMMA TailAt ==
  ASSUME NEW S, NEW s \in Seq(S), s # <<>>
  PROVE  /\ Tail(s) \in Seq(S)
         /\ Len(s) \in Nat /\ Len(s) >= 1
         /\ Len(Tail(s)) = Len(s) - 1
         /\ Head(s) = s[1] /\ s[1] \in S
         /\ \A i \in 1 .. Len(s) - 1 : Tail(s)[i] = s[i + 1]
  OBVIOUS

\* The fields of a result.
LEMMA EntryType ==
  ASSUME NEW e \in Entry
  PROVE  e.offset \in 1 .. N /\ e.seq \in Nat
  BY DEF Entry

\* The results in the queue are results.
LEMMA QueueType ==
  ASSUME TypeOK, NEW i \in 1 .. Len(output)
  PROVE  /\ output[i] \in Entry
         /\ output[i].offset \in 1 .. N /\ output[i].seq \in Nat
  <1>1. output[i] \in Entry
    BY DEF TypeOK
  <1> QED BY <1>1, EntryType

\* What is published has its type.
LEMMA ResultsType ==
  ASSUME TypeOK, NEW e \in Entry, Results(e)
  PROVE  published' \subseteq (1 .. N) \X Nat /\ rejected' \subseteq 1 .. N
  <1>1. e.offset \in 1 .. N /\ e.seq \in Nat
    BY EntryType
  <1>2. <<e.offset, e.seq>> \in (1 .. N) \X Nat
    BY <1>1
  <1>3. published' \subseteq (1 .. N) \X Nat
    BY <1>2 DEF Results, TypeOK
  <1>4. rejected' \subseteq 1 .. N
    BY <1>1 DEF Results, TypeOK
  <1> QED BY <1>3, <1>4

\* A start from no snapshot is a start from the snapshot 0 at offset 0.
LEMMA CandidateType ==
  ASSUME TypeOK, NEW s \in SnapshotCandidates
  PROVE  /\ s.seq \in Nat /\ s.offset \in 0 .. N
         /\ s.offset <= checkpoint
         /\ SeqAfter[checkpoint] \in Nat /\ SeqAfter[s.offset] \in Nat
         /\ SeqAfter[s.offset] <= SeqAfter[checkpoint]
         /\ Replayed(s) \in Nat
  BY LogAssumption DEF TypeOK, SnapshotCandidates, Usable, Replayed

-----------------------------------------------------------------------------
(***************************************************************************)
(* Types and bounds.                                                       *)
(***************************************************************************)
\* The initial state has the types and the bounds.
LEMMA InitTypes == Init => TypeOK /\ Bounded
  <1> SUFFICES ASSUME Init PROVE TypeOK /\ Bounded
    OBVIOUS
  <1>1. TypeOK
    BY LogAssumption, LimitAssumption DEF Init, TypeOK
  <1>2. Bounded
    BY DEF Init, Bounded
  <1> QED BY <1>1, <1>2

\* The types of what survives a halt.
KeptTypes ==
  /\ hwm \in 0 .. N
  /\ lwm \in 1 .. hwm + 1
  /\ published \subseteq (1 .. N) \X Nat
  /\ rejected \subseteq 1 .. N
  /\ checkpoint \in 0 .. hwm
  /\ dbSequence \in Nat
  /\ snapshots \subseteq [seq : Nat, offset : 0 .. N]
  /\ depth \in Nat
  /\ faults \in 0 .. MaxFaults
  /\ stops \in 0 .. MaxStops

\* A halted process has the types and the bounds.
LEMMA HaltTypes == ASSUME Halt, KeptTypes' PROVE TypeOK' /\ Bounded'
  <1>1. /\ fetched' \in 0 .. hwm' /\ queued' \in 0 .. fetched' /\ applied' \in 0 .. fetched'
        /\ sequence' \in Nat /\ lastCommitted' \in 0 .. N /\ cached' \in Nat
        /\ seeded' \subseteq Nat
    BY LogAssumption DEF Halt, KeptTypes
  <1>2. output' \in Seq(Entry)
    BY DEF Halt
  <1>3. /\ phase' \in {"down", "up"} /\ mode' \in {"LIVE", "BLOCKED"}
        /\ step' \in {"idle", "depth", "commit"} /\ drain' \in {"no", "yes", "quit"}
    BY DEF Halt
  <1>4. stopping' \in BOOLEAN /\ drained' \in BOOLEAN
    BY Zenon DEF Halt
  <1>5. TypeOK'
    BY <1>1, <1>2, <1>3, <1>4 DEF TypeOK, KeptTypes
  <1>6. Bounded'
    BY DEF Halt, Bounded
  <1> QED BY <1>5, <1>6

\* Every step keeps the types and the bounds.
LEMMA TypesStep == TypeOK /\ Bounded /\ [Next]_vars => TypeOK' /\ Bounded'
  <1> SUFFICES ASSUME TypeOK, Bounded, [Next]_vars PROVE TypeOK' /\ Bounded'
    OBVIOUS
  <1> USE LogAssumption, LimitAssumption
  <1>1. CASE Produce
    <2>1. hwm' \in 0 .. N /\ hwm' >= hwm /\ lwm' \in 1 .. hwm' + 1
      BY <1>1 DEF Produce, TypeOK
    <2>2. /\ UNCHANGED <<published, rejected, checkpoint, dbSequence, snapshots>>
          /\ UNCHANGED <<depth, phase, mode, fetched, queued, applied, sequence, output>>
          /\ UNCHANGED <<step, lastCommitted, cached, seeded, stopping, drained, drain>>
          /\ UNCHANGED <<faults, stops>>
      BY <1>1 DEF Produce, db, memory, bounds
    <2>3. TypeOK'
      <3>1. checkpoint' \in 0 .. hwm' /\ fetched' \in 0 .. hwm'
        BY <2>1, <2>2 DEF TypeOK
      <3> QED BY <2>1, <2>2, <3>1 DEF TypeOK
    <2>4. Bounded'
      BY <2>2 DEF Bounded
    <2> QED BY <2>3, <2>4
  <1>2. CASE Purge
    <2>1. lwm' \in 1 .. hwm + 1
      BY <1>2 DEF Purge, TypeOK
    <2>2. /\ UNCHANGED <<hwm, published, rejected, checkpoint, dbSequence, snapshots>>
          /\ UNCHANGED <<depth, phase, mode, fetched, queued, applied, sequence, output>>
          /\ UNCHANGED <<step, lastCommitted, cached, seeded, stopping, drained, drain>>
          /\ UNCHANGED <<faults, stops>>
      BY <1>2 DEF Purge, db, memory, bounds
    <2>3. TypeOK'
      BY <2>1, <2>2 DEF TypeOK
    <2>4. Bounded'
      BY <2>2 DEF Bounded
    <2> QED BY <2>3, <2>4
  <1>3. CASE Fetch
    <2>1. fetched' \in 0 .. hwm /\ queued' \in 0 .. fetched' /\ applied' \in 0 .. fetched'
      BY <1>3 DEF Fetch, TypeOK
    <2>2. TypeOK'
      BY <1>3, <2>1 DEF Fetch, TypeOK, kafka, db, feed, halting, bounds
    <2>3. Bounded'
      <3>1. \A i \in 1 .. Len(output) : output[i].offset \in 1 .. N
        BY QueueType
      <3> QED BY <1>3, <3>1 DEF Fetch, TypeOK, Bounded
    <2> QED BY <2>2, <2>3
  <1>4. CASE Apply
    <2> DEFINE o == fetched - queued + 1
    <2> DEFINE seq == IF mode = "LIVE" THEN sequence + Delta(o) ELSE sequence
    <2>1. /\ o \in 1 .. N /\ o <= fetched /\ o > applied
          /\ queued' = queued - 1 /\ queued > 0 /\ queued \in 0 .. fetched
          /\ applied' = o /\ sequence' = seq
      BY <1>4 DEF Apply, TypeOK, Bounded
    <2>2. seq \in Nat
      BY <2>1 DEF Delta, TypeOK
    <2>3. PICK snap \in BOOLEAN :
            output' = Append(output, [offset |-> o, seq |-> seq, cmd |-> TRUE, snap |-> snap])
      BY <1>4, <2>1 DEF Apply, SnapshotDue
    <2> DEFINE e == [offset |-> o, seq |-> seq, cmd |-> TRUE, snap |-> snap]
    <2>4. e \in Entry
      BY <2>1, <2>2 DEF Entry
    <2>5. e.offset = o
      OBVIOUS
    <2> HIDE DEF o, seq, e
    <2>6. /\ output' \in Seq(Entry) /\ output' # <<>> /\ Len(output') = Len(output) + 1
          /\ output'[Len(output) + 1] = e
          /\ \A i \in 1 .. Len(output) : output'[i] = output[i]
      BY <2>3, <2>4, AppendAt DEF TypeOK, e
    <2>7. TypeOK'
      <3>1. /\ UNCHANGED <<hwm, lwm, published, rejected, checkpoint, dbSequence, snapshots>>
            /\ UNCHANGED <<depth, phase, mode, fetched, step, lastCommitted, cached, seeded>>
            /\ UNCHANGED <<stopping, drained, drain, faults, stops>>
        BY <1>4 DEF Apply, kafka, db, feed, halting, bounds
      <3>2. queued' \in 0 .. fetched' /\ applied' \in 0 .. fetched'
        BY <2>1, <3>1 DEF TypeOK
      <3> QED BY <2>1, <2>2, <2>6, <3>1, <3>2 DEF TypeOK
    <2>8. Bounded'
      <3>1. phase' = "up" /\ step' = step /\ fetched' = fetched
        BY <1>4 DEF Apply
      <3>2. applied' <= fetched' - queued'
        BY <2>1, <3>1 DEF TypeOK, o
      <3>3. \A i \in 1 .. Len(output') : output'[i].offset <= fetched'
        <4>1. \A i \in 1 .. Len(output) : output'[i].offset <= fetched'
          BY <2>6, <3>1 DEF Bounded
        <4>2. output'[Len(output) + 1].offset <= fetched'
          BY <2>1, <2>5, <2>6, <3>1
        <4>3. Len(output) \in Nat
          BY DEF TypeOK
        <4> QED BY <2>6, <4>1, <4>2, <4>3
      <3> QED BY <2>6, <3>1, <3>2, <3>3 DEF Bounded
    <2> QED BY <2>7, <2>8
  <1>5. CASE FinalSnapshot
    <2>1. CASE applied > 0
      <3> DEFINE e == [offset |-> applied, seq |-> sequence, cmd |-> FALSE, snap |-> TRUE]
      <3>1. e \in Entry /\ e.offset = applied
        BY <2>1 DEF TypeOK, Entry
      <3>2. output' = Append(output, e)
        BY <1>5, <2>1 DEF FinalSnapshot
      <3> HIDE DEF e
      <3>3. /\ output' \in Seq(Entry) /\ output' # <<>> /\ Len(output') = Len(output) + 1
            /\ output'[Len(output) + 1] = e
            /\ \A i \in 1 .. Len(output) : output'[i] = output[i]
        BY <3>1, <3>2, AppendAt DEF TypeOK
      <3>4. TypeOK'
        BY <1>5, <3>3 DEF FinalSnapshot, TypeOK, kafka, db, feed, bounds
      <3>5. Bounded'
        BY <1>5, <3>1, <3>3 DEF FinalSnapshot, TypeOK, Bounded
      <3> QED BY <3>4, <3>5
    <2>2. CASE ~(applied > 0)
      BY <1>5, <2>2 DEF FinalSnapshot, TypeOK, Bounded, kafka, db, feed, bounds
    <2> QED BY <2>1, <2>2
  <1>6. CASE PublishResult
    <2>1. Head(output) \in Entry
      BY <1>6, TailAt DEF PublishResult, Working, TypeOK
    <2>2. published' \subseteq (1 .. N) \X Nat /\ rejected' \subseteq 1 .. N
      BY <1>6, <2>1, ResultsType DEF PublishResult
    <2>3. TypeOK'
      BY <1>6, <2>2 DEF PublishResult, TypeOK, db, feed, halting, bounds
    <2>4. Bounded'
      BY <1>6 DEF PublishResult, Working, Bounded
    <2> QED BY <2>3, <2>4
  <1>7. CASE PushDepth
    BY <1>7, TailAt DEF PushDepth, Working, TypeOK, Bounded, kafka, db, feed, halting, bounds
  <1>8. CASE MarkDone
    <2>1. /\ output # <<>> /\ Head(output) = output[1] /\ output[1] \in Entry
          /\ Len(output) \in Nat /\ Len(output) >= 1
          /\ output' \in Seq(Entry) /\ Len(output') = Len(output) - 1
          /\ \A i \in 1 .. Len(output) - 1 : output'[i] = output[i + 1]
      BY <1>8, TailAt DEF MarkDone, Working, TypeOK
    <2>2. /\ output[1].offset \in 1 .. N /\ output[1].offset <= hwm
          /\ output[1].seq \in Nat
      <3>1. output[1].offset \in 1 .. N /\ output[1].seq \in Nat
        BY <2>1, QueueType
      <3>2. output[1].offset <= fetched /\ fetched <= hwm /\ fetched \in Nat /\ hwm \in Nat
        BY <2>1 DEF TypeOK, Bounded
      <3> QED BY <3>1, <3>2
    <2>3. Persist(output[1])
      BY <1>8, <2>1 DEF MarkDone
    <2>4. /\ checkpoint' \in 0 .. hwm /\ dbSequence' \in Nat
          /\ snapshots' \subseteq [seq : Nat, offset : 0 .. N]
      <3>1. checkpoint' \in 0 .. hwm /\ dbSequence' \in Nat
        BY <2>2, <2>3 DEF Persist, TypeOK
      <3>2. snapshots' \subseteq [seq : Nat, offset : 0 .. N]
        BY <2>2, <2>3 DEF Persist, TypeOK
      <3> QED BY <3>1, <3>2
    <2>5. lastCommitted' \in 0 .. N /\ cached' \in Nat
      BY <1>8, <2>1, <2>2 DEF MarkDone, TypeOK
    <2>6. TypeOK'
      BY <1>8, <2>1, <2>4, <2>5 DEF MarkDone, TypeOK, kafka, halting, bounds
    <2>7. Bounded'
      BY <1>8, <2>1 DEF MarkDone, Working, TypeOK, Bounded
    <2> QED BY <2>6, <2>7
  <1>9. CASE MarkDoneRefused
    <2>1. Halt
      BY <1>9 DEF MarkDoneRefused
    <2>2. KeptTypes'
      BY <1>9 DEF MarkDoneRefused, TypeOK, KeptTypes, kafka, db, bounds
    <2> QED BY <2>1, <2>2, HaltTypes
  <1>10. CASE PublisherSeesSignal
    BY <1>10 DEF PublisherSeesSignal, TypeOK, Bounded, kafka, db, feed, bounds
  <1>11. CASE DrainEnds
    BY <1>11 DEF DrainEnds, TypeOK, Bounded, kafka, db, feed, bounds
  <1>12. CASE Exit
    <2>1. Halt
      BY <1>12 DEF Exit
    <2>2. KeptTypes'
      BY <1>12 DEF Exit, TypeOK, KeptTypes, kafka, db, bounds
    <2> QED BY <2>1, <2>2, HaltTypes
  <1>13. CASE RecoverLive
    <2>1. PICK s \in SnapshotCandidates :
            /\ StartWith(Replayed(s))
            /\ dbSequence' = Replayed(s) /\ cached' = Replayed(s) /\ seeded' = {Replayed(s)}
            /\ depth' \in {Replayed(s), depth} /\ faults' \in 0 .. MaxFaults
      BY <1>13 DEF RecoverLive, Fault, TypeOK
    <2>2. Replayed(s) \in Nat
      BY CandidateType
    <2>3. fetched' = checkpoint /\ applied' = checkpoint /\ lastCommitted' \in 0 .. N
      BY <1>13 DEF RecoverLive, Baseline, TypeOK
    <2>4. TypeOK'
      <3>1. stopping' \in BOOLEAN /\ drained' \in BOOLEAN
        BY <2>1, Zenon DEF StartWith
      <3>2. /\ output' \in Seq(Entry) /\ phase' = "up" /\ step' = "idle" /\ drain' = "no"
            /\ mode' = "LIVE" /\ sequence' \in Nat /\ queued' = 0
        BY <1>13, <2>1, <2>2 DEF RecoverLive, StartWith
      <3>3. seeded' \subseteq Nat /\ depth' \in Nat /\ dbSequence' \in Nat /\ cached' \in Nat
        BY <2>1, <2>2 DEF TypeOK
      <3> QED BY <1>13, <2>1, <2>3, <3>1, <3>2, <3>3 DEF RecoverLive, TypeOK, kafka
    <2>5. Bounded'
      BY <2>1, <2>3 DEF StartWith, TypeOK, Bounded
    <2> QED BY <2>4, <2>5
  <1>14. CASE RecoverBlocked
    <2>1. PICK s \in SnapshotCandidates :
            /\ StartWith(IF LogHolds THEN s.seq ELSE 0)
            /\ applied' = IF LogHolds THEN s.offset ELSE 0
      BY <1>14 DEF RecoverBlocked
    <2>2. s.seq \in Nat /\ s.offset \in 0 .. N /\ s.offset <= checkpoint
      BY CandidateType
    <2>3. /\ fetched' \in 0 .. hwm /\ fetched' >= checkpoint
          /\ lastCommitted' \in 0 .. N /\ cached' = 0 /\ seeded' = {}
      BY <1>14 DEF RecoverBlocked, Baseline, TypeOK
    <2>4. applied' \in 0 .. fetched' /\ sequence' \in Nat /\ queued' = 0
      BY <2>1, <2>2, <2>3 DEF StartWith, TypeOK
    <2>5. TypeOK'
      <3>1. stopping' \in BOOLEAN /\ drained' \in BOOLEAN
        BY <2>1, Zenon DEF StartWith
      <3>2. /\ output' \in Seq(Entry) /\ phase' = "up" /\ step' = "idle" /\ drain' = "no"
            /\ mode' = "BLOCKED"
        BY <1>14, <2>1 DEF RecoverBlocked, StartWith
      <3> QED BY <1>14, <2>3, <2>4, <3>1, <3>2 DEF RecoverBlocked, TypeOK, kafka, db, bounds
    <2>6. Bounded'
      BY <2>1, <2>3, <2>4 DEF StartWith, TypeOK, Bounded
    <2> QED BY <2>5, <2>6
  <1>15. CASE Heartbeat
    BY <1>15 DEF Heartbeat, TypeOK, Bounded, kafka, db, memory, bounds
  <1>16. CASE FlushSeeded
    BY <1>16 DEF FlushSeeded, TypeOK, Bounded, kafka, db, halting, bounds
  <1>17. CASE Retain
    BY <1>17 DEF Retain, TypeOK, Bounded, kafka, memory, bounds
  <1>18. CASE CallFails
    <2>1. Halt
      BY <1>18 DEF CallFails
    <2>2. /\ Head(output) \in Entry
          /\ Head(output).offset \in 1 .. N /\ Head(output).offset <= hwm
          /\ Head(output).seq \in Nat
      <3>1. Head(output) = output[1] /\ 1 \in 1 .. Len(output) /\ output[1] \in Entry
        BY <1>18, TailAt DEF CallFails, Working, TypeOK
      <3>2. output[1].offset \in 1 .. N /\ output[1].seq \in Nat
        BY <3>1, QueueType
      <3> QED BY <3>1, <3>2 DEF TypeOK, Bounded
    <2>3. faults' \in 0 .. MaxFaults /\ hwm' = hwm /\ lwm' = lwm /\ stops' = stops
      BY <1>18 DEF CallFails, Fault, TypeOK
    <2>4. KeptTypes'
      <3>1. CASE Results(Head(output)) /\ UNCHANGED <<db, depth>>
        <4>1. published' \subseteq (1 .. N) \X Nat /\ rejected' \subseteq 1 .. N
          BY <2>2, <3>1, ResultsType
        <4> QED BY <2>3, <3>1, <4>1 DEF KeptTypes, TypeOK, db
      <3>2. CASE depth' = Head(output).seq /\ UNCHANGED <<published, rejected, db>>
        BY <2>2, <2>3, <3>2 DEF KeptTypes, TypeOK, db
      <3>3. CASE Persist(Head(output)) /\ UNCHANGED <<published, rejected, depth>>
        <4>1. /\ checkpoint' \in 0 .. hwm /\ dbSequence' \in Nat
              /\ snapshots' \subseteq [seq : Nat, offset : 0 .. N]
          BY <2>2, <3>3 DEF Persist, TypeOK
        <4> QED BY <2>3, <3>3, <4>1 DEF KeptTypes, TypeOK
      <3> QED BY <1>18, <3>1, <3>2, <3>3 DEF CallFails
    <2> QED BY <2>1, <2>4, HaltTypes
  <1>19. CASE PublisherCancelled
    <2>1. Halt
      BY <1>19 DEF PublisherCancelled
    <2>2. KeptTypes'
      BY <1>19 DEF PublisherCancelled, TypeOK, KeptTypes, kafka, db, bounds
    <2> QED BY <2>1, <2>2, HaltTypes
  <1>20. CASE Sigterm
    BY <1>20 DEF Sigterm, TypeOK, Bounded, kafka, db, feed
  <1>21. CASE Crash
    <2>1. Halt
      BY <1>21 DEF Crash
    <2>2. KeptTypes'
      BY <1>21 DEF Crash, Fault, TypeOK, KeptTypes, kafka, db
    <2> QED BY <2>1, <2>2, HaltTypes
  <1>22. CASE UNCHANGED vars
    BY <1>22 DEF vars, TypeOK, Bounded, kafka, db, memory, bounds
  <1> QED BY <1>1, <1>2, <1>3, <1>4, <1>5, <1>6, <1>7, <1>8, <1>9, <1>10, <1>11, <1>12,
             <1>13, <1>14, <1>15, <1>16, <1>17, <1>18, <1>19, <1>20, <1>21, <1>22
          DEF Next, Engine, Publisher, Recover

-----------------------------------------------------------------------------
(***************************************************************************)
(* What is stored and published.                                           *)
(***************************************************************************)
\* The first result of the queue, for the publisher at work.
LEMMA FirstEntry ==
  ASSUME TypeOK, output # <<>>
  PROVE  /\ 1 \in 1 .. Len(output) /\ Len(output) \in Nat
         /\ Head(output) = output[1]
         /\ output[1] \in Entry
         /\ output[1].offset \in 1 .. N /\ output[1].seq \in Nat
  <1>1. 1 \in 1 .. Len(output) /\ Len(output) \in Nat /\ Head(output) = output[1]
    BY TailAt DEF TypeOK
  <1> QED BY <1>1, QueueType

\* Publishing the first result of a market that rejects nothing keeps what is
\* stored in order, and covers the result.
LEMMA ResultsStored ==
  ASSUME IInv, Working, Results(Head(output)), NeverRejected', UNCHANGED db
  PROVE  /\ NeverRejected
         /\ Stored'
         /\ published \subseteq published'
         /\ mode = "BLOCKED" => ~output[1].cmd
         /\ mode = "LIVE" /\ output[1].cmd /\ output[1].offset \in Reporting =>
              <<output[1].offset, output[1].seq>> \in published'
  <1>1. output # <<>> /\ phase = "up" /\ TypeOK
    BY DEF Working, IInv
  <1>2. /\ 1 \in 1 .. Len(output) /\ Head(output) = output[1]
        /\ output[1].offset \in 1 .. N /\ output[1].seq \in Nat
    BY <1>1, FirstEntry
  <1>3. Results(output[1])
    BY <1>2
  <1>4. NeverRejected /\ (mode = "BLOCKED" => ~output[1].cmd)
    BY <1>3 DEF Results, NeverRejected
  <1>5. Clean
    BY <1>4 DEF IInv
  <1>6. mode = "LIVE" => output[1].seq = SeqAfter[output[1].offset]
    BY <1>1, <1>2, <1>5 DEF Clean, Live, LiveQueue, LiveAt
  <1>7. published \subseteq published'
    BY <1>3 DEF Results
  <1>8. \A r \in published' : r[2] = SeqAfter[r[1]]
    BY <1>2, <1>3, <1>5, <1>6 DEF Results, Clean, Stored
  <1>9. Stored'
    BY <1>5, <1>7, <1>8 DEF Clean, Stored, db
  <1> QED BY <1>3, <1>4, <1>7, <1>9 DEF Results

\* So does the transaction of the checkpoint.
LEMMA PersistStored ==
  ASSUME IInv, NeverRejected, Working, step # "idle", Persist(Head(output)),
         published' = published
  PROVE  /\ Stored'
         /\ mode = "LIVE" => checkpoint' = IF Advances(output[1]) THEN output[1].offset
                                                                 ELSE checkpoint
         /\ mode = "BLOCKED" => ~Advances(output[1]) /\ checkpoint' = checkpoint
  <1>1. output # <<>> /\ phase = "up" /\ TypeOK /\ Clean
    BY DEF Working, IInv
  <1>2. /\ 1 \in 1 .. Len(output) /\ Head(output) = output[1]
        /\ output[1].offset \in 1 .. N /\ output[1].seq \in Nat
    BY <1>1, FirstEntry
  <1> DEFINE e == output[1]
  <1>3. Persist(e)
    BY <1>2
  <1>4. /\ checkpoint \in Nat /\ lastCommitted \in Nat /\ mode \in {"LIVE", "BLOCKED"}
    BY <1>1, LogAssumption DEF TypeOK
  <1>5. /\ e.seq = SeqAfter[e.offset]
        /\ lastCommitted >= checkpoint
        /\ e.offset <= lastCommitted => e.offset <= checkpoint
        /\ Advances(e) => /\ mode = "LIVE" /\ checkpoint = lastCommitted
                          /\ e.offset \in Reporting => <<e.offset, e.seq>> \in published
    <2>1. CASE mode = "LIVE"
      <3>1. /\ e.seq = SeqAfter[e.offset]
            /\ e.cmd \/ (~e.cmd /\ e.offset = lastCommitted + 1 - 1)
            /\ e.cmd /\ e.offset \in Reporting => <<e.offset, e.seq>> \in published
            /\ lastCommitted = checkpoint
        BY <1>1, <1>2, <2>1 DEF Clean, Live, LiveQueue, LiveAt
      <3> QED BY <1>2, <1>4, <2>1, <3>1 DEF Advances
    <2>2. CASE mode = "BLOCKED"
      <3>1. /\ lastCommitted >= checkpoint /\ ~e.cmd
            /\ e.seq = SeqAfter[e.offset] /\ e.offset <= checkpoint
        BY <1>1, <1>2, <2>2 DEF Clean, Blocked
      <3> QED BY <1>2, <1>4, <3>1 DEF Advances
    <2> QED BY <1>4, <2>1, <2>2
  <1> HIDE DEF e
  <1>6. checkpoint' = IF Advances(e) THEN e.offset ELSE checkpoint
    BY <1>2, <1>3, <1>4, <1>5 DEF Persist, Advances, e
  <1>7. \A o \in Reporting : o <= checkpoint' => <<o, SeqAfter[o]>> \in published'
    <2> SUFFICES ASSUME NEW o \in Reporting, o <= checkpoint'
                 PROVE  <<o, SeqAfter[o]>> \in published
      OBVIOUS
    <2>1. o \in Nat
      BY LogAssumption
    <2>2. CASE o <= checkpoint
      BY <1>1, <2>2 DEF Clean, Stored
    <2>3. CASE ~(o <= checkpoint)
      <3>1. Advances(e) /\ o = e.offset
        BY <1>2, <1>4, <1>5, <1>6, <2>1, <2>3 DEF Advances, e
      <3> QED BY <1>5, <3>1
    <2> QED BY <2>2, <2>3
  <1>8. \A s \in snapshots' : s.seq = SeqAfter[s.offset] /\ s.offset <= checkpoint'
    <2> SUFFICES ASSUME NEW s \in snapshots'
                 PROVE  s.seq = SeqAfter[s.offset] /\ s.offset <= checkpoint'
      OBVIOUS
    <2>1. checkpoint <= checkpoint'
      BY <1>2, <1>4, <1>5, <1>6 DEF Advances, e
    <2>2. CASE s \in snapshots
      <3>1. s.offset \in 0 .. N
        BY <1>1, <2>2 DEF TypeOK
      <3>2. s.seq = SeqAfter[s.offset] /\ s.offset <= checkpoint
        BY <1>1, <2>2 DEF Clean, Stored
      <3>3. checkpoint' \in Nat
        BY <1>2, <1>4, <1>6 DEF e
      <3> QED BY <1>4, <2>1, <3>1, <3>2, <3>3
    <2>3. CASE s \notin snapshots
      <3>1. Writes(e) /\ s.seq = e.seq /\ s.offset = e.offset
        BY <1>3, <2>3 DEF Persist
      <3> QED BY <1>2, <1>4, <1>5, <1>6, <3>1 DEF Writes, Advances, e
    <2> QED BY <2>2, <2>3
  <1>9. Stored'
    BY <1>1, <1>7, <1>8 DEF Clean, Stored
  <1> QED BY <1>5, <1>6, <1>9 DEF e

-----------------------------------------------------------------------------
(***************************************************************************)
(* The rest of the invariant.                                              *)
(***************************************************************************)
\* A rejection is never taken back.
LEMMA RejectedGrows == [Next]_vars => rejected \subseteq rejected'
  BY DEF Next, Engine, Publisher, Recover, vars, kafka, db, memory, feed, halting, bounds,
         Produce, Purge, Fetch, Apply, FinalSnapshot, PublishResult, Results, PushDepth,
         MarkDone, MarkDoneRefused, PublisherSeesSignal, DrainEnds, Exit, RecoverLive,
         RecoverBlocked, Heartbeat, FlushSeeded, Retain, CallFails, PublisherCancelled,
         Sigterm, Crash

\* Of a halted process only what is stored is left.
LEMMA HaltClean == ASSUME Halt, Stored' PROVE Clean'
  BY DEF Halt, Clean

\* Every step of a market that rejects nothing keeps the rest of the invariant.
LEMMA CleanStep == ASSUME IInv, [Next]_vars, NeverRejected', TypeOK' PROVE Clean'
  <1>0. TypeOK /\ Bounded /\ NeverRejected /\ Clean
    BY RejectedGrows DEF IInv, NeverRejected
  <1>t. /\ checkpoint \in Nat /\ lastCommitted \in Nat /\ applied \in Nat
        /\ fetched \in Nat /\ queued \in Nat /\ Len(output) \in Nat
        /\ mode \in {"LIVE", "BLOCKED"}
    BY <1>0, LogAssumption DEF TypeOK
  <1> USE <1>0
  <1>1. CASE Produce
    BY <1>1 DEF Produce, Clean, Stored, Live, LiveQueue, LiveAt, Blocked, db, memory, bounds
  <1>2. CASE Purge
    BY <1>2 DEF Purge, Clean, Stored, Live, LiveQueue, LiveAt, Blocked, db, memory, bounds
  <1>3. CASE Fetch
    BY <1>3, <1>t DEF Fetch, Clean, Stored, Live, LiveQueue, LiveAt, Blocked, kafka, db, halting
  <1>4. CASE Apply
    <2> DEFINE o == fetched - queued + 1
    <2> DEFINE seq == IF mode = "LIVE" THEN sequence + Delta(o) ELSE sequence
    <2>1. /\ o \in 1 .. N /\ o <= fetched /\ o > applied
          /\ queued' = queued - 1 /\ queued > 0
          /\ applied' = o /\ sequence' = seq /\ phase = "up"
          /\ phase' = phase /\ mode' = mode /\ step' = step /\ fetched' = fetched
          /\ lastCommitted' = lastCommitted /\ drained' = drained /\ stopping' = stopping
      BY <1>4, LogAssumption DEF Apply, TypeOK, Bounded, halting
    <2>2. PICK snap \in BOOLEAN :
            output' = Append(output, [offset |-> o, seq |-> seq, cmd |-> TRUE, snap |-> snap])
      BY <1>4, <2>1 DEF Apply, SnapshotDue
    <2> DEFINE e == [offset |-> o, seq |-> seq, cmd |-> TRUE, snap |-> snap]
    <2>3. e \in Entry
      <3>1. seq \in Nat
        BY <2>1 DEF TypeOK
      <3> QED BY <2>1, <3>1 DEF Entry
    <2>4. e.offset = o /\ e.seq = seq /\ e.cmd
      OBVIOUS
    <2>5. mode = "LIVE" => seq = SeqAfter[o]
      BY <1>t, <2>1, LogAssumption DEF Delta, Clean, Live
    <2> HIDE DEF o, seq, e
    <2>6. /\ Len(output') = Len(output) + 1
          /\ output'[Len(output) + 1] = e
          /\ \A i \in 1 .. Len(output) : output'[i] = output[i]
      BY <2>2, <2>3, AppendAt DEF TypeOK, e
    <2>7. Stored'
      BY <1>4 DEF Apply, Clean, Stored, kafka, db
    <2>8. UNCHANGED <<checkpoint, published>>
      BY <1>4 DEF Apply, kafka, db
    <2>9. step # "idle" => 1 \in 1 .. Len(output) /\ output'[1] = output[1]
      BY <2>6, FirstEntry DEF Bounded
    <2>10. CASE mode = "LIVE"
      <3>1. /\ ~drained /\ o = lastCommitted + Len(output) + 1
            /\ o = fetched' - queued'
        BY <1>t, <2>1, <2>10 DEF Clean, Live, o
      <3>2. ASSUME NEW i \in 1 .. Len(output') PROVE LiveAt(i)'
        <4>1. CASE i \in 1 .. Len(output)
          <5>1. LiveAt(i) /\ output'[i] = output[i]
            BY <2>1, <2>6, <2>10, <4>1 DEF Clean, Live, LiveQueue
          <5> QED BY <2>1, <3>1, <5>1 DEF LiveAt
        <4>2. CASE i = Len(output) + 1
          BY <1>t, <2>1, <2>4, <2>5, <2>6, <2>10, <3>1, <4>2 DEF LiveAt
        <4> QED BY <1>t, <2>6, <4>1, <4>2
      <3>3. LiveQueue'
        BY <2>1, <2>8, <2>9, <2>10, <3>2 DEF Clean, Live, LiveQueue
      <3>4. Live'
        BY <1>t, <2>1, <2>5, <2>6, <2>8, <2>10, <3>1, <3>3 DEF Clean, Live
      <3> QED BY <2>1, <2>7, <2>10, <3>4 DEF Clean
    <2>11. CASE mode = "BLOCKED"
      <3>0. Blocked
        BY <2>1, <2>11 DEF Clean
      <3>1. Blocked'
        <4>1. lastCommitted' >= checkpoint' /\ (step' # "idle" => ~output'[1].cmd)
          BY <2>1, <2>8, <2>9, <3>0 DEF Blocked
        <4>2. Len(output') \in 1 .. Len(output') /\ output'[Len(output')].cmd
          BY <1>t, <2>4, <2>6
        <4>3. ASSUME NEW i \in 1 .. Len(output'), ~output'[i].cmd
              PROVE  \/ /\ output'[i].seq = SeqAfter[output'[i].offset]
                        /\ output'[i].offset <= checkpoint'
                     \/ \E j \in 1 .. i - 1 : output'[j].cmd
          <5>1. i \in 1 .. Len(output) /\ output'[i] = output[i]
            BY <1>t, <2>4, <2>6, <4>3
          <5>2. \A j \in 1 .. i - 1 : j \in 1 .. Len(output) /\ output'[j] = output[j]
            BY <1>t, <2>6, <5>1
          <5> QED BY <2>8, <3>0, <4>3, <5>1, <5>2 DEF Blocked
        <4> QED BY <4>1, <4>2, <4>3 DEF Blocked
      <3> QED BY <2>1, <2>7, <2>11, <3>1 DEF Clean
    <2> QED BY <1>t, <2>10, <2>11
  <1>5. CASE FinalSnapshot
    <2>1. /\ phase = "up" /\ phase' = "up" /\ mode' = mode /\ step' = step
          /\ drained' /\ ~drained /\ stopping /\ queued = 0
          /\ UNCHANGED <<fetched, queued, applied, sequence, lastCommitted, stopping,
                         checkpoint, published, snapshots>>
      BY <1>5 DEF FinalSnapshot, kafka, db
    <2>2. Stored'
      BY <2>1 DEF Clean, Stored
    <2>3. CASE applied > 0
      <3> DEFINE e == [offset |-> applied, seq |-> sequence, cmd |-> FALSE, snap |-> TRUE]
      <3>1. e \in Entry /\ e.offset = applied /\ e.seq = sequence /\ ~e.cmd
        <4>1. e \in Entry
          BY <2>3, LogAssumption DEF TypeOK, Entry
        <4> QED BY <4>1
      <3>2. output' = Append(output, e)
        BY <1>5, <2>3 DEF FinalSnapshot
      <3> HIDE DEF e
      <3>3. /\ Len(output') = Len(output) + 1
            /\ output'[Len(output) + 1] = e
            /\ \A i \in 1 .. Len(output) : output'[i] = output[i]
        BY <3>1, <3>2, AppendAt DEF TypeOK
      <3>4. step # "idle" => 1 \in 1 .. Len(output) /\ output'[1] = output[1]
        BY <3>3, FirstEntry DEF Bounded
      <3>5. CASE mode = "LIVE"
        <4>1. Live /\ applied = lastCommitted + Len(output)
          BY <2>1, <3>5 DEF Clean, Live
        <4>2. ASSUME NEW i \in 1 .. Len(output') PROVE LiveAt(i)'
          <5>1. CASE i \in 1 .. Len(output)
            <6>1. LiveAt(i) /\ output'[i] = output[i]
              BY <3>3, <4>1, <5>1 DEF Live, LiveQueue
            <6> QED BY <2>1, <6>1 DEF LiveAt
          <5>2. CASE i = Len(output) + 1
            BY <1>t, <2>1, <3>1, <3>3, <4>1, <5>2 DEF Live, LiveAt
          <5> QED BY <1>t, <3>3, <5>1, <5>2
        <4>3. LiveQueue'
          BY <2>1, <3>4, <4>1, <4>2 DEF Live, LiveQueue
        <4> QED BY <2>1, <2>2, <3>5, <4>1, <4>3 DEF Clean, Live
      <3>6. CASE mode = "BLOCKED"
        <4>0. Blocked
          BY <2>1, <3>6 DEF Clean
        <4>1. Blocked'
          <5>1. lastCommitted' >= checkpoint' /\ (step' # "idle" => ~output'[1].cmd)
            BY <2>1, <3>4, <4>0 DEF Blocked
          <5>2. \/ \E j \in 1 .. Len(output) : output[j].cmd
                \/ sequence = SeqAfter[applied] /\ applied <= checkpoint
            BY <1>t, <2>3, <4>0 DEF Blocked
          <5>3. (\A i \in 1 .. Len(output') : ~output'[i].cmd) =>
                  sequence' = SeqAfter[applied'] /\ applied' <= checkpoint'
            <6>1. \A j \in 1 .. Len(output) : j \in 1 .. Len(output') /\ output'[j] = output[j]
              BY <1>t, <3>3
            <6> QED BY <2>1, <5>2, <6>1
          <5>4. ASSUME NEW i \in 1 .. Len(output'), ~output'[i].cmd
                PROVE  \/ /\ output'[i].seq = SeqAfter[output'[i].offset]
                          /\ output'[i].offset <= checkpoint'
                       \/ \E j \in 1 .. i - 1 : output'[j].cmd
            <6>1. CASE i \in 1 .. Len(output)
              <7>1. \A j \in 1 .. i - 1 : output'[j] = output[j]
                BY <1>t, <3>3, <6>1
              <7> QED BY <2>1, <3>3, <4>0, <5>4, <6>1, <7>1 DEF Blocked
            <6>2. CASE i = Len(output) + 1
              <7>1. output'[i].seq = sequence /\ output'[i].offset = applied
                BY <3>1, <3>3, <6>2
              <7>2. \A j \in 1 .. Len(output) : j \in 1 .. i - 1 /\ output'[j] = output[j]
                BY <1>t, <3>3, <6>2
              <7> QED BY <2>1, <5>2, <7>1, <7>2
            <6> QED BY <1>t, <3>3, <6>1, <6>2
          <5> QED BY <5>1, <5>3, <5>4 DEF Blocked
        <4> QED BY <2>1, <2>2, <3>6, <4>1 DEF Clean
      <3> QED BY <1>t, <3>5, <3>6
    <2>4. CASE ~(applied > 0)
      <3>1. output' = output
        BY <1>5, <2>4 DEF FinalSnapshot
      <3>2. CASE mode = "LIVE"
        <4>1. LiveQueue'
          BY <1>t, <2>1, <3>1, <3>2 DEF Clean, Live, LiveQueue, LiveAt
        <4> QED BY <2>1, <2>2, <3>2, <4>1 DEF Clean, Live
      <3>3. CASE mode = "BLOCKED"
        <4>1. Blocked'
          BY <2>1, <3>1, <3>3 DEF Clean, Blocked
        <4> QED BY <2>1, <2>2, <3>3, <4>1 DEF Clean
      <3> QED BY <1>t, <3>2, <3>3
    <2> QED BY <2>3, <2>4
  <1>6. CASE PublishResult
    <2>1. /\ Working /\ Results(Head(output)) /\ UNCHANGED db
          /\ UNCHANGED <<mode, phase, fetched, queued, applied, sequence, output,
                         lastCommitted, drained, stopping, checkpoint>>
      BY <1>6 DEF PublishResult, db, halting
    <2>2. /\ Stored' /\ published \subseteq published'
          /\ mode = "BLOCKED" => ~output[1].cmd
          /\ mode = "LIVE" /\ output[1].cmd /\ output[1].offset \in Reporting =>
               <<output[1].offset, output[1].seq>> \in published'
      BY <2>1, ResultsStored
    <2>3. mode = "LIVE" => Live'
      BY <2>1, <2>2 DEF Working, Clean, Live, LiveQueue, LiveAt
    <2>4. mode = "BLOCKED" => Blocked'
      BY <2>1, <2>2 DEF Working, Clean, Blocked
    <2> QED BY <2>1, <2>2, <2>3, <2>4 DEF Clean
  <1>7. CASE PushDepth
    BY <1>7 DEF PushDepth, Clean, Stored, Live, LiveQueue, LiveAt, Blocked, kafka, db, halting
  <1>8. CASE MarkDone
    <2>1. /\ Working /\ step # "idle" /\ Persist(Head(output)) /\ published' = published
          /\ output' = Tail(output) /\ step' = "idle"
          /\ lastCommitted' = IF Advances(Head(output)) THEN Head(output).offset
                                                       ELSE lastCommitted
          /\ UNCHANGED <<mode, phase, fetched, queued, applied, sequence, drained, stopping>>
      BY <1>8 DEF MarkDone, kafka, halting
    <2>2. /\ Stored'
          /\ mode = "LIVE" => checkpoint' = IF Advances(output[1]) THEN output[1].offset
                                                                  ELSE checkpoint
          /\ mode = "BLOCKED" => ~Advances(output[1]) /\ checkpoint' = checkpoint
      BY <2>1, PersistStored
    <2>3. /\ Head(output) = output[1] /\ 1 \in 1 .. Len(output) /\ Len(output) >= 1
          /\ output[1].offset \in Nat
          /\ Len(output') = Len(output) - 1
          /\ \A i \in 1 .. Len(output) - 1 : output'[i] = output[i + 1]
      <3>1. output # <<>> /\ output \in Seq(Entry)
        BY <2>1 DEF Working, TypeOK
      <3>2. output[1].offset \in Nat
        BY <3>1, FirstEntry
      <3> QED BY <2>1, <3>1, <3>2, TailAt
    <2>4. CASE mode = "LIVE"
      <3>1. CASE output[1].cmd
        <4>1. output[1].offset = lastCommitted + 1
          BY <1>t, <2>1, <2>3, <2>4, <3>1 DEF Working, Clean, Live, LiveQueue, LiveAt
        <4>2. lastCommitted' = lastCommitted + 1 /\ checkpoint' = lastCommitted'
          BY <2>1, <2>2, <2>3, <2>4, <4>1 DEF Advances
        <4>3. LiveQueue'
          <5>1. ASSUME NEW i \in 1 .. Len(output') PROVE LiveAt(i)'
            <6>1. i + 1 \in 1 .. Len(output) /\ output'[i] = output[i + 1]
              BY <1>t, <2>3
            <6>2. LiveAt(i + 1)
              BY <2>1, <2>4, <6>1 DEF Working, Clean, Live, LiveQueue
            <6>3. /\ lastCommitted + (i + 1) = lastCommitted' + i
                  /\ lastCommitted + ((i + 1) - 1) = lastCommitted' + (i - 1)
                  /\ i + 1 = Len(output) => i = Len(output')
              BY <1>t, <2>3, <4>2
            <6>4. drained' = drained
              BY <2>1
            <6>5. output'[i].seq = SeqAfter[output'[i].offset]
              BY <6>1, <6>2 DEF LiveAt
            <6>6. CASE output[i + 1].cmd
              <7>1. output[i + 1].offset = lastCommitted + (i + 1)
                BY <6>2, <6>6 DEF LiveAt
              <7>2. output'[i].cmd /\ output'[i].offset = lastCommitted' + i
                BY <6>1, <6>3, <6>6, <7>1
              <7> QED BY <6>5, <7>2 DEF LiveAt
            <6>7. CASE ~output[i + 1].cmd
              <7>1. /\ drained /\ i + 1 = Len(output)
                    /\ output[i + 1].offset = lastCommitted + ((i + 1) - 1)
                BY <6>2, <6>7 DEF LiveAt
              <7>2. /\ ~output'[i].cmd /\ drained' /\ i = Len(output')
                    /\ output'[i].offset = lastCommitted' + (i - 1)
                BY <6>1, <6>3, <6>4, <6>7, <7>1
              <7> QED BY <6>5, <7>2 DEF LiveAt
            <6> QED BY <6>6, <6>7
          <5> QED BY <2>1, <5>1 DEF LiveQueue
        <4>4. Live'
          BY <1>t, <2>1, <2>3, <2>4, <4>2, <4>3 DEF Working, Clean, Live
        <4> QED BY <2>1, <2>2, <2>4, <4>4 DEF Clean
      <3>2. CASE ~output[1].cmd
        <4>1. Len(output) = 1 /\ drained /\ output[1].offset = lastCommitted
          <5>1. LiveAt(1)
            BY <2>1, <2>3, <2>4 DEF Working, Clean, Live, LiveQueue
          <5> QED BY <1>t, <2>3, <3>2, <5>1 DEF LiveAt
        <4>2. lastCommitted' = lastCommitted /\ checkpoint' = checkpoint
          BY <1>t, <2>1, <2>2, <2>3, <2>4, <4>1 DEF Advances
        <4>3. LiveQueue'
          <5>1. ASSUME NEW i \in 1 .. Len(output') PROVE FALSE
            BY <2>3, <4>1
          <5> QED BY <2>1, <5>1 DEF LiveQueue
        <4>4. Live'
          BY <2>1, <2>4, <4>1, <4>2, <4>3 DEF Working, Clean, Live
        <4> QED BY <2>1, <2>2, <2>4, <4>4 DEF Clean
      <3> QED BY <3>1, <3>2
    <2>5. CASE mode = "BLOCKED"
      <3>1. lastCommitted' = lastCommitted /\ checkpoint' = checkpoint
        BY <2>1, <2>2, <2>3, <2>5
      <3>2. ~output[1].cmd
        BY <2>1, <2>5 DEF Working, Clean, Blocked
      <3>3. (\A i \in 1 .. Len(output') : ~output'[i].cmd) =>
              \A i \in 1 .. Len(output) : ~output[i].cmd
        <4> SUFFICES ASSUME \A i \in 1 .. Len(output') : ~output'[i].cmd,
                            NEW i \in 1 .. Len(output)
                     PROVE  ~output[i].cmd
          OBVIOUS
        <4>1. CASE i = 1
          BY <3>2, <4>1
        <4>2. CASE i # 1
          <5>1. i - 1 \in 1 .. Len(output) - 1 /\ (i - 1) + 1 = i
            BY <1>t, <4>2
          <5> QED BY <2>3, <5>1
        <4> QED BY <4>1, <4>2
      <3>4. \A i \in 1 .. Len(output') :
              ~output'[i].cmd =>
                \/ output'[i].seq = SeqAfter[output'[i].offset] /\ output'[i].offset <= checkpoint
                \/ \E j \in 1 .. i - 1 : output'[j].cmd
        <4> SUFFICES ASSUME NEW i \in 1 .. Len(output) - 1, ~output[i + 1].cmd,
                            ~(/\ output[i + 1].seq = SeqAfter[output[i + 1].offset]
                              /\ output[i + 1].offset <= checkpoint)
                     PROVE  \E j \in 1 .. i - 1 : output'[j].cmd
          BY <2>3
        <4>1. i + 1 \in 1 .. Len(output) /\ (i + 1) - 1 = i
          BY <1>t
        <4>2. PICK j \in 1 .. i : output[j].cmd
          BY <2>1, <2>5, <4>1 DEF Working, Clean, Blocked
        <4>3. j # 1
          BY <3>2, <4>2
        <4>4. j - 1 \in 1 .. i - 1 /\ j - 1 \in 1 .. Len(output) - 1 /\ (j - 1) + 1 = j
          BY <1>t, <4>3
        <4>5. output'[j - 1] = output[j]
          BY <2>3, <4>4
        <4> QED BY <4>2, <4>4, <4>5
      <3>5. Blocked'
        BY <2>1, <2>5, <3>1, <3>3, <3>4 DEF Working, Clean, Blocked
      <3> QED BY <2>1, <2>2, <2>5, <3>5 DEF Clean
    <2> QED BY <1>t, <2>4, <2>5
  <1>9. CASE MarkDoneRefused
    BY <1>9, HaltClean DEF MarkDoneRefused, Clean, Stored, kafka, db
  <1>10. CASE PublisherSeesSignal
    BY <1>10 DEF PublisherSeesSignal, Clean, Stored, Live, LiveQueue, LiveAt, Blocked, kafka, db, feed
  <1>11. CASE DrainEnds
    BY <1>11 DEF DrainEnds, Clean, Stored, Live, LiveQueue, LiveAt, Blocked, kafka, db, feed
  <1>12. CASE Exit
    BY <1>12, HaltClean DEF Exit, Clean, Stored, kafka, db
  <1>13. CASE RecoverLive
    <2>1. PICK s \in SnapshotCandidates : StartWith(Replayed(s))
      BY <1>13 DEF RecoverLive
    <2>2. /\ s.offset \in 0 .. N /\ s.seq \in Nat
          /\ SeqAfter[checkpoint] \in Nat /\ SeqAfter[s.offset] \in Nat
      BY CandidateType
    <2>3. s.seq = SeqAfter[s.offset]
      BY LogAssumption DEF SnapshotCandidates, Usable, Clean, Stored
    <2>4. Replayed(s) = SeqAfter[checkpoint]
      BY <2>2, <2>3 DEF Replayed
    <2>5. /\ sequence' = SeqAfter[checkpoint] /\ queued' = 0 /\ output' = <<>>
          /\ step' = "idle" /\ ~drained' /\ phase' = "up"
      BY <2>1, <2>4 DEF StartWith
    <2>6. /\ applied' = checkpoint /\ fetched' = checkpoint /\ mode' = "LIVE"
          /\ checkpoint' = checkpoint /\ published' = published /\ snapshots' = snapshots
      BY <1>13 DEF RecoverLive, kafka
    <2>7. lastCommitted' = checkpoint
      <3>1. CanReplay(s) \/ \E t \in SnapshotCandidates : CanReplay(t)
        BY <1>13 DEF RecoverLive
      <3>2. checkpoint = 0 => hwm = 0
        BY <3>1 DEF CanReplay, LogHolds
      <3> QED BY <1>13, <3>2 DEF RecoverLive, Baseline, TypeOK
    <2>8. LiveQueue'
      BY <2>5 DEF LiveQueue
    <2>9. Live'
      BY <1>t, <2>5, <2>6, <2>7, <2>8 DEF Live
    <2> QED BY <2>5, <2>6, <2>9 DEF Clean, Stored
  <1>14. CASE RecoverBlocked
    <2>1. PICK s \in SnapshotCandidates :
            /\ StartWith(IF LogHolds THEN s.seq ELSE 0)
            /\ applied' = IF LogHolds THEN s.offset ELSE 0
      BY <1>14 DEF RecoverBlocked
    <2>2. s.offset <= checkpoint
      BY CandidateType
    <2>3. s.seq = SeqAfter[s.offset]
      BY LogAssumption DEF SnapshotCandidates, Usable, Clean, Stored
    <2>4. output' = <<>> /\ step' = "idle" /\ phase' = "up"
      BY <2>1 DEF StartWith
    <2>5. /\ mode' = "BLOCKED" /\ lastCommitted' >= checkpoint
          /\ checkpoint' = checkpoint /\ published' = published /\ snapshots' = snapshots
      BY <1>14, <1>t DEF RecoverBlocked, Baseline, TypeOK, kafka, db
    <2>6. applied' = 0 \/ (sequence' = SeqAfter[applied'] /\ applied' <= checkpoint)
      BY <2>1, <2>2, <2>3 DEF StartWith
    <2>7. Blocked'
      BY <2>4, <2>5, <2>6 DEF Blocked
    <2> QED BY <2>4, <2>5, <2>7 DEF Clean, Stored
  <1>15. CASE Heartbeat
    BY <1>15 DEF Heartbeat, Clean, Stored, Live, LiveQueue, LiveAt, Blocked, kafka, db, memory
  <1>16. CASE FlushSeeded
    BY <1>16 DEF FlushSeeded, Clean, Stored, Live, LiveQueue, LiveAt, Blocked, kafka, db, halting
  <1>17. CASE Retain
    <2>1. snapshots' \subseteq snapshots
      BY <1>17 DEF Retain
    <2> QED BY <1>17, <2>1 DEF Retain, Clean, Stored, Live, LiveQueue, LiveAt, Blocked, kafka, memory
  <1>18. CASE CallFails
    <2>1. Halt /\ Working
      BY <1>18 DEF CallFails
    <2>2. CASE Results(Head(output)) /\ UNCHANGED <<db, depth>>
      BY <2>1, <2>2, ResultsStored, HaltClean
    <2>3. CASE depth' = Head(output).seq /\ UNCHANGED <<published, rejected, db>>
      BY <2>1, <2>3, HaltClean DEF Clean, Stored, db
    <2>4. CASE step = "commit" /\ Persist(Head(output)) /\ UNCHANGED <<published, rejected, depth>>
      BY <2>1, <2>4, PersistStored, HaltClean
    <2> QED BY <1>18, <2>2, <2>3, <2>4 DEF CallFails
  <1>19. CASE PublisherCancelled
    BY <1>19, HaltClean DEF PublisherCancelled, Clean, Stored, kafka, db
  <1>20. CASE Sigterm
    BY <1>20 DEF Sigterm, Clean, Stored, Live, LiveQueue, LiveAt, Blocked, kafka, db, feed
  <1>21. CASE Crash
    BY <1>21, HaltClean DEF Crash, Clean, Stored, kafka, db
  <1>22. CASE UNCHANGED vars
    BY <1>22 DEF vars, Clean, Stored, Live, LiveQueue, LiveAt, Blocked, kafka, db, memory, bounds
  <1> QED BY <1>1, <1>2, <1>3, <1>4, <1>5, <1>6, <1>7, <1>8, <1>9, <1>10, <1>11, <1>12,
             <1>13, <1>14, <1>15, <1>16, <1>17, <1>18, <1>19, <1>20, <1>21, <1>22
          DEF Next, Engine, Publisher, Recover

-----------------------------------------------------------------------------
(***************************************************************************)
(* The theorems.                                                           *)
(***************************************************************************)
\* IInv holds in every reachable state, for every log and every bound.
THEOREM Invariance == Spec => []IInv
  <1>1. Init => IInv
    <2> SUFFICES ASSUME Init PROVE IInv
      OBVIOUS
    <2>1. TypeOK /\ Bounded
      BY InitTypes
    <2>2. Stored
      BY LogAssumption DEF Init, Stored
    <2>3. Clean
      BY <2>2 DEF Init, Clean
    <2> QED BY <2>1, <2>3 DEF IInv
  <1>2. IInv /\ [Next]_vars => IInv'
    <2> SUFFICES ASSUME IInv, [Next]_vars PROVE IInv'
      OBVIOUS
    <2>1. TypeOK' /\ Bounded'
      BY TypesStep DEF IInv
    <2>2. NeverRejected' => Clean'
      BY <2>1, CleanStep
    <2> QED BY <2>1, <2>2 DEF IInv
  <1> QED BY <1>1, <1>2, PTL DEF Spec

\* Every variable keeps its type; checkpoint and intake stay inside the log.
THEOREM TypeCorrect == Spec => []TypeOK
  <1>1. IInv => TypeOK
    BY DEF IInv
  <1> QED BY <1>1, Invariance, PTL

\* Recovery rebuilds the book: a live engine's book is the replay of the log up
\* to the last applied command, whatever crashed, failed or was purged before.
THEOREM RecoveredBook == Spec => []BookIsReplay
  <1>1. IInv => BookIsReplay
    BY DEF IInv, Clean, Live, BookIsReplay
  <1> QED BY <1>1, Invariance, PTL

\* No result is lost: what the checkpoint covers has been published.
THEOREM NoResultLost == Spec => []CheckpointCovers
  <1>1. IInv => CheckpointCovers
    BY DEF IInv, Clean, Stored, CheckpointCovers
  <1> QED BY <1>1, Invariance, PTL

\* A command executed again publishes the numbers of its first execution.
THEOREM StableResults == Spec => []ResultsStable
  <1>1. IInv => ResultsStable
    BY DEF IInv, Clean, Stored, ResultsStable
  <1> QED BY <1>1, Invariance, PTL

\* Book, checkpoint and published results belong together, for any log of commands and
\* whatever crashed, failed, was drained or purged before.
THEOREM SoundRecovery == Spec => []RecoverySound
  <1>1. BookIsReplay /\ CheckpointCovers /\ ResultsStable => RecoverySound
    BY DEF RecoverySound
  <1> QED BY <1>1, RecoveredBook, NoResultLost, StableResults, PTL

-----------------------------------------------------------------------------
(***************************************************************************)
(* Snapshots, also of a market that has rejected commands.                 *)
(***************************************************************************)
\* A blocked start without a checkpoint puts the watermark behind commands that
\* Kafka no longer has.  Until the first command moves the checkpoint there, all
\* that the queue holds comes after it, so that it stores no snapshot before.
Ahead ==
  phase = "up" /\ lastCommitted > checkpoint =>
    /\ fetched - queued >= lastCommitted
    /\ applied = 0 \/ applied > lastCommitted
    /\ \A i \in 1 .. Len(output) : output[i].offset > lastCommitted

Usables == \A s \in snapshots : s.offset <= checkpoint

\* A transaction that stores a snapshot stores or finds a checkpoint beyond it.
LEMMA PersistBehind ==
  ASSUME TypeOK, Usables, Ahead, Working, Persist(Head(output))
  PROVE  /\ Usables'
         /\ checkpoint' >= checkpoint
         /\ Advances(Head(output)) => Head(output).offset <= checkpoint'
  <1> DEFINE e == Head(output)
  <1>1. e = output[1] /\ e \in Entry /\ 1 \in 1 .. Len(output)
    BY TailAt DEF Working, TypeOK
  <1>2. e.offset \in 1 .. N /\ e.seq \in Nat
    BY <1>1, EntryType
  <1>3. /\ checkpoint \in Nat /\ lastCommitted \in Nat /\ N \in Nat
        /\ checkpoint' = IF Advances(e) /\ e.offset > checkpoint THEN e.offset ELSE checkpoint
        /\ snapshots' = IF Writes(e) /\ e.snap
                        THEN snapshots \cup {[seq |-> e.seq, offset |-> e.offset]} ELSE snapshots
    BY LogAssumption DEF TypeOK, Persist
  <1>4. lastCommitted > checkpoint => e.offset > lastCommitted
    BY <1>1 DEF Ahead, Working
  <1> HIDE DEF e
  <1>5. checkpoint' >= checkpoint /\ (Advances(e) => e.offset <= checkpoint')
    BY <1>2, <1>3
  <1>6. Writes(e) => e.offset <= checkpoint'
    BY <1>2, <1>3, <1>4, <1>5 DEF Writes
  <1>7. snapshots \subseteq [seq : Nat, offset : 0 .. N]
    BY DEF TypeOK
  <1>8. ASSUME NEW s \in snapshots' PROVE s.offset <= checkpoint'
    <2>1. CASE s \in snapshots
      <3>1. s.offset \in 0 .. N /\ s.offset <= checkpoint
        BY <1>7, <2>1 DEF Usables
      <3>2. checkpoint' \in Nat
        BY <1>2, <1>3
      <3> QED BY <1>3, <1>5, <3>1, <3>2
    <2>2. CASE s \notin snapshots
      <3>1. Writes(e) /\ s = [seq |-> e.seq, offset |-> e.offset]
        BY <1>3, <2>2
      <3> QED BY <1>6, <3>1
    <2> QED BY <2>1, <2>2
  <1> QED BY <1>5, <1>8 DEF Usables, e

\* Every step keeps both.
LEMMA BehindStep ==
  ASSUME IInv, Usables, Ahead, [Next]_vars
  PROVE  Usables' /\ Ahead'
  <1> USE DEF IInv
  <1>0. /\ checkpoint \in Nat /\ lastCommitted \in Nat /\ fetched \in Nat /\ queued \in Nat
        /\ applied \in Nat /\ hwm \in Nat /\ lwm \in Nat /\ lwm >= 1 /\ lwm <= hwm + 1
        /\ output \in Seq(Entry) /\ Len(output) \in Nat
    BY LogAssumption DEF TypeOK
  <1>1. ASSUME Halt, Usables' PROVE Usables' /\ Ahead'
    BY <1>1 DEF Halt, Ahead
  <1>2. ASSUME UNCHANGED <<snapshots, checkpoint>> PROVE Usables'
    BY <1>2 DEF Usables
  <1>3. ASSUME UNCHANGED <<snapshots, checkpoint, phase, fetched, queued, applied, output,
                           lastCommitted>>
        PROVE  Usables' /\ Ahead'
    BY <1>3 DEF Usables, Ahead
  <1>4. CASE Produce \/ Purge \/ PublishResult \/ PushDepth \/ Heartbeat \/ FlushSeeded
    BY <1>3, <1>4 DEF Produce, Purge, PublishResult, PushDepth, Heartbeat, FlushSeeded,
                      kafka, db, feed, halting, memory, bounds
  <1>5. CASE Sigterm \/ PublisherSeesSignal \/ DrainEnds \/ UNCHANGED vars
    BY <1>3, <1>5 DEF Sigterm, PublisherSeesSignal, DrainEnds, vars,
                      kafka, db, feed, halting, memory, bounds
  <1>6. CASE MarkDoneRefused \/ PublisherCancelled \/ Exit \/ Crash
    <2>1. Halt /\ UNCHANGED <<snapshots, checkpoint>>
      BY <1>6 DEF MarkDoneRefused, PublisherCancelled, Exit, Crash, db
    <2> QED BY <1>1, <1>2, <2>1
  <1>7. CASE CallFails
    <2>1. Halt /\ Working
      BY <1>7 DEF CallFails
    <2>2. UNCHANGED <<snapshots, checkpoint>> \/ Persist(Head(output))
      BY <1>7 DEF CallFails, db
    <2> QED BY <1>1, <1>2, <2>1, <2>2, PersistBehind
  <1>8. CASE Fetch
    <2>1. /\ UNCHANGED <<snapshots, checkpoint, phase, applied, output, lastCommitted>>
          /\ fetched' = fetched + 1 /\ queued' = queued + 1
      BY <1>8 DEF Fetch, kafka, db
    <2>2. fetched' - queued' = fetched - queued
      BY <1>0, <2>1
    <2> QED BY <1>2, <2>1, <2>2 DEF Ahead
  <1>9. CASE Apply
    <2> DEFINE o == fetched - queued + 1
    <2>1. /\ UNCHANGED <<snapshots, checkpoint, phase, fetched, lastCommitted>>
          /\ queued' = queued - 1 /\ o \in 1 .. N
          /\ applied' = IF o > applied THEN o ELSE applied
      BY <1>9, LogAssumption DEF Apply, db, TypeOK
    <2>2. PICK e : output' = Append(output, e) /\ e.offset = o /\ e \in Entry
      <3>1. PICK snap \in BOOLEAN :
              output' = Append(output, [offset |-> o, seq |-> sequence', cmd |-> o > applied,
                                        snap |-> o > applied /\ snap])
        BY <1>9 DEF Apply, SnapshotDue
      <3>2. sequence' \in Nat
        BY <1>9, TypesStep DEF TypeOK
      <3> DEFINE c == o > applied
                 d == o > applied /\ snap
                 e == [offset |-> o, seq |-> sequence', cmd |-> c, snap |-> d]
      <3>3. c \in BOOLEAN /\ d \in BOOLEAN
        OBVIOUS
      <3>4. output' = Append(output, e)
        BY <3>1
      <3> HIDE DEF c, d
      <3>5. e \in Entry /\ e.offset = o
        BY <2>1, <3>2, <3>3 DEF Entry
      <3> QED BY <3>4, <3>5
    <2>3. /\ Len(output') = Len(output) + 1 /\ output'[Len(output) + 1] = e
          /\ \A i \in 1 .. Len(output) : output'[i] = output[i]
      BY <1>0, <2>2, AppendAt
    <2>4. ASSUME phase' = "up", lastCommitted' > checkpoint' PROVE Ahead'
      <3>1. /\ fetched - queued >= lastCommitted
            /\ \A i \in 1 .. Len(output) : output[i].offset > lastCommitted
            /\ applied = 0 \/ applied > lastCommitted
        BY <2>1, <2>4 DEF Ahead
      <3>2. o > lastCommitted
        BY <1>0, <3>1
      <3>3. fetched' - queued' >= lastCommitted'
        BY <1>0, <2>1, <3>1
      <3>4. applied' > lastCommitted'
        BY <1>0, <2>1, <3>1, <3>2
      <3>5. \A i \in 1 .. Len(output') : output'[i].offset > lastCommitted'
        BY <1>0, <2>1, <2>2, <2>3, <3>1, <3>2
      <3> QED BY <3>3, <3>4, <3>5 DEF Ahead
    <2> QED BY <1>2, <2>1, <2>4 DEF Ahead
  <1>10. CASE FinalSnapshot
    <2>1. UNCHANGED <<snapshots, checkpoint, phase, fetched, queued, applied, lastCommitted>>
      BY <1>10 DEF FinalSnapshot, db
    <2>2. CASE applied > 0
      <3> DEFINE final == [offset |-> applied, seq |-> sequence, cmd |-> FALSE, snap |-> TRUE]
      <3>0. /\ output' = Append(output, final) /\ final.offset = applied
            /\ final \in Entry
        BY <1>10, <2>2, LogAssumption DEF FinalSnapshot, Entry, TypeOK
      <3>1. PICK e : output' = Append(output, e) /\ e.offset = applied /\ e \in Entry
        BY <3>0
      <3>2. /\ Len(output') = Len(output) + 1 /\ output'[Len(output) + 1] = e
            /\ \A i \in 1 .. Len(output) : output'[i] = output[i]
        BY <1>0, <3>1, AppendAt
      <3> QED BY <1>0, <1>2, <2>1, <2>2, <3>1, <3>2 DEF Ahead
    <2>3. CASE ~(applied > 0)
      BY <1>3, <1>10, <2>1, <2>3 DEF FinalSnapshot
    <2> QED BY <2>2, <2>3
  <1>11. CASE MarkDone
    <2>1. Working /\ Persist(Head(output))
      BY <1>11 DEF MarkDone
    <2>2. /\ Usables' /\ checkpoint' >= checkpoint
          /\ Advances(Head(output)) => Head(output).offset <= checkpoint'
      BY <2>1, PersistBehind
    <2>3. /\ UNCHANGED <<phase, fetched, queued, applied>>
          /\ lastCommitted' = IF Advances(Head(output)) THEN Head(output).offset ELSE lastCommitted
          /\ output' = Tail(output)
      BY <1>11 DEF MarkDone
    <2>4. /\ Len(output') = Len(output) - 1
          /\ \A i \in 1 .. Len(output) - 1 : output'[i] = output[i + 1]
      BY <1>0, <2>1, <2>3, TailAt DEF Working
    <2>5. checkpoint' \in Nat
      BY <1>11, TypesStep DEF TypeOK
    <2>6. CASE Advances(Head(output))
      <3>1. lastCommitted' <= checkpoint' /\ lastCommitted' \in Nat
        BY <1>0, <2>2, <2>3, <2>6 DEF Advances
      <3> QED BY <2>2, <2>5, <3>1 DEF Ahead
    <2>7. CASE ~Advances(Head(output))
      BY <1>0, <2>2, <2>3, <2>4, <2>5, <2>7 DEF Ahead
    <2> QED BY <2>6, <2>7
  <1>12. CASE Retain
    <2>1. /\ UNCHANGED <<checkpoint, phase, fetched, queued, applied, output, lastCommitted>>
          /\ snapshots' \subseteq snapshots
      BY <1>12 DEF Retain, memory
    <2> QED BY <2>1 DEF Usables, Ahead
  <1>13. CASE RecoverLive
    <2>1. /\ LogHolds /\ lastCommitted' = Baseline
          /\ UNCHANGED <<checkpoint, snapshots>>
      BY <1>13 DEF RecoverLive, CanReplay
    <2>2. lastCommitted' <= checkpoint'
      BY <1>0, <2>1 DEF LogHolds, Baseline
    <2>3. lastCommitted' \in Nat
      BY <1>13, TypesStep, LogAssumption DEF TypeOK
    <2> QED BY <1>0, <1>2, <2>1, <2>2, <2>3 DEF Ahead
  <1>14. CASE RecoverBlocked
    <2>1. /\ UNCHANGED <<checkpoint, snapshots>> /\ lastCommitted' = Baseline
          /\ fetched' = IF checkpoint + 1 < lwm THEN lwm - 1 ELSE checkpoint
          /\ queued' = 0 /\ output' = <<>>
      BY <1>14 DEF RecoverBlocked, StartWith, db
    <2>2. CASE checkpoint # 0
      BY <1>0, <1>2, <2>1, <2>2 DEF Baseline, Ahead
    <2>3. CASE checkpoint = 0
      <3>1. PICK s \in SnapshotCandidates :
              ~CanReplay(s) /\ applied' = IF LogHolds THEN s.offset ELSE 0
        BY <1>14 DEF RecoverBlocked
      <3>2. s.offset \in 0 .. N /\ s.offset <= checkpoint
        BY <3>1, CandidateType
      <3>3. applied' = 0
        BY <2>3, <3>1, <3>2
      <3>4. fetched' - queued' >= lastCommitted'
        BY <1>0, <2>1, <2>3 DEF Baseline
      <3> QED BY <1>2, <2>1, <3>3, <3>4 DEF Ahead
    <2> QED BY <2>2, <2>3
  <1> QED
    BY <1>4, <1>5, <1>6, <1>7, <1>8, <1>9, <1>10, <1>11, <1>12, <1>13, <1>14
       DEF Next, Engine, Publisher, Recover

\* The next start can use every stored snapshot, whatever fails and whatever a
\* blocked market has rejected: none is ahead of the checkpoint (checkpoint.go,
\* replayPartition); and unless commands were rejected each is the book at its offset.
THEOREM FaithfulSnapshots == Spec => []SnapshotsFaithful
<1>1. Init => Usables /\ Ahead
  BY DEF Init, Usables, Ahead
<1>2. Usables /\ Ahead /\ IInv /\ [Next]_vars => Usables' /\ Ahead'
  BY BehindStep
<1>3. IInv /\ Usables => SnapshotsFaithful
  BY DEF IInv, Clean, Stored, Usables, SnapshotsFaithful
<1> QED BY <1>1, <1>2, <1>3, Invariance, PTL DEF Spec
=============================================================================
