----------------------------- MODULE Settlement -----------------------------
(***************************************************************************)
(* The settlement service: the consumer of trades.executed drives the      *)
(* three-phase pipeline of service.Settle, a recovery goroutine retries    *)
(* rows that stay PENDING, and the wallet moves the funds, at most once    *)
(* per trade (services/settlement).                                        *)
(*                                                                         *)
(* Both workers hold no database connection during the wallet call, so any *)
(* step of the other may fall between two of theirs.  A call that times    *)
(* out may still commit at the wallet later.  Database errors, lost        *)
(* replies, timeouts, failed commits and crashes are faults; MaxFaults     *)
(* bounds them.  Time is abstracted: a PENDING row may be stale and due at *)
(* any moment.                                                             *)
(***************************************************************************)
EXTENDS Naturals, Sequences, FiniteSets

CONSTANTS
  Trades,      \* trade ids
  Log,         \* the partition of trades.executed: trade ids, repeats allowed
  SelfTrades,  \* trades whose buyer is their seller
  Refused,     \* trades the wallet refuses with an error worth retrying
  Released,    \* trades the wallet refuses with a permanent error
  RetryLimit,  \* the retry count at which the recovery gives up (4)
  MaxFaults    \* bound on the faults of a behaviour

ASSUME LogAssumption   == Log \in Seq(Trades)
ASSUME ClassAssumption == /\ SelfTrades \subseteq Trades
                          /\ Refused \subseteq Trades
                          /\ Released \subseteq Trades
                          /\ Refused \cap Released = {}
ASSUME BoundAssumption == RetryLimit \in Nat /\ MaxFaults \in Nat

Workers == {"consumer", "recovery"}

VARIABLES
  row,        \* settled_trades.status by trade, "NONE" without a row
  retry,      \* settled_trades.retry_count
  moved,      \* the trades whose funds the wallet has moved
  orphans,    \* timed-out calls that may still commit at the wallet
  next,       \* the consumer's position in the log
  committed,  \* the committed offset of the consumer group
  pc,         \* what each worker does next
  cur,        \* the trade each worker holds
  batch,      \* rows of FindStalePending not yet retried: <<trade, retry_count>>
  snap,       \* retry_count of the row in hand, as FindStalePending read it
  permanent,  \* the recovery's last error is permanent
  faults      \* faults so far

ledger == <<row, retry>>
wallet == <<moved, orphans>>
kafka  == <<next, committed>>
rec    == <<batch, snap, permanent>>
vars   == <<row, retry, moved, orphans, next, committed, pc, cur, batch, snap,
            permanent, faults>>

Fault == faults < MaxFaults /\ faults' = faults + 1

GoTo(w, step) == pc' = [pc EXCEPT ![w] = step]

-----------------------------------------------------------------------------
(***************************************************************************)
(* The consumer.  An error makes it fetch the next message without a       *)
(* commit; committing a later message commits the skipped one with it.     *)
(***************************************************************************)
FetchMessage ==
  /\ pc["consumer"] = "idle"
  /\ next < Len(Log)
  /\ next' = next + 1
  /\ cur' = [cur EXCEPT !["consumer"] = Log[next + 1]]
  /\ GoTo("consumer", IF Log[next + 1] \in SelfTrades THEN "ack" ELSE "find")
  /\ UNCHANGED <<ledger, wallet, committed, rec, faults>>

\* FindByTradeID: a settled trade is acknowledged, a trade with a PENDING or a
\* FAILED row goes to the wallet again, a new one gets its row first.
FindByTradeID ==
  /\ pc["consumer"] = "find"
  /\ GoTo("consumer", CASE row[cur["consumer"]] = "SETTLED" -> "ack"
                        [] row[cur["consumer"]] = "NONE" -> "insert"
                        [] OTHER -> "call")
  /\ UNCHANGED <<ledger, wallet, kafka, cur, rec, faults>>

\* Phase 1: INSERT ... ON CONFLICT DO NOTHING.
Insert ==
  /\ pc["consumer"] = "insert"
  /\ row' = [row EXCEPT ![cur["consumer"]] = IF @ = "NONE" THEN "PENDING" ELSE @]
  /\ GoTo("consumer", "call")
  /\ UNCHANGED <<retry, wallet, kafka, cur, rec, faults>>

\* A database error in FindByTradeID, Insert or MarkSettled: not committed.
ConsumerSkips ==
  /\ pc["consumer"] \in {"find", "insert", "mark"}
  /\ Fault
  /\ GoTo("consumer", "idle")
  /\ UNCHANGED <<ledger, wallet, kafka, cur, rec>>

\* commitMsg: the offset after this message; an error is only logged.
CommitMessage ==
  /\ pc["consumer"] = "ack"
  /\ \/ committed' = next /\ faults' = faults
     \/ committed' = committed /\ Fault
  /\ GoTo("consumer", "idle")
  /\ UNCHANGED <<ledger, wallet, next, cur, rec>>

(***************************************************************************)
(* Phase 2 of either worker, and what the wallet makes of the call: the    *)
(* funds move, or were moved before, or the trade is refused.              *)
(***************************************************************************)
AfterSuccess(w) == GoTo(w, "mark")
AfterError_Proceeds(w, isPermanent) == GoTo(w, "mark") /\ permanent' = isPermanent

AfterError(w, isPermanent) ==
  /\ GoTo(w, IF w = "consumer" THEN "idle" ELSE "record")
  /\ permanent' = IF w = "consumer" THEN permanent ELSE isPermanent

WalletAccepts(t) == t \in moved \/ t \notin Refused \cup Released

SettleSucceeds(w) ==
  /\ pc[w] = "call"
  /\ WalletAccepts(cur[w])
  /\ moved' = moved \cup {cur[w]}
  /\ AfterSuccess(w)
  /\ UNCHANGED <<ledger, orphans, kafka, cur, rec, faults>>

SettleRefused(w) ==
  /\ pc[w] = "call"
  /\ ~WalletAccepts(cur[w])
  /\ AfterError(w, cur[w] \in Released)
  /\ UNCHANGED <<ledger, wallet, kafka, cur, batch, snap, faults>>

\* The wallet commits and the reply is lost, or the deadline passes first and
\* the call is left behind.
SettleTimesOut(w) ==
  /\ pc[w] = "call"
  /\ Fault
  /\ \/ /\ WalletAccepts(cur[w])
        /\ moved' = moved \cup {cur[w]}
        /\ orphans' = orphans
     \/ /\ moved' = moved
        /\ orphans' = orphans \cup {cur[w]}
  /\ AfterError(w, FALSE)
  /\ UNCHANGED <<ledger, kafka, cur, batch, snap>>

OrphanLands(t) ==
  /\ t \in orphans
  /\ orphans' = orphans \ {t}
  /\ moved' = IF WalletAccepts(t) THEN moved \cup {t} ELSE moved
  /\ UNCHANGED <<ledger, kafka, pc, cur, rec, faults>>

\* Phase 3.  WHERE status = 'PENDING'; with no such row it answers success as
\* long as the trade has a row.
MarkSettled(w) ==
  /\ pc[w] = "mark"
  /\ row' = [row EXCEPT ![cur[w]] = IF @ = "PENDING" THEN "SETTLED" ELSE @]
  /\ GoTo(w, IF w = "consumer" THEN "ack" ELSE "idle")
  /\ UNCHANGED <<retry, wallet, kafka, cur, rec, faults>>

(***************************************************************************)
(* RecoverStalePending.                                                    *)
(***************************************************************************)
FindStalePending_NeverRetried ==
  LET stale == {t \in Trades : row[t] = "PENDING" /\ retry[t] = 0}
  IN /\ pc["recovery"] = "idle" /\ batch = {} /\ stale # {}
     /\ batch' = {<<t, retry[t]>> : t \in stale}
     /\ UNCHANGED <<ledger, wallet, kafka, pc, cur, snap, permanent, faults>>

FindStalePending ==
  LET stale == {t \in Trades : row[t] = "PENDING"}
  IN /\ pc["recovery"] = "idle"
     /\ batch = {}
     /\ stale # {}
     /\ batch' = {<<t, retry[t]>> : t \in stale}
     /\ UNCHANGED <<ledger, wallet, kafka, pc, cur, snap, permanent, faults>>

RetryNext ==
  /\ pc["recovery"] = "idle"
  /\ \E b \in batch :
       /\ cur' = [cur EXCEPT !["recovery"] = b[1]]
       /\ snap' = b[2]
       /\ batch' = batch \ {b}
  /\ GoTo("recovery", "call")
  /\ UNCHANGED <<ledger, wallet, kafka, permanent, faults>>

\* RecordSettlementFailure: WHERE status = 'PENDING'.
GivesUp(t) == permanent \/ snap >= RetryLimit

RecordFailure ==
  LET t == cur["recovery"]
  IN /\ pc["recovery"] = "record"
     /\ IF row[t] = "PENDING"
        THEN /\ row' = [row EXCEPT ![t] = IF GivesUp(t) THEN "FAILED" ELSE "PENDING"]
             /\ retry' = [retry EXCEPT ![t] = @ + 1]
        ELSE UNCHANGED ledger
     /\ GoTo("recovery", "idle")
     /\ UNCHANGED <<wallet, kafka, cur, rec, faults>>

\* A database error after the call is only logged.
RecoverySkips ==
  /\ pc["recovery"] \in {"record", "mark"}
  /\ Fault
  /\ GoTo("recovery", "idle")
  /\ UNCHANGED <<ledger, wallet, kafka, cur, rec>>

(***************************************************************************)
(* The process dies and restarts: both workers start over, the consumer    *)
(* from the committed offset.                                              *)
(***************************************************************************)
Crash ==
  /\ Fault
  /\ next' = committed
  /\ pc' = [w \in Workers |-> "idle"]
  /\ batch' = {}
  /\ orphans' = orphans \cup {cur[w] : w \in {x \in Workers : pc[x] = "call"}}
  /\ UNCHANGED <<ledger, moved, committed, cur, snap, permanent>>

-----------------------------------------------------------------------------
Init ==
  /\ row = [t \in Trades |-> "NONE"]
  /\ retry = [t \in Trades |-> 0]
  /\ moved = {}
  /\ orphans = {}
  /\ next = 0
  /\ committed = 0
  /\ pc = [w \in Workers |-> "idle"]
  /\ \E t \in Trades : cur = [w \in Workers |-> t]
  /\ batch = {}
  /\ snap = 0
  /\ permanent = FALSE
  /\ faults = 0

Consumer == FetchMessage \/ FindByTradeID \/ Insert \/ CommitMessage
Recovery == FindStalePending \/ RetryNext \/ RecordFailure
Work(w)  == SettleSucceeds(w) \/ SettleRefused(w) \/ MarkSettled(w)

Next ==
  \/ Consumer
  \/ Recovery
  \/ \E w \in Workers : Work(w) \/ SettleTimesOut(w)
  \/ \E t \in Trades : OrphanLands(t)
  \/ ConsumerSkips
  \/ RecoverySkips
  \/ Crash

\* The goroutines run and the 60-second ticker keeps firing.
Fairness == /\ WF_vars(Consumer)
            /\ WF_vars(Recovery)
            /\ \A w \in Workers : WF_vars(Work(w))

Spec     == Init /\ [][Next]_vars
FairSpec == Spec /\ Fairness

-----------------------------------------------------------------------------
Steps == {"idle", "find", "insert", "call", "mark", "ack", "record"}

\* Every variable keeps its type; the committed offset stays behind the
\* reader's position, and that within the log.
TypeOK ==
  /\ row \in [Trades -> {"NONE", "PENDING", "SETTLED", "FAILED"}]
  /\ retry \in [Trades -> Nat]
  /\ moved \subseteq Trades
  /\ orphans \subseteq Trades
  /\ next \in 0 .. Len(Log)
  /\ committed \in 0 .. next
  /\ pc \in [Workers -> Steps]
  /\ cur \in [Workers -> Trades]
  /\ batch \subseteq Trades \X Nat
  /\ snap \in Nat
  /\ permanent \in BOOLEAN
  /\ faults \in 0 .. MaxFaults

\* A row says SETTLED only once the wallet has moved the funds, whatever
\* crashes, lost replies and races of the two workers came before.
SettledMeansMoved == \A t \in Trades : row[t] = "SETTLED" => t \in moved

\* A trade is given up only after a permanent refusal or when the retries are
\* used up: a stale retry_count in a batch never cuts them short.
FailedIsExhausted ==
  \A t \in Trades : row[t] = "FAILED" => t \in Released \/ retry[t] > RetryLimit

\* What a row says of its trade is so: done, or past saving.
StatusTruthful == SettledMeansMoved /\ FailedIsExhausted

\* Every registered trade leaves PENDING: the recovery finishes or gives up
\* what the consumer left behind.
PendingResolves ==
  <>[](\A t \in Trades : row[t] \in {"NONE", "SETTLED", "FAILED"})

\* "settlement failed - offset not committed, will retry on redeliver": what
\* lies below the committed offset has been registered.
CommittedIsRegistered ==
  \A i \in 1 .. committed : Log[i] \in SelfTrades \/ row[Log[i]] # "NONE"

\* FAILED is a "terminal failure": the funds of the trade have not moved.
FailedNotMoved == \A t \in Trades : row[t] = "FAILED" => t \notin moved
=============================================================================
