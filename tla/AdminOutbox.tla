---------------------------- MODULE AdminOutbox ----------------------------
(***************************************************************************)
(* The outbox of the admin service: rows written with the operations they  *)
(* tell of (Admin), and publishers, one per instance of the service, that  *)
(* claim due rows for two minutes under a fresh token, write each row to   *)
(* Kafka and wait for the acknowledgement, and put back what failed.       *)
(*                                                                         *)
(* The order of the rows is that of Kafka's partitions by operation and is *)
(* not modelled: two operations on one user are in no order.               *)
(***************************************************************************)
EXTENDS Integers, FiniteSets

CONSTANTS
  Events,         \* rows of admin_outbox
  Publishers_,    \* instances of the service
  Unlocked,
  BatchLimit,     \* rows claimed at once
  MaxPublishes,   \* admin_outbox.max_attempts
  MaxSnags        \* bound: Kafka or database errors, ends of a publisher, expired leases

ASSUME AdminOutboxAssumption ==
  /\ {BatchLimit, MaxPublishes} \subseteq Nat \ {0} /\ MaxSnags \in Nat
  /\ IsFiniteSet(Events) /\ Unlocked \notin Publishers_

VARIABLES
  rows,     \* admin_outbox: status, attempt count, holder of the lease and whether it still lasts
  batch_,   \* publisher -> the rows it claimed, with the attempt counts it read
  sending,  \* publisher -> the row in hand, and what Kafka said
  logged,   \* events on their Kafka topics
  snags

outboxVars == <<rows, batch_, sending, logged, snags>>
-----------------------------------------------------------------------------
Absent  == [status |-> "NONE", attempts |-> 0, lock |-> Unlocked, lapsed |-> FALSE]
InHand(e, n, acked) == [event |-> e, attempts |-> n, acked |-> acked]
NoRow   == [event |-> Unlocked, attempts |-> 0, acked |-> "none"]

OutboxInit ==
  /\ rows = [e \in Events |-> Absent]
  /\ batch_ = [p \in Publishers_ |-> {}] /\ sending = [p \in Publishers_ |-> NoRow]
  /\ logged = {} /\ snags = 0

Snag == snags < MaxSnags /\ snags' = snags + 1

\* Committed with its operation.
InsertEvent(e) ==
  /\ rows[e].status = "NONE"
  /\ rows' = [rows EXCEPT ![e].status = "PENDING"]
  /\ UNCHANGED <<batch_, sending, logged, snags>>

\* Rows whose holder is gone are due again once the lease is over.
DueEvents_PendingOnly == {e \in Events : rows[e].status = "PENDING"}
DueEvents == {e \in Events : /\ rows[e].status \in {"PENDING", "PROCESSING"}
                             /\ rows[e].lock = Unlocked \/ rows[e].lapsed}
ClaimDue(p) ==
  /\ batch_[p] = {} /\ sending[p] = NoRow /\ DueEvents # {}
  /\ \E claimed \in SUBSET DueEvents :
       /\ claimed # {} /\ Cardinality(claimed) <= BatchLimit
       /\ claimed = DueEvents \/ Cardinality(claimed) = BatchLimit
       /\ rows' = [e \in Events |-> IF e \in claimed
                     THEN [rows[e] EXCEPT !.status = "PROCESSING", !.lock = p, !.lapsed = FALSE] ELSE rows[e]]
       /\ batch_' = [batch_ EXCEPT ![p] = {InHand(e, rows[e].attempts, "none") : e \in claimed}]
  /\ UNCHANGED <<sending, logged, snags>>

\* A publisher that still has the row takes two minutes over its batch, at most MaxSnags times.
Has(p, e) == sending[p].event = e \/ \E r \in batch_[p] : r.event = e
LeaseOver(e) ==
  /\ rows[e].lock # Unlocked /\ ~rows[e].lapsed
  /\ IF Has(rows[e].lock, e) THEN Snag ELSE UNCHANGED snags
  /\ rows' = [rows EXCEPT ![e].lapsed = TRUE]
  /\ UNCHANGED <<batch_, sending, logged>>

\* WriteMessages: acknowledged, or an error, after which the message may be there.
WriteEvent(p) ==
  /\ sending[p] = NoRow
  /\ \E r \in batch_[p] :
       /\ batch_' = [batch_ EXCEPT ![p] = @ \ {r}]
       /\ \/ /\ sending' = [sending EXCEPT ![p] = [r EXCEPT !.acked = "yes"]]
             /\ logged' = logged \cup {r.event} /\ UNCHANGED snags
          \/ /\ Snag
             /\ sending' = [sending EXCEPT ![p] = [r EXCEPT !.acked = "no"]]
             /\ logged' \in {logged, logged \cup {r.event}}
  /\ UNCHANGED rows

\* Each update asks for the lease.  A token names one claim, and a publisher that claims
\* a row again has let go of its earlier one.
Leased(p, e) == rows[e].lock = p
MarkEventPublished(p) ==
  /\ sending[p].acked = "yes"
  /\ LET e == sending[p].event IN
       \/ /\ rows' = IF Leased(p, e) THEN [rows EXCEPT ![e] = [@ EXCEPT !.status = "PUBLISHED", !.lock = Unlocked, !.lapsed = FALSE]]
                     ELSE rows
          /\ UNCHANGED snags
       \/ Snag /\ UNCHANGED rows
  /\ sending' = [sending EXCEPT ![p] = NoRow]
  /\ UNCHANGED <<batch_, logged>>

RetryEvent(p) ==
  /\ sending[p].acked = "no"
  /\ LET e == sending[p].event
         n == sending[p].attempts + 1 IN
       \/ /\ rows' = IF Leased(p, e)
                     THEN [rows EXCEPT ![e] = [status |-> IF n >= MaxPublishes THEN "FAILED" ELSE "PENDING",
                                               attempts |-> n, lock |-> Unlocked, lapsed |-> FALSE]]
                     ELSE rows
          /\ UNCHANGED snags
       \/ Snag /\ UNCHANGED rows
  /\ sending' = [sending EXCEPT ![p] = NoRow]
  /\ UNCHANGED <<batch_, logged>>

\* The process ends, or its context is cancelled in the middle of a batch: the leases stay.
PublisherEnds(p) ==
  /\ batch_[p] # {} \/ sending[p] # NoRow
  /\ Snag
  /\ batch_' = [batch_ EXCEPT ![p] = {}] /\ sending' = [sending EXCEPT ![p] = NoRow]
  /\ UNCHANGED <<rows, logged>>
-----------------------------------------------------------------------------
PublisherStep(p) == ClaimDue(p) \/ WriteEvent(p) \/ MarkEventPublished(p) \/ RetryEvent(p)
OutboxNext ==
  \/ \E e \in Events : InsertEvent(e) \/ LeaseOver(e)
  \/ \E p \in Publishers_ : PublisherStep(p) \/ PublisherEnds(p)

\* Publishers poll on a ticker, and two minutes pass.
OutboxFairness == (\A e \in Events : WF_outboxVars(LeaseOver(e))) /\ (\A p \in Publishers_ : WF_outboxVars(PublisherStep(p)))
OutboxSpec == OutboxInit /\ [][OutboxNext]_outboxVars /\ OutboxFairness
-----------------------------------------------------------------------------
\* Each row ends published, and then its event is on the topic, or failed after as many
\* attempts as it has; it stays so, whichever publisher is late, dies or loses its lease.
EventsSettle ==
  \A e \in Events : <>[](\/ rows[e].status = "NONE"
                         \/ rows[e].status = "PUBLISHED" /\ e \in logged
                         \/ rows[e].status = "FAILED" /\ rows[e].attempts >= MaxPublishes)
=============================================================================
