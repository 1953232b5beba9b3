---------------------------- MODULE Notification ----------------------------
(***************************************************************************)
(* The notification service (services/notification): three consumer loops  *)
(* that turn settled trades, cancelled orders and portfolio snapshots into *)
(* rows of the inbox and of an outbox, the gRPC call that does the same    *)
(* for other services, and the publishers that carry the outbox to Redis.  *)
(*                                                                         *)
(* A message is named by the event it carries, and the same event may be   *)
(* in a topic more than once: its producer delivers at least once.  What    *)
(* only reads, marks notifications read or purges rows already PROCESSED   *)
(* has no part in what is delivered and is left out.                       *)
(***************************************************************************)
EXTENDS Naturals, SequencesExt

CONSTANTS
  Topics,        \* names of the topics read
  Logs,          \* what the topics may hold: functions from Topics to sequences of events
  Kind,          \* of an event: "trade", "cancel", "portfolio", or "bad" if it fails Validate; and
                 \* "call" of a key, which is never the identifier of an event
  Parties,       \* the users an event or a call is about
  Calls,         \* the CreateNotification calls made beside such topics: sets of idempotency keys
  Publishers, NoPublisher,
  OutboxBatch,   \* rows claimed at a time
  MaxMishaps     \* bound: failures, crashes and lease expiries

ASSUME NotificationAssumption ==
  /\ OutboxBatch \in Nat \ {0} /\ MaxMishaps \in Nat /\ NoPublisher \notin Publishers
  /\ DOMAIN Parties = DOMAIN Kind
  /\ \A e \in DOMAIN Kind :
       IsFiniteSet(Parties[e]) /\ Kind[e] \in {"trade", "cancel", "portfolio", "bad", "call"}
  /\ \A topics \in Logs :
       /\ \A t \in Topics : topics[t] \in Seq({e \in DOMAIN Kind : Kind[e] # "call"})
       /\ Calls[topics] \subseteq {k \in DOMAIN Kind : Kind[k] = "call" /\ Parties[k] # {}}

VARIABLES
  log,        \* the topics
  calls,      \* keys that callers create a notification with
  offset,     \* committed offsets of the consumer group
  reader,     \* the consumer loops: [next, handled]
  handledEvents, \* processed_events: rows [event, note], note 0 if none is stored
  inbox,      \* notifications in order of creation: [source, user]
  outbox,     \* notification_outbox in order of creation: [source, user, status, owner, stale]
  letters,    \* messages on the dead-letter topic: <<topic, position>>
  answers,    \* notifications that CreateNotification has returned, by key
  held,       \* what a publisher holds: [rows, sent], sent 0 if no row waits to be marked
  published,  \* outbox rows that Redis has taken
  mishaps

notificationVars == <<log, calls, offset, reader, handledEvents, inbox, outbox, letters, answers, held, published, mishaps>>
-----------------------------------------------------------------------------
NoWork == [rows |-> {}, sent |-> 0]

NotificationInit ==
  /\ log \in Logs /\ calls = Calls[log]
  /\ offset = [t \in Topics |-> 0]
  /\ reader = [t \in Topics |-> [next |-> 1, handled |-> FALSE]]
  /\ handledEvents = {} /\ inbox = <<>> /\ outbox = <<>> /\ letters = {}
  /\ answers = [k \in calls |-> {}]
  /\ held = [p \in Publishers |-> NoWork]
  /\ published = {} /\ mishaps = 0

Mishap == mishaps < MaxMishaps /\ mishaps' = mishaps + 1
Processed(e) == \E row \in handledEvents : row.event = e

\* One row of the outbox for each user, and but for snapshots one of the inbox, created
\* in one transaction.
Staged(e, users) ==
  /\ outbox' = outbox \o SetToSeq({[source |-> e, user |-> u, status |-> "PENDING", owner |-> NoPublisher,
                                    stale |-> FALSE] : u \in users})
  /\ inbox' = IF Kind[e] = "portfolio" THEN inbox ELSE inbox \o SetToSeq({[source |-> e, user |-> u] : u \in users})
-----------------------------------------------------------------------------
(***************************************************************************)
(* The consumer loops.                                                     *)
(***************************************************************************)
Next_(t)    == reader[t].next
Message(t)  == log[t][Next_(t)]
Fetched(t)  == Next_(t) <= Len(log[t]) /\ ~reader[t].handled
Handled(t)  == reader' = [reader EXCEPT ![t].handled = TRUE]

handlePoison(t) ==
  /\ Fetched(t) /\ Kind[Message(t)] = "bad"
  /\ letters' = letters \cup {<<t, Next_(t)>>}
  /\ Handled(t)
  /\ UNCHANGED <<handledEvents, inbox, outbox, mishaps>>

\* CreateTradeSettledTx stores no notification with the event; CreateWithDedupTx does.
HandleWithDedup(t) ==
  LET e == Message(t)
  IN /\ Fetched(t) /\ Kind[e] \in {"trade", "cancel"} /\ ~Processed(e)
     /\ handledEvents' = handledEvents \cup {[event |-> e, note |-> IF Kind[e] = "cancel" THEN Len(inbox) + 1 ELSE 0]}
     /\ Staged(e, Parties[e])
     /\ Handled(t)
     /\ UNCHANGED <<letters, mishaps>>

AlreadyProcessed(t) ==
  /\ Fetched(t) /\ Kind[Message(t)] \in {"trade", "cancel"} /\ Processed(Message(t))
  /\ Handled(t)
  /\ UNCHANGED <<handledEvents, inbox, outbox, letters, mishaps>>

HandlePortfolioUpdated(t) ==
  /\ Fetched(t) /\ Kind[Message(t)] = "portfolio"
  /\ Staged(Message(t), Parties[Message(t)])
  /\ Handled(t)
  /\ UNCHANGED <<handledEvents, letters, mishaps>>

\* Retried until it succeeds, before the next message is fetched.
Commits_Early(t) == Next_(t) <= Len(log[t])
Commits(t) == Next_(t) <= Len(log[t]) /\ reader[t].handled
CommitMessages(t) ==
  /\ Commits(t)
  /\ offset' = [offset EXCEPT ![t] = Next_(t)]
  /\ reader' = [reader EXCEPT ![t] = [next |-> Next_(t) + 1, handled |-> FALSE]]

\* The process dies: its readers start from the committed offsets, and its publisher
\* knows nothing of the rows it had claimed.
Restart(p) ==
  /\ Mishap
  /\ reader' = [t \in Topics |-> [next |-> offset[t] + 1, handled |-> FALSE]]
  /\ held' = [held EXCEPT ![p] = NoWork]
  /\ UNCHANGED <<log, calls, offset, handledEvents, inbox, outbox, letters, answers, published>>

ConsumerStep(t) ==
  /\ \/ /\ handlePoison(t) \/ HandleWithDedup(t) \/ AlreadyProcessed(t) \/ HandlePortfolioUpdated(t)
        /\ UNCHANGED offset
     \/ /\ CommitMessages(t)
        /\ UNCHANGED <<handledEvents, inbox, outbox, letters, mishaps>>
  /\ UNCHANGED <<log, calls, answers, held, published>>
-----------------------------------------------------------------------------
(***************************************************************************)
(* The gRPC calls.  A caller repeats CreateNotification with its key until *)
(* it has an answer.                                                       *)
(***************************************************************************)
CreateWithDedupTx(k) ==
  /\ ~Processed(k)
  /\ handledEvents' = handledEvents \cup {[event |-> k, note |-> Len(inbox) + 1]}
  /\ Staged(k, Parties[k])

CreateNotification(k) ==
  /\ \/ /\ CreateWithDedupTx(k)
        /\ \/ answers' = [answers EXCEPT ![k] = @ \cup {Len(inbox) + 1}] /\ UNCHANGED mishaps
           \/ Mishap /\ UNCHANGED answers
     \/ \* lookupByIdempotencyKey, for a key that was used
        /\ UNCHANGED <<handledEvents, inbox, outbox, mishaps>>
        /\ \E row \in handledEvents :
             row.event = k /\ answers' = [answers EXCEPT ![k] = @ \cup {row.note}]
  /\ UNCHANGED <<log, calls, offset, reader, letters, held, published>>

-----------------------------------------------------------------------------
(***************************************************************************)
(* The publishers.  A row belongs to the publisher whose claim token it    *)
(* has; after a minute any publisher may claim it again.                   *)
(***************************************************************************)
FreeRow(r) == r.status = "PENDING" \/ (r.status = "PROCESSING" /\ r.stale)
Owns(p, n) == outbox[n].status = "PROCESSING" /\ outbox[n].owner = p
Back(rows) == [n \in DOMAIN outbox |-> IF n \in rows
                 THEN [outbox[n] EXCEPT !.status = "PENDING", !.owner = NoPublisher, !.stale = FALSE] ELSE outbox[n]]

FetchPendingRows(p) ==
  LET free   == {n \in DOMAIN outbox : FreeRow(outbox[n])}
      oldest == {n \in free : Cardinality({m \in free : m < n}) < OutboxBatch}
  IN /\ held[p] = NoWork /\ free # {}
     /\ outbox' = [n \in DOMAIN outbox |-> IF n \in oldest
          THEN [outbox[n] EXCEPT !.status = "PROCESSING", !.owner = p, !.stale = FALSE] ELSE outbox[n]]
     /\ held' = [held EXCEPT ![p].rows = oldest]
     /\ UNCHANGED <<published, mishaps>>

\* The rows come back in no order.
PublishRow_Swallows(p, n) ==
  /\ held[p].sent = 0 /\ n \in held[p].rows
  /\ published' \in {published, published \cup {n}}
  /\ held' = [held EXCEPT ![p].sent = n]
  /\ UNCHANGED <<outbox, mishaps>>
PublishRow(p, n) ==
  /\ held[p].sent = 0 /\ n \in held[p].rows
  /\ published' = published \cup {n}
  /\ held' = [held EXCEPT ![p].sent = n]
  /\ UNCHANGED <<outbox, mishaps>>

\* Redis or the update failed, whatever it did: the rest of the batch is released, if
\* the database lets it, and the next poll claims afresh.
AbortBatch(p) ==
  /\ held[p].rows # {} /\ Mishap
  /\ \/ outbox' = Back({n \in held[p].rows : Owns(p, n)})
     \/ UNCHANGED outbox
  /\ held' = [held EXCEPT ![p] = NoWork]
  /\ UNCHANGED published

\* A lost claim is passed over.
MarkRowPublished(p) ==
  LET n == held[p].sent
  IN /\ n # 0
     /\ outbox' = IF Owns(p, n)
          THEN [outbox EXCEPT ![n].status = "PROCESSED", ![n].owner = NoPublisher, ![n].stale = FALSE] ELSE outbox
     /\ held' = [held EXCEPT ![p] = [rows |-> @.rows \ {n}, sent |-> 0]]
     /\ UNCHANGED <<published, mishaps>>

\* claimed_at is a minute back, which a publisher at work is hardly ever late for.
LeaseRunsOut(n) ==
  /\ outbox[n].status = "PROCESSING" /\ ~outbox[n].stale
  /\ IF n \in held[outbox[n].owner].rows THEN Mishap ELSE UNCHANGED mishaps
  /\ outbox' = [outbox EXCEPT ![n].stale = TRUE]
  /\ UNCHANGED <<held, published>>

RecoverStaleOutboxClaims ==
  LET stale == {n \in DOMAIN outbox : outbox[n].status = "PROCESSING" /\ outbox[n].stale}
  IN stale # {} /\ outbox' = Back(stale) /\ UNCHANGED <<held, published, mishaps>>

PublisherStep(p) ==
  FetchPendingRows(p) \/ (\E n \in DOMAIN outbox : PublishRow(p, n)) \/ MarkRowPublished(p)

Rest == UNCHANGED <<log, calls, offset, reader, handledEvents, inbox, letters, answers>>
NotificationNext ==
  \/ \E t \in Topics : ConsumerStep(t)
  \/ \E k \in calls : CreateNotification(k)
  \/ \E p \in Publishers : Restart(p) \/ (Rest /\ (PublisherStep(p) \/ AbortBatch(p)))
  \/ Rest /\ (RecoverStaleOutboxClaims \/ \E n \in DOMAIN outbox : LeaseRunsOut(n))

\* Consumers retry and publishers poll for ever, and time passes.  Nothing is asked of
\* the recovery ticker: claims look at the lease themselves.
NotificationFairness ==
  /\ \A t \in Topics : WF_notificationVars(ConsumerStep(t))
  /\ \A p \in Publishers : WF_notificationVars(Rest /\ PublisherStep(p))
  /\ \A n \in 1..(MaxMishaps + 2) : WF_notificationVars(Rest /\ n \in DOMAIN outbox /\ LeaseRunsOut(n))
NotificationFairSpec == NotificationInit /\ [][NotificationNext]_notificationVars /\ NotificationFairness
-----------------------------------------------------------------------------
(***************************************************************************)
(* Properties.                                                             *)
(***************************************************************************)
Notes(e, u)  == {n \in DOMAIN inbox : inbox[n].source = e /\ inbox[n].user = u}
Staging(e, u) == {n \in DOMAIN outbox : outbox[n].source = e /\ outbox[n].user = u}

\* However often an event is delivered, a process dies or a call is repeated, each
\* party of a trade and each cancelled order's owner has at most one notification and
\* one row of the outbox, and exactly one once the offset has passed the event; a
\* message that fails validation is passed only when it is on the dead-letter topic;
\* and a call's key stands for one notification, the one every answer names.
NotifiedOnce ==
  /\ \A e \in DOMAIN Kind : Kind[e] # "portfolio" => \A u \in Parties[e] :
       Cardinality(Notes(e, u)) <= 1 /\ Cardinality(Staging(e, u)) = Cardinality(Notes(e, u))
  /\ \A t \in Topics : \A i \in 1..offset[t] :
       IF Kind[log[t][i]] = "bad" THEN <<t, i>> \in letters
       ELSE \A u \in Parties[log[t][i]] : Staging(log[t][i], u) # {}
  /\ \A k \in calls : \A n \in answers[k] : n \in DOMAIN inbox /\ inbox[n].source = k /\ answers[k] = {n}

\* Every message of the topics is handled and committed in the end, and every row of
\* the outbox reaches Redis and is marked, whichever publisher dies, is late with its
\* lease or finds Redis down.
EverythingDelivered == <>[]
  /\ \A t \in Topics : offset[t] = Len(log[t]) /\ reader[t].next > Len(log[t])
  /\ \A n \in DOMAIN outbox : outbox[n].status = "PROCESSED" /\ n \in published
=============================================================================
