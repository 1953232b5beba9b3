------------------------------ MODULE Gateway ------------------------------
(***************************************************************************)
(* The WebSocket side of the gateway (services/gateway/internal/ws): the   *)
(* hub of connected clients and their subscriptions, the bounded queue of  *)
(* each client, and the goroutines that feed it: a poller per kind of      *)
(* market data kept in Redis, the consumer of executed trades, and the     *)
(* relay of private notifications published on Redis.                      *)
(*                                                                         *)
(* One market and one user.  The value of a polled key is a version; 0     *)
(* means no key.  Within the 60 seconds of the relay's cache.  Frame       *)
(* syntax, limits on frames and on subscriptions, and the private          *)
(* portfolio stream, which is treated like any dropped one, are left out.  *)
(***************************************************************************)
EXTENDS Integers, SequencesExt

CONSTANTS
  Clients,        \* WebSocket connections
  Feeds,          \* polled streams: "orderbook", "ticker"
  MaxVersion,       \* bound: versions of a polled key
  TradeTopic,     \* trades.executed.v1: for each message, whether it is a valid trade
  Notices,        \* notifications sent to the user
  Interests,      \* client -> streams that it may ask for: the cases that are checked
  sendBufferSize,
  MaxJolts        \* bound: failed reads, reconnections, closed connections, second publications

ASSUME GatewayAssumption ==
  /\ IsFiniteSet(Clients) /\ sendBufferSize \in Nat \ {0} /\ {MaxVersion, MaxJolts} \subseteq Nat
  /\ Feeds \subseteq {"orderbook", "ticker"} /\ TradeTopic \in Seq(BOOLEAN)

Streams == Feeds \cup (IF TradeTopic = <<>> THEN {} ELSE {"trades"}) \cup (IF Notices = {} THEN {} ELSE {"notifications"})
MarketStreams == Streams \ {"notifications"}

VARIABLES
  wants,          \* one of Interests
  clients, clientSubs, subs, marketSubs,  \* the hub, under its lock
  queue,          \* client -> messages not yet written to its connection
  closed,         \* clients whose session is closed
  asked,          \* client -> what its read loop is doing: the snapshot it answers with
  redisValue,     \* feed -> version of the key
  redisUp,
  hashes, unavailable,  \* feed -> last version polled, whether its subscribers were told of an outage
  casting,        \* stream -> the broadcast under way on it
  handed, consumed,    \* position in the topic of trades, committed offset
  again,          \* trades that were handed out before a reconnection and not committed
  relayed,        \* the relay's cache
  emitted,        \* notifications published
  jolts,
  seen,           \* what each client was sent, by stream
  behind,         \* client -> feed -> the newest version it could not be given
  since           \* client -> trades and notifications that it is owed, being subscribed when they were broadcast

gatewayVars == <<wants, clients, clientSubs, subs, marketSubs, queue, closed, asked, redisValue, redisUp, hashes, unavailable,
                 casting, handed, consumed, again, relayed, emitted, jolts, seen, behind, since>>
hubVars    == <<wants, clients, clientSubs, subs, marketSubs>>
keyVars    == <<redisValue, redisUp, hashes, unavailable>>
sourceVars == <<handed, consumed, again, relayed, emitted>>
-----------------------------------------------------------------------------
Quiet == [step |-> "idle", body |-> 0, kind |-> "none", to |-> {}]
Ready == [stream |-> "none", value |-> 0]

Watched(s) == \E c \in Clients : s \in wants[c]

GatewayInit ==
  /\ wants \in Interests
  /\ clients = {} /\ clientSubs = [c \in Clients |-> {}] /\ subs = [s \in Streams |-> {}] /\ marketSubs = 0
  /\ queue = [c \in Clients |-> <<>>] /\ closed = {} /\ asked = [c \in Clients |-> Ready]
  /\ redisValue = [f \in Feeds |-> 0] /\ redisUp = TRUE
  /\ hashes = [f \in Feeds |-> 0] /\ unavailable = [f \in Feeds |-> FALSE]
  /\ casting = [s \in Streams |-> Quiet]
  /\ handed = 0 /\ consumed = 0 /\ again = {} /\ relayed = {} /\ emitted = {} /\ jolts = 0
  /\ seen = [c \in Clients |-> [s \in Streams |-> <<>>]]
  /\ behind = [c \in Clients |-> [f \in Feeds |-> 0]] /\ since = [c \in Clients |-> {}]

Jolt == jolts < MaxJolts /\ jolts' = jolts + 1
Parcel(s, kind, body) == [stream |-> s, kind |-> kind, body |-> body]
Highest(s) == IF s = <<>> THEN 0 ELSE CHOOSE n \in ToSet(s) : \A k \in ToSet(s) : k <= n
-----------------------------------------------------------------------------
(***************************************************************************)
(* Client sessions.                                                        *)
(***************************************************************************)
\* Send: a full queue drops what is stale anyway and ends the session of a client that
\* would miss a trade or a notification; a closed session is sent nothing.
Fits(c) == c \notin closed /\ Len(queue[c]) < sendBufferSize
Lossless(kind) == kind \in {"trades", "notifications"}
Send_Drops(c, m) ==
  /\ queue' = IF Fits(c) THEN [queue EXCEPT ![c] = Append(@, m)] ELSE queue
  /\ closed' = closed
  /\ behind' = IF m.kind \notin Feeds THEN behind
               ELSE IF Fits(c) /\ m.body >= behind[c][m.kind] THEN [behind EXCEPT ![c][m.kind] = 0]
               ELSE IF ~Fits(c) /\ m.body > behind[c][m.kind] THEN [behind EXCEPT ![c][m.kind] = m.body] ELSE behind
Send(c, m) ==
  /\ queue' = IF Fits(c) THEN [queue EXCEPT ![c] = Append(@, m)] ELSE queue
  /\ closed' = IF ~Fits(c) /\ Lossless(m.kind) THEN closed \cup {c} ELSE closed
  /\ behind' = IF m.kind \notin Feeds THEN behind
               ELSE IF Fits(c) /\ m.body >= behind[c][m.kind] THEN [behind EXCEPT ![c][m.kind] = 0]
               ELSE IF ~Fits(c) /\ m.body > behind[c][m.kind] THEN [behind EXCEPT ![c][m.kind] = m.body] ELSE behind

RegisterClient(c) ==
  /\ c \notin clients \cup closed /\ wants[c] # {}
  /\ clients' = clients \cup {c} /\ clientSubs' = [clientSubs EXCEPT ![c] = {}]
  /\ UNCHANGED <<wants, subs, marketSubs, queue, closed, asked, keyVars, casting, sourceVars, jolts, seen, behind, since>>

\* The connection fails: Close, of which Unregister is the second half.
ConnectionLost(c) ==
  /\ c \in clients \ closed /\ Jolt
  /\ closed' = closed \cup {c}
  /\ UNCHANGED <<hubVars, queue, asked, keyVars, casting, sourceVars, seen, behind, since>>

Unregister(c) ==
  /\ c \in clients \cap closed
  /\ clients' = clients \ {c}
  /\ subs' = [s \in Streams |-> subs[s] \ {c}]
  /\ marketSubs' = marketSubs - Cardinality(clientSubs[c] \cap MarketStreams)
  /\ clientSubs' = [clientSubs EXCEPT ![c] = {}]
  /\ UNCHANGED <<wants, queue, closed, asked, keyVars, casting, sourceVars, jolts, seen, behind, since>>

\* One frame at a time is handled, also for a while after the session was closed by
\* another goroutine.
Subscribe(c, s) ==
  /\ asked[c] = Ready /\ c \in clients /\ s \in wants[c] \ clientSubs[c]
  /\ clientSubs' = [clientSubs EXCEPT ![c] = @ \cup {s}]
  /\ subs' = [subs EXCEPT ![s] = @ \cup {c}]
  /\ marketSubs' = IF s \in MarketStreams THEN marketSubs + 1 ELSE marketSubs
  /\ asked' = IF s \in Feeds THEN [asked EXCEPT ![c] = [stream |-> s, value |-> -1]] ELSE asked
  /\ UNCHANGED <<wants, clients, queue, closed, keyVars, casting, sourceVars, jolts, seen, behind, since>>

Unsubscribe(c, s) ==
  /\ asked[c] = Ready /\ s \in clientSubs[c] /\ Jolt
  /\ clientSubs' = [clientSubs EXCEPT ![c] = @ \ {s}]
  /\ subs' = [subs EXCEPT ![s] = @ \ {c}]
  /\ marketSubs' = IF s \in MarketStreams THEN marketSubs - 1 ELSE marketSubs
  /\ since' = [since EXCEPT ![c] = {m \in @ : m.stream # s}]
  /\ UNCHANGED <<wants, clients, queue, closed, asked, keyVars, casting, sourceVars, seen, behind>>

\* deliverImmediateSnapshot, after the subscription is made: the key is read, then the
\* answer is sent, which may be after a newer value was broadcast.
ReadSnapshot(c) ==
  LET f == asked[c].stream IN
  /\ f \in Feeds /\ asked[c].value = -1
  /\ IF redisUp
       THEN asked' = [asked EXCEPT ![c].value = redisValue[f]] /\ UNCHANGED behind
       ELSE asked' = [asked EXCEPT ![c].value = 0] /\ behind' = [behind EXCEPT ![c][f] = redisValue[f]]
  /\ UNCHANGED <<hubVars, queue, closed, keyVars, casting, sourceVars, jolts, seen, since>>

SendSnapshot(c) ==
  LET f == asked[c].stream IN
  /\ f \in Feeds /\ asked[c].value >= 0
  /\ IF asked[c].value = 0 THEN Send(c, Parcel(f, "control", 1)) ELSE Send(c, Parcel(f, f, asked[c].value))
  /\ asked' = [asked EXCEPT ![c] = Ready]
  /\ UNCHANGED <<hubVars, keyVars, casting, sourceVars, jolts, seen, since>>

\* WritePump.
WritePump(c) ==
  /\ c \notin closed /\ queue[c] # <<>>
  /\ LET m == Head(queue[c]) IN
       seen' = IF m.kind = "control" /\ m.body = 1 THEN seen
               ELSE [seen EXCEPT ![c][m.stream] =
                       IF m.kind = "control" THEN Append(@, 0)
                       ELSE IF m.kind \in Feeds THEN <<Highest(Append(@, m.body))>> ELSE Append(@, m.body)]
  /\ queue' = [queue EXCEPT ![c] = Tail(@)]
  /\ UNCHANGED <<hubVars, closed, asked, keyVars, casting, sourceVars, jolts, behind, since>>
-----------------------------------------------------------------------------
(***************************************************************************)
(* Broadcast: the subscribers are collected under the lock and sent to     *)
(* after it was released, in the order of a map.                           *)
(***************************************************************************)
Broadcast(s, kind, body) == casting' = [casting EXCEPT ![s] = [step |-> "collect", body |-> body, kind |-> kind, to |-> {}]]

CollectSubscribers(s) ==
  /\ casting[s].step = "collect"
  /\ casting' = [casting EXCEPT ![s].step = "send", ![s].to = subs[s]]
  /\ since' = IF ~Lossless(casting[s].kind) THEN since
              ELSE [c \in Clients |-> IF c \in subs[s] THEN since[c] \cup {Parcel(s, s, casting[s].body)} ELSE since[c]]
  /\ UNCHANGED <<hubVars, queue, closed, asked, keyVars, sourceVars, jolts, seen, behind>>

SendTo(s, c) ==
  /\ casting[s].step = "send" /\ c \in casting[s].to
  /\ Send(c, Parcel(s, casting[s].kind, casting[s].body))
  /\ casting' = [casting EXCEPT ![s].to = @ \ {c}]
  /\ UNCHANGED <<hubVars, asked, keyVars, sourceVars, jolts, seen, since>>

Broadcasted(s) ==
  /\ casting[s].step = "send" /\ casting[s].to = {}
  /\ casting' = [casting EXCEPT ![s] = IF s = "trades" THEN [@ EXCEPT !.step = "commit"] ELSE Quiet]
  /\ UNCHANGED <<hubVars, queue, closed, asked, keyVars, sourceVars, jolts, seen, behind, since>>
-----------------------------------------------------------------------------
(***************************************************************************)
(* The pollers.                                                            *)
(***************************************************************************)
\* The version is recorded before it is broadcast, and not broadcast again while it stays.
Polled_Ignoring(f) == hashes[f] # redisValue[f]
Polled(f) == hashes[f] # redisValue[f] \/ unavailable[f]
Poll(f) ==
  /\ casting[f] = Quiet /\ marketSubs > 0 /\ subs[f] # {}
  /\ \/ /\ ~redisUp /\ ~unavailable[f]
        /\ unavailable' = [unavailable EXCEPT ![f] = TRUE] /\ Broadcast(f, "control", 0) /\ UNCHANGED hashes
     \/ /\ redisUp /\ redisValue[f] # 0 /\ Polled(f)
        /\ unavailable' = [unavailable EXCEPT ![f] = FALSE]
        /\ hashes' = [hashes EXCEPT ![f] = redisValue[f]]
        /\ Broadcast(f, f, redisValue[f])
  /\ UNCHANGED <<hubVars, queue, closed, asked, redisValue, redisUp, sourceVars, jolts, seen, behind, since>>

\* External: the engine and the market service write the keys; Redis goes and comes back.
KeyWritten(f) ==
  /\ Watched(f) /\ redisUp /\ redisValue[f] < MaxVersion
  /\ redisValue' = [redisValue EXCEPT ![f] = @ + 1]
  /\ UNCHANGED <<hubVars, queue, closed, asked, redisUp, hashes, unavailable, casting, sourceVars, jolts, seen, behind, since>>

RedisSwitches ==
  /\ IF redisUp THEN (\E f \in Feeds : Watched(f)) /\ Jolt ELSE UNCHANGED jolts
  /\ redisUp' = ~redisUp
  /\ UNCHANGED <<hubVars, queue, closed, asked, redisValue, hashes, unavailable, casting, sourceVars, seen, behind, since>>
-----------------------------------------------------------------------------
(***************************************************************************)
(* The consumer of trades and the relay of notifications.                  *)
(***************************************************************************)
\* A message that is no valid trade, and a trade no one listens to, is only committed.
ConsumeTrade ==
  /\ Watched("trades") /\ casting["trades"] = Quiet /\ handed < Len(TradeTopic)
  /\ handed' = handed + 1
  /\ IF TradeTopic[handed + 1] /\ subs["trades"] # {}
       THEN Broadcast("trades", "trades", handed + 1)
       ELSE casting' = [casting EXCEPT !["trades"].step = "commit"]
  /\ UNCHANGED <<hubVars, queue, closed, asked, keyVars, consumed, again, relayed, emitted, jolts, seen, behind, since>>

\* An error of the commit is logged.
CommitTrade ==
  /\ "trades" \in Streams /\ casting["trades"].step = "commit"
  /\ casting' = [casting EXCEPT !["trades"] = Quiet]
  /\ \/ consumed' = handed /\ UNCHANGED jolts
     \/ Jolt /\ UNCHANGED consumed
  /\ UNCHANGED <<hubVars, queue, closed, asked, keyVars, handed, again, relayed, emitted, seen, behind, since>>

\* A failed fetch closes the reader; its successor resumes at the committed offset.
Reconnect ==
  /\ "trades" \in Streams /\ casting["trades"] = Quiet /\ handed # consumed
  /\ handed' = consumed /\ again' = again \cup (consumed + 1)..handed
  /\ UNCHANGED <<hubVars, queue, closed, asked, keyVars, casting, consumed, relayed, emitted, jolts, seen, behind, since>>

\* The notification service publishes at least once; the relay handles what arrives
\* while it is connected.
Relays(n) == n \notin relayed
RelayNotice(n) ==
  /\ Watched("notifications") /\ casting["notifications"] = Quiet
  /\ IF n \in emitted THEN Jolt ELSE UNCHANGED jolts
  /\ emitted' = emitted \cup {n}
  /\ IF subs["notifications"] # {} /\ Relays(n)
       THEN relayed' = relayed \cup {n} /\ Broadcast("notifications", "notifications", n)
       ELSE UNCHANGED <<relayed, casting>>
  /\ UNCHANGED <<hubVars, queue, closed, asked, keyVars, handed, consumed, again, seen, behind, since>>
-----------------------------------------------------------------------------
ClientStep(c) ==
  \/ RegisterClient(c) \/ ConnectionLost(c) \/ Unregister(c) \/ ReadSnapshot(c) \/ SendSnapshot(c) \/ WritePump(c)
  \/ \E s \in Streams : Subscribe(c, s) \/ Unsubscribe(c, s)
FeedStep(f) == Poll(f) \/ KeyWritten(f)
CastStep(s) == CollectSubscribers(s) \/ Broadcasted(s) \/ \E c \in Clients : SendTo(s, c)
GatewayNext ==
  \/ \E c \in Clients : ClientStep(c)
  \/ \E f \in Feeds : FeedStep(f)
  \/ \E s \in Streams : CastStep(s)
  \/ RedisSwitches \/ ConsumeTrade \/ CommitTrade \/ Reconnect
  \/ \E n \in Notices : RelayNotice(n)

\* The goroutines of the process run; a write to a connection ends, with the connection
\* if need be, within its deadline.
GatewayFairness ==
  /\ \A c \in Clients : WF_gatewayVars(Unregister(c)) /\ WF_gatewayVars(ReadSnapshot(c))
                         /\ WF_gatewayVars(SendSnapshot(c)) /\ WF_gatewayVars(WritePump(c))
  /\ \A f \in Feeds : WF_gatewayVars(Poll(f))
  /\ \A s \in Streams : WF_gatewayVars(CastStep(s))
GatewaySpec == GatewayInit /\ [][GatewayNext]_gatewayVars /\ GatewayFairness
-----------------------------------------------------------------------------
(***************************************************************************)
(* Properties.                                                             *)
(***************************************************************************)
\* The three indices of the hub agree at every unlock: the pollers ask for a market
\* exactly while someone who is still connected listens to it.
HubConsistent ==
  /\ \A s \in Streams : subs[s] = {c \in clients : s \in clientSubs[c]}
  /\ marketSubs = Cardinality({p \in clients \X MarketStreams : p[2] \in clientSubs[p[1]]})

Waiting(c, s) == {i \in DOMAIN queue[c] : queue[c][i].kind = s}
Bodies(c, s)  == {queue[c][i].body : i \in Waiting(c, s)}
Coming(c, s)  == ToSet(seen[c][s]) \cup Bodies(c, s)

\* Pairs of messages of a stream that a client has been or will be sent, in that order.
SentBefore(c, s) ==
  {<<seen[c][s][p[1]], seen[c][s][p[2]]>> : p \in {q \in (DOMAIN seen[c][s]) \X (DOMAIN seen[c][s]) : q[1] < q[2]}}
    \cup (ToSet(seen[c][s]) \X Bodies(c, s))
    \cup {<<queue[c][p[1]].body, queue[c][p[2]].body>> : p \in {q \in Waiting(c, s) \X Waiting(c, s) : q[1] < q[2]}}

\* A client that was subscribed when a trade or a notification was broadcast has it, or
\* is about to be sent it, or its session was ended: none is skipped.  Trades come once and
\* in the order of the topic, those apart that a new reader was given again, and no
\* notification comes twice.
ExecutionsUnbroken ==
  \A c \in Clients \ closed :
    /\ \A m \in since[c] : \/ m.body \in Coming(c, m.stream)
                           \/ casting[m.stream].body = m.body /\ c \in casting[m.stream].to
    /\ "trades" \in Streams => \A p \in SentBefore(c, "trades") : p[1] >= p[2] => p[2] \in again
    /\ "notifications" \in Streams => \A p \in SentBefore(c, "notifications") : p[1] # p[2]

\* What the hub keeps and what clients are given agree, at every interleaving of frames,
\* broadcasts and ends of connections.
HubSound == HubConsistent /\ ExecutionsUnbroken

\* A client that stays subscribed ends with the last version of the key, and not with
\* word of an outage that is over, unless its snapshot failed or its queue was full when
\* that version was sent.
FeedArrives == <>[]
  \A c \in Clients \ closed : \A f \in clientSubs[c] \cap Feeds :
    redisUp /\ redisValue[f] > 0 /\ behind[c][f] = 0 => seen[c][f] = <<redisValue[f]>>
=============================================================================
