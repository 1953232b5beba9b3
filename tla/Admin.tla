------------------------------- MODULE Admin -------------------------------
(***************************************************************************)
(* The operations of the admin service (services/admin) on one user, the   *)
(* user's wallet and one market: the idempotent operation record, the call *)
(* of the service that carries it out, the saga that goes on when that     *)
(* call fails, the enforcement keys in Redis, and the reconciler that      *)
(* brings them back into line with the database and the auth service.      *)
(* Operations on different targets share nothing but these steps.          *)
(*                                                                         *)
(* A request and a worker stop anywhere; a call that fails may have been   *)
(* carried out.                                                            *)
(***************************************************************************)
EXTENDS Naturals, FiniteSets

CONSTANTS
  Keys,            \* idempotency keys
  Plans,           \* what the keys may be used for: some of [Keys -> Kinds]
  Handlers, Sagas, \* HTTP requests; saga workers
  Nobody,
  MaxSagaAttempts,
  MaxUpsets        \* bound: requests begun, stops, lost keys and failed writes to Redis

Kinds == {"SUSPEND_USER", "UNSUSPEND_USER", "WALLET", "HALT_MARKET", "RESUME_MARKET"}

ASSUME AdminAssumption ==
  Plans \subseteq [Keys -> Kinds] /\ MaxSagaAttempts \in Nat \ {0} /\ MaxUpsets \in Nat /\ Nobody \notin Sagas

VARIABLES
  plan,        \* the operation each key is for
  operations,  \* admin_operations: [kind, status, made]
  tasks,       \* admin_saga_tasks: [status, attempts, lock]
  took,        \* operations the auth or wallet service has carried out
  suspended,   \* the auth service's status of the user
  enforced,    \* keys in Redis: "suspended", "halted", "ready"
  handlers,    \* [key, kind, at]
  sagas,       \* what a saga worker is at: [key, attempts, at]
  pass,        \* the reconciler's pass: [at, want, seen]
  upsets

adminVars == <<plan, operations, tasks, took, suspended, enforced, handlers, sagas, pass, upsets>>
-----------------------------------------------------------------------------
NoOperation == [status |-> "NONE", made |-> 0]
NoTask      == [status |-> "NONE", attempts |-> 0, lock |-> Nobody]
Free        == [key |-> Nobody, at |-> "none"]
Resting     == [key |-> Nobody, attempts |-> 0, at |-> "none"]
NoPass      == [at |-> "none", want |-> {}, seen |-> {}]
\* The lease of a worker that died.
Dead == "dead"

AdminInit ==
  /\ plan \in Plans
  /\ operations = [k \in Keys |-> NoOperation]
  /\ tasks = [k \in Keys |-> NoTask]
  /\ took = {} /\ suspended \in BOOLEAN /\ enforced = {}
  /\ handlers = [h \in Handlers |-> Free]
  /\ sagas = [w \in Sagas |-> Resting]
  /\ pass = NoPass /\ upsets = 0

Upset == upsets < MaxUpsets /\ upsets' = upsets + 1
Step(h, at) == handlers' = [handlers EXCEPT ![h].at = at]
Leave(h)    == handlers' = [handlers EXCEPT ![h] = Free]
Made == Cardinality({k \in Keys : operations[k] # NoOperation})

\* GetLatestMarketStates: the latest COMPLETED operation on the market.
MarketOps == {k \in Keys : plan[k] \in {"HALT_MARKET", "RESUME_MARKET"} /\ operations[k].status = "COMPLETED"}
Halted == \E k \in MarketOps : /\ plan[k] = "HALT_MARKET"
                               /\ \A j \in MarketOps : operations[j].made <= operations[k].made
-----------------------------------------------------------------------------
(***************************************************************************)
(* Requests.                                                               *)
(***************************************************************************)
\* What the operation does next once its record is there.
FirstCall == [SUSPEND_USER |-> "auth", UNSUSPEND_USER |-> "auth", WALLET |-> "wallet",
              HALT_MARKET |-> "redis", RESUME_MARKET |-> "redis"]

\* GetByIdempotencyKey: a known operation is answered, except that a wallet operation
\* not COMPLETED is called again under its own id.
Request(h, k) ==
  LET Goes(at) == handlers' = [handlers EXCEPT ![h] = [key |-> k, at |-> at]]
  IN /\ handlers[h] = Free /\ Upset
     /\ \/ operations[k] = NoOperation /\ Goes("insert")
        \/ /\ operations[k] # NoOperation /\ plan[k] = "WALLET" /\ operations[k].status # "COMPLETED"
           /\ Goes("wallet")
     /\ UNCHANGED <<plan, operations, tasks, took, suspended, enforced, sagas, pass>>

\* ExecAdminOperationTx: operation, audit row, outbox row and saga task, or none of them;
\* the unique key makes the second request of a kind leave with what the first one made.
InsertedAs_Wallet(kind) == IF kind = "SUSPEND_USER" THEN "PROCESSING" ELSE "COMPLETED"
InsertedAs(kind) == IF kind \in {"SUSPEND_USER", "WALLET"} THEN "PROCESSING" ELSE "COMPLETED"

Insert(h) ==
  LET k == handlers[h].key
      kind == plan[k]
  IN /\ handlers[h].at = "insert"
     /\ \/ /\ operations[k] # NoOperation
           /\ Leave(h)
           /\ UNCHANGED <<operations, tasks>>
        \/ /\ operations[k] = NoOperation
           /\ operations' = [operations EXCEPT ![k] = [status |-> InsertedAs(kind), made |-> Made + 1]]
           /\ tasks' = IF kind = "SUSPEND_USER" THEN [tasks EXCEPT ![k].status = "PENDING"] ELSE tasks
           /\ Step(h, FirstCall[kind])
     /\ UNCHANGED <<plan, took, suspended, enforced, sagas, pass, upsets>>

\* The synchronous call of the auth service; a failed suspension is left to the saga, a
\* failed unsuspension is logged.
CallAuth(h) ==
  LET k == handlers[h].key
      suspend == plan[k] = "SUSPEND_USER"
  IN /\ handlers[h].at = "auth"
     /\ \/ /\ suspended' = suspend /\ took' = took \cup {k}
           /\ Step(h, IF suspend THEN "complete" ELSE "redis")
        \/ /\ \/ suspended' = suspend /\ took' = took \cup {k}
              \/ UNCHANGED <<suspended, took>>
           /\ IF suspend THEN Leave(h) ELSE Step(h, "redis")
     /\ UNCHANGED <<plan, operations, tasks, enforced, sagas, pass, upsets>>

\* CompleteAuthSaga, in one transaction and whatever the two rows have become.
CompletesSaga(k) ==
  /\ operations' = [operations EXCEPT ![k].status = "COMPLETED"]
  /\ tasks' = [tasks EXCEPT ![k].status = "COMPLETED", ![k].lock = Nobody]

CompleteAuthSaga(h) ==
  /\ handlers[h].at = "complete"
  /\ CompletesSaga(handlers[h].key)
  /\ Step(h, "redis")
  /\ UNCHANGED <<plan, took, suspended, enforced, sagas, pass, upsets>>

\* SetRedisWithRetry and DelRedisWithRetry; the reconciler repairs what fails here.
Wanted(kind, keys) ==
  CASE kind = "SUSPEND_USER"   -> keys \cup {"suspended"}
    [] kind = "UNSUSPEND_USER" -> keys \ {"suspended"}
    [] kind = "HALT_MARKET"    -> keys \cup {"halted"}
    [] OTHER                   -> keys \ {"halted"}

WriteRedis(h) ==
  /\ handlers[h].at = "redis"
  /\ \/ enforced' = Wanted(plan[handlers[h].key], enforced) /\ UNCHANGED upsets
     \/ Upset /\ UNCHANGED enforced
  /\ Leave(h)
  /\ UNCHANGED <<plan, operations, tasks, took, suspended, sagas, pass>>

\* executeWalletMutation's call; on an error the row goes back to PROCESSING.
CallWallet(h) ==
  LET k == handlers[h].key
  IN /\ handlers[h].at = "wallet"
     /\ \/ /\ took' = took \cup {k}
           /\ Step(h, "done")
           /\ UNCHANGED operations
        \/ /\ took' \in {took, took \cup {k}}
           /\ operations' = [operations EXCEPT ![k].status = "PROCESSING"]
           /\ Leave(h)
     /\ UNCHANGED <<plan, tasks, suspended, enforced, sagas, pass, upsets>>

FinishWallet(h) ==
  /\ handlers[h].at = "done"
  /\ operations' = [operations EXCEPT ![handlers[h].key].status = "COMPLETED"]
  /\ Leave(h)
  /\ UNCHANGED <<plan, tasks, took, suspended, enforced, sagas, pass, upsets>>

RequestDies(h) ==
  /\ handlers[h] # Free /\ Upset /\ Leave(h)
  /\ UNCHANGED <<plan, operations, tasks, took, suspended, enforced, sagas, pass>>
-----------------------------------------------------------------------------
(***************************************************************************)
(* SagaWorker.                                                             *)
(***************************************************************************)
Due_PendingOnly(k) == tasks[k].status = "PENDING" /\ tasks[k].lock = Nobody
Due(k) == tasks[k].status \in {"PENDING", "RETRYING"} /\ tasks[k].lock = Nobody

FetchDue(w, k) ==
  /\ sagas[w] = Resting /\ Due(k)
  /\ tasks' = [tasks EXCEPT ![k].lock = w]
  /\ sagas' = [sagas EXCEPT ![w] = [key |-> k, attempts |-> tasks[k].attempts, at |-> "call"]]
  /\ UNCHANGED <<plan, operations, took, suspended, enforced, handlers, pass, upsets>>

\* Five minutes on; a living worker is done with its tasks long before.
LeaseExpires(k) ==
  /\ tasks[k].lock = Dead
  /\ tasks' = [tasks EXCEPT ![k].lock = Nobody]
  /\ UNCHANGED <<plan, operations, took, suspended, enforced, handlers, sagas, pass, upsets>>

\* handleAuthInvalidation calls InvalidateUserSessions, which leaves the status alone.
Invalidates(w) ==
  /\ sagas[w].at = "call"
  /\ sagas' \in {[sagas EXCEPT ![w].at = a] : a \in {"complete", "retry", "exhaust"}}
  /\ sagas'[w].at = "retry" => sagas[w].attempts + 1 < MaxSagaAttempts
  /\ UNCHANGED <<plan, operations, tasks, took, suspended, enforced, handlers, pass, upsets>>

SagaCompletes(w) ==
  /\ sagas[w].at = "complete"
  /\ CompletesSaga(sagas[w].key)
  /\ sagas' = [sagas EXCEPT ![w] = Resting]
  /\ UNCHANGED <<plan, took, suspended, enforced, handlers, pass, upsets>>

\* UpdateRetry and MarkExhausted write only under the worker's own lease.
Holds(w) == tasks[sagas[w].key].lock = w

UpdateRetry(w) ==
  LET k == sagas[w].key
  IN /\ sagas[w].at = "retry"
     /\ tasks' = IF Holds(w) THEN [tasks EXCEPT ![k] = [status |-> "RETRYING", attempts |-> sagas[w].attempts + 1, lock |-> Nobody]]
                 ELSE tasks
     /\ sagas' = [sagas EXCEPT ![w] = Resting]
     /\ UNCHANGED <<plan, operations, took, suspended, enforced, handlers, pass, upsets>>

MarkExhausted(w) ==
  LET k == sagas[w].key
  IN /\ sagas[w].at = "exhaust"
     /\ \/ /\ Holds(w)
           /\ tasks' = [tasks EXCEPT ![k].status = "EXHAUSTED", ![k].lock = Nobody]
           /\ sagas' = [sagas EXCEPT ![w].at = "fail"]
        \/ /\ ~Holds(w)
           /\ sagas' = [sagas EXCEPT ![w] = Resting]
           /\ UNCHANGED tasks
     /\ UNCHANGED <<plan, operations, took, suspended, enforced, handlers, pass, upsets>>

FailOperation(w) ==
  /\ sagas[w].at = "fail"
  /\ operations' = [operations EXCEPT ![sagas[w].key].status = "FAILED"]
  /\ sagas' = [sagas EXCEPT ![w] = Resting]
  /\ UNCHANGED <<plan, tasks, took, suspended, enforced, handlers, pass, upsets>>

\* The operation of a task given up before this stays PROCESSING.
SagaWorkerDies(w) ==
  /\ sagas[w] # Resting /\ sagas[w].at # "fail" /\ Upset
  /\ tasks' = [k \in Keys |-> IF tasks[k].lock = w THEN [tasks[k] EXCEPT !.lock = Dead] ELSE tasks[k]]
  /\ sagas' = [sagas EXCEPT ![w] = Resting]
  /\ UNCHANGED <<plan, operations, took, suspended, enforced, handlers, pass>>
-----------------------------------------------------------------------------
(***************************************************************************)
(* StateReconciler: the truth first, then the keys, then the repair, first *)
(* of markets and then of users.  A pass that meets an error ends; the     *)
(* next one starts at the ticker.                                          *)
(***************************************************************************)
ReadsMarkets ==
  /\ pass = NoPass
  /\ pass' = [NoPass EXCEPT !.at = "scanMarkets", !.want = IF Halted THEN {"halted"} ELSE {}]
  /\ UNCHANGED <<plan, operations, tasks, took, suspended, enforced, handlers, sagas, upsets>>

ScansMarkets ==
  /\ pass.at = "scanMarkets"
  /\ pass' = [pass EXCEPT !.at = "healMarkets", !.seen = enforced \cap {"halted"}]
  /\ UNCHANGED <<plan, operations, tasks, took, suspended, enforced, handlers, sagas, upsets>>

\* Missing keys are set, stale ones deleted, as the snapshots tell.
Healed(keys, want, seen) == (keys \cup (want \ seen)) \ (seen \ want)

HealsMarkets ==
  /\ pass.at = "healMarkets"
  /\ enforced' = Healed(enforced, pass.want, pass.seen) \cup {"ready"}
  /\ pass' = [NoPass EXCEPT !.at = "readUsers"]
  /\ UNCHANGED <<plan, operations, tasks, took, suspended, handlers, sagas, upsets>>

ReadsUsers ==
  /\ pass.at = "readUsers"
  /\ pass' = [pass EXCEPT !.at = "scanUsers", !.want = IF suspended THEN {"suspended"} ELSE {}]
  /\ UNCHANGED <<plan, operations, tasks, took, suspended, enforced, handlers, sagas, upsets>>

ScansUsers ==
  /\ pass.at = "scanUsers"
  /\ pass' = [pass EXCEPT !.at = "healUsers", !.seen = enforced \cap {"suspended"}]
  /\ UNCHANGED <<plan, operations, tasks, took, suspended, enforced, handlers, sagas, upsets>>

HealsUsers ==
  /\ pass.at = "healUsers"
  /\ enforced' = Healed(enforced, pass.want, pass.seen)
  /\ pass' = NoPass
  /\ UNCHANGED <<plan, operations, tasks, took, suspended, handlers, sagas, upsets>>

PassEnds ==
  /\ pass # NoPass /\ Upset
  /\ pass' = NoPass
  /\ UNCHANGED <<plan, operations, tasks, took, suspended, enforced, handlers, sagas>>

\* Redis keeps what it holds in memory.
RedisForgets ==
  /\ enforced # {} /\ Upset
  /\ enforced' = {}
  /\ UNCHANGED <<plan, operations, tasks, took, suspended, handlers, sagas, pass>>
-----------------------------------------------------------------------------
HandlerStep(h) ==
  \/ Insert(h) \/ CallAuth(h) \/ CompleteAuthSaga(h) \/ WriteRedis(h)
  \/ CallWallet(h) \/ FinishWallet(h) \/ RequestDies(h)

SagaStep(w) ==
  \/ Invalidates(w) \/ SagaCompletes(w) \/ UpdateRetry(w) \/ MarkExhausted(w) \/ FailOperation(w)

ReconcilerStep ==
  \/ ReadsMarkets \/ ScansMarkets \/ HealsMarkets \/ ReadsUsers \/ ScansUsers \/ HealsUsers

AdminNext ==
  \/ \E h \in Handlers : HandlerStep(h) \/ \E k \in Keys : Request(h, k)
  \/ \E w \in Sagas : SagaStep(w) \/ SagaWorkerDies(w) \/ \E k \in Keys : FetchDue(w, k)
  \/ \E k \in Keys : LeaseExpires(k)
  \/ ReconcilerStep \/ PassEnds \/ RedisForgets

AdminSpec == AdminInit /\ [][AdminNext]_adminVars

\* Tickers go on, leases run out, and every handler and call has a deadline.
AdminFairness ==
  /\ WF_adminVars(ReconcilerStep)
  /\ \A h \in Handlers : WF_adminVars(HandlerStep(h))
  /\ \A w \in Sagas : WF_adminVars(SagaStep(w)) /\ WF_adminVars(\E k \in Keys : FetchDue(w, k))
  /\ \A k \in Keys : WF_adminVars(LeaseExpires(k))
AdminFairSpec == AdminSpec /\ AdminFairness
-----------------------------------------------------------------------------
(***************************************************************************)
(* Properties.                                                             *)
(***************************************************************************)
\* The keys the other services enforce agree in the end with the latest operation on the
\* market and the auth service's status, whatever was lost, raced or failed on the way.
EnforcementConverges ==
  <>[](/\ "halted" \in enforced <=> Halted
       /\ "suspended" \in enforced <=> suspended
       /\ "ready" \in enforced)

\* A suspension the auth service did not confirm at once does not stay PROCESSING: the
\* saga finishes it or gives it up, across dead requests, dead workers and their leases.
SuspensionSettles ==
  <>[](\A k \in Keys : plan[k] = "SUSPEND_USER" => operations[k] = NoOperation \/ operations[k].status \in {"COMPLETED", "FAILED"})

\* A wallet operation is COMPLETED only when the wallet service has carried it out, however
\* many requests with its key were answered, failed or died.
CompletedIsDone ==
  \A k \in Keys : plan[k] = "WALLET" /\ operations[k].status = "COMPLETED" => k \in took

\* What an operator asked for comes to be, or fails visibly.
OperationsSettle == EnforcementConverges /\ SuspensionSettles

\* user_service.go: "If Auth fails, SagaWorker asynchronously completes it."  The saga only
\* ends the sessions, and the operation says COMPLETED of a user who was never suspended.
SuspendedWhenCompleted ==
  \A k \in Keys : plan[k] = "SUSPEND_USER" /\ operations[k].status = "COMPLETED" => k \in took
=============================================================================
