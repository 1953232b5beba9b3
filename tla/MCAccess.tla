------------------------------ MODULE MCAccess ------------------------------
(***************************************************************************)
(* Authentication and administration for TLC.  The parts do not interact   *)
(* here, so in each behaviour one of them runs and the others rest in a    *)
(* state in which none of their fair steps is enabled.                     *)
(*                                                                         *)
(* Auth: the account Google attests and another one, two requests at a     *)
(* time, two reconcilers.  Admin: two keys, for operations that undo one   *)
(* another or for unrelated ones, two requests and one saga worker.        *)
(***************************************************************************)
EXTENDS Auth, Admin, AdminOutbox, Incidents

CONSTANTS u1, u2, g, k1, k2

MCGoogleEmail == [s \in {g} |-> u1]

MCPlans == {[k \in {k1, k2} |-> IF k = k1 THEN pair[1] ELSE pair[2]] :
              pair \in {<<"SUSPEND_USER", "UNSUSPEND_USER">>, <<"HALT_MARKET", "RESUME_MARKET">>,
                        <<"WALLET", "SUSPEND_USER">>}}

VARIABLE running
accessVars == <<running, authVars, adminVars, outboxVars, incidentVars>>

AuthRests ==
  /\ accounts = [u \in Users |-> NoAccount] /\ funded = {} /\ identities = [s \in Subs |-> NoUser]
  /\ otps = [p \in Purposes, u \in Users |-> 0] /\ tokens = <<>> /\ links = <<>>
  /\ events = [u \in Users |-> NoEvent] /\ requests = [r \in Requests |-> Idle]
  /\ claims = [w \in Reconcilers |-> NoClaim] /\ work = 0

AdminRests ==
  /\ plan = [k \in Keys |-> "WALLET"]
  /\ operations = [k \in Keys |-> NoOperation] /\ tasks = [k \in Keys |-> NoTask]
  /\ took = {} /\ suspended = FALSE /\ enforced = {"ready"}
  /\ handlers = [h \in Handlers |-> Free] /\ sagas = [w \in Sagas |-> Resting]
  /\ pass = [NoPass EXCEPT !.at = "stopped"] /\ upsets = 0

IncidentsRest ==
  /\ health = "UNKNOWN" /\ incidents = <<>> /\ probe = [w \in Workers |-> NoProbe]
  /\ degradedCount = [w \in Workers |-> 0] /\ review = [o \in Operators |-> 0] /\ turns = 0

AccessInit ==
  /\ running \in {"auth", "admin", "outbox", "incidents"}
  /\ IF running = "auth"      THEN AuthInit      ELSE AuthRests
  /\ IF running = "admin"     THEN AdminInit     ELSE AdminRests
  /\ IF running = "incidents" THEN IncidentsInit ELSE IncidentsRest
  /\ OutboxInit

AccessNext ==
  /\ UNCHANGED running
  /\ \/ running = "auth"      /\ AuthNext      /\ UNCHANGED <<adminVars, outboxVars, incidentVars>>
     \/ running = "admin"     /\ AdminNext     /\ UNCHANGED <<authVars, outboxVars, incidentVars>>
     \/ running = "outbox"    /\ OutboxNext    /\ UNCHANGED <<authVars, adminVars, incidentVars>>
     \/ running = "incidents" /\ IncidentsNext /\ UNCHANGED <<authVars, adminVars, outboxVars>>

AccessSpec ==
  /\ AccessInit /\ [][AccessNext]_accessVars
  /\ AuthFairness /\ AdminFairness /\ OutboxFairness /\ IncidentsFairness
=============================================================================
