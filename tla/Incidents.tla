----------------------------- MODULE Incidents -----------------------------
(***************************************************************************)
(* The incidents of the admin service: health workers, one per instance,   *)
(* that probe each service every 15 seconds and open, keep alive or        *)
(* resolve its incident, and operators who resolve incidents themselves.   *)
(*                                                                         *)
(* One service.  Severities, texts, durations and the overall status are   *)
(* left out; TIMEOUT is treated like DOWN.                                 *)
(***************************************************************************)
EXTENDS Integers, Sequences, FiniteSets

CONSTANTS
  Workers,        \* instances of the service
  Operators,
  Sustained,      \* consecutive degraded probes that open an incident
  MaxIncidents, MaxTurns  \* bounds: incidents; changes of the service and failed queries

ASSUME IncidentsAssumption == {Sustained, MaxIncidents, MaxTurns} \subseteq Nat /\ Sustained > 0

VARIABLES
  health,        \* the service: "UP", "DOWN", "DEGRADED" or "UNKNOWN"
  incidents,     \* rows of admin_incidents, oldest first: "OPEN" or "RESOLVED"
  probe,         \* worker -> the status it saw and the row it found
  degradedCount, \* worker -> consecutive degraded probes
  review,        \* operator -> the incident it is resolving, 0 if none
  turns

incidentVars == <<health, incidents, probe, degradedCount, review, turns>>
-----------------------------------------------------------------------------
NoProbe == [saw |-> "none", found |-> 0]
Statuses == {"UP", "DOWN", "DEGRADED", "UNKNOWN"}

IncidentsInit ==
  /\ health = "UP" /\ incidents = <<>> /\ probe = [w \in Workers |-> NoProbe]
  /\ degradedCount = [w \in Workers |-> 0] /\ review = [o \in Operators |-> 0] /\ turns = 0

Turn == turns < MaxTurns /\ turns' = turns + 1
ActiveIncidents == {i \in 1..Len(incidents) : incidents[i] = "OPEN"}

HealthChanges ==
  /\ Turn /\ health' \in Statuses \ {health}
  /\ UNCHANGED <<incidents, probe, degradedCount, review>>

\* RunProbe: of one worker they never overlap.
Concerns_Once(w) == \/ health \in {"UP", "DOWN"}
                    \/ health = "DEGRADED" /\ degradedCount[w] + 1 = Sustained
Concerns(w) == \/ health \in {"UP", "DOWN"}
               \/ health = "DEGRADED" /\ degradedCount[w] + 1 >= Sustained
RunProbe(w) ==
  /\ probe[w] = NoProbe
  /\ degradedCount' = [degradedCount EXCEPT ![w] = IF health # "DEGRADED" THEN 0 ELSE IF @ < Sustained THEN @ + 1 ELSE @]
  /\ probe' = IF Concerns(w) THEN [probe EXCEPT ![w] = [saw |-> health, found |-> -1]] ELSE probe
  /\ UNCHANGED <<health, incidents, review, turns>>

\* A failed lookup ends the transition.
GetActiveByService(w) ==
  /\ probe[w].found = -1
  /\ \/ /\ probe' = IF probe[w].saw = "UP" /\ ActiveIncidents = {} THEN [probe EXCEPT ![w] = NoProbe]
                    ELSE [probe EXCEPT ![w].found = IF ActiveIncidents = {} THEN 0 ELSE CHOOSE i \in ActiveIncidents : TRUE]
        /\ UNCHANGED turns
     \/ Turn /\ probe' = [probe EXCEPT ![w] = NoProbe]
  /\ UNCHANGED <<health, incidents, degradedCount, review>>

\* The unique index refuses a second active incident.
OpenIncident(w) ==
  /\ probe[w].saw \in {"DOWN", "DEGRADED"} /\ probe[w].found = 0
  /\ \/ /\ Len(incidents) < MaxIncidents \/ ActiveIncidents # {}
        /\ incidents' = IF ActiveIncidents = {} THEN Append(incidents, "OPEN") ELSE incidents
        /\ UNCHANGED turns
     \/ Turn /\ UNCHANGED incidents
  /\ probe' = [probe EXCEPT ![w] = NoProbe]
  /\ UNCHANGED <<health, degradedCount, review>>

\* The heartbeat of a row changes its times and counts only, resolved or not.
UpdateHeartbeat(w) ==
  /\ probe[w].saw \in {"DOWN", "DEGRADED"} /\ probe[w].found > 0
  /\ probe' = [probe EXCEPT ![w] = NoProbe]
  /\ UNCHANGED <<health, incidents, degradedCount, review, turns>>

HandleRecovery(w) ==
  /\ probe[w].saw = "UP" /\ probe[w].found > 0
  /\ \/ incidents' = [incidents EXCEPT ![probe[w].found] = "RESOLVED"] /\ UNCHANGED turns
     \/ Turn /\ UNCHANGED incidents
  /\ probe' = [probe EXCEPT ![w] = NoProbe]
  /\ UNCHANGED <<health, degradedCount, review>>

\* ResolveIncident reads the row, then resolves it if it is still active.
Review(o) ==
  /\ review[o] = 0 /\ ActiveIncidents # {} /\ Turn
  /\ \E i \in ActiveIncidents : review' = [review EXCEPT ![o] = i]
  /\ UNCHANGED <<health, incidents, probe, degradedCount>>
ResolveIncident(o) ==
  /\ review[o] # 0
  /\ incidents' = [incidents EXCEPT ![review[o]] = "RESOLVED"]
  /\ review' = [review EXCEPT ![o] = 0]
  /\ UNCHANGED <<health, probe, degradedCount, turns>>
-----------------------------------------------------------------------------
WorkerStep(w) == RunProbe(w) \/ GetActiveByService(w) \/ OpenIncident(w) \/ UpdateHeartbeat(w) \/ HandleRecovery(w)
IncidentsNext ==
  \/ HealthChanges
  \/ \E w \in Workers : WorkerStep(w)
  \/ \E o \in Operators : Review(o) \/ ResolveIncident(o)
IncidentsFairness == (\A w \in Workers : WF_incidentVars(WorkerStep(w))) /\ (\A o \in Operators : WF_incidentVars(ResolveIncident(o)))
IncidentsSpec == IncidentsInit /\ [][IncidentsNext]_incidentVars /\ IncidentsFairness
-----------------------------------------------------------------------------
\* Whatever the workers and operators do in between, a service that stays down or stays
\* degraded ends with an active incident, and one that stays up with none.
IncidentsFollow ==
  /\ <>[](health = "UP" => ActiveIncidents = {})
  /\ <>[](health \in {"DOWN", "DEGRADED"} /\ Len(incidents) < MaxIncidents => ActiveIncidents # {})
=============================================================================
