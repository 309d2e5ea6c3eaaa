-------------------------- MODULE IncidentLifecycle --------------------------
(***************************************************************************)
(* What common/incident.py promises of the incidents of one axis: each goes *)
(* triggered -> acknowledged -> resolved and never back, the first person   *)
(* who acknowledged it stays on record, and no member is ever lost.  Module *)
(* Incident, where routers, people and the five-minute tick read and write  *)
(* the same items concurrently, implements it.                              *)
(***************************************************************************)
EXTENDS Integers, FiniteSets

CONSTANTS
  Ids,              \* incident ids: the second the incident was triggered in
  Series,           \* the fingerprints that fire on this axis
  People,
  Nobody            \* none of the people

VARIABLE incident   \* id -> the incident

Statuses == {"none", "triggered", "acknowledged", "resolved"}

LifeType == [status : Statuses, members : SUBSET Series, by : People \cup {Nobody}]

NoIncident == [status |-> "none", members |-> {}, by |-> Nobody]

Init == incident = [id \in Ids |-> NoIncident]

IsOpen(i) == i.status \in {"triggered", "acknowledged"}

(* new_incident() and merge_events() into it.                               *)
Open(id, S) ==
  /\ incident[id].status = "none"
  /\ incident' = [incident EXCEPT ![id] =
       [status |-> "triggered", members |-> S, by |-> Nobody]]

(* merge_events()                                                           *)
Merge(id, S) ==
  /\ IsOpen(incident[id])
  /\ incident' = [incident EXCEPT ![id].members = @ \cup S]

(* acknowledge()                                                            *)
Acknowledge(id, p) ==
  /\ incident[id].status = "triggered"
  /\ incident' = [incident EXCEPT ![id].status = "acknowledged", ![id].by = p]

(* resolve()                                                                *)
Resolve(id) ==
  /\ IsOpen(incident[id])
  /\ incident' = [incident EXCEPT ![id].status = "resolved"]

Next ==
  \E id \in Ids :
    \/ \E S \in SUBSET Series : Open(id, S) \/ Merge(id, S)
    \/ \E p \in People : Acknowledge(id, p)
    \/ Resolve(id)

Spec == Init /\ [][Next]_incident
=============================================================================
