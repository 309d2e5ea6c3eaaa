------------------------------ MODULE MCIncident ------------------------------
(* Small instances of Incident.                                             *)
EXTENDS Incident, TLC

Symmetric == Permutations(Routers) \cup Permutations(Series)

(* A state Incident reaches: the alarms F fire, and a router recorded them  *)
(* in one incident.                                                         *)
Opened(F) ==
  /\ second = 1
  /\ incidents = [id \in Ids |->
       IF id = 1 THEN [version |-> 1, status |-> "triggered", members |-> F, by |-> Nobody]
       ELSE NoIncident]
  /\ pointer = 1
  /\ alarm = [s \in Series |-> s \in F]
  /\ episode = alarm
  /\ started = [s \in Series |-> IF s \in F THEN 1 ELSE 0]
  /\ pending = {}
  /\ clears = FALSE
  /\ run = [r \in Routers |-> Idle]
  /\ ack = [p \in People |-> NoAck]
  /\ tick = NoTick
  /\ lost = [s \in Series |-> "no"]
  /\ left = [fires |-> MaxFires - Cardinality(F), deletes |-> MaxDeletes,
             renotices |-> MaxRenotices, faults |-> MaxFaults]

FairFromOpen ==
  /\ \E F \in SUBSET Series \ {{}} : Opened(F)
  /\ [][Next]_vars
  /\ Fairness
=============================================================================
