------------------------------- MODULE MCDelivery ------------------------------
(* Small instances of Delivery: a channel of a customer, one of all.        *)
EXTENDS Delivery

CONSTANTS own, everybody, repeat, renotify

EnvPolicy == [f \in Fields |-> 1]
BuiltPolicy == [f \in Fields |-> 0]
ByName == [ch \in Ids |-> IF ch = own THEN 1 ELSE 2]
OneType == [ch \in Ids |-> "slack"]

(* The settings share nothing with the channels but the bounds: one or the     *)
(* other moves in a behaviour.                                                 *)
Apart ==
  \/ policy = NoItem /\ silences = {} /\ wrote = 0 /\ clock = 0 /\ \A c \in Containers : used[c].load = Nothing
       /\ reading[c] = Nothing
  \/ form = [p \in People |-> Idle] /\ rows = [ch \in Ids |-> NoRow] /\ send = NoSend /\ notices = 0

HalfSeconds == <<1, 2, 3>>
================================================================================
