------------------------------- MODULE MCInventory -----------------------------
(* Small instances of Inventory: an account with a resource in the region its  *)
(* record names and a global one, whose alarms are in another.                 *)
EXTENDS Inventory

CONSTANTS r1, r2, ours, seoul, oregon, east, w1, w2

Owner == [r \in Resources |-> ours]
Place == [r \in Resources |-> IF r = r1 THEN east ELSE oregon]
Record == [a \in Accounts |-> {oregon}]
================================================================================
