------------------------------ MODULE MCForwarding -----------------------------
(* A small instance of Forwarding: an account of two customers, one of another.*)
EXTENDS Forwarding

CONSTANTS k1, k2, k3, a1, a2

InRows == [k \in Rows |-> IF k = k3 THEN a2 ELSE a1]
================================================================================
