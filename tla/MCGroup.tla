-------------------------------- MODULE MCGroup --------------------------------
(* Instances of AlertGroup for TLC: two events of one axis.        *)
EXTENDS AlertGroup, TLC

AllEvents == Permutations(Events)
=============================================================================
