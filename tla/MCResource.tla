------------------------------- MODULE MCResource ------------------------------
(* Small instances of ResourceAlarms: one defined metric, two mount            *)
(* points, one metric that a tag asks for.                                     *)
EXTENDS ResourceAlarms

CONSTANTS cpu, root, log, req, w1, w2, low, high

AllMetrics == <<cpu, root, log, req>>
AllLow     == [m \in Metrics |-> low]
NoDefault  == [m \in Metrics |-> "unset"]
CpuDefault == [m \in Metrics |-> IF m = cpu THEN high ELSE "unset"]
Untagged   == {NoDefault}
CpuOnly    == <<cpu>>
CpuRetags  == {<<cpu, high>>, <<cpu, "off">>}
Asking     == {[m \in Metrics |-> IF m = req THEN low ELSE "unset"]}
Retags     == {<<cpu, high>>, <<cpu, "off">>, <<cpu, "bad">>, <<log, high>>, <<req, high>>, <<req, "unset">>}

(* Either the remediation handler is beside the periodic run, and something    *)
(* may fail, or another caller is, and nothing fails nor is an event handled.  *)
LiveNext == Next /\ (calls' > 0 => trouble' = 0 /\ events \subseteq events')

LiveSpec ==
  /\ Init /\ [][LiveNext]_vars
  /\ WF_vars(Settled /\ StartRun(Runner))
  /\ \A w \in Workers : WF_vars(Settled /\ Works(w))
  /\ \A w \in Workers \ {Runner} : WF_vars(calls = 0 /\ Settled /\ Handles(w))
================================================================================
