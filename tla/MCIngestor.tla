------------------------------- MODULE MCIngestor -------------------------------
(* Small instances of AlertIngestor.                                        *)
EXTENDS AlertIngestor

MCSeverities == {"SEV-1", "SEV-2", "SEV-3"}
MCExempt == {"SEV-1"}
MCAutoPause == [s \in MCSeverities |-> IF s = "SEV-3" THEN 2 ELSE 0]
NoSilences == {}

Event(kind, at, severity) ==
  [id |-> at, kind |-> kind, at |-> at, severity |-> severity,
   customer |-> "acme", resource_type |-> "EC2"]

(* Three firings of an alarm; the third is outside the interval of the first.*)
ThreeFirings ==
  {Event("firing", 1, "SEV-2"), Event("firing", 3, "SEV-2"), Event("firing", 5, "SEV-2")}

(* Firings held back for their grace, and the clearing between them.        *)
PausedTwice ==
  {Event("firing", 1, "SEV-3"), Event("clearing", 2, "SEV-3"), Event("firing", 3, "SEV-3")}

(* One of them and its clearing.                                            *)
FiringAndClearing == {Event("firing", 1, "SEV-3"), Event("clearing", 2, "SEV-3")}

(* A change of the alarm's configuration after it fired.                    *)
FiringAndConfig == {Event("firing", 1, "SEV-2"), Event("config", 3, "SEV-2")}

AllEvents == ThreeFirings \cup PausedTwice \cup FiringAndClearing \cup FiringAndConfig

Scenario(S) == queue = [ev \in Events |-> IF ev \in S THEN 1 ELSE 0]

MCInit ==
  /\ Init
  /\ \E S \in {ThreeFirings, PausedTwice, FiringAndClearing, FiringAndConfig} : Scenario(S)

(* Failures and duplicates are looked at where two events happen.           *)
MCNext == Next /\ (faults' + duplicates' > 0 => Cardinality(Undertaken) = 2)

MCSpec == MCInit /\ [][MCNext]_vars /\ Fairness
=============================================================================
