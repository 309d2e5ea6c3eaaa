------------------------------- MODULE AlarmPlan -------------------------------
(* What alarms a resource should have, and the CloudWatch calls that take the  *)
(* alarms it has to those: backend/common/alarm_manager.py, alarm_sync.py,     *)
(* alarm_builder.py and the thresholds they read (tag_resolver.py,             *)
(* threshold_resolver.py, customer_thresholds.py).  No state is kept here.     *)
EXTENDS Integers, Sequences, FiniteSets

CONSTANTS
  Standard,       \* metrics the resource type's definitions name
  Disks,          \* mount points, one alarm each, for a type that has them
  Root,           \* the mount point "/"
  Hidden,         \* mount points of memory or boot file systems
  Nested,         \* mount points below another directory, such as /var/log
  Dynamic,        \* metrics that only a Threshold_ tag asks for
  Order,          \* the definitions' order, then the tags'
  Thresholds,     \* values a threshold can have
  SystemDefault   \* the value of a metric nothing sets

Metrics == Standard \cup Disks \cup Dynamic

ASSUME PlanAssumption ==
  /\ Standard \cap Disks = {} /\ Dynamic \cap (Standard \cup Disks) = {}
  /\ Order \in Seq(Metrics) /\ Metrics = {Order[i] : i \in DOMAIN Order}
  /\ \A i, j \in DOMAIN Order : Order[i] = Order[j] => i = j
  /\ SystemDefault \in [Metrics -> Thresholds]
  /\ Thresholds \cap {"unset", "off", "bad"} = {}

(* A threshold tag: a positive number, no tag, "off", or a value that is not a *)
(* positive number.                                                            *)
Settings == Thresholds \cup {"unset", "off", "bad"}

(* The registry's severity of a metric, and the one an operator chose.         *)
Severities == {"registry", "chosen"}

(* An alarm.  Its name is its metric and threshold: CloudWatch overwrites the  *)
(* alarm of the same name.  `sound` says what of it is as the definition has   *)
(* it: the policy (how many periods, and of them how many datapoints) and the  *)
(* rest (statistic, period, comparison).  `tag` is the Severity tag, `told`    *)
(* the one the description repeats for the ingestor.                           *)
Parts == {"policy", "rest"}

AlarmType == [metric : Metrics, threshold : Thresholds, sound : SUBSET Parts,
              tag : Severities \cup {"none"}, told : Severities \cup {"none"}]

NameOf(a) == <<a.metric, a.threshold>>
Named(alarms, names) == {a \in alarms : NameOf(a) \in names}
Without(alarms, names) == {a \in alarms : NameOf(a) \notin names}
NamesOf(alarms) == {NameOf(a) : a \in alarms}

(* A mutant: the alarm of that name is put beside the old one.                 *)
OverwriteBeside(alarms, a) == alarms \cup {a}

(* put_metric_alarm keeps the tags of the alarm it overwrites.                 *)
Overwrite(alarms, a) ==
  LET old == Named(alarms, {NameOf(a)}) IN
  Without(alarms, {NameOf(a)})
    \cup {IF old = {} THEN a ELSE [a EXCEPT !.tag = (CHOOSE o \in old : TRUE).tag]}
--------------------------------------------------------------------------------
(* Thresholds: the tag, else the customer's default, else the system's.        *)

Apply(tags, customer) ==
  [m \in Metrics |-> IF tags[m] = "unset" THEN customer[m] ELSE tags[m]]

IsOff(tags, m) == tags[m] = "off"

ThresholdOf(tags, m) == IF tags[m] \in Thresholds THEN tags[m] ELSE SystemDefault[m]

(* Of the mount points CloudWatch has metrics of, those with an alarm: all but *)
(* hidden ones, or, as soon as one is tagged, the root and the tagged.  The    *)
(* suffix of a nested path does not name it again, so its tag selects nothing. *)
Tagged(tags) == {d \in Disks \ {Root} : tags[d] # "unset"}

SeenDisks(tags, reported) ==
  {d \in Disks \cap reported :
     d = Root \/ d \in Tagged(tags) \ Nested \/ (Tagged(tags) = {} /\ d \notin Hidden)}

Asked(tags) == {m \in Dynamic : tags[m] \in Thresholds}

(* The metrics an alarm is tried to be made of.                                *)
Created(tags, seen) ==
  {m \in Standard : ~IsOff(tags, m)} \cup {d \in seen : ~IsOff(tags, d)} \cup Asked(tags)

(* The metrics a created resource gets an alarm of.                            *)
Wanted(tags, reported) ==
  Created(tags, SeenDisks(tags, reported)) \ (Dynamic \ reported)
--------------------------------------------------------------------------------
(* One CloudWatch call, or a read and the decision on it: of one metric, or of *)
(* the whole resource.                                                         *)

Call(do, m, names) == [do |-> do, metric |-> m, names |-> names, strict |-> FALSE]
Whole(do) == Call(do, "all", {})
Clear(names) == Call("clear", "all", names)

(* Some metrics, in the order of the definitions.                              *)
Places(S) == {i \in DOMAIN Order : Order[i] \in S}

Rank(places, i) == Cardinality({j \in places : j <= i})

InOrder(S) ==
  [k \in 1..Cardinality(Places(S)) |-> Order[CHOOSE i \in Places(S) : Rank(Places(S), i) = k]]

(* One call of each metric that has something to do, by the alarm known of it. *)
CallFor(do, known, m) ==
  Call(do, m, IF m \in DOMAIN known THEN {NameOf(known[m])} ELSE {})

Each(dos, known) ==
  LET metrics == InOrder(DOMAIN dos)
  IN [i \in DOMAIN metrics |-> CallFor(dos[metrics[i]], known, metrics[i])]

Doing(do, S) == [m \in S |-> do]

(* Everything is deleted and made anew, with the severities read before.       *)
CreatePlan(tags, seen) ==
  <<Whole("keep"), Whole("wipe")>> \o Each(Doing("put", Created(tags, seen)), <<>>)

DeletePlan == <<Whole("wipe")>>

(* One alarm of each metric; of two, whichever is met first.                   *)
KeyToAlarm(alarms) ==
  {f \in [{a.metric : a \in alarms} -> alarms] : \A m \in DOMAIN f : f[m].metric = m}

(* What of an alarm a sync compares: of a tagged metric's, only the policy.    *)
Compared(m) == IF m \in Dynamic THEN {"policy"} ELSE Parts

(* A mutant: only the threshold is compared.                                   *)
DriftedThresholdOnly(tags, a) == a.threshold # ThresholdOf(tags, a.metric)

Drifted(tags, a) ==
  a.threshold # ThresholdOf(tags, a.metric) \/ ~(Compared(a.metric) \subseteq a.sound)

(* The alarms of tags that are new are made, those of tags that are gone       *)
(* deleted, and those that drifted replaced.                                   *)
SyncDynamic(tags, known) ==
  LET held == Dynamic \cap DOMAIN known
      changed == {m \in held : m \in Asked(tags) => Drifted(tags, known[m])}
  IN Each(Doing("single", Asked(tags) \ held), known)
       \o Each([m \in changed |-> IF m \in Asked(tags) THEN "read" ELSE "delete"], known)

(* A mutant: a resource without mount points has everything made anew too.     *)
NewDiskWhenNone(known, seen) == seen \ DOMAIN known # {} \/ DOMAIN known \cap Disks = {}

(* A mount point to monitor without an alarm has everything made anew.         *)
NewDisk(known, seen) == seen \ DOMAIN known # {}

SwitchedOff(tags, known) == {m \in Standard \cap DOMAIN known : IsOff(tags, m)}

(* A mount point that is switched off keeps the alarm it has.                  *)
Judged(tags, known, seen) ==
  {m \in Standard \cap DOMAIN known : ~IsOff(tags, m)}
    \cup (IF NewDisk(known, seen) THEN {} ELSE {d \in Disks \cap DOMAIN known : ~IsOff(tags, d)})

Missing(tags, known) == {m \in Standard \ DOMAIN known : ~IsOff(tags, m)}

(* An alarm that is right but was described before descriptions told severity. *)
Untold(tags, known, seen) ==
  {m \in Judged(tags, known, seen) \cup (Asked(tags) \cap DOMAIN known) :
     ~Drifted(tags, known[m]) /\ known[m].told = "none"}

(* An alarm that drifted is described, deleted, and made again.                *)
Changes(tags, known, seen) ==
  LET drifted == {m \in Judged(tags, known, seen) : Drifted(tags, known[m])}
  IN IF NewDisk(known, seen) THEN CreatePlan(tags, seen)
     ELSE Each(Doing("look", drifted), known) \o Each(Doing("single", Missing(tags, known)), known)

SyncPlan(tags, known, seen) ==
  Each(Doing("delete", SwitchedOff(tags, known)), known)
    \o SyncDynamic(tags, known)
    \o Changes(tags, known, seen)
    \o Each(Doing("refresh", Untold(tags, known, seen)), known)
================================================================================
