----------------------------- MODULE ResourceAlarms ----------------------------
(* Everything that moves one resource's alarms: runs, events, the dashboard,   *)
(* and the customer, who tags, removes and reports as it pleases.              *)
EXTENDS MonitorPass, ConsoleAlarms, Remediation

CONSTANTS
  Runner,       \* the worker that makes the periodic runs
  Callers,      \* what else may happen: "run", "toggle", "bulk", "edit", "add", "events"
  MaxCalls,     \* those but "events"
  Retaggings,   \* <<metric, setting>> a customer may set
  MaxChanges,   \* changes of the world
  StartTags     \* the thresholds a resource may be found with

ASSUME ResourceAssumption ==
  /\ Runner \in Workers /\ MaxCalls \in Nat /\ MaxChanges \in Nat
  /\ Callers \cap {"events", "add"} # {} => Here
  /\ Retaggings \subseteq Metrics \X Settings /\ StartTags \subseteq [Metrics -> Settings]

VARIABLES calls, changes

vars == <<alarms, alive, tags, reported, events, job, trouble, calls, changes>>

TypeOK ==
  /\ alarms \subseteq AlarmType
  /\ \A a, b \in alarms : NameOf(a) = NameOf(b) => a = b
  /\ alive \in BOOLEAN /\ tags \in TagsType
  /\ reported \subseteq Disks \cup Dynamic /\ events \subseteq EventKinds
  /\ DOMAIN job = Workers /\ trouble \in 0..MaxTrouble
  /\ calls \in 0..MaxCalls /\ changes \in 0..MaxChanges

Init ==
  /\ alarms = {} /\ alive = TRUE /\ events = {"created"}
  /\ \E thr \in StartTags : tags = [on |-> TRUE, thr |-> thr]
  /\ reported = Disks \cup Dynamic
  /\ job = [w \in Workers |-> Idle]
  /\ trouble = 0 /\ calls = 0 /\ changes = 0
--------------------------------------------------------------------------------
(* The world.                                                                  *)

Told(e) == events' = events \cup ({e} \cap EventKinds)

Ground == [w \in Workers |-> IF job[w] # Idle THEN Hurt(job[w]) ELSE job[w]]

Change ==
  /\ changes < MaxChanges
  /\ changes' = changes + 1
  /\ UNCHANGED <<trouble, calls>>

CustomerSwitches ==
  /\ Change /\ alive
  /\ tags' = [tags EXCEPT !.on = ~@]
  /\ Told(IF tags.on THEN "switched off" ELSE "switched on")
  /\ job' = Ground
  /\ UNCHANGED <<alarms, alive, reported>>

CustomerRetags ==
  /\ Change /\ alive
  /\ \E r \in Retaggings :
       /\ tags.thr[r[1]] # r[2]
       /\ tags' = [tags EXCEPT !.thr[r[1]] = r[2]]
  /\ Told("retagged")
  /\ UNCHANGED <<alarms, alive, reported, job>>

CustomerRemoves ==
  /\ Change /\ alive
  /\ alive' = FALSE
  /\ Told("deleted")
  /\ UNCHANGED <<alarms, tags, reported, job>>

CustomerModifies ==
  /\ Change /\ alive
  /\ Told("modified")
  /\ UNCHANGED <<alarms, alive, tags, reported, job>>

(* An agent begins or ceases to report.                                        *)
Reports ==
  /\ Change
  /\ \E m \in Disks \cup Dynamic :
       reported' = IF m \in reported THEN reported \ {m} ELSE reported \cup {m}
  /\ job' = Ground
  /\ UNCHANGED <<alarms, alive, tags, events>>

(* A new version of the definitions is deployed, or of the description.        *)
Redefined ==
  /\ Change
  /\ alarms # {}
  /\ \/ \E part \in Parts : alarms' = {[a EXCEPT !.sound = @ \ {part}] : a \in alarms}
     \/ alarms' = {[a EXCEPT !.told = "none"] : a \in alarms}
  /\ job' = Ground
  /\ UNCHANGED <<alive, tags, reported, events>>

Outside == CustomerSwitches \/ CustomerRetags \/ CustomerRemoves \/ CustomerModifies
            \/ Reports \/ Redefined
--------------------------------------------------------------------------------
Counted(caller) ==
  /\ caller \in Callers /\ calls < MaxCalls
  /\ calls' = calls + 1
  /\ UNCHANGED changes

(* A second run may be at work: the daily run and the hourly one overlap.      *)
Called(w) ==
  \/ Counted("run") /\ StartRun(w)
  \/ Counted("toggle") /\ \E on \in BOOLEAN : Toggle(w, on)
  \/ Counted("bulk") /\ \E on \in BOOLEAN : Bulk(w, on)
  \/ Counted("edit") /\ \E a \in alarms, t \in Thresholds, s \in {"none", "chosen"} : Edit(w, a, t, s)
  \/ Counted("add") /\ \E m \in Metrics, t \in Thresholds : Add(w, m, t)

Handles(w) == "events" \in Callers /\ \E e \in events, again \in BOOLEAN : TakeEvent(w, e, again)

Works(w) == AlarmStep(w) \/ RunStep(w) \/ ConsoleStep(w) \/ Remedy(w)

Settled == UNCHANGED <<calls, changes>>

Next ==
  \/ Outside
  \/ \E w \in Workers : Called(w)
  \/ Settled /\ StartRun(Runner)
  \/ \E w \in Workers : Settled /\ (Works(w) \/ Handles(w) \/ Die(w))

(* The schedule starts a run for ever; a worker that has a call to make makes  *)
(* it; an event is delivered in the end.                                       *)
Fairness ==
  /\ WF_vars(Settled /\ StartRun(Runner))
  /\ \A w \in Workers : WF_vars(Settled /\ Works(w))
  /\ \A w \in Workers \ {Runner} : WF_vars(Settled /\ Handles(w))

Spec == Init /\ [][Next]_vars
FairSpec == Spec /\ Fairness
--------------------------------------------------------------------------------
(* What a sync compares is as the settings have it.                            *)
Right(a, thr) == Compared(a.metric) \subseteq a.sound /\ a.threshold = ThresholdOf(thr, a.metric)

Single(as) == \A a, b \in as : a.metric = b.metric => a = b

(* What may keep an alarm: a mount point that lost its metrics or was switched *)
(* off does, and a tagged metric that lost its own.                            *)
Allowed(thr) == {m \in Standard : ~IsOff(thr, m)} \cup Disks \cup Asked(thr)

(* Every metric the settings want has its alarm, and no other metric has one.  *)
Covered(as, thr, rep) ==
  \A m \in Wanted(thr, rep) : \E a \in as : a.metric = m /\ Right(a, thr)

NoStray(as, thr) ==
  \A a \in as : a.metric \in Allowed(thr)

(* The severity an operator chose stays, told in the description too: unless   *)
(* the metric is switched off, whose alarm, if a mount point's, is let be.     *)
Kept(as, before, thr) ==
  \A a \in as, b \in before :
    a.metric = b.metric /\ b.tag = "chosen" /\ b.told # "registry"
      /\ Right(a, thr) /\ ~IsOff(thr, a.metric) => a.tag = "chosen" /\ a.told = "chosen"

(* A sync that nothing disturbed leaves the alarms its settings ask for, with  *)
(* the severity an operator chose - but those of tagged metrics only where it  *)
(* finds the metric, and of them only what a sync compares                     *)
(* (alarm_manager.sync_alarms_for_resource, alarm_builder._severity_overrides).*)
Ended(w) == job[w].set /\ ~Busy(w) /\ job[w].alone /\ Single(job[w].before)

Established ==
  \A w \in Workers :
    Ended(w) =>
      /\ Covered(alarms, job[w].thr, Seen(job[w])) /\ NoStray(alarms, job[w].thr) /\ Single(alarms)
      /\ Kept(alarms, job[w].before, job[w].thr)

SettledAlarms(as, thr, rep) ==
  Covered(as, thr, rep) /\ NoStray(as, thr) /\ Single(as)
    /\ \A a \in as : ~IsOff(thr, a.metric) => Right(a, thr) /\ a.told # "none"

(* A mount point that is switched off and has no alarm has everything made anew.*)
NoneBare(as, thr, rep) ==
  \A d \in SeenDisks(thr, rep) : IsOff(thr, d) => \E a \in as : a.metric = d

FoundRight(j, rep) ==
  /\ j.by = "run" /\ j.set /\ j.alone /\ j.before # {}
  /\ SettledAlarms(j.before, j.thr, rep) /\ NoneBare(j.before, j.thr, rep)

(* A run that lists the resource's region and finds its alarms right makes no  *)
(* call that deletes or puts one, so no alarm is made anew, loses its history  *)
(* and tells a change of configuration (alarm_sync._sync_disk_alarms).         *)
Quiet ==
  Listed => \A w \in Workers : FoundRight(job[w], reported) =>
    \A i \in DOMAIN job[w].todo :
      job[w].todo[i].do = "single" /\ job[w].todo[i].metric \in Dynamic \ reported

(* In the end the alarms are those the tags ask for, and a resource that is    *)
(* gone or not monitored has none.                                             *)
Live == Apply(tags.thr, Customer)

Converges ==
  <>[](IF alive /\ tags.on THEN Covered(alarms, Live, reported) /\ NoStray(alarms, Live) ELSE alarms = {})
================================================================================
