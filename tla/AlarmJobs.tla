------------------------------- MODULE AlarmJobs -------------------------------
(* One resource's alarms in CloudWatch and the workers that change them: the   *)
(* daily monitor, the remediation handler, the API and the bulk worker all     *)
(* call alarm_manager.py, which reads, decides and then makes its calls one by *)
(* one, with nothing to keep two workers apart.                                *)
EXTENDS AlarmPlan

CONSTANTS
  Workers,
  Here,        \* the resource is where the engine's own clients look
  Customer,    \* the customer's default of each metric, or "unset"
  MaxTrouble   \* calls that fail and workers that die

ASSUME JobsAssumption ==
  Here \in BOOLEAN /\ Customer \in [Metrics -> Settings] /\ MaxTrouble \in Nat

VARIABLES
  alarms,      \* the alarms CloudWatch has for the resource
  alive,       \* the resource exists
  tags,        \* its tags: Monitoring=on, and a setting of each metric
  reported,    \* mount points and tagged metrics CloudWatch has data of
  events,      \* CloudTrail events of the resource not handled yet
  job,         \* what each worker is doing
  trouble      \* failures so far

jvars == <<alarms, alive, tags, reported, events, job, trouble>>

TagsType == [on : BOOLEAN, thr : [Metrics -> Settings]]
EventKinds == {"created", "modified", "deleted", "switched on", "switched off", "retagged"}

(* todo: the calls left, `thr` the settings it applies, `index` the alarms it  *)
(* listed at its start, `kept` the severities it read before deleting, `draft` *)
(* the description it is about to write.  `alone` turns false when anything    *)
(* else moves or fails while it works; `set` says that it has decided what the *)
(* alarms will be, `before` what they were then.                               *)
Idle == [todo |-> <<>>, by |-> "none", thr |-> [m \in Metrics |-> "unset"], index |-> {},
         kept |-> [m \in Metrics |-> "none"], draft |-> {}, alone |-> TRUE,
         set |-> FALSE, before |-> {}]

Busy(w) == job[w].todo # <<>>
Now(w) == Head(job[w].todo)
Onward(w, more) == [job[w] EXCEPT !.todo = more \o Tail(@)]

(* Every other worker at work sees its ground move.                            *)
Moved(w, j) ==
  [v \in Workers |-> IF v = w THEN j
                     ELSE IF job[v] # Idle THEN [job[v] EXCEPT !.alone = FALSE] ELSE job[v]]

Hurt(j) == [j EXCEPT !.alone = FALSE]

Does(w, do) == Busy(w) /\ Now(w).do = do

(* The call succeeds and the worker goes on with `more`.                       *)
Goes(w, more) == job' = [job EXCEPT ![w] = Onward(w, more)] /\ UNCHANGED trouble

(* It fails, which the code logs, and the worker goes on all the same.         *)
Fails(w, more) ==
  /\ trouble < MaxTrouble
  /\ trouble' = trouble + 1
  /\ job' = [job EXCEPT ![w] = Hurt(Onward(w, more))]

World == UNCHANGED <<alive, tags, reported, events>>

(* The metrics a worker finds.  The dashboard and the bulk worker pass the     *)
(* client of the resource's account and region, and the mount points are       *)
(* looked up with it; a tagged metric is looked up with the engine's own.      *)
Seen(j) == IF Here \/ j.by \notin {"toggle", "bulk"} THEN reported ELSE reported \ Dynamic

PutNext(w) == <<Call("put", Now(w).metric, {})>>
--------------------------------------------------------------------------------
(* create_alarms_for_resource: what an operator set on the alarms it deletes.  *)
Keep(w) ==
  /\ Does(w, "keep")
  /\ World /\ UNCHANGED alarms
  /\ \/ /\ UNCHANGED trouble
        /\ job' = [job EXCEPT ![w] = [Onward(w, <<>>) EXCEPT
             !.kept = [m \in Metrics |->
                         IF \E a \in alarms : a.metric = m /\ a.tag = "chosen" THEN "chosen" ELSE "none"]]]
     \/ Fails(w, <<>>)

(* _delete_all_alarms_for_resource finds by name, then deletes what it found.  *)
Wipe(w) ==
  /\ Does(w, "wipe")
  /\ World /\ UNCHANGED alarms
  /\ \/ Goes(w, IF alarms = {} THEN <<>> ELSE <<Clear(NamesOf(alarms))>>)
     \/ Fails(w, <<>>)

(* An alarm that drifted is deleted and put again: a dynamic one ("replace")   *)
(* even if it could not be deleted, another one ("remake") is then left alone. *)
DeleteAlarms(w) ==
  /\ \E do \in {"delete", "clear", "replace", "remake"} : Does(w, do)
  /\ World
  /\ \/ /\ alarms' = Without(alarms, Now(w).names)
        /\ UNCHANGED trouble
        /\ job' = Moved(w, Onward(w, IF Now(w).do \in {"replace", "remake"} THEN PutNext(w) ELSE <<>>))
     \/ /\ UNCHANGED alarms
        /\ Fails(w, IF Now(w).do = "replace" THEN PutNext(w) ELSE <<>>)

(* The severity of the alarm that was found is kept, and it is deleted next.   *)
Found(w, found, next) ==
  [Onward(w, <<Call(next, Now(w).metric, Now(w).names)>>) EXCEPT
     !.kept[Now(w).metric] = IF \E a \in found : a.tag = "chosen" THEN "chosen" ELSE "none"]

(* _recreate_alarm_by_name: an alarm that is gone, or cannot be described, is  *)
(* not made again; one whose tags cannot be read is, with the registry's.      *)
Look(w) ==
  LET found == Named(alarms, Now(w).names)
  IN /\ Does(w, "look")
     /\ World /\ UNCHANGED alarms
     /\ \/ /\ found # {}
           /\ UNCHANGED trouble
           /\ job' = [job EXCEPT ![w] = Found(w, found, "remake")]
        \/ /\ found # {}
           /\ trouble < MaxTrouble
           /\ trouble' = trouble + 1
           /\ job' = [job EXCEPT ![w] = Hurt(Found(w, {}, "remake"))]
        \/ found = {} /\ Goes(w, <<>>)
        \/ Fails(w, <<>>)

(* A drifted dynamic alarm: only its severity is read.                         *)
ReadSeverity(w) ==
  /\ Does(w, "read")
  /\ World /\ UNCHANGED alarms
  /\ \/ /\ UNCHANGED trouble
        /\ job' = [job EXCEPT ![w] = Found(w, Named(alarms, Now(w).names), "replace")]
     \/ Fails(w, <<Call("replace", Now(w).metric, Now(w).names)>>)

(* The alarm a worker makes of a metric: its tag and description agree.        *)
Made(w, m, kept) ==
  LET severity == IF kept = "none" THEN "registry" ELSE kept
  IN [metric |-> m, threshold |-> ThresholdOf(job[w].thr, m), sound |-> Parts,
      tag |-> severity, told |-> severity]

NewAlarm(w) ==
  LET m == Now(w).metric
  IN Made(w, m, IF Now(w).do = "put" THEN job[w].kept[m] ELSE "none")

(* A tagged metric that is not found has no dimensions to put an alarm on.     *)
NoDimensions(w) == Now(w).metric \in Dynamic \ Seen(job[w])

Put(w) ==
  /\ ~NoDimensions(w)
  /\ alarms' = Without(alarms, {NameOf(NewAlarm(w))}) \cup {NewAlarm(w)}
  /\ UNCHANGED trouble
  /\ job' = Moved(w, Onward(w, <<>>))

(* put_metric_alarm fails, or tag_resource after it: a new alarm is then       *)
(* untagged, an overwritten one keeps its tag.                                 *)
PutFails(w) ==
  /\ trouble < MaxTrouble
  /\ trouble' = trouble + 1
  /\ alarms' \in IF NoDimensions(w) THEN {alarms}
                  ELSE {alarms, Overwrite(alarms, [NewAlarm(w) EXCEPT !.tag = "none"])}
  /\ job' = Moved(w, Hurt(Onward(w, <<>>)))

PutAlarm(w) ==
  /\ Does(w, "put") \/ Does(w, "single")
  /\ World
  /\ \/ Put(w)
     \/ NoDimensions(w) /\ Goes(w, <<>>) /\ UNCHANGED alarms
     \/ PutFails(w)

Retold(a) == [a EXCEPT !.told = IF a.tag = "none" THEN "registry" ELSE a.tag]
AsRegistered(a) == [a EXCEPT !.told = "registry"]

Redraft(w, told) ==
  [Onward(w, IF told \subseteq alarms THEN <<>> ELSE <<Call("rewrite", Now(w).metric, {})>>)
     EXCEPT !.draft = told \ alarms]

(* _refresh_alarm_description reads the alarm and its tag, or takes the        *)
(* registry's severity if the tag cannot be read ...                           *)
Refresh(w) ==
  LET old == Named(alarms, Now(w).names)
  IN /\ Does(w, "refresh")
     /\ World /\ UNCHANGED alarms
     /\ \/ /\ UNCHANGED trouble
           /\ job' = [job EXCEPT ![w] = Redraft(w, {Retold(a) : a \in old})]
        \/ /\ trouble < MaxTrouble
           /\ trouble' = trouble + 1
           /\ job' = [job EXCEPT ![w] = Hurt(Redraft(w, {AsRegistered(a) : a \in old}))]
        \/ Fails(w, <<>>)

(* ... and puts it back with the description changed: an alarm deleted in      *)
(* between comes back, untagged.                                               *)
Rewrite(w) ==
  /\ Does(w, "rewrite")
  /\ World
  /\ LET a == CHOOSE d \in job[w].draft : TRUE
         new == IF Named(alarms, {NameOf(a)}) = {} THEN [a EXCEPT !.tag = "none"] ELSE a
         done == [Onward(w, <<>>) EXCEPT !.draft = {}]
     IN \/ /\ alarms' = Overwrite(alarms, new)
           /\ UNCHANGED trouble
           /\ job' = Moved(w, done)
        \/ /\ UNCHANGED alarms
           /\ trouble < MaxTrouble
           /\ trouble' = trouble + 1
           /\ job' = [job EXCEPT ![w] = Hurt(done)]
--------------------------------------------------------------------------------
(* sync_alarms_for_resource reads the resource's alarms, from the run's index  *)
(* or from CloudWatch, lists its mount points, and decides everything.  What   *)
(* it cannot read looks like nothing: no alarm, or no mount point.             *)
PlanFor(thr, existing, seen) ==
  IF existing = {} THEN {CreatePlan(thr, seen)}
  ELSE {SyncPlan(thr, known, seen) : known \in KeyToAlarm(existing)}

(* With a read that fails.  Alarms whose names were found but that could not   *)
(* be described are not known, and those that are missing are made one by one. *)
PlanBlind(thr, existing, strict, seen) ==
  PlanFor(thr, existing, {})
    \cup IF strict THEN {}
         ELSE PlanFor(thr, {}, seen) \cup (IF existing = {} THEN {} ELSE {SyncPlan(thr, <<>>, seen)})

Sync(w) ==
  LET existing == IF Now(w).strict THEN job[w].index ELSE alarms
      thr == job[w].thr
      begin(plan) == [Onward(w, plan) EXCEPT !.set = TRUE, !.before = alarms]
  IN /\ Does(w, "sync")
     /\ World /\ UNCHANGED alarms
     /\ \/ /\ UNCHANGED trouble
           /\ \E plan \in PlanFor(thr, existing, SeenDisks(thr, Seen(job[w]))) :
                job' = [job EXCEPT ![w] = begin(plan)]
        \/ /\ trouble < MaxTrouble
           /\ trouble' = trouble + 1
           /\ \E plan \in PlanBlind(thr, existing, Now(w).strict, SeenDisks(thr, Seen(job[w]))) :
                job' = [job EXCEPT ![w] = Hurt(begin(plan))]

(* create_alarms_for_resource on its own.                                      *)
Create(w) ==
  /\ Does(w, "create")
  /\ World /\ UNCHANGED alarms
  /\ \/ /\ UNCHANGED trouble
        /\ job' = [job EXCEPT ![w] =
             [Onward(w, CreatePlan(job[w].thr, SeenDisks(job[w].thr, Seen(job[w]))))
                EXCEPT !.set = TRUE, !.before = alarms]]
     \/ Fails(w, CreatePlan(job[w].thr, {}))

(* A worker dies where it stands: a Lambda runs out of time.                   *)
Die(w) ==
  /\ Busy(w)
  /\ trouble < MaxTrouble
  /\ trouble' = trouble + 1
  /\ job' = [job EXCEPT ![w] = Idle]
  /\ World /\ UNCHANGED alarms

(* The last call is made.                                                      *)
Finish(w) ==
  /\ job[w] # Idle /\ ~Busy(w)
  /\ job' = [job EXCEPT ![w] = Idle]
  /\ World /\ UNCHANGED <<alarms, trouble>>

AlarmStep(w) ==
  \/ Keep(w) \/ Wipe(w) \/ DeleteAlarms(w) \/ Look(w) \/ ReadSeverity(w)
  \/ PutAlarm(w) \/ Refresh(w) \/ Rewrite(w) \/ Sync(w) \/ Create(w) \/ Finish(w)

(* A free worker starts a call with these first steps.                         *)
Starts(w, by, todo, thr) ==
  /\ job[w] = Idle
  /\ job' = [job EXCEPT ![w] = [Idle EXCEPT !.todo = todo, !.by = by, !.thr = thr]]
================================================================================
