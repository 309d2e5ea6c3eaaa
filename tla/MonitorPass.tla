------------------------------ MODULE MonitorPass ------------------------------
(* The daily run and the hourly tag reconcile, as one resource sees them       *)
(* (backend/daily_monitor/lambda_handler.py): the run lists the account's      *)
(* alarms, deletes the alarms of resources that are gone or not monitored,     *)
(* collects the monitored ones and syncs each with the list.                   *)
EXTENDS AlarmJobs

CONSTANT Listed   \* the resource's region is among those the alarms are listed of

(* _sync_inventory, _fetch_alarms_for_accounts: a region that cannot be listed *)
(* looks like one without alarms; without any list the sync asks CloudWatch.   *)
(* `strict` of the sync says that it goes by the list.                         *)
ByList(s) == [Whole("sync") EXCEPT !.strict = s]

RunPlan(s) == <<Whole("list"), Whole("orphans"), Whole("collect"), ByList(s)>>

ListAlarms(w) ==
  LET listed(as) == [Onward(w, <<>>) EXCEPT !.index = as]
  IN /\ Does(w, "list")
     /\ World /\ UNCHANGED alarms
     /\ \/ /\ UNCHANGED trouble
           /\ job' = [job EXCEPT ![w] = listed(IF Listed THEN alarms ELSE {})]
        \/ /\ trouble < MaxTrouble
           /\ trouble' = trouble + 1
           /\ \/ job' = [job EXCEPT ![w] = Hurt(listed({}))]
              \/ job' = [job EXCEPT ![w].todo = Tail(RunPlan(FALSE))]

(* What the tags say when they are read; a read that fails says nothing.       *)
Unmonitored == ~(alive /\ tags.on)

DeleteFound == <<Clear(NamesOf(alarms))>>

(* A mutant: only the alarms of a resource that is gone are deleted.           *)
CleanUpGone(w) ==
  /\ Does(w, "orphans")
  /\ World /\ UNCHANGED alarms
  /\ \/ Goes(w, IF alarms # {} /\ ~alive THEN DeleteFound ELSE <<>>)
     \/ Fails(w, <<>>)

(* _cleanup_orphan_alarms: a resource whose tags cannot be read is kept, but   *)
(* those of a REST API then look like none.                                    *)
CleanUp(w) ==
  /\ Does(w, "orphans")
  /\ World /\ UNCHANGED alarms
  /\ \/ Goes(w, IF alarms # {} /\ Unmonitored THEN DeleteFound ELSE <<>>)
     \/ Fails(w, <<>>)
     \/ alarms # {} /\ Fails(w, DeleteFound)

(* collect_monitored_resources, _tags_with_defaults: a resource that is not    *)
(* collected is not synced.                                                    *)
Collect(w) ==
  /\ Does(w, "collect")
  /\ World /\ UNCHANGED alarms
  /\ \/ /\ UNCHANGED trouble
        /\ job' = [job EXCEPT ![w] =
             IF alive /\ tags.on THEN [Onward(w, <<>>) EXCEPT !.thr = Apply(tags.thr, Customer)]
             ELSE [Onward(w, <<>>) EXCEPT !.todo = <<>>]]
     \/ /\ trouble < MaxTrouble
        /\ trouble' = trouble + 1
        /\ job' = [job EXCEPT ![w] = Hurt([@ EXCEPT !.todo = <<>>])]

StartRun(w) ==
  /\ Starts(w, "run", RunPlan(TRUE), [m \in Metrics |-> "unset"])
  /\ World /\ UNCHANGED <<alarms, trouble>>

RunStep(w) == ListAlarms(w) \/ CleanUp(w) \/ Collect(w)
================================================================================
