------------------------------ MODULE Remediation ------------------------------
(* The remediation handler (backend/remediation_handler/lambda_handler.py): it *)
(* gets CloudTrail's events of a resource, late, in any order and perhaps      *)
(* twice, and answers by what the event says or by the tags it then reads.     *)
EXTENDS AlarmJobs

CONSTANT Deletes   \* the remedy of a forbidden change is to delete (load balancers)

(* Tags that cannot be read are none.                                          *)
Bare == [m \in Metrics |-> "unset"]
TagsRead == IF alive THEN tags.thr ELSE Bare

TagEvents == {"switched on", "switched off", "retagged"}
Removal == <<"remove", DeletePlan>>

(* A change of tags is believed as the event tells it.                         *)
TagAnswer(e, on) ==
  CASE e = "switched off" -> Removal
    [] e = "switched on"  -> <<"event", <<Whole("create")>>>>
    [] e = "retagged"     -> <<"event", IF on THEN <<Whole("sync")>> ELSE <<>>>>

ModifyAnswer(on) == <<"event", IF on THEN <<Whole("remedy")>> ELSE <<>>>>
CreateAnswer(on) == <<"event", IF on THEN <<Whole("create")>> ELSE <<>>>>

(* `on`, the Monitoring tag as it is read now; a failed read looks like none.  *)
Answer(e, on) ==
  CASE e = "deleted"      -> Removal
    [] e = "created"      -> CreateAnswer(on)
    [] e = "modified"     -> ModifyAnswer(on)
    [] e \in TagEvents    -> TagAnswer(e, on)

(* The event's own tags stand in where a tag was switched on and none is read. *)
TakeEvent(w, e, again) ==
  /\ e \in events
  /\ job[w] = Idle
  /\ again => trouble < MaxTrouble
  /\ events' = IF again THEN events ELSE events \ {e}
  /\ \/ /\ job' = [job EXCEPT ![w] =
             [Idle EXCEPT !.by = Answer(e, tags.on)[1], !.todo = Answer(e, alive /\ tags.on)[2],
                          !.thr = TagsRead]]
        /\ trouble' = IF again THEN trouble + 1 ELSE trouble
     \/ /\ ~again /\ trouble < MaxTrouble
        /\ trouble' = trouble + 1
        /\ job' = [job EXCEPT ![w] =
             [Idle EXCEPT !.by = Answer(e, FALSE)[1], !.todo = Answer(e, FALSE)[2], !.thr = Bare, !.alone = FALSE]]
  /\ UNCHANGED <<alarms, alive, tags, reported>>

(* perform_remediation: the change is answered by stopping or deleting the     *)
(* resource; a failure is reported and that is all.                            *)
Remedy(w) ==
  /\ Does(w, "remedy")
  /\ \/ /\ alive' = (alive /\ ~Deletes)
        /\ events' = IF Deletes /\ alive THEN events \cup {"deleted"} ELSE events
        /\ job' = [job EXCEPT ![w] = Onward(w, <<>>)]
        /\ UNCHANGED <<alarms, tags, reported, trouble>>
     \/ Fails(w, <<>>) /\ World /\ UNCHANGED alarms
================================================================================
