----------------------------- MODULE ConsoleAlarms -----------------------------
(* What the dashboard does to one resource's alarms                            *)
(* (backend/api_handler/routes/resources.py, bulk.py, sqs_worker).             *)
EXTENDS AlarmJobs

CONSTANT Follows   \* the console writes the threshold tag too (EC2 only)

NoTags == [m \in Metrics |-> "unset"]

(* _set_resource_monitoring_tag: the request ends here if it fails.            *)
Switch(w) ==
  /\ Does(w, "switch on") \/ Does(w, "switch off")
  /\ UNCHANGED <<alarms, alive, reported>>
  /\ \/ LET on == Now(w).do = "switch on" IN
        /\ alive
        /\ tags' = [tags EXCEPT !.on = on]
        /\ events' = events \cup {IF on THEN "switched on" ELSE "switched off"}
        /\ job' = Moved(w, Onward(w, <<>>))
        /\ UNCHANGED trouble
     \/ /\ ~alive
        /\ job' = [job EXCEPT ![w] = Idle]
        /\ UNCHANGED <<tags, events, trouble>>
     \/ /\ trouble < MaxTrouble
        /\ trouble' = trouble + 1
        /\ job' = [job EXCEPT ![w] = Idle]
        /\ UNCHANGED <<tags, events>>

(* _toggle_alarm_tags: tags that cannot be read count as none.                 *)
ReadTags(w) ==
  /\ Does(w, "tags")
  /\ World /\ UNCHANGED alarms
  /\ \/ /\ UNCHANGED trouble
        /\ job' = [job EXCEPT ![w] = [Onward(w, <<>>) EXCEPT !.thr = Apply(tags.thr, Customer)]]
     \/ /\ trouble < MaxTrouble
        /\ trouble' = trouble + 1
        /\ job' = [job EXCEPT ![w] = Hurt([Onward(w, <<>>) EXCEPT !.thr = Apply(NoTags, Customer)])]

(* update_resource_monitoring, _apply_alarms_for_toggle.                       *)
Toggle(w, on) ==
  /\ Starts(w, IF on THEN "toggle" ELSE "remove",
            IF on THEN <<Whole("switch on"), Whole("tags"),
                         Whole("sync")>>
                  ELSE <<Whole("switch off")>> \o DeletePlan, NoTags)
  /\ World /\ UNCHANGED <<alarms, trouble>>

(* The bulk worker gets the collector's tags and nothing the customer set.     *)
Bulk(w, on) ==
  /\ Starts(w, IF on THEN "bulk" ELSE "remove",
            IF on THEN <<Whole("switch on"), Whole("create")>>
                  ELSE <<Whole("switch off")>> \o DeletePlan, NoTags)
  /\ World /\ UNCHANGED <<alarms, trouble>>

(* What is put: CloudWatch's listing leaves the tags out.                      *)
Edited(a, threshold, severity) ==
  [a EXCEPT !.threshold = threshold, !.tag = severity,
            !.told = IF severity = "none" THEN @ ELSE severity]

(* update_resource_alarms: the alarm is put under its new name, the old one is *)
(* deleted, and the threshold tag written.  The request ends at the first call *)
(* that fails.                                                                 *)
Edit(w, a, threshold, severity) ==
  /\ a \in alarms
  /\ job[w] = Idle
  /\ job' = [job EXCEPT ![w] = [Idle EXCEPT
       !.by = "edit",
       !.thr = [NoTags EXCEPT ![a.metric] = threshold],
       !.draft = {Edited(a, threshold, severity)},
       !.todo = <<Call("edit", a.metric, {})>>
                  \o (IF threshold = a.threshold THEN <<>> ELSE <<Call("drop", a.metric, {NameOf(a)})>>)
                  \o (IF Follows THEN <<Call("follow", a.metric, {})>> ELSE <<>>)]]
  /\ World /\ UNCHANGED <<alarms, trouble>>

Refused(w) ==
  /\ trouble < MaxTrouble
  /\ trouble' = trouble + 1
  /\ job' = [job EXCEPT ![w] = Idle]
  /\ World /\ UNCHANGED alarms

(* A severity that was not given leaves the tag of an alarm put over; the tag  *)
(* call alone may fail.                                                        *)
EditPut(w) ==
  LET new == CHOOSE d \in job[w].draft : TRUE
  IN /\ Does(w, "edit")
     /\ \/ /\ alarms' = IF new.tag = "none" THEN Overwrite(alarms, new)
                        ELSE Without(alarms, {NameOf(new)}) \cup {new}
           /\ job' = Moved(w, Onward(w, <<>>))
           /\ World /\ UNCHANGED trouble
        \/ /\ trouble < MaxTrouble
           /\ trouble' = trouble + 1
           /\ alarms' = Overwrite(alarms, new)
           /\ job' = Moved(w, Onward(w, <<>>))
           /\ World
        \/ Refused(w)

EditDrop(w) ==
  /\ Does(w, "drop")
  /\ \/ /\ alarms' = Without(alarms, Now(w).names)
        /\ job' = Moved(w, Onward(w, <<>>))
        /\ World /\ UNCHANGED trouble
     \/ Refused(w)

EditFollow(w) ==
  /\ Does(w, "follow")
  /\ \/ /\ alive
        /\ tags' = [tags EXCEPT !.thr[Now(w).metric] = job[w].thr[Now(w).metric]]
        /\ events' = events \cup {"retagged"}
        /\ job' = [job EXCEPT ![w] = Onward(w, <<>>)]
        /\ UNCHANGED <<alarms, alive, reported, trouble>>
     \/ /\ ~alive
        /\ job' = [job EXCEPT ![w] = Idle]
        /\ World /\ UNCHANGED <<alarms, trouble>>
     \/ Refused(w)

(* create_resource_alarm: a resource without alarms is unknown.  Nothing tags  *)
(* the resource, and the evaluation is not the definition's.                   *)
Add(w, m, threshold) ==
  /\ job[w] = Idle
  /\ alarms # {} /\ m \in reported \cup Standard
  /\ alarms' = Overwrite(alarms, [metric |-> m, threshold |-> threshold, sound |-> {"rest"},
                                  tag |-> "chosen", told |-> "chosen"])
  /\ job' = [v \in Workers |-> IF job[v] # Idle THEN [job[v] EXCEPT !.alone = FALSE] ELSE job[v]]
  /\ World /\ UNCHANGED trouble

ConsoleStep(w) == Switch(w) \/ ReadTags(w) \/ EditPut(w) \/ EditDrop(w) \/ EditFollow(w)
================================================================================
