---------------------------- MODULE AlertIngestor ----------------------------
(***************************************************************************)
(* The path of the events of ONE fingerprint from EventBridge to their rows *)
(* of the history table.  Concurrent invocations of the ingestor            *)
(* (alert_ingestor/lambda_handler.py) judge events against the item         *)
(* fp#{fingerprint} with a read and a later conditional write; the group    *)
(* worker (alert_group_worker/lambda_handler.py, finalize) and the router   *)
(* (_resolve_if_gone) write the same item.  Invocations fail, events are    *)
(* delivered again.                                                         *)
(***************************************************************************)
EXTENDS AlertSuppression, Sequences

CONSTANTS
  Events,           \* the events of one fingerprint
  Workers,          \* invocations of the ingestor that may run at once
  Finalizers,       \* finalize tasks that may run at once
  MaxAttempts,      \* STATE_MAX_ATTEMPTS
  MarkAttempts,     \* tries of _mark_notified
  MaxFaults,        \* bound: failures of one behaviour
  MaxDuplicates     \* bound: events EventBridge delivers once too often

ASSUME IngestorAssumption ==
  /\ Events \subseteq EventType /\ Events # {}
  /\ MaxAttempts \in Nat \ {0}
  /\ MarkAttempts \in Nat \ {0}
  /\ MaxFaults \in Nat
  /\ MaxDuplicates \in Nat

VARIABLES
  item,             \* fp#{fingerprint}: its state and the store's version
  queue,            \* event -> deliveries EventBridge still owes
  history,          \* event -> its row of the history table
  invocation,       \* worker -> the progress of its invocation
  task,             \* finalizer -> the progress on one member of the group
  log,              \* (auxiliary) decisions in the order they were taken
  faults,           \* (auxiliary) failures so far
  duplicates        \* (auxiliary) duplicate deliveries so far

vars == <<item, queue, history, invocation, task, log, faults, duplicates>>

J == INSTANCE AlertJudgement WITH state <- item.state

ItemType == [version : Nat, state : StateType]

NoItem == [version |-> 0, state |-> NoState]

Finals == {"none", "notify", "suppress"}

(* A row may carry the id of a group and still be missed by its finalize.   *)
RowType ==
  [present : BOOLEAN, decision : DecisionType, grouped : BOOLEAN, missed : BOOLEAN,
   final : Finals]

Undecided == Decision("suppress", "not_actionable")

NoRow ==
  [present |-> FALSE, decision |-> Undecided, grouped |-> FALSE, missed |-> FALSE,
   final |-> "none"]

InvocationType ==
  [pc : {"idle", "read", "write", "group", "record"}, ev : Events, attempt : Nat,
   seen : ItemType, decision : DecisionType, grouped : BOOLEAN, missed : BOOLEAN]

NoInvocation ==
  [pc |-> "idle", ev |-> CHOOSE ev \in Events : TRUE, attempt |-> 0,
   seen |-> NoItem, decision |-> Undecided, grouped |-> FALSE, missed |-> FALSE]

TaskType ==
  [pc : {"idle", "check", "mark", "write", "back"}, ev : Events, attempt : Nat,
   seen : ItemType, final : Finals]

NoTask ==
  [pc |-> "idle", ev |-> CHOOSE ev \in Events : TRUE, attempt |-> 0,
   seen |-> NoItem, final |-> "none"]

TypeOK ==
  /\ item \in ItemType
  /\ queue \in [Events -> Nat]
  /\ history \in [Events -> RowType]
  /\ invocation \in [Workers -> InvocationType]
  /\ task \in [Finalizers -> TaskType]
  /\ log \in Seq(J!EntryType)
  /\ faults \in Nat
  /\ duplicates \in Nat

(* Some of the events happen.                                               *)
Init ==
  /\ item = NoItem
  /\ queue \in [Events -> {0, 1}]
  /\ history = [ev \in Events |-> NoRow]
  /\ invocation = [w \in Workers |-> NoInvocation]
  /\ task = [f \in Finalizers |-> NoTask]
  /\ log = <<>>
  /\ faults = 0
  /\ duplicates = 0

-----------------------------------------------------------------------------
(* The ingestor.                                                            *)

Logs(ev, decision) == log' = Append(log, J!Entry(ev, decision))

(* Only events that may be sent go through _resolve_group().                *)
Decided(i, decision) ==
  [i EXCEPT !.decision = decision,
            !.pc = IF ShouldGroup(i.ev, decision) THEN "group" ELSE "record"]

(* Something fails, or takes too long.                                      *)
Fault == faults < MaxFaults /\ faults' = faults + 1

(* EventBridge invokes the function; an event that is no state change is    *)
(* decided without the state table.                                         *)
Receive(w, ev) ==
  LET i == [NoInvocation EXCEPT !.ev = ev]
  IN  /\ invocation[w].pc = "idle"
      /\ queue[ev] > 0
      /\ queue' = [queue EXCEPT ![ev] = @ - 1]
      /\ invocation' = [invocation EXCEPT ![w] =
           IF ev.kind = "config" THEN Decided(i, Decide(NoState, ev))
           ELSE [i EXCEPT !.pc = "read"]]
      /\ UNCHANGED <<item, history, task, log, faults, duplicates>>

(* Consistent read, judgement, and no write when nothing would change.      *)
ReadState(w) ==
  LET i == invocation[w]
      decision == Decide(item.state, i.ev)
      unchanged == After(item.state, i.ev) = item.state
  IN  /\ i.pc = "read"
      /\ invocation' = [invocation EXCEPT ![w] =
           IF unchanged THEN Decided(i, decision)
           ELSE [i EXCEPT !.pc = "write", !.seen = item, !.decision = decision]]
      /\ IF unchanged THEN Logs(i.ev, decision) ELSE UNCHANGED log
      /\ UNCHANGED <<item, queue, history, task, faults, duplicates>>

(* A failed read is judged as the first occurrence (fail-open).             *)
ReadFails(w) ==
  LET i == invocation[w]
      decision == Decide(NoState, i.ev)
  IN  /\ i.pc = "read"
      /\ Fault
      /\ invocation' = [invocation EXCEPT ![w] = Decided(i, decision)]
      /\ Logs(i.ev, decision)
      /\ UNCHANGED <<item, queue, history, task, duplicates>>

(* Mutant of WriteState: the put has no condition.                          *)
WriteBlindly(w) ==
  LET i == invocation[w]
  IN  /\ i.pc = "write"
      /\ item' = [version |-> i.seen.version + 1,
                  state |-> Apply(i.seen.state, i.ev, i.decision)]
      /\ invocation' = [invocation EXCEPT ![w] = Decided(i, i.decision)]
      /\ Logs(i.ev, i.decision)
      /\ UNCHANGED <<queue, history, task, faults, duplicates>>

(* The conditional put of _write_state(); a missing item has version 0.     *)
WriteState(w) ==
  LET i == invocation[w]
  IN  /\ i.pc = "write"
      /\ item.version = i.seen.version
      /\ item' = [version |-> i.seen.version + 1,
                  state |-> Apply(i.seen.state, i.ev, i.decision)]
      /\ invocation' = [invocation EXCEPT ![w] = Decided(i, i.decision)]
      /\ Logs(i.ev, i.decision)
      /\ UNCHANGED <<queue, history, task, faults, duplicates>>

(* Somebody wrote the item first: judge again on what is there now.         *)
Conflict(w) ==
  /\ invocation[w].pc = "write"
  /\ item.version # invocation[w].seen.version
  /\ invocation[w].attempt + 1 < MaxAttempts
  /\ invocation' = [invocation EXCEPT ![w] =
       [@ EXCEPT !.pc = "read", !.attempt = invocation[w].attempt + 1]]
  /\ UNCHANGED <<item, queue, history, task, log, faults, duplicates>>

(* The last attempt conflicted too: the event is sent, whatever it is.      *)
Contention(w) ==
  LET i == invocation[w]
      decision == Decision("notify", "state_contention")
  IN  /\ i.pc = "write"
      /\ item.version # i.seen.version
      /\ i.attempt + 1 >= MaxAttempts
      /\ invocation' = [invocation EXCEPT ![w] = Decided(i, decision)]
      /\ Logs(i.ev, decision)
      /\ UNCHANGED <<item, queue, history, task, faults, duplicates>>

(* The put fails for another reason: the decision is kept, unsaved.         *)
WriteFails(w) ==
  LET i == invocation[w]
  IN  /\ i.pc = "write"
      /\ Fault
      /\ invocation' = [invocation EXCEPT ![w] = Decided(i, i.decision)]
      /\ Logs(i.ev, i.decision)
      /\ UNCHANGED <<item, queue, history, task, duplicates>>

(* The event joins a group, or stays without one when the item cannot be    *)
(* read or written.  Where the execution cannot be started it has the id of *)
(* a group that nobody sends: missed, unless a later event of the axis      *)
(* starts it, which is then the first disjunct.  Module AlertGroup is about *)
(* how a group is found.                                                    *)
JoinGroup(w) ==
  LET Joined(in, missed) == [invocation EXCEPT ![w] =
        [@ EXCEPT !.pc = "record", !.grouped = in, !.missed = missed]]
  IN  /\ invocation[w].pc = "group"
      /\ \/ invocation' = Joined(TRUE, FALSE) /\ UNCHANGED faults
         \/ \E in \in BOOLEAN : invocation' = Joined(in, in) /\ Fault
      /\ UNCHANGED <<item, queue, history, task, log, duplicates>>

Row(i, missed) ==
  [present |-> TRUE, decision |-> i.decision, grouped |-> i.grouped, missed |-> missed,
   final |-> "none"]

(* Mutant of Record: a row is overwritten.                                  *)
RecordOver(w) ==
  LET i == invocation[w]
  IN  /\ i.pc = "record"
      /\ history' = [history EXCEPT ![i.ev] = Row(i, i.missed)]
      /\ invocation' = [invocation EXCEPT ![w] = NoInvocation]
      /\ UNCHANGED <<item, queue, task, log, faults, duplicates>>

(* The history row is written once; an event already recorded is dropped.   *)
(* An invocation that takes longer than the group waits and its grace (30 s *)
(* may pass, the grace is 5) records after the group's only finalize, which *)
(* misses the row.                                                          *)
Record(w) ==
  LET i == invocation[w]
  IN  /\ i.pc = "record"
      /\ \E late \in {FALSE, i.grouped} :
           /\ history' = [history EXCEPT ![i.ev] =
                IF @.present THEN @ ELSE Row(i, late \/ i.missed)]
           /\ IF late THEN Fault ELSE UNCHANGED faults
      /\ invocation' = [invocation EXCEPT ![w] = NoInvocation]
      /\ UNCHANGED <<item, queue, task, log, duplicates>>

(* Mutant of InvocationFails: the failure is swallowed.                     *)
FailureSwallowed(w) ==
  /\ invocation[w].pc # "idle"
  /\ Fault
  /\ invocation' = [invocation EXCEPT ![w] = NoInvocation]
  /\ UNCHANGED <<item, queue, history, task, log, duplicates>>

(* The invocation raises, times out or dies: EventBridge delivers again.    *)
InvocationFails(w) ==
  /\ invocation[w].pc # "idle"
  /\ Fault
  /\ queue' = [queue EXCEPT ![invocation[w].ev] = @ + 1]
  /\ invocation' = [invocation EXCEPT ![w] = NoInvocation]
  /\ UNCHANGED <<item, history, task, log, duplicates>>

(* EventBridge is at-least-once.                                            *)
Redeliver(ev) ==
  /\ duplicates < MaxDuplicates
  /\ duplicates' = duplicates + 1
  /\ queue' = [queue EXCEPT ![ev] = @ + 1]
  /\ UNCHANGED <<item, history, invocation, task, log, faults>>

-----------------------------------------------------------------------------
(* The group worker's finalize, for one member of a group, and the router.  *)
(* A group is finalized once, after its wait and its grace, and so are the  *)
(* members whose rows are there; when that is, is the subject of AlertGroup.*)

IsDeferred(ev) == IsFiring(ev) /\ history[ev].decision.reason = "auto_pause"

StartTask(f, ev) ==
  /\ task[f].pc = "idle"
  /\ history[ev].present /\ history[ev].grouped /\ ~history[ev].missed
  /\ \A g \in Finalizers : task[g].pc # "idle" => task[g].ev # ev
  /\ task' = [task EXCEPT ![f] =
       IF IsDeferred(ev) THEN [NoTask EXCEPT !.pc = "check", !.ev = ev]
       ELSE [NoTask EXCEPT !.pc = "back", !.ev = ev, !.final = "notify"]]
  /\ UNCHANGED <<item, queue, history, invocation, log, duplicates>>

Finalize(f, ev) == history[ev].final = "none" /\ StartTask(f, ev) /\ UNCHANGED faults

(* A task that failed is run again from its start: members it had finished  *)
(* are finalized once more.                                                 *)
FinalizeAgain(f, ev) == history[ev].final # "none" /\ StartTask(f, ev) /\ Fault

(* _still_firing()                                                          *)
CheckFiring(f) ==
  LET ev == task[f].ev
      still == item.state.episode_open /\ item.state.episode_started_at <= ev.at
  IN  /\ task[f].pc = "check"
      /\ task' = [task EXCEPT ![f] =
           [@ EXCEPT !.pc = IF still THEN "mark" ELSE "back",
                     !.final = IF still THEN "notify" ELSE "suppress"]]
      /\ UNCHANGED <<item, queue, history, invocation, log, faults, duplicates>>

(* _mark_notified() reads the item again ...                                *)
ReadMark(f) ==
  /\ task[f].pc = "mark"
  /\ task' = [task EXCEPT ![f] =
       IF item.state.episode_open THEN [@ EXCEPT !.pc = "write", !.seen = item]
       ELSE [@ EXCEPT !.pc = "back"]]
  /\ UNCHANGED <<item, queue, history, invocation, log, faults, duplicates>>

(* ... and writes it on condition of the version.                           *)
WriteMark(f) ==
  LET t == task[f]
  IN  /\ t.pc = "write"
      /\ item.version = t.seen.version
      /\ item' = [version |-> t.seen.version + 1, state |-> RecordNotice(t.seen.state, t.ev.at)]
      /\ task' = [task EXCEPT ![f] = [@ EXCEPT !.pc = "back"]]
      /\ Logs(t.ev, J!Confirmed)
      /\ UNCHANGED <<queue, history, invocation, faults, duplicates>>

(* After the last try the notice goes out unmarked.                         *)
MarkConflict(f) ==
  /\ task[f].pc = "write"
  /\ item.version # task[f].seen.version
  /\ task' = [task EXCEPT ![f] =
       [@ EXCEPT !.attempt = task[f].attempt + 1,
                 !.pc = IF task[f].attempt + 1 < MarkAttempts THEN "mark" ELSE "back"]]
  /\ UNCHANGED <<item, queue, history, invocation, log, faults, duplicates>>

WriteBack(f) ==
  /\ task[f].pc = "back"
  /\ history' = [history EXCEPT ![task[f].ev] = [@ EXCEPT !.final = task[f].final]]
  /\ task' = [task EXCEPT ![f] = NoTask]
  /\ UNCHANGED <<item, queue, invocation, log, faults, duplicates>>

TaskFails(f) ==
  /\ task[f].pc # "idle"
  /\ Fault
  /\ task' = [task EXCEPT ![f] = NoTask]
  /\ UNCHANGED <<item, queue, history, invocation, log, duplicates>>

(* The update that ends _resolve_if_gone(), atomic in the store.            *)
CloseGone ==
  /\ item.state.episode_open
  /\ item' = [version |-> item.version + 1, state |-> CloseEpisode(item.state)]
  /\ UNCHANGED <<queue, history, invocation, task, log, faults, duplicates>>

-----------------------------------------------------------------------------
Handle(w) ==
  \/ ReadState(w) \/ ReadFails(w)
  \/ WriteState(w) \/ Conflict(w) \/ Contention(w) \/ WriteFails(w)
  \/ JoinGroup(w) \/ Record(w)

Ingest(w) == (\E ev \in Events : Receive(w, ev)) \/ Handle(w) \/ InvocationFails(w)

ProcessMember(f) ==
  \/ CheckFiring(f) \/ ReadMark(f) \/ WriteMark(f) \/ MarkConflict(f) \/ WriteBack(f)

FinalizeStep(f) ==
  \/ \E ev \in Events : Finalize(f, ev) \/ FinalizeAgain(f, ev)
  \/ ProcessMember(f) \/ TaskFails(f)

Next ==
  \/ \E w \in Workers : Ingest(w)
  \/ \E ev \in Events : Redeliver(ev)
  \/ \E f \in Finalizers : FinalizeStep(f)
  \/ CloseGone

Spec == Init /\ [][Next]_vars

(* An event that is owed is delivered and a running invocation goes on:     *)
(* EventBridge sees to it.  Nothing is assumed of the group worker.         *)
Fairness ==
  /\ WF_vars(\E ev \in Events, w \in Workers : Receive(w, ev))
  /\ \A w \in Workers : WF_vars(Handle(w))

FairSpec == Spec /\ Fairness

-----------------------------------------------------------------------------
(* Every change of the item is one whole judgement, confirmation or closing *)
(* of the state it really had: no invocation writes what it judged on a     *)
(* state somebody replaced meanwhile (the version condition of              *)
(* _write_state and _conditional_put, the ADD version of the router).       *)
AtomicJudgements == J!Spec

Logged(ev, decision) == \E i \in DOMAIN log : log[i] = J!Entry(ev, decision)

(* A row holds a decision that some invocation of its event took.           *)
RowsLogged ==
  \A ev \in Events : history[ev].present /\ ev.kind # "config" =>
    Logged(ev, history[ev].decision)

(* A redelivered event does not erase what the worker wrote back (the       *)
(* not_exists condition of the history put, lambda_handler 374-383): a row  *)
(* keeps its decision, group and final decision for good.  Only a firing    *)
(* that was held back may be decided anew, when its finalize is run again.  *)
RowStable ==
  [][\A ev \in Events : history[ev].present =>
       LET row == history[ev]
           next == history'[ev]
       IN  /\ [next EXCEPT !.final = row.final] = row
           /\ row.final # "none" =>
                next.final = row.final \/ (IsDeferred(ev) /\ next.final # "none")]_vars

(* What an invocation read is what is there, unless the version has moved.  *)
Current(seen) ==
  /\ seen.version <= item.version
  /\ seen.version = item.version => seen = item

(* Only a deferral is decided with the reason of a deferral.                *)
PauseDefers(decision) ==
  decision.reason = "auto_pause" => decision = Decision("defer", "auto_pause")

InvocationOK(w) ==
  LET i == invocation[w]
  IN  /\ PauseDefers(i.decision)
      /\ i.pc = "write" => /\ Current(i.seen)
                          /\ i.decision = Decide(i.seen.state, i.ev)
      /\ i.pc \in {"group", "record"} /\ i.ev.kind # "config" => Logged(i.ev, i.decision)

TaskOK(f) ==
  LET t == task[f]
  IN  /\ t.pc # "idle" => history[t.ev].present
      /\ t.pc \in {"check", "mark", "write"} => IsDeferred(t.ev)
      /\ t.pc = "write" => Current(t.seen) /\ t.seen.state.episode_open
      /\ t.pc \in {"mark", "write", "back"} => t.final # "none"
      /\ t.pc = "back" /\ ~IsDeferred(t.ev) => t.final = "notify"

(* finalize drops no member but a firing that was held back.                *)
HonestFinal(ev) == ~IsDeferred(ev) => history[ev].final \in {"none", "notify"}

(* The inductive invariant that makes every judgement atomic.               *)
IngestInv ==
  /\ TypeOK
  /\ \A w \in Workers : InvocationOK(w)
  /\ \A f \in Finalizers : TaskOK(f)
  /\ RowsLogged
  /\ \A ev \in Events : PauseDefers(history[ev].decision) /\ HonestFinal(ev)

Settled ==
  /\ \A ev \in Events : queue[ev] = 0
  /\ \A ev \in Events :
       history[ev].grouped /\ ~history[ev].missed => history[ev].final # "none"
  /\ \A w \in Workers : invocation[w].pc = "idle"
  /\ \A f \in Finalizers : task[f].pc = "idle"

(* Somebody is told that the alarm fires: its row is in a group whose       *)
(* finalize decided to send it.                                             *)
Told(ev) == IsFiring(ev) /\ history[ev].final = "notify"

(* Once everything has settled, a firing that was dropped as a duplicate    *)
(* duplicates one that was sent: no alarm is lost to deduplication.         *)
NeverLost ==
  Settled => \A ev \in Events : history[ev].decision.reason = "dedup" =>
    \E sent \in Events : Told(sent) /\ ev.at - sent.at \in 0 .. RepeatInterval - 1

(* Nothing failed, came twice or was too slow for its group, and nobody ran *)
(* out of attempts.                                                         *)
Calm ==
  /\ faults = 0 /\ duplicates = 0
  /\ \A i \in DOMAIN log : log[i].decision.reason # "state_contention"

(* The same while all is calm, in every order of the events, the            *)
(* invocations and the finalize tasks.                                      *)
NoAlarmLost == Calm => NeverLost

(* Once everything has settled and all was calm, whoever hears that the     *)
(* alarm cleared had heard that it fired (decide(), "an end is announced if *)
(* the firing was").                                                        *)
ClearedOnlyIfTold ==
  Settled /\ Calm =>
    \A ev \in Events : ev.kind = "clearing" /\ history[ev].final = "notify" =>
      \E sent \in Events : Told(sent)

(* The events that happened: owed, being handled or recorded.               *)
Undertaken ==
  {ev \in Events : \/ queue[ev] > 0 \/ history[ev].present
                   \/ \E w \in Workers : invocation[w].pc # "idle" /\ invocation[w].ev = ev}

(* No event is lost on its way to the history table, whatever fails: none   *)
(* is forgotten, and again and again all that happened so far are recorded  *)
(* (lambda_handler lets a failure out, so that EventBridge delivers again). *)
EventuallyRecorded ==
  /\ [][Undertaken \subseteq Undertaken']_vars
  /\ []<>(\A ev \in Undertaken : history[ev].present)
=============================================================================
