------------------------------ MODULE AlertGroup ------------------------------
(***************************************************************************)
(* The groups of ONE axis (customer and severity): how the ingestor finds   *)
(* or opens the group of an event (alert_ingestor, _resolve_group), the     *)
(* Step Functions execution of each group (GroupWait, Close, Grace,         *)
(* Finalize, Deliver), the group worker's tasks, the sweep of an execution  *)
(* that failed, and the router's claim before it sends (alert_router,       *)
(* deliver_group).  Time counts seconds: a group is named after the second  *)
(* it was opened in, so gid and opened_at are one number.                   *)
(*                                                                          *)
(* Collect and PauseWait only delay Finalize; as no execution step is       *)
(* urgent here, a late Finalize stands for them.  What Finalize decides of  *)
(* a single member is in AlertIngestor; here every member is to be sent.    *)
(***************************************************************************)
EXTENDS Integers, FiniteSets

CONSTANTS
  Events,           \* events of the axis that are to be grouped
  GroupWait,        \* group_wait_sec
  Grace,            \* the Grace state between Close and Collect
  StaleMargin,      \* STALE_MARGIN_SEC
  HandlerTime,      \* the longest an ingestor invocation takes
  MaxAttempts,      \* STATE_MAX_ATTEMPTS
  Horizon,          \* bound: time passes idly up to here
  FaultKinds,       \* what may fail in the behaviours looked at
  MaxFaults         \* bound: kinds that do fail in one behaviour, each once

AllFaults == {"store", "start", "invocation", "execution", "router"}

ASSUME GroupAssumption ==
  /\ GroupWait \in Nat /\ Grace \in Nat /\ StaleMargin \in Nat
  /\ HandlerTime \in Nat /\ Horizon \in Nat
  /\ MaxAttempts \in Nat \ {0}
  /\ FaultKinds \subseteq AllFaults
  /\ MaxFaults \in Nat

VARIABLES
  clock,
  item,             \* grp#{axis}: the last group opened, as the store has it
  ingest,           \* event -> the progress of the invocation that handles it
  rows,             \* event -> its row of the history table
  exec,             \* name of a started execution -> its progress
  names,            \* (auxiliary) names of the groups opened so far
  failed            \* (auxiliary) what has failed so far

vars == <<clock, item, ingest, rows, exec, names, failed>>

NoGroup == 0

ItemType == [version : Nat, open : BOOLEAN, gid : Nat, started : BOOLEAN, delivered : BOOLEAN]

NoItem == [version |-> 0, open |-> FALSE, gid |-> NoGroup, started |-> FALSE, delivered |-> FALSE]

IngestType ==
  [pc : {"owed", "read", "put", "start", "arn", "record", "done"}, wall : Nat,
   attempt : Nat, seen : ItemType, gid : Nat]

Owed == [pc |-> "owed", wall |-> 0, attempt |-> 0, seen |-> NoItem, gid |-> NoGroup]

(* slow is auxiliary: the invocation that wrote the row had taken Grace.    *)
RowType == [recorded : BOOLEAN, gid : Nat, final : BOOLEAN, slow : BOOLEAN]

NoRow == [recorded |-> FALSE, gid |-> NoGroup, final |-> FALSE, slow |-> FALSE]

ExecType ==
  [pc : {"wait", "put", "put again", "grace", "deliver", "claimed", "done"}, since : Nat,
   swept : BOOLEAN, seen : ItemType, sent : Nat, skipped : BOOLEAN]

Started == [pc |-> "wait", since |-> clock, swept |-> FALSE, seen |-> NoItem, sent |-> 0,
            skipped |-> FALSE]

Init ==
  /\ clock = 1
  /\ item = NoItem
  /\ ingest = [e \in Events |-> Owed]
  /\ rows = [e \in Events |-> NoRow]
  /\ exec = [g \in {} |-> Started]
  /\ names = {}
  /\ failed = {}

Fault(kind) ==
  /\ kind \in FaultKinds \ failed
  /\ Cardinality(failed) < MaxFaults
  /\ failed' = failed \cup {kind}

-----------------------------------------------------------------------------
(* The ingestor's part.  "wall" is the clock when the invocation began.     *)

Running(e) == ingest[e].pc \notin {"owed", "done"}

Goto(e, changed) == ingest' = [ingest EXCEPT ![e] = changed]

Ready(i, g) == [Owed EXCEPT !.pc = "record", !.wall = i.wall, !.gid = g]

GroupDeadline(group) == group.gid + GroupWait + StaleMargin

IsStale(group, now) == now >= GroupDeadline(group)

Receive(e) ==
  /\ ingest[e].pc = "owed"
  /\ Goto(e, [Owed EXCEPT !.pc = "read", !.wall = clock])
  /\ UNCHANGED <<clock, item, rows, exec, names, failed>>

Joinable(group, now) == group.open /\ ~IsStale(group, now)

(* Mutant of JoinGroup: an unstarted group is left to its opener.           *)
JoinUnstarted(e) ==
  LET i == ingest[e]
  IN  /\ i.pc = "read"
      /\ Joinable(item, i.wall)
      /\ Goto(e, Ready(i, item.gid))
      /\ UNCHANGED <<clock, item, rows, exec, names, failed>>

(* An open group is joined; one whose opener never started its execution is *)
(* started as well.                                                         *)
JoinGroup(e) ==
  LET i == ingest[e]
  IN  /\ i.pc = "read"
      /\ Joinable(item, i.wall)
      /\ Goto(e, IF item.started THEN Ready(i, item.gid)
                 ELSE [i EXCEPT !.pc = "start", !.seen = item, !.gid = item.gid])
      /\ UNCHANGED <<clock, item, rows, exec, names, failed>>

(* Mutant of NewName: the second alone.                                     *)
SameSecond(group, now) == now

(* No group, a closed or a stale one: a new one is prepared, one second     *)
(* later if its name would be the last group's.                             *)
NewName(group, now) == IF group.gid = now THEN now + 1 ELSE now

PrepareGroup(e) ==
  LET i == ingest[e]
  IN  /\ i.pc = "read"
      /\ ~Joinable(item, i.wall)
      /\ Goto(e, [i EXCEPT !.pc = "put", !.seen = item, !.gid = NewName(item, i.wall)])
      /\ UNCHANGED <<clock, item, rows, exec, names, failed>>

(* The conditional put that opens the group.                                *)
OpenGroup(e) ==
  LET i == ingest[e]
      group == [version |-> i.seen.version + 1, open |-> TRUE, gid |-> i.gid,
                started |-> FALSE, delivered |-> FALSE]
  IN  /\ i.pc = "put"
      /\ item.version = i.seen.version
      /\ item' = group
      /\ names' = names \cup {i.gid}
      /\ Goto(e, [i EXCEPT !.pc = "start", !.seen = group])
      /\ UNCHANGED <<clock, rows, exec, failed>>

(* Somebody else opened one: read again, and give up after the last try.    *)
OpenConflict(e) ==
  LET i == ingest[e]
      last == i.attempt + 1 >= MaxAttempts
  IN  /\ i.pc = "put"
      /\ item.version # i.seen.version
      /\ Goto(e, IF last THEN Ready(i, NoGroup)
                 ELSE [Owed EXCEPT !.pc = "read", !.wall = i.wall, !.attempt = i.attempt + 1])
      /\ UNCHANGED <<clock, item, rows, exec, names, failed>>

(* Reading or opening fails for another reason: the event has no group.     *)
GroupFails(e) ==
  /\ ingest[e].pc \in {"read", "put"}
  /\ Fault("store")
  /\ Goto(e, Ready(ingest[e], NoGroup))
  /\ UNCHANGED <<clock, item, rows, exec, names>>

(* _start_execution(): a name that was used before is taken for a success.  *)
StartExecution(e) ==
  LET g == ingest[e].gid
  IN  /\ ingest[e].pc = "start"
      /\ exec' = [h \in DOMAIN exec \cup {g} |-> IF h \in DOMAIN exec THEN exec[h] ELSE Started]
      /\ Goto(e, [ingest[e] EXCEPT !.pc = "arn"])
      /\ UNCHANGED <<clock, item, rows, names, failed>>

(* The group stays open without an execution, and keeps the event.          *)
StartFails(e) ==
  /\ ingest[e].pc = "start"
  /\ Fault("start")
  /\ Goto(e, Ready(ingest[e], ingest[e].gid))
  /\ UNCHANGED <<clock, item, rows, exec, names>>

(* The ARN is noted on the item as it was read or written before; that it   *)
(* could not be noted is ignored.                                           *)
NoteArn(e) ==
  LET i == ingest[e]
      noted == [i.seen EXCEPT !.version = i.seen.version + 1, !.started = TRUE]
  IN  /\ i.pc = "arn"
      /\ \/ item' = (IF item.version = i.seen.version THEN noted ELSE item) /\ UNCHANGED failed
         \/ Fault("store") /\ UNCHANGED item
      /\ Goto(e, Ready(i, i.gid))
      /\ UNCHANGED <<clock, rows, exec, names>>

(* The history row, written once.                                           *)
Record(e) ==
  /\ ingest[e].pc = "record"
  /\ rows' = [rows EXCEPT ![e] = IF @.recorded THEN @ ELSE
                [recorded |-> TRUE, gid |-> ingest[e].gid, final |-> FALSE,
                 slow |-> clock >= ingest[e].wall + Grace]]
  /\ Goto(e, [Owed EXCEPT !.pc = "done"])
  /\ UNCHANGED <<clock, item, exec, names, failed>>

(* The invocation dies; EventBridge delivers the event again.               *)
InvocationFails(e) ==
  /\ Running(e)
  /\ Fault("invocation")
  /\ Goto(e, Owed)
  /\ UNCHANGED <<clock, item, rows, exec, names>>

-----------------------------------------------------------------------------
(* The execution of group g, and the sweep that stands in for a failed one. *)

Step(g, changed) == exec' = [exec EXCEPT ![g] = changed]

OpenIs(g) == item.open /\ item.gid = g

Members(g) == {e \in Events : rows[e].recorded /\ rows[e].gid = g}

WaitOver(g) == exec[g].swept \/ clock >= exec[g].since + GroupWait

(* Mutant of GraceOver: members are finalized as soon as the group closed.  *)
NoGrace(g) == TRUE

GraceOver(g) == exec[g].swept \/ clock >= exec[g].since + Grace

Closed(g) == [exec[g] EXCEPT !.pc = "grace", !.since = clock, !.seen = NoItem]

(* close(): read the item ...                                               *)
ReadToClose(g) ==
  /\ exec[g].pc = "wait"
  /\ WaitOver(g)
  /\ Step(g, IF OpenIs(g) THEN [exec[g] EXCEPT !.pc = "put", !.seen = item] ELSE Closed(g))
  /\ UNCHANGED <<clock, item, ingest, rows, names, failed>>

(* ... and put it back closed, on condition of its version.                 *)
CloseGroup(g) ==
  /\ exec[g].pc \in {"put", "put again"}
  /\ item.version = exec[g].seen.version
  /\ item' = [exec[g].seen EXCEPT !.open = FALSE, !.version = item.version + 1]
  /\ Step(g, Closed(g))
  /\ UNCHANGED <<clock, ingest, rows, names, failed>>

(* Mutant of CloseConflict: no second try.                                  *)
CloseGivesUp(g) ==
  /\ exec[g].pc \in {"put", "put again"}
  /\ item.version # exec[g].seen.version
  /\ Step(g, Closed(g))
  /\ UNCHANGED <<clock, item, ingest, rows, names, failed>>

(* The ARN may have been noted meanwhile: once more, and only once.         *)
CloseConflict(g) ==
  /\ exec[g].pc \in {"put", "put again"}
  /\ item.version # exec[g].seen.version
  /\ Step(g, IF exec[g].pc = "put" /\ OpenIs(g)
             THEN [exec[g] EXCEPT !.pc = "put again", !.seen = item] ELSE Closed(g))
  /\ UNCHANGED <<clock, item, ingest, rows, names, failed>>

(* finalize(): every member the index shows gets its final decision.        *)
Finalize(g) ==
  /\ exec[g].pc = "grace"
  /\ GraceOver(g)
  /\ rows' = [e \in Events |-> IF e \in Members(g) THEN [rows[e] EXCEPT !.final = TRUE]
                               ELSE rows[e]]
  /\ Step(g, [exec[g] EXCEPT !.pc = "deliver", !.since = 0])
  /\ UNCHANGED <<clock, item, ingest, names, failed>>

ToSend(g) == {e \in Members(g) : rows[e].final}

(* deliver_group() up to _claim(): the mark "delivered" is set on the item  *)
(* of the axis, whatever group it holds, and does not move its version.     *)
Claim(g) ==
  /\ exec[g].pc = "deliver"
  /\ ToSend(g) # {}
  /\ ~item.delivered
  /\ item' = [item EXCEPT !.delivered = TRUE]
  /\ Step(g, [exec[g] EXCEPT !.pc = "claimed"])
  /\ UNCHANGED <<clock, ingest, rows, names, failed>>

AlreadyDelivered(g) ==
  /\ exec[g].pc = "deliver"
  /\ ToSend(g) # {}
  /\ item.delivered
  /\ Step(g, [exec[g] EXCEPT !.pc = "done", !.skipped = TRUE])
  /\ UNCHANGED <<clock, item, ingest, rows, names, failed>>

NothingToNotify(g) ==
  /\ exec[g].pc = "deliver"
  /\ ToSend(g) = {}
  /\ Step(g, [exec[g] EXCEPT !.pc = "done"])
  /\ UNCHANGED <<clock, item, ingest, rows, names, failed>>

Send(g) ==
  /\ exec[g].pc = "claimed"
  /\ Step(g, [exec[g] EXCEPT !.pc = "done", !.sent = exec[g].sent + 1])
  /\ UNCHANGED <<clock, item, ingest, rows, names, failed>>

(* The router dies before it sent, or its answer is lost after it did: the  *)
(* Deliver state invokes it again.                                          *)
RouterFails(g) ==
  /\ exec[g].pc = "claimed" \/ (exec[g].pc = "done" /\ ToSend(g) # {})
  /\ Fault("router")
  /\ Step(g, [exec[g] EXCEPT !.pc = "deliver"])
  /\ UNCHANGED <<clock, item, ingest, rows, names>>

(* Mutant of ExecutionFails: nobody hears of it.                            *)
FailsUnheard(g) ==
  /\ exec[g].pc # "done" /\ ~exec[g].swept
  /\ Fault("execution")
  /\ Step(g, [exec[g] EXCEPT !.pc = "done", !.swept = TRUE, !.seen = NoItem])
  /\ UNCHANGED <<clock, item, ingest, rows, names>>

(* The execution ends FAILED, TIMED_OUT or ABORTED and is swept.            *)
ExecutionFails(g) ==
  /\ exec[g].pc # "done" /\ ~exec[g].swept
  /\ Fault("execution")
  /\ Step(g, [exec[g] EXCEPT !.pc = "wait", !.swept = TRUE, !.seen = NoItem])
  /\ UNCHANGED <<clock, item, ingest, rows, names>>

-----------------------------------------------------------------------------
(* An invocation that has run for HandlerTime ends before time passes.      *)
WaitsForTime ==
  \E g \in DOMAIN exec : \/ exec[g].pc = "wait" /\ ~WaitOver(g)
                         \/ exec[g].pc = "grace" /\ ~GraceOver(g)

Tick ==
  /\ WaitsForTime \/ clock < Horizon
  /\ \A e \in Events : Running(e) => clock < ingest[e].wall + HandlerTime
  /\ clock' = clock + 1
  /\ UNCHANGED <<item, ingest, rows, exec, names, failed>>

Handle(e) ==
  \/ JoinGroup(e) \/ PrepareGroup(e) \/ OpenGroup(e) \/ OpenConflict(e)
  \/ StartExecution(e) \/ NoteArn(e) \/ Record(e)

IngestFaults(e) == GroupFails(e) \/ StartFails(e) \/ InvocationFails(e)

Execute(g) ==
  \/ ReadToClose(g) \/ CloseGroup(g) \/ CloseConflict(g) \/ Finalize(g)
  \/ Claim(g) \/ AlreadyDelivered(g) \/ NothingToNotify(g) \/ Send(g)

Next ==
  \/ \E e \in Events : Receive(e) \/ Handle(e) \/ IngestFaults(e)
  \/ \E g \in DOMAIN exec : Execute(g) \/ RouterFails(g) \/ ExecutionFails(g)
  \/ Tick

Spec == Init /\ [][Next]_vars

(* Lambda runs what it started, Step Functions goes on with every           *)
(* execution, EventBridge delivers what it owes.                            *)
AnyName == 1 .. Horizon + 2 * (GroupWait + Grace) + 2

Fairness ==
  /\ \A e \in Events : WF_vars(Receive(e)) /\ WF_vars(Handle(e))
  /\ \A g \in AnyName : WF_vars(g \in DOMAIN exec /\ Execute(g))
  /\ WF_vars(Tick)

FairSpec == Spec /\ Fairness

-----------------------------------------------------------------------------
(* Whoever joined a group while it was open is in the history when its      *)
(* members are finalized, unless its invocation took as long as the grace:  *)
(* the grace is what makes up for the events that were under way.  A sweep  *)
(* has no grace.                                                            *)
NoOrphan ==
  \A g \in DOMAIN exec : exec[g].pc \in {"deliver", "claimed", "done"} /\ ~exec[g].swept =>
    \A e \in Members(g) : rows[e].final \/ rows[e].slow

(* "No gap" (alert_group_worker, docstring 8-9), as it is promised: no row  *)
(* is left behind in a group that is over.                                  *)
NoGap ==
  \A g \in DOMAIN exec : exec[g].pc \in {"deliver", "claimed", "done"} =>
    \A e \in Members(g) : rows[e].final

(* Once close() has run, its group takes no more events: the single second  *)
(* try is enough, whatever the ingestors write meanwhile.                   *)
CloseCloses ==
  \A g \in DOMAIN exec :
    exec[g].pc \in {"grace", "deliver", "claimed", "done"} => ~OpenIs(g)

(* A group opened now never has the name of an earlier one: its events      *)
(* would hang on an execution that is over (_resolve_group 288-291).        *)
FreshNames ==
  [][item'.open /\ (~item.open \/ item'.gid # item.gid) => item'.gid \notin names]_vars

(* Every event in a group gets its final decision, or there is no alert;    *)
(* unless an execution failed or could not be started, or the invocation    *)
(* that recorded it took as long as the grace.                              *)
EventuallyFinal ==
  \A e \in Events :
    rows[e].gid # NoGroup ~>
      rows[e].final \/ rows[e].slow \/ failed \cap {"start", "execution"} # {}

(* No group absorbs its axis for good, also when its execution fails: it is *)
(* closed by the execution, by the sweep, or replaced.                      *)
AxisFreed == []<>~(item.open /\ item.started)
=============================================================================
