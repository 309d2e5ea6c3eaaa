----------------------------- MODULE InventoryProofs ---------------------------
(* Proofs about Inventory: whatever runs, jobs, toggles, failures and deaths   *)
(* there are, its variables keep their types and an alarm job keeps to the     *)
(* accounts and regions it was given; and one failure empties no account.      *)
EXTENDS Inventory, TLAPS

AlarmNames == {"orphans", "fetch", "put alarms", "query", "drop alarms", "fail"}
StepNames ==
  AlarmNames \cup {"discover", "put rows", "drop rows", "arm", "rollups", "tag", "mark", "alarm", "show"}

JobType ==
  [by : {"none", "run", "alarms", "resources", "on", "off"}, todo : Seq(StepNames), id : 0..MaxCalls, accounts : SUBSET Accounts, regions : SUBSET Regions,
   target : SUBSET Resources, found : SUBSET Resources, untagged : SUBSET Resources,
   heard : SUBSET Resources, old : SUBSET Resources, oldShown : SUBSET Resources,
   kept : [Resources -> {"unknown", "none", "some"}]]

Confined(j) ==
  j.by = "alarms" => j.todo \in Seq(AlarmNames) /\ j.heard \subseteq Covers(j.accounts, j.regions)

JobsOK == job \in [Workers -> JobType] /\ \A w \in Workers : Confined(job[w])

StatusOK ==
  /\ status \in Seq({"pending", "in_progress", "completed", "failed", "unwritten"})
  /\ Len(status) <= MaxCalls

TablesOK ==
  /\ live \subseteq Resources /\ on \subseteq Resources
  /\ armed \subseteq Resources /\ shown \subseteq Resources
  /\ rows \in [Resources -> RowType]

CountsOK == trouble \in 0..MaxTrouble /\ changes \in 0..MaxChanges

InventoryInv == JobsOK /\ StatusOK /\ TablesOK /\ CountsOK
--------------------------------------------------------------------------------
LEMMA FreeType ==
  Free \in JobType /\ Confined(Free) /\ Free.todo = <<>> /\ Free.heard = {} /\ Free.id = 0
<1> DEFINE kept == [r \in Resources |-> "unknown"]
<1>1. kept \in [Resources -> {"unknown", "none", "some"}]
  OBVIOUS
<1>2. <<>> \in Seq(StepNames)
  OBVIOUS
<1>6. 0 \in 0..MaxCalls
  BY InventoryAssumption
<1>5. Free = [by |-> "none", todo |-> <<>>, id |-> 0, accounts |-> {}, regions |-> {}, target |-> {},
         found |-> {}, untagged |-> {}, heard |-> {}, old |-> {}, oldShown |-> {},
         kept |-> kept]
  BY DEF Free
<1> HIDE DEF kept
<1>3. Free \in JobType
  BY <1>1, <1>2, <1>5, <1>6 DEF JobType
<1>4. Free.by = "none" /\ Free.todo = <<>> /\ Free.heard = {} /\ Free.id = 0
  BY DEF Free
<1> QED  BY <1>3, <1>4 DEF Confined

LEMMA InitKeeps == Init => InventoryInv
<1> SUFFICES ASSUME Init PROVE InventoryInv
  OBVIOUS
<1>1. JobsOK
  BY FreeType DEF Init, JobsOK
<1>2. StatusOK /\ TablesOK /\ CountsOK
  <2>1. rows \in [Resources -> RowType]
    BY DEF Init, RowType
  <2> QED  BY <2>1, InventoryAssumption DEF Init, StatusOK, TablesOK, CountsOK
<1> QED  BY <1>1, <1>2 DEF InventoryInv

LEMMA GoesKeeps ==
  ASSUME JobsOK, NEW w \in Workers, NEW j \in JobType, Confined(j), Goes(w, j)
  PROVE  JobsOK'
  BY DEF JobsOK, Goes, Confined, Covers, InAccounts

LEMMA TailsOfTails ==
  ASSUME NEW S, NEW todo \in Seq(S), todo # <<>>
  PROVE  Tail(todo) \in Seq(S) /\ Head(todo) \in S
  OBVIOUS

(* A step of a job: it keeps what it was started for, and takes the step off.  *)
Steps(w, j) ==
  /\ Goes(w, j) /\ j \in JobType /\ job[w].todo # <<>>
  /\ j.by = job[w].by /\ j.accounts = job[w].accounts /\ j.regions = job[w].regions
  /\ j.todo \in {Tail(job[w].todo), <<"fail">>}
  /\ j.heard = job[w].heard \/ j.heard \subseteq Covers(j.accounts, j.regions)

LEMMA StepKeeps ==
  ASSUME JobsOK, NEW w \in Workers, NEW j, Steps(w, j)
  PROVE  JobsOK'
<1>1. Confined(j)
  <2> SUFFICES ASSUME j.by = "alarms" PROVE j.todo \in Seq(AlarmNames) /\ j.heard \subseteq Covers(j.accounts, j.regions)
    BY DEF Confined
  <2>1. job[w].todo \in Seq(AlarmNames) /\ job[w].heard \subseteq Covers(job[w].accounts, job[w].regions)
    BY DEF Steps, Confined, JobsOK
  <2>2. Tail(job[w].todo) \in Seq(AlarmNames)
    BY <2>1, TailsOfTails DEF Steps
  <2>3. <<"fail">> \in Seq(AlarmNames)
    BY DEF AlarmNames
  <2> QED  BY <2>1, <2>2, <2>3 DEF Steps
<1> QED  BY <1>1, GoesKeeps DEF Steps

LEMMA StepFacts ==
  ASSUME JobsOK, NEW w \in Workers, NEW step, Does(w, step)
  PROVE  /\ job[w] \in JobType /\ job[w].todo # <<>>
         /\ Tail(job[w].todo) \in Seq(StepNames)
         /\ Next1(job[w]) \in JobType
<1>1. job[w] \in JobType /\ job[w].todo # <<>> /\ job[w].todo \in Seq(StepNames)
  BY DEF JobsOK, Does, JobType
<1>2. Tail(job[w].todo) \in Seq(StepNames)
  BY <1>1, TailsOfTails
<1> QED  BY <1>1, <1>2 DEF Next1, JobType

LEMMA Next1Steps ==
  ASSUME JobsOK, NEW w \in Workers, NEW step, Does(w, step), Goes(w, Next1(job[w]))
  PROVE  Steps(w, Next1(job[w]))
  BY StepFacts DEF Steps, Next1, JobType

LEMMA FailSteps ==
  ASSUME JobsOK, NEW w \in Workers, NEW step, Does(w, step),
         Goes(w, [job[w] EXCEPT !.todo = <<"fail">>])
  PROVE  Steps(w, [job[w] EXCEPT !.todo = <<"fail">>])
<1>1. <<"fail">> \in Seq(StepNames)
  BY DEF StepNames, AlarmNames
<1> QED  BY <1>1, StepFacts DEF Steps, JobType

LEMMA TroubleCounts ==
  ASSUME CountsOK, NEW w \in Workers, NEW j, Troubled(w, j), UNCHANGED changes
  PROVE  CountsOK' /\ Goes(w, j)
  BY InventoryAssumption DEF CountsOK, Troubled

LEMMA NotAnAlarmJob ==
  ASSUME JobsOK, NEW w \in Workers, NEW step, Does(w, step), step \notin AlarmNames
  PROVE  job[w].by # "alarms"
  BY TailsOfTails DEF JobsOK, Confined, Does

LEMMA CoversInside ==
  ASSUME NEW accounts, NEW regions
  PROVE  /\ InAccounts(accounts) \subseteq Resources /\ Covers(accounts, regions) \subseteq Resources
         /\ Listed(accounts, regions) \subseteq Resources
  BY DEF InAccounts, Covers, Listed, Regional, Globals

LEMMA ListingKeeps ==
  ASSUME JobsOK, TablesOK, CountsOK, NEW w \in Workers, Discover(w) \/ DiscoverAborts(w)
  PROVE  JobsOK' /\ CountsOK'
<1>1. CASE Discover(w)
  <2>1. ASSUME NEW missed, NEW untagged \in SUBSET Resources, Goes(w, Found(w, missed, untagged))
        PROVE  JobsOK'
    <3>1. Does(w, "discover") /\ live \subseteq Resources
      BY <1>1 DEF Discover, TablesOK
    <3>2. Steps(w, Found(w, missed, untagged))
      BY <2>1, <3>1, StepFacts, CoversInside DEF Steps, Found, JobType
    <3> QED  BY <3>2, StepKeeps
  <2>2. CASE Goes(w, Found(w, {}, {})) /\ UNCHANGED trouble
    BY <1>1, <2>1, <2>2 DEF Discover, Kept, CountsOK
  <2>3. CASE \E gap \in RoleGaps(w) \cup KindGaps(w) \cup GlobalGaps(w) : Troubled(w, Found(w, gap, {}))
    BY <1>1, <2>1, <2>3, TroubleCounts DEF Discover, Kept
  <2>4. CASE \E r \in Unread(w) : Troubled(w, Found(w, {}, {r}))
    <3>1. PICK r \in Unread(w) : Troubled(w, Found(w, {}, {r}))
      BY <2>4
    <3>2. {r} \in SUBSET Resources
      BY CoversInside DEF Unread
    <3> QED  BY <1>1, <2>1, <3>1, <3>2, TroubleCounts DEF Discover, Kept
  <2> QED  BY <1>1, <2>2, <2>3, <2>4 DEF Discover
<1>2. CASE DiscoverAborts(w)
  <2> DEFINE rest == IF job[w].todo[Len(job[w].todo)] = "arm" THEN <<"arm">> ELSE <<"fail">>
             j == [job[w] EXCEPT !.todo = rest]
  <2>1. Does(w, "discover") /\ Troubled(w, j) /\ UNCHANGED changes
    BY <1>2 DEF DiscoverAborts, Kept
  <2>2. rest \in Seq(StepNames)
    <3>1. <<"arm">> \in Seq(StepNames)
      BY DEF StepNames
    <3>2. <<"fail">> \in Seq(StepNames)
      BY DEF StepNames, AlarmNames
    <3> QED  BY <3>1, <3>2
  <2> HIDE DEF rest
  <2>3. j \in JobType /\ j.by # "alarms"
    BY <2>1, <2>2, StepFacts, NotAnAlarmJob DEF JobType, AlarmNames
  <2> HIDE DEF j
  <2> QED  BY <2>1, <2>3, TroubleCounts, GoesKeeps DEF Confined
<1> QED  BY <1>1, <1>2

LEMMA FetchKeeps ==
  ASSUME JobsOK, TablesOK, CountsOK, NEW w \in Workers, FetchAlarms(w)
  PROVE  JobsOK' /\ CountsOK'
<1> DEFINE covered == Covers(job[w].accounts, job[w].regions)
           heard(s) == [Next1(job[w]) EXCEPT !.heard = s]
<1>0. Does(w, "fetch") /\ UNCHANGED changes
  BY DEF FetchAlarms, Kept
<1>1. ASSUME NEW s \in SUBSET covered, Goes(w, heard(s)) PROVE JobsOK'
  <2>1. Steps(w, heard(s))
    BY <1>0, <1>1, StepFacts, CoversInside DEF Steps, Next1, JobType
  <2> QED  BY <2>1, StepKeeps
<1>2. CASE Goes(w, heard(armed \cap covered)) /\ UNCHANGED trouble
  BY <1>0, <1>1, <1>2 DEF CountsOK
<1>3. CASE \E a \in job[w].accounts, g \in job[w].regions :
             Troubled(w, heard((armed \cap covered) \ Covers({a}, {g})))
  <2>1. PICK s \in SUBSET covered : Troubled(w, heard(s))
    BY <1>3
  <2> QED  BY <1>0, <1>1, <2>1, TroubleCounts
<1>4. CASE Troubled(w, heard({}))
  BY <1>0, <1>1, <1>4, TroubleCounts
<1>5. CASE Troubled(w, [job[w] EXCEPT !.todo = <<"fail">>])
  BY <1>0, <1>5, TroubleCounts, FailSteps, StepKeeps
<1> QED  BY <1>2, <1>3, <1>4, <1>5 DEF FetchAlarms

LEMMA ReadingKeeps ==
  ASSUME JobsOK, TablesOK, CountsOK, NEW w \in Workers, ReadRollups(w) \/ QueryRows(w)
  PROVE  JobsOK' /\ CountsOK'
<1>0. PICK step : Does(w, step) /\ UNCHANGED changes
  BY DEF ReadRollups, QueryRows, Kept
<1>1. CASE Troubled(w, Next1(job[w]))
  BY <1>0, <1>1, TroubleCounts, Next1Steps, StepKeeps
<1>2. CASE ReadRollups(w) /\ ~Troubled(w, Next1(job[w]))
  <2> DEFINE kept == [r \in Resources |-> IF rows[r] = NoRow THEN "unknown" ELSE rows[r].alarm]
             j == [Next1(job[w]) EXCEPT !.kept = kept]
  <2>1. Goes(w, j) /\ UNCHANGED trouble
    BY <1>2 DEF ReadRollups
  <2>2. kept \in [Resources -> {"unknown", "none", "some"}]
    BY DEF TablesOK, RowType, NoRow
  <2> HIDE DEF kept
  <2>3. Steps(w, j)
    BY <1>0, <2>1, <2>2, StepFacts DEF Steps, Next1, JobType
  <2> QED  BY <1>0, <2>1, <2>3, StepKeeps DEF CountsOK
<1>3. CASE QueryRows(w) /\ ~Troubled(w, Next1(job[w]))
  <2> DEFINE mine == InAccounts(job[w].accounts)
             j == [Next1(job[w]) EXCEPT !.old = {r \in mine : rows[r] # NoRow}, !.oldShown = shown \cap mine]
  <2>1. Goes(w, j) /\ UNCHANGED trouble
    BY <1>3 DEF QueryRows
  <2>2. mine \subseteq Resources
    BY CoversInside
  <2> HIDE DEF mine
  <2>3. Steps(w, j)
    BY <1>0, <2>1, <2>2, StepFacts DEF Steps, Next1, JobType
  <2> QED  BY <1>0, <2>1, <2>3, StepKeeps DEF CountsOK
<1> QED  BY <1>1, <1>2, <1>3

(* A step that is made or fails, and is over either way.                       *)
LEMMA OverKeeps ==
  ASSUME JobsOK, CountsOK, NEW w \in Workers, NEW step, Does(w, step), UNCHANGED changes,
         \/ Goes(w, Next1(job[w])) /\ UNCHANGED trouble
         \/ Troubled(w, Next1(job[w]))
  PROVE  JobsOK' /\ CountsOK'
<1>1. Goes(w, Next1(job[w])) /\ CountsOK'
  BY TroubleCounts DEF CountsOK
<1> QED  BY <1>1, Next1Steps, StepKeeps

LEMMA RowKeeps ==
  ASSUME JobsOK, TablesOK, NEW w \in Workers, NEW r \in Resources
  PROVE  RowOf(w, r) \in RowType
<1>1. job[w].kept[r] \in {"unknown", "none", "some"}
  BY DEF JobsOK, JobType
<1> QED  BY <1>1 DEF RowOf, RowType

LEMMA RowsKeep ==
  ASSUME TablesOK, NEW f, rows' = [r \in Resources |-> f[r]],
         \A r \in Resources : f[r] \in RowType, UNCHANGED <<live, on, armed, shown>>
  PROVE  TablesOK'
  BY DEF TablesOK

LEMMA WritingKeeps ==
  ASSUME JobsOK, TablesOK, CountsOK, NEW w \in Workers,
         PutRows(w) \/ DropRows(w) \/ PutShown(w) \/ DropShown(w)
  PROVE  JobsOK' /\ TablesOK' /\ CountsOK'
<1>1. CASE PutRows(w)
  <2>1. PICK s : rows' = [r \in Resources |-> IF r \in s THEN RowOf(w, r) ELSE rows[r]]
    BY <1>1 DEF PutRows
  <2>2. TablesOK'
    <3> DEFINE f == [r \in Resources |-> IF r \in s THEN RowOf(w, r) ELSE rows[r]]
    <3>1. \A r \in Resources : f[r] \in RowType
      BY RowKeeps DEF TablesOK
    <3> QED  BY <1>1, <2>1, <3>1 DEF TablesOK, PutRows, Cloud
  <2> QED  BY <1>1, <2>2, OverKeeps DEF PutRows, Kept
<1>2. CASE DropRows(w)
  <2>1. PICK s : rows' = [r \in Resources |-> IF r \in s THEN NoRow ELSE rows[r]]
    BY <1>2 DEF DropRows
  <2>2. TablesOK'
    BY <1>2, <2>1 DEF TablesOK, DropRows, Cloud, RowType
  <2> QED  BY <1>2, <2>2, OverKeeps DEF DropRows, Kept
<1>3. CASE PutShown(w)
  <2>1. job[w].heard \subseteq Resources
    BY DEF JobsOK, JobType
  <2>2. TablesOK'
    BY <1>3, <2>1 DEF TablesOK, PutShown, Cloud
  <2> QED  BY <1>3, <2>2, OverKeeps DEF PutShown, Kept
<1>4. CASE DropShown(w)
  <2>1. TablesOK'
    BY <1>4 DEF TablesOK, DropShown, Cloud
  <2> QED  BY <1>4, <2>1, OverKeeps DEF DropShown, Kept
<1> QED  BY <1>1, <1>2, <1>3, <1>4

LEMMA ArmingKeeps ==
  ASSUME JobsOK, TablesOK, CountsOK, NEW w \in Workers, Arm(w) \/ DropOrphans(w)
  PROVE  JobsOK' /\ TablesOK' /\ CountsOK'
<1>1. TablesOK'
  BY DEF TablesOK, Arm, DropOrphans, Tables
<1>2. JobsOK' /\ CountsOK'
  BY OverKeeps DEF Arm, DropOrphans, Kept
<1> QED  BY <1>1, <1>2

LEMMA DoneKeeps ==
  ASSUME InventoryInv, NEW w \in Workers, Done(w)
  PROVE  InventoryInv'
<1> USE DEF InventoryInv
<1>1. PICK s \in {"completed", "failed", "unwritten"}, i \in 0..MaxCalls :
        status' = IF i = 0 THEN status ELSE [status EXCEPT ![i] = s]
  <2>1. job[w].id \in 0..MaxCalls
    BY DEF JobsOK, JobType
  <2> QED  BY <2>1 DEF Done
<1>2. StatusOK'
  BY <1>1 DEF StatusOK
<1>3. Goes(w, Free) /\ CountsOK'
  BY TroubleCounts DEF Done, CountsOK
<1>4. JobsOK'
  BY <1>3, FreeType, GoesKeeps
<1> QED  BY <1>2, <1>3, <1>4 DEF Done, Cloud, Tables, TablesOK

LEMMA TogglingKeeps ==
  ASSUME JobsOK, TablesOK, CountsOK, NEW w \in Workers,
         SetTag(w) \/ MarkRow(w) \/ ApplyAlarm(w) \/ ShowAlarm(w)
  PROVE  JobsOK' /\ TablesOK' /\ CountsOK'
<1>0. job[w].target \subseteq Resources
  BY DEF JobsOK, JobType
<1>1. ASSUME Goes(w, Free) PROVE JobsOK'
  BY <1>1, FreeType, GoesKeeps
<1>2. CASE SetTag(w)
  <2>1. TablesOK'
    BY <1>0, <1>2 DEF TablesOK, SetTag, Tables
  <2>2. CASE Troubled(w, Free) \/ (Goes(w, Free) /\ UNCHANGED trouble)
    BY <1>1, <1>2, <2>1, <2>2, TroubleCounts DEF SetTag, Kept, CountsOK
  <2>3. CASE Goes(w, Next1(job[w])) /\ UNCHANGED trouble
    BY <1>2, <2>1, <2>3, OverKeeps DEF SetTag, Kept
  <2>4. \/ Goes(w, Next1(job[w])) /\ UNCHANGED trouble
        \/ Goes(w, Free) /\ UNCHANGED trouble
        \/ Troubled(w, Free)
    BY <1>2 DEF SetTag
  <2> QED  BY <2>2, <2>3, <2>4
<1>3. CASE MarkRow(w)
  <2>1. TablesOK'
    <3> DEFINE marked(r) == [on |-> job[w].by = "on",
                             alarm |-> IF rows[r] = NoRow THEN "unknown" ELSE rows[r].alarm]
    <3>1. ASSUME NEW r \in Resources PROVE marked(r) \in RowType
      <4>1. (IF rows[r] = NoRow THEN "unknown" ELSE rows[r].alarm) \in {"unknown", "none", "some"}
        BY DEF TablesOK, RowType, NoRow
      <4> QED  BY <4>1 DEF RowType
    <3>2. rows' = rows \/ rows' = [r \in Resources |-> IF r \in job[w].target THEN marked(r) ELSE rows[r]]
      BY <1>3 DEF MarkRow
    <3> HIDE DEF marked
    <3>3. rows' \in [Resources -> RowType]
      BY <3>1, <3>2 DEF TablesOK
    <3> QED  BY <1>3, <3>3 DEF TablesOK, MarkRow, Cloud
  <2>2. CASE Troubled(w, Free)
    BY <1>1, <1>3, <2>1, <2>2, TroubleCounts DEF MarkRow, Kept
  <2>3. CASE Goes(w, Next1(job[w])) /\ UNCHANGED trouble
    BY <1>3, <2>1, <2>3, OverKeeps DEF MarkRow, Kept
  <2> QED  BY <1>3, <2>2, <2>3 DEF MarkRow
<1>4. CASE ApplyAlarm(w)
  <2> DEFINE applied == [Next1(job[w]) EXCEPT !.heard = @ \cup (job[w].target \cap armed)]
  <2>1. TablesOK'
    BY <1>0, <1>4 DEF TablesOK, ApplyAlarm, Tables
  <2>2. CASE Troubled(w, Free)
    BY <1>1, <1>4, <2>1, <2>2, TroubleCounts DEF ApplyAlarm, Kept
  <2>3. CASE Goes(w, applied) /\ UNCHANGED trouble
    <3>1. Does(w, "alarm") /\ UNCHANGED changes
      BY <1>4 DEF ApplyAlarm, Kept
    <3>2. applied \in JobType /\ applied.by # "alarms"
      BY <1>0, <3>1, StepFacts, NotAnAlarmJob DEF JobType, Next1, AlarmNames
    <3> HIDE DEF applied
    <3> QED  BY <2>1, <2>3, <3>1, <3>2, GoesKeeps DEF Confined, CountsOK
  <2> QED  BY <1>4, <2>2, <2>3 DEF ApplyAlarm
<1>5. CASE ShowAlarm(w)
  <2>1. TablesOK'
    BY <1>0, <1>5 DEF TablesOK, ShowAlarm, Cloud
  <2> QED  BY <1>5, <2>1, OverKeeps DEF ShowAlarm, Kept
<1> QED  BY <1>2, <1>3, <1>4, <1>5

LEMMA WorkKeeps ==
  ASSUME InventoryInv, NEW w \in Workers, Works(w)
  PROVE  InventoryInv'
<1>1. CASE Done(w)
  BY <1>1, DoneKeeps
<1>2. CASE ~Done(w)
  <2>1. UNCHANGED status
    BY <1>2 DEF Works, Discover, DiscoverAborts, FetchAlarms, ReadRollups, PutRows, QueryRows, DropRows,
          PutShown, DropShown, Arm, DropOrphans, SetTag, MarkRow, ApplyAlarm, ShowAlarm, Kept
  <2>2. CASE Discover(w) \/ DiscoverAborts(w) \/ FetchAlarms(w) \/ ReadRollups(w) \/ QueryRows(w)
    <3>1. JobsOK' /\ CountsOK'
      BY <2>2, ListingKeeps, FetchKeeps, ReadingKeeps DEF InventoryInv
    <3>2. TablesOK'
      BY <2>2 DEF Discover, DiscoverAborts, FetchAlarms, ReadRollups, QueryRows, Cloud, Tables,
            TablesOK, InventoryInv
    <3> QED  BY <2>1, <3>1, <3>2 DEF InventoryInv, StatusOK
  <2>3. CASE PutRows(w) \/ DropRows(w) \/ PutShown(w) \/ DropShown(w)
    BY <2>1, <2>3, WritingKeeps DEF InventoryInv, StatusOK
  <2>4. CASE Arm(w) \/ DropOrphans(w)
    BY <2>1, <2>4, ArmingKeeps DEF InventoryInv, StatusOK
  <2>5. CASE SetTag(w) \/ MarkRow(w) \/ ApplyAlarm(w) \/ ShowAlarm(w)
    BY <2>1, <2>5, TogglingKeeps DEF InventoryInv, StatusOK
  <2> QED  BY <1>2, <2>2, <2>3, <2>4, <2>5 DEF Works
<1> QED  BY <1>1, <1>2
--------------------------------------------------------------------------------
LEMMA LargerSeq ==
  ASSUME NEW T, NEW S \in SUBSET T, NEW s \in Seq(S)
  PROVE  s \in Seq(T)
<1>1. \A i \in 1..Len(s) : s[i] \in T
  OBVIOUS
<1> QED  BY <1>1

LEMMA StepsOfRuns ==
  /\ RunSteps \in Seq(StepNames) /\ ResourceSteps \in Seq(StepNames)
  /\ AlarmSteps \in Seq(StepNames) /\ AlarmSteps \in Seq(AlarmNames)
  /\ <<"tag", "mark", "alarm", "show">> \in Seq(StepNames)
<1>1. /\ RunSteps \in Seq({"discover", "fetch", "put rows", "query", "drop rows", "put alarms", "drop alarms", "arm"})
      /\ ResourceSteps \in Seq({"discover", "rollups", "put rows", "query", "drop rows"})
      /\ AlarmSteps \in Seq(AlarmNames)
      /\ <<"tag", "mark", "alarm", "show">> \in Seq({"tag", "mark", "alarm", "show"})
  BY DEF RunSteps, AlarmSteps, ResourceSteps, AlarmNames
<1>2. /\ {"discover", "fetch", "put rows", "query", "drop rows", "put alarms", "drop alarms", "arm"} \subseteq StepNames
      /\ {"discover", "rollups", "put rows", "query", "drop rows"} \subseteq StepNames
      /\ AlarmNames \subseteq StepNames /\ {"tag", "mark", "alarm", "show"} \subseteq StepNames
  BY DEF StepNames, AlarmNames
<1> QED  BY <1>1, <1>2, LargerSeq

(* What a worker is started with is Free but for some fields.                  *)
LEMMA StartedType ==
  ASSUME NEW j \in JobType, j.heard = {}, j.by = "alarms" => j.todo = AlarmSteps
  PROVE  Confined(j)
  BY StepsOfRuns DEF Confined

LEMMA StartingKeeps ==
  ASSUME InventoryInv, NEW w \in Workers,
         \/ \E a \in Accounts : StartRun(w, a)
         \/ StartSync(w)
         \/ \E r \in Resources, v \in BOOLEAN : Toggle(w, r, v)
         \/ Die(w)
  PROVE  InventoryInv'
<1> USE DEF InventoryInv
<1>1. CASE \E a \in Accounts : StartRun(w, a)
  <2>1. PICK a \in Accounts, regions \in SUBSET Regions :
          LET j == [Free EXCEPT !.by = "run", !.todo = RunSteps, !.accounts = {a}, !.regions = regions] IN
          (Goes(w, j) /\ UNCHANGED trouble) \/ Troubled(w, j)
    BY <1>1, InventoryAssumption DEF StartRun
  <2> DEFINE j == [Free EXCEPT !.by = "run", !.todo = RunSteps, !.accounts = {a}, !.regions = regions]
  <2>2. j \in JobType /\ j.heard = {} /\ j.by = "run"
    BY FreeType, StepsOfRuns DEF JobType
  <2>3. j \in JobType /\ Confined(j)
    BY <2>2, StartedType
  <2>4. Cloud /\ Tables /\ Kept
    BY <1>1 DEF StartRun
  <2>5. Goes(w, j) /\ CountsOK'
    BY <2>1, <2>4, TroubleCounts DEF Kept, CountsOK
  <2> QED  BY <2>3, <2>4, <2>5, GoesKeeps DEF Cloud, Tables, Kept, TablesOK, StatusOK
<1>2. CASE StartSync(w)
  <2>1. PICK i \in DOMAIN status, by \in {"alarms", "resources"}, s \in SUBSET Accounts, regions \in Scopes :
          /\ status' = [status EXCEPT ![i] = "in_progress"]
          /\ Goes(w, [Free EXCEPT !.by = by, !.id = i, !.accounts = s, !.regions = regions,
                        !.todo = IF by = "alarms" THEN AlarmSteps ELSE ResourceSteps])
    BY <1>2 DEF StartSync
  <2> DEFINE todo == IF by = "alarms" THEN AlarmSteps ELSE ResourceSteps
             j == [Free EXCEPT !.by = by, !.id = i, !.accounts = s, !.regions = regions, !.todo = todo]
  <2>3. i \in 0..MaxCalls /\ regions \in SUBSET Regions /\ todo \in Seq(StepNames)
    BY StepsOfRuns, InventoryAssumption DEF StatusOK
  <2>2. j \in JobType /\ j.heard = {} /\ j.by = by /\ j.todo = todo
    <3> HIDE DEF todo
    <3> QED  BY <2>3, FreeType DEF JobType
  <2>4. j \in JobType /\ Confined(j)
    BY <2>2, StartedType
  <2>5. Cloud /\ Tables /\ UNCHANGED <<trouble, changes>>
    BY <1>2 DEF StartSync
  <2>6. StatusOK'
    BY <2>1 DEF StatusOK
  <2> QED  BY <2>1, <2>4, <2>5, <2>6, GoesKeeps DEF Cloud, Tables, TablesOK, CountsOK
<1>3. CASE \E r \in Resources, v \in BOOLEAN : Toggle(w, r, v)
  <2>1. PICK r \in Resources, v \in BOOLEAN : Toggle(w, r, v)
    BY <1>3
  <2> DEFINE by == IF v THEN "on" ELSE "off"
             j == [Free EXCEPT !.by = by, !.target = {r}, !.todo = <<"tag", "mark", "alarm", "show">>]
  <2>2. j \in JobType /\ j.heard = {} /\ j.by \in {"on", "off"}
    BY FreeType, StepsOfRuns DEF JobType
  <2>3. j \in JobType /\ Confined(j)
    BY <2>2, StartedType
  <2>4. /\ Goes(w, j) /\ Cloud /\ Tables /\ UNCHANGED <<status, trouble>>
        /\ changes < MaxChanges /\ changes' = changes + 1
    BY <2>1 DEF Toggle
  <2>5. CountsOK'
    BY <2>4, InventoryAssumption DEF CountsOK
  <2> QED  BY <2>3, <2>4, <2>5, GoesKeeps DEF Cloud, Tables, TablesOK, StatusOK
<1>4. CASE Die(w)
  <2> DEFINE by == job[w].by
             todo == CASE by = "run" -> RunSteps [] by = "alarms" -> AlarmSteps
                       [] by = "resources" -> ResourceSteps
             j == [Free EXCEPT !.by = by, !.id = job[w].id, !.accounts = job[w].accounts,
                               !.regions = job[w].regions, !.todo = todo]
  <2>1. Troubled(w, j) /\ Cloud /\ Tables /\ Kept /\ by \in {"run", "alarms", "resources"}
    BY <1>4 DEF Die
  <2>3. todo \in Seq(StepNames) /\ (by = "alarms" => todo = AlarmSteps)
    BY <2>1, StepsOfRuns
  <2>4. job[w].id \in 0..MaxCalls /\ job[w].accounts \in SUBSET Accounts /\ job[w].regions \in SUBSET Regions
    BY DEF JobsOK, JobType
  <2> HIDE DEF todo, by
  <2>2. j \in JobType /\ j.heard = {} /\ j.by = by /\ j.todo = todo
    BY <2>1, <2>3, <2>4, FreeType DEF JobType
  <2>5. j \in JobType /\ Confined(j)
    BY <2>2, <2>3, StartedType
  <2> QED  BY <2>1, <2>5, GoesKeeps, TroubleCounts DEF Cloud, Tables, Kept, TablesOK, StatusOK
<1> QED  BY <1>1, <1>2, <1>3, <1>4

LEMMA OutsideKeeps == ASSUME InventoryInv, World \/ RequestSync PROVE InventoryInv'
<1> USE DEF InventoryInv
<1>1. CASE World
  BY <1>1, InventoryAssumption DEF World, Tables, JobsOK, Confined, StatusOK, TablesOK, CountsOK
<1>2. CASE RequestSync
  <2>1. StatusOK'
    <3>1. PICK s \in {"pending", "unwritten"} : status' = Append(status, s) /\ Len(status) < MaxCalls
      BY <1>2 DEF RequestSync
    <3>2. Len(status') = Len(status) + 1 /\ Len(status) \in Nat
      BY <3>1 DEF StatusOK
    <3>3. Len(status') <= MaxCalls
      BY <3>1, <3>2, InventoryAssumption
    <3> QED  BY <3>1, <3>3 DEF StatusOK
  <2>2. JobsOK' /\ TablesOK' /\ CountsOK'
    BY <1>2, InventoryAssumption DEF RequestSync, Cloud, Tables, JobsOK, Confined, TablesOK, CountsOK
  <2> QED  BY <2>1, <2>2
<1> QED  BY <1>1, <1>2

LEMMA NextKeeps == InventoryInv /\ [Next]_vars => InventoryInv'
<1> SUFFICES ASSUME InventoryInv, [Next]_vars PROVE InventoryInv'
  OBVIOUS
<1>1. CASE UNCHANGED vars
  BY <1>1 DEF vars, InventoryInv, JobsOK, Confined, StatusOK, TablesOK, CountsOK
<1>2. CASE Next
  BY <1>2, WorkKeeps, StartingKeeps, OutsideKeeps, InventoryAssumption DEF Next
<1> QED  BY <1>1, <1>2

(* The inductive invariant of both theorems below: the types, and that an      *)
(* alarm job has only its own steps before it and has heard only of alarms it  *)
(* was asked for.                                                              *)
THEOREM InventoryInvariant == Spec => []InventoryInv
  BY InitKeeps, NextKeeps, PTL DEF Spec

(* What was listed too narrowly is not forgotten.                              *)
LEMMA MisscopedGrows ==
  ASSUME [Next]_vars
  PROVE  misscoped \subseteq misscoped' /\ (misscoped \subseteq Accounts => misscoped' \subseteq Accounts)
<1>1. ASSUME NEW w \in Workers, StartSync(w)
      PROVE  misscoped \subseteq misscoped' /\ misscoped' \subseteq misscoped \cup Accounts
  BY <1>1 DEF StartSync
<1>2. ASSUME NEW w \in Workers, Works(w) \/ Die(w) PROVE UNCHANGED misscoped
  BY <1>2 DEF Works, Discover, DiscoverAborts, FetchAlarms, ReadRollups, PutRows, QueryRows, DropRows,
        PutShown, DropShown, Arm, DropOrphans, Done, SetTag, MarkRow, ApplyAlarm, ShowAlarm, Die, Kept
<1>3. CASE \/ World \/ RequestSync \/ UNCHANGED vars
           \/ \E a \in Accounts : StartRun(Runner, a)
           \/ \E w \in Workers, r \in Resources, v \in BOOLEAN : Toggle(w, r, v)
  BY <1>3 DEF World, RequestSync, vars, StartRun, Toggle, Kept
<1> QED  BY <1>1, <1>2, <1>3 DEF Next

(* The tables, the jobs and the counters keep their types (TypeOK).            *)
THEOREM InventoryTypes == Spec => []TypeOK
<1>0. misscoped \subseteq Accounts /\ [Next]_vars => (misscoped \subseteq Accounts)'
  BY MisscopedGrows
<1>2. Init => misscoped \subseteq Accounts
  BY DEF Init
<1>1. InventoryInv /\ misscoped \subseteq Accounts => TypeOK
  <2> SUFFICES ASSUME InventoryInv, misscoped \subseteq Accounts PROVE TypeOK
    OBVIOUS
  <2>1. \A w \in Workers : DOMAIN job[w] = DOMAIN Free
    BY FreeType DEF InventoryInv, JobsOK, JobType
  <2> QED  BY <2>1 DEF InventoryInv, StatusOK, TablesOK, CountsOK, TypeOK
<1> QED  BY <1>0, <1>1, <1>2, InventoryInvariant, PTL DEF Spec
--------------------------------------------------------------------------------
(* Whatever a worker does changes its own job only.                            *)
LEMMA OnlyItsOwn ==
  ASSUME JobsOK, NEW v \in Workers, NEW w \in Workers, v # w,
         \/ Works(v) \/ Die(v) \/ StartSync(v) \/ \E a \in Accounts : StartRun(v, a)
         \/ \E r \in Resources, b \in BOOLEAN : Toggle(v, r, b)
  PROVE  job'[w] = job[w]
<1>1. ASSUME NEW j, Goes(v, j) \/ Troubled(v, j) PROVE job'[w] = job[w]
  BY <1>1 DEF Goes, Troubled, JobsOK
<1>2. CASE Works(v)
  BY <1>1, <1>2 DEF Works, Discover, DiscoverAborts, FetchAlarms, ReadRollups, PutRows, QueryRows,
     DropRows, PutShown, DropShown, Arm, DropOrphans, Done, SetTag, MarkRow, ApplyAlarm, ShowAlarm
<1>3. CASE Die(v)
  BY <1>1, <1>3 DEF Die
<1>4. CASE StartSync(v) \/ \E a \in Accounts : StartRun(v, a)
  BY <1>1, <1>4 DEF StartSync, StartRun
<1>5. CASE \E r \in Resources, b \in BOOLEAN : Toggle(v, r, b)
  BY <1>1, <1>5 DEF Toggle
<1> QED  BY <1>2, <1>3, <1>4, <1>5

(* A worker with steps before it is not started: it works or dies.             *)
LEMMA ItsOwnStep ==
  ASSUME JobsOK, Next, NEW w \in Workers, job[w].todo # <<>>, job'[w].todo # job[w].todo
  PROVE  Works(w) \/ Die(w)
<1>1. job[w] # Free /\ Runner \in Workers
  BY FreeType, InventoryAssumption
<1>2. ~StartSync(w) /\ \A a \in Accounts : ~StartRun(w, a)
  BY <1>1 DEF StartSync, StartRun
<1>3. \A r \in Resources, b \in BOOLEAN : ~Toggle(w, r, b)
  BY <1>1 DEF Toggle
<1>4. ~World /\ ~RequestSync
  BY DEF World, RequestSync
<1>5. PICK v \in Workers :
         \/ Works(v) \/ Die(v) \/ StartSync(v) \/ \E a \in Accounts : StartRun(v, a)
         \/ \E r \in Resources, b \in BOOLEAN : Toggle(v, r, b)
  BY <1>1, <1>4 DEF Next
<1>6. v = w
  BY <1>5, OnlyItsOwn
<1> QED  BY <1>2, <1>3, <1>5, <1>6

(* The rows that the steps of an alarm job change are those of alarms it heard *)
(* of and of those it was given.                                               *)
LEMMA AlarmStepsConfined ==
  ASSUME InventoryInv, NEW w \in Workers, job[w].by = "alarms", Works(w) \/ Die(w),
         Head(job[w].todo) \in {"put rows", "drop rows", "put alarms", "drop alarms"},
         job[w].todo # <<>>,
         NEW r \in Resources, r \notin Covers(job[w].accounts, job[w].regions)
  PROVE  rows'[r] = rows[r] /\ (r \in shown' <=> r \in shown)
<1>1. job[w].heard \subseteq Covers(job[w].accounts, job[w].regions)
  BY DEF InventoryInv, JobsOK, Confined
<1>2. Head(job[w].todo) \in {"put alarms", "drop alarms"}
  <2>1. job[w].todo \in Seq(AlarmNames)
    BY DEF InventoryInv, JobsOK, Confined
  <2>2. Head(job[w].todo) \in AlarmNames
    BY <2>1, TailsOfTails
  <2> QED  BY <2>2 DEF AlarmNames
<1>3. CASE PutShown(w)
  BY <1>1, <1>3 DEF PutShown
<1>4. CASE DropShown(w)
  BY <1>4 DEF DropShown, StaleAlarms
<1>5. CASE ~PutShown(w) /\ ~DropShown(w)
  <2>1. UNCHANGED <<rows, shown>>
    BY <1>2, <1>5 DEF Works, Die, Does, Discover, DiscoverAborts, FetchAlarms, ReadRollups, PutRows,
          QueryRows, DropRows, Arm, DropOrphans, Done, SetTag, MarkRow, ApplyAlarm, ShowAlarm, Tables
  <2> QED  BY <2>1
<1> QED  BY <1>3, <1>4, <1>5

(* No step of an alarm job adds, changes or removes a row outside the accounts *)
(* and regions it was given, however many jobs and runs there are              *)
(* (_cleanup_stale_snapshots).                                                 *)
THEOREM AlarmJobConfinedAlways == Spec => AlarmJobConfined
<1>1. InventoryInv /\ [Next]_vars => [~Outside("alarms")]_vars
  <2> SUFFICES ASSUME InventoryInv, Next, Outside("alarms") PROVE FALSE
    BY DEF Outside
  <2>1. PICK w \in Workers :
          /\ job[w].by = "alarms" /\ job'[w].todo # job[w].todo /\ job[w].todo # <<>>
          /\ Head(job[w].todo) \in {"put rows", "drop rows", "put alarms", "drop alarms"}
          /\ \E r \in Resources \ Covers(job[w].accounts, job[w].regions) :
               rows'[r] # rows[r] \/ (r \in shown' /\ r \notin shown) \/ (r \in shown /\ r \notin shown')
    BY DEF Outside
  <2>2. Works(w) \/ Die(w)
    BY <2>1, ItsOwnStep DEF InventoryInv
  <2> QED  BY <2>1, <2>2, AlarmStepsConfined
<1> QED  BY <1>1, InventoryInvariant, PTL DEF Spec, AlarmJobConfined
--------------------------------------------------------------------------------
(* What NotWiped rests on: one failure, and no account without a resource.     *)
OneFailure == MaxTrouble <= 1
NoneEmpty == \A a \in Accounts : InAccounts({a}) # {}

Of(a) == InAccounts({a})
Whole(a) == Of(a) \subseteq live

(* The accounts it speaks of.                                                  *)
Due(a) == a \notin misscoped /\ Of(a) \subseteq Listable(a)

Listers == {"run", "resources"}
Listing(j) == \A i \in DOMAIN j.todo : j.todo[i] = "discover" => i = 1 /\ j.by \in Listers
Past(j) == \A i \in DOMAIN j.todo : j.todo[i] # "discover"

(* A job that lists less of an account than there may be.                      *)
Short(j, a) == a \in j.accounts /\ ~(Of(a) \subseteq Listed({a}, j.regions))

(* About to: the record of the account was unread.                             *)
Narrow(w, a) == Does(w, "discover") /\ Short(job[w], a)

ListsFirst == \A w \in Workers : Listing(job[w])
CalmIsWide(a) == trouble = 0 => \A w \in Workers : job[w].by \in Listers => ~Short(job[w], a)
OneNarrow(a) == \A w, v \in Workers : Narrow(w, a) /\ Narrow(v, a) => w = v

(* Of an account that is whole, a listing has all or nothing, and so has the   *)
(* table.                                                                      *)
Complete(w, a) == job[w].found \cap Of(a) = {} \/ Of(a) \subseteq job[w].found
Pristine(a) ==
  Whole(a) => (\A r \in Of(a) : rows[r] # NoRow) /\ \A w \in Workers : Complete(w, a)

Untouched(a) == (trouble = 0 \/ \E w \in Workers : Narrow(w, a)) => Pristine(a)

(* A row that is there, and in every listing that found any of its account.    *)
Safe(a, r) ==
  rows[r] # NoRow /\ \A w \in Workers : job[w].found \cap Of(a) # {} => r \in job[w].found

SomeSafe(a) == Whole(a) => \E r \in Of(a) : Safe(a, r)

Sheltered(a) == CalmIsWide(a) /\ OneNarrow(a) /\ Untouched(a) /\ SomeSafe(a)

WipeInv == ListsFirst /\ \A a \in Accounts : Due(a) => Sheltered(a)
--------------------------------------------------------------------------------
LEMMA FreeIsPast == Past(Free) /\ Free.found = {} /\ Free.by \notin Listers
<1>1. Free.todo = <<>> /\ Free.found = {} /\ Free.by = "none"
  BY DEF Free
<1> QED  BY <1>1 DEF Past, Listers

LEMMA PastIsListing == ASSUME NEW j, Past(j) PROVE Listing(j)
  BY DEF Past, Listing

LEMMA InitWiped == ASSUME NoneEmpty, Init PROVE WipeInv
<1>0. \A w \in Workers : job[w] = Free
  BY DEF Init
<1>1. ListsFirst
  BY <1>0, FreeIsPast, PastIsListing DEF ListsFirst
<1>2. ASSUME NEW a \in Accounts, Due(a) PROVE Sheltered(a)
  <2>1. CalmIsWide(a) /\ OneNarrow(a)
    BY <1>0, FreeIsPast, FreeType DEF CalmIsWide, OneNarrow, Narrow, Does
  <2>2. \A r \in Of(a) : rows[r] # NoRow
    <3> SUFFICES ASSUME NEW r \in Of(a) PROVE rows[r] # NoRow
      OBVIOUS
    <3>1. r \in Resources /\ AccountOf[r] = a /\ r \in Listable(a)
      BY <1>2 DEF Due, Of, InAccounts
    <3> DEFINE alarm == IF Audible(r) THEN "some" ELSE "none"
    <3>2. rows[r] = [on |-> TRUE, alarm |-> alarm]
      BY <3>1 DEF Init
    <3>3. alarm # "no row"
      OBVIOUS
    <3> HIDE DEF alarm
    <3>4. rows[r].alarm = alarm
      BY <3>2
    <3>5. NoRow.alarm = "no row"
      BY DEF NoRow
    <3> QED  BY <3>3, <3>4, <3>5
  <2>3. Of(a) # {}
    BY DEF Of, NoneEmpty
  <2>4. \A w \in Workers : job[w].found = {}
    BY <1>0, FreeIsPast
  <2> QED  BY <2>1, <2>2, <2>3, <2>4 DEF Untouched, Pristine, Complete, SomeSafe, Safe, Sheltered
<1> QED  BY <1>1, <1>2 DEF WipeInv

(* While there was no trouble no listing is narrow.                            *)
LEMMA CalmNoNarrow ==
  ASSUME InventoryInv, WipeInv, trouble = 0, NEW w \in Workers, NEW a \in Accounts, Due(a)
  PROVE  ~Narrow(w, a)
<1> SUFFICES ASSUME Narrow(w, a) PROVE FALSE
  OBVIOUS
<1>1. job[w].todo \in Seq(StepNames) /\ job[w].todo # <<>> /\ Head(job[w].todo) = "discover"
  BY DEF Narrow, Does, InventoryInv, JobsOK, JobType
<1>2. 1 \in DOMAIN job[w].todo /\ job[w].todo[1] = "discover"
  BY <1>1
<1>3. job[w].by \in Listers
  BY <1>2 DEF WipeInv, ListsFirst, Listing
<1> QED  BY <1>3 DEF WipeInv, Sheltered, CalmIsWide, Narrow

(* A step that is no listing: whose job stays as it was or is a new one, and   *)
(* whose rows that disappear are stale ones.                                   *)
Tame(w, j) ==
  /\ Goes(w, j) /\ Listing(j) /\ UNCHANGED live /\ misscoped \subseteq misscoped'
  /\ j.found \in {job[w].found, {}}
  /\ trouble' = 0 => trouble = 0
  /\ \A a \in Accounts : Due(a)' =>
       /\ Past(j) \/ ~Short(j, a) \/ trouble = 0
       /\ trouble' = 0 => (j.by \in Listers => ~Short(j, a))
  /\ \A r \in Resources :
       rows'[r] = NoRow /\ rows[r] # NoRow =>
         r \notin job[w].found /\ \E f \in job[w].found : AccountOf[f] = AccountOf[r]

LEMMA TameKeeps ==
  ASSUME InventoryInv, InventoryInv', WipeInv, NEW w \in Workers, NEW j, Tame(w, j)
  PROVE  WipeInv'
<1>1. job'[w] = j /\ \A v \in Workers : v # w => job'[v] = job[v]
  BY DEF Tame, Goes, InventoryInv, JobsOK
<1>2. ListsFirst'
  BY <1>1 DEF Tame, ListsFirst, WipeInv
<1> SUFFICES ASSUME NEW a \in Accounts, Due(a)' PROVE Sheltered(a)'
  BY <1>2 DEF WipeInv
<1>0. Due(a) /\ CalmIsWide(a) /\ OneNarrow(a) /\ Untouched(a) /\ SomeSafe(a)
  BY DEF Tame, Due, WipeInv, Sheltered
<1>3. CalmIsWide(a)'
  BY <1>0, <1>1 DEF Tame, CalmIsWide, Short
<1>4. ASSUME NEW v \in Workers, Narrow(v, a)' PROVE (v = w /\ trouble = 0) \/ (v # w /\ Narrow(v, a))
  <2>1. CASE v # w
    BY <1>1, <1>4, <2>1 DEF Narrow, Does, Short
  <2>2. CASE v = w
    <3>1. j.todo # <<>> /\ Head(j.todo) = "discover" /\ Short(j, a)
      BY <1>1, <1>4, <2>2 DEF Narrow, Does, Short
    <3>2. ~Past(j)
      <4>1. j.todo \in Seq(StepNames)
        BY <1>1 DEF InventoryInv, JobsOK, JobType
      <4>2. 1 \in DOMAIN j.todo /\ j.todo[1] = "discover"
        BY <3>1, <4>1
      <4> QED  BY <4>2 DEF Past
    <3> QED  BY <2>2, <3>1, <3>2 DEF Tame
  <2> QED  BY <2>1, <2>2
<1>5. OneNarrow(a)'
  BY <1>0, <1>4, CalmNoNarrow DEF OneNarrow
<1>6. \A v \in Workers : job'[v].found \in {job[v].found, {}}
  BY <1>1 DEF Tame
<1>7. ASSUME NEW r \in Of(a), rows'[r] = NoRow, rows[r] # NoRow
      PROVE  job[w].found \cap Of(a) # {} /\ r \notin job[w].found
  <2>1. r \in Resources /\ AccountOf[r] = a
    BY DEF Of, InAccounts
  <2>2. PICK f \in job[w].found : AccountOf[f] = a
    BY <1>7, <2>1 DEF Tame
  <2>3. job[w].found \subseteq Resources
    BY DEF InventoryInv, JobsOK, JobType
  <2>4. f \in Of(a)
    BY <2>2, <2>3 DEF Of, InAccounts
  <2> QED  BY <1>7, <2>1, <2>2, <2>4 DEF Tame
<1>8. Whole(a)' <=> Whole(a)
  BY DEF Tame, Whole
<1>9. Untouched(a)'
  <2> SUFFICES ASSUME trouble' = 0 \/ \E v \in Workers : Narrow(v, a)', Whole(a)
               PROVE (\A r \in Of(a) : rows'[r] # NoRow) /\ \A v \in Workers : Complete(v, a)'
    BY <1>8 DEF Untouched, Pristine
  <2>1. Pristine(a)
    BY <1>0, <1>4 DEF Tame, Untouched
  <2>2. (\A r \in Of(a) : rows[r] # NoRow) /\ \A v \in Workers : Complete(v, a)
    BY <2>1 DEF Pristine
  <2>3. \A r \in Of(a) : rows'[r] # NoRow
    BY <1>7, <2>2 DEF Complete
  <2>4. \A v \in Workers : Complete(v, a)'
    BY <1>6, <2>2 DEF Complete
  <2> QED  BY <2>3, <2>4
<1>10. SomeSafe(a)'
  <2> SUFFICES ASSUME Whole(a) PROVE \E r \in Of(a) : Safe(a, r)'
    BY <1>8 DEF SomeSafe
  <2>1. PICK r \in Of(a) : Safe(a, r)
    BY <1>0 DEF SomeSafe
  <2>2. rows'[r] # NoRow
    BY <1>7, <2>1 DEF Safe
  <2>3. \A v \in Workers : job'[v].found \cap Of(a) # {} => r \in job'[v].found
    BY <1>6, <2>1 DEF Safe
  <2> QED  BY <2>2, <2>3 DEF Safe
<1> QED  BY <1>3, <1>5, <1>9, <1>10 DEF Sheltered
--------------------------------------------------------------------------------
(* After a step of its own, no worker has a listing before it.                 *)
LEMMA TailIsPast ==
  ASSUME InventoryInv, WipeInv, NEW w \in Workers, NEW step, Does(w, step)
  PROVE  \A i \in DOMAIN Tail(job[w].todo) : Tail(job[w].todo)[i] # "discover"
<1>1. job[w].todo \in Seq(StepNames) /\ job[w].todo # <<>>
  BY DEF Does, InventoryInv, JobsOK, JobType
<1> SUFFICES ASSUME NEW i \in DOMAIN Tail(job[w].todo), Tail(job[w].todo)[i] = "discover" PROVE FALSE
  OBVIOUS
<1>2. i \in Nat /\ i >= 1 /\ i + 1 \in DOMAIN job[w].todo /\ job[w].todo[i + 1] = "discover"
  BY <1>1
<1>3. i + 1 = 1
  BY <1>2 DEF WipeInv, ListsFirst, Listing
<1> QED  BY <1>2, <1>3

(* What a step leaves of a job, and of the rows.                               *)
Left(w, j) ==
  /\ Past(j) /\ j.found \in {job[w].found, {}}
  /\ (j.by = job[w].by /\ j.accounts = job[w].accounts /\ j.regions = job[w].regions) \/ j.by \notin Listers

RowsLeft(w) ==
  \A r \in Resources :
    rows'[r] = NoRow /\ rows[r] # NoRow =>
      r \notin job[w].found /\ \E f \in job[w].found : AccountOf[f] = AccountOf[r]

LEMMA LeftIsTame ==
  ASSUME InventoryInv, WipeInv, NEW w \in Workers, NEW j, Left(w, j), RowsLeft(w), UNCHANGED <<live, misscoped>>,
         (Goes(w, j) /\ UNCHANGED trouble) \/ Troubled(w, j)
  PROVE  Tame(w, j)
<1>1. Goes(w, j) /\ (trouble' = 0 => trouble = 0)
  <2>1. trouble \in Nat
    BY InventoryAssumption DEF InventoryInv, CountsOK
  <2> QED  BY <2>1 DEF Troubled
<1>2. ASSUME NEW a \in Accounts, Due(a)', trouble' = 0, j.by \in Listers PROVE ~Short(j, a)
  <2>1. Due(a)
    BY <1>2 DEF Due
  <2>2. CalmIsWide(a) /\ trouble = 0
    BY <1>1, <1>2, <2>1 DEF WipeInv, Sheltered
  <2> QED  BY <1>2, <2>2 DEF Left, CalmIsWide, Short
<1> QED  BY <1>1, <1>2, PastIsListing DEF Tame, Left, RowsLeft

LEMMA LeftOfSteps ==
  ASSUME InventoryInv, WipeInv, NEW w \in Workers, NEW step, Does(w, step)
  PROVE  /\ Left(w, Next1(job[w])) /\ Left(w, Free)
         /\ Left(w, [job[w] EXCEPT !.todo = <<"fail">>]) /\ Left(w, [job[w] EXCEPT !.todo = <<"arm">>])
         /\ \A s : Left(w, [Next1(job[w]) EXCEPT !.heard = s]) /\ Left(w, [Next1(job[w]) EXCEPT !.kept = s])
         /\ \A s, t : Left(w, [Next1(job[w]) EXCEPT !.old = s, !.oldShown = t])
<1>1. job[w] \in JobType
  BY DEF InventoryInv, JobsOK
<1>2. /\ Past([job[w] EXCEPT !.todo = <<"fail">>])
      /\ Past([job[w] EXCEPT !.todo = <<"arm">>])
  BY <1>1 DEF Past, JobType
<1>3. \A i \in DOMAIN Tail(job[w].todo) : Tail(job[w].todo)[i] # "discover"
  BY TailIsPast
<1> DEFINE rest == Tail(job[w].todo)
           n == [job[w] EXCEPT !.todo = rest]
<1> HIDE DEF rest
<1>4. /\ n.todo = rest /\ n.found = job[w].found /\ n.by = job[w].by /\ n.regions = job[w].regions
      /\ n.accounts = job[w].accounts
      /\ DOMAIN n = DOMAIN job[w]
  BY <1>1 DEF JobType
<1>5. Next1(job[w]) = n
  BY DEF Next1, rest
<1>6. \A i \in DOMAIN rest : rest[i] # "discover"
  BY <1>3 DEF rest
<1> HIDE DEF n
<1>7. Left(w, n)
  BY <1>4, <1>6 DEF Left, Past
<1>8. ASSUME NEW s PROVE Left(w, [n EXCEPT !.heard = s]) /\ Left(w, [n EXCEPT !.kept = s])
  BY <1>1, <1>4, <1>6 DEF Left, Past, JobType
<1>9. ASSUME NEW s, NEW t PROVE Left(w, [n EXCEPT !.old = s, !.oldShown = t])
  BY <1>1, <1>4, <1>6 DEF Left, Past, JobType
<1>10. Left(w, Free)
  BY FreeIsPast DEF Left
<1>11. Left(w, [job[w] EXCEPT !.todo = <<"fail">>]) /\ Left(w, [job[w] EXCEPT !.todo = <<"arm">>])
  BY <1>1, <1>2 DEF Left, JobType
<1> QED  BY <1>5, <1>7, <1>8, <1>9, <1>10, <1>11

LEMMA RowsStayIsLeft == ASSUME NEW w, UNCHANGED rows PROVE RowsLeft(w)
  BY DEF RowsLeft

(* No row that is written is missing.                                          *)
LEMMA RowsWritten ==
  ASSUME InventoryInv, NEW w \in Workers, PutRows(w) \/ DropRows(w) \/ MarkRow(w)
  PROVE  RowsLeft(w)
<1> SUFFICES ASSUME NEW r \in Resources, rows'[r] = NoRow, rows[r] # NoRow
             PROVE  r \notin job[w].found /\ \E f \in job[w].found : AccountOf[f] = AccountOf[r]
  BY DEF RowsLeft
<1>1. job[w].kept[r] # "no row" /\ rows[r] \in RowType
  BY DEF InventoryInv, JobsOK, JobType, TablesOK
<1>2. CASE PutRows(w)
  <2>1. RowOf(w, r) # NoRow
    BY <1>1 DEF RowOf, NoRow
  <2>2. rows'[r] \in {RowOf(w, r), rows[r]}
    BY <1>2 DEF PutRows
  <2> QED  BY <2>1, <2>2
<1>3. CASE DropRows(w)
  <2>1. r \in Stale(w)
    BY <1>3 DEF DropRows
  <2> QED  BY <2>1 DEF Stale
<1>4. CASE MarkRow(w)
  <2>1. rows[r].alarm # "no row"
    BY <1>1 DEF RowType, NoRow
  <2>2. rows'[r] = rows[r] \/ \E b \in BOOLEAN : rows'[r] = [on |-> b, alarm |-> rows[r].alarm]
    BY <1>4 DEF MarkRow
  <2>3. NoRow.alarm = "no row"
    BY DEF NoRow
  <2>4. PICK b \in BOOLEAN : NoRow = [on |-> b, alarm |-> rows[r].alarm]
    BY <2>2
  <2>5. NoRow.alarm = rows[r].alarm
    BY <2>4
  <2> QED  BY <2>1, <2>3, <2>5
<1> QED  BY <1>2, <1>3, <1>4

LEMMA WorkTame ==
  ASSUME InventoryInv, WipeInv, NEW w \in Workers, Works(w), ~Discover(w)
  PROVE  \E j : Tame(w, j)
<1> DEFINE Moves(j) == (Goes(w, j) /\ UNCHANGED trouble) \/ Troubled(w, j)
<1>0. ASSUME NEW j, Left(w, j), Moves(j), RowsLeft(w), UNCHANGED live PROVE \E k : Tame(w, k)
  <2>1. UNCHANGED misscoped
    BY DEF Works, Discover, DiscoverAborts, FetchAlarms, ReadRollups, PutRows, QueryRows, DropRows,
          PutShown, DropShown, Arm, DropOrphans, Done, SetTag, MarkRow, ApplyAlarm, ShowAlarm, Kept
  <2> QED  BY <1>0, <2>1, LeftIsTame
<1>1. CASE DiscoverAborts(w)
  <2>1. Does(w, "discover") /\ UNCHANGED <<rows, live>>
    BY <1>1 DEF DiscoverAborts, Cloud, Tables
  <2>2. \/ Moves([job[w] EXCEPT !.todo = <<"fail">>])
        \/ Moves([job[w] EXCEPT !.todo = <<"arm">>])
    BY <1>1 DEF DiscoverAborts
  <2> QED  BY <1>0, <2>1, <2>2, LeftOfSteps, RowsStayIsLeft
<1>2. CASE FetchAlarms(w)
  <2>1. Does(w, "fetch") /\ UNCHANGED <<rows, live>>
    BY <1>2 DEF FetchAlarms, Cloud, Tables
  <2>2. \/ \E s : Moves([Next1(job[w]) EXCEPT !.heard = s])
        \/ Moves([job[w] EXCEPT !.todo = <<"fail">>])
    BY <1>2 DEF FetchAlarms
  <2> QED  BY <1>0, <2>1, <2>2, LeftOfSteps, RowsStayIsLeft
<1>3. CASE ReadRollups(w) \/ QueryRows(w)
  <2>1. PICK step : Does(w, step) /\ UNCHANGED <<rows, live>>
    BY <1>3 DEF ReadRollups, QueryRows, Cloud, Tables
  <2>2. \/ Moves(Next1(job[w])) \/ \E s : Moves([Next1(job[w]) EXCEPT !.kept = s])
        \/ \E s, t : Moves([Next1(job[w]) EXCEPT !.old = s, !.oldShown = t])
    BY <1>3 DEF ReadRollups, QueryRows
  <2> QED  BY <1>0, <2>1, <2>2, LeftOfSteps, RowsStayIsLeft
<1>4. CASE PutRows(w) \/ DropRows(w)
  <2>1. PICK step : Does(w, step) /\ UNCHANGED live
    BY <1>4 DEF PutRows, DropRows, Cloud
  <2>2. Moves(Next1(job[w]))
    BY <1>4 DEF PutRows, DropRows
  <2> QED  BY <1>0, <1>4, <2>1, <2>2, LeftOfSteps, RowsWritten
<1>5. CASE PutShown(w) \/ DropShown(w) \/ ShowAlarm(w)
  <2>1. PICK step : Does(w, step) /\ UNCHANGED <<rows, live>>
    BY <1>5 DEF PutShown, DropShown, ShowAlarm, Cloud
  <2>2. Moves(Next1(job[w]))
    BY <1>5 DEF PutShown, DropShown, ShowAlarm
  <2> QED  BY <1>0, <2>1, <2>2, LeftOfSteps, RowsStayIsLeft
<1>6. CASE Arm(w) \/ DropOrphans(w)
  <2>1. PICK step : Does(w, step) /\ UNCHANGED <<rows, live>>
    BY <1>6 DEF Arm, DropOrphans, Tables
  <2>2. Moves(Next1(job[w]))
    BY <1>6 DEF Arm, DropOrphans
  <2> QED  BY <1>0, <2>1, <2>2, LeftOfSteps, RowsStayIsLeft
<1>7. CASE Done(w)
  <2>1. Moves(Free) /\ UNCHANGED <<rows, live>>
    BY <1>7 DEF Done, Cloud, Tables
  <2>2. Left(w, Free)
    BY FreeIsPast DEF Left
  <2> QED  BY <1>0, <2>1, <2>2, RowsStayIsLeft
<1>8. CASE SetTag(w) \/ ApplyAlarm(w)
  <2>1. PICK step : Does(w, step) /\ UNCHANGED <<rows, live>>
    BY <1>8 DEF SetTag, ApplyAlarm, Tables
  <2>2. Moves(Next1(job[w])) \/ Moves(Free) \/ \E s : Moves([Next1(job[w]) EXCEPT !.heard = s])
    BY <1>8 DEF SetTag, ApplyAlarm
  <2> QED  BY <1>0, <2>1, <2>2, LeftOfSteps, RowsStayIsLeft
<1>9. CASE MarkRow(w)
  <2>1. Does(w, "mark") /\ UNCHANGED live
    BY <1>9 DEF MarkRow, Cloud
  <2>2. Moves(Next1(job[w])) \/ Moves(Free)
    BY <1>9 DEF MarkRow
  <2> QED  BY <1>0, <1>9, <2>1, <2>2, LeftOfSteps, RowsWritten
<1> QED  BY <1>1, <1>2, <1>3, <1>4, <1>5, <1>6, <1>7, <1>8, <1>9 DEF Works
--------------------------------------------------------------------------------
(* Where all was well, one listing that misses something leaves a safe row:    *)
(* any of those it found.                                                      *)
LEMMA OneGapIsSafe ==
  ASSUME NoneEmpty, InventoryInv, NEW a \in Accounts, Pristine(a), NEW w \in Workers, NEW j, Goes(w, j),
         UNCHANGED <<rows, live>>
  PROVE  SomeSafe(a)'
<1>1. job'[w] = j /\ \A v \in Workers : v # w => job'[v] = job[v]
  BY DEF Goes, InventoryInv, JobsOK
<1> SUFFICES ASSUME Whole(a) PROVE \E r \in Of(a) : Safe(a, r)'
  BY DEF SomeSafe, Whole
<1>2. (\A r \in Of(a) : rows'[r] # NoRow) /\ \A v \in Workers : Complete(v, a)
  BY DEF Pristine
<1>3. PICK r \in Of(a) : j.found \cap Of(a) # {} => r \in j.found
  BY DEF NoneEmpty, Of
<1>4. ASSUME NEW v \in Workers, job'[v].found \cap Of(a) # {} PROVE r \in job'[v].found
  BY <1>1, <1>2, <1>3, <1>4 DEF Complete
<1>5. Safe(a, r)'
  BY <1>2, <1>4 DEF Safe
<1> QED  BY <1>5

LEMMA ListedTogether ==
  ASSUME NEW accounts, NEW regions, NEW a \in accounts
  PROVE  Listed({a}, regions) \subseteq Listed(accounts, regions)
  BY DEF Listed, Regional, Globals, Covers, InAccounts

LEMMA ListedElsewhere ==
  ASSUME NEW a \in Accounts, NEW accounts, NEW regions, a \notin accounts
  PROVE  Listed(accounts, regions) \cap Of(a) = {}
  BY DEF Listed, Regional, Globals, Covers, InAccounts, Of

LEMMA DiscoverTame ==
  ASSUME OneFailure, NoneEmpty, InventoryInv, InventoryInv', WipeInv, NEW w \in Workers, Discover(w)
  PROVE  WipeInv'
<1>1. /\ Does(w, "discover") /\ UNCHANGED <<rows, live, misscoped>>
      /\ job[w] \in JobType /\ trouble \in Nat
  BY InventoryAssumption DEF Discover, Cloud, Tables, Kept, InventoryInv, JobsOK, CountsOK
<1>2. PICK missed, untagged :
        \/ missed = {} /\ Goes(w, Found(w, missed, untagged)) /\ UNCHANGED trouble
        \/ Troubled(w, Found(w, missed, untagged))
  BY DEF Discover
<1> DEFINE found == (Listed(job[w].accounts, job[w].regions) \cap live) \ missed
           rest == Tail(job[w].todo)
           j == [job[w] EXCEPT !.found = found, !.untagged = (live \ on) \cup untagged, !.todo = rest]
<1>3. Found(w, missed, untagged) = j
  BY DEF Found
<1>4. \A i \in DOMAIN rest : rest[i] # "discover"
  BY <1>1, TailIsPast
<1> HIDE DEF found, rest
<1>5. /\ j.found = found /\ j.todo = rest /\ j.by = job[w].by
      /\ j.regions = job[w].regions /\ j.accounts = job[w].accounts
  BY <1>1 DEF JobType
<1> HIDE DEF j
<1>6. Past(j)
  BY <1>4, <1>5 DEF Past
<1>7. Goes(w, j) /\ (trouble' = trouble \/ (trouble = 0 /\ trouble' = 1))
  <2>1. CASE Goes(w, j) /\ UNCHANGED trouble
    BY <2>1
  <2>2. CASE Troubled(w, j)
    <3>1. trouble < MaxTrouble /\ trouble' = trouble + 1 /\ Goes(w, j)
      BY <2>2 DEF Troubled
    <3>2. MaxTrouble \in Nat /\ MaxTrouble <= 1
      BY InventoryAssumption DEF OneFailure
    <3> QED  BY <1>1, <3>1, <3>2
  <2> QED  BY <1>2, <1>3, <2>1, <2>2
<1>8. job'[w] = j /\ \A v \in Workers : v # w => job'[v] = job[v]
  BY <1>7 DEF Goes, InventoryInv, JobsOK
<1>9. ListsFirst'
  BY <1>6, <1>8, PastIsListing DEF ListsFirst, WipeInv
<1> SUFFICES ASSUME NEW a \in Accounts, Due(a)' PROVE Sheltered(a)'
  BY <1>9 DEF WipeInv
<1>0. Due(a) /\ CalmIsWide(a) /\ OneNarrow(a) /\ Untouched(a) /\ SomeSafe(a)
  BY <1>1 DEF Due, WipeInv, Sheltered
<1>10. CalmIsWide(a)'
  BY <1>0, <1>5, <1>7, <1>8 DEF CalmIsWide, Short
<1>11. \A v \in Workers : Narrow(v, a)' => v # w /\ Narrow(v, a)
  <2> SUFFICES ASSUME NEW v \in Workers, Narrow(v, a)' PROVE v # w /\ Narrow(v, a)
    OBVIOUS
  <2>1. v # w
    <3> SUFFICES ASSUME v = w PROVE FALSE
      OBVIOUS
    <3>1. j.todo \in Seq(StepNames) /\ j.todo # <<>> /\ Head(j.todo) = "discover"
      BY <1>8 DEF Narrow, Does, InventoryInv, JobsOK, JobType
    <3>2. 1 \in DOMAIN j.todo /\ j.todo[1] = "discover"
      BY <3>1
    <3> QED  BY <1>6, <3>2 DEF Past
  <2> QED  BY <1>8, <2>1 DEF Narrow, Does, Short
<1>12. OneNarrow(a)'
  BY <1>0, <1>11 DEF OneNarrow
<1>13. CASE Narrow(w, a) \/ trouble' # trouble
  <2>1. Pristine(a)
    BY <1>0, <1>7, <1>13 DEF Untouched
  <2>2. trouble' # 0
    BY <1>0, <1>7, <1>13, CalmNoNarrow
  <2>3. \A v \in Workers : ~Narrow(v, a)'
    <3>1. CASE Narrow(w, a)
      BY <1>0, <1>11, <3>1 DEF OneNarrow
    <3>2. CASE trouble = 0
      BY <1>0, <1>11, <3>2, CalmNoNarrow
    <3> QED  BY <1>7, <1>13, <3>1, <3>2
  <2>4. Untouched(a)'
    BY <2>2, <2>3 DEF Untouched
  <2>5. SomeSafe(a)'
    BY <1>1, <1>7, <2>1, OneGapIsSafe
  <2> QED  BY <1>10, <1>12, <2>4, <2>5 DEF Sheltered
<1>14. CASE ~Narrow(w, a) /\ trouble' = trouble
  <2>1. missed = {} /\ ~Short(job[w], a)
    BY <1>1, <1>2, <1>14 DEF Narrow, Troubled
  <2>2. ASSUME Whole(a) PROVE found \cap Of(a) = {} \/ Of(a) \subseteq found
    <3>1. CASE a \in job[w].accounts
      BY <2>1, <2>2, <3>1, ListedTogether DEF found, Whole, Short
    <3>2. CASE a \notin job[w].accounts
      BY <3>2, ListedElsewhere DEF found
    <3> QED  BY <3>1, <3>2
  <2>3. ASSUME Whole(a) PROVE Complete(w, a)'
    BY <1>5, <1>8, <2>2, <2>3 DEF Complete
  <2>4. Untouched(a)'
    <3> SUFFICES ASSUME trouble' = 0 \/ \E v \in Workers : Narrow(v, a)' PROVE Pristine(a)'
      BY DEF Untouched
    <3>1. Pristine(a)
      BY <1>0, <1>11, <1>14 DEF Untouched
    <3> SUFFICES ASSUME Whole(a)
                 PROVE (\A r \in Of(a) : rows'[r] # NoRow) /\ \A v \in Workers : Complete(v, a)'
      BY <1>1 DEF Pristine, Whole
    <3>2. (\A r \in Of(a) : rows'[r] # NoRow) /\ \A v \in Workers : Complete(v, a)
      BY <1>1, <3>1 DEF Pristine
    <3>3. \A v \in Workers : Complete(v, a)'
      BY <1>8, <2>3, <3>2 DEF Complete
    <3> QED  BY <3>2, <3>3
  <2>5. SomeSafe(a)'
    <3> SUFFICES ASSUME Whole(a) PROVE \E r \in Of(a) : Safe(a, r)'
      BY <1>1 DEF SomeSafe, Whole
    <3>1. PICK r \in Of(a) : Safe(a, r)
      BY <1>0 DEF SomeSafe
    <3>2. j.found \cap Of(a) # {} => r \in j.found
      BY <1>5, <2>2
    <3>3. \A v \in Workers : job'[v].found \cap Of(a) # {} => r \in job'[v].found
      BY <1>8, <3>1, <3>2 DEF Safe
    <3> QED  BY <1>1, <3>1, <3>3 DEF Safe
  <2> QED  BY <1>10, <1>12, <2>4, <2>5 DEF Sheltered
<1> QED  BY <1>13, <1>14
--------------------------------------------------------------------------------
LEMMA RunsListFirst == \A i \in DOMAIN RunSteps : RunSteps[i] = "discover" => i = 1
<1>1. DOMAIN RunSteps = 1..8
  BY DEF RunSteps
<1>2. /\ RunSteps[1] = "discover" /\ RunSteps[2] = "fetch" /\ RunSteps[3] = "put rows"
      /\ RunSteps[4] = "query" /\ RunSteps[5] = "drop rows" /\ RunSteps[6] = "put alarms"
      /\ RunSteps[7] = "drop alarms" /\ RunSteps[8] = "arm"
  BY DEF RunSteps
<1>3. ASSUME NEW i \in 1..8 PROVE RunSteps[i] = "discover" => i = 1
  <2>1. i \in {1, 2, 3, 4, 5, 6, 7, 8}
    BY <1>3
  <2> QED  BY <1>2, <2>1
<1> QED  BY <1>1, <1>3

LEMMA ResourceJobsListFirst == \A i \in DOMAIN ResourceSteps : ResourceSteps[i] = "discover" => i = 1
<1>1. DOMAIN ResourceSteps = 1..5
  BY DEF ResourceSteps
<1>2. /\ ResourceSteps[1] = "discover" /\ ResourceSteps[2] = "rollups" /\ ResourceSteps[3] = "put rows"
      /\ ResourceSteps[4] = "query" /\ ResourceSteps[5] = "drop rows"
  BY DEF ResourceSteps
<1>3. ASSUME NEW i \in 1..5 PROVE ResourceSteps[i] = "discover" => i = 1
  <2>1. i \in {1, 2, 3, 4, 5}
    BY <1>3
  <2> QED  BY <1>2, <2>1
<1> QED  BY <1>1, <1>3

LEMMA AlarmJobsDoNotList == \A i \in DOMAIN AlarmSteps : AlarmSteps[i] # "discover"
<1>1. DOMAIN AlarmSteps = 1..5
  BY DEF AlarmSteps
<1>2. /\ AlarmSteps[1] = "orphans" /\ AlarmSteps[2] = "fetch" /\ AlarmSteps[3] = "put alarms"
      /\ AlarmSteps[4] = "query" /\ AlarmSteps[5] = "drop alarms"
  BY DEF AlarmSteps
<1>3. ASSUME NEW i \in 1..5 PROVE AlarmSteps[i] # "discover"
  <2>1. i \in {1, 2, 3, 4, 5}
    BY <1>3
  <2> QED  BY <1>2, <2>1
<1> QED  BY <1>1, <1>3

(* A job that is started has listed nothing, and lists first if at all.        *)
LEMMA StartsListing ==
  ASSUME NEW j, j.todo \in {RunSteps, AlarmSteps, ResourceSteps, <<"tag", "mark", "alarm", "show">>},
         j.todo \in {RunSteps, ResourceSteps} => j.by \in Listers
  PROVE  Listing(j) /\ (j.todo \notin {RunSteps, ResourceSteps} => Past(j))
<1> DEFINE toggling == <<"tag", "mark", "alarm", "show">>
<1>4. \A i \in DOMAIN toggling : toggling[i] # "discover"
  OBVIOUS
<1> HIDE DEF toggling
<1>5. j.todo \in {RunSteps, AlarmSteps, ResourceSteps, toggling}
  BY DEF toggling
<1> QED
  BY RunsListFirst, ResourceJobsListFirst, AlarmJobsDoNotList, <1>4, <1>5 DEF Listing, Past

(* A list of the regions in its record is not short of an account that is due. *)
LEMMA RecordIsWide ==
  ASSUME NEW a \in Accounts, Due(a)', NEW j, j.accounts = {a}, j.regions = Registered[a]
  PROVE  ~Short(j, a)
  BY DEF Due, Short, Listable

(* The only start that lists too little of an account that stays due is the    *)
(* first trouble there is.                                                     *)
LEMMA StartTame ==
  ASSUME OneFailure, InventoryInv, WipeInv, NEW w \in Workers,
         \/ \E a \in Accounts : StartRun(w, a)
         \/ StartSync(w)
         \/ \E r \in Resources, v \in BOOLEAN : Toggle(w, r, v)
         \/ Die(w)
  PROVE  \E j : Tame(w, j)
<1>0. trouble \in Nat /\ MaxTrouble \in Nat /\ MaxTrouble <= 1
  BY InventoryAssumption DEF InventoryInv, CountsOK, OneFailure
<1>9. Free \in JobType /\ Free.found = {}
  BY FreeType, FreeIsPast
<1>1. CASE \E a \in Accounts : StartRun(w, a)
  <2>0. PICK a \in Accounts : StartRun(w, a)
    BY <1>1
  <2>1. PICK regions \in {Registered[a], DefaultRegions} :
          LET j == [Free EXCEPT !.by = "run", !.todo = RunSteps, !.accounts = {a}, !.regions = regions] IN
          (regions = Registered[a] /\ Goes(w, j) /\ UNCHANGED trouble) \/ Troubled(w, j)
    BY <2>0 DEF StartRun
  <2> DEFINE j == [Free EXCEPT !.by = "run", !.todo = RunSteps, !.accounts = {a}, !.regions = regions]
  <2>2. j.by = "run" /\ j.todo = RunSteps /\ j.found = {} /\ j.regions = regions /\ j.accounts = {a}
    BY <1>9 DEF JobType
  <2>3. (regions = Registered[a] /\ Goes(w, j) /\ UNCHANGED trouble) \/ Troubled(w, j)
    BY <2>1
  <2> HIDE DEF j
  <2>4. Listing(j)
    BY <2>2, StartsListing DEF Listers
  <2>5. UNCHANGED <<rows, live, misscoped>>
    BY <1>1 DEF StartRun, Cloud, Tables, Kept
  <2>6. CASE regions = Registered[a] /\ Goes(w, j) /\ UNCHANGED trouble
    <3>1. ASSUME NEW b \in Accounts, Due(b)' PROVE ~Short(j, b)
      <4>1. CASE b = a
        BY <2>2, <2>6, <3>1, <4>1, RecordIsWide
      <4>2. CASE b # a
        BY <2>2, <4>2 DEF Short
      <4> QED  BY <4>1, <4>2
    <3> QED  BY <2>2, <2>4, <2>5, <2>6, <3>1 DEF Tame
  <2>7. CASE Troubled(w, j)
    <3>1. Goes(w, j) /\ trouble = 0 /\ trouble' # 0
      BY <1>0, <2>7 DEF Troubled
    <3> QED  BY <2>2, <2>4, <2>5, <3>1 DEF Tame
  <2> QED  BY <2>3, <2>6, <2>7
<1>2. CASE StartSync(w)
  <2>1. PICK i \in DOMAIN status, by \in {"alarms", "resources"}, s \in (SUBSET Accounts) \ {{}},
             regions \in Scopes :
          /\ status[i] = "pending"
          /\ status' = [status EXCEPT ![i] = "in_progress"]
          /\ Goes(w, [Free EXCEPT !.by = by, !.id = i, !.accounts = s, !.regions = regions,
                           !.todo = IF by = "alarms" THEN AlarmSteps ELSE ResourceSteps])
          /\ misscoped' = misscoped \cup
               IF by = "resources" THEN {a \in s : TooNarrow(a, regions)} ELSE {}
    BY <1>2, Zenon DEF StartSync
  <2> DEFINE todo == IF by = "alarms" THEN AlarmSteps ELSE ResourceSteps
             j == [Free EXCEPT !.by = by, !.id = i, !.accounts = s, !.regions = regions, !.todo = todo]
  <2>2. Goes(w, j)
    BY <2>1
  <2>3. todo \in {AlarmSteps, ResourceSteps} /\ (todo # AlarmSteps => by = "resources")
    OBVIOUS
  <2> HIDE DEF todo
  <2>4. j.by = by /\ j.todo = todo /\ j.found = {} /\ j.regions = regions /\ j.accounts = s
    BY <1>9 DEF JobType
  <2> HIDE DEF j
  <2>5. UNCHANGED <<rows, live, trouble>> /\ misscoped \subseteq misscoped'
    BY <1>2, <2>1 DEF StartSync, Cloud, Tables
  <2>6. AlarmSteps \notin {RunSteps, ResourceSteps}
    BY DEF AlarmSteps, RunSteps, ResourceSteps
  <2>7. Listing(j) /\ (by = "alarms" => Past(j))
    <3>1. by = "alarms" => todo = AlarmSteps
      BY DEF todo
    <3>2. j.todo \in {RunSteps, ResourceSteps} => j.by \in Listers
      BY <2>3, <2>4, <2>6 DEF Listers
    <3> QED  BY <2>3, <2>4, <2>6, <3>1, <3>2, StartsListing
  <2>8. ASSUME by = "resources", NEW a \in Accounts, Due(a)' PROVE ~Short(j, a)
    <3> SUFFICES ASSUME a \in s PROVE Of(a) \subseteq Listed({a}, regions)
      BY <2>4 DEF Short
    <3>1. ~TooNarrow(a, regions) /\ Of(a) \subseteq Listable(a)
      BY <2>1, <2>8 DEF Due
    <3> QED  BY <3>1 DEF TooNarrow
  <2> QED  BY <2>2, <2>4, <2>5, <2>7, <2>8 DEF Tame, Listers
<1>3. CASE \E r \in Resources, v \in BOOLEAN : Toggle(w, r, v)
  <2>1. PICK r \in Resources, v \in BOOLEAN : Toggle(w, r, v)
    BY <1>3
  <2> DEFINE by == IF v THEN "on" ELSE "off"
             todo == <<"tag", "mark", "alarm", "show">>
             j == [Free EXCEPT !.by = by, !.target = {r}, !.todo = todo]
  <2>2. Goes(w, j) /\ UNCHANGED <<rows, live, trouble, misscoped>>
    BY <2>1 DEF Toggle, Cloud, Tables
  <2>3. by \notin Listers /\ todo \notin {RunSteps, ResourceSteps}
    BY DEF Listers, RunSteps, ResourceSteps
  <2> HIDE DEF by
  <2>4. j.by = by /\ j.todo = todo /\ j.found = {}
    BY <1>9 DEF JobType
  <2> HIDE DEF j
  <2>5. Listing(j) /\ Past(j)
    BY <2>3, <2>4, StartsListing
  <2> QED  BY <2>2, <2>3, <2>4, <2>5 DEF Tame
<1>4. CASE Die(w)
  <2> DEFINE by == job[w].by
             todo == CASE by = "run" -> RunSteps [] by = "alarms" -> AlarmSteps
                       [] by = "resources" -> ResourceSteps
             j == [Free EXCEPT !.by = by, !.id = job[w].id, !.accounts = job[w].accounts,
                               !.regions = job[w].regions, !.todo = todo]
  <2>1. Troubled(w, j) /\ UNCHANGED <<rows, live, misscoped>> /\ by \in {"run", "alarms", "resources"}
    BY <1>4 DEF Die, Cloud, Tables, Kept
  <2>2. /\ todo \in {RunSteps, AlarmSteps, ResourceSteps}
        /\ todo \in {RunSteps, ResourceSteps} => by \in Listers
    <3>1. AlarmSteps \notin {RunSteps, ResourceSteps}
      BY DEF AlarmSteps, RunSteps, ResourceSteps
    <3> QED  BY <2>1, <3>1 DEF Listers
  <2> HIDE DEF todo, by
  <2>3. j.by = by /\ j.todo = todo /\ j.found = {}
    BY <1>9 DEF JobType
  <2> HIDE DEF j
  <2>4. Listing(j)
    BY <2>2, <2>3, StartsListing
  <2>5. Goes(w, j) /\ trouble = 0 /\ trouble' # 0
    BY <1>0, <2>1 DEF Troubled
  <2> QED  BY <2>1, <2>3, <2>4, <2>5 DEF Tame
<1> QED  BY <1>1, <1>2, <1>3, <1>4

LEMMA WorldWiped ==
  ASSUME InventoryInv, WipeInv, World \/ RequestSync \/ UNCHANGED vars
  PROVE  WipeInv'
<1>1. /\ UNCHANGED <<rows, job, misscoped>> /\ (trouble' = 0 => trouble = 0)
      /\ \A a \in Accounts : Whole(a)' => Whole(a)
  BY InventoryAssumption DEF World, RequestSync, vars, Cloud, Tables, Whole, InventoryInv, CountsOK
<1>2. ListsFirst'
  BY <1>1 DEF WipeInv, ListsFirst
<1> SUFFICES ASSUME NEW a \in Accounts, Due(a)' PROVE Sheltered(a)'
  BY <1>2 DEF WipeInv
<1>0. CalmIsWide(a) /\ OneNarrow(a) /\ Untouched(a) /\ SomeSafe(a)
  BY <1>1 DEF Due, WipeInv, Sheltered
<1>3. CalmIsWide(a)'
  BY <1>0, <1>1 DEF CalmIsWide
<1>4. \A w \in Workers : Narrow(w, a)' <=> Narrow(w, a)
  BY <1>1 DEF Narrow, Does
<1>5. OneNarrow(a)'
  BY <1>0, <1>4 DEF OneNarrow
<1>6. Untouched(a)'
  BY <1>0, <1>1, <1>4 DEF Untouched, Pristine, Complete
<1>7. SomeSafe(a)'
  BY <1>0, <1>1 DEF SomeSafe, Safe
<1> QED  BY <1>3, <1>5, <1>6, <1>7 DEF Sheltered

LEMMA NextWiped ==
  ASSUME OneFailure, NoneEmpty, InventoryInv, InventoryInv', WipeInv, [Next]_vars
  PROVE  WipeInv'
<1>1. CASE World \/ RequestSync \/ UNCHANGED vars
  BY <1>1, WorldWiped
<1>2. CASE \E w \in Workers : Works(w)
  BY <1>2, DiscoverTame, WorkTame, TameKeeps
<1>3. CASE \E w \in Workers : \/ \E a \in Accounts : StartRun(w, a)
                              \/ StartSync(w) \/ Die(w)
                              \/ \E r \in Resources, v \in BOOLEAN : Toggle(w, r, v)
  BY <1>3, StartTame, TameKeeps
<1> QED  BY <1>1, <1>2, <1>3, InventoryAssumption DEF Next

(* One failure empties no account of which nothing was deleted and whose       *)
(* resources are where its record says, whatever jobs, runs and toggles        *)
(* overlap and whatever regions the jobs of other accounts were given: a row   *)
(* of it is there (resource_discovery.cleanup_stale_inventory).  An account of *)
(* which a job listed fewer regions is not spoken of: one failure more, then,  *)
(* takes what rows are left, and so do two failures of any account.            *)
THEOREM NotWipedAlways ==
  ASSUME OneFailure, NoneEmpty
  PROVE  Spec => []NotWiped
<1>1. Init => WipeInv
  BY InitWiped
<1>2. InventoryInv /\ InventoryInv' /\ WipeInv /\ [Next]_vars => WipeInv'
  BY NextWiped
<1>3. WipeInv => NotWiped
  <2> SUFFICES ASSUME WipeInv, NEW a \in Accounts \ misscoped, Of(a) \subseteq live \cap Listable(a)
               PROVE  \E r \in Of(a) : rows[r] # NoRow
    BY DEF NotWiped, Of
  <2>1. Due(a) /\ Whole(a)
    BY DEF Due, Whole
  <2> QED  BY <2>1 DEF WipeInv, Sheltered, SomeSafe, Safe
<1> QED  BY <1>1, <1>2, <1>3, InventoryInvariant, PTL DEF Spec
================================================================================
