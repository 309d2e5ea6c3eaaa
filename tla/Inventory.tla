-------------------------------- MODULE Inventory ------------------------------
(* The inventory table: a row of each resource and a row of each alarm, which  *)
(* is all the dashboard shows.  The daily and hourly runs                      *)
(* (backend/daily_monitor/lambda_handler.py), the two jobs a person starts     *)
(* (api_handler/routes/sync.py) and the monitoring toggle                      *)
(* (api_handler/routes/resources.py) write it from what they listed before,    *)
(* and no write is conditional.                                                *)
EXTENDS Naturals, Sequences, FiniteSets

CONSTANTS
  Resources, Accounts, Regions,
  AccountOf, RegionOf,   \* where a resource is
  Home,                  \* the account the engine itself runs in
  Registered,            \* the regions in an account's record
  DefaultRegions,        \* those of an account whose record is not found
  East,                  \* the region every run passes (_ALWAYS_REGION)
  Scopes,                \* the sets of regions a person gives a job
  Global,                \* resources listed once per account, whatever its regions
  Lenient,               \* resources whose unreadable tags count as none
  Lazy,                  \* those of kinds whose pages are read outside of the try
  Workers, Runner,       \* Runner makes the periodic runs
  MaxTrouble, MaxChanges, MaxCalls

ASSUME InventoryAssumption ==
  /\ AccountOf \in [Resources -> Accounts] /\ RegionOf \in [Resources -> Regions]
  /\ Home \in Accounts /\ DefaultRegions \subseteq Regions /\ {Global, Lenient, Lazy} \subseteq SUBSET Resources
  /\ Registered \in [Accounts -> SUBSET Regions] /\ East \in Regions
  /\ Scopes \subseteq SUBSET Regions /\ Runner \in Workers
  /\ {MaxTrouble, MaxChanges, MaxCalls} \subseteq Nat

VARIABLES
  live,      \* resources that exist
  on,        \* those tagged Monitoring=on
  armed,     \* those that have an alarm in CloudWatch
  rows,      \* the resource rows
  shown,     \* resources that have an alarm row
  status,    \* of the jobs a person started
  job, trouble, changes,
  misscoped  \* (auxiliary) accounts that were listed by a job given too few regions

vars == <<live, on, armed, rows, shown, status, job, trouble, changes, misscoped>>

NoRow == [on |-> FALSE, alarm |-> "no row"]

(* `alarm` is the row's roll-up of the alarms, unknown when it was never set.  *)
RowType == [on : BOOLEAN, alarm : {"unknown", "none", "some"}] \cup {NoRow}

InAccounts(s) == {r \in Resources : AccountOf[r] \in s}
Covers(accounts, regions) == {r \in InAccounts(accounts) : RegionOf[r] \in regions}

(* _discover_all_accounts lists each region of an account with a session of    *)
(* its own, and then the buckets, distributions and health checks of the       *)
(* account once more with that of its first region.                            *)
Globals(accounts) == InAccounts(accounts) \cap Global
Regional(accounts, regions) == Covers(accounts, regions) \ Global
Listed(accounts, regions) == Regional(accounts, regions) \cup Globals(accounts)

(* What the record of an account lets a run list, and whose alarms it hears    *)
(* of: those of a global resource are in East, whatever region listed it.      *)
Listable(a) == Listed({a}, Registered[a])
Audible(r) == RegionOf[r] \in Registered[AccountOf[r]]

(* `found` and `heard` are what was listed, `old` and `oldShown` the rows that *)
(* were there to clean up, `kept` the roll-ups that are kept.                  *)
Free == [by |-> "none", todo |-> <<>>, id |-> 0, accounts |-> {}, regions |-> {}, target |-> {},
         found |-> {}, untagged |-> {}, heard |-> {}, old |-> {}, oldShown |-> {},
         kept |-> [r \in Resources |-> "unknown"]]

TypeOK ==
  /\ live \subseteq Resources /\ on \subseteq Resources
  /\ armed \subseteq Resources /\ shown \subseteq Resources
  /\ rows \in [Resources -> RowType]
  /\ status \in Seq({"pending", "in_progress", "completed", "failed", "unwritten"})
  /\ Len(status) <= MaxCalls /\ trouble \in 0..MaxTrouble /\ changes \in 0..MaxChanges
  /\ misscoped \subseteq Accounts
  /\ \A w \in Workers : DOMAIN job[w] = DOMAIN Free

Init ==
  /\ live = Resources /\ on = Resources /\ armed = Resources
  /\ shown = {r \in Resources : Audible(r)}
  /\ rows = [r \in Resources |-> IF r \in Listable(AccountOf[r])
                                 THEN [on |-> TRUE, alarm |-> IF Audible(r) THEN "some" ELSE "none"]
                                 ELSE NoRow]
  /\ status = <<>> /\ job = [w \in Workers |-> Free] /\ trouble = 0 /\ changes = 0
  /\ misscoped = {}

Does(w, step) == job[w].todo # <<>> /\ Head(job[w].todo) = step
Next1(j) == [j EXCEPT !.todo = Tail(@)]

Goes(w, j) == job' = [job EXCEPT ![w] = j]

Troubled(w, j) ==
  /\ trouble < MaxTrouble
  /\ trouble' = trouble + 1
  /\ Goes(w, j)

Cloud == UNCHANGED <<live, on, armed>>
Tables == UNCHANGED <<rows, shown>>
Kept == UNCHANGED <<status, changes, misscoped>>
--------------------------------------------------------------------------------
(* What a listing misses: what a role that cannot be assumed would show, in    *)
(* one session or in all, or the resources of one kind from the page that      *)
(* failed.                                                                     *)
RoleGaps(w) ==
  UNION {{Listed({a}, job[w].regions), Globals({a})}
           \cup {Regional({a}, {h}) : h \in job[w].regions} : a \in job[w].accounts}

KindGaps(w) == {{r} : r \in Regional(job[w].accounts, job[w].regions)}
GlobalGaps(w) == {{r} : r \in Globals(job[w].accounts)}

(* A kind with a tag call of its own: one that fails is logged, and the        *)
(* resource counts as not monitored.                                           *)
Unread(w) == Lenient \cap Listed(job[w].accounts, job[w].regions)

Found(w, missed, untagged) ==
  [job[w] EXCEPT !.found = (Listed(job[w].accounts, job[w].regions) \cap live) \ missed,
                 !.untagged = (live \ on) \cup untagged, !.todo = Tail(@)]

Discover(w) ==
  /\ Does(w, "discover")
  /\ Cloud /\ Tables /\ Kept
  /\ \/ Goes(w, Found(w, {}, {})) /\ UNCHANGED trouble
     \/ \E gap \in RoleGaps(w) \cup KindGaps(w) \cup GlobalGaps(w) : Troubled(w, Found(w, gap, {}))
     \/ \E r \in Unread(w) : Troubled(w, Found(w, {}, {r}))

(* Some kinds (ECS services, ACM, MQ, SageMaker) ask for their pages in a try  *)
(* and read them after it: the error ends the whole listing.                   *)
MayAbort(w) == Regional(job[w].accounts, job[w].regions) \cap Lazy # {}

DiscoverAborts(w) ==
  /\ Does(w, "discover") /\ MayAbort(w)
  /\ Cloud /\ Tables /\ Kept
  /\ Troubled(w, [job[w] EXCEPT !.todo = IF @[Len(@)] = "arm" THEN <<"arm">> ELSE <<"fail">>])

(* The alarms of a region that cannot be listed are as good as gone.           *)
FetchAlarms(w) ==
  LET covered == Covers(job[w].accounts, job[w].regions)
      heard(s) == [Next1(job[w]) EXCEPT !.heard = s]
  IN /\ Does(w, "fetch")
     /\ Cloud /\ Tables /\ Kept
     /\ \/ Goes(w, heard(armed \cap covered)) /\ UNCHANGED trouble
        \/ \E a \in job[w].accounts, g \in job[w].regions :
             Troubled(w, heard((armed \cap covered) \ Covers({a}, {g})))
        \/ job[w].by = "run" /\ Troubled(w, heard({}))
        \/ job[w].by = "alarms" /\ Troubled(w, [job[w] EXCEPT !.todo = <<"fail">>])
--------------------------------------------------------------------------------
(* _write_resources_to_inventory keeps the roll-ups it reads first.            *)
ReadRollups(w) ==
  /\ Does(w, "rollups")
  /\ Cloud /\ Tables /\ Kept
  /\ \/ /\ Goes(w, [Next1(job[w]) EXCEPT !.kept =
             [r \in Resources |-> IF rows[r] = NoRow THEN "unknown" ELSE rows[r].alarm]])
        /\ UNCHANGED trouble
     \/ Troubled(w, Next1(job[w]))

(* _build_resource_items counts the alarms it heard of.                        *)
RowOf(w, r) ==
  [on |-> r \notin job[w].untagged,
   alarm |-> IF job[w].by = "resources" THEN job[w].kept[r]
             ELSE IF r \in job[w].heard THEN "some" ELSE "none"]

(* A batch that fails has written some of its items.                           *)
PutRows(w) ==
  LET put(s) == rows' = [r \in Resources |-> IF r \in s THEN RowOf(w, r) ELSE rows[r]]
  IN /\ Does(w, "put rows")
     /\ Cloud /\ Kept /\ UNCHANGED shown
     /\ \/ put(job[w].found) /\ Goes(w, Next1(job[w])) /\ UNCHANGED trouble
        \/ \E s \in SUBSET job[w].found : put(s) /\ Troubled(w, Next1(job[w]))

(* query_inventory_by_accounts; a run that cannot read it cleans nothing up.   *)
QueryRows(w) ==
  LET mine == InAccounts(job[w].accounts)
  IN /\ Does(w, "query")
     /\ Cloud /\ Tables /\ Kept
     /\ \/ /\ Goes(w, [Next1(job[w]) EXCEPT
                !.old = {r \in mine : rows[r] # NoRow}, !.oldShown = shown \cap mine])
           /\ UNCHANGED trouble
        \/ Troubled(w, Next1(job[w]))

(* A mutant: an account of which nothing was found is cleaned up too.          *)
StaleOfAll(w) == job[w].old \ job[w].found

(* cleanup_stale_inventory: of an account nothing was found of, all is kept.   *)
Stale(w) ==
  {r \in job[w].old \ job[w].found : \E f \in job[w].found : AccountOf[f] = AccountOf[r]}

DropRows(w) ==
  LET drop(s) == rows' = [r \in Resources |-> IF r \in s THEN NoRow ELSE rows[r]]
  IN /\ Does(w, "drop rows")
     /\ Cloud /\ Kept /\ UNCHANGED shown
     /\ \/ drop(Stale(w)) /\ Goes(w, Next1(job[w])) /\ UNCHANGED trouble
        \/ \E r \in Stale(w) : drop(Stale(w) \ {r}) /\ Troubled(w, Next1(job[w]))

PutShown(w) ==
  /\ Does(w, "put alarms")
  /\ Cloud /\ Kept /\ UNCHANGED rows
  /\ \/ shown' = shown \cup job[w].heard /\ Goes(w, Next1(job[w])) /\ UNCHANGED trouble
     \/ \E s \in SUBSET job[w].heard : shown' = shown \cup s /\ Troubled(w, Next1(job[w]))

(* A mutant: a job cleans up all regions of its accounts, as a run does.       *)
StaleAlarmsAnywhere(w) == job[w].oldShown \ job[w].heard

(* A mutant: a run leaves the alarm rows to the jobs.                          *)
StaleInJobs(w) ==
  (job[w].oldShown \ job[w].heard)
    \cap IF job[w].by = "run" THEN {} ELSE Covers(job[w].accounts, job[w].regions)

(* A run cleans up its account, a job the regions it was given.                *)
StaleAlarms(w) ==
  (job[w].oldShown \ job[w].heard)
    \cap IF job[w].by = "run" THEN Resources ELSE Covers(job[w].accounts, job[w].regions)

DropShown(w) ==
  /\ Does(w, "drop alarms")
  /\ Cloud /\ Kept /\ UNCHANGED rows
  /\ \/ shown' = shown \ StaleAlarms(w) /\ Goes(w, Next1(job[w])) /\ UNCHANGED trouble
     \/ shown' = shown /\ StaleAlarms(w) # {} /\ Troubled(w, Next1(job[w]))
--------------------------------------------------------------------------------
(* The rest of a run: alarms of what is gone or not monitored are deleted, and *)
(* what is monitored has its own, in the regions of _worker_regions.           *)
Visited(w, record) ==
  {r \in InAccounts(job[w].accounts) : RegionOf[r] \in record[AccountOf[r]] \cup {East}}

Arm(w) ==
  LET mine == Visited(w, Registered)
      default == Visited(w, [a \in Accounts |-> DefaultRegions])
      passed(s) == armed' = (armed \ s) \cup (s \cap live \cap on)
  IN /\ Does(w, "arm")
     /\ Tables /\ Kept /\ UNCHANGED <<live, on>>
     /\ \/ passed(mine) /\ Goes(w, Next1(job[w])) /\ UNCHANGED trouble
        \/ passed(default) /\ Troubled(w, Next1(job[w]))
        \/ armed' = armed \cup (mine \cap live \cap on) /\ Troubled(w, Next1(job[w]))
        \/ armed' = armed \ (mine \ (live \cap on)) /\ Troubled(w, Next1(job[w]))

(* An alarm job first deletes what is left over in our own account, in the     *)
(* region the engine runs in.                                                  *)
DropOrphans(w) ==
  /\ Does(w, "orphans")
  /\ Tables /\ Kept /\ UNCHANGED <<live, on>>
  /\ \/ /\ armed' = armed \ (Covers({Home}, {East}) \ (live \cap on))
        /\ Goes(w, Next1(job[w])) /\ UNCHANGED trouble
     \/ UNCHANGED armed /\ Troubled(w, Next1(job[w]))

Done(w) ==
  /\ job[w].by # "none" /\ job[w].todo \in {<<>>, <<"fail">>}
  /\ Cloud /\ Tables /\ UNCHANGED <<changes, misscoped>>
  /\ \/ /\ status' = IF job[w].id = 0 THEN status
                     ELSE [status EXCEPT ![job[w].id] = IF job[w].todo = <<>> THEN "completed" ELSE "failed"]
        /\ Goes(w, Free) /\ UNCHANGED trouble
     \/ /\ job[w].id # 0
        /\ status' = [status EXCEPT ![job[w].id] = "unwritten"]
        /\ Troubled(w, Free)
--------------------------------------------------------------------------------
RunSteps == <<"discover", "fetch", "put rows", "query", "drop rows", "put alarms", "drop alarms", "arm">>
AlarmSteps == <<"orphans", "fetch", "put alarms", "query", "drop alarms">>
ResourceSteps == <<"discover", "rollups", "put rows", "query", "drop rows">>

(* A run lists the regions in the account's record, or the default one if that *)
(* cannot be read.                                                             *)
StartRun(w, a) ==
  LET run(regions) ==
        [Free EXCEPT !.by = "run", !.todo = RunSteps, !.accounts = {a}, !.regions = regions]
  IN /\ job[w] = Free
     /\ Cloud /\ Tables /\ Kept
     /\ \/ Goes(w, run(Registered[a])) /\ UNCHANGED trouble
        \/ Troubled(w, run(DefaultRegions))

(* _start_sync_job writes the job and then starts it; the second may fail.     *)
RequestSync ==
  /\ Len(status) < MaxCalls
  /\ \/ status' = Append(status, "pending") /\ UNCHANGED trouble
     \/ status' = Append(status, "unwritten") /\ trouble < MaxTrouble /\ trouble' = trouble + 1
  /\ Cloud /\ Tables /\ UNCHANGED <<job, changes, misscoped>>

(* A job lists the regions it was given instead of those of the records.       *)
TooNarrow(a, regions) == ~(Listable(a) \subseteq Listed({a}, regions))

StartSync(w) ==
  /\ job[w] = Free
  /\ \E i \in DOMAIN status, by \in {"alarms", "resources"}, s \in (SUBSET Accounts) \ {{}},
        regions \in Scopes :
       /\ status[i] = "pending"
       /\ status' = [status EXCEPT ![i] = "in_progress"]
       /\ Goes(w, [Free EXCEPT !.by = by, !.id = i, !.accounts = s, !.regions = regions,
                        !.todo = IF by = "alarms" THEN AlarmSteps ELSE ResourceSteps])
       /\ misscoped' = misscoped \cup
            IF by = "resources" THEN {a \in s : TooNarrow(a, regions)} ELSE {}
  /\ Cloud /\ Tables /\ UNCHANGED <<trouble, changes>>

(* A mutant: it is not started again.                                          *)
DieForGood(w) ==
  /\ job[w].by \in {"run", "alarms", "resources"}
  /\ Cloud /\ Tables /\ Kept
  /\ Troubled(w, Free)

(* A worker that dies is started anew with the same input: Lambda repeats an   *)
(* asynchronous invocation that failed.                                        *)
Die(w) ==
  /\ job[w].by \in {"run", "alarms", "resources"}
  /\ Cloud /\ Tables /\ Kept
  /\ Troubled(w, [Free EXCEPT !.by = job[w].by, !.id = job[w].id, !.accounts = job[w].accounts,
                    !.regions = job[w].regions,
                    !.todo = CASE job[w].by = "run" -> RunSteps
                               [] job[w].by = "alarms" -> AlarmSteps
                               [] job[w].by = "resources" -> ResourceSteps])
--------------------------------------------------------------------------------
(* The toggle: the tag, the row, the alarm, the alarm's row.                   *)
Toggle(w, r, v) ==
  /\ job[w] = Free /\ rows[r] # NoRow /\ changes < MaxChanges
  /\ changes' = changes + 1
  /\ Goes(w, [Free EXCEPT !.by = IF v THEN "on" ELSE "off", !.target = {r},
                   !.todo = <<"tag", "mark", "alarm", "show">>])
  /\ Cloud /\ Tables /\ UNCHANGED <<status, trouble, misscoped>>

SetTag(w) ==
  /\ Does(w, "tag")
  /\ Tables /\ Kept /\ UNCHANGED <<live, armed>>
  /\ \/ /\ job[w].target \subseteq live
        /\ on' = IF job[w].by = "on" THEN on \cup job[w].target ELSE on \ job[w].target
        /\ Goes(w, Next1(job[w])) /\ UNCHANGED trouble
     \/ ~(job[w].target \subseteq live) /\ Goes(w, Free) /\ UNCHANGED <<on, trouble>>
     \/ UNCHANGED on /\ Troubled(w, Free)

(* A mutant: the row is taken to be there still.                               *)
MarkRowAsRead(w) ==
  /\ Does(w, "mark")
  /\ Cloud /\ Kept /\ UNCHANGED shown
  /\ \/ /\ rows' = [r \in Resources |->
             IF r \in job[w].target THEN [rows[r] EXCEPT !.on = job[w].by = "on"] ELSE rows[r]]
        /\ Goes(w, Next1(job[w])) /\ UNCHANGED trouble
     \/ UNCHANGED rows /\ Troubled(w, Free)

(* update_item on a row that was deleted meanwhile makes one of nothing but    *)
(* the flag.                                                                   *)
MarkRow(w) ==
  /\ Does(w, "mark")
  /\ Cloud /\ Kept /\ UNCHANGED shown
  /\ \/ /\ rows' = [r \in Resources |->
             IF r \in job[w].target
             THEN [on |-> job[w].by = "on",
                   alarm |-> IF rows[r] = NoRow THEN "unknown" ELSE rows[r].alarm] ELSE rows[r]]
        /\ Goes(w, Next1(job[w])) /\ UNCHANGED trouble
     \/ UNCHANGED rows /\ Troubled(w, Free)

ApplyAlarm(w) ==
  LET applied == [Next1(job[w]) EXCEPT !.heard = @ \cup (job[w].target \cap armed)]
  IN /\ Does(w, "alarm")
     /\ Tables /\ Kept /\ UNCHANGED <<live, on>>
     /\ \/ /\ armed' = IF job[w].by = "on" THEN armed \cup job[w].target ELSE armed \ job[w].target
           /\ Goes(w, applied) /\ UNCHANGED trouble
        \/ UNCHANGED armed /\ Troubled(w, Free)

(* _refresh_alarm_rows: what CloudWatch has now, or without what was deleted.  *)
ShowAlarm(w) ==
  /\ Does(w, "show")
  /\ Cloud /\ Kept /\ UNCHANGED rows
  /\ \/ /\ shown' = IF job[w].by = "on" THEN shown \cup (job[w].target \cap armed) ELSE shown \ job[w].heard
        /\ Goes(w, Next1(job[w])) /\ UNCHANGED trouble
     \/ UNCHANGED shown /\ Troubled(w, Next1(job[w]))

(* The customer.                                                               *)
World ==
  /\ changes < MaxChanges
  /\ changes' = changes + 1
  /\ \E r \in live : \/ live' = live \ {r} /\ UNCHANGED on
                     \/ on' = (on \ {r}) \cup ({r} \ on) /\ UNCHANGED live
  /\ Tables /\ UNCHANGED <<armed, status, job, trouble, misscoped>>
--------------------------------------------------------------------------------
Works(w) ==
  \/ Discover(w) \/ DiscoverAborts(w) \/ FetchAlarms(w) \/ ReadRollups(w) \/ PutRows(w)
  \/ QueryRows(w) \/ DropRows(w) \/ PutShown(w) \/ DropShown(w) \/ Arm(w) \/ DropOrphans(w) \/ Done(w)
  \/ SetTag(w) \/ MarkRow(w) \/ ApplyAlarm(w) \/ ShowAlarm(w)

Next ==
  \/ World \/ RequestSync
  \/ \E a \in Accounts : StartRun(Runner, a)
  \/ \E w \in Workers : Works(w) \/ Die(w)
  \/ \E w \in Workers \ {Runner} : StartSync(w)
  \/ \E w \in Workers, r \in Resources, v \in BOOLEAN : Toggle(w, r, v)

(* A worker that has a step to make makes it, a job that was asked for is      *)
(* started, and the schedule starts a run of each account for ever.            *)
Fairness ==
  /\ \A w \in Workers : WF_vars(Works(w))
  /\ \A a \in Accounts : SF_vars(StartRun(Runner, a))
  /\ WF_vars(\E w \in Workers \ {Runner} : StartSync(w))

Spec == Init /\ [][Next]_vars
FairSpec == Spec /\ Fairness
--------------------------------------------------------------------------------
(* No failure empties an account: as long as its resources stay, in regions    *)
(* its record names, its roles, regions or kinds fail one at a time, and no    *)
(* job was given fewer regions, some row of it is there                        *)
(* (resource_discovery.cleanup_stale_inventory).                               *)
NotWiped ==
  \A a \in Accounts \ misscoped :
    InAccounts({a}) \subseteq live \cap Listable(a) => \E r \in InAccounts({a}) : rows[r] # NoRow

(* A step of such a job changes a row outside its accounts and regions.        *)
Outside(by) ==
  \E w \in Workers :
    /\ job[w].by = by /\ job'[w].todo # job[w].todo /\ job[w].todo # <<>>
    /\ Head(job[w].todo) \in {"put rows", "drop rows", "put alarms", "drop alarms"}
    /\ \E r \in Resources \ Covers(job[w].accounts, job[w].regions) :
         rows'[r] # rows[r] \/ (r \in shown' /\ r \notin shown) \/ (r \in shown /\ r \notin shown')

(* An alarm job removes no alarm row outside the accounts and regions it was   *)
(* given (_cleanup_stale_snapshots).                                           *)
AlarmJobConfined == [][~Outside("alarms")]_vars

(* Whatever overlaps or fails, in the end the table tells what there is: the   *)
(* tags and the alarms of what the records let a run see, and no row of        *)
(* anything else - unless nothing of an account is left, whose rows stay.      *)
Told(r) ==
  /\ rows[r] # NoRow
  /\ rows[r].on = (r \in on)
  /\ (rows[r].alarm = "some") = (r \in armed /\ Audible(r))

TableConverges ==
  <>[](\A r \in Resources :
         LET seen == live \cap Listable(AccountOf[r])
         IN /\ r \in seen => Told(r)
            /\ r \notin seen /\ seen # {} => rows[r] = NoRow
            /\ Audible(r) \/ RegionOf[r] = East => (r \in armed <=> r \in live \cap on)
            /\ r \in shown <=> r \in armed /\ Audible(r))

(* A job that was started ends, though its worker dies, unless the write of    *)
(* its end fails.                                                              *)
JobsEnd ==
  \A i \in 1..MaxCalls :
    i \in DOMAIN status ~>
      i \in DOMAIN status /\ status[i] \in {"completed", "failed", "unwritten"}
================================================================================
