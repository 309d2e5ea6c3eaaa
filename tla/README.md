# Verification of the AWS Monitoring Engine

TLA+ modules, TLC configurations and TLAPS proofs kept beside the code of the
AWS Monitoring Engine (`src/`).  They cover its two halves: the upkeep of
CloudWatch alarms and of the inventory that shows them, and the pipeline that
turns the alarms' state changes into notices and incidents.  Every definition is
translated from the source; `PROJECT.json` names, for each of them, the lines it
stands for.

## 1. The system

The engine is a Python backend of Lambda functions over DynamoDB, CloudWatch,
EventBridge, SQS and Step Functions (`src/backend`), a Next.js frontend
(`src/frontend`) and the deployment (`src/infrastructure`).

| component | code | state | operations | hard behaviour |
|---|---|---|---|---|
| judgement | `common/alert_suppression.py`, `alert_state.py`, `alert_event.py` | none: a function of the event and of `fp#{fingerprint}` | `decide`, `is_flapping`, `inputs_from_state`, `apply_event` | order and repetition of events, boundaries of windows |
| ingestor | `alert_ingestor/lambda_handler.py` | item `fp#`, item `grp#`, history rows | judge and write conditionally, find or open the group, start its execution, record | concurrent invocations, conflicts, fail-open, redelivery, death between two writes |
| group worker | `alert_group_worker/lambda_handler.py`, `common/alert_group.py` | `grp#`, `fp#`, rows | `close`, `collect`, `finalize`, `sweep_handler` | racing with late ingestors, retried tasks, failed executions |
| group state machine | `infrastructure/backend/template.yaml` | one execution per group | GroupWait, Close, Grace, Collect, PauseWait, Finalize, Deliver | retries, failure event |
| router: delivery | `alert_router/lambda_handler.py` | `grp#` (mark `delivered`), results | `deliver_group`, `_claim`, channels one by one, record | duplicate delivery, a time that runs out |
| router: incidents, tick | `alert_router/lambda_handler.py`, `common/incident.py`, `incident_store.py`, `alarm_liveness.py` | `inc#` items with a version, pointer `inc#{axis}` | new, merge, resolve; close what is over or has vanished, repeat notices | several writers, read-decide-write, two items written one after the other, lost clearings |
| incident API | `api_handler/routes/incidents.py` | incidents | list, acknowledge | racing with router and tick |
| alert configuration | `common/alert_config.py`, `api_handler/routes/alert_policy.py` | policy, silences, a copy per container | save, load, fall back to the environment | two reads that are no snapshot, a copy a minute old |
| notification channels | `common/notification_channel.py`, `notification_send.py`, `notification_adapters.py`, `api_handler/routes/notification_channels.py` | channels with secrets | create, edit with secrets hidden, delete, choose, send | forms that overwrite, a time budget, partial failure |
| alarm management | `common/alarm_manager.py`, `alarm_sync.py`, `alarm_builder.py`, ... | CloudWatch alarms | create, sync, delete one resource's alarms, call by call | a call that fails between deletion and creation, stale lists, no lock |
| thresholds | `common/threshold_resolver.py`, `tag_resolver.py`, `customer_thresholds.py` | tags, customer's defaults | precedence of sources | `off`, values that are no number |
| daily monitor | `daily_monitor/` | alarms, inventory rows, job items | list, delete orphans, collect, sync; sync jobs | partial failure, two runs that overlap, death of a worker |
| remediation handler | `remediation_handler/` | tags, alarms | react to create, modify, delete, tag events | events late, out of order, twice |
| discovery | `common/resource_discovery.py`, `region_discovery.py`, `tag_cache.py` | none | list resources of accounts and regions | what failed looks like what is gone |
| dashboard API | `api_handler/routes/resources.py`, `alarms.py`, `sync.py`, ... | rows of resources and alarms, tags | toggle, edit and add alarms, start sync jobs, screens | racing with runs |
| alert forwarding | `api_handler/routes/accounts.py` | accounts, the event bus's policy | register, delete, test, hourly comparison | a policy that is replaced as a whole by whoever read it |
| bulk jobs | `api_handler/routes/bulk.py`, `jobs.py`, `sqs_worker/lambda_handler.py` | job item with counters | submit, count, finish | redelivered messages, concurrent counters, late failures |
| frontend, verdict, collectors, scripts | `frontend/`, `common/alert_verdict.py`, `common/collectors/`, ... | none, or none of their own | read and show | little control |

How they interact.  Alarms and what is shown of them:

    schedule (daily, hourly) --> orchestrator --> daily monitor, per account
        list alarms / delete orphans / collect / sync each resource  --> CloudWatch
        list resources / write rows / delete rows that were not listed --> inventory table
    CloudTrail --late, in any order, twice--> remediation handler --> CloudWatch
    dashboard: toggle, edit, add, bulk (SQS) --> tags, CloudWatch, rows
    dashboard: start a sync job --> daily monitor, with a job item as its answer
    accounts routes, hourly comparison --> policy of the event bus

The alert pipeline:

    CloudWatch --event--> EventBridge (at least once) --> ingestor
        ingestor: fp#{fingerprint}  read / judge / conditional write
                  grp#{axis}        join or open, StartExecution(name = group)
                  history row       put once
    Step Functions, per group: GroupWait, Close, Grace, Collect, PauseWait, Finalize, Deliver
        group worker: closes grp#, confirms or drops deferred members in fp# and rows
        router: claims grp#, merges into inc#, sends
    every five minutes: tick closes or repeats open incidents
    a person: acknowledges through the API
    policy, silences and channels: saved through the API, read by ingestor and router

What makes each part correct: judgements of one fingerprint are a sequence, as
if no two invocations overlapped; at most one notice per repeat interval, yet no
firing is dropped unless a notice stands for it; whoever joins a group is sent
with it, or the event has no group; groups close, names are fresh, an axis is
never blocked; an incident goes triggered, acknowledged, resolved and never
back, holds every cause while it fires, and is closed once all of them are
silent; what a person saved is obeyed when a copy has had its minute; a delivery
accounts for every channel.  Alarms end as the tags ask, whoever else was at
them; a run that finds them right touches none; the inventory ends as what there
is, a failure to list never empties it, and jobs end; exactly the registered
accounts may send events, and whoever loses the permission is told of.  The
hazards, each at its line, with the properties aimed at it or the reason why
there is none, are the list `hazards` of `PROJECT.json`.

## 2. The modules

| module | models | how state and actions correspond to the code |
|---|---|---|
| `AlertSuppression` | the pure judgement | `Decide` is `decide()` on what `inputs_from_state()` extracts, `Apply` is `apply_event()`, `IsFlapping` is `is_flapping()`; a state is the record of the item `fp#` |
| `AlertJudgement` | abstract specification of one fingerprint | one step per whole judgement (`Judge`), one judged without the table (`JudgeWithoutState`), the confirmation of a deferred notice (`Confirm`), the closing of a vanished alarm's episode (`Vanish`) |
| `AlertIngestor` | invocations, finalizers and the tick on the item of one fingerprint | `invocation[w]` is the place of an invocation between its reads and writes; `item.version` is the store's version; `queue` is what EventBridge still owes; `history` the rows; one action per read, conditional write and failure |
| `AlertIngestorProofs` | proofs about `AlertIngestor` | |
| `AlertJudgementProofs` | proofs about `AlertSuppression` and `AlertJudgement` | |
| `AlertGroup` | the groups of one axis, their executions, the sweep and the claim | `item` is `grp#{axis}`, `exec[g]` the execution with the name `g`, `ingest[e]` an invocation; `clock` counts seconds, a group is named after one |
| `AlertGroupProofs` | proofs about `AlertGroup` | |
| `IncidentLifecycle` | abstract specification of incidents | `Open`, `Merge`, `Acknowledge`, `Resolve`, of `incident.py` |
| `Incident` | routers, people and the tick on the incidents of one axis | `incidents[id]` with its version, `pointer` is `inc#{axis}`; `run`, `ack`, `tick` are the places of the three writers between their reads and writes |
| `BulkJob` | one bulk job: request handler, FIFO queue, worker | `api` is the progress of `bulk_monitoring()`, `job` the item of the job table (`before` the item a read may still see), `queue` the message group, `worker` the batch in hand between its acting, counting and finalizing; what comes back is the batch at some positions (`Picked`); `trouble` says what has gone wrong |
| `BulkJobProofs` | proofs about `BulkJob` | |
| `IncidentProofs` | proofs about `Incident` | |
| `Settings` | policy and silences, and the copies of them | `policy`, `silences` are the items, `cache[c]` what a container loaded and when, `reading[c]` a load between its two reads, `used[c]` what its last judgement went by; one action per save, read, failure |
| `Channels` | the table of channels and the forms that edit it | `rows` with numbered secrets, `form[p]` the place of a request between its read and its write |
| `Delivery` | `Settings` and `Channels` with the router's delivery of one notice | `send` is the progress of `deliver_group`/`deliver_all`: both queries, claim, channel, attempt, time left in half seconds, results; `todo` the channels not reached yet, of which the next is the one of lowest `Rank` |
| `DeliveryProofs` | proofs about `Delivery`, with `Settings` and `Channels` | |
| `AlarmPlan` | what alarms tags ask for, and the calls of a create or a sync | pure: `SyncPlan`, `CreatePlan`, `Drifted`, `SeenDisks`, `ThresholdOf` are the functions of `alarm_sync.py`, `alarm_builder.py`, `tag_resolver.py`, `threshold_resolver.py`; a plan is made of parts with one call a metric (`Each`), in the order of the definitions (`InOrder`) |
| `AlarmJobs` | workers that make those calls on one resource | `job[w].todo` are the calls left, one action per kind of call, each of which may fail; `alarms` is CloudWatch |
| `MonitorPass`, `Remediation`, `ConsoleAlarms` | the three that start such work: runs, CloudTrail events, the dashboard and the bulk worker | their own reads and writes of tags, and the actions of `AlarmJobs` for the rest |
| `ResourceAlarms` | their composition, with the customer who tags, removes and reports | |
| `ResourceProofs` | proofs about `ResourceAlarms`, with the four modules under it | |
| `Inventory` | the inventory table between runs, sync jobs, toggles and the customer | `rows`, `shown` are the rows of resources and of alarms, `job[w]` what a worker listed and the steps it has left, `status` the job items |
| `InventoryProofs` | proofs about `Inventory` | |
| `Forwarding` | the event bus's policy and the table of accounts | `policy.of[a]` the statement of an account, `at[p]` the place of a request with the policy it read, `told` the losses a person was told of |
| `MC...` | instances for TLC | values of the constants, scenarios, symmetry |

Refinement: `AlertIngestor` implements `AlertJudgement`
(`J == INSTANCE AlertJudgement WITH state <- item.state`, property
`AtomicJudgements`, checked and proved); `Incident` implements
`IncidentLifecycle` (`L == INSTANCE ... WITH incident <- ...`, property
`OneLife`, checked and proved).  Composition: `ResourceAlarms` runs
`MonitorPass`, `Remediation` and `ConsoleAlarms` over the state of `AlarmJobs`;
`Delivery` runs the router over the tables of `Settings` and `Channels`.

Abstractions.  Instants are positive integers, 0 stands for a missing one.
Policies are constants: a repeat interval, a flapping window with the least
count that is too many (the code divides a count by days and compares it with a
rate), a quarantine, grace per severity.  An event carries its kind (firing,
clearing, other transition, configuration change), instant, severity, customer
and type; parsing of names and ARNs, message texts, tags and counters that only
a screen shows are left out.  In `AlertGroup` every member is to be sent, what
`finalize` decides of a single member being in `AlertIngestor`; Collect and
PauseWait only delay, and since no step of an execution is urgent there a late
`Finalize` stands for them.  In `Incident` a firing reaches a router as a member
of `pending`, in any grouping.  `MAX_MEMBERS` bounds members there as in the
code, and which of too many are dropped is a choice.  In `AlarmJobs` an alarm is
its metric and threshold (of which CloudWatch's name is made), whether its
definition is the registry's, and its severity as tag and as description; a
worker's reads of one kind are one call.  In `Inventory` a resource has one
alarm, and a run's work on the alarms is one step (`Arm`), being the subject of
`ResourceAlarms`.  In `Settings` a tick of the clock is half a minute, and a
load takes less.  In `AlertIngestor` a row is finalized once, by a task that takes
the rows it sees; a row is `missed` if its group has no execution or was finalized
before (one failure, of the bound).  In `AlarmJobs` an alarm's definition is two
parts, the policy (periods and datapoints) and the rest (statistic, period,
comparison), since a sync compares only the first of a tagged metric's (`Compared`);
`Here` says whether the resource is in the engine's own account and region, where
tagged metrics are looked for (`Seen`).

Every failure the code handles is an action of its own: a read or a conditional
write that fails for another reason than its condition (`ReadFails`,
`WriteFails`, `GroupFails`, `RouterGivesUp`), a lost race (`Conflict`,
`OpenConflict`, `PointTaken`, `SaveConflict`, `AckConflict`), exhausted attempts
(`Contention`), an invocation that dies and is repeated (`InvocationFails`,
`TaskFails`, `RouterDies`, `TickDies`), an execution that cannot be started or
fails (`StartFails`, `ExecutionFails`), a duplicate delivery (`Redeliver`), a
configuration that cannot be read (`LoadFails`), a channel that refuses or does
not answer (`Refused`, `Unanswered`), a delivery out of time (`OverBudget`,
`Gone`).  In `AlarmJobs` and `Inventory` each call has a disjunct in which it
fails the way the code lets it (`Fails`, `Troubled`), and workers die (`Die`);
in `Forwarding` they are `GrantFails`, `RevokeFails`, `ReconcileFails`, `Dies`.

The operators introduced as "Mutant of" or "A bug" in the modules are plausible
errors of the code; `PROJECT.json` says which property notices which of them.

## 3. The runs

Deadlock is not checked in any run: when every event is handled and the bounds
are used up, the system may stop.

Eleven runs pass.  One, grp_gap, is expected to find its property violated: it states
a sentence of the code's own comments which the code does not keep, and is a finding
of `PROJECT.json`.

* **judge** (`MCJudgement`).  Up to seven judgements in the order of the events
  at instants 1..8, and up to four of any events in any order with repetition.
  Repeat interval 3, flapping window 4 with limit 3 of at most 3 remembered
  episodes, quarantine 4, three severities (exempt, plain, with a grace), one
  maintenance window that covers instant 3 and one of somebody else.  Windows of
  3 and 4 within 8 instants let each end, restart and overlap the others.
  `RateLimited`, `FlappingContained` and `QuarantineServed` speak of events
  judged once each and in order (`InOrder`); section 5 tells why the first must.
  `DedupCovered`, `ClearNoticePaired` and `RedeliveryIdempotent`
  hold in any order.
* **ing** (`MCIngestor`).  Two concurrent invocations and one finalizer on one
  fingerprint: three events without failure, or two with one failure at any
  point or one duplicate delivery (or both).  Two attempts, so that contention is reached.
  The sets are: firings inside and outside one interval, held-back firings with a
  clearing between them, a configuration change.  `IngestInv` is the inductive
  invariant of the proofs; `AtomicJudgements` the refinement; `RowStable` says what
  becomes of a row that is there; `NoAlarmLost` and `ClearedOnlyIfTold` follow a
  firing to the row that finalize wrote, and hold when nothing failed, came twice,
  was late for its group or ran out of attempts (`Calm`).  `EventuallyRecorded`:
  every event gets its row, whatever fails; that the row then gets a final decision
  is not promised here, as it depends on when its group is finalized, which is
  `AlertGroup`'s.  Nor does it say that the row is the right one (section 5).
* **grp** (`MCGroup`).  Two events of one axis, wait 2, grace 1, stale margin 2,
  an invocation takes up to 2 seconds, arrivals up to second 2 or while a group
  waits, any one kind of failure once.  So an invocation may last as long as the
  wait and longer than the grace, as deployed (30 s, 30 s, 5 s).  That is enough
  for a join, a lost race, a closed group's successor, a row that comes after
  `finalize`, and a stale group's replacement after a dead execution.  `NoOrphan`
  and `EventuallyFinal` speak of invocations that did not take as long as the
  grace (`slow`); `NoOrphan` leaves out groups that were swept, `EventuallyFinal`
  behaviours with a failed execution or start.
* **grp_gap**: `NoGap`, which excuses nothing, is violated without any failure.
* **inc_life** (`MCIncident`).  Two routers, one person and the tick, two
  series, two firings, two attempts: a conflict of each pair of writers, a
  retry, a merge, a resolution and a new incident in one second.
* **inc_reconciled**.  From an open incident with one or two members (a state
  `Incident` reaches; the sooner start keeps the liveness check small): alarms
  clear or vanish, one fires again, and a router, a tick or a read fails.
* **bulk** (`MCBulkJob`).  Three resources, or one asked for twice, batches of two
  and two receives of each message: a batch that fails in part, a message that
  is given up, a second batch sent while the first is at work.  Any update may
  be lost and any read be stale, the API may stop anywhere, a worker dies at most
  once.  `Conserved` holds throughout.  `Truthful` speaks of jobs in which no
  message came twice and no update was lost.  `Finishes` excuses a lost update,
  a stale read, an API invocation that died, an id asked for twice, and
  rejections that the API adds to the counters after it sent other messages:
  in each of them the code leaves a job pending (section 5).
* **res** (`MCResource`).  One metric of the definitions, two mount points, one
  of them nested, and a metric that a tag asks for; one worker that makes runs,
  answers events and carries out one call of the dashboard; one change of the
  world, one failure of any call, or one event that comes again.  `Established`
  speaks of a sync during which nothing else moved and that started with at most
  one alarm a metric, `Quiet` of one that found the alarms right; with one worker
  the interleavings are those of its calls with the world.
* **res_live**.  One metric of the definitions, and two workers that overlap: the
  periodic run and, in one part of the behaviours, the remediation handler with one
  failure or death of either, in the other part a second run, a toggle, an edit or a
  call of the bulk queue, with nothing failing (`LiveNext`: the two together are more
  states than TLC gets through).  The world changes once.  `Converges`: the alarms
  end as the tags ask.  It does not ask for a single alarm of a metric (section 5).
* **inv** (`MCInventory`).  One account whose record names one region, with a resource
  there, of a kind with lazy pages, and a global one, with a tag call of its own,
  whose alarms are in us-east-1.  One worker for runs, one for a job; one job, of
  the account's region or of the default one, one toggle or change, one failure or
  death.  That is enough for a cleanup that reaches too far, for a part of an account
  that is not listed, and for alarms that no run hears of.  `NotWiped` excuses an
  account that a job for resources listed with too few regions (`misscoped`).
  `TableConverges` says what the runs can see: a row of each resource listed by the
  account's record and, while any is left, of no other; of the alarms those in the
  record's regions.
* **send** (`MCDelivery`).  With the code's own times, in half seconds: a
  function of 27.5, 15 kept for the results, attempts of 5, pauses, a gap
  between channels of one type.  A copy lives two ticks of a clock of four.
  Three edits, one failure, one notice, one channel of a customer and one of
  all.  The constraint `Apart` keeps the settings and the delivery out of each
  other's behaviours: they share no variable but the counts of edits and failures.
* **fwd** (`MCForwarding`).  Two requests, of two people or of one, and the hourly
  comparison on three rows of two accounts, one of which is in two customers'
  rows; one failure or death.  That is enough for two writers that overwrite
  each other, a deletion that races with a registration, and a comparison that
  mends.  `LossTold` excuses a death (section 5).

### Fairness

`AlertIngestor`: an owed event is delivered (EventBridge retries) and a running
invocation goes on (Lambda); nothing is assumed of the group worker.  `AlertGroup`:
the same, executions go on (Step Functions), and time passes.
`Incident`: a router is started for each group and runs on; the tick runs every
five minutes, a step of it is weakly fair, and it starts on each open incident
infinitely often (strong fairness of `StartTick(id)`: the scan visits all open
incidents in turn, one after the other, so between two visits of one the tick is
busy with others).  `BulkJob`: the invocations go on and Lambda polls the queue
(weak fairness of `ApiStep` and `WorkerStep`).  `ResourceAlarms`: the schedule
starts runs for ever, a worker with a call left makes it, an event is handled in
the end (EventBridge's retries).  `Inventory`: the same; the runner alternates
between accounts and jobs, so a run of each account is started infinitely often
(strong fairness), and a job that was asked for is started (Lambda's
asynchronous queue).  `Forwarding`: a request goes on, the hourly invocation
comes for ever.  `Delivery` states none.  No fairness is assumed of alarms,
people, customers, calls of the dashboard, failures or deletions.  Failures are
bounded: with unboundedly many nothing is promised.

### Bounds

`MaxFaults`, `MaxDuplicates`, `Horizon`, `MaxFires`, `MaxDeletes`,
`MaxRenotices`, `MaxLog`, `MaxAnyLog`, `MaxTrouble`, `MaxChanges`, `MaxCalls`,
`MaxRequests`, `MaxEdits`, `MaxClock` and `MaxNotices` bound behaviours, not the
system; they occur in guards (`Fault`, `Spend`, `Second`, `Tick`, `AnyNext`,
`Fails`, `Troubled`, `Change`, `Counted`, `Asked`, `Edits`, `Passes`, ...); the
types name them, and `Channels` numbers secrets by the edit that typed them.
`AlertGroup` allows each kind of failure once, `BulkJob` one death of a worker
and any number of other troubles. `MaxAttempts` is the code's constant (3,
smaller here so that giving up is reached).

## 4. The proofs

Each theorem holds for every value of the constants, under the named `ASSUME`s
of the modules it speaks of (`PolicyAssumption`, `IngestorAssumption`,
`JobAssumption`, `DeliveryAssumption`, ...), which TLC evaluates in the runs,
and under the hypotheses it states itself.  Every invariant that a passing run checks
is also proved; so are the refinements and the action properties.  An inductive
invariant was checked by TLC on the run's instance before it was proved.

### One fingerprint, judged in sequence

`AlertJudgementProofs`, for any policy, set of events and length of the log:

The lemmas come first: which rule of `decide()` decides (`DecideFacts`,
`DecideFiring`), what becomes of each field of the item (`FiringFields`,
`AfterFacts`), that the window keeps the latest episodes (`WindowFacts`,
`LatestHasThem`), and that an event judged twice leaves what one judgement
leaves (`JudgedAgain`).  The theorems:

* `RedeliveryHarmless`: `Spec => []RedeliveryIdempotent`, without any further
  condition.
* `LogInvariant`, `DuplicatesCovered`, `ClearingsPaired`:
  `StateSpec => []LogInv`, `[]DedupCovered`, `[]ClearNoticePaired`.
* `QuarantinesServed`: `StateSpec => []QuarantineServed`.
* `FlappingEnds`: `FlapLimit <= MaxRecent` gives `StateSpec => []FlappingContained`.
* `NoticesApart`: `DueSpec => []RateLimited`.

`StateSpec` is `AlertJudgement` without `JudgeWithoutState`, the judgement that
fails open because the state could not be read or saved; it gives none of these
promises, and `MCSpec` of the run judge takes only steps of `StateSpec` as well.
`DueSpec` also confirms a deferred event once and in the episode it belongs to,
as `finalize` does (`same_episode`, `alert_group_worker/lambda_handler.py:172`).

None of the properties is inductive, as they speak of the log while the code
decides by the item.  `LogInv` says what the item's fields mean in the log: the
last notice is one that is there, an announced open episode has a notice after
which no clearing came, only firings are deferred and so confirmed.
`NoticesApart` needs that no notice in the log is later than the last one the
item knows.  `FlappingEnds` needs that the item remembers the latest `MaxRecent`
of the firings that were judged, and counts them: a firing that completes
`FlapLimit` of them in a window finds these among those remembered, so the item's
window is as full as the log's.  That is why the hypothesis is there; without it
TLC finds a counterexample (section 5).

### The concurrent ingestor

`AlertIngestorProofs`, for every set of events, policy, number of invocations,
finalizers, attempts, failures and duplicates:

* `TypeCorrect`, `InvCorrect`: `Spec => []TypeOK`, `Spec => []IngestInv`.
* `RowsStable`: `Spec => RowStable`: a row keeps its decision and its group, and
  its final decision too, unless it is a held-back firing finalized once more.
* `JudgementsAtomic`: `Spec => AtomicJudgements`: the concurrent ingestor
  implements `AlertJudgement`.
* `NothingLost`, `ClearingsAfterTold`: `Spec => []NoAlarmLost`,
  `Spec => []ClearedOnlyIfTold`.

What makes the first ones inductive is `IngestInv`: whoever has read the item
either holds the item itself or an older version (`Current`: versions only grow,
and equal versions mean equal items), so a write whose condition holds is a
judgement of the state it replaces; the decision held for writing is the one
`Decide` gives on the state that was read; a decision on its way to the history
is logged; a finalizer that may write the confirmation has the row of a deferred
event before it and saw an open episode.  The proof has one step per action
(`IngestKeeps`, `FinalizeKeeps`, `OutsideKeeps`), frame lemmas for the
invocations and tasks that do not move, and, for the refinement, one lemma per
way of changing the item (`JudgeStep`, `UnsavedStep`, `StutterStep`).

The last two follow a firing to the row that finalize wrote, through the
duplicates that were dropped for it and the clearing that ends it.  Their
invariant is `CalmInv`, under `Calm` (nothing failed, came twice or ran out of
attempts, which is how the properties are stated): every event is in one place
(`OnePlace`: owed, in one invocation, or recorded), its row is of the group it
joined (`RowGroups`), a task decides by the row it holds (`TaskDecides`,
`OneTask`), a notice that was decided is on its way or announced
(`NoticesFollowed`), and the item and the log tell of it (`ItemTells`,
`LogTells`).

### Groups

`AlertGroupProofs`, for any number of events, attempts, margins, any grace and
failures of the store, the start, an invocation and the router, under `Unhurried`:

* `GroupInvariant`: `Spec => []GroupInv`.
* `ClosedForGood`: `Spec => []CloseCloses`.
* `NamesFresh`: `Spec => FreshNames`.
* `NoneLeftBehind`: `Spec => []NoOrphan`.

`Unhurried` says that an invocation takes no longer than a group waits (both are
30 s as deployed) and that no execution fails (one that does is swept, and its
group closed before its time; the run grp has one).  The argument is about time
and versions.  A group that is closed was started a wait ago, and the invocation
that replaces it began no longer ago than that, so its name is later than the
last one, which is the greatest (`NameIsNew`); the second added when the names
would be equal is what the limiting case needs.  While a group is open its
version moves once, when its execution is noted (`Current`); so close() that
finds the version moved has that version on its second try, and nobody but
close() moves it again (`CloseConflictStep`).

`NoOrphan` makes no assumption on how an invocation and the grace compare; it says
whom the grace protects: everybody but an invocation that took as long as the grace
itself (`slow`; one may, as grp_gap shows).  The invariant (`LoadedInv`) says that an
invocation which still holds a group (`Holds`) joined it before it was closed, so
that one which records after the grace is over has taken as long.

### Incidents

`IncidentProofs`, for every number of series, routers, people, attempts, members
and failures:

* `IncidentInvariant`, `IncidentTypes`: `Spec => []IncidentInv`, `Spec => []TypeOK`.
* `IncidentLives`: `Spec => OneLife`: routers, people and the tick implement
  `IncidentLifecycle`.
* `CoveredAlways`: `RoomForAll` gives `Spec => []Covered`.

`IncidentInv` says of a router, a person and the tick that what they hold of an
incident is the item or older than it (`Current`), and of what a router is about
to save that it is a new incident, one with more members, or a resolved one of
what it read (`StepOf`).  Every write raises the version (`Grown`), so all
readers that do not move keep what they know (`ReadersKeep`), and a write whose
condition holds is one step of the item's life (`LifeOpens`, `LifeMerges`,
`LifeEnds`, `LifeAcknowledged`).  The tick's closing has no condition on the
version: that it resolves an open incident follows because an item whose version
has been 1 is there.

`RoomForAll` says that an incident may hold as many members as the axis has
series; with more, `merge_events` drops some, and `Covered` cannot hold.  Its
proof carries what a router that is about to save has in hand (`FiringOK`): the
series that fire are members of what it writes.

### Bulk jobs

`BulkJobProofs`, for any requests, resources, size of a batch and number of receives:

* `ConservedAlways`: `Spec => []Conserved`, whatever goes wrong.
* `TruthfulAlways`: `Spec => []Truthful`.

`KeptInv` says that a message stands for one resource and is in one place
(`OneMessage`), that whatever was tried in the batch has succeeded or is on the
list of failures, and that a resource that has not succeeded has a message or was
given up (`Kept`).  The messages that come back are the batch at the failed
positions in their order; `PickedFacts` says that this takes each of them once.

`TruthInv` counts.  A message is through when it was received and its outcome
counted; `completed_count` is the number of resources through that succeeded,
`failed_count` of the others, plus the rejections once the API has added them
(`Exact`).  These are at most as many as were asked for (`Bound`), and when they
are as many, the request has been gone through, no message is left unreceived and
the rejections are in: so what the worker reads, be it one write old, makes it
finish only a job that is over, and with the counters of the end (`Honest`).
`RecordFailures` cannot change a finished job, as its own rejections were missing.

### Delivery and settings

`DeliveryProofs`, for any fields, values, containers, life of a copy, channels,
times, edits and failures:

* `SettingsInvariant`, `ObeyedAlways`: `Spec => []SettingsInv`, `Spec => []Obeyed`.
* `TypeCorrect`: `Spec => []TypeOK`, in which a stored secret is one that somebody
  typed, never the mask the forms show.
* `AccountedAlways`: `Spec => []Accounted`.

A copy, a load under way and the last judgement either began at or before the
last change of the table or agree with it (`CopyOK`, `ReadingOK`, `UseOK`).  A
delivery accounts for all because the channels it was to tell are those it has
results of, the one it is at, and those still to do (`SendInv`).

### Inventory

`InventoryProofs`, for any resources, accounts, regions and workers:

* `InventoryInvariant`, `InventoryTypes`: `Spec => []InventoryInv`,
  `Spec => []TypeOK`, with any number of failures.
* `AlarmJobConfinedAlways`: `Spec => AlarmJobConfined`, likewise.
* `NotWipedAlways`: `OneFailure` and `NoneEmpty` give `Spec => []NotWiped`.

`InventoryInv` types every worker's progress and says that an alarm job has only
steps of its own before it and has heard only of alarms in its accounts and
regions (`Confined`); a step of another worker cannot change either.

`NotWiped` speaks of an account while all its resources are there, are listed by its
record, and no job for resources listed it with fewer regions than show them all;
jobs of other accounts may have any.  A job of some regions leaves the rows of those
only, and then one failure takes them (section 5).  The hypotheses are needed too: of
two failures one can blind a run and the other the job that would have kept the rows,
and an account that has nothing has no row to keep.  The proof follows, while the one
failure has not happened, that who is to drop rows of such an account has listed all
there is (`Sheltered`), and after it, that one kind's rows are left.

### One resource's alarms

`ResourceProofs`, for any metrics, mount points, thresholds, settings, customer's
defaults, workers, requests, changes of the world and failures:

* `ResourceInvariant`, `ResourceTypes`: `Spec => []ResourceInv`, `Spec => []TypeOK`.
* `EstablishedAlways`: `Spec => []Established`.
* `QuietAlways`: `Spec => []Quiet`.

`Established` demands the metrics that the worker finds (`Seen`): the toggle of a
resource in another account or region finds no tagged one.  And it demands of an alarm
what a sync compares (`Compared`): the statistic, period and comparison of a tagged
metric's are never looked at.

`Established` speaks of the end of a sync, `Quiet` of one that has nothing to do, and
neither says what a worker in the middle of its calls is up to.  `ResourceInv` does, in a
predicate `Sound` of each worker, which has four parts.

* `Shape`: a worker that has decided has only calls of a plan left; the decision
  is the last thing a job leads to, and who writes a description has one.
* `ByTheList`: what a run listed at its start is what there is when it decides,
  although its own cleanup deletes alarms in between: it deletes only those of a
  resource that is not monitored, which `collect` then leaves out.  A worker that
  was disturbed is excepted (`alone`).
* `Progress`: a worker that decided on a single alarm a metric, and that nothing
  disturbed, is in one of three stages (`InProgress`).  `Late`: each metric is
  through with (`Final`, which is what `Established` says of one metric), or
  exactly the calls it still needs are left, and find what they expect (`Ready`).
  `Early`: the same until everything is made anew, for which each severity an
  operator chose must still be on its alarm (`Marked`).  `Wiping`: everything is
  about to be deleted, each metric wanted has a call that puts it, and the
  severities are remembered (`Remembers`).
* `Silent`: what `Quiet` says, of a single worker.

The proof has three parts.  That a decision starts in one of the stages
(`FirstSound`) is about the plans, which are sequences computed from sets of metrics:
`InOrder` names each metric of a set once (`RankOnto`, `InOrderFacts`), so that a
plan has for each metric the calls that its alarm asks for (`Lists`).  That
each call moves a stage on is a lemma per call (`PutProgress`, `RewriteProgress`,
...): it changes the alarms of one metric, and the others stay what they were
(`Elsewhere`).  That no step of anybody else disturbs a worker unnoticed needs no
stages at all: whatever moves the alarms, what is reported or the `Monitoring` tag
sets `alone` to false (`GroundMoves`, `WorkerMoves`), and a worker disturbed is
promised nothing (`HurtSound`); a change of thresholds or a removal moves nothing
that a decision rests on (`SameJobs`).  Each action then is one lemma (`KeepStep`, `WipeStep`, ...,
`RedefinedStep`), joined by `ResourceNext`.

The attempt corrected the model in two places.  `Established` promised too
much of an operator's severity: a mount point that is switched off keeps its alarm as
it is, with an old description too (`Kept` now says so).  And a run that cannot
list the resource's region has an empty list and makes all alarms anew, however
right they are; `Quiet` speaks of a region that is listed (`Listed`).

### What is not proved

Every invariant, action property and refinement of the passing runs is proved.
Liveness under fairness (`EventuallyRecorded`, `EventuallyFinal`, `AxisFreed`, `Finishes`,
`Reconciled`, `Converges`, `TableConverges`, `JobsEnd`, `ForwardingConverges`,
`LossTold`) and `ENABLED` are out of the prover's reach, and so is induction over
data in its general form; where a proof needs it, it takes a least number or the
cardinality of a finite set instead (`LeastNumber`, `RankOnto`).  For that,
`Delivery`, `BulkJob` and `AlarmPlan` choose channels, messages and metrics by
their rank in a set rather than by a selection over a sequence, which is the
same sequence.  No module declares a `RECURSIVE` operator.

## 5. Observed while modelling

Behaviours that run against what a comment says, or that a reader should know
of.  One has a run that shows it and is a finding (grp_gap); no run is spent on the
others, and the properties that would meet them excuse them, and say so.

The alert pipeline:

* An event judged after its successor moves `last_notified_at` back, so that two
  notices may fall in one interval (`alert_ingestor/lambda_handler.py:325` says
  that late processing does not shake the deduplication).
* The state is saved before the row.  If the row cannot be put, the event comes
  again, is judged a repeat of itself and recorded as one, and nobody is told;
  line 24 of the same file says that a retry is safe.  TLC finds it with one firing
  and one failure.  Two deliveries judged at once do the same without a failure: the
  repeat's row may come first.
* `_claim` marks the item of the axis without asking which group it holds; if
  it holds the next one, that one is never sent (`alert_router/lambda_handler.py:12`).
* The tick's `_close` resolves an incident into which a firing was merged after
  it looked (`incident.py:8`, `alert_router/lambda_handler.py:438`).
* The pointer is set before the incident is saved: a router between the two
  finds nothing and opens a second incident; two are open, one not pointed to
  (`alert_router/lambda_handler.py:123`).
* `merge_events` (`common/incident.py:127`) drops the newest members of a full
  incident, where line 30 says the oldest.
* A flapping limit above `MAX_RECENT_EPISODES` (30, `alert_state.py:50`) can never
  be reached, though a policy may ask for thousands (`alert_config.py:53`) and
  `alert_state.py:49` says that more need not be kept.  With a limit of 3 and 2
  kept, TLC violates `FlappingContained`; hence the hypothesis of `FlappingEnds`.
* The loser of a conflict may send a firing a second time (`state_contention`);
  the code says it prefers that to silence.
* A failed execution is swept without a grace, so an event that just joined may
  be left behind (`NoOrphan` is conditional on no failed execution).
* A `Deliver` that is retried after its answer was lost finds its claim only
  while the item still holds the group; if the next group has opened, it claims
  that one and sends its own a second time.  One that died after its claim is
  not sent at all.
* A policy may have groups wait less than an invocation may take (0 to 300 s,
  `alert_config.py:55`).  A slow invocation then opens a group with the name of
  the one before the last, as `_resolve_group` compares with the last name only;
  `NamesFresh` and the run grp have a wait as long as an invocation.
* A group whose opener could not start the execution waits for the next event of
  its axis, or for ever if it is replaced when stale (`EventuallyFinal` is
  conditional on no failed start).
* `alert_group_worker/lambda_handler.py:9` says that there is no gap between
  closing and collecting.  An ingestor's invocation may take 30 seconds and the
  grace is 5: its row then comes after `finalize` and is never sent (grp_gap).
* An event whose group could not be started keeps the group's id (`group_ok` is only
  logged); unless a later event of the axis starts it, its row is never finalized.
* The tick lists the alarms once in each of its invocations; in `Incident` it
  looks at an alarm when it comes to the member, the freshest answer the listing
  can give.
* A bulk message that is received again counts again, so `completed_count` and
  `failed_count` can exceed `total_count` (the frontend's test
  `frontend-features-pbt.test.ts:90` expects that they never do), and a job
  whose first attempts fail is finished while later ones still run.
* `bulk_monitoring` adds its rejections after the worker may have counted the
  last message; nobody finishes the job then.  The same holds if all messages
  failed to be sent, if a resource was asked for twice (one message, counted in
  `total_count` twice), if `_finalize_job` reads an item without its own count,
  and if every receive of a message dies before it is counted.
* `in_progress` is never written by the worker: the item always has a status.

Settings, channels and delivery:

* `PUT /alert/policy` fills fields the body leaves out from the environment, not
  from the stored policy (`alert_config.py:12` speaks of partial saves).
* `renotify_after_sec` is validated, but neither stored nor loaded; the
  environment's value is lost too, the default of the class holds.
* A load that fails falls back to the environment's policy, which may suppress
  more than the stored one.
* `PUT` of a channel without `match` or `enabled` resets them.  Of two at once,
  one that keeps the secret it read undoes a secret replaced meanwhile; one that
  races with a deletion brings the channel back.  The limit of channels is
  checked before it is put.
* Channels are chosen by the group's representative alone.
* The deadline is looked at before a channel, which may then take 3 attempts of
  5 s, pauses of 0.5 s and 1 s and a wait of 1 s, more than the 15 s kept for
  recording: the results are then never written, and the claim keeps a retry
  from sending.  Repeated notices of the tick have no deadline at all.

Alarms:

* An alarm added on the dashboard for a metric that no tag asks for (or for a
  mount point by its full path) is deleted by the next sync; an edit of another
  type than EC2 is undone by it; an edit of the threshold without a severity
  loses the `Severity` tag of the alarm that gets a new name.
* `Threshold_CPU`, as the dashboard writes it, is shadowed by a
  `Threshold_CPUUtilization` that is there already.
* A dynamic alarm that drifted is deleted before its dimensions are resolved.
* If the tag of an alarm cannot be written, tag and description disagree for good.
* A run's list of alarms is made at its start: alarms that its own cleanup or an
  event deleted since are missing until the next run.  A listing that fails
  within a sync looks like no alarms: all are deleted and made anew.
* A late "switched off" deletes alarms, a late "switched on" creates them,
  without a look at the tags; the next run puts that right (`Converges`).
* The tag of a nested mount path (`var_log`) excludes the other paths and itself.
  A mount point that is switched off keeps its alarm; if it has none, each
  sync makes everything anew (`alarm_sync.py:162`; `Quiet` excuses it).
* A daily and an hourly run that overlap while a threshold changes leave two alarms of
  one metric (`daily_monitor/lambda_handler.py:530` says the overlap is harmless): with
  two runs and a change, and nothing failing, TLC finds them when all is done.  A sync
  compares whichever it meets first, and leaves the other.
* A metric that a tag asks for is looked up with the engine's own client
  (`alarm_builder.py:353`).  The toggle, or the bulk worker, makes no alarm of it for a
  resource elsewhere, and deletes one that drifted; the next run makes it.  With
  `Here = FALSE` TLC finds the missing alarm at once (`Established` asks for what is
  found only).
* The statistic, period and comparison of a tagged metric's alarm are compared with
  nothing (`alarm_sync.py:357`): what a person changed there, or an older version
  made, stays.
* Tags of a REST API that cannot be read count as none, and its alarms are
  deleted, though `get_resource_tags_or_none` (line 318) exists to avoid that.

Inventory:

* A sync job of resources deletes the rows of all regions but those it was given, one
  by default (`sync.py:99`), where `daily_monitor/lambda_handler.py:1542` says that it
  goes like the alarm job and `docs/API-CONTRACT.md` speaks of a full discovery
  (with nothing failing TLC finds a step of such a job that removes a row outside of
  its regions).  The next run writes them again; one failure more, and the account is
  empty until then.
* Alarms of global resources are made in us-east-1, but the runs and jobs hear of the
  alarms of the regions in the account's record only: without us-east-1 there, their
  alarms are never shown and their rows say that they have none.
* The rows of an account of which nothing is found stay, also when its last resource
  is gone; so does what a toggle made of a deleted row there.
* A run deletes the alarm rows of a region whose listing failed, and, if the
  accounts table cannot be read, the rows of all regions but the default; the
  next run writes them again.
* ECS, ACM, MQ and SageMaker are asked for their pages within a `try` and read
  outside of it: one kind's error ends the whole listing.
* The toggle's `update_item` after its row was deleted makes a row of nothing
  but the flag; the toggle finds a row by the resource's id alone, whatever the account.
* A job whose last write failed stays `in_progress`, one whose invocation failed
  `pending`; two entries of the run history in one second are one.

Forwarding:

* A connection test saves its result without condition: after a deletion it
  makes a partial row, whose account is then granted the permission again.
* A revocation that races with a registration of the same account for another
  customer takes the permission of an account that was reported as granted,
  until the hourly comparison.
* A statement somebody else adds between read and write is lost for good
  (`docs/API-CONTRACT.md:582` says that foreign ones are untouched); so are all but one
  of several without a `Sid`, which `accounts.py:206` collects by that name.
  `Forwarding` has the foreign ones as one flag and adds none while a request is at work.
* If the function dies between mending a lost statement and telling of it,
  nobody is told.

## 6. Not modelled

The frontend and the screens of the API that only read (`alert_verdict.py`,
dashboard, customers, lists and searches) show what is stored.  Routing,
authorisation and deployment hold no state of their own, the scripts are reports
run by hand.  Collectors, resource types and builders are tables and single
calls of AWS; `BulkJob`, `AlarmJobs` and `Inventory` have what becomes of such a
call.  The recalibration of thresholds, the thresholds reckoned from an
instance's memory, snapshots of metrics, the history of runs, the detection of
regions and the routes that only write tags or defaults are values that the
models take as given.  Rendering of notices, test messages and previews are
wording.  Expiry of items (TTL of days) and the lag of the history index are
left out; so is a switch of the group's axis by an edit of the customer.

## 7. What is left

In the order of importance:

1. `Pipeline`: `AlertJudgement` and `Incident` composed over one fingerprint, in
   which the tick that dies before it closed an episode meets the next firing.
2. Two resources in `ResourceAlarms` whose names share a prefix, which the
   search by name tells apart by what follows; legacy formats of names.
3. Accounts whose regions are edited while a run is at work.
