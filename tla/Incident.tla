------------------------------- MODULE Incident -------------------------------
(***************************************************************************)
(* The incidents of ONE axis (customer and severity).  Routers merge the    *)
(* firing members of their group into the open incident or open one         *)
(* (alert_router, _sync_incident), people acknowledge (api_handler,         *)
(* ack_incident), the five-minute tick closes what is over and repeats      *)
(* notices nobody acted on (tick).  All of them read an incident, decide,   *)
(* and write it back on condition of its version (incident_store); the      *)
(* open incident is found through the pointer inc#{axis}.  Time counts      *)
(* seconds: an incident is named after the second it was triggered in.      *)
(***************************************************************************)
EXTENDS Integers, FiniteSets

CONSTANTS
  Series,           \* the fingerprints that fire on this axis
  People,           \* whoever acknowledges
  Nobody,
  Routers,          \* router invocations that may run at once
  MaxAttempts,      \* MAX_ATTEMPTS of incident_store
  MaxMembers,       \* MAX_MEMBERS
  MergeMax,         \* INCIDENT_MERGE_MAX_SEC
  Grace,            \* LIVENESS_GRACE_SEC
  TickRuns,         \* does the five-minute tick run at all
  Horizon,          \* bound: the last second
  MaxFires,         \* bound: firings of one behaviour
  MaxDeletes,       \* bound: alarms deleted while they fire
  MaxRenotices,     \* bound: notices the tick repeats
  MaxFaults         \* bound: failures of routers, the tick and reads

ASSUME IncidentAssumption ==
  /\ Nobody \notin People
  /\ MaxAttempts \in Nat \ {0} /\ MaxMembers \in Nat \ {0}
  /\ MergeMax \in Nat /\ Grace \in Nat /\ Horizon \in Nat \ {0}
  /\ TickRuns \in BOOLEAN
  /\ MaxFires \in Nat /\ MaxDeletes \in Nat /\ MaxRenotices \in Nat /\ MaxFaults \in Nat

VARIABLES
  second,
  incidents,        \* id -> the item of the incident table
  pointer,          \* inc#{axis}: the id it holds, None without an item
  alarm,            \* series -> does CloudWatch show it firing
  episode,          \* series -> episode_open of its fp# item
  started,          \* series -> episode_started_at
  pending,          \* series whose firing awaits a router
  clears,           \* a clearing awaits a router
  run,              \* router -> the progress of its invocation
  ack,              \* person -> the progress of the request
  tick,             \* the progress of the tick on one incident
  lost,             \* (auxiliary) series -> why no open incident may hold it
  left              \* (bound) firings, deletions, repeated notices, failures

vars == <<second, incidents, pointer, alarm, episode, started, pending, clears, run, ack, tick,
          lost, left>>

world == <<second, alarm, episode, started, pending, clears>>

None == 0

Ids == 1 .. Horizon + 1

Statuses == {"none", "triggered", "acknowledged", "resolved"}

IncidentType ==
  [version : Nat, status : Statuses, members : SUBSET Series, by : People \cup {Nobody}]

NoIncident == [version |-> 0, status |-> "none", members |-> {}, by |-> Nobody]

RunType ==
  [pc : {"idle", "pointer", "load", "check", "point", "save", "unpoint"},
   firing : SUBSET Series, now : Nat, attempt : 0 .. MaxAttempts - 1, seen : Ids \cup {None},
   id : Ids \cup {None}, base : IncidentType, next : IncidentType, todo : SUBSET Series]

Idle ==
  [pc |-> "idle", firing |-> {}, now |-> 0, attempt |-> 0, seen |-> None, id |-> None,
   base |-> NoIncident, next |-> NoIncident, todo |-> {}]

AckType == [pc : {"idle", "read", "save"}, id : Ids \cup {None}, attempt : 0 .. MaxAttempts - 1, base : IncidentType]

NoAck == [pc |-> "idle", id |-> None, attempt |-> 0, base |-> NoIncident]

TickType ==
  [pc : {"idle", "stale", "gone", "live", "close", "unpoint", "episodes", "renotify"},
   id : Ids \cup {None}, base : IncidentType, todo : SUBSET Series, quiet : SUBSET Series]

NoTick == [pc |-> "idle", id |-> None, base |-> NoIncident, todo |-> {}, quiet |-> {}]

TypeOK ==
  /\ second \in Nat
  /\ incidents \in [Ids -> IncidentType]
  /\ pointer \in Ids \cup {None}
  /\ alarm \in [Series -> BOOLEAN]
  /\ episode \in [Series -> BOOLEAN]
  /\ started \in [Series -> Nat]
  /\ pending \in SUBSET Series
  /\ clears \in BOOLEAN
  /\ run \in [Routers -> RunType]
  /\ ack \in [People -> AckType]
  /\ tick \in TickType
  /\ lost \in [Series -> {"no", "unrecorded", "tick"}]
  /\ left \in [{"fires", "deletes", "renotices", "faults"} -> Nat]

Init ==
  /\ second = 1
  /\ incidents = [id \in Ids |-> NoIncident]
  /\ pointer = None
  /\ alarm = [s \in Series |-> FALSE]
  /\ episode = [s \in Series |-> FALSE]
  /\ started = [s \in Series |-> 0]
  /\ pending = {}
  /\ clears = FALSE
  /\ run = [r \in Routers |-> Idle]
  /\ ack = [p \in People |-> NoAck]
  /\ tick = NoTick
  /\ lost = [s \in Series |-> "no"]
  /\ left = [fires |-> MaxFires, deletes |-> MaxDeletes, renotices |-> MaxRenotices,
             faults |-> MaxFaults]

Lose(S, why) == lost' = [s \in Series |-> IF s \in S THEN why ELSE lost[s]]

Spend(what) == left[what] > 0 /\ left' = [left EXCEPT ![what] = @ - 1]

IsOpen(i) == i.status \in {"triggered", "acknowledged"}

-----------------------------------------------------------------------------
(* The world: time, alarms, and the events the ingestor has judged.         *)

Second ==
  /\ second < Horizon
  /\ second' = second + 1
  /\ UNCHANGED <<incidents, pointer, alarm, episode, started, pending, clears, run, ack,
                 tick, lost, left>>

(* While its episode is open the firing may be a duplicate, and not routed. *)
(* Bound: none so late that its grace would outlast the horizon.            *)
Fire(s) ==
  /\ ~alarm[s] /\ second + Grace <= Horizon
  /\ Spend("fires")
  /\ alarm' = [alarm EXCEPT ![s] = TRUE]
  /\ episode' = [episode EXCEPT ![s] = TRUE]
  /\ started' = [started EXCEPT ![s] = IF episode[s] THEN @ ELSE second]
  /\ \/ pending' = pending \cup {s} /\ lost' = [lost EXCEPT ![s] = "no"]
     \/ episode[s] /\ UNCHANGED <<pending, lost>>
  /\ UNCHANGED <<second, incidents, pointer, clears, run, ack, tick>>

Clear(s) ==
  /\ alarm[s]
  /\ alarm' = [alarm EXCEPT ![s] = FALSE]
  /\ episode' = [episode EXCEPT ![s] = FALSE]
  /\ clears' = TRUE
  /\ UNCHANGED <<second, incidents, pointer, started, pending, run, ack, tick, lost, left>>

(* An alarm deleted while it fires sends no clearing event; one that is     *)
(* lost comes to the same.                                                  *)
Delete(s) ==
  /\ alarm[s]
  /\ Spend("deletes")
  /\ alarm' = [alarm EXCEPT ![s] = FALSE]
  /\ UNCHANGED <<second, incidents, pointer, episode, started, pending, clears, run, ack,
                 tick, lost>>

-----------------------------------------------------------------------------
(* _sync_incident(), run by router r for a group.                           *)

Become(r, changed) == run' = [run EXCEPT ![r] = changed]

(* A group with firing members, or one that only has clearings.             *)
StartRouter(r, F) ==
  /\ run[r].pc = "idle"
  /\ F \subseteq pending
  /\ F = {} => clears
  /\ pending' = pending \ F
  /\ clears' \in IF F = {} THEN {FALSE} ELSE {clears, FALSE}
  /\ Become(r, [Idle EXCEPT !.pc = "pointer", !.firing = F, !.now = second])
  /\ UNCHANGED <<second, incidents, pointer, alarm, episode, started, ack, tick, lost, left>>

ReadPointer(r) ==
  /\ run[r].pc = "pointer"
  /\ Become(r, [run[r] EXCEPT !.pc = "load", !.seen = pointer])
  /\ UNCHANGED <<world, incidents, pointer, ack, tick, lost, left>>

(* What load() returns for the id the pointer held.                         *)
Loaded(r) == IF run[r].seen = None THEN NoIncident ELSE incidents[run[r].seen]

TooOldToMerge(id, now) == now - id > MergeMax

Extensible(r) == IsOpen(Loaded(r)) /\ ~TooOldToMerge(run[r].seen, run[r].now)

(* A bug: the group's members take the place of those already there.        *)
MergedOver(i, F) ==
  {[i EXCEPT !.members = S] : S \in {S \in SUBSET F : Cardinality(S) <= MaxMembers}}

(* Members are added while there is room, in the order the group has them.  *)
Merged(i, F) ==
  LET room == MaxMembers - Cardinality(i.members)
      fresh == F \ i.members
  IN  {[i EXCEPT !.members = @ \cup S] :
         S \in {S \in SUBSET fresh :
                  \/ S = fresh /\ Cardinality(S) <= room
                  \/ Cardinality(S) = room /\ Cardinality(fresh) > room}}

LoadToMerge(r) ==
  /\ run[r].pc = "load"
  /\ run[r].firing # {}
  /\ Extensible(r)
  /\ \E next \in Merged(Loaded(r), run[r].firing) :
       Become(r, [run[r] EXCEPT !.pc = "save", !.id = run[r].seen, !.base = Loaded(r),
                                !.next = next])
  /\ UNCHANGED <<world, incidents, pointer, ack, tick, lost, left>>

(* None is open, or it is too old: a new one, one second later if the name  *)
(* is the old one's.                                                        *)
NewId(r) ==
  IF Loaded(r).status # "none" /\ run[r].seen = run[r].now THEN run[r].now + 1
  ELSE run[r].now

LoadToOpen(r) ==
  /\ run[r].pc = "load"
  /\ run[r].firing # {}
  /\ ~Extensible(r)
  /\ \E next \in Merged([NoIncident EXCEPT !.status = "triggered"], run[r].firing) :
       Become(r, [run[r] EXCEPT !.pc = "point", !.id = NewId(r), !.base = NoIncident,
                                !.next = next])
  /\ UNCHANGED <<world, incidents, pointer, ack, tick, lost, left>>

(* Only clearings: nothing to do, a pointer to tidy up, or members to check.*)
LoadToClear(r) ==
  LET i == Loaded(r)
  IN  /\ run[r].pc = "load"
      /\ run[r].firing = {}
      /\ Become(r, CASE i.status = "none" -> Idle
                     [] i.status = "resolved" ->
                          [run[r] EXCEPT !.pc = "unpoint", !.id = run[r].seen]
                     [] OTHER ->
                          [run[r] EXCEPT !.pc = "check", !.id = run[r].seen, !.base = i,
                                         !.todo = i.members])
      /\ UNCHANGED <<world, incidents, pointer, ack, tick, lost, left>>

(* A fingerprint that cannot be read counts as open.                        *)
ReadsOpen(s, open) ==
  \/ open = episode[s] /\ UNCHANGED left
  \/ open /\ ~episode[s] /\ Spend("faults")

(* _open_fingerprints() reads one member after the other; an open one keeps *)
(* the incident open, and it is saved as it was read.                       *)
CheckMember(r) ==
  /\ run[r].pc = "check"
  /\ \E s \in run[r].todo, open \in BOOLEAN :
       /\ ReadsOpen(s, open)
       /\ Become(r, IF open
                    THEN [run[r] EXCEPT !.pc = "save", !.next = run[r].base, !.todo = {}]
                    ELSE [run[r] EXCEPT !.todo = @ \ {s}])
  /\ UNCHANGED <<world, incidents, pointer, ack, tick, lost>>

(* should_resolve(): there are members, and all of them are closed.         *)
AllChecked(r) ==
  /\ run[r].pc = "check"
  /\ run[r].todo = {}
  /\ Become(r, [run[r] EXCEPT !.pc = "save",
       !.next = IF run[r].base.members = {} THEN run[r].base
                ELSE [run[r].base EXCEPT !.status = "resolved"]])
  /\ UNCHANGED <<world, incidents, pointer, ack, tick, lost, left>>

(* A conflict: read everything again, or give the record up.  (The bug:     *)
(* once more than it may.)                                                  *)
RetryOnceMore(r) ==
  IF run[r].attempt + 1 <= MaxAttempts
    THEN /\ Become(r, [Idle EXCEPT !.pc = "pointer", !.firing = run[r].firing,
                                   !.now = run[r].now, !.attempt = run[r].attempt + 1])
         /\ UNCHANGED lost
    ELSE Become(r, Idle) /\ Lose(run[r].firing, "unrecorded")

Retry(r) ==
  IF run[r].attempt + 1 < MaxAttempts
    THEN /\ Become(r, [Idle EXCEPT !.pc = "pointer", !.firing = run[r].firing,
                                   !.now = run[r].now, !.attempt = run[r].attempt + 1])
         /\ UNCHANGED lost
    ELSE Become(r, Idle) /\ Lose(run[r].firing, "unrecorded")

(* _point(): the pointer moves only if it is what was read.                 *)
Point(r) ==
  /\ run[r].pc = "point"
  /\ pointer = run[r].seen
  /\ pointer' = run[r].id
  /\ Become(r, [run[r] EXCEPT !.pc = "save"])
  /\ UNCHANGED <<world, incidents, ack, tick, lost, left>>

PointTaken(r) ==
  /\ run[r].pc = "point"
  /\ pointer # run[r].seen
  /\ Retry(r)
  /\ UNCHANGED <<world, incidents, pointer, ack, tick, left>>

(* A bug: the incident is written over whatever is there.                   *)
SaveBlindly(r) ==
  LET i == run[r]
  IN  /\ i.pc = "save"
      /\ incidents' = [incidents EXCEPT ![i.id] =
           [i.next EXCEPT !.version = i.base.version + 1]]
      /\ Become(r, IF i.next.status = "resolved"
                   THEN [Idle EXCEPT !.pc = "unpoint", !.id = i.id] ELSE Idle)
      /\ UNCHANGED <<world, pointer, ack, tick, lost, left>>

(* save(): version 0 is an item that must not exist yet.                    *)
Save(r) ==
  LET i == run[r]
  IN  /\ i.pc = "save"
      /\ incidents[i.id].version = i.base.version
      /\ incidents' = [incidents EXCEPT ![i.id] =
           [i.next EXCEPT !.version = i.base.version + 1]]
      /\ Become(r, IF i.next.status = "resolved"
                   THEN [Idle EXCEPT !.pc = "unpoint", !.id = i.id] ELSE Idle)
      /\ UNCHANGED <<world, pointer, ack, tick, lost, left>>

SaveConflict(r) ==
  /\ run[r].pc = "save"
  /\ incidents[run[r].id].version # run[r].base.version
  /\ Retry(r)
  /\ UNCHANGED <<world, incidents, pointer, ack, tick, left>>

Unpointed(id) == pointer' = IF pointer = id THEN None ELSE pointer

Unpoint(r) ==
  /\ run[r].pc = "unpoint"
  /\ Unpointed(run[r].id)
  /\ Become(r, Idle)
  /\ UNCHANGED <<world, incidents, ack, tick, lost, left>>

(* A table cannot be read or written: the group is sent without a record.   *)
RouterGivesUp(r) ==
  /\ run[r].pc \in {"pointer", "load", "point", "save"}
  /\ Spend("faults")
  /\ Become(r, Idle)
  /\ Lose(run[r].firing, "unrecorded")
  /\ UNCHANGED <<world, incidents, pointer, ack, tick>>

(* The invocation dies; Step Functions runs it again.                       *)
RouterDies(r) ==
  /\ run[r].pc # "idle"
  /\ Spend("faults")
  /\ Become(r, Idle)
  /\ pending' = pending \cup run[r].firing
  /\ clears' = (clears \/ run[r].firing = {})
  /\ UNCHANGED <<second, incidents, pointer, alarm, episode, started, ack, tick, lost>>

-----------------------------------------------------------------------------
(* ack_incident(), by person p.                                             *)

(* The request, with its first read.  Resolved and acknowledged incidents   *)
(* are left as they are.                                                    *)
RequestAck(p, id) ==
  /\ ack[p].pc = "idle"
  /\ incidents[id].status = "triggered"
  /\ ack' = [ack EXCEPT ![p] = [NoAck EXCEPT !.pc = "save", !.id = id, !.base = incidents[id]]]
  /\ UNCHANGED <<world, incidents, pointer, run, tick, lost, left>>

(* The next read, after a conflict.                                         *)
AckRead(p) ==
  LET i == incidents[ack[p].id]
  IN  /\ ack[p].pc = "read"
      /\ ack' = [ack EXCEPT ![p] =
           IF i.status = "triggered" THEN [ack[p] EXCEPT !.pc = "save", !.base = i]
           ELSE NoAck]
      /\ UNCHANGED <<world, incidents, pointer, run, tick, lost, left>>

AckSave(p) ==
  LET a == ack[p]
  IN  /\ a.pc = "save"
      /\ incidents[a.id].version = a.base.version
      /\ incidents' = [incidents EXCEPT ![a.id] =
           [a.base EXCEPT !.status = "acknowledged", !.by = p,
                          !.version = a.base.version + 1]]
      /\ ack' = [ack EXCEPT ![p] = NoAck]
      /\ UNCHANGED <<world, pointer, run, tick, lost, left>>

AckConflict(p) ==
  LET a == ack[p]
  IN  /\ a.pc = "save"
      /\ incidents[a.id].version # a.base.version
      /\ ack' = [ack EXCEPT ![p] =
           IF a.attempt + 1 < MaxAttempts
             THEN [NoAck EXCEPT !.pc = "read", !.id = a.id, !.attempt = a.attempt + 1]
             ELSE NoAck]
      /\ UNCHANGED <<world, incidents, pointer, run, tick, lost, left>>

-----------------------------------------------------------------------------
(* tick(), on one of the incidents its scan found open.                     *)

StartTick(id) ==
  /\ TickRuns
  /\ tick.pc = "idle"
  /\ IsOpen(incidents[id])
  /\ tick' = [NoTick EXCEPT !.pc = "stale", !.id = id, !.base = incidents[id],
                            !.todo = incidents[id].members]
  /\ UNCHANGED <<world, incidents, pointer, run, ack, lost, left>>

(* _resolve_if_stale(): every member closed, or go on to _resolve_if_gone().*)
TickStale ==
  /\ tick.pc = "stale"
  /\ \E s \in tick.todo, open \in BOOLEAN :
       /\ ReadsOpen(s, open)
       /\ tick' = IF open THEN [tick EXCEPT !.pc = "gone", !.todo = tick.base.members]
                  ELSE [tick EXCEPT !.todo = @ \ {s}]
  /\ UNCHANGED <<world, incidents, pointer, run, ack, lost>>

TickAllClosed ==
  /\ tick.pc = "stale"
  /\ tick.todo = {}
  /\ tick' = [tick EXCEPT !.pc = IF tick.base.members = {} THEN "gone" ELSE "close"]
  /\ UNCHANGED <<world, incidents, pointer, run, ack, lost, left>>

(* _resolve_if_gone(), first _open_episodes(): which members are open.      *)
TickOpen ==
  /\ tick.pc = "gone"
  /\ \E s \in tick.todo :
       tick' = [tick EXCEPT !.todo = @ \ {s},
                            !.quiet = IF episode[s] THEN @ \cup {s} ELSE @]
  /\ UNCHANGED <<world, incidents, pointer, run, ack, lost, left>>

(* A bug: what is gone from CloudWatch is left to its clearing event.       *)
WaitForClear ==
  /\ tick.pc = "gone"
  /\ tick.todo = {}
  /\ tick' = [tick EXCEPT !.pc = "renotify"]
  /\ UNCHANGED <<world, incidents, pointer, run, ack, lost, left>>

TickOpenRead ==
  /\ tick.pc = "gone"
  /\ tick.todo = {}
  /\ tick' = IF tick.quiet = {} THEN [tick EXCEPT !.pc = "renotify"]
             ELSE [tick EXCEPT !.pc = "live", !.todo = tick.quiet]
  /\ UNCHANGED <<world, incidents, pointer, run, ack, lost, left>>

Young(s) == second - started[s] < Grace

(* Then each of them must be silent in CloudWatch, for certain.             *)
TickSilent ==
  /\ tick.pc = "live"
  /\ \E s \in tick.todo :
       /\ ~Young(s) /\ ~alarm[s]
       /\ tick' = [tick EXCEPT !.todo = @ \ {s}]
  /\ UNCHANGED <<world, incidents, pointer, run, ack, lost, left>>

(* A firing one, one younger than the grace, or one whose region cannot be  *)
(* listed ends the look at this incident.                                   *)
TickKeeps ==
  /\ tick.pc = "live"
  /\ \E s \in tick.todo : \/ ((alarm[s] \/ Young(s)) /\ UNCHANGED left)
                           \/ Spend("faults")
  /\ tick' = [tick EXCEPT !.pc = "renotify", !.todo = {}, !.quiet = {}]
  /\ UNCHANGED <<world, incidents, pointer, run, ack, lost>>

TickAllSilent ==
  /\ tick.pc = "live"
  /\ tick.todo = {}
  /\ tick' = [tick EXCEPT !.pc = "close"]
  /\ UNCHANGED <<world, incidents, pointer, run, ack, lost, left>>

(* _close(): an update on condition that the incident is not resolved; what *)
(* was read of it does not matter.                                          *)
TickClose ==
  /\ tick.pc = "close"
  /\ IF incidents[tick.id].status # "resolved"
       THEN /\ incidents' = [incidents EXCEPT ![tick.id].status = "resolved",
                                              ![tick.id].version = @ + 1]
            /\ tick' = [tick EXCEPT !.pc = "unpoint"]
            /\ Lose({s \in incidents[tick.id].members : episode[s]}, "tick")
       ELSE UNCHANGED <<incidents, lost>> /\ tick' = [tick EXCEPT !.pc = "renotify"]
  /\ UNCHANGED <<world, pointer, run, ack, left>>

TickUnpoint ==
  /\ tick.pc = "unpoint"
  /\ Unpointed(tick.id)
  /\ tick' = [tick EXCEPT !.pc = "episodes"]
  /\ UNCHANGED <<world, incidents, run, ack, lost, left>>

(* The episodes of the alarms that are gone are closed one by one.          *)
TickEpisode ==
  /\ tick.pc = "episodes"
  /\ IF tick.quiet = {} THEN tick' = NoTick /\ UNCHANGED episode
     ELSE \E s \in tick.quiet : /\ episode' = [episode EXCEPT ![s] = FALSE]
                                /\ tick' = [tick EXCEPT !.quiet = @ \ {s}]
  /\ UNCHANGED <<second, incidents, pointer, alarm, started, pending, clears, run, ack,
                 lost, left>>

(* _renotify(): an incident acknowledged long ago is marked, as it was read *)
(* and on condition of its version; otherwise it waits for the next tick.   *)
TickRenotify ==
  /\ tick.pc = "renotify"
  /\ \/ UNCHANGED <<incidents, left>>
     \/ /\ tick.base.status = "acknowledged"
        /\ incidents[tick.id].version = tick.base.version
        /\ Spend("renotices")
        /\ incidents' = [incidents EXCEPT ![tick.id] =
             [tick.base EXCEPT !.version = tick.base.version + 1]]
  /\ tick' = NoTick
  /\ UNCHANGED <<world, pointer, run, ack, lost>>

(* The tick dies; five minutes later the next one starts over.              *)
TickDies ==
  /\ tick.pc # "idle"
  /\ Spend("faults")
  /\ tick' = NoTick
  /\ UNCHANGED <<world, incidents, pointer, run, ack, lost>>

-----------------------------------------------------------------------------
Environment == Second \/ \E s \in Series : Fire(s) \/ Clear(s) \/ Delete(s)

Sync(r) ==
  \/ ReadPointer(r) \/ LoadToMerge(r) \/ LoadToOpen(r) \/ LoadToClear(r)
  \/ CheckMember(r) \/ AllChecked(r) \/ Point(r) \/ PointTaken(r)
  \/ Save(r) \/ SaveConflict(r) \/ Unpoint(r)

Start(r) == \E F \in SUBSET pending : StartRouter(r, F)

Route(r) == Start(r) \/ Sync(r) \/ RouterGivesUp(r) \/ RouterDies(r)

AckStep(p) == AckRead(p) \/ AckSave(p) \/ AckConflict(p)

Request(p) == \E id \in Ids : RequestAck(p, id)

TickStep ==
  \/ TickStale \/ TickAllClosed \/ TickOpen \/ TickOpenRead \/ TickSilent \/ TickKeeps
  \/ TickAllSilent \/ TickClose \/ TickUnpoint \/ TickEpisode \/ TickRenotify

Next ==
  \/ Environment
  \/ \E r \in Routers : Route(r)
  \/ \E p \in People : Request(p) \/ AckStep(p)
  \/ \E id \in Ids : StartTick(id)
  \/ TickStep \/ TickDies

Spec == Init /\ [][Next]_vars

(* A router is started for every firing and clearing, runs to its end, and  *)
(* the tick, every five minutes, looks at every open incident in turn.      *)
Fairness ==
  /\ WF_vars(Second) /\ WF_vars(TickStep)
  /\ \A r \in Routers : WF_vars(Start(r)) /\ WF_vars(Sync(r))
  /\ \A p \in People : WF_vars(AckStep(p))
  /\ \A id \in Ids : SF_vars(StartTick(id))

FairSpec == Spec /\ Fairness

-----------------------------------------------------------------------------
(* The item of an incident, without what the store manages.                 *)
Life(i) == [status |-> i.status, members |-> i.members, by |-> i.by]

L == INSTANCE IncidentLifecycle WITH incident <- [id \in Ids |-> Life(incidents[id])]

(* Whoever writes an incident writes one step of its life: an               *)
(* acknowledgement is never undone, a resolved incident never comes back,   *)
(* no member disappears (incident_store.py 1-11: "the acknowledgement       *)
(* vanished and it went back to triggered").                                *)
OneLife == L!Spec

InFlight == UNION {run[r].firing : r \in Routers}

(* A series that fires and went through a router that could record it is in *)
(* an open incident (R4-4: an incident lives until all its causes are gone),*)
(* unless the tick closed it over its head: routers and people, whatever    *)
(* they interleave, lose nobody.                                            *)
Covered ==
  \A s \in Series :
    episode[s] /\ s \notin pending \cup InFlight /\ lost[s] \notin {"unrecorded", "tick"} =>
      \E id \in Ids : IsOpen(incidents[id]) /\ s \in incidents[id].members

(* Whatever was lost on the way - a clearing, a router, a tick - no         *)
(* incident is open for good while all of its members are silent            *)
(* (_resolve_if_stale: "set right within five minutes, whatever the cause").*)
Reconciled ==
  \A id \in Ids :
    []<>(IsOpen(incidents[id]) => \E s \in incidents[id].members : alarm[s])
=============================================================================
