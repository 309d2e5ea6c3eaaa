---------------------------- MODULE AlertJudgement ----------------------------
(***************************************************************************)
(* What the state table promises for one fingerprint: whoever touches the   *)
(* item, its history is one sequence of whole judgements.  Each event that  *)
(* is judged with the state takes the item from one state to the state      *)
(* after it in a single step; a judgement made without the state (reading   *)
(* or writing failed, too many conflicts) leaves the item alone.            *)
(* AlertIngestor, where every judgement is a read and a later conditional   *)
(* write, implements this module.                                           *)
(***************************************************************************)
EXTENDS AlertSuppression, Sequences

CONSTANT Events     \* the events of one fingerprint

ASSUME EventsAssumption == Events \subseteq EventType

VARIABLES
  state,            \* the item fp#{fingerprint}
  log               \* every decision taken, in the order it was taken

vars == <<state, log>>

Entry(ev, decision) == [ev |-> ev, decision |-> decision]

EntryType == [ev : Events, decision : DecisionType]

Confirmed == Decision("notify", "auto_pause_expired")

Deferred(ev) == \E i \in DOMAIN log : log[i] = Entry(ev, Decision("defer", "auto_pause"))

Init == state = NoState /\ log = <<>>

(* _decide_with_state() that saved its result, or had nothing to save.      *)
Judge(ev) ==
  /\ state' = After(state, ev)
  /\ log' = Append(log, Entry(ev, Decide(state, ev)))

(* _decide_with_state() failing open: read failure, write failure or        *)
(* contention.  The decision may come from a state the item no longer has.  *)
JudgeWithoutState(ev) ==
  /\ \E decision \in DecisionType : log' = Append(log, Entry(ev, decision))
  /\ UNCHANGED state

(* _mark_notified(): the grace of a deferred event has passed and its       *)
(* notice goes out.                                                         *)
Confirm(ev) ==
  /\ Deferred(ev)
  /\ state.episode_open
  /\ state' = RecordNotice(state, ev.at)
  /\ log' = Append(log, Entry(ev, Confirmed))

(* The episode update at the end of _resolve_if_gone(): CloudWatch no       *)
(* longer shows the alarm firing, and no clearing event will come.          *)
Vanish ==
  /\ state.episode_open
  /\ state' = CloseEpisode(state)
  /\ UNCHANGED log

Next ==
  \/ \E ev \in Events : Judge(ev) \/ JudgeWithoutState(ev) \/ Confirm(ev)
  \/ Vanish

Spec == Init /\ [][Next]_vars

-----------------------------------------------------------------------------
(* Entry i is a notice that the alarm fires.                                *)
Notice(i) == IsFiring(log[i].ev) /\ log[i].decision.action = "notify"

ClearNotice(i) == log[i].ev.kind = "clearing" /\ log[i].decision.action = "notify"

(* Firing events some suppression rule may hold back.                       *)
Suppressible(i) == IsFiring(log[i].ev) /\ log[i].ev.severity \notin ExemptSeverities

Elapsed(i, j) == log[j].ev.at - log[i].ev.at

(* So far the alarm went in and out of ALARM, and its events were judged    *)
(* once each, in the order they occurred.                                   *)
InOrder ==
  LET judged == {i \in DOMAIN log : log[i].decision # Confirmed}
  IN  \A i, j \in judged : i < j =>
        /\ log[i].ev.at < log[j].ev.at
        /\ {log[i].ev.kind, log[j].ev.kind} \subseteq {"firing", "clearing"}
        /\ log[i].ev.kind = log[j].ev.kind => judged \cap (i + 1 .. j - 1) # {}

(* Two notices of one fingerprint are at least the repeat interval apart.   *)
Spaced ==
  \A j \in DOMAIN log : \A i \in 1 .. j - 1 :
    Notice(i) /\ Notice(j) /\ Suppressible(j)
      => Elapsed(i, j) \notin 0 .. RepeatInterval - 1

(* Events judged in order leave two notices at least the repeat interval    *)
(* apart, whatever lies between them: clearings, quarantines, deferrals and *)
(* their confirmations (DEFAULT_REPEAT_INTERVAL_SEC, rule 4 of decide()).   *)
RateLimited == InOrder => Spaced

(* An event is dropped as a duplicate only after a notice actually went out *)
(* for this fingerprint inside the interval: a suppressed or deferred       *)
(* firing never pushes the window along (apply_event, _mark_notified).      *)
DedupCovered ==
  \A j \in DOMAIN log : log[j].decision.reason = "dedup" =>
    \E i \in 1 .. j - 1 : Notice(i) /\ Elapsed(i, j) \in 0 .. RepeatInterval - 1

(* A clearing is announced only to somebody who was told of the firing it   *)
(* ends, and once: since that notice no other clearing arrived.             *)
ClearNoticePaired ==
  \A j \in DOMAIN log : ClearNotice(j) =>
    \E i \in 1 .. j - 1 :
      /\ Notice(i)
      /\ \A k \in i + 1 .. j - 1 : log[k].ev.kind # "clearing"

(* The firings judged up to entry j.                                        *)
EpisodesUpTo(j) ==
  {log[i].ev.at : i \in {k \in 1 .. j : IsFiring(log[k].ev)}}

(* The firing that makes the window hold FlapLimit episodes, and those      *)
(* after it, wake nobody: is_flapping() on the episodes remembered agrees   *)
(* with the count over every firing that really happened.                   *)
FlappingContained ==
  InOrder => \A j \in DOMAIN log :
    Suppressible(j) /\ log[j].decision.action \in {"notify", "defer"}
      /\ log[j].decision # Confirmed
      => ~TooManyEpisodes(Cardinality({t \in EpisodesUpTo(j) : t >= log[j].ev.at - FlapWindow}))

(* A quarantine lasts QuarantineTime from the firing that started it, also  *)
(* when the window empties meanwhile.                                       *)
QuarantineServed ==
  InOrder => \A i \in DOMAIN log : \A j \in i + 1 .. Len(log) :
    /\ log[i].decision.reason = "flapping"
    /\ \A k \in 1 .. i - 1 :
         log[k].decision.reason = "flapping" => Elapsed(k, i) >= QuarantineTime
    /\ Elapsed(i, j) \in 0 .. QuarantineTime - 1
    /\ Suppressible(j) /\ log[j].decision # Confirmed
    => log[j].decision.action = "suppress"

(* An event delivered twice in a row counts once (alert_state.py, "the      *)
(* same event applied twice gives the same result"), in every state the     *)
(* item can reach.                                                          *)
RedeliveryIdempotent ==
  \A ev \in Events : LET once == After(state, ev) IN After(once, ev) = once
=============================================================================
