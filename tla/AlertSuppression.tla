--------------------------- MODULE AlertSuppression ---------------------------
(***************************************************************************)
(* The pure judgement of one alarm event against the state kept for its     *)
(* fingerprint: common/alert_suppression.py (decide, is_flapping, Silence)  *)
(* and common/alert_state.py (inputs_from_state, apply_event).              *)
(*                                                                          *)
(* Instants are seconds, positive numbers; Never stands for a missing       *)
(* timestamp.  The judgement never reads a wall clock: its "now" is the     *)
(* instant at which the event occurred.                                     *)
(***************************************************************************)
EXTENDS Integers, FiniteSets

CONSTANTS
  RepeatInterval,   \* SuppressionPolicy.repeat_interval_sec
  FlapWindow,       \* flapping_window_days, in seconds; 0 disables detection
  FlapLimit,        \* least episode count with count / window_days >= per_day
  QuarantineTime,   \* flapping_quarantine_sec
  Severities,
  ExemptSeverities, \* severities no suppression applies to
  AutoPause,        \* severity -> grace before a notice; 0 means none
  Silences,         \* maintenance windows
  MaxRecent         \* MAX_RECENT_EPISODES, how many episodes are remembered

Never == 0

AnyValue == ""      \* an empty filter of a silence matches everything

ASSUME PolicyAssumption ==
  /\ RepeatInterval \in Nat
  /\ FlapWindow \in Nat
  /\ FlapLimit \in Nat \ {0}
  /\ QuarantineTime \in Nat
  /\ ExemptSeverities \subseteq Severities
  /\ AutoPause \in [Severities -> Nat]
  /\ MaxRecent \in Nat \ {0}

Kinds == {"firing", "clearing", "other", "config"}

(* What the judgement reads of an AlertEvent.  kind is "config" for every   *)
(* event that is no state change, "firing" for a transition to ALARM,       *)
(* "clearing" for one from ALARM to OK or INSUFFICIENT_DATA.                *)
EventType == [id : Nat, kind : Kinds, at : Nat \ {Never}, severity : Severities,
              customer : STRING, resource_type : STRING]

IsFiring(ev) == ev.kind = "firing"

Actions == {"notify", "suppress", "defer"}

Reasons == {"", "silence", "flapping", "dedup", "auto_pause", "cleared",
            "not_actionable", "state_contention", "auto_pause_expired"}

DecisionType == [action : Actions, reason : Reasons]

Decision(action, reason) == [action |-> action, reason |-> reason]

(* The item fp#{fingerprint} without the fields the store manages.          *)
StateType == [last_notified_at : Nat, episode_open : BOOLEAN,
              episode_started_at : Nat, episode_notified : BOOLEAN,
              recent_episodes : SUBSET Nat, quarantined_until : Nat]

(* A missing item is judged like one whose fields are all missing.          *)
NoState == [last_notified_at |-> Never, episode_open |-> FALSE,
            episode_started_at |-> Never, episode_notified |-> FALSE,
            recent_episodes |-> {}, quarantined_until |-> Never]

-----------------------------------------------------------------------------
(* The n latest instants of a set.                                          *)
Latest(n, S) == {t \in S : Cardinality({u \in S : u > t}) < n}

(* Mutant of EpisodesInWindow: the event itself is not counted.             *)
EpisodesBefore(state, ev) ==
  Latest(MaxRecent, {t \in state.recent_episodes : t >= ev.at - FlapWindow})

(* Firing instants inside the window, the event's own included, capped.     *)
EpisodesInWindow(state, ev) ==
  LET candidates == state.recent_episodes \cup
                      {t \in {ev.at} : IsFiring(ev)}
  IN  Latest(MaxRecent, {t \in candidates : t >= ev.at - FlapWindow})

TooManyEpisodes(count) == FlapWindow > 0 /\ count >= FlapLimit

Quarantined(state, now) ==
  state.quarantined_until # Never /\ now < state.quarantined_until

(* Mutant of IsFlapping: the window alone decides.                          *)
WindowOnly(state, ev) ==
  IsFiring(ev) /\ TooManyEpisodes(Cardinality(EpisodesInWindow(state, ev)))

IsFlapping(state, ev) ==
  \/ Quarantined(state, ev.at)
  \/ IsFiring(ev) /\ TooManyEpisodes(Cardinality(EpisodesInWindow(state, ev)))

(* Mutant of AlreadyNotified: an open episode counts as announced.          *)
OpenIsNotified(state) == state.episode_open

AlreadyNotified(state) == state.episode_open /\ state.episode_notified

Covers(silence, ev) ==
  /\ silence.starts_at <= ev.at /\ ev.at < silence.ends_at
  /\ silence.customer \in {AnyValue, ev.customer}
  /\ silence.resource_type \in {AnyValue, ev.resource_type}

Silenced(ev) == \E silence \in Silences : Covers(silence, ev)

(* An instant later than the event's (an older event arriving late) is no   *)
(* reason to suppress: the elapsed time is negative.                        *)
WithinRepeat(state, ev) ==
  /\ state.last_notified_at # Never
  /\ ev.at - state.last_notified_at \in 0 .. (RepeatInterval - 1)

(* decide() on the inputs inputs_from_state() extracts: the first rule that *)
(* applies gives the decision.                                              *)
Decide(state, ev) ==
  IF ev.kind = "config" THEN Decision("suppress", "not_actionable")
  ELSE IF ev.kind = "clearing"
    THEN Decision(IF AlreadyNotified(state) THEN "notify" ELSE "suppress", "cleared")
  ELSE IF ~IsFiring(ev) THEN Decision("suppress", "not_actionable")
  ELSE IF ev.severity \in ExemptSeverities THEN Decision("notify", "")
  ELSE IF Silenced(ev) THEN Decision("suppress", "silence")
  ELSE IF IsFlapping(state, ev) THEN Decision("suppress", "flapping")
  ELSE IF WithinRepeat(state, ev) THEN Decision("suppress", "dedup")
  ELSE IF AutoPause[ev.severity] > 0 THEN Decision("defer", "auto_pause")
  ELSE Decision("notify", "")

-----------------------------------------------------------------------------
(* Mutant of OpenEpisode: a firing during an episode begins a new one.      *)
OpenAgain(state, ev) ==
  [state EXCEPT !.episode_open = TRUE, !.episode_started_at = ev.at,
                !.episode_notified = FALSE]

(* The three independent effects of a firing event, each as in apply_event. *)
OpenEpisode(state, ev) ==
  IF state.episode_open THEN state
  ELSE [state EXCEPT !.episode_open = TRUE, !.episode_started_at = ev.at,
                     !.episode_notified = FALSE]

RecordNotice(state, at) ==
  [state EXCEPT !.last_notified_at = at, !.episode_notified = TRUE]

StartQuarantine(state, now) ==
  IF Quarantined(state, now) THEN state
  ELSE [state EXCEPT !.quarantined_until = now + QuarantineTime]

(* Mutants of CloseEpisode: the last notice is forgotten; the episode is    *)
(* left open.                                                               *)
ForgetNotice(state) == [state EXCEPT !.episode_open = FALSE, !.last_notified_at = Never]

LeaveOpen(state) == state

CloseEpisode(state) == [state EXCEPT !.episode_open = FALSE]

(* Mutants of ApplyFiring: every firing renews the dedup window; a deferred *)
(* notice counts as sent.                                                   *)
RenewAlways(state, ev, decision) ==
  LET counted  == [state EXCEPT !.recent_episodes = EpisodesInWindow(state, ev)]
      opened   == OpenEpisode(counted, ev)
      noticed  == IF decision.action = "notify" THEN RecordNotice(opened, ev.at)
                  ELSE [opened EXCEPT !.last_notified_at = ev.at]
  IN  IF decision.reason = "flapping" THEN StartQuarantine(noticed, ev.at)
      ELSE noticed

CountDeferred(state, ev, decision) ==
  LET counted  == [state EXCEPT !.recent_episodes = EpisodesInWindow(state, ev)]
      opened   == OpenEpisode(counted, ev)
      noticed  == IF decision.action # "suppress" THEN RecordNotice(opened, ev.at)
                  ELSE opened
  IN  IF decision.reason = "flapping" THEN StartQuarantine(noticed, ev.at)
      ELSE noticed

ApplyFiring(state, ev, decision) ==
  LET counted  == [state EXCEPT !.recent_episodes = EpisodesInWindow(state, ev)]
      opened   == OpenEpisode(counted, ev)
      noticed  == IF decision.action = "notify" THEN RecordNotice(opened, ev.at)
                  ELSE opened
  IN  IF decision.reason = "flapping" THEN StartQuarantine(noticed, ev.at)
      ELSE noticed

(* apply_event(): the state after the event and its decision.               *)
Apply(state, ev, decision) ==
  CASE IsFiring(ev)          -> ApplyFiring(state, ev, decision)
    [] ev.kind = "clearing"  -> CloseEpisode(state)
    [] OTHER                 -> state

(* The state after an event judged on it.                                   *)
After(state, ev) == Apply(state, ev, Decide(state, ev))

(* should_group(): events that are sent, or may be sent after their grace.  *)
ShouldGroup(ev, decision) ==
  ev.kind # "config" /\ decision.action \in {"notify", "defer"}
=============================================================================
