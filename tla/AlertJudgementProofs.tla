-------------------------- MODULE AlertJudgementProofs --------------------------
(***************************************************************************)
(* For every policy and set of events, and logs of any length: an event     *)
(* delivered twice in a row counts once.  While the state can be read and   *)
(* saved, what is dropped as a duplicate repeats a notice that went out, a  *)
(* clearing is announced to who was told of the firing, once, a quarantine  *)
(* lasts its time, an alarm that flaps gets quiet, and notices keep their   *)
(* distance.  A judgement made without the state promises none of these.    *)
(***************************************************************************)
EXTENDS AlertJudgement, FiniteSetTheorems, WellFoundedInduction, TLAPS

-----------------------------------------------------------------------------
(* What the n latest instants of a finite set are good for.                 *)
Smaller == {ss \in Nat \X Nat : ss[1] < ss[2]}

LEMMA LeastNumber ==
  ASSUME NEW T \in SUBSET Nat, T # {}
  PROVE  \E m \in T : \A n \in T : m <= n
<1>1. IsWellFoundedOn(Smaller, Nat)
  BY NatLessThanWellFounded DEF OpToRel, Smaller
<1>2. PICK m \in T : \A n \in T : ~(<<n, m>> \in Smaller)
  BY <1>1, WFMin
<1>3. ASSUME NEW n \in T PROVE m <= n
  <2>1. <<n, m>> \in Nat \X Nat /\ ~(<<n, m>> \in Smaller)
    BY <1>2
  <2> QED  BY <2>1 DEF Smaller
<1> QED  BY <1>3

Later(S, t) == {u \in S : u > t}

LEMMA LaterIsFinite ==
  ASSUME NEW S \in SUBSET Nat, IsFiniteSet(S), NEW t
  PROVE  IsFiniteSet(Later(S, t)) /\ Cardinality(Later(S, t)) \in Nat
<1>1. Later(S, t) \subseteq S
  BY DEF Later
<1>2. IsFiniteSet(Later(S, t))
  BY <1>1, FS_Subset
<1> QED  BY <1>2, FS_CardinalityType

(* Of two instants the later one has fewer after it.                        *)
LEMMA FewerLater ==
  ASSUME NEW S \in SUBSET Nat, IsFiniteSet(S), NEW t \in Nat, NEW u \in S, t < u
  PROVE  Cardinality(Later(S, u)) < Cardinality(Later(S, t))
<1> DEFINE above == Later(S, u)
           more  == Later(S, t)
<1>1. /\ IsFiniteSet(above) /\ IsFiniteSet(more)
      /\ Cardinality(above) \in Nat /\ Cardinality(more) \in Nat
  BY LaterIsFinite
<1>2. above \subseteq more /\ u \in more /\ u \notin above
  <2>1. \A v \in S : v \in Nat /\ (v > u => v > t)
    OBVIOUS
  <2>2. u \in Nat /\ ~(u > u)
    OBVIOUS
  <2> QED  BY <2>1, <2>2 DEF Later
<1> HIDE DEF above, more
<1>3. Cardinality(above) <= Cardinality(more)
  BY <1>1, <1>2, FS_Subset
<1>5. Cardinality(above) # Cardinality(more)
  BY <1>1, <1>2, FS_Subset
<1>4. Cardinality(above) < Cardinality(more)
  BY <1>1, <1>3, <1>5
<1> QED  BY <1>4 DEF above, more

(* A finite set that is not empty has a last instant.                       *)
LEMMA LastInstant ==
  ASSUME NEW S \in SUBSET Nat, IsFiniteSet(S), S # {}
  PROVE  \E m \in S : \A t \in S : t <= m
<1> DEFINE counts == {Cardinality(Later(S, t)) : t \in S}
<1>1. counts \in SUBSET Nat /\ counts # {}
  BY LaterIsFinite
<1>2. PICK c \in counts : \A d \in counts : c <= d
  BY <1>1, LeastNumber
<1>3. PICK m \in S : Cardinality(Later(S, m)) = c
  OBVIOUS
<1>4. ASSUME NEW t \in S, m < t PROVE FALSE
  <2>1. Cardinality(Later(S, t)) < c /\ c <= Cardinality(Later(S, t))
    BY <1>2, <1>3, <1>4, FewerLater
  <2>2. Cardinality(Later(S, t)) \in Nat /\ c \in Nat
    BY <1>1, LaterIsFinite
  <2> QED  BY <2>1, <2>2
<1>5. \A t \in S : t <= m
  BY <1>4
<1> QED  BY <1>5

LEMMA LatestLater ==
  ASSUME NEW S, NEW n
  PROVE  Latest(n, S) = {t \in S : Cardinality(Later(S, t)) < n}
  BY DEF Latest, Later

(* Where n instants or more are later than t, n of the latest are.          *)
LEMMA LatestHasThem ==
  ASSUME NEW S \in SUBSET Nat, IsFiniteSet(S), NEW n \in Nat, NEW t \in Nat,
         Cardinality(Later(S, t)) >= n
  PROVE  Cardinality(Later(Latest(n, S), t)) >= n
<1> DEFINE kept == Latest(n, S)
           lost == {u \in Later(S, t) : u \notin kept}
<1>1. kept = {u \in S : Cardinality(Later(S, u)) < n}
  BY LatestLater
<1>2. kept \subseteq S /\ IsFiniteSet(kept) /\ lost \subseteq S /\ IsFiniteSet(lost)
  <2>1. kept \subseteq S /\ lost \subseteq S
    BY <1>1 DEF Later
  <2> QED  BY <2>1, FS_Subset
<1>3. IsFiniteSet(Later(kept, t)) /\ Cardinality(Later(kept, t)) \in Nat
  BY <1>2, LaterIsFinite
<1> HIDE DEF kept
<1>4. CASE lost = {}
  <2>1. Later(kept, t) = Later(S, t)
    BY <1>2, <1>4 DEF Later
  <2> QED  BY <2>1 DEF kept
<1>5. CASE lost # {}
  <2>1. PICK u \in lost : \A v \in lost : v <= u
    BY <1>2, <1>5, LastInstant
  <2>2. u \in S /\ u \in Nat /\ u > t /\ u \notin kept
    BY <1>2 DEF Later
  <2>3. Later(S, u) \subseteq Later(kept, t)
    <3> SUFFICES ASSUME NEW v \in S, v > u PROVE v \in kept /\ v > t
      BY DEF Later
    <3>1. v > t /\ v \in Nat
      BY <2>2
    <3>2. v \notin lost
      BY <2>1, <2>2, <3>1
    <3> QED  BY <3>1, <3>2 DEF Later
  <2>4. Cardinality(Later(S, u)) \in Nat /\ Cardinality(Later(S, u)) >= n
    BY <1>1, <2>2, LaterIsFinite
  <2>5. Cardinality(Later(S, u)) <= Cardinality(Later(kept, t))
    BY <1>3, <2>3, FS_Subset
  <2>6. Cardinality(Later(kept, t)) >= n
    BY <1>3, <2>4, <2>5
  <2> QED  BY <2>6 DEF kept
<1> QED  BY <1>4, <1>5

(* An instant that was looked at once changes nothing when it is again.     *)
LEMMA LatestAgain ==
  ASSUME NEW S \in SUBSET Nat, IsFiniteSet(S), NEW n \in Nat, NEW t \in S
  PROVE  Latest(n, Latest(n, S) \cup {t}) = Latest(n, S)
<1> DEFINE kept == Latest(n, S)
           again == kept \cup {t}
<1>1. kept = {u \in S : Cardinality(Later(S, u)) < n}
  BY LatestLater
<1>2. kept \subseteq S /\ again \subseteq S /\ IsFiniteSet(again) /\ again \in SUBSET Nat
  <2>1. again \subseteq S
    BY <1>1
  <2> QED  BY <2>1, FS_Subset
<1>3. Latest(n, again) = {u \in again : Cardinality(Later(again, u)) < n}
  BY LatestLater
<1>4. ASSUME NEW u \in kept PROVE Cardinality(Later(again, u)) < n
  <2>1. Later(again, u) \subseteq Later(S, u)
    BY <1>2 DEF Later
  <2>2. /\ IsFiniteSet(Later(S, u)) /\ Cardinality(Later(S, u)) \in Nat
        /\ Cardinality(Later(again, u)) \in Nat
    BY <1>2, LaterIsFinite
  <2>3. Cardinality(Later(again, u)) <= Cardinality(Later(S, u))
    BY <2>1, <2>2, FS_Subset
  <2>4. Cardinality(Later(S, u)) < n
    BY <1>1
  <2> QED  BY <2>2, <2>3, <2>4
<1>5. ASSUME t \notin kept PROVE ~(Cardinality(Later(again, t)) < n)
  <2>1. Cardinality(Later(S, t)) \in Nat /\ Cardinality(Later(S, t)) >= n /\ t \in Nat
    BY <1>1, <1>5, LaterIsFinite
  <2>2. Cardinality(Later(kept, t)) >= n
    BY <2>1, LatestHasThem
  <2>3. Later(again, t) = Later(kept, t)
    BY <2>1 DEF Later
  <2>4. Cardinality(Later(again, t)) \in Nat
    BY <1>2, LaterIsFinite
  <2> HIDE DEF again, kept
  <2> QED  BY <2>2, <2>3, <2>4
<1> HIDE DEF kept
<1>6. Latest(n, again) = kept
  BY <1>3, <1>4, <1>5
<1> QED  BY <1>6 DEF kept, again
-----------------------------------------------------------------------------
(* What decide() returns: a duplicate has a recent notice, a clearing that  *)
(* is announced an announced episode, and only a firing is deferred.        *)
LEMMA DecideFacts ==
  ASSUME NEW s \in StateType, NEW ev \in EventType
  PROVE  LET d == Decide(s, ev) IN
         /\ d \in DecisionType
         /\ d.action = "defer" => IsFiring(ev)
         /\ d.reason = "dedup" => WithinRepeat(s, ev)
         /\ ev.kind = "clearing" /\ d.action = "notify" => AlreadyNotified(s)
  BY DEF Decide, Decision, DecisionType, Actions, Reasons, IsFiring

(* Which rule of decide() applies to a firing.                              *)
LEMMA DecideFiring ==
  ASSUME NEW s \in StateType, NEW ev \in EventType, IsFiring(ev)
  PROVE  LET d == Decide(s, ev) IN
      /\ d \in DecisionType
      /\ ev.severity \in ExemptSeverities => d.action = "notify" /\ d.reason = ""
      /\ ev.severity \notin ExemptSeverities =>
           /\ Silenced(ev) => d.action = "suppress" /\ d.reason = "silence"
           /\ ~Silenced(ev) /\ IsFlapping(s, ev)
                => d.action = "suppress" /\ d.reason = "flapping"
           /\ ~Silenced(ev) /\ ~IsFlapping(s, ev) /\ WithinRepeat(s, ev)
                => d.action = "suppress" /\ d.reason = "dedup"
           /\ ~Silenced(ev) /\ ~IsFlapping(s, ev) /\ ~WithinRepeat(s, ev)
                => /\ d.reason # "flapping" /\ d.reason # "dedup"
                   /\ d.action = IF AutoPause[ev.severity] > 0 THEN "defer" ELSE "notify"
<1>1. Decide(s, ev) \in DecisionType
  BY DecideFacts
<1>2. ev.kind # "config" /\ ev.kind # "clearing"
  BY DEF IsFiring
<1> QED  BY <1>1, <1>2 DEF Decide, Decision

(* A firing that may go out was not found to flap.                          *)
LEMMA PassedIsCalm ==
  ASSUME NEW s \in StateType, NEW ev \in EventType, IsFiring(ev),
         ev.severity \notin ExemptSeverities, Decide(s, ev).action \in {"notify", "defer"}
  PROVE  ~TooManyEpisodes(Cardinality(EpisodesInWindow(s, ev)))
<1>1. ~IsFlapping(s, ev)
  BY DecideFiring
<1> QED  BY <1>1 DEF IsFlapping
-----------------------------------------------------------------------------
(* The fields of the item after a firing (apply_event).                     *)
LEMMA FiringFields ==
  ASSUME NEW s \in StateType, NEW ev \in EventType, NEW d \in DecisionType
  PROVE  LET after == ApplyFiring(s, ev, d) IN
         /\ after \in StateType
         /\ after.recent_episodes = EpisodesInWindow(s, ev)
         /\ after.episode_open
         /\ s.episode_open => after.episode_started_at = s.episode_started_at
         /\ ~s.episode_open => after.episode_started_at = ev.at
         /\ after.episode_notified <=>
              d.action = "notify" \/ (s.episode_open /\ s.episode_notified)
         /\ after.last_notified_at = IF d.action = "notify" THEN ev.at ELSE s.last_notified_at
         /\ after.quarantined_until = IF d.reason = "flapping" /\ ~Quarantined(s, ev.at)
                                      THEN ev.at + QuarantineTime ELSE s.quarantined_until
<1> DEFINE counted == [s EXCEPT !.recent_episodes = EpisodesInWindow(s, ev)]
           opened  == OpenEpisode(counted, ev)
           noticed == IF d.action = "notify" THEN RecordNotice(opened, ev.at) ELSE opened
           after   == IF d.reason = "flapping" THEN StartQuarantine(noticed, ev.at) ELSE noticed
<1>1. ev.at \in Nat /\ ev.at + QuarantineTime \in Nat
  BY PolicyAssumption DEF EventType
<1>2. /\ counted \in StateType /\ counted.recent_episodes = EpisodesInWindow(s, ev)
      /\ counted.last_notified_at = s.last_notified_at
      /\ counted.episode_open = s.episode_open
      /\ counted.episode_started_at = s.episode_started_at
      /\ counted.episode_notified = s.episode_notified
      /\ counted.quarantined_until = s.quarantined_until
  BY DEF StateType, EventType, EpisodesInWindow, Latest
<1> HIDE DEF counted
<1>3. /\ opened \in StateType /\ opened.recent_episodes = EpisodesInWindow(s, ev)
      /\ opened.last_notified_at = s.last_notified_at
      /\ opened.episode_open
      /\ s.episode_open => opened.episode_started_at = s.episode_started_at
      /\ ~s.episode_open => opened.episode_started_at = ev.at
      /\ opened.quarantined_until = s.quarantined_until
      /\ opened.episode_notified <=> s.episode_open /\ s.episode_notified
  BY <1>1, <1>2 DEF OpenEpisode, StateType
<1> HIDE DEF opened
<1>4. /\ noticed \in StateType /\ noticed.recent_episodes = EpisodesInWindow(s, ev)
      /\ noticed.last_notified_at = IF d.action = "notify" THEN ev.at ELSE s.last_notified_at
      /\ noticed.episode_open
      /\ noticed.episode_started_at = opened.episode_started_at
      /\ noticed.quarantined_until = s.quarantined_until
      /\ noticed.episode_notified <=>
           d.action = "notify" \/ (s.episode_open /\ s.episode_notified)
  BY <1>1, <1>3 DEF RecordNotice, StateType
<1> HIDE DEF noticed
<1>5. Quarantined(noticed, ev.at) <=> Quarantined(s, ev.at)
  BY <1>4 DEF Quarantined
<1>6. /\ after \in StateType /\ after.recent_episodes = EpisodesInWindow(s, ev)
      /\ after.last_notified_at = noticed.last_notified_at
      /\ after.episode_open
      /\ after.episode_started_at = noticed.episode_started_at
      /\ after.episode_notified <=> noticed.episode_notified
      /\ after.quarantined_until = IF d.reason = "flapping" /\ ~Quarantined(s, ev.at)
                                   THEN ev.at + QuarantineTime ELSE s.quarantined_until
  BY <1>1, <1>4, <1>5 DEF StartQuarantine, StateType
<1>7. after = ApplyFiring(s, ev, d)
  BY DEF ApplyFiring, after, noticed, opened, counted
<1> HIDE DEF after
<1> QED  BY <1>3, <1>4, <1>6, <1>7

LEMMA FiringAfter ==
  ASSUME NEW s, NEW ev, IsFiring(ev)
  PROVE  After(s, ev) = ApplyFiring(s, ev, Decide(s, ev))
<1>1. ev.kind # "clearing"
  BY DEF IsFiring
<1> QED  BY <1>1 DEF After, Apply

(* Two items are the same when their fields are.                            *)
LEMMA SameItem ==
  ASSUME NEW s \in StateType, NEW t \in StateType,
         s.last_notified_at = t.last_notified_at,
         s.episode_open <=> t.episode_open,
         s.episode_started_at = t.episode_started_at,
         s.episode_notified <=> t.episode_notified,
         s.recent_episodes = t.recent_episodes,
         s.quarantined_until = t.quarantined_until
  PROVE  s = t
<1>1. s.episode_open = t.episode_open /\ s.episode_notified = t.episode_notified
  BY DEF StateType
<1> QED  BY <1>1 DEF StateType

(* apply_event() on the decision of decide().                               *)
LEMMA AfterFacts ==
  ASSUME NEW s \in StateType, NEW ev \in EventType
  PROVE  LET after == After(s, ev)
             told  == IsFiring(ev) /\ Decide(s, ev).action = "notify"
         IN  /\ after \in StateType
             /\ told => after.last_notified_at = ev.at
             /\ ~told => /\ after.last_notified_at = s.last_notified_at
                         /\ AlreadyNotified(after) => AlreadyNotified(s) /\ ev.kind # "clearing"
<1>1. Decide(s, ev) \in DecisionType
  BY DecideFacts
<1>2. CASE IsFiring(ev)
  <2> DEFINE after == ApplyFiring(s, ev, Decide(s, ev))
  <2>1. After(s, ev) = after /\ ev.kind # "clearing"
    BY <1>2, FiringAfter DEF IsFiring
  <2>2. /\ after \in StateType
        /\ after.last_notified_at = IF Decide(s, ev).action = "notify" THEN ev.at
                                    ELSE s.last_notified_at
        /\ Decide(s, ev).action # "notify" => (AlreadyNotified(after) => AlreadyNotified(s))
    BY <1>1, FiringFields DEF AlreadyNotified
  <2> HIDE DEF after
  <2> QED  BY <1>2, <2>1, <2>2
<1>3. CASE ev.kind = "clearing"
  BY <1>3 DEF After, Apply, IsFiring, CloseEpisode, StateType, AlreadyNotified
<1>4. CASE ~IsFiring(ev) /\ ev.kind # "clearing"
  BY <1>4 DEF After, Apply
<1> QED  BY <1>2, <1>3, <1>4

(* A judgement, and what it does to the quarantine.                         *)
LEMMA QuarantineAfter ==
  ASSUME NEW s \in StateType, NEW ev \in EventType
  PROVE  LET d == Decide(s, ev) IN
         /\ After(s, ev).quarantined_until =
              IF d.reason = "flapping" /\ ~Quarantined(s, ev.at)
              THEN ev.at + QuarantineTime ELSE s.quarantined_until
         /\ IsFiring(ev) /\ ev.severity \notin ExemptSeverities /\ Quarantined(s, ev.at)
              => d.action = "suppress"
<1>1. CASE IsFiring(ev)
  <2>1. After(s, ev) = ApplyFiring(s, ev, Decide(s, ev)) /\ Decide(s, ev) \in DecisionType
    BY <1>1, FiringAfter, DecideFiring
  <2>2. After(s, ev).quarantined_until =
          IF Decide(s, ev).reason = "flapping" /\ ~Quarantined(s, ev.at)
          THEN ev.at + QuarantineTime ELSE s.quarantined_until
    BY <2>1, FiringFields
  <2>3. Quarantined(s, ev.at) => IsFlapping(s, ev)
    BY DEF IsFlapping
  <2>4. ev.severity \notin ExemptSeverities /\ IsFlapping(s, ev) => Decide(s, ev).action = "suppress"
    BY <1>1, DecideFiring
  <2> QED  BY <2>2, <2>3, <2>4
<1>2. CASE ~IsFiring(ev)
  <2>1. Decide(s, ev).reason # "flapping"
    BY <1>2 DEF Decide, Decision
  <2>2. After(s, ev).quarantined_until = s.quarantined_until
    BY <1>2 DEF After, Apply, CloseEpisode, StateType
  <2> QED  BY <1>2, <2>1, <2>2
<1> QED  BY <1>1, <1>2
-----------------------------------------------------------------------------
(* The window of a firing, and again once the firing is in it.              *)
LEMMA WindowFacts ==
  ASSUME NEW s \in StateType, NEW ev \in EventType, IsFiniteSet(s.recent_episodes)
  PROVE  /\ EpisodesInWindow(s, ev) \in SUBSET Nat
         /\ IsFiniteSet(EpisodesInWindow(s, ev))
<1> DEFINE firings == s.recent_episodes \cup {t \in {ev.at} : IsFiring(ev)}
           window == {t \in firings : t >= ev.at - FlapWindow}
<1>1. ev.at \in Nat /\ s.recent_episodes \in SUBSET Nat
  BY DEF EventType, StateType
<1>2. IsFiniteSet(firings) /\ firings \in SUBSET Nat
  <2>1. IsFiniteSet(s.recent_episodes \cup {ev.at})
    BY FS_AddElement
  <2>2. firings \subseteq s.recent_episodes \cup {ev.at}
    OBVIOUS
  <2> QED  BY <1>1, <2>1, <2>2, FS_Subset
<1>3. EpisodesInWindow(s, ev) \subseteq firings
  BY DEF EpisodesInWindow, Latest
<1> QED  BY <1>2, <1>3, FS_Subset

LEMMA WindowAgain ==
  ASSUME NEW s \in StateType, NEW t \in StateType, NEW ev \in EventType, IsFiring(ev),
         IsFiniteSet(s.recent_episodes), t.recent_episodes = EpisodesInWindow(s, ev)
  PROVE  EpisodesInWindow(t, ev) = EpisodesInWindow(s, ev)
<1> DEFINE firings == s.recent_episodes \cup {ev.at}
           window == {u \in firings : u >= ev.at - FlapWindow}
           kept == Latest(MaxRecent, window)
<1>1. ev.at \in Nat /\ s.recent_episodes \in SUBSET Nat /\ FlapWindow \in Nat /\ MaxRecent \in Nat
  BY PolicyAssumption DEF EventType, StateType
<1>2. ev.at >= ev.at - FlapWindow
  BY <1>1
<1>3. IsFiniteSet(window) /\ window \in SUBSET Nat /\ ev.at \in window
  <2>1. IsFiniteSet(firings) /\ window \subseteq firings
    BY FS_AddElement
  <2> QED  BY <1>1, <1>2, <2>1, FS_Subset
<1>4. EpisodesInWindow(s, ev) = kept
  <2>1. {u \in {ev.at} : IsFiring(ev)} = {ev.at}
    OBVIOUS
  <2> QED  BY <2>1 DEF EpisodesInWindow
<1>5. Latest(MaxRecent, kept \cup {ev.at}) = kept
  <2> HIDE DEF window
  <2> QED  BY <1>1, <1>3, LatestAgain
<1>6. {u \in kept \cup {ev.at} : u >= ev.at - FlapWindow} = kept \cup {ev.at}
  <2>1. kept \subseteq window
    BY DEF Latest
  <2> HIDE DEF kept
  <2> QED  BY <1>2, <2>1
<1>7. EpisodesInWindow(t, ev) = Latest(MaxRecent, kept \cup {ev.at})
  <2>1. {u \in {ev.at} : IsFiring(ev)} = {ev.at}
    OBVIOUS
  <2> HIDE DEF kept
  <2> QED  BY <1>4, <1>6, <2>1 DEF EpisodesInWindow
<1> QED  BY <1>4, <1>5, <1>7

LEMMA AfterOK ==
  ASSUME NEW s \in StateType, NEW ev \in EventType, IsFiniteSet(s.recent_episodes)
  PROVE  After(s, ev) \in StateType /\ IsFiniteSet(After(s, ev).recent_episodes)
<1>1. After(s, ev) \in StateType
  BY AfterFacts
<1>2. CASE IsFiring(ev)
  <2>1. Decide(s, ev) \in DecisionType
    BY DecideFacts
  <2>2. After(s, ev).recent_episodes = EpisodesInWindow(s, ev)
    <3>1. After(s, ev) = ApplyFiring(s, ev, Decide(s, ev))
      BY <1>2, FiringAfter
    <3> QED  BY <2>1, <3>1, FiringFields
  <2> QED  BY <1>1, <2>2, WindowFacts
<1>3. CASE ~IsFiring(ev)
  <2>1. After(s, ev).recent_episodes = s.recent_episodes
    BY <1>3 DEF After, Apply, CloseEpisode, StateType
  <2> QED  BY <1>1, <2>1
<1> QED  BY <1>2, <1>3

(* The same firing, judged again on the item that it left.                  *)
LEMMA FiringAgain ==
  ASSUME NEW s \in StateType, NEW ev \in EventType, IsFiring(ev),
         IsFiniteSet(s.recent_episodes)
  PROVE  LET once == After(s, ev) IN After(once, ev) = once
<1> DEFINE d == Decide(s, ev)
           once == ApplyFiring(s, ev, d)
           again == Decide(once, ev)
           twice == ApplyFiring(once, ev, again)
<1>1. d \in DecisionType
  BY DecideFiring
<1>2. /\ once \in StateType
      /\ once.recent_episodes = EpisodesInWindow(s, ev)
      /\ once.episode_open
      /\ once.episode_notified <=> d.action = "notify" \/ (s.episode_open /\ s.episode_notified)
      /\ once.last_notified_at = IF d.action = "notify" THEN ev.at ELSE s.last_notified_at
      /\ once.quarantined_until = IF d.reason = "flapping" /\ ~Quarantined(s, ev.at)
                                  THEN ev.at + QuarantineTime ELSE s.quarantined_until
  BY <1>1, FiringFields
<1>3. After(s, ev) = once
  BY FiringAfter
<1>4. After(once, ev) = twice
  BY FiringAfter
<1>5. EpisodesInWindow(once, ev) = EpisodesInWindow(s, ev)
  <2> HIDE DEF once
  <2> QED  BY <1>2, WindowAgain
<1>6. /\ ev.severity \in ExemptSeverities => d.action = "notify" /\ d.reason = ""
      /\ ev.severity \notin ExemptSeverities =>
           /\ Silenced(ev) => d.action = "suppress" /\ d.reason = "silence"
           /\ ~Silenced(ev) /\ IsFlapping(s, ev)
                => d.action = "suppress" /\ d.reason = "flapping"
           /\ ~Silenced(ev) /\ ~IsFlapping(s, ev) /\ WithinRepeat(s, ev)
                => d.action = "suppress" /\ d.reason = "dedup"
           /\ ~Silenced(ev) /\ ~IsFlapping(s, ev) /\ ~WithinRepeat(s, ev)
                => /\ d.reason # "flapping" /\ d.reason # "dedup"
                   /\ d.action = IF AutoPause[ev.severity] > 0 THEN "defer" ELSE "notify"
  BY DecideFiring
<1> HIDE DEF d
<1> HIDE DEF once
<1>7. /\ again \in DecisionType
      /\ ev.severity \in ExemptSeverities => again.action = "notify" /\ again.reason = ""
      /\ ev.severity \notin ExemptSeverities =>
           /\ Silenced(ev) => again.action = "suppress" /\ again.reason = "silence"
           /\ ~Silenced(ev) /\ IsFlapping(once, ev)
                => again.action = "suppress" /\ again.reason = "flapping"
           /\ ~Silenced(ev) /\ ~IsFlapping(once, ev) /\ WithinRepeat(once, ev)
                => again.action = "suppress" /\ again.reason = "dedup"
           /\ ~Silenced(ev) /\ ~IsFlapping(once, ev) /\ ~WithinRepeat(once, ev)
                => /\ again.reason # "flapping" /\ again.reason # "dedup"
                   /\ again.action = IF AutoPause[ev.severity] > 0 THEN "defer" ELSE "notify"
  BY <1>2, DecideFiring
<1>8. again.action = "notify" => d.action = "notify"
  <2>1. IsFlapping(s, ev) /\ d.reason = "flapping" => IsFlapping(once, ev)
    <3>1. CASE Quarantined(s, ev.at)
      BY <1>2, <3>1 DEF IsFlapping, Quarantined
    <3>2. CASE ~Quarantined(s, ev.at)
      BY <1>5, <3>2 DEF IsFlapping
    <3> QED  BY <3>1, <3>2
  <2>2. WithinRepeat(s, ev) /\ d.action # "notify" => WithinRepeat(once, ev)
    BY <1>2 DEF WithinRepeat
  <2> HIDE DEF again
  <2> QED  BY <1>6, <1>7, <2>1, <2>2
<1>9. again.reason = "flapping" /\ ~Quarantined(once, ev.at) =>
        d.reason = "flapping" /\ ~Quarantined(s, ev.at)
  <2> SUFFICES ASSUME again.reason = "flapping", ~Quarantined(once, ev.at)
               PROVE  d.reason = "flapping" /\ ~Quarantined(s, ev.at)
    OBVIOUS
  <2>1. ev.severity \notin ExemptSeverities /\ ~Silenced(ev) /\ IsFlapping(once, ev)
    <3> HIDE DEF again
    <3> QED  BY <1>7
  <2>2. TooManyEpisodes(Cardinality(EpisodesInWindow(s, ev)))
    BY <1>5, <2>1 DEF IsFlapping
  <2>3. IsFlapping(s, ev)
    BY <2>2 DEF IsFlapping
  <2>4. d.reason = "flapping"
    BY <1>6, <2>1, <2>3
  <2>5. ~Quarantined(s, ev.at)
    BY <1>2 DEF Quarantined
  <2> QED  BY <2>4, <2>5
<1>10. /\ twice \in StateType
       /\ twice.recent_episodes = EpisodesInWindow(once, ev)
       /\ twice.episode_open
       /\ twice.episode_started_at = once.episode_started_at
       /\ twice.episode_notified <=>
            again.action = "notify" \/ (once.episode_open /\ once.episode_notified)
       /\ twice.last_notified_at = IF again.action = "notify" THEN ev.at
                                   ELSE once.last_notified_at
       /\ twice.quarantined_until = IF again.reason = "flapping" /\ ~Quarantined(once, ev.at)
                                    THEN ev.at + QuarantineTime ELSE once.quarantined_until
  BY <1>2, <1>7, FiringFields
<1>11. twice = once
  <2> HIDE DEF again, twice
  <2>1. /\ twice.last_notified_at = once.last_notified_at
        /\ twice.quarantined_until = once.quarantined_until
    BY <1>2, <1>8, <1>9, <1>10
  <2>2. twice.episode_notified <=> once.episode_notified
    BY <1>2, <1>8, <1>10
  <2> QED  BY <1>2, <1>5, <1>10, <2>1, <2>2, SameItem
<1> QED  BY <1>3, <1>4, <1>11

(* An event judged again changes nothing, whatever its kind.                *)
LEMMA JudgedAgain ==
  ASSUME NEW s \in StateType, NEW ev \in EventType, IsFiniteSet(s.recent_episodes)
  PROVE  LET once == After(s, ev) IN After(once, ev) = once
<1>1. CASE IsFiring(ev)
  BY <1>1, FiringAgain
<1>2. CASE ev.kind = "clearing"
  <2>1. After(s, ev) = CloseEpisode(s) /\ After(CloseEpisode(s), ev) = CloseEpisode(CloseEpisode(s))
    BY <1>2 DEF After, Apply, IsFiring
  <2>2. CloseEpisode(CloseEpisode(s)) = CloseEpisode(s)
    BY DEF CloseEpisode, StateType
  <2> QED  BY <2>1, <2>2
<1>3. CASE ~IsFiring(ev) /\ ev.kind # "clearing"
  <2>1. \A t : After(t, ev) = t
    BY <1>3 DEF After, Apply
  <2> QED  BY <2>1
<1> QED  BY <1>1, <1>2, <1>3
-----------------------------------------------------------------------------
(* Every judgement is made with the state: no JudgeWithoutState.            *)
StateNext ==
  \/ \E ev \in Events : Judge(ev) \/ Confirm(ev)
  \/ Vanish

StateSpec == Init /\ [][StateNext]_vars
-----------------------------------------------------------------------------
(* The inductive invariant: what the item's fields say of the log.          *)
LogOK == state \in StateType /\ log \in Seq(EntryType)

(* Only a firing is deferred, so only a firing is confirmed.                *)
OnlyFiringsDeferred ==
  \A i \in DOMAIN log : log[i].decision.action = "defer" => IsFiring(log[i].ev)

(* The last notice is one that the log has.                                 *)
NoticeLogged ==
  state.last_notified_at # Never =>
    \E i \in DOMAIN log : Notice(i) /\ log[i].ev.at = state.last_notified_at

(* Whoever was told of the open episode has not been told of its end.       *)
EpisodeAnnounced ==
  AlreadyNotified(state) =>
    \E i \in DOMAIN log :
      /\ Notice(i)
      /\ \A k \in i + 1 .. Len(log) : log[k].ev.kind # "clearing"

LogInv ==
  /\ LogOK /\ OnlyFiringsDeferred /\ NoticeLogged /\ EpisodeAnnounced
  /\ DedupCovered /\ ClearNoticePaired
-----------------------------------------------------------------------------
(* An entry is added at the end, and those before it stay.                  *)
LEMMA EntryAdded ==
  ASSUME LogOK, NEW entry \in EntryType, log' = Append(log, entry)
  PROVE  /\ log' \in Seq(EntryType)
         /\ Len(log) \in Nat /\ Len(log') = Len(log) + 1
         /\ DOMAIN log = 1 .. Len(log) /\ DOMAIN log' = 1 .. Len(log) + 1
         /\ \A i \in 1 .. Len(log) : log'[i] = log[i]
         /\ log'[Len(log) + 1] = entry
  BY DEF LogOK

(* What an appended entry has to be for the properties to go on.            *)
LEMMA LogGrows ==
  ASSUME LogInv, NEW ev \in Events, NEW decision \in DecisionType,
         log' = Append(log, Entry(ev, decision)), state' \in StateType,
         decision.action = "defer" => IsFiring(ev),
         decision.reason = "dedup" =>
           /\ state.last_notified_at # Never
           /\ ev.at - state.last_notified_at \in 0 .. RepeatInterval - 1,
         ev.kind = "clearing" /\ decision.action = "notify" => AlreadyNotified(state)
  PROVE  LogOK' /\ OnlyFiringsDeferred' /\ DedupCovered' /\ ClearNoticePaired'
<1> DEFINE entry == Entry(ev, decision)
           n == Len(log) + 1
<1>1. entry \in EntryType /\ entry.ev = ev /\ entry.decision = decision
  BY DEF Entry, EntryType
<1>2. /\ log' \in Seq(EntryType) /\ Len(log) \in Nat /\ n \in Nat
      /\ DOMAIN log = 1 .. Len(log) /\ DOMAIN log' = 1 .. n
      /\ \A i \in 1 .. Len(log) : log'[i] = log[i]
      /\ log'[n] = entry
  BY <1>1, EntryAdded DEF LogInv
<1> HIDE DEF entry
<1>3. \A i \in 1 .. Len(log) : (Notice(i) <=> Notice(i)') /\ (ClearNotice(i) <=> ClearNotice(i)')
  BY <1>2 DEF Notice, ClearNotice
<1>4. OnlyFiringsDeferred'
  BY <1>1, <1>2 DEF LogInv, OnlyFiringsDeferred
<1>5. DedupCovered'
  <2> SUFFICES ASSUME NEW j \in DOMAIN log', log'[j].decision.reason = "dedup"
               PROVE  \E i \in 1 .. j - 1 : Notice(i)' /\ Elapsed(i, j)' \in 0 .. RepeatInterval - 1
    BY DEF DedupCovered
  <2>1. CASE j = n
    <3>1. PICK i \in DOMAIN log : Notice(i) /\ log[i].ev.at = state.last_notified_at
      BY <1>1, <1>2, <2>1 DEF LogInv, NoticeLogged
    <3>2. Elapsed(i, j)' = ev.at - state.last_notified_at
      BY <1>1, <1>2, <2>1, <3>1 DEF Elapsed
    <3>3. i \in 1 .. j - 1 /\ Notice(i)'
      BY <1>2, <1>3, <2>1, <3>1
    <3> QED  BY <1>1, <1>2, <2>1, <3>2, <3>3
  <2>2. CASE j # n
    <3>1. j \in 1 .. Len(log) /\ log'[j] = log[j]
      BY <1>2, <2>2
    <3>2. PICK i \in 1 .. j - 1 : Notice(i) /\ Elapsed(i, j) \in 0 .. RepeatInterval - 1
      BY <1>2, <3>1 DEF LogInv, DedupCovered
    <3>3. i \in 1 .. Len(log)
      BY <1>2, <3>1
    <3> QED  BY <1>2, <1>3, <3>1, <3>2, <3>3 DEF Elapsed
  <2> QED  BY <2>1, <2>2
<1>6. ClearNoticePaired'
  <2> SUFFICES ASSUME NEW j \in DOMAIN log', ClearNotice(j)'
               PROVE  \E i \in 1 .. j - 1 :
                        Notice(i)' /\ \A k \in i + 1 .. j - 1 : log'[k].ev.kind # "clearing"
    BY DEF ClearNoticePaired
  <2>1. CASE j = n
    <3>1. AlreadyNotified(state)
      BY <1>1, <1>2, <2>1 DEF ClearNotice
    <3>2. PICK i \in DOMAIN log :
            Notice(i) /\ \A k \in i + 1 .. Len(log) : log[k].ev.kind # "clearing"
      BY <3>1 DEF LogInv, EpisodeAnnounced
    <3>3. i \in 1 .. j - 1 /\ Notice(i)'
      BY <1>2, <1>3, <2>1, <3>2
    <3>4. \A k \in i + 1 .. j - 1 : k \in 1 .. Len(log) /\ k \in i + 1 .. Len(log)
      BY <1>2, <2>1, <3>2
    <3> QED  BY <1>2, <3>2, <3>3, <3>4
  <2>2. CASE j # n
    <3>1. j \in 1 .. Len(log) /\ ClearNotice(j)
      BY <1>2, <1>3, <2>2
    <3>2. PICK i \in 1 .. j - 1 : Notice(i) /\ \A k \in i + 1 .. j - 1 : log[k].ev.kind # "clearing"
      BY <1>2, <3>1 DEF LogInv, ClearNoticePaired
    <3>3. i \in 1 .. Len(log) /\ \A k \in i + 1 .. j - 1 : k \in 1 .. Len(log)
      BY <1>2, <3>1
    <3> QED  BY <1>2, <1>3, <3>2, <3>3
  <2> QED  BY <2>1, <2>2
<1> QED  BY <1>2, <1>4, <1>5, <1>6 DEF LogOK
-----------------------------------------------------------------------------
(* An announced firing is at the end of the log and on the item.            *)
LEMMA NoticeAdded ==
  ASSUME LogInv, NEW ev \in Events, NEW decision \in DecisionType,
         log' = Append(log, Entry(ev, decision)),
         IsFiring(ev), decision.action = "notify", state'.last_notified_at = ev.at
  PROVE  NoticeLogged' /\ EpisodeAnnounced'
<1>1. Entry(ev, decision) \in EntryType
  BY DEF Entry, EntryType
<1>2. PICK n \in Nat \ {0} :
        DOMAIN log' = 1 .. n /\ Len(log') = n /\ log'[n] = Entry(ev, decision)
  BY <1>1, EntryAdded DEF LogInv
<1>3. n \in DOMAIN log' /\ Notice(n)' /\ log'[n].ev.at = ev.at
  BY <1>2 DEF Notice, Entry
<1>4. \A k \in n + 1 .. Len(log') : FALSE
  BY <1>2
<1> QED  BY <1>3, <1>4 DEF NoticeLogged, EpisodeAnnounced

(* Another entry that is no clearing leaves what the log says.              *)
LEMMA NoNoticeAdded ==
  ASSUME LogInv, NEW ev \in Events, NEW decision \in DecisionType,
         log' = Append(log, Entry(ev, decision)),
         state'.last_notified_at = state.last_notified_at,
         AlreadyNotified(state') => AlreadyNotified(state) /\ ev.kind # "clearing"
  PROVE  NoticeLogged' /\ EpisodeAnnounced'
<1> DEFINE n == Len(log) + 1
<1>1. Entry(ev, decision) \in EntryType
  BY DEF Entry, EntryType
<1>2. /\ Len(log) \in Nat /\ n \in Nat /\ Len(log') = n
      /\ DOMAIN log = 1 .. Len(log) /\ DOMAIN log' = 1 .. n
      /\ \A i \in 1 .. Len(log) : log'[i] = log[i]
      /\ log'[n] = Entry(ev, decision)
  BY <1>1, EntryAdded DEF LogInv
<1>3. \A i \in DOMAIN log : i \in DOMAIN log' /\ log'[i] = log[i] /\ (Notice(i) => Notice(i)')
  BY <1>2 DEF Notice
<1>4. NoticeLogged'
  BY <1>3 DEF LogInv, NoticeLogged
<1>5. EpisodeAnnounced'
  <2> SUFFICES ASSUME AlreadyNotified(state')
               PROVE  \E i \in DOMAIN log' :
                        Notice(i)' /\ \A k \in i + 1 .. Len(log') : log'[k].ev.kind # "clearing"
    BY DEF EpisodeAnnounced
  <2>1. PICK i \in DOMAIN log : Notice(i) /\ \A k \in i + 1 .. Len(log) : log[k].ev.kind # "clearing"
    BY DEF LogInv, EpisodeAnnounced
  <2>2. ASSUME NEW k \in i + 1 .. n PROVE log'[k].ev.kind # "clearing"
    <3>1. CASE k = n
      BY <1>2, <3>1 DEF Entry
    <3>2. CASE k # n
      <4>1. k \in i + 1 .. Len(log) /\ k \in 1 .. Len(log)
        BY <1>2, <2>1, <3>2
      <4> QED  BY <1>2, <2>1, <4>1
    <3> QED  BY <3>1, <3>2
  <2> QED  BY <1>2, <1>3, <2>1, <2>2
<1> QED  BY <1>4, <1>5
-----------------------------------------------------------------------------
LEMMA LogInit == Init => LogInv
<1> SUFFICES ASSUME Init PROVE LogInv
  OBVIOUS
<1>1. LogOK
  BY DEF Init, LogOK, NoState, StateType, Never
<1>2. DOMAIN log = {} /\ ~AlreadyNotified(state) /\ state.last_notified_at = Never
  BY DEF Init, NoState, AlreadyNotified
<1> QED
  BY <1>1, <1>2 DEF LogInv, OnlyFiringsDeferred, NoticeLogged, EpisodeAnnounced, DedupCovered,
                    ClearNoticePaired

LEMMA EventTimes == \A ev \in Events : ev \in EventType /\ ev.at \in Nat
  BY EventsAssumption DEF EventType

LEMMA JudgeStep ==
  ASSUME LogInv, NEW ev \in Events, Judge(ev)
  PROVE  LogInv'
<1> DEFINE d == Decide(state, ev)
<1>1. /\ state \in StateType /\ ev \in EventType /\ ev.at \in Nat
      /\ state' = After(state, ev) /\ log' = Append(log, Entry(ev, d))
  BY EventTimes DEF LogInv, LogOK, Judge
<1>2. /\ d \in DecisionType
      /\ d.action = "defer" => IsFiring(ev)
      /\ d.reason = "dedup" => WithinRepeat(state, ev)
      /\ ev.kind = "clearing" /\ d.action = "notify" => AlreadyNotified(state)
  BY <1>1, DecideFacts
<1>3. /\ state' \in StateType
      /\ IsFiring(ev) /\ d.action = "notify" => state'.last_notified_at = ev.at
      /\ ~(IsFiring(ev) /\ d.action = "notify") =>
           /\ state'.last_notified_at = state.last_notified_at
           /\ AlreadyNotified(state') => AlreadyNotified(state) /\ ev.kind # "clearing"
  BY <1>1, AfterFacts
<1> HIDE DEF d
<1>4. d.reason = "dedup" =>
        /\ state.last_notified_at # Never
        /\ ev.at - state.last_notified_at \in 0 .. RepeatInterval - 1
  BY <1>2 DEF WithinRepeat
<1>5. LogOK' /\ OnlyFiringsDeferred' /\ DedupCovered' /\ ClearNoticePaired'
  BY <1>1, <1>2, <1>3, <1>4, LogGrows
<1>6. NoticeLogged' /\ EpisodeAnnounced'
  <2>1. CASE IsFiring(ev) /\ d.action = "notify"
    BY <1>1, <1>2, <1>3, <2>1, NoticeAdded
  <2>2. CASE ~(IsFiring(ev) /\ d.action = "notify")
    BY <1>1, <1>2, <1>3, <2>2, NoNoticeAdded
  <2> QED  BY <2>1, <2>2
<1> QED  BY <1>5, <1>6 DEF LogInv

LEMMA ConfirmStep ==
  ASSUME LogInv, NEW ev \in Events, Confirm(ev)
  PROVE  LogInv'
<1>1. /\ state \in StateType /\ ev.at \in Nat
      /\ state' = RecordNotice(state, ev.at) /\ log' = Append(log, Entry(ev, Confirmed))
  BY EventTimes DEF LogInv, LogOK, Confirm
<1>2. IsFiring(ev)
  BY DEF LogInv, OnlyFiringsDeferred, Confirm, Deferred, Entry, Decision
<1>3. /\ Confirmed \in DecisionType /\ Confirmed.action = "notify"
      /\ Confirmed.reason # "dedup" /\ ev.kind # "clearing"
  BY <1>2 DEF Confirmed, Decision, DecisionType, Actions, Reasons, IsFiring
<1>4. state' \in StateType /\ state'.last_notified_at = ev.at
  BY <1>1 DEF RecordNotice, StateType
<1>5. LogOK' /\ OnlyFiringsDeferred' /\ DedupCovered' /\ ClearNoticePaired'
  BY <1>1, <1>2, <1>3, <1>4, LogGrows
<1>6. NoticeLogged' /\ EpisodeAnnounced'
  BY <1>1, <1>2, <1>3, <1>4, NoticeAdded
<1> QED  BY <1>5, <1>6 DEF LogInv

LEMMA VanishStep ==
  ASSUME LogInv, Vanish
  PROVE  LogInv'
<1>1. /\ state' \in StateType /\ log' = log /\ ~AlreadyNotified(state')
      /\ state'.last_notified_at = state.last_notified_at
  BY DEF LogInv, LogOK, Vanish, CloseEpisode, StateType, AlreadyNotified
<1>2. LogOK' /\ OnlyFiringsDeferred' /\ NoticeLogged' /\ EpisodeAnnounced'
  BY <1>1 DEF LogInv, LogOK, OnlyFiringsDeferred, NoticeLogged, EpisodeAnnounced, Notice
<1>3. DedupCovered' /\ ClearNoticePaired'
  BY <1>1 DEF LogInv, DedupCovered, ClearNoticePaired, Notice, ClearNotice, Elapsed
<1> QED  BY <1>2, <1>3 DEF LogInv

(* What the item says of the log is so after every judgement,               *)
(* confirmation and disappearance (apply_event, _mark_notified).            *)
THEOREM LogInvariant == StateSpec => []LogInv
<1>1. LogInv /\ [StateNext]_vars => LogInv'
  <2> SUFFICES ASSUME LogInv, [StateNext]_vars PROVE LogInv'
    OBVIOUS
  <2>1. CASE StateNext
    BY <2>1, JudgeStep, ConfirmStep, VanishStep DEF StateNext
  <2>2. CASE UNCHANGED vars
    BY <2>2 DEF vars, LogInv, LogOK, OnlyFiringsDeferred, NoticeLogged, EpisodeAnnounced,
                DedupCovered, ClearNoticePaired, Notice, ClearNotice, Elapsed
  <2> QED  BY <2>1, <2>2
<1> QED  BY LogInit, <1>1, PTL DEF StateSpec

(* An event is dropped as a duplicate only after a notice of its            *)
(* fingerprint went out inside the interval (decide, rule 4).               *)
THEOREM DuplicatesCovered == StateSpec => []DedupCovered
<1>1. LogInv => DedupCovered
  BY DEF LogInv
<1> QED  BY <1>1, LogInvariant, PTL

(* A clearing is announced to somebody who was told of the firing it ends,  *)
(* and once (inputs_from_state, apply_event).                               *)
THEOREM ClearingsPaired == StateSpec => []ClearNoticePaired
<1>1. LogInv => ClearNoticePaired
  BY DEF LogInv
<1> QED  BY <1>1, LogInvariant, PTL
-----------------------------------------------------------------------------
(* What the item holds: finitely many episodes.                             *)
ItemOK == state \in StateType /\ IsFiniteSet(state.recent_episodes)

LEMMA ItemInit == Init => ItemOK
  BY FS_EmptySet DEF Init, ItemOK, NoState, StateType, Never

LEMMA ItemStep == ItemOK /\ [Next]_vars => ItemOK'
<1> SUFFICES ASSUME ItemOK, [Next]_vars PROVE ItemOK'
  OBVIOUS
<1>1. ASSUME NEW ev \in Events, Judge(ev) PROVE ItemOK'
  BY <1>1, EventTimes, AfterOK DEF ItemOK, Judge
<1>2. ASSUME NEW ev \in Events, JudgeWithoutState(ev) PROVE ItemOK'
  BY <1>2 DEF ItemOK, JudgeWithoutState
<1>3. ASSUME NEW ev \in Events, Confirm(ev) PROVE ItemOK'
  <2>1. ev.at \in Nat /\ state' = RecordNotice(state, ev.at)
    BY <1>3, EventTimes DEF Confirm
  <2>2. state' \in StateType /\ state'.recent_episodes = state.recent_episodes
    BY <2>1 DEF ItemOK, RecordNotice, StateType
  <2> QED  BY <2>2 DEF ItemOK
<1>4. CASE Vanish
  <2>1. state' \in StateType /\ state'.recent_episodes = state.recent_episodes
    BY <1>4 DEF Vanish, CloseEpisode, ItemOK, StateType
  <2> QED  BY <2>1 DEF ItemOK
<1>5. CASE UNCHANGED vars
  BY <1>5 DEF vars, ItemOK
<1> QED  BY <1>1, <1>2, <1>3, <1>4, <1>5 DEF Next

(* An event that is delivered twice in a row counts once, in every state    *)
(* the item can reach, also when judgements are made without it             *)
(* (apply_event).                                                           *)
THEOREM RedeliveryHarmless == Spec => []RedeliveryIdempotent
<1>1. ItemOK => RedeliveryIdempotent
  BY EventTimes, JudgedAgain DEF ItemOK, RedeliveryIdempotent
<1> QED  BY ItemInit, ItemStep, <1>1, PTL DEF Spec
-----------------------------------------------------------------------------
(* Events occur at instants, the logged ones too.                           *)
LEMMA EventInstants == \A ev \in Events : ev.at \in Nat \ {Never}
  BY EventsAssumption DEF EventType

LEMMA LoggedInstants ==
  ASSUME LogOK
  PROVE  \A i \in DOMAIN log : log[i].ev \in Events /\ log[i].ev.at \in Nat \ {Never}
<1>1. \A i \in DOMAIN log : log[i] \in EntryType
  BY DEF LogOK
<1>2. \A i \in DOMAIN log : log[i].ev \in Events
  BY <1>1 DEF EntryType
<1> QED  BY <1>2, EventInstants

(* A quarantine is served: the item never ends it before the time of the    *)
(* firing that started it is up, and until then no firing passes.           *)
Starter(i) ==
  /\ log[i].decision.reason = "flapping"
  /\ \A k \in 1 .. i - 1 :
       log[k].decision.reason = "flapping" => Elapsed(k, i) >= QuarantineTime

StartersServed ==
  \A i \in DOMAIN log :
    Starter(i) => state.quarantined_until >= log[i].ev.at + QuarantineTime

QuarantineLogged ==
  state.quarantined_until # Never =>
    \E k \in DOMAIN log :
      /\ log[k].decision.reason = "flapping"
      /\ state.quarantined_until = log[k].ev.at + QuarantineTime

Served ==
  \A j \in DOMAIN log : \A i \in 1 .. j - 1 :
    /\ Starter(i)
    /\ Elapsed(i, j) \in 0 .. QuarantineTime - 1
    /\ Suppressible(j) /\ log[j].decision # Confirmed
    => log[j].decision.action = "suppress"

QuarantineInv == StartersServed /\ QuarantineLogged /\ Served

(* What an appended entry has to be for the quarantines to be served.       *)
LEMMA QuarantineGrows ==
  ASSUME LogOK, QuarantineInv, NEW ev \in Events, NEW decision \in DecisionType,
         log' = Append(log, Entry(ev, decision)), state' \in StateType,
         state'.quarantined_until =
           IF decision.reason = "flapping" /\ ~Quarantined(state, ev.at)
           THEN ev.at + QuarantineTime ELSE state.quarantined_until,
         /\ IsFiring(ev) /\ ev.severity \notin ExemptSeverities /\ decision # Confirmed
         /\ Quarantined(state, ev.at)
         => decision.action = "suppress"
  PROVE  QuarantineInv'
<1> DEFINE n == Len(log) + 1
           until == state.quarantined_until
<1>1. /\ Entry(ev, decision) \in EntryType
      /\ Entry(ev, decision).ev = ev /\ Entry(ev, decision).decision = decision
  BY DEF Entry, EntryType
<1>2. /\ log' \in Seq(EntryType) /\ Len(log) \in Nat /\ n \in Nat
      /\ DOMAIN log = 1 .. Len(log) /\ DOMAIN log' = 1 .. n
      /\ \A i \in 1 .. Len(log) : log'[i] = log[i]
      /\ log'[n].ev = ev /\ log'[n].decision = decision
  BY <1>1, EntryAdded
<1>3. /\ ev.at \in Nat \ {0} /\ QuarantineTime \in Nat /\ until \in Nat
      /\ \A i \in DOMAIN log : log[i].ev.at \in Nat \ {0}
  BY PolicyAssumption, EventInstants, LoggedInstants DEF LogOK, StateType, Never
<1>4. ASSUME NEW i \in DOMAIN log PROVE Starter(i)' <=> Starter(i)
  <2>1. \A k \in 1 .. i - 1 : k \in DOMAIN log /\ log'[k] = log[k]
    BY <1>2
  <2> QED  BY <1>2, <2>1 DEF Starter, Elapsed
<1>5. until <= state'.quarantined_until
  BY <1>3 DEF Quarantined, Never
<1>6. StartersServed'
  <2> SUFFICES ASSUME NEW i \in DOMAIN log', Starter(i)'
               PROVE  state'.quarantined_until >= log'[i].ev.at + QuarantineTime
    BY DEF StartersServed
  <2>1. CASE i = n
    <3>1. decision.reason = "flapping"
      BY <1>2, <2>1 DEF Starter
    <3>2. ASSUME Quarantined(state, ev.at) PROVE FALSE
      <4>1. PICK k \in DOMAIN log :
              log[k].decision.reason = "flapping" /\ until = log[k].ev.at + QuarantineTime
        BY <3>2 DEF QuarantineInv, QuarantineLogged, Quarantined
      <4>2. k \in 1 .. i - 1 /\ log'[k] = log[k]
        BY <1>2, <2>1
      <4>3. log'[i].ev.at - log'[k].ev.at >= QuarantineTime
        BY <4>1, <4>2 DEF Starter, Elapsed
      <4>4. ev.at - log[k].ev.at >= QuarantineTime
        BY <1>2, <2>1, <4>2, <4>3
      <4> QED  BY <1>3, <3>2, <4>1, <4>4 DEF Quarantined
    <3> QED  BY <1>2, <1>3, <2>1, <3>1, <3>2
  <2>2. CASE i # n
    <3>1. i \in DOMAIN log /\ log'[i] = log[i]
      BY <1>2, <2>2
    <3>2. until >= log[i].ev.at + QuarantineTime
      BY <1>4, <3>1 DEF QuarantineInv, StartersServed
    <3>3. state'.quarantined_until \in Nat
      BY DEF StateType
    <3> QED  BY <1>3, <1>5, <3>1, <3>2, <3>3
  <2> QED  BY <2>1, <2>2
<1>7. QuarantineLogged'
  <2>1. CASE decision.reason = "flapping" /\ ~Quarantined(state, ev.at)
    <3>1. n \in DOMAIN log' /\ log'[n].decision.reason = "flapping"
          /\ state'.quarantined_until = log'[n].ev.at + QuarantineTime
      BY <1>2, <2>1
    <3> QED  BY <3>1 DEF QuarantineLogged
  <2>2. CASE ~(decision.reason = "flapping" /\ ~Quarantined(state, ev.at))
    <3>1. state'.quarantined_until = until
      BY <2>2
    <3>2. \A k \in DOMAIN log : k \in DOMAIN log' /\ log'[k] = log[k]
      BY <1>2
    <3> QED  BY <3>1, <3>2 DEF QuarantineInv, QuarantineLogged
  <2> QED  BY <2>1, <2>2
<1>8. Served'
  <2> SUFFICES ASSUME NEW j \in DOMAIN log', NEW i \in 1 .. j - 1,
                      Starter(i)', Elapsed(i, j)' \in 0 .. QuarantineTime - 1,
                      Suppressible(j)', log'[j].decision # Confirmed
               PROVE  log'[j].decision.action = "suppress"
    BY DEF Served
  <2>1. i \in DOMAIN log /\ log'[i] = log[i] /\ Starter(i)
    BY <1>2, <1>4
  <2>2. CASE j = n
    <3>1. /\ IsFiring(ev) /\ ev.severity \notin ExemptSeverities /\ decision # Confirmed
          /\ ev.at - log[i].ev.at < QuarantineTime
      BY <1>2, <1>3, <2>1, <2>2 DEF Suppressible, Elapsed
    <3>2. until >= log[i].ev.at + QuarantineTime
      BY <2>1 DEF QuarantineInv, StartersServed
    <3>3. Quarantined(state, ev.at)
      BY <1>3, <2>1, <3>1, <3>2 DEF Quarantined, Never
    <3> QED  BY <1>2, <2>2, <3>1, <3>3
  <2>3. CASE j # n
    <3>1. j \in DOMAIN log /\ log'[j] = log[j]
      BY <1>2, <2>3
    <3>2. Suppressible(j) /\ Elapsed(i, j) \in 0 .. QuarantineTime - 1
      BY <2>1, <3>1 DEF Suppressible, Elapsed
    <3> QED  BY <2>1, <3>1, <3>2 DEF QuarantineInv, Served
  <2> QED  BY <2>2, <2>3
<1> QED  BY <1>6, <1>7, <1>8 DEF QuarantineInv

LEMMA QuarantineInit == Init => QuarantineInv
<1> SUFFICES ASSUME Init PROVE QuarantineInv
  OBVIOUS
<1>1. DOMAIN log = {} /\ state.quarantined_until = Never
  BY DEF Init, NoState
<1> QED  BY <1>1 DEF QuarantineInv, StartersServed, QuarantineLogged, Served

LEMMA QuarantineStep == LogInv /\ LogInv' /\ QuarantineInv /\ [StateNext]_vars => QuarantineInv'
<1> SUFFICES ASSUME LogInv, LogInv', QuarantineInv, [StateNext]_vars PROVE QuarantineInv'
  OBVIOUS
<1>1. LogOK /\ state \in StateType /\ state' \in StateType
  BY DEF LogInv, LogOK
<1>2. ASSUME NEW ev \in Events, Judge(ev) PROVE QuarantineInv'
  <2>1. ev \in EventType /\ state' = After(state, ev)
        /\ log' = Append(log, Entry(ev, Decide(state, ev))) /\ Decide(state, ev) \in DecisionType
    BY <1>1, <1>2, EventTimes, DecideFacts DEF Judge
  <2>2. state'.quarantined_until =
          IF Decide(state, ev).reason = "flapping" /\ ~Quarantined(state, ev.at)
          THEN ev.at + QuarantineTime ELSE state.quarantined_until
    BY <1>1, <2>1, QuarantineAfter
  <2>3. IsFiring(ev) /\ ev.severity \notin ExemptSeverities /\ Quarantined(state, ev.at)
          => Decide(state, ev).action = "suppress"
    BY <1>1, <2>1, QuarantineAfter
  <2> QED  BY <1>1, <2>1, <2>2, <2>3, QuarantineGrows
<1>3. ASSUME NEW ev \in Events, Confirm(ev) PROVE QuarantineInv'
  <2>1. state' = RecordNotice(state, ev.at) /\ log' = Append(log, Entry(ev, Confirmed))
    BY <1>3 DEF Confirm
  <2>2. /\ Confirmed \in DecisionType /\ Confirmed.reason # "flapping"
        /\ state'.quarantined_until = state.quarantined_until
    BY <1>1, <2>1 DEF Confirmed, Decision, DecisionType, Actions, Reasons, RecordNotice, StateType
  <2> QED  BY <1>1, <2>1, <2>2, QuarantineGrows
<1>4. CASE log' = log /\ state'.quarantined_until = state.quarantined_until
  BY <1>4 DEF QuarantineInv, StartersServed, QuarantineLogged, Served, Starter, Elapsed,
              Suppressible
<1>5. Vanish \/ UNCHANGED vars => log' = log /\ state'.quarantined_until = state.quarantined_until
  BY <1>1 DEF Vanish, CloseEpisode, StateType, vars
<1> QED  BY <1>2, <1>3, <1>4, <1>5 DEF StateNext

(* A quarantine lasts QuarantineTime from the firing that started it, also  *)
(* when the window empties meanwhile (decide, apply_event).                 *)
THEOREM QuarantinesServed == StateSpec => []QuarantineServed
<1>1. LogInv /\ QuarantineInv => QuarantineServed
  <2> SUFFICES ASSUME LogInv, QuarantineInv, NEW i \in DOMAIN log, NEW j \in i + 1 .. Len(log),
                      Starter(i), Elapsed(i, j) \in 0 .. QuarantineTime - 1,
                      Suppressible(j), log[j].decision # Confirmed
               PROVE  log[j].decision.action = "suppress"
    BY DEF QuarantineServed, Starter
  <2>1. DOMAIN log = 1 .. Len(log) /\ Len(log) \in Nat
    BY DEF LogInv, LogOK
  <2>2. j \in DOMAIN log /\ i \in 1 .. j - 1
    BY <2>1
  <2> QED  BY <2>2 DEF QuarantineInv, Served
<1> QED  BY QuarantineInit, QuarantineStep, <1>1, LogInvariant, PTL DEF StateSpec
-----------------------------------------------------------------------------
(* The judged entries, and what it takes for one more to be in order.       *)
Judged == {i \in DOMAIN log : log[i].decision # Confirmed}

LastJudged(m) == m \in Judged /\ \A k \in Judged : k <= m

EventsJudged == \A i \in DOMAIN log : \E k \in Judged : log[k].ev = log[i].ev

NextInOrder(ev) ==
  \A i \in Judged :
    /\ log[i].ev.at < ev.at
    /\ {log[i].ev.kind, ev.kind} \subseteq {"firing", "clearing"}
    /\ log[i].ev.kind = ev.kind => \E k \in Judged : i < k

LEMMA InOrderJudged ==
  InOrder <=>
    \A i, j \in Judged : i < j =>
      /\ log[i].ev.at < log[j].ev.at
      /\ {log[i].ev.kind, log[j].ev.kind} \subseteq {"firing", "clearing"}
      /\ log[i].ev.kind = log[j].ev.kind => Judged \cap (i + 1 .. j - 1) # {}
  BY DEF InOrder, Judged

(* One more judgement.                                                      *)
LEMMA JudgedGrows ==
  ASSUME LogOK, NEW ev \in Events, NEW decision \in DecisionType, decision # Confirmed,
         log' = Append(log, Entry(ev, decision))
  PROVE  LET n == Len(log) + 1 IN
         /\ Judged' = Judged \cup {n} /\ Judged \subseteq DOMAIN log
         /\ EventsJudged => EventsJudged'
         /\ InOrder' => InOrder /\ NextInOrder(ev)
<1> DEFINE n == Len(log) + 1
<1>1. /\ Entry(ev, decision) \in EntryType
      /\ Entry(ev, decision).ev = ev /\ Entry(ev, decision).decision = decision
  BY DEF Entry, EntryType
<1>2. /\ Len(log) \in Nat /\ n \in Nat
      /\ DOMAIN log = 1 .. Len(log) /\ DOMAIN log' = 1 .. n
      /\ \A i \in 1 .. Len(log) : log'[i] = log[i]
      /\ log'[n].ev = ev /\ log'[n].decision = decision
  BY <1>1, EntryAdded
<1>3. Judged' = Judged \cup {n} /\ Judged \subseteq DOMAIN log
  <2>1. Judged \subseteq DOMAIN log
    BY DEF Judged
  <2>2. \A i \in 1 .. n : i \in Judged' <=> i = n \/ i \in Judged
    BY <1>2 DEF Judged
  <2>3. Judged' \subseteq 1 .. n /\ Judged \cup {n} \subseteq 1 .. n
    BY <1>2, <2>1 DEF Judged
  <2> QED  BY <2>1, <2>2, <2>3
<1>4. EventsJudged => EventsJudged'
  <2> SUFFICES ASSUME EventsJudged, NEW i \in DOMAIN log'
               PROVE  \E k \in Judged' : log'[k].ev = log'[i].ev
    BY DEF EventsJudged
  <2>1. CASE i = n
    BY <1>3, <2>1
  <2>2. CASE i # n
    <3>1. i \in DOMAIN log /\ log'[i] = log[i]
      BY <1>2, <2>2
    <3>2. PICK k \in Judged : log[k].ev = log[i].ev
      BY <3>1 DEF EventsJudged
    <3> QED  BY <1>2, <1>3, <3>1, <3>2
  <2> QED  BY <2>1, <2>2
<1>5. ASSUME InOrder' PROVE InOrder /\ NextInOrder(ev)
  <2>1. \A i, j \in Judged' : i < j =>
          /\ log'[i].ev.at < log'[j].ev.at
          /\ {log'[i].ev.kind, log'[j].ev.kind} \subseteq {"firing", "clearing"}
          /\ log'[i].ev.kind = log'[j].ev.kind => Judged' \cap (i + 1 .. j - 1) # {}
    BY <1>5 DEF InOrder, Judged
  <2>2. \A i \in Judged : i \in Judged' /\ i \in 1 .. Len(log) /\ i < n /\ log'[i] = log[i]
    BY <1>2, <1>3
  <2>3. ASSUME NEW i \in Judged, NEW j \in Judged, i < j
        PROVE  /\ log[i].ev.at < log[j].ev.at
               /\ {log[i].ev.kind, log[j].ev.kind} \subseteq {"firing", "clearing"}
               /\ log[i].ev.kind = log[j].ev.kind => Judged \cap (i + 1 .. j - 1) # {}
    <3>1. n \notin i + 1 .. j - 1
      BY <1>2, <2>2
    <3>2. Judged' \cap (i + 1 .. j - 1) = Judged \cap (i + 1 .. j - 1)
      BY <1>3, <3>1
    <3> QED  BY <2>1, <2>2, <2>3, <3>2
  <2>4. InOrder
    BY <2>3, InOrderJudged
  <2>5. ASSUME NEW i \in Judged
        PROVE  /\ log[i].ev.at < ev.at
               /\ {log[i].ev.kind, ev.kind} \subseteq {"firing", "clearing"}
               /\ log[i].ev.kind = ev.kind => \E k \in Judged : i < k
    <3>1. n \in Judged' /\ i \in Judged' /\ i < n /\ log'[i] = log[i]
      BY <1>3, <2>2
    <3>2. /\ log[i].ev.at < ev.at
          /\ {log[i].ev.kind, ev.kind} \subseteq {"firing", "clearing"}
          /\ log[i].ev.kind = ev.kind => Judged' \cap (i + 1 .. n - 1) # {}
      BY <1>2, <2>1, <3>1
    <3>3. ASSUME log[i].ev.kind = ev.kind PROVE \E k \in Judged : i < k
      <4>1. PICK k \in Judged' : k \in i + 1 .. n - 1
        BY <3>2, <3>3
      <4>2. k # n /\ i < k
        BY <1>2, <2>2, <4>1
      <4> QED  BY <1>3, <4>1, <4>2
    <3> QED  BY <3>2, <3>3
  <2> QED  BY <2>4, <2>5 DEF NextInOrder
<1> QED  BY <1>3, <1>4, <1>5

(* A confirmation is no judgement.                                          *)
LEMMA ConfirmedGrows ==
  ASSUME LogOK, NEW ev \in Events, Deferred(ev),
         log' = Append(log, Entry(ev, Confirmed))
  PROVE  /\ Judged' = Judged /\ Judged \subseteq DOMAIN log
         /\ EventsJudged => EventsJudged'
         /\ InOrder' => InOrder
         /\ \E m \in Judged : log[m].ev = ev /\ log[m].decision.action = "defer"
<1> DEFINE n == Len(log) + 1
<1>1. /\ Entry(ev, Confirmed) \in EntryType
      /\ Entry(ev, Confirmed).ev = ev /\ Entry(ev, Confirmed).decision = Confirmed
  BY DEF Entry, EntryType, Confirmed, Decision, DecisionType, Actions, Reasons
<1>2. /\ Len(log) \in Nat /\ n \in Nat
      /\ DOMAIN log = 1 .. Len(log) /\ DOMAIN log' = 1 .. n
      /\ \A i \in 1 .. Len(log) : log'[i] = log[i]
      /\ log'[n].ev = ev /\ log'[n].decision = Confirmed
  BY <1>1, EntryAdded
<1>3. PICK m \in DOMAIN log : log[m].ev = ev /\ log[m].decision = Decision("defer", "auto_pause")
  BY DEF Deferred, Entry
<1>4. log[m].decision.action = "defer" /\ m \in Judged
  BY <1>3 DEF Judged, Confirmed, Decision
<1>5. Judged' = Judged /\ Judged \subseteq DOMAIN log
  <2>1. Judged \subseteq DOMAIN log
    BY DEF Judged
  <2>2. \A i \in 1 .. n : i \in Judged' <=> i \in Judged
    BY <1>2 DEF Judged
  <2>3. Judged' \subseteq 1 .. n /\ Judged \subseteq 1 .. n
    BY <1>2, <2>1 DEF Judged
  <2> QED  BY <2>1, <2>2, <2>3
<1>6. \A i \in Judged : log'[i] = log[i]
  BY <1>2, <1>5
<1>7. EventsJudged => EventsJudged'
  <2> SUFFICES ASSUME EventsJudged, NEW i \in DOMAIN log'
               PROVE  \E k \in Judged : log'[k].ev = log'[i].ev
    BY <1>5 DEF EventsJudged
  <2>1. CASE i = n
    BY <1>2, <1>3, <1>4, <1>6, <2>1
  <2>2. CASE i # n
    <3>1. i \in DOMAIN log /\ log'[i] = log[i]
      BY <1>2, <2>2
    <3>2. PICK k \in Judged : log[k].ev = log[i].ev
      BY <3>1 DEF EventsJudged
    <3> QED  BY <1>6, <3>1, <3>2
  <2> QED  BY <2>1, <2>2
<1>8. ASSUME InOrder' PROVE InOrder
  <2>1. \A i, j \in Judged' : i < j =>
          /\ log'[i].ev.at < log'[j].ev.at
          /\ {log'[i].ev.kind, log'[j].ev.kind} \subseteq {"firing", "clearing"}
          /\ log'[i].ev.kind = log'[j].ev.kind => Judged' \cap (i + 1 .. j - 1) # {}
    BY <1>8 DEF InOrder, Judged
  <2> QED  BY <1>5, <1>6, <2>1, InOrderJudged
<1> QED  BY <1>3, <1>4, <1>5, <1>7, <1>8

(* A judgement decides, it does not confirm.                                *)
LEMMA NeverConfirmed ==
  ASSUME NEW s \in StateType, NEW ev \in EventType
  PROVE  Decide(s, ev) # Confirmed
  BY DEF Decide, Decision, Confirmed

LEMMA EventsJudgedStep == LogInv /\ EventsJudged /\ [StateNext]_vars => EventsJudged'
<1> SUFFICES ASSUME LogInv, EventsJudged, [StateNext]_vars PROVE EventsJudged'
  OBVIOUS
<1>1. LogOK /\ state \in StateType
  BY DEF LogInv, LogOK
<1>2. ASSUME NEW ev \in Events, Judge(ev) PROVE EventsJudged'
  <2>1. Decide(state, ev) \in DecisionType /\ Decide(state, ev) # Confirmed
    BY <1>1, EventTimes, DecideFacts, NeverConfirmed
  <2>2. log' = Append(log, Entry(ev, Decide(state, ev)))
    BY <1>2 DEF Judge
  <2> QED  BY <1>1, <2>1, <2>2, JudgedGrows
<1>3. ASSUME NEW ev \in Events, Confirm(ev) PROVE EventsJudged'
  BY <1>1, <1>3, ConfirmedGrows DEF Confirm
<1>4. CASE log' = log
  BY <1>4 DEF EventsJudged, Judged
<1> QED  BY <1>2, <1>3, <1>4 DEF StateNext, Vanish, vars

(* In order, the newest judged event is the newest of all.                  *)
LEMMA NewestJudged ==
  ASSUME LogOK, EventsJudged, InOrder, NEW m, LastJudged(m)
  PROVE  \A i \in DOMAIN log : log[i].ev.at <= log[m].ev.at
<1> SUFFICES ASSUME NEW i \in DOMAIN log PROVE log[i].ev.at <= log[m].ev.at
  OBVIOUS
<1>1. PICK k \in Judged : log[k].ev = log[i].ev
  BY DEF EventsJudged
<1>2. m \in Judged /\ k <= m
  BY DEF LastJudged
<1>3. /\ DOMAIN log = 1 .. Len(log) /\ Judged \subseteq DOMAIN log
      /\ \A j \in DOMAIN log : log[j].ev.at \in Nat
  BY LoggedInstants DEF LogOK, Judged
<1>4. k < m => log[k].ev.at < log[m].ev.at
  BY <1>2, InOrderJudged
<1>5. k < m \/ k = m
  BY <1>2, <1>3
<1> QED  BY <1>1, <1>2, <1>3, <1>4, <1>5

LEMMA NewestNext ==
  ASSUME LogOK, EventsJudged, NEW ev \in Events, NextInOrder(ev)
  PROVE  \A i \in DOMAIN log : log[i].ev.at < ev.at
<1> SUFFICES ASSUME NEW i \in DOMAIN log PROVE log[i].ev.at < ev.at
  OBVIOUS
<1>1. PICK k \in Judged : log[k].ev = log[i].ev
  BY DEF EventsJudged
<1> QED  BY <1>1 DEF NextInOrder
-----------------------------------------------------------------------------
(* What the item remembers of the firings: each of them, or MaxRecent later *)
(* ones, unless it left the window of some firing.                          *)
Firings == EpisodesUpTo(Len(log))

RememberedReal == state.recent_episodes \subseteq Firings

Remembered ==
  InOrder => \A t \in Firings :
    \/ t \in state.recent_episodes
    \/ Cardinality(Later(state.recent_episodes, t)) >= MaxRecent
    \/ \E u \in Firings : t < u - FlapWindow

EpisodesInv ==
  /\ EventsJudged /\ RememberedReal /\ Remembered /\ FlappingContained
  /\ IsFiniteSet(state.recent_episodes)

LEMMA FiringsLogged ==
  ASSUME LogOK
  PROVE  /\ Firings = {log[i].ev.at : i \in {k \in DOMAIN log : IsFiring(log[k].ev)}}
         /\ Firings \in SUBSET (Nat \ {Never})
<1>1. Firings = {log[i].ev.at : i \in {k \in DOMAIN log : IsFiring(log[k].ev)}}
  <2>1. DOMAIN log = 1 .. Len(log)
    BY DEF LogOK
  <2> QED  BY <2>1 DEF Firings, EpisodesUpTo
<1> QED  BY <1>1, LoggedInstants

(* An entry adds its instant, if it fires.                                  *)
LEMMA FiringsGrow ==
  ASSUME LogOK, NEW ev \in Events, NEW decision \in DecisionType,
         log' = Append(log, Entry(ev, decision))
  PROVE  /\ Firings' = Firings \cup {t \in {ev.at} : IsFiring(ev)}
         /\ \A j \in DOMAIN log : EpisodesUpTo(j)' = EpisodesUpTo(j)
<1> DEFINE n == Len(log) + 1
<1>1. /\ Entry(ev, decision) \in EntryType
      /\ Entry(ev, decision).ev = ev /\ Entry(ev, decision).decision = decision
  BY DEF Entry, EntryType
<1>2. /\ log' \in Seq(EntryType) /\ Len(log) \in Nat /\ n \in Nat /\ Len(log') = n
      /\ DOMAIN log = 1 .. Len(log) /\ DOMAIN log' = 1 .. n
      /\ \A i \in 1 .. Len(log) : log'[i] = log[i]
      /\ log'[n].ev = ev
  BY <1>1, EntryAdded
<1>3. Firings = {log[i].ev.at : i \in {k \in DOMAIN log : IsFiring(log[k].ev)}}
  BY FiringsLogged
<1>4. Firings' = {log'[i].ev.at : i \in {k \in 1 .. n : IsFiring(log'[k].ev)}}
  BY <1>2 DEF Firings, EpisodesUpTo
<1>5. ASSUME NEW t PROVE t \in Firings' <=> t \in Firings \/ (t = ev.at /\ IsFiring(ev))
  <2>1. ASSUME t \in Firings' PROVE t \in Firings \/ (t = ev.at /\ IsFiring(ev))
    <3>1. PICK i \in 1 .. n : IsFiring(log'[i].ev) /\ t = log'[i].ev.at
      BY <1>4, <2>1
    <3>2. i # n => i \in DOMAIN log /\ log'[i] = log[i]
      BY <1>2
    <3> QED  BY <1>2, <1>3, <3>1, <3>2
  <2>2. ASSUME t \in Firings PROVE t \in Firings'
    <3>1. PICK i \in DOMAIN log : IsFiring(log[i].ev) /\ t = log[i].ev.at
      BY <1>3, <2>2
    <3>2. i \in 1 .. n /\ log'[i] = log[i]
      BY <1>2
    <3> QED  BY <1>4, <3>1, <3>2
  <2>3. ASSUME t = ev.at, IsFiring(ev) PROVE t \in Firings'
    <3>1. n \in 1 .. n
      BY <1>2
    <3> QED  BY <1>2, <1>4, <2>3, <3>1
  <2> QED  BY <2>1, <2>2, <2>3
<1>6. ASSUME NEW j \in DOMAIN log PROVE EpisodesUpTo(j)' = EpisodesUpTo(j)
  <2>1. \A k \in 1 .. j : log'[k] = log[k]
    BY <1>2
  <2>2. {k \in 1 .. j : IsFiring(log'[k].ev)} = {k \in 1 .. j : IsFiring(log[k].ev)}
    BY <2>1
  <2>3. \A k \in {k \in 1 .. j : IsFiring(log[k].ev)} : log'[k].ev.at = log[k].ev.at
    BY <2>1
  <2> QED  BY <2>2, <2>3 DEF EpisodesUpTo
<1> QED  BY <1>5, <1>6

(* Every firing that the window of a new one should hold is in what the     *)
(* item remembers after it, or as many later ones as it can remember.       *)
LEMMA WindowHolds ==
  ASSUME LogOK, EpisodesInv, InOrder, NEW ev \in Events, IsFiring(ev), NextInOrder(ev),
         NEW t \in Firings \cup {ev.at}, t >= ev.at - FlapWindow
  PROVE  LET window == EpisodesInWindow(state, ev) IN
         t \in window \/ Cardinality(Later(window, t)) >= MaxRecent
<1> DEFINE recent == state.recent_episodes
           firings == {u \in recent \cup {u \in {ev.at} : IsFiring(ev)} : u >= ev.at - FlapWindow}
           window == Latest(MaxRecent, firings)
<1>1. /\ ev.at \in Nat /\ FlapWindow \in Nat /\ MaxRecent \in Nat \ {0} /\ Firings \subseteq Nat
      /\ t \in Nat /\ recent \subseteq Firings
  BY PolicyAssumption, EventInstants, FiringsLogged DEF EpisodesInv, RememberedReal
<1>2. \A u \in Firings : u < ev.at
  <2>1. \A i \in DOMAIN log : log[i].ev.at < ev.at
    BY NewestNext DEF EpisodesInv
  <2> QED  BY <2>1, FiringsLogged
<1>3. IsFiniteSet(firings) /\ firings \in SUBSET Nat
  <2>1. IsFiniteSet(recent \cup {ev.at})
    BY FS_AddElement DEF EpisodesInv
  <2>2. firings \subseteq recent \cup {ev.at}
    OBVIOUS
  <2> QED  BY <1>1, <2>1, <2>2, FS_Subset
<1>4. window = EpisodesInWindow(state, ev)
  BY DEF EpisodesInWindow
<1>5. firings = {u \in recent \cup {ev.at} : u >= ev.at - FlapWindow}
  OBVIOUS
<1> HIDE DEF firings
<1>6. t \in firings => t \in window \/ Cardinality(Later(window, t)) >= MaxRecent
  <2> SUFFICES ASSUME t \in firings, t \notin window
               PROVE  Cardinality(Later(window, t)) >= MaxRecent
    OBVIOUS
  <2>1. ~(Cardinality(Later(firings, t)) < MaxRecent)
    BY LatestLater
  <2>2. Cardinality(Later(firings, t)) \in Nat
    BY <1>3, LaterIsFinite
  <2>3. Cardinality(Later(firings, t)) >= MaxRecent
    BY <1>1, <2>1, <2>2
  <2> QED  BY <1>1, <1>3, <2>3, LatestHasThem
<1>7. CASE t = ev.at
  BY <1>1, <1>5, <1>6, <1>7, <1>4
<1>8. CASE t \in recent
  BY <1>4, <1>5, <1>6, <1>8
<1>9. CASE t # ev.at /\ t \notin recent
  <2>1. t \in Firings
    BY <1>9
  <2>2. ~ \E u \in Firings : t < u - FlapWindow
    <3> SUFFICES ASSUME NEW u \in Firings, t < u - FlapWindow PROVE FALSE
      OBVIOUS
    <3> QED  BY <1>1, <1>2
  <2>3. Cardinality(Later(recent, t)) >= MaxRecent
    BY <1>9, <2>1, <2>2 DEF EpisodesInv, Remembered
  <2>4. Later(recent, t) \subseteq Later(firings, t)
    <3> SUFFICES ASSUME NEW u \in recent, u > t PROVE u \in firings
      BY DEF Later
    <3>1. u \in Nat
      BY <1>1
    <3> HIDE DEF recent
    <3>2. u >= ev.at - FlapWindow
      BY <1>1, <3>1
    <3> QED  BY <1>5, <3>2
  <2>5. IsFiniteSet(Later(firings, t)) /\ Cardinality(Later(firings, t)) \in Nat
    BY <1>3, LaterIsFinite
  <2>6. Cardinality(Later(recent, t)) <= Cardinality(Later(firings, t))
    BY <2>4, <2>5, FS_Subset
  <2>7. Cardinality(Later(recent, t)) \in Nat
    <3>1. recent \in SUBSET Nat /\ IsFiniteSet(recent)
      BY <1>1 DEF EpisodesInv
    <3> QED  BY <3>1, LaterIsFinite
  <2>8. Cardinality(Later(firings, t)) >= MaxRecent
    BY <1>1, <2>3, <2>5, <2>6, <2>7
  <2>9. Cardinality(Later(window, t)) >= MaxRecent
    BY <1>1, <1>3, <2>8, LatestHasThem
  <2> QED  BY <1>4, <2>9
<1> QED  BY <1>7, <1>8, <1>9

(* A firing that is in order.                                               *)
LEMMA FiringRemembered ==
  ASSUME LogOK, EpisodesInv, InOrder, NEW ev \in Events, IsFiring(ev), NextInOrder(ev),
         state'.recent_episodes = EpisodesInWindow(state, ev),
         Firings' = Firings \cup {ev.at}
  PROVE  Remembered'
<1> DEFINE window == EpisodesInWindow(state, ev)
<1> SUFFICES ASSUME NEW t \in Firings \cup {ev.at}
             PROVE  \/ t \in window
                    \/ Cardinality(Later(window, t)) >= MaxRecent
                    \/ \E u \in Firings \cup {ev.at} : t < u - FlapWindow
  <2> HIDE DEF window
  <2> QED  BY DEF Remembered, Later, window
<1>1. CASE t >= ev.at - FlapWindow
  BY <1>1, WindowHolds
<1>2. CASE ~(t >= ev.at - FlapWindow)
  <2>1. t \in Nat /\ ev.at \in Nat /\ FlapWindow \in Nat
    BY PolicyAssumption, EventInstants, FiringsLogged
  <2>2. t < ev.at - FlapWindow
    BY <1>2, <2>1
  <2> QED  BY <2>2
<1> QED  BY <1>1, <1>2

(* Where a firing is not held back, its window holds few episodes.          *)
LEMMA WindowCounts ==
  ASSUME LogOK, EpisodesInv, InOrder, NEW ev \in Events, IsFiring(ev), NextInOrder(ev),
         FlapLimit <= MaxRecent,
         ~TooManyEpisodes(Cardinality(EpisodesInWindow(state, ev)))
  PROVE  ~TooManyEpisodes(Cardinality({t \in Firings \cup {ev.at} : t >= ev.at - FlapWindow}))
<1> DEFINE window == EpisodesInWindow(state, ev)
           counted == {t \in Firings \cup {ev.at} : t >= ev.at - FlapWindow}
<1>1. window \in SUBSET Nat /\ IsFiniteSet(window) /\ Cardinality(window) \in Nat
  <2>1. window \in SUBSET Nat /\ IsFiniteSet(window)
    BY EventTimes, WindowFacts DEF LogOK, EpisodesInv
  <2> QED  BY <2>1, FS_CardinalityType
<1>2. MaxRecent \in Nat /\ FlapLimit \in Nat /\ FlapWindow \in Nat
  BY PolicyAssumption
<1>3. \A t \in counted : t \in window \/ Cardinality(Later(window, t)) >= MaxRecent
  BY WindowHolds
<1> HIDE DEF window, counted
<1>4. SUFFICES ASSUME FlapWindow > 0
               PROVE  ~(Cardinality(counted) >= FlapLimit)
  BY DEF TooManyEpisodes, counted
<1>5. Cardinality(window) < FlapLimit
  BY <1>1, <1>2, <1>4 DEF TooManyEpisodes, window
<1>6. counted \subseteq window
  <2> SUFFICES ASSUME NEW t \in counted, Cardinality(Later(window, t)) >= MaxRecent PROVE FALSE
    BY <1>3
  <2>1. Later(window, t) \subseteq window
    BY DEF Later
  <2>2. Cardinality(Later(window, t)) <= Cardinality(window)
    BY <1>1, <2>1, FS_Subset
  <2>3. Cardinality(Later(window, t)) \in Nat
    BY <1>1, LaterIsFinite
  <2> QED  BY <1>1, <1>2, <1>5, <2>2, <2>3
<1>7. Cardinality(counted) <= Cardinality(window)
  BY <1>1, <1>6, FS_Subset
<1>8. IsFiniteSet(counted)
  BY <1>1, <1>6, FS_Subset
<1>9. Cardinality(counted) \in Nat
  BY <1>8, FS_CardinalityType
<1> QED  BY <1>1, <1>2, <1>5, <1>7, <1>9

LEMMA EpisodesJudge ==
  ASSUME LogInv, LogInv', EpisodesInv, NEW ev \in Events, Judge(ev), FlapLimit <= MaxRecent
  PROVE  EpisodesInv'
<1> DEFINE d == Decide(state, ev)
           n == Len(log) + 1
<1>1. /\ LogOK /\ state \in StateType /\ ev \in EventType
      /\ d \in DecisionType /\ d # Confirmed
      /\ state' = After(state, ev) /\ log' = Append(log, Entry(ev, d))
  BY EventTimes, DecideFacts, NeverConfirmed DEF LogInv, LogOK, Judge
<1>2. /\ EventsJudged' /\ (InOrder' => InOrder /\ NextInOrder(ev))
      /\ Firings' = Firings \cup {t \in {ev.at} : IsFiring(ev)}
      /\ \A j \in DOMAIN log : EpisodesUpTo(j)' = EpisodesUpTo(j)
  <2> HIDE DEF d
  <2>1. EventsJudged' /\ (InOrder' => InOrder /\ NextInOrder(ev))
    BY <1>1, JudgedGrows DEF EpisodesInv
  <2>2. /\ Firings' = Firings \cup {t \in {ev.at} : IsFiring(ev)}
        /\ \A j \in DOMAIN log : EpisodesUpTo(j)' = EpisodesUpTo(j)
    BY <1>1, FiringsGrow
  <2> QED  BY <2>1, <2>2
<1>3. IsFiniteSet(state'.recent_episodes)
  BY <1>1, AfterOK DEF EpisodesInv
<1>4. IsFiring(ev) => state'.recent_episodes = EpisodesInWindow(state, ev)
  <2> SUFFICES ASSUME IsFiring(ev) PROVE state'.recent_episodes = EpisodesInWindow(state, ev)
    OBVIOUS
  <2>1. state' = ApplyFiring(state, ev, d)
    BY <1>1, FiringAfter
  <2> HIDE DEF d
  <2> QED  BY <1>1, <2>1, FiringFields
<1>5. ~IsFiring(ev) => state'.recent_episodes = state.recent_episodes
  BY <1>1 DEF After, Apply, CloseEpisode, StateType
<1>6. RememberedReal'
  <2>1. EpisodesInWindow(state, ev) \subseteq state.recent_episodes \cup {t \in {ev.at} : IsFiring(ev)}
    BY DEF EpisodesInWindow, Latest
  <2>2. state'.recent_episodes \subseteq state.recent_episodes \cup {t \in {ev.at} : IsFiring(ev)}
    BY <1>4, <1>5, <2>1
  <2> QED  BY <1>2, <2>2 DEF EpisodesInv, RememberedReal
<1>7. Remembered'
  <2> SUFFICES ASSUME InOrder' PROVE Remembered'
    BY DEF Remembered
  <2>1. CASE IsFiring(ev)
    <3>1. Firings' = Firings \cup {ev.at}
      BY <1>2, <2>1
    <3> QED  BY <1>1, <1>2, <1>4, <2>1, <3>1, FiringRemembered
  <2>2. CASE ~IsFiring(ev)
    <3>1. Firings' = Firings /\ state'.recent_episodes = state.recent_episodes
      BY <1>2, <1>5, <2>2
    <3>2. InOrder
      BY <1>2
    <3> QED  BY <3>1, <3>2 DEF EpisodesInv, Remembered, Later
  <2> QED  BY <2>1, <2>2
<1>8. FlappingContained'
  <2> SUFFICES ASSUME InOrder', NEW j \in DOMAIN log', Suppressible(j)',
                      log'[j].decision.action \in {"notify", "defer"}, log'[j].decision # Confirmed
               PROVE  ~TooManyEpisodes(Cardinality(
                         {t \in EpisodesUpTo(j)' : t >= log'[j].ev.at - FlapWindow}))
    BY DEF FlappingContained
  <2>1. /\ Entry(ev, d) \in EntryType /\ Entry(ev, d).ev = ev /\ Entry(ev, d).decision = d
    BY <1>1 DEF Entry, EntryType
  <2>2. /\ Len(log) \in Nat /\ Len(log') = n
        /\ DOMAIN log = 1 .. Len(log) /\ DOMAIN log' = 1 .. n
        /\ \A i \in 1 .. Len(log) : log'[i] = log[i]
        /\ log'[n].ev = ev /\ log'[n].decision = d
    <3> HIDE DEF d
    <3> QED  BY <1>1, <2>1, EntryAdded
  <2>3. InOrder /\ NextInOrder(ev)
    BY <1>2
  <2>4. CASE j = n
    <3>1. IsFiring(ev) /\ ev.severity \notin ExemptSeverities /\ d.action \in {"notify", "defer"}
      <4> HIDE DEF d
      <4> QED  BY <2>2, <2>4 DEF Suppressible
    <3>2. ~TooManyEpisodes(Cardinality(EpisodesInWindow(state, ev)))
      BY <1>1, <3>1, PassedIsCalm
    <3>3. ~TooManyEpisodes(Cardinality({t \in Firings \cup {ev.at} : t >= ev.at - FlapWindow}))
      BY <1>1, <2>3, <3>1, <3>2, WindowCounts
    <3>4. EpisodesUpTo(j)' = Firings'
      BY <2>2, <2>4 DEF Firings, EpisodesUpTo
    <3>5. EpisodesUpTo(j)' = Firings \cup {ev.at} /\ log'[j].ev.at = ev.at
      BY <1>2, <2>2, <2>4, <3>1, <3>4
    <3> QED  BY <3>3, <3>5
  <2>5. CASE j # n
    <3>1. j \in DOMAIN log /\ log'[j] = log[j]
      BY <2>2, <2>5
    <3>2. Suppressible(j) /\ EpisodesUpTo(j)' = EpisodesUpTo(j)
      BY <1>2, <3>1 DEF Suppressible
    <3>3. ~TooManyEpisodes(Cardinality({t \in EpisodesUpTo(j) : t >= log[j].ev.at - FlapWindow}))
      BY <2>3, <3>1, <3>2 DEF EpisodesInv, FlappingContained
    <3> QED  BY <3>1, <3>2, <3>3
  <2> QED  BY <2>4, <2>5
<1> QED  BY <1>2, <1>3, <1>6, <1>7, <1>8 DEF EpisodesInv

LEMMA EpisodesConfirm ==
  ASSUME LogInv, EpisodesInv, NEW ev \in Events, Confirm(ev)
  PROVE  EpisodesInv'
<1> DEFINE n == Len(log) + 1
<1>1. /\ LogOK /\ state \in StateType /\ ev.at \in Nat
      /\ Confirmed \in DecisionType /\ Deferred(ev)
      /\ state' = RecordNotice(state, ev.at) /\ log' = Append(log, Entry(ev, Confirmed))
  BY EventTimes DEF LogInv, LogOK, Confirm, Confirmed, Decision, DecisionType, Actions, Reasons
<1>2. EventsJudged' /\ (InOrder' => InOrder)
  BY <1>1, ConfirmedGrows DEF EpisodesInv
<1>3. /\ Firings' = Firings \cup {t \in {ev.at} : IsFiring(ev)}
      /\ \A j \in DOMAIN log : EpisodesUpTo(j)' = EpisodesUpTo(j)
  BY <1>1, FiringsGrow
<1>4. Firings' = Firings
  <2>1. PICK m \in DOMAIN log : log[m].ev = ev
    BY <1>1 DEF Deferred, Entry
  <2>2. IsFiring(ev) => ev.at \in Firings
    BY <1>1, <2>1, FiringsLogged
  <2> QED  BY <1>3, <2>2
<1>5. state'.recent_episodes = state.recent_episodes
  BY <1>1 DEF RecordNotice, StateType
<1>6. RememberedReal' /\ Remembered'
  BY <1>2, <1>4, <1>5 DEF EpisodesInv, RememberedReal, Remembered, Later
<1>7. FlappingContained'
  <2> SUFFICES ASSUME InOrder', NEW j \in DOMAIN log', Suppressible(j)',
                      log'[j].decision.action \in {"notify", "defer"}, log'[j].decision # Confirmed
               PROVE  ~TooManyEpisodes(Cardinality(
                         {t \in EpisodesUpTo(j)' : t >= log'[j].ev.at - FlapWindow}))
    BY DEF FlappingContained
  <2>1. /\ Entry(ev, Confirmed) \in EntryType /\ Entry(ev, Confirmed).decision = Confirmed
    BY <1>1 DEF Entry, EntryType
  <2>2. /\ DOMAIN log = 1 .. Len(log) /\ DOMAIN log' = 1 .. n /\ Len(log) \in Nat
        /\ \A i \in 1 .. Len(log) : log'[i] = log[i]
        /\ log'[n].decision = Confirmed
    BY <1>1, <2>1, EntryAdded
  <2>3. j \in DOMAIN log /\ log'[j] = log[j]
    BY <2>2
  <2>4. Suppressible(j) /\ EpisodesUpTo(j)' = EpisodesUpTo(j)
    BY <1>3, <2>3 DEF Suppressible
  <2>5. ~TooManyEpisodes(Cardinality({t \in EpisodesUpTo(j) : t >= log[j].ev.at - FlapWindow}))
    BY <1>2, <2>3, <2>4 DEF EpisodesInv, FlappingContained
  <2> QED  BY <2>3, <2>4, <2>5
<1> QED  BY <1>2, <1>5, <1>6, <1>7 DEF EpisodesInv

LEMMA EpisodesKept ==
  ASSUME EpisodesInv, log' = log, state'.recent_episodes = state.recent_episodes
  PROVE  EpisodesInv'
<1>1. Firings' = Firings /\ (InOrder' <=> InOrder) /\ EventsJudged'
  BY DEF EpisodesInv, Firings, EpisodesUpTo, InOrder, EventsJudged, Judged
<1>2. FlappingContained'
  BY <1>1 DEF EpisodesInv, FlappingContained, Suppressible, EpisodesUpTo
<1> QED  BY <1>1, <1>2 DEF EpisodesInv, RememberedReal, Remembered, Later

LEMMA EpisodesInit == Init => EpisodesInv
<1> SUFFICES ASSUME Init PROVE EpisodesInv
  OBVIOUS
<1>1. DOMAIN log = {} /\ log = <<>> /\ Len(log) = 0 /\ state.recent_episodes = {}
  BY DEF Init, NoState
<1>2. Firings = {}
  BY <1>1 DEF Firings, EpisodesUpTo
<1> QED  BY <1>1, <1>2, FS_EmptySet
         DEF EpisodesInv, EventsJudged, RememberedReal, Remembered, FlappingContained

(* The firing that makes the window hold FlapLimit episodes, and those      *)
(* after it, wake nobody (is_flapping, apply_event), for every policy that  *)
(* asks for no more episodes than the item remembers.                       *)
THEOREM FlappingEnds ==
  ASSUME FlapLimit <= MaxRecent
  PROVE  StateSpec => []FlappingContained
<1>1. LogInv /\ LogInv' /\ EpisodesInv /\ [StateNext]_vars => EpisodesInv'
  <2> SUFFICES ASSUME LogInv, LogInv', EpisodesInv, [StateNext]_vars PROVE EpisodesInv'
    OBVIOUS
  <2>1. Vanish \/ UNCHANGED vars => log' = log /\ state'.recent_episodes = state.recent_episodes
    BY DEF LogInv, LogOK, Vanish, CloseEpisode, StateType, vars
  <2> QED  BY <2>1, EpisodesJudge, EpisodesConfirm, EpisodesKept DEF StateNext
<1>2. EpisodesInv => FlappingContained
  BY DEF EpisodesInv
<1> QED  BY EpisodesInit, <1>1, <1>2, LogInvariant, PTL DEF StateSpec
-----------------------------------------------------------------------------
(* A group worker confirms a deferred event once, and only while its own    *)
(* episode goes on (same_episode of alert_group_worker/lambda_handler.py).  *)
ConfirmDue(ev) ==
  /\ \A i \in DOMAIN log : log[i] # Entry(ev, Confirmed)
  /\ state.episode_started_at <= ev.at
  /\ Confirm(ev)

DueNext ==
  \/ \E ev \in Events : Judge(ev) \/ ConfirmDue(ev)
  \/ Vanish

DueSpec == Init /\ [][DueNext]_vars

(* No notice is newer than the last one the item knows.                     *)
NoticesKnown ==
  \A i \in DOMAIN log :
    Notice(i) => state.last_notified_at # Never /\ log[i].ev.at <= state.last_notified_at

(* An open episode is that of the last judged event.                        *)
EpisodeOfLast ==
  state.episode_open =>
    \E m \in Judged :
      LastJudged(m) /\ IsFiring(log[m].ev) /\ log[m].ev.at = state.episode_started_at

(* An instant that may be given a notice.                                   *)
Apart(at) ==
  \/ state.last_notified_at = Never
  \/ at - state.last_notified_at \notin 0 .. RepeatInterval - 1

(* The last judged event, deferred and not confirmed, may still be.         *)
DeferredApart ==
  \A m \in Judged :
    /\ LastJudged(m) /\ log[m].decision.action = "defer"
    /\ \A k \in DOMAIN log : log[k] # Entry(log[m].ev, Confirmed)
    => Apart(log[m].ev.at)

RateInv ==
  /\ EventsJudged
  /\ InOrder => NoticesKnown /\ EpisodeOfLast /\ DeferredApart /\ Spaced

LEMMA EntryKept ==
  ASSUME LogOK, NEW ev \in Events, NEW decision \in DecisionType,
         log' = Append(log, Entry(ev, decision))
  PROVE  LET n == Len(log) + 1 IN
         /\ Len(log) \in Nat /\ n \in Nat \ {0}
         /\ DOMAIN log = 1 .. Len(log) /\ DOMAIN log' = 1 .. n
         /\ \A i \in DOMAIN log : i \in DOMAIN log' /\ log'[i] = log[i] /\ i < n
         /\ log'[n].ev = ev /\ log'[n].decision = decision /\ log'[n] = Entry(ev, decision)
<1>1. /\ Entry(ev, decision) \in EntryType
      /\ Entry(ev, decision).ev = ev /\ Entry(ev, decision).decision = decision
  BY DEF Entry, EntryType
<1> QED  BY <1>1, EntryAdded

(* A notice that keeps its distance from the last one keeps it from all.    *)
LEMMA SpacedGrows ==
  ASSUME LogInv, InOrder, NoticesKnown, Spaced, NEW ev \in Events, NEW decision \in DecisionType,
         log' = Append(log, Entry(ev, decision)),
         \A i \in DOMAIN log : log[i].ev.at <= ev.at,
         decision.action = "notify" /\ IsFiring(ev) /\ ev.severity \notin ExemptSeverities
           => Apart(ev.at)
  PROVE  Spaced'
<1> DEFINE n == Len(log) + 1
<1>1. /\ LogOK /\ ev.at \in Nat /\ RepeatInterval \in Nat /\ state.last_notified_at \in Nat
      /\ \A i \in DOMAIN log : log[i].ev.at \in Nat
  BY PolicyAssumption, EventTimes, LoggedInstants DEF LogInv, LogOK, StateType
<1>2. /\ Len(log) \in Nat /\ n \in Nat \ {0}
      /\ DOMAIN log = 1 .. Len(log) /\ DOMAIN log' = 1 .. n
      /\ \A i \in DOMAIN log : i \in DOMAIN log' /\ log'[i] = log[i] /\ i < n
      /\ log'[n].ev = ev /\ log'[n].decision = decision
  BY <1>1, EntryKept
<1> SUFFICES ASSUME NEW j \in DOMAIN log', NEW i \in 1 .. j - 1,
                    Notice(i)', Notice(j)', Suppressible(j)'
             PROVE  Elapsed(i, j)' \notin 0 .. RepeatInterval - 1
  BY DEF Spaced
<1>3. i \in DOMAIN log /\ log'[i] = log[i] /\ Notice(i)
  BY <1>2 DEF Notice
<1>4. CASE j = n
  <2>1. Apart(ev.at) /\ Elapsed(i, j)' = ev.at - log[i].ev.at
    BY <1>2, <1>3, <1>4 DEF Notice, Suppressible, Elapsed
  <2>2. state.last_notified_at # Never /\ log[i].ev.at <= state.last_notified_at
    BY <1>3 DEF NoticesKnown
  <2>3. PICK k \in DOMAIN log : log[k].ev.at = state.last_notified_at
    BY <2>2 DEF LogInv, NoticeLogged
  <2>4. state.last_notified_at <= ev.at
    BY <2>3
  <2>5. ev.at - state.last_notified_at \notin 0 .. RepeatInterval - 1
    BY <2>1, <2>2 DEF Apart
  <2> QED  BY <1>1, <1>3, <2>1, <2>2, <2>4, <2>5
<1>5. CASE j # n
  <2>1. j \in DOMAIN log /\ log'[j] = log[j]
    BY <1>2, <1>5
  <2> QED  BY <1>3, <2>1 DEF Spaced, Notice, Suppressible, Elapsed
<1> QED  BY <1>4, <1>5

(* The item knows of a new notice, and of none it was not told of.          *)
LEMMA NoticesGrow ==
  ASSUME LogInv, NoticesKnown, NEW ev \in Events, NEW decision \in DecisionType,
         log' = Append(log, Entry(ev, decision)),
         \A i \in DOMAIN log : log[i].ev.at <= ev.at,
         IF IsFiring(ev) /\ decision.action = "notify"
         THEN state'.last_notified_at = ev.at
         ELSE state'.last_notified_at = state.last_notified_at
  PROVE  NoticesKnown'
<1> DEFINE n == Len(log) + 1
<1>1. LogOK /\ ev.at \in Nat \ {Never}
  BY EventInstants DEF LogInv
<1>2. /\ Len(log) \in Nat /\ n \in Nat \ {0}
      /\ DOMAIN log = 1 .. Len(log) /\ DOMAIN log' = 1 .. n
      /\ \A i \in DOMAIN log : i \in DOMAIN log' /\ log'[i] = log[i] /\ i < n
      /\ log'[n].ev = ev /\ log'[n].decision = decision
  BY <1>1, EntryKept
<1> SUFFICES ASSUME NEW i \in DOMAIN log', Notice(i)'
             PROVE  state'.last_notified_at # Never /\ log'[i].ev.at <= state'.last_notified_at
  BY DEF NoticesKnown
<1>3. CASE i = n
  BY <1>1, <1>2, <1>3 DEF Notice
<1>4. CASE i # n
  <2>1. i \in DOMAIN log /\ log'[i] = log[i] /\ Notice(i)
    BY <1>2, <1>4 DEF Notice
  <2> QED  BY <1>1, <2>1 DEF NoticesKnown
<1> QED  BY <1>3, <1>4

LEMMA RateJudge ==
  ASSUME LogInv, RateInv, NEW ev \in Events, Judge(ev)
  PROVE  RateInv'
<1> DEFINE d == Decide(state, ev)
<1>0. PICK n : n = Len(log) + 1
  OBVIOUS
<1>1. /\ LogOK /\ state \in StateType /\ ev \in EventType /\ ev.at \in Nat
      /\ d \in DecisionType /\ d # Confirmed
      /\ state' = After(state, ev) /\ log' = Append(log, Entry(ev, d))
  BY EventTimes, DecideFacts, NeverConfirmed DEF LogInv, LogOK, Judge
<1> HIDE DEF d
<1>2. /\ Judged' = Judged \cup {n} /\ Judged \subseteq DOMAIN log
      /\ EventsJudged' /\ (InOrder' => InOrder /\ NextInOrder(ev))
  BY <1>0, <1>1, JudgedGrows DEF RateInv
<1>3. /\ Len(log) \in Nat /\ n \in Nat \ {0}
      /\ DOMAIN log = 1 .. Len(log) /\ DOMAIN log' = 1 .. n
      /\ \A i \in DOMAIN log : i \in DOMAIN log' /\ log'[i] = log[i] /\ i < n
      /\ log'[n].ev = ev /\ log'[n].decision = d /\ log'[n] = Entry(ev, d)
  BY <1>0, <1>1, EntryKept
<1>4. IF IsFiring(ev) /\ d.action = "notify"
      THEN state'.last_notified_at = ev.at
      ELSE state'.last_notified_at = state.last_notified_at
  BY <1>1, AfterFacts DEF d
<1> SUFFICES ASSUME InOrder'
             PROVE  NoticesKnown' /\ EpisodeOfLast' /\ DeferredApart' /\ Spaced'
  BY <1>2 DEF RateInv
<1>5. InOrder /\ NextInOrder(ev) /\ NoticesKnown /\ EpisodeOfLast /\ DeferredApart /\ Spaced
  BY <1>2 DEF RateInv
<1>6. \A i \in DOMAIN log : log[i].ev.at <= ev.at
  <2>1. \A i \in DOMAIN log : log[i].ev.at < ev.at /\ log[i].ev.at \in Nat
    BY <1>1, <1>5, NewestNext, LoggedInstants DEF RateInv
  <2> QED  BY <1>1, <2>1
<1>7. LastJudged(n)' /\ \A m \in Judged' : LastJudged(m)' => m = n
  <2>1. n \in Judged' /\ \A k \in Judged' : k <= n
    BY <1>2, <1>3
  <2> QED  BY <1>2, <1>3, <2>1 DEF LastJudged
<1>8. IsFiring(ev) /\ ev.severity \notin ExemptSeverities /\ d.action \in {"notify", "defer"}
        => Apart(ev.at)
  <2> SUFFICES ASSUME IsFiring(ev), ev.severity \notin ExemptSeverities,
                      d.action \in {"notify", "defer"}
               PROVE  Apart(ev.at)
    OBVIOUS
  <2>1. ~WithinRepeat(state, ev)
    BY <1>1, DecideFiring DEF d
  <2> QED  BY <2>1 DEF WithinRepeat, Apart
<1>9. NoticesKnown'
  BY <1>1, <1>4, <1>5, <1>6, NoticesGrow
<1>10. Spaced'
  BY <1>1, <1>5, <1>6, <1>8, SpacedGrows
<1>11. DeferredApart'
  <2> SUFFICES ASSUME d.action = "defer" PROVE Apart(ev.at)'
    BY <1>3, <1>7 DEF DeferredApart
  <2>1. IsFiring(ev) /\ ev.severity \notin ExemptSeverities
    <3>1. IsFiring(ev)
      BY <1>1, DecideFacts DEF d
    <3>2. d.action = "notify" \/ ev.severity \notin ExemptSeverities
      BY <1>1, <3>1, DecideFiring DEF d
    <3> QED  BY <3>1, <3>2
  <2>2. state'.last_notified_at = state.last_notified_at
    BY <1>4
  <2> QED  BY <1>8, <2>1, <2>2 DEF Apart
<1>12. EpisodeOfLast'
  <2> SUFFICES ASSUME state'.episode_open
               PROVE  IsFiring(ev) /\ ev.at = state'.episode_started_at
    BY <1>3, <1>7, <1>2 DEF EpisodeOfLast
  <2>1. ASSUME state.episode_open PROVE ~IsFiring(ev) /\ ev.kind = "clearing"
    <3>1. PICK m \in Judged : LastJudged(m) /\ IsFiring(log[m].ev)
      BY <1>5, <2>1 DEF EpisodeOfLast
    <3>2. {log[m].ev.kind, ev.kind} \subseteq {"firing", "clearing"}
          /\ (log[m].ev.kind = ev.kind => \E k \in Judged : m < k)
      BY <1>5 DEF NextInOrder
    <3>3. \A k \in Judged : ~(m < k)
      <4>1. \A k \in Judged : k <= m /\ k \in Nat /\ m \in Nat
        BY <1>2, <1>3, <3>1 DEF LastJudged
      <4> QED  BY <4>1
    <3>4. ev.kind # log[m].ev.kind
      BY <3>2, <3>3
    <3> QED  BY <3>1, <3>2, <3>4 DEF IsFiring
  <2>2. CASE IsFiring(ev)
    <3>1. ~state.episode_open
      BY <2>1, <2>2
    <3>2. state' = ApplyFiring(state, ev, d)
      BY <1>1, <2>2, FiringAfter DEF d
    <3>3. state'.episode_started_at = ev.at
      BY <1>1, <3>1, <3>2, FiringFields
    <3> QED  BY <2>2, <3>3
  <2>3. CASE ~IsFiring(ev)
    <3>1. ev.kind = "clearing" => ~state'.episode_open
      BY <1>1 DEF After, Apply, IsFiring, CloseEpisode, StateType
    <3>2. CASE ev.kind # "clearing"
      <4>1. state' = state
        BY <1>1, <2>3, <3>2 DEF After, Apply
      <4> QED  BY <2>1, <3>2, <4>1
    <3> QED  BY <3>1, <3>2
  <2> QED  BY <2>2, <2>3
<1> QED  BY <1>9, <1>10, <1>11, <1>12

LEMMA RateConfirm ==
  ASSUME LogInv, RateInv, NEW ev \in Events, ConfirmDue(ev)
  PROVE  RateInv'
<1> DEFINE n == Len(log) + 1
<1>1. /\ LogOK /\ state \in StateType /\ ev.at \in Nat
      /\ Confirmed \in DecisionType /\ Deferred(ev) /\ Confirmed.action = "notify"
      /\ state.episode_open /\ state.episode_started_at <= ev.at
      /\ \A i \in DOMAIN log : log[i] # Entry(ev, Confirmed)
      /\ state' = RecordNotice(state, ev.at) /\ log' = Append(log, Entry(ev, Confirmed))
  BY EventTimes
     DEF LogInv, LogOK, Confirm, ConfirmDue, Confirmed, Decision, DecisionType, Actions, Reasons
<1>2. /\ Judged' = Judged /\ Judged \subseteq DOMAIN log
      /\ EventsJudged' /\ (InOrder' => InOrder)
      /\ \E m \in Judged : log[m].ev = ev /\ log[m].decision.action = "defer"
  BY <1>1, ConfirmedGrows DEF RateInv
<1>3. /\ Len(log) \in Nat /\ n \in Nat \ {0}
      /\ DOMAIN log = 1 .. Len(log) /\ DOMAIN log' = 1 .. n
      /\ \A i \in DOMAIN log : i \in DOMAIN log' /\ log'[i] = log[i] /\ i < n
      /\ log'[n].ev = ev /\ log'[n].decision = Confirmed /\ log'[n] = Entry(ev, Confirmed)
  BY <1>1, EntryKept
<1>4. /\ state'.last_notified_at = ev.at
      /\ state'.episode_started_at = state.episode_started_at
  BY <1>1 DEF RecordNotice, StateType
<1> SUFFICES ASSUME InOrder'
             PROVE  NoticesKnown' /\ EpisodeOfLast' /\ DeferredApart' /\ Spaced'
  BY <1>2 DEF RateInv
<1>5. /\ EventsJudged /\ InOrder /\ NoticesKnown /\ EpisodeOfLast /\ DeferredApart /\ Spaced
  BY <1>2 DEF RateInv
<1>6. PICK m \in Judged : log[m].ev = ev /\ log[m].decision.action = "defer"
  BY <1>2
<1>7. PICK l \in Judged :
        LastJudged(l) /\ IsFiring(log[l].ev) /\ log[l].ev.at = state.episode_started_at
  BY <1>1, <1>5 DEF EpisodeOfLast
<1>8. l = m
  <2>1. l \in Nat /\ m \in Nat /\ m <= l
    BY <1>2, <1>3, <1>7 DEF LastJudged
  <2>2. ASSUME m < l PROVE FALSE
    <3>1. log[m].ev.at < log[l].ev.at
      BY <1>5, <2>2, InOrderJudged
    <3>2. log[l].ev.at <= ev.at /\ log[l].ev.at \in Nat
      BY <1>1, <1>2, <1>7, LoggedInstants
    <3> QED  BY <1>1, <1>6, <3>1, <3>2
  <2> QED  BY <2>1, <2>2
<1>9. IsFiring(ev) /\ ev.at = state.episode_started_at /\ LastJudged(m)
  BY <1>6, <1>7, <1>8
<1>10. \A i \in DOMAIN log : log[i].ev.at <= ev.at
  BY <1>1, <1>5, <1>6, <1>9, NewestJudged
<1>11. Apart(ev.at)
  BY <1>1, <1>5, <1>6, <1>9 DEF DeferredApart
<1>12. NoticesKnown'
  BY <1>1, <1>4, <1>5, <1>9, <1>10, NoticesGrow
<1>13. Spaced'
  BY <1>1, <1>5, <1>10, <1>11, SpacedGrows
<1>14. \A k \in Judged : log'[k] = log[k] /\ (LastJudged(k)' <=> LastJudged(k))
  BY <1>2, <1>3 DEF LastJudged
<1>15. EpisodeOfLast'
  BY <1>2, <1>4, <1>6, <1>9, <1>14 DEF EpisodeOfLast
<1>16. DeferredApart'
  <2> SUFFICES ASSUME NEW k \in Judged, LastJudged(k),
                      \A i \in DOMAIN log' : log'[i] # Entry(log[k].ev, Confirmed)
               PROVE  FALSE
    BY <1>2, <1>14 DEF DeferredApart
  <2>1. k = m
    <3>1. k <= m /\ m <= k /\ k \in Nat /\ m \in Nat
      BY <1>2, <1>3, <1>9 DEF LastJudged
    <3> QED  BY <3>1
  <2>2. n \in DOMAIN log' /\ log'[n] = Entry(log[k].ev, Confirmed)
    BY <1>3, <1>6, <2>1
  <2> QED  BY <2>2
<1> QED  BY <1>12, <1>13, <1>15, <1>16

LEMMA RateKept ==
  ASSUME RateInv, log' = log, state'.last_notified_at = state.last_notified_at,
         \/ ~state'.episode_open
         \/ state' = state
  PROVE  RateInv'
<1>1. Judged' = Judged /\ (InOrder' <=> InOrder) /\ EventsJudged'
  BY DEF RateInv, Judged, InOrder, EventsJudged
<1>2. \A k \in Judged : LastJudged(k)' <=> LastJudged(k)
  BY <1>1 DEF LastJudged
<1>3. NoticesKnown /\ Spaced => NoticesKnown' /\ Spaced'
  BY DEF NoticesKnown, Spaced, Notice, Suppressible, Elapsed
<1>4. DeferredApart => DeferredApart'
  BY <1>1, <1>2 DEF DeferredApart, Apart
<1>5. EpisodeOfLast => EpisodeOfLast'
  BY <1>1, <1>2 DEF EpisodeOfLast
<1> QED  BY <1>1, <1>3, <1>4, <1>5 DEF RateInv

LEMMA RateInit == Init => RateInv
<1> SUFFICES ASSUME Init PROVE RateInv
  OBVIOUS
<1>1. DOMAIN log = {} /\ ~state.episode_open /\ Judged = {}
  BY DEF Init, NoState, Judged
<1> QED  BY <1>1 DEF RateInv, EventsJudged, NoticesKnown, EpisodeOfLast, DeferredApart, Spaced

(* Events judged in order leave two notices at least the repeat interval    *)
(* apart, confirmations included (decide, rule 4; _mark_notified), while a  *)
(* deferred event is confirmed once and in its own episode.                 *)
THEOREM NoticesApart == DueSpec => []RateLimited
<1>1. [DueNext]_vars => [StateNext]_vars
  BY DEF DueNext, StateNext, ConfirmDue
<1>2. DueSpec => []LogInv
  BY <1>1, LogInvariant, PTL DEF DueSpec, StateSpec
<1>3. LogInv /\ RateInv /\ [DueNext]_vars => RateInv'
  <2> SUFFICES ASSUME LogInv, RateInv, [DueNext]_vars PROVE RateInv'
    OBVIOUS
  <2>1. CASE Vanish
    <3>1. log' = log /\ state'.last_notified_at = state.last_notified_at /\ ~state'.episode_open
      BY <2>1 DEF LogInv, LogOK, Vanish, CloseEpisode, StateType
    <3> QED  BY <3>1, RateKept
  <2>2. CASE UNCHANGED vars
    BY <2>2, RateKept DEF vars
  <2> QED  BY <2>1, <2>2, RateJudge, RateConfirm DEF DueNext
<1>4. RateInv => RateLimited
  BY DEF RateInv, RateLimited
<1> QED  BY RateInit, <1>2, <1>3, <1>4, PTL DEF DueSpec
=================================================================================
