-------------------------- MODULE AlertIngestorProofs --------------------------
(***************************************************************************)
(* For every policy, set of events, number of invocations and of failures:  *)
(* the ingestor, the group worker and the router keep the fingerprint item  *)
(* typed, and together they implement AlertJudgement, i.e. each change of   *)
(* the item is one whole judgement of the state it had; rows are never      *)
(* taken back; and where nothing fails no alarm is lost to deduplication.   *)
(***************************************************************************)
EXTENDS AlertIngestor, TLAPS

-----------------------------------------------------------------------------
(* What decide() returns: a duplicate has a recent notice, a clearing that  *)
(* is announced an announced episode, and only a firing is deferred.        *)
LEMMA DecideFacts ==
  ASSUME NEW s \in StateType, NEW ev \in EventType
  PROVE  LET d == Decide(s, ev) IN
         /\ d \in DecisionType
         /\ d.action = "defer" => IsFiring(ev)
         /\ d.reason = "dedup" => WithinRepeat(s, ev)
         /\ ev.kind = "clearing" /\ d.action = "notify" => AlreadyNotified(s)
  BY DEF Decide, Decision, DecisionType, Actions, Reasons, IsFiring

(* The fields of the item after a firing (apply_event).                     *)
LEMMA FiringFields ==
  ASSUME NEW s \in StateType, NEW ev \in EventType, NEW d \in DecisionType
  PROVE  LET after == ApplyFiring(s, ev, d) IN
         /\ after \in StateType
         /\ after.recent_episodes = EpisodesInWindow(s, ev)
         /\ after.episode_open
         /\ s.episode_open => after.episode_started_at = s.episode_started_at
         /\ ~s.episode_open => after.episode_started_at = ev.at
         /\ after.episode_notified <=>
              d.action = "notify" \/ (s.episode_open /\ s.episode_notified)
         /\ after.last_notified_at = IF d.action = "notify" THEN ev.at ELSE s.last_notified_at
         /\ after.quarantined_until = IF d.reason = "flapping" /\ ~Quarantined(s, ev.at)
                                      THEN ev.at + QuarantineTime ELSE s.quarantined_until
<1> DEFINE counted == [s EXCEPT !.recent_episodes = EpisodesInWindow(s, ev)]
           opened  == OpenEpisode(counted, ev)
           noticed == IF d.action = "notify" THEN RecordNotice(opened, ev.at) ELSE opened
           after   == IF d.reason = "flapping" THEN StartQuarantine(noticed, ev.at) ELSE noticed
<1>1. ev.at \in Nat /\ ev.at + QuarantineTime \in Nat
  BY PolicyAssumption DEF EventType
<1>2. /\ counted \in StateType /\ counted.recent_episodes = EpisodesInWindow(s, ev)
      /\ counted.last_notified_at = s.last_notified_at
      /\ counted.episode_open = s.episode_open
      /\ counted.episode_started_at = s.episode_started_at
      /\ counted.episode_notified = s.episode_notified
      /\ counted.quarantined_until = s.quarantined_until
  BY DEF StateType, EventType, EpisodesInWindow, Latest
<1> HIDE DEF counted
<1>3. /\ opened \in StateType /\ opened.recent_episodes = EpisodesInWindow(s, ev)
      /\ opened.last_notified_at = s.last_notified_at
      /\ opened.episode_open
      /\ s.episode_open => opened.episode_started_at = s.episode_started_at
      /\ ~s.episode_open => opened.episode_started_at = ev.at
      /\ opened.quarantined_until = s.quarantined_until
      /\ opened.episode_notified <=> s.episode_open /\ s.episode_notified
  BY <1>1, <1>2 DEF OpenEpisode, StateType
<1> HIDE DEF opened
<1>4. /\ noticed \in StateType /\ noticed.recent_episodes = EpisodesInWindow(s, ev)
      /\ noticed.last_notified_at = IF d.action = "notify" THEN ev.at ELSE s.last_notified_at
      /\ noticed.episode_open
      /\ noticed.episode_started_at = opened.episode_started_at
      /\ noticed.quarantined_until = s.quarantined_until
      /\ noticed.episode_notified <=>
           d.action = "notify" \/ (s.episode_open /\ s.episode_notified)
  BY <1>1, <1>3 DEF RecordNotice, StateType
<1> HIDE DEF noticed
<1>5. Quarantined(noticed, ev.at) <=> Quarantined(s, ev.at)
  BY <1>4 DEF Quarantined
<1>6. /\ after \in StateType /\ after.recent_episodes = EpisodesInWindow(s, ev)
      /\ after.last_notified_at = noticed.last_notified_at
      /\ after.episode_open
      /\ after.episode_started_at = noticed.episode_started_at
      /\ after.episode_notified <=> noticed.episode_notified
      /\ after.quarantined_until = IF d.reason = "flapping" /\ ~Quarantined(s, ev.at)
                                   THEN ev.at + QuarantineTime ELSE s.quarantined_until
  BY <1>1, <1>4, <1>5 DEF StartQuarantine, StateType
<1>7. after = ApplyFiring(s, ev, d)
  BY DEF ApplyFiring, after, noticed, opened, counted
<1> HIDE DEF after
<1> QED  BY <1>3, <1>4, <1>6, <1>7

LEMMA FiringAfter ==
  ASSUME NEW s, NEW ev, IsFiring(ev)
  PROVE  After(s, ev) = ApplyFiring(s, ev, Decide(s, ev))
<1>1. ev.kind # "clearing"
  BY DEF IsFiring
<1> QED  BY <1>1 DEF After, Apply

(* apply_event() on the decision of decide().                               *)
LEMMA AfterFacts ==
  ASSUME NEW s \in StateType, NEW ev \in EventType
  PROVE  LET after == After(s, ev)
             told  == IsFiring(ev) /\ Decide(s, ev).action = "notify"
         IN  /\ after \in StateType
             /\ told => after.last_notified_at = ev.at
             /\ ~told => /\ after.last_notified_at = s.last_notified_at
                         /\ AlreadyNotified(after) => AlreadyNotified(s) /\ ev.kind # "clearing"
<1>1. Decide(s, ev) \in DecisionType
  BY DecideFacts
<1>2. CASE IsFiring(ev)
  <2> DEFINE after == ApplyFiring(s, ev, Decide(s, ev))
  <2>1. After(s, ev) = after /\ ev.kind # "clearing"
    BY <1>2, FiringAfter DEF IsFiring
  <2>2. /\ after \in StateType
        /\ after.last_notified_at = IF Decide(s, ev).action = "notify" THEN ev.at
                                    ELSE s.last_notified_at
        /\ Decide(s, ev).action # "notify" => (AlreadyNotified(after) => AlreadyNotified(s))
    BY <1>1, FiringFields DEF AlreadyNotified
  <2> HIDE DEF after
  <2> QED  BY <1>2, <2>1, <2>2
<1>3. CASE ev.kind = "clearing"
  BY <1>3 DEF After, Apply, IsFiring, CloseEpisode, StateType, AlreadyNotified
<1>4. CASE ~IsFiring(ev) /\ ev.kind # "clearing"
  BY <1>4 DEF After, Apply
<1> QED  BY <1>2, <1>3, <1>4

-----------------------------------------------------------------------------
(* What decide() returns is a decision.                                     *)
LEMMA DecideType ==
  ASSUME NEW s \in StateType, NEW ev \in EventType
  PROVE  Decide(s, ev) \in DecisionType /\ PauseDefers(Decide(s, ev))
BY DEF Decide, Decision, DecisionType, Actions, Reasons, PauseDefers

(* apply_event() keeps the state typed.                                     *)
LEMMA ApplyType ==
  ASSUME NEW s \in StateType, NEW ev \in EventType, NEW d \in DecisionType
  PROVE  Apply(s, ev, d) \in StateType
<1>1. CloseEpisode(s) \in StateType
  BY DEF CloseEpisode, StateType
<1>2. QED
  BY <1>1, FiringFields DEF Apply, IsFiring

LEMMA NoticeType ==
  ASSUME NEW s \in StateType, NEW ev \in EventType
  PROVE  RecordNotice(s, ev.at) \in StateType
BY DEF RecordNotice, StateType, EventType

(* The abstract module judges with the same functions.                      *)
LEMMA SameCardinality ==
  ASSUME NEW S
  PROVE  J!Cardinality(S) = Cardinality(S)
BY Zenon DEF Cardinality, J!Cardinality

LEMMA SameLatest ==
  ASSUME NEW n, NEW S
  PROVE  J!Latest(n, S) = Latest(n, S)
BY SameCardinality, Zenon DEF Latest, J!Latest

LEMMA SameEpisodes ==
  ASSUME NEW s, NEW ev
  PROVE  J!EpisodesInWindow(s, ev) = EpisodesInWindow(s, ev)
BY SameLatest, Zenon DEF EpisodesInWindow, J!EpisodesInWindow, IsFiring, J!IsFiring

LEMMA SameFlapping ==
  ASSUME NEW s, NEW ev
  PROVE  J!IsFlapping(s, ev) <=> IsFlapping(s, ev)
BY SameEpisodes, SameCardinality DEF IsFlapping, J!IsFlapping, Quarantined, J!Quarantined, Never, J!Never,
   TooManyEpisodes, J!TooManyEpisodes, IsFiring, J!IsFiring

LEMMA SameRules ==
  ASSUME NEW s, NEW ev
  PROVE  /\ J!Silenced(ev) <=> Silenced(ev)
         /\ J!AlreadyNotified(s) <=> AlreadyNotified(s)
         /\ J!WithinRepeat(s, ev) <=> WithinRepeat(s, ev)
<1>1. J!Silenced(ev) <=> Silenced(ev)
  BY DEF Silenced, J!Silenced, Covers, J!Covers, AnyValue, J!AnyValue
<1>2. J!AlreadyNotified(s) <=> AlreadyNotified(s)
  BY DEF AlreadyNotified, J!AlreadyNotified
<1>3. J!WithinRepeat(s, ev) <=> WithinRepeat(s, ev)
  BY DEF WithinRepeat, J!WithinRepeat, Never, J!Never
<1>4. QED
  BY <1>1, <1>2, <1>3

LEMMA SameDecision ==
  ASSUME NEW s, NEW ev
  PROVE  J!Decide(s, ev) = Decide(s, ev)
BY SameFlapping, SameRules
   DEF Decide, J!Decide, Decision, J!Decision, IsFiring, J!IsFiring

LEMMA SameEffect ==
  ASSUME NEW s, NEW ev, NEW d
  PROVE  J!Apply(s, ev, d) = Apply(s, ev, d)
<1>1. J!ApplyFiring(s, ev, d) = ApplyFiring(s, ev, d)
  BY SameEpisodes
     DEF ApplyFiring, J!ApplyFiring, OpenEpisode, J!OpenEpisode, RecordNotice, J!RecordNotice,
         StartQuarantine, J!StartQuarantine, Quarantined, J!Quarantined, Never, J!Never
<1>2. QED
  BY <1>1 DEF Apply, J!Apply, IsFiring, J!IsFiring, CloseEpisode, J!CloseEpisode
-----------------------------------------------------------------------------
(* Type correctness.                                                        *)
LEMMA DecidedType ==
  ASSUME NEW i \in InvocationType, NEW d \in DecisionType
  PROVE  /\ Decided(i, d) \in InvocationType
         /\ Decided(i, d).ev = i.ev
         /\ Decided(i, d).decision = d
         /\ Decided(i, d).pc \in {"group", "record"}
BY DEF Decided, InvocationType

LEMMA EffectType ==
  ASSUME log \in Seq(J!EntryType), NEW ev \in Events, NEW d \in DecisionType,
         Logs(ev, d)
  PROVE  log' \in Seq(J!EntryType)
<1>1. J!Entry(ev, d) \in J!EntryType
  BY DEF J!Entry, J!EntryType, J!DecisionType, DecisionType, J!Actions, Actions,
         J!Reasons, Reasons
<1>2. QED
  BY <1>1 DEF Logs

LEMMA IdleType == NoItem \in ItemType /\ NoInvocation \in InvocationType /\ NoTask \in TaskType
<1>1. NoItem \in ItemType
  BY DEF NoItem, ItemType, NoState, StateType, Never
<1>2. Undecided \in DecisionType
  BY DEF Undecided, Decision, DecisionType, Actions, Reasons
<1>3. (CHOOSE ev \in Events : TRUE) \in Events
  BY IngestorAssumption
<1>4. QED
  BY <1>1, <1>2, <1>3 DEF NoInvocation, InvocationType, NoTask, TaskType, Finals

LEMMA InitType == Init => TypeOK
BY IdleType, IngestorAssumption
   DEF Init, TypeOK, NoRow, RowType, Finals, Undecided, Decision, DecisionType, Actions, Reasons

LEMMA IngestType ==
  ASSUME TypeOK, NEW w \in Workers, Ingest(w)
  PROVE  TypeOK'
<1> DEFINE i == invocation[w]
<1>1. /\ i \in InvocationType /\ i.ev \in Events /\ i.ev \in EventType
      /\ i.seen \in ItemType /\ i.seen.state \in StateType /\ i.decision \in DecisionType
      /\ item.state \in StateType /\ item.version \in Nat
  BY IngestorAssumption DEF TypeOK, InvocationType, ItemType
<1>2. Decide(item.state, i.ev) \in DecisionType /\ Decide(NoState, i.ev) \in DecisionType
  BY <1>1, DecideType, IdleType DEF NoItem, ItemType
<1>3. CASE \E ev \in Events : Receive(w, ev)
  <2>1. PICK ev \in Events : Receive(w, ev)
    BY <1>3
  <2> DEFINE j == [NoInvocation EXCEPT !.ev = ev]
  <2>2. j \in InvocationType
    BY IdleType DEF InvocationType
  <2>3. Decide(NoState, ev) \in DecisionType
    BY DecideType, IdleType, IngestorAssumption DEF NoItem, ItemType
  <2>4. Decided(j, Decide(NoState, ev)) \in InvocationType
    BY <2>2, <2>3, DecidedType
  <2>5. [j EXCEPT !.pc = "read"] \in InvocationType
    BY <2>2 DEF InvocationType
  <2>6. invocation' \in [Workers -> InvocationType]
    BY <2>1, <2>4, <2>5 DEF Receive, TypeOK
  <2>7. queue' \in [Events -> Nat]
    BY <2>1 DEF Receive, TypeOK
  <2>8. QED
    BY <2>1, <2>6, <2>7 DEF Receive, TypeOK
<1>4. CASE ReadState(w)
  <2>1. Decided(i, Decide(item.state, i.ev)) \in InvocationType
    BY <1>1, <1>2, DecidedType
  <2>2. [i EXCEPT !.pc = "write", !.seen = item, !.decision = Decide(item.state, i.ev)]
          \in InvocationType
    BY <1>1, <1>2 DEF InvocationType, TypeOK
  <2>3. invocation' \in [Workers -> InvocationType]
    BY <1>4, <2>1, <2>2 DEF ReadState, TypeOK
  <2>4. log' \in Seq(J!EntryType)
    BY <1>1, <1>2, <1>4, EffectType DEF ReadState, TypeOK
  <2>5. QED
    BY <1>4, <2>3, <2>4 DEF ReadState, TypeOK
<1>5. CASE ReadFails(w)
  <2>1. Decided(i, Decide(NoState, i.ev)) \in InvocationType
    BY <1>1, <1>2, DecidedType
  <2>2. invocation' \in [Workers -> InvocationType]
    BY <1>5, <2>1 DEF ReadFails, TypeOK
  <2>3. log' \in Seq(J!EntryType)
    BY <1>1, <1>2, <1>5, EffectType DEF ReadFails, TypeOK
  <2>4. QED
    BY <1>5, <2>2, <2>3 DEF ReadFails, Fault, TypeOK
<1>6. CASE WriteState(w)
  <2>1. Apply(i.seen.state, i.ev, i.decision) \in StateType
    BY <1>1, ApplyType
  <2>2. item' \in ItemType
    BY <1>1, <1>6, <2>1 DEF WriteState, ItemType
  <2>3. QED
    BY <1>1, <1>6, <2>2, DecidedType, EffectType DEF WriteState, TypeOK
<1>7. CASE Conflict(w)
  <2> DEFINE j == [i EXCEPT !.pc = "read", !.attempt = i.attempt + 1]
  <2>1. j \in InvocationType
    <3>1. i.attempt + 1 \in Nat
      BY <1>1 DEF InvocationType
    <3>2. QED
      BY <1>1, <3>1 DEF InvocationType
  <2>2. invocation' = [invocation EXCEPT ![w] = j]
    BY <1>7 DEF Conflict
  <2>3. invocation' \in [Workers -> InvocationType]
    BY <2>1, <2>2 DEF TypeOK
  <2>4. QED
    BY <1>7, <2>3 DEF Conflict, TypeOK
<1>8. CASE Contention(w)
  <2>1. Decision("notify", "state_contention") \in DecisionType
    BY DEF Decision, DecisionType, Actions, Reasons
  <2>2. QED
    BY <1>1, <1>8, <2>1, DecidedType, EffectType DEF Contention, TypeOK
<1>9. CASE WriteFails(w)
  <2>1. Decided(i, i.decision) \in InvocationType
    BY <1>1, DecidedType
  <2>2. invocation' \in [Workers -> InvocationType]
    BY <1>9, <2>1 DEF WriteFails, TypeOK
  <2>3. log' \in Seq(J!EntryType)
    BY <1>1, <1>9, EffectType DEF WriteFails, TypeOK
  <2>4. QED
    BY <1>9, <2>2, <2>3 DEF WriteFails, Fault, TypeOK
<1>10. CASE JoinGroup(w)
  <2> DEFINE j(in, missed) == [i EXCEPT !.pc = "record", !.grouped = in, !.missed = missed]
  <2>1. \A in, missed \in BOOLEAN : j(in, missed) \in InvocationType
    BY <1>1 DEF InvocationType
  <2>2. \E in, missed \in BOOLEAN : invocation' = [invocation EXCEPT ![w] = j(in, missed)]
    BY <1>10 DEF JoinGroup
  <2>3. invocation' \in [Workers -> InvocationType]
    BY <2>1, <2>2 DEF TypeOK
  <2>3a. faults' = faults \/ Fault
    BY <1>10, Zenon DEF JoinGroup
  <2>4. faults' \in Nat
    BY <2>3a DEF Fault, TypeOK
  <2>5. UNCHANGED <<item, queue, history, task, log, duplicates>>
    BY <1>10 DEF JoinGroup
  <2>6. QED
    BY <2>3, <2>4, <2>5 DEF TypeOK
<1>11. CASE Record(w)
  <2>1. \A missed \in BOOLEAN : Row(i, missed) \in RowType
    BY <1>1 DEF Row, RowType, InvocationType, Finals
  <2>2. \E missed \in BOOLEAN : history' = [history EXCEPT ![i.ev] =
                                  IF history[i.ev].present THEN history[i.ev] ELSE Row(i, missed)]
    BY <1>1, <1>11 DEF Record, InvocationType
  <2>3. history' \in [Events -> RowType]
    BY <2>1, <2>2 DEF TypeOK
  <2>4. faults' \in Nat
    BY <1>11 DEF Record, Fault, TypeOK
  <2>5. QED
    BY <1>11, <2>3, <2>4, IdleType DEF Record, TypeOK
<1>12. CASE InvocationFails(w)
  BY <1>1, <1>12, IdleType DEF InvocationFails, Fault, TypeOK
<1>13. QED
  BY <1>3, <1>4, <1>5, <1>6, <1>7, <1>8, <1>9, <1>10, <1>11, <1>12 DEF Ingest, Handle

LEMMA FinalizeType ==
  ASSUME TypeOK, NEW f \in Finalizers, FinalizeStep(f)
  PROVE  TypeOK'
<1> DEFINE t == task[f]
<1>1. /\ t \in TaskType /\ t.ev \in Events /\ t.ev \in EventType
      /\ t.seen \in ItemType /\ t.seen.state \in StateType /\ t.seen.version \in Nat
      /\ t.final \in Finals /\ item \in ItemType
  BY IngestorAssumption DEF TypeOK, TaskType, ItemType
<1>2. ASSUME NEW ev \in Events, StartTask(f, ev)
      PROVE  task' \in [Finalizers -> TaskType]
  <2>1. /\ [NoTask EXCEPT !.pc = "check", !.ev = ev] \in TaskType
        /\ [NoTask EXCEPT !.pc = "back", !.ev = ev, !.final = "notify"] \in TaskType
    BY IdleType DEF TaskType, Finals
  <2>2. QED
    BY <1>2, <2>1 DEF StartTask, TypeOK
<1>3. CASE \E ev \in Events : Finalize(f, ev) \/ FinalizeAgain(f, ev)
  <2>1. PICK ev \in Events : Finalize(f, ev) \/ FinalizeAgain(f, ev)
    BY <1>3
  <2>2. StartTask(f, ev) /\ (faults' = faults \/ Fault)
    BY <2>1 DEF Finalize, FinalizeAgain
  <2>3. task' \in [Finalizers -> TaskType]
    BY <1>2, <2>2
  <2>4. faults' \in Nat
    BY <2>2 DEF Fault, TypeOK
  <2>5. UNCHANGED <<item, queue, history, invocation, log, duplicates>>
    BY <2>2 DEF StartTask
  <2>6. QED
    BY <2>3, <2>4, <2>5 DEF TypeOK
<1>4. CASE CheckFiring(f)
  <2>1. \A still \in BOOLEAN :
          [t EXCEPT !.pc = IF still THEN "mark" ELSE "back",
                    !.final = IF still THEN "notify" ELSE "suppress"] \in TaskType
    BY <1>1 DEF TaskType, Finals
  <2>2. \E still \in BOOLEAN : task' = [task EXCEPT ![f] =
          [t EXCEPT !.pc = IF still THEN "mark" ELSE "back",
                    !.final = IF still THEN "notify" ELSE "suppress"]]
    BY <1>4 DEF CheckFiring
  <2>3. task' \in [Finalizers -> TaskType]
    BY <2>1, <2>2 DEF TypeOK
  <2>4. QED
    BY <1>4, <2>3 DEF CheckFiring, TypeOK
<1>5. CASE ReadMark(f)
  <2>1. /\ [t EXCEPT !.pc = "write", !.seen = item] \in TaskType
        /\ [t EXCEPT !.pc = "back"] \in TaskType
    BY <1>1 DEF TaskType
  <2>2. \/ task' = [task EXCEPT ![f] = [t EXCEPT !.pc = "write", !.seen = item]]
        \/ task' = [task EXCEPT ![f] = [t EXCEPT !.pc = "back"]]
    BY <1>5 DEF ReadMark
  <2>3. task' \in [Finalizers -> TaskType]
    BY <2>1, <2>2 DEF TypeOK
  <2>4. QED
    BY <1>5, <2>3 DEF ReadMark, TypeOK
<1>6. CASE WriteMark(f)
  <2>1. item' \in ItemType
    BY <1>1, <1>6, NoticeType DEF WriteMark, ItemType
  <2>2. J!Confirmed \in DecisionType
    BY DEF J!Confirmed, J!Decision, DecisionType, Actions, Reasons
  <2>3. log' \in Seq(J!EntryType)
    BY <1>1, <1>6, <2>2, EffectType DEF WriteMark, TypeOK
  <2>4. [t EXCEPT !.pc = "back"] \in TaskType
    BY <1>1 DEF TaskType
  <2>5. task' = [task EXCEPT ![f] = [t EXCEPT !.pc = "back"]]
    BY <1>6 DEF WriteMark
  <2>6. task' \in [Finalizers -> TaskType]
    BY <2>4, <2>5 DEF TypeOK
  <2>7. QED
    BY <1>6, <2>1, <2>3, <2>6 DEF WriteMark, TypeOK
<1>7. CASE MarkConflict(f)
  <2> DEFINE u(pc) == [t EXCEPT !.attempt = t.attempt + 1, !.pc = pc]
  <2>1. \A pc \in {"mark", "back"} : u(pc) \in TaskType
    <3>1. t.attempt + 1 \in Nat
      BY <1>1 DEF TaskType
    <3>2. QED
      BY <1>1, <3>1 DEF TaskType
  <2>2. \E pc \in {"mark", "back"} : task' = [task EXCEPT ![f] = u(pc)]
    BY <1>7 DEF MarkConflict
  <2>3. task' \in [Finalizers -> TaskType]
    BY <2>1, <2>2 DEF TypeOK
  <2>4. QED
    BY <1>7, <2>3 DEF MarkConflict, TypeOK
<1>8. CASE WriteBack(f)
  <2>1. history' \in [Events -> RowType]
    BY <1>1, <1>8 DEF WriteBack, TypeOK, RowType
  <2>2. QED
    BY <1>8, <2>1, IdleType DEF WriteBack, TypeOK
<1>9. CASE TaskFails(f)
  BY <1>9, IdleType DEF TaskFails, Fault, TypeOK
<1>10. QED
  BY <1>3, <1>4, <1>5, <1>6, <1>7, <1>8, <1>9 DEF FinalizeStep, ProcessMember

LEMMA NextType == TypeOK /\ [Next]_vars => TypeOK'
<1> SUFFICES ASSUME TypeOK, [Next]_vars PROVE TypeOK'
  OBVIOUS
<1>1. CASE \E w \in Workers : Ingest(w)
  BY <1>1, IngestType
<1>2. CASE \E ev \in Events : Redeliver(ev)
  BY <1>2 DEF Redeliver, TypeOK
<1>3. CASE \E f \in Finalizers : FinalizeStep(f)
  BY <1>3, FinalizeType
<1>4. CASE CloseGone
  <2>1. item.state \in StateType /\ item.version + 1 \in Nat
    BY DEF TypeOK, ItemType
  <2>2. CloseEpisode(item.state) \in StateType
    BY <2>1 DEF CloseEpisode, StateType
  <2>3. item' \in ItemType
    BY <1>4, <2>1, <2>2 DEF CloseGone, ItemType
  <2>4. QED
    BY <1>4, <2>3 DEF CloseGone, TypeOK
<1>5. CASE UNCHANGED vars
  BY <1>5 DEF vars, TypeOK
<1>6. QED
  BY <1>1, <1>2, <1>3, <1>4, <1>5 DEF Next

(* Every variable of the ingestor keeps its type: no read of the item, no   *)
(* decision and no entry of the history is ever malformed.                  *)
THEOREM TypeCorrect == Spec => []TypeOK
<1>1. QED
  BY InitType, NextType, PTL DEF Spec

-----------------------------------------------------------------------------
(* What a step leaves of the past: the log only grows, a row once written   *)
(* keeps its decision, a changed item has a higher version.                 *)
LogGrows == \A i \in DOMAIN log : i \in DOMAIN log' /\ log'[i] = log[i]

RowsStay ==
  \A ev \in Events : history[ev].present =>
    history'[ev].present /\ history'[ev].decision = history[ev].decision

ItemMoves == item' = item \/ item'.version > item.version

(* The step leaves the decision d on ev in the log.                         *)
LoggedNext(ev, d) == \E k \in DOMAIN log' : log'[k] = J!Entry(ev, d)

LEMMA EffectLogged ==
  ASSUME log \in Seq(J!EntryType), NEW ev \in Events, NEW d \in DecisionType,
         Logs(ev, d)
  PROVE  LogGrows /\ LoggedNext(ev, d)
<1>1. log' = Append(log, J!Entry(ev, d)) /\ J!Entry(ev, d) \in J!EntryType
  BY DEF Logs, J!Entry, J!EntryType, J!DecisionType, DecisionType, J!Actions, Actions,
         J!Reasons, Reasons
<1>2. LogGrows
  BY <1>1 DEF LogGrows
<1>3. Len(log) + 1 \in DOMAIN log' /\ log'[Len(log) + 1] = J!Entry(ev, d)
  BY <1>1
<1>4. QED
  BY <1>2, <1>3 DEF LoggedNext

LEMMA InvocationFrame ==
  ASSUME TypeOK, LogGrows, ItemMoves, item' \in ItemType,
         NEW v \in Workers, InvocationOK(v), invocation'[v] = invocation[v]
  PROVE  InvocationOK(v)'
<1> DEFINE i == invocation[v]
<1>1. i \in InvocationType /\ i.seen \in ItemType /\ item \in ItemType
  BY DEF TypeOK, InvocationType
<1>2. i.seen.version \in Nat /\ item.version \in Nat /\ item'.version \in Nat
  BY <1>1 DEF ItemType
<1>3. ASSUME Current(i.seen)
      PROVE  /\ i.seen.version <= item'.version
             /\ i.seen.version = item'.version => i.seen = item'
  BY <1>2, <1>3 DEF Current, ItemMoves
<1>4. ASSUME Logged(i.ev, i.decision)
      PROVE  \E k \in DOMAIN log' : log'[k] = J!Entry(i.ev, i.decision)
  BY <1>4 DEF Logged, LogGrows
<1>5. QED
  BY <1>3, <1>4 DEF InvocationOK, Current, Logged

LEMMA TaskFrame ==
  ASSUME TypeOK, RowsStay, ItemMoves, item' \in ItemType,
         NEW g \in Finalizers, TaskOK(g), task'[g] = task[g]
  PROVE  TaskOK(g)'
<1> DEFINE t == task[g]
<1>1. t \in TaskType /\ t.ev \in Events /\ t.seen \in ItemType /\ item \in ItemType
  BY DEF TypeOK, TaskType
<1>2. t.seen.version \in Nat /\ item.version \in Nat /\ item'.version \in Nat
  BY <1>1 DEF ItemType
<1>3. ASSUME Current(t.seen)
      PROVE  /\ t.seen.version <= item'.version
             /\ t.seen.version = item'.version => t.seen = item'
  BY <1>2, <1>3 DEF Current, ItemMoves
<1>4. ASSUME history[t.ev].present
      PROVE  /\ history'[t.ev].present
             /\ IsDeferred(t.ev)' <=> IsDeferred(t.ev)
  BY <1>1, <1>4 DEF IsDeferred, RowsStay
<1>5. t.pc # "idle" => history[t.ev].present
  BY DEF TaskOK
<1>6. QED
  BY <1>3, <1>4, <1>5 DEF TaskOK, Current, IsDeferred

LEMMA RowFrame ==
  ASSUME TypeOK, LogGrows, RowsLogged, history' = history
  PROVE  RowsLogged'
<1> SUFFICES ASSUME NEW ev \in Events, history[ev].present, ev.kind # "config"
             PROVE  \E k \in DOMAIN log' : log'[k] = J!Entry(ev, history[ev].decision)
  BY DEF RowsLogged, Logged
<1>1. Logged(ev, history[ev].decision)
  BY DEF RowsLogged
<1>2. QED
  BY <1>1 DEF Logged, LogGrows

LEMMA SameFrame ==
  /\ UNCHANGED log => LogGrows
  /\ UNCHANGED item => ItemMoves
  /\ UNCHANGED history => RowsStay /\ \A ev \in Events : HonestFinal(ev)' <=> HonestFinal(ev)
BY DEF LogGrows, ItemMoves, RowsStay, HonestFinal, IsDeferred

LEMMA IdleOK == PauseDefers(Undecided)
BY DEF PauseDefers, Undecided, Decision

LEMMA ConflictReasonOK == PauseDefers(Decision("notify", "state_contention"))
BY DEF PauseDefers, Decision

(* What Decided() leaves to be shown of an invocation.                      *)
LEMMA DecidedOK ==
  ASSUME TypeOK, NEW w \in Workers, NEW i \in InvocationType, NEW d \in DecisionType,
         PauseDefers(d), invocation' = [invocation EXCEPT ![w] = Decided(i, d)],
         i.ev.kind # "config" => LoggedNext(i.ev, d)
  PROVE  InvocationOK(w)'
<1>1. invocation'[w] = Decided(i, d)
  BY DEF TypeOK
<1>2. QED
  BY <1>1, DecidedType DEF InvocationOK, Logged, LoggedNext

(* A step of one invocation keeps the invariant if it keeps its own part.   *)
LEMMA IngestFrame ==
  ASSUME IngestInv, TypeOK', NEW w \in Workers, LogGrows, ItemMoves, RowsStay,
         InvocationOK(w)', RowsLogged', task' = task,
         \A v \in Workers \ {w} : invocation'[v] = invocation[v],
         \A ev \in Events : PauseDefers(history'[ev].decision) /\ HonestFinal(ev)'
  PROVE  IngestInv'
<1>1. item' \in ItemType
  BY DEF TypeOK
<1>2. \A v \in Workers : InvocationOK(v)'
  <2>1. ASSUME NEW v \in Workers, v # w PROVE InvocationOK(v)'
    BY <1>1, <2>1, InvocationFrame DEF IngestInv
  <2>2. QED
    BY <2>1
<1>3. \A g \in Finalizers : TaskOK(g)'
  BY <1>1, TaskFrame DEF IngestInv
<1>4. \A ev \in Events : PauseDefers(history[ev].decision)'
  BY DEF PauseDefers
<1>5. QED
  BY <1>2, <1>3, <1>4 DEF IngestInv

(* Most steps leave the rows alone.                                         *)
LEMMA RowlessFrame ==
  ASSUME IngestInv, TypeOK', NEW w \in Workers, LogGrows, ItemMoves,
         InvocationOK(w)', history' = history, task' = task,
         \A v \in Workers \ {w} : invocation'[v] = invocation[v]
  PROVE  IngestInv'
<1>1. RowsLogged'
  BY RowFrame DEF IngestInv
<1>2. RowsStay
  BY SameFrame
<1>3. \A ev \in Events : PauseDefers(history'[ev].decision) /\ HonestFinal(ev)'
  BY SameFrame DEF IngestInv
<1>4. QED
  BY <1>1, <1>2, <1>3, IngestFrame

LEMMA IngestKeeps ==
  ASSUME IngestInv, NEW w \in Workers, Ingest(w)
  PROVE  IngestInv'
<1> DEFINE i == invocation[w]
<1>1. TypeOK /\ TypeOK'
  BY IngestType DEF IngestInv
<1>2. /\ i \in InvocationType /\ i.ev \in Events /\ i.ev \in EventType
      /\ i.seen \in ItemType /\ i.decision \in DecisionType
      /\ item.state \in StateType /\ item.version \in Nat
  BY <1>1, IngestorAssumption DEF TypeOK, InvocationType, ItemType
<1>3. /\ Decide(item.state, i.ev) \in DecisionType /\ PauseDefers(Decide(item.state, i.ev))
      /\ Decide(NoState, i.ev) \in DecisionType /\ PauseDefers(Decide(NoState, i.ev))
  BY <1>2, DecideType, IdleType DEF NoItem, ItemType
<1>4. InvocationOK(w)
  BY DEF IngestInv
<1>5. PauseDefers(i.decision)
  BY <1>4 DEF InvocationOK
<1>6. log \in Seq(J!EntryType)
  BY <1>1 DEF TypeOK
<1>7. CASE \E ev \in Events : Receive(w, ev)
  <2>1. PICK ev \in Events : Receive(w, ev)
    BY <1>7
  <2> DEFINE j == [NoInvocation EXCEPT !.ev = ev]
  <2>2. j \in InvocationType /\ j.ev = ev
    BY IdleType DEF InvocationType
  <2>3. Decide(NoState, ev) \in DecisionType /\ PauseDefers(Decide(NoState, ev))
    BY DecideType, IdleType, IngestorAssumption DEF NoItem, ItemType
  <2>4. UNCHANGED <<item, history, task, log>>
    BY <2>1 DEF Receive
  <2>5. InvocationOK(w)'
    <3>1. CASE ev.kind = "config"
      <4>1. invocation' = [invocation EXCEPT ![w] = Decided(j, Decide(NoState, ev))]
        BY <2>1, <3>1 DEF Receive
      <4>2. QED
        BY <1>1, <2>2, <2>3, <3>1, <4>1, DecidedOK
    <3>2. CASE ev.kind # "config"
      <4>1. invocation'[w] = [j EXCEPT !.pc = "read"]
        BY <1>1, <2>1, <3>2 DEF Receive, TypeOK
      <4>2. invocation'[w].pc = "read" /\ invocation'[w].decision = Undecided
        BY <2>2, <4>1 DEF NoInvocation, InvocationType
      <4>3. QED
        BY <4>2, IdleOK DEF InvocationOK
    <3>3. QED
      BY <3>1, <3>2
  <2>6. \A v \in Workers \ {w} : invocation'[v] = invocation[v]
    BY <1>1, <2>1 DEF Receive, TypeOK
  <2>7. QED
    BY <1>1, <2>4, <2>5, <2>6, SameFrame, RowlessFrame
<1>8. CASE ReadState(w)
  <2>1. UNCHANGED <<item, history, task>>
    BY <1>8 DEF ReadState
  <2>2. \A v \in Workers \ {w} : invocation'[v] = invocation[v]
    BY <1>1, <1>8 DEF ReadState, TypeOK
  <2>3. CASE After(item.state, i.ev) = item.state
    <3>1. /\ invocation' = [invocation EXCEPT ![w] = Decided(i, Decide(item.state, i.ev))]
          /\ Logs(i.ev, Decide(item.state, i.ev))
      BY <1>8, <2>3 DEF ReadState
    <3>2. LogGrows /\ LoggedNext(i.ev, Decide(item.state, i.ev))
      BY <1>2, <1>3, <1>6, <3>1, EffectLogged
    <3>3. InvocationOK(w)'
      BY <1>1, <1>2, <1>3, <3>1, <3>2, DecidedOK
    <3>4. QED
      BY <1>1, <2>1, <2>2, <3>2, <3>3, SameFrame, RowlessFrame
  <2>4. CASE After(item.state, i.ev) # item.state
    <3>1. /\ invocation'[w] = [i EXCEPT !.pc = "write", !.seen = item,
                                      !.decision = Decide(item.state, i.ev)]
          /\ log' = log
      BY <1>1, <1>8, <2>4 DEF ReadState, TypeOK
    <3>2. /\ invocation'[w].pc = "write" /\ invocation'[w].seen = item
          /\ invocation'[w].ev = i.ev
          /\ invocation'[w].decision = Decide(item.state, i.ev)
      BY <1>2, <3>1 DEF InvocationType
    <3>3. Current(item)'
      BY <1>2, <2>1 DEF Current
    <3>4. InvocationOK(w)'
      BY <1>2, <1>3, <2>1, <3>2, <3>3 DEF InvocationOK, Current
    <3>5. QED
      BY <1>1, <2>1, <2>2, <3>1, <3>4, SameFrame, RowlessFrame
  <2>5. QED
    BY <2>3, <2>4
<1>9. CASE ReadFails(w)
  <2>1. /\ invocation' = [invocation EXCEPT ![w] = Decided(i, Decide(NoState, i.ev))]
        /\ Logs(i.ev, Decide(NoState, i.ev))
        /\ UNCHANGED <<item, history, task>>
    BY <1>9 DEF ReadFails
  <2>2. LogGrows /\ LoggedNext(i.ev, Decide(NoState, i.ev))
    BY <1>2, <1>3, <1>6, <2>1, EffectLogged
  <2>3. InvocationOK(w)'
    BY <1>1, <1>2, <1>3, <2>1, <2>2, DecidedOK
  <2>4. \A v \in Workers \ {w} : invocation'[v] = invocation[v]
    BY <1>1, <2>1 DEF TypeOK
  <2>5. QED
    BY <1>1, <2>1, <2>2, <2>3, <2>4, SameFrame, RowlessFrame
<1>10. CASE WriteState(w)
  <2>1. /\ invocation' = [invocation EXCEPT ![w] = Decided(i, i.decision)]
        /\ Logs(i.ev, i.decision)
        /\ item'.version = item.version + 1
        /\ UNCHANGED <<history, task>>
    BY <1>10 DEF WriteState
  <2>2. LogGrows /\ LoggedNext(i.ev, i.decision)
    BY <1>2, <1>6, <2>1, EffectLogged
  <2>3. InvocationOK(w)'
    BY <1>1, <1>2, <1>5, <2>1, <2>2, DecidedOK
  <2>4. \A v \in Workers \ {w} : invocation'[v] = invocation[v]
    BY <1>1, <2>1 DEF TypeOK
  <2>5. ItemMoves
    BY <1>2, <2>1 DEF ItemMoves
  <2>6. QED
    BY <1>1, <2>1, <2>2, <2>3, <2>4, <2>5, RowlessFrame
<1>11. CASE Conflict(w)
  <2>1. UNCHANGED <<item, history, task, log>>
    BY <1>11 DEF Conflict
  <2>2. invocation'[w] = [i EXCEPT !.pc = "read", !.attempt = i.attempt + 1]
    BY <1>1, <1>11 DEF Conflict, TypeOK
  <2>3. invocation'[w].pc = "read" /\ invocation'[w].decision = i.decision
    BY <1>2, <2>2 DEF InvocationType
  <2>4. InvocationOK(w)'
    BY <1>5, <2>3 DEF InvocationOK
  <2>5. \A v \in Workers \ {w} : invocation'[v] = invocation[v]
    BY <1>1, <1>11 DEF Conflict, TypeOK
  <2>6. QED
    BY <1>1, <2>1, <2>4, <2>5, SameFrame, RowlessFrame
<1>12. CASE Contention(w)
  <2> DEFINE d == Decision("notify", "state_contention")
  <2>1. /\ invocation' = [invocation EXCEPT ![w] = Decided(i, d)]
        /\ Logs(i.ev, d)
        /\ UNCHANGED <<item, history, task>>
    BY <1>12 DEF Contention
  <2>2. d \in DecisionType /\ PauseDefers(d)
    BY ConflictReasonOK DEF Decision, DecisionType, Actions, Reasons
  <2>3. LogGrows /\ LoggedNext(i.ev, d)
    BY <1>2, <1>6, <2>1, <2>2, EffectLogged
  <2>4. InvocationOK(w)'
    BY <1>1, <1>2, <2>1, <2>2, <2>3, DecidedOK
  <2>5. \A v \in Workers \ {w} : invocation'[v] = invocation[v]
    BY <1>1, <2>1 DEF TypeOK
  <2>6. QED
    BY <1>1, <2>1, <2>3, <2>4, <2>5, SameFrame, RowlessFrame
<1>13. CASE WriteFails(w)
  <2>1. /\ invocation' = [invocation EXCEPT ![w] = Decided(i, i.decision)]
        /\ Logs(i.ev, i.decision)
        /\ UNCHANGED <<item, history, task>>
    BY <1>13 DEF WriteFails
  <2>2. LogGrows /\ LoggedNext(i.ev, i.decision)
    BY <1>2, <1>6, <2>1, EffectLogged
  <2>3. InvocationOK(w)'
    BY <1>1, <1>2, <1>5, <2>1, <2>2, DecidedOK
  <2>4. \A v \in Workers \ {w} : invocation'[v] = invocation[v]
    BY <1>1, <2>1 DEF TypeOK
  <2>5. QED
    BY <1>1, <2>1, <2>2, <2>3, <2>4, SameFrame, RowlessFrame
<1>14. CASE JoinGroup(w)
  <2>1. UNCHANGED <<item, history, task, log>> /\ i.pc = "group"
    BY <1>14 DEF JoinGroup
  <2>2. /\ invocation'[w].pc = "record" /\ invocation'[w].ev = i.ev
        /\ invocation'[w].decision = i.decision
    <3>1. \E in, missed \in BOOLEAN :
            invocation'[w] = [i EXCEPT !.pc = "record", !.grouped = in, !.missed = missed]
      BY <1>1, <1>14 DEF JoinGroup, TypeOK
    <3>2. QED
      BY <1>2, <3>1 DEF InvocationType
  <2>3. i.ev.kind # "config" => LoggedNext(i.ev, i.decision)
    BY <1>4, <2>1 DEF InvocationOK, Logged, LoggedNext
  <2>4. InvocationOK(w)'
    BY <1>5, <2>2, <2>3 DEF InvocationOK, Logged, LoggedNext
  <2>5. \A v \in Workers \ {w} : invocation'[v] = invocation[v]
    BY <1>1, <1>14 DEF JoinGroup, TypeOK
  <2>6. QED
    BY <1>1, <2>1, <2>4, <2>5, SameFrame, RowlessFrame
<1>15. CASE Record(w)
  <2>1. PICK row \in {Row(i, missed) : missed \in BOOLEAN} :
           history' = [history EXCEPT ![i.ev] = IF history[i.ev].present THEN history[i.ev] ELSE row]
    BY <1>2, <1>15 DEF Record, InvocationType
  <2>0. /\ UNCHANGED <<item, task, log>> /\ i.pc = "record"
        /\ invocation' = [invocation EXCEPT ![w] = NoInvocation]
        /\ row.present /\ row.decision = i.decision /\ row.final = "none"
    BY <1>15, <2>1 DEF Record, Row
  <2>2. \A ev \in Events :
          \/ history'[ev] = history[ev]
          \/ ev = i.ev /\ ~history[ev].present /\ history'[ev] = row
    BY <1>1, <1>2, <2>1 DEF TypeOK
  <2>3. RowsStay
    BY <2>2 DEF RowsStay
  <2>4. \A ev \in Events : PauseDefers(history'[ev].decision) /\ HonestFinal(ev)'
    BY <1>5, <2>0, <2>2 DEF IngestInv, HonestFinal, IsDeferred
  <2>5. RowsLogged'
    <3>1. i.ev.kind # "config" => Logged(i.ev, i.decision)
      BY <1>4, <2>0 DEF InvocationOK
    <3>2. QED
      BY <2>0, <2>2, <3>1 DEF RowsLogged, Logged, IngestInv
  <2>6. invocation'[w].pc = "idle" /\ invocation'[w].decision = Undecided
    BY <1>1, <2>0 DEF TypeOK, NoInvocation
  <2>7. InvocationOK(w)'
    BY <2>6, IdleOK DEF InvocationOK
  <2>8. \A v \in Workers \ {w} : invocation'[v] = invocation[v]
    BY <1>1, <2>0 DEF TypeOK
  <2>9. QED
    BY <1>1, <2>0, <2>3, <2>4, <2>5, <2>7, <2>8, SameFrame, IngestFrame
<1>16. CASE InvocationFails(w)
  <2>1. /\ UNCHANGED <<item, history, task, log>>
        /\ invocation' = [invocation EXCEPT ![w] = NoInvocation]
    BY <1>16 DEF InvocationFails
  <2>2. invocation'[w].pc = "idle" /\ invocation'[w].decision = Undecided
    BY <1>1, <2>1 DEF TypeOK, NoInvocation
  <2>3. InvocationOK(w)'
    BY <2>2, IdleOK DEF InvocationOK
  <2>4. \A v \in Workers \ {w} : invocation'[v] = invocation[v]
    BY <1>1, <2>1 DEF TypeOK
  <2>5. QED
    BY <1>1, <2>1, <2>3, <2>4, SameFrame, RowlessFrame
<1>17. QED
  BY <1>7, <1>8, <1>9, <1>10, <1>11, <1>12, <1>13, <1>14, <1>15, <1>16 DEF Ingest, Handle

(* A step of one finalize task keeps the invariant if it keeps its own part *)
(* and no row changes its decision.                                         *)
LEMMA FinalizeFrame ==
  ASSUME IngestInv, TypeOK', NEW f \in Finalizers, LogGrows, ItemMoves,
         TaskOK(f)', invocation' = invocation,
         \A g \in Finalizers \ {f} : task'[g] = task[g],
         \A ev \in Events : /\ history'[ev].present = history[ev].present
                            /\ history'[ev].decision = history[ev].decision
                            /\ HonestFinal(ev)'
  PROVE  IngestInv'
<1>1. TypeOK /\ item' \in ItemType
  BY DEF TypeOK, IngestInv
<1>2. \A v \in Workers : InvocationOK(v)'
  BY <1>1, InvocationFrame DEF IngestInv
<1>3. \A g \in Finalizers : TaskOK(g)'
  <2>1. RowsStay
    BY DEF RowsStay
  <2>2. ASSUME NEW g \in Finalizers, g # f PROVE TaskOK(g)'
    BY <1>1, <2>1, <2>2, TaskFrame DEF IngestInv
  <2>3. QED
    BY <2>2
<1>4. \A ev \in Events : PauseDefers(history[ev].decision)'
  BY DEF PauseDefers, IngestInv
<1>5. RowsLogged'
  <2> SUFFICES ASSUME NEW ev \in Events, history'[ev].present, ev.kind # "config"
               PROVE  \E k \in DOMAIN log' : log'[k] = J!Entry(ev, history'[ev].decision)
    BY DEF RowsLogged, Logged
  <2>1. Logged(ev, history[ev].decision)
    BY DEF RowsLogged, IngestInv
  <2>2. QED
    BY <2>1 DEF Logged, LogGrows
<1>6. QED
  BY <1>2, <1>3, <1>4, <1>5 DEF IngestInv

LEMMA FinalizeKeeps ==
  ASSUME IngestInv, NEW f \in Finalizers, FinalizeStep(f)
  PROVE  IngestInv'
<1> DEFINE t == task[f]
<1>1. TypeOK /\ TypeOK'
  BY FinalizeType DEF IngestInv
<1>2. /\ t \in TaskType /\ t.ev \in Events /\ t.seen \in ItemType
      /\ item \in ItemType /\ item.version \in Nat
  BY <1>1 DEF TypeOK, TaskType, ItemType
<1>3. TaskOK(f)
  BY DEF IngestInv
<1>0. \A ev \in Events : HonestFinal(ev)
  BY DEF IngestInv
<1>4. CASE \E ev \in Events : Finalize(f, ev) \/ FinalizeAgain(f, ev)
  <2>1. PICK ev \in Events : StartTask(f, ev)
    BY <1>4 DEF Finalize, FinalizeAgain
  <2>2. UNCHANGED <<item, history, invocation, log>>
    BY <2>1 DEF StartTask
  <2>3. TaskOK(f)'
    <3>1. CASE IsDeferred(ev)
      <4>1. task'[f] = [NoTask EXCEPT !.pc = "check", !.ev = ev]
        BY <1>1, <2>1, <3>1 DEF StartTask, TypeOK
      <4>2. task'[f].pc = "check" /\ task'[f].ev = ev
        BY <4>1, IdleType DEF TaskType
      <4>3. history'[ev].present /\ IsFiring(ev) /\ history'[ev].decision.reason = "auto_pause"
        BY <2>1, <2>2, <3>1 DEF StartTask, IsDeferred
      <4>4. QED
        BY <4>2, <4>3 DEF TaskOK, IsDeferred
    <3>2. CASE ~IsDeferred(ev)
      <4>1. task'[f] = [NoTask EXCEPT !.pc = "back", !.ev = ev, !.final = "notify"]
        BY <1>1, <2>1, <3>2 DEF StartTask, TypeOK
      <4>2. task'[f].pc = "back" /\ task'[f].ev = ev /\ task'[f].final = "notify"
        BY <4>1, IdleType DEF TaskType
      <4>3. history'[ev].present
        BY <2>1, <2>2 DEF StartTask
      <4>4. QED
        BY <4>2, <4>3 DEF TaskOK
    <3>3. QED
      BY <3>1, <3>2
  <2>4. \A g \in Finalizers \ {f} : task'[g] = task[g]
    BY <1>1, <2>1 DEF StartTask, TypeOK
  <2>5. QED
    BY <1>1, <2>2, <2>3, <2>4, <1>0, SameFrame, FinalizeFrame
<1>5. CASE CheckFiring(f)
  <2>1. UNCHANGED <<item, history, invocation, log>> /\ t.pc = "check"
    BY <1>5 DEF CheckFiring
  <2>2. \E pc \in {"mark", "back"}, final \in Finals \ {"none"} :
          task' = [task EXCEPT ![f] = [t EXCEPT !.pc = pc, !.final = final]]
    BY <1>5 DEF CheckFiring, Finals
  <2>3. task'[f].pc \in {"mark", "back"} /\ task'[f].ev = t.ev /\ task'[f].final # "none"
    BY <1>1, <1>2, <2>2 DEF TypeOK, TaskType
  <2>4. TaskOK(f)'
    BY <1>3, <2>1, <2>3 DEF TaskOK, IsDeferred
  <2>5. \A g \in Finalizers \ {f} : task'[g] = task[g]
    BY <1>1, <2>2 DEF TypeOK
  <2>6. QED
    BY <1>1, <2>1, <2>4, <2>5, <1>0, SameFrame, FinalizeFrame
<1>6. CASE ReadMark(f)
  <2>1. UNCHANGED <<item, history, invocation, log>> /\ t.pc = "mark"
    BY <1>6 DEF ReadMark
  <2>2. TaskOK(f)'
    <3>1. CASE item.state.episode_open
      <4>1. task'[f] = [t EXCEPT !.pc = "write", !.seen = item]
        BY <1>1, <1>6, <3>1 DEF ReadMark, TypeOK
      <4>2. task'[f].ev = t.ev /\ task'[f].seen = item /\ task'[f].final = t.final
            /\ task'[f].pc = "write"
        BY <1>2, <4>1 DEF TaskType
      <4>3. history[t.ev].present /\ IsDeferred(t.ev) /\ t.final # "none"
        BY <1>3, <2>1 DEF TaskOK
      <4>4. QED
        BY <1>2, <2>1, <3>1, <4>2, <4>3 DEF TaskOK, IsDeferred, Current
    <3>2. CASE ~item.state.episode_open
      <4>1. task'[f] = [t EXCEPT !.pc = "back"]
        BY <1>1, <1>6, <3>2 DEF ReadMark, TypeOK
      <4>2. task'[f].pc = "back" /\ task'[f].ev = t.ev /\ task'[f].final = t.final
        BY <1>2, <4>1 DEF TaskType
      <4>3. QED
        BY <1>3, <2>1, <4>2 DEF TaskOK, IsDeferred
    <3>3. QED
      BY <3>1, <3>2
  <2>3. \A g \in Finalizers \ {f} : task'[g] = task[g]
    BY <1>1, <1>6 DEF ReadMark, TypeOK
  <2>4. QED
    BY <1>1, <2>1, <2>2, <2>3, <1>0, SameFrame, FinalizeFrame
<1>7. CASE WriteMark(f)
  <2>1. /\ UNCHANGED <<history, invocation>>
        /\ item'.version = item.version + 1
        /\ task' = [task EXCEPT ![f] = [t EXCEPT !.pc = "back"]]
        /\ Logs(t.ev, J!Confirmed)
    BY <1>7 DEF WriteMark
  <2>2. J!Confirmed \in DecisionType
    BY DEF J!Confirmed, J!Decision, DecisionType, Actions, Reasons
  <2>3. LogGrows
    BY <1>1, <1>2, <2>1, <2>2, EffectLogged DEF TypeOK
  <2>4. ItemMoves
    BY <1>2, <2>1 DEF ItemMoves
  <2>5. task'[f].pc = "back" /\ task'[f].ev = t.ev /\ task'[f].final = t.final
    BY <1>1, <1>2, <2>1 DEF TypeOK, TaskType
  <2>6. TaskOK(f)'
    <3>1. t.pc = "write"
      BY <1>7 DEF WriteMark
    <3> QED  BY <1>3, <2>1, <2>5, <3>1 DEF TaskOK, IsDeferred
  <2>7. \A g \in Finalizers \ {f} : task'[g] = task[g]
    BY <1>1, <2>1 DEF TypeOK
  <2>8. QED
    BY <1>1, <2>1, <2>3, <2>4, <2>6, <2>7, <1>0, SameFrame, FinalizeFrame
<1>8. CASE MarkConflict(f)
  <2> DEFINE u(pc) == [t EXCEPT !.attempt = t.attempt + 1, !.pc = pc]
  <2>1. UNCHANGED <<item, history, invocation, log>> /\ t.pc = "write"
    BY <1>8 DEF MarkConflict
  <2>2. PICK pc \in {"mark", "back"} : task' = [task EXCEPT ![f] = u(pc)]
    BY <1>8 DEF MarkConflict
  <2>3. task'[f].pc \in {"mark", "back"} /\ task'[f].ev = t.ev /\ task'[f].final = t.final
    <3>1. task'[f] = u(pc)
      BY <1>1, <2>2 DEF TypeOK
    <3>2. QED
      BY <1>2, <3>1 DEF TaskType
  <2>4. TaskOK(f)'
    BY <1>3, <2>1, <2>3 DEF TaskOK, IsDeferred
  <2>5. \A g \in Finalizers \ {f} : task'[g] = task[g]
    BY <1>1, <2>2 DEF TypeOK
  <2>6. QED
    BY <1>1, <2>1, <2>4, <2>5, <1>0, SameFrame, FinalizeFrame
<1>9. CASE WriteBack(f)
  <2>1. /\ UNCHANGED <<item, invocation, log>>
        /\ task' = [task EXCEPT ![f] = NoTask]
        /\ history' = [history EXCEPT ![t.ev] = [history[t.ev] EXCEPT !.final = t.final]]
    BY <1>9 DEF WriteBack
  <2>2. \A ev \in Events : /\ history'[ev].present = history[ev].present
                           /\ history'[ev].decision = history[ev].decision
    BY <1>1, <1>2, <2>1 DEF TypeOK, RowType
  <2>7. \A ev \in Events : HonestFinal(ev)'
    <3>1. t.pc = "back" /\ (~IsDeferred(t.ev) => t.final = "notify")
      BY <1>3, <1>9 DEF WriteBack, TaskOK
    <3>2. \A ev \in Events : /\ ev # t.ev => history'[ev].final = history[ev].final
                             /\ history'[t.ev].final = t.final
      BY <1>1, <1>2, <2>1 DEF TypeOK, RowType
    <3> QED  BY <1>0, <2>2, <3>1, <3>2 DEF HonestFinal, IsDeferred
  <2>3. task'[f].pc = "idle"
    BY <1>1, <2>1 DEF TypeOK, NoTask
  <2>4. TaskOK(f)'
    BY <2>3 DEF TaskOK
  <2>5. \A g \in Finalizers \ {f} : task'[g] = task[g]
    BY <1>1, <2>1 DEF TypeOK
  <2>6. QED
    BY <1>1, <2>1, <2>2, <2>4, <2>5, <2>7, SameFrame, FinalizeFrame
<1>10. CASE TaskFails(f)
  <2>1. /\ UNCHANGED <<item, history, invocation, log>>
        /\ task' = [task EXCEPT ![f] = NoTask]
    BY <1>10 DEF TaskFails
  <2>2. task'[f].pc = "idle"
    BY <1>1, <2>1 DEF TypeOK, NoTask
  <2>3. TaskOK(f)'
    BY <2>2 DEF TaskOK
  <2>4. \A g \in Finalizers \ {f} : task'[g] = task[g]
    BY <1>1, <2>1 DEF TypeOK
  <2>5. QED
    BY <1>1, <2>1, <2>3, <2>4, <1>0, SameFrame, FinalizeFrame
<1>11. QED
  BY <1>4, <1>5, <1>6, <1>7, <1>8, <1>9, <1>10 DEF FinalizeStep, ProcessMember

(* Steps that touch no invocation, no task and no row.                      *)
LEMMA OutsideKeeps ==
  ASSUME IngestInv, TypeOK', ItemMoves, UNCHANGED <<history, invocation, task, log>>
  PROVE  IngestInv'
<1>1. TypeOK /\ item' \in ItemType /\ LogGrows /\ RowsStay
  BY SameFrame DEF TypeOK, IngestInv
<1>2. \A v \in Workers : InvocationOK(v)'
  BY <1>1, InvocationFrame DEF IngestInv
<1>3. \A g \in Finalizers : TaskOK(g)'
  BY <1>1, TaskFrame DEF IngestInv
<1>4. RowsLogged'
  BY <1>1, RowFrame DEF IngestInv
<1>5. \A ev \in Events : PauseDefers(history[ev].decision)' /\ HonestFinal(ev)'
  BY SameFrame DEF IngestInv, PauseDefers
<1>6. QED
  BY <1>2, <1>3, <1>4, <1>5 DEF IngestInv

LEMMA InvInit == Init => IngestInv
<1> SUFFICES ASSUME Init PROVE IngestInv
  OBVIOUS
<1>1. TypeOK
  BY InitType
<1>2. \A w \in Workers : InvocationOK(w)
  BY IdleOK DEF Init, NoInvocation, InvocationOK
<1>3. \A f \in Finalizers : TaskOK(f)
  BY DEF Init, NoTask, TaskOK
<1>4. RowsLogged /\ \A ev \in Events : PauseDefers(history[ev].decision) /\ HonestFinal(ev)
  BY IdleOK DEF Init, NoRow, RowsLogged, HonestFinal
<1>5. QED
  BY <1>1, <1>2, <1>3, <1>4 DEF IngestInv

LEMMA InvNext == IngestInv /\ [Next]_vars => IngestInv'
<1> SUFFICES ASSUME IngestInv, [Next]_vars PROVE IngestInv'
  OBVIOUS
<1>1. TypeOK'
  BY NextType DEF IngestInv
<1>2. CASE \E w \in Workers : Ingest(w)
  BY <1>2, IngestKeeps
<1>3. CASE \E ev \in Events : Redeliver(ev)
  BY <1>1, <1>3, OutsideKeeps, SameFrame DEF Redeliver
<1>4. CASE \E f \in Finalizers : FinalizeStep(f)
  BY <1>4, FinalizeKeeps
<1>5. CASE CloseGone
  <2>1. item'.version = item.version + 1 /\ item.version \in Nat
    BY <1>5 DEF CloseGone, IngestInv, TypeOK, ItemType
  <2>2. ItemMoves
    BY <2>1 DEF ItemMoves
  <2>3. QED
    BY <1>1, <1>5, <2>2, OutsideKeeps DEF CloseGone
<1>6. CASE UNCHANGED vars
  BY <1>1, <1>6, OutsideKeeps, SameFrame DEF vars
<1>7. QED
  BY <1>2, <1>3, <1>4, <1>5, <1>6 DEF Next

(* Whatever interleaves, fails or is delivered twice: what an invocation    *)
(* read is what is there unless the version moved, and a decision is in the *)
(* log before anything is recorded of it.                                   *)
THEOREM InvCorrect == Spec => []IngestInv
<1>1. QED
  BY InvInit, InvNext, PTL DEF Spec

-----------------------------------------------------------------------------
(* The ingestor implements AlertJudgement.                                  *)
LEMMA SameAfter ==
  ASSUME NEW s, NEW ev
  PROVE  J!After(s, ev) = After(s, ev)
BY SameDecision, SameEffect DEF After, J!After

(* A decision that is logged with the item after it is a whole judgement.   *)
LEMMA JudgeStep ==
  ASSUME NEW ev \in Events, Logs(ev, Decide(item.state, ev)),
         item'.state = After(item.state, ev)
  PROVE  J!Next
<1>1. J!Judge(ev)
  BY SameDecision, SameAfter DEF J!Judge, Logs
<1>2. QED
  BY <1>1 DEF J!Next

LEMMA UnsavedStep ==
  ASSUME NEW ev \in Events, NEW d \in DecisionType, Logs(ev, d), item' = item
  PROVE  J!Next
<1>1. J!JudgeWithoutState(ev)
  BY DEF J!JudgeWithoutState, Logs, J!DecisionType, DecisionType, J!Actions, Actions,
         J!Reasons, Reasons
<1>2. QED
  BY <1>1 DEF J!Next

LEMMA StutterStep ==
  ASSUME item' = item, log' = log
  PROVE  [J!Next]_(J!vars)
BY DEF J!vars

LEMMA IngestRefines ==
  ASSUME IngestInv, NEW w \in Workers, Ingest(w)
  PROVE  [J!Next]_(J!vars)
<1> DEFINE i == invocation[w]
<1>1. /\ i.ev \in Events /\ i.ev \in EventType /\ i.decision \in DecisionType
      /\ item.state \in StateType
  BY IngestorAssumption DEF IngestInv, TypeOK, InvocationType, ItemType
<1>2. Decide(NoState, i.ev) \in DecisionType
  BY <1>1, DecideType, IdleType DEF NoItem, ItemType
<1>3. CASE ReadState(w)
  <2>1. CASE After(item.state, i.ev) = item.state
    BY <1>1, <1>3, <2>1, JudgeStep DEF ReadState
  <2>2. CASE After(item.state, i.ev) # item.state
    BY <1>3, <2>2, StutterStep DEF ReadState
  <2>3. QED
    BY <2>1, <2>2
<1>4. CASE ReadFails(w)
  BY <1>1, <1>2, <1>4, UnsavedStep DEF ReadFails
<1>5. CASE WriteState(w)
  <2>1. i.pc = "write" /\ item.version = i.seen.version
    BY <1>5 DEF WriteState
  <2>2. i.seen = item /\ i.decision = Decide(item.state, i.ev)
    BY <2>1 DEF IngestInv, InvocationOK, Current
  <2>3. /\ item'.state = After(item.state, i.ev)
        /\ Logs(i.ev, Decide(item.state, i.ev))
    BY <1>5, <2>2 DEF WriteState, After
  <2>4. QED
    BY <1>1, <2>3, JudgeStep
<1>6. CASE Contention(w)
  <2>1. Decision("notify", "state_contention") \in DecisionType
    BY DEF Decision, DecisionType, Actions, Reasons
  <2>2. QED
    BY <1>1, <1>6, <2>1, UnsavedStep DEF Contention
<1>7. CASE WriteFails(w)
  BY <1>1, <1>7, UnsavedStep DEF WriteFails
<1>8. CASE \/ \E ev \in Events : Receive(w, ev)
           \/ Conflict(w) \/ JoinGroup(w) \/ Record(w) \/ InvocationFails(w)
  <2>1. UNCHANGED <<item, log>>
    BY <1>8 DEF Receive, Conflict, JoinGroup, Record, InvocationFails
  <2>2. QED
    BY <2>1, StutterStep
<1>9. QED
  BY <1>3, <1>4, <1>5, <1>6, <1>7, <1>8 DEF Ingest, Handle

LEMMA FinalizeRefines ==
  ASSUME IngestInv, NEW f \in Finalizers, FinalizeStep(f)
  PROVE  [J!Next]_(J!vars)
<1> DEFINE t == task[f]
<1>1. CASE WriteMark(f)
  <2>1. t.ev \in Events /\ t.pc = "write" /\ item.version = t.seen.version
    BY <1>1 DEF WriteMark, IngestInv, TypeOK, TaskType
  <2>2. /\ t.seen = item /\ item.state.episode_open
        /\ history[t.ev].present /\ IsDeferred(t.ev)
    BY <2>1 DEF IngestInv, TaskOK, Current
  <2>3. J!Deferred(t.ev)
    <3>1. history[t.ev].decision = Decision("defer", "auto_pause")
      BY <2>1, <2>2 DEF IsDeferred, IngestInv, PauseDefers
    <3>2. t.ev.kind # "config"
      BY <2>2 DEF IsDeferred, IsFiring
    <3>3. Logged(t.ev, Decision("defer", "auto_pause"))
      BY <2>1, <2>2, <3>1, <3>2 DEF IngestInv, RowsLogged
    <3>4. QED
      BY <3>3 DEF Logged, J!Deferred, Decision, J!Decision
  <2>4. J!Confirm(t.ev)
    BY <1>1, <2>2, <2>3 DEF WriteMark, Logs, J!Confirm, RecordNotice, J!RecordNotice
  <2>5. QED
    BY <2>1, <2>4 DEF J!Next
<1>2. CASE \/ \E ev \in Events : Finalize(f, ev) \/ FinalizeAgain(f, ev)
           \/ CheckFiring(f) \/ ReadMark(f) \/ MarkConflict(f) \/ WriteBack(f) \/ TaskFails(f)
  <2>1. UNCHANGED <<item, log>>
    BY <1>2 DEF Finalize, FinalizeAgain, StartTask, CheckFiring, ReadMark, MarkConflict,
                WriteBack, TaskFails
  <2>2. QED
    BY <2>1, StutterStep
<1>3. QED
  BY <1>1, <1>2 DEF FinalizeStep, ProcessMember

LEMMA StepRefines == IngestInv /\ [Next]_vars => [J!Next]_(J!vars)
<1> SUFFICES ASSUME IngestInv, [Next]_vars PROVE [J!Next]_(J!vars)
  OBVIOUS
<1>1. CASE \E w \in Workers : Ingest(w)
  BY <1>1, IngestRefines
<1>2. CASE \E f \in Finalizers : FinalizeStep(f)
  BY <1>2, FinalizeRefines
<1>3. CASE CloseGone
  <2>1. J!Vanish
    BY <1>3 DEF CloseGone, J!Vanish, CloseEpisode, J!CloseEpisode
  <2>2. QED
    BY <2>1 DEF J!Next
<1>4. CASE UNCHANGED vars \/ \E ev \in Events : Redeliver(ev)
  BY <1>4, StutterStep DEF vars, Redeliver
<1>5. QED
  BY <1>1, <1>2, <1>3, <1>4 DEF Next

(* However invocations, finalize tasks and the router interleave, fail and  *)
(* repeat, the item goes through whole judgements of the state it had, in   *)
(* the order of the log.  What AlertJudgement shows of such histories holds *)
(* of the table.                                                            *)
THEOREM JudgementsAtomic == Spec => AtomicJudgements
<1>1. Init => J!Init
  BY DEF Init, J!Init, NoItem, NoState, J!NoState, Never, J!Never
<1>2. QED
  BY <1>1, StepRefines, InvCorrect, PTL DEF Spec, AtomicJudgements, J!Spec
-----------------------------------------------------------------------------
(* A row that is there keeps all it says; a final decision changes only for *)
(* a firing that was held back.                                             *)
RowKept(ev) ==
  history[ev].present =>
    LET row == history[ev]
        next == history'[ev]
    IN  /\ [next EXCEPT !.final = row.final] = row
        /\ row.final # "none" =>
             next.final = row.final \/ (IsDeferred(ev) /\ next.final # "none")

LEMMA SameRow ==
  ASSUME NEW r \in RowType
  PROVE  /\ [r EXCEPT !.final = r.final] = r
         /\ \A x : [[r EXCEPT !.final = x] EXCEPT !.final = r.final] = r
         /\ \A x : [r EXCEPT !.final = x].final = x
  BY DEF RowType

LEMMA RowsKept ==
  ASSUME IngestInv, Next
  PROVE  \A ev \in Events : RowKept(ev)
<1>0. \A ev \in Events : history[ev] \in RowType
  BY DEF IngestInv, TypeOK
<1>1. ASSUME NEW ev \in Events, history'[ev] = history[ev] PROVE RowKept(ev)
  BY <1>0, <1>1, SameRow DEF RowKept
<1>2. ASSUME NEW w \in Workers, Record(w) PROVE \A ev \in Events : RowKept(ev)
  <2>1. \E row : history' = [history EXCEPT ![invocation[w].ev] =
                              IF history[invocation[w].ev].present
                              THEN history[invocation[w].ev] ELSE row]
    BY <1>2 DEF Record
  <2>2. \A ev \in Events : history[ev].present => history'[ev] = history[ev]
    BY <2>1 DEF IngestInv, TypeOK
  <2> QED  BY <1>1, <2>2 DEF RowKept
<1>3. ASSUME NEW f \in Finalizers, WriteBack(f), NEW ev \in Events PROVE RowKept(ev)
  <2> DEFINE t == task[f]
  <2>1. /\ t.pc = "back"
        /\ history' = [history EXCEPT ![t.ev] = [history[t.ev] EXCEPT !.final = t.final]]
    BY <1>3 DEF WriteBack
  <2>2. CASE ev # t.ev
    BY <1>1, <2>1, <2>2 DEF IngestInv, TypeOK
  <2>3. CASE ev = t.ev
    <3>1. history'[ev] = [history[ev] EXCEPT !.final = t.final]
      BY <2>1, <2>3 DEF IngestInv, TypeOK
    <3>2. t.final # "none" /\ (~IsDeferred(ev) => t.final = "notify")
      BY <2>1, <2>3 DEF IngestInv, TaskOK
    <3>3. ~IsDeferred(ev) => history[ev].final \in {"none", "notify"}
      BY DEF IngestInv, HonestFinal
    <3>4. [history'[ev] EXCEPT !.final = history[ev].final] = history[ev]
          /\ history'[ev].final = t.final
      <4>1. PICK row \in RowType : row = history[ev]
        BY <1>0
      <4>2. PICK x : x = t.final
        OBVIOUS
      <4>3. history'[ev] = [row EXCEPT !.final = x]
        BY <3>1, <4>1, <4>2
      <4>4. [history'[ev] EXCEPT !.final = row.final] = row /\ history'[ev].final = x
        <5>1. /\ [[row EXCEPT !.final = x] EXCEPT !.final = row.final] = row
              /\ [row EXCEPT !.final = x].final = x
          BY SameRow
        <5> QED  BY <4>3, <5>1, Zenon
      <4> QED  BY <4>1, <4>2, <4>4
    <3> QED  BY <3>2, <3>3, <3>4 DEF RowKept
  <2> QED  BY <2>2, <2>3
<1>4. ASSUME NEW w \in Workers, Ingest(w) PROVE \A ev \in Events : RowKept(ev)
  BY <1>1, <1>2, <1>4 DEF Ingest, Handle, Receive, ReadState, ReadFails, WriteState, Conflict,
                          Contention, WriteFails, JoinGroup, InvocationFails
<1>5. ASSUME NEW f \in Finalizers, FinalizeStep(f) PROVE \A ev \in Events : RowKept(ev)
  BY <1>1, <1>3, <1>5 DEF FinalizeStep, ProcessMember, Finalize, FinalizeAgain, StartTask,
                          CheckFiring, ReadMark, WriteMark, MarkConflict, TaskFails
<1> QED  BY <1>1, <1>4, <1>5 DEF Next, Redeliver, CloseGone

(* No retry, duplicate or late invocation changes a row, and a final        *)
(* decision stands unless the finalize of a held-back firing is run again.  *)
THEOREM RowsStable == Spec => RowStable
<1>1. IngestInv /\ [Next]_vars => [\A ev \in Events : RowKept(ev)]_vars
  BY RowsKept
<1>2. (\A ev \in Events : RowKept(ev)) <=>
      (\A ev \in Events : history[ev].present =>
         LET row == history[ev]
             next == history'[ev]
         IN  /\ [next EXCEPT !.final = row.final] = row
             /\ row.final # "none" =>
                  next.final = row.final \/ (IsDeferred(ev) /\ next.final # "none"))
  BY DEF RowKept
<1> QED  BY <1>1, <1>2, InvCorrect, PTL DEF Spec, RowStable
-----------------------------------------------------------------------------
(* Where all is calm no alarm is lost.  The invariant: each event is in one *)
(* place, an event that may be sent is in a group, a group's decision is    *)
(* what the row calls for, and whatever the log and the item say of a       *)
(* notice, that notice is on its way.                                       *)
Working(w) == invocation[w].pc # "idle"

OnePlace ==
  /\ \A ev \in Events : queue[ev] \in {0, 1} /\ (queue[ev] = 1 => ~history[ev].present)
  /\ \A w \in Workers : Working(w) =>
       queue[invocation[w].ev] = 0 /\ ~history[invocation[w].ev].present
  /\ \A v, w \in Workers :
       Working(v) /\ Working(w) /\ invocation[v].ev = invocation[w].ev => v = w

Grouping(i) ==
  /\ i.pc = "group" => ShouldGroup(i.ev, i.decision) /\ ~i.grouped
  /\ i.pc = "record" => (i.grouped <=> ShouldGroup(i.ev, i.decision))
  /\ i.pc \in {"read", "write"} => i.ev.kind # "config" /\ ~i.grouped
  /\ i.pc \in {"group", "record"} /\ i.ev.kind = "config" => i.decision = Undecided
  /\ ~i.missed

RowGroups(ev, row) ==
  /\ row.grouped <=> row.present /\ ShouldGroup(ev, row.decision)
  /\ ~row.missed
  /\ row.decision.reason = "dedup" => row.present /\ ev.kind # "config"
  /\ row.final # "none" => row.grouped
  /\ row.decision.action = "notify" => row.final \in {"none", "notify"}

TaskDecides(t, row) ==
  /\ t.pc # "idle" => row.grouped /\ row.final = "none"
  /\ t.pc \in {"mark", "write"} => t.final = "notify"
  /\ t.pc = "back" /\ row.decision.action = "notify" => t.final = "notify"

OneTask ==
  \A f, g \in Finalizers :
    task[f].pc # "idle" /\ task[g].pc # "idle" /\ task[f].ev = task[g].ev => f = g

OnItsWay(ev) ==
  \/ history[ev].final = "notify"
  \/ \E f \in Finalizers : task[f].pc = "back" /\ task[f].ev = ev /\ task[f].final = "notify"
  \/ history[ev].present /\ history[ev].decision.action = "notify"
  \/ \E w \in Workers : /\ invocation[w].pc \in {"group", "record"} /\ invocation[w].ev = ev
                        /\ invocation[w].decision.action = "notify"

Announced(ev) ==
  IsFiring(ev) /\ \E d \in DecisionType : d.action = "notify" /\ Logged(ev, d)

NoticesFollowed == \A ev \in Events : Announced(ev) => OnItsWay(ev)

ItemTells ==
  /\ item.state.last_notified_at # Never =>
       \E ev \in Events : Announced(ev) /\ ev.at = item.state.last_notified_at
  /\ AlreadyNotified(item.state) => \E ev \in Events : Announced(ev)

LogTells ==
  \A ev \in Events : \A d \in DecisionType : Logged(ev, d) =>
    /\ d.reason = "dedup" =>
         \E sent \in Events : Announced(sent) /\ ev.at - sent.at \in 0 .. RepeatInterval - 1
    /\ ev.kind = "clearing" /\ d.action # "suppress" => \E sent \in Events : Announced(sent)

CalmInv ==
  /\ OnePlace
  /\ \A w \in Workers : Grouping(invocation[w])
  /\ \A ev \in Events : RowGroups(ev, history[ev])
  /\ \A f \in Finalizers : TaskDecides(task[f], history[task[f].ev])
  /\ OneTask /\ NoticesFollowed /\ ItemTells /\ LogTells

(* The steps that are left when nothing fails.                              *)
Joins(w) ==
  /\ invocation[w].pc = "group"
  /\ invocation' = [invocation EXCEPT ![w] =
       [@ EXCEPT !.pc = "record", !.grouped = TRUE, !.missed = FALSE]]
  /\ UNCHANGED <<item, queue, history, task, log, faults, duplicates>>

Records(w) ==
  LET i == invocation[w]
  IN  /\ i.pc = "record"
      /\ history' = [history EXCEPT ![i.ev] = IF @.present THEN @ ELSE Row(i, i.missed)]
      /\ invocation' = [invocation EXCEPT ![w] = NoInvocation]
      /\ UNCHANGED <<item, queue, task, log, faults, duplicates>>

CalmWork(w) ==
  \/ \E ev \in Events : Receive(w, ev)
  \/ ReadState(w) \/ WriteState(w) \/ Conflict(w) \/ Joins(w) \/ Records(w)

CalmStep ==
  \/ \E w \in Workers : CalmWork(w)
  \/ \E f \in Finalizers : (\E ev \in Events : Finalize(f, ev)) \/ ProcessMember(f)
  \/ CloseGone

(* What the log holds after a decision was taken.                           *)
LEMMA EffectKnown ==
  ASSUME TypeOK, NEW ev \in Events, NEW d \in DecisionType, Logs(ev, d)
  PROVE  \A e, c : Logged(e, c)' <=> Logged(e, c) \/ (e = ev /\ c = d)
<1>1. log \in Seq(J!EntryType) /\ J!Entry(ev, d) \in J!EntryType
  BY DEF TypeOK, J!Entry, J!EntryType, J!DecisionType, DecisionType, J!Actions, Actions,
         J!Reasons, Reasons
<1>2. /\ Len(log) \in Nat /\ DOMAIN log = 1 .. Len(log) /\ DOMAIN log' = 1 .. Len(log) + 1
      /\ \A k \in 1 .. Len(log) : log'[k] = log[k]
      /\ log'[Len(log) + 1] = J!Entry(ev, d)
  BY <1>1 DEF Logs
<1> SUFFICES ASSUME NEW e, NEW c PROVE Logged(e, c)' <=> Logged(e, c) \/ (e = ev /\ c = d)
  OBVIOUS
<1>3. ASSUME Logged(e, c)' PROVE Logged(e, c) \/ (e = ev /\ c = d)
  <2>1. PICK k \in DOMAIN log' : log'[k] = J!Entry(e, c)
    BY <1>3 DEF Logged
  <2>2. CASE k = Len(log) + 1
    <3>1. J!Entry(e, c) = J!Entry(ev, d)
      BY <1>2, <2>1, <2>2
    <3>2. J!Entry(e, c).ev = J!Entry(ev, d).ev /\ J!Entry(e, c).decision = J!Entry(ev, d).decision
      BY <3>1
    <3> QED  BY <3>2 DEF J!Entry
  <2>3. CASE k # Len(log) + 1
    <3>1. k \in DOMAIN log /\ log'[k] = log[k]
      BY <1>2, <2>3
    <3> QED  BY <2>1, <3>1 DEF Logged
  <2> QED  BY <2>2, <2>3
<1>4. ASSUME Logged(e, c) PROVE Logged(e, c)'
  <2>1. \A k \in DOMAIN log : k \in DOMAIN log' /\ log'[k] = log[k]
    BY <1>2
  <2> QED  BY <1>4, <2>1 DEF Logged
<1>5. ASSUME e = ev, c = d PROVE Logged(e, c)'
  <2>1. Len(log) + 1 \in DOMAIN log'
    BY <1>2
  <2> QED  BY <1>2, <1>5, <2>1 DEF Logged
<1> QED  BY <1>3, <1>4, <1>5

LEMMA CalmSteps ==
  ASSUME TypeOK, Next, Calm'
  PROVE  Calm /\ CalmStep
<1>1. faults' = 0 /\ duplicates' = 0 /\ faults \in Nat /\ duplicates \in Nat
  BY DEF Calm, TypeOK
<1>2. ~Fault /\ \A ev \in Events : ~Redeliver(ev)
  BY <1>1 DEF Fault, Redeliver
<1>3. ASSUME NEW w \in Workers, Contention(w) PROVE FALSE
  <2> DEFINE d == Decision("notify", "state_contention")
  <2>1. PICK ev \in Events : Logs(ev, d)
    BY <1>3 DEF Contention, TypeOK, InvocationType
  <2>2. d \in DecisionType /\ d.reason = "state_contention"
    BY DEF Decision, DecisionType, Actions, Reasons
  <2>3. Logged(ev, d)'
    BY <2>1, <2>2, EffectKnown
  <2> QED  BY <2>2, <2>3 DEF Logged, Calm, J!Entry
<1>4. CalmStep
  <2>1. ASSUME NEW w \in Workers, Ingest(w) PROVE CalmWork(w)
    <3>1. JoinGroup(w) => Joins(w)
      BY <1>2 DEF JoinGroup, Joins
    <3>2. Record(w) => Records(w)
      <4>1. /\ invocation[w].missed \in BOOLEAN /\ invocation[w].grouped \in BOOLEAN
            /\ ~Fault
        BY <1>2 DEF TypeOK, InvocationType
      <4>2. (FALSE \/ invocation[w].missed) = invocation[w].missed
        BY <4>1
      <4>3. ASSUME Record(w)
            PROVE  /\ history' = [history EXCEPT ![invocation[w].ev] =
                        IF history[invocation[w].ev].present THEN history[invocation[w].ev]
                        ELSE Row(invocation[w], FALSE \/ invocation[w].missed)]
                   /\ faults' = faults
        BY <4>1, <4>3 DEF Record
      <4> QED  BY <4>2, <4>3 DEF Record, Records
    <3> QED  BY <1>2, <1>3, <2>1, <3>1, <3>2
             DEF Ingest, Handle, CalmWork, ReadFails, WriteFails, InvocationFails
  <2>2. ASSUME NEW f \in Finalizers, FinalizeStep(f)
        PROVE  (\E ev \in Events : Finalize(f, ev)) \/ ProcessMember(f)
    BY <1>2, <2>2 DEF FinalizeStep, FinalizeAgain, TaskFails
  <2> QED  BY <1>2, <2>1, <2>2 DEF Next, CalmStep
<1>5. faults = 0 /\ duplicates = 0
  <2>1. \A w \in Workers : CalmWork(w) => faults' = faults /\ duplicates' = duplicates
    BY DEF CalmWork, Receive, ReadState, WriteState, Conflict, Joins, Records
  <2>2. \A f \in Finalizers, ev \in Events :
          Finalize(f, ev) => faults' = faults /\ duplicates' = duplicates
    BY DEF Finalize, StartTask
  <2>3. \A f \in Finalizers : ProcessMember(f) => faults' = faults /\ duplicates' = duplicates
    BY DEF ProcessMember, CheckFiring, ReadMark, WriteMark, MarkConflict, WriteBack
  <2> QED  BY <1>1, <1>4, <2>1, <2>2, <2>3 DEF CalmStep, CloseGone
<1>6. \A i \in DOMAIN log : i \in DOMAIN log' /\ log'[i] = log[i]
  <2>1. CASE log' = log
    BY <2>1
  <2>2. CASE \E ev \in Events, d \in DecisionType : Logs(ev, d)
    BY <2>2, EffectLogged DEF TypeOK, LogGrows
  <2>3. log' = log \/ \E ev \in Events, d \in DecisionType : Logs(ev, d)
    <3>1. ASSUME NEW w \in Workers, CalmWork(w)
          PROVE  log' = log \/ \E ev \in Events, d \in DecisionType : Logs(ev, d)
      <4>1. invocation[w] \in InvocationType /\ item.state \in StateType
        BY DEF TypeOK, ItemType
      <4>2. invocation[w].ev \in Events /\ invocation[w].decision \in DecisionType
        BY <4>1 DEF InvocationType
      <4>3. Decide(item.state, invocation[w].ev) \in DecisionType
        BY <4>1, <4>2, DecideType, IngestorAssumption
      <4> QED  BY <3>1, <4>2, <4>3 DEF CalmWork, Receive, ReadState, WriteState, Conflict, Joins, Records
    <3>2. ASSUME NEW f \in Finalizers, ProcessMember(f)
          PROVE  log' = log \/ \E ev \in Events, d \in DecisionType : Logs(ev, d)
      <4>1. task[f].ev \in Events /\ J!Confirmed \in DecisionType
        BY DEF TypeOK, TaskType, J!Confirmed, J!Decision, DecisionType, Actions, Reasons
      <4> QED  BY <3>2, <4>1 DEF ProcessMember, CheckFiring, ReadMark, WriteMark, MarkConflict, WriteBack
    <3> QED  BY <1>4, <3>1, <3>2 DEF CalmStep, Finalize, StartTask, CloseGone
  <2> QED  BY <2>1, <2>2, <2>3
<1> QED  BY <1>4, <1>5, <1>6 DEF Calm

LEMMA DecidedFields ==
  ASSUME NEW i \in InvocationType, NEW d
  PROVE  /\ Decided(i, d).ev = i.ev /\ Decided(i, d).decision = d
         /\ Decided(i, d).grouped = i.grouped /\ Decided(i, d).missed = i.missed
         /\ Decided(i, d).pc = IF ShouldGroup(i.ev, d) THEN "group" ELSE "record"
  BY DEF Decided, InvocationType

LEMMA FinalFields ==
  ASSUME NEW r \in RowType, NEW x
  PROVE  /\ [r EXCEPT !.final = x].present = r.present
         /\ [r EXCEPT !.final = x].decision = r.decision
         /\ [r EXCEPT !.final = x].grouped = r.grouped
         /\ [r EXCEPT !.final = x].missed = r.missed
         /\ [r EXCEPT !.final = x].final = x
  BY DEF RowType

(* What a task leaves of the rows: only the end of the task writes one.     *)
LEMMA RowsAfterTask ==
  ASSUME TypeOK, NEW f \in Finalizers,
         (\E ev \in Events : Finalize(f, ev)) \/ ProcessMember(f), NEW e \in Events
  PROVE  /\ history'[e].present = history[e].present
         /\ history'[e].decision = history[e].decision
         /\ history'[e].grouped = history[e].grouped
         /\ history'[e].missed = history[e].missed
         /\ task[f].pc # "back" \/ task[f].ev # e => history'[e] = history[e]
         /\ task[f].pc = "back" /\ task[f].ev = e => history'[e].final = task[f].final
<1>1. history[e] \in RowType
  BY DEF TypeOK
<1>2. CASE WriteBack(f)
  <2>1. history'[e] = IF e = task[f].ev THEN [history[e] EXCEPT !.final = task[f].final]
                      ELSE history[e]
    BY <1>2 DEF WriteBack, TypeOK
  <2>2. task[f].pc = "back"
    BY <1>2 DEF WriteBack
  <2>3. CASE e = task[f].ev
    <3>1. history'[e] = [history[e] EXCEPT !.final = task[f].final]
      BY <2>1, <2>3
    <3>2. PICK r \in RowType : r = history[e]
      BY <1>1
    <3>3. PICK x : x = task[f].final
      OBVIOUS
    <3>4. /\ history'[e].present = r.present /\ history'[e].decision = r.decision
          /\ history'[e].grouped = r.grouped /\ history'[e].final = x
          /\ history'[e].missed = r.missed
      BY <3>1, <3>2, <3>3, FinalFields
    <3> QED  BY <2>2, <2>3, <3>2, <3>3, <3>4
  <2>4. CASE e # task[f].ev
    BY <2>1, <2>4
  <2> QED  BY <2>3, <2>4
<1>3. CASE ~WriteBack(f)
  <2>1. history' = history /\ task[f].pc # "back"
    BY <1>3 DEF Finalize, StartTask, ProcessMember, CheckFiring, ReadMark, WriteMark, MarkConflict
  <2> QED  BY <2>1
<1> QED  BY <1>2, <1>3

(* Each event stays in one place.                                           *)
LEMMA OnePlaceStep ==
  ASSUME TypeOK, TypeOK', CalmInv, CalmStep
  PROVE  OnePlace'
<1>1. ASSUME queue' = queue, \A ev \in Events : history'[ev].present = history[ev].present,
             \A w \in Workers : /\ invocation'[w].pc # "idle" => Working(w)
                                /\ invocation'[w].pc # "idle" => invocation'[w].ev = invocation[w].ev
      PROVE  OnePlace'
  <2>1. \A w \in Workers : Working(w)' => Working(w) /\ invocation'[w].ev = invocation[w].ev
    BY <1>1 DEF Working
  <2>2. \A w \in Workers : invocation[w].ev \in Events
    BY DEF TypeOK, InvocationType
  <2> QED  BY <1>1, <2>1, <2>2 DEF CalmInv, OnePlace
<1>2. ASSUME NEW w \in Workers, NEW ev \in Events, Receive(w, ev) PROVE OnePlace'
  <2>1. /\ invocation'[w].ev = ev
        /\ \A v \in Workers \ {w} : invocation'[v] = invocation[v]
    <3>1. [NoInvocation EXCEPT !.ev = ev] \in InvocationType /\ [NoInvocation EXCEPT !.ev = ev].ev = ev
      BY IdleType DEF InvocationType
    <3> QED  BY <1>2, <3>1, DecidedFields DEF Receive, TypeOK, InvocationType
  <2>2. /\ queue[ev] = 1 /\ queue'[ev] = 0 /\ history' = history /\ ~history[ev].present
        /\ \A e \in Events \ {ev} : queue'[e] = queue[e]
    BY <1>2 DEF Receive, CalmInv, OnePlace, TypeOK
  <2>3. \A v \in Workers \ {w} : Working(v) => invocation[v].ev # ev /\ invocation[v].ev \in Events
    BY <2>2 DEF CalmInv, OnePlace, TypeOK, InvocationType
  <2>4. \A v \in Workers \ {w} : Working(v)' <=> Working(v)
    BY <2>1 DEF Working
  <2> QED  BY <2>1, <2>2, <2>3, <2>4 DEF CalmInv, OnePlace
<1>3. ASSUME NEW w \in Workers, Records(w) PROVE OnePlace'
  <2>1. /\ Working(w) /\ ~Working(w)' /\ queue' = queue /\ invocation[w].ev \in Events
        /\ \A v \in Workers \ {w} : invocation'[v] = invocation[v]
        /\ \A e \in Events \ {invocation[w].ev} : history'[e] = history[e]
    BY <1>3 DEF Records, Working, TypeOK, NoInvocation, InvocationType
  <2>2. queue[invocation[w].ev] = 0
    BY <2>1 DEF CalmInv, OnePlace
  <2>3. \A v \in Workers \ {w} : Working(v) => invocation[v].ev # invocation[w].ev
    BY <2>1 DEF CalmInv, OnePlace
  <2>4. \A v \in Workers \ {w} : Working(v)' <=> Working(v)
    BY <2>1 DEF Working
  <2>5. \A v \in Workers \ {w} : invocation[v].ev \in Events
    BY DEF TypeOK, InvocationType
  <2>6. \A ev \in Events : queue'[ev] \in {0, 1} /\ (queue'[ev] = 1 => ~history'[ev].present)
    BY <2>1, <2>2 DEF CalmInv, OnePlace
  <2>7. \A v \in Workers : Working(v)' =>
          queue'[invocation'[v].ev] = 0 /\ ~history'[invocation'[v].ev].present
    BY <2>1, <2>3, <2>4, <2>5 DEF CalmInv, OnePlace
  <2>8. \A u, v \in Workers :
          Working(u)' /\ Working(v)' /\ invocation'[u].ev = invocation'[v].ev => u = v
    BY <2>1, <2>4 DEF CalmInv, OnePlace
  <2> QED  BY <2>6, <2>7, <2>8 DEF OnePlace
<1>4. ASSUME NEW w \in Workers, ReadState(w) \/ WriteState(w) \/ Conflict(w) \/ Joins(w)
      PROVE  OnePlace'
  <2>1. invocation[w] \in InvocationType /\ Working(w)
    BY <1>4 DEF TypeOK, ReadState, WriteState, Conflict, Joins, Working
  <2>2. queue' = queue /\ history' = history
    BY <1>4 DEF ReadState, WriteState, Conflict, Joins
  <2>3. \E j : j.ev = invocation[w].ev /\ invocation' = [invocation EXCEPT ![w] = j]
    <3>1. CASE ReadState(w)
      <4>1. \A d : Decided(invocation[w], d).ev = invocation[w].ev
        BY <2>1, DecidedFields
      <4>2. \A d : [invocation[w] EXCEPT !.pc = "write", !.seen = item, !.decision = d].ev
                     = invocation[w].ev
        BY <2>1 DEF InvocationType
      <4> QED  BY <3>1, <4>1, <4>2 DEF ReadState
    <3>2. CASE WriteState(w)
      BY <2>1, <3>2, DecidedFields DEF WriteState
    <3>3. CASE Conflict(w)
      BY <2>1, <3>3 DEF Conflict, InvocationType
    <3>4. CASE Joins(w)
      BY <2>1, <3>4 DEF Joins, InvocationType
    <3> QED  BY <1>4, <3>1, <3>2, <3>3, <3>4
  <2>4. \A v \in Workers : /\ v # w => invocation'[v] = invocation[v]
                           /\ invocation'[v].ev = invocation[v].ev
    BY <2>3 DEF TypeOK
  <2> QED  BY <1>1, <2>1, <2>2, <2>4 DEF Working
<1>5. ASSUME NEW f \in Finalizers, (\E ev \in Events : Finalize(f, ev)) \/ ProcessMember(f)
      PROVE  OnePlace'
  <2>1. queue' = queue /\ invocation' = invocation
    BY <1>5 DEF Finalize, StartTask, ProcessMember, CheckFiring, ReadMark, WriteMark,
                MarkConflict, WriteBack
  <2>2. \A ev \in Events : history'[ev].present = history[ev].present
    BY <1>5, RowsAfterTask
  <2> QED  BY <1>1, <2>1, <2>2 DEF Working
<1>6. CASE CloseGone
  BY <1>1, <1>6 DEF CloseGone, Working
<1> QED  BY <1>2, <1>3, <1>4, <1>5, <1>6 DEF CalmStep, CalmWork

(* An event that may be sent joins a group before its row is written.       *)
LEMMA GroupingStep ==
  ASSUME TypeOK, CalmInv, CalmStep, NEW v \in Workers
  PROVE  Grouping(invocation'[v])
<1>1. \A w \in Workers : Grouping(invocation[w])
  BY DEF CalmInv
<1>2. ASSUME NEW i \in InvocationType, NEW d, i.pc \in {"read", "write"}, Grouping(i)
      PROVE  Grouping(Decided(i, d))
  BY <1>2, DecidedFields DEF Grouping
<1>3. ASSUME NEW w \in Workers, NEW j, Grouping(j), invocation' = [invocation EXCEPT ![w] = j]
      PROVE  Grouping(invocation'[v])
  BY <1>1, <1>3 DEF TypeOK
<1>4. ASSUME NEW w \in Workers, CalmWork(w)
      PROVE  \E j : Grouping(j) /\ invocation' = [invocation EXCEPT ![w] = j]
  <2> DEFINE i == invocation[w]
  <2>1. i \in InvocationType /\ Grouping(i)
    BY <1>1 DEF TypeOK
  <2>2. ASSUME NEW ev \in Events, Receive(w, ev)
        PROVE  \E j : Grouping(j) /\ invocation' = [invocation EXCEPT ![w] = j]
    <3> DEFINE j == [NoInvocation EXCEPT !.ev = ev]
    <3>1. j \in InvocationType /\ j.ev = ev /\ ~j.grouped /\ ~j.missed
      BY IdleType DEF NoInvocation, InvocationType
    <3>2. CASE ev.kind = "config"
      <4>1. Decide(NoState, ev) = Undecided /\ ~ShouldGroup(ev, Undecided)
        BY <3>2 DEF Decide, Undecided, ShouldGroup
      <4>2. Grouping(Decided(j, Undecided))
        <5> HIDE DEF j
        <5> QED  BY <3>1, <4>1, DecidedFields DEF Grouping
      <4>3. invocation' = [invocation EXCEPT ![w] = Decided(j, Undecided)]
        BY <2>2, <3>2, <4>1 DEF Receive
      <4> QED  BY <4>2, <4>3
    <3>3. CASE ev.kind # "config"
      <4>1. Grouping([j EXCEPT !.pc = "read"])
        <5> HIDE DEF j
        <5> QED  BY <3>1, <3>3 DEF Grouping, InvocationType
      <4> QED  BY <2>2, <3>3, <4>1 DEF Receive
    <3> QED  BY <3>2, <3>3
  <2>3. CASE ReadState(w)
    <3> DEFINE d == Decide(item.state, i.ev)
               j == [i EXCEPT !.pc = "write", !.seen = item, !.decision = d]
    <3>1. Grouping(Decided(i, d))
      BY <1>2, <2>1, <2>3 DEF ReadState
    <3>2. Grouping(j)
      <4> HIDE DEF d
      <4> QED  BY <2>1, <2>3 DEF ReadState, Grouping, InvocationType
    <3>3. invocation' = [invocation EXCEPT ![w] = Decided(i, d)]
            \/ invocation' = [invocation EXCEPT ![w] = j]
      BY <2>3 DEF ReadState
    <3> QED  BY <3>1, <3>2, <3>3
  <2>4. CASE WriteState(w)
    <3>1. Grouping(Decided(i, i.decision))
      BY <1>2, <2>1, <2>4 DEF WriteState
    <3> QED  BY <2>4, <3>1 DEF WriteState
  <2>5. CASE Conflict(w)
    <3> DEFINE j == [i EXCEPT !.pc = "read", !.attempt = i.attempt + 1]
    <3>1. Grouping(j)
      BY <2>1, <2>5 DEF Conflict, Grouping, InvocationType
    <3>2. invocation' = [invocation EXCEPT ![w] = j]
      BY <2>5 DEF Conflict
    <3> QED  BY <3>1, <3>2
  <2>6. CASE Joins(w)
    <3> DEFINE j == [i EXCEPT !.pc = "record", !.grouped = TRUE, !.missed = FALSE]
    <3>1. Grouping(j)
      BY <2>1, <2>6 DEF Joins, Grouping, InvocationType
    <3>2. invocation' = [invocation EXCEPT ![w] = j]
      BY <2>6 DEF Joins
    <3> QED  BY <3>1, <3>2
  <2>7. CASE Records(w)
    BY <2>7 DEF Records, Grouping, NoInvocation
  <2> QED  BY <1>4, <2>2, <2>3, <2>4, <2>5, <2>6, <2>7 DEF CalmWork
<1>5. ASSUME invocation' = invocation PROVE Grouping(invocation'[v])
  BY <1>1, <1>5
<1> QED  BY <1>3, <1>4, <1>5 DEF CalmStep, Finalize, StartTask, ProcessMember, CheckFiring,
            ReadMark, WriteMark, MarkConflict, WriteBack, CloseGone

(* A new row is in a group if it may be sent; what a task writes agrees.    *)
LEMMA RowGroupsStep ==
  ASSUME TypeOK, CalmInv, CalmStep, NEW ev \in Events
  PROVE  RowGroups(ev, history'[ev])
<1>1. RowGroups(ev, history[ev])
  BY DEF CalmInv
<1>2. ASSUME history'[ev] = history[ev] PROVE RowGroups(ev, history'[ev])
  BY <1>1, <1>2
<1>3. ASSUME NEW w \in Workers, Records(w) PROVE RowGroups(ev, history'[ev])
  <2>1. PICK i \in InvocationType : i = invocation[w]
    BY DEF TypeOK
  <2>2. Grouping(i) /\ i.pc = "record" /\ ~history[i.ev].present
    BY <1>3, <2>1 DEF CalmInv, Records, OnePlace, Working
  <2> DEFINE row == Row(i, i.missed)
  <2>3. history'[ev] = IF ev = i.ev THEN row ELSE history[ev]
    BY <1>3, <2>1, <2>2 DEF Records, TypeOK
  <2>4. CASE ev = i.ev
    <3>1. i.decision.reason = "dedup" => i.ev.kind # "config"
      BY <2>2 DEF Grouping, Undecided, Decision
    <3>2. RowGroups(i.ev, row)
      BY <2>2, <3>1 DEF Grouping, RowGroups, Row
    <3> QED  BY <2>3, <2>4, <3>2
  <2> QED  BY <1>2, <2>3, <2>4
<1>4. ASSUME NEW f \in Finalizers, (\E e \in Events : Finalize(f, e)) \/ ProcessMember(f)
      PROVE  RowGroups(ev, history'[ev])
  <2>1. CASE task[f].pc = "back" /\ task[f].ev = ev
    <3>1. TaskDecides(task[f], history[ev])
      BY <2>1 DEF CalmInv
    <3>2. /\ history'[ev].present = history[ev].present
          /\ history'[ev].decision = history[ev].decision
          /\ history'[ev].grouped = history[ev].grouped
          /\ history'[ev].missed = history[ev].missed
          /\ history'[ev].final = task[f].final
      BY <1>4, <2>1, RowsAfterTask
    <3> QED  BY <1>1, <2>1, <3>1, <3>2 DEF RowGroups, TaskDecides
  <2> QED  BY <1>2, <1>4, <2>1, RowsAfterTask
<1>5. ASSUME NEW w \in Workers, CalmWork(w), ~Records(w) PROVE history'[ev] = history[ev]
  BY <1>5 DEF CalmWork, Receive, ReadState, WriteState, Conflict, Joins
<1> QED  BY <1>2, <1>3, <1>4, <1>5 DEF CalmStep, CloseGone

(* A task decides on a row of a group, alone, and as the row calls for.     *)
LEMMA TaskMoves ==
  ASSUME IngestInv, CalmInv, NEW f \in Finalizers,
         (\E ev \in Events : Finalize(f, ev)) \/ ProcessMember(f)
  PROVE  \E t : /\ task' = [task EXCEPT ![f] = t]
                /\ TaskDecides(t, history'[t.ev])
                /\ t.pc # "idle" =>
                     \/ task[f].pc # "idle" /\ t.ev = task[f].ev
                     \/ \A g \in Finalizers : task[g].pc # "idle" => task[g].ev # t.ev
<1> DEFINE Moved == \E t : /\ task' = [task EXCEPT ![f] = t]
                           /\ TaskDecides(t, history'[t.ev])
                           /\ t.pc # "idle" =>
                                \/ task[f].pc # "idle" /\ t.ev = task[f].ev
                                \/ \A g \in Finalizers : task[g].pc # "idle" => task[g].ev # t.ev
<1>1. PICK t \in TaskType : t = task[f]
  BY DEF IngestInv, TypeOK
<1>2. TaskDecides(t, history[t.ev]) /\ t.ev \in Events
  BY <1>1 DEF CalmInv, TaskType
<1>3. ASSUME NEW ev \in Events, Finalize(f, ev) PROVE Moved
  <2>1. /\ history' = history /\ history[ev].grouped /\ history[ev].final = "none"
        /\ \A g \in Finalizers : task[g].pc # "idle" => task[g].ev # ev
    BY <1>3 DEF Finalize, StartTask
  <2>2. \A u : u.ev = ev /\ u.pc \in {"check", "back"} /\ (u.pc = "back" => u.final = "notify")
                 => TaskDecides(u, history'[u.ev])
    BY <2>1 DEF TaskDecides
  <2>3. CASE IsDeferred(ev)
    <3> DEFINE u == [NoTask EXCEPT !.pc = "check", !.ev = ev]
    <3>1. u.pc = "check" /\ u.ev = ev
      BY DEF NoTask
    <3>2. task' = [task EXCEPT ![f] = u]
      BY <1>3, <2>3 DEF Finalize, StartTask
    <3>3. TaskDecides(u, history'[u.ev])
      <4> HIDE DEF u
      <4> QED  BY <2>2, <3>1
    <3> HIDE DEF u
    <3> QED  BY <2>1, <3>1, <3>2, <3>3
  <2>4. CASE ~IsDeferred(ev)
    <3> DEFINE u == [NoTask EXCEPT !.pc = "back", !.ev = ev, !.final = "notify"]
    <3>1. u.pc = "back" /\ u.ev = ev /\ u.final = "notify"
      BY DEF NoTask
    <3>2. task' = [task EXCEPT ![f] = u]
      BY <1>3, <2>4 DEF Finalize, StartTask
    <3>3. TaskDecides(u, history'[u.ev])
      <4> HIDE DEF u
      <4> QED  BY <2>2, <3>1
    <3> HIDE DEF u
    <3> QED  BY <2>1, <3>1, <3>2, <3>3
  <2> QED  BY <2>3, <2>4
<1>4. ASSUME NEW u, task' = [task EXCEPT ![f] = u], history' = history, t.pc # "idle",
             u.ev = t.ev, u.pc \in {"mark", "write"} => u.final = "notify",
             u.pc = "back" /\ history[t.ev].decision.action = "notify" => u.final = "notify"
      PROVE  Moved
  <2>1. TaskDecides(u, history'[u.ev])
    BY <1>2, <1>4 DEF TaskDecides
  <2> QED  BY <1>1, <1>4, <2>1
<1>5. CASE CheckFiring(f)
  <2>1. history[t.ev].decision.action # "notify"
    <3>1. history[t.ev].decision = Decision("defer", "auto_pause")
      BY <1>1, <1>2, <1>5 DEF CheckFiring, IngestInv, TaskOK, IsDeferred, PauseDefers
    <3> QED  BY <3>1 DEF Decision
  <2>2. PICK still \in BOOLEAN :
          task' = [task EXCEPT ![f] = [t EXCEPT !.pc = IF still THEN "mark" ELSE "back",
                                                !.final = IF still THEN "notify" ELSE "suppress"]]
    BY <1>1, <1>5 DEF CheckFiring
  <2>3. CASE still
    <3> DEFINE u == [t EXCEPT !.pc = "mark", !.final = "notify"]
    <3>1. u.pc = "mark" /\ u.ev = t.ev /\ u.final = "notify"
      BY DEF TaskType
    <3>2. task' = [task EXCEPT ![f] = u] /\ history' = history /\ t.pc # "idle"
      BY <1>1, <1>5, <2>2, <2>3 DEF CheckFiring
    <3> HIDE DEF u
    <3> QED  BY <1>4, <3>1, <3>2
  <2>4. CASE ~still
    <3> DEFINE u == [t EXCEPT !.pc = "back", !.final = "suppress"]
    <3>1. u.pc = "back" /\ u.ev = t.ev
      BY DEF TaskType
    <3>2. task' = [task EXCEPT ![f] = u] /\ history' = history /\ t.pc # "idle"
      BY <1>1, <1>5, <2>2, <2>4 DEF CheckFiring
    <3> HIDE DEF u
    <3> QED  BY <1>4, <2>1, <3>1, <3>2
  <2> QED  BY <2>3, <2>4
<1>6. CASE ReadMark(f) \/ WriteMark(f) \/ MarkConflict(f)
  <2>1. history' = history /\ t.pc # "idle" /\ t.final = "notify"
    BY <1>1, <1>2, <1>6 DEF ReadMark, WriteMark, MarkConflict, TaskDecides
  <2>2. PICK u : task' = [task EXCEPT ![f] = u] /\ u.ev = t.ev /\ u.final = t.final
    <3>1. CASE ReadMark(f)
      <4>1. /\ [t EXCEPT !.pc = "write", !.seen = item].ev = t.ev
            /\ [t EXCEPT !.pc = "write", !.seen = item].final = t.final
            /\ [t EXCEPT !.pc = "back"].ev = t.ev /\ [t EXCEPT !.pc = "back"].final = t.final
        BY DEF TaskType
      <4> QED  BY <1>1, <3>1, <4>1 DEF ReadMark
    <3>2. CASE WriteMark(f)
      <4>1. [t EXCEPT !.pc = "back"].ev = t.ev /\ [t EXCEPT !.pc = "back"].final = t.final
        BY DEF TaskType
      <4> QED  BY <1>1, <3>2, <4>1 DEF WriteMark
    <3>3. CASE MarkConflict(f)
      <4> DEFINE pc == IF t.attempt + 1 < MarkAttempts THEN "mark" ELSE "back"
                 u == [t EXCEPT !.attempt = t.attempt + 1, !.pc = pc]
      <4>1. task' = [task EXCEPT ![f] = u]
        BY <1>1, <3>3 DEF MarkConflict
      <4>2. u.ev = t.ev /\ u.final = t.final
        <5> HIDE DEF pc
        <5> QED  BY DEF TaskType
      <4> HIDE DEF u
      <4> QED  BY <4>1, <4>2
    <3> QED  BY <1>6, <3>1, <3>2, <3>3
  <2>3. u.final = "notify"
    BY <2>1, <2>2
  <2>4. /\ u.pc \in {"mark", "write"} => u.final = "notify"
        /\ u.pc = "back" /\ history[t.ev].decision.action = "notify" => u.final = "notify"
    BY <2>3
  <2> QED  BY <1>4, <2>1, <2>2, <2>4
<1>7. CASE WriteBack(f)
  <2>1. task' = [task EXCEPT ![f] = NoTask]
    BY <1>7 DEF WriteBack
  <2>2. NoTask.pc = "idle" /\ TaskDecides(NoTask, history'[NoTask.ev])
    BY DEF NoTask, TaskDecides
  <2> QED  BY <2>1, <2>2
<1> QED  BY <1>3, <1>5, <1>6, <1>7 DEF ProcessMember

LEMMA TaskDecidesStep ==
  ASSUME IngestInv, CalmInv, CalmStep
  PROVE  (\A f \in Finalizers : TaskDecides(task'[f], history'[task'[f].ev])) /\ OneTask'
<1>1. /\ \A f \in Finalizers : TaskDecides(task[f], history[task[f].ev])
      /\ OneTask /\ OnePlace /\ \A ev \in Events : RowGroups(ev, history[ev])
  BY DEF CalmInv
<1>2. \A f \in Finalizers : task[f].ev \in Events
  BY DEF IngestInv, TypeOK, TaskType
<1>3. ASSUME task' = task,
             \A ev \in Events : history[ev].present => history'[ev] = history[ev]
      PROVE  (\A f \in Finalizers : TaskDecides(task'[f], history'[task'[f].ev])) /\ OneTask'
  <2>1. OneTask'
    BY <1>1, <1>3 DEF OneTask
  <2>2. ASSUME NEW f \in Finalizers PROVE TaskDecides(task[f], history'[task[f].ev])
    <3>1. CASE task[f].pc = "idle"
      BY <3>1 DEF TaskDecides
    <3>2. CASE task[f].pc # "idle"
      <4>1. history[task[f].ev].present
        BY <1>1, <1>2, <3>2 DEF TaskDecides, RowGroups
      <4> QED  BY <1>1, <1>2, <1>3, <4>1
    <3> QED  BY <3>1, <3>2
  <2> QED  BY <1>3, <2>1, <2>2
<1>4. ASSUME NEW w \in Workers, CalmWork(w)
      PROVE  (\A f \in Finalizers : TaskDecides(task'[f], history'[task'[f].ev])) /\ OneTask'
  <2>1. CASE Records(w)
    <3>1. task' = task /\ \A ev \in Events : history[ev].present => history'[ev] = history[ev]
      <4>1. \A ev \in Events : ev # invocation[w].ev => history'[ev] = history[ev]
        BY <2>1 DEF Records, IngestInv, TypeOK
      <4>2. ~history[invocation[w].ev].present
        BY <1>1, <2>1 DEF Records, OnePlace, Working
      <4> QED  BY <2>1, <4>1, <4>2 DEF Records
    <3> QED  BY <1>3, <3>1
  <2>2. CASE ~Records(w)
    <3>1. task' = task /\ history' = history
      BY <1>4, <2>2 DEF CalmWork, Receive, ReadState, WriteState, Conflict, Joins
    <3> QED  BY <1>3, <3>1
  <2> QED  BY <2>1, <2>2
<1>5. ASSUME NEW f \in Finalizers, (\E ev \in Events : Finalize(f, ev)) \/ ProcessMember(f)
      PROVE  (\A g \in Finalizers : TaskDecides(task'[g], history'[task'[g].ev])) /\ OneTask'
  <2>1. PICK t : /\ task' = [task EXCEPT ![f] = t]
                 /\ TaskDecides(t, history'[t.ev])
                 /\ t.pc # "idle" =>
                      \/ task[f].pc # "idle" /\ t.ev = task[f].ev
                      \/ \A g \in Finalizers : task[g].pc # "idle" => task[g].ev # t.ev
    BY <1>5, TaskMoves
  <2>2. task'[f] = t /\ \A g \in Finalizers \ {f} : task'[g] = task[g]
    BY <2>1 DEF IngestInv, TypeOK
  <2>3. \A g \in Finalizers \ {f} : t.pc # "idle" /\ task[g].pc # "idle" => t.ev # task[g].ev
    BY <1>1, <2>1 DEF OneTask
  <2>4. OneTask'
    BY <1>1, <2>2, <2>3 DEF OneTask
  <2>5. ASSUME NEW g \in Finalizers \ {f} PROVE TaskDecides(task[g], history'[task[g].ev])
    <3>1. CASE task[g].pc = "idle"
      BY <3>1 DEF TaskDecides
    <3>2. CASE task[g].pc # "idle"
      <4>1. task[f].pc # "back" \/ task[f].ev # task[g].ev
        BY <1>1, <3>2 DEF OneTask
      <4>2. history'[task[g].ev] = history[task[g].ev]
        BY <1>2, <1>5, <4>1, RowsAfterTask DEF IngestInv
      <4> QED  BY <1>1, <4>2
    <3> QED  BY <3>1, <3>2
  <2> QED  BY <2>1, <2>2, <2>4, <2>5
<1>6. CASE CloseGone
  BY <1>3, <1>6 DEF CloseGone
<1> QED  BY <1>4, <1>5, <1>6 DEF CalmStep

(* A judgement that is saved, or has nothing to save.                       *)
JudgedNow(w) ==
  LET ev == invocation[w].ev
      d  == Decide(item.state, ev)
  IN  /\ Logs(ev, d)
      /\ item'.state = After(item.state, ev)
      /\ invocation'[w].pc \in {"group", "record"}
      /\ invocation'[w].ev = ev /\ invocation'[w].decision = d

LEMMA CalmEffects ==
  ASSUME IngestInv, CalmStep
  PROVE  \/ log' = log /\ (item' = item \/ CloseGone)
         \/ \E w \in Workers : JudgedNow(w)
         \/ \E f \in Finalizers : WriteMark(f)
<1>1. ASSUME NEW w \in Workers, ReadState(w) PROVE (log' = log /\ item' = item) \/ JudgedNow(w)
  <2>1. PICK i \in InvocationType : i = invocation[w]
    BY DEF IngestInv, TypeOK
  <2>2. PICK d : d = Decide(item.state, i.ev)
    OBVIOUS
  <2>3. CASE After(item.state, i.ev) = item.state
    <3>1. /\ invocation' = [invocation EXCEPT ![w] = Decided(i, d)]
          /\ Logs(i.ev, d) /\ item' = item
      BY <1>1, <2>1, <2>2, <2>3 DEF ReadState
    <3>2. /\ invocation'[w].pc \in {"group", "record"}
          /\ invocation'[w].ev = i.ev /\ invocation'[w].decision = d
      <4>1. invocation'[w] = Decided(i, d)
        BY <3>1 DEF IngestInv, TypeOK
      <4> QED  BY <4>1, DecidedFields
    <3>3. item'.state = After(item.state, i.ev)
      BY <2>3, <3>1
    <3> QED  BY <2>1, <2>2, <3>1, <3>2, <3>3 DEF JudgedNow
  <2>4. CASE After(item.state, i.ev) # item.state
    BY <1>1, <2>1, <2>4 DEF ReadState
  <2> QED  BY <2>3, <2>4
<1>2. ASSUME NEW w \in Workers, WriteState(w) PROVE JudgedNow(w)
  <2>1. PICK i \in InvocationType : i = invocation[w]
    BY DEF IngestInv, TypeOK
  <2>2. i.seen = item /\ i.decision = Decide(item.state, i.ev)
    BY <1>2, <2>1 DEF WriteState, IngestInv, InvocationOK, Current
  <2>3. /\ invocation' = [invocation EXCEPT ![w] = Decided(i, i.decision)]
        /\ Logs(i.ev, i.decision)
        /\ item'.state = Apply(i.seen.state, i.ev, i.decision)
    BY <1>2, <2>1 DEF WriteState
  <2>4. /\ invocation'[w].pc \in {"group", "record"}
        /\ invocation'[w].ev = i.ev /\ invocation'[w].decision = i.decision
    <3>1. invocation'[w] = Decided(i, i.decision)
      BY <2>3 DEF IngestInv, TypeOK
    <3> QED  BY <3>1, DecidedFields
  <2>5. item'.state = After(item.state, i.ev)
    BY <2>2, <2>3 DEF After
  <2> QED  BY <2>1, <2>2, <2>3, <2>4, <2>5 DEF JudgedNow
<1>3. ASSUME NEW w \in Workers, CalmWork(w), ~ReadState(w), ~WriteState(w)
      PROVE  log' = log /\ item' = item
  BY <1>3 DEF CalmWork, Receive, Conflict, Joins, Records
<1>4. ASSUME NEW f \in Finalizers, (\E ev \in Events : Finalize(f, ev)) \/ ProcessMember(f),
             ~WriteMark(f)
      PROVE  log' = log /\ item' = item
  BY <1>4 DEF Finalize, StartTask, ProcessMember, CheckFiring, ReadMark, MarkConflict, WriteBack
<1>5. CloseGone => log' = log
  BY DEF CloseGone
<1> QED  BY <1>1, <1>2, <1>3, <1>4, <1>5 DEF CalmStep

LEMMA MarkFacts ==
  ASSUME IngestInv, CalmInv, NEW f \in Finalizers, WriteMark(f)
  PROVE  LET ev == task[f].ev IN
         /\ ev \in Events /\ IsFiring(ev)
         /\ Logs(ev, J!Confirmed) /\ J!Confirmed \in DecisionType
         /\ J!Confirmed.action = "notify" /\ J!Confirmed.reason # "dedup"
         /\ item'.state.last_notified_at = ev.at
         /\ task'[f].pc = "back" /\ task'[f].ev = ev /\ task'[f].final = "notify"
<1>1. PICK t \in TaskType : t = task[f]
  BY DEF IngestInv, TypeOK
<1>2. t.ev \in Events /\ IsFiring(t.ev) /\ t.final = "notify" /\ t.seen.state \in StateType
  BY <1>1 DEF WriteMark, IngestInv, TaskOK, IsDeferred, CalmInv, TaskDecides, TaskType, ItemType
<1>3. /\ J!Confirmed \in DecisionType
      /\ J!Confirmed.action = "notify" /\ J!Confirmed.reason # "dedup"
  BY DEF J!Confirmed, J!Decision, DecisionType, Actions, Reasons
<1>4. item'.state.last_notified_at = t.ev.at
  <2>1. item'.state = RecordNotice(t.seen.state, t.ev.at)
    BY <1>1 DEF WriteMark
  <2> QED  BY <1>2, <2>1 DEF RecordNotice, StateType
<1>5. task'[f].pc = "back" /\ task'[f].ev = t.ev /\ task'[f].final = t.final
  <2>1. task'[f] = [t EXCEPT !.pc = "back"]
    BY <1>1 DEF WriteMark, IngestInv, TypeOK
  <2> QED  BY <2>1 DEF TaskType
<1> QED  BY <1>1, <1>2, <1>3, <1>4, <1>5 DEF WriteMark

(* A notice on its way stays there.                                         *)
LEMMA OnItsWayStep ==
  ASSUME IngestInv, CalmInv, CalmStep, NEW ev \in Events, OnItsWay(ev)
  PROVE  OnItsWay(ev)'
<1>1. RowGroups(ev, history[ev])
  BY DEF CalmInv
<1>2. history[ev].present /\ ev \in Events =>
        /\ history'[ev].present /\ history'[ev].decision = history[ev].decision
  <2>1. ASSUME history[ev].present, NEW w \in Workers, CalmWork(w) PROVE history'[ev] = history[ev]
    BY <2>1 DEF CalmWork, Receive, ReadState, WriteState, Conflict, Joins, Records, IngestInv, TypeOK
  <2>2. \A f \in Finalizers : (\E e \in Events : Finalize(f, e)) \/ ProcessMember(f) =>
          /\ history'[ev].present = history[ev].present
          /\ history'[ev].decision = history[ev].decision
    BY RowsAfterTask DEF IngestInv
  <2> QED  BY <2>1, <2>2 DEF CalmStep, CloseGone
<1>3. CASE history[ev].final = "notify"
  <2>1. history[ev].present
    BY <1>1, <1>3 DEF RowGroups
  <2>2. ASSUME NEW w \in Workers, CalmWork(w) PROVE history'[ev] = history[ev]
    BY <2>1, <2>2 DEF CalmWork, Receive, ReadState, WriteState, Conflict, Joins, Records, IngestInv, TypeOK
  <2>3. ASSUME NEW f \in Finalizers, (\E e \in Events : Finalize(f, e)) \/ ProcessMember(f)
        PROVE  history'[ev] = history[ev]
    <3>1. task[f].pc # "back" \/ task[f].ev # ev
      BY <1>3 DEF CalmInv, TaskDecides
    <3> QED  BY <2>3, <3>1, RowsAfterTask DEF IngestInv
  <2> QED  BY <1>3, <2>2, <2>3 DEF CalmStep, CloseGone, OnItsWay
<1>4. CASE history[ev].present /\ history[ev].decision.action = "notify"
  BY <1>2, <1>4 DEF OnItsWay
<1>5. ASSUME NEW f \in Finalizers, task[f].pc = "back", task[f].ev = ev, task[f].final = "notify"
      PROVE  OnItsWay(ev)'
  <2>1. CASE WriteBack(f)
    <3>1. history'[ev].final = task[f].final
      BY <1>5, <2>1, RowsAfterTask DEF ProcessMember, IngestInv
    <3> QED  BY <1>5, <3>1 DEF OnItsWay
  <2>2. CASE ~WriteBack(f)
    <3>1. task'[f] = task[f]
      <4>1. \A w \in Workers : CalmWork(w) => task' = task
        BY DEF CalmWork, Receive, ReadState, WriteState, Conflict, Joins, Records
      <4>2. ASSUME NEW g \in Finalizers, (\E e \in Events : Finalize(g, e)) \/ ProcessMember(g)
            PROVE  task'[f] = task[f]
        <5>1. CASE g = f
          BY <1>5, <2>2, <4>2, <5>1 DEF Finalize, StartTask, ProcessMember, CheckFiring,
             ReadMark, WriteMark, MarkConflict
        <5>2. CASE g # f
          <6>1. PICK t : task' = [task EXCEPT ![g] = t]
            BY <4>2, TaskMoves
          <6> QED  BY <5>2, <6>1 DEF IngestInv, TypeOK
        <5> QED  BY <5>1, <5>2
      <4> QED  BY <4>1, <4>2 DEF CalmStep, CloseGone
    <3> QED  BY <1>5, <3>1 DEF OnItsWay
  <2> QED  BY <2>1, <2>2
<1>6. ASSUME NEW w \in Workers, invocation[w].pc \in {"group", "record"}, invocation[w].ev = ev,
             invocation[w].decision.action = "notify"
      PROVE  OnItsWay(ev)'
  <2>1. CASE Records(w)
    <3>1. ~history[ev].present
      BY <1>6 DEF CalmInv, OnePlace, Working
    <3>2. history'[ev] = Row(invocation[w], invocation[w].missed)
      BY <1>6, <2>1, <3>1 DEF Records, IngestInv, TypeOK
    <3> QED  BY <1>6, <3>2 DEF OnItsWay, Row
  <2>2. CASE Joins(w)
    <3>1. PICK i \in InvocationType : i = invocation[w]
      BY DEF IngestInv, TypeOK
    <3>2. invocation'[w] = [i EXCEPT !.pc = "record", !.grouped = TRUE, !.missed = FALSE]
      BY <2>2, <3>1 DEF Joins, IngestInv, TypeOK
    <3>3. invocation'[w].pc = "record" /\ invocation'[w].ev = i.ev
      BY <3>2 DEF InvocationType
    <3>4. invocation'[w].decision = i.decision
      BY <3>2 DEF InvocationType
    <3> QED  BY <1>6, <3>1, <3>3, <3>4 DEF OnItsWay
  <2>3. CASE ~Records(w) /\ ~Joins(w)
    <3>1. invocation'[w] = invocation[w]
      <4>1. ~CalmWork(w)
        BY <1>6, <2>3 DEF CalmWork, Receive, ReadState, WriteState, Conflict
      <4>2. ASSUME NEW v \in Workers, CalmWork(v) PROVE invocation'[w] = invocation[w]
        <5>1. v # w
          BY <4>1, <4>2
        <5>2. \E j : invocation' = [invocation EXCEPT ![v] = j]
          BY <4>2 DEF CalmWork, Receive, ReadState, WriteState, Conflict, Joins, Records
        <5> QED  BY <5>1, <5>2 DEF IngestInv, TypeOK
      <4>3. \A f \in Finalizers : (\E e \in Events : Finalize(f, e)) \/ ProcessMember(f) =>
              invocation' = invocation
        BY DEF Finalize, StartTask, ProcessMember, CheckFiring, ReadMark, WriteMark,
               MarkConflict, WriteBack
      <4> QED  BY <4>2, <4>3 DEF CalmStep, CloseGone
    <3> QED  BY <1>6, <3>1 DEF OnItsWay
  <2> QED  BY <2>1, <2>2, <2>3
<1> QED  BY <1>3, <1>4, <1>5, <1>6 DEF OnItsWay

(* A judgement is told, in the item and on the way.                         *)
LEMMA JudgedTells ==
  ASSUME IngestInv, CalmInv, NEW w \in Workers, JudgedNow(w),
         \A ev \in Events : OnItsWay(ev) => OnItsWay(ev)'
  PROVE  NoticesFollowed' /\ ItemTells' /\ LogTells'
<1>1. PICK ev \in Events : ev = invocation[w].ev
  BY DEF IngestInv, TypeOK, InvocationType
<1>2. PICK d : d = Decide(item.state, ev)
  OBVIOUS
<1>3. PICK s \in StateType : s = item.state
  BY DEF IngestInv, TypeOK, ItemType
<1>4. ev \in EventType
  BY IngestorAssumption
<1>5. /\ d \in DecisionType
      /\ d.action = "defer" => IsFiring(ev)
      /\ d.reason = "dedup" => WithinRepeat(s, ev)
      /\ ev.kind = "clearing" /\ d.action = "notify" => AlreadyNotified(s)
  BY <1>2, <1>3, <1>4, DecideFacts
<1>6. Logs(ev, d) /\ item'.state = After(s, ev)
  BY <1>1, <1>2, <1>3 DEF JudgedNow
<1>7. /\ invocation'[w].pc \in {"group", "record"} /\ invocation'[w].ev = ev
      /\ invocation'[w].decision = d
  BY <1>1, <1>2 DEF JudgedNow
<1>8. \A e, c : Logged(e, c)' <=> Logged(e, c) \/ (e = ev /\ c = d)
  BY <1>5, <1>6, EffectKnown DEF IngestInv
<1>9. \A e \in Events : Announced(e) => Announced(e)'
  BY <1>8 DEF Announced
<1>10. NoticesFollowed /\ ItemTells /\ LogTells
  BY DEF CalmInv
<1>11. NoticesFollowed'
  <2> SUFFICES ASSUME NEW e \in Events, Announced(e)' PROVE OnItsWay(e)'
    BY DEF NoticesFollowed
  <2>1. CASE Announced(e)
    BY <1>10, <2>1 DEF NoticesFollowed
  <2>2. CASE ~Announced(e)
    <3>1. PICK c \in DecisionType : c.action = "notify" /\ Logged(e, c)' /\ IsFiring(e)
      BY DEF Announced
    <3>2. e = ev /\ c = d
      BY <1>8, <2>2, <3>1 DEF Announced
    <3> QED  BY <1>7, <3>1, <3>2 DEF OnItsWay
  <2> QED  BY <2>1, <2>2
<1>12. ItemTells'
  <2>1. CASE IsFiring(ev) /\ d.action = "notify"
    <3>1. Announced(ev)'
      BY <1>5, <1>8, <2>1 DEF Announced
    <3>2. item'.state.last_notified_at = ev.at
      BY <1>2, <1>3, <1>4, <1>6, <2>1, AfterFacts
    <3> QED  BY <3>1, <3>2 DEF ItemTells
  <2>2. CASE ~(IsFiring(ev) /\ d.action = "notify")
    <3>1. /\ item'.state.last_notified_at = s.last_notified_at
          /\ AlreadyNotified(item'.state) => AlreadyNotified(s)
      BY <1>2, <1>3, <1>4, <1>6, <2>2, AfterFacts
    <3> QED  BY <1>3, <1>9, <1>10, <3>1 DEF ItemTells
  <2> QED  BY <2>1, <2>2
<1>13. d.reason = "dedup" =>
         \E sent \in Events : Announced(sent) /\ ev.at - sent.at \in 0 .. RepeatInterval - 1
  BY <1>3, <1>5, <1>10 DEF WithinRepeat, ItemTells
<1>14. ev.kind = "clearing" /\ d.action # "suppress" => \E sent \in Events : Announced(sent)
  <2>1. ev.kind = "clearing" /\ d.action # "suppress" => d.action = "notify"
    BY <1>5 DEF IsFiring, DecisionType, Actions
  <2> QED  BY <1>3, <1>5, <1>10, <2>1 DEF ItemTells
<1>15. LogTells'
  <2> SUFFICES ASSUME NEW e \in Events, NEW c \in DecisionType, Logged(e, c)'
               PROVE  /\ c.reason = "dedup" =>
                           \E sent \in Events : Announced(sent)' /\ e.at - sent.at \in 0 .. RepeatInterval - 1
                      /\ e.kind = "clearing" /\ c.action # "suppress" =>
                           \E sent \in Events : Announced(sent)'
    BY DEF LogTells
  <2>1. CASE Logged(e, c)
    BY <1>9, <1>10, <2>1 DEF LogTells
  <2>2. CASE e = ev /\ c = d
    BY <1>9, <1>13, <1>14, <2>2
  <2> QED  BY <1>8, <2>1, <2>2
<1> QED  BY <1>11, <1>12, <1>15

(* So is the confirmation of a deferred notice.                             *)
LEMMA MarkTells ==
  ASSUME IngestInv, CalmInv, NEW f \in Finalizers, WriteMark(f),
         \A ev \in Events : OnItsWay(ev) => OnItsWay(ev)'
  PROVE  NoticesFollowed' /\ ItemTells' /\ LogTells'
<1>1. PICK ev \in Events : ev = task[f].ev
  BY DEF IngestInv, TypeOK, TaskType
<1>2. PICK d \in DecisionType : d = J!Confirmed
  BY MarkFacts
<1>3. /\ IsFiring(ev) /\ Logs(ev, d) /\ d.action = "notify" /\ d.reason # "dedup"
      /\ item'.state.last_notified_at = ev.at
      /\ task'[f].pc = "back" /\ task'[f].ev = ev /\ task'[f].final = "notify"
  BY <1>1, <1>2, MarkFacts
<1>4. \A e, c : Logged(e, c)' <=> Logged(e, c) \/ (e = ev /\ c = d)
  BY <1>3, EffectKnown DEF IngestInv
<1>5. \A e \in Events : Announced(e) => Announced(e)'
  BY <1>4 DEF Announced
<1>6. NoticesFollowed /\ LogTells
  BY DEF CalmInv
<1>7. NoticesFollowed'
  <2> SUFFICES ASSUME NEW e \in Events, Announced(e)' PROVE OnItsWay(e)'
    BY DEF NoticesFollowed
  <2>1. CASE Announced(e)
    BY <1>6, <2>1 DEF NoticesFollowed
  <2>2. CASE ~Announced(e)
    <3>1. e = ev
      BY <1>4, <2>2 DEF Announced
    <3> QED  BY <1>3, <3>1 DEF OnItsWay
  <2> QED  BY <2>1, <2>2
<1>8. ItemTells'
  <2>1. Announced(ev)'
    BY <1>3, <1>4 DEF Announced
  <2> QED  BY <1>3, <2>1 DEF ItemTells
<1>9. LogTells'
  <2> SUFFICES ASSUME NEW e \in Events, NEW c \in DecisionType, Logged(e, c)'
               PROVE  /\ c.reason = "dedup" =>
                           \E sent \in Events : Announced(sent)' /\ e.at - sent.at \in 0 .. RepeatInterval - 1
                      /\ e.kind = "clearing" /\ c.action # "suppress" =>
                           \E sent \in Events : Announced(sent)'
    BY DEF LogTells
  <2>1. CASE Logged(e, c)
    BY <1>5, <1>6, <2>1 DEF LogTells
  <2>2. CASE e = ev /\ c = d
    BY <1>3, <2>2 DEF IsFiring
  <2> QED  BY <1>4, <2>1, <2>2
<1> QED  BY <1>7, <1>8, <1>9

LEMMA TellsStep ==
  ASSUME IngestInv, CalmInv, CalmStep
  PROVE  NoticesFollowed' /\ ItemTells' /\ LogTells'
<1>1. \A ev \in Events : OnItsWay(ev) => OnItsWay(ev)'
  BY OnItsWayStep
<1>2. ASSUME log' = log, item' = item \/ CloseGone
      PROVE  NoticesFollowed' /\ ItemTells' /\ LogTells'
  <2>1. (\A ev \in Events : Announced(ev)' <=> Announced(ev)) /\ \A e, c : Logged(e, c)' <=> Logged(e, c)
    BY <1>2 DEF Announced, Logged
  <2>2. NoticesFollowed' /\ LogTells'
    BY <1>1, <2>1 DEF CalmInv, NoticesFollowed, LogTells
  <2>3. /\ item'.state.last_notified_at = item.state.last_notified_at
        /\ AlreadyNotified(item'.state) => AlreadyNotified(item.state)
    BY <1>2 DEF CloseGone, CloseEpisode, AlreadyNotified, IngestInv, TypeOK, ItemType, StateType
  <2> QED  BY <2>1, <2>2, <2>3 DEF CalmInv, ItemTells
<1> QED  BY <1>1, <1>2, CalmEffects, JudgedTells, MarkTells

-----------------------------------------------------------------------------
LEMMA CalmInit == Init => CalmInv
<1> SUFFICES ASSUME Init PROVE CalmInv
  OBVIOUS
<1>1. \A w \in Workers : invocation[w] = NoInvocation /\ ~Working(w)
  BY DEF Init, Working, NoInvocation
<1>2. \A ev \in Events : history[ev] = NoRow /\ queue[ev] \in {0, 1}
  BY DEF Init
<1>3. \A f \in Finalizers : task[f] = NoTask /\ task[f].pc = "idle"
  BY DEF Init, NoTask
<1>4. \A e, d : ~Logged(e, d)
  BY DEF Init, Logged
<1>5. OnePlace
  BY <1>1, <1>2 DEF OnePlace, NoRow
<1>6. \A w \in Workers : Grouping(invocation[w])
  <2>1. NoInvocation.pc = "idle" /\ ~NoInvocation.missed
    BY DEF NoInvocation
  <2>2. Grouping(NoInvocation)
    BY <2>1 DEF Grouping
  <2> QED  BY <1>1, <2>2
<1>7. \A ev \in Events : RowGroups(ev, history[ev])
  BY <1>2 DEF RowGroups, NoRow, Undecided, Decision
<1>8. (\A f \in Finalizers : TaskDecides(task[f], history[task[f].ev])) /\ OneTask
  BY <1>3 DEF TaskDecides, OneTask
<1>9. NoticesFollowed /\ LogTells
  BY <1>4 DEF NoticesFollowed, LogTells, Announced
<1>10. ItemTells
  BY DEF Init, ItemTells, NoItem, NoState, AlreadyNotified
<1> QED  BY <1>5, <1>6, <1>7, <1>8, <1>9, <1>10 DEF CalmInv

LEMMA CalmNext == IngestInv /\ TypeOK' /\ (Calm => CalmInv) /\ [Next]_vars => (Calm => CalmInv)'
<1>1. ASSUME IngestInv, TypeOK', Calm => CalmInv, Next, Calm' PROVE CalmInv'
  <2>1. CalmInv /\ CalmStep /\ TypeOK
    BY <1>1, CalmSteps DEF IngestInv
  <2>2. OnePlace' /\ \A w \in Workers : Grouping(invocation'[w])
    BY <1>1, <2>1, OnePlaceStep, GroupingStep
  <2>3. \A ev \in Events : RowGroups(ev, history'[ev])
    BY <2>1, RowGroupsStep
  <2>4. (\A f \in Finalizers : TaskDecides(task'[f], history'[task'[f].ev])) /\ OneTask'
    BY <1>1, <2>1, TaskDecidesStep
  <2>5. NoticesFollowed' /\ ItemTells' /\ LogTells'
    BY <1>1, <2>1, TellsStep
  <2> QED  BY <2>2, <2>3, <2>4, <2>5 DEF CalmInv
<1>2. ASSUME Calm => CalmInv, UNCHANGED vars PROVE (Calm => CalmInv)'
  <2>1. Calm' <=> Calm
    BY <1>2 DEF vars, Calm
  <2>2. CalmInv => CalmInv'
    BY <1>2 DEF vars, CalmInv, OnePlace, Working, OneTask, NoticesFollowed, ItemTells, LogTells,
                Announced, OnItsWay, Logged
  <2> QED  BY <1>2, <2>1, <2>2
<1> QED  BY <1>1, <1>2

LEMMA CalmCorrect == Spec => [](Calm => CalmInv)
BY CalmInit, CalmNext, InvCorrect, TypeCorrect, PTL DEF Spec

(* Once all has settled, what is on its way has arrived.                    *)
LEMMA ArrivedWhenSettled ==
  ASSUME Settled, CalmInv, NEW ev \in Events, Announced(ev)
  PROVE  Told(ev)
<1>1. OnItsWay(ev) /\ RowGroups(ev, history[ev]) /\ IsFiring(ev)
  BY DEF CalmInv, NoticesFollowed, Announced
<1>2. history[ev].final = "notify" \/ (history[ev].present /\ history[ev].decision.action = "notify")
  BY <1>1 DEF OnItsWay, Settled
<1>3. history[ev].present /\ history[ev].decision.action = "notify" => history[ev].final # "none"
  BY <1>1 DEF RowGroups, ShouldGroup, IsFiring, Settled
<1> QED  BY <1>1, <1>2, <1>3 DEF RowGroups, Told

(* For every policy and every number of events, invocations and finalize    *)
(* tasks: a firing dropped as a duplicate follows one that was sent.        *)
THEOREM NothingLost == Spec => []NoAlarmLost
<1>1. IngestInv /\ (Calm => CalmInv) => NoAlarmLost
  <2> SUFFICES ASSUME IngestInv, CalmInv, Settled, NEW ev \in Events,
                      history[ev].decision.reason = "dedup"
               PROVE  \E sent \in Events : Told(sent) /\ ev.at - sent.at \in 0 .. RepeatInterval - 1
    BY DEF NoAlarmLost, NeverLost
  <2>1. history[ev].present /\ ev.kind # "config"
    BY DEF CalmInv, RowGroups
  <2>2. Logged(ev, history[ev].decision) /\ history[ev].decision \in DecisionType
    BY <2>1 DEF IngestInv, RowsLogged, TypeOK, RowType
  <2>3. PICK sent \in Events : Announced(sent) /\ ev.at - sent.at \in 0 .. RepeatInterval - 1
    BY <2>2 DEF CalmInv, LogTells
  <2> QED  BY <2>3, ArrivedWhenSettled
<1> QED  BY <1>1, InvCorrect, CalmCorrect, PTL

(* And whoever hears that the alarm cleared had heard that it fired.        *)
THEOREM ClearingsAfterTold == Spec => []ClearedOnlyIfTold
<1>1. IngestInv /\ (Calm => CalmInv) => ClearedOnlyIfTold
  <2> SUFFICES ASSUME IngestInv, CalmInv, Settled, NEW ev \in Events,
                      ev.kind = "clearing", history[ev].final = "notify"
               PROVE  \E sent \in Events : Told(sent)
    BY DEF ClearedOnlyIfTold
  <2>1. history[ev].present /\ ShouldGroup(ev, history[ev].decision)
    BY DEF CalmInv, RowGroups
  <2>2. Logged(ev, history[ev].decision) /\ history[ev].decision \in DecisionType
    BY <2>1 DEF IngestInv, RowsLogged, TypeOK, RowType
  <2>3. history[ev].decision.action # "suppress"
    BY <2>1 DEF ShouldGroup
  <2>4. PICK sent \in Events : Announced(sent)
    BY <2>2, <2>3 DEF CalmInv, LogTells
  <2> QED  BY <2>4, ArrivedWhenSettled
<1> QED  BY <1>1, InvCorrect, CalmCorrect, PTL
=============================================================================
