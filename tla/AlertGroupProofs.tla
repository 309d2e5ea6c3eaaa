---------------------------- MODULE AlertGroupProofs ----------------------------
(***************************************************************************)
(* For any number of events, every margin and number of attempts: while an  *)
(* invocation takes no longer than a group waits and no execution fails, a  *)
(* group that is opened has a name of its own, and a group that was closed  *)
(* takes no more events.                                                    *)
(***************************************************************************)
EXTENDS AlertGroup, TLAPS

(* The deployed ingestor has a timeout of 30 s and a group waits 30 s       *)
(* (infrastructure/backend/template.yaml:590, 611).  A group that is swept  *)
(* is closed before its time.                                               *)
Unhurried == HandlerTime <= GroupWait /\ GroupWait > 0 /\ "execution" \notin FaultKinds

-----------------------------------------------------------------------------
(* What was read of the item is the item, or an earlier one.  While a group *)
(* is open its version moves once, when its execution is noted.             *)
Current(seen, now) ==
  /\ seen \in ItemType
  /\ seen.version <= now.version /\ seen.gid <= now.gid
  /\ seen.version = now.version =>
       seen.open = now.open /\ seen.gid = now.gid /\ seen.started = now.started
  /\ seen.open /\ now.open /\ seen.gid = now.gid =>
       /\ seen.started => now.started
       /\ seen.started = now.started => seen.version = now.version

(* The last name is the greatest, and lies a wait back once its group is    *)
(* closed.                                                                  *)
NamesOK ==
  /\ clock \in Nat \ {0} /\ item \in ItemType
  /\ \A n \in names : n \in Nat /\ n <= item.gid
  /\ item.gid <= clock
  /\ item.open => item.gid \in names
  /\ ~item.open => item.gid = NoGroup \/ clock >= item.gid + GroupWait

(* An invocation under way has not run for longer than it may.              *)
InTime(i, time) ==
  i.pc \notin {"owed", "done"} => i.wall > 0 /\ i.wall <= time /\ time <= i.wall + HandlerTime

(* A group about to be opened gets a later name than the one that was read; *)
(* one to be started was open, and not started, when it was read.           *)
InvocationOK(i, now, time, all) ==
  /\ i \in IngestType
  /\ i.pc = "put" => Current(i.seen, now) /\ i.gid > i.seen.gid /\ i.gid <= time
  /\ i.pc \in {"start", "arn"} =>
       /\ Current(i.seen, now) /\ i.seen.open /\ ~i.seen.started
       /\ i.gid = i.seen.gid /\ i.gid \in all

(* An execution that tries again has seen its group started; one that is    *)
(* past close() has it closed.                                              *)
ExecutionOK(g, x, now, time, all) ==
  /\ x \in ExecType /\ ~x.swept /\ g \in all
  /\ x.pc = "wait" => x.since >= g
  /\ x.pc # "wait" => time >= g + GroupWait
  /\ x.pc \in {"put", "put again"} =>
       Current(x.seen, now) /\ x.seen.open /\ x.seen.gid = g
  /\ x.pc = "put again" => x.seen.started
  /\ x.pc \in {"grace", "deliver", "claimed", "done"} => ~(now.open /\ now.gid = g)

GroupInv ==
  /\ NamesOK
  /\ ingest = [e \in Events |-> ingest[e]] /\ exec = [g \in DOMAIN exec |-> exec[g]]
  /\ \A e \in Events : InTime(ingest[e], clock) /\ InvocationOK(ingest[e], item, clock, names)
  /\ \A g \in DOMAIN exec : ExecutionOK(g, exec[g], item, clock, names)
-----------------------------------------------------------------------------
(* A write of the item leaves it later than whatever was read of it, and    *)
(* opens no group but a new one.                                            *)
Follows(old, new) ==
  /\ \A seen : Current(seen, old) => Current(seen, new)
  /\ new.open => new.gid > old.gid \/ (old.open /\ new.gid = old.gid)

LEMMA Times == GroupWait \in Nat /\ StaleMargin \in Nat /\ HandlerTime \in Nat
  BY GroupAssumption

LEMMA NotWritten == ASSUME NEW now PROVE Follows(now, now)
  BY DEF Follows

(* Whoever does not move keeps what it knows.                               *)
LEMMA InvocationKept ==
  ASSUME NEW i, NEW now, NEW new, NEW time \in Nat, NEW later \in Nat, NEW all, NEW more,
         InvocationOK(i, now, time, all), Follows(now, new), time <= later, all \subseteq more
  PROVE  InvocationOK(i, new, later, more)
  BY DEF InvocationOK, Follows, IngestType

LEMMA ExecutionKept ==
  ASSUME NEW g, NEW x, NEW now, NEW new, NEW time \in Nat, NEW later \in Nat, NEW all, NEW more,
         now \in ItemType, new \in ItemType, \A n \in all : n \in Nat /\ n <= now.gid,
         ExecutionOK(g, x, now, time, all), Follows(now, new), time <= later, all \subseteq more
  PROVE  ExecutionOK(g, x, new, later, more)
<1>1. g \in Nat /\ g <= now.gid /\ now.gid \in Nat /\ new.gid \in Nat
  BY DEF ExecutionOK, ItemType
<1>2. x.pc # "wait" => later >= g + GroupWait
  <2>1. x.pc # "wait" => time >= g + GroupWait
    BY DEF ExecutionOK
  <2> QED  BY <1>1, <2>1, Times
<1>3. x.pc \in {"put", "put again"} => Current(x.seen, new)
  BY DEF ExecutionOK, Follows
<1>4. ~(now.open /\ now.gid = g) => ~(new.open /\ new.gid = g)
  BY <1>1 DEF Follows
<1> QED  BY <1>2, <1>3, <1>4 DEF ExecutionOK

(* A step of one invocation, and one of one execution.                      *)
LEMMA InvocationMoves ==
  ASSUME GroupInv, NEW e \in Events, NEW i, ingest' = [ingest EXCEPT ![e] = i],
         InTime(i, clock), InvocationOK(i, item', clock, names'),
         NamesOK', Follows(item, item'), names \subseteq names', UNCHANGED <<clock, exec>>
  PROVE  GroupInv'
<1>1. clock \in Nat /\ item \in ItemType /\ item' \in ItemType
      /\ \A n \in names : n \in Nat /\ n <= item.gid
  BY DEF GroupInv, NamesOK
<1>2. ASSUME NEW f \in Events
      PROVE  InTime(ingest'[f], clock') /\ InvocationOK(ingest'[f], item', clock', names')
  <2>1. CASE f = e
    BY <2>1 DEF GroupInv
  <2>2. CASE f # e
    <3>1. ingest'[f] = ingest[f] /\ InvocationOK(ingest[f], item, clock, names)
      BY <2>2 DEF GroupInv
    <3>2. InvocationOK(ingest[f], item', clock, names')
      BY <1>1, <3>1, InvocationKept
    <3> QED  BY <3>1, <3>2 DEF GroupInv
  <2> QED  BY <2>1, <2>2
<1>3. ASSUME NEW g \in DOMAIN exec'
      PROVE  ExecutionOK(g, exec'[g], item', clock', names')
  <2>1. g \in DOMAIN exec /\ exec'[g] = exec[g] /\ ExecutionOK(g, exec[g], item, clock, names)
    BY DEF GroupInv
  <2> QED  BY <1>1, <2>1, ExecutionKept
<1>4. ingest' = [f \in Events |-> ingest'[f]] /\ exec' = [g \in DOMAIN exec' |-> exec'[g]]
  BY DEF GroupInv
<1> QED  BY <1>2, <1>3, <1>4 DEF GroupInv

LEMMA ExecutionMoves ==
  ASSUME GroupInv, NEW g \in DOMAIN exec, NEW x, exec' = [exec EXCEPT ![g] = x],
         ExecutionOK(g, x, item', clock, names),
         NamesOK', Follows(item, item'), UNCHANGED <<clock, ingest, names>>
  PROVE  GroupInv'
<1>1. clock \in Nat /\ item \in ItemType /\ item' \in ItemType
      /\ \A n \in names : n \in Nat /\ n <= item.gid
  BY DEF GroupInv, NamesOK
<1>2. ASSUME NEW f \in Events
      PROVE  InTime(ingest'[f], clock') /\ InvocationOK(ingest'[f], item', clock', names')
  <2>1. InvocationOK(ingest[f], item, clock, names)
    BY DEF GroupInv
  <2>2. InvocationOK(ingest[f], item', clock, names)
    BY <1>1, <2>1, InvocationKept
  <2> QED  BY <2>2 DEF GroupInv
<1>3. ASSUME NEW h \in DOMAIN exec'
      PROVE  ExecutionOK(h, exec'[h], item', clock', names')
  <2>0. h \in DOMAIN exec
    BY DEF GroupInv
  <2>1. CASE h = g
    BY <2>1 DEF GroupInv
  <2>2. CASE h # g
    <3>1. exec'[h] = exec[h] /\ ExecutionOK(h, exec[h], item, clock, names)
      BY <2>0, <2>2 DEF GroupInv
    <3> QED  BY <1>1, <3>1, ExecutionKept
  <2> QED  BY <2>1, <2>2
<1>4. ingest' = [f \in Events |-> ingest'[f]] /\ exec' = [h \in DOMAIN exec' |-> exec'[h]]
  BY DEF GroupInv
<1> QED  BY <1>2, <1>3, <1>4 DEF GroupInv
-----------------------------------------------------------------------------
(* An item with its mark set or its group closed.                           *)
LEMMA NotedFields ==
  ASSUME NEW old \in ItemType, NEW v \in Nat
  PROVE  LET new == [old EXCEPT !.version = v, !.started = TRUE] IN
         /\ new \in ItemType /\ new.version = v /\ new.started
         /\ new.open = old.open /\ new.gid = old.gid
<1> DEFINE half == [old EXCEPT !.version = v]
           new == [half EXCEPT !.started = TRUE]
<1>1. half \in ItemType /\ half.version = v /\ half.open = old.open /\ half.gid = old.gid
  BY DEF ItemType
<1>2. new = [old EXCEPT !.version = v, !.started = TRUE]
  OBVIOUS
<1> HIDE DEF half
<1>3. new \in ItemType /\ new.version = half.version /\ new.started
      /\ new.open = half.open /\ new.gid = half.gid
  BY <1>1 DEF ItemType
<1> HIDE DEF new
<1> QED  BY <1>1, <1>2, <1>3

LEMMA ClosedFields ==
  ASSUME NEW old \in ItemType, NEW v \in Nat
  PROVE  LET new == [old EXCEPT !.open = FALSE, !.version = v] IN
         new \in ItemType /\ new.version = v /\ ~new.open /\ new.gid = old.gid
<1> DEFINE half == [old EXCEPT !.open = FALSE]
           new == [half EXCEPT !.version = v]
<1>1. half \in ItemType /\ ~half.open /\ half.gid = old.gid
  BY DEF ItemType
<1>2. new = [old EXCEPT !.open = FALSE, !.version = v]
  OBVIOUS
<1> HIDE DEF half
<1>3. new \in ItemType /\ new.version = v /\ new.open = half.open /\ new.gid = half.gid
  BY <1>1 DEF ItemType
<1> HIDE DEF new
<1> QED  BY <1>1, <1>2, <1>3

-----------------------------------------------------------------------------
(* The three writes of the item that move its version, and the claim.       *)
LEMMA OpenedFollows ==
  ASSUME NEW old \in ItemType, NEW new \in ItemType,
         new.version = old.version + 1, new.open, new.gid > old.gid
  PROVE  Follows(old, new)
<1>1. /\ old.version \in Nat /\ old.gid \in Nat /\ new.gid \in Nat
      /\ new.open \in BOOLEAN /\ new.started \in BOOLEAN /\ old.started \in BOOLEAN
  BY DEF ItemType
<1>2. ASSUME NEW seen, Current(seen, old) PROVE Current(seen, new)
  <2>1. /\ seen.version \in Nat /\ seen.gid \in Nat /\ seen.open \in BOOLEAN
        /\ seen.started \in BOOLEAN /\ seen.version <= old.version /\ seen.gid <= old.gid
    BY <1>2 DEF Current, ItemType
  <2>2. seen.version # new.version /\ seen.version <= new.version /\ seen.gid <= new.gid
    BY <1>1, <2>1
  <2>3. seen.gid # new.gid
    BY <1>1, <2>1
  <2> QED  BY <1>1, <1>2, <2>1, <2>2, <2>3 DEF Current
<1> QED  BY <1>1, <1>2 DEF Follows

LEMMA NotedFollows ==
  ASSUME NEW old \in ItemType, NEW new \in ItemType, ~old.started,
         new.version = old.version + 1, new.open = old.open, new.gid = old.gid, new.started
  PROVE  Follows(old, new)
<1>1. /\ old.version \in Nat /\ old.gid \in Nat /\ new.gid \in Nat
      /\ new.open \in BOOLEAN /\ new.started \in BOOLEAN /\ old.started \in BOOLEAN
  BY DEF ItemType
<1>2. ASSUME NEW seen, Current(seen, old) PROVE Current(seen, new)
  <2>1. /\ seen.version \in Nat /\ seen.gid \in Nat /\ seen.open \in BOOLEAN
        /\ seen.started \in BOOLEAN /\ seen.version <= old.version /\ seen.gid <= old.gid
    BY <1>2 DEF Current, ItemType
  <2>2. seen.version # new.version /\ seen.version <= new.version /\ seen.gid <= new.gid
    BY <1>1, <2>1
  <2> QED  BY <1>1, <1>2, <2>1, <2>2 DEF Current
<1> QED  BY <1>1, <1>2 DEF Follows

LEMMA ClosedFollows ==
  ASSUME NEW old \in ItemType, NEW new \in ItemType,
         new.version = old.version + 1, ~new.open, new.gid = old.gid
  PROVE  Follows(old, new)
  BY DEF Follows, Current, ItemType

LEMMA ClaimedFollows ==
  ASSUME NEW old \in ItemType, NEW new \in ItemType,
         new.version = old.version, new.open = old.open, new.gid = old.gid,
         new.started = old.started
  PROVE  Follows(old, new)
  BY DEF Follows, Current, ItemType
-----------------------------------------------------------------------------
(* The invocations.                                                         *)
LEMMA InvocationFacts ==
  ASSUME GroupInv, NEW e \in Events
  PROVE  /\ ingest[e] \in IngestType /\ InTime(ingest[e], clock)
         /\ InvocationOK(ingest[e], item, clock, names)
         /\ clock \in Nat \ {0} /\ item \in ItemType /\ NamesOK
         /\ ingest[e].wall \in Nat /\ ingest[e].gid \in Nat /\ ingest[e].seen \in ItemType
         /\ NoItem \in ItemType /\ Owed \in IngestType
  BY DEF GroupInv, InvocationOK, IngestType, ItemType, NamesOK, NoItem, Owed, NoGroup

(* One that knows nothing of a group, or nothing it will use.               *)
LEMMA InvocationLeaves ==
  ASSUME GroupInv, NEW e \in Events, NEW i \in IngestType, Goto(e, i),
         i.pc \in {"owed", "read", "record", "done"}, InTime(i, clock),
         UNCHANGED <<clock, item, exec, names>>
  PROVE  GroupInv'
<1>1. InvocationOK(i, item', clock, names')
  BY DEF InvocationOK
<1>2. NamesOK' /\ Follows(item, item') /\ names \subseteq names'
  BY NotWritten DEF GroupInv, NamesOK
<1> QED  BY <1>1, <1>2, InvocationMoves DEF Goto

LEMMA ReceiveStep == ASSUME GroupInv, NEW e \in Events, Receive(e) PROVE GroupInv'
<1> DEFINE i == [Owed EXCEPT !.pc = "read", !.wall = clock]
<1>1. i \in IngestType /\ i.pc = "read" /\ i.wall = clock
  BY InvocationFacts DEF Owed, IngestType
<1>2. InTime(i, clock)
  BY <1>1, InvocationFacts, Times DEF InTime
<1> QED  BY <1>1, <1>2, InvocationLeaves DEF Receive

LEMMA ReadyFacts ==
  ASSUME GroupInv, NEW e \in Events, NEW g \in Nat, Running(e)
  PROVE  /\ Ready(ingest[e], g) \in IngestType /\ Ready(ingest[e], g).pc = "record"
         /\ InTime(Ready(ingest[e], g), clock)
<1>1. Ready(ingest[e], g) \in IngestType /\ Ready(ingest[e], g).pc = "record"
      /\ Ready(ingest[e], g).wall = ingest[e].wall
  BY InvocationFacts DEF Ready, Owed, IngestType
<1> QED  BY <1>1, InvocationFacts DEF InTime, Running

LEMMA JoinStep == ASSUME GroupInv, NEW e \in Events, JoinGroup(e) PROVE GroupInv'
<1> DEFINE i == ingest[e]
           j == [i EXCEPT !.pc = "start", !.seen = item, !.gid = item.gid]
<1>1. item.open /\ i.pc = "read" /\ Running(e) /\ item.gid \in Nat
  BY InvocationFacts DEF JoinGroup, Joinable, Running, ItemType
<1>2. CASE item.started
  <2>1. Goto(e, Ready(i, item.gid))
    BY <1>2 DEF JoinGroup
  <2> QED  BY <1>1, <2>1, ReadyFacts, InvocationLeaves DEF JoinGroup
<1>3. CASE ~item.started
  <2>1. /\ j \in IngestType /\ j.pc = "start" /\ j.seen = item /\ j.gid = item.gid
        /\ j.wall = i.wall
    BY <1>1, InvocationFacts DEF IngestType
  <2>2. Goto(e, j)
    BY <1>3 DEF JoinGroup
  <2> HIDE DEF j
  <2>3. InTime(j, clock)
    BY <1>1, <2>1, InvocationFacts DEF InTime
  <2>4. Current(item, item) /\ item.gid \in names
    BY <1>1, InvocationFacts DEF Current, ItemType, NamesOK
  <2>5. InvocationOK(j, item, clock, names)
    BY <1>1, <1>3, <2>1, <2>4 DEF InvocationOK
  <2>6. NamesOK' /\ Follows(item, item') /\ names \subseteq names'
    BY NotWritten DEF GroupInv, NamesOK, JoinGroup
  <2> QED  BY <2>2, <2>3, <2>5, <2>6, InvocationMoves DEF JoinGroup, Goto
<1> QED  BY <1>2, <1>3

(* The name is new because the invocation began no earlier than a wait      *)
(* after the last group did, at most one second's name aside.               *)
LEMMA NameIsNew ==
  ASSUME GroupInv, Unhurried, NEW e \in Events, ingest[e].pc = "read",
         ~Joinable(item, ingest[e].wall)
  PROVE  LET name == NewName(item, ingest[e].wall)
         IN  name \in Nat /\ name > item.gid /\ name <= clock
<1> DEFINE wall == ingest[e].wall
<1>1. /\ wall \in Nat /\ wall > 0 /\ wall <= clock /\ clock <= wall + HandlerTime
      /\ item.gid \in Nat /\ item.open \in BOOLEAN /\ clock \in Nat /\ item.gid <= clock
  BY InvocationFacts DEF InTime, ItemType, NamesOK
<1>2. HandlerTime <= GroupWait /\ GroupWait > 0
  BY DEF Unhurried
<1>3. CASE item.open
  <2>1. wall >= item.gid + GroupWait + StaleMargin
    BY <1>3 DEF Joinable, IsStale, GroupDeadline
  <2> QED  BY <1>1, <1>2, <2>1, Times DEF NewName
<1>4. CASE ~item.open
  <2>1. item.gid = NoGroup \/ clock >= item.gid + GroupWait
    BY <1>4, InvocationFacts DEF NamesOK
  <2>2. CASE item.gid = NoGroup
    BY <1>1, <2>2 DEF NewName, NoGroup
  <2>3. CASE clock >= item.gid + GroupWait
    BY <1>1, <1>2, <2>3, Times DEF NewName
  <2> QED  BY <2>1, <2>2, <2>3
<1> QED  BY <1>1, <1>3, <1>4

LEMMA PrepareStep == ASSUME GroupInv, Unhurried, NEW e \in Events, PrepareGroup(e) PROVE GroupInv'
<1> DEFINE i == ingest[e]
           name == NewName(item, i.wall)
           j == [i EXCEPT !.pc = "put", !.seen = item, !.gid = name]
<1>1. i.pc = "read" /\ Goto(e, j) /\ ~Joinable(item, i.wall)
  BY DEF PrepareGroup
<1>2. name \in Nat /\ name > item.gid /\ name <= clock
  BY <1>1, NameIsNew
<1> HIDE DEF name
<1>3. /\ j \in IngestType /\ j.pc = "put" /\ j.seen = item /\ j.gid = name
      /\ j.wall = i.wall
  BY <1>2, InvocationFacts DEF IngestType
<1> HIDE DEF j
<1>4. InTime(j, clock)
  BY <1>1, <1>3, InvocationFacts DEF InTime
<1>5. Current(item, item)
  BY InvocationFacts DEF Current, ItemType
<1>6. InvocationOK(j, item, clock, names)
  BY <1>2, <1>3, <1>5 DEF InvocationOK
<1>7. NamesOK' /\ Follows(item, item') /\ names \subseteq names'
  BY NotWritten DEF GroupInv, NamesOK, PrepareGroup
<1> QED  BY <1>1, <1>4, <1>6, <1>7, InvocationMoves DEF PrepareGroup, Goto

(* The conditional put opens a group with a name of its own.                *)
LEMMA OpenedNew ==
  ASSUME GroupInv, NEW e \in Events, OpenGroup(e)
  PROVE  /\ ingest[e].pc = "put" /\ Running(e) /\ ingest[e].seen.version = item.version
         /\ ingest[e].gid \in Nat /\ ingest[e].gid > item.gid /\ ingest[e].gid <= clock
         /\ ingest[e].gid \notin names /\ item'.gid = ingest[e].gid
<1>1. /\ ingest[e].pc = "put" /\ item.version = ingest[e].seen.version
      /\ item'.gid = ingest[e].gid
  BY DEF OpenGroup
<1>2. Current(ingest[e].seen, item) /\ ingest[e].gid > ingest[e].seen.gid
      /\ ingest[e].gid <= clock
  BY <1>1, InvocationFacts DEF InvocationOK
<1>3. ingest[e].gid > item.gid /\ ingest[e].gid \in Nat /\ item.gid \in Nat
  BY <1>1, <1>2, InvocationFacts DEF Current, ItemType
<1>4. ingest[e].gid \notin names
  BY <1>3, InvocationFacts DEF NamesOK
<1> QED  BY <1>1, <1>2, <1>3, <1>4 DEF Running

LEMMA OpenStep == ASSUME GroupInv, NEW e \in Events, OpenGroup(e) PROVE GroupInv'
<1> DEFINE i == ingest[e]
           group == [version |-> i.seen.version + 1, open |-> TRUE, gid |-> i.gid,
                     started |-> FALSE, delivered |-> FALSE]
           j == [i EXCEPT !.pc = "start", !.seen = group]
<1>1. /\ i.seen.version = item.version /\ i.gid \in Nat /\ i.gid > item.gid /\ i.gid <= clock
      /\ i.pc = "put"
  BY OpenedNew
<1>2. /\ group \in ItemType /\ group.version = item.version + 1 /\ group.open
      /\ group.gid = i.gid /\ ~group.started
  BY <1>1, InvocationFacts DEF ItemType
<1>3. item' = group /\ names' = names \cup {i.gid} /\ Goto(e, j) /\ UNCHANGED <<clock, exec>>
  BY DEF OpenGroup
<1> HIDE DEF group
<1>4. /\ j \in IngestType /\ j.pc = "start" /\ j.seen = group /\ j.gid = i.gid
      /\ j.wall = i.wall
  BY <1>2, InvocationFacts DEF IngestType
<1> HIDE DEF j
<1>5. InTime(j, clock)
  BY <1>1, <1>4, InvocationFacts DEF InTime
<1>6. Current(group, group)
  BY <1>2 DEF Current, ItemType
<1>7. InvocationOK(j, item', clock, names')
  BY <1>2, <1>3, <1>4, <1>6 DEF InvocationOK
<1>8. Follows(item, item')
  BY <1>1, <1>2, <1>3, OpenedFollows, InvocationFacts
<1>9. NamesOK'
  <2>1. \A n \in names' : n \in Nat /\ n <= item'.gid
    BY <1>1, <1>2, <1>3, InvocationFacts DEF NamesOK, ItemType
  <2> QED  BY <1>1, <1>2, <1>3, <2>1, InvocationFacts DEF NamesOK
<1> QED  BY <1>3, <1>5, <1>7, <1>8, <1>9, InvocationMoves DEF Goto

LEMMA OpenConflictStep ==
  ASSUME GroupInv, NEW e \in Events, OpenConflict(e) PROVE GroupInv'
<1> DEFINE i == ingest[e]
           j == [Owed EXCEPT !.pc = "read", !.wall = i.wall, !.attempt = i.attempt + 1]
<1>1. /\ Running(e) /\ NoGroup \in Nat /\ i.wall \in Nat /\ i.attempt + 1 \in Nat
      /\ NoItem \in ItemType
  BY InvocationFacts DEF OpenConflict, Running, IngestType, NoGroup
<1>2. j \in IngestType /\ j.pc = "read" /\ j.wall = i.wall
  BY <1>1 DEF Owed, IngestType, NoGroup
<1>3. InTime(j, clock)
  BY <1>1, <1>2, InvocationFacts DEF InTime, Running
<1> HIDE DEF j
<1>4. CASE Goto(e, j)
  BY <1>2, <1>3, <1>4, InvocationLeaves DEF OpenConflict
<1>5. CASE Goto(e, Ready(i, NoGroup))
  BY <1>1, <1>5, ReadyFacts, InvocationLeaves DEF OpenConflict
<1>6. Goto(e, j) \/ Goto(e, Ready(i, NoGroup))
  BY DEF OpenConflict, j
<1> QED  BY <1>4, <1>5, <1>6

LEMMA FailureSteps ==
  ASSUME GroupInv, NEW e \in Events,
         GroupFails(e) \/ StartFails(e) \/ InvocationFails(e) \/ Record(e)
  PROVE  GroupInv'
<1>1. CASE GroupFails(e)
  <2>1. Running(e) /\ NoGroup \in Nat
    BY <1>1 DEF GroupFails, Running, NoGroup
  <2> QED  BY <1>1, <2>1, ReadyFacts, InvocationLeaves DEF GroupFails
<1>2. CASE StartFails(e)
  <2>1. Running(e) /\ ingest[e].gid \in Nat
    BY <1>2, InvocationFacts DEF StartFails, Running
  <2> QED  BY <1>2, <2>1, ReadyFacts, InvocationLeaves DEF StartFails
<1>3. CASE InvocationFails(e)
  <2>1. Owed \in IngestType /\ Owed.pc = "owed" /\ InTime(Owed, clock)
    BY InvocationFacts DEF Owed, InTime
  <2> QED  BY <1>3, <2>1, InvocationLeaves DEF InvocationFails
<1>4. CASE Record(e)
  <2> DEFINE j == [Owed EXCEPT !.pc = "done"]
  <2>1. j \in IngestType /\ j.pc = "done" /\ InTime(j, clock)
    BY InvocationFacts DEF Owed, IngestType, InTime
  <2> QED  BY <1>4, <2>1, InvocationLeaves DEF Record
<1> QED  BY <1>1, <1>2, <1>3, <1>4

LEMMA NoteStep == ASSUME GroupInv, NEW e \in Events, NoteArn(e) PROVE GroupInv'
<1> DEFINE i == ingest[e]
           noted == [i.seen EXCEPT !.version = i.seen.version + 1, !.started = TRUE]
           j == Ready(i, i.gid)
<1>1. Running(e) /\ i.pc = "arn" /\ i.gid \in Nat /\ Goto(e, j) /\ UNCHANGED <<clock, exec, names>>
  BY InvocationFacts DEF NoteArn, Running
<1>2. j \in IngestType /\ j.pc = "record" /\ InTime(j, clock)
  BY <1>1, ReadyFacts
<1> HIDE DEF j
<1>3. CASE item' = item
  BY <1>1, <1>2, <1>3, InvocationLeaves
<1>4. CASE item.version = i.seen.version /\ item' = noted
  <2>1. i.seen \in ItemType /\ Current(i.seen, item) /\ i.seen.open /\ ~i.seen.started
    BY <1>1, InvocationFacts DEF InvocationOK
  <2>2. i.seen.open = item.open /\ i.seen.gid = item.gid /\ i.seen.started = item.started
    BY <1>4, <2>1 DEF Current
  <2>3. /\ noted \in ItemType /\ noted.version = i.seen.version + 1 /\ noted.started
        /\ noted.open = i.seen.open /\ noted.gid = i.seen.gid
    <3>1. i.seen.version + 1 \in Nat
      BY <2>1 DEF ItemType
    <3> QED  BY <2>1, <3>1, NotedFields
  <2> HIDE DEF noted
  <2>4. /\ item' \in ItemType /\ item'.version = item.version + 1 /\ item'.open = item.open
        /\ item'.gid = item.gid /\ item'.started
    BY <1>4, <2>2, <2>3
  <2>5. Follows(item, item')
    BY <2>1, <2>2, <2>4, NotedFollows, InvocationFacts
  <2>6. NamesOK'
    BY <1>1, <2>4, InvocationFacts DEF NamesOK
  <2>7. InvocationOK(j, item', clock, names') /\ names \subseteq names'
    BY <1>1, <1>2 DEF InvocationOK
  <2> QED  BY <1>1, <1>2, <2>5, <2>6, <2>7, InvocationMoves DEF Goto
<1>5. item' = item \/ (item.version = i.seen.version /\ item' = noted)
  BY DEF NoteArn
<1> QED  BY <1>3, <1>4, <1>5

LEMMA StartStep == ASSUME GroupInv, NEW e \in Events, StartExecution(e) PROVE GroupInv'
<1> DEFINE i == ingest[e]
           j == [i EXCEPT !.pc = "arn"]
<1>1. i.pc = "start" /\ UNCHANGED <<clock, item, names>> /\ ingest' = [ingest EXCEPT ![e] = j]
  BY DEF StartExecution, Goto
<1>2. /\ InvocationOK(i, item, clock, names) /\ InTime(i, clock)
      /\ i.gid \in names /\ i.gid \in Nat /\ i.gid <= clock
  <2>1. i.gid \in names /\ InvocationOK(i, item, clock, names) /\ InTime(i, clock)
    BY <1>1, InvocationFacts DEF InvocationOK
  <2> QED  BY <2>1, InvocationFacts DEF NamesOK, ItemType
<1>3. InvocationOK(j, item, clock, names) /\ InTime(j, clock)
  <2>1. /\ j \in IngestType /\ j.pc = "arn" /\ j.seen = i.seen /\ j.gid = i.gid
        /\ j.wall = i.wall
    BY InvocationFacts DEF IngestType
  <2> HIDE DEF j
  <2> QED  BY <1>1, <1>2, <2>1 DEF InvocationOK, InTime
<1> HIDE DEF j
<1>4. ASSUME NEW f \in Events
      PROVE  InTime(ingest'[f], clock') /\ InvocationOK(ingest'[f], item', clock', names')
  <2>1. CASE f = e
    BY <1>1, <1>3, <2>1 DEF GroupInv
  <2>2. CASE f # e
    BY <1>1, <2>2 DEF GroupInv
  <2> QED  BY <2>1, <2>2
<1>5. /\ Started \in ExecType /\ Started.pc = "wait" /\ ~Started.swept /\ Started.since = clock
      /\ clock \in Nat
  BY InvocationFacts DEF Started, ExecType
<1>6. ASSUME NEW g \in DOMAIN exec'
      PROVE  ExecutionOK(g, exec'[g], item', clock', names')
  <2>1. CASE g \in DOMAIN exec
    BY <1>1, <2>1 DEF StartExecution, GroupInv
  <2>2. CASE g \notin DOMAIN exec
    <3>1. g = i.gid /\ exec'[g] = Started
      BY <2>2 DEF StartExecution
    <3> QED  BY <1>1, <1>2, <1>5, <3>1 DEF ExecutionOK
  <2> QED  BY <2>1, <2>2
<1>7. ingest' = [f \in Events |-> ingest'[f]] /\ exec' = [g \in DOMAIN exec' |-> exec'[g]]
  BY <1>1 DEF StartExecution, GroupInv
<1>8. NamesOK'
  BY <1>1 DEF GroupInv, NamesOK
<1> QED  BY <1>4, <1>6, <1>7, <1>8 DEF GroupInv
-----------------------------------------------------------------------------
(* The executions.                                                          *)
LEMMA ExecutionFacts ==
  ASSUME GroupInv, NEW g \in DOMAIN exec
  PROVE  /\ exec[g] \in ExecType /\ ExecutionOK(g, exec[g], item, clock, names)
         /\ clock \in Nat \ {0} /\ item \in ItemType /\ NamesOK
         /\ g \in Nat /\ ~exec[g].swept /\ NoItem \in ItemType
  BY DEF GroupInv, ExecutionOK, NamesOK, ItemType, NoItem, NoGroup

(* Whoever leaves the item alone.                                           *)
LEMMA ExecutionLeaves ==
  ASSUME GroupInv, NEW g \in DOMAIN exec, NEW x, Step(g, x),
         ExecutionOK(g, x, item, clock, names), UNCHANGED <<clock, item, ingest, names>>
  PROVE  GroupInv'
<1>1. NamesOK' /\ Follows(item, item')
  BY NotWritten DEF GroupInv, NamesOK
<1> QED  BY <1>1, ExecutionMoves DEF Step

(* What is closed may be left to Grace.                                     *)
LEMMA ClosedOK ==
  ASSUME GroupInv, NEW g \in DOMAIN exec, NEW now, ~(now.open /\ now.gid = g),
         clock >= g + GroupWait
  PROVE  ExecutionOK(g, Closed(g), now, clock, names)
<1>1. Closed(g) \in ExecType /\ Closed(g).pc = "grace" /\ ~Closed(g).swept
  BY ExecutionFacts DEF Closed, ExecType
<1> QED  BY <1>1, ExecutionFacts DEF ExecutionOK

LEMMA ReadToCloseStep ==
  ASSUME GroupInv, NEW g \in DOMAIN exec, ReadToClose(g) PROVE GroupInv'
<1> DEFINE x == [exec[g] EXCEPT !.pc = "put", !.seen = item]
<1>1. exec[g].pc = "wait" /\ exec[g].since >= g /\ exec[g].since \in Nat
  BY ExecutionFacts DEF ReadToClose, ExecutionOK, ExecType
<1>2. clock >= g + GroupWait
  <2>1. clock >= exec[g].since + GroupWait
    BY ExecutionFacts DEF ReadToClose, WaitOver
  <2> QED  BY <1>1, <2>1, ExecutionFacts, Times
<1>3. CASE OpenIs(g)
  <2>1. x \in ExecType /\ x.pc = "put" /\ x.seen = item /\ ~x.swept
    BY ExecutionFacts DEF ExecType
  <2>2. Step(g, x)
    BY <1>3 DEF ReadToClose
  <2> HIDE DEF x
  <2>3. Current(item, item) /\ item.open /\ item.gid = g
    BY <1>3, ExecutionFacts DEF Current, ItemType, OpenIs
  <2>4. ExecutionOK(g, x, item, clock, names)
    BY <1>2, <2>1, <2>3, ExecutionFacts DEF ExecutionOK
  <2> QED  BY <2>2, <2>4, ExecutionLeaves DEF ReadToClose
<1>4. CASE ~OpenIs(g)
  <2>1. ExecutionOK(g, Closed(g), item, clock, names)
    BY <1>2, <1>4, ClosedOK DEF OpenIs
  <2> QED  BY <1>4, <2>1, ExecutionLeaves DEF ReadToClose
<1> QED  BY <1>3, <1>4

LEMMA PutFacts ==
  ASSUME GroupInv, NEW g \in DOMAIN exec, exec[g].pc \in {"put", "put again"}
  PROVE  /\ exec[g].seen \in ItemType /\ Current(exec[g].seen, item) /\ exec[g].seen.open
         /\ exec[g].seen.gid = g /\ clock >= g + GroupWait
         /\ exec[g].pc = "put again" => exec[g].seen.started
  BY ExecutionFacts DEF ExecutionOK, ExecType

LEMMA CloseGroupStep ==
  ASSUME GroupInv, NEW g \in DOMAIN exec, CloseGroup(g) PROVE GroupInv'
<1> DEFINE seen == exec[g].seen
           closed == [seen EXCEPT !.open = FALSE, !.version = item.version + 1]
<1>1. /\ item.version = seen.version /\ item' = closed /\ Step(g, Closed(g))
      /\ UNCHANGED <<clock, ingest, names>> /\ exec[g].pc \in {"put", "put again"}
  BY DEF CloseGroup
<1>2. seen \in ItemType /\ seen.gid = g /\ item.gid = g /\ clock >= g + GroupWait
      /\ item.version \in Nat
  BY <1>1, PutFacts, ExecutionFacts DEF Current, ItemType
<1>3. closed \in ItemType /\ closed.version = item.version + 1 /\ ~closed.open /\ closed.gid = g
  <2>1. item.version + 1 \in Nat
    BY <1>2
  <2> QED  BY <1>2, <2>1, ClosedFields
<1> HIDE DEF closed
<1>4. Follows(item, item')
  BY <1>1, <1>2, <1>3, ClosedFollows, ExecutionFacts
<1>5. NamesOK'
  BY <1>1, <1>2, <1>3, ExecutionFacts DEF NamesOK
<1>6. ExecutionOK(g, Closed(g), item', clock, names)
  BY <1>1, <1>2, <1>3, ClosedOK
<1> QED  BY <1>1, <1>4, <1>5, <1>6, ExecutionMoves DEF Step

(* One more try is enough: who tries again has seen its execution noted,    *)
(* after which nobody but close() writes an open group.                     *)
LEMMA CloseConflictStep ==
  ASSUME GroupInv, NEW g \in DOMAIN exec, CloseConflict(g) PROVE GroupInv'
<1> DEFINE seen == exec[g].seen
           x == [exec[g] EXCEPT !.pc = "put again", !.seen = item]
<1>1. /\ item.version # seen.version /\ exec[g].pc \in {"put", "put again"}
      /\ Step(g, IF exec[g].pc = "put" /\ OpenIs(g) THEN x ELSE Closed(g))
      /\ UNCHANGED <<clock, item, ingest, names>>
  BY DEF CloseConflict
<1>2. /\ Current(seen, item) /\ seen.open /\ seen.gid = g /\ clock >= g + GroupWait
      /\ exec[g].pc = "put again" => seen.started
      /\ seen \in ItemType /\ item \in ItemType
  BY <1>1, PutFacts, ExecutionFacts
<1>3. OpenIs(g) => item.started /\ ~seen.started
  BY <1>1, <1>2 DEF Current, OpenIs, ItemType
<1>4. CASE exec[g].pc = "put" /\ OpenIs(g)
  <2>1. x \in ExecType /\ x.pc = "put again" /\ x.seen = item /\ ~x.swept
    BY ExecutionFacts DEF ExecType
  <2>2. Step(g, x)
    BY <1>1, <1>4
  <2> HIDE DEF x
  <2>3. Current(item, item) /\ item.open /\ item.gid = g
    BY <1>4, ExecutionFacts DEF Current, ItemType, OpenIs
  <2>4. ExecutionOK(g, x, item, clock, names)
    BY <1>2, <1>3, <1>4, <2>1, <2>3, ExecutionFacts DEF ExecutionOK
  <2> QED  BY <1>1, <2>2, <2>4, ExecutionLeaves
<1>5. CASE ~(exec[g].pc = "put" /\ OpenIs(g))
  <2>1. ~OpenIs(g)
    BY <1>1, <1>2, <1>3, <1>5
  <2>2. ExecutionOK(g, Closed(g), item, clock, names)
    BY <1>2, <2>1, ClosedOK DEF OpenIs
  <2> QED  BY <1>1, <1>5, <2>2, ExecutionLeaves
<1> QED  BY <1>4, <1>5

(* Past close(), whatever the execution does next.                          *)
Past == {"grace", "deliver", "claimed", "done"}

LEMMA PastOK ==
  ASSUME GroupInv, NEW g \in DOMAIN exec, NEW now, exec[g].pc \in Past, NEW x \in ExecType,
         x.pc \in Past, ~x.swept, now.open = item.open, now.gid = item.gid
  PROVE  ExecutionOK(g, x, now, clock, names)
<1>1. g \in names /\ clock >= g + GroupWait /\ ~(item.open /\ item.gid = g)
  BY ExecutionFacts DEF ExecutionOK, Past
<1> QED  BY <1>1 DEF ExecutionOK, Past

LEMMA PastStep ==
  ASSUME GroupInv, NEW g \in DOMAIN exec, exec[g].pc \in Past, NEW x \in ExecType,
         x.pc \in Past, ~x.swept, Step(g, x), UNCHANGED <<clock, item, ingest, names>>
  PROVE  GroupInv'
<1>1. ExecutionOK(g, x, item, clock, names)
  BY PastOK
<1> QED  BY <1>1, ExecutionLeaves

LEMMA LaterSteps ==
  ASSUME GroupInv, NEW g \in DOMAIN exec,
         \/ Finalize(g) \/ AlreadyDelivered(g) \/ NothingToNotify(g) \/ Send(g) \/ RouterFails(g)
  PROVE  GroupInv'
<1> USE DEF Past
<1>1. CASE Finalize(g)
  <2> DEFINE x == [exec[g] EXCEPT !.pc = "deliver", !.since = 0]
  <2>1. x \in ExecType /\ x.pc = "deliver" /\ ~x.swept
    BY ExecutionFacts DEF ExecType
  <2>2. Step(g, x) /\ exec[g].pc = "grace" /\ UNCHANGED <<clock, item, ingest, names>>
    BY <1>1 DEF Finalize
  <2> HIDE DEF x
  <2> QED  BY <2>1, <2>2, PastStep
<1>2. CASE AlreadyDelivered(g)
  <2> DEFINE x == [exec[g] EXCEPT !.pc = "done", !.skipped = TRUE]
  <2>1. x \in ExecType /\ x.pc = "done" /\ ~x.swept
    BY ExecutionFacts DEF ExecType
  <2>2. Step(g, x) /\ exec[g].pc = "deliver" /\ UNCHANGED <<clock, item, ingest, names>>
    BY <1>2 DEF AlreadyDelivered
  <2> HIDE DEF x
  <2> QED  BY <2>1, <2>2, PastStep
<1>3. CASE NothingToNotify(g)
  <2> DEFINE x == [exec[g] EXCEPT !.pc = "done"]
  <2>1. x \in ExecType /\ x.pc = "done" /\ ~x.swept
    BY ExecutionFacts DEF ExecType
  <2>2. Step(g, x) /\ exec[g].pc = "deliver" /\ UNCHANGED <<clock, item, ingest, names>>
    BY <1>3 DEF NothingToNotify
  <2> HIDE DEF x
  <2> QED  BY <2>1, <2>2, PastStep
<1>4. CASE Send(g)
  <2> DEFINE x == [exec[g] EXCEPT !.pc = "done", !.sent = exec[g].sent + 1]
  <2>1. x \in ExecType /\ x.pc = "done" /\ ~x.swept
    <3>0. exec[g].sent \in Nat
      BY ExecutionFacts DEF ExecType
    <3>1. exec[g].sent + 1 \in Nat
      BY <3>0
    <3> QED  BY <3>1, ExecutionFacts DEF ExecType
  <2>2. Step(g, x) /\ exec[g].pc = "claimed" /\ UNCHANGED <<clock, item, ingest, names>>
    BY <1>4 DEF Send
  <2> HIDE DEF x
  <2> QED  BY <2>1, <2>2, PastStep
<1>5. CASE RouterFails(g)
  <2> DEFINE x == [exec[g] EXCEPT !.pc = "deliver"]
  <2>1. x \in ExecType /\ x.pc = "deliver" /\ ~x.swept
    BY ExecutionFacts DEF ExecType
  <2>2. /\ Step(g, x) /\ exec[g].pc \in {"claimed", "done"}
        /\ UNCHANGED <<clock, item, ingest, names>>
    BY <1>5 DEF RouterFails
  <2> HIDE DEF x
  <2> QED  BY <2>1, <2>2, PastStep
<1> QED  BY <1>1, <1>2, <1>3, <1>4, <1>5

LEMMA ClaimStep == ASSUME GroupInv, NEW g \in DOMAIN exec, Claim(g) PROVE GroupInv'
<1> DEFINE x == [exec[g] EXCEPT !.pc = "claimed"]
<1>1. /\ exec[g].pc = "deliver" /\ Step(g, x) /\ item' = [item EXCEPT !.delivered = TRUE]
      /\ UNCHANGED <<clock, ingest, names>>
  BY DEF Claim
<1>2. x \in ExecType /\ x.pc = "claimed" /\ ~x.swept
  BY ExecutionFacts DEF ExecType
<1> HIDE DEF x
<1>3. /\ item' \in ItemType /\ item'.version = item.version /\ item'.open = item.open
      /\ item'.gid = item.gid /\ item'.started = item.started
  BY <1>1, ExecutionFacts DEF ItemType
<1>4. Follows(item, item')
  BY <1>3, ClaimedFollows, ExecutionFacts
<1>5. NamesOK'
  BY <1>1, <1>3, ExecutionFacts DEF NamesOK
<1>6. ExecutionOK(g, x, item', clock, names)
  <2>1. exec[g].pc \in Past /\ x.pc \in Past
    BY <1>1, <1>2 DEF Past
  <2> QED  BY <1>2, <1>3, <2>1, PastOK
<1> QED  BY <1>1, <1>4, <1>5, <1>6, ExecutionMoves DEF Step

LEMMA TickStep == ASSUME GroupInv, Tick PROVE GroupInv'
<1>1. clock \in Nat \ {0} /\ clock' = clock + 1 /\ clock' \in Nat \ {0} /\ item \in ItemType
      /\ UNCHANGED <<item, ingest, exec, names>> /\ \A n \in names : n \in Nat /\ n <= item.gid
  BY DEF Tick, GroupInv, NamesOK
<1>2. NamesOK'
  BY <1>1, Times DEF GroupInv, NamesOK, ItemType
<1>3. ASSUME NEW e \in Events
      PROVE  InTime(ingest'[e], clock') /\ InvocationOK(ingest'[e], item', clock', names')
  <2>1. ingest[e].pc \notin {"owed", "done"} => clock < ingest[e].wall + HandlerTime
    BY DEF Tick, Running
  <2>2. InTime(ingest[e], clock) /\ ingest[e].wall \in Nat
    BY InvocationFacts
  <2>3. InTime(ingest[e], clock')
    BY <1>1, <2>1, <2>2, Times DEF InTime
  <2>4. InvocationOK(ingest[e], item, clock', names)
    BY <1>1, NotWritten, InvocationFacts, InvocationKept
  <2> QED  BY <1>1, <2>3, <2>4
<1>4. ASSUME NEW g \in DOMAIN exec'
      PROVE  ExecutionOK(g, exec'[g], item', clock', names')
  <2>1. g \in DOMAIN exec /\ ExecutionOK(g, exec[g], item, clock, names) /\ clock <= clock'
    BY <1>1 DEF GroupInv
  <2>2. ExecutionOK(g, exec[g], item, clock', names)
    BY <1>1, <2>1, NotWritten, ExecutionKept
  <2> QED  BY <1>1, <2>2
<1> QED  BY <1>1, <1>2, <1>3, <1>4 DEF GroupInv
-----------------------------------------------------------------------------
LEMMA GroupInit == Init => GroupInv
<1> SUFFICES ASSUME Init PROVE GroupInv
  OBVIOUS
<1>1. NoItem \in ItemType /\ NoItem.gid = NoGroup /\ ~NoItem.open
  BY DEF NoItem, ItemType, NoGroup
<1>2. NamesOK
  BY <1>1 DEF Init, NamesOK, NoGroup
<1>3. Owed \in IngestType /\ Owed.pc = "owed"
  BY <1>1 DEF Owed, IngestType, NoGroup
<1>4. \A e \in Events : InTime(ingest[e], clock) /\ InvocationOK(ingest[e], item, clock, names)
  BY <1>3 DEF Init, InTime, InvocationOK
<1>5. DOMAIN exec = {} /\ ingest = [e \in Events |-> ingest[e]]
      /\ exec = [g \in DOMAIN exec |-> exec[g]]
  BY DEF Init
<1> QED  BY <1>2, <1>4, <1>5 DEF GroupInv

LEMMA GroupStep == ASSUME Unhurried, GroupInv, [Next]_vars PROVE GroupInv'
<1>1. ASSUME NEW e \in Events, Receive(e) \/ Handle(e) \/ IngestFaults(e)
      PROVE  GroupInv'
  BY <1>1, ReceiveStep, JoinStep, PrepareStep, OpenStep, OpenConflictStep, StartStep, NoteStep,
     FailureSteps DEF Handle, IngestFaults
<1>2. ASSUME NEW g \in DOMAIN exec, Execute(g) \/ RouterFails(g) \/ ExecutionFails(g)
      PROVE  GroupInv'
  <2>1. ~ExecutionFails(g)
    BY DEF ExecutionFails, Fault, Unhurried
  <2> QED
    BY <1>2, <2>1, ReadToCloseStep, CloseGroupStep, CloseConflictStep, ClaimStep, LaterSteps
    DEF Execute
<1>3. CASE UNCHANGED vars
  BY <1>3 DEF vars, GroupInv, NamesOK
<1> QED  BY <1>1, <1>2, <1>3, TickStep DEF Next

(* While no invocation outlasts the wait and no execution fails, names grow *)
(* with time and what was read of the item is the item or an earlier one    *)
(* (_resolve_group, close).                                                 *)
THEOREM GroupInvariant == ASSUME Unhurried PROVE Spec => []GroupInv
<1>1. GroupInv /\ [Next]_vars => GroupInv'
  BY GroupStep
<1> QED  BY GroupInit, <1>1, PTL DEF Spec

(* Once close() has run its group takes no more events: one second try is   *)
(* enough, however many ingestors write meanwhile.                          *)
THEOREM ClosedForGood == ASSUME Unhurried PROVE Spec => []CloseCloses
<1>1. GroupInv => CloseCloses
  BY DEF GroupInv, ExecutionOK, CloseCloses, OpenIs
<1> QED  BY <1>1, GroupInvariant, PTL

(* A group that is opened has the name of no group before it (_resolve_group*)
(* names it a second later if the last one has its name).                   *)
THEOREM NamesFresh == ASSUME Unhurried PROVE Spec => FreshNames
<1> DEFINE Opens == item'.open /\ (~item.open \/ item'.gid # item.gid)
<1>1. GroupInv /\ [Next]_vars => [Opens => item'.gid \notin names]_vars
  <2> SUFFICES ASSUME GroupInv, Next, Opens PROVE item'.gid \notin names
    OBVIOUS
  <2>1. ASSUME NEW e \in Events, NoteArn(e) PROVE FALSE
    <3>1. ingest[e].pc = "arn" /\ item' # item
      BY <2>1 DEF NoteArn
    <3>2. /\ item.version = ingest[e].seen.version /\ ingest[e].seen \in ItemType
          /\ Current(ingest[e].seen, item)
      BY <2>1, <3>1, InvocationFacts DEF NoteArn, InvocationOK
    <3>3. ingest[e].seen.open = item.open /\ ingest[e].seen.gid = item.gid
      BY <3>2 DEF Current
    <3>4. item' = [ingest[e].seen EXCEPT !.version = ingest[e].seen.version + 1, !.started = TRUE]
      BY <2>1, <3>1, <3>2 DEF NoteArn
    <3>5. ingest[e].seen.version + 1 \in Nat
      BY <3>2 DEF ItemType
    <3>6. item'.open = ingest[e].seen.open /\ item'.gid = ingest[e].seen.gid
      BY <3>2, <3>4, <3>5, NotedFields
    <3> QED  BY <3>3, <3>6
  <2>2. ASSUME NEW g \in DOMAIN exec, CloseGroup(g) PROVE FALSE
    <3>0. exec[g].seen \in ItemType /\ item.version \in Nat
      BY ExecutionFacts DEF ExecType, ItemType
    <3>1. exec[g].seen \in ItemType /\ item.version + 1 \in Nat
      BY <3>0
    <3>2. item' = [exec[g].seen EXCEPT !.open = FALSE, !.version = item.version + 1]
      BY <2>2 DEF CloseGroup
    <3> QED  BY <3>1, <3>2, ClosedFields
  <2>3. ASSUME NEW g \in DOMAIN exec, Claim(g) PROVE FALSE
    BY <2>3, ExecutionFacts DEF Claim, ItemType
  <2>4. item' # item
    OBVIOUS
  <2>5. PICK e \in Events : OpenGroup(e)
    <3>1. CASE \E e \in Events : Receive(e) \/ Handle(e) \/ IngestFaults(e)
      BY <2>1, <2>4, <3>1 DEF Receive, Handle, IngestFaults, JoinGroup, PrepareGroup,
         OpenConflict, StartExecution, Record, GroupFails, StartFails, InvocationFails
    <3>2. CASE \E g \in DOMAIN exec : Execute(g) \/ RouterFails(g) \/ ExecutionFails(g)
      BY <2>2, <2>3, <2>4, <3>2 DEF Execute, ReadToClose, CloseConflict, Finalize,
         AlreadyDelivered, NothingToNotify, Send, RouterFails, ExecutionFails
    <3>3. ~Tick
      BY <2>4 DEF Tick
    <3> QED  BY <3>1, <3>2, <3>3 DEF Next
  <2> QED  BY <2>5, OpenedNew
<1> QED  BY <1>1, GroupInvariant, PTL DEF FreshNames, Spec
--------------------------------------------------------------------------------
(* The invocation i will record its event as a member of group g.           *)
Holds(i, g) == i.pc \in {"start", "arn", "record"} /\ i.gid = g

Over == {"deliver", "claimed", "done"}

(* In Grace, whoever holds the group began before it closed; who holds it   *)
(* when it is finalized has taken as long as the grace, and its row will    *)
(* say so; every other row of the group is final.                           *)
LoadedOK(g, x, i, row, time) ==
  /\ x.pc = "grace" => x.since <= time /\ (Holds(i, g) => i.wall <= x.since)
  /\ x.pc \in Over =>
       /\ Holds(i, g) => time >= i.wall + Grace
       /\ row.recorded /\ row.gid = g => row.final \/ row.slow

LoadedInv ==
  /\ NoGroup \notin names
  /\ rows \in [Events -> RowType]
  /\ \A g \in DOMAIN exec : \A e \in Events :
       LoadedOK(g, exec[g], ingest[e], rows[e], clock)

(* A step of an invocation that brings no event into a group already closed.*)
LEMMA LoadingMoves ==
  ASSUME GroupInv, LoadedInv, NEW e \in Events, NEW i, ingest' = [ingest EXCEPT ![e] = i],
         \A g \in DOMAIN exec : Holds(i, g) /\ exec[g].pc \in Past =>
           Holds(ingest[e], g) /\ i.wall = ingest[e].wall,
         NoGroup \notin names', UNCHANGED <<clock, rows, exec>>
  PROVE  LoadedInv'
<1>1. ASSUME NEW g \in DOMAIN exec', NEW f \in Events
      PROVE  LoadedOK(g, exec'[g], ingest'[f], rows'[f], clock')
  <2>1. /\ g \in DOMAIN exec /\ exec'[g] = exec[g] /\ rows'[f] = rows[f] /\ clock' = clock
        /\ LoadedOK(g, exec[g], ingest[f], rows[f], clock)
    BY DEF LoadedInv
  <2>2. CASE f = e
    <3>1. ingest'[f] = i
      BY <2>2 DEF GroupInv
    <3> QED  BY <2>1, <2>2, <3>1 DEF LoadedOK, Past, Over
  <2>3. CASE f # e
    <3>1. ingest'[f] = ingest[f]
      BY <2>3 DEF GroupInv
    <3> QED  BY <2>1, <3>1
  <2> QED  BY <2>2, <2>3
<1> QED  BY <1>1 DEF LoadedInv

LEMMA LoadingLeaves ==
  ASSUME GroupInv, LoadedInv, NEW e \in Events,
         \/ Receive(e) \/ PrepareGroup(e) \/ OpenConflict(e) \/ GroupFails(e)
         \/ StartFails(e) \/ InvocationFails(e) \/ NoteArn(e)
  PROVE  LoadedInv'
<1> DEFINE i == ingest[e]
<1>1. /\ UNCHANGED <<clock, rows, exec, names>> /\ NoGroup \notin DOMAIN exec
      /\ i.gid \in Nat /\ i.wall \in Nat /\ i \in IngestType
  <2>1. UNCHANGED <<clock, rows, exec, names>>
    BY DEF Receive, PrepareGroup, OpenConflict, GroupFails, StartFails, InvocationFails, NoteArn
  <2> QED  BY <2>1, InvocationFacts DEF GroupInv, ExecutionOK, LoadedInv, IngestType
<1>2. ASSUME NEW j, j.pc \in {"owed", "read", "put"}, Goto(e, j)
      PROVE  LoadedInv'
  BY <1>1, <1>2, LoadingMoves DEF Goto, Holds, LoadedInv
<1>3. ASSUME NEW g, Goto(e, Ready(i, g)),
             g = NoGroup \/ (g = i.gid /\ i.pc \in {"start", "arn"})
      PROVE  LoadedInv'
  <2> DEFINE r == Ready(i, g)
  <2>1. r.pc = "record" /\ r.gid = g /\ r.wall = i.wall
    BY DEF Ready, Owed
  <2>2. ingest' = [ingest EXCEPT ![e] = r]
    BY <1>3 DEF Goto
  <2> HIDE DEF r
  <2>3. ASSUME NEW h \in DOMAIN exec, Holds(r, h)
        PROVE  Holds(i, h) /\ r.wall = i.wall
    BY <1>1, <1>3, <2>1, <2>3 DEF Holds
  <2>4. NoGroup \notin names'
    BY <1>1 DEF LoadedInv
  <2> QED  BY <1>1, <2>2, <2>3, <2>4, LoadingMoves
<1>4. CASE Receive(e)
  <2> DEFINE j == [Owed EXCEPT !.pc = "read", !.wall = clock]
  <2>1. j.pc = "read" /\ Goto(e, j)
    BY <1>4 DEF Owed, Receive
  <2> HIDE DEF j
  <2> QED  BY <1>2, <2>1
<1>5. CASE PrepareGroup(e)
  <2> DEFINE j == [i EXCEPT !.pc = "put", !.seen = item, !.gid = NewName(item, i.wall)]
  <2>1. j.pc = "put" /\ Goto(e, j)
    BY <1>1, <1>5 DEF IngestType, PrepareGroup
  <2> HIDE DEF j
  <2> QED  BY <1>2, <2>1
<1>6. CASE OpenConflict(e)
  <2> DEFINE j == [Owed EXCEPT !.pc = "read", !.wall = i.wall, !.attempt = i.attempt + 1]
  <2>1. j.pc = "read" /\ (Goto(e, Ready(i, NoGroup)) \/ Goto(e, j))
    BY <1>6 DEF Owed, OpenConflict
  <2> HIDE DEF j
  <2> QED  BY <1>2, <1>3, <2>1
<1>7. CASE GroupFails(e)
  BY <1>3, <1>7 DEF GroupFails
<1>8. CASE StartFails(e)
  BY <1>3, <1>8 DEF StartFails
<1>9. CASE InvocationFails(e)
  BY <1>2, <1>9 DEF InvocationFails, Owed
<1>10. CASE NoteArn(e)
  BY <1>3, <1>10 DEF NoteArn
<1> QED  BY <1>4, <1>5, <1>6, <1>7, <1>8, <1>9, <1>10

(* Joining finds the group open, opening gives it a name no execution has.  *)
LEMMA LoadingJoins ==
  ASSUME GroupInv, LoadedInv, NEW e \in Events, JoinGroup(e)
  PROVE  LoadedInv'
<1> DEFINE i == ingest[e]
<1>1. /\ item.open /\ UNCHANGED <<clock, rows, exec, names>> /\ i \in IngestType
  BY InvocationFacts DEF JoinGroup, Joinable
<1>2. PICK j : Goto(e, j) /\ j.gid = item.gid
  <2> DEFINE ready == Ready(i, item.gid)
             starts == [i EXCEPT !.pc = "start", !.seen = item, !.gid = item.gid]
  <2>1. ready.gid = item.gid /\ starts.gid = item.gid
    BY <1>1 DEF Ready, Owed, IngestType
  <2>2. Goto(e, ready) \/ Goto(e, starts)
    BY DEF JoinGroup
  <2> HIDE DEF ready, starts
  <2> QED  BY <2>1, <2>2
<1>3. \A g \in DOMAIN exec : exec[g].pc \in Past => j.gid # g
  BY <1>1, <1>2 DEF GroupInv, ExecutionOK, Past
<1>4. \A g \in DOMAIN exec : exec[g].pc \in Past => ~Holds(j, g)
  BY <1>3 DEF Holds
<1>5. ingest' = [ingest EXCEPT ![e] = j] /\ NoGroup \notin names'
  BY <1>1, <1>2 DEF Goto, LoadedInv
<1> QED  BY <1>1, <1>4, <1>5, LoadingMoves

LEMMA LoadingOpens ==
  ASSUME GroupInv, LoadedInv, NEW e \in Events, OpenGroup(e)
  PROVE  LoadedInv'
<1> DEFINE i == ingest[e]
<1>1. /\ i.gid \in Nat /\ i.gid > item.gid /\ item.gid \in Nat /\ i.gid \notin names
      /\ i \in IngestType
  BY OpenedNew, InvocationFacts DEF ItemType
<1>2. UNCHANGED <<clock, rows, exec>> /\ names' = names \cup {i.gid}
  BY DEF OpenGroup
<1>3. PICK j : Goto(e, j) /\ j.gid = i.gid
  <2> DEFINE starts == [i EXCEPT !.pc = "start", !.seen =
                          [version |-> i.seen.version + 1, open |-> TRUE, gid |-> i.gid,
                           started |-> FALSE, delivered |-> FALSE]]
  <2>1. starts.gid = i.gid /\ Goto(e, starts)
    BY <1>1 DEF IngestType, OpenGroup
  <2> HIDE DEF starts
  <2> QED  BY <2>1
<1>4. i.gid \notin DOMAIN exec
  BY <1>1 DEF GroupInv, ExecutionOK
<1>5. NoGroup \notin names'
  BY <1>1, <1>2 DEF LoadedInv, NoGroup
<1>6. \A g \in DOMAIN exec : ~Holds(j, g)
  BY <1>3, <1>4 DEF Holds
<1>7. ingest' = [ingest EXCEPT ![e] = j]
  BY <1>3 DEF Goto
<1> QED  BY <1>2, <1>5, <1>6, <1>7, LoadingMoves

LEMMA LoadingStarts ==
  ASSUME GroupInv, LoadedInv, NEW e \in Events, StartExecution(e)
  PROVE  LoadedInv'
<1> DEFINE i == ingest[e]
           j == [i EXCEPT !.pc = "arn"]
<1>1. /\ i.pc = "start" /\ ingest' = [ingest EXCEPT ![e] = j]
      /\ UNCHANGED <<clock, item, rows, names>> /\ i \in IngestType
  BY InvocationFacts DEF StartExecution, Goto
<1>2. j.pc = "arn" /\ j.gid = i.gid /\ j.wall = i.wall
  BY <1>1 DEF IngestType
<1> HIDE DEF j
<1>3. ASSUME NEW g \in DOMAIN exec', NEW f \in Events
      PROVE  LoadedOK(g, exec'[g], ingest'[f], rows'[f], clock')
  <2>1. CASE g \notin DOMAIN exec
    <3>1. exec'[g].pc = "wait"
      BY <2>1 DEF StartExecution, Started
    <3> QED  BY <3>1 DEF LoadedOK, Over
  <2>2. CASE g \in DOMAIN exec
    <3>1. exec'[g] = exec[g] /\ LoadedOK(g, exec[g], ingest[f], rows[f], clock)
      BY <2>2 DEF StartExecution, LoadedInv
    <3>2. CASE f = e
      <4>1. ingest'[f] = j
        BY <1>1, <3>2 DEF GroupInv
      <4> QED  BY <1>1, <1>2, <3>1, <3>2, <4>1 DEF LoadedOK, Holds
    <3>3. CASE f # e
      <4>1. ingest'[f] = ingest[f]
        BY <1>1, <3>3 DEF GroupInv
      <4> QED  BY <1>1, <3>1, <4>1
    <3> QED  BY <3>2, <3>3
  <2> QED  BY <2>1, <2>2
<1> QED  BY <1>1, <1>3 DEF LoadedInv

(* A row is recorded in a group its invocation held until now; if the group *)
(* is over, the invocation was slow.                                        *)
LEMMA LoadingRecords ==
  ASSUME GroupInv, LoadedInv, NEW e \in Events, Record(e)
  PROVE  LoadedInv'
<1> DEFINE i == ingest[e]
           j == [Owed EXCEPT !.pc = "done"]
           row == [recorded |-> TRUE, gid |-> i.gid, final |-> FALSE,
                   slow |-> clock >= i.wall + Grace]
<1>1. /\ i.pc = "record" /\ ingest' = [ingest EXCEPT ![e] = j] /\ i.gid \in Nat
      /\ rows' = [rows EXCEPT ![e] = IF rows[e].recorded THEN rows[e] ELSE row]
      /\ UNCHANGED <<clock, item, exec, names>>
  BY InvocationFacts DEF Record, Goto
<1>2. j.pc = "done"
  BY DEF Owed
<1> HIDE DEF j
<1>3. rows' \in [Events -> RowType]
  BY <1>1 DEF LoadedInv, RowType
<1>4. ASSUME NEW g \in DOMAIN exec', NEW f \in Events
      PROVE  LoadedOK(g, exec'[g], ingest'[f], rows'[f], clock')
  <2>1. exec'[g] = exec[g] /\ LoadedOK(g, exec[g], ingest[f], rows[f], clock)
    BY <1>1 DEF LoadedInv
  <2>2. CASE f = e
    <3>1. ingest'[f] = j /\ (rows'[f] = rows[f] \/ rows'[f] = row)
      BY <1>1, <2>2 DEF GroupInv, LoadedInv
    <3>2. exec[g].pc \in Over /\ i.gid = g => row.slow
      BY <1>1, <2>1, <2>2 DEF LoadedOK, Holds
    <3> QED  BY <1>1, <1>2, <2>1, <2>2, <3>1, <3>2 DEF LoadedOK, Holds
  <2>3. CASE f # e
    <3>1. ingest'[f] = ingest[f] /\ rows'[f] = rows[f]
      BY <1>1, <2>3 DEF GroupInv, LoadedInv
    <3> QED  BY <1>1, <2>1, <3>1
  <2> QED  BY <2>2, <2>3
<1> QED  BY <1>1, <1>3, <1>4 DEF LoadedInv

(* The executions.                                                          *)
LEMMA LoadingExecutes ==
  ASSUME GroupInv, LoadedInv, NEW g \in DOMAIN exec, NEW x, Step(g, x),
         \A e \in Events : LoadedOK(g, x, ingest[e], rows[e], clock),
         UNCHANGED <<clock, ingest, rows, names>>
  PROVE  LoadedInv'
<1>1. ASSUME NEW h \in DOMAIN exec', NEW e \in Events
      PROVE  LoadedOK(h, exec'[h], ingest'[e], rows'[e], clock')
  <2>1. h \in DOMAIN exec /\ exec'[h] = IF h = g THEN x ELSE exec[h]
    BY DEF Step, GroupInv
  <2> QED  BY <2>1 DEF LoadedInv
<1> QED  BY <1>1 DEF LoadedInv

(* Where Grace begins, every invocation under way has begun.                *)
LEMMA GraceBegins ==
  ASSUME GroupInv, NEW g \in DOMAIN exec, NEW e \in Events
  PROVE  LoadedOK(g, Closed(g), ingest[e], rows[e], clock)
<1>1. Closed(g).pc = "grace" /\ Closed(g).since = clock
  BY ExecutionFacts DEF Closed, ExecType
<1>2. Holds(ingest[e], g) => ingest[e].wall <= clock
  BY InvocationFacts DEF Holds, InTime
<1>3. clock \in Nat
  BY ExecutionFacts
<1> QED  BY <1>1, <1>2, <1>3 DEF LoadedOK, Over

LEMMA LoadingCloses ==
  ASSUME GroupInv, LoadedInv, NEW g \in DOMAIN exec,
         ReadToClose(g) \/ CloseGroup(g) \/ CloseConflict(g)
  PROVE  LoadedInv'
<1>1. UNCHANGED <<clock, ingest, rows, names>>
  BY DEF ReadToClose, CloseGroup, CloseConflict
<1>2. CASE Step(g, Closed(g))
  BY <1>1, <1>2, GraceBegins, LoadingExecutes
<1>3. ASSUME NEW pc \in {"put", "put again"},
             Step(g, [exec[g] EXCEPT !.pc = pc, !.seen = item])
      PROVE  LoadedInv'
  <2> DEFINE x == [exec[g] EXCEPT !.pc = pc, !.seen = item]
  <2>1. x.pc = pc /\ Step(g, x)
    BY <1>3, ExecutionFacts DEF ExecType
  <2> HIDE DEF x
  <2>2. \A e \in Events : LoadedOK(g, x, ingest[e], rows[e], clock)
    BY <2>1 DEF LoadedOK, Over
  <2> QED  BY <1>1, <2>1, <2>2, LoadingExecutes
<1> QED  BY <1>2, <1>3 DEF ReadToClose, CloseGroup, CloseConflict

(* The grace is over: an invocation that holds the group has lasted for it. *)
LEMMA LoadingFinalizes ==
  ASSUME GroupInv, LoadedInv, NEW g \in DOMAIN exec, Finalize(g)
  PROVE  LoadedInv'
<1> DEFINE x == [exec[g] EXCEPT !.pc = "deliver", !.since = 0]
<1>1. /\ exec[g].pc = "grace" /\ clock >= exec[g].since + Grace
      /\ exec' = [exec EXCEPT ![g] = x] /\ UNCHANGED <<clock, ingest, names>>
      /\ rows' = [e \in Events |-> IF e \in Members(g) THEN [rows[e] EXCEPT !.final = TRUE]
                                   ELSE rows[e]]
  BY ExecutionFacts DEF Finalize, GraceOver, Step
<1>2. x.pc = "deliver"
  BY ExecutionFacts DEF ExecType
<1> HIDE DEF x
<1>3. ASSUME NEW e \in Events, Holds(ingest[e], g) PROVE clock >= ingest[e].wall + Grace
  <2>1. ingest[e].wall <= exec[g].since
    BY <1>1, <1>3 DEF LoadedInv, LoadedOK
  <2>2. ingest[e].wall \in Nat /\ clock \in Nat /\ exec[g].since \in Nat /\ Grace \in Nat
    BY InvocationFacts, ExecutionFacts, GroupAssumption DEF ExecType
  <2> QED  BY <1>1, <2>1, <2>2
<1>4. ASSUME NEW e \in Events
      PROVE  /\ rows'[e] \in RowType /\ rows'[e].recorded = rows[e].recorded
             /\ rows'[e].gid = rows[e].gid /\ rows'[e].slow = rows[e].slow
             /\ rows[e].final => rows'[e].final
             /\ rows[e].recorded /\ rows[e].gid = g => rows'[e].final
  BY <1>1 DEF LoadedInv, RowType, Members
<1>5. ASSUME NEW h \in DOMAIN exec', NEW e \in Events
      PROVE  LoadedOK(h, exec'[h], ingest'[e], rows'[e], clock')
  <2>1. h \in DOMAIN exec /\ exec'[h] = (IF h = g THEN x ELSE exec[h])
    BY <1>1 DEF GroupInv
  <2>2. LoadedOK(h, exec[h], ingest[e], rows[e], clock)
    BY <2>1 DEF LoadedInv
  <2>3. CASE h = g
    BY <1>1, <1>2, <1>3, <1>4, <2>1, <2>3 DEF LoadedOK
  <2>4. CASE h # g
    BY <1>1, <1>4, <2>1, <2>2, <2>4 DEF LoadedOK
  <2> QED  BY <2>3, <2>4
<1>6. rows' \in [Events -> RowType]
  BY <1>1, <1>4
<1> QED  BY <1>1, <1>5, <1>6 DEF LoadedInv

LEMMA LoadingIsOver ==
  ASSUME GroupInv, LoadedInv, NEW g \in DOMAIN exec,
         \/ Claim(g) \/ AlreadyDelivered(g) \/ NothingToNotify(g) \/ Send(g) \/ RouterFails(g)
  PROVE  LoadedInv'
<1>1. exec[g].pc \in Over /\ UNCHANGED <<clock, ingest, rows, names>>
  BY DEF Over, Claim, AlreadyDelivered, NothingToNotify, Send, RouterFails
<1>2. ASSUME NEW x, Step(g, x), x.pc \in Over PROVE LoadedInv'
  <2>1. \A e \in Events : LoadedOK(g, x, ingest[e], rows[e], clock)
    BY <1>1, <1>2 DEF LoadedInv, LoadedOK, Over
  <2> QED  BY <1>1, <1>2, <2>1, LoadingExecutes
<1>3. /\ [exec[g] EXCEPT !.pc = "claimed"].pc \in Over
      /\ [exec[g] EXCEPT !.pc = "deliver"].pc \in Over
      /\ [exec[g] EXCEPT !.pc = "done"].pc \in Over
      /\ [exec[g] EXCEPT !.pc = "done", !.skipped = TRUE].pc \in Over
      /\ [exec[g] EXCEPT !.pc = "done", !.sent = exec[g].sent + 1].pc \in Over
  BY ExecutionFacts DEF ExecType, Over
<1> QED  BY <1>2, <1>3 DEF Claim, AlreadyDelivered, NothingToNotify, Send, RouterFails

LEMMA LoadedStep ==
  ASSUME Unhurried, GroupInv, LoadedInv, [Next]_vars
  PROVE  LoadedInv'
<1>1. ASSUME NEW e \in Events, Receive(e) \/ Handle(e) \/ IngestFaults(e)
      PROVE  LoadedInv'
  BY <1>1, LoadingLeaves, LoadingJoins, LoadingOpens, LoadingStarts, LoadingRecords
  DEF Handle, IngestFaults
<1>2. ASSUME NEW g \in DOMAIN exec, Execute(g) \/ RouterFails(g) \/ ExecutionFails(g)
      PROVE  LoadedInv'
  <2>1. ~ExecutionFails(g)
    BY DEF ExecutionFails, Fault, Unhurried
  <2> QED  BY <1>2, <2>1, LoadingCloses, LoadingFinalizes, LoadingIsOver DEF Execute
<1>3. CASE Tick
  <2>1. /\ clock' = clock + 1 /\ clock \in Nat /\ UNCHANGED <<ingest, rows, exec, names>>
    BY <1>3 DEF Tick, GroupInv, NamesOK
  <2>2. ASSUME NEW g \in DOMAIN exec', NEW e \in Events
        PROVE  LoadedOK(g, exec'[g], ingest'[e], rows'[e], clock')
    <3>1. g \in DOMAIN exec /\ LoadedOK(g, exec[g], ingest[e], rows[e], clock)
      BY <2>1 DEF LoadedInv
    <3>2. exec[g].since \in Nat /\ ingest[e].wall \in Nat /\ Grace \in Nat
      BY <3>1, ExecutionFacts, InvocationFacts, GroupAssumption DEF ExecType
    <3> QED  BY <2>1, <3>1, <3>2 DEF LoadedOK
  <2> QED  BY <2>1, <2>2 DEF LoadedInv
<1>4. CASE UNCHANGED vars
  BY <1>4 DEF vars, LoadedInv, LoadedOK
<1> QED  BY <1>1, <1>2, <1>3, <1>4 DEF Next

(* Whoever joined a group while it was open has its row finalized with it,  *)
(* or was as slow in recording it as the group's grace is long: the grace   *)
(* makes up for exactly what was under way when the group closed, however   *)
(* the timeout of the ingestor and the grace compare.                       *)
THEOREM NoneLeftBehind == ASSUME Unhurried PROVE Spec => []NoOrphan
<1>1. Init => LoadedInv
  BY DEF Init, LoadedInv, NoRow, RowType, NoGroup
<1>2. GroupInv /\ LoadedInv /\ [Next]_vars => LoadedInv'
  BY LoadedStep
<1>3. LoadedInv => NoOrphan
  BY DEF LoadedInv, LoadedOK, Over, NoOrphan, Members
<1> QED  BY <1>1, <1>2, <1>3, GroupInvariant, PTL DEF Spec
================================================================================
