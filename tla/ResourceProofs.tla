---------------------------- MODULE ResourceProofs -----------------------------
(***************************************************************************)
(* For every set of workers, metrics, thresholds and settings, whatever the *)
(* customer, the console, CloudTrail and the failures do: a sync that       *)
(* nothing disturbed leaves the alarms its settings ask for, and a run that *)
(* finds them right makes no call.                                          *)
(***************************************************************************)
EXTENDS ResourceAlarms, FiniteSetTheorems, TLAPS

-----------------------------------------------------------------------------
(* The invariant.  What is typed: a call of a plan is of one metric or of   *)
(* the resource.                                                            *)
OnMetric == {"delete", "single", "read", "replace", "look", "remake", "put", "refresh", "rewrite"}

Deeds == OnMetric \cup {"keep", "wipe", "clear"}

Edits == {"edit", "drop", "follow"}

Asks == {"list", "orphans", "collect", "sync", "create", "switch on", "switch off", "tags", "remedy"}

CallType ==
  {c \in [do : Deeds \cup Edits \cup Asks, metric : Metrics \cup {"all"},
          names : SUBSET (Metrics \X Thresholds), strict : BOOLEAN] :
     c.do \in OnMetric \cup Edits => c.metric \in Metrics}

Starters == {"none", "run", "toggle", "bulk", "remove", "edit", "event"}

JobType ==
  [todo : Seq(CallType), by : Starters, thr : [Metrics -> Settings], index : SUBSET AlarmType,
   kept : [Metrics -> {"none", "chosen"}], draft : SUBSET AlarmType, alone : BOOLEAN,
   set : BOOLEAN, before : SUBSET AlarmType]

Distinct(now) == now \subseteq AlarmType /\ \A a, b \in now : NameOf(a) = NameOf(b) => a = b

Typed ==
  /\ Distinct(alarms) /\ alive \in BOOLEAN /\ tags \in TagsType
  /\ reported \subseteq Disks \cup Dynamic /\ events \subseteq EventKinds
  /\ trouble \in 0 .. MaxTrouble /\ job \in [Workers -> JobType]

Bounded == calls \in 0 .. MaxCalls /\ changes \in 0 .. MaxChanges

(* A sync decides once, at the end of what leads to it; what writes a draft *)
(* has one.                                                                 *)
Shape(j) ==
  /\ \A i \in DOMAIN j.todo :
       /\ j.todo[i].do \in {"sync", "create"} => i = Len(j.todo)
       /\ j.todo[i].do \in {"edit", "rewrite"} => i = 1 /\ j.draft # {}
       /\ j.set => j.todo[i].do \in Deeds
       /\ j.by = "run" => j.todo[i].do # "create"

(* What the run listed is what there is, until it deletes the alarms of a   *)
(* resource that it then does not collect.                                  *)
Fresh(j, now) == j.index = IF Listed THEN now ELSE {}

Listing(j) == Len(j.todo) > 0 /\ j.todo[Len(j.todo)].do = "sync" /\ j.todo[Len(j.todo)].strict

InRun(t, alone, fresh, off) ==
  \/ Len(t) = 4 /\ t[1].do = "list" /\ t[2].do = "orphans" /\ t[3].do = "collect"
  \/ Len(t) = 3 /\ t[1].do = "orphans" /\ t[2].do = "collect" /\ (alone => fresh)
  \/ Len(t) = 3 /\ t[1].do = "clear" /\ t[2].do = "collect" /\ (alone => off)
  \/ Len(t) = 2 /\ t[1].do = "collect" /\ (alone => fresh \/ off)
  \/ Len(t) = 1 /\ (alone => fresh)

ByTheList(j, now, off) == Listing(j) => InRun(j.todo, j.alone, Fresh(j, now), off)

(* The alarms of a metric, now (`o`) and when the plan was made.            *)
Of(now, m) == {a \in now : a.metric = m}

Same(j, m, o) == o = Of(j.before, m)

Target(j, rep) == Created(j.thr, SeenDisks(j.thr, rep))

(* The operator's severity, read and not put on an alarm yet.               *)
Lost(m, rep) == m \in Dynamic \ rep

Chosen(j, m) == \E b \in j.before : b.metric = m /\ b.tag = "chosen" /\ b.told # "registry"

Remembers(j, rep, m) == Chosen(j, m) => Lost(m, rep) \/ j.kept[m] = "chosen"

(* A metric is through with, is through with but for what its description   *)
(* tells, or has its severity.                                              *)
Final(j, rep, m, o) ==
  /\ \A a, b \in o : a = b
  /\ o # {} => m \in Allowed(j.thr)
  /\ m \in Wanted(j.thr, rep) => \E a \in o : Right(a, j.thr)
  /\ Kept(o, j.before, j.thr)

Half(j, rep, m, o) ==
  /\ \A a, b \in o : a = b
  /\ m \in Allowed(j.thr)
  /\ \A a \in o : Right(a, j.thr) /\ (Chosen(j, m) => a.tag = "chosen")
  /\ m \in Wanted(j.thr, rep) => o # {}

Marked(j, rep, m, o) ==
  m \in Target(j, rep) /\ Chosen(j, m) => Lost(m, rep) \/ \E a \in o : a.tag = "chosen"

(* What a call that is still to be made finds.                              *)
PutBefore(j, i, m) == \E l \in DOMAIN j.todo : l < i /\ j.todo[l].metric = m /\ j.todo[l].do = "put"

Findings(c, j, rep, m, o) ==
  /\ c.do \in OnMetric
  /\ c.do = "delete" => Same(j, m, o) /\ c.names = NamesOf(o) /\ m \notin Target(j, rep)
  /\ c.do = "single" => o = {} /\ Same(j, m, o) /\ m \in Allowed(j.thr)
  /\ c.do \in {"read", "look", "replace", "remake"} =>
       Same(j, m, o) /\ c.names = NamesOf(o) /\ o # {} /\ m \in Allowed(j.thr)
  /\ c.do \in {"replace", "remake", "put"} => Remembers(j, rep, m)
  /\ c.do = "put" => o = {} /\ m \in Allowed(j.thr)
  /\ c.do = "refresh" => c.names = {<<m, ThresholdOf(j.thr, m)>>}

Ready(j, rep, i, o) ==
  LET c == j.todo[i]
      m == c.metric
  IN /\ Findings(c, j, rep, m, o)
     /\ c.do = "refresh" => PutBefore(j, i, m) \/ Half(j, rep, m, o)
     /\ c.do = "rewrite" =>
          i = 1 /\ Half(j, rep, m, o) /\ o # {} /\ j.draft = {Retold(a) : a \in o}

Pending(j, k, m) == \E i \in DOMAIN j.todo : i < k /\ j.todo[i].metric = m

(* The calls before a position are one of each metric, but for a refresh    *)
(* after a put; what has none left is done.                                 *)
Done(early, j, rep, m, o) == IF early THEN Marked(j, rep, m, o) ELSE Final(j, rep, m, o)

Front(j, now, rep, k, early) ==
  /\ \A i \in DOMAIN j.todo : i < k =>
       /\ Ready(j, rep, i, Of(now, j.todo[i].metric))
       /\ early => j.todo[i].do \notin {"refresh", "rewrite"}
  /\ \A i, l \in DOMAIN j.todo : i < l /\ l < k /\ j.todo[i].metric = j.todo[l].metric =>
       j.todo[i].do = "put" /\ j.todo[l].do = "refresh"
  /\ \A m \in Metrics : ~Pending(j, k, m) => Done(early, j, rep, m, Of(now, m))

(* Nothing is deleted or put but by the calls that are left ...             *)
Late(j, now, rep) == Front(j, now, rep, Len(j.todo) + 1, FALSE)

(* ... or everything will be made anew, from a position on.                 *)
MakesAll(j, rep, k) ==
  /\ \A i \in DOMAIN j.todo : i >= k =>
       /\ j.todo[i].do \in {"put", "refresh"} /\ j.todo[i].metric \in Target(j, rep)
       /\ j.todo[i].do = "refresh" =>
            j.todo[i].names = {<<j.todo[i].metric, ThresholdOf(j.thr, j.todo[i].metric)>>}
  /\ \A m \in Target(j, rep) :
       \E i \in DOMAIN j.todo : i >= k /\ j.todo[i].do = "put" /\ j.todo[i].metric = m
  /\ \A i, l \in DOMAIN j.todo : k <= i /\ i < l /\ j.todo[i].metric = j.todo[l].metric =>
       j.todo[i].do = "put" /\ j.todo[l].do = "refresh"

Early(j, now, rep, k) ==
  /\ k \in DOMAIN j.todo /\ j.todo[k].do = "keep"
  /\ k + 1 \in DOMAIN j.todo /\ j.todo[k + 1].do = "wipe"
  /\ MakesAll(j, rep, k + 2)
  /\ Front(j, now, rep, k, TRUE)

Wiping(j, now, rep) ==
  /\ Len(j.todo) > 0 /\ MakesAll(j, rep, 2)
  /\ \A m \in Target(j, rep) : Remembers(j, rep, m)
  /\ \/ j.todo[1].do = "wipe"
     \/ j.todo[1].do = "clear" /\ j.todo[1].names = NamesOf(now)

InProgress(j, now, rep) ==
  Late(j, now, rep) \/ Wiping(j, now, rep) \/ \E k \in DOMAIN j.todo : Early(j, now, rep, k)

Undisturbed(j) == j.set /\ j.alone /\ Single(j.before)

Progress(j, now, rep) == Undisturbed(j) => InProgress(j, now, rep)

(* The metrics a worker finds, of those CloudWatch has data of.             *)
View(j, rep) == IF Here \/ j.by \notin {"toggle", "bulk"} THEN rep ELSE rep \ Dynamic

(* A run that found the alarms right has nothing to do.                     *)
Silent(j, rep) ==
  Listed /\ FoundRight(j, rep) =>
    \A i \in DOMAIN j.todo : j.todo[i].do = "single" /\ Lost(j.todo[i].metric, rep)

Sound(j, now, rep, off) ==
  /\ Shape(j) /\ ByTheList(j, now, off)
  /\ Progress(j, now, View(j, rep)) /\ Silent(j, rep)

AllSound == \A w \in Workers : Sound(job[w], alarms, reported, Unmonitored)

ResourceInv == Typed /\ Bounded /\ AllSound
-----------------------------------------------------------------------------
(* The places of some metrics have ranks 1, 2, ..., so that InOrder() names *)
(* each of the metrics once.                                                *)
LEMMA RankBelow ==
  ASSUME NEW n \in Nat, NEW I \in SUBSET (1 .. n), NEW i \in I
  PROVE  /\ IsFiniteSet({j \in I : j <= i})
         /\ Rank(I, i) \in 1 .. Cardinality(I)
<1> DEFINE below == {j \in I : j <= i}
<1>0. IsFiniteSet(1 .. n)
  BY FS_Interval
<1>1. IsFiniteSet(I) /\ below \subseteq I
  BY <1>0, FS_Subset
<1>2. IsFiniteSet(below) /\ Cardinality(below) <= Cardinality(I)
  BY <1>1, FS_Subset
<1>3. i \in below
  OBVIOUS
<1>4. Cardinality(below) \in Nat /\ Cardinality(I) \in Nat
  BY <1>1, <1>2, FS_CardinalityType
<1>5. Cardinality(below) # 0
  BY <1>2, <1>3, FS_EmptySet
<1> HIDE DEF below
<1>6. Cardinality(below) \in 1 .. Cardinality(I)
  BY <1>2, <1>4, <1>5
<1> QED  BY <1>2, <1>6 DEF below, Rank

LEMMA RankGrows ==
  ASSUME NEW n \in Nat, NEW I \in SUBSET (1 .. n), NEW i \in I, NEW j \in I, i < j
  PROVE  Rank(I, i) # Rank(I, j)
<1> DEFINE few == {k \in I : k <= i}
           more == {k \in I : k <= j}
<1>1. IsFiniteSet(few) /\ IsFiniteSet(more)
  BY RankBelow
<1>2. few \subseteq more /\ j \in more /\ j \notin few
  <2>1. \A k \in I : k \in Nat /\ (k <= i => k <= j)
    OBVIOUS
  <2>2. j <= j /\ ~(j <= i)
    OBVIOUS
  <2> QED  BY <2>1, <2>2
<1> HIDE DEF few, more
<1>3. Cardinality(few) # Cardinality(more)
  BY <1>1, <1>2, FS_Subset
<1> QED  BY <1>3 DEF few, more, Rank

LEMMA RankOnto ==
  ASSUME NEW n \in Nat, NEW I \in SUBSET (1 .. n)
  PROVE  /\ Cardinality(I) \in Nat
         /\ \A i, j \in I : Rank(I, i) = Rank(I, j) => i = j
         /\ \A k \in 1 .. Cardinality(I) : \E i \in I : Rank(I, i) = k
<1>0. IsFiniteSet(1 .. n)
  BY FS_Interval
<1>1. IsFiniteSet(I)
  BY <1>0, FS_Subset
<1>2. Cardinality(I) \in Nat
  BY <1>1, FS_CardinalityType
<1>3. ASSUME NEW i \in I, NEW j \in I, Rank(I, i) = Rank(I, j) PROVE i = j
  <2>1. ~(i < j) /\ ~(j < i)
    BY <1>3, RankGrows
  <2> QED  BY <2>1
<1> DEFINE rank == [i \in I |-> Rank(I, i)]
           m == Cardinality(I)
<1>4. IsFiniteSet(1 .. m) /\ Cardinality(1 .. m) = m
  BY <1>2, FS_Interval
<1>5. rank \in [I -> 1 .. m]
  BY RankBelow
<1>6. rank \in Injection(I, 1 .. m)
  BY <1>3, <1>5 DEF Injection, IsInjective
<1> HIDE DEF rank
<1>7. rank \in Surjection(I, 1 .. m)
  BY <1>1, <1>4, <1>6, FS_Injection
<1>8. \A k \in 1 .. m : \E i \in I : rank[i] = k
  BY <1>7 DEF Surjection
<1> QED  BY <1>2, <1>3, <1>8 DEF rank

LEMMA OrderFacts ==
  /\ Order \in Seq(Metrics) /\ Len(Order) \in Nat /\ DOMAIN Order = 1 .. Len(Order)
  /\ \A i \in DOMAIN Order : Order[i] \in Metrics
  /\ \A m \in Metrics : \E i \in DOMAIN Order : Order[i] = m
  /\ \A i, j \in DOMAIN Order : Order[i] = Order[j] => i = j
<1>1. Order \in Seq(Metrics)
  BY PlanAssumption
<1> QED  BY <1>1, PlanAssumption

LEMMA InOrderFacts ==
  ASSUME NEW S \in SUBSET Metrics
  PROVE  LET s == InOrder(S) IN
         /\ s \in Seq(S) /\ Len(s) \in Nat /\ DOMAIN s = 1 .. Len(s)
         /\ \A k, l \in DOMAIN s : s[k] = s[l] => k = l
         /\ \A m \in S : \E k \in DOMAIN s : s[k] = m
<1> DEFINE I == Places(S)
           n == Cardinality(I)
           f == [k \in 1 .. n |-> CHOOSE i \in I : Rank(I, i) = k]
           s == InOrder(S)
<1>1. I \in SUBSET (1 .. Len(Order)) /\ Len(Order) \in Nat
  BY OrderFacts DEF Places
<1>2. n \in Nat
  BY <1>1, RankOnto
<1>3. \A k \in 1 .. n : f[k] \in I /\ Rank(I, f[k]) = k
  BY <1>1, RankOnto
<1>4. \A i \in I : Rank(I, i) \in 1 .. n
  BY <1>1, RankBelow
<1>5. \A i \in I : f[Rank(I, i)] = i
  BY <1>1, <1>3, <1>4, RankOnto
<1>6. s = [k \in 1 .. n |-> Order[f[k]]]
  BY DEF InOrder
<1>7. \A i \in I : i \in DOMAIN Order /\ Order[i] \in S
  BY DEF Places
<1>8. \A m \in S : \E i \in I : Order[i] = m
  BY OrderFacts DEF Places
<1> HIDE DEF I, n, f, s
<1>9. \A k \in 1 .. n : s[k] = Order[f[k]] /\ s[k] \in S
  BY <1>3, <1>6, <1>7
<1>10. s \in Seq(S) /\ Len(s) = n /\ DOMAIN s = 1 .. n
  BY <1>2, <1>6, <1>9
<1>11. ASSUME NEW k \in DOMAIN s, NEW l \in DOMAIN s, s[k] = s[l] PROVE k = l
  <2>1. Order[f[k]] = Order[f[l]] /\ f[k] \in DOMAIN Order /\ f[l] \in DOMAIN Order
    BY <1>3, <1>7, <1>9, <1>10, <1>11
  <2>2. f[k] = f[l]
    BY <2>1, OrderFacts
  <2> QED  BY <1>3, <1>10, <2>2
<1>12. ASSUME NEW m \in S PROVE \E k \in DOMAIN s : s[k] = m
  <2>1. PICK i \in I : Order[i] = m
    BY <1>8
  <2> QED  BY <1>4, <1>5, <1>9, <1>10, <2>1
<1> QED  BY <1>2, <1>10, <1>11, <1>12 DEF s
-----------------------------------------------------------------------------
(* A sequence makes each call of a set once, and no two of a metric.        *)
Lists(s, C) ==
  /\ s \in Seq(CallType)
  /\ \A i \in DOMAIN s : s[i] \in C
  /\ \A c \in C : \E i \in DOMAIN s : s[i] = c
  /\ \A i, l \in DOMAIN s : s[i].metric = s[l].metric => i = l

LEMMA SeqFacts ==
  ASSUME NEW s \in Seq(CallType)
  PROVE  /\ Len(s) \in Nat /\ DOMAIN s = 1 .. Len(s)
         /\ \A i \in DOMAIN s : s[i] \in CallType
OBVIOUS

LEMMA JoinFacts ==
  ASSUME NEW s \in Seq(CallType), NEW t \in Seq(CallType)
  PROVE  /\ s \o t \in Seq(CallType) /\ Len(s \o t) = Len(s) + Len(t)
         /\ DOMAIN (s \o t) = 1 .. Len(s) + Len(t)
         /\ Len(s) \in Nat /\ Len(t) \in Nat
         /\ DOMAIN s = 1 .. Len(s) /\ DOMAIN t = 1 .. Len(t)
         /\ \A i \in DOMAIN (s \o t) :
              \/ i \in DOMAIN s /\ (s \o t)[i] = s[i]
              \/ i - Len(s) \in DOMAIN t /\ i > Len(s) /\ (s \o t)[i] = t[i - Len(s)]
         /\ \A i \in DOMAIN s : i \in DOMAIN (s \o t) /\ (s \o t)[i] = s[i]
         /\ \A i \in DOMAIN t :
              i + Len(s) \in DOMAIN (s \o t) /\ i + Len(s) > Len(s) /\ (s \o t)[i + Len(s)] = t[i]
OBVIOUS

LEMMA ListsJoin ==
  ASSUME NEW s, NEW t, NEW C, NEW D, Lists(s, C), Lists(t, D),
         \A c \in C, d \in D : c.metric # d.metric
  PROVE  Lists(s \o t, C \cup D)
<1> DEFINE u == s \o t
<1>1. s \in Seq(CallType) /\ t \in Seq(CallType)
  BY DEF Lists
<1>2. u \in Seq(CallType)
  BY <1>1, JoinFacts
<1>3. \A i \in DOMAIN u : \/ i \in DOMAIN s /\ u[i] = s[i]
                          \/ i - Len(s) \in DOMAIN t /\ u[i] = t[i - Len(s)]
  BY <1>1, JoinFacts
<1>4. /\ \A i \in DOMAIN s : i \in DOMAIN u /\ u[i] = s[i]
      /\ \A i \in DOMAIN t : i + Len(s) \in DOMAIN u /\ u[i + Len(s)] = t[i]
  BY <1>1, JoinFacts
<1>5. Len(s) \in Nat /\ DOMAIN u \subseteq Nat
  BY <1>1, JoinFacts
<1> HIDE DEF u
<1>6. \A i \in DOMAIN u : u[i] \in C \cup D
  BY <1>3 DEF Lists
<1>7. \A c \in C \cup D : \E i \in DOMAIN u : u[i] = c
  BY <1>4 DEF Lists
<1>8. ASSUME NEW i \in DOMAIN u, NEW l \in DOMAIN u, u[i].metric = u[l].metric PROVE i = l
  <2>1. CASE i \in DOMAIN s /\ u[i] = s[i] /\ l \in DOMAIN s /\ u[l] = s[l]
    BY <1>8, <2>1 DEF Lists
  <2>2. CASE /\ i - Len(s) \in DOMAIN t /\ u[i] = t[i - Len(s)]
             /\ l - Len(s) \in DOMAIN t /\ u[l] = t[l - Len(s)]
    <3>1. i - Len(s) = l - Len(s)
      BY <1>8, <2>2 DEF Lists
    <3> QED  BY <1>5, <3>1
  <2>3. CASE \/ i \in DOMAIN s /\ u[i] = s[i] /\ l - Len(s) \in DOMAIN t /\ u[l] = t[l - Len(s)]
             \/ l \in DOMAIN s /\ u[l] = s[l] /\ i - Len(s) \in DOMAIN t /\ u[i] = t[i - Len(s)]
    BY <1>8, <2>3 DEF Lists
  <2> QED  BY <1>3, <2>1, <2>2, <2>3
<1> QED  BY <1>2, <1>6, <1>7, <1>8 DEF u, Lists
-----------------------------------------------------------------------------
(* The calls of a plan.                                                     *)
LEMMA ThresholdTyped ==
  ASSUME NEW thr \in [Metrics -> Settings], NEW m \in Metrics
  PROVE  ThresholdOf(thr, m) \in Thresholds
BY PlanAssumption DEF ThresholdOf

LEMMA MetricKinds ==
  /\ Standard \subseteq Metrics /\ Disks \subseteq Metrics /\ Dynamic \subseteq Metrics
  /\ \A m \in Standard : m \notin Disks /\ m \notin Dynamic
  /\ \A m \in Disks : m \notin Standard /\ m \notin Dynamic
  /\ \A m \in Dynamic : m \notin Standard /\ m \notin Disks
BY PlanAssumption DEF Metrics

LEMMA AlarmFields ==
  ASSUME NEW a \in AlarmType
  PROVE  /\ a.metric \in Metrics /\ a.threshold \in Thresholds /\ a.sound \in SUBSET Parts
         /\ a.tag \in {"registry", "chosen", "none"} /\ a.told \in {"registry", "chosen", "none"}
         /\ NameOf(a) = <<a.metric, a.threshold>> /\ NameOf(a) \in Metrics \X Thresholds
BY DEF AlarmType, NameOf, Severities

LEMMA CallFields ==
  ASSUME NEW do, NEW m, NEW names
  PROVE  /\ Call(do, m, names).do = do /\ Call(do, m, names).metric = m
         /\ Call(do, m, names).names = names /\ Call(do, m, names).strict = FALSE
BY DEF Call

LEMMA CallTyped ==
  ASSUME NEW do \in Deeds \cup Edits \cup Asks, NEW m \in Metrics \cup {"all"},
         NEW names \in SUBSET (Metrics \X Thresholds),
         do \in OnMetric \cup Edits => m \in Metrics
  PROVE  Call(do, m, names) \in CallType
BY DEF Call, CallType

LEMMA TypedCall ==
  ASSUME NEW c \in CallType
  PROVE  /\ c.do \in Deeds \cup Edits \cup Asks /\ c.metric \in Metrics \cup {"all"}
         /\ c.names \in SUBSET (Metrics \X Thresholds) /\ c.strict \in BOOLEAN
         /\ c.do \in OnMetric \cup Edits => c.metric \in Metrics
         /\ c = [do |-> c.do, metric |-> c.metric, names |-> c.names, strict |-> c.strict]
BY DEF CallType

(* What is known of a metric is an alarm of it.                             *)
Known(known, now) ==
  /\ DOMAIN known \subseteq Metrics
  /\ \A m \in DOMAIN known : known[m] \in now /\ known[m] \in AlarmType /\ known[m].metric = m

LEMMA NothingKnown == Known(<<>>, {})
<1>1. DOMAIN <<>> = {}
  OBVIOUS
<1> QED  BY <1>1 DEF Known

CallsFor(dos, known) == {CallFor(dos[m], known, m) : m \in DOMAIN dos}

LEMMA CallForFacts ==
  ASSUME NEW now, NEW known, Known(known, now), NEW m \in Metrics, NEW do \in OnMetric
  PROVE  /\ CallFor(do, known, m) \in CallType
         /\ CallFor(do, known, m).metric = m
         /\ CallFor(do, known, m).do = do
<1> DEFINE names == IF m \in DOMAIN known THEN {NameOf(known[m])} ELSE {}
<1>1. names \in SUBSET (Metrics \X Thresholds)
  <2>1. ASSUME m \in DOMAIN known PROVE NameOf(known[m]) \in Metrics \X Thresholds
    BY <2>1, AlarmFields DEF Known
  <2> QED  BY <2>1
<1>2. do \in Deeds \cup Edits \cup Asks
  BY DEF Deeds
<1>3. CallFor(do, known, m) = Call(do, m, names)
  BY DEF CallFor
<1> HIDE DEF names
<1>4. Call(do, m, names) \in CallType
  BY <1>1, <1>2, CallTyped
<1>5. Call(do, m, names).do = do /\ Call(do, m, names).metric = m
  BY DEF Call
<1> QED  BY <1>3, <1>4, <1>5

LEMMA CallForNames ==
  ASSUME NEW known, NEW do, NEW m \in DOMAIN known
  PROVE  CallFor(do, known, m).names = {NameOf(known[m])}
BY DEF CallFor, Call

LEMMA EachFacts ==
  ASSUME NEW now, NEW known, Known(known, now), NEW dos, DOMAIN dos \subseteq Metrics,
         \A m \in DOMAIN dos : dos[m] \in OnMetric
  PROVE  Lists(Each(dos, known), CallsFor(dos, known))
<1> DEFINE s == InOrder(DOMAIN dos)
           e == Each(dos, known)
<1>1. /\ s \in Seq(DOMAIN dos) /\ Len(s) \in Nat /\ DOMAIN s = 1 .. Len(s)
      /\ \A k, l \in DOMAIN s : s[k] = s[l] => k = l
      /\ \A m \in DOMAIN dos : \E k \in DOMAIN s : s[k] = m
  BY InOrderFacts
<1>2. \A k \in DOMAIN s : s[k] \in DOMAIN dos
  BY <1>1
<1>3. e = [i \in DOMAIN s |-> CallFor(dos[s[i]], known, s[i])]
  BY DEF Each
<1> HIDE DEF s, e
<1>4. ASSUME NEW m \in DOMAIN dos
      PROVE  CallFor(dos[m], known, m) \in CallType /\ CallFor(dos[m], known, m).metric = m
  <2>1. m \in Metrics /\ dos[m] \in OnMetric
    OBVIOUS
  <2> QED  BY <2>1, CallForFacts
<1>5. DOMAIN e = DOMAIN s /\ \A i \in DOMAIN s : e[i] = CallFor(dos[s[i]], known, s[i])
  BY <1>3
<1>6. \A i \in DOMAIN s : e[i] \in CallType /\ e[i].metric = s[i]
  BY <1>2, <1>4, <1>5
<1>7. e \in Seq(CallType)
  BY <1>1, <1>3, <1>5, <1>6
<1>8. \A i \in DOMAIN e : e[i] \in CallsFor(dos, known)
  BY <1>2, <1>5 DEF CallsFor
<1>9. \A c \in CallsFor(dos, known) : \E i \in DOMAIN e : e[i] = c
  BY <1>1, <1>5 DEF CallsFor
<1>10. \A i, l \in DOMAIN e : e[i].metric = e[l].metric => i = l
  BY <1>1, <1>5, <1>6
<1> QED  BY <1>7, <1>8, <1>9, <1>10 DEF e, Lists

CallsOn(do, S, known) == {CallFor(do, known, m) : m \in S}

LEMMA CallsOnFacts ==
  ASSUME NEW now, NEW known, Known(known, now), NEW S \in SUBSET Metrics, NEW do \in OnMetric
  PROVE  /\ \A c \in CallsOn(do, S, known) :
              c.metric \in S /\ c.do = do /\ c = CallFor(do, known, c.metric)
         /\ \A m \in S : \E c \in CallsOn(do, S, known) : c.metric = m /\ c.do = do
<1>1. ASSUME NEW m \in S
      PROVE  /\ CallFor(do, known, m) \in CallsOn(do, S, known)
             /\ CallFor(do, known, m).metric = m /\ CallFor(do, known, m).do = do
  BY CallForFacts DEF CallsOn
<1>2. ASSUME NEW c \in CallsOn(do, S, known)
      PROVE  c.metric \in S /\ c.do = do /\ c = CallFor(do, known, c.metric)
  <2>1. PICK m \in S : c = CallFor(do, known, m)
    BY DEF CallsOn
  <2> QED  BY <1>1, <2>1
<1> QED  BY <1>1, <1>2

LEMMA DoingLists ==
  ASSUME NEW now, NEW known, Known(known, now), NEW S \in SUBSET Metrics, NEW do \in OnMetric
  PROVE  Lists(Each(Doing(do, S), known), CallsOn(do, S, known))
<1> DEFINE dos == Doing(do, S)
<1>1. DOMAIN dos = S /\ \A m \in S : dos[m] = do
  BY DEF Doing
<1> HIDE DEF dos
<1>2. DOMAIN dos \subseteq Metrics /\ \A m \in DOMAIN dos : dos[m] \in OnMetric
  BY <1>1
<1>3. Lists(Each(dos, known), CallsFor(dos, known))
  BY <1>2, EachFacts, Zenon
<1>4. CallsFor(dos, known) = CallsOn(do, S, known)
  BY <1>1 DEF CallsFor, CallsOn
<1> QED  BY <1>3, <1>4 DEF dos
-----------------------------------------------------------------------------
(* What each part of a sync's plan is about.                                *)
Offs(thr, known) == SwitchedOff(thr, known)
News(thr, known) == Asked(thr) \ (Dynamic \cap DOMAIN known)
Stale(thr, known) == {m \in Dynamic \cap DOMAIN known : m \in Asked(thr) => Drifted(thr, known[m])}
Gone(thr, known) == {m \in Stale(thr, known) : m \notin Asked(thr)}
Turned(thr, known) == {m \in Stale(thr, known) : m \in Asked(thr)}
Drift(thr, known, seen) == {m \in Judged(thr, known, seen) : Drifted(thr, known[m])}

LEMMA PartsAre ==
  ASSUME NEW thr \in [Metrics -> Settings], NEW known, NEW seen,
         DOMAIN known \subseteq Metrics
  PROVE  /\ Offs(thr, known) \subseteq Standard /\ Offs(thr, known) \subseteq DOMAIN known
         /\ \A m \in Offs(thr, known) : IsOff(thr, m)
         /\ News(thr, known) \subseteq Dynamic /\ News(thr, known) \cap DOMAIN known = {}
         /\ Stale(thr, known) \subseteq Dynamic /\ Stale(thr, known) \subseteq DOMAIN known
         /\ Judged(thr, known, seen) \subseteq (Standard \cup Disks) \cap DOMAIN known
         /\ \A m \in Judged(thr, known, seen) : ~IsOff(thr, m)
         /\ NewDisk(known, seen) => Judged(thr, known, seen) \subseteq Standard
         /\ Drift(thr, known, seen) \subseteq Judged(thr, known, seen)
         /\ Missing(thr, known) \subseteq Standard /\ Missing(thr, known) \cap DOMAIN known = {}
         /\ \A m \in Missing(thr, known) : ~IsOff(thr, m)
         /\ Untold(thr, known, seen) \subseteq Judged(thr, known, seen) \cup (Asked(thr) \cap DOMAIN known)
         /\ Untold(thr, known, seen) \cap Drift(thr, known, seen) = {}
         /\ Untold(thr, known, seen) \cap Stale(thr, known) = {}
         /\ Asked(thr) \subseteq Dynamic
<1>1. Asked(thr) \subseteq Dynamic
  BY DEF Asked
<1>2. /\ Offs(thr, known) \subseteq Standard /\ Offs(thr, known) \subseteq DOMAIN known
      /\ \A m \in Offs(thr, known) : IsOff(thr, m)
  BY DEF Offs, SwitchedOff
<1>3. /\ News(thr, known) \subseteq Dynamic /\ News(thr, known) \cap DOMAIN known = {}
      /\ Stale(thr, known) \subseteq Dynamic /\ Stale(thr, known) \subseteq DOMAIN known
  BY <1>1 DEF News, Stale
<1>4. /\ Judged(thr, known, seen) \subseteq (Standard \cup Disks) \cap DOMAIN known
      /\ \A m \in Judged(thr, known, seen) : ~IsOff(thr, m)
      /\ NewDisk(known, seen) => Judged(thr, known, seen) \subseteq Standard
      /\ Drift(thr, known, seen) \subseteq Judged(thr, known, seen)
  BY DEF Judged, Drift
<1>5. /\ Missing(thr, known) \subseteq Standard /\ Missing(thr, known) \cap DOMAIN known = {}
      /\ \A m \in Missing(thr, known) : ~IsOff(thr, m)
  BY DEF Missing
<1>6. Untold(thr, known, seen) \subseteq Judged(thr, known, seen) \cup (Asked(thr) \cap DOMAIN known)
  BY DEF Untold
<1>7. \A m \in Untold(thr, known, seen) : ~Drifted(thr, known[m])
  BY DEF Untold
<1>8. Untold(thr, known, seen) \cap Drift(thr, known, seen) = {}
  BY <1>7 DEF Drift
<1>9. Untold(thr, known, seen) \cap Stale(thr, known) = {}
  <2>1. ASSUME NEW m \in Untold(thr, known, seen) \cap Stale(thr, known) PROVE FALSE
    <3>1. m \in Dynamic /\ m \notin Standard /\ m \notin Disks
      BY <1>3, MetricKinds
    <3>2. m \in Asked(thr)
      BY <1>4, <1>6, <3>1
    <3> QED  BY <1>7, <3>2 DEF Stale
  <2> QED  BY <2>1
<1> QED  BY <1>1, <1>2, <1>3, <1>4, <1>5, <1>6, <1>8, <1>9
-----------------------------------------------------------------------------
(* The plans.                                                               *)
StaleCalls(thr, known) ==
  CallsOn("delete", Gone(thr, known), known) \cup CallsOn("read", Turned(thr, known), known)

FirstCalls(thr, known) ==
  CallsOn("delete", Offs(thr, known), known)
    \cup (CallsOn("single", News(thr, known), known) \cup StaleCalls(thr, known))

LEMMA StaleLists ==
  ASSUME NEW now, NEW known, Known(known, now), NEW thr \in [Metrics -> Settings]
  PROVE  Lists(Each([m \in Stale(thr, known) |-> IF m \in Asked(thr) THEN "read" ELSE "delete"], known),
               StaleCalls(thr, known))
<1> DEFINE dos == [m \in Stale(thr, known) |-> IF m \in Asked(thr) THEN "read" ELSE "delete"]
<1>1. DOMAIN dos = Stale(thr, known) /\ \A m \in Stale(thr, known) : dos[m] \in {"read", "delete"}
  OBVIOUS
<1>2. \A m \in Stale(thr, known) : m \in Metrics
  BY PartsAre, MetricKinds DEF Known
<1>3. /\ \A m \in Gone(thr, known) : m \in Stale(thr, known) /\ dos[m] = "delete"
      /\ \A m \in Turned(thr, known) : m \in Stale(thr, known) /\ dos[m] = "read"
      /\ \A m \in Stale(thr, known) : m \in Gone(thr, known) \/ m \in Turned(thr, known)
  BY DEF Gone, Turned
<1> HIDE DEF dos
<1>4. DOMAIN dos \subseteq Metrics /\ \A m \in DOMAIN dos : dos[m] \in OnMetric
  BY <1>1, <1>2 DEF OnMetric
<1>5. Lists(Each(dos, known), CallsFor(dos, known))
  BY <1>4, EachFacts, Zenon
<1>6. CallsFor(dos, known) = StaleCalls(thr, known)
  <2>1. ASSUME NEW c \in CallsFor(dos, known) PROVE c \in StaleCalls(thr, known)
    <3>1. PICK m \in Stale(thr, known) : c = CallFor(dos[m], known, m)
      BY <1>1 DEF CallsFor
    <3> QED  BY <1>3, <3>1 DEF StaleCalls, CallsOn
  <2>2. ASSUME NEW c \in StaleCalls(thr, known) PROVE c \in CallsFor(dos, known)
    <3>1. CASE c \in CallsOn("delete", Gone(thr, known), known)
      <4>1. PICK m \in Gone(thr, known) : c = CallFor("delete", known, m)
        BY <3>1 DEF CallsOn
      <4> QED  BY <1>1, <1>3, <4>1 DEF CallsFor
    <3>2. CASE c \in CallsOn("read", Turned(thr, known), known)
      <4>1. PICK m \in Turned(thr, known) : c = CallFor("read", known, m)
        BY <3>2 DEF CallsOn
      <4> QED  BY <1>1, <1>3, <4>1 DEF CallsFor
    <3> QED  BY <3>1, <3>2 DEF StaleCalls
  <2> QED  BY <2>1, <2>2
<1> QED  BY <1>5, <1>6 DEF dos

(* What each of the first calls is.                                         *)
LEMMA FirstCallsAre ==
  ASSUME NEW now, NEW known, Known(known, now), NEW thr \in [Metrics -> Settings],
         NEW c \in FirstCalls(thr, known)
  PROVE  \/ c.do = "delete" /\ c.metric \in Offs(thr, known) \cup Gone(thr, known)
              /\ c = CallFor("delete", known, c.metric)
         \/ c.do = "single" /\ c.metric \in News(thr, known)
         \/ c.do = "read" /\ c.metric \in Turned(thr, known) /\ c = CallFor("read", known, c.metric)
<1>1. /\ Offs(thr, known) \in SUBSET Metrics /\ Gone(thr, known) \in SUBSET Metrics
      /\ News(thr, known) \in SUBSET Metrics /\ Turned(thr, known) \in SUBSET Metrics
  BY PartsAre, MetricKinds DEF Known, Gone, Turned
<1>2. "delete" \in OnMetric /\ "single" \in OnMetric /\ "read" \in OnMetric
  BY DEF OnMetric
<1>3. CASE c \in CallsOn("delete", Offs(thr, known), known)
  BY <1>1, <1>2, <1>3, CallsOnFacts
<1>4. CASE c \in CallsOn("single", News(thr, known), known)
  BY <1>1, <1>2, <1>4, CallsOnFacts
<1>5. CASE c \in CallsOn("delete", Gone(thr, known), known)
  BY <1>1, <1>2, <1>5, CallsOnFacts
<1>6. CASE c \in CallsOn("read", Turned(thr, known), known)
  BY <1>1, <1>2, <1>6, CallsOnFacts
<1> QED  BY <1>3, <1>4, <1>5, <1>6 DEF FirstCalls, StaleCalls

LEMMA FirstCallsFor ==
  ASSUME NEW now, NEW known, Known(known, now), NEW thr \in [Metrics -> Settings],
         NEW m \in Offs(thr, known) \cup News(thr, known) \cup Stale(thr, known)
  PROVE  \E c \in FirstCalls(thr, known) : c.metric = m
<1>1. /\ Offs(thr, known) \in SUBSET Metrics /\ Gone(thr, known) \in SUBSET Metrics
      /\ News(thr, known) \in SUBSET Metrics /\ Turned(thr, known) \in SUBSET Metrics
  BY PartsAre, MetricKinds DEF Known, Gone, Turned
<1>2. "delete" \in OnMetric /\ "single" \in OnMetric /\ "read" \in OnMetric
  BY DEF OnMetric
<1>3. CASE m \in Offs(thr, known)
  BY <1>1, <1>2, <1>3, CallsOnFacts DEF FirstCalls
<1>4. CASE m \in News(thr, known)
  BY <1>1, <1>2, <1>4, CallsOnFacts DEF FirstCalls
<1>5. CASE m \in Gone(thr, known)
  BY <1>1, <1>2, <1>5, CallsOnFacts DEF FirstCalls, StaleCalls
<1>6. CASE m \in Turned(thr, known)
  BY <1>1, <1>2, <1>6, CallsOnFacts DEF FirstCalls, StaleCalls
<1> QED  BY <1>3, <1>4, <1>5, <1>6 DEF Gone, Turned

LEMMA FirstLists ==
  ASSUME NEW now, NEW known, Known(known, now), NEW thr \in [Metrics -> Settings]
  PROVE  Lists(Each(Doing("delete", SwitchedOff(thr, known)), known) \o SyncDynamic(thr, known),
               FirstCalls(thr, known))
<1> DEFINE a == Each(Doing("delete", Offs(thr, known)), known)
           b == Each(Doing("single", News(thr, known)), known)
           c == Each([m \in Stale(thr, known) |-> IF m \in Asked(thr) THEN "read" ELSE "delete"], known)
           A == CallsOn("delete", Offs(thr, known), known)
           B == CallsOn("single", News(thr, known), known)
           C == StaleCalls(thr, known)
<1>1. /\ Offs(thr, known) \in SUBSET Metrics /\ Gone(thr, known) \in SUBSET Metrics
      /\ News(thr, known) \in SUBSET Metrics /\ Turned(thr, known) \in SUBSET Metrics
  BY PartsAre, MetricKinds DEF Known, Gone, Turned
<1>2. "delete" \in OnMetric /\ "single" \in OnMetric /\ "read" \in OnMetric
  BY DEF OnMetric
<1>3. Lists(a, A) /\ Lists(b, B)
  BY <1>1, <1>2, DoingLists
<1>4. Lists(c, C)
  BY StaleLists
<1>5. \A x \in A : x.metric \in Offs(thr, known)
  BY <1>1, <1>2, CallsOnFacts
<1>6. \A x \in B : x.metric \in News(thr, known)
  BY <1>1, <1>2, CallsOnFacts
<1>7. \A x \in C : x.metric \in Stale(thr, known)
  BY <1>1, <1>2, CallsOnFacts DEF StaleCalls, Gone, Turned
<1>8. SyncDynamic(thr, known) = b \o c
  BY DEF SyncDynamic, News, Stale
<1>9. a = Each(Doing("delete", SwitchedOff(thr, known)), known)
  BY DEF Offs
<1> HIDE DEF a, b, c
<1>10. \A x \in B, y \in C : x.metric # y.metric
  BY <1>6, <1>7, PartsAre DEF Known
<1>11. \A x \in A, y \in B \cup C : x.metric # y.metric
  BY <1>5, <1>6, <1>7, PartsAre, MetricKinds DEF Known
<1> HIDE DEF A, B, C
<1>12. Lists(b \o c, B \cup C)
  BY <1>3, <1>4, <1>10, ListsJoin
<1>13. Lists(a \o (b \o c), A \cup (B \cup C))
  BY <1>3, <1>11, <1>12, ListsJoin
<1> QED  BY <1>8, <1>9, <1>13 DEF A, B, C, FirstCalls
-----------------------------------------------------------------------------
(* A call is made: it leaves the others, or makes way for another one.      *)
LEMMA TailFacts ==
  ASSUME NEW s \in Seq(CallType), s # <<>>
  PROVE  /\ Tail(s) \in Seq(CallType) /\ <<>> \o Tail(s) = Tail(s)
         /\ Len(s) \in Nat /\ Len(s) > 0 /\ Len(Tail(s)) = Len(s) - 1
         /\ DOMAIN s = 1 .. Len(s) /\ DOMAIN Tail(s) = 1 .. Len(s) - 1
         /\ Head(s) = s[1] /\ s[1] \in CallType
         /\ \A i \in DOMAIN Tail(s) : i + 1 \in DOMAIN s /\ i + 1 > 1 /\ Tail(s)[i] = s[i + 1]
         /\ \A i \in DOMAIN s : i # 1 => i - 1 \in DOMAIN Tail(s) /\ Tail(s)[i - 1] = s[i]
<1>1. <<>> \o Tail(s) = Tail(s)
  OBVIOUS
<1> QED  BY <1>1

LEMMA SwapFacts ==
  ASSUME NEW s \in Seq(CallType), s # <<>>, NEW c \in CallType
  PROVE  /\ <<c>> \o Tail(s) \in Seq(CallType) /\ Len(<<c>> \o Tail(s)) = Len(s)
         /\ DOMAIN (<<c>> \o Tail(s)) = DOMAIN s /\ (<<c>> \o Tail(s))[1] = c
         /\ \A i \in DOMAIN s : i # 1 => (<<c>> \o Tail(s))[i] = s[i]
OBVIOUS

(* Two jobs that differ in one metric, and two sets of alarms.              *)
Beside(j, j1, m) ==
  /\ j1.thr = j.thr /\ j1.before = j.before
  /\ \A m2 \in Metrics : m2 # m => j1.kept[m2] = j.kept[m2]

Elsewhere(now, now1, m) == \A m2 \in Metrics : m2 # m => Of(now1, m2) = Of(now, m2)

LEMMA SameHalf ==
  ASSUME NEW j, NEW j1, NEW m, Beside(j, j1, m), NEW rep, NEW m2, NEW o
  PROVE  Half(j, rep, m2, o) => Half(j1, rep, m2, o)
BY DEF Half, Chosen, Beside

LEMMA SameDone ==
  ASSUME NEW j, NEW j1, NEW m, Beside(j, j1, m), NEW rep, NEW m2, NEW o, NEW early
  PROVE  Done(early, j, rep, m2, o) => Done(early, j1, rep, m2, o)
BY DEF Done, Final, Marked, Target, Chosen, Beside

LEMMA SameFindings ==
  ASSUME NEW j, NEW j1, NEW m, Beside(j, j1, m), NEW rep, NEW o, NEW c,
         NEW m2 \in Metrics, m2 # m, Findings(c, j, rep, m2, o)
  PROVE  Findings(c, j1, rep, m2, o)
<1>1. /\ Target(j1, rep) = Target(j, rep) /\ j1.kept[m2] = j.kept[m2] /\ j1.thr = j.thr
      /\ Same(j, m2, o) = Same(j1, m2, o) /\ Chosen(j, m2) = Chosen(j1, m2)
  BY DEF Target, Same, Chosen, Beside
<1>2. Remembers(j, rep, m2) = Remembers(j1, rep, m2)
  BY <1>1 DEF Remembers
<1> QED  BY <1>1, <1>2 DEF Findings

(* The first call is made, and its metric done.                             *)
LEMMA FrontTail ==
  ASSUME NEW j, NEW j1, NEW now, NEW now1, NEW rep, NEW k \in Nat, NEW early \in BOOLEAN,
         j.todo \in Seq(CallType), j.todo # <<>>, j1.todo = Tail(j.todo), k > 1,
         NEW m \in Metrics, m = j.todo[1].metric,
         Beside(j, j1, m), Elsewhere(now, now1, m), Front(j, now, rep, k, early),
         Done(early, j1, rep, m, Of(now1, m)),
         j.todo[1].do = "put" => Half(j1, rep, m, Of(now1, m))
  PROVE  Front(j1, now1, rep, k - 1, early)
<1> DEFINE t == j.todo
           t1 == j1.todo
<1>1. \A i \in DOMAIN t1 : i \in Nat /\ i + 1 \in DOMAIN t /\ i + 1 > 1 /\ t1[i] = t[i + 1]
  BY TailFacts
<1>2. \A i \in DOMAIN t : i \in Nat /\ (i # 1 => i - 1 \in DOMAIN t1 /\ t1[i - 1] = t[i])
  BY TailFacts
<1>3. 1 \in DOMAIN t
  BY TailFacts
<1>4. /\ \A i \in DOMAIN t : i < k =>
           /\ Ready(j, rep, i, Of(now, t[i].metric))
           /\ early => t[i].do \notin {"refresh", "rewrite"}
      /\ \A i, l \in DOMAIN t : i < l /\ l < k /\ t[i].metric = t[l].metric =>
           t[i].do = "put" /\ t[l].do = "refresh"
      /\ \A m2 \in Metrics : ~Pending(j, k, m2) => Done(early, j, rep, m2, Of(now, m2))
  BY DEF Front
<1>5. \A i \in DOMAIN t : t[i] \in CallType
  BY SeqFacts
<1>6. \A i \in DOMAIN t1 : i < k - 1 => i + 1 < k
  BY <1>1
<1> HIDE DEF t, t1
<1>7. ASSUME NEW i \in DOMAIN t1, i < k - 1
      PROVE  /\ Ready(j1, rep, i, Of(now1, t1[i].metric))
             /\ early => t1[i].do \notin {"refresh", "rewrite"}
  <2> DEFINE m2 == t1[i].metric
  <2>1. i + 1 \in DOMAIN t /\ i + 1 < k /\ i + 1 # 1 /\ t1[i] = t[i + 1]
    BY <1>1, <1>6, <1>7
  <2>2. /\ Ready(j, rep, i + 1, Of(now, m2))
        /\ early => t1[i].do \notin {"refresh", "rewrite"}
    BY <1>4, <2>1
  <2>3. Findings(t1[i], j, rep, m2, Of(now, m2)) /\ t1[i].do # "rewrite"
    BY <2>1, <2>2 DEF Ready, t
  <2>4. m2 \in Metrics
    BY <1>5, <2>1, <2>3, TypedCall DEF Findings
  <2>5. CASE m2 # m
    <3>1. Of(now1, m2) = Of(now, m2)
      BY <2>4, <2>5 DEF Elsewhere
    <3>2. Findings(t1[i], j1, rep, m2, Of(now1, m2))
      BY <2>3, <2>4, <2>5, <3>1, SameFindings
    <3>3. ASSUME t1[i].do = "refresh" PROVE PutBefore(j1, i, m2) \/ Half(j1, rep, m2, Of(now1, m2))
      <4>1. PutBefore(j, i + 1, m2) \/ Half(j, rep, m2, Of(now, m2))
        BY <2>1, <2>2, <3>3 DEF Ready, t
      <4>2. CASE PutBefore(j, i + 1, m2)
        <5>1. PICK l \in DOMAIN t : l < i + 1 /\ t[l].metric = m2 /\ t[l].do = "put"
          BY <4>2 DEF PutBefore, t
        <5>2. l # 1
          BY <2>5, <5>1 DEF t
        <5>3. l - 1 \in DOMAIN t1 /\ t1[l - 1] = t[l] /\ l - 1 < i
          BY <1>1, <1>2, <5>1, <5>2
        <5> QED  BY <5>1, <5>3 DEF PutBefore, t1
      <4>3. CASE Half(j, rep, m2, Of(now, m2))
        BY <3>1, <4>3, SameHalf
      <4> QED  BY <4>1, <4>2, <4>3
    <3> QED  BY <2>2, <2>3, <3>2, <3>3 DEF Ready, t1
  <2>6. CASE m2 = m
    <3>1. t[1].do = "put" /\ t1[i].do = "refresh"
      BY <1>1, <1>3, <1>4, <2>1, <2>6 DEF t
    <3>2. Half(j1, rep, m, Of(now1, m))
      BY <3>1 DEF t
    <3>3. Findings(t1[i], j1, rep, m2, Of(now1, m2))
      BY <2>3, <3>1 DEF Findings, Beside
    <3> QED  BY <2>2, <2>6, <3>1, <3>2, <3>3 DEF Ready, t1
  <2> QED  BY <2>5, <2>6
<1>8. ASSUME NEW i \in DOMAIN t1, NEW l \in DOMAIN t1, i < l, l < k - 1, t1[i].metric = t1[l].metric
      PROVE  t1[i].do = "put" /\ t1[l].do = "refresh"
  <2>1. /\ i + 1 \in DOMAIN t /\ t1[i] = t[i + 1] /\ l + 1 \in DOMAIN t /\ t1[l] = t[l + 1]
        /\ i + 1 < l + 1 /\ l + 1 < k
    BY <1>1, <1>6, <1>8
  <2> QED  BY <1>4, <1>8, <2>1
<1>9. ASSUME NEW m2 \in Metrics, ~Pending(j1, k - 1, m2)
      PROVE  Done(early, j1, rep, m2, Of(now1, m2))
  <2>1. CASE m2 # m
    <3>1. ASSUME Pending(j, k, m2) PROVE FALSE
      <4>1. PICK i \in DOMAIN t : i < k /\ t[i].metric = m2
        BY <3>1 DEF Pending, t
      <4>2. i # 1
        BY <2>1, <4>1 DEF t
      <4>3. i - 1 \in DOMAIN t1 /\ t1[i - 1].metric = m2 /\ i - 1 < k - 1
        BY <1>2, <4>1, <4>2
      <4> QED  BY <1>9, <4>3 DEF Pending, t1
    <3>2. Done(early, j, rep, m2, Of(now, m2))
      BY <1>4, <3>1
    <3>3. Of(now1, m2) = Of(now, m2)
      BY <2>1 DEF Elsewhere
    <3> QED  BY <3>2, <3>3, SameDone
  <2> QED  BY <2>1
<1> QED  BY <1>7, <1>8, <1>9 DEF Front, t1

(* The first call makes way for another one of its metric.                  *)
LEMMA FrontHead ==
  ASSUME NEW j, NEW j1, NEW now, NEW now1, NEW rep, NEW k \in Nat, NEW early \in BOOLEAN, NEW c \in CallType,
         j.todo \in Seq(CallType), j.todo # <<>>, j1.todo = <<c>> \o Tail(j.todo), k > 1,
         NEW m \in Metrics, m = j.todo[1].metric, c.metric = m, j.todo[1].do # "put",
         Beside(j, j1, m), Elsewhere(now, now1, m), Front(j, now, rep, k, early),
         Ready(j1, rep, 1, Of(now1, m)), early => c.do \notin {"refresh", "rewrite"}
  PROVE  Front(j1, now1, rep, k, early)
<1> DEFINE t == j.todo
           t1 == j1.todo
<1>1. DOMAIN t1 = DOMAIN t /\ t1[1] = c /\ \A i \in DOMAIN t : i \in Nat /\ (i # 1 => t1[i] = t[i])
  BY TailFacts, SwapFacts
<1>2. 1 \in DOMAIN t /\ \A i \in DOMAIN t : i >= 1
  BY TailFacts
<1>3. /\ \A i \in DOMAIN t : i < k =>
           /\ Ready(j, rep, i, Of(now, t[i].metric))
           /\ early => t[i].do \notin {"refresh", "rewrite"}
      /\ \A i, l \in DOMAIN t : i < l /\ l < k /\ t[i].metric = t[l].metric =>
           t[i].do = "put" /\ t[l].do = "refresh"
      /\ \A m2 \in Metrics : ~Pending(j, k, m2) => Done(early, j, rep, m2, Of(now, m2))
  BY DEF Front
<1>4. \A i \in DOMAIN t : t[i] \in CallType
  BY SeqFacts
<1>5. t[1].metric = m /\ t[1].do # "put"
  OBVIOUS
<1> HIDE DEF t, t1
<1>6. \A l \in DOMAIN t : 1 < l /\ l < k => t[l].metric # m
  BY <1>2, <1>3, <1>5
<1>7. ASSUME NEW i \in DOMAIN t1, i < k
      PROVE  /\ Ready(j1, rep, i, Of(now1, t1[i].metric))
             /\ early => t1[i].do \notin {"refresh", "rewrite"}
  <2> DEFINE m2 == t1[i].metric
  <2>1. CASE i = 1
    BY <1>1, <2>1
  <2>2. CASE i # 1
    <3>1. i \in DOMAIN t /\ t1[i] = t[i] /\ 1 < i /\ m2 # m
      BY <1>1, <1>2, <1>6, <1>7, <2>2
    <3>2. /\ Ready(j, rep, i, Of(now, m2))
          /\ early => t1[i].do \notin {"refresh", "rewrite"}
      BY <1>3, <1>7, <3>1
    <3>3. Findings(t1[i], j, rep, m2, Of(now, m2)) /\ t1[i].do # "rewrite"
      BY <3>1, <3>2 DEF Ready, t
    <3>4. m2 \in Metrics
      BY <1>4, <3>1, <3>3, TypedCall DEF Findings
    <3>5. Of(now1, m2) = Of(now, m2)
      BY <3>1, <3>4 DEF Elsewhere
    <3>6. Findings(t1[i], j1, rep, m2, Of(now1, m2))
      BY <3>1, <3>3, <3>4, <3>5, SameFindings
    <3>7. ASSUME t1[i].do = "refresh" PROVE PutBefore(j1, i, m2) \/ Half(j1, rep, m2, Of(now1, m2))
      <4>1. PutBefore(j, i, m2) \/ Half(j, rep, m2, Of(now, m2))
        BY <3>1, <3>2, <3>7 DEF Ready, t
      <4>2. CASE PutBefore(j, i, m2)
        <5>1. PICK l \in DOMAIN t : l < i /\ t[l].metric = m2 /\ t[l].do = "put"
          BY <4>2 DEF PutBefore, t
        <5>2. l # 1
          BY <1>5, <5>1
        <5> QED  BY <1>1, <5>1, <5>2 DEF PutBefore, t1
      <4>3. CASE Half(j, rep, m2, Of(now, m2))
        BY <3>5, <4>3, SameHalf
      <4> QED  BY <4>1, <4>2, <4>3
    <3> QED  BY <3>2, <3>3, <3>6, <3>7 DEF Ready, t1
  <2> QED  BY <2>1, <2>2
<1>8. ASSUME NEW i \in DOMAIN t1, NEW l \in DOMAIN t1, i < l, l < k, t1[i].metric = t1[l].metric
      PROVE  t1[i].do = "put" /\ t1[l].do = "refresh"
  <2>1. i \in DOMAIN t /\ l \in DOMAIN t /\ l # 1 /\ t1[l] = t[l] /\ 1 < l
    BY <1>1, <1>2, <1>8
  <2>2. i # 1
    BY <1>1, <1>6, <1>8, <2>1
  <2> QED  BY <1>1, <1>3, <1>8, <2>1, <2>2
<1>9. ASSUME NEW m2 \in Metrics, ~Pending(j1, k, m2)
      PROVE  Done(early, j1, rep, m2, Of(now1, m2))
  <2>1. m2 # m
    BY <1>1, <1>2, <1>9 DEF Pending, t1
  <2>2. ASSUME Pending(j, k, m2) PROVE FALSE
    <3>1. PICK i \in DOMAIN t : i < k /\ t[i].metric = m2
      BY <2>2 DEF Pending, t
    <3>2. i # 1
      BY <1>5, <2>1, <3>1
    <3> QED  BY <1>1, <1>9, <3>1, <3>2 DEF Pending, t1
  <2>3. Done(early, j, rep, m2, Of(now, m2))
    BY <1>3, <2>2
  <2>4. Of(now1, m2) = Of(now, m2)
    BY <2>1 DEF Elsewhere
  <2> QED  BY <2>3, <2>4, SameDone
<1> QED  BY <1>7, <1>8, <1>9 DEF Front, t1
-----------------------------------------------------------------------------
(* What is through with has its severity, so that it may be made anew.      *)
LEMMA TargetFacts ==
  ASSUME NEW j, j.thr \in [Metrics -> Settings], NEW rep
  PROVE  /\ Target(j, rep) \subseteq Allowed(j.thr) /\ Target(j, rep) \subseteq Metrics
         /\ \A m \in Target(j, rep) : ~IsOff(j.thr, m)
         /\ \A m : m \in Wanted(j.thr, rep) <=> m \in Target(j, rep) /\ ~Lost(m, rep)
<1>1. /\ Target(j, rep) \subseteq Allowed(j.thr) /\ Target(j, rep) \subseteq Metrics
  BY MetricKinds DEF Target, Allowed, Created, SeenDisks, Asked
<1>2. \A m \in Asked(j.thr) : ~IsOff(j.thr, m)
  BY PlanAssumption DEF Asked, IsOff
<1>3. \A m \in Target(j, rep) : ~IsOff(j.thr, m)
  BY <1>2 DEF Target, Created
<1>4. \A m : m \in Wanted(j.thr, rep) <=> m \in Target(j, rep) /\ ~Lost(m, rep)
  BY DEF Wanted, Target, Lost
<1> QED  BY <1>1, <1>3, <1>4

LEMMA FinalMarked ==
  ASSUME NEW j, j.thr \in [Metrics -> Settings], NEW rep, NEW m, NEW now,
         Final(j, rep, m, Of(now, m))
  PROVE  \A early \in BOOLEAN : Done(early, j, rep, m, Of(now, m))
<1>1. ASSUME m \in Target(j, rep), Chosen(j, m), ~Lost(m, rep)
      PROVE  \E a \in Of(now, m) : a.tag = "chosen"
  <2>1. m \in Wanted(j.thr, rep) /\ ~IsOff(j.thr, m)
    BY <1>1, TargetFacts
  <2>2. PICK a \in Of(now, m) : Right(a, j.thr)
    BY <2>1 DEF Final
  <2>3. PICK b \in j.before : b.metric = m /\ b.tag = "chosen" /\ b.told # "registry"
    BY <1>1 DEF Chosen
  <2>4. a.metric = m
    BY DEF Of
  <2>5. a.tag = "chosen"
    BY <2>1, <2>2, <2>3, <2>4 DEF Final, Kept
  <2> QED  BY <2>5
<1>2. Marked(j, rep, m, Of(now, m))
  BY <1>1 DEF Marked
<1> QED  BY <1>2 DEF Done

LEMMA MakesAllTail ==
  ASSUME NEW j, NEW j1, NEW rep, NEW k \in Nat, k > 1,
         j.todo \in Seq(CallType), j.todo # <<>>, j1.todo = Tail(j.todo), j1.thr = j.thr,
         MakesAll(j, rep, k)
  PROVE  MakesAll(j1, rep, k - 1)
<1> DEFINE t == j.todo
           t1 == j1.todo
<1>1. \A i \in DOMAIN t1 : i \in Nat /\ i + 1 \in DOMAIN t /\ t1[i] = t[i + 1]
  BY TailFacts
<1>2. \A i \in DOMAIN t : i \in Nat /\ (i # 1 => i - 1 \in DOMAIN t1 /\ t1[i - 1] = t[i])
  BY TailFacts
<1>3. Target(j1, rep) = Target(j, rep)
  BY DEF Target
<1>4. /\ \A i \in DOMAIN t : i >= k =>
           /\ t[i].do \in {"put", "refresh"} /\ t[i].metric \in Target(j, rep)
           /\ t[i].do = "refresh" => t[i].names = {<<t[i].metric, ThresholdOf(j.thr, t[i].metric)>>}
      /\ \A m \in Target(j, rep) : \E i \in DOMAIN t : i >= k /\ t[i].do = "put" /\ t[i].metric = m
      /\ \A i, l \in DOMAIN t : k <= i /\ i < l /\ t[i].metric = t[l].metric =>
           t[i].do = "put" /\ t[l].do = "refresh"
  BY DEF MakesAll
<1> HIDE DEF t, t1
<1>5. \A i \in DOMAIN t1 : i >= k - 1 =>
           /\ t1[i].do \in {"put", "refresh"} /\ t1[i].metric \in Target(j, rep)
           /\ t1[i].do = "refresh" => t1[i].names = {<<t1[i].metric, ThresholdOf(j.thr, t1[i].metric)>>}
  <2>1. TAKE i \in DOMAIN t1
  <2>2. i + 1 \in DOMAIN t /\ t1[i] = t[i + 1] /\ (i >= k - 1 => i + 1 >= k)
    BY <1>1
  <2> QED  BY <1>4, <2>2
<1>6. \A m \in Target(j, rep) : \E i \in DOMAIN t1 : i >= k - 1 /\ t1[i].do = "put" /\ t1[i].metric = m
  <2>1. TAKE m \in Target(j, rep)
  <2>2. PICK i \in DOMAIN t : i >= k /\ t[i].do = "put" /\ t[i].metric = m
    BY <1>4
  <2>3. i - 1 \in DOMAIN t1 /\ t1[i - 1] = t[i] /\ i - 1 >= k - 1
    BY <1>2, <2>2
  <2> QED  BY <2>2, <2>3
<1>7. ASSUME NEW i \in DOMAIN t1, NEW l \in DOMAIN t1, k - 1 <= i, i < l, t1[i].metric = t1[l].metric
      PROVE  t1[i].do = "put" /\ t1[l].do = "refresh"
  <2>1. /\ i + 1 \in DOMAIN t /\ t1[i] = t[i + 1] /\ l + 1 \in DOMAIN t /\ t1[l] = t[l + 1]
        /\ k <= i + 1 /\ i + 1 < l + 1
    BY <1>1, <1>7
  <2> QED  BY <1>4, <1>7, <2>1
<1> QED  BY <1>3, <1>5, <1>6, <1>7 DEF MakesAll, t1

LEMMA MakesAllSwap ==
  ASSUME NEW j, NEW j1, NEW rep, NEW k \in Nat, k > 1, NEW c \in CallType,
         j.todo \in Seq(CallType), j.todo # <<>>, j1.todo = <<c>> \o Tail(j.todo), j1.thr = j.thr,
         MakesAll(j, rep, k)
  PROVE  MakesAll(j1, rep, k)
<1> DEFINE t == j.todo
           t1 == j1.todo
<1>1. DOMAIN t1 = DOMAIN t /\ \A i \in DOMAIN t : i \in Nat /\ (i # 1 => t1[i] = t[i])
  BY SwapFacts, TailFacts
<1>2. Target(j1, rep) = Target(j, rep)
  BY DEF Target
<1>3. /\ \A i \in DOMAIN t : i >= k =>
           /\ t[i].do \in {"put", "refresh"} /\ t[i].metric \in Target(j, rep)
           /\ t[i].do = "refresh" => t[i].names = {<<t[i].metric, ThresholdOf(j.thr, t[i].metric)>>}
      /\ \A m \in Target(j, rep) : \E i \in DOMAIN t : i >= k /\ t[i].do = "put" /\ t[i].metric = m
      /\ \A i, l \in DOMAIN t : k <= i /\ i < l /\ t[i].metric = t[l].metric =>
           t[i].do = "put" /\ t[l].do = "refresh"
  BY DEF MakesAll
<1> HIDE DEF t, t1
<1>4. \A i \in DOMAIN t1 : i >= k => i \in DOMAIN t /\ t1[i] = t[i]
  BY <1>1
<1>5. \A i \in DOMAIN t1 : i >= k =>
           /\ t1[i].do \in {"put", "refresh"} /\ t1[i].metric \in Target(j, rep)
           /\ t1[i].do = "refresh" => t1[i].names = {<<t1[i].metric, ThresholdOf(j.thr, t1[i].metric)>>}
  BY <1>3, <1>4
<1>6. \A m \in Target(j, rep) : \E i \in DOMAIN t1 : i >= k /\ t1[i].do = "put" /\ t1[i].metric = m
  BY <1>1, <1>3, <1>4
<1>7. ASSUME NEW i \in DOMAIN t1, NEW l \in DOMAIN t1, k <= i, i < l, t1[i].metric = t1[l].metric
      PROVE  t1[i].do = "put" /\ t1[l].do = "refresh"
  <2>1. i >= k /\ l >= k
    BY <1>1, <1>7
  <2> QED  BY <1>3, <1>4, <1>7, <2>1
<1> QED  BY <1>2, <1>5, <1>6, <1>7 DEF MakesAll, t1

(* One step of a job whose next call is of a metric.                        *)
LEMMA StepTail ==
  ASSUME NEW j, NEW j1, NEW now, NEW now1, NEW rep,
         j.todo \in Seq(CallType), j.todo # <<>>, j1.todo = Tail(j.todo), j.thr \in [Metrics -> Settings],
         NEW m \in Metrics, m = j.todo[1].metric, j.todo[1].do \in OnMetric,
         Beside(j, j1, m), Elsewhere(now, now1, m), InProgress(j, now, rep),
         Ready(j, rep, 1, Of(now, m)) =>
           /\ Final(j1, rep, m, Of(now1, m))
           /\ j.todo[1].do = "put" => Half(j1, rep, m, Of(now1, m))
  PROVE  InProgress(j1, now1, rep)
<1>1. 1 \in DOMAIN j.todo /\ Len(j.todo) \in Nat /\ Len(j.todo) > 0 /\ Len(j1.todo) = Len(j.todo) - 1
  BY TailFacts
<1>2. j1.thr \in [Metrics -> Settings] /\ j1.thr = j.thr
  BY DEF Beside
<1>3. ASSUME NEW k \in Nat, k > 1, NEW early \in BOOLEAN, Front(j, now, rep, k, early)
      PROVE  Front(j1, now1, rep, k - 1, early)
  <2>1. Ready(j, rep, 1, Of(now, m))
    BY <1>1, <1>3 DEF Front
  <2>2. Done(early, j1, rep, m, Of(now1, m))
    BY <1>2, <2>1, FinalMarked
  <2> QED  BY <1>3, <2>1, <2>2, FrontTail
<1>4. CASE Late(j, now, rep)
  <2>1. Front(j1, now1, rep, Len(j.todo), FALSE)
    <3>0. Len(j.todo) + 1 \in Nat /\ Len(j.todo) + 1 > 1
      BY <1>1
    <3>1. Front(j1, now1, rep, (Len(j.todo) + 1) - 1, FALSE)
      BY <1>3, <1>4, <3>0, Zenon DEF Late
    <3>2. (Len(j.todo) + 1) - 1 = Len(j.todo)
      BY <1>1
    <3> QED  BY <3>1, <3>2
  <2>2. Len(j1.todo) + 1 = Len(j.todo)
    BY <1>1
  <2> QED  BY <2>1, <2>2 DEF Late, InProgress
<1>5. CASE Wiping(j, now, rep)
  BY <1>5 DEF Wiping, OnMetric
<1>6. ASSUME NEW k \in DOMAIN j.todo, Early(j, now, rep, k) PROVE InProgress(j1, now1, rep)
  <2>1. k # 1 /\ k \in Nat /\ k > 1
    BY <1>6, TailFacts DEF Early, OnMetric
  <2>2. Front(j1, now1, rep, k - 1, TRUE)
    BY <1>3, <1>6, <2>1 DEF Early
  <2>3. k - 1 \in DOMAIN j1.todo /\ j1.todo[k - 1].do = "keep"
    BY <1>6, <2>1, TailFacts DEF Early
  <2>4. (k - 1) + 1 \in DOMAIN j1.todo /\ j1.todo[(k - 1) + 1].do = "wipe"
    <3>1. (k + 1) - 1 \in DOMAIN j1.todo /\ j1.todo[(k + 1) - 1].do = "wipe"
      <4>1. k + 1 \in DOMAIN j.todo /\ k + 1 # 1 /\ j.todo[k + 1].do = "wipe"
        BY <1>6, <2>1 DEF Early
      <4> QED  BY <4>1, TailFacts
    <3>2. (k + 1) - 1 = (k - 1) + 1
      BY <2>1
    <3> QED  BY <3>1, <3>2
  <2>5. MakesAll(j1, rep, (k - 1) + 2)
    <3>1. MakesAll(j1, rep, (k + 2) - 1)
      <4>1. MakesAll(j, rep, k + 2) /\ k + 2 \in Nat /\ k + 2 > 1
        BY <1>6, <2>1 DEF Early
      <4> QED  BY <1>2, <4>1, MakesAllTail
    <3>2. (k + 2) - 1 = (k - 1) + 2
      BY <2>1
    <3> QED  BY <3>1, <3>2
  <2>6. Early(j1, now1, rep, k - 1)
    BY <2>2, <2>3, <2>4, <2>5 DEF Early
  <2> QED  BY <2>3, <2>6 DEF InProgress
<1> QED  BY <1>4, <1>5, <1>6 DEF InProgress

LEMMA StepHead ==
  ASSUME NEW j, NEW j1, NEW now, NEW now1, NEW rep, NEW c \in CallType,
         j.todo \in Seq(CallType), j.todo # <<>>, j1.todo = <<c>> \o Tail(j.todo),
         NEW m \in Metrics, m = j.todo[1].metric, c.metric = m,
         j.todo[1].do \in OnMetric, j.todo[1].do # "put",
         c.do \in {"refresh", "rewrite"} => j.todo[1].do = "refresh",
         Beside(j, j1, m), Elsewhere(now, now1, m), InProgress(j, now, rep),
         Ready(j, rep, 1, Of(now, m)) => Ready(j1, rep, 1, Of(now1, m))
  PROVE  InProgress(j1, now1, rep)
<1>1. /\ 1 \in DOMAIN j.todo /\ Len(j.todo) \in Nat /\ Len(j.todo) > 0
      /\ Len(j1.todo) = Len(j.todo) /\ DOMAIN j1.todo = DOMAIN j.todo
      /\ \A i \in DOMAIN j.todo : i \in Nat /\ (i # 1 => i > 1 /\ j1.todo[i] = j.todo[i])
  BY TailFacts, SwapFacts
<1>2. ASSUME NEW k \in Nat, k > 1, NEW early \in BOOLEAN, Front(j, now, rep, k, early)
      PROVE  Front(j1, now1, rep, k, early)
  <2>1. Ready(j1, rep, 1, Of(now1, m))
    BY <1>1, <1>2 DEF Front
  <2>2. early => c.do \notin {"refresh", "rewrite"}
    BY <1>1, <1>2 DEF Front
  <2> QED  BY <1>2, <2>1, <2>2, FrontHead
<1>3. CASE Late(j, now, rep)
  <2>1. Len(j.todo) + 1 \in Nat /\ Len(j.todo) + 1 > 1
    BY <1>1
  <2> QED  BY <1>1, <1>2, <1>3, <2>1 DEF Late, InProgress
<1>4. CASE Wiping(j, now, rep)
  BY <1>4 DEF Wiping, OnMetric
<1>5. ASSUME NEW k \in DOMAIN j.todo, Early(j, now, rep, k) PROVE InProgress(j1, now1, rep)
  <2>1. k # 1 /\ k \in Nat /\ k > 1
    BY <1>1, <1>5 DEF Early, OnMetric
  <2>2. Front(j1, now1, rep, k, TRUE)
    BY <1>2, <1>5, <2>1 DEF Early
  <2>3. j1.todo[k].do = "keep" /\ k + 1 \in DOMAIN j1.todo /\ j1.todo[k + 1].do = "wipe"
    <3>1. k + 1 # 1
      BY <2>1
    <3> QED  BY <1>1, <1>5, <2>1, <3>1 DEF Early
  <2>4. MakesAll(j1, rep, k + 2)
    <3>1. MakesAll(j, rep, k + 2) /\ k + 2 \in Nat /\ k + 2 > 1
      BY <1>5, <2>1 DEF Early
    <3>2. j1.thr = j.thr
      BY DEF Beside
    <3> QED  BY <3>1, <3>2, MakesAllSwap
  <2>5. Early(j1, now1, rep, k) /\ k \in DOMAIN j1.todo
    BY <1>1, <2>2, <2>3, <2>4 DEF Early
  <2> QED  BY <2>5 DEF InProgress
<1> QED  BY <1>3, <1>4, <1>5 DEF InProgress

(* All alarms are gone, and what is left makes them anew.                   *)
LEMMA MadeAnew ==
  ASSUME NEW j, NEW rep, j.todo \in Seq(CallType), j.thr \in [Metrics -> Settings],
         MakesAll(j, rep, 1), \A m \in Target(j, rep) : Remembers(j, rep, m)
  PROVE  Late(j, {}, rep)
<1> DEFINE t == j.todo
<1>1. Len(t) \in Nat /\ DOMAIN t = 1 .. Len(t) /\ \A i \in DOMAIN t : i \in Nat /\ i >= 1
  BY SeqFacts
<1>2. /\ \A i \in DOMAIN t :
           /\ t[i].do \in {"put", "refresh"} /\ t[i].metric \in Target(j, rep)
           /\ t[i].do = "refresh" => t[i].names = {<<t[i].metric, ThresholdOf(j.thr, t[i].metric)>>}
      /\ \A m \in Target(j, rep) : \E i \in DOMAIN t : t[i].do = "put" /\ t[i].metric = m
      /\ \A i, l \in DOMAIN t : i < l /\ t[i].metric = t[l].metric =>
           t[i].do = "put" /\ t[l].do = "refresh"
  BY <1>1 DEF MakesAll
<1>3. \A m : Of({}, m) = {}
  BY DEF Of
<1>4. Target(j, rep) \subseteq Allowed(j.thr)
  BY TargetFacts
<1> HIDE DEF t
<1>5. ASSUME NEW i \in DOMAIN t PROVE Ready(j, rep, i, Of({}, t[i].metric))
  <2>1. Findings(t[i], j, rep, t[i].metric, {})
    BY <1>2, <1>4 DEF Findings, OnMetric
  <2>2. ASSUME t[i].do = "refresh" PROVE PutBefore(j, i, t[i].metric)
    <3>1. PICK l \in DOMAIN t : t[l].do = "put" /\ t[l].metric = t[i].metric
      BY <1>2
    <3>2. l # i
      BY <2>2, <3>1
    <3>3. ~(i < l)
      BY <1>2, <2>2, <3>1
    <3>4. l < i
      BY <1>1, <3>2, <3>3
    <3> QED  BY <3>1, <3>4 DEF PutBefore, t
  <2>3. t[i].do # "rewrite"
    BY <1>2
  <2> QED  BY <1>3, <2>1, <2>2, <2>3 DEF Ready, t
<1>6. ASSUME NEW m \in Metrics, ~Pending(j, Len(t) + 1, m)
      PROVE  Final(j, rep, m, {})
  <2>1. m \notin Target(j, rep)
    <3>1. ASSUME m \in Target(j, rep) PROVE FALSE
      <4>1. PICK i \in DOMAIN t : t[i].metric = m
        BY <1>2, <3>1
      <4>2. i < Len(t) + 1
        BY <1>1
      <4> QED  BY <1>6, <4>1, <4>2 DEF Pending, t
    <3> QED  BY <3>1
  <2>2. m \notin Wanted(j.thr, rep)
    BY <2>1, TargetFacts
  <2> QED  BY <2>2 DEF Final, Kept
<1>7. Front(j, {}, rep, Len(t) + 1, FALSE)
  <2>1. \A i \in DOMAIN j.todo : i < Len(t) + 1 => Ready(j, rep, i, Of({}, j.todo[i].metric))
    BY <1>5 DEF t
  <2>2. \A i, l \in DOMAIN j.todo : i < l /\ l < Len(t) + 1 /\ j.todo[i].metric = j.todo[l].metric =>
           j.todo[i].do = "put" /\ j.todo[l].do = "refresh"
    BY <1>2 DEF t
  <2>3. \A m \in Metrics : ~Pending(j, Len(t) + 1, m) => Done(FALSE, j, rep, m, Of({}, m))
    BY <1>3, <1>6 DEF Done
  <2> QED  BY <2>1, <2>2, <2>3 DEF Front
<1> QED  BY <1>7 DEF Late, t
-----------------------------------------------------------------------------
(* What each call does to the alarms of its metric.                         *)
(* The job goes on with `more`.                                             *)
Continues(j, j1, more) ==
  /\ j1.todo = more \o Tail(j.todo)
  /\ j1.thr = j.thr /\ j1.before = j.before /\ j1.set = j.set /\ j1.by = j.by
  /\ j1.index = j.index /\ (j1.alone => j.alone)

LEMMA JobFields ==
  ASSUME NEW j \in JobType
  PROVE  /\ j.todo \in Seq(CallType) /\ j.thr \in [Metrics -> Settings] /\ j.index \subseteq AlarmType
         /\ j.kept \in [Metrics -> {"none", "chosen"}] /\ j.draft \subseteq AlarmType
         /\ j.alone \in BOOLEAN /\ j.set \in BOOLEAN /\ j.before \subseteq AlarmType /\ j.by \in Starters
BY DEF JobType

LEMMA ReadyFirst ==
  ASSUME NEW j \in JobType, j.todo # <<>>, NEW now, NEW rep, InProgress(j, now, rep),
         j.todo[1].do \in OnMetric
  PROVE  j.todo[1].metric \in Metrics /\ Ready(j, rep, 1, Of(now, j.todo[1].metric))
<1>1. /\ 1 \in DOMAIN j.todo /\ j.todo[1] \in CallType /\ Len(j.todo) \in Nat /\ Len(j.todo) > 0
      /\ DOMAIN j.todo = 1 .. Len(j.todo)
  BY TailFacts, JobFields
<1>2. j.todo[1].metric \in Metrics
  BY <1>1, TypedCall
<1>3. ~Wiping(j, now, rep)
  BY DEF Wiping, OnMetric
<1>4. CASE Late(j, now, rep)
  <2>1. 1 < Len(j.todo) + 1
    BY <1>1
  <2> QED  BY <1>1, <1>2, <1>4, <2>1 DEF Late, Front
<1>5. ASSUME NEW k \in DOMAIN j.todo, Early(j, now, rep, k)
      PROVE  Ready(j, rep, 1, Of(now, j.todo[1].metric))
  <2>1. 1 < k
    BY <1>1, <1>5 DEF Early, OnMetric
  <2> QED  BY <1>1, <1>5, <2>1 DEF Early, Front
<1> QED  BY <1>2, <1>3, <1>4, <1>5 DEF InProgress

LEMMA DeletedNames ==
  ASSUME NEW now, Distinct(now), NEW m, NEW names, names = NamesOf(Of(now, m))
  PROVE  /\ Of(Without(now, names), m) = {} /\ Elsewhere(now, Without(now, names), m)
         /\ Of(now, m) \subseteq Named(now, names) /\ Distinct(Without(now, names))
<1>1. \A a \in now : NameOf(a) \in names <=> a.metric = m
  <2>1. ASSUME NEW a \in now, a.metric = m PROVE NameOf(a) \in names
    BY <2>1 DEF NamesOf, Of
  <2>2. ASSUME NEW a \in now, NameOf(a) \in names PROVE a.metric = m
    <3>1. PICK b \in now : b.metric = m /\ NameOf(b) = NameOf(a)
      BY <2>2 DEF NamesOf, Of
    <3> QED  BY <3>1 DEF NameOf
  <2> QED  BY <2>1, <2>2
<1> QED  BY <1>1 DEF Without, Of, Named, Elsewhere, Distinct

LEMMA DeleteProgress ==
  ASSUME NEW j \in JobType, NEW j1 \in JobType, j.todo # <<>>, Continues(j, j1, <<>>), j1.kept = j.kept,
         NEW now, Distinct(now), NEW rep, InProgress(j, now, rep), j.todo[1].do = "delete"
  PROVE  InProgress(j1, Without(now, j.todo[1].names), rep)
<1> DEFINE m == j.todo[1].metric
           now1 == Without(now, j.todo[1].names)
<1>1. j.todo[1].do \in OnMetric
  BY DEF OnMetric
<1>2. m \in Metrics /\ Ready(j, rep, 1, Of(now, m))
  BY <1>1, ReadyFirst
<1>3. j.todo[1].names = NamesOf(Of(now, m)) /\ m \notin Target(j, rep)
  BY <1>2 DEF Ready, Findings
<1>4. Of(now1, m) = {} /\ Elsewhere(now, now1, m)
  BY <1>3, DeletedNames
<1>5. Beside(j, j1, m)
  BY DEF Beside, Continues
<1>6. m \notin Wanted(j.thr, rep)
  BY <1>3, JobFields, TargetFacts
<1>7. Final(j1, rep, m, Of(now1, m))
  BY <1>4, <1>6 DEF Final, Kept, Continues
<1>8. j.todo \in Seq(CallType) /\ j.thr \in [Metrics -> Settings] /\ j1.todo = Tail(j.todo)
  BY JobFields, TailFacts DEF Continues
<1>9. j.todo[1].metric = m /\ j.todo[1].do # "put" /\ now1 = Without(now, j.todo[1].names)
  OBVIOUS
<1> HIDE DEF m, now1
<1>10. Elsewhere(now, now1, m)
  BY <1>4
<1>11. Ready(j, rep, 1, Of(now, m)) =>
         Final(j1, rep, m, Of(now1, m)) /\ (j.todo[1].do = "put" => Half(j1, rep, m, Of(now1, m)))
  BY <1>7, <1>9
<1>12. InProgress(j1, now1, rep)
  BY <1>1, <1>2, <1>5, <1>8, <1>9, <1>10, <1>11, StepTail
<1> QED  BY <1>9, <1>12

LEMMA ReplaceProgress ==
  ASSUME NEW j \in JobType, NEW j1 \in JobType, j.todo # <<>>,
         Continues(j, j1, <<Call("put", j.todo[1].metric, {})>>), j1.kept = j.kept,
         NEW now, Distinct(now), NEW rep, InProgress(j, now, rep), j.todo[1].do \in {"replace", "remake"}
  PROVE  InProgress(j1, Without(now, j.todo[1].names), rep)
<1> DEFINE m == j.todo[1].metric
           now1 == Without(now, j.todo[1].names)
           c == Call("put", m, {})
<1>1. j.todo[1].do \in OnMetric
  BY DEF OnMetric
<1>2. m \in Metrics /\ Ready(j, rep, 1, Of(now, m))
  BY <1>1, ReadyFirst
<1>3. j.todo[1].names = NamesOf(Of(now, m)) /\ m \in Allowed(j.thr) /\ Remembers(j, rep, m)
  BY <1>2 DEF Ready, Findings
<1>4. Of(now1, m) = {} /\ Elsewhere(now, now1, m)
  BY <1>3, DeletedNames
<1>5. Beside(j, j1, m)
  BY DEF Beside, Continues
<1>6. c.do = "put" /\ c.metric = m
  BY DEF Call
<1>7. c \in CallType
  BY <1>2, CallTyped DEF Deeds, OnMetric
<1>8. j.todo \in Seq(CallType) /\ j1.todo = <<c>> \o Tail(j.todo)
  BY JobFields DEF Continues
<1>9. j1.todo[1] = c
  BY <1>7, <1>8, SwapFacts
<1>10. Remembers(j1, rep, m) /\ m \in Allowed(j1.thr)
  BY <1>3 DEF Remembers, Chosen, Continues
<1> HIDE DEF m, now1, c
<1>11. Ready(j1, rep, 1, Of(now1, m))
  BY <1>4, <1>6, <1>9, <1>10 DEF Ready, Findings, OnMetric
<1>12. j.todo[1].do # "put"
  OBVIOUS
<1>13. j.todo[1].metric = m /\ now1 = Without(now, j.todo[1].names)
  BY DEF m, now1
<1>14. Elsewhere(now, now1, m)
  BY <1>4
<1>15. c.do \notin {"refresh", "rewrite"}
  BY <1>6
<1>16. InProgress(j1, now1, rep)
  BY <1>1, <1>2, <1>5, <1>6, <1>7, <1>8, <1>11, <1>12, <1>13, <1>14, <1>15, StepHead
<1> QED  BY <1>13, <1>16

(* The severity of an alarm that is there is read.                          *)
LEMMA LookProgress ==
  ASSUME NEW j \in JobType, NEW j1 \in JobType, j.todo # <<>>, NEW next \in {"replace", "remake"},
         Continues(j, j1, <<Call(next, j.todo[1].metric, j.todo[1].names)>>),
         NEW now, Distinct(now), NEW rep, InProgress(j, now, rep), j.todo[1].do \in {"look", "read"},
         j1.kept = [j.kept EXCEPT ![j.todo[1].metric] =
                      IF \E a \in Named(now, j.todo[1].names) : a.tag = "chosen" THEN "chosen" ELSE "none"]
  PROVE  InProgress(j1, now, rep) /\ Named(now, j.todo[1].names) # {}
<1> DEFINE m == j.todo[1].metric
           names == j.todo[1].names
           c == Call(next, m, names)
           o == Of(now, m)
<1>1. j.todo[1].do \in OnMetric
  BY DEF OnMetric
<1>2. m \in Metrics /\ Ready(j, rep, 1, o)
  BY <1>1, ReadyFirst
<1>3. Same(j, m, o) /\ names = NamesOf(o) /\ o # {} /\ m \in Allowed(j.thr)
  BY <1>2 DEF Ready, Findings
<1>4. o \subseteq Named(now, names)
  BY <1>3, DeletedNames
<1>5. j.kept \in [Metrics -> {"none", "chosen"}] /\ j.todo \in Seq(CallType)
  BY JobFields
<1>6. Beside(j, j1, m)
  BY <1>2, <1>5 DEF Beside, Continues
<1>7. c.do = next /\ c.metric = m /\ c.names = names
  BY DEF Call
<1>8. j.todo[1] \in CallType
  BY <1>5, TailFacts
<1>9. c \in CallType
  BY <1>2, <1>8, CallTyped, TypedCall DEF Deeds, OnMetric
<1>10. j1.todo = <<c>> \o Tail(j.todo)
  BY DEF Continues
<1>11. j1.todo[1] = c
  BY <1>5, <1>9, <1>10, SwapFacts
<1>12. Remembers(j1, rep, m)
  <2>1. ASSUME Chosen(j1, m) PROVE j1.kept[m] = "chosen"
    <3>1. PICK b \in j.before : b.metric = m /\ b.tag = "chosen"
      BY <2>1 DEF Chosen, Continues
    <3>2. b \in o
      BY <1>3, <3>1 DEF Same, Of
    <3> QED  BY <1>2, <1>4, <1>5, <3>1, <3>2
  <2> QED  BY <2>1 DEF Remembers
<1>13. Same(j1, m, o) /\ m \in Allowed(j1.thr)
  BY <1>3 DEF Same, Continues
<1>14. Elsewhere(now, now, m)
  BY DEF Elsewhere
<1>15. j.todo[1].metric = m /\ Of(now, m) = o /\ j.todo[1].names = names
  OBVIOUS
<1>16. Named(now, names) # {}
  BY <1>3, <1>4
<1> HIDE DEF m, c, names, o
<1>17. Ready(j1, rep, 1, o)
  BY <1>3, <1>7, <1>11, <1>12, <1>13 DEF Ready, Findings, OnMetric
<1> QED  BY <1>1, <1>2, <1>5, <1>6, <1>7, <1>9, <1>10, <1>14, <1>15, <1>16, <1>17, StepHead

(* An alarm is put where there is none of its metric.                       *)
LEMMA PutNew ==
  ASSUME NEW now, Distinct(now), NEW n \in AlarmType
  PROVE  /\ Distinct(Without(now, {NameOf(n)}) \cup {n})
         /\ Elsewhere(now, Without(now, {NameOf(n)}) \cup {n}, n.metric)
         /\ Of(now, n.metric) = {} => Of(Without(now, {NameOf(n)}) \cup {n}, n.metric) = {n}
<1> DEFINE now1 == Without(now, {NameOf(n)}) \cup {n}
           m == n.metric
<1>1. \A a : a \in now1 <=> (a \in now /\ NameOf(a) # NameOf(n)) \/ a = n
  BY DEF Without
<1>2. n.metric = m /\ \A a \in now : a.metric # m => NameOf(a) # NameOf(n)
  BY DEF NameOf
<1> HIDE DEF now1, m
<1>3. Distinct(now1)
  BY <1>1 DEF Distinct
<1>4. Elsewhere(now, now1, m)
  <2>1. ASSUME NEW m2 \in Metrics, m2 # m PROVE Of(now1, m2) = Of(now, m2)
    <3>1. \A a : a \in Of(now1, m2) <=> a \in Of(now, m2)
      BY <1>1, <1>2, <2>1 DEF Of
    <3> QED  BY <3>1
  <2> QED  BY <2>1 DEF Elsewhere
<1>5. ASSUME Of(now, m) = {} PROVE Of(now1, m) = {n}
  <2>1. \A a \in now : a.metric # m
    BY <1>5 DEF Of
  <2>2. \A a : a \in Of(now1, m) <=> a = n
    BY <1>1, <1>2, <2>1 DEF Of
  <2> QED  BY <2>2
<1> QED  BY <1>3, <1>4, <1>5 DEF now1, m

LEMMA PutProgress ==
  ASSUME NEW j \in JobType, NEW j1 \in JobType, j.todo # <<>>, Continues(j, j1, <<>>), j1.kept = j.kept,
         NEW now, Distinct(now), NEW rep, InProgress(j, now, rep), j.todo[1].do \in {"put", "single"},
         NEW n \in AlarmType, n.metric = j.todo[1].metric, Right(n, j.thr),
         j.todo[1].do = "put" /\ j.kept[n.metric] = "chosen" => n.tag = "chosen" /\ n.told = "chosen",
         ~Lost(n.metric, rep)
  PROVE  InProgress(j1, Without(now, {NameOf(n)}) \cup {n}, rep)
<1> DEFINE m == j.todo[1].metric
           now1 == Without(now, {NameOf(n)}) \cup {n}
<1>1. j.todo[1].do \in OnMetric
  BY DEF OnMetric
<1>2. m \in Metrics /\ Ready(j, rep, 1, Of(now, m))
  BY <1>1, ReadyFirst
<1>3. /\ Of(now, m) = {} /\ m \in Allowed(j.thr)
      /\ j.todo[1].do = "single" => Same(j, m, Of(now, m))
      /\ j.todo[1].do = "put" => Remembers(j, rep, m)
  BY <1>2 DEF Ready, Findings
<1>4. Of(now1, m) = {n} /\ Elsewhere(now, now1, m)
  <2>1. n.metric = m /\ now1 = Without(now, {NameOf(n)}) \cup {n}
    OBVIOUS
  <2>2. Elsewhere(now, now1, n.metric) /\ (Of(now, n.metric) = {} => Of(now1, n.metric) = {n})
    BY PutNew, Zenon
  <2> HIDE DEF m, now1
  <2> QED  BY <1>3, <2>1, <2>2
<1>5. Beside(j, j1, m)
  BY DEF Beside, Continues
<1>6. Chosen(j, m) => n.tag = "chosen" /\ n.told = "chosen"
  <2>1. CASE j.todo[1].do = "put"
    BY <1>3, <2>1 DEF Remembers
  <2>2. CASE j.todo[1].do = "single"
    BY <1>3, <2>2 DEF Same, Of, Chosen
  <2> QED  BY <2>1, <2>2
<1>7. j.todo \in Seq(CallType) /\ j.thr \in [Metrics -> Settings] /\ j1.todo = Tail(j.todo)
  BY JobFields, TailFacts DEF Continues
<1>8. j.todo[1].metric = m /\ n.metric = m /\ now1 = Without(now, {NameOf(n)}) \cup {n}
  OBVIOUS
<1> HIDE DEF m, now1
<1>9. Final(j1, rep, m, {n})
  <2>1. Kept({n}, j1.before, j1.thr)
    BY <1>6, <1>8 DEF Kept, Chosen, Continues
  <2> QED  BY <1>3, <2>1 DEF Final, Continues
<1>10. Half(j1, rep, m, {n})
  BY <1>3, <1>6 DEF Half, Chosen, Continues
<1>11. Elsewhere(now, now1, m)
  BY <1>4
<1>12. Ready(j, rep, 1, Of(now, m)) =>
         Final(j1, rep, m, Of(now1, m)) /\ (j.todo[1].do = "put" => Half(j1, rep, m, Of(now1, m)))
  BY <1>4, <1>9, <1>10
<1>13. j.todo[1].metric = m
  BY <1>8
<1>14. InProgress(j1, now1, rep)
  BY <1>1, <1>2, <1>5, <1>7, <1>11, <1>12, <1>13, StepTail
<1> QED  BY <1>8, <1>14

(* It has no dimensions, and none is put.                                   *)
LEMMA LostProgress ==
  ASSUME NEW j \in JobType, NEW j1 \in JobType, j.todo # <<>>, Continues(j, j1, <<>>), j1.kept = j.kept,
         NEW now, NEW rep, InProgress(j, now, rep), j.todo[1].do \in {"put", "single"},
         Lost(j.todo[1].metric, rep)
  PROVE  InProgress(j1, now, rep)
<1> DEFINE m == j.todo[1].metric
<1>1. j.todo[1].do \in OnMetric
  BY DEF OnMetric
<1>2. m \in Metrics /\ Ready(j, rep, 1, Of(now, m))
  BY <1>1, ReadyFirst
<1>3. Of(now, m) = {} /\ m \in Allowed(j.thr)
  BY <1>2 DEF Ready, Findings
<1>4. Elsewhere(now, now, m) /\ Beside(j, j1, m)
  BY DEF Elsewhere, Beside, Continues
<1>5. j.todo \in Seq(CallType) /\ j.thr \in [Metrics -> Settings] /\ j1.todo = Tail(j.todo)
  BY JobFields, TailFacts DEF Continues
<1>6. m \notin Wanted(j.thr, rep) /\ j1.thr = j.thr
  BY <1>5, TargetFacts DEF Continues
<1>7. j.todo[1].metric = m
  OBVIOUS
<1> HIDE DEF m
<1>8. Final(j1, rep, m, Of(now, m)) /\ Half(j1, rep, m, Of(now, m))
  BY <1>3, <1>6 DEF Final, Half, Kept
<1> QED  BY <1>1, <1>2, <1>4, <1>5, <1>7, <1>8, StepTail
-----------------------------------------------------------------------------
(* A description is told again: the alarm is read, then put.                *)
LEMMA RetoldFacts ==
  ASSUME NEW a \in AlarmType
  PROVE  /\ Retold(a) \in AlarmType /\ NameOf(Retold(a)) = NameOf(a)
         /\ Retold(a).metric = a.metric /\ Retold(a).threshold = a.threshold
         /\ Retold(a).sound = a.sound /\ Retold(a).tag = a.tag
         /\ Retold(a).told = IF a.tag = "none" THEN "registry" ELSE a.tag
BY DEF Retold, AlarmType, NameOf, Severities

(* Its tag and its description agree then.                                  *)
LEMMA AgreedFinal ==
  ASSUME NEW j, NEW j1, j1.thr = j.thr, j1.before = j.before, NEW rep, NEW m, NEW o, Half(j, rep, m, o),
         NEW o1, \A a, b \in o1 : a = b, o # {} => o1 # {},
         \A b \in o1 : \E a \in o : /\ b.metric = a.metric /\ b.threshold = a.threshold /\ b.sound = a.sound
                                    /\ b.tag = a.tag /\ (a.tag = "chosen" => b.told = "chosen"),
         \A a \in o : a.metric = m
  PROVE  Final(j1, rep, m, o1)
<1>1. /\ m \in Allowed(j.thr) /\ (m \in Wanted(j.thr, rep) => o # {})
      /\ \A a \in o : Right(a, j.thr) /\ (Chosen(j, m) => a.tag = "chosen")
  BY DEF Half
<1>2. \A b \in o1 : Right(b, j.thr) /\ b.metric = m /\ (Chosen(j, m) => b.tag = "chosen" /\ b.told = "chosen")
  BY <1>1 DEF Right
<1>3. Kept(o1, j.before, j.thr)
  BY <1>2 DEF Kept, Chosen
<1>4. m \in Wanted(j.thr, rep) => \E a \in o1 : Right(a, j.thr)
  <2>1. ASSUME m \in Wanted(j.thr, rep) PROVE \E a \in o1 : Right(a, j.thr)
    <3>1. PICK a \in o1 : TRUE
      BY <1>1, <2>1
    <3> QED  BY <1>2, <3>1
  <2> QED  BY <2>1
<1> QED  BY <1>1, <1>3, <1>4 DEF Final

LEMMA RefreshProgress ==
  ASSUME NEW j \in JobType, NEW j1 \in JobType, j.todo # <<>>, j1.kept = j.kept,
         NEW now, Distinct(now), NEW rep, InProgress(j, now, rep), j.todo[1].do = "refresh",
         NEW told, told = {Retold(a) : a \in Named(now, j.todo[1].names)},
         Continues(j, j1, IF told \subseteq now THEN <<>> ELSE <<Call("rewrite", j.todo[1].metric, {})>>),
         j1.draft = told \ now
  PROVE  InProgress(j1, now, rep)
<1> DEFINE m == j.todo[1].metric
           o == Of(now, m)
           c == Call("rewrite", m, {})
<1>1. j.todo[1].do \in OnMetric
  BY DEF OnMetric
<1>2. m \in Metrics /\ Ready(j, rep, 1, o)
  BY <1>1, ReadyFirst
<1>3. j.todo \in Seq(CallType) /\ j.thr \in [Metrics -> Settings]
  BY JobFields
<1>4. ~PutBefore(j, 1, m)
  BY <1>3, SeqFacts DEF PutBefore
<1>5. Half(j, rep, m, o) /\ j.todo[1].names = {<<m, ThresholdOf(j.thr, m)>>}
  BY <1>2, <1>4 DEF Ready, Findings
<1>6. \A a \in o : a \in now /\ a \in AlarmType /\ a.metric = m /\ a.threshold = ThresholdOf(j.thr, m)
  BY <1>5 DEF Half, Of, Right, Distinct
<1>7. Named(now, j.todo[1].names) = o
  <2>1. \A a \in now : NameOf(a) \in j.todo[1].names <=> a.metric = m /\ a.threshold = ThresholdOf(j.thr, m)
    BY <1>5 DEF NameOf
  <2>2. \A a \in now : a.metric = m => a \in o
    BY DEF Of
  <2> QED  BY <1>6, <2>1, <2>2 DEF Named
<1>8. told = {Retold(a) : a \in o}
  BY <1>7
<1>9. Elsewhere(now, now, m) /\ Beside(j, j1, m)
  BY DEF Elsewhere, Beside, Continues
<1>10. \A a, b \in o : a = b
  BY <1>5 DEF Half
<1>11. j.todo[1].metric = m /\ Of(now, m) = o /\ j1.thr = j.thr /\ j1.before = j.before
  BY DEF Continues
<1>12. c.do = "rewrite" /\ c.metric = m
  BY DEF Call
<1>13. c \in CallType
  BY <1>2, CallTyped DEF Deeds, OnMetric
<1>14. j1.todo = IF told \subseteq now THEN <<>> \o Tail(j.todo) ELSE <<c>> \o Tail(j.todo)
  BY DEF Continues
<1> HIDE DEF m, o, c
<1>15. CASE told \subseteq now
  <2>1. \A a \in o : a.tag = "chosen" => a.told = "chosen"
    <3>1. ASSUME NEW a \in o, a.tag = "chosen" PROVE a.told = "chosen"
      <4>1. Retold(a) \in now /\ a \in now /\ a \in AlarmType
        BY <1>6, <1>8, <1>15
      <4>2. Retold(a) = a
        BY <4>1, RetoldFacts DEF Distinct
      <4> QED  BY <3>1, <4>1, <4>2, RetoldFacts
    <3> QED  BY <3>1
  <2>2. Final(j1, rep, m, o)
    BY <1>5, <1>6, <1>10, <1>11, <2>1, AgreedFinal
  <2>3. Ready(j, rep, 1, Of(now, m)) =>
          Final(j1, rep, m, Of(now, m)) /\ (j.todo[1].do = "put" => Half(j1, rep, m, Of(now, m)))
    BY <1>11, <2>2
  <2>4. j1.todo = Tail(j.todo)
    BY <1>3, <1>14, <1>15, TailFacts
  <2> QED  BY <1>1, <1>2, <1>3, <1>9, <1>11, <2>3, <2>4, StepTail
<1>16. CASE ~(told \subseteq now)
  <2>1. j1.todo = <<c>> \o Tail(j.todo)
    BY <1>14, <1>16
  <2>2. j1.todo[1] = c
    BY <1>3, <1>13, <2>1, SwapFacts
  <2>3. o # {}
    BY <1>8, <1>16
  <2>4. j1.draft = {Retold(a) : a \in o}
    <3>1. PICK a \in o : Retold(a) \notin now
      BY <1>8, <1>16
    <3>2. \A b \in o : b = a
      BY <1>10
    <3> QED  BY <1>8, <3>1, <3>2
  <2>5. Half(j1, rep, m, o)
    BY <1>5, <1>9, SameHalf
  <2>6. Ready(j1, rep, 1, Of(now, m))
    BY <1>11, <1>12, <2>2, <2>3, <2>4, <2>5 DEF Ready, Findings, OnMetric
  <2>7. Ready(j, rep, 1, Of(now, m)) => Ready(j1, rep, 1, Of(now, m))
    BY <2>6
  <2>8. j.todo[1].do # "put" /\ (c.do \in {"refresh", "rewrite"} => j.todo[1].do = "refresh")
    OBVIOUS
  <2> QED  BY <1>1, <1>2, <1>3, <1>9, <1>11, <1>12, <1>13, <2>1, <2>7, <2>8, StepHead
<1> QED  BY <1>15, <1>16

LEMMA RewriteProgress ==
  ASSUME NEW j \in JobType, NEW j1 \in JobType, j.todo # <<>>, Continues(j, j1, <<>>), j1.kept = j.kept,
         NEW now, Distinct(now), NEW rep, InProgress(j, now, rep), j.todo[1].do = "rewrite",
         NEW n \in j.draft, NEW new, new = n \/ Named(now, {NameOf(n)}) = {}
  PROVE  InProgress(j1, Overwrite(now, new), rep)
<1> DEFINE m == j.todo[1].metric
           o == Of(now, m)
           now1 == Overwrite(now, new)
<1>1. j.todo[1].do \in OnMetric
  BY DEF OnMetric
<1>2. m \in Metrics /\ Ready(j, rep, 1, o)
  BY <1>1, ReadyFirst
<1>3. Half(j, rep, m, o) /\ o # {} /\ j.draft = {Retold(a) : a \in o}
  BY <1>2 DEF Ready, Findings
<1>4. PICK a \in o : TRUE
  BY <1>3
<1>5. (\A b \in o : b = a) /\ o = {a}
  BY <1>3, <1>4 DEF Half
<1>6. n = Retold(a)
  BY <1>3, <1>5
<1>7. a \in now /\ a \in AlarmType /\ a.metric = m
  BY <1>4 DEF Of, Distinct
<1>8. NameOf(n) = NameOf(a) /\ n \in AlarmType
  BY <1>6, <1>7, RetoldFacts
<1>9. Named(now, {NameOf(n)}) = {a}
  BY <1>7, <1>8 DEF Named, Distinct
<1>10. new = n
  BY <1>9
<1> DEFINE r == [n EXCEPT !.tag = a.tag]
<1>11. now1 = Without(now, {NameOf(n)}) \cup {r}
  BY <1>9, <1>10 DEF Overwrite
<1>12. r = n
  BY <1>6, <1>7, <1>8, RetoldFacts DEF AlarmType
<1>13. now1 = Without(now, {NameOf(n)}) \cup {n}
  BY <1>11, <1>12
<1>14. n.metric = m
  BY <1>6, <1>7, RetoldFacts
<1>15. Elsewhere(now, now1, m)
  <2>1. Elsewhere(now, Without(now, {NameOf(n)}) \cup {n}, n.metric)
    BY <1>8, PutNew, Zenon
  <2> HIDE DEF now1, m
  <2> QED  BY <1>13, <1>14, <2>1
<1>16. Of(now1, m) = {n}
  <2>1. \A b \in now : b.metric = m => NameOf(b) = NameOf(n)
    BY <1>5, <1>8 DEF Of
  <2>2. \A b : b \in Of(now1, m) <=> b = n
    BY <1>13, <1>14, <2>1 DEF Without, Of
  <2> QED  BY <2>2
<1>17. Beside(j, j1, m) /\ j1.thr = j.thr /\ j1.before = j.before
  BY DEF Beside, Continues
<1>18. \A b \in {n} : \E c \in o : /\ b.metric = c.metric /\ b.threshold = c.threshold /\ b.sound = c.sound
                                   /\ b.tag = c.tag /\ (c.tag = "chosen" => b.told = "chosen")
  <2>1. /\ n.metric = a.metric /\ n.threshold = a.threshold /\ n.sound = a.sound
        /\ n.tag = a.tag /\ (a.tag = "chosen" => n.told = "chosen")
    BY <1>6, <1>7, RetoldFacts
  <2> QED  BY <1>4, <2>1
<1>19. \A b \in o : b.metric = m
  BY DEF Of
<1>21. \A b, c \in {n} : b = c
  OBVIOUS
<1>22. Final(j1, rep, m, {n})
  <2> DEFINE s == {n}
  <2>1. /\ \A b \in s : \E c \in o : /\ b.metric = c.metric /\ b.threshold = c.threshold /\ b.sound = c.sound
                                    /\ b.tag = c.tag /\ (c.tag = "chosen" => b.told = "chosen")
        /\ \A b, c \in s : b = c
        /\ o # {} => s # {}
    BY <1>18, <1>21
  <2>2. Half(j, rep, m, o)
    BY <1>3
  <2> HIDE DEF s, o, m
  <2>3. Final(j1, rep, m, s)
    BY <1>17, <1>19, <2>1, <2>2, AgreedFinal
  <2> QED  BY <2>3 DEF s
<1>23. j.todo \in Seq(CallType) /\ j.thr \in [Metrics -> Settings] /\ j1.todo = Tail(j.todo)
  BY JobFields, TailFacts DEF Continues
<1>24. j.todo[1].metric = m /\ j.todo[1].do # "put" /\ now1 = Overwrite(now, new)
  OBVIOUS
<1> HIDE DEF m, now1, o
<1>25. Ready(j, rep, 1, Of(now, m)) =>
         Final(j1, rep, m, Of(now1, m)) /\ (j.todo[1].do = "put" => Half(j1, rep, m, Of(now1, m)))
  BY <1>16, <1>22, <1>24
<1>26. InProgress(j1, now1, rep)
  BY <1>1, <1>2, <1>15, <1>17, <1>23, <1>24, <1>25, StepTail
<1> QED  BY <1>24, <1>26
-----------------------------------------------------------------------------
(* Everything is made anew.                                                 *)
LEMMA FirstOfAll ==
  ASSUME NEW j \in JobType, j.todo # <<>>, NEW now, NEW rep, InProgress(j, now, rep),
         j.todo[1].do \notin OnMetric
  PROVE  Wiping(j, now, rep) \/ (1 \in DOMAIN j.todo /\ Early(j, now, rep, 1))
<1>1. 1 \in DOMAIN j.todo /\ Len(j.todo) \in Nat /\ Len(j.todo) > 0 /\ DOMAIN j.todo = 1 .. Len(j.todo)
  BY TailFacts, JobFields
<1>2. ASSUME NEW k, NEW early, k > 1, Front(j, now, rep, k, early) PROVE FALSE
  BY <1>1, <1>2 DEF Front, Ready, Findings
<1>3. CASE Late(j, now, rep)
  <2>1. Len(j.todo) + 1 > 1
    BY <1>1
  <2> QED  BY <1>2, <1>3, <2>1 DEF Late
<1>4. ASSUME NEW k \in DOMAIN j.todo, Early(j, now, rep, k) PROVE k = 1
  <2>1. ~(k > 1)
    BY <1>2, <1>4 DEF Early
  <2> QED  BY <1>1, <2>1
<1> QED  BY <1>1, <1>3, <1>4 DEF InProgress

LEMMA KeepProgress ==
  ASSUME NEW j \in JobType, NEW j1 \in JobType, j.todo # <<>>, Continues(j, j1, <<>>),
         NEW now, NEW rep, InProgress(j, now, rep), j.todo[1].do = "keep",
         j1.kept = [m \in Metrics |->
                      IF \E a \in now : a.metric = m /\ a.tag = "chosen" THEN "chosen" ELSE "none"]
  PROVE  InProgress(j1, now, rep)
<1>1. j.todo \in Seq(CallType) /\ j.thr \in [Metrics -> Settings]
  BY JobFields
<1>2. j1.todo = Tail(j.todo) /\ j1.thr = j.thr /\ j1.before = j.before
  BY <1>1, TailFacts DEF Continues
<1>3. Early(j, now, rep, 1)
  BY FirstOfAll DEF OnMetric, Wiping
<1>4. 1 + 1 \in DOMAIN j.todo /\ j.todo[1 + 1].do = "wipe" /\ MakesAll(j, rep, 1 + 2) /\ Front(j, now, rep, 1, TRUE)
  BY <1>3 DEF Early
<1>5. Len(j1.todo) > 0 /\ j1.todo[1].do = "wipe"
  <2>1. (1 + 1) - 1 \in DOMAIN j1.todo /\ j1.todo[(1 + 1) - 1].do = "wipe"
    BY <1>1, <1>2, <1>4, TailFacts
  <2>2. (1 + 1) - 1 = 1
    OBVIOUS
  <2>3. 1 \in DOMAIN j1.todo /\ j1.todo[1].do = "wipe"
    BY <2>1, <2>2
  <2> QED  BY <1>1, <1>2, <2>3, TailFacts
<1>6. MakesAll(j1, rep, 2)
  <2>1. MakesAll(j1, rep, (1 + 2) - 1)
    BY <1>1, <1>2, <1>4, MakesAllTail
  <2>2. (1 + 2) - 1 = 2
    OBVIOUS
  <2> QED  BY <2>1, <2>2
<1>7. ASSUME NEW m \in Target(j1, rep) PROVE Remembers(j1, rep, m)
  <2>1. m \in Metrics /\ m \in Target(j, rep)
    BY <1>1, <1>2, TargetFacts DEF Target
  <2>2. ~Pending(j, 1, m)
    BY <1>1, SeqFacts DEF Pending
  <2>3. Marked(j, rep, m, Of(now, m))
    BY <1>4, <2>1, <2>2 DEF Front, Done
  <2>4. ASSUME Chosen(j1, m), ~Lost(m, rep) PROVE j1.kept[m] = "chosen"
    <3>1. Chosen(j, m)
      BY <1>2, <2>4 DEF Chosen
    <3>2. \E a \in Of(now, m) : a.tag = "chosen"
      BY <2>1, <2>3, <2>4, <3>1 DEF Marked
    <3> QED  BY <2>1, <3>2 DEF Of
  <2> QED  BY <2>4 DEF Remembers
<1>8. Wiping(j1, now, rep)
  BY <1>5, <1>6, <1>7 DEF Wiping
<1> QED  BY <1>8 DEF InProgress

LEMMA WipeProgress ==
  ASSUME NEW j \in JobType, NEW j1 \in JobType, j.todo # <<>>, j1.kept = j.kept,
         NEW now, Distinct(now), NEW rep, InProgress(j, now, rep), j.todo[1].do = "wipe",
         Continues(j, j1, IF now = {} THEN <<>> ELSE <<Clear(NamesOf(now))>>)
  PROVE  InProgress(j1, now, rep)
<1>1. j.todo \in Seq(CallType) /\ j.thr \in [Metrics -> Settings] /\ j1.todo \in Seq(CallType)
  BY JobFields
<1>2. j1.thr = j.thr /\ j1.before = j.before
  BY DEF Continues
<1>3. Wiping(j, now, rep)
  BY FirstOfAll DEF OnMetric, Early
<1>4. MakesAll(j, rep, 2) /\ \A m \in Target(j, rep) : Remembers(j, rep, m)
  BY <1>3 DEF Wiping
<1>5. \A m \in Target(j1, rep) : Remembers(j1, rep, m)
  BY <1>2, <1>4 DEF Target, Remembers, Chosen
<1>6. CASE now = {}
  <2>1. j1.todo = Tail(j.todo)
    BY <1>1, <1>6, TailFacts DEF Continues
  <2>2. MakesAll(j1, rep, 2 - 1)
    BY <1>1, <1>2, <1>4, <2>1, MakesAllTail
  <2>3. 2 - 1 = 1
    OBVIOUS
  <2>4. Late(j1, {}, rep)
    BY <1>1, <1>2, <1>5, <2>2, <2>3, MadeAnew
  <2> QED  BY <1>6, <2>4 DEF InProgress
<1>7. CASE now # {}
  <2> DEFINE c == Clear(NamesOf(now))
  <2>1. j1.todo = <<c>> \o Tail(j.todo)
    BY <1>7 DEF Continues
  <2>2. c.do = "clear" /\ c.names = NamesOf(now)
    BY DEF Clear, Call
  <2>3. c \in CallType
    <3>1. NamesOf(now) \in SUBSET (Metrics \X Thresholds)
      BY AlarmFields DEF NamesOf, Distinct
    <3> QED  BY <3>1, CallTyped DEF Clear, Deeds, OnMetric, Edits
  <2> HIDE DEF c
  <2>4. MakesAll(j1, rep, 2)
    BY <1>1, <1>2, <1>4, <2>1, <2>3, MakesAllSwap
  <2>5. j1.todo[1] = c /\ Len(j1.todo) > 0
    BY <1>1, <2>1, <2>3, SwapFacts, TailFacts
  <2>6. Wiping(j1, now, rep)
    BY <1>5, <2>2, <2>4, <2>5 DEF Wiping
  <2> QED  BY <2>6 DEF InProgress
<1> QED  BY <1>6, <1>7

LEMMA ClearProgress ==
  ASSUME NEW j \in JobType, NEW j1 \in JobType, j.todo # <<>>, j1.kept = j.kept, Continues(j, j1, <<>>),
         NEW now, NEW rep, InProgress(j, now, rep), j.todo[1].do = "clear"
  PROVE  InProgress(j1, Without(now, j.todo[1].names), rep)
<1>1. j.todo \in Seq(CallType) /\ j.thr \in [Metrics -> Settings] /\ j1.todo \in Seq(CallType)
  BY JobFields
<1>2. j1.todo = Tail(j.todo) /\ j1.thr = j.thr /\ j1.before = j.before
  BY <1>1, TailFacts DEF Continues
<1>3. Wiping(j, now, rep)
  BY FirstOfAll DEF OnMetric, Early
<1>4. MakesAll(j, rep, 2) /\ (\A m \in Target(j, rep) : Remembers(j, rep, m)) /\ j.todo[1].names = NamesOf(now)
  BY <1>3 DEF Wiping
<1>5. \A m \in Target(j1, rep) : Remembers(j1, rep, m)
  BY <1>2, <1>4 DEF Target, Remembers, Chosen
<1>6. MakesAll(j1, rep, 2 - 1)
  BY <1>1, <1>2, <1>4, MakesAllTail
<1>7. 2 - 1 = 1
  OBVIOUS
<1>8. Late(j1, {}, rep)
  BY <1>1, <1>2, <1>5, <1>6, <1>7, MadeAnew
<1>9. Without(now, j.todo[1].names) = {}
  BY <1>4 DEF Without, NamesOf
<1> QED  BY <1>8, <1>9 DEF InProgress
-----------------------------------------------------------------------------
(* What a plan finds when it is made.                                       *)
LEMMA KnownFacts ==
  ASSUME NEW now, Distinct(now), Single(now), NEW known \in KeyToAlarm(now)
  PROVE  /\ Known(known, now)
         /\ \A m \in DOMAIN known : Of(now, m) = {known[m]}
         /\ \A m : m \notin DOMAIN known => Of(now, m) = {}
<1>1. known \in [{a.metric : a \in now} -> now] /\ \A m \in DOMAIN known : known[m].metric = m
  BY DEF KeyToAlarm
<1>2. DOMAIN known = {a.metric : a \in now} /\ \A m \in DOMAIN known : known[m] \in now
  BY <1>1
<1>3. \A a \in now : a \in AlarmType /\ a.metric \in Metrics /\ a.metric \in DOMAIN known
  BY <1>2, AlarmFields DEF Distinct
<1>4. DOMAIN known \subseteq Metrics
  BY <1>2, AlarmFields DEF Distinct
<1>5. Known(known, now)
  BY <1>1, <1>2, <1>3, <1>4 DEF Known
<1>6. ASSUME NEW m \in DOMAIN known PROVE Of(now, m) = {known[m]}
  <2>1. known[m] \in now /\ known[m].metric = m
    BY <1>1, <1>2
  <2>2. \A a \in now : a.metric = m => a = known[m]
    BY <2>1 DEF Single
  <2> QED  BY <2>1, <2>2 DEF Of
<1>7. ASSUME NEW m, m \notin DOMAIN known PROVE Of(now, m) = {}
  BY <1>3, <1>7 DEF Of
<1> QED  BY <1>5, <1>6, <1>7

(* A job that has just decided, and what it knows.                          *)
Decides(j, now, known) ==
  j.before = now /\ Distinct(now) /\ Single(now) /\ known \in KeyToAlarm(now)

LEMMA KnownCall ==
  ASSUME NEW j, NEW now, NEW known, Decides(j, now, known), NEW m \in DOMAIN known
  PROVE  /\ m \in Metrics /\ known[m] \in AlarmType /\ known[m].metric = m
         /\ Of(now, m) = {known[m]} /\ Same(j, m, Of(now, m))
         /\ \A do : CallFor(do, known, m).names = NamesOf(Of(now, m))
<1>1. Known(known, now) /\ Of(now, m) = {known[m]}
  BY KnownFacts DEF Decides
<1>2. NamesOf(Of(now, m)) = {NameOf(known[m])}
  BY <1>1 DEF NamesOf
<1> QED  BY <1>1, <1>2, CallForNames DEF Known, Same, Decides

LEMMA UnknownCall ==
  ASSUME NEW j, NEW now, NEW known, Decides(j, now, known), NEW m, m \notin DOMAIN known
  PROVE  Of(now, m) = {} /\ Same(j, m, Of(now, m))
BY KnownFacts DEF Decides, Same

LEMMA FirstFindings ==
  ASSUME NEW j, j.thr \in [Metrics -> Settings], NEW now, NEW known, Decides(j, now, known), NEW rep,
         NEW c \in FirstCalls(j.thr, known)
  PROVE  c.do \in {"delete", "single", "read"} /\ Findings(c, j, rep, c.metric, Of(now, c.metric))
<1> DEFINE m == c.metric
           thr == j.thr
<1>1. Known(known, now)
  BY KnownFacts DEF Decides
<1>2. DOMAIN known \subseteq Metrics
  BY <1>1 DEF Known
<1>3. CASE c.do = "delete" /\ m \in Offs(thr, known) \cup Gone(thr, known) /\ c = CallFor("delete", known, m)
  <2>1. m \in DOMAIN known
    BY <1>2, <1>3, PartsAre DEF Gone
  <2>2. Same(j, m, Of(now, m)) /\ c.names = NamesOf(Of(now, m))
    BY <1>3, <2>1, KnownCall
  <2>3. m \notin Target(j, rep)
    <3>1. CASE m \in Offs(thr, known)
      BY <1>2, <3>1, PartsAre, TargetFacts
    <3>2. CASE m \in Gone(thr, known)
      <4>1. m \in Dynamic /\ m \notin Asked(thr)
        BY <1>2, <3>2, PartsAre DEF Gone
      <4> QED  BY <4>1, MetricKinds DEF Target, Created, SeenDisks
    <3> QED  BY <1>3, <3>1, <3>2
  <2> QED  BY <1>3, <2>2, <2>3 DEF Findings, OnMetric
<1>4. CASE c.do = "single" /\ m \in News(thr, known)
  <2>1. m \notin DOMAIN known /\ m \in Asked(thr)
    BY <1>2, <1>4, PartsAre DEF News
  <2>2. Of(now, m) = {} /\ Same(j, m, Of(now, m))
    BY <2>1, UnknownCall
  <2> QED  BY <1>4, <2>1, <2>2 DEF Findings, OnMetric, Allowed
<1>5. CASE c.do = "read" /\ m \in Turned(thr, known) /\ c = CallFor("read", known, m)
  <2>1. m \in DOMAIN known /\ m \in Asked(thr)
    BY <1>2, <1>5, PartsAre DEF Turned
  <2>2. Same(j, m, Of(now, m)) /\ c.names = NamesOf(Of(now, m)) /\ Of(now, m) # {}
    BY <1>5, <2>1, KnownCall
  <2> QED  BY <1>5, <2>1, <2>2 DEF Findings, OnMetric, Allowed
<1> QED  BY <1>1, <1>3, <1>4, <1>5, FirstCallsAre

LEMMA LookFindings ==
  ASSUME NEW j, j.thr \in [Metrics -> Settings], NEW now, NEW known, Decides(j, now, known), NEW rep, NEW seen,
         NEW m \in Drift(j.thr, known, seen), NEW c, c = CallFor("look", known, m), c.do = "look"
  PROVE  Findings(c, j, rep, m, Of(now, m))
<1>1. DOMAIN known \subseteq Metrics
  BY KnownFacts DEF Decides, Known
<1>2. m \in DOMAIN known /\ m \in Standard \cup Disks /\ ~IsOff(j.thr, m)
  BY <1>1, PartsAre
<1>3. Same(j, m, Of(now, m)) /\ c.names = NamesOf(Of(now, m)) /\ Of(now, m) # {}
  BY <1>2, KnownCall
<1>4. m \in Allowed(j.thr)
  BY <1>2 DEF Allowed
<1> QED  BY <1>3, <1>4 DEF Findings, OnMetric

LEMMA MissingFindings ==
  ASSUME NEW j, j.thr \in [Metrics -> Settings], NEW now, NEW known, Decides(j, now, known), NEW rep,
         NEW m \in Missing(j.thr, known), NEW c, c.do = "single"
  PROVE  Findings(c, j, rep, m, Of(now, m))
<1>1. DOMAIN known \subseteq Metrics
  BY KnownFacts DEF Decides, Known
<1>2. m \notin DOMAIN known /\ m \in Standard /\ ~IsOff(j.thr, m)
  BY <1>1, PartsAre
<1>3. Same(j, m, Of(now, m)) /\ Of(now, m) = {}
  BY <1>2, UnknownCall
<1>4. m \in Allowed(j.thr)
  BY <1>2 DEF Allowed
<1> QED  BY <1>3, <1>4 DEF Findings, OnMetric

LEMMA UntoldFindings ==
  ASSUME NEW j, j.thr \in [Metrics -> Settings], NEW now, NEW known, Decides(j, now, known), NEW rep, NEW seen,
         NEW m \in Untold(j.thr, known, seen), NEW c, c = CallFor("refresh", known, m), c.do = "refresh"
  PROVE  Findings(c, j, rep, m, Of(now, m)) /\ Half(j, rep, m, Of(now, m))
<1>1. DOMAIN known \subseteq Metrics
  BY KnownFacts DEF Decides, Known
<1>2. m \in Judged(j.thr, known, seen) \cup Asked(j.thr) /\ m \in DOMAIN known /\ ~Drifted(j.thr, known[m])
  BY <1>1, PartsAre DEF Untold
<1>3. known[m] \in AlarmType /\ known[m].metric = m /\ Of(now, m) = {known[m]} /\ c.names = {NameOf(known[m])}
  BY <1>2, KnownCall, CallForNames
<1>4. Right(known[m], j.thr) /\ known[m].threshold = ThresholdOf(j.thr, m)
  BY <1>2, <1>3, AlarmFields DEF Drifted, Right, Compared
<1>5. c.names = {<<m, ThresholdOf(j.thr, m)>>}
  BY <1>3, <1>4 DEF NameOf
<1>6. m \in Allowed(j.thr)
  BY <1>1, <1>2, PartsAre DEF Allowed
<1>7. Chosen(j, m) => known[m].tag = "chosen"
  <2>1. ASSUME NEW b \in now, b.metric = m PROVE b = known[m]
    BY <1>3, <2>1 DEF Of
  <2> QED  BY <2>1 DEF Chosen, Decides
<1>8. Half(j, rep, m, Of(now, m))
  BY <1>3, <1>4, <1>6, <1>7 DEF Half
<1> QED  BY <1>5, <1>8 DEF Findings, OnMetric

LEMMA UntoldTarget ==
  ASSUME NEW j, j.thr \in [Metrics -> Settings], NEW rep, NEW known, DOMAIN known \subseteq Metrics,
         NEW seen, NewDisk(known, seen), NEW m \in Untold(j.thr, known, seen)
  PROVE  m \in Target(j, rep)
BY PartsAre DEF Target, Created, Untold

(* The metrics no call is of are as they should be.                         *)
LEMMA RestFinal ==
  ASSUME NEW j, j.thr \in [Metrics -> Settings], NEW now, NEW known, Decides(j, now, known), NEW rep, NEW seen,
         seen = SeenDisks(j.thr, rep), ~NewDisk(known, seen), NEW m \in Metrics,
         m \notin Offs(j.thr, known), m \notin News(j.thr, known), m \notin Stale(j.thr, known),
         m \notin Drift(j.thr, known, seen), m \notin Missing(j.thr, known), m \notin Untold(j.thr, known, seen)
  PROVE  Final(j, rep, m, Of(now, m))
<1> DEFINE thr == j.thr
<1>1. CASE m \in DOMAIN known
  <2> DEFINE a == known[m]
  <2>1. a \in AlarmType /\ a.metric = m /\ Of(now, m) = {a}
    BY <1>1, KnownCall
  <2>2. \/ (m \in Standard /\ ~IsOff(thr, m)) \/ m \in Disks \/ m \in Asked(thr)
    BY <1>1 DEF Offs, SwitchedOff, Stale, Metrics
  <2>3. CASE m \in Disks /\ IsOff(thr, m)
    <3>1. m \in Allowed(thr) /\ m \notin Wanted(thr, rep)
      BY <2>3, TargetFacts DEF Allowed
    <3> QED  BY <2>1, <2>3, <3>1 DEF Final, Kept
  <2>4. CASE ~(m \in Disks /\ IsOff(thr, m))
    <3>1. m \in Judged(thr, known, seen) \cup (Asked(thr) \cap DOMAIN known)
      BY <1>1, <2>2, <2>4 DEF Judged
    <3>2. ~Drifted(thr, a)
      <4>1. CASE m \in Judged(thr, known, seen)
        BY <4>1 DEF Drift
      <4>2. CASE m \in Asked(thr)
        BY <1>1, <4>2 DEF Stale, Asked
      <4> QED  BY <3>1, <4>1, <4>2
    <3>3. a.told # "none" /\ Right(a, thr)
      <4>1. a.told # "none"
        BY <3>1, <3>2 DEF Untold
      <4> QED  BY <2>1, <3>2, <4>1, AlarmFields DEF Drifted, Right, Compared
    <3>4. m \in Allowed(thr)
      BY <2>2 DEF Allowed
    <3>5. Kept({a}, j.before, thr)
      <4>1. ASSUME NEW b \in now, b.metric = m, b.tag = "chosen", b.told # "registry"
            PROVE  a.tag = "chosen" /\ a.told = "chosen"
        <5>1. b = a
          BY <2>1, <4>1 DEF Of
        <5> QED  BY <2>1, <3>3, <4>1, <5>1, AlarmFields
      <4> QED  BY <2>1, <4>1 DEF Kept, Decides
    <3> QED  BY <2>1, <3>3, <3>4, <3>5 DEF Final
  <2> QED  BY <2>3, <2>4
<1>2. CASE m \notin DOMAIN known
  <2>1. Of(now, m) = {}
    BY <1>2, UnknownCall
  <2>2. m \notin Target(j, rep)
    BY <1>2 DEF Target, Created, Missing, NewDisk, News
  <2>3. m \notin Wanted(thr, rep)
    BY <2>2, TargetFacts
  <2> QED  BY <2>1, <2>3 DEF Final, Kept
<1> QED  BY <1>1, <1>2
-----------------------------------------------------------------------------
(* A job whose plan changes single metrics is late from the start.          *)
LEMMA LateBegins ==
  ASSUME NEW j, NEW now, NEW rep, NEW Z, Lists(j.todo, Z),
         \A c \in Z : /\ c.do \notin {"put", "rewrite"} /\ Findings(c, j, rep, c.metric, Of(now, c.metric))
                      /\ c.do = "refresh" => Half(j, rep, c.metric, Of(now, c.metric)),
         \A m \in Metrics : (\A c \in Z : c.metric # m) => Final(j, rep, m, Of(now, m))
  PROVE  Late(j, now, rep)
<1> DEFINE t == j.todo
<1>1. /\ t \in Seq(CallType) /\ \A i \in DOMAIN t : t[i] \in Z
      /\ \A c \in Z : \E i \in DOMAIN t : t[i] = c
      /\ \A i, l \in DOMAIN t : t[i].metric = t[l].metric => i = l
  BY DEF Lists
<1>2. \A i \in DOMAIN t : i \in Nat /\ i < Len(t) + 1
  BY <1>1, SeqFacts
<1> HIDE DEF t
<1>3. ASSUME NEW i \in DOMAIN t PROVE Ready(j, rep, i, Of(now, t[i].metric))
  BY <1>1 DEF Ready, t
<1>4. ASSUME NEW m \in Metrics, ~Pending(j, Len(t) + 1, m) PROVE Final(j, rep, m, Of(now, m))
  <2>1. ASSUME NEW c \in Z, c.metric = m PROVE FALSE
    <3>1. PICK i \in DOMAIN t : t[i] = c
      BY <1>1
    <3> QED  BY <1>2, <1>4, <2>1, <3>1 DEF Pending, t
  <2> QED  BY <2>1
<1>5. Front(j, now, rep, Len(t) + 1, FALSE)
  <2>1. \A i \in DOMAIN j.todo : i < Len(t) + 1 => Ready(j, rep, i, Of(now, j.todo[i].metric))
    BY <1>3 DEF t
  <2>2. \A i, l \in DOMAIN j.todo : i < l /\ l < Len(t) + 1 /\ j.todo[i].metric = j.todo[l].metric =>
           j.todo[i].do = "put" /\ j.todo[l].do = "refresh"
    <3>1. \A i, l \in DOMAIN t : i < l => t[i].metric # t[l].metric
      BY <1>1, <1>2
    <3> QED  BY <3>1 DEF t
  <2>3. \A m \in Metrics : ~Pending(j, Len(t) + 1, m) => Done(FALSE, j, rep, m, Of(now, m))
    BY <1>4 DEF Done
  <2> QED  BY <2>1, <2>2, <2>3 DEF Front
<1> QED  BY <1>5 DEF Late, t

(* What is made anew: the metrics that are wanted, one after the other.     *)
LEMMA CreateLists ==
  ASSUME NEW thr \in [Metrics -> Settings], NEW seen \in SUBSET Disks
  PROVE  \E e : /\ Lists(e, CallsOn("put", Created(thr, seen), <<>>))
                /\ CreatePlan(thr, seen) = <<Whole("keep"), Whole("wipe")>> \o e
                /\ \A c \in CallsOn("put", Created(thr, seen), <<>>) :
                     c.metric \in Created(thr, seen) /\ c.do = "put"
                /\ \A m \in Created(thr, seen) :
                     \E c \in CallsOn("put", Created(thr, seen), <<>>) : c.metric = m
<1>1. Created(thr, seen) \in SUBSET Metrics /\ "put" \in OnMetric
  BY MetricKinds DEF Created, Asked, OnMetric
<1>2. Lists(Each(Doing("put", Created(thr, seen)), <<>>), CallsOn("put", Created(thr, seen), <<>>))
  BY <1>1, NothingKnown, DoingLists
<1>3. /\ \A c \in CallsOn("put", Created(thr, seen), <<>>) : c.metric \in Created(thr, seen) /\ c.do = "put"
      /\ \A m \in Created(thr, seen) : \E c \in CallsOn("put", Created(thr, seen), <<>>) : c.metric = m
  BY <1>1, NothingKnown, CallsOnFacts
<1> QED  BY <1>2, <1>3 DEF CreatePlan

LEMMA WholeFacts ==
  ASSUME NEW do
  PROVE  /\ Whole(do).do = do /\ Whole(do).metric = "all" /\ Whole(do).strict = FALSE
         /\ do \in {"keep", "wipe"} \cup Asks => Whole(do) \in CallType
<1>1. /\ Whole(do).do = do /\ Whole(do).metric = "all" /\ Whole(do).strict = FALSE
  BY DEF Whole, Call
<1>2. do \in {"keep", "wipe"} \cup Asks => Whole(do) \in CallType
  BY CallTyped DEF Whole, Deeds, OnMetric, Edits, Asks
<1> QED  BY <1>1, <1>2

MakesEach(p, M) ==
  /\ p \in Seq(CallType) /\ Len(p) \in Nat /\ Len(p) >= 2 /\ DOMAIN p = 1 .. Len(p)
  /\ p[1].do = "keep" /\ p[2].do = "wipe"
  /\ \A i \in DOMAIN p : i > 2 => p[i].do = "put" /\ p[i].metric \in M
  /\ \A m \in M : \E i \in DOMAIN p : i > 2 /\ p[i].metric = m
  /\ \A i, l \in DOMAIN p : i > 2 /\ l > 2 /\ p[i].metric = p[l].metric => i = l

LEMMA CreateFacts ==
  ASSUME NEW thr \in [Metrics -> Settings], NEW seen \in SUBSET Disks
  PROVE  MakesEach(CreatePlan(thr, seen), Created(thr, seen))
<1> DEFINE p == CreatePlan(thr, seen)
           s == <<Whole("keep"), Whole("wipe")>>
           C == CallsOn("put", Created(thr, seen), <<>>)
           M == Created(thr, seen)
<1>1. s \in Seq(CallType) /\ Len(s) = 2 /\ DOMAIN s = {1, 2} /\ s[1].do = "keep" /\ s[2].do = "wipe"
  <2>1. /\ Whole("keep") \in CallType /\ Whole("wipe") \in CallType
        /\ Whole("keep").do = "keep" /\ Whole("wipe").do = "wipe"
    BY WholeFacts
  <2>2. /\ Len(s) = 2 /\ DOMAIN s = {1, 2} /\ s[1] = Whole("keep") /\ s[2] = Whole("wipe")
        /\ s \in Seq({Whole("keep"), Whole("wipe")})
    OBVIOUS
  <2>3. \A i \in {1, 2} : s[i] \in CallType
    BY <2>1, <2>2
  <2> HIDE DEF s
  <2> QED  BY <2>1, <2>2, <2>3
<1>2. PICK e : /\ Lists(e, C) /\ p = s \o e
               /\ \A c \in C : c.metric \in M /\ c.do = "put"
               /\ \A m \in M : \E c \in C : c.metric = m
  BY CreateLists
<1>3. /\ e \in Seq(CallType) /\ \A i \in DOMAIN e : e[i] \in C
      /\ \A c \in C : \E i \in DOMAIN e : e[i] = c
      /\ \A i, l \in DOMAIN e : e[i].metric = e[l].metric => i = l
  BY <1>2 DEF Lists
<1> HIDE DEF p, s, C, M
<1>4. /\ s \o e \in Seq(CallType) /\ Len(s \o e) = Len(s) + Len(e) /\ DOMAIN (s \o e) = 1 .. Len(s) + Len(e)
      /\ Len(e) \in Nat
      /\ \A i \in DOMAIN (s \o e) :
           \/ i \in DOMAIN s /\ (s \o e)[i] = s[i]
           \/ i - Len(s) \in DOMAIN e /\ i > Len(s) /\ (s \o e)[i] = e[i - Len(s)]
      /\ \A i \in DOMAIN s : i \in DOMAIN (s \o e) /\ (s \o e)[i] = s[i]
      /\ \A i \in DOMAIN e :
           i + Len(s) \in DOMAIN (s \o e) /\ i + Len(s) > Len(s) /\ (s \o e)[i + Len(s)] = e[i]
  BY <1>1, <1>3, JoinFacts
<1>5. p \in Seq(CallType) /\ Len(p) = 2 + Len(e) /\ Len(e) \in Nat /\ DOMAIN p = 1 .. Len(p)
  BY <1>1, <1>2, <1>4
<1>6. p[1].do = "keep" /\ p[2].do = "wipe"
  BY <1>1, <1>2, <1>4
<1>7. \A i \in DOMAIN p : i > 2 => i - 2 \in DOMAIN e /\ p[i] = e[i - 2]
  BY <1>1, <1>2, <1>4
<1>8. \A i \in DOMAIN e : i + 2 \in DOMAIN p /\ i + 2 > 2 /\ p[i + 2] = e[i]
  BY <1>1, <1>2, <1>4
<1>9. \A i \in DOMAIN p : i > 2 => p[i].do = "put" /\ p[i].metric \in M
  BY <1>2, <1>3, <1>7
<1>10. ASSUME NEW m \in M PROVE \E i \in DOMAIN p : i > 2 /\ p[i].metric = m
  <2>1. PICK c \in C : c.metric = m
    BY <1>2
  <2>2. PICK i \in DOMAIN e : e[i] = c
    BY <1>3
  <2> QED  BY <1>8, <2>1, <2>2
<1>11. ASSUME NEW i \in DOMAIN p, NEW l \in DOMAIN p, i > 2, l > 2, p[i].metric = p[l].metric PROVE i = l
  <2>1. i - 2 = l - 2
    BY <1>3, <1>7, <1>11
  <2> QED  BY <1>5, <2>1
<1>12. Len(p) >= 2 /\ Len(p) \in Nat
  BY <1>5
<1>13. MakesEach(p, M)
  BY <1>5, <1>6, <1>9, <1>10, <1>11, <1>12 DEF MakesEach
<1> QED  BY <1>13 DEF p, M

(* A job whose plan makes everything anew, after some single changes and    *)
(* before some descriptions.                                                *)
LEMMA EarlyBegins ==
  ASSUME NEW j, j.thr \in [Metrics -> Settings], NEW now, j.before = now, NEW rep,
         NEW P, NEW Q, NEW R, j.todo = (P \o Q) \o R, Q = CreatePlan(j.thr, SeenDisks(j.thr, rep)),
         NEW X, Lists(P, X),
         \A c \in X : /\ c.do \notin {"put", "refresh", "rewrite"}
                      /\ Findings(c, j, rep, c.metric, Of(now, c.metric)),
         NEW Y, Lists(R, Y),
         \A c \in Y : /\ c.do = "refresh" /\ c.metric \in Target(j, rep)
                      /\ c.names = {<<c.metric, ThresholdOf(j.thr, c.metric)>>}
  PROVE  /\ Len(P) + 1 \in DOMAIN j.todo /\ Early(j, now, rep, Len(P) + 1)
<1> DEFINE t == j.todo
           p == Len(P)
           q == Len(Q)
           seen == SeenDisks(j.thr, rep)
           M == Created(j.thr, seen)
<1>1. /\ P \in Seq(CallType) /\ (\A i \in DOMAIN P : P[i] \in X)
      /\ \A i, l \in DOMAIN P : P[i].metric = P[l].metric => i = l
  BY DEF Lists
<1>2. /\ R \in Seq(CallType) /\ (\A i \in DOMAIN R : R[i] \in Y)
      /\ \A i, l \in DOMAIN R : R[i].metric = R[l].metric => i = l
  BY DEF Lists
<1>3. seen \in SUBSET Disks /\ M = Target(j, rep) /\ Q = CreatePlan(j.thr, seen)
  BY DEF SeenDisks, Target
<1> HIDE DEF seen
<1>4. /\ Q \in Seq(CallType) /\ q \in Nat /\ q >= 2 /\ DOMAIN Q = 1 .. q
      /\ Q[1].do = "keep" /\ Q[2].do = "wipe"
      /\ \A i \in DOMAIN Q : i > 2 => Q[i].do = "put" /\ Q[i].metric \in M
      /\ \A m \in M : \E i \in DOMAIN Q : i > 2 /\ Q[i].metric = m
      /\ \A i, l \in DOMAIN Q : i > 2 /\ l > 2 /\ Q[i].metric = Q[l].metric => i = l
  <2>1. MakesEach(Q, M)
    BY <1>3, CreateFacts
  <2> QED  BY <2>1 DEF MakesEach
<1>5. p \in Nat /\ DOMAIN P = 1 .. p /\ Len(R) \in Nat /\ DOMAIN R = 1 .. Len(R)
  BY <1>1, <1>2, SeqFacts
<1>6. P \o Q \in Seq(CallType) /\ Len(P \o Q) = p + q
  BY <1>1, <1>4, JoinFacts
<1>7. /\ DOMAIN t = 1 .. p + q + Len(R)
      /\ \A i \in 1 .. p : t[i] = P[i]
      /\ \A i \in 1 .. q : t[i + p] = Q[i]
      /\ \A i \in 1 .. Len(R) : t[i + (p + q)] = R[i]
  BY <1>1, <1>2, <1>4, <1>5, <1>6
<1> HIDE DEF t, p, q, M
<1>8. /\ \A i \in DOMAIN t : i \in Nat /\ i >= 1
      /\ \A i \in DOMAIN t : i <= p => i \in DOMAIN P /\ t[i] = P[i]
      /\ \A i \in DOMAIN t : p < i /\ i <= p + q => i - p \in DOMAIN Q /\ t[i] = Q[i - p]
      /\ \A i \in DOMAIN t : p + q < i => i - (p + q) \in DOMAIN R /\ t[i] = R[i - (p + q)]
  <2>1. \A i \in DOMAIN t : i \in Nat /\ i >= 1
    BY <1>4, <1>5, <1>7
  <2>2. \A i \in DOMAIN t : i <= p => i \in DOMAIN P /\ t[i] = P[i]
    BY <1>5, <1>7, <2>1
  <2>3. ASSUME NEW i \in DOMAIN t, p < i, i <= p + q PROVE i - p \in DOMAIN Q /\ t[i] = Q[i - p]
    <3>1. i - p \in 1 .. q /\ (i - p) + p = i
      BY <1>4, <1>5, <2>1, <2>3
    <3> QED  BY <1>4, <1>7, <3>1
  <2>4. ASSUME NEW i \in DOMAIN t, p + q < i PROVE i - (p + q) \in DOMAIN R /\ t[i] = R[i - (p + q)]
    <3>1. i - (p + q) \in 1 .. Len(R) /\ (i - (p + q)) + (p + q) = i
      BY <1>4, <1>5, <1>7, <2>1, <2>4
    <3> QED  BY <1>5, <1>7, <3>1
  <2> QED  BY <2>1, <2>2, <2>3, <2>4
<1>9. /\ p + 1 \in DOMAIN t /\ t[p + 1].do = "keep"
      /\ (p + 1) + 1 \in DOMAIN t /\ t[(p + 1) + 1].do = "wipe"
  <2>1. 1 \in 1 .. q /\ 2 \in 1 .. q /\ 1 + p = p + 1 /\ 2 + p = (p + 1) + 1
    BY <1>4, <1>5
  <2>2. t[p + 1] = Q[1] /\ t[(p + 1) + 1] = Q[2]
    BY <1>7, <2>1
  <2>3. p + 1 \in DOMAIN t /\ (p + 1) + 1 \in DOMAIN t
    BY <1>4, <1>5, <1>7
  <2> QED  BY <1>4, <2>2, <2>3
<1>10. Front(j, now, rep, p + 1, TRUE)
  <2>1. ASSUME NEW i \in DOMAIN t, i < p + 1
        PROVE  Ready(j, rep, i, Of(now, t[i].metric)) /\ t[i].do \notin {"refresh", "rewrite"}
    <3>1. t[i] \in X
      BY <1>1, <1>5, <1>8, <2>1
    <3> QED  BY <3>1 DEF Ready, t
  <2>2. ASSUME NEW i \in DOMAIN t, NEW l \in DOMAIN t, i < l, l < p + 1 PROVE t[i].metric # t[l].metric
    <3>1. i \in DOMAIN P /\ t[i] = P[i] /\ l \in DOMAIN P /\ t[l] = P[l] /\ i # l
      BY <1>5, <1>8, <2>2
    <3> QED  BY <1>1, <3>1
  <2>3. \A m : Marked(j, rep, m, Of(now, m))
    BY DEF Marked, Chosen, Of
  <2> QED  BY <2>1, <2>2, <2>3 DEF Front, Done, t
<1>11. MakesAll(j, rep, (p + 1) + 2)
  <2>1. \A i \in DOMAIN t : i >= (p + 1) + 2 =>
          \/ i - p \in DOMAIN Q /\ i - p > 2 /\ t[i] = Q[i - p] /\ i <= p + q
          \/ i - (p + q) \in DOMAIN R /\ t[i] = R[i - (p + q)] /\ p + q < i
    BY <1>4, <1>5, <1>8
  <2>2. ASSUME NEW i \in DOMAIN t, i >= (p + 1) + 2
        PROVE  /\ t[i].do \in {"put", "refresh"} /\ t[i].metric \in M
               /\ t[i].do = "refresh" => t[i].names = {<<t[i].metric, ThresholdOf(j.thr, t[i].metric)>>}
    <3>1. CASE i - p \in DOMAIN Q /\ i - p > 2 /\ t[i] = Q[i - p]
      <4>1. t[i].do = "put" /\ t[i].metric \in M
        BY <1>4, <3>1
      <4> QED  BY <4>1
    <3>2. CASE i - (p + q) \in DOMAIN R /\ t[i] = R[i - (p + q)]
      <4>1. t[i] \in Y
        BY <1>2, <3>2
      <4> QED  BY <1>3, <4>1
    <3> QED  BY <2>1, <2>2, <3>1, <3>2
  <2>3. ASSUME NEW m \in M
        PROVE  \E i \in DOMAIN t : i >= (p + 1) + 2 /\ t[i].do = "put" /\ t[i].metric = m
    <3>1. PICK i \in DOMAIN Q : i > 2 /\ Q[i].metric = m
      BY <1>4
    <3>2. i + p \in DOMAIN t /\ i + p >= (p + 1) + 2 /\ t[i + p] = Q[i]
      BY <1>4, <1>5, <1>7, <3>1
    <3> QED  BY <1>4, <3>1, <3>2
  <2>4. ASSUME NEW i \in DOMAIN t, NEW l \in DOMAIN t, (p + 1) + 2 <= i, i < l, t[i].metric = t[l].metric
        PROVE  t[i].do = "put" /\ t[l].do = "refresh"
    <3>1. i \in Nat /\ l \in Nat /\ l >= (p + 1) + 2
      BY <1>5, <1>8, <2>4
    <3>2. CASE i <= p + q /\ l <= p + q
      <4>1. i - p \in DOMAIN Q /\ i - p > 2 /\ t[i] = Q[i - p]
        BY <1>4, <1>5, <2>1, <2>4, <3>1, <3>2
      <4>2. l - p \in DOMAIN Q /\ l - p > 2 /\ t[l] = Q[l - p]
        BY <1>4, <1>5, <2>1, <2>4, <3>1, <3>2
      <4>3. i - p = l - p
        BY <1>4, <2>4, <4>1, <4>2
      <4> QED  BY <1>5, <2>4, <3>1, <4>3
    <3>3. CASE i <= p + q /\ p + q < l
      <4>1. i - p \in DOMAIN Q /\ i - p > 2 /\ t[i] = Q[i - p]
        BY <1>4, <1>5, <2>1, <2>4, <3>1, <3>3
      <4>2. l - (p + q) \in DOMAIN R /\ t[l] = R[l - (p + q)]
        BY <1>8, <3>3
      <4> QED  BY <1>2, <1>4, <4>1, <4>2
    <3>4. CASE p + q < i
      <4>1. i - (p + q) \in DOMAIN R /\ t[i] = R[i - (p + q)]
        BY <1>8, <3>4
      <4>2. l - (p + q) \in DOMAIN R /\ t[l] = R[l - (p + q)]
        BY <1>4, <1>5, <1>8, <2>4, <3>1, <3>4
      <4>3. i - (p + q) = l - (p + q)
        BY <1>2, <2>4, <4>1, <4>2
      <4> QED  BY <1>4, <1>5, <2>4, <3>1, <4>3
    <3> QED  BY <1>4, <1>5, <2>4, <3>1, <3>2, <3>3, <3>4
  <2> QED  BY <1>3, <2>2, <2>3, <2>4 DEF MakesAll, t
<1> QED  BY <1>9, <1>10, <1>11 DEF Early, t, p
-----------------------------------------------------------------------------
(* The calls of a sync.                                                     *)
SingleCalls(thr, known, seen) ==
  (FirstCalls(thr, known)
     \cup (CallsOn("look", Drift(thr, known, seen), known) \cup CallsOn("single", Missing(thr, known), known)))
     \cup CallsOn("refresh", Untold(thr, known, seen), known)

LEMMA PartsOfMetrics ==
  ASSUME NEW thr \in [Metrics -> Settings], NEW known, NEW seen, DOMAIN known \subseteq Metrics
  PROVE  /\ Drift(thr, known, seen) \in SUBSET Metrics /\ Missing(thr, known) \in SUBSET Metrics
         /\ Untold(thr, known, seen) \in SUBSET Metrics
         /\ \A m \in Drift(thr, known, seen) : m \notin Missing(thr, known)
         /\ \A m \in Offs(thr, known) \cup News(thr, known) \cup Stale(thr, known) :
              m \notin Drift(thr, known, seen) /\ m \notin Missing(thr, known) /\ m \notin Untold(thr, known, seen)
         /\ \A m \in Drift(thr, known, seen) \cup Missing(thr, known) : m \notin Untold(thr, known, seen)
<1>1. /\ \A m \in Drift(thr, known, seen) : m \in (Standard \cup Disks) \cap DOMAIN known /\ ~IsOff(thr, m)
      /\ \A m \in Missing(thr, known) : m \in Standard /\ m \notin DOMAIN known /\ ~IsOff(thr, m)
  BY PartsAre
<1>2. \A m \in Untold(thr, known, seen) : /\ m \in DOMAIN known /\ m \in Metrics
                                          /\ ~IsOff(thr, m) \/ m \in Dynamic
                                          /\ m \notin Drift(thr, known, seen) /\ m \notin Stale(thr, known)
  <2>1. \A m \in Judged(thr, known, seen) : m \in DOMAIN known /\ ~IsOff(thr, m)
    BY PartsAre
  <2>2. \A m \in Asked(thr) : m \in Dynamic
    BY DEF Asked
  <2>3. /\ Untold(thr, known, seen) \cap Drift(thr, known, seen) = {}
        /\ Untold(thr, known, seen) \cap Stale(thr, known) = {}
    BY PartsAre
  <2> QED  BY <2>1, <2>2, <2>3 DEF Untold
<1>3. \A m \in Offs(thr, known) : m \in Standard /\ m \in DOMAIN known /\ IsOff(thr, m)
  BY PartsAre
<1>4. /\ \A m \in News(thr, known) : m \in Dynamic /\ m \notin DOMAIN known
      /\ \A m \in Stale(thr, known) : m \in Dynamic /\ m \in DOMAIN known
  BY PartsAre
<1>5. \A m \in Offs(thr, known) :
        m \notin Drift(thr, known, seen) /\ m \notin Missing(thr, known) /\ m \notin Untold(thr, known, seen)
  BY <1>1, <1>2, <1>3, MetricKinds
<1>6. \A m \in News(thr, known) \cup Stale(thr, known) :
        m \notin Drift(thr, known, seen) /\ m \notin Missing(thr, known) /\ m \notin Untold(thr, known, seen)
  BY <1>1, <1>2, <1>4, MetricKinds
<1>7. \A m \in Drift(thr, known, seen) \cup Missing(thr, known) : m \notin Untold(thr, known, seen)
  BY <1>1, <1>2
<1>8. /\ Drift(thr, known, seen) \in SUBSET Metrics /\ Missing(thr, known) \in SUBSET Metrics
      /\ Untold(thr, known, seen) \in SUBSET Metrics
  BY <1>1, <1>2, MetricKinds
<1>9. \A m \in Drift(thr, known, seen) : m \notin Missing(thr, known)
  BY <1>1
<1> QED  BY <1>5, <1>6, <1>7, <1>8, <1>9

LEMMA FirstMetrics ==
  ASSUME NEW now, NEW known, Known(known, now), NEW thr \in [Metrics -> Settings],
         NEW c \in FirstCalls(thr, known)
  PROVE  c.metric \in Offs(thr, known) \cup News(thr, known) \cup Stale(thr, known)
BY FirstCallsAre DEF Gone, Turned

LEMMA SyncLists ==
  ASSUME NEW now, NEW known, Known(known, now), NEW thr \in [Metrics -> Settings], NEW seen
  PROVE  /\ ~NewDisk(known, seen) => Lists(SyncPlan(thr, known, seen), SingleCalls(thr, known, seen))
         /\ NewDisk(known, seen) =>
              \E P, R : /\ SyncPlan(thr, known, seen) = (P \o CreatePlan(thr, seen)) \o R
                        /\ Lists(P, FirstCalls(thr, known))
                        /\ Lists(R, CallsOn("refresh", Untold(thr, known, seen), known))
<1> DEFINE P == Each(Doing("delete", SwitchedOff(thr, known)), known) \o SyncDynamic(thr, known)
           L == Each(Doing("look", Drift(thr, known, seen)), known)
           M == Each(Doing("single", Missing(thr, known)), known)
           R == Each(Doing("refresh", Untold(thr, known, seen)), known)
           A == FirstCalls(thr, known)
           B == CallsOn("look", Drift(thr, known, seen), known)
           C == CallsOn("single", Missing(thr, known), known)
           D == CallsOn("refresh", Untold(thr, known, seen), known)
<1>1. DOMAIN known \subseteq Metrics
  BY DEF Known
<1>2. /\ Drift(thr, known, seen) \in SUBSET Metrics /\ Missing(thr, known) \in SUBSET Metrics
      /\ Untold(thr, known, seen) \in SUBSET Metrics
  BY <1>1, PartsOfMetrics
<1>3. "look" \in OnMetric /\ "single" \in OnMetric /\ "refresh" \in OnMetric
  BY DEF OnMetric
<1>4. Lists(P, A)
  BY FirstLists
<1>5. Lists(L, B) /\ Lists(M, C) /\ Lists(R, D)
  BY <1>2, <1>3, DoingLists
<1>6. \A c \in A : c.metric \in Offs(thr, known) \cup News(thr, known) \cup Stale(thr, known)
  BY FirstMetrics
<1>7. /\ \A c \in B : c.metric \in Drift(thr, known, seen)
      /\ \A c \in C : c.metric \in Missing(thr, known)
      /\ \A c \in D : c.metric \in Untold(thr, known, seen)
  BY <1>2, <1>3, CallsOnFacts
<1>8. SyncPlan(thr, known, seen) =
        (P \o (IF NewDisk(known, seen) THEN CreatePlan(thr, seen) ELSE L \o M)) \o R
  BY DEF SyncPlan, Changes, Drift
<1>9. SingleCalls(thr, known, seen) = (A \cup (B \cup C)) \cup D
  BY DEF SingleCalls
<1> HIDE DEF P, L, M, R, A, B, C, D
<1>10. \A c \in B, d \in C : c.metric # d.metric
  BY <1>1, <1>7, PartsOfMetrics
<1>11. \A c \in A, d \in B \cup C : c.metric # d.metric
  BY <1>1, <1>6, <1>7, PartsOfMetrics
<1>12. \A c \in A \cup (B \cup C), d \in D : c.metric # d.metric
  BY <1>1, <1>6, <1>7, PartsOfMetrics
<1>13. Lists((P \o (L \o M)) \o R, (A \cup (B \cup C)) \cup D)
  <2>1. Lists(L \o M, B \cup C)
    BY <1>5, <1>10, ListsJoin
  <2>2. Lists(P \o (L \o M), A \cup (B \cup C))
    BY <1>4, <1>11, <2>1, ListsJoin
  <2> QED  BY <1>5, <1>12, <2>2, ListsJoin
<1> QED  BY <1>4, <1>5, <1>8, <1>9, <1>13 DEF A, D

(* The plan of a sync of what is there, and of a creation.                  *)
LEMMA SyncProgress ==
  ASSUME NEW j, j.thr \in [Metrics -> Settings], NEW now, NEW known, Decides(j, now, known), NEW rep,
         j.todo = SyncPlan(j.thr, known, SeenDisks(j.thr, rep))
  PROVE  InProgress(j, now, rep)
<1> DEFINE thr == j.thr
           seen == SeenDisks(j.thr, rep)
<1>1. Known(known, now) /\ DOMAIN known \subseteq Metrics /\ j.before = now
  BY KnownFacts DEF Decides, Known
<1>2. \A c \in FirstCalls(thr, known) :
        c.do \in {"delete", "single", "read"} /\ Findings(c, j, rep, c.metric, Of(now, c.metric))
  BY FirstFindings
<1>3. /\ Drift(thr, known, seen) \in SUBSET Metrics /\ Missing(thr, known) \in SUBSET Metrics
      /\ Untold(thr, known, seen) \in SUBSET Metrics
  BY <1>1, PartsOfMetrics
<1>4. "look" \in OnMetric /\ "single" \in OnMetric /\ "refresh" \in OnMetric
  BY DEF OnMetric
<1>5. \A c \in CallsOn("refresh", Untold(thr, known, seen), known) :
        /\ c.do = "refresh" /\ Findings(c, j, rep, c.metric, Of(now, c.metric))
        /\ Half(j, rep, c.metric, Of(now, c.metric))
        /\ c.names = {<<c.metric, ThresholdOf(thr, c.metric)>>}
        /\ NewDisk(known, seen) => c.metric \in Target(j, rep)
  <2>1. TAKE c \in CallsOn("refresh", Untold(thr, known, seen), known)
  <2>2. /\ c.metric \in Untold(thr, known, seen) /\ c.do = "refresh"
        /\ c = CallFor("refresh", known, c.metric)
    BY <1>1, <1>3, <1>4, CallsOnFacts
  <2>3. Findings(c, j, rep, c.metric, Of(now, c.metric)) /\ Half(j, rep, c.metric, Of(now, c.metric))
    BY <2>2, UntoldFindings
  <2>4. c.names = {<<c.metric, ThresholdOf(thr, c.metric)>>}
    BY <2>2, <2>3 DEF Findings
  <2>5. NewDisk(known, seen) => c.metric \in Target(j, rep)
    BY <1>1, <2>2, UntoldTarget
  <2> QED  BY <2>2, <2>3, <2>4, <2>5
<1>6. CASE NewDisk(known, seen)
  <2>1. PICK P, R : /\ SyncPlan(thr, known, seen) = (P \o CreatePlan(thr, seen)) \o R
                    /\ Lists(P, FirstCalls(thr, known))
                    /\ Lists(R, CallsOn("refresh", Untold(thr, known, seen), known))
    BY <1>1, <1>6, SyncLists
  <2>2. \A c \in FirstCalls(thr, known) :
          /\ c.do \notin {"put", "refresh", "rewrite"} /\ Findings(c, j, rep, c.metric, Of(now, c.metric))
    BY <1>2
  <2>3. \A c \in CallsOn("refresh", Untold(thr, known, seen), known) :
          /\ c.do = "refresh" /\ c.metric \in Target(j, rep)
          /\ c.names = {<<c.metric, ThresholdOf(j.thr, c.metric)>>}
    BY <1>5, <1>6
  <2>4. Len(P) + 1 \in DOMAIN j.todo /\ Early(j, now, rep, Len(P) + 1)
    BY <1>1, <2>1, <2>2, <2>3, EarlyBegins
  <2> QED  BY <2>4 DEF InProgress
<1>7. CASE ~NewDisk(known, seen)
  <2> DEFINE Z == SingleCalls(thr, known, seen)
  <2>1. Lists(j.todo, Z)
    BY <1>1, <1>7, SyncLists
  <2>2. ASSUME NEW c \in Z
        PROVE  /\ c.do \notin {"put", "rewrite"} /\ Findings(c, j, rep, c.metric, Of(now, c.metric))
               /\ c.do = "refresh" => Half(j, rep, c.metric, Of(now, c.metric))
    <3>1. CASE c \in FirstCalls(thr, known)
      BY <1>2, <3>1
    <3>2. CASE c \in CallsOn("look", Drift(thr, known, seen), known)
      <4>1. c.metric \in Drift(thr, known, seen) /\ c.do = "look" /\ c = CallFor("look", known, c.metric)
        BY <1>1, <1>3, <1>4, <3>2, CallsOnFacts
      <4>2. Findings(c, j, rep, c.metric, Of(now, c.metric))
        BY <4>1, LookFindings
      <4> QED  BY <4>1, <4>2
    <3>3. CASE c \in CallsOn("single", Missing(thr, known), known)
      <4>1. c.metric \in Missing(thr, known) /\ c.do = "single"
        BY <1>1, <1>3, <1>4, <3>3, CallsOnFacts
      <4>2. Findings(c, j, rep, c.metric, Of(now, c.metric))
        BY <4>1, MissingFindings
      <4> QED  BY <4>1, <4>2
    <3>4. CASE c \in CallsOn("refresh", Untold(thr, known, seen), known)
      BY <1>5, <3>4
    <3> QED  BY <3>1, <3>2, <3>3, <3>4 DEF SingleCalls
  <2>3. ASSUME NEW m \in Metrics, \A c \in Z : c.metric # m PROVE Final(j, rep, m, Of(now, m))
    <3>1. m \notin Offs(thr, known) /\ m \notin News(thr, known) /\ m \notin Stale(thr, known)
      BY <1>1, <2>3, FirstCallsFor DEF SingleCalls
    <3>2. /\ \A n \in Drift(thr, known, seen) : \E c \in Z : c.metric = n
          /\ \A n \in Missing(thr, known) : \E c \in Z : c.metric = n
          /\ \A n \in Untold(thr, known, seen) : \E c \in Z : c.metric = n
      BY <1>1, <1>3, <1>4, CallsOnFacts DEF SingleCalls
    <3>3. m \notin Drift(thr, known, seen) /\ m \notin Missing(thr, known) /\ m \notin Untold(thr, known, seen)
      BY <2>3, <3>2
    <3> QED  BY <1>7, <3>1, <3>3, RestFinal
  <2> HIDE DEF Z
  <2>4. Late(j, now, rep)
    BY <2>1, <2>2, <2>3, LateBegins
  <2> QED  BY <2>4 DEF InProgress
<1> QED  BY <1>6, <1>7

LEMMA CreateProgress ==
  ASSUME NEW j, j.thr \in [Metrics -> Settings], NEW now, j.before = now, NEW rep,
         j.todo = CreatePlan(j.thr, SeenDisks(j.thr, rep))
  PROVE  InProgress(j, now, rep)
<1> DEFINE Q == CreatePlan(j.thr, SeenDisks(j.thr, rep))
<1>1. Q \in Seq(CallType)
  <2>1. SeenDisks(j.thr, rep) \in SUBSET Disks
    BY DEF SeenDisks
  <2> QED  BY <2>1, CreateFacts DEF MakesEach
<1>2. j.todo = (<<>> \o Q) \o <<>>
  <2> HIDE DEF Q
  <2>1. Q = (<<>> \o Q) \o <<>>
    BY <1>1
  <2> QED  BY <2>1 DEF Q
<1> DEFINE P == <<>>
           X == {}
<1>3. Lists(P, X) /\ \A c : c \notin X
  BY DEF Lists
<1>4. j.todo = (P \o Q) \o P
  BY <1>2
<1> HIDE DEF P, X
<1>5. Len(P) + 1 \in DOMAIN j.todo /\ Early(j, now, rep, Len(P) + 1)
  BY <1>3, <1>4, EarlyBegins
<1> QED  BY <1>5 DEF InProgress
-----------------------------------------------------------------------------
(* A plan decides nothing any more.                                         *)
PlanDeeds == Deeds \ {"rewrite"}

Decided(p) == p \in Seq(CallType) /\ \A i \in DOMAIN p : p[i].do \in PlanDeeds

LEMMA DecidedJoin ==
  ASSUME NEW p, NEW q, Decided(p), Decided(q)
  PROVE  Decided(p \o q)
<1>1. p \in Seq(CallType) /\ q \in Seq(CallType)
  BY DEF Decided
<1>2. p \o q \in Seq(CallType)
  BY <1>1, JoinFacts
<1>3. \A i \in DOMAIN (p \o q) : \/ i \in DOMAIN p /\ (p \o q)[i] = p[i]
                                 \/ i - Len(p) \in DOMAIN q /\ (p \o q)[i] = q[i - Len(p)]
  BY <1>1, JoinFacts
<1> QED  BY <1>2, <1>3 DEF Decided

LEMMA DecidedLists ==
  ASSUME NEW p, NEW C, Lists(p, C), \A c \in C : c.do \in PlanDeeds
  PROVE  Decided(p)
BY DEF Decided, Lists

LEMMA CreateDecided ==
  ASSUME NEW thr \in [Metrics -> Settings], NEW seen \in SUBSET Disks
  PROVE  Decided(CreatePlan(thr, seen))
<1> DEFINE p == CreatePlan(thr, seen)
<1>1. MakesEach(p, Created(thr, seen))
  BY CreateFacts
<1> HIDE DEF p
<1>2. \A i \in DOMAIN p : i = 1 \/ i = 2 \/ i > 2
  BY <1>1 DEF MakesEach
<1>3. {"keep", "wipe", "put"} \subseteq PlanDeeds
  BY DEF PlanDeeds, Deeds, OnMetric
<1>4. Decided(p)
  BY <1>1, <1>2, <1>3 DEF MakesEach, Decided
<1> QED  BY <1>4 DEF p

LEMMA KnownTyped ==
  ASSUME NEW now \in SUBSET AlarmType, NEW known \in KeyToAlarm(now)
  PROVE  Known(known, now) /\ DOMAIN known \subseteq Metrics
<1>1. known \in [{a.metric : a \in now} -> now] /\ \A m \in DOMAIN known : known[m].metric = m
  BY DEF KeyToAlarm
<1>2. DOMAIN known = {a.metric : a \in now} /\ \A m \in DOMAIN known : known[m] \in now
  BY <1>1
<1>3. DOMAIN known \subseteq Metrics
  BY <1>2, AlarmFields
<1> QED  BY <1>1, <1>2, <1>3 DEF Known

LEMMA SyncDecided ==
  ASSUME NEW now, NEW known, Known(known, now),
         NEW thr \in [Metrics -> Settings], NEW seen \in SUBSET Disks
  PROVE  Decided(SyncPlan(thr, known, seen))
<1>1. Known(known, now) /\ DOMAIN known \subseteq Metrics
  BY DEF Known
<1>2. {"delete", "single", "read", "look", "refresh"} \subseteq PlanDeeds
  BY DEF PlanDeeds, Deeds, OnMetric
<1>3. \A c \in FirstCalls(thr, known) : c.do \in PlanDeeds
  BY <1>1, <1>2, FirstCallsAre
<1>4. /\ Drift(thr, known, seen) \in SUBSET Metrics /\ Missing(thr, known) \in SUBSET Metrics
      /\ Untold(thr, known, seen) \in SUBSET Metrics
  BY <1>1, PartsOfMetrics
<1>5. "look" \in OnMetric /\ "single" \in OnMetric /\ "refresh" \in OnMetric
  BY DEF OnMetric
<1>6. /\ \A c \in CallsOn("look", Drift(thr, known, seen), known) : c.do \in PlanDeeds
      /\ \A c \in CallsOn("single", Missing(thr, known), known) : c.do \in PlanDeeds
      /\ \A c \in CallsOn("refresh", Untold(thr, known, seen), known) : c.do \in PlanDeeds
  BY <1>1, <1>2, <1>4, <1>5, CallsOnFacts
<1>7. CASE NewDisk(known, seen)
  <2>1. PICK P, R : /\ SyncPlan(thr, known, seen) = (P \o CreatePlan(thr, seen)) \o R
                    /\ Lists(P, FirstCalls(thr, known))
                    /\ Lists(R, CallsOn("refresh", Untold(thr, known, seen), known))
    BY <1>1, <1>7, SyncLists
  <2>2. Decided(P) /\ Decided(R) /\ Decided(CreatePlan(thr, seen))
    BY <1>3, <1>6, <2>1, DecidedLists, CreateDecided
  <2> QED  BY <2>1, <2>2, DecidedJoin
<1>8. CASE ~NewDisk(known, seen)
  <2>1. Lists(SyncPlan(thr, known, seen), SingleCalls(thr, known, seen))
    BY <1>1, <1>8, SyncLists
  <2>2. \A c \in SingleCalls(thr, known, seen) : c.do \in PlanDeeds
    BY <1>3, <1>6 DEF SingleCalls
  <2> QED  BY <2>1, <2>2, DecidedLists
<1> QED  BY <1>7, <1>8

LEMMA PlanDecided ==
  ASSUME NEW now \in SUBSET AlarmType, NEW thr \in [Metrics -> Settings], NEW seen \in SUBSET Disks,
         NEW p \in PlanFor(thr, now, seen)
  PROVE  Decided(p)
BY CreateDecided, KnownTyped, SyncDecided DEF PlanFor

LEMMA BlindDecided ==
  ASSUME NEW now \in SUBSET AlarmType, NEW thr \in [Metrics -> Settings], NEW seen \in SUBSET Disks,
         NEW strict, NEW p \in PlanBlind(thr, now, strict, seen)
  PROVE  Decided(p)
<1>1. {} \in SUBSET AlarmType /\ {} \in SUBSET Disks
  OBVIOUS
<1>2. Decided(SyncPlan(thr, <<>>, seen))
  BY NothingKnown, SyncDecided
<1>3. p \in PlanFor(thr, now, {}) \cup PlanFor(thr, {}, seen) \cup {SyncPlan(thr, <<>>, seen)}
  BY DEF PlanBlind
<1> QED  BY <1>1, <1>2, <1>3, PlanDecided

(* Alarms that are right need no call.                                      *)
LEMMA NothingToDo ==
  ASSUME NEW j, j.thr \in [Metrics -> Settings], NEW now, NEW known, Decides(j, now, known), NEW rep,
         j.todo = SyncPlan(j.thr, known, SeenDisks(j.thr, rep)), FoundRight(j, rep),
         NEW i \in DOMAIN j.todo
  PROVE  j.todo[i].do = "single" /\ Lost(j.todo[i].metric, rep)
<1> DEFINE thr == j.thr
           seen == SeenDisks(j.thr, rep)
<1>1. Known(known, now) /\ DOMAIN known \subseteq Metrics /\ j.before = now
  BY KnownFacts DEF Decides, Known
<1>2. /\ \A m \in Wanted(thr, rep) : \E a \in now : a.metric = m /\ Right(a, thr)
      /\ \A a \in now : a.metric \in Allowed(thr)
      /\ \A a \in now : ~IsOff(thr, a.metric) => Right(a, thr) /\ a.told # "none"
      /\ \A d \in seen : IsOff(thr, d) => \E a \in now : a.metric = d
  BY <1>1 DEF FoundRight, SettledAlarms, Covered, NoStray, NoneBare
<1>3. \A a \in now : a.metric \in DOMAIN known
  <2>1. known \in [{a.metric : a \in now} -> now]
    BY DEF Decides, KeyToAlarm
  <2> QED  BY <2>1
<1>4. \A m \in DOMAIN known : /\ known[m] \in now /\ known[m] \in AlarmType /\ known[m].metric = m
                              /\ m \in Allowed(thr)
  BY <1>1, <1>2 DEF Known
<1>5. \A m \in Wanted(thr, rep) : m \in DOMAIN known
  BY <1>2, <1>3
<1>6. \A m \in DOMAIN known : ~IsOff(thr, m) => ~Drifted(thr, known[m]) /\ known[m].told # "none"
  BY <1>2, <1>4 DEF Right, Drifted
<1>7. \A m \in Asked(thr) : ~IsOff(thr, m) /\ m \in Dynamic
  BY PlanAssumption DEF Asked, IsOff
<1> HIDE DEF thr, seen
<1>8. Offs(thr, known) = {}
  BY <1>4, MetricKinds, <1>7 DEF Offs, SwitchedOff, Allowed
<1>9. Stale(thr, known) = {}
  <2>1. ASSUME NEW m \in Stale(thr, known) PROVE FALSE
    <3>1. m \in Dynamic /\ m \in DOMAIN known /\ (m \in Asked(thr) => Drifted(thr, known[m]))
      BY DEF Stale
    <3>2. m \in Asked(thr)
      BY <1>4, <3>1, MetricKinds DEF Allowed
    <3> QED  BY <1>6, <1>7, <3>1, <3>2
  <2> QED  BY <2>1
<1>10. \A m \in News(thr, known) : Lost(m, rep)
  <2>1. ASSUME NEW m \in News(thr, known), ~Lost(m, rep) PROVE FALSE
    <3>1. m \in Asked(thr) /\ m \in Dynamic /\ m \notin DOMAIN known
      BY <1>7 DEF News
    <3>2. m \in Wanted(thr, rep)
      BY <2>1, <3>1 DEF Wanted, Created, Lost
    <3> QED  BY <1>5, <3>1, <3>2
  <2> QED  BY <2>1
<1>11. Drift(thr, known, seen) = {}
  <2>1. \A m \in Judged(thr, known, seen) : m \in DOMAIN known /\ ~IsOff(thr, m)
    BY DEF Judged
  <2> QED  BY <1>6, <2>1 DEF Drift
<1>12. Missing(thr, known) = {}
  <2>1. ASSUME NEW m \in Missing(thr, known) PROVE FALSE
    <3>1. m \in Standard /\ m \notin DOMAIN known /\ ~IsOff(thr, m)
      BY DEF Missing
    <3>2. m \in Wanted(thr, rep)
      BY <3>1, MetricKinds DEF Wanted, Created
    <3> QED  BY <1>5, <3>1, <3>2
  <2> QED  BY <2>1
<1>13. ~NewDisk(known, seen)
  <2>1. ASSUME NEW d \in seen, d \notin DOMAIN known PROVE FALSE
    <3>1. d \in Disks
      BY DEF seen, SeenDisks
    <3>2. CASE IsOff(thr, d)
      BY <1>2, <1>3, <2>1, <3>2 DEF thr, seen
    <3>3. CASE ~IsOff(thr, d)
      <4>1. d \in Wanted(thr, rep)
        BY <3>1, <3>3, MetricKinds DEF Wanted, Created, seen, thr
      <4> QED  BY <1>5, <2>1, <4>1
    <3> QED  BY <3>2, <3>3
  <2> QED  BY <2>1 DEF NewDisk
<1>14. Untold(thr, known, seen) = {}
  <2>1. \A m \in Judged(thr, known, seen) \cup (Asked(thr) \cap DOMAIN known) : m \in DOMAIN known /\ ~IsOff(thr, m)
    BY <1>7 DEF Judged
  <2> QED  BY <1>6, <2>1 DEF Untold
<1>15. thr \in [Metrics -> Settings] /\ j.todo = SyncPlan(thr, known, seen)
  BY DEF thr, seen
<1>16. Lists(j.todo, SingleCalls(thr, known, seen))
  BY <1>1, <1>13, <1>15, SyncLists
<1>17. j.todo[i] \in SingleCalls(thr, known, seen)
  BY <1>16 DEF Lists
<1>18. j.todo[i] \in FirstCalls(thr, known)
  BY <1>11, <1>12, <1>14, <1>17 DEF SingleCalls, CallsOn
<1>19. Gone(thr, known) = {} /\ Turned(thr, known) = {}
  BY <1>9 DEF Gone, Turned
<1>20. j.todo[i].do = "single" /\ j.todo[i].metric \in News(thr, known)
  BY <1>1, <1>8, <1>15, <1>18, <1>19, FirstCallsAre
<1> QED  BY <1>10, <1>20
-----------------------------------------------------------------------------
(* A job that waits, that is hurt, and one that goes on.                    *)
LEMMA JobTyped ==
  ASSUME NEW todo \in Seq(CallType), NEW by \in Starters, NEW thr \in [Metrics -> Settings],
         NEW index \in SUBSET AlarmType, NEW kept \in [Metrics -> {"none", "chosen"}],
         NEW draft \in SUBSET AlarmType, NEW alone \in BOOLEAN, NEW set \in BOOLEAN,
         NEW before \in SUBSET AlarmType
  PROVE  [todo |-> todo, by |-> by, thr |-> thr, index |-> index, kept |-> kept, draft |-> draft,
          alone |-> alone, set |-> set, before |-> before] \in JobType
BY DEF JobType

LEMMA IdleSound ==
  /\ Idle \in JobType
  /\ \A now, rep, off : Sound(Idle, now, rep, off)
<1>1. Idle.todo = <<>> /\ Idle.set = FALSE
  BY DEF Idle
<1>2. <<>> \in Seq(CallType)
  OBVIOUS
<1>3. [m \in Metrics |-> "unset"] \in [Metrics -> Settings]
  BY DEF Settings
<1>4. [m \in Metrics |-> "none"] \in [Metrics -> {"none", "chosen"}]
  OBVIOUS
<1>5. Idle \in JobType
  <2> DEFINE thr == [m \in Metrics |-> "unset"]
             kept == [m \in Metrics |-> "none"]
             job0 == [todo |-> <<>>, by |-> "none", thr |-> thr, index |-> {}, kept |-> kept, draft |-> {},
                      alone |-> TRUE, set |-> FALSE, before |-> {}]
  <2>1. Idle = job0
    BY DEF Idle
  <2>2. thr \in [Metrics -> Settings] /\ kept \in [Metrics -> {"none", "chosen"}]
    BY <1>3, <1>4
  <2> HIDE DEF thr, kept
  <2>3. {} \in SUBSET AlarmType /\ "none" \in Starters
    BY DEF Starters
  <2>4. job0 \in JobType
    BY <1>2, <2>2, <2>3, JobTyped, Zenon
  <2> QED  BY <2>1, <2>4
<1>6. Len(Idle.todo) = 0 /\ DOMAIN Idle.todo = {}
  BY <1>1
<1>7. \A now, rep, off : Sound(Idle, now, rep, off)
  BY <1>1, <1>6 DEF Sound, Shape, ByTheList, Listing, Progress, Undisturbed, Silent, FoundRight
<1> QED  BY <1>5, <1>7

LEMMA PlainSound ==
  ASSUME NEW j, NEW now, NEW rep, NEW off, Shape(j), ByTheList(j, now, off), ~(j.set /\ j.alone)
  PROVE  Sound(j, now, rep, off)
BY DEF Sound, Progress, Undisturbed, Silent, FoundRight

LEMMA HurtSound ==
  ASSUME NEW j \in JobType, NEW now, NEW rep, NEW off, Sound(j, now, rep, off)
  PROVE  /\ Hurt(j) \in JobType
         /\ \A now1, rep1, off1 : Sound(Hurt(j), now1, rep1, off1)
<1> DEFINE h == Hurt(j)
<1>1. /\ h \in JobType /\ h.todo = j.todo /\ h.set = j.set /\ h.by = j.by /\ h.draft = j.draft
      /\ h.alone = FALSE
  BY DEF Hurt, JobType
<1> HIDE DEF h
<1>2. Shape(h)
  BY <1>1 DEF Sound, Shape
<1>3. \A now1, off1 : ByTheList(h, now1, off1)
  BY <1>1 DEF Sound, ByTheList, Listing, InRun
<1>4. \A now1, rep1, off1 : Sound(h, now1, rep1, off1)
  BY <1>1, <1>2, <1>3, PlainSound
<1> QED  BY <1>1, <1>4 DEF h

LEMMA SameGround ==
  ASSUME NEW j, NEW now, NEW rep, NEW off, NEW off1, off => off1, Sound(j, now, rep, off)
  PROVE  Sound(j, now, rep, off1)
BY DEF Sound, ByTheList, InRun

(* What a call that is made may add.                                        *)
Adds(more, draft) ==
  /\ more \in Seq(CallType) /\ Len(more) <= 1
  /\ \A i \in DOMAIN more : more[i].do \in Deeds /\ (more[i].do = "rewrite" => draft # {})

LEMMA AddsNone == \A draft : Adds(<<>>, draft)
BY DEF Adds

LEMMA AddsOne ==
  ASSUME NEW c \in CallType, NEW draft, c.do \in Deeds, c.do = "rewrite" => draft # {}
  PROVE  Adds(<<c>>, draft)
BY DEF Adds

LEMMA NoneOrOne == \A n \in Nat : n <= 1 => n \in {0, 1}
OBVIOUS

LEMMA ContinuesFacts ==
  ASSUME NEW j \in JobType, NEW j1, NEW more, j.todo # <<>>, Continues(j, j1, more), Adds(more, j1.draft)
  PROVE  /\ j.todo \in Seq(CallType) /\ Len(j.todo) \in Nat /\ Len(j.todo) > 0 /\ DOMAIN j.todo = 1 .. Len(j.todo)
         /\ Len(more) \in {0, 1} /\ DOMAIN more = 1 .. Len(more) /\ j1.todo \in Seq(CallType)
         /\ Len(j1.todo) = Len(j.todo) - 1 + Len(more) /\ DOMAIN j1.todo = 1 .. Len(j1.todo)
         /\ \A i \in DOMAIN j1.todo :
              \/ i \in DOMAIN more /\ i = 1 /\ j1.todo[i] = more[1]
              \/ i > Len(more) /\ i + 1 - Len(more) \in DOMAIN j.todo /\ i + 1 - Len(more) > 1
                   /\ j1.todo[i] = j.todo[i + 1 - Len(more)]
<1>1. j.todo \in Seq(CallType)
  BY JobFields
<1>2. /\ Tail(j.todo) \in Seq(CallType) /\ Len(j.todo) \in Nat /\ Len(j.todo) > 0
      /\ Len(Tail(j.todo)) = Len(j.todo) - 1 /\ DOMAIN j.todo = 1 .. Len(j.todo)
      /\ \A i \in DOMAIN Tail(j.todo) : i + 1 \in DOMAIN j.todo /\ i + 1 > 1 /\ Tail(j.todo)[i] = j.todo[i + 1]
  BY <1>1, TailFacts
<1>3. more \in Seq(CallType) /\ Len(more) \in Nat /\ Len(more) <= 1
  BY DEF Adds
<1>4. j1.todo = more \o Tail(j.todo)
  BY DEF Continues
<1> DEFINE t == Tail(j.todo)
           u == j1.todo
<1> HIDE DEF t, u
<1>5. t \in Seq(CallType) /\ u = more \o t
  BY <1>2, <1>4 DEF t, u
<1>6. /\ u \in Seq(CallType) /\ Len(u) = Len(more) + Len(t) /\ DOMAIN u = 1 .. Len(more) + Len(t)
      /\ DOMAIN more = 1 .. Len(more)
      /\ \A i \in DOMAIN u :
           \/ i \in DOMAIN more /\ u[i] = more[i]
           \/ i - Len(more) \in DOMAIN t /\ i > Len(more) /\ u[i] = t[i - Len(more)]
  BY <1>3, <1>5, JoinFacts
<1>7. Len(t) = Len(j.todo) - 1 /\ Len(more) \in {0, 1}
  <2>1. Len(t) = Len(j.todo) - 1
    BY <1>2 DEF t
  <2>2. Len(more) \in {0, 1}
    BY <1>3, NoneOrOne
  <2> QED  BY <2>1, <2>2
<1>8. Len(u) = Len(j.todo) - 1 + Len(more) /\ DOMAIN u = 1 .. Len(u)
  BY <1>2, <1>3, <1>6, <1>7
<1>9. ASSUME NEW i \in DOMAIN u
      PROVE  \/ i \in DOMAIN more /\ i = 1 /\ u[i] = more[1]
             \/ i > Len(more) /\ i + 1 - Len(more) \in DOMAIN j.todo /\ i + 1 - Len(more) > 1
                  /\ u[i] = j.todo[i + 1 - Len(more)]
  <2>1. CASE i \in DOMAIN more /\ u[i] = more[i]
    BY <1>6, <1>7, <2>1
  <2>2. CASE i - Len(more) \in DOMAIN t /\ i > Len(more) /\ u[i] = t[i - Len(more)]
    <3>1. /\ (i - Len(more)) + 1 \in DOMAIN j.todo /\ (i - Len(more)) + 1 > 1
          /\ u[i] = j.todo[(i - Len(more)) + 1]
      BY <1>2, <2>2 DEF t
    <3>2. (i - Len(more)) + 1 = i + 1 - Len(more)
      BY <1>3, <1>8
    <3> QED  BY <2>2, <3>1, <3>2
  <2> QED  BY <1>6, <2>1, <2>2
<1> QED  BY <1>1, <1>2, <1>6, <1>7, <1>8, <1>9 DEF u

LEMMA OnwardShape ==
  ASSUME NEW j \in JobType, NEW j1, NEW more, j.todo # <<>>, Continues(j, j1, more), Adds(more, j1.draft),
         Shape(j)
  PROVE  Shape(j1)
<1> DEFINE t == j.todo
           u == j1.todo
<1>1. /\ Len(t) \in Nat /\ DOMAIN t = 1 .. Len(t) /\ Len(more) \in {0, 1}
      /\ Len(u) = Len(t) - 1 + Len(more) /\ DOMAIN u = 1 .. Len(u)
      /\ \A i \in DOMAIN u :
           \/ i \in DOMAIN more /\ i = 1 /\ u[i] = more[1]
           \/ i > Len(more) /\ i + 1 - Len(more) \in DOMAIN t /\ i + 1 - Len(more) > 1
                /\ u[i] = t[i + 1 - Len(more)]
  BY ContinuesFacts
<1>2. \A i \in DOMAIN t :
        /\ t[i].do \in {"sync", "create"} => i = Len(t)
        /\ t[i].do \in {"edit", "rewrite"} => i = 1
        /\ j.set => t[i].do \in Deeds
        /\ j.by = "run" => t[i].do # "create"
  BY DEF Shape
<1>3. j1.set = j.set /\ j1.by = j.by
  BY DEF Continues
<1> HIDE DEF t, u
<1>4. ASSUME NEW i \in DOMAIN u
      PROVE  /\ u[i].do \in {"sync", "create"} => i = Len(u)
             /\ u[i].do \in {"edit", "rewrite"} => i = 1 /\ j1.draft # {}
             /\ j1.set => u[i].do \in Deeds
             /\ j1.by = "run" => u[i].do # "create"
  <2>1. CASE i \in DOMAIN more /\ i = 1 /\ u[i] = more[1]
    <3>1. more[1].do \in Deeds /\ (more[1].do = "rewrite" => j1.draft # {})
      BY <2>1 DEF Adds
    <3>2. more[1].do \notin {"sync", "create", "edit"}
      BY <3>1 DEF Deeds, OnMetric
    <3> QED  BY <2>1, <3>1, <3>2
  <2>2. CASE i > Len(more) /\ i + 1 - Len(more) \in DOMAIN t /\ i + 1 - Len(more) > 1
               /\ u[i] = t[i + 1 - Len(more)]
    <3>1. i + 1 - Len(more) # 1
      BY <1>1, <2>2
    <3>2. (i + 1 - Len(more) = Len(t)) => i = Len(u)
      BY <1>1
    <3> QED  BY <1>2, <1>3, <2>2, <3>1, <3>2
  <2> QED  BY <1>1, <2>1, <2>2
<1> QED  BY <1>4 DEF Shape, u

(* A list that is gone by was gone by before.                               *)
LEMMA ListingBefore ==
  ASSUME NEW j \in JobType, NEW j1, NEW more, j.todo # <<>>, Continues(j, j1, more), Adds(more, j1.draft),
         NEW now, NEW off, ByTheList(j, now, off), Listing(j1)
  PROVE  /\ Len(j.todo) >= 2 /\ InRun(j.todo, j.alone, Fresh(j, now), off)
         /\ Len(j1.todo) = Len(j.todo) - 1 + Len(more)
         /\ more = <<>> \/ j1.todo[1] = more[1]
         /\ \A i \in 2 .. Len(j.todo) : j1.todo[i - 1 + Len(more)] = j.todo[i]
<1> DEFINE t == j.todo
           u == j1.todo
<1>1. /\ Len(t) \in Nat /\ Len(t) > 0 /\ DOMAIN t = 1 .. Len(t) /\ Len(more) \in {0, 1} /\ DOMAIN more = 1 .. Len(more)
      /\ Len(u) = Len(t) - 1 + Len(more) /\ DOMAIN u = 1 .. Len(u)
      /\ \A i \in DOMAIN u :
           \/ i \in DOMAIN more /\ i = 1 /\ u[i] = more[1]
           \/ i > Len(more) /\ i + 1 - Len(more) \in DOMAIN t /\ i + 1 - Len(more) > 1
                /\ u[i] = t[i + 1 - Len(more)]
  BY ContinuesFacts
<1>2. Len(u) > 0 /\ u[Len(u)].do = "sync" /\ u[Len(u)].strict
  BY DEF Listing
<1>3. \A i \in DOMAIN more : more[i].do \in Deeds
  BY DEF Adds
<1>4. more \in Seq(CallType)
  BY DEF Adds
<1>5. ByTheList(j, now, off)
  OBVIOUS
<1> HIDE DEF t, u
<1>6. Len(u) \in DOMAIN u
  BY <1>1, <1>2
<1>7. ~(Len(u) \in DOMAIN more /\ Len(u) = 1 /\ u[Len(u)] = more[1])
  BY <1>2, <1>3 DEF Deeds, OnMetric
<1>8. /\ Len(u) + 1 - Len(more) \in DOMAIN t /\ Len(u) + 1 - Len(more) > 1
      /\ u[Len(u)] = t[Len(u) + 1 - Len(more)]
  BY <1>1, <1>6, <1>7
<1>9. Len(u) + 1 - Len(more) = Len(t) /\ Len(t) >= 2
  BY <1>1, <1>8
<1>10. Listing(j)
  BY <1>1, <1>2, <1>8, <1>9 DEF Listing, t
<1>11. InRun(j.todo, j.alone, Fresh(j, now), off)
  BY <1>5, <1>10 DEF ByTheList
<1>12. more = <<>> \/ u[1] = more[1]
  <2>1. CASE Len(more) = 1
    <3>1. 1 \in DOMAIN u /\ ~(1 > Len(more))
      BY <1>1, <1>9, <2>1
    <3> QED  BY <1>1, <3>1
  <2>2. CASE Len(more) = 0
    BY <1>4, <2>2
  <2> QED  BY <1>1, <2>1, <2>2
<1>13. ASSUME NEW i \in 2 .. Len(t) PROVE u[i - 1 + Len(more)] = t[i]
  <2>1. i - 1 + Len(more) \in DOMAIN u /\ i - 1 + Len(more) > Len(more) /\ (i - 1 + Len(more)) + 1 - Len(more) = i
    BY <1>1
  <2>2. ~(i - 1 + Len(more) \in DOMAIN more)
    BY <1>1, <2>1
  <2> QED  BY <1>1, <2>1, <2>2
<1> QED  BY <1>1, <1>9, <1>11, <1>12, <1>13 DEF t, u

LEMMA InRunFirst ==
  ASSUME NEW t, NEW alone, NEW fresh, NEW off, Len(t) \in Nat, Len(t) >= 2, InRun(t, alone, fresh, off)
  PROVE  t[1].do \in {"list", "orphans", "clear", "collect"}
<1>1. Len(t) # 1
  <2> DEFINE n == Len(t)
  <2>1. n \in Nat /\ n >= 2
    OBVIOUS
  <2> HIDE DEF n
  <2>2. n # 1
    BY <2>1
  <2> QED  BY <2>2 DEF n
<1> QED  BY <1>1 DEF InRun

LEMMA OnwardList ==
  ASSUME NEW j \in JobType, NEW j1, NEW more, j.todo # <<>>, Continues(j, j1, more), Adds(more, j1.draft),
         NEW now, NEW off, ByTheList(j, now, off),
         j.todo[1].do \notin {"list", "orphans", "clear", "collect"}, NEW now1, NEW off1
  PROVE  ByTheList(j1, now1, off1)
<1>1. ASSUME Listing(j1) PROVE FALSE
  <2>1. Len(j.todo) >= 2 /\ InRun(j.todo, j.alone, Fresh(j, now), off)
    BY <1>1, ListingBefore
  <2>2. Len(j.todo) \in Nat
    BY JobFields, SeqFacts
  <2> QED  BY <2>1, <2>2, InRunFirst
<1> QED  BY <1>1 DEF ByTheList

(* A call on the alarms.                                                    *)
LEMMA DeedSound ==
  ASSUME NEW j \in JobType, NEW j1 \in JobType, NEW more, j.todo # <<>>, Continues(j, j1, more), Adds(more, j1.draft),
         NEW now, NEW rep, NEW off, Sound(j, now, rep, off), NEW now1, NEW off1, ByTheList(j1, now1, off1),
         Undisturbed(j) /\ InProgress(j, now, View(j, rep)) => InProgress(j1, now1, View(j, rep)),
         j.todo[1].do = "single" /\ Lost(j.todo[1].metric, rep) => more = <<>>
  PROVE  Sound(j1, now1, rep, off1)
<1>1. Shape(j1)
  BY OnwardShape DEF Sound
<1>2. Progress(j1, now1, View(j1, rep))
  <2>1. Undisturbed(j1) => Undisturbed(j)
    BY DEF Undisturbed, Continues
  <2>2. View(j1, rep) = View(j, rep)
    BY DEF View, Continues
  <2> QED  BY <2>1, <2>2 DEF Sound, Progress
<1>3. ASSUME Listed, FoundRight(j1, rep)
      PROVE  \A i \in DOMAIN j1.todo : j1.todo[i].do = "single" /\ Lost(j1.todo[i].metric, rep)
  <2>1. FoundRight(j, rep)
    BY <1>3 DEF FoundRight, Continues
  <2>2. \A i \in DOMAIN j.todo : j.todo[i].do = "single" /\ Lost(j.todo[i].metric, rep)
    BY <1>3, <2>1 DEF Sound, Silent
  <2>3. 1 \in DOMAIN j.todo /\ j.todo \in Seq(CallType)
    BY JobFields, TailFacts
  <2>4. j1.todo = Tail(j.todo)
    BY <2>2, <2>3, TailFacts DEF Continues
  <2>5. \A i \in DOMAIN Tail(j.todo) : i + 1 \in DOMAIN j.todo /\ Tail(j.todo)[i] = j.todo[i + 1]
    BY <2>3, TailFacts
  <2> QED  BY <2>2, <2>4, <2>5
<1> QED  BY <1>1, <1>2, <1>3 DEF Sound, Silent
-----------------------------------------------------------------------------
(* A step of a worker, and of what is not one.                              *)
LEMMA TypedJob ==
  ASSUME Typed, NEW w \in Workers
  PROVE  job[w] \in JobType /\ Distinct(alarms) /\ alarms \subseteq AlarmType
BY DEF Typed, Distinct

LEMMA SoundJob ==
  ASSUME AllSound, NEW w \in Workers
  PROVE  /\ Sound(job[w], alarms, reported, Unmonitored) /\ Shape(job[w])
         /\ ByTheList(job[w], alarms, Unmonitored)
BY DEF AllSound, Sound

LEMMA GroundMoves ==
  ASSUME Typed, AllSound,
         DOMAIN job' = Workers, job' = [v \in Workers |-> job'[v]],
         \A v \in Workers : job'[v] = Hurt(job[v]) \/ job'[v] = Idle
  PROVE  job' \in [Workers -> JobType] /\ AllSound'
<1>1. ASSUME NEW v \in Workers
      PROVE  job'[v] \in JobType /\ Sound(job'[v], alarms', reported', Unmonitored')
  <2>1. job[v] \in JobType /\ Sound(job[v], alarms, reported, Unmonitored)
    BY TypedJob, SoundJob
  <2>2. CASE job'[v] = Hurt(job[v])
    BY <2>1, <2>2, HurtSound
  <2>3. CASE job'[v] = Idle
    BY <2>3, IdleSound
  <2> QED  BY <2>2, <2>3
<1>2. job' \in [Workers -> JobType]
  BY <1>1
<1> QED  BY <1>1, <1>2 DEF AllSound

LEMMA WorkerMoves ==
  ASSUME Typed, AllSound, NEW w \in Workers, NEW j1 \in JobType,
         Sound(j1, alarms', reported', Unmonitored'), job' = Moved(w, j1)
  PROVE  job' \in [Workers -> JobType] /\ AllSound'
<1>1. ASSUME NEW v \in Workers
      PROVE  job'[v] \in JobType /\ Sound(job'[v], alarms', reported', Unmonitored')
  <2>1. job[v] \in JobType /\ Sound(job[v], alarms, reported, Unmonitored)
    BY TypedJob, SoundJob
  <2>2. CASE v = w
    <3>1. job'[v] = j1
      BY <2>2 DEF Moved
    <3> QED  BY <3>1
  <2>3. CASE v # w /\ job[v] # Idle
    <3>1. job'[v] = Hurt(job[v])
      BY <2>3 DEF Moved, Hurt
    <3> QED  BY <2>1, <3>1, HurtSound
  <2>4. CASE v # w /\ job[v] = Idle
    <3>1. job'[v] = Idle
      BY <2>4 DEF Moved
    <3> QED  BY <3>1, IdleSound
  <2> QED  BY <2>2, <2>3, <2>4
<1>2. job' \in [Workers -> JobType]
  BY <1>1 DEF Moved
<1> QED  BY <1>1, <1>2 DEF AllSound

LEMMA WorkerGoes ==
  ASSUME Typed, AllSound, NEW w \in Workers, NEW j1 \in JobType,
         Sound(j1, alarms', reported', Unmonitored'), job' = [job EXCEPT ![w] = j1],
         alarms' = alarms, reported' = reported, Unmonitored => Unmonitored'
  PROVE  job' \in [Workers -> JobType] /\ AllSound'
<1>0. job \in [Workers -> JobType]
  BY DEF Typed
<1>1. ASSUME NEW v \in Workers
      PROVE  job'[v] \in JobType /\ Sound(job'[v], alarms', reported', Unmonitored')
  <2>1. job[v] \in JobType /\ Sound(job[v], alarms, reported, Unmonitored)
    BY TypedJob, SoundJob
  <2>2. CASE v = w
    <3>1. job'[v] = j1
      BY <1>0, <2>2
    <3> QED  BY <3>1
  <2>3. CASE v # w
    <3>1. job'[v] = job[v]
      BY <1>0, <2>3
    <3>2. Sound(job[v], alarms, reported, Unmonitored')
      BY <2>1, SameGround
    <3> QED  BY <2>1, <3>1, <3>2
  <2> QED  BY <2>2, <2>3
<1>2. job' \in [Workers -> JobType]
  BY <1>0
<1> QED  BY <1>1, <1>2 DEF AllSound

(* The same, of a step that leaves the world as it is.                      *)
LEMMA Unmoved ==
  ASSUME World
  PROVE  reported' = reported /\ Unmonitored' = Unmonitored
BY DEF World, Unmonitored

LEMMA StillTyped ==
  ASSUME Typed, World, Distinct(alarms'), trouble' \in 0 .. MaxTrouble, job' \in [Workers -> JobType]
  PROVE  Typed'
BY DEF Typed, World

LEMMA TroubleBound ==
  ASSUME Typed, trouble' = trouble \/ (trouble < MaxTrouble /\ trouble' = trouble + 1)
  PROVE  trouble' \in 0 .. MaxTrouble
BY JobsAssumption DEF Typed

LEMMA GoesOn ==
  ASSUME Typed, AllSound, World, UNCHANGED alarms, NEW w \in Workers, NEW j1 \in JobType,
         Sound(j1, alarms, reported, Unmonitored), job' = [job EXCEPT ![w] = j1],
         trouble' = trouble \/ (trouble < MaxTrouble /\ trouble' = trouble + 1)
  PROVE  Typed' /\ AllSound'
<1>1. reported' = reported /\ Unmonitored' = Unmonitored /\ alarms' = alarms
  BY Unmoved
<1>2. Sound(j1, alarms', reported', Unmonitored')
  BY <1>1
<1>3. job' \in [Workers -> JobType] /\ AllSound'
  BY <1>1, <1>2, WorkerGoes
<1>4. Distinct(alarms') /\ trouble' \in 0 .. MaxTrouble
  BY <1>1, TroubleBound DEF Typed
<1> QED  BY <1>3, <1>4, StillTyped

LEMMA MovesOn ==
  ASSUME Typed, AllSound, World, NEW w \in Workers, NEW j1 \in JobType, Distinct(alarms'),
         Sound(j1, alarms', reported, Unmonitored), job' = Moved(w, j1),
         trouble' = trouble \/ (trouble < MaxTrouble /\ trouble' = trouble + 1)
  PROVE  Typed' /\ AllSound'
<1>1. reported' = reported /\ Unmonitored' = Unmonitored
  BY Unmoved
<1>2. Sound(j1, alarms', reported', Unmonitored')
  BY <1>1
<1>3. job' \in [Workers -> JobType] /\ AllSound'
  BY <1>2, WorkerMoves
<1>4. trouble' \in 0 .. MaxTrouble
  BY TroubleBound
<1> QED  BY <1>3, <1>4, StillTyped

LEMMA OnwardFacts ==
  ASSUME Typed, NEW w \in Workers, Busy(w), NEW more \in Seq(CallType)
  PROVE  LET j == job[w]
             on == Onward(w, more)
         IN /\ j \in JobType /\ j.todo # <<>> /\ Now(w) = j.todo[1] /\ Now(w) \in CallType
            /\ on \in JobType /\ on.todo = more \o Tail(j.todo) /\ Continues(j, on, more)
            /\ on.kept = j.kept /\ on.draft = j.draft /\ on.alone = j.alone
            /\ Hurt(on) \in JobType /\ Continues(j, Hurt(on), more)
            /\ Hurt(on).todo = more \o Tail(j.todo)
            /\ Hurt(on).alone = FALSE /\ Hurt(on).draft = j.draft /\ Hurt(on).kept = j.kept
<1> DEFINE j == job[w]
           t == more \o Tail(j.todo)
           on == [j EXCEPT !.todo = t]
<1>1. j \in JobType /\ j.todo # <<>>
  BY TypedJob DEF Busy
<1>2. j.todo \in Seq(CallType)
  BY <1>1, JobFields
<1>3. Tail(j.todo) \in Seq(CallType)
  BY <1>1, <1>2, TailFacts
<1>4. t \in Seq(CallType)
  BY <1>3, JoinFacts
<1>5. Now(w) = j.todo[1] /\ j.todo[1] \in CallType
  BY <1>1, <1>2 DEF Now
<1>6. Onward(w, more) = on
  BY DEF Onward
<1> HIDE DEF j, t
<1>7. /\ on \in JobType /\ on.todo = t /\ on.thr = j.thr /\ on.before = j.before /\ on.set = j.set
      /\ on.by = j.by /\ on.index = j.index /\ on.kept = j.kept /\ on.draft = j.draft /\ on.alone = j.alone
  BY <1>1, <1>4 DEF JobType
<1> HIDE DEF on
<1>8. /\ Hurt(on) \in JobType /\ Hurt(on).todo = t /\ Hurt(on).thr = j.thr /\ Hurt(on).before = j.before
      /\ Hurt(on).set = j.set /\ Hurt(on).by = j.by /\ Hurt(on).index = j.index /\ Hurt(on).kept = j.kept
      /\ Hurt(on).draft = j.draft /\ Hurt(on).alone = FALSE
  BY <1>7 DEF JobType, Hurt
<1>9. Continues(j, on, more) /\ Continues(j, Hurt(on), more)
  BY <1>7, <1>8 DEF Continues, t
<1> QED  BY <1>1, <1>5, <1>6, <1>7, <1>8, <1>9 DEF j, t

(* How far a list is from its sync.                                         *)
LEMMA ListGoesOn ==
  ASSUME NEW j \in JobType, NEW on, NEW more, j.todo # <<>>, Continues(j, on, more), Adds(more, on.draft),
         NEW now, NEW off, ByTheList(j, now, off),
         NEW j1, j1.todo = on.todo, NEW now1, NEW off1,
         j.todo[1].do = "list" => more = <<>> /\ (j1.alone => Fresh(j1, now1)),
         j.todo[1].do = "orphans" =>
           \/ more = <<>> /\ (j1.alone => j.alone) /\ (j1.alone /\ Fresh(j, now) => Fresh(j1, now1))
           \/ Len(more) = 1 /\ more[1].do = "clear" /\ (j1.alone => off1),
         j.todo[1].do = "clear" => more = <<>> /\ (j1.alone => j.alone) /\ (j1.alone /\ off => off1),
         j.todo[1].do = "collect" =>
           more = <<>> /\ (j1.alone => j.alone) /\ (j1.alone /\ (Fresh(j, now) \/ off) => Fresh(j1, now1))
  PROVE  ByTheList(j1, now1, off1)
<1> SUFFICES ASSUME Listing(j1) PROVE InRun(j1.todo, j1.alone, Fresh(j1, now1), off1)
  BY DEF ByTheList
<1> DEFINE t == j.todo
           u == j1.todo
<1>1. Listing(on)
  BY DEF Listing
<1>2. /\ Len(t) >= 2 /\ InRun(t, j.alone, Fresh(j, now), off)
      /\ Len(u) = Len(t) - 1 + Len(more)
      /\ more = <<>> \/ u[1] = more[1]
      /\ \A i \in 2 .. Len(t) : u[i - 1 + Len(more)] = t[i]
  BY <1>1, ListingBefore
<1>3. Len(t) \in Nat /\ Len(more) \in {0, 1}
  BY ContinuesFacts
<1> HIDE DEF t, u
<1>4. ASSUME more = <<>> PROVE Len(u) = Len(t) - 1 /\ \A i \in 2 .. Len(t) : u[i - 1] = t[i]
  <2>1. Len(more) = 0
    BY <1>4
  <2>2. Len(u) = Len(t) - 1
    BY <1>2, <1>3, <2>1
  <2>3. ASSUME NEW i \in 2 .. Len(t) PROVE u[i - 1] = t[i]
    <3>1. i - 1 + Len(more) = i - 1
      BY <1>3, <2>1
    <3> QED  BY <1>2, <3>1
  <2> QED  BY <2>2, <2>3
<1>5. CASE Len(t) = 4 /\ t[1].do = "list" /\ t[2].do = "orphans" /\ t[3].do = "collect"
  <2>1. more = <<>> /\ (j1.alone => Fresh(j1, now1))
    BY <1>5 DEF t
  <2>2. Len(u) = 3 /\ u[1] = t[2] /\ u[2] = t[3]
    <3>1. 2 \in 2 .. Len(t) /\ 3 \in 2 .. Len(t)
      BY <1>5
    <3>2. Len(u) = 4 - 1 /\ u[2 - 1] = t[2] /\ u[3 - 1] = t[3]
      BY <1>4, <1>5, <2>1, <3>1
    <3> QED  BY <3>2
  <2> QED  BY <1>5, <2>1, <2>2 DEF InRun, u
<1>6. CASE Len(t) = 3 /\ t[1].do = "orphans" /\ t[2].do = "collect" /\ (j.alone => Fresh(j, now))
  <2>0. 2 \in 2 .. Len(t) /\ Len(t) - 1 = 2
    BY <1>6
  <2>1. CASE more = <<>> /\ (j1.alone => j.alone) /\ (j1.alone /\ Fresh(j, now) => Fresh(j1, now1))
    <3>1. Len(u) = 2 /\ u[2 - 1] = t[2]
      BY <1>4, <2>0, <2>1
    <3>2. u[1].do = "collect"
      BY <1>6, <3>1
    <3>3. j1.alone => Fresh(j1, now1)
      BY <1>6, <2>1
    <3> QED  BY <3>1, <3>2, <3>3 DEF InRun, u
  <2>2. CASE Len(more) = 1 /\ more[1].do = "clear" /\ (j1.alone => off1)
    <3>1. more # <<>>
      BY <2>2
    <3>2. u[1].do = "clear"
      BY <1>2, <2>2, <3>1
    <3>3. Len(u) = 3
      BY <1>2, <1>6, <2>2
    <3>4. u[2 - 1 + 1] = t[2]
      BY <1>2, <2>0, <2>2
    <3>5. u[2].do = "collect"
      BY <1>6, <3>4
    <3> QED  BY <2>2, <3>2, <3>3, <3>5 DEF InRun, u
  <2> QED  BY <1>6, <2>1, <2>2 DEF t
<1>7. CASE Len(t) = 3 /\ t[1].do = "clear" /\ t[2].do = "collect" /\ (j.alone => off)
  <2>1. more = <<>> /\ (j1.alone => off1)
    BY <1>7 DEF t
  <2>2. 2 \in 2 .. Len(t) /\ Len(t) - 1 = 2
    BY <1>7
  <2>3. Len(u) = 2 /\ u[2 - 1] = t[2]
    BY <1>4, <2>1, <2>2
  <2>4. u[1].do = "collect"
    BY <1>7, <2>3
  <2> QED  BY <2>1, <2>3, <2>4 DEF InRun, u
<1>8. CASE Len(t) = 2 /\ t[1].do = "collect" /\ (j.alone => Fresh(j, now) \/ off)
  <2>1. more = <<>> /\ (j1.alone => Fresh(j1, now1))
    BY <1>8 DEF t
  <2>2. Len(u) = 2 - 1
    BY <1>4, <1>8, <2>1
  <2>3. Len(u) = 1
    BY <2>2
  <2> QED  BY <2>1, <2>3 DEF InRun, u
<1>9. Len(t) # 1
  BY <1>2, <1>3
<1> QED  BY <1>2, <1>5, <1>6, <1>7, <1>8, <1>9 DEF InRun

LEMMA SameShape ==
  ASSUME NEW j, NEW j1, Shape(j), j1.todo = j.todo, j1.set = j.set, j1.by = j.by, j1.draft = j.draft
  PROVE  Shape(j1)
BY DEF Shape

LEMMA PlainOn ==
  ASSUME NEW j \in JobType, NEW on, NEW more, j.todo # <<>>, Continues(j, on, more), Adds(more, on.draft),
         NEW now, NEW rep, NEW off, Sound(j, now, rep, off),
         NEW j1, j1.todo = on.todo, j1.set = on.set, j1.by = on.by, j1.draft = on.draft, ~(j1.set /\ j1.alone),
         NEW now1, NEW rep1, NEW off1, ByTheList(j1, now1, off1)
  PROVE  Sound(j1, now1, rep1, off1)
<1>1. Shape(on)
  BY OnwardShape DEF Sound
<1>2. Shape(j1)
  BY <1>1, SameShape
<1> QED  BY <1>2, PlainSound

(* A call that fails where the code goes on.                                *)
LEMMA HurtOn ==
  ASSUME Typed, AllSound, NEW w \in Workers, Busy(w), NEW more, Adds(more, job[w].draft),
         Now(w).do \in {"list", "clear", "collect"} => more = <<>>,
         Now(w).do = "orphans" => more = <<>> \/ (Len(more) = 1 /\ more[1].do = "clear")
  PROVE  /\ Hurt(Onward(w, more)) \in JobType
         /\ \A now, rep, off : Sound(Hurt(Onward(w, more)), now, rep, off)
<1> DEFINE j == job[w]
           h == Hurt(Onward(w, more))
<1>0. more \in Seq(CallType)
  BY DEF Adds
<1>1. /\ j \in JobType /\ j.todo # <<>> /\ Now(w) = j.todo[1]
      /\ h \in JobType /\ Continues(j, h, more) /\ h.alone = FALSE /\ h.draft = j.draft
  BY <1>0, OnwardFacts
<1>2. Sound(j, alarms, reported, Unmonitored) /\ ByTheList(j, alarms, Unmonitored)
  BY SoundJob
<1> HIDE DEF j, h
<1>3. Adds(more, h.draft)
  BY <1>1 DEF j
<1>4. ~h.alone
  BY <1>1
<1>5. ASSUME NEW now1, NEW off1 PROVE ByTheList(h, now1, off1)
  BY <1>1, <1>2, <1>3, <1>4, ListGoesOn
<1>6. \A now1, rep1, off1 : Sound(h, now1, rep1, off1)
  BY <1>1, <1>2, <1>3, <1>4, <1>5, PlainOn
<1> QED  BY <1>1, <1>6 DEF h

LEMMA FailsOn ==
  ASSUME Typed, AllSound, NEW w \in Workers, Busy(w), NEW more, Adds(more, job[w].draft), Fails(w, more),
         World, UNCHANGED alarms,
         Now(w).do \in {"list", "clear", "collect"} => more = <<>>,
         Now(w).do = "orphans" => more = <<>> \/ (Len(more) = 1 /\ more[1].do = "clear")
  PROVE  Typed' /\ AllSound'
<1>1. /\ Hurt(Onward(w, more)) \in JobType
      /\ Sound(Hurt(Onward(w, more)), alarms, reported, Unmonitored)
  BY HurtOn
<1>2. /\ job' = [job EXCEPT ![w] = Hurt(Onward(w, more))]
      /\ trouble < MaxTrouble /\ trouble' = trouble + 1
  BY DEF Fails
<1> QED  BY <1>1, <1>2, GoesOn

(* One that succeeds where the worker has more to do.                       *)
LEMMA DeedOn ==
  ASSUME Typed, AllSound, NEW w \in Workers, Busy(w), NEW more, NEW on \in JobType,
         Continues(job[w], on, more), Adds(more, on.draft), Now(w).do \in Deeds, NEW now,
         Now(w).do = "clear" => more = <<>>,
         Undisturbed(job[w]) /\ InProgress(job[w], alarms, View(job[w], reported)) => InProgress(on, now, View(job[w], reported)),
         Now(w).do = "single" => more = <<>>
  PROVE  Sound(on, now, reported, Unmonitored)
<1> DEFINE j == job[w]
<1>1. /\ j \in JobType /\ j.todo # <<>> /\ Now(w) = j.todo[1]
  <2>1. <<>> \in Seq(CallType)
    OBVIOUS
  <2> QED  BY <2>1, OnwardFacts
<1>2. Sound(j, alarms, reported, Unmonitored) /\ ByTheList(j, alarms, Unmonitored)
  BY SoundJob
<1>3. on.alone => j.alone
  BY DEF Continues
<1>4. j.todo[1].do \notin {"list", "orphans", "collect"}
  BY <1>1 DEF Deeds, OnMetric
<1> HIDE DEF j
<1>5. ByTheList(on, now, Unmonitored)
  BY <1>1, <1>2, <1>3, <1>4, ListGoesOn DEF j
<1> QED  BY <1>1, <1>2, <1>5, DeedSound DEF j

LEMMA WithKept ==
  ASSUME NEW on \in JobType, NEW j, NEW more, Continues(j, on, more), NEW f \in [Metrics -> {"none", "chosen"}]
  PROVE  /\ [on EXCEPT !.kept = f] \in JobType /\ Continues(j, [on EXCEPT !.kept = f], more)
         /\ [on EXCEPT !.kept = f].kept = f /\ [on EXCEPT !.kept = f].draft = on.draft
BY DEF JobType, Continues

LEMMA WithDraft ==
  ASSUME NEW on \in JobType, NEW j, NEW more, Continues(j, on, more), NEW d \in SUBSET AlarmType
  PROVE  /\ [on EXCEPT !.draft = d] \in JobType /\ Continues(j, [on EXCEPT !.draft = d], more)
         /\ [on EXCEPT !.draft = d].kept = on.kept /\ [on EXCEPT !.draft = d].draft = d
         /\ [on EXCEPT !.draft = d].todo = on.todo /\ [on EXCEPT !.draft = d].set = on.set
         /\ [on EXCEPT !.draft = d].by = on.by /\ [on EXCEPT !.draft = d].alone = on.alone
BY DEF JobType, Continues

LEMMA DoesFacts ==
  ASSUME Typed, NEW w \in Workers, NEW do, Does(w, do)
  PROVE  /\ Busy(w) /\ Now(w).do = do /\ Now(w) = job[w].todo[1] /\ job[w].todo # <<>>
         /\ job[w] \in JobType /\ Now(w) \in CallType
<1>1. <<>> \in Seq(CallType) /\ Busy(w) /\ Now(w).do = do
  BY DEF Does
<1> QED  BY <1>1, OnwardFacts

(* A call in which something fails that does not stop the worker.           *)
LEMMA AmissOn ==
  ASSUME Typed, AllSound, NEW w \in Workers, Busy(w), Now(w).do \in Deeds, Now(w).do # "clear",
         NEW on \in JobType, NEW more, Continues(job[w], on, more), Adds(more, on.draft)
  PROVE  Hurt(on) \in JobType /\ \A now, rep, off : Sound(Hurt(on), now, rep, off)
<1> DEFINE j == job[w]
           h == Hurt(on)
<1>1. j \in JobType /\ j.todo # <<>> /\ Now(w) = j.todo[1]
  <2>1. <<>> \in Seq(CallType)
    OBVIOUS
  <2> QED  BY <2>1, OnwardFacts
<1>2. h \in JobType /\ h.todo = on.todo /\ h.set = on.set /\ h.by = on.by /\ h.draft = on.draft /\ ~h.alone
  BY DEF JobType, Hurt
<1>3. Sound(j, alarms, reported, Unmonitored) /\ ByTheList(j, alarms, Unmonitored)
  BY SoundJob
<1>4. j.todo[1].do \notin {"list", "orphans", "collect", "clear"}
  BY <1>1 DEF Deeds, OnMetric
<1>5. Continues(j, on, more)
  OBVIOUS
<1> HIDE DEF j, h
<1>6. ASSUME NEW now, NEW off PROVE ByTheList(h, now, off)
  BY <1>1, <1>2, <1>3, <1>4, <1>5, ListGoesOn
<1>7. ASSUME NEW now, NEW rep, NEW off PROVE Sound(h, now, rep, off)
  BY <1>1, <1>2, <1>3, <1>5, <1>6, PlainOn
<1> QED  BY <1>2, <1>7 DEF h

LEMMA KeepStep ==
  ASSUME Typed, AllSound, NEW w \in Workers, Keep(w)
  PROVE  Typed' /\ AllSound'
<1> DEFINE f == [m \in Metrics |-> IF \E a \in alarms : a.metric = m /\ a.tag = "chosen" THEN "chosen" ELSE "none"]
           on == Onward(w, <<>>)
           j1 == [on EXCEPT !.kept = f]
<1>1. Does(w, "keep") /\ World /\ UNCHANGED alarms
  BY DEF Keep
<1>2. /\ Busy(w) /\ Now(w).do = "keep" /\ Now(w) = job[w].todo[1] /\ job[w].todo # <<>> /\ job[w] \in JobType
  BY <1>1, DoesFacts
<1>3. Adds(<<>>, job[w].draft)
  BY AddsNone
<1>4. CASE trouble' = trouble /\ job' = [job EXCEPT ![w] = j1]
  <2>1. <<>> \in Seq(CallType) /\ f \in [Metrics -> {"none", "chosen"}]
    OBVIOUS
  <2>2. on \in JobType /\ Continues(job[w], on, <<>>) /\ on.draft = job[w].draft
    BY <1>2, <2>1, OnwardFacts
  <2> HIDE DEF on
  <2>3. j1 \in JobType /\ Continues(job[w], j1, <<>>) /\ j1.kept = f
    BY <2>1, <2>2, WithKept
  <2> HIDE DEF j1
  <2>4. InProgress(job[w], alarms, View(job[w], reported)) => InProgress(j1, alarms, View(job[w], reported))
    BY <1>2, <2>3, KeepProgress
  <2>5. Adds(<<>>, j1.draft)
    BY AddsNone
  <2>6. Sound(j1, alarms, reported, Unmonitored)
    BY <1>2, <2>3, <2>4, <2>5, DeedOn DEF Deeds
  <2> QED  BY <1>1, <1>4, <2>3, <2>6, GoesOn
<1>5. CASE Fails(w, <<>>)
  BY <1>1, <1>2, <1>3, <1>5, FailsOn
<1> QED  BY <1>4, <1>5 DEF Keep

LEMMA NamesTyped ==
  ASSUME NEW now, Distinct(now)
  PROVE  NamesOf(now) \in SUBSET (Metrics \X Thresholds)
BY AlarmFields DEF NamesOf, Distinct

LEMMA ClearTyped ==
  ASSUME NEW names \in SUBSET (Metrics \X Thresholds), NEW draft
  PROVE  /\ Clear(names) \in CallType /\ Clear(names).do = "clear" /\ Adds(<<Clear(names)>>, draft)
         /\ <<Clear(names)>> \in Seq(CallType)
<1>1. Clear(names) \in CallType
  BY CallTyped DEF Clear, Deeds, OnMetric, Edits
<1>2. Clear(names).do = "clear"
  BY DEF Clear, Call
<1>3. Adds(<<Clear(names)>>, draft)
  BY <1>1, <1>2, AddsOne DEF Deeds
<1> QED  BY <1>1, <1>2, <1>3

LEMMA WipeStep ==
  ASSUME Typed, AllSound, NEW w \in Workers, Wipe(w)
  PROVE  Typed' /\ AllSound'
<1> DEFINE more == IF alarms = {} THEN <<>> ELSE <<Clear(NamesOf(alarms))>>
           on == Onward(w, more)
<1>1. Does(w, "wipe") /\ World /\ UNCHANGED alarms
  BY DEF Wipe
<1>2. /\ Busy(w) /\ Now(w).do = "wipe" /\ Now(w) = job[w].todo[1] /\ job[w].todo # <<>> /\ job[w] \in JobType
  BY <1>1, DoesFacts
<1>3. Adds(<<>>, job[w].draft)
  BY AddsNone
<1>4. CASE Goes(w, more)
  <2>1. Distinct(alarms)
    BY DEF Typed
  <2>2. more \in Seq(CallType) /\ Adds(more, job[w].draft)
    <3>1. CASE alarms = {}
      BY <1>3, <3>1
    <3>2. CASE alarms # {}
      BY <2>1, <3>2, NamesTyped, ClearTyped
    <3> QED  BY <3>1, <3>2
  <2>3. on \in JobType /\ Continues(job[w], on, more) /\ on.draft = job[w].draft /\ on.kept = job[w].kept
    BY <1>2, <2>2, OnwardFacts
  <2> HIDE DEF on
  <2>4. InProgress(job[w], alarms, View(job[w], reported)) => InProgress(on, alarms, View(job[w], reported))
    BY <1>2, <2>1, <2>3, WipeProgress
  <2> HIDE DEF more
  <2>5. Sound(on, alarms, reported, Unmonitored)
    BY <1>2, <2>2, <2>3, <2>4, DeedOn DEF Deeds
  <2>6. trouble' = trouble /\ job' = [job EXCEPT ![w] = on]
    BY <1>4 DEF Goes, on
  <2> QED  BY <1>1, <2>3, <2>5, <2>6, GoesOn
<1>5. CASE Fails(w, <<>>)
  BY <1>1, <1>2, <1>3, <1>5, FailsOn
<1> QED  BY <1>1, <1>4, <1>5 DEF Wipe

LEMMA WithoutDistinct ==
  ASSUME NEW now, Distinct(now), NEW names
  PROVE  Distinct(Without(now, names))
BY DEF Distinct, Without

LEMMA PutTyped ==
  ASSUME NEW m \in Metrics, NEW draft
  PROVE  /\ Call("put", m, {}) \in CallType /\ Adds(<<Call("put", m, {})>>, draft)
         /\ <<Call("put", m, {})>> \in Seq(CallType)
<1>1. Call("put", m, {}) \in CallType
  BY CallTyped DEF Deeds, OnMetric, Edits
<1>2. Call("put", m, {}).do = "put"
  BY DEF Call
<1>3. Adds(<<Call("put", m, {})>>, draft)
  BY <1>1, <1>2, AddsOne DEF Deeds, OnMetric
<1> QED  BY <1>1, <1>3

LEMMA DeleteAlarmsStep ==
  ASSUME Typed, AllSound, NEW w \in Workers, DeleteAlarms(w)
  PROVE  Typed' /\ AllSound'
<1> DEFINE c == Now(w)
           more == IF c.do \in {"replace", "remake"} THEN PutNext(w) ELSE <<>>
           on == Onward(w, more)
<1>1. PICK do \in {"delete", "clear", "replace", "remake"} : Does(w, do)
  BY DEF DeleteAlarms
<1>2. /\ Busy(w) /\ c.do = do /\ c = job[w].todo[1] /\ job[w].todo # <<>> /\ job[w] \in JobType
      /\ c \in CallType
  BY <1>1, DoesFacts
<1>3. World
  BY DEF DeleteAlarms
<1>4. \/ alarms' = Without(alarms, c.names) /\ trouble' = trouble /\ job' = Moved(w, on)
      \/ UNCHANGED alarms /\ Fails(w, IF c.do = "replace" THEN PutNext(w) ELSE <<>>)
  BY DEF DeleteAlarms
<1> HIDE DEF c
<1>5. Adds(<<>>, job[w].draft) /\ <<>> \in Seq(CallType)
  BY AddsNone
<1>6. ASSUME do \in {"replace", "remake"}
      PROVE  /\ Adds(PutNext(w), job[w].draft) /\ PutNext(w) \in Seq(CallType)
             /\ PutNext(w) = <<Call("put", c.metric, {})>>
  <2>1. c.metric \in Metrics
    BY <1>2, <1>6, TypedCall DEF OnMetric
  <2> QED  BY <2>1, PutTyped DEF PutNext, c
<1>7. CASE alarms' = Without(alarms, c.names) /\ trouble' = trouble /\ job' = Moved(w, on)
  <2>1. Distinct(alarms)
    BY DEF Typed
  <2>2. more \in Seq(CallType) /\ Adds(more, job[w].draft)
    BY <1>2, <1>5, <1>6
  <2>3. on \in JobType /\ Continues(job[w], on, more) /\ on.draft = job[w].draft /\ on.kept = job[w].kept
    BY <1>2, <2>2, OnwardFacts
  <2> HIDE DEF on
  <2>4. InProgress(job[w], alarms, View(job[w], reported)) => InProgress(on, alarms', View(job[w], reported))
    <3> SUFFICES ASSUME InProgress(job[w], alarms, View(job[w], reported)) PROVE InProgress(on, Without(alarms, c.names), View(job[w], reported))
      BY <1>7
    <3>1. CASE do = "delete"
      <4>1. more = <<>>
        BY <1>2, <3>1
      <4> QED  BY <1>2, <2>1, <2>3, <3>1, <4>1, DeleteProgress
    <3>2. CASE do = "clear"
      <4>1. more = <<>>
        BY <1>2, <3>2
      <4> QED  BY <1>2, <2>1, <2>3, <3>2, <4>1, ClearProgress
    <3>3. CASE do \in {"replace", "remake"}
      <4>1. more = <<Call("put", job[w].todo[1].metric, {})>>
        BY <1>2, <1>6, <3>3
      <4>2. Continues(job[w], on, <<Call("put", job[w].todo[1].metric, {})>>) /\ job[w].todo[1].do \in {"replace", "remake"}
        BY <1>2, <2>3, <3>3, <4>1
      <4> QED  BY <1>2, <2>1, <2>3, <4>2, ReplaceProgress
    <3> QED  BY <3>1, <3>2, <3>3
  <2>5. c.do \in Deeds /\ c.do # "single" /\ (c.do = "clear" => more = <<>>)
    BY <1>2 DEF Deeds, OnMetric
  <2> HIDE DEF more
  <2>6. Sound(on, alarms', reported, Unmonitored)
    BY <1>2, <2>2, <2>3, <2>4, <2>5, DeedOn DEF c
  <2>7. Distinct(alarms')
    BY <1>7, <2>1, WithoutDistinct
  <2> QED  BY <1>3, <1>7, <2>3, <2>6, <2>7, MovesOn
<1>8. CASE UNCHANGED alarms /\ Fails(w, IF c.do = "replace" THEN PutNext(w) ELSE <<>>)
  <2> DEFINE less == IF c.do = "replace" THEN PutNext(w) ELSE <<>>
  <2>1. Adds(less, job[w].draft)
    BY <1>2, <1>5, <1>6
  <2>2. c.do \in {"list", "clear", "collect"} => less = <<>>
    OBVIOUS
  <2>3. c.do # "orphans"
    BY <1>2
  <2>4. Fails(w, less)
    BY <1>8
  <2> HIDE DEF less
  <2> QED  BY <1>2, <1>3, <1>8, <2>1, <2>2, <2>3, <2>4, FailsOn DEF c
<1> QED  BY <1>4, <1>7, <1>8

LEMMA AgainTyped ==
  ASSUME NEW c \in CallType, c.do \in {"look", "read"}, NEW next \in {"replace", "remake"}, NEW draft
  PROVE  LET again == Call(next, c.metric, c.names)
         IN c.metric \in Metrics /\ again \in CallType /\ Adds(<<again>>, draft) /\ <<again>> \in Seq(CallType)
<1>1. c.metric \in Metrics /\ c.names \in SUBSET (Metrics \X Thresholds)
  BY TypedCall DEF OnMetric
<1>2. Call(next, c.metric, c.names) \in CallType
  BY <1>1, CallTyped DEF Deeds, OnMetric, Edits
<1>3. Call(next, c.metric, c.names).do = next
  BY DEF Call
<1>4. Adds(<<Call(next, c.metric, c.names)>>, draft)
  BY <1>2, <1>3, AddsOne DEF Deeds, OnMetric
<1> QED  BY <1>1, <1>2, <1>4

LEMMA FoundOn ==
  ASSUME Typed, AllSound, NEW w \in Workers, Busy(w), Now(w).do \in {"look", "read"},
         NEW next \in {"replace", "remake"},
         World, UNCHANGED alarms, UNCHANGED trouble,
         job' = [job EXCEPT ![w] = Found(w, Named(alarms, Now(w).names), next)]
  PROVE  Typed' /\ AllSound'
<1> DEFINE c == Now(w)
           j == job[w]
           v == IF \E a \in Named(alarms, c.names) : a.tag = "chosen" THEN "chosen" ELSE "none"
           more == <<Call(next, c.metric, c.names)>>
           on == Onward(w, more)
           f == [on.kept EXCEPT ![c.metric] = v]
           j1 == [on EXCEPT !.kept = f]
<1>1. j \in JobType /\ j.todo # <<>> /\ c = j.todo[1] /\ c \in CallType
  <2>1. <<>> \in Seq(CallType)
    OBVIOUS
  <2> QED  BY <2>1, OnwardFacts
<1> HIDE DEF c
<1>2. c.do \in {"look", "read"}
  BY DEF c
<1>3. \A draft : c.metric \in Metrics /\ Adds(more, draft) /\ more \in Seq(CallType)
  BY <1>1, <1>2, AgainTyped
<1>4. Found(w, Named(alarms, Now(w).names), next) = j1
  BY DEF Found, c
<1> HIDE DEF more, v
<1>5. on \in JobType /\ Continues(j, on, more) /\ on.kept = j.kept
  BY <1>3, OnwardFacts
<1> HIDE DEF on, j
<1>6. on.kept \in [Metrics -> {"none", "chosen"}] /\ v \in {"none", "chosen"}
  BY <1>5, JobFields DEF v
<1>7. f \in [Metrics -> {"none", "chosen"}]
  BY <1>6
<1> HIDE DEF f
<1>8. j1 \in JobType /\ Continues(j, j1, more) /\ j1.kept = f
  BY <1>5, <1>7, WithKept
<1> HIDE DEF j1
<1>9. Distinct(alarms)
  BY DEF Typed
<1>10. f = [j.kept EXCEPT ![c.metric] = v]
  BY <1>5 DEF f
<1>11. InProgress(j, alarms, View(j, reported)) => InProgress(j1, alarms, View(j, reported))
  <2>1. Continues(j, j1, <<Call(next, j.todo[1].metric, j.todo[1].names)>>)
    BY <1>1, <1>8 DEF more
  <2>2. j1.kept = [j.kept EXCEPT ![j.todo[1].metric] =
                     IF \E a \in Named(alarms, j.todo[1].names) : a.tag = "chosen" THEN "chosen" ELSE "none"]
    BY <1>1, <1>8, <1>10 DEF v
  <2>3. j.todo[1].do \in {"look", "read"}
    BY <1>1, <1>2
  <2> QED  BY <1>1, <1>8, <1>9, <2>1, <2>2, <2>3, LookProgress
<1>12. Now(w).do \in Deeds /\ Now(w).do # "clear" /\ Now(w).do # "single"
  BY DEF Deeds, OnMetric
<1>13. Continues(job[w], j1, more) /\ Adds(more, j1.draft)
  BY <1>3, <1>8 DEF j
<1>14. Sound(j1, alarms, reported, Unmonitored)
  BY <1>8, <1>11, <1>12, <1>13, DeedOn DEF j
<1> QED  BY <1>4, <1>8, <1>14, GoesOn

(* The severity cannot be read: the registry's is taken.                    *)
LEMMA FoundBlind ==
  ASSUME Typed, AllSound, NEW w \in Workers, Busy(w), Now(w).do = "look", World, UNCHANGED alarms,
         trouble < MaxTrouble, trouble' = trouble + 1,
         job' = [job EXCEPT ![w] = Hurt(Found(w, {}, "remake"))]
  PROVE  Typed' /\ AllSound'
<1> DEFINE c == Now(w)
           more == <<Call("remake", c.metric, c.names)>>
           on == Onward(w, more)
           f == [on.kept EXCEPT ![c.metric] = "none"]
           j1 == [on EXCEPT !.kept = f]
<1>1. c \in CallType
  <2>1. <<>> \in Seq(CallType)
    OBVIOUS
  <2> QED  BY <2>1, OnwardFacts
<1>2. \A draft : c.metric \in Metrics /\ Adds(more, draft) /\ more \in Seq(CallType)
  BY <1>1, AgainTyped
<1>3. Found(w, {}, "remake") = j1
  BY DEF Found
<1> HIDE DEF more
<1>4. on \in JobType /\ Continues(job[w], on, more)
  BY <1>2, OnwardFacts
<1> HIDE DEF on
<1>5. f \in [Metrics -> {"none", "chosen"}]
  BY <1>4, JobFields
<1> HIDE DEF f
<1>6. j1 \in JobType /\ Continues(job[w], j1, more)
  BY <1>4, <1>5, WithKept
<1> HIDE DEF j1
<1>7. Now(w).do \in Deeds /\ Now(w).do # "clear" /\ Adds(more, j1.draft)
  BY <1>2 DEF Deeds, OnMetric
<1>8. Hurt(j1) \in JobType /\ Sound(Hurt(j1), alarms, reported, Unmonitored)
  BY <1>6, <1>7, AmissOn
<1> QED  BY <1>3, <1>8, GoesOn

LEMMA LookStep ==
  ASSUME Typed, AllSound, NEW w \in Workers, Look(w)
  PROVE  Typed' /\ AllSound'
<1> DEFINE found == Named(alarms, Now(w).names)
           on == Onward(w, <<>>)
<1>1. Does(w, "look") /\ World /\ UNCHANGED alarms
  BY DEF Look
<1>2. /\ Busy(w) /\ Now(w).do = "look" /\ Now(w) = job[w].todo[1] /\ job[w].todo # <<>> /\ job[w] \in JobType
      /\ Now(w) \in CallType
  BY <1>1, DoesFacts
<1>3. <<>> \in Seq(CallType) /\ \A draft : Adds(<<>>, draft)
  BY AddsNone
<1>4. CASE trouble' = trouble /\ job' = [job EXCEPT ![w] = Found(w, found, "remake")]
  BY <1>1, <1>2, <1>4, FoundOn
<1>5. CASE found = {} /\ Goes(w, <<>>)
  <2>1. on \in JobType /\ Continues(job[w], on, <<>>)
    BY <1>2, <1>3, OnwardFacts
  <2>2. trouble' = trouble /\ job' = [job EXCEPT ![w] = on]
    BY <1>5 DEF Goes
  <2> HIDE DEF on
  <2>3. ~InProgress(job[w], alarms, View(job[w], reported))
    <3> SUFFICES ASSUME InProgress(job[w], alarms, View(job[w], reported)) PROVE found # {}
      BY <1>5
    <3> DEFINE j == job[w]
               m == j.todo[1].metric
               more == <<Call("remake", m, j.todo[1].names)>>
               o == Onward(w, more)
               v == IF \E a \in Named(alarms, j.todo[1].names) : a.tag = "chosen" THEN "chosen" ELSE "none"
               f == [o.kept EXCEPT ![m] = v]
               j1 == [o EXCEPT !.kept = f]
    <3>1. m \in Metrics /\ more \in Seq(CallType)
      BY <1>2, AgainTyped
    <3> HIDE DEF more, v
    <3>2. o \in JobType /\ Continues(j, o, more) /\ o.kept = j.kept
      BY <1>2, <3>1, OnwardFacts
    <3> HIDE DEF o
    <3>3. f \in [Metrics -> {"none", "chosen"}]
      <4>1. o.kept \in [Metrics -> {"none", "chosen"}] /\ v \in {"none", "chosen"}
        BY <3>2, JobFields DEF v
      <4> QED  BY <4>1
    <3>4. f = [j.kept EXCEPT ![m] = v]
      BY <3>2
    <3> HIDE DEF f
    <3>5. j1 \in JobType /\ Continues(j, j1, more) /\ j1.kept = f
      BY <3>2, <3>3, WithKept
    <3> HIDE DEF j1
    <3>6. /\ Continues(j, j1, <<Call("remake", j.todo[1].metric, j.todo[1].names)>>)
          /\ j1.kept = [j.kept EXCEPT ![j.todo[1].metric] =
                          IF \E a \in Named(alarms, j.todo[1].names) : a.tag = "chosen" THEN "chosen" ELSE "none"]
      BY <3>4, <3>5 DEF more, v
    <3>7. Distinct(alarms) /\ j.todo[1].do \in {"look", "read"}
      BY <1>2 DEF Typed
    <3>8. j \in JobType /\ j.todo # <<>> /\ InProgress(j, alarms, View(j, reported))
      BY <1>2
    <3> HIDE DEF j
    <3>9. Named(alarms, j.todo[1].names) # {}
      BY <3>5, <3>6, <3>7, <3>8, LookProgress
    <3> QED  BY <1>2, <3>9 DEF j
  <2>4. Now(w).do \in Deeds /\ Now(w).do # "clear" /\ Now(w).do # "single"
    BY <1>2 DEF Deeds, OnMetric
  <2>5. Sound(on, alarms, reported, Unmonitored)
    BY <1>2, <1>3, <2>1, <2>3, <2>4, DeedOn
  <2> QED  BY <1>1, <2>1, <2>2, <2>5, GoesOn
<1>6. CASE Fails(w, <<>>)
  BY <1>1, <1>2, <1>3, <1>6, FailsOn
<1>7. CASE /\ trouble < MaxTrouble /\ trouble' = trouble + 1
           /\ job' = [job EXCEPT ![w] = Hurt(Found(w, {}, "remake"))]
  BY <1>1, <1>2, <1>7, FoundBlind
<1> QED  BY <1>4, <1>5, <1>6, <1>7 DEF Look

LEMMA ReadSeverityStep ==
  ASSUME Typed, AllSound, NEW w \in Workers, ReadSeverity(w)
  PROVE  Typed' /\ AllSound'
<1> DEFINE more == <<Call("replace", Now(w).metric, Now(w).names)>>
<1>1. Does(w, "read") /\ World /\ UNCHANGED alarms
  BY DEF ReadSeverity
<1>2. Busy(w) /\ Now(w).do = "read" /\ Now(w) \in CallType
  BY <1>1, DoesFacts
<1>3. CASE trouble' = trouble /\ job' = [job EXCEPT ![w] = Found(w, Named(alarms, Now(w).names), "replace")]
  BY <1>1, <1>2, <1>3, FoundOn
<1>4. CASE Fails(w, more)
  <2>1. Adds(more, job[w].draft)
    BY <1>2, AgainTyped
  <2> HIDE DEF more
  <2> QED  BY <1>1, <1>2, <1>4, <2>1, FailsOn
<1> QED  BY <1>3, <1>4 DEF ReadSeverity

LEMMA OverwriteDistinct ==
  ASSUME NEW now, Distinct(now), NEW n \in AlarmType
  PROVE  Distinct(Overwrite(now, n))
<1> DEFINE old == Named(now, {NameOf(n)})
           o == CHOOSE x \in old : TRUE
           put == IF old = {} THEN n ELSE [n EXCEPT !.tag = o.tag]
<1>1. put \in AlarmType /\ NameOf(put) = NameOf(n)
  <2>1. CASE old = {}
    BY <2>1
  <2>2. CASE old # {}
    <3>1. o \in AlarmType
      BY <2>2 DEF Named, Distinct
    <3>2. o.tag \in {"registry", "chosen", "none"}
      BY <3>1, AlarmFields
    <3> HIDE DEF o
    <3> QED  BY <2>2, <3>2 DEF AlarmType, NameOf, Severities
  <2> QED  BY <2>1, <2>2
<1>2. Overwrite(now, n) = Without(now, {NameOf(n)}) \cup {put}
  BY DEF Overwrite
<1> HIDE DEF put, o, old
<1>3. Overwrite(now, n) = Without(now, {NameOf(put)}) \cup {put}
  BY <1>1, <1>2
<1>4. Distinct(Without(now, {NameOf(put)}) \cup {put})
  BY <1>1, PutNew
<1> QED  BY <1>3, <1>4

LEMMA NewAlarmFacts ==
  ASSUME Typed, NEW w \in Workers, Busy(w), Now(w).do \in {"put", "single"}
  PROVE  LET j == job[w]
             n == NewAlarm(w)
         IN /\ n \in AlarmType /\ n.metric = Now(w).metric /\ Right(n, j.thr)
            /\ [n EXCEPT !.tag = "none"] \in AlarmType
            /\ Now(w).do = "put" /\ j.kept[n.metric] = "chosen" => n.tag = "chosen" /\ n.told = "chosen"
<1> DEFINE j == job[w]
           m == Now(w).metric
           kept == IF Now(w).do = "put" THEN j.kept[m] ELSE "none"
           severity == IF kept = "none" THEN "registry" ELSE kept
           threshold == ThresholdOf(j.thr, m)
           n == [metric |-> m, threshold |-> threshold, sound |-> Parts, tag |-> severity, told |-> severity]
<1>1. j \in JobType /\ Now(w) \in CallType
  <2>1. <<>> \in Seq(CallType)
    OBVIOUS
  <2> QED  BY <2>1, OnwardFacts
<1>2. m \in Metrics
  BY <1>1, TypedCall DEF OnMetric
<1>3. j.thr \in [Metrics -> Settings] /\ j.kept \in [Metrics -> {"none", "chosen"}]
  BY <1>1, JobFields
<1>4. threshold \in Thresholds
  BY <1>2, <1>3, ThresholdTyped
<1>5. j.kept[m] \in {"none", "chosen"}
  BY <1>2, <1>3
<1>6. NewAlarm(w) = n
  BY DEF NewAlarm, Made
<1> HIDE DEF m, threshold, j
<1>7. severity \in {"registry", "chosen"}
  BY <1>5
<1>8. Now(w).do = "put" /\ j.kept[m] = "chosen" => severity = "chosen"
  OBVIOUS
<1> HIDE DEF severity, kept
<1>9. n \in AlarmType /\ [n EXCEPT !.tag = "none"] \in AlarmType
  BY <1>2, <1>4, <1>7 DEF AlarmType, Severities
<1>10. n.metric = m /\ n.threshold = threshold /\ n.sound = Parts /\ n.tag = severity /\ n.told = severity
  OBVIOUS
<1> HIDE DEF n
<1>11. Right(n, j.thr)
  <2>1. Compared(n.metric) \subseteq n.sound
    BY <1>10 DEF Compared, Parts
  <2> QED  BY <1>10, <2>1 DEF Right, threshold
<1> QED  BY <1>6, <1>8, <1>9, <1>10, <1>11 DEF j, m

LEMMA PutAlarmStep ==
  ASSUME Typed, AllSound, NEW w \in Workers, PutAlarm(w)
  PROVE  Typed' /\ AllSound'
<1> DEFINE j == job[w]
           n == NewAlarm(w)
           on == Onward(w, <<>>)
<1>1. Busy(w) /\ Now(w).do \in {"put", "single"} /\ World
  BY DEF PutAlarm, Does
<1>2. <<>> \in Seq(CallType) /\ \A draft : Adds(<<>>, draft)
  BY AddsNone
<1>3. /\ j \in JobType /\ j.todo # <<>> /\ Now(w) = j.todo[1] /\ Now(w) \in CallType
      /\ on \in JobType /\ Continues(j, on, <<>>) /\ on.kept = j.kept
  BY <1>1, <1>2, OnwardFacts
<1>4. /\ n \in AlarmType /\ n.metric = Now(w).metric /\ Right(n, j.thr)
      /\ [n EXCEPT !.tag = "none"] \in AlarmType
      /\ Now(w).do = "put" /\ j.kept[n.metric] = "chosen" => n.tag = "chosen" /\ n.told = "chosen"
  BY <1>1, NewAlarmFacts
<1>5. Distinct(alarms)
  BY DEF Typed
<1>6. Now(w).do \in Deeds /\ Now(w).do # "clear"
  BY <1>1 DEF Deeds, OnMetric
<1>7. NoDimensions(w) <=> Lost(Now(w).metric, View(j, reported))
  BY DEF NoDimensions, Lost, Seen, View
<1>8. Put(w) \/ (NoDimensions(w) /\ Goes(w, <<>>) /\ UNCHANGED alarms) \/ PutFails(w)
  BY DEF PutAlarm
<1>9. CASE Put(w)
  <2>1. /\ ~NoDimensions(w) /\ alarms' = Without(alarms, {NameOf(n)}) \cup {n}
        /\ trouble' = trouble /\ job' = Moved(w, on)
    BY <1>9 DEF Put
  <2> HIDE DEF n, on
  <2>2. Distinct(alarms')
    BY <1>4, <1>5, <2>1, PutNew
  <2>3. InProgress(j, alarms, View(j, reported)) => InProgress(on, alarms', View(j, reported))
    <3> HIDE DEF j
    <3> SUFFICES ASSUME InProgress(j, alarms, View(j, reported))
                 PROVE  InProgress(on, Without(alarms, {NameOf(n)}) \cup {n}, View(j, reported))
      BY <2>1
    <3>1. n.metric = j.todo[1].metric /\ j.todo[1].do \in {"put", "single"} /\ ~Lost(n.metric, View(j, reported))
      BY <1>1, <1>3, <1>4, <1>7, <2>1
    <3>2. j.todo[1].do = "put" /\ j.kept[n.metric] = "chosen" => n.tag = "chosen" /\ n.told = "chosen"
      BY <1>3, <1>4
    <3> QED  BY <1>3, <1>4, <1>5, <3>1, <3>2, PutProgress
  <2>4. Sound(on, alarms', reported, Unmonitored)
    BY <1>1, <1>2, <1>3, <1>6, <2>3, DeedOn
  <2> QED  BY <1>1, <1>3, <2>1, <2>2, <2>4, MovesOn
<1>10. CASE NoDimensions(w) /\ Goes(w, <<>>) /\ UNCHANGED alarms
  <2>1. trouble' = trouble /\ job' = [job EXCEPT ![w] = on]
    BY <1>10 DEF Goes
  <2> HIDE DEF on
  <2>2. InProgress(j, alarms, View(j, reported)) => InProgress(on, alarms, View(j, reported))
    <3>1. Lost(j.todo[1].metric, View(j, reported)) /\ j.todo[1].do \in {"put", "single"}
      BY <1>1, <1>3, <1>7, <1>10
    <3> QED  BY <1>3, <3>1, LostProgress
  <2>3. Sound(on, alarms, reported, Unmonitored)
    BY <1>1, <1>2, <1>3, <1>6, <2>2, DeedOn
  <2> QED  BY <1>1, <1>3, <1>10, <2>1, <2>3, GoesOn
<1>11. CASE PutFails(w)
  <2>1. /\ trouble < MaxTrouble /\ trouble' = trouble + 1 /\ job' = Moved(w, Hurt(on))
        /\ alarms' = alarms \/ alarms' = Overwrite(alarms, [n EXCEPT !.tag = "none"])
    BY <1>11 DEF PutFails
  <2> HIDE DEF n
  <2>2. Distinct(alarms')
    BY <1>4, <1>5, <2>1, OverwriteDistinct
  <2>3. Hurt(on) \in JobType /\ Sound(Hurt(on), alarms', reported, Unmonitored)
    BY <1>1, <1>2, HurtOn
  <2> HIDE DEF on
  <2> QED  BY <1>1, <2>1, <2>2, <2>3, MovesOn
<1> QED  BY <1>8, <1>9, <1>10, <1>11

(* The descriptions that are to be written, if any, are the draft.          *)
LEMMA RedraftFacts ==
  ASSUME Typed, NEW w \in Workers, Busy(w), Now(w).do = "refresh", NEW told \in SUBSET AlarmType
  PROVE  LET j == job[w]
             more == IF told \subseteq alarms THEN <<>> ELSE <<Call("rewrite", Now(w).metric, {})>>
             j1 == Redraft(w, told)
         IN /\ more \in Seq(CallType) /\ Adds(more, j1.draft)
            /\ j1 \in JobType /\ Continues(j, j1, more) /\ j1.kept = j.kept /\ j1.draft = told \ alarms
<1> DEFINE c == Now(w)
           again == <<Call("rewrite", c.metric, {})>>
           more == IF told \subseteq alarms THEN <<>> ELSE again
           on == Onward(w, more)
           j1 == [on EXCEPT !.draft = told \ alarms]
<1>1. <<>> \in Seq(CallType) /\ \A draft : Adds(<<>>, draft)
  BY AddsNone
<1>2. c \in CallType
  BY <1>1, OnwardFacts
<1>3. c.metric \in Metrics
  BY <1>2, TypedCall DEF OnMetric
<1>4. Call("rewrite", c.metric, {}) \in CallType /\ Call("rewrite", c.metric, {}).do = "rewrite"
  <2>1. Call("rewrite", c.metric, {}) \in CallType
    BY <1>3, CallTyped DEF Deeds, OnMetric, Edits
  <2> QED  BY <2>1 DEF Call
<1>5. again \in Seq(CallType) /\ \A draft : draft # {} => Adds(again, draft)
  BY <1>4, AddsOne DEF Deeds, OnMetric
<1>6. Redraft(w, told) = j1
  BY DEF Redraft
<1> HIDE DEF again
<1>7. more \in Seq(CallType) /\ Adds(more, told \ alarms)
  <2>1. CASE told \subseteq alarms
    BY <1>1, <2>1
  <2>2. CASE ~(told \subseteq alarms)
    <3>1. told \ alarms # {} /\ more = again
      BY <2>2
    <3> QED  BY <1>5, <3>1
  <2> QED  BY <2>1, <2>2
<1> HIDE DEF more
<1>8. on \in JobType /\ Continues(job[w], on, more) /\ on.kept = job[w].kept
  BY <1>7, OnwardFacts
<1> HIDE DEF on
<1>9. told \ alarms \in SUBSET AlarmType
  OBVIOUS
<1>10. j1 \in JobType /\ Continues(job[w], j1, more) /\ j1.kept = job[w].kept /\ j1.draft = told \ alarms
  BY <1>8, <1>9, WithDraft
<1> QED  BY <1>6, <1>7, <1>10 DEF more, again

LEMMA RefreshStep ==
  ASSUME Typed, AllSound, NEW w \in Workers, Refresh(w)
  PROVE  Typed' /\ AllSound'
<1> DEFINE j == job[w]
           c == Now(w)
           old == Named(alarms, c.names)
           told == {Retold(a) : a \in old}
           registered == {AsRegistered(a) : a \in old}
<1>1. Does(w, "refresh") /\ World /\ UNCHANGED alarms
  BY DEF Refresh
<1>2. /\ Busy(w) /\ c.do = "refresh" /\ c = j.todo[1] /\ j.todo # <<>> /\ j \in JobType /\ c \in CallType
  BY <1>1, DoesFacts
<1>3. <<>> \in Seq(CallType) /\ \A draft : Adds(<<>>, draft)
  BY AddsNone
<1>4. Distinct(alarms) /\ alarms \subseteq AlarmType
  BY DEF Typed, Distinct
<1>5. told \in SUBSET AlarmType
  BY <1>4, RetoldFacts DEF Named
<1>6. registered \in SUBSET AlarmType
  BY <1>4 DEF Named, AsRegistered, AlarmType, Severities
<1>7. c.do \in Deeds /\ c.do # "clear" /\ c.do # "single"
  BY <1>2 DEF Deeds, OnMetric
<1>8. \/ trouble' = trouble /\ job' = [job EXCEPT ![w] = Redraft(w, told)]
      \/ /\ trouble < MaxTrouble /\ trouble' = trouble + 1
         /\ job' = [job EXCEPT ![w] = Hurt(Redraft(w, registered))]
      \/ Fails(w, <<>>)
  BY DEF Refresh
<1>9. CASE trouble' = trouble /\ job' = [job EXCEPT ![w] = Redraft(w, told)]
  <2> DEFINE more == IF told \subseteq alarms THEN <<>> ELSE <<Call("rewrite", c.metric, {})>>
             j1 == Redraft(w, told)
  <2>1. /\ more \in Seq(CallType) /\ Adds(more, j1.draft)
        /\ j1 \in JobType /\ Continues(j, j1, more) /\ j1.kept = j.kept /\ j1.draft = told \ alarms
    BY <1>2, <1>5, RedraftFacts
  <2>2. told = {Retold(a) : a \in Named(alarms, j.todo[1].names)} /\ j.todo[1].do = "refresh"
    BY <1>2
  <2>3. Continues(j, j1, IF told \subseteq alarms THEN <<>> ELSE <<Call("rewrite", j.todo[1].metric, {})>>)
    BY <1>2, <2>1
  <2> HIDE DEF j1, told
  <2>4. InProgress(j, alarms, View(j, reported)) => InProgress(j1, alarms, View(j, reported))
    <3> HIDE DEF c, j, more
    <3> QED  BY <1>2, <1>4, <2>1, <2>2, <2>3, RefreshProgress
  <2> HIDE DEF more
  <2>5. Sound(j1, alarms, reported, Unmonitored)
    BY <1>2, <1>7, <2>1, <2>4, DeedOn
  <2> QED  BY <1>1, <1>9, <2>1, <2>5, GoesOn DEF j1
<1>10. CASE /\ trouble < MaxTrouble /\ trouble' = trouble + 1
            /\ job' = [job EXCEPT ![w] = Hurt(Redraft(w, registered))]
  <2> DEFINE more == IF registered \subseteq alarms THEN <<>> ELSE <<Call("rewrite", c.metric, {})>>
             j1 == Redraft(w, registered)
  <2>1. Adds(more, j1.draft) /\ j1 \in JobType /\ Continues(j, j1, more)
    BY <1>2, <1>6, RedraftFacts
  <2> HIDE DEF more, j1, registered
  <2>2. Hurt(j1) \in JobType /\ Sound(Hurt(j1), alarms, reported, Unmonitored)
    BY <1>2, <1>7, <2>1, AmissOn
  <2> QED  BY <1>1, <1>10, <2>2, GoesOn DEF j1
<1>11. CASE Fails(w, <<>>)
  BY <1>1, <1>2, <1>3, <1>11, FailsOn
<1> QED  BY <1>8, <1>9, <1>10, <1>11

LEMMA RewriteStep ==
  ASSUME Typed, AllSound, NEW w \in Workers, Rewrite(w)
  PROVE  Typed' /\ AllSound'
<1> DEFINE j == job[w]
           on == Onward(w, <<>>)
           a == CHOOSE d \in j.draft : TRUE
           new == IF Named(alarms, {NameOf(a)}) = {} THEN [a EXCEPT !.tag = "none"] ELSE a
           done == [on EXCEPT !.draft = {}]
<1>1. Does(w, "rewrite") /\ World
  BY DEF Rewrite
<1>2. Busy(w) /\ Now(w).do = "rewrite" /\ Now(w) = j.todo[1] /\ j.todo # <<>> /\ j \in JobType
  BY <1>1, DoesFacts
<1>3. <<>> \in Seq(CallType) /\ \A draft : Adds(<<>>, draft)
  BY AddsNone
<1>4. on \in JobType /\ Continues(j, on, <<>>) /\ on.kept = j.kept
  BY <1>2, <1>3, OnwardFacts
<1>5. \/ alarms' = Overwrite(alarms, new) /\ trouble' = trouble /\ job' = Moved(w, done)
      \/ alarms' = alarms /\ trouble < MaxTrouble /\ trouble' = trouble + 1 /\ job' = [job EXCEPT ![w] = Hurt(done)]
  BY DEF Rewrite
<1>6. /\ done \in JobType /\ Continues(j, done, <<>>) /\ done.kept = on.kept /\ done.draft = {}
  <2> HIDE DEF on, j
  <2>1. {} \in SUBSET AlarmType
    OBVIOUS
  <2> QED  BY <1>4, <2>1, WithDraft
<1>7. Distinct(alarms)
  BY DEF Typed
<1>8. j.draft # {} /\ j.draft \subseteq AlarmType
  <2>1. Shape(j)
    BY SoundJob
  <2>2. 1 \in DOMAIN j.todo
    BY <1>2, JobFields, TailFacts
  <2> QED  BY <1>2, <2>1, <2>2, JobFields DEF Shape
<1>9. a \in AlarmType
  BY <1>8
<1> HIDE DEF on, done, a
<1>10. new \in AlarmType
  <2>1. [a EXCEPT !.tag = "none"] \in AlarmType
    BY <1>9 DEF AlarmType
  <2> QED  BY <1>9, <2>1
<1>11. InProgress(j, alarms, View(j, reported)) => InProgress(done, Overwrite(alarms, new), View(j, reported))
  <2>1. done.kept = j.kept /\ j.todo[1].do = "rewrite"
    BY <1>2, <1>4, <1>6
  <2>2. a \in j.draft
    BY <1>8 DEF a
  <2>3. new = a \/ Named(alarms, {NameOf(a)}) = {}
    OBVIOUS
  <2> HIDE DEF j, new
  <2>4. j \in JobType /\ done \in JobType /\ j.todo # <<>> /\ Continues(j, done, <<>>)
    BY <1>2, <1>6
  <2> SUFFICES ASSUME InProgress(j, alarms, View(j, reported)) PROVE InProgress(done, Overwrite(alarms, new), View(j, reported))
    OBVIOUS
  <2> QED  BY <1>7, <2>1, <2>2, <2>3, <2>4, RewriteProgress
<1> HIDE DEF new
<1>12. Now(w).do \in Deeds /\ Now(w).do # "clear" /\ Now(w).do # "single"
  BY <1>2 DEF Deeds, OnMetric
<1>13. CASE alarms' = Overwrite(alarms, new) /\ trouble' = trouble /\ job' = Moved(w, done)
  <2>1. Distinct(alarms')
    BY <1>7, <1>10, <1>13, OverwriteDistinct
  <2>2. InProgress(j, alarms, View(j, reported)) => InProgress(done, alarms', View(j, reported))
    BY <1>11, <1>13
  <2>3. Sound(done, alarms', reported, Unmonitored)
    BY <1>2, <1>3, <1>6, <1>12, <2>2, DeedOn
  <2> QED  BY <1>1, <1>6, <1>13, <2>1, <2>3, MovesOn
<1>14. CASE alarms' = alarms /\ trouble < MaxTrouble /\ trouble' = trouble + 1 /\ job' = [job EXCEPT ![w] = Hurt(done)]
  <2>1. Hurt(done) \in JobType /\ Sound(Hurt(done), alarms, reported, Unmonitored)
    BY <1>2, <1>3, <1>6, <1>12, AmissOn
  <2> QED  BY <1>1, <1>14, <2>1, GoesOn
<1> QED  BY <1>5, <1>13, <1>14
-----------------------------------------------------------------------------
(* A worker decides.                                                        *)
LEMMA NoCalls ==
  ASSUME NEW s \in Seq(CallType), Len(s) = 0
  PROVE  s = <<>>
OBVIOUS

LEMMA LastCall ==
  ASSUME NEW j \in JobType, Shape(j), j.todo # <<>>, j.todo[1].do \in {"sync", "create"}
  PROVE  Len(j.todo) = 1 /\ Tail(j.todo) = <<>> /\ ~j.set
<1>1. j.todo \in Seq(CallType)
  BY JobFields
<1>2. 1 \in DOMAIN j.todo /\ Tail(j.todo) \in Seq(CallType) /\ Len(Tail(j.todo)) = Len(j.todo) - 1
  BY <1>1, TailFacts
<1>3. 1 = Len(j.todo)
  BY <1>2 DEF Shape
<1>4. ~j.set
  BY <1>2 DEF Shape, Deeds, OnMetric
<1>5. Len(Tail(j.todo)) = 0
  BY <1>2, <1>3
<1>6. Tail(j.todo) = <<>>
  BY <1>2, <1>5, NoCalls
<1> QED  BY <1>3, <1>4, <1>6

LEMMA PlanSound ==
  ASSUME NEW j, Decided(j.todo), NEW now, NEW rep, NEW off,
         Progress(j, now, View(j, rep)), Silent(j, rep)
  PROVE  Sound(j, now, rep, off)
<1>1. \A i \in DOMAIN j.todo :
        j.todo[i].do \in Deeds /\ j.todo[i].do \notin {"sync", "create", "edit", "rewrite"}
  BY DEF Decided, PlanDeeds, Deeds, OnMetric
<1>2. Shape(j)
  BY <1>1 DEF Shape
<1>3. ~Listing(j)
  <2> SUFFICES ASSUME Listing(j) PROVE FALSE
    OBVIOUS
  <2>1. j.todo \in Seq(CallType)
    BY DEF Decided
  <2>2. Len(j.todo) \in DOMAIN j.todo
    BY <2>1, SeqFacts DEF Listing
  <2> QED  BY <1>1, <2>2 DEF Listing
<1> QED  BY <1>2, <1>3 DEF Sound, ByTheList

Begun(j, now) == [j EXCEPT !.set = TRUE, !.before = now]

LEMMA Beginning ==
  ASSUME NEW on \in JobType, NEW now, now \subseteq AlarmType
  PROVE  /\ Begun(on, now) \in JobType /\ Hurt(Begun(on, now)) \in JobType
         /\ Begun(on, now).todo = on.todo /\ Begun(on, now).thr = on.thr /\ Begun(on, now).by = on.by
         /\ Begun(on, now).alone = on.alone /\ Begun(on, now).set /\ Begun(on, now).before = now
         /\ Hurt(Begun(on, now)).todo = on.todo /\ ~Hurt(Begun(on, now)).alone
BY DEF JobType, Hurt, Begun

LEMMA DecidesOn ==
  ASSUME Typed, NEW w \in Workers, Busy(w), Tail(job[w].todo) = <<>>, NEW plan, Decided(plan)
  PROVE  LET on == Onward(w, plan)
             j1 == Begun(Onward(w, plan), alarms)
         IN /\ on \in JobType /\ on.todo = plan /\ on.set = job[w].set
            /\ Hurt(on) \in JobType /\ Hurt(on).todo = plan /\ Hurt(on).set = job[w].set
            /\ j1 \in JobType /\ j1.todo = plan /\ j1.thr = job[w].thr /\ j1.by = job[w].by
            /\ j1.alone = job[w].alone /\ j1.set /\ j1.before = alarms
            /\ Hurt(j1) \in JobType /\ Hurt(j1).todo = plan /\ ~Hurt(j1).alone
<1> DEFINE j == job[w]
           on == Onward(w, plan)
<1>1. plan \in Seq(CallType) /\ plan \o <<>> = plan
  BY DEF Decided
<1>2. /\ on \in JobType /\ on.todo = plan \o Tail(j.todo) /\ Continues(j, on, plan) /\ on.alone = j.alone
      /\ Hurt(on) \in JobType /\ Hurt(on).todo = plan \o Tail(j.todo) /\ Continues(j, Hurt(on), plan)
  BY <1>1, OnwardFacts
<1>3. plan \o Tail(j.todo) = plan
  BY <1>1
<1>4. alarms \subseteq AlarmType
  BY TypedJob
<1> HIDE DEF on, j
<1>5. on.thr = j.thr /\ on.by = j.by /\ on.set = j.set /\ Hurt(on).set = j.set
  BY <1>2 DEF Continues
<1>6. on.todo = plan /\ Hurt(on).todo = plan
  BY <1>2, <1>3
<1> DEFINE j1 == Begun(on, alarms)
<1>7. /\ j1 \in JobType /\ Hurt(j1) \in JobType
      /\ j1.todo = on.todo /\ j1.thr = on.thr /\ j1.by = on.by /\ j1.alone = on.alone
      /\ j1.set /\ j1.before = alarms
      /\ Hurt(j1).todo = on.todo /\ ~Hurt(j1).alone
  <2>1. on \in JobType
    BY <1>2
  <2> QED  BY <2>1, <1>4, Beginning
<1> QED  BY <1>2, <1>5, <1>6, <1>7 DEF on, j

LEMMA SeenTyped ==
  ASSUME NEW thr, NEW rep
  PROVE  SeenDisks(thr, rep) \in SUBSET Disks /\ {} \in SUBSET Disks
BY DEF SeenDisks

(* A plan made by what CloudWatch has, or by the list of it.                *)
LEMMA FirstSound ==
  ASSUME NEW j, j.thr \in [Metrics -> Settings], j.set, NEW now, Distinct(now), j.before = now,
         NEW existing, j.alone => existing = now \/ (existing = {} /\ ~Listed), existing \in SUBSET AlarmType,
         NEW rep, j.todo \in PlanFor(j.thr, existing, SeenDisks(j.thr, View(j, rep))), NEW off
  PROVE  Sound(j, now, rep, off)
<1> DEFINE seen == SeenDisks(j.thr, View(j, rep))
<1>1. seen \in SUBSET Disks
  BY SeenTyped
<1>2. Decided(j.todo)
  BY <1>1, PlanDecided
<1>3. CASE existing = {}
  <2>1. j.todo = CreatePlan(j.thr, seen)
    BY <1>3 DEF PlanFor
  <2>2. InProgress(j, now, View(j, rep))
    BY <2>1, CreateProgress
  <2>3. Silent(j, rep)
    <3> SUFFICES ASSUME Listed, FoundRight(j, rep) PROVE FALSE
      BY DEF Silent
    <3>1. j.alone /\ j.before # {}
      BY DEF FoundRight
    <3> QED  BY <1>3, <3>1
  <2> QED  BY <1>2, <2>2, <2>3, PlanSound DEF Progress
<1>4. CASE existing # {}
  <2>1. PICK known \in KeyToAlarm(existing) : j.todo = SyncPlan(j.thr, known, seen)
    BY <1>4 DEF PlanFor
  <2>2. j.alone /\ Single(now) => Decides(j, now, known)
    BY <1>4, <2>1 DEF Decides
  <2>3. Progress(j, now, View(j, rep))
    <3> SUFFICES ASSUME Undisturbed(j) PROVE InProgress(j, now, View(j, rep))
      BY DEF Progress
    <3>1. Decides(j, now, known)
      BY <2>2 DEF Undisturbed
    <3> QED  BY <2>1, <3>1, SyncProgress
  <2>4. Silent(j, rep)
    <3> SUFFICES ASSUME Listed, FoundRight(j, rep), NEW i \in DOMAIN j.todo
                 PROVE  j.todo[i].do = "single" /\ Lost(j.todo[i].metric, rep)
      BY DEF Silent
    <3>1. Decides(j, now, known)
      BY <2>2 DEF FoundRight, SettledAlarms
    <3>2. View(j, rep) = rep
      BY DEF FoundRight, View
    <3>3. j.todo = SyncPlan(j.thr, known, SeenDisks(j.thr, rep))
      BY <2>1, <3>2
    <3> QED  BY <3>1, <3>3, NothingToDo
  <2> QED  BY <1>2, <2>3, <2>4, PlanSound
<1> QED  BY <1>3, <1>4

LEMMA FirstHurt ==
  ASSUME NEW j, Decided(j.todo), ~(j.set /\ j.alone), NEW now, NEW rep, NEW off
  PROVE  Sound(j, now, rep, off)
<1>1. Progress(j, now, View(j, rep)) /\ Silent(j, rep)
  BY DEF Progress, Silent, Undisturbed, FoundRight
<1> QED  BY <1>1, PlanSound

LEMMA SyncStep ==
  ASSUME Typed, AllSound, NEW w \in Workers, Sync(w)
  PROVE  Typed' /\ AllSound'
<1> DEFINE j == job[w]
           existing == IF Now(w).strict THEN j.index ELSE alarms
           seen == SeenDisks(j.thr, Seen(j))
           begin(plan) == Begun(Onward(w, plan), alarms)
<1>1. Does(w, "sync") /\ World /\ UNCHANGED alarms
  BY DEF Sync
<1>2. Busy(w) /\ Now(w).do = "sync" /\ Now(w) = j.todo[1] /\ j.todo # <<>> /\ j \in JobType
  BY <1>1, DoesFacts
<1>3. Shape(j) /\ ByTheList(j, alarms, Unmonitored)
  BY SoundJob
<1>4. Len(j.todo) = 1 /\ Tail(j.todo) = <<>>
  BY <1>2, <1>3, LastCall
<1>5. j.thr \in [Metrics -> Settings] /\ existing \in SUBSET AlarmType /\ {} \in SUBSET AlarmType
  BY <1>2, JobFields, TypedJob
<1>6. seen \in SUBSET Disks /\ {} \in SUBSET Disks
  BY SeenTyped
<1>7. j.alone => existing = alarms \/ (existing = {} /\ ~Listed)
  <2>1. CASE Now(w).strict
    <3>1. Listing(j)
      BY <1>2, <1>4, <2>1 DEF Listing
    <3>2. InRun(j.todo, j.alone, Fresh(j, alarms), Unmonitored)
      BY <1>3, <3>1 DEF ByTheList
    <3>3. j.alone => Fresh(j, alarms)
      BY <1>4, <3>2 DEF InRun
    <3> QED  BY <2>1, <3>3 DEF Fresh
  <2>2. CASE ~Now(w).strict
    BY <2>2
  <2> QED  BY <2>1, <2>2
<1>8. Distinct(alarms)
  BY DEF Typed
<1> HIDE DEF existing
<1>9. CASE /\ trouble' = trouble
           /\ \E plan \in PlanFor(j.thr, existing, seen) : job' = [job EXCEPT ![w] = begin(plan)]
  <2>1. PICK plan \in PlanFor(j.thr, existing, seen) : job' = [job EXCEPT ![w] = begin(plan)]
    BY <1>9
  <2>2. Decided(plan)
    BY <1>5, <1>6, PlanDecided
  <2> DEFINE j1 == begin(plan)
  <2>3. /\ j1 \in JobType /\ j1.todo = plan /\ j1.thr = j.thr /\ j1.alone = j.alone
        /\ j1.set /\ j1.before = alarms
    BY <1>2, <1>4, <2>2, DecidesOn
  <2>8. j1.by = j.by
    BY <1>2, <1>4, <2>2, DecidesOn
  <2> HIDE DEF j1, j
  <2>9. Seen(j) = View(j1, reported)
    BY <2>8 DEF Seen, View
  <2>4. j1.thr \in [Metrics -> Settings] /\ j1.todo \in PlanFor(j1.thr, existing, SeenDisks(j1.thr, View(j1, reported)))
    BY <1>5, <2>3, <2>9
  <2>5. j1.alone => existing = alarms \/ (existing = {} /\ ~Listed)
    BY <1>7, <2>3
  <2>6. Sound(j1, alarms, reported, Unmonitored)
    BY <1>5, <1>8, <2>3, <2>4, <2>5, FirstSound
  <2>7. job' = [job EXCEPT ![w] = j1]
    BY <2>1 DEF j1
  <2> QED  BY <1>1, <1>9, <2>3, <2>6, <2>7, GoesOn
<1>10. CASE /\ trouble < MaxTrouble
            /\ trouble' = trouble + 1
            /\ \E plan \in PlanBlind(j.thr, existing, Now(w).strict, seen) :
                 job' = [job EXCEPT ![w] = Hurt(begin(plan))]
  <2>1. PICK plan \in PlanBlind(j.thr, existing, Now(w).strict, seen) :
          job' = [job EXCEPT ![w] = Hurt(begin(plan))]
    BY <1>10
  <2>2. Decided(plan)
    BY <1>5, <1>6, BlindDecided
  <2> DEFINE j1 == Hurt(begin(plan))
  <2>3. j1 \in JobType /\ j1.todo = plan /\ ~j1.alone
    BY <1>2, <1>4, <2>2, DecidesOn
  <2>4. job' = [job EXCEPT ![w] = j1]
    BY <2>1
  <2> HIDE DEF j1
  <2>5. Sound(j1, alarms, reported, Unmonitored)
    BY <2>2, <2>3, FirstHurt
  <2> QED  BY <1>1, <1>10, <2>3, <2>4, <2>5, GoesOn
<1> QED  BY <1>9, <1>10 DEF Sync, existing, Begun

LEMMA CreateStep ==
  ASSUME Typed, AllSound, NEW w \in Workers, Create(w)
  PROVE  Typed' /\ AllSound'
<1> DEFINE j == job[w]
           plan == CreatePlan(j.thr, SeenDisks(j.thr, Seen(j)))
           less == CreatePlan(j.thr, {})
           j1 == Begun(Onward(w, plan), alarms)
           h == Hurt(Onward(w, less))
<1>1. Does(w, "create") /\ World /\ UNCHANGED alarms
  BY DEF Create
<1>2. Busy(w) /\ Now(w).do = "create" /\ Now(w) = j.todo[1] /\ j.todo # <<>> /\ j \in JobType
  BY <1>1, DoesFacts
<1>3. Shape(j)
  BY SoundJob
<1>4. Tail(j.todo) = <<>> /\ ~j.set
  BY <1>2, <1>3, LastCall
<1>5. j.by # "run"
  <2>1. 1 \in DOMAIN j.todo
    BY <1>2, JobFields, TailFacts
  <2> QED  BY <1>2, <1>3, <2>1 DEF Shape
<1>6. j.thr \in [Metrics -> Settings]
  BY <1>2, JobFields
<1>7. Decided(plan) /\ Decided(less)
  BY <1>6, SeenTyped, CreateDecided
<1>8. CASE trouble' = trouble /\ job' = [job EXCEPT ![w] = j1]
  <2>1. /\ j1 \in JobType /\ j1.todo = plan /\ j1.thr = j.thr /\ j1.by = j.by /\ j1.before = alarms
    BY <1>2, <1>4, <1>7, DecidesOn
  <2> HIDE DEF j1, j
  <2>5. Seen(j) = View(j1, reported)
    BY <2>1 DEF Seen, View
  <2>2. InProgress(j1, alarms, View(j1, reported))
    BY <1>6, <2>1, <2>5, CreateProgress
  <2>3. Progress(j1, alarms, View(j1, reported)) /\ Silent(j1, reported)
    BY <1>5, <2>1, <2>2 DEF Progress, Silent, FoundRight
  <2>4. Sound(j1, alarms, reported, Unmonitored)
    BY <1>7, <2>1, <2>3, PlanSound
  <2> QED  BY <1>1, <1>8, <2>1, <2>4, GoesOn
<1>9. CASE Fails(w, less)
  <2>1. h \in JobType /\ h.todo = less /\ h.set = j.set
    BY <1>2, <1>4, <1>7, DecidesOn
  <2>2. trouble < MaxTrouble /\ trouble' = trouble + 1 /\ job' = [job EXCEPT ![w] = h]
    BY <1>9 DEF Fails
  <2> HIDE DEF h, j
  <2>3. Sound(h, alarms, reported, Unmonitored)
    BY <1>4, <1>7, <2>1, FirstHurt
  <2> QED  BY <1>1, <2>1, <2>2, <2>3, GoesOn
<1> QED  BY <1>8, <1>9 DEF Create, Begun

LEMMA DieStep ==
  ASSUME Typed, AllSound, NEW w \in Workers, Die(w)
  PROVE  Typed' /\ AllSound'
BY IdleSound, GoesOn DEF Die

LEMMA FinishStep ==
  ASSUME Typed, AllSound, NEW w \in Workers, Finish(w)
  PROVE  Typed' /\ AllSound'
BY IdleSound, GoesOn DEF Finish
-----------------------------------------------------------------------------
(* The run.                                                                 *)
LEMMA NotDecided ==
  ASSUME NEW j \in JobType, Shape(j), j.todo # <<>>, j.todo[1].do \notin Deeds
  PROVE  ~j.set
<1>1. 1 \in DOMAIN j.todo
  BY JobFields, TailFacts
<1> QED  BY <1>1 DEF Shape

LEMMA WithIndex ==
  ASSUME NEW on \in JobType, NEW as, as \subseteq AlarmType
  PROVE  LET j1 == [on EXCEPT !.index = as]
         IN /\ j1 \in JobType /\ j1.todo = on.todo /\ j1.set = on.set /\ j1.by = on.by /\ j1.draft = on.draft
            /\ j1.index = as
            /\ Hurt(j1) \in JobType /\ Hurt(j1).todo = on.todo /\ Hurt(j1).set = on.set /\ Hurt(j1).by = on.by
            /\ Hurt(j1).draft = on.draft /\ ~Hurt(j1).alone
BY DEF JobType, Hurt

LEMMA WithThr ==
  ASSUME NEW on \in JobType, NEW thr \in [Metrics -> Settings]
  PROVE  LET j1 == [on EXCEPT !.thr = thr]
         IN /\ j1 \in JobType /\ j1.todo = on.todo /\ j1.set = on.set /\ j1.by = on.by /\ j1.draft = on.draft
            /\ j1.index = on.index /\ j1.alone = on.alone
            /\ Hurt(j1) \in JobType /\ Hurt(j1).todo = on.todo /\ Hurt(j1).set = on.set /\ Hurt(j1).by = on.by
            /\ Hurt(j1).draft = on.draft /\ ~Hurt(j1).alone
BY DEF JobType, Hurt

LEMMA WithTodo ==
  ASSUME NEW j \in JobType, NEW todo \in Seq(CallType)
  PROVE  LET j1 == [j EXCEPT !.todo = todo]
         IN /\ j1 \in JobType /\ j1.todo = todo /\ j1.set = j.set /\ j1.by = j.by /\ j1.draft = j.draft
            /\ Hurt(j1) \in JobType /\ Hurt(j1).todo = todo /\ Hurt(j1).set = j.set
BY DEF JobType, Hurt

LEMMA WholeTyped ==
  ASSUME NEW do \in Asks \cup {"wipe"}
  PROVE  /\ Whole(do) \in CallType /\ Whole(do).do = do /\ ~Whole(do).strict
         /\ ByList(TRUE) \in CallType /\ ByList(TRUE).do = "sync" /\ ByList(TRUE).strict
         /\ ByList(FALSE) \in CallType /\ ByList(FALSE).do = "sync" /\ ~ByList(FALSE).strict
<1>1. ASSUME NEW d \in Asks \cup {"wipe"} PROVE Whole(d) \in CallType
  BY CallTyped DEF Whole, Deeds, OnMetric, Edits, Asks
<1>2. Whole("sync") \in CallType
  BY <1>1 DEF Asks
<1>3. \A d : Whole(d).do = d /\ ~Whole(d).strict
  BY DEF Whole, Call
<1>4. ASSUME NEW s \in BOOLEAN
      PROVE  ByList(s) \in CallType /\ ByList(s).do = "sync" /\ ByList(s).strict = s
  BY <1>2 DEF ByList, Whole, Call, CallType, OnMetric, Edits
<1> QED  BY <1>1, <1>3, <1>4

LEMMA FourCalls ==
  ASSUME NEW a \in CallType, NEW b \in CallType, NEW c \in CallType, NEW d \in CallType
  PROVE  LET s == <<a, b, c, d>>
         IN /\ s \in Seq(CallType) /\ Len(s) = 4 /\ DOMAIN s = 1 .. 4 /\ s # <<>>
            /\ s[1] = a /\ s[2] = b /\ s[3] = c /\ s[4] = d
OBVIOUS

LEMMA TailOfFour ==
  ASSUME NEW r \in Seq(CallType), Len(r) = 4
  PROVE  LET t == Tail(r)
         IN /\ t \in Seq(CallType) /\ Len(t) = 3 /\ DOMAIN t = 1 .. 3
            /\ t[1] = r[2] /\ t[2] = r[3] /\ t[3] = r[4]
<1> DEFINE t == Tail(r)
<1>1. r # <<>> /\ DOMAIN r = 1 .. 4
  OBVIOUS
<1>2. /\ t \in Seq(CallType) /\ Len(t) = Len(r) - 1
      /\ \A i \in DOMAIN t : t[i] = r[i + 1]
  BY <1>1, TailFacts
<1> HIDE DEF t
<1>3. Len(t) = 3 /\ DOMAIN t = 1 .. Len(t)
  BY <1>2, SeqFacts
<1>4. 1 \in DOMAIN t /\ 2 \in DOMAIN t /\ 3 \in DOMAIN t
  BY <1>3
<1>5. t[1] = r[1 + 1] /\ t[2] = r[2 + 1] /\ t[3] = r[3 + 1]
  BY <1>2, <1>4
<1>6. DOMAIN t = 1 .. 3 /\ t[1] = r[2] /\ t[2] = r[3] /\ t[3] = r[4]
  BY <1>3, <1>5
<1> QED  BY <1>2, <1>3, <1>6 DEF t

LEMMA RunPlanFacts ==
  ASSUME NEW s \in BOOLEAN
  PROVE  LET r == RunPlan(s)
         IN /\ r \in Seq(CallType) /\ Len(r) = 4 /\ DOMAIN r = 1 .. 4 /\ r # <<>>
            /\ r[1].do = "list" /\ r[2].do = "orphans" /\ r[3].do = "collect" /\ r[4].do = "sync"
            /\ r[4].strict <=> s
<1> DEFINE a == Whole("list")
           b == Whole("orphans")
           c == Whole("collect")
           d == ByList(s)
<1>1. /\ a \in CallType /\ b \in CallType /\ c \in CallType /\ d \in CallType
      /\ a.do = "list" /\ b.do = "orphans" /\ c.do = "collect" /\ d.do = "sync" /\ (d.strict <=> s)
  BY WholeTyped DEF Asks
<1>2. RunPlan(s) = <<a, b, c, d>>
  BY DEF RunPlan
<1> HIDE DEF a, b, c, d
<1> QED  BY <1>1, <1>2, FourCalls

LEMMA NoneLeft ==
  ASSUME NEW j, j.todo = <<>>, ~(j.set /\ j.alone), NEW now, NEW rep, NEW off
  PROVE  Sound(j, now, rep, off)
<1>1. Len(j.todo) = 0 /\ DOMAIN j.todo = {}
  OBVIOUS
<1> QED  BY <1>1, PlainSound DEF Shape, ByTheList, Listing

LEMMA ListStep ==
  ASSUME Typed, AllSound, NEW w \in Workers, ListAlarms(w)
  PROVE  Typed' /\ AllSound'
<1> DEFINE j == job[w]
           on == Onward(w, <<>>)
           index == IF Listed THEN alarms ELSE {}
           listed(as) == [on EXCEPT !.index = as]
           kept == [j EXCEPT !.todo = Tail(RunPlan(FALSE))]
<1>1. Does(w, "list") /\ World /\ UNCHANGED alarms
  BY DEF ListAlarms
<1>2. Busy(w) /\ Now(w).do = "list" /\ Now(w) = j.todo[1] /\ j.todo # <<>> /\ j \in JobType
  BY <1>1, DoesFacts
<1>3. <<>> \in Seq(CallType) /\ Adds(<<>>, on.draft)
  BY AddsNone
<1>4. on \in JobType /\ Continues(j, on, <<>>)
  BY <1>2, <1>3, OnwardFacts
<1>5. Sound(j, alarms, reported, Unmonitored) /\ Shape(j) /\ ByTheList(j, alarms, Unmonitored)
  BY SoundJob
<1>6. ~j.set /\ ~on.set
  BY <1>2, <1>4, <1>5, NotDecided DEF Deeds, OnMetric, Continues
<1>7. alarms \subseteq AlarmType
  BY TypedJob
<1> HIDE DEF on
<1>8. CASE trouble' = trouble /\ job' = [job EXCEPT ![w] = listed(index)]
  <2> DEFINE j1 == listed(index)
  <2>1. index \subseteq AlarmType
    BY <1>7
  <2>0. index = IF Listed THEN alarms ELSE {}
    OBVIOUS
  <2> HIDE DEF index
  <2>2. /\ j1 \in JobType /\ j1.todo = on.todo /\ j1.set = on.set /\ j1.by = on.by /\ j1.draft = on.draft
        /\ j1.index = index
    BY <1>4, <2>1, WithIndex
  <2> HIDE DEF j1, j
  <2>3. Fresh(j1, alarms)
    BY <2>0, <2>2 DEF Fresh
  <2>4. ByTheList(j1, alarms, Unmonitored)
    BY <1>2, <1>3, <1>4, <1>5, <2>2, <2>3, ListGoesOn
  <2>5. ~(j1.set /\ j1.alone)
    BY <1>6, <2>2
  <2>6. Sound(j1, alarms, reported, Unmonitored)
    BY <1>2, <1>3, <1>4, <1>5, <2>2, <2>4, <2>5, PlainOn
  <2>7. job' = [job EXCEPT ![w] = j1]
    BY <1>8 DEF j1, index
  <2> QED  BY <1>1, <1>8, <2>2, <2>6, <2>7, GoesOn
<1>9. CASE trouble < MaxTrouble /\ trouble' = trouble + 1 /\ job' = [job EXCEPT ![w] = Hurt(listed({}))]
  <2> DEFINE j1 == Hurt(listed({}))
  <2>1. {} \subseteq AlarmType
    OBVIOUS
  <2>2. /\ j1 \in JobType /\ j1.todo = on.todo /\ j1.set = on.set /\ j1.by = on.by /\ j1.draft = on.draft
        /\ ~j1.alone
    BY <1>4, <2>1, WithIndex
  <2>7. job' = [job EXCEPT ![w] = j1]
    BY <1>9
  <2> HIDE DEF j1, j
  <2>4. ByTheList(j1, alarms, Unmonitored)
    BY <1>2, <1>3, <1>4, <1>5, <2>2, ListGoesOn
  <2>5. ~(j1.set /\ j1.alone)
    BY <2>2
  <2>6. Sound(j1, alarms, reported, Unmonitored)
    BY <1>2, <1>3, <1>4, <1>5, <2>2, <2>4, <2>5, PlainOn
  <2> QED  BY <1>1, <1>9, <2>2, <2>6, <2>7, GoesOn
<1>10. CASE trouble < MaxTrouble /\ trouble' = trouble + 1 /\ job' = [job EXCEPT ![w].todo = Tail(RunPlan(FALSE))]
  <2> DEFINE r == RunPlan(FALSE)
             t == Tail(r)
  <2>1. r \in Seq(CallType) /\ Len(r) = 4 /\ r # <<>>
        /\ r[2].do = "orphans" /\ r[3].do = "collect" /\ r[4].do = "sync" /\ ~r[4].strict
    BY RunPlanFacts
  <2> HIDE DEF r
  <2>2. /\ t \in Seq(CallType) /\ Len(t) = 3 /\ DOMAIN t = 1 .. 3
        /\ t[1] = r[2] /\ t[2] = r[3] /\ t[3] = r[4]
    BY <2>1, TailOfFour
  <2>3. Len(t) = 3 /\ DOMAIN t = 1 .. 3
    BY <2>2
  <2>4. t[1].do = "orphans" /\ t[2].do = "collect" /\ t[3].do = "sync" /\ ~t[3].strict
    BY <2>1, <2>2
  <2> HIDE DEF t
  <2> DEFINE j1 == [j EXCEPT !.todo = t]
  <2>5. job' = [job EXCEPT ![w] = j1]
    BY <1>10 DEF t, r
  <2> HIDE DEF j
  <2>6. j1 \in JobType /\ j1.todo = t /\ j1.set = j.set
    BY <1>2, <2>2, WithTodo
  <2> HIDE DEF j1
  <2>7. \A i \in DOMAIN t : i = 1 \/ i = 2 \/ i = 3
    BY <2>3
  <2>8. Shape(j1)
    BY <1>6, <2>3, <2>4, <2>6, <2>7 DEF Shape
  <2>9. ~Listing(j1)
    BY <2>3, <2>4, <2>6 DEF Listing
  <2>10. ~(j1.set /\ j1.alone) /\ ByTheList(j1, alarms, Unmonitored)
    BY <1>6, <2>6, <2>9 DEF ByTheList
  <2>11. Sound(j1, alarms, reported, Unmonitored)
    BY <2>8, <2>10, PlainSound
  <2> QED  BY <1>1, <1>10, <2>5, <2>6, <2>11, GoesOn
<1> QED  BY <1>8, <1>9, <1>10 DEF ListAlarms, on

LEMMA CleanUpStep ==
  ASSUME Typed, AllSound, NEW w \in Workers, CleanUp(w)
  PROVE  Typed' /\ AllSound'
<1> DEFINE j == job[w]
           more == IF alarms # {} /\ Unmonitored THEN DeleteFound ELSE <<>>
           on == Onward(w, more)
<1>1. Does(w, "orphans") /\ World /\ UNCHANGED alarms
  BY DEF CleanUp
<1>2. Busy(w) /\ Now(w).do = "orphans" /\ Now(w) = j.todo[1] /\ j.todo # <<>> /\ j \in JobType
  BY <1>1, DoesFacts
<1>3. \A draft : Adds(<<>>, draft) /\ Adds(DeleteFound, draft)
  <2>1. NamesOf(alarms) \in SUBSET (Metrics \X Thresholds)
    BY NamesTyped DEF Typed
  <2> QED  BY <2>1, AddsNone, ClearTyped DEF DeleteFound
<1>4. Len(DeleteFound) = 1 /\ DeleteFound[1].do = "clear" /\ <<>> \in Seq(CallType)
  BY DEF DeleteFound, Clear, Call
<1>5. CASE Goes(w, more)
  <2>1. more \in Seq(CallType) /\ \A draft : Adds(more, draft)
    BY <1>3 DEF Adds
  <2>2. on \in JobType /\ Continues(j, on, more)
    BY <1>2, <2>1, OnwardFacts
  <2>3. job' = [job EXCEPT ![w] = on] /\ trouble' = trouble
    BY <1>5 DEF Goes
  <2>4. more = <<>> \/ (Len(more) = 1 /\ more[1].do = "clear" /\ Unmonitored)
    BY <1>4
  <2> HIDE DEF on, more
  <2>5. on.alone => j.alone
    BY <2>2 DEF Continues
  <2>6. Fresh(j, alarms) => Fresh(on, alarms)
    BY <2>2 DEF Continues, Fresh
  <2>7. Sound(j, alarms, reported, Unmonitored) /\ Shape(j) /\ ByTheList(j, alarms, Unmonitored)
    BY SoundJob
  <2>8. ~on.set
    BY <1>2, <2>2, <2>7, NotDecided DEF Deeds, OnMetric, Continues
  <2> HIDE DEF j
  <2>9. ByTheList(on, alarms, Unmonitored)
    BY <1>2, <2>1, <2>2, <2>4, <2>5, <2>6, <2>7, ListGoesOn
  <2>10. Sound(on, alarms, reported, Unmonitored)
    BY <1>2, <2>1, <2>2, <2>7, <2>8, <2>9, PlainOn
  <2> QED  BY <1>1, <2>2, <2>3, <2>10, GoesOn
<1>6. CASE Fails(w, <<>>)
  <2> DEFINE none == <<>>
  <2>1. Adds(none, job[w].draft) /\ Fails(w, none)
    BY <1>3, <1>6
  <2>2. none = <<>> \/ (Len(none) = 1 /\ none[1].do = "clear")
    OBVIOUS
  <2> HIDE DEF none
  <2> QED  BY <1>1, <1>2, <2>1, <2>2, FailsOn
<1>7. CASE Fails(w, DeleteFound)
  <2>1. Adds(DeleteFound, job[w].draft)
    BY <1>3
  <2> QED  BY <1>1, <1>2, <1>4, <1>7, <2>1, FailsOn
<1> QED  BY <1>5, <1>6, <1>7 DEF CleanUp

LEMMA ApplyTyped ==
  ASSUME NEW thr \in [Metrics -> Settings]
  PROVE  Apply(thr, Customer) \in [Metrics -> Settings]
BY JobsAssumption DEF Apply

LEMMA TagsTyped ==
  ASSUME Typed
  PROVE  tags.thr \in [Metrics -> Settings] /\ tags.on \in BOOLEAN /\ alive \in BOOLEAN
BY DEF Typed, TagsType

LEMMA CollectStep ==
  ASSUME Typed, AllSound, NEW w \in Workers, Collect(w)
  PROVE  Typed' /\ AllSound'
<1> DEFINE j == job[w]
           on == Onward(w, <<>>)
           thr == Apply(tags.thr, Customer)
<1>1. Does(w, "collect") /\ World /\ UNCHANGED alarms
  BY DEF Collect
<1>2. Busy(w) /\ Now(w).do = "collect" /\ Now(w) = j.todo[1] /\ j.todo # <<>> /\ j \in JobType
  BY <1>1, DoesFacts
<1>3. <<>> \in Seq(CallType) /\ Adds(<<>>, on.draft)
  BY AddsNone
<1>4. on \in JobType /\ Continues(j, on, <<>>) /\ on.alone = j.alone
  BY <1>2, <1>3, OnwardFacts
<1>5. Sound(j, alarms, reported, Unmonitored) /\ Shape(j) /\ ByTheList(j, alarms, Unmonitored)
  BY SoundJob
<1>6. ~j.set /\ ~on.set
  BY <1>2, <1>4, <1>5, NotDecided DEF Deeds, OnMetric, Continues
<1>7. thr \in [Metrics -> Settings]
  BY TagsTyped, ApplyTyped
<1> HIDE DEF on, thr
<1>8. CASE alive /\ tags.on /\ trouble' = trouble /\ job' = [job EXCEPT ![w] = [on EXCEPT !.thr = thr]]
  <2> DEFINE j1 == [on EXCEPT !.thr = thr]
  <2>1. /\ j1 \in JobType /\ j1.todo = on.todo /\ j1.set = on.set /\ j1.by = on.by /\ j1.draft = on.draft
        /\ j1.index = on.index /\ j1.alone = on.alone
    BY <1>4, <1>7, WithThr
  <2>2. ~Unmonitored
    BY <1>8 DEF Unmonitored
  <2>3. job' = [job EXCEPT ![w] = j1]
    BY <1>8
  <2> HIDE DEF j1, j
  <2>4. /\ j1.alone => j.alone
        /\ j1.alone /\ (Fresh(j, alarms) \/ Unmonitored) => Fresh(j1, alarms)
    BY <1>4, <2>1, <2>2 DEF Fresh, Continues
  <2>5. ByTheList(j1, alarms, Unmonitored)
    BY <1>2, <1>3, <1>4, <1>5, <2>1, <2>4, ListGoesOn
  <2>6. ~(j1.set /\ j1.alone)
    BY <1>6, <2>1
  <2>7. Sound(j1, alarms, reported, Unmonitored)
    BY <1>2, <1>3, <1>4, <1>5, <2>1, <2>5, <2>6, PlainOn
  <2> QED  BY <1>1, <1>8, <2>1, <2>3, <2>7, GoesOn
<1>9. CASE trouble' = trouble /\ job' = [job EXCEPT ![w] = [on EXCEPT !.todo = <<>>]]
  <2> DEFINE j1 == [on EXCEPT !.todo = <<>>]
  <2>1. j1 \in JobType /\ j1.todo = <<>> /\ j1.set = on.set
    BY <1>3, <1>4, WithTodo
  <2>2. job' = [job EXCEPT ![w] = j1]
    BY <1>9
  <2> HIDE DEF j1
  <2>3. Sound(j1, alarms, reported, Unmonitored)
    BY <1>6, <2>1, NoneLeft
  <2> QED  BY <1>1, <1>9, <2>1, <2>2, <2>3, GoesOn
<1>10. CASE /\ trouble < MaxTrouble /\ trouble' = trouble + 1
            /\ job' = [job EXCEPT ![w] = Hurt([job[w] EXCEPT !.todo = <<>>])]
  <2> DEFINE j1 == Hurt([j EXCEPT !.todo = <<>>])
  <2>1. j1 \in JobType /\ j1.todo = <<>> /\ j1.set = j.set
    BY <1>2, <1>3, WithTodo
  <2>2. job' = [job EXCEPT ![w] = j1]
    BY <1>10
  <2> HIDE DEF j1
  <2>3. Sound(j1, alarms, reported, Unmonitored)
    BY <1>6, <2>1, NoneLeft
  <2> QED  BY <1>1, <1>10, <2>1, <2>2, <2>3, GoesOn
<1> QED  BY <1>8, <1>9, <1>10 DEF Collect, on, thr
-----------------------------------------------------------------------------
(* A worker starts.                                                         *)
Simple(todo) ==
  /\ todo \in Seq(CallType)
  /\ \A i \in DOMAIN todo :
       /\ todo[i].do \in {"sync", "create"} => i = Len(todo)
       /\ todo[i].do \notin {"edit", "rewrite"} /\ ~todo[i].strict

LEMMA SimpleNone == Simple(<<>>)
BY DEF Simple

LEMMA SimpleOne ==
  ASSUME NEW a \in CallType, a.do \notin {"edit", "rewrite"}, ~a.strict
  PROVE  Simple(<<a>>)
BY DEF Simple

LEMMA SimpleTwo ==
  ASSUME NEW a \in CallType, NEW b \in CallType, a.do \notin {"sync", "create", "edit", "rewrite"}, ~a.strict,
         b.do \notin {"edit", "rewrite"}, ~b.strict
  PROVE  Simple(<<a, b>>) /\ Simple(<<a>> \o <<b>>)
<1>1. Simple(<<a, b>>)
  BY DEF Simple
<1> DEFINE s == <<a>>
           t == <<b>>
           u == s \o t
<1>2. s \in Seq(CallType) /\ t \in Seq(CallType) /\ Len(s) = 1 /\ Len(t) = 1 /\ s[1] = a /\ t[1] = b
  OBVIOUS
<1> HIDE DEF s, t
<1>3. /\ u \in Seq(CallType) /\ Len(u) = Len(s) + Len(t) /\ DOMAIN s = 1 .. Len(s) /\ DOMAIN t = 1 .. Len(t)
      /\ DOMAIN u = 1 .. Len(s) + Len(t)
      /\ \A i \in DOMAIN u : \/ i \in DOMAIN s /\ u[i] = s[i]
                             \/ i - Len(s) \in DOMAIN t /\ i > Len(s) /\ u[i] = t[i - Len(s)]
  BY <1>2, JoinFacts
<1> HIDE DEF u
<1>4. Len(u) = 2
  BY <1>2, <1>3
<1>5. \A i \in DOMAIN u : u[i] = a \/ (i = 2 /\ u[i] = b)
  BY <1>2, <1>3
<1>6. Simple(u)
  BY <1>3, <1>4, <1>5 DEF Simple
<1> QED  BY <1>1, <1>6 DEF s, t, u

LEMMA SimpleThree ==
  ASSUME NEW a \in CallType, NEW b \in CallType, NEW c \in CallType,
         a.do \notin {"sync", "create", "edit", "rewrite"}, ~a.strict,
         b.do \notin {"sync", "create", "edit", "rewrite"}, ~b.strict,
         c.do \notin {"edit", "rewrite"}, ~c.strict
  PROVE  Simple(<<a, b, c>>)
BY DEF Simple

LEMMA SimpleSound ==
  ASSUME NEW j, Simple(j.todo), ~j.set, j.by # "run", NEW now, NEW rep, NEW off
  PROVE  Sound(j, now, rep, off)
<1>1. Shape(j)
  BY DEF Shape, Simple
<1>2. ~Listing(j)
  <2> SUFFICES ASSUME Listing(j) PROVE FALSE
    OBVIOUS
  <2>1. j.todo \in Seq(CallType)
    BY DEF Simple
  <2>2. Len(j.todo) \in DOMAIN j.todo
    BY <2>1, SeqFacts DEF Listing
  <2> QED  BY <2>2 DEF Listing, Simple
<1>3. ByTheList(j, now, off)
  BY <1>2 DEF ByTheList
<1> QED  BY <1>1, <1>3, PlainSound

Began(todo, by, thr) == [Idle EXCEPT !.todo = todo, !.by = by, !.thr = thr]

Answering(todo, by, thr) == [Idle EXCEPT !.by = by, !.todo = todo, !.thr = thr]

Doubting(todo, by, thr) == [Idle EXCEPT !.by = by, !.todo = todo, !.thr = thr, !.alone = FALSE]

LEMMA Started ==
  ASSUME NEW todo \in Seq(CallType), NEW by \in Starters, NEW thr \in [Metrics -> Settings]
  PROVE  /\ Began(todo, by, thr) \in JobType /\ Began(todo, by, thr).todo = todo
         /\ ~Began(todo, by, thr).set /\ Began(todo, by, thr).by = by
         /\ Answering(todo, by, thr) \in JobType /\ Answering(todo, by, thr).todo = todo
         /\ ~Answering(todo, by, thr).set /\ Answering(todo, by, thr).by = by
         /\ Doubting(todo, by, thr) \in JobType /\ Doubting(todo, by, thr).todo = todo
         /\ ~Doubting(todo, by, thr).set /\ Doubting(todo, by, thr).by = by
<1> DEFINE idle == Idle
<1>1. idle \in JobType /\ ~idle.set
  BY IdleSound DEF Idle
<1>2. /\ Began(todo, by, thr) = [idle EXCEPT !.todo = todo, !.by = by, !.thr = thr]
      /\ Answering(todo, by, thr) = [idle EXCEPT !.by = by, !.todo = todo, !.thr = thr]
      /\ Doubting(todo, by, thr) = [idle EXCEPT !.by = by, !.todo = todo, !.thr = thr, !.alone = FALSE]
  BY DEF Began, Answering, Doubting
<1> HIDE DEF idle
<1> QED  BY <1>1, <1>2 DEF JobType

LEMMA Unset == [m \in Metrics |-> "unset"] \in [Metrics -> Settings]
BY DEF Settings

LEMMA StartRunStep ==
  ASSUME Typed, AllSound, NEW w \in Workers, StartRun(w)
  PROVE  Typed' /\ AllSound'
<1> DEFINE todo == RunPlan(TRUE)
           thr == [m \in Metrics |-> "unset"]
           j1 == Began(todo, "run", thr)
<1>1. World /\ UNCHANGED alarms /\ trouble' = trouble /\ job' = [job EXCEPT ![w] = j1]
  BY DEF StartRun, Starts, Began
<1>2. /\ todo \in Seq(CallType) /\ Len(todo) = 4 /\ DOMAIN todo = 1 .. 4
      /\ todo[1].do = "list" /\ todo[2].do = "orphans" /\ todo[3].do = "collect" /\ todo[4].do = "sync"
  BY RunPlanFacts
<1>3. thr \in [Metrics -> Settings] /\ "run" \in Starters
  BY Unset DEF Starters
<1> HIDE DEF todo, thr
<1>4. j1 \in JobType /\ j1.todo = todo /\ ~j1.set /\ j1.by = "run"
  BY <1>2, <1>3, Started
<1> HIDE DEF j1
<1>5. \A i \in DOMAIN todo : i = 1 \/ i = 2 \/ i = 3 \/ i = 4
  BY <1>2
<1>6. \A i \in DOMAIN todo :
        /\ todo[i].do \in {"sync", "create"} => i = 4
        /\ todo[i].do \notin {"edit", "rewrite", "create"}
  BY <1>2, <1>5
<1>7. Shape(j1)
  BY <1>2, <1>4, <1>6 DEF Shape
<1>8. ByTheList(j1, alarms, Unmonitored)
  BY <1>2, <1>4 DEF ByTheList, InRun
<1>9. ~(j1.set /\ j1.alone)
  BY <1>4
<1>10. Sound(j1, alarms, reported, Unmonitored)
  BY <1>7, <1>8, <1>9, PlainSound
<1> QED  BY <1>1, <1>4, <1>10, GoesOn

LEMMA StartsOn ==
  ASSUME Typed, AllSound, NEW w \in Workers, NEW by \in Starters \ {"run"}, NEW todo, Simple(todo),
         NEW thr \in [Metrics -> Settings], Starts(w, by, todo, thr), World, UNCHANGED <<alarms, trouble>>
  PROVE  Typed' /\ AllSound'
<1> DEFINE j1 == Began(todo, by, thr)
<1>1. job' = [job EXCEPT ![w] = j1] /\ todo \in Seq(CallType) /\ by \in Starters
  BY DEF Starts, Simple, Began
<1>2. j1 \in JobType /\ j1.todo = todo /\ ~j1.set /\ j1.by = by
  BY <1>1, Started
<1> HIDE DEF j1
<1>3. Sound(j1, alarms, reported, Unmonitored)
  BY <1>2, SimpleSound
<1> QED  BY <1>1, <1>2, <1>3, GoesOn

LEMMA SimplePlans ==
  /\ Simple(<<Whole("switch on"), Whole("tags"), Whole("sync")>>)
  /\ Simple(<<Whole("switch on"), Whole("create")>>)
  /\ Simple(<<Whole("switch off")>> \o DeletePlan)
  /\ Simple(DeletePlan) /\ Simple(<<Whole("create")>>) /\ Simple(<<Whole("sync")>>)
  /\ Simple(<<Whole("remedy")>>)
<1>1. \A do \in Asks \cup {"wipe"} : Whole(do) \in CallType /\ Whole(do).do = do /\ ~Whole(do).strict
  BY WholeTyped
<1> DEFINE a == Whole("switch on")
           b == Whole("tags")
           c == Whole("sync")
           d == Whole("create")
           e == Whole("switch off")
           f == Whole("wipe")
           g == Whole("remedy")
<1>2. /\ a \in CallType /\ a.do = "switch on" /\ ~a.strict
      /\ b \in CallType /\ b.do = "tags" /\ ~b.strict
      /\ c \in CallType /\ c.do = "sync" /\ ~c.strict
  BY <1>1 DEF Asks
<1>3. /\ d \in CallType /\ d.do = "create" /\ ~d.strict
      /\ e \in CallType /\ e.do = "switch off" /\ ~e.strict
      /\ f \in CallType /\ f.do = "wipe" /\ ~f.strict
      /\ g \in CallType /\ g.do = "remedy" /\ ~g.strict
  BY <1>1 DEF Asks
<1>4. DeletePlan = <<f>>
  BY DEF DeletePlan
<1> HIDE DEF a, b, c, d, e, f, g
<1>5. Simple(<<a, b, c>>)
  BY <1>2, SimpleThree
<1>6. Simple(<<a, d>>) /\ Simple(<<e>> \o <<f>>)
  BY <1>2, <1>3, SimpleTwo
<1>7. Simple(<<f>>) /\ Simple(<<d>>) /\ Simple(<<c>>) /\ Simple(<<g>>)
  BY <1>2, <1>3, SimpleOne
<1> QED  BY <1>4, <1>5, <1>6, <1>7 DEF a, b, c, d, e, f, g

LEMMA ToggleStep ==
  ASSUME Typed, AllSound, NEW w \in Workers, NEW on \in BOOLEAN, Toggle(w, on)
  PROVE  Typed' /\ AllSound'
<1> DEFINE by == IF on THEN "toggle" ELSE "remove"
           todo == IF on THEN <<Whole("switch on"), Whole("tags"), Whole("sync")>>
                   ELSE <<Whole("switch off")>> \o DeletePlan
<1>1. Starts(w, by, todo, NoTags) /\ World /\ UNCHANGED <<alarms, trouble>>
  BY DEF Toggle
<1>2. Simple(todo) /\ by \in Starters \ {"run"} /\ NoTags \in [Metrics -> Settings]
  BY SimplePlans, Unset DEF Starters, NoTags
<1> HIDE DEF by, todo
<1> QED  BY <1>1, <1>2, StartsOn

LEMMA BulkStep ==
  ASSUME Typed, AllSound, NEW w \in Workers, NEW on \in BOOLEAN, Bulk(w, on)
  PROVE  Typed' /\ AllSound'
<1> DEFINE by == IF on THEN "bulk" ELSE "remove"
           todo == IF on THEN <<Whole("switch on"), Whole("create")>>
                   ELSE <<Whole("switch off")>> \o DeletePlan
<1>1. Starts(w, by, todo, NoTags) /\ World /\ UNCHANGED <<alarms, trouble>>
  BY DEF Bulk
<1>2. Simple(todo) /\ by \in Starters \ {"run"} /\ NoTags \in [Metrics -> Settings]
  BY SimplePlans, Unset DEF Starters, NoTags
<1> HIDE DEF by, todo
<1> QED  BY <1>1, <1>2, StartsOn

LEMMA AnswerFacts ==
  ASSUME NEW e \in EventKinds, NEW on \in BOOLEAN
  PROVE  Answer(e, on)[1] \in {"remove", "event"} /\ Simple(Answer(e, on)[2])
<1>1. ASSUME NEW by \in {"remove", "event"}, NEW todo, Simple(todo), Answer(e, on) = <<by, todo>>
      PROVE  Answer(e, on)[1] \in {"remove", "event"} /\ Simple(Answer(e, on)[2])
  BY <1>1
<1>2. Simple(DeletePlan) /\ Simple(<<>>)
  BY SimplePlans, SimpleNone
<1>3. Simple(<<Whole("create")>>) /\ Simple(<<Whole("sync")>>) /\ Simple(<<Whole("remedy")>>)
  BY SimplePlans
<1>4. CASE e \in {"deleted", "switched off"}
  <2>1. Answer(e, on) = <<"remove", DeletePlan>>
    BY <1>4 DEF Answer, TagAnswer, TagEvents, Removal
  <2> QED  BY <1>1, <1>2, <2>1
<1>5. CASE e \in {"created", "modified", "retagged"} /\ ~on
  <2>1. Answer(e, on) = <<"event", <<>>>>
    <3>1. CASE e = "created"
      BY <1>5, <3>1 DEF Answer, CreateAnswer, TagEvents
    <3>2. CASE e = "modified"
      BY <1>5, <3>2 DEF Answer, ModifyAnswer, TagEvents
    <3>3. CASE e = "retagged"
      BY <1>5, <3>3 DEF Answer, TagAnswer, TagEvents
    <3> QED  BY <1>5, <3>1, <3>2, <3>3
  <2> QED  BY <1>1, <1>2, <2>1
<1>6. CASE (e = "created" /\ on) \/ e = "switched on"
  <2>1. Answer(e, on) = <<"event", <<Whole("create")>>>>
    <3>1. CASE e = "created" /\ on
      BY <3>1 DEF Answer, CreateAnswer, TagEvents
    <3>2. CASE e = "switched on"
      BY <3>2 DEF Answer, TagAnswer, TagEvents
    <3> QED  BY <1>6, <3>1, <3>2
  <2> QED  BY <1>1, <1>3, <2>1
<1>7. CASE e = "modified" /\ on
  <2>1. Answer(e, on) = <<"event", <<Whole("remedy")>>>>
    BY <1>7 DEF Answer, ModifyAnswer, TagEvents
  <2> QED  BY <1>1, <1>3, <2>1
<1>8. CASE e = "retagged" /\ on
  <2>1. Answer(e, on) = <<"event", <<Whole("sync")>>>>
    BY <1>8 DEF Answer, TagAnswer, TagEvents
  <2> QED  BY <1>1, <1>3, <2>1
<1> QED  BY <1>4, <1>5, <1>6, <1>7, <1>8 DEF EventKinds

LEMMA TakeEventStep ==
  ASSUME Typed, AllSound, NEW w \in Workers, NEW e \in events, NEW again \in BOOLEAN, TakeEvent(w, e, again)
  PROVE  Typed' /\ AllSound'
<1>1. /\ e \in EventKinds /\ events' \subseteq EventKinds /\ alarms' = alarms /\ alive' = alive
      /\ tags' = tags /\ reported' = reported
  BY DEF TakeEvent, Typed
<1>2. tags.on \in BOOLEAN /\ (alive /\ tags.on) \in BOOLEAN /\ TagsRead \in [Metrics -> Settings]
      /\ Bare \in [Metrics -> Settings]
  BY TagsTyped, Unset DEF TagsRead, Bare
<1>3. ASSUME NEW j1 \in JobType, Simple(j1.todo), ~j1.set, j1.by # "run", job' = [job EXCEPT ![w] = j1],
             trouble' \in 0 .. MaxTrouble
      PROVE  Typed' /\ AllSound'
  <2>1. Sound(j1, alarms', reported', Unmonitored')
    BY <1>3, SimpleSound
  <2>2. Unmonitored' = Unmonitored
    BY <1>1 DEF Unmonitored
  <2>3. job' \in [Workers -> JobType] /\ AllSound'
    BY <1>1, <1>3, <2>1, <2>2, WorkerGoes
  <2>4. Typed'
    BY <1>1, <1>3, <2>3 DEF Typed
  <2> QED  BY <2>3, <2>4
<1>4. CASE /\ job' = [job EXCEPT ![w] = [Idle EXCEPT !.by = Answer(e, tags.on)[1],
                        !.todo = Answer(e, alive /\ tags.on)[2], !.thr = TagsRead]]
           /\ trouble' = (IF again THEN trouble + 1 ELSE trouble) /\ (again => trouble < MaxTrouble)
  <2> DEFINE by == Answer(e, tags.on)[1]
             todo == Answer(e, alive /\ tags.on)[2]
             j1 == Answering(todo, by, TagsRead)
  <2>1. by \in {"remove", "event"}
    BY <1>1, <1>2, AnswerFacts
  <2>2. Simple(todo)
    BY <1>1, <1>2, AnswerFacts
  <2>3. job' = [job EXCEPT ![w] = j1]
    BY <1>4 DEF Answering
  <2> HIDE DEF by, todo
  <2>4. by \in Starters /\ todo \in Seq(CallType) /\ by # "run"
    BY <2>1, <2>2 DEF Starters, Simple
  <2>5. j1 \in JobType /\ j1.todo = todo /\ ~j1.set /\ j1.by = by
    BY <1>2, <2>4, Started
  <2> HIDE DEF j1
  <2>6. trouble' \in 0 .. MaxTrouble
    BY <1>4, TroubleBound
  <2> QED  BY <1>3, <2>2, <2>3, <2>4, <2>5, <2>6
<1>5. CASE /\ trouble < MaxTrouble /\ trouble' = trouble + 1
           /\ job' = [job EXCEPT ![w] = [Idle EXCEPT !.by = Answer(e, FALSE)[1], !.todo = Answer(e, FALSE)[2],
                        !.thr = Bare, !.alone = FALSE]]
  <2> DEFINE by == Answer(e, FALSE)[1]
             todo == Answer(e, FALSE)[2]
             j1 == Doubting(todo, by, Bare)
  <2>1. by \in {"remove", "event"} /\ Simple(todo)
    BY <1>1, AnswerFacts
  <2>3. job' = [job EXCEPT ![w] = j1]
    BY <1>5 DEF Doubting
  <2> HIDE DEF by, todo
  <2>4. by \in Starters /\ todo \in Seq(CallType) /\ by # "run"
    BY <2>1 DEF Starters, Simple
  <2>5. j1 \in JobType /\ j1.todo = todo /\ ~j1.set /\ j1.by = by
    BY <1>2, <2>4, Started
  <2> HIDE DEF j1
  <2>6. trouble' \in 0 .. MaxTrouble
    BY <1>5, TroubleBound
  <2> QED  BY <1>3, <2>1, <2>3, <2>4, <2>5, <2>6
<1> QED  BY <1>4, <1>5 DEF TakeEvent
-----------------------------------------------------------------------------
(* The console's calls and the remedy: none of them follows a decision.     *)
LEMMA AskOn ==
  ASSUME Typed, AllSound, NEW w \in Workers, Busy(w), Now(w).do \notin Deeds \cup {"list", "orphans", "collect"}
  PROVE  LET on == Onward(w, <<>>)
         IN /\ on \in JobType /\ Hurt(on) \in JobType
            /\ \A j1, now, rep, off :
                 j1.todo = on.todo /\ j1.set = on.set /\ j1.by = on.by /\ j1.draft = on.draft =>
                   Sound(j1, now, rep, off)
<1> DEFINE j == job[w]
           on == Onward(w, <<>>)
<1>1. <<>> \in Seq(CallType) /\ Adds(<<>>, on.draft)
  BY AddsNone
<1>2. /\ j \in JobType /\ j.todo # <<>> /\ Now(w) = j.todo[1]
      /\ on \in JobType /\ Continues(j, on, <<>>) /\ Hurt(on) \in JobType
  BY <1>1, OnwardFacts
<1>3. Sound(j, alarms, reported, Unmonitored) /\ Shape(j) /\ ByTheList(j, alarms, Unmonitored)
  BY SoundJob
<1>4. ~j.set
  BY <1>2, <1>3, NotDecided
<1>5. j.todo[1].do \notin {"list", "orphans", "collect", "clear"}
  BY <1>2 DEF Deeds
<1>6. ~on.set
  BY <1>2, <1>4 DEF Continues
<1> HIDE DEF j, on
<1>7. ASSUME NEW j1, NEW now, NEW rep, NEW off,
             j1.todo = on.todo, j1.set = on.set, j1.by = on.by, j1.draft = on.draft
      PROVE  Sound(j1, now, rep, off)
  <2>1. ByTheList(j1, now, off)
    BY <1>1, <1>2, <1>3, <1>5, <1>7, ListGoesOn
  <2>2. ~(j1.set /\ j1.alone)
    BY <1>6, <1>7
  <2> QED  BY <1>1, <1>2, <1>3, <1>7, <2>1, <2>2, PlainOn
<1> QED  BY <1>2, <1>7 DEF on

LEMMA GivesUp ==
  ASSUME Typed, AllSound, NEW w \in Workers, World, UNCHANGED alarms, job' = [job EXCEPT ![w] = Idle],
         trouble' = trouble \/ (trouble < MaxTrouble /\ trouble' = trouble + 1)
  PROVE  Typed' /\ AllSound'
<1>1. Idle \in JobType /\ Sound(Idle, alarms, reported, Unmonitored)
  BY IdleSound
<1> QED  BY <1>1, GoesOn

LEMMA RefusedStep ==
  ASSUME Typed, AllSound, NEW w \in Workers, Refused(w)
  PROVE  Typed' /\ AllSound'
BY GivesUp DEF Refused

LEMMA SwitchStep ==
  ASSUME Typed, AllSound, NEW w \in Workers, Switch(w)
  PROVE  Typed' /\ AllSound'
<1> DEFINE on == Onward(w, <<>>)
           switch == Now(w).do = "switch on"
<1>1. PICK do \in {"switch on", "switch off"} : Does(w, do)
  BY DEF Switch
<1>2. Busy(w) /\ Now(w).do \in {"switch on", "switch off"}
  BY <1>1, DoesFacts
<1>3. /\ alarms' = alarms /\ alive' = alive /\ reported' = reported
      /\ Distinct(alarms) /\ events \subseteq EventKinds
  BY DEF Switch, Typed
<1>4. CASE /\ tags' = [tags EXCEPT !.on = switch]
           /\ events' = events \cup {IF switch THEN "switched on" ELSE "switched off"}
           /\ job' = Moved(w, on) /\ trouble' = trouble
  <2>1. Now(w).do \notin Deeds \cup {"list", "orphans", "collect"}
    BY <1>2 DEF Deeds, OnMetric
  <2>2. on \in JobType /\ Sound(on, alarms', reported', Unmonitored')
    BY <1>2, <2>1, AskOn
  <2> HIDE DEF on
  <2>3. job' \in [Workers -> JobType] /\ AllSound'
    BY <1>4, <2>2, WorkerMoves
  <2>4. tags' \in TagsType
    BY <1>4 DEF Typed, TagsType
  <2>5. events' \subseteq EventKinds
    BY <1>3, <1>4 DEF EventKinds
  <2> QED  BY <1>3, <1>4, <2>3, <2>4, <2>5 DEF Typed
<1>5. CASE /\ tags' = tags /\ events' = events /\ job' = [job EXCEPT ![w] = Idle]
           /\ trouble' = trouble \/ (trouble < MaxTrouble /\ trouble' = trouble + 1)
  BY <1>3, <1>5, GivesUp DEF World
<1> QED  BY <1>4, <1>5 DEF Switch, on, switch

LEMMA ReadTagsStep ==
  ASSUME Typed, AllSound, NEW w \in Workers, ReadTags(w)
  PROVE  Typed' /\ AllSound'
<1> DEFINE on == Onward(w, <<>>)
           read == Apply(tags.thr, Customer)
           none == Apply(NoTags, Customer)
           j1 == [on EXCEPT !.thr = read]
           j2 == Hurt([on EXCEPT !.thr = none])
<1>1. Does(w, "tags") /\ World /\ UNCHANGED alarms
  BY DEF ReadTags
<1>2. Busy(w) /\ Now(w).do = "tags"
  BY <1>1, DoesFacts
<1>3. Now(w).do \notin Deeds \cup {"list", "orphans", "collect"}
  BY <1>2 DEF Deeds, OnMetric
<1>4. NoTags \in [Metrics -> Settings]
  BY Unset DEF NoTags
<1>5. read \in [Metrics -> Settings] /\ none \in [Metrics -> Settings]
  BY <1>4, TagsTyped, ApplyTyped
<1>6. on \in JobType
  BY <1>2, <1>3, AskOn
<1>7. \/ job' = [job EXCEPT ![w] = j1] /\ trouble' = trouble
      \/ job' = [job EXCEPT ![w] = j2] /\ trouble < MaxTrouble /\ trouble' = trouble + 1
  BY DEF ReadTags
<1> HIDE DEF read, none
<1>8. /\ j1 \in JobType /\ j1.todo = on.todo /\ j1.set = on.set /\ j1.by = on.by /\ j1.draft = on.draft
      /\ j2 \in JobType /\ j2.todo = on.todo /\ j2.set = on.set /\ j2.by = on.by /\ j2.draft = on.draft
  <2> HIDE DEF on
  <2> QED  BY <1>5, <1>6, WithThr
<1> HIDE DEF j1, j2
<1>9. Sound(j1, alarms, reported, Unmonitored) /\ Sound(j2, alarms, reported, Unmonitored)
  BY <1>2, <1>3, <1>8, AskOn
<1> QED  BY <1>1, <1>7, <1>8, <1>9, GoesOn

LEMMA EditPutStep ==
  ASSUME Typed, AllSound, NEW w \in Workers, EditPut(w)
  PROVE  Typed' /\ AllSound'
<1> DEFINE new == CHOOSE d \in job[w].draft : TRUE
           on == Onward(w, <<>>)
<1>1. /\ Does(w, "edit")
      /\ \/ /\ \/ alarms' = Overwrite(alarms, new)
               \/ alarms' = Without(alarms, {NameOf(new)}) \cup {new}
            /\ job' = Moved(w, on) /\ World
            /\ trouble' = trouble \/ (trouble < MaxTrouble /\ trouble' = trouble + 1)
         \/ Refused(w)
  BY DEF EditPut
<1>2. Busy(w) /\ Now(w).do = "edit" /\ Now(w) = job[w].todo[1] /\ job[w].todo # <<>> /\ job[w] \in JobType
  BY <1>1, DoesFacts
<1>3. Now(w).do \notin Deeds \cup {"list", "orphans", "collect"}
  BY <1>2 DEF Deeds, OnMetric
<1>4. new \in AlarmType
  <2>1. Shape(job[w]) /\ 1 \in DOMAIN job[w].todo
    BY <1>2, SoundJob, JobFields, TailFacts
  <2>2. job[w].draft # {} /\ job[w].draft \subseteq AlarmType
    BY <1>2, <2>1, JobFields DEF Shape
  <2> QED  BY <2>2
<1>5. Distinct(alarms)
  BY DEF Typed
<1>6. on \in JobType /\ Sound(on, alarms', reported, Unmonitored)
  BY <1>2, <1>3, AskOn
<1> HIDE DEF new, on
<1>7. Distinct(Overwrite(alarms, new)) /\ Distinct(Without(alarms, {NameOf(new)}) \cup {new})
  BY <1>4, <1>5, OverwriteDistinct, PutNew
<1>8. CASE /\ \/ alarms' = Overwrite(alarms, new)
              \/ alarms' = Without(alarms, {NameOf(new)}) \cup {new}
           /\ job' = Moved(w, on) /\ World
           /\ trouble' = trouble \/ (trouble < MaxTrouble /\ trouble' = trouble + 1)
  <2>1. Distinct(alarms')
    BY <1>7, <1>8
  <2> QED  BY <1>6, <1>8, <2>1, MovesOn
<1>9. CASE Refused(w)
  BY <1>9, RefusedStep
<1> QED  BY <1>1, <1>8, <1>9

LEMMA EditDropStep ==
  ASSUME Typed, AllSound, NEW w \in Workers, EditDrop(w)
  PROVE  Typed' /\ AllSound'
<1> DEFINE on == Onward(w, <<>>)
           names == Now(w).names
<1>1. Does(w, "drop")
  BY DEF EditDrop
<1>2. Busy(w) /\ Now(w).do = "drop"
  BY <1>1, DoesFacts
<1>3. Now(w).do \notin Deeds \cup {"list", "orphans", "collect"}
  BY <1>2 DEF Deeds, OnMetric
<1>4. on \in JobType /\ Sound(on, alarms', reported, Unmonitored)
  BY <1>2, <1>3, AskOn
<1>5. CASE /\ alarms' = Without(alarms, names) /\ job' = Moved(w, on) /\ World /\ trouble' = trouble
  <2> HIDE DEF on, names
  <2>1. Distinct(alarms')
    BY <1>5, WithoutDistinct DEF Typed
  <2> QED  BY <1>4, <1>5, <2>1, MovesOn
<1>6. CASE Refused(w)
  BY <1>6, RefusedStep
<1> QED  BY <1>5, <1>6 DEF EditDrop, on, names

LEMMA EditFollowStep ==
  ASSUME Typed, AllSound, NEW w \in Workers, EditFollow(w)
  PROVE  Typed' /\ AllSound'
<1> DEFINE on == Onward(w, <<>>)
           m == Now(w).metric
           thr == job[w].thr
<1>1. Does(w, "follow")
  BY DEF EditFollow
<1>2. Busy(w) /\ Now(w).do = "follow" /\ Now(w) \in CallType /\ job[w] \in JobType
  BY <1>1, DoesFacts
<1>3. Now(w).do \notin Deeds \cup {"list", "orphans", "collect"}
  BY <1>2 DEF Deeds, OnMetric
<1>4. m \in Metrics /\ thr \in [Metrics -> Settings] /\ tags \in TagsType
  BY <1>2, JobFields DEF CallType, Edits, Typed
<1>5. on \in JobType /\ Sound(on, alarms', reported', Unmonitored')
  BY <1>2, <1>3, AskOn
<1> HIDE DEF on, m, thr
<1>6. CASE /\ tags' = [tags EXCEPT !.thr[m] = thr[m]] /\ events' = events \cup {"retagged"}
           /\ job' = [job EXCEPT ![w] = on] /\ UNCHANGED <<alarms, alive, reported, trouble>>
  <2>1. tags' \in TagsType /\ tags'.on = tags.on
    BY <1>4, <1>6 DEF TagsType
  <2>2. Unmonitored' = Unmonitored
    BY <1>6, <2>1 DEF Unmonitored
  <2>3. job' \in [Workers -> JobType] /\ AllSound'
    BY <1>5, <1>6, <2>2, WorkerGoes
  <2>4. events' \subseteq EventKinds
    BY <1>6 DEF Typed, EventKinds
  <2> QED  BY <1>6, <2>1, <2>3, <2>4 DEF Typed
<1>7. CASE job' = [job EXCEPT ![w] = Idle] /\ World /\ UNCHANGED <<alarms, trouble>>
  BY <1>7, GivesUp
<1>8. CASE Refused(w)
  BY <1>8, RefusedStep
<1> QED  BY <1>6, <1>7, <1>8 DEF EditFollow, on, m, thr

LEMMA RemedyStep ==
  ASSUME Typed, AllSound, NEW w \in Workers, Remedy(w)
  PROVE  Typed' /\ AllSound'
<1> DEFINE on == Onward(w, <<>>)
<1>1. Does(w, "remedy")
  BY DEF Remedy
<1>2. Busy(w) /\ Now(w).do = "remedy"
  BY <1>1, DoesFacts
<1>3. Now(w).do \notin Deeds \cup {"list", "orphans", "collect"}
  BY <1>2 DEF Deeds, OnMetric
<1>4. on \in JobType /\ Sound(on, alarms', reported', Unmonitored')
  BY <1>2, <1>3, AskOn
<1> HIDE DEF on
<1>5. CASE /\ alive' = (alive /\ ~Deletes)
           /\ events' = IF Deletes /\ alive THEN events \cup {"deleted"} ELSE events
           /\ job' = [job EXCEPT ![w] = on] /\ UNCHANGED <<alarms, tags, reported, trouble>>
  <2>1. alive' \in BOOLEAN
    BY <1>5
  <2>2. alive' => alive
    BY <1>5
  <2>3. Unmonitored => Unmonitored'
    BY <1>5, <2>2 DEF Unmonitored
  <2>4. job' \in [Workers -> JobType] /\ AllSound'
    BY <1>4, <1>5, <2>3, WorkerGoes
  <2>5. events' \subseteq EventKinds
    BY <1>5 DEF Typed, EventKinds
  <2> QED  BY <1>5, <2>1, <2>4, <2>5 DEF Typed
<1>6. CASE Fails(w, <<>>) /\ World /\ UNCHANGED alarms
  <2>1. Adds(<<>>, job[w].draft)
    BY AddsNone
  <2>2. Now(w).do \notin {"list", "clear", "collect", "orphans"}
    BY <1>2
  <2> QED  BY <1>2, <1>6, <2>1, <2>2, FailsOn
<1> QED  BY <1>5, <1>6 DEF Remedy, on
-----------------------------------------------------------------------------
(* An edit and an alarm that is added.                                      *)
Editing(todo, thr, draft) == [Idle EXCEPT !.by = "edit", !.thr = thr, !.draft = draft, !.todo = todo]

LEMMA EditingTyped ==
  ASSUME NEW todo \in Seq(CallType), NEW thr \in [Metrics -> Settings], NEW draft, draft \subseteq AlarmType
  PROVE  LET j1 == Editing(todo, thr, draft)
         IN j1 \in JobType /\ j1.todo = todo /\ j1.draft = draft /\ ~j1.set /\ j1.by = "edit"
<1>1. Idle \in JobType /\ ~Idle.set
  BY IdleSound DEF Idle
<1> QED  BY <1>1 DEF Editing, JobType, Starters

EditCalls(t) ==
  /\ t \in Seq(CallType)
  /\ \A i \in DOMAIN t : t[i].do \in Edits /\ (t[i].do = "edit" => i = 1)

LEMMA EditCallsJoin ==
  ASSUME NEW s, NEW t, EditCalls(s), t \in Seq(CallType),
         \A i \in DOMAIN t : t[i].do \in Edits \ {"edit"}
  PROVE  EditCalls(s \o t)
<1> DEFINE u == s \o t
<1>1. s \in Seq(CallType)
  BY DEF EditCalls
<1>2. /\ u \in Seq(CallType)
      /\ \A i \in DOMAIN u : \/ i \in DOMAIN s /\ u[i] = s[i]
                             \/ i - Len(s) \in DOMAIN t /\ i > Len(s) /\ u[i] = t[i - Len(s)]
  BY <1>1, JoinFacts
<1> HIDE DEF u
<1>3. EditCalls(u)
  BY <1>2 DEF EditCalls
<1> QED  BY <1>3 DEF u

LEMMA EditingSound ==
  ASSUME NEW j, EditCalls(j.todo), j.draft # {}, ~j.set, j.by = "edit", NEW now, NEW rep, NEW off
  PROVE  Sound(j, now, rep, off)
<1>1. Shape(j)
  BY DEF Shape, EditCalls, Edits
<1>2. ~Listing(j)
  <2>1. j.todo \in Seq(CallType)
    BY DEF EditCalls
  <2>2. Len(j.todo) > 0 => Len(j.todo) \in DOMAIN j.todo
    BY <2>1, SeqFacts
  <2> QED  BY <2>2 DEF Listing, EditCalls, Edits
<1> QED  BY <1>1, <1>2, PlainSound DEF ByTheList

LEMMA EditCall ==
  ASSUME NEW do \in Edits, NEW m \in Metrics, NEW names \in SUBSET (Metrics \X Thresholds)
  PROVE  LET s == <<Call(do, m, names)>>
         IN s \in Seq(CallType) /\ \A i \in DOMAIN s : i = 1 /\ s[i].do = do
<1> DEFINE c == Call(do, m, names)
<1>1. c \in CallType /\ c.do = do
  BY DEF Call, CallType
<1> HIDE DEF c
<1>2. <<c>> \in Seq(CallType) /\ \A i \in DOMAIN <<c>> : i = 1 /\ <<c>>[i].do = do
  BY <1>1
<1> QED  BY <1>2 DEF c

LEMMA EditStep ==
  ASSUME Typed, AllSound, NEW w \in Workers, NEW a \in alarms, NEW t \in Thresholds,
         NEW s \in {"none", "chosen"}, Edit(w, a, t, s)
  PROVE  Typed' /\ AllSound'
<1> DEFINE put == <<Call("edit", a.metric, {})>>
           drop == IF t = a.threshold THEN <<>> ELSE <<Call("drop", a.metric, {NameOf(a)})>>
           follow == IF Follows THEN <<Call("follow", a.metric, {})>> ELSE <<>>
           todo == put \o drop \o follow
           thr == [NoTags EXCEPT ![a.metric] = t]
           draft == {Edited(a, t, s)}
           j1 == Editing(todo, thr, draft)
<1>1. a \in AlarmType /\ a.metric \in Metrics /\ NameOf(a) \in Metrics \X Thresholds
  BY DEF Typed, Distinct, AlarmType, NameOf
<1>2. {} \in SUBSET (Metrics \X Thresholds) /\ {NameOf(a)} \in SUBSET (Metrics \X Thresholds)
  BY <1>1
<1>3. {"edit", "drop", "follow"} \subseteq Edits
  BY DEF Edits
<1>4. EditCalls(put)
  BY <1>1, <1>2, <1>3, EditCall DEF EditCalls
<1>5. <<>> \in Seq(CallType) /\ \A i \in DOMAIN <<>> : <<>>[i].do \in Edits \ {"edit"}
  OBVIOUS
<1>6. drop \in Seq(CallType) /\ \A i \in DOMAIN drop : drop[i].do \in Edits \ {"edit"}
  <2>1. CASE t = a.threshold
    BY <1>5, <2>1
  <2>2. CASE t # a.threshold
    BY <1>1, <1>2, <1>3, <2>2, EditCall
  <2> QED  BY <2>1, <2>2
<1>7. follow \in Seq(CallType) /\ \A i \in DOMAIN follow : follow[i].do \in Edits \ {"edit"}
  <2>1. CASE ~Follows
    BY <1>5, <2>1
  <2>2. CASE Follows
    BY <1>1, <1>2, <1>3, <2>2, EditCall
  <2> QED  BY <2>1, <2>2
<1>8. thr \in [Metrics -> Settings]
  BY <1>1, Unset DEF NoTags, Settings
<1>9. draft \subseteq AlarmType /\ draft # {}
  BY <1>1 DEF Edited, AlarmType, Severities
<1>10. job' = [job EXCEPT ![w] = j1]
  BY DEF Edit, Editing
<1> HIDE DEF put, drop, follow
<1>11. EditCalls(todo)
  BY <1>4, <1>6, <1>7, EditCallsJoin
<1>12. todo \in Seq(CallType)
  BY <1>11 DEF EditCalls
<1> HIDE DEF todo, thr, draft
<1>13. j1 \in JobType /\ j1.todo = todo /\ j1.draft = draft /\ ~j1.set /\ j1.by = "edit"
  BY <1>8, <1>9, <1>12, EditingTyped
<1> HIDE DEF j1
<1>14. Sound(j1, alarms, reported, Unmonitored)
  BY <1>9, <1>11, <1>13, EditingSound
<1> QED  BY <1>10, <1>13, <1>14, GoesOn DEF Edit

LEMMA GroundStep ==
  ASSUME Typed, AllSound, job' = [v \in Workers |-> IF job[v] # Idle THEN Hurt(job[v]) ELSE job[v]]
  PROVE  job' \in [Workers -> JobType] /\ AllSound'
<1>1. DOMAIN job' = Workers /\ job' = [v \in Workers |-> job'[v]]
  OBVIOUS
<1>2. ASSUME NEW v \in Workers PROVE job'[v] = Hurt(job[v]) \/ job'[v] = Idle
  OBVIOUS
<1> QED  BY <1>1, <1>2, GroundMoves

LEMMA AddStep ==
  ASSUME Typed, AllSound, NEW w \in Workers, NEW m \in Metrics, NEW t \in Thresholds, Add(w, m, t)
  PROVE  Typed' /\ AllSound'
<1> DEFINE n == [metric |-> m, threshold |-> t, sound |-> {"rest"}, tag |-> "chosen", told |-> "chosen"]
<1>1. n \in AlarmType
  BY DEF AlarmType, Severities, Parts
<1>2. alarms' = Overwrite(alarms, n) /\ World /\ trouble' = trouble
  BY DEF Add
<1> HIDE DEF n
<1>3. Distinct(alarms')
  BY <1>1, <1>2, OverwriteDistinct DEF Typed
<1>4. job' = [v \in Workers |-> IF job[v] # Idle THEN Hurt(job[v]) ELSE job[v]]
  BY DEF Add, Hurt
<1>5. job' \in [Workers -> JobType] /\ AllSound'
  BY <1>4, GroundStep
<1>6. trouble' \in 0 .. MaxTrouble
  BY <1>2 DEF Typed
<1> QED  BY <1>2, <1>3, <1>5, <1>6, StillTyped
-----------------------------------------------------------------------------
(* The world.                                                               *)
LEMMA ToldTyped ==
  ASSUME Typed, NEW e, Told(e)
  PROVE  events' \subseteq EventKinds
BY DEF Typed, Told

(* A step that moves no worker's ground but takes the resource away.        *)
LEMMA SameJobs ==
  ASSUME Typed, AllSound, job' = job, alarms' = alarms, reported' = reported, Unmonitored => Unmonitored'
  PROVE  AllSound'
<1>1. ASSUME NEW w \in Workers PROVE Sound(job'[w], alarms', reported', Unmonitored')
  <2>1. Sound(job[w], alarms, reported, Unmonitored)
    BY SoundJob
  <2>2. Sound(job[w], alarms, reported, Unmonitored')
    BY <2>1, SameGround
  <2> QED  BY <2>2
<1> QED  BY <1>1 DEF AllSound

LEMMA CustomerSwitchesStep ==
  ASSUME Typed, AllSound, CustomerSwitches
  PROVE  Typed' /\ AllSound'
<1>1. /\ tags' = [tags EXCEPT !.on = ~@] /\ Told(IF tags.on THEN "switched off" ELSE "switched on")
      /\ UNCHANGED <<alarms, alive, reported, trouble>>
  BY DEF CustomerSwitches, Change
<1>2. job' = [v \in Workers |-> IF job[v] # Idle THEN Hurt(job[v]) ELSE job[v]]
  BY DEF CustomerSwitches, Ground
<1>3. job' \in [Workers -> JobType] /\ AllSound'
  BY <1>2, GroundStep
<1>4. tags' \in TagsType
  BY <1>1 DEF Typed, TagsType
<1>5. events' \subseteq EventKinds
  BY <1>1, ToldTyped
<1> QED  BY <1>1, <1>3, <1>4, <1>5 DEF Typed

LEMMA CustomerRetagsStep ==
  ASSUME Typed, AllSound, CustomerRetags
  PROVE  Typed' /\ AllSound'
<1>1. Told("retagged") /\ UNCHANGED <<alarms, alive, reported, job, trouble>>
  BY DEF CustomerRetags, Change
<1>2. PICK r \in Retaggings : tags' = [tags EXCEPT !.thr[r[1]] = r[2]]
  BY DEF CustomerRetags
<1>3. r[1] \in Metrics /\ r[2] \in Settings
  BY <1>2, ResourceAssumption
<1>4. tags' \in TagsType /\ tags'.on = tags.on
  BY <1>2, <1>3 DEF Typed, TagsType
<1>5. Unmonitored' = Unmonitored
  BY <1>1, <1>4 DEF Unmonitored
<1>6. AllSound' /\ events' \subseteq EventKinds
  BY <1>1, <1>5, SameJobs, ToldTyped
<1> QED  BY <1>1, <1>4, <1>6 DEF Typed

LEMMA CustomerRemovesStep ==
  ASSUME Typed, AllSound, CustomerRemoves
  PROVE  Typed' /\ AllSound'
<1>1. Told("deleted") /\ ~alive' /\ alive' = FALSE /\ UNCHANGED <<alarms, tags, reported, job, trouble>>
  BY DEF CustomerRemoves, Change
<1>2. Unmonitored => Unmonitored'
  BY <1>1 DEF Unmonitored
<1>3. AllSound' /\ events' \subseteq EventKinds
  BY <1>1, <1>2, SameJobs, ToldTyped
<1> QED  BY <1>1, <1>3 DEF Typed

LEMMA CustomerModifiesStep ==
  ASSUME Typed, AllSound, CustomerModifies
  PROVE  Typed' /\ AllSound'
<1>1. Told("modified") /\ UNCHANGED <<alarms, alive, tags, reported, job, trouble>>
  BY DEF CustomerModifies, Change
<1>2. Unmonitored => Unmonitored'
  BY <1>1 DEF Unmonitored
<1>3. AllSound' /\ events' \subseteq EventKinds
  BY <1>1, <1>2, SameJobs, ToldTyped
<1> QED  BY <1>1, <1>3 DEF Typed

LEMMA ReportsStep ==
  ASSUME Typed, AllSound, Reports
  PROVE  Typed' /\ AllSound'
<1>1. UNCHANGED <<alarms, alive, tags, events, trouble>>
  BY DEF Reports, Change
<1>2. job' = [v \in Workers |-> IF job[v] # Idle THEN Hurt(job[v]) ELSE job[v]]
  BY DEF Reports, Ground
<1>3. job' \in [Workers -> JobType] /\ AllSound'
  BY <1>2, GroundStep
<1>4. reported' \subseteq Disks \cup Dynamic
  BY DEF Reports, Typed
<1> QED  BY <1>1, <1>3, <1>4 DEF Typed

LEMMA UnsoundDistinct ==
  ASSUME NEW now, Distinct(now), NEW part
  PROVE  Distinct({[a EXCEPT !.sound = @ \ {part}] : a \in now})
<1> DEFINE unsound == {[a EXCEPT !.sound = @ \ {part}] : a \in now}
<1>1. \A a \in now : /\ [a EXCEPT !.sound = @ \ {part}] \in AlarmType
                     /\ NameOf([a EXCEPT !.sound = @ \ {part}]) = NameOf(a)
  BY DEF Distinct, AlarmType, NameOf
<1>2. \A a, b \in now : NameOf(a) = NameOf(b) => a = b
  BY DEF Distinct
<1>3. ASSUME NEW x \in unsound, NEW y \in unsound, NameOf(x) = NameOf(y) PROVE x = y
  <2>1. PICK a \in now : x = [a EXCEPT !.sound = @ \ {part}]
    OBVIOUS
  <2>2. PICK b \in now : y = [b EXCEPT !.sound = @ \ {part}]
    OBVIOUS
  <2>3. a = b
    BY <1>1, <1>2, <1>3, <2>1, <2>2
  <2> QED  BY <2>1, <2>2, <2>3
<1> QED  BY <1>1, <1>3 DEF Distinct

LEMMA UntoldDistinct ==
  ASSUME NEW now, Distinct(now)
  PROVE  Distinct({[a EXCEPT !.told = "none"] : a \in now})
<1> DEFINE untold == {[a EXCEPT !.told = "none"] : a \in now}
<1>1. \A a \in now : /\ [a EXCEPT !.told = "none"] \in AlarmType
                     /\ NameOf([a EXCEPT !.told = "none"]) = NameOf(a)
  BY DEF Distinct, AlarmType, NameOf
<1>2. \A a, b \in now : NameOf(a) = NameOf(b) => a = b
  BY DEF Distinct
<1>3. ASSUME NEW x \in untold, NEW y \in untold, NameOf(x) = NameOf(y) PROVE x = y
  <2>1. PICK a \in now : x = [a EXCEPT !.told = "none"]
    OBVIOUS
  <2>2. PICK b \in now : y = [b EXCEPT !.told = "none"]
    OBVIOUS
  <2>3. a = b
    BY <1>1, <1>2, <1>3, <2>1, <2>2
  <2> QED  BY <2>1, <2>2, <2>3
<1> QED  BY <1>1, <1>3 DEF Distinct

LEMMA RedefinedStep ==
  ASSUME Typed, AllSound, Redefined
  PROVE  Typed' /\ AllSound'
<1>1. UNCHANGED <<alive, tags, reported, events, trouble>>
  BY DEF Redefined, Change
<1>2. job' = [v \in Workers |-> IF job[v] # Idle THEN Hurt(job[v]) ELSE job[v]]
  BY DEF Redefined, Ground
<1>3. job' \in [Workers -> JobType] /\ AllSound'
  BY <1>2, GroundStep
<1>4. Distinct(alarms)
  BY DEF Typed
<1>5. Distinct(alarms')
  <2>1. CASE \E part \in Parts : alarms' = {[a EXCEPT !.sound = @ \ {part}] : a \in alarms}
    <3>1. PICK part \in Parts : alarms' = {[a EXCEPT !.sound = @ \ {part}] : a \in alarms}
      BY <2>1
    <3>2. Distinct({[a EXCEPT !.sound = @ \ {part}] : a \in alarms})
      BY <1>4, UnsoundDistinct
    <3> QED  BY <3>1, <3>2
  <2>2. CASE alarms' = {[a EXCEPT !.told = "none"] : a \in alarms}
    BY <1>4, <2>2, UntoldDistinct
  <2> QED  BY <2>1, <2>2 DEF Redefined
<1> QED  BY <1>1, <1>3, <1>5 DEF Typed
-----------------------------------------------------------------------------
(* The invariant holds at first, and every step keeps it.                   *)
LEMMA ResourceStart ==
  ASSUME Init
  PROVE  ResourceInv
<1>1. Typed
  <2>1. Distinct({})
    BY DEF Distinct
  <2>2. tags \in TagsType
    BY ResourceAssumption DEF Init, TagsType
  <2>3. job \in [Workers -> JobType]
    BY IdleSound DEF Init
  <2> QED  BY <2>1, <2>2, <2>3, JobsAssumption DEF Init, Typed, EventKinds
<1>2. Bounded
  BY ResourceAssumption DEF Init, Bounded
<1>3. AllSound
  BY IdleSound DEF Init, AllSound
<1> QED  BY <1>1, <1>2, <1>3 DEF ResourceInv

LEMMA OutsideStep ==
  ASSUME Typed, AllSound, Outside
  PROVE  Typed' /\ AllSound'
BY CustomerSwitchesStep, CustomerRetagsStep, CustomerRemovesStep, CustomerModifiesStep, ReportsStep, RedefinedStep
   DEF Outside

LEMMA CalledStep ==
  ASSUME Typed, AllSound, NEW w \in Workers, Called(w)
  PROVE  Typed' /\ AllSound'
<1>1. CASE StartRun(w)
  BY <1>1, StartRunStep
<1>2. CASE \E on \in BOOLEAN : Toggle(w, on)
  BY <1>2, ToggleStep
<1>3. CASE \E on \in BOOLEAN : Bulk(w, on)
  BY <1>3, BulkStep
<1>4. CASE \E a \in alarms, t \in Thresholds, s \in {"none", "chosen"} : Edit(w, a, t, s)
  BY <1>4, EditStep
<1>5. CASE \E m \in Metrics, t \in Thresholds : Add(w, m, t)
  BY <1>5, AddStep
<1> QED  BY <1>1, <1>2, <1>3, <1>4, <1>5 DEF Called

LEMMA WorksStep ==
  ASSUME Typed, AllSound, NEW w \in Workers, Works(w)
  PROVE  Typed' /\ AllSound'
<1>1. CASE AlarmStep(w)
  BY <1>1, KeepStep, WipeStep, DeleteAlarmsStep, LookStep, ReadSeverityStep, PutAlarmStep, RefreshStep,
     RewriteStep, SyncStep, CreateStep, FinishStep DEF AlarmStep
<1>2. CASE RunStep(w)
  BY <1>2, ListStep, CleanUpStep, CollectStep DEF RunStep
<1>3. CASE ConsoleStep(w)
  BY <1>3, SwitchStep, ReadTagsStep, EditPutStep, EditDropStep, EditFollowStep DEF ConsoleStep
<1>4. CASE Remedy(w)
  BY <1>4, RemedyStep
<1> QED  BY <1>1, <1>2, <1>3, <1>4 DEF Works

LEMMA BoundedStep ==
  ASSUME Bounded, Next
  PROVE  Bounded'
<1>0. MaxCalls \in Nat /\ MaxChanges \in Nat
  BY ResourceAssumption
<1>1. CASE Outside
  <2>1. changes < MaxChanges /\ changes' = changes + 1 /\ calls' = calls
    BY <1>1 DEF Outside, CustomerSwitches, CustomerRetags, CustomerRemoves, CustomerModifies, Reports,
                Redefined, Change
  <2> QED  BY <1>0, <2>1 DEF Bounded
<1>2. CASE \E w \in Workers : Called(w)
  <2>1. calls < MaxCalls /\ calls' = calls + 1 /\ changes' = changes
    BY <1>2 DEF Called, Counted
  <2> QED  BY <1>0, <2>1 DEF Bounded
<1>3. CASE Settled
  BY <1>3 DEF Settled, Bounded
<1> QED  BY <1>1, <1>2, <1>3 DEF Next

LEMMA ResourceNext ==
  ASSUME ResourceInv, [Next]_vars
  PROVE  ResourceInv'
<1>1. Typed /\ Bounded /\ AllSound
  BY DEF ResourceInv
<1>2. CASE Next
  <2>1. Bounded'
    BY <1>1, <1>2, BoundedStep
  <2>2. CASE Outside
    BY <1>1, <2>1, <2>2, OutsideStep DEF ResourceInv
  <2>3. CASE \E w \in Workers : Called(w)
    BY <1>1, <2>1, <2>3, CalledStep DEF ResourceInv
  <2>4. CASE StartRun(Runner)
    <3>1. Runner \in Workers
      BY ResourceAssumption
    <3> QED  BY <1>1, <2>1, <2>4, <3>1, StartRunStep DEF ResourceInv
  <2>5. ASSUME NEW w \in Workers, Works(w) \/ Handles(w) \/ Die(w) PROVE ResourceInv'
    <3>1. CASE Works(w)
      BY <1>1, <2>1, <3>1, WorksStep DEF ResourceInv
    <3>2. CASE Handles(w)
      BY <1>1, <2>1, <3>2, TakeEventStep DEF ResourceInv, Handles
    <3>3. CASE Die(w)
      BY <1>1, <2>1, <3>3, DieStep DEF ResourceInv
    <3> QED  BY <2>5, <3>1, <3>2, <3>3
  <2> QED  BY <1>2, <2>2, <2>3, <2>4, <2>5 DEF Next
<1>3. CASE UNCHANGED vars
  <2>1. Typed' /\ Bounded'
    BY <1>1, <1>3 DEF vars, Typed, Bounded
  <2>2. AllSound'
    BY <1>1, <1>3, SameJobs DEF vars, Unmonitored
  <2> QED  BY <2>1, <2>2 DEF ResourceInv
<1> QED  BY <1>2, <1>3
-----------------------------------------------------------------------------
(* What the invariant says of the properties.                               *)
LEMMA TypesFollow ==
  ASSUME ResourceInv
  PROVE  TypeOK
BY DEF ResourceInv, Typed, Bounded, Distinct, TypeOK

LEMMA WantedMetrics ==
  ASSUME NEW thr, NEW rep
  PROVE  Wanted(thr, rep) \subseteq Metrics
BY DEF Wanted, Created, SeenDisks, Asked, Metrics

(* With no call left, every metric is through with.                         *)
LEMMA LastlyFinal ==
  ASSUME NEW j, j.todo = <<>>, NEW now, NEW rep, InProgress(j, now, rep)
  PROVE  \A m \in Metrics : Final(j, rep, m, Of(now, m))
<1>1. Len(j.todo) = 0 /\ DOMAIN j.todo = {}
  OBVIOUS
<1>2. Late(j, now, rep)
  BY <1>1 DEF InProgress, Wiping, Early
<1>3. \A m \in Metrics : ~Pending(j, Len(j.todo) + 1, m)
  BY <1>1 DEF Pending
<1> QED  BY <1>2, <1>3 DEF Late, Front, Done

LEMMA EstablishedFollows ==
  ASSUME ResourceInv
  PROVE  Established
<1> SUFFICES ASSUME NEW w \in Workers, Ended(w)
             PROVE  /\ Covered(alarms, job[w].thr, Seen(job[w])) /\ NoStray(alarms, job[w].thr) /\ Single(alarms)
                    /\ Kept(alarms, job[w].before, job[w].thr)
  BY DEF Established
<1> DEFINE j == job[w]
           rep == Seen(j)
<1>1. AllSound /\ alarms \subseteq AlarmType
  BY DEF ResourceInv, Typed, Distinct
<1>2. Progress(j, alarms, rep) /\ Undisturbed(j) /\ j.todo = <<>>
  BY <1>1, SoundJob DEF Sound, Undisturbed, Ended, Busy, Seen, View
<1>3. InProgress(j, alarms, rep)
  BY <1>2 DEF Progress
<1>4. \A m \in Metrics : Final(j, rep, m, Of(alarms, m))
  BY <1>2, <1>3, LastlyFinal
<1>5. \A a \in alarms : a.metric \in Metrics /\ a \in Of(alarms, a.metric)
  BY <1>1 DEF AlarmType, Of
<1> HIDE DEF j, rep
<1>6. Covered(alarms, j.thr, rep)
  <2>1. ASSUME NEW m \in Wanted(j.thr, rep) PROVE \E a \in alarms : a.metric = m /\ Right(a, j.thr)
    <3>1. m \in Metrics
      BY WantedMetrics
    <3>2. PICK a \in Of(alarms, m) : Right(a, j.thr)
      BY <1>4, <3>1 DEF Final
    <3> QED  BY <3>2 DEF Of
  <2> QED  BY <2>1 DEF Covered
<1>7. NoStray(alarms, j.thr)
  BY <1>4, <1>5 DEF NoStray, Final
<1>8. Single(alarms)
  <2>1. ASSUME NEW a \in alarms, NEW b \in alarms, a.metric = b.metric PROVE a = b
    <3>1. b \in Of(alarms, a.metric)
      BY <2>1 DEF Of
    <3> QED  BY <1>4, <1>5, <3>1 DEF Final
  <2> QED  BY <2>1 DEF Single
<1>9. Kept(alarms, j.before, j.thr)
  <2>1. ASSUME NEW a \in alarms, NEW b \in j.before, a.metric = b.metric, b.tag = "chosen", b.told # "registry",
               Right(a, j.thr), ~IsOff(j.thr, a.metric)
        PROVE  a.tag = "chosen" /\ a.told = "chosen"
    <3>1. Kept(Of(alarms, a.metric), j.before, j.thr) /\ a \in Of(alarms, a.metric)
      BY <1>4, <1>5 DEF Final
    <3> QED  BY <2>1, <3>1 DEF Kept
  <2> QED  BY <2>1 DEF Kept
<1> QED  BY <1>6, <1>7, <1>8, <1>9 DEF j, rep

LEMMA QuietFollows ==
  ASSUME ResourceInv
  PROVE  Quiet
<1>1. ASSUME NEW w \in Workers PROVE Silent(job[w], reported)
  BY SoundJob DEF ResourceInv, Sound
<1> QED  BY <1>1 DEF Quiet, Silent, Lost
-----------------------------------------------------------------------------
(* The inductive invariant: besides the types, what each worker still has   *)
(* to do is right for the alarms there are, as long as nothing else moved   *)
(* since it decided.                                                        *)
THEOREM ResourceInvariant == Spec => []ResourceInv
<1>1. Init => ResourceInv
  BY ResourceStart
<1>2. ResourceInv /\ [Next]_vars => ResourceInv'
  BY ResourceNext
<1> QED  BY <1>1, <1>2, PTL DEF Spec

(* Whatever runs, events, requests and failures interleave, no two alarms   *)
(* have the same name, and every part of the state has its type             *)
(* (alarm_manager.py, daily_monitor, remediation_handler, resources.py).    *)
THEOREM ResourceTypes == Spec => []TypeOK
<1>1. ResourceInv => TypeOK
  BY TypesFollow
<1> QED  BY <1>1, ResourceInvariant, PTL

(* A sync or a creation that nothing else disturbed, and of whose calls     *)
(* none failed, leaves one alarm of each metric the settings want and that  *)
(* the worker finds - a toggle of a resource elsewhere finds no tagged      *)
(* metric -, none of one they do not allow, and the operator's severities   *)
(* (alarm_manager.sync_alarms_for_resource, create_alarms_for_resource,     *)
(* alarm_builder._create_dynamic_alarm).                                    *)
THEOREM EstablishedAlways == Spec => []Established
<1>1. ResourceInv => Established
  BY EstablishedFollows
<1> QED  BY <1>1, ResourceInvariant, PTL

(* A run that has the resource's alarms listed and finds them right deletes *)
(* and puts none of them: what is left to do is, at most, to try a tagged   *)
(* metric that has no data (alarm_sync._sync_disk_alarms,                   *)
(* daily_monitor._sync_inventory).                                          *)
THEOREM QuietAlways == Spec => []Quiet
<1>1. ResourceInv => Quiet
  BY QuietFollows
<1> QED  BY <1>1, ResourceInvariant, PTL
================================================================================
