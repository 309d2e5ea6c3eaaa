----------------------------- MODULE IncidentProofs ----------------------------
(* Proofs about Incident: for any series, routers, people, attempts and        *)
(* failures, every incident lives the life of IncidentLifecycle, and a cause   *)
(* that fires is in an open one.                                               *)
EXTENDS Incident, FiniteSetTheorems, TLAPS

(* Version 0 is that of an item that is not there.                             *)
ItemOK(i) ==
  /\ i \in IncidentType
  /\ i.version = 0 => i = NoIncident
  /\ i.status = "none" => i = NoIncident

ItemsOK(items) == items \in [Ids -> IncidentType] /\ \A id \in Ids : ItemOK(items[id])

(* Every write of an item raises its version.                                  *)
Grown(old, new) == \A id \in Ids : new[id] = old[id] \/ new[id].version > old[id].version

(* What was read of an item is the item, or older than it.                     *)
Current(base, id, items) ==
  /\ id \in Ids /\ ItemOK(base)
  /\ base.version <= items[id].version
  /\ base.version = items[id].version => base = items[id]

(* What a router makes of an incident: a new one, one with more members, or a  *)
(* resolved one.                                                               *)
StepOf(base, next) ==
  /\ next \in IncidentType
  /\ \/ base = NoIncident /\ next.status = "triggered" /\ next.by = Nobody
     \/ /\ IsOpen(base) /\ next.status = base.status /\ next.by = base.by
        /\ base.members \subseteq next.members
     \/ IsOpen(base) /\ next.status = "resolved" /\ next.by = base.by /\ next.members = base.members

RunOK(x, items, now) ==
  /\ x \in RunType /\ x.now <= now
  /\ x.pc \notin {"idle", "unpoint"} => x.now > 0
  /\ x.pc = "check" => Current(x.base, x.id, items) /\ IsOpen(x.base)
  /\ x.pc \in {"point", "save"} => Current(x.base, x.id, items) /\ StepOf(x.base, x.next)

AckOK(x, items) ==
  /\ x \in AckType
  /\ x.pc = "read" => x.id \in Ids
  /\ x.pc = "save" => Current(x.base, x.id, items) /\ x.base.status = "triggered"

TickOK(x, items) ==
  /\ x \in TickType
  /\ x.pc # "idle" => Current(x.base, x.id, items) /\ IsOpen(x.base)

ReadersOK ==
  /\ run \in [Routers -> RunType] /\ \A r \in Routers : RunOK(run[r], incidents, second)
  /\ ack \in [People -> AckType] /\ \A p \in People : AckOK(ack[p], incidents)
  /\ TickOK(tick, incidents)

OthersOK ==
  /\ second \in 1..Horizon
  /\ pointer \in Ids \cup {None}
  /\ alarm \in [Series -> BOOLEAN] /\ episode \in [Series -> BOOLEAN]
  /\ started \in [Series -> Nat]
  /\ pending \in SUBSET Series /\ clears \in BOOLEAN
  /\ lost \in [Series -> {"no", "unrecorded", "tick"}]
  /\ left \in [{"fires", "deletes", "renotices", "faults"} -> Nat]

IncidentInv == ItemsOK(incidents) /\ ReadersOK /\ OthersOK
--------------------------------------------------------------------------------
LEMMA IdsAreNumbers == Ids \subseteq Nat /\ None \notin Ids
  BY IncidentAssumption DEF Ids, None

LEMMA NoIncidentType ==
  NoIncident \in IncidentType /\ ItemOK(NoIncident) /\ NoIncident.version = 0
  /\ NoIncident.status = "none" /\ NoIncident.members = {} /\ NoIncident.by = Nobody
  BY DEF NoIncident, IncidentType, ItemOK, Statuses

LEMMA IdleTypes ==
  /\ Idle \in RunType /\ Idle.pc = "idle" /\ Idle.now = 0
  /\ NoAck \in AckType /\ NoAck.pc = "idle"
  /\ NoTick \in TickType /\ NoTick.pc = "idle"
<1>1. 0 \in 0..MaxAttempts - 1
  BY IncidentAssumption
<1> QED  BY <1>1, NoIncidentType DEF Idle, RunType, NoAck, AckType, NoTick, TickType, None

LEMMA InitInv == Init => IncidentInv
<1> SUFFICES ASSUME Init PROVE IncidentInv
  OBVIOUS
<1>1. ItemsOK(incidents)
  BY NoIncidentType DEF Init, ItemsOK
<1>2. ReadersOK
  BY IdleTypes DEF Init, ReadersOK, RunOK, AckOK, TickOK
<1>3. OthersOK
  <2>1. left \in [{"fires", "deletes", "renotices", "faults"} -> Nat]
    BY IncidentAssumption DEF Init
  <2>2. lost \in [Series -> {"no", "unrecorded", "tick"}]
    BY DEF Init
  <2>3. 1 \in 1..Horizon
    BY IncidentAssumption
  <2> QED  BY <2>1, <2>2, <2>3 DEF Init, OthersOK
<1> QED  BY <1>1, <1>2, <1>3 DEF IncidentInv

LEMMA CurrentGrows ==
  ASSUME NEW old, NEW new, ItemsOK(old), ItemsOK(new), Grown(old, new),
         NEW base, NEW id, Current(base, id, old)
  PROVE  Current(base, id, new)
<1>1. /\ old[id].version \in Nat /\ new[id].version \in Nat /\ base.version \in Nat
      /\ new[id] = old[id] \/ new[id].version > old[id].version
  BY DEF Current, ItemsOK, ItemOK, IncidentType, Grown
<1> QED  BY <1>1 DEF Current

LEMMA RunGrows ==
  ASSUME NEW old, NEW new, ItemsOK(old), ItemsOK(new), Grown(old, new),
         NEW now \in Nat, NEW later \in Nat, now <= later, NEW x, RunOK(x, old, now)
  PROVE  RunOK(x, new, later)
<1>1. x.now <= later
  BY DEF RunOK, RunType
<1> QED  BY <1>1, CurrentGrows DEF RunOK

LEMMA AckGrows ==
  ASSUME NEW old, NEW new, ItemsOK(old), ItemsOK(new), Grown(old, new), NEW x, AckOK(x, old)
  PROVE  AckOK(x, new)
  BY CurrentGrows DEF AckOK

LEMMA TickGrows ==
  ASSUME NEW old, NEW new, ItemsOK(old), ItemsOK(new), Grown(old, new), NEW x, TickOK(x, old)
  PROVE  TickOK(x, new)
  BY CurrentGrows DEF TickOK

LEMMA SameItems ==
  ASSUME ItemsOK(incidents), UNCHANGED incidents
  PROVE  ItemsOK(incidents') /\ Grown(incidents, incidents')
  BY DEF Grown

LEMMA ItemWritten ==
  ASSUME ItemsOK(incidents), NEW id \in Ids, NEW item, ItemOK(item),
         item.version > incidents[id].version, incidents' = [incidents EXCEPT ![id] = item]
  PROVE  ItemsOK(incidents') /\ Grown(incidents, incidents')
  BY DEF ItemsOK, ItemOK, Grown

(* The readers that do not move, and the one that does.                        *)
LEMMA ReadersKeep ==
  ASSUME ReadersOK, OthersOK, ItemsOK(incidents), ItemsOK(incidents'), Grown(incidents, incidents'),
         second' \in Nat, second <= second',
         \/ run' = run
         \/ \E r \in Routers : \E x : run' = [run EXCEPT ![r] = x] /\ RunOK(x, incidents', second'),
         \/ ack' = ack
         \/ \E p \in People : \E x : ack' = [ack EXCEPT ![p] = x] /\ AckOK(x, incidents'),
         tick' = tick \/ TickOK(tick', incidents')
  PROVE  ReadersOK'
<1>1. second \in Nat
  BY DEF OthersOK
<1>2. run' \in [Routers -> RunType] /\ \A r \in Routers : RunOK(run'[r], incidents', second')
  <2>1. CASE run' = run
    BY <1>1, <2>1, RunGrows DEF ReadersOK
  <2>2. CASE \E r \in Routers : \E x : run' = [run EXCEPT ![r] = x] /\ RunOK(x, incidents', second')
    <3>0. PICK r \in Routers : \E x : run' = [run EXCEPT ![r] = x] /\ RunOK(x, incidents', second')
      BY <2>2
    <3>1. PICK x : run' = [run EXCEPT ![r] = x] /\ RunOK(x, incidents', second')
      BY <3>0
    <3>2. x \in RunType
      BY <3>1 DEF RunOK
    <3>3. ASSUME NEW q \in Routers PROVE RunOK(run'[q], incidents', second')
      <4>1. CASE q = r
        BY <3>1, <4>1 DEF ReadersOK
      <4>2. CASE q # r
        <5>1. run'[q] = run[q] /\ RunOK(run[q], incidents, second)
          BY <3>1, <4>2 DEF ReadersOK
        <5> QED  BY <1>1, <5>1, RunGrows
      <4> QED  BY <4>1, <4>2
    <3> QED  BY <3>1, <3>2, <3>3 DEF ReadersOK
  <2> QED  BY <2>1, <2>2
<1>3. ack' \in [People -> AckType] /\ \A p \in People : AckOK(ack'[p], incidents')
  <2>1. CASE ack' = ack
    BY <2>1, AckGrows DEF ReadersOK
  <2>2. CASE \E p \in People : \E x : ack' = [ack EXCEPT ![p] = x] /\ AckOK(x, incidents')
    <3>0. PICK p \in People : \E x : ack' = [ack EXCEPT ![p] = x] /\ AckOK(x, incidents')
      BY <2>2
    <3>1. PICK x : ack' = [ack EXCEPT ![p] = x] /\ AckOK(x, incidents')
      BY <3>0
    <3>2. x \in AckType
      BY <3>1 DEF AckOK
    <3>3. ASSUME NEW q \in People PROVE AckOK(ack'[q], incidents')
      <4>1. CASE q = p
        BY <3>1, <4>1 DEF ReadersOK
      <4>2. CASE q # p
        <5>1. ack'[q] = ack[q] /\ AckOK(ack[q], incidents)
          BY <3>1, <4>2 DEF ReadersOK
        <5> QED  BY <5>1, AckGrows
      <4> QED  BY <4>1, <4>2
    <3> QED  BY <3>1, <3>2, <3>3 DEF ReadersOK
  <2> QED  BY <2>1, <2>2
<1>4. TickOK(tick', incidents')
  BY TickGrows DEF ReadersOK
<1> QED  BY <1>2, <1>3, <1>4 DEF ReadersOK, RunOK, AckOK, TickOK
--------------------------------------------------------------------------------
LEMMA RunFacts ==
  ASSUME IncidentInv, NEW r \in Routers
  PROVE  /\ run[r] \in RunType /\ RunOK(run[r], incidents, second)
         /\ run[r].now \in Nat /\ run[r].now <= second /\ second \in 1..Horizon
         /\ run[r].firing \subseteq Series /\ run[r].seen \in Ids \cup {None}
         /\ run[r].attempt \in 0..MaxAttempts - 1
<1>1. RunOK(run[r], incidents, second) /\ second \in 1..Horizon
  BY DEF IncidentInv, ReadersOK, OthersOK
<1>2. run[r] \in RunType /\ run[r].now <= second
  BY <1>1 DEF RunOK
<1> QED  BY <1>1, <1>2 DEF RunType

LEMMA LoadedFacts ==
  ASSUME IncidentInv, NEW r \in Routers
  PROVE  /\ ItemOK(Loaded(r))
         /\ Loaded(r).status # "none" => run[r].seen \in Ids /\ Current(Loaded(r), run[r].seen, incidents)
<1>1. CASE run[r].seen = None
  BY <1>1, NoIncidentType DEF Loaded
<1>2. CASE run[r].seen # None
  <2>1. run[r].seen \in Ids /\ Loaded(r) = incidents[run[r].seen]
    BY <1>2, RunFacts DEF Loaded
  <2>2. ItemOK(incidents[run[r].seen]) /\ incidents[run[r].seen].version \in Nat
    BY <2>1 DEF IncidentInv, ItemsOK, ItemOK, IncidentType
  <2> QED  BY <2>1, <2>2 DEF Current
<1> QED  BY <1>1, <1>2

(* A router that reads, or gives up: what it holds then is right.              *)
LEMMA RouterMoves ==
  ASSUME IncidentInv, NEW r \in Routers, NEW x, Become(r, x), RunOK(x, incidents, second),
         UNCHANGED <<incidents, second, ack, tick>>
  PROVE  ItemsOK(incidents)' /\ ReadersOK'
<1>1. ItemsOK(incidents') /\ Grown(incidents, incidents')
  BY SameItems DEF IncidentInv
<1>2. second' \in Nat /\ second <= second' /\ RunOK(x, incidents', second')
  BY DEF IncidentInv, OthersOK
<1> QED  BY <1>1, <1>2, ReadersKeep DEF IncidentInv, Become

LEMMA IdleOK == ASSUME IncidentInv PROVE RunOK(Idle, incidents, second)
  BY IdleTypes DEF RunOK, IncidentInv, OthersOK

LEMMA RetryMoves ==
  ASSUME IncidentInv, NEW r \in Routers, Retry(r), run[r].pc \notin {"idle", "unpoint"}
  PROVE  \E x : Become(r, x) /\ RunOK(x, incidents, second)
<1>1. CASE run[r].attempt + 1 < MaxAttempts
  <2> DEFINE x == [Idle EXCEPT !.pc = "pointer", !.firing = run[r].firing,
                               !.now = run[r].now, !.attempt = run[r].attempt + 1]
  <2>1. run[r].attempt + 1 \in 0..MaxAttempts - 1
    BY <1>1, RunFacts, IncidentAssumption
  <2>2. x \in RunType /\ x.pc = "pointer" /\ x.now = run[r].now
    BY <2>1, IdleTypes, RunFacts DEF RunType
  <2>3. Become(r, x)
    BY <1>1 DEF Retry
  <2> HIDE DEF x
  <2> QED  BY <2>2, <2>3, RunFacts DEF RunOK
<1>2. CASE ~(run[r].attempt + 1 < MaxAttempts)
  BY <1>2, IdleOK DEF Retry
<1> QED  BY <1>1, <1>2

(* An item that a router makes of what it loaded.                              *)
LEMMA MergedFacts ==
  ASSUME NEW i \in IncidentType, NEW F \in SUBSET Series, NEW next \in Merged(i, F)
  PROVE  /\ next \in IncidentType /\ next.status = i.status /\ next.by = i.by
         /\ i.members \subseteq next.members
<1>1. PICK S \in SUBSET (F \ i.members) : next = [i EXCEPT !.members = @ \cup S]
  BY DEF Merged
<1> QED  BY <1>1 DEF IncidentType

LEMMA LoadingMoves ==
  ASSUME IncidentInv, NEW r \in Routers, LoadToMerge(r) \/ LoadToOpen(r) \/ LoadToClear(r)
  PROVE  \E x : Become(r, x) /\ RunOK(x, incidents, second)
<1>0. /\ Loaded(r) \in IncidentType /\ ItemOK(Loaded(r)) /\ run[r] \in RunType
      /\ run[r].now <= second /\ run[r].now > 0 /\ run[r].firing \in SUBSET Series
  BY RunFacts, LoadedFacts DEF ItemOK, RunOK, LoadToMerge, LoadToOpen, LoadToClear
<1>1. CASE LoadToMerge(r)
  <2>1. IsOpen(Loaded(r)) /\ run[r].seen \in Ids /\ Current(Loaded(r), run[r].seen, incidents)
    BY <1>1, LoadedFacts DEF LoadToMerge, Extensible, IsOpen
  <2>2. PICK next \in Merged(Loaded(r), run[r].firing) :
          Become(r, [run[r] EXCEPT !.pc = "save", !.id = run[r].seen, !.base = Loaded(r), !.next = next])
    BY <1>1 DEF LoadToMerge
  <2>3. next \in IncidentType /\ StepOf(Loaded(r), next)
    BY <1>0, <2>1, MergedFacts DEF StepOf
  <2> DEFINE x == [run[r] EXCEPT !.pc = "save", !.id = run[r].seen, !.base = Loaded(r), !.next = next]
  <2>4. /\ x \in RunType /\ x.pc = "save" /\ x.now = run[r].now
        /\ x.id = run[r].seen /\ x.base = Loaded(r) /\ x.next = next
    BY <1>0, <2>1, <2>3 DEF RunType
  <2> HIDE DEF x
  <2>5. RunOK(x, incidents, second)
    BY <1>0, <2>1, <2>3, <2>4 DEF RunOK
  <2> QED  BY <2>2, <2>5 DEF x
<1>2. CASE LoadToOpen(r)
  <2> DEFINE fresh == [NoIncident EXCEPT !.status = "triggered"]
  <2>1. PICK next \in Merged(fresh, run[r].firing) :
          Become(r, [run[r] EXCEPT !.pc = "point", !.id = NewId(r), !.base = NoIncident, !.next = next])
    BY <1>2 DEF LoadToOpen
  <2>2. fresh \in IncidentType /\ fresh.status = "triggered" /\ fresh.by = Nobody
    BY NoIncidentType DEF IncidentType, Statuses
  <2>3. StepOf(NoIncident, next) /\ next \in IncidentType
    BY <1>0, <2>1, <2>2, MergedFacts DEF StepOf
  <2>4. NewId(r) \in Ids
    <3>1. Loaded(r).status # "none" => run[r].seen \in Ids
      BY LoadedFacts
    <3>2. CASE Loaded(r).status # "none" /\ run[r].seen = run[r].now
      BY <1>0, <3>1, <3>2, RunFacts, IncidentAssumption DEF NewId, Ids
    <3>3. CASE ~(Loaded(r).status # "none" /\ run[r].seen = run[r].now)
      BY <1>0, <3>3, RunFacts, IncidentAssumption DEF NewId, Ids
    <3> QED  BY <3>2, <3>3
  <2>5. Current(NoIncident, NewId(r), incidents)
    <3>1. incidents[NewId(r)].version \in Nat /\ ItemOK(incidents[NewId(r)])
      BY <2>4 DEF IncidentInv, ItemsOK, ItemOK, IncidentType
    <3> QED  BY <2>4, <3>1, NoIncidentType DEF Current, ItemOK
  <2> DEFINE x == [run[r] EXCEPT !.pc = "point", !.id = NewId(r), !.base = NoIncident, !.next = next]
  <2>6. /\ x \in RunType /\ x.pc = "point" /\ x.now = run[r].now
        /\ x.id = NewId(r) /\ x.base = NoIncident /\ x.next = next
    BY <1>0, <2>3, <2>4, NoIncidentType DEF RunType
  <2> HIDE DEF x
  <2>7. RunOK(x, incidents, second)
    BY <1>0, <2>3, <2>5, <2>6 DEF RunOK
  <2> QED  BY <2>1, <2>7 DEF x
<1>3. CASE LoadToClear(r)
  <2>1. CASE Loaded(r).status = "none"
    BY <1>3, <2>1, IdleOK DEF LoadToClear
  <2>2. CASE Loaded(r).status = "resolved"
    <3> DEFINE x == [run[r] EXCEPT !.pc = "unpoint", !.id = run[r].seen]
    <3>1. Become(r, x)
      BY <1>3, <2>2 DEF LoadToClear
    <3>2. x \in RunType /\ x.pc = "unpoint" /\ x.now = run[r].now
      BY RunFacts DEF RunType
    <3> HIDE DEF x
    <3> QED  BY <1>0, <3>1, <3>2 DEF RunOK
  <2>3. CASE Loaded(r).status \notin {"none", "resolved"}
    <3> DEFINE x == [run[r] EXCEPT !.pc = "check", !.id = run[r].seen, !.base = Loaded(r),
                                   !.todo = Loaded(r).members]
    <3>1. Become(r, x)
      BY <1>3, <2>3 DEF LoadToClear
    <3>2. IsOpen(Loaded(r)) /\ Current(Loaded(r), run[r].seen, incidents)
      <4>1. Loaded(r).status \in Statuses
        BY <1>0 DEF IncidentType
      <4> QED  BY <2>3, <4>1, LoadedFacts DEF IsOpen, Statuses
    <3>3. /\ x \in RunType /\ x.pc = "check" /\ x.now = run[r].now
          /\ x.id = run[r].seen /\ x.base = Loaded(r)
      BY <1>0, RunFacts DEF RunType, IncidentType
    <3> HIDE DEF x
    <3> QED  BY <1>0, <3>1, <3>2, <3>3 DEF RunOK
  <2> QED  BY <2>1, <2>2, <2>3
<1> QED  BY <1>1, <1>2, <1>3

LEMMA CheckingMoves ==
  ASSUME IncidentInv, NEW r \in Routers, CheckMember(r) \/ AllChecked(r)
  PROVE  \E x : Become(r, x) /\ RunOK(x, incidents, second)
<1>0. /\ run[r] \in RunType /\ run[r].now <= second /\ run[r].now > 0
      /\ Current(run[r].base, run[r].id, incidents) /\ IsOpen(run[r].base)
  BY RunFacts DEF RunOK, CheckMember, AllChecked
<1>1. ASSUME NEW next \in IncidentType, StepOf(run[r].base, next), NEW todo \in SUBSET Series,
             Become(r, [run[r] EXCEPT !.pc = "save", !.next = next, !.todo = todo])
      PROVE  \E x : Become(r, x) /\ RunOK(x, incidents, second)
  <2> DEFINE x == [run[r] EXCEPT !.pc = "save", !.next = next, !.todo = todo]
  <2>1. /\ x \in RunType /\ x.pc = "save" /\ x.now = run[r].now
        /\ x.id = run[r].id /\ x.base = run[r].base /\ x.next = next
    BY <1>0, <1>1 DEF RunType
  <2> HIDE DEF x
  <2>2. RunOK(x, incidents, second)
    BY <1>0, <1>1, <2>1 DEF RunOK
  <2> QED  BY <1>1, <2>2 DEF x
<1>2. run[r].base \in IncidentType /\ StepOf(run[r].base, run[r].base)
  BY <1>0 DEF Current, ItemOK, StepOf
<1>3. CASE CheckMember(r)
  <2>1. PICK s \in run[r].todo, open \in BOOLEAN :
          Become(r, IF open THEN [run[r] EXCEPT !.pc = "save", !.next = run[r].base, !.todo = {}]
                    ELSE [run[r] EXCEPT !.todo = @ \ {s}])
    BY <1>3 DEF CheckMember
  <2>2. CASE open
    BY <1>1, <1>2, <2>1, <2>2
  <2>3. CASE ~open
    <3> DEFINE x == [run[r] EXCEPT !.todo = @ \ {s}]
    <3>1. /\ x \in RunType /\ x.pc = run[r].pc /\ x.now = run[r].now
          /\ x.id = run[r].id /\ x.base = run[r].base /\ x.next = run[r].next
      BY <1>0 DEF RunType
    <3>2. Become(r, x)
      BY <2>1, <2>3
    <3> HIDE DEF x
    <3> QED  BY <1>0, <1>3, <3>1, <3>2 DEF RunOK, CheckMember
  <2> QED  BY <2>2, <2>3
<1>4. CASE AllChecked(r)
  <2> DEFINE next == IF run[r].base.members = {} THEN run[r].base
                     ELSE [run[r].base EXCEPT !.status = "resolved"]
             x == [run[r] EXCEPT !.pc = "save", !.next = next]
  <2>1. next \in IncidentType /\ StepOf(run[r].base, next)
    BY <1>0, <1>2 DEF StepOf, IncidentType, Statuses
  <2>2. Become(r, x)
    BY <1>4 DEF AllChecked
  <2> HIDE DEF next
  <2>3. /\ x \in RunType /\ x.pc = "save" /\ x.now = run[r].now
        /\ x.id = run[r].id /\ x.base = run[r].base /\ x.next = next
    BY <1>0, <2>1 DEF RunType
  <2> HIDE DEF x
  <2> QED  BY <1>0, <2>1, <2>2, <2>3 DEF RunOK
<1> QED  BY <1>3, <1>4

(* A router's save, or another's write: the version grows.                     *)
LEMMA SaveWrites ==
  ASSUME IncidentInv, NEW base, NEW id, Current(base, id, incidents),
         incidents[id].version = base.version,
         NEW next \in IncidentType, next.status # "none",
         incidents' = [incidents EXCEPT ![id] = [next EXCEPT !.version = base.version + 1]]
  PROVE  /\ ItemsOK(incidents') /\ Grown(incidents, incidents')
         /\ base = incidents[id] /\ id \in Ids
<1>1. id \in Ids /\ base = incidents[id] /\ base.version \in Nat
  BY DEF Current, ItemOK, IncidentType
<1> DEFINE item == [next EXCEPT !.version = base.version + 1]
<1>2. /\ item \in IncidentType /\ item.version = base.version + 1 /\ item.status = next.status
  BY <1>1 DEF IncidentType
<1> HIDE DEF item
<1>3. ItemOK(item) /\ item.version > incidents[id].version
  BY <1>1, <1>2 DEF ItemOK
<1> QED  BY <1>1, <1>3, ItemWritten DEF IncidentInv, item

LEMMA StepNotNone ==
  ASSUME NEW base, NEW next, StepOf(base, next)
  PROVE  next.status # "none" /\ next \in IncidentType
  BY DEF StepOf, IsOpen

LEMMA RouteKeeps ==
  ASSUME IncidentInv, NEW r \in Routers, Route(r)
  PROVE  ItemsOK(incidents)' /\ ReadersOK'
<1>1. CASE Start(r)
  <2>1. PICK F \in SUBSET pending : StartRouter(r, F)
    BY <1>1 DEF Start
  <2> DEFINE x == [Idle EXCEPT !.pc = "pointer", !.firing = F, !.now = second]
  <2>2. F \in SUBSET Series /\ second \in Nat /\ second > 0
    BY IncidentAssumption DEF IncidentInv, OthersOK
  <2>3. x \in RunType /\ x.pc = "pointer" /\ x.now = second
    BY <2>2, IdleTypes DEF RunType
  <2>4. Become(r, x) /\ UNCHANGED <<incidents, second, ack, tick>>
    BY <2>1 DEF StartRouter
  <2> HIDE DEF x
  <2>5. RunOK(x, incidents, second)
    BY <2>2, <2>3 DEF RunOK
  <2> QED  BY <2>4, <2>5, RouterMoves
<1>2. CASE ReadPointer(r)
  <2> DEFINE x == [run[r] EXCEPT !.pc = "load", !.seen = pointer]
  <2>1. x \in RunType /\ x.pc = "load" /\ x.now = run[r].now
    BY RunFacts DEF RunType, IncidentInv, OthersOK
  <2>2. Become(r, x) /\ UNCHANGED <<incidents, second, ack, tick>>
    BY <1>2 DEF ReadPointer, world
  <2> HIDE DEF x
  <2>3. RunOK(x, incidents, second)
    BY <1>2, <2>1, RunFacts DEF RunOK, ReadPointer
  <2> QED  BY <2>2, <2>3, RouterMoves
<1>3. CASE LoadToMerge(r) \/ LoadToOpen(r) \/ LoadToClear(r)
  <2>1. UNCHANGED <<incidents, second, ack, tick>>
    BY <1>3 DEF LoadToMerge, LoadToOpen, LoadToClear, world
  <2> QED  BY <1>3, <2>1, LoadingMoves, RouterMoves
<1>4. CASE CheckMember(r) \/ AllChecked(r)
  <2>1. UNCHANGED <<incidents, second, ack, tick>>
    BY <1>4 DEF CheckMember, AllChecked, world
  <2> QED  BY <1>4, <2>1, CheckingMoves, RouterMoves
<1>5. CASE PointTaken(r) \/ SaveConflict(r)
  <2>1. UNCHANGED <<incidents, second, ack, tick>> /\ Retry(r) /\ run[r].pc \in {"point", "save"}
    BY <1>5 DEF PointTaken, SaveConflict, world
  <2> QED  BY <2>1, RetryMoves, RouterMoves
<1>6. CASE Point(r)
  <2> DEFINE x == [run[r] EXCEPT !.pc = "save"]
  <2>1. run[r].pc = "point" /\ Become(r, x) /\ UNCHANGED <<incidents, second, ack, tick>>
    BY <1>6 DEF Point, world
  <2>2. /\ x \in RunType /\ x.pc = "save" /\ x.now = run[r].now
        /\ x.id = run[r].id /\ x.base = run[r].base /\ x.next = run[r].next
    BY RunFacts DEF RunType
  <2> HIDE DEF x
  <2>3. RunOK(x, incidents, second)
    BY <2>1, <2>2, RunFacts DEF RunOK
  <2> QED  BY <2>1, <2>3, RouterMoves
<1>7. CASE Unpoint(r) \/ RouterGivesUp(r) \/ RouterDies(r)
  <2>1. Become(r, Idle) /\ UNCHANGED <<incidents, second, ack, tick>>
    BY <1>7 DEF Unpoint, RouterGivesUp, RouterDies, world
  <2> QED  BY <2>1, IdleOK, RouterMoves
<1>8. CASE Save(r)
  <2> DEFINE x == IF run[r].next.status = "resolved" THEN [Idle EXCEPT !.pc = "unpoint", !.id = run[r].id]
                  ELSE Idle
  <2>1. /\ run[r].pc = "save" /\ incidents[run[r].id].version = run[r].base.version
        /\ incidents' = [incidents EXCEPT ![run[r].id] =
             [run[r].next EXCEPT !.version = run[r].base.version + 1]]
        /\ run' = [run EXCEPT ![r] = x] /\ UNCHANGED <<second, ack, tick>>
    BY <1>8 DEF Save, Become, world
  <2>2. Current(run[r].base, run[r].id, incidents) /\ StepOf(run[r].base, run[r].next)
    BY <2>1, RunFacts DEF RunOK
  <2>3. ItemsOK(incidents') /\ Grown(incidents, incidents')
    <3>1. run[r].next \in IncidentType /\ run[r].next.status # "none"
      BY <2>2, StepNotNone
    <3> QED  BY <2>1, <2>2, <3>1, SaveWrites
  <2>4. x \in RunType /\ x.pc \in {"idle", "unpoint"} /\ x.now = 0
    <3>1. [Idle EXCEPT !.pc = "unpoint", !.id = run[r].id] \in RunType
      BY IdleTypes, RunFacts DEF RunType
    <3>2. /\ [Idle EXCEPT !.pc = "unpoint", !.id = run[r].id].pc = "unpoint"
          /\ [Idle EXCEPT !.pc = "unpoint", !.id = run[r].id].now = 0
      BY IdleTypes DEF RunType
    <3> QED  BY <3>1, <3>2, IdleTypes
  <2> HIDE DEF x
  <2>5. second' \in Nat /\ second <= second' /\ RunOK(x, incidents', second')
    BY <2>1, <2>4 DEF RunOK, IncidentInv, OthersOK
  <2>6. ReadersOK'
    BY <2>1, <2>3, <2>5, ReadersKeep DEF IncidentInv
  <2> QED  BY <2>3, <2>6
<1> QED  BY <1>1, <1>2, <1>3, <1>4, <1>5, <1>6, <1>7, <1>8 DEF Route, Sync
--------------------------------------------------------------------------------
LEMMA ReadNow ==
  ASSUME IncidentInv, NEW id \in Ids
  PROVE  Current(incidents[id], id, incidents) /\ incidents[id] \in IncidentType
<1>1. ItemOK(incidents[id]) /\ incidents[id] \in IncidentType /\ incidents[id].version \in Nat
  BY DEF IncidentInv, ItemsOK, ItemOK, IncidentType
<1> QED  BY <1>1 DEF Current

LEMMA AckMoves ==
  ASSUME IncidentInv, NEW p \in People, NEW x, ack' = [ack EXCEPT ![p] = x], AckOK(x, incidents),
         UNCHANGED <<incidents, second, run, tick>>
  PROVE  ItemsOK(incidents)' /\ ReadersOK'
<1>1. ItemsOK(incidents') /\ Grown(incidents, incidents')
  BY SameItems DEF IncidentInv
<1>2. second' \in Nat /\ second <= second' /\ AckOK(x, incidents')
  BY DEF IncidentInv, OthersOK
<1> QED  BY <1>1, <1>2, ReadersKeep DEF IncidentInv

LEMMA AckFacts ==
  ASSUME IncidentInv, NEW p \in People
  PROVE  /\ AckOK(ack[p], incidents) /\ ack[p] \in AckType
         /\ ack[p].id \in Ids \cup {None} /\ ack[p].attempt \in 0..MaxAttempts - 1
         /\ AckOK(NoAck, incidents)
<1>1. AckOK(ack[p], incidents) /\ ack[p] \in AckType
  BY DEF IncidentInv, ReadersOK, AckOK
<1> QED  BY <1>1, IdleTypes DEF AckType, AckOK

LEMMA AcksKeep ==
  ASSUME IncidentInv, NEW p \in People, Request(p) \/ AckStep(p)
  PROVE  ItemsOK(incidents)' /\ ReadersOK'
<1>1. CASE Request(p)
  <2>1. PICK id \in Ids : RequestAck(p, id)
    BY <1>1 DEF Request
  <2> DEFINE x == [NoAck EXCEPT !.pc = "save", !.id = id, !.base = incidents[id]]
  <2>2. x \in AckType /\ x.pc = "save" /\ x.id = id /\ x.base = incidents[id]
    BY IdleTypes, ReadNow DEF AckType
  <2>3. ack' = [ack EXCEPT ![p] = x] /\ UNCHANGED <<incidents, second, run, tick>>
    BY <2>1 DEF RequestAck, world
  <2> HIDE DEF x
  <2>4. AckOK(x, incidents)
    BY <2>1, <2>2, ReadNow DEF AckOK, RequestAck
  <2> QED  BY <2>3, <2>4, AckMoves
<1>2. CASE AckRead(p)
  <2>1. ack[p].pc = "read" /\ ack[p].id \in Ids
    BY <1>2, AckFacts DEF AckRead, AckOK
  <2> DEFINE x == [ack[p] EXCEPT !.pc = "save", !.base = incidents[ack[p].id]]
  <2>2. x \in AckType /\ x.pc = "save" /\ x.id = ack[p].id /\ x.base = incidents[ack[p].id]
    BY <2>1, AckFacts, ReadNow DEF AckType
  <2>3. UNCHANGED <<incidents, second, run, tick>>
        /\ ack' = [ack EXCEPT ![p] = IF incidents[ack[p].id].status = "triggered" THEN x ELSE NoAck]
    BY <1>2 DEF AckRead, world
  <2> HIDE DEF x
  <2>4. incidents[ack[p].id].status = "triggered" => AckOK(x, incidents)
    BY <2>1, <2>2, ReadNow DEF AckOK
  <2> QED  BY <2>3, <2>4, AckFacts, AckMoves
<1>3. CASE AckConflict(p)
  <2>1. ack[p].pc = "save" /\ ack[p].id \in Ids
    BY <1>3, AckFacts DEF AckConflict, AckOK, Current
  <2> DEFINE x == [NoAck EXCEPT !.pc = "read", !.id = ack[p].id, !.attempt = ack[p].attempt + 1]
  <2>2. UNCHANGED <<incidents, second, run, tick>>
        /\ ack' = [ack EXCEPT ![p] = IF ack[p].attempt + 1 < MaxAttempts THEN x ELSE NoAck]
    BY <1>3 DEF AckConflict, world
  <2>3. CASE ack[p].attempt + 1 < MaxAttempts
    <3>1. ack[p].attempt + 1 \in 0..MaxAttempts - 1
      BY <2>3, AckFacts, IncidentAssumption
    <3>2. x \in AckType /\ x.pc = "read" /\ x.id = ack[p].id
      BY <2>1, <3>1, IdleTypes DEF AckType
    <3> HIDE DEF x
    <3>3. AckOK(x, incidents)
      BY <2>1, <3>2 DEF AckOK
    <3> QED  BY <2>2, <2>3, <3>3, AckMoves
  <2>4. CASE ~(ack[p].attempt + 1 < MaxAttempts)
    BY <2>2, <2>4, AckFacts, AckMoves
  <2> QED  BY <2>3, <2>4
<1>4. CASE AckSave(p)
  <2> DEFINE next == [ack[p].base EXCEPT !.status = "acknowledged", !.by = p]
  <2>1. /\ ack[p].pc = "save" /\ incidents[ack[p].id].version = ack[p].base.version
        /\ incidents' = [incidents EXCEPT ![ack[p].id] =
             [ack[p].base EXCEPT !.status = "acknowledged", !.by = p, !.version = ack[p].base.version + 1]]
        /\ ack' = [ack EXCEPT ![p] = NoAck] /\ UNCHANGED <<second, run, tick>>
    BY <1>4 DEF AckSave, world
  <2>2. Current(ack[p].base, ack[p].id, incidents)
    BY <2>1, AckFacts DEF AckOK
  <2>3. ack[p].base \in IncidentType
    BY <2>2 DEF Current, ItemOK
  <2>4. next \in IncidentType /\ next.status # "none"
    BY <2>3 DEF IncidentType, Statuses
  <2>5. incidents' = [incidents EXCEPT ![ack[p].id] = [next EXCEPT !.version = ack[p].base.version + 1]]
    BY <2>1
  <2> HIDE DEF next
  <2>6. ItemsOK(incidents') /\ Grown(incidents, incidents')
    BY <2>1, <2>2, <2>4, <2>5, SaveWrites
  <2>7. second' \in Nat /\ second <= second' /\ AckOK(NoAck, incidents')
    BY <2>1, IdleTypes DEF AckOK, IncidentInv, OthersOK
  <2>8. ReadersOK'
    BY <2>1, <2>6, <2>7, ReadersKeep DEF IncidentInv
  <2> QED  BY <2>6, <2>8
<1> QED  BY <1>1, <1>2, <1>3, <1>4 DEF AckStep
--------------------------------------------------------------------------------
LEMMA TickFacts ==
  ASSUME IncidentInv
  PROVE  /\ TickOK(tick, incidents) /\ tick \in TickType /\ TickOK(NoTick, incidents)
         /\ tick.pc # "idle" => /\ Current(tick.base, tick.id, incidents) /\ IsOpen(tick.base)
                                /\ tick.base \in IncidentType /\ tick.base.members \subseteq Series
                                /\ tick.id \in Ids
         /\ tick.todo \subseteq Series /\ tick.quiet \subseteq Series
<1>1. TickOK(tick, incidents) /\ tick \in TickType
  BY DEF IncidentInv, ReadersOK, TickOK
<1>2. tick.todo \subseteq Series /\ tick.quiet \subseteq Series
  BY <1>1 DEF TickType
<1>3. tick.pc # "idle" => /\ Current(tick.base, tick.id, incidents) /\ IsOpen(tick.base)
                          /\ tick.base \in IncidentType /\ tick.id \in Ids
  BY <1>1 DEF TickOK, Current, ItemOK
<1> QED  BY <1>1, <1>2, <1>3, IdleTypes DEF TickOK, IncidentType

LEMMA TickMoves ==
  ASSUME IncidentInv, TickOK(tick', incidents), UNCHANGED <<incidents, second, run, ack>>
  PROVE  ItemsOK(incidents)' /\ ReadersOK'
<1>1. ItemsOK(incidents') /\ Grown(incidents, incidents')
  BY SameItems DEF IncidentInv
<1>2. second' \in Nat /\ second <= second' /\ TickOK(tick', incidents')
  BY DEF IncidentInv, OthersOK
<1> QED  BY <1>1, <1>2, ReadersKeep DEF IncidentInv

(* The tick goes on with the incident it is at.                                *)
LEMMA TickGoesOn ==
  ASSUME IncidentInv, tick.pc # "idle", NEW x \in TickType, x.id = tick.id, x.base = tick.base
  PROVE  TickOK(x, incidents)
  BY TickFacts DEF TickOK

LEMMA LookingKeeps ==
  ASSUME IncidentInv,
         \/ TickStale \/ TickAllClosed \/ TickOpen \/ TickOpenRead
         \/ TickSilent \/ TickKeeps \/ TickAllSilent \/ TickUnpoint
  PROVE  ItemsOK(incidents)' /\ ReadersOK'
<1>1. tick.pc # "idle" /\ UNCHANGED <<incidents, second, run, ack>>
  BY DEF TickStale, TickAllClosed, TickOpen, TickOpenRead, TickSilent, TickKeeps, TickAllSilent,
         TickUnpoint, world
<1>2. tick' \in TickType /\ tick'.id = tick.id /\ tick'.base = tick.base
  <2>0. /\ tick \in TickType /\ tick.todo \subseteq Series /\ tick.quiet \subseteq Series
        /\ tick.base.members \subseteq Series
    BY <1>1, TickFacts
  <2>1. CASE TickStale
    BY <2>0, <2>1 DEF TickStale, TickType
  <2>2. CASE TickAllClosed \/ TickAllSilent \/ TickUnpoint
    BY <2>0, <2>2 DEF TickAllClosed, TickAllSilent, TickUnpoint, TickType
  <2>3. CASE TickOpen
    <3>1. PICK s \in tick.todo :
            tick' = [tick EXCEPT !.todo = @ \ {s}, !.quiet = IF episode[s] THEN @ \cup {s} ELSE @]
      BY <2>3 DEF TickOpen
    <3> DEFINE quiet == IF episode[s] THEN tick.quiet \cup {s} ELSE tick.quiet
               todo == tick.todo \ {s}
    <3>2. quiet \in SUBSET Series /\ todo \in SUBSET Series
      BY <2>0
    <3>3. tick' = [tick EXCEPT !.todo = todo, !.quiet = quiet]
      BY <3>1
    <3> HIDE DEF quiet, todo
    <3> QED  BY <2>0, <3>2, <3>3 DEF TickType
  <2>4. CASE TickOpenRead
    BY <2>0, <2>4 DEF TickOpenRead, TickType
  <2>5. CASE TickSilent \/ TickKeeps
    BY <2>0, <2>5 DEF TickSilent, TickKeeps, TickType
  <2> QED  BY <2>1, <2>2, <2>3, <2>4, <2>5
<1>3. TickOK(tick', incidents)
  BY <1>1, <1>2, TickGoesOn
<1> QED  BY <1>1, <1>3, TickMoves

LEMMA ResolvedItem ==
  ASSUME NEW i \in IncidentType, NEW n \in Nat
  PROVE  LET item == [i EXCEPT !.status = "resolved", !.version = n]
         IN  item \in IncidentType /\ item.version = n /\ item.status = "resolved"
             /\ item.members = i.members /\ item.by = i.by
  BY DEF IncidentType, Statuses

LEMMA ClosingKeeps ==
  ASSUME IncidentInv, TickClose
  PROVE  ItemsOK(incidents)' /\ ReadersOK'
<1>0. tick.pc # "idle" /\ tick.id \in Ids /\ UNCHANGED <<second, run, ack>>
  BY TickFacts DEF TickClose, world
<1>1. CASE incidents[tick.id].status = "resolved"
  <2>1. tick' = [tick EXCEPT !.pc = "renotify"] /\ UNCHANGED incidents
    BY <1>1 DEF TickClose
  <2>2. tick' \in TickType /\ tick'.id = tick.id /\ tick'.base = tick.base
    BY <2>1, TickFacts DEF TickType
  <2> QED  BY <1>0, <2>1, <2>2, TickGoesOn, TickMoves
<1>2. CASE incidents[tick.id].status # "resolved"
  <2> DEFINE i == incidents[tick.id]
             item == [i EXCEPT !.status = "resolved", !.version = @ + 1]
  <2>1. /\ tick' = [tick EXCEPT !.pc = "unpoint"]
        /\ incidents' = [incidents EXCEPT ![tick.id].status = "resolved", ![tick.id].version = @ + 1]
    BY <1>2 DEF TickClose
  <2>2. i \in IncidentType /\ i.version \in Nat
    BY <1>0, ReadNow DEF IncidentType
  <2>3. item \in IncidentType /\ item.version = i.version + 1 /\ item.status = "resolved"
    <3>1. i.version + 1 \in Nat
      BY <2>2
    <3> QED  BY <2>2, <3>1, ResolvedItem
  <2>4. incidents' = [incidents EXCEPT ![tick.id] = item]
    BY <1>0, <2>1, <2>2 DEF IncidentInv, ItemsOK
  <2> HIDE DEF item
  <2>5. ItemOK(item) /\ item.version > incidents[tick.id].version
    BY <2>2, <2>3 DEF ItemOK
  <2>6. ItemsOK(incidents') /\ Grown(incidents, incidents')
    BY <1>0, <2>4, <2>5, ItemWritten DEF IncidentInv
  <2>7. tick' \in TickType /\ tick'.id = tick.id /\ tick'.base = tick.base
    BY <2>1, TickFacts DEF TickType
  <2>8. TickOK(tick', incidents')
    BY <1>0, <2>6, <2>7, TickGoesOn, TickGrows DEF IncidentInv
  <2>9. second' \in Nat /\ second <= second'
    BY <1>0 DEF IncidentInv, OthersOK
  <2> QED  BY <1>0, <2>6, <2>8, <2>9, ReadersKeep DEF IncidentInv
<1> QED  BY <1>1, <1>2

LEMMA EndingKeeps ==
  ASSUME IncidentInv, TickEpisode \/ TickRenotify \/ TickDies
  PROVE  ItemsOK(incidents)' /\ ReadersOK'
<1>0. TickOK(NoTick, incidents)
  BY TickFacts
<1>1. CASE TickEpisode
  <2>1. tick.pc = "episodes" /\ UNCHANGED <<incidents, second, run, ack>>
    BY <1>1 DEF TickEpisode
  <2>2. CASE tick' = NoTick
    BY <1>0, <2>1, <2>2, TickMoves
  <2>3. CASE tick' # NoTick
    <3>1. PICK s \in tick.quiet : tick' = [tick EXCEPT !.quiet = @ \ {s}]
      BY <1>1, <2>3 DEF TickEpisode
    <3>2. tick' \in TickType /\ tick'.id = tick.id /\ tick'.base = tick.base
      BY <3>1, TickFacts DEF TickType
    <3> QED  BY <2>1, <3>2, TickGoesOn, TickMoves
  <2> QED  BY <2>2, <2>3
<1>2. CASE TickRenotify
  <2>1. tick.pc = "renotify" /\ tick' = NoTick /\ UNCHANGED <<second, run, ack>>
    BY <1>2 DEF TickRenotify, world
  <2>2. CASE UNCHANGED incidents
    BY <1>0, <2>1, <2>2, TickMoves
  <2>3. CASE ~UNCHANGED incidents
    <3>1. /\ incidents[tick.id].version = tick.base.version /\ tick.base.status = "acknowledged"
          /\ incidents' = [incidents EXCEPT ![tick.id] =
               [tick.base EXCEPT !.version = tick.base.version + 1]]
      BY <1>2, <2>3 DEF TickRenotify
    <3>2. Current(tick.base, tick.id, incidents) /\ tick.base \in IncidentType
      BY <2>1, TickFacts
    <3>3. ItemsOK(incidents') /\ Grown(incidents, incidents')
      BY <3>1, <3>2, SaveWrites
    <3>4. second' \in Nat /\ second <= second' /\ TickOK(NoTick, incidents')
      BY <2>1, IdleTypes DEF IncidentInv, OthersOK, TickOK
    <3>5. ReadersOK'
      BY <2>1, <3>3, <3>4, ReadersKeep DEF IncidentInv
    <3> QED  BY <3>3, <3>5
  <2> QED  BY <2>2, <2>3
<1>3. CASE TickDies
  BY <1>0, <1>3, TickMoves DEF TickDies, world
<1> QED  BY <1>1, <1>2, <1>3

LEMMA StartTickKeeps ==
  ASSUME IncidentInv, NEW id \in Ids, StartTick(id)
  PROVE  ItemsOK(incidents)' /\ ReadersOK'
<1> DEFINE x == [NoTick EXCEPT !.pc = "stale", !.id = id, !.base = incidents[id],
                               !.todo = incidents[id].members]
<1>1. /\ tick' = x /\ IsOpen(incidents[id]) /\ UNCHANGED <<incidents, second, run, ack>>
  BY DEF StartTick, world
<1>2. incidents[id] \in IncidentType /\ incidents[id].members \subseteq Series
  BY ReadNow DEF IncidentType
<1>3. x \in TickType /\ x.id = id /\ x.base = incidents[id]
  BY <1>2, IdleTypes DEF TickType
<1> HIDE DEF x
<1>4. TickOK(x, incidents)
  BY <1>1, <1>3, ReadNow DEF TickOK
<1> QED  BY <1>1, <1>4, TickMoves

LEMMA WorldKeeps ==
  ASSUME IncidentInv, Environment \/ UNCHANGED vars
  PROVE  ItemsOK(incidents)' /\ ReadersOK'
<1>1. UNCHANGED <<incidents, run, ack, tick>> /\ second' \in {second, second + 1}
  BY DEF Environment, Second, Fire, Clear, Delete, vars
<1>2. ItemsOK(incidents') /\ Grown(incidents, incidents')
  BY <1>1, SameItems DEF IncidentInv
<1>3. second' \in Nat /\ second <= second'
  BY <1>1 DEF IncidentInv, OthersOK
<1> QED  BY <1>1, <1>2, <1>3, ReadersKeep DEF IncidentInv

(* Whatever step is made: items, and what was read of them.                    *)
LEMMA ReadersStep ==
  ASSUME IncidentInv, [Next]_vars
  PROVE  ItemsOK(incidents)' /\ ReadersOK'
<1>1. CASE Environment \/ UNCHANGED vars
  BY <1>1, WorldKeeps
<1>2. CASE \E r \in Routers : Route(r)
  BY <1>2, RouteKeeps
<1>3. CASE \E p \in People : Request(p) \/ AckStep(p)
  BY <1>3, AcksKeep
<1>4. CASE \E id \in Ids : StartTick(id)
  BY <1>4, StartTickKeeps
<1>5. CASE TickStep \/ TickDies
  BY <1>5, LookingKeeps, ClosingKeeps, EndingKeeps DEF TickStep
<1> QED  BY <1>1, <1>2, <1>3, <1>4, <1>5 DEF Next
--------------------------------------------------------------------------------
LostType == [Series -> {"no", "unrecorded", "tick"}]

LeftType == [{"fires", "deletes", "renotices", "faults"} -> Nat]

LEMMA SpendKeeps ==
  ASSUME left \in LeftType, NEW what \in {"fires", "deletes", "renotices", "faults"}, Spend(what)
  PROVE  left' \in LeftType
<1>1. left[what] \in Nat /\ left[what] > 0
  BY DEF LeftType, Spend
<1>2. left[what] - 1 \in Nat
  BY <1>1
<1> QED  BY <1>2 DEF LeftType, Spend

LEMMA LoseKeeps ==
  ASSUME lost \in LostType, NEW S, NEW why \in {"no", "unrecorded", "tick"}, Lose(S, why)
  PROVE  lost' \in LostType
  BY DEF LostType, Lose

LEMMA RetryLoses ==
  ASSUME lost \in LostType, NEW r, Retry(r)
  PROVE  lost' \in LostType
  BY LoseKeeps DEF Retry

(* The variables that only have a type.                                        *)
TypesOK ==
  /\ alarm \in [Series -> BOOLEAN] /\ episode \in [Series -> BOOLEAN]
  /\ started \in [Series -> Nat]
  /\ pending \in SUBSET Series /\ clears \in BOOLEAN
  /\ lost \in LostType /\ left \in LeftType

LEMMA OthersAre ==
  OthersOK <=> second \in 1..Horizon /\ pointer \in Ids \cup {None} /\ TypesOK
  BY DEF OthersOK, TypesOK, LostType, LeftType

LEMMA WorldTypes ==
  ASSUME IncidentInv, Environment \/ UNCHANGED vars
  PROVE  OthersOK'
<1>0. second \in 1..Horizon /\ pointer \in Ids \cup {None} /\ TypesOK /\ second \in Nat
  BY OthersAre DEF IncidentInv
<1>1. CASE Second
  BY <1>0, <1>1, IncidentAssumption DEF Second, OthersOK, TypesOK, LostType, LeftType
<1>2. ASSUME NEW s \in Series, Fire(s) PROVE OthersOK'
  <2>1. left' \in LeftType
    BY <1>0, <1>2, SpendKeeps DEF Fire, TypesOK
  <2>2. lost' \in LostType /\ pending' \in SUBSET Series
    BY <1>0, <1>2 DEF Fire, TypesOK, LostType
  <2>3. alarm' \in [Series -> BOOLEAN] /\ episode' \in [Series -> BOOLEAN]
    BY <1>0, <1>2 DEF Fire, TypesOK
  <2>4. started' \in [Series -> Nat]
    BY <1>0, <1>2 DEF Fire, TypesOK
  <2>5. UNCHANGED <<second, pointer, clears>>
    BY <1>2 DEF Fire
  <2> QED  BY <1>0, <2>1, <2>2, <2>3, <2>4, <2>5 DEF OthersOK, TypesOK, LostType, LeftType
<1>3. ASSUME NEW s \in Series, Clear(s) PROVE OthersOK'
  <2>1. alarm' \in [Series -> BOOLEAN] /\ episode' \in [Series -> BOOLEAN] /\ clears' \in BOOLEAN
    BY <1>0, <1>3 DEF Clear, TypesOK
  <2>2. UNCHANGED <<second, pointer, started, pending, lost, left>>
    BY <1>3 DEF Clear
  <2> QED  BY <1>0, <2>1, <2>2 DEF OthersOK, TypesOK, LostType, LeftType
<1>4. ASSUME NEW s \in Series, Delete(s) PROVE OthersOK'
  <2>1. alarm' \in [Series -> BOOLEAN] /\ left' \in LeftType
    BY <1>0, <1>4, SpendKeeps DEF Delete, TypesOK
  <2>2. UNCHANGED <<second, pointer, episode, started, pending, clears, lost>>
    BY <1>4 DEF Delete
  <2> QED  BY <1>0, <2>1, <2>2 DEF OthersOK, TypesOK, LostType, LeftType
<1>5. CASE UNCHANGED vars
  BY <1>0, <1>5 DEF vars, OthersOK, TypesOK, LostType, LeftType
<1> QED  BY <1>1, <1>2, <1>3, <1>4, <1>5 DEF Environment

LEMMA RouteTypes ==
  ASSUME IncidentInv, NEW r \in Routers, Route(r)
  PROVE  OthersOK'
<1>0. second \in 1..Horizon /\ pointer \in Ids \cup {None} /\ TypesOK
  BY OthersAre DEF IncidentInv
<1>1. UNCHANGED <<second, alarm, episode, started>>
  BY DEF Route, Start, StartRouter, Sync, ReadPointer, LoadToMerge, LoadToOpen, LoadToClear,
         CheckMember, AllChecked, Point, PointTaken, Save, SaveConflict, Unpoint, RouterGivesUp,
         RouterDies, world
<1>2. pending' \in SUBSET Series /\ clears' \in BOOLEAN
  <2>1. CASE Start(r)
    BY <1>0, <2>1 DEF Start, StartRouter, TypesOK
  <2>2. CASE RouterDies(r)
    BY <1>0, <2>2, RunFacts DEF RouterDies, TypesOK
  <2>3. CASE Sync(r) \/ RouterGivesUp(r)
    <3>1. UNCHANGED <<pending, clears>>
      BY <2>3 DEF Sync, ReadPointer, LoadToMerge, LoadToOpen, LoadToClear, CheckMember, AllChecked,
                  Point, PointTaken, Save, SaveConflict, Unpoint, RouterGivesUp, world
    <3> QED  BY <1>0, <3>1 DEF TypesOK
  <2> QED  BY <2>1, <2>2, <2>3 DEF Route
<1>3. lost' \in LostType
  <2>1. CASE PointTaken(r) \/ SaveConflict(r)
    BY <1>0, <2>1, RetryLoses DEF PointTaken, SaveConflict, TypesOK
  <2>2. CASE RouterGivesUp(r)
    BY <1>0, <2>2, LoseKeeps DEF RouterGivesUp, TypesOK
  <2>3. CASE ~(PointTaken(r) \/ SaveConflict(r) \/ RouterGivesUp(r))
    <3>1. UNCHANGED lost
      BY <2>3 DEF Route, Start, StartRouter, Sync, ReadPointer, LoadToMerge, LoadToOpen,
                  LoadToClear, CheckMember, AllChecked, Point, Save, Unpoint, RouterDies
    <3> QED  BY <1>0, <3>1 DEF TypesOK
  <2> QED  BY <2>1, <2>2, <2>3
<1>4. left' \in LeftType
  <2>1. CASE CheckMember(r)
    BY <1>0, <2>1, SpendKeeps DEF CheckMember, ReadsOpen, TypesOK
  <2>2. CASE RouterGivesUp(r) \/ RouterDies(r)
    BY <1>0, <2>2, SpendKeeps DEF RouterGivesUp, RouterDies, TypesOK
  <2>3. CASE ~(CheckMember(r) \/ RouterGivesUp(r) \/ RouterDies(r))
    <3>1. UNCHANGED left
      BY <2>3 DEF Route, Start, StartRouter, Sync, ReadPointer, LoadToMerge, LoadToOpen,
                  LoadToClear, AllChecked, Point, PointTaken, Save, SaveConflict, Unpoint
    <3> QED  BY <1>0, <3>1 DEF TypesOK
  <2> QED  BY <2>1, <2>2, <2>3
<1>5. pointer' \in Ids \cup {None}
  <2>1. CASE Point(r)
    <3>1. run[r].id \in Ids /\ pointer' = run[r].id
      BY <2>1, RunFacts DEF Point, RunOK, Current
    <3> QED  BY <3>1
  <2>2. CASE Unpoint(r)
    BY <1>0, <2>2 DEF Unpoint, Unpointed
  <2>3. CASE ~(Point(r) \/ Unpoint(r))
    <3>1. UNCHANGED pointer
      BY <2>3 DEF Route, Start, StartRouter, Sync, ReadPointer, LoadToMerge, LoadToOpen,
                  LoadToClear, CheckMember, AllChecked, PointTaken, Save, SaveConflict,
                  RouterGivesUp, RouterDies
    <3> QED  BY <1>0, <3>1
  <2> QED  BY <2>1, <2>2, <2>3
<1> QED  BY <1>0, <1>1, <1>2, <1>3, <1>4, <1>5 DEF OthersOK, TypesOK, LostType, LeftType

LEMMA AckTypes ==
  ASSUME IncidentInv, NEW p \in People, Request(p) \/ AckStep(p)
  PROVE  OthersOK'
<1>1. UNCHANGED <<world, pointer, lost, left>>
  BY DEF Request, RequestAck, AckStep, AckRead, AckSave, AckConflict
<1>2. UNCHANGED <<second, alarm, episode, started, pending, clears, pointer, lost, left>>
  BY <1>1 DEF world
<1> QED  BY <1>2 DEF OthersOK, IncidentInv

LEMMA TickTypes ==
  ASSUME IncidentInv, TickStep \/ TickDies \/ \E id \in Ids : StartTick(id)
  PROVE  OthersOK'
<1>0. second \in 1..Horizon /\ pointer \in Ids \cup {None} /\ TypesOK
  BY OthersAre DEF IncidentInv
<1>1. UNCHANGED <<second, alarm, started, pending, clears>>
  BY DEF TickStep, TickStale, TickAllClosed, TickOpen, TickOpenRead, TickSilent, TickKeeps,
         TickAllSilent, TickClose, TickUnpoint, TickEpisode, TickRenotify, TickDies, StartTick, world
<1>2. episode' \in [Series -> BOOLEAN]
  <2>1. CASE TickEpisode
    BY <1>0, <2>1 DEF TickEpisode, TypesOK
  <2>2. CASE ~TickEpisode
    <3>1. UNCHANGED episode
      BY <2>2 DEF TickStep, TickStale, TickAllClosed, TickOpen, TickOpenRead, TickSilent, TickKeeps,
                  TickAllSilent, TickClose, TickUnpoint, TickRenotify, TickDies, StartTick, world
    <3> QED  BY <1>0, <3>1 DEF TypesOK
  <2> QED  BY <2>1, <2>2
<1>3. lost' \in LostType
  <2>1. CASE TickClose
    BY <1>0, <2>1, LoseKeeps DEF TickClose, TypesOK
  <2>2. CASE ~TickClose
    <3>1. UNCHANGED lost
      BY <2>2 DEF TickStep, TickStale, TickAllClosed, TickOpen, TickOpenRead, TickSilent, TickKeeps,
                  TickAllSilent, TickUnpoint, TickEpisode, TickRenotify, TickDies, StartTick
    <3> QED  BY <1>0, <3>1 DEF TypesOK
  <2> QED  BY <2>1, <2>2
<1>4. left' \in LeftType
  <2>1. CASE TickStale
    BY <1>0, <2>1, SpendKeeps DEF TickStale, ReadsOpen, TypesOK
  <2>2. CASE TickKeeps
    BY <1>0, <2>2, SpendKeeps DEF TickKeeps, TypesOK
  <2>3. CASE TickRenotify \/ TickDies
    BY <1>0, <2>3, SpendKeeps DEF TickRenotify, TickDies, TypesOK
  <2>4. CASE ~(TickStale \/ TickKeeps \/ TickRenotify \/ TickDies)
    <3>1. UNCHANGED left
      BY <2>4 DEF TickStep, TickAllClosed, TickOpen, TickOpenRead, TickSilent, TickAllSilent,
                  TickClose, TickUnpoint, TickEpisode, StartTick
    <3> QED  BY <1>0, <3>1 DEF TypesOK
  <2> QED  BY <2>1, <2>2, <2>3, <2>4
<1>5. pointer' \in Ids \cup {None}
  <2>1. CASE TickUnpoint
    BY <1>0, <2>1 DEF TickUnpoint, Unpointed
  <2>2. CASE ~TickUnpoint
    <3>1. UNCHANGED pointer
      BY <2>2 DEF TickStep, TickStale, TickAllClosed, TickOpen, TickOpenRead, TickSilent, TickKeeps,
                  TickAllSilent, TickClose, TickEpisode, TickRenotify, TickDies, StartTick
    <3> QED  BY <1>0, <3>1
  <2> QED  BY <2>1, <2>2
<1> QED  BY <1>0, <1>1, <1>2, <1>3, <1>4, <1>5 DEF OthersOK, TypesOK, LostType, LeftType

LEMMA StepInv == IncidentInv /\ [Next]_vars => IncidentInv'
<1> SUFFICES ASSUME IncidentInv, [Next]_vars PROVE IncidentInv'
  OBVIOUS
<1>1. OthersOK'
  BY WorldTypes, RouteTypes, AckTypes, TickTypes DEF Next
<1>2. ItemsOK(incidents)' /\ ReadersOK'
  BY ReadersStep
<1> QED  BY <1>1, <1>2 DEF IncidentInv

(* What a router, a person or the tick has read of an incident is the item it  *)
(* will write, or older than it; the condition on the version tells them apart.*)
THEOREM IncidentInvariant == Spec => []IncidentInv
<1> QED  BY InitInv, StepInv, PTL DEF Spec

(* Every variable keeps its type.                                              *)
THEOREM IncidentTypes == Spec => []TypeOK
<1>1. IncidentInv => TypeOK
  BY DEF IncidentInv, ItemsOK, ReadersOK, TickOK, OthersOK, TypeOK
<1> QED  BY <1>1, IncidentInvariant, PTL
--------------------------------------------------------------------------------
(* Each write of an item is a step of its life, or changes nothing in it.      *)
Lives == [id \in Ids |-> Life(incidents[id])]

LEMMA LifeWritten ==
  ASSUME ItemsOK(incidents), NEW id \in Ids, NEW item, incidents' = [incidents EXCEPT ![id] = item]
  PROVE  /\ Lives' = [Lives EXCEPT ![id] = Life(item)]
         /\ Lives[id] = Life(incidents[id])
<1>1. ASSUME NEW k \in Ids PROVE incidents'[k] = IF k = id THEN item ELSE incidents[k]
  BY DEF ItemsOK
<1>2. Lives' = [k \in Ids |-> Life(incidents'[k])]
  BY DEF Lives, Life
<1>3. ASSUME NEW k \in Ids
      PROVE  Life(incidents'[k]) = IF k = id THEN Life(item) ELSE Lives[k]
  BY <1>1 DEF Lives
<1>4. [Lives EXCEPT ![id] = Life(item)] = [k \in Ids |-> IF k = id THEN Life(item) ELSE Lives[k]]
  BY DEF Lives
<1> HIDE DEF Lives
<1>5. Lives' = [k \in Ids |-> IF k = id THEN Life(item) ELSE Lives[k]]
  BY <1>2, <1>3
<1>6. Lives[id] = Life(incidents[id])
  BY DEF Lives
<1> QED  BY <1>4, <1>5, <1>6

LEMMA LifeStays ==
  ASSUME ItemsOK(incidents), NEW id \in Ids, NEW item, incidents' = [incidents EXCEPT ![id] = item],
         Life(item) = Life(incidents[id])
  PROVE  Lives' = Lives
  BY LifeWritten DEF Lives

LEMMA LifeOpens ==
  ASSUME ItemsOK(incidents), NEW id \in Ids, NEW item \in IncidentType,
         incidents' = [incidents EXCEPT ![id] = item], incidents[id].status = "none",
         item.status = "triggered", item.by = Nobody
  PROVE  [L!Next]_Lives
<1>0. Lives' = [Lives EXCEPT ![id] = Life(item)] /\ Lives[id] = Life(incidents[id])
  BY LifeWritten
<1>1. Life(item) = [status |-> "triggered", members |-> item.members, by |-> Nobody]
  BY DEF Life
<1>2. Lives[id].status = "none" /\ item.members \in SUBSET Series
  BY <1>0 DEF Life, IncidentType
<1>3. L!Open(id, item.members)
  BY <1>0, <1>1, <1>2 DEF L!Open, Lives
<1> QED  BY <1>2, <1>3 DEF L!Next

LEMMA LifeMerges ==
  ASSUME ItemsOK(incidents), NEW id \in Ids, NEW item \in IncidentType,
         incidents' = [incidents EXCEPT ![id] = item], IsOpen(incidents[id]),
         item.status = incidents[id].status, item.by = incidents[id].by,
         incidents[id].members \subseteq item.members
  PROVE  [L!Next]_Lives
<1>0. Lives' = [Lives EXCEPT ![id] = Life(item)] /\ Lives[id] = Life(incidents[id])
  BY LifeWritten
<1>1. Life(item) = [Lives[id] EXCEPT !.members = @ \cup item.members]
  <2>1. incidents[id].members \cup item.members = item.members
    OBVIOUS
  <2>2. Lives[id] = [status |-> item.status, members |-> incidents[id].members, by |-> item.by]
    BY <1>0 DEF Life
  <2>3. [Lives[id] EXCEPT !.members = @ \cup item.members] =
          [status |-> item.status, members |-> incidents[id].members \cup item.members, by |-> item.by]
    BY <2>2
  <2> QED  BY <2>1, <2>3 DEF Life
<1>2. L!IsOpen(Lives[id]) /\ item.members \in SUBSET Series
  BY <1>0 DEF Life, L!IsOpen, IsOpen, IncidentType
<1>3. L!Merge(id, item.members)
  BY <1>0, <1>1, <1>2 DEF L!Merge, Lives
<1> QED  BY <1>2, <1>3 DEF L!Next

LEMMA LifeEnds ==
  ASSUME ItemsOK(incidents), NEW id \in Ids, NEW item,
         incidents' = [incidents EXCEPT ![id] = item], IsOpen(incidents[id]),
         item.status = "resolved", item.by = incidents[id].by, item.members = incidents[id].members
  PROVE  [L!Next]_Lives
<1>0. Lives' = [Lives EXCEPT ![id] = Life(item)] /\ Lives[id] = Life(incidents[id])
  BY LifeWritten
<1>1. Life(item) = [Lives[id] EXCEPT !.status = "resolved"]
  BY <1>0 DEF Life
<1>2. L!IsOpen(Lives[id])
  BY <1>0 DEF Life, L!IsOpen, IsOpen
<1>3. L!Resolve(id)
  BY <1>0, <1>1, <1>2 DEF L!Resolve, Lives
<1> QED  BY <1>3 DEF L!Next

LEMMA LifeAcknowledged ==
  ASSUME ItemsOK(incidents), NEW id \in Ids, NEW item, NEW p \in People,
         incidents' = [incidents EXCEPT ![id] = item], incidents[id].status = "triggered",
         item.status = "acknowledged", item.by = p, item.members = incidents[id].members
  PROVE  [L!Next]_Lives
<1>0. Lives' = [Lives EXCEPT ![id] = Life(item)] /\ Lives[id] = Life(incidents[id])
  BY LifeWritten
<1>1. Life(item) = [Lives[id] EXCEPT !.status = "acknowledged", !.by = p]
  <2>1. Lives[id] = [status |-> "triggered", members |-> item.members, by |-> incidents[id].by]
    BY <1>0 DEF Life
  <2> DEFINE half == [Lives[id] EXCEPT !.status = "acknowledged"]
  <2>2. half = [status |-> "acknowledged", members |-> item.members, by |-> incidents[id].by]
    BY <2>1
  <2>3. [Lives[id] EXCEPT !.status = "acknowledged", !.by = p] = [half EXCEPT !.by = p]
    OBVIOUS
  <2> HIDE DEF half
  <2>4. [half EXCEPT !.by = p] = [status |-> "acknowledged", members |-> item.members, by |-> p]
    BY <2>2
  <2> QED  BY <2>3, <2>4 DEF Life
<1>2. Lives[id].status = "triggered"
  BY <1>0 DEF Life
<1>3. L!Acknowledge(id, p)
  BY <1>0, <1>1, <1>2 DEF L!Acknowledge, Lives
<1> QED  BY <1>3 DEF L!Next

LEMMA SaveLives ==
  ASSUME IncidentInv, NEW r \in Routers, Save(r)
  PROVE  [L!Next]_Lives
<1> DEFINE base == run[r].base
           id == run[r].id
           next == run[r].next
           item == [next EXCEPT !.version = base.version + 1]
<1>1. /\ Current(base, id, incidents) /\ StepOf(base, next) /\ incidents[id].version = base.version
      /\ incidents' = [incidents EXCEPT ![id] = item]
  BY RunFacts DEF Save, RunOK
<1>2. /\ id \in Ids /\ base = incidents[id] /\ base.version \in Nat /\ next \in IncidentType
      /\ ItemsOK(incidents)
  BY <1>1 DEF Current, StepOf, ItemOK, IncidentType, IncidentInv
<1>3. /\ item \in IncidentType /\ item.status = next.status /\ item.members = next.members
      /\ item.by = next.by
  BY <1>2 DEF IncidentType
<1> HIDE DEF base, id, next, item
<1>4. CASE base = NoIncident /\ next.status = "triggered" /\ next.by = Nobody
  BY <1>1, <1>2, <1>3, <1>4, LifeOpens, NoIncidentType
<1>5. CASE /\ IsOpen(base) /\ next.status = base.status /\ next.by = base.by
           /\ base.members \subseteq next.members
  BY <1>1, <1>2, <1>3, <1>5, LifeMerges
<1>6. CASE /\ IsOpen(base) /\ next.status = "resolved" /\ next.by = base.by
           /\ next.members = base.members
  BY <1>1, <1>2, <1>3, <1>6, LifeEnds
<1> QED  BY <1>1, <1>4, <1>5, <1>6 DEF StepOf

LEMMA AckSaveLives ==
  ASSUME IncidentInv, NEW p \in People, AckSave(p)
  PROVE  [L!Next]_Lives
<1> DEFINE base == ack[p].base
           id == ack[p].id
           item == [base EXCEPT !.status = "acknowledged", !.by = p, !.version = base.version + 1]
<1>1. /\ Current(base, id, incidents) /\ base.status = "triggered"
      /\ incidents[id].version = base.version /\ incidents' = [incidents EXCEPT ![id] = item]
  BY AckFacts DEF AckSave, AckOK
<1>2. id \in Ids /\ base = incidents[id] /\ base \in IncidentType /\ ItemsOK(incidents)
  BY <1>1 DEF Current, ItemOK, IncidentInv
<1>3. item.status = "acknowledged" /\ item.members = base.members /\ item.by = p
  BY <1>2 DEF IncidentType
<1> HIDE DEF base, id, item
<1> QED  BY <1>1, <1>2, <1>3, LifeAcknowledged

(* The tick closes what is there now: an item that is there, so an open one.   *)
LEMMA TickCloseLives ==
  ASSUME IncidentInv, TickClose
  PROVE  [L!Next]_Lives
<1>1. tick.pc # "idle" /\ tick.id \in Ids /\ Current(tick.base, tick.id, incidents)
      /\ IsOpen(tick.base) /\ tick.base \in IncidentType
  BY TickFacts DEF TickClose
<1>2. CASE incidents[tick.id].status = "resolved"
  <2>1. UNCHANGED incidents
    BY <1>2 DEF TickClose
  <2> QED  BY <2>1 DEF Lives, Life
<1>3. CASE incidents[tick.id].status # "resolved"
  <2> DEFINE i == incidents[tick.id]
             n == i.version + 1
             item == [i EXCEPT !.status = "resolved", !.version = n]
  <2>1. ItemsOK(incidents) /\ ItemOK(i) /\ i \in IncidentType /\ i.version \in Nat /\ n \in Nat
    BY <1>1 DEF IncidentInv, ItemsOK, ItemOK, IncidentType
  <2>2. incidents' = [incidents EXCEPT ![tick.id] = item]
    <3>1. incidents' = [incidents EXCEPT ![tick.id].status = "resolved", ![tick.id].version = @ + 1]
      BY <1>3 DEF TickClose
    <3> QED  BY <1>1, <2>1, <3>1 DEF ItemsOK
  <2>3. i.status # "none"
    <3>1. tick.base.version \in Nat /\ tick.base.version <= i.version
      BY <1>1 DEF Current, IncidentType
    <3>2. CASE i.status = "none"
      <4>1. i.version = 0
        BY <2>1, <3>2, NoIncidentType DEF ItemOK
      <4>2. tick.base.version = 0
        BY <2>1, <3>1, <4>1
      <4>3. tick.base = NoIncident
        BY <1>1, <4>2 DEF Current, ItemOK
      <4> QED  BY <1>1, <4>3, NoIncidentType DEF IsOpen
    <3> QED  BY <3>2
  <2>4. IsOpen(i)
    BY <1>3, <2>1, <2>3 DEF IncidentType, Statuses, IsOpen
  <2> HIDE DEF n
  <2>5. item.status = "resolved" /\ item.members = i.members /\ item.by = i.by
    BY <2>1, ResolvedItem
  <2> HIDE DEF item
  <2> QED  BY <1>1, <2>1, <2>2, <2>4, <2>5, LifeEnds
<1> QED  BY <1>2, <1>3

(* A notice that is repeated marks the item, and leaves its life as it was.    *)
LEMMA TickRenotifyLives ==
  ASSUME IncidentInv, TickRenotify
  PROVE  [L!Next]_Lives
<1>1. CASE UNCHANGED incidents
  BY <1>1 DEF Lives, Life
<1>2. CASE ~UNCHANGED incidents
  <2> DEFINE item == [tick.base EXCEPT !.version = tick.base.version + 1]
  <2>1. incidents[tick.id].version = tick.base.version /\ incidents' = [incidents EXCEPT ![tick.id] = item]
    BY <1>2 DEF TickRenotify
  <2>2. tick.id \in Ids /\ tick.base = incidents[tick.id] /\ tick.base \in IncidentType
        /\ ItemsOK(incidents)
    BY <2>1, TickFacts DEF TickRenotify, Current, IncidentInv
  <2>3. item.status = tick.base.status /\ item.members = tick.base.members /\ item.by = tick.base.by
    BY <2>2 DEF IncidentType
  <2> HIDE DEF item
  <2>4. Life(item) = Life(incidents[tick.id])
    BY <2>2, <2>3 DEF Life
  <2> QED  BY <2>1, <2>2, <2>4, LifeStays
<1> QED  BY <1>1, <1>2

LEMMA StepLives == IncidentInv /\ [Next]_vars => [L!Next]_Lives
<1> SUFFICES ASSUME IncidentInv, [Next]_vars PROVE [L!Next]_Lives
  OBVIOUS
<1>1. CASE UNCHANGED incidents
  BY <1>1 DEF Lives, Life
<1>2. CASE \E r \in Routers : Save(r)
  BY <1>2, SaveLives
<1>3. CASE \E p \in People : AckSave(p)
  BY <1>3, AckSaveLives
<1>4. CASE TickClose \/ TickRenotify
  BY <1>4, TickCloseLives, TickRenotifyLives
<1>5. CASE Environment \/ UNCHANGED vars
  BY <1>1, <1>5 DEF Environment, Second, Fire, Clear, Delete, vars
<1>6. ASSUME NEW r \in Routers, Route(r), ~Save(r) PROVE UNCHANGED incidents
  BY <1>6 DEF Route, Start, StartRouter, Sync, ReadPointer, LoadToMerge, LoadToOpen, LoadToClear,
              CheckMember, AllChecked, Point, PointTaken, SaveConflict, Unpoint, RouterGivesUp,
              RouterDies
<1>7. ASSUME NEW p \in People, Request(p) \/ AckStep(p), ~AckSave(p) PROVE UNCHANGED incidents
  BY <1>7 DEF Request, RequestAck, AckStep, AckRead, AckConflict
<1>8. ASSUME TickStep \/ TickDies \/ \E id \in Ids : StartTick(id), ~TickClose, ~TickRenotify
      PROVE  UNCHANGED incidents
  BY <1>8 DEF TickStep, TickStale, TickAllClosed, TickOpen, TickOpenRead, TickSilent, TickKeeps,
              TickAllSilent, TickUnpoint, TickEpisode, TickDies, StartTick
<1> QED  BY <1>1, <1>2, <1>3, <1>4, <1>5, <1>6, <1>7, <1>8 DEF Next

(* Routers, people and the tick, however they interleave, fail and try again:  *)
(* each incident is opened, extended, acknowledged and resolved as             *)
(* IncidentLifecycle says; no acknowledgement is undone, none comes back.      *)
THEOREM IncidentLives == Spec => OneLife
<1>1. Init => L!Init
  BY NoIncidentType DEF Init, L!Init, L!NoIncident, Life
<1>2. IncidentInv /\ [Next]_vars => [L!Next]_([id \in Ids |-> Life(incidents[id])])
  BY StepLives DEF Lives
<1> QED  BY <1>1, <1>2, IncidentInvariant, PTL DEF Spec, OneLife, L!Spec
--------------------------------------------------------------------------------
(* Nobody is lost while an incident has room for every series.                 *)
RoomForAll == IsFiniteSet(Series) /\ Cardinality(Series) <= MaxMembers

FiringOK(x) ==
  /\ x.pc \in {"idle", "check", "unpoint"} => x.firing = {}
  /\ x.pc \in {"point", "save"} => x.firing \subseteq x.next.members
  /\ x.pc = "point" => x.next.status = "triggered"
  /\ x.pc = "save" /\ x.next.status = "resolved" => x.firing = {}

(* A router that has found `s` closed and may close its incident yet.          *)
Closing(x, s) ==
  /\ \/ x.pc = "check" /\ s \notin x.todo
     \/ x.pc = "save" /\ x.next.status = "resolved"
  /\ s \in incidents[x.id].members /\ x.base.version = incidents[x.id].version

(* An open incident with `s` that no router is about to close over its head.   *)
Keeping(id, s) ==
  /\ IsOpen(incidents[id]) /\ s \in incidents[id].members
  /\ \A r \in Routers : ~(run[r].id = id /\ Closing(run[r], s))

Recorded(s) ==
  /\ episode[s] /\ lost[s] = "no"
  /\ s \notin pending /\ \A r \in Routers : s \notin run[r].firing

CoverInv ==
  /\ \A r \in Routers : FiringOK(run[r])
  /\ \A s \in Series : Recorded(s) => \E id \in Ids : Keeping(id, s)

LEMMA InitCover == Init => CoverInv
  BY DEF Init, CoverInv, FiringOK, Recorded, Idle

(* A step that writes no incident.                                             *)
LEMMA ReadStill ==
  ASSUME CoverInv, UNCHANGED incidents,
         \A r \in Routers : FiringOK(run'[r]),
         \A s \in Series : Recorded(s)' => Recorded(s),
         \A r \in Routers : \A s \in Series :
           Recorded(s)' /\ Closing(run[r], s)' => run'[r].id = run[r].id /\ Closing(run[r], s)
  PROVE  CoverInv'
<1>1. ASSUME NEW s \in Series, Recorded(s)' PROVE \E id \in Ids : Keeping(id, s)'
  <2>1. PICK id \in Ids : Keeping(id, s)
    BY <1>1 DEF CoverInv
  <2>2. Keeping(id, s)'
    BY <1>1, <2>1 DEF Keeping
  <2> QED  BY <2>2
<1> QED  BY <1>1 DEF CoverInv

(* A router's step of that kind.                                               *)
LEMMA RouterStill ==
  ASSUME IncidentInv, CoverInv, NEW r \in Routers, NEW x, Become(r, x), FiringOK(x),
         UNCHANGED <<incidents, episode>>,
         \A s \in Series : lost'[s] = "no" /\ s \notin pending' /\ s \notin x.firing =>
           lost[s] = "no" /\ s \notin pending /\ s \notin run[r].firing,
         \A s \in Series : episode[s] /\ Closing(x, s) => x.id = run[r].id /\ Closing(run[r], s)
  PROVE  CoverInv'
<1>1. \A q \in Routers : run'[q] = IF q = r THEN x ELSE run[q]
  BY DEF Become, IncidentInv, ReadersOK
<1>2. \A q \in Routers : FiringOK(run'[q])
  BY <1>1 DEF CoverInv
<1>3. ASSUME NEW s \in Series, Recorded(s)' PROVE Recorded(s)
  <2>1. \A q \in Routers : s \notin run'[q].firing
    BY <1>3 DEF Recorded
  <2>2. s \notin x.firing
    BY <1>1, <2>1
  <2>3. lost[s] = "no" /\ s \notin pending /\ s \notin run[r].firing /\ episode[s]
    BY <1>3, <2>2 DEF Recorded
  <2>4. ASSUME NEW q \in Routers PROVE s \notin run[q].firing
    BY <1>1, <2>1, <2>3
  <2> QED  BY <2>3, <2>4 DEF Recorded
<1>4. ASSUME NEW q \in Routers, NEW s \in Series, Recorded(s)', Closing(run[q], s)'
      PROVE  run'[q].id = run[q].id /\ Closing(run[q], s)
  <2>1. CASE q = r
    <3>1. Closing(x, s) /\ episode[s]
      BY <1>1, <1>4, <2>1 DEF Closing, Recorded
    <3> QED  BY <1>1, <2>1, <3>1
  <2>2. CASE q # r
    BY <1>1, <1>4, <2>2 DEF Closing
  <2> QED  BY <2>1, <2>2
<1> QED  BY <1>2, <1>3, <1>4, ReadStill

(* A write of an incident: whoever was about to close it finds it changed.     *)
LEMMA WrittenStill ==
  ASSUME IncidentInv, CoverInv, NEW id \in Ids, NEW item, item.version \in Nat,
         item.version > incidents[id].version, incidents' = [incidents EXCEPT ![id] = item],
         \A r \in Routers : FiringOK(run'[r]),
         \A r \in Routers : run'[r] = run[r] \/ run'[r].pc \in {"idle", "unpoint"},
         \A s \in Series : Recorded(s)' =>
           \/ IsOpen(item) /\ s \in item.members
           \/ \E other \in Ids \ {id} : Keeping(other, s)
  PROVE  CoverInv'
<1>1. \A other \in Ids : incidents'[other] = IF other = id THEN item ELSE incidents[other]
  BY DEF IncidentInv, ItemsOK
<1>2. ASSUME NEW r \in Routers, NEW s \in Series, Closing(run[r], s)'
      PROVE  /\ run'[r] = run[r] /\ run[r].id # id
             /\ Closing(run[r], s)
  <2>1. run'[r] = run[r] /\ run[r].pc \in {"check", "save"}
    BY <1>2 DEF Closing
  <2>2. Current(run[r].base, run[r].id, incidents)
    BY <2>1, RunFacts DEF RunOK
  <2>3. run[r].base.version \in Nat /\ run[r].base.version <= incidents[run[r].id].version
        /\ run[r].id \in Ids
    BY <2>2 DEF Current, ItemOK, IncidentType
  <2>4. incidents[id].version \in Nat
    BY ReadNow DEF IncidentType
  <2>5. run[r].base.version = incidents'[run[r].id].version
    BY <1>2, <2>1 DEF Closing
  <2>6. run[r].id # id
    BY <1>1, <2>3, <2>4, <2>5
  <2>7. incidents'[run[r].id] = incidents[run[r].id]
    BY <1>1, <2>3, <2>6
  <2> QED  BY <1>2, <2>1, <2>6, <2>7 DEF Closing
<1>3. ASSUME NEW s \in Series, Recorded(s)' PROVE \E other \in Ids : Keeping(other, s)'
  <2>1. CASE IsOpen(item) /\ s \in item.members
    <3>1. Keeping(id, s)'
      BY <1>1, <1>2, <2>1 DEF Keeping
    <3> QED  BY <3>1
  <2>2. CASE \E other \in Ids \ {id} : Keeping(other, s)
    <3>1. PICK other \in Ids \ {id} : Keeping(other, s)
      BY <2>2
    <3>2. Keeping(other, s)'
      BY <1>1, <1>2, <3>1 DEF Keeping
    <3> QED  BY <3>2
  <2> QED  BY <1>3, <2>1, <2>2
<1> QED  BY <1>3 DEF CoverInv

(* A router that begins, reads, opens, or is done: it closes nothing.          *)
LEMMA SimplyStill ==
  ASSUME IncidentInv, CoverInv, NEW r \in Routers, NEW x, Become(r, x), FiringOK(x),
         UNCHANGED <<incidents, episode>>,
         \A s \in Series : lost'[s] = "no" /\ s \notin pending' /\ s \notin x.firing =>
           lost[s] = "no" /\ s \notin pending /\ s \notin run[r].firing,
         x.pc # "check", x.pc = "save" => x.next.status # "resolved"
  PROVE  CoverInv'
<1>1. \A s : ~Closing(x, s)
  BY DEF Closing
<1> QED  BY <1>1, RouterStill

LEMMA StartStill ==
  ASSUME IncidentInv, CoverInv, NEW r \in Routers, NEW F \in SUBSET pending, StartRouter(r, F)
  PROVE  CoverInv'
<1> DEFINE x == [Idle EXCEPT !.pc = "pointer", !.firing = F, !.now = second]
<1>1. Become(r, x) /\ UNCHANGED <<incidents, episode, lost>> /\ pending' = pending \ F
  BY DEF StartRouter
<1>2. x.pc = "pointer" /\ x.firing = F
  BY DEF Idle
<1>3. run[r].firing = {}
  BY DEF CoverInv, FiringOK, StartRouter
<1> HIDE DEF x
<1>4. FiringOK(x)
  BY <1>2 DEF FiringOK
<1> QED  BY <1>1, <1>2, <1>3, <1>4, SimplyStill

LEMMA ReadPointerStill ==
  ASSUME IncidentInv, CoverInv, NEW r \in Routers, ReadPointer(r)
  PROVE  CoverInv'
<1> DEFINE x == [run[r] EXCEPT !.pc = "load", !.seen = pointer]
<1>1. Become(r, x) /\ UNCHANGED <<incidents, episode, lost, pending>>
  BY DEF ReadPointer, world
<1>2. x.pc = "load" /\ x.firing = run[r].firing
  BY RunFacts DEF RunType
<1> HIDE DEF x
<1>3. FiringOK(x)
  BY <1>2 DEF FiringOK
<1> QED  BY <1>1, <1>2, <1>3, SimplyStill

(* With room for every series, what is made of an incident has all that fire.  *)
LEMMA AllMerged ==
  ASSUME RoomForAll, NEW i \in IncidentType, NEW F \in SUBSET Series, NEW next \in Merged(i, F)
  PROVE  F \subseteq next.members
<1> DEFINE fresh == F \ i.members
           room  == MaxMembers - Cardinality(i.members)
<1>1. i.members \in SUBSET Series
  BY DEF IncidentType
<1>2. /\ IsFiniteSet(i.members) /\ IsFiniteSet(fresh) /\ IsFiniteSet(i.members \cup fresh)
      /\ Cardinality(i.members \cup fresh) <= Cardinality(Series)
  BY <1>1, FS_Subset DEF RoomForAll
<1>3. Cardinality(i.members \cup fresh) = Cardinality(i.members) + Cardinality(fresh)
  <2>1. i.members \cap fresh = {}
    OBVIOUS
  <2>2. /\ Cardinality(i.members \cup fresh) =
             Cardinality(i.members) + Cardinality(fresh) - Cardinality(i.members \cap fresh)
        /\ Cardinality(i.members) \in Nat /\ Cardinality(fresh) \in Nat
    BY <1>2, FS_Union, FS_CardinalityType
  <2>3. Cardinality(i.members \cap fresh) = 0
    BY <2>1, FS_EmptySet
  <2> HIDE DEF fresh
  <2> QED  BY <2>2, <2>3
<1>4. ~(Cardinality(fresh) > room)
  <2>1. /\ Cardinality(i.members) \in Nat /\ Cardinality(fresh) \in Nat /\ Cardinality(Series) \in Nat
        /\ MaxMembers \in Nat
    BY <1>2, FS_CardinalityType, IncidentAssumption DEF RoomForAll
  <2> HIDE DEF fresh
  <2> QED  BY <1>2, <1>3, <2>1 DEF RoomForAll
<1>5. next = [i EXCEPT !.members = @ \cup fresh]
  BY <1>4 DEF Merged
<1> QED  BY <1>5 DEF IncidentType

LEMMA LoadStill ==
  ASSUME RoomForAll, IncidentInv, CoverInv, NEW r \in Routers,
         LoadToMerge(r) \/ LoadToOpen(r) \/ LoadToClear(r)
  PROVE  CoverInv'
<1>0. /\ Loaded(r) \in IncidentType /\ run[r] \in RunType /\ run[r].firing \in SUBSET Series
      /\ run[r].pc = "load" /\ UNCHANGED <<incidents, episode, lost, pending>>
  BY RunFacts, LoadedFacts DEF ItemOK, LoadToMerge, LoadToOpen, LoadToClear, world
<1>1. CASE LoadToMerge(r)
  <2>1. IsOpen(Loaded(r)) /\ run[r].seen \in Ids
    BY <1>1, LoadedFacts DEF LoadToMerge, Extensible, IsOpen
  <2>2. PICK next \in Merged(Loaded(r), run[r].firing) :
          Become(r, [run[r] EXCEPT !.pc = "save", !.id = run[r].seen, !.base = Loaded(r), !.next = next])
    BY <1>1 DEF LoadToMerge
  <2>3. /\ next \in IncidentType /\ next.status # "resolved" /\ run[r].firing \subseteq next.members
    BY <1>0, <2>1, MergedFacts, AllMerged DEF IsOpen
  <2> DEFINE x == [run[r] EXCEPT !.pc = "save", !.id = run[r].seen, !.base = Loaded(r), !.next = next]
  <2>4. x.pc = "save" /\ x.next = next /\ x.firing = run[r].firing
    BY <1>0 DEF RunType
  <2> HIDE DEF x
  <2>5. FiringOK(x)
    BY <2>3, <2>4 DEF FiringOK
  <2>6. Become(r, x)
    BY <2>2 DEF x
  <2> QED  BY <1>0, <2>3, <2>4, <2>5, <2>6, SimplyStill
<1>2. CASE LoadToOpen(r)
  <2> DEFINE fresh == [NoIncident EXCEPT !.status = "triggered"]
  <2>1. PICK next \in Merged(fresh, run[r].firing) :
          Become(r, [run[r] EXCEPT !.pc = "point", !.id = NewId(r), !.base = NoIncident, !.next = next])
    BY <1>2 DEF LoadToOpen
  <2>2. fresh \in IncidentType /\ fresh.status = "triggered"
    BY NoIncidentType DEF IncidentType, Statuses
  <2>3. next.status = "triggered" /\ run[r].firing \subseteq next.members
    BY <1>0, <2>1, <2>2, MergedFacts, AllMerged
  <2> DEFINE x == [run[r] EXCEPT !.pc = "point", !.id = NewId(r), !.base = NoIncident, !.next = next]
  <2>4. x.pc = "point" /\ x.next = next /\ x.firing = run[r].firing
    BY <1>0 DEF RunType
  <2> HIDE DEF x
  <2>5. FiringOK(x)
    BY <2>3, <2>4 DEF FiringOK
  <2>6. Become(r, x)
    BY <2>1 DEF x
  <2> QED  BY <1>0, <2>4, <2>5, <2>6, SimplyStill
<1>3. CASE LoadToClear(r)
  <2>0. run[r].firing = {}
    BY <1>3 DEF LoadToClear
  <2>1. CASE Loaded(r).status = "none"
    <3>1. Become(r, Idle) /\ Idle.pc = "idle" /\ Idle.firing = {}
      BY <1>3, <2>1 DEF LoadToClear, Idle
    <3>2. FiringOK(Idle)
      BY <3>1 DEF FiringOK
    <3> QED  BY <1>0, <2>0, <3>1, <3>2, SimplyStill
  <2>2. CASE Loaded(r).status = "resolved"
    <3> DEFINE x == [run[r] EXCEPT !.pc = "unpoint", !.id = run[r].seen]
    <3>1. Become(r, x)
      BY <1>3, <2>2 DEF LoadToClear
    <3>2. x.pc = "unpoint" /\ x.firing = {}
      BY <1>0, <2>0 DEF RunType
    <3> HIDE DEF x
    <3>3. FiringOK(x)
      BY <3>2 DEF FiringOK
    <3> QED  BY <1>0, <2>0, <3>1, <3>2, <3>3, SimplyStill
  <2>3. CASE Loaded(r).status \notin {"none", "resolved"}
    <3> DEFINE x == [run[r] EXCEPT !.pc = "check", !.id = run[r].seen, !.base = Loaded(r),
                                   !.todo = Loaded(r).members]
    <3>1. Become(r, x)
      BY <1>3, <2>3 DEF LoadToClear
    <3>2. /\ x.pc = "check" /\ x.firing = {} /\ x.id = run[r].seen /\ x.base = Loaded(r)
          /\ x.todo = Loaded(r).members
      BY <1>0, <2>0 DEF RunType
    <3> HIDE DEF x
    <3>3. FiringOK(x)
      BY <3>2 DEF FiringOK
    <3>4. Current(Loaded(r), run[r].seen, incidents)
      BY <2>3, LoadedFacts
    <3>5. \A s : ~Closing(x, s)
      BY <3>2, <3>4 DEF Closing, Current
    <3> QED  BY <1>0, <2>0, <3>1, <3>2, <3>3, <3>5, RouterStill
  <2> QED  BY <2>1, <2>2, <2>3
<1> QED  BY <1>1, <1>2, <1>3

(* A router that looks through the members, one by one.                        *)
LEMMA CheckStill ==
  ASSUME IncidentInv, CoverInv, NEW r \in Routers, CheckMember(r) \/ AllChecked(r)
  PROVE  CoverInv'
<1>0. /\ run[r] \in RunType /\ run[r].pc = "check" /\ run[r].firing = {}
      /\ IsOpen(run[r].base) /\ run[r].base \in IncidentType
      /\ UNCHANGED <<incidents, episode, lost, pending>>
  <2>1. run[r].pc = "check" /\ UNCHANGED <<incidents, episode, lost, pending>>
    BY DEF CheckMember, AllChecked, world
  <2>2. run[r].firing = {}
    BY <2>1 DEF CoverInv, FiringOK
  <2> QED  BY <2>1, <2>2, RunFacts DEF RunOK, RunType
<1>1. ASSUME NEW next, next.status # "resolved", NEW todo \in SUBSET Series,
             Become(r, [run[r] EXCEPT !.pc = "save", !.next = next, !.todo = todo])
      PROVE  CoverInv'
  <2> DEFINE x == [run[r] EXCEPT !.pc = "save", !.next = next, !.todo = todo]
  <2>1. x.pc = "save" /\ x.next = next /\ x.firing = {}
    BY <1>0 DEF RunType
  <2> HIDE DEF x
  <2>2. FiringOK(x)
    BY <2>1 DEF FiringOK
  <2>3. Become(r, x)
    BY <1>1 DEF x
  <2> QED  BY <1>0, <1>1, <2>1, <2>2, <2>3, SimplyStill
<1>2. CASE CheckMember(r)
  <2>1. PICK s \in run[r].todo, open \in BOOLEAN :
          /\ ReadsOpen(s, open)
          /\ Become(r, IF open THEN [run[r] EXCEPT !.pc = "save", !.next = run[r].base, !.todo = {}]
                       ELSE [run[r] EXCEPT !.todo = @ \ {s}])
    BY <1>2 DEF CheckMember
  <2>2. CASE open
    BY <1>0, <1>1, <2>1, <2>2 DEF IsOpen
  <2>3. CASE ~open
    <3> DEFINE todo == run[r].todo \ {s}
               x == [run[r] EXCEPT !.todo = todo]
    <3>1. Become(r, x) /\ ~episode[s]
      BY <2>1, <2>3 DEF ReadsOpen
    <3>2. /\ x.pc = "check" /\ x.firing = {} /\ x.id = run[r].id /\ x.base = run[r].base
          /\ x.todo = todo
      BY <1>0 DEF RunType
    <3> HIDE DEF x
    <3>3. FiringOK(x)
      BY <3>2 DEF FiringOK
    <3>4. \A t \in Series : episode[t] /\ Closing(x, t) => x.id = run[r].id /\ Closing(run[r], t)
      BY <1>0, <3>1, <3>2 DEF Closing
    <3> QED  BY <1>0, <3>1, <3>2, <3>3, <3>4, RouterStill
  <2> QED  BY <2>2, <2>3
<1>3. CASE AllChecked(r)
  <2> DEFINE next == IF run[r].base.members = {} THEN run[r].base
                     ELSE [run[r].base EXCEPT !.status = "resolved"]
             x == [run[r] EXCEPT !.pc = "save", !.next = next]
  <2>1. run[r].todo = {} /\ Become(r, x)
    BY <1>3 DEF AllChecked
  <2> HIDE DEF next
  <2>2. x.pc = "save" /\ x.firing = {} /\ x.id = run[r].id /\ x.base = run[r].base
    BY <1>0 DEF RunType
  <2> HIDE DEF x
  <2>3. FiringOK(x)
    BY <2>2 DEF FiringOK
  <2>4. \A t \in Series : Closing(x, t) => x.id = run[r].id /\ Closing(run[r], t)
    BY <1>0, <2>1, <2>2 DEF Closing
  <2> QED  BY <1>0, <2>1, <2>2, <2>3, <2>4, RouterStill
<1> QED  BY <1>2, <1>3

LEMMA PointStill ==
  ASSUME IncidentInv, CoverInv, NEW r \in Routers, Point(r)
  PROVE  CoverInv'
<1> DEFINE x == [run[r] EXCEPT !.pc = "save"]
<1>1. run[r].pc = "point" /\ Become(r, x) /\ UNCHANGED <<incidents, episode, lost, pending>>
  BY DEF Point, world
<1>2. x.pc = "save" /\ x.next = run[r].next /\ x.firing = run[r].firing
  BY RunFacts DEF RunType
<1> HIDE DEF x
<1>3. FiringOK(x) /\ x.next.status = "triggered"
  BY <1>1, <1>2 DEF FiringOK, CoverInv
<1> QED  BY <1>1, <1>2, <1>3, SimplyStill

LEMMA IdleStill ==
  ASSUME IncidentInv, CoverInv, NEW r \in Routers, Become(r, Idle), UNCHANGED <<incidents, episode>>,
         \A s \in Series : lost'[s] = "no" /\ s \notin pending' =>
           lost[s] = "no" /\ s \notin pending /\ s \notin run[r].firing
  PROVE  CoverInv'
<1>1. Idle.pc = "idle" /\ Idle.firing = {}
  BY DEF Idle
<1>2. FiringOK(Idle)
  BY <1>1 DEF FiringOK
<1> QED  BY <1>1, <1>2, SimplyStill

LEMMA LostIs ==
  ASSUME NEW S, Lose(S, "unrecorded") \/ Lose(S, "tick"), NEW s \in Series, lost'[s] = "no"
  PROVE  s \notin S /\ lost[s] = "no"
  BY DEF Lose

LEMMA RetryStill ==
  ASSUME IncidentInv, CoverInv, NEW r \in Routers, Retry(r), UNCHANGED <<incidents, episode, pending>>
  PROVE  CoverInv'
<1>1. CASE run[r].attempt + 1 < MaxAttempts
  <2> DEFINE x == [Idle EXCEPT !.pc = "pointer", !.firing = run[r].firing,
                               !.now = run[r].now, !.attempt = run[r].attempt + 1]
  <2>1. Become(r, x) /\ UNCHANGED lost
    BY <1>1 DEF Retry
  <2>2. x.pc = "pointer" /\ x.firing = run[r].firing
    BY DEF Idle
  <2> HIDE DEF x
  <2>3. FiringOK(x)
    BY <2>2 DEF FiringOK
  <2> QED  BY <2>1, <2>2, <2>3, SimplyStill
<1>2. CASE ~(run[r].attempt + 1 < MaxAttempts)
  <2>1. Become(r, Idle) /\ Lose(run[r].firing, "unrecorded")
    BY <1>2 DEF Retry
  <2> QED  BY <2>1, LostIs, IdleStill
<1> QED  BY <1>1, <1>2

LEMMA EndStill ==
  ASSUME IncidentInv, CoverInv, NEW r \in Routers, Unpoint(r) \/ RouterGivesUp(r) \/ RouterDies(r)
  PROVE  CoverInv'
<1>1. CASE Unpoint(r)
  <2>1. run[r].firing = {}
    BY <1>1 DEF Unpoint, CoverInv, FiringOK
  <2> QED  BY <1>1, <2>1, IdleStill DEF Unpoint, world
<1>2. CASE RouterGivesUp(r)
  <2>1. /\ Become(r, Idle) /\ Lose(run[r].firing, "unrecorded")
        /\ UNCHANGED <<incidents, episode, pending>>
    BY <1>2 DEF RouterGivesUp, world
  <2> QED  BY <2>1, LostIs, IdleStill
<1>3. CASE RouterDies(r)
  <2>1. /\ Become(r, Idle) /\ pending' = pending \cup run[r].firing
        /\ UNCHANGED <<incidents, episode, lost>>
    BY <1>3 DEF RouterDies
  <2> QED  BY <2>1, IdleStill
<1> QED  BY <1>1, <1>2, <1>3

(* A router's save: it closes its incident, or it has all that fire in it.     *)
LEMMA SaveStill ==
  ASSUME IncidentInv, CoverInv, NEW r \in Routers, Save(r)
  PROVE  CoverInv'
<1> DEFINE base == run[r].base
           id == run[r].id
           next == run[r].next
           item == [next EXCEPT !.version = base.version + 1]
           x == IF next.status = "resolved" THEN [Idle EXCEPT !.pc = "unpoint", !.id = id] ELSE Idle
<1>1. /\ Current(base, id, incidents) /\ StepOf(base, next) /\ incidents[id].version = base.version
      /\ incidents' = [incidents EXCEPT ![id] = item] /\ Become(r, x) /\ run[r].pc = "save"
      /\ UNCHANGED <<episode, lost, pending>>
  BY RunFacts DEF Save, RunOK, world
<1>2. /\ id \in Ids /\ base = incidents[id] /\ base.version \in Nat /\ next \in IncidentType
  BY <1>1 DEF Current, StepOf, ItemOK, IncidentType
<1>3. /\ item.status = next.status /\ item.members = next.members
      /\ item.version \in Nat /\ item.version > incidents[id].version
  BY <1>1, <1>2 DEF IncidentType
<1>4. FiringOK(x) /\ x.pc \in {"idle", "unpoint"} /\ x.firing = {}
  BY DEF FiringOK, Idle
<1>5. run[r].firing \subseteq next.members /\ (next.status = "resolved" => run[r].firing = {})
  BY <1>1 DEF CoverInv, FiringOK
<1> HIDE DEF x, item
<1>6. \A q \in Routers : run'[q] = IF q = r THEN x ELSE run[q]
  BY <1>1 DEF Become, IncidentInv, ReadersOK
<1>7. ASSUME NEW s \in Series, Recorded(s)'
      PROVE  \/ IsOpen(item) /\ s \in item.members
             \/ \E other \in Ids \ {id} : Keeping(other, s)
  <2>1. episode[s] /\ lost[s] = "no" /\ s \notin pending
        /\ \A q \in Routers \ {r} : s \notin run[q].firing
    BY <1>1, <1>6, <1>7 DEF Recorded
  <2>2. CASE s \in run[r].firing
    <3>1. s \in next.members /\ next.status # "resolved"
      BY <1>5, <2>2
    <3>2. IsOpen(next)
      BY <1>1, <3>1 DEF StepOf, IsOpen
    <3> QED  BY <1>3, <3>1, <3>2 DEF IsOpen
  <2>3. CASE s \notin run[r].firing
    <3>1. Recorded(s)
      BY <2>1, <2>3 DEF Recorded
    <3>2. PICK other \in Ids : Keeping(other, s)
      BY <3>1 DEF CoverInv
    <3>3. CASE other # id
      BY <3>2, <3>3
    <3>4. CASE other = id
      <4>1. IsOpen(base) /\ s \in base.members /\ ~Closing(run[r], s)
        BY <1>2, <3>2, <3>4 DEF Keeping
      <4>2. next.status # "resolved"
        BY <1>1, <1>2, <4>1 DEF Closing
      <4>3. next.status = base.status /\ base.members \subseteq next.members
        BY <1>1, <4>1, <4>2, NoIncidentType DEF StepOf, IsOpen
      <4> QED  BY <1>3, <4>1, <4>3 DEF IsOpen
    <3> QED  BY <3>3, <3>4
  <2> QED  BY <2>2, <2>3
<1>8. /\ \A q \in Routers : FiringOK(run'[q])
      /\ \A q \in Routers : run'[q] = run[q] \/ run'[q].pc \in {"idle", "unpoint"}
  BY <1>4, <1>6 DEF CoverInv
<1> HIDE DEF id, base, next
<1> QED  BY <1>1, <1>2, <1>3, <1>7, <1>8, WrittenStill

(* A write that leaves an open incident open and its members in it.            *)
LEMMA MarkedStill ==
  ASSUME IncidentInv, CoverInv, NEW id \in Ids, NEW item, item.version \in Nat,
         item.version > incidents[id].version, incidents' = [incidents EXCEPT ![id] = item],
         IsOpen(item), item.members = incidents[id].members,
         UNCHANGED <<run, episode, lost, pending>>
  PROVE  CoverInv'
<1>1. ASSUME NEW s \in Series, Recorded(s)'
      PROVE  \/ IsOpen(item) /\ s \in item.members
             \/ \E other \in Ids \ {id} : Keeping(other, s)
  <2>1. Recorded(s)
    BY <1>1 DEF Recorded
  <2>2. PICK other \in Ids : Keeping(other, s)
    BY <2>1 DEF CoverInv
  <2> QED  BY <2>2 DEF Keeping
<1>2. /\ \A q \in Routers : FiringOK(run'[q])
      /\ \A q \in Routers : run'[q] = run[q]
  BY DEF CoverInv
<1> QED  BY <1>1, <1>2, WrittenStill

LEMMA AckSaveStill ==
  ASSUME IncidentInv, CoverInv, NEW p \in People, AckSave(p)
  PROVE  CoverInv'
<1> DEFINE base == ack[p].base
           id == ack[p].id
           item == [base EXCEPT !.status = "acknowledged", !.by = p, !.version = base.version + 1]
<1>1. /\ Current(base, id, incidents) /\ incidents[id].version = base.version
      /\ incidents' = [incidents EXCEPT ![id] = item] /\ UNCHANGED <<run, episode, lost, pending>>
  BY AckFacts DEF AckSave, AckOK, world
<1>2. id \in Ids /\ base = incidents[id] /\ base \in IncidentType /\ base.version \in Nat
  BY <1>1 DEF Current, ItemOK, IncidentType
<1>3. /\ item.status = "acknowledged" /\ item.members = base.members
      /\ item.version = base.version + 1
  BY <1>2 DEF IncidentType
<1> HIDE DEF base, id, item
<1>4. item.version \in Nat /\ item.version > incidents[id].version /\ IsOpen(item)
  BY <1>1, <1>2, <1>3 DEF IsOpen
<1> QED  BY <1>1, <1>2, <1>3, <1>4, MarkedStill

LEMMA TickRenotifyStill ==
  ASSUME IncidentInv, CoverInv, TickRenotify, ~UNCHANGED incidents
  PROVE  CoverInv'
<1> DEFINE item == [tick.base EXCEPT !.version = tick.base.version + 1]
<1>1. /\ incidents[tick.id].version = tick.base.version /\ tick.base.status = "acknowledged"
      /\ incidents' = [incidents EXCEPT ![tick.id] = item]
      /\ UNCHANGED <<run, episode, lost, pending>>
  BY DEF TickRenotify, world
<1>2. tick.id \in Ids /\ tick.base = incidents[tick.id] /\ tick.base \in IncidentType
      /\ tick.base.version \in Nat
  BY <1>1, TickFacts DEF TickRenotify, Current, IncidentType
<1>3. item.status = "acknowledged" /\ item.members = tick.base.members
      /\ item.version = tick.base.version + 1
  BY <1>1, <1>2 DEF IncidentType
<1> HIDE DEF item
<1>4. item.version \in Nat /\ item.version > incidents[tick.id].version /\ IsOpen(item)
  BY <1>1, <1>2, <1>3 DEF IsOpen
<1> QED  BY <1>1, <1>2, <1>3, <1>4, MarkedStill

(* The tick closes an incident over the heads of those that fire in it, who    *)
(* are counted as lost.                                                        *)
LEMMA TickCloseStill ==
  ASSUME IncidentInv, CoverInv, TickClose, incidents[tick.id].status # "resolved"
  PROVE  CoverInv'
<1> DEFINE i == incidents[tick.id]
           n == i.version + 1
           item == [i EXCEPT !.status = "resolved", !.version = n]
           over == {s \in i.members : episode[s]}
<1>0. tick.id \in Ids /\ UNCHANGED <<run, episode, pending>>
  BY TickFacts DEF TickClose, world
<1>1. /\ incidents' = [incidents EXCEPT ![tick.id].status = "resolved", ![tick.id].version = @ + 1]
      /\ Lose(over, "tick")
  BY DEF TickClose
<1>2. i \in IncidentType /\ i.version \in Nat /\ n \in Nat /\ n > i.version
  BY <1>0, ReadNow DEF IncidentType
<1>3. incidents' = [incidents EXCEPT ![tick.id] = item]
  BY <1>0, <1>1, <1>2 DEF IncidentInv, ItemsOK
<1> HIDE DEF n
<1>4. item.version = n
  BY <1>2, ResolvedItem
<1> HIDE DEF item
<1>5. ASSUME NEW s \in Series, Recorded(s)'
      PROVE  \E other \in Ids \ {tick.id} : Keeping(other, s)
  <2>1. s \notin over /\ lost[s] = "no"
    BY <1>1, <1>5, LostIs DEF Recorded
  <2>2. Recorded(s)
    BY <1>0, <1>5, <2>1 DEF Recorded
  <2>3. PICK other \in Ids : Keeping(other, s)
    BY <2>2 DEF CoverInv
  <2>4. other # tick.id
    BY <2>1, <2>2, <2>3 DEF Recorded, Keeping
  <2> QED  BY <2>3, <2>4
<1>6. /\ \A q \in Routers : FiringOK(run'[q])
      /\ \A q \in Routers : run'[q] = run[q]
  BY <1>0 DEF CoverInv
<1> HIDE DEF i
<1>7. item.version \in Nat /\ item.version > incidents[tick.id].version
  BY <1>2, <1>4 DEF i
<1> QED  BY <1>0, <1>3, <1>5, <1>6, <1>7, WrittenStill

(* A step of the world or of the tick that writes no incident.                 *)
LEMMA ElsewhereStill ==
  ASSUME CoverInv, UNCHANGED <<incidents, run>>, \A s \in Series : Recorded(s)' => Recorded(s)
  PROVE  CoverInv'
<1>1. /\ \A r \in Routers : FiringOK(run'[r])
      /\ \A r \in Routers : \A s \in Series :
           Recorded(s)' /\ Closing(run[r], s)' => run'[r].id = run[r].id /\ Closing(run[r], s)
  BY DEF CoverInv, Closing
<1> QED  BY <1>1, ReadStill

LEMMA WorldStill ==
  ASSUME IncidentInv, CoverInv, Environment
  PROVE  CoverInv'
<1>0. /\ episode \in [Series -> BOOLEAN] /\ lost \in [Series -> {"no", "unrecorded", "tick"}]
      /\ UNCHANGED <<incidents, run>>
  BY DEF Environment, Second, Fire, Clear, Delete, IncidentInv, OthersOK
<1>1. ASSUME NEW s \in Series, Recorded(s)' PROVE Recorded(s)
  <2>1. CASE Second \/ \E t \in Series : Delete(t)
    BY <1>0, <1>1, <2>1 DEF Second, Delete, Recorded
  <2>2. CASE \E t \in Series : Clear(t)
    <3>1. PICK t \in Series : Clear(t)
      BY <2>2
    <3>2. episode' = [episode EXCEPT ![t] = FALSE] /\ UNCHANGED <<lost, pending>>
      BY <3>1 DEF Clear
    <3>3. episode'[s] => episode[s]
      BY <1>0, <3>2
    <3> QED  BY <1>0, <1>1, <3>2, <3>3 DEF Recorded
  <2>3. CASE \E t \in Series : Fire(t)
    <3>1. PICK t \in Series : Fire(t)
      BY <2>3
    <3>2. CASE t # s
      <4>1. episode'[s] = episode[s] /\ lost'[s] = lost[s] /\ pending \subseteq pending'
        BY <1>0, <3>1, <3>2 DEF Fire
      <4> QED  BY <1>0, <1>1, <4>1 DEF Recorded
    <3>3. CASE t = s
      <4>1. s \notin pending'
        BY <1>1 DEF Recorded
      <4>2. episode[s] /\ UNCHANGED <<pending, lost>>
        BY <3>1, <3>3, <4>1 DEF Fire
      <4> QED  BY <1>0, <1>1, <4>2 DEF Recorded
    <3> QED  BY <3>2, <3>3
  <2> QED  BY <2>1, <2>2, <2>3 DEF Environment
<1> QED  BY <1>0, <1>1, ElsewhereStill

LEMMA TickStill ==
  ASSUME IncidentInv, CoverInv, TickStep \/ TickDies \/ \E id \in Ids : StartTick(id)
  PROVE  CoverInv'
<1>1. CASE TickClose /\ incidents[tick.id].status # "resolved"
  BY <1>1, TickCloseStill
<1>2. CASE TickRenotify /\ ~UNCHANGED incidents
  BY <1>2, TickRenotifyStill
<1>3. CASE ~(TickClose /\ incidents[tick.id].status # "resolved") /\ ~(TickRenotify /\ ~UNCHANGED incidents)
  <2>1. UNCHANGED <<incidents, run, lost, pending>>
    BY <1>3 DEF TickStep, TickStale, TickAllClosed, TickOpen, TickOpenRead, TickSilent, TickKeeps,
                TickAllSilent, TickClose, TickUnpoint, TickEpisode, TickRenotify, TickDies, StartTick,
                world
  <2>2. \A s \in Series : episode'[s] => episode[s]
    <3>1. CASE TickEpisode
      BY <3>1 DEF TickEpisode, IncidentInv, OthersOK
    <3>2. CASE ~TickEpisode
      <4>1. UNCHANGED episode
        BY <3>2 DEF TickStep, TickStale, TickAllClosed, TickOpen, TickOpenRead, TickSilent, TickKeeps,
                    TickAllSilent, TickClose, TickUnpoint, TickRenotify, TickDies, StartTick, world
      <4> QED  BY <4>1
    <3> QED  BY <3>1, <3>2
  <2>3. \A s \in Series : Recorded(s)' => Recorded(s)
    BY <2>1, <2>2 DEF Recorded
  <2> QED  BY <2>1, <2>3, ElsewhereStill
<1> QED  BY <1>1, <1>2, <1>3

LEMMA StepCover == RoomForAll /\ IncidentInv /\ CoverInv /\ [Next]_vars => CoverInv'
<1> SUFFICES ASSUME RoomForAll, IncidentInv, CoverInv, [Next]_vars PROVE CoverInv'
  OBVIOUS
<1>1. CASE Environment
  BY <1>1, WorldStill
<1>2. ASSUME NEW r \in Routers, Route(r) PROVE CoverInv'
  <2>1. CASE Start(r)
    BY <2>1, StartStill DEF Start
  <2>2. CASE PointTaken(r) \/ SaveConflict(r)
    <3>1. Retry(r) /\ UNCHANGED <<incidents, episode, pending>>
      BY <2>2 DEF PointTaken, SaveConflict, world
    <3> QED  BY <3>1, RetryStill
  <2> QED  BY <1>2, <2>1, <2>2, ReadPointerStill, LoadStill, CheckStill, PointStill, SaveStill, EndStill
           DEF Route, Sync
<1>3. ASSUME NEW p \in People, Request(p) \/ AckStep(p) PROVE CoverInv'
  <2>1. CASE AckSave(p)
    BY <2>1, AckSaveStill
  <2>2. CASE ~AckSave(p)
    <3>1. UNCHANGED <<incidents, run, episode, lost, pending>>
      BY <1>3, <2>2 DEF Request, RequestAck, AckStep, AckRead, AckConflict, world
    <3> QED  BY <3>1, ElsewhereStill DEF Recorded
  <2> QED  BY <2>1, <2>2
<1>4. CASE TickStep \/ TickDies \/ \E id \in Ids : StartTick(id)
  BY <1>4, TickStill
<1>5. CASE UNCHANGED vars
  BY <1>5, ElsewhereStill DEF vars, Recorded
<1> QED  BY <1>1, <1>2, <1>3, <1>4, <1>5 DEF Next

(* While an incident has room for every series of its axis: a series that      *)
(* fires and went through a router that could record it is in an open          *)
(* incident, whatever the other routers, the people and the tick interleave,   *)
(* unless the tick closed that incident (_sync_incident, incident_store.save). *)
THEOREM CoveredAlways == ASSUME RoomForAll PROVE Spec => []Covered
<1>1. IncidentInv /\ CoverInv => Covered
  <2> SUFFICES ASSUME IncidentInv, CoverInv, NEW s \in Series,
                      episode[s], s \notin pending \cup InFlight, lost[s] \notin {"unrecorded", "tick"}
               PROVE  \E id \in Ids : IsOpen(incidents[id]) /\ s \in incidents[id].members
    BY DEF Covered
  <2>1. lost[s] = "no"
    BY DEF IncidentInv, OthersOK
  <2>2. \A r \in Routers : s \notin run[r].firing
    BY DEF InFlight
  <2>3. Recorded(s)
    BY <2>1, <2>2 DEF Recorded
  <2>4. \E id \in Ids : Keeping(id, s)
    BY <2>3 DEF CoverInv
  <2> QED  BY <2>4 DEF Keeping
<1>2. IncidentInv /\ CoverInv /\ [Next]_vars => CoverInv'
  BY StepCover
<1> QED  BY <1>1, <1>2, InitCover, IncidentInvariant, PTL DEF Spec
================================================================================
