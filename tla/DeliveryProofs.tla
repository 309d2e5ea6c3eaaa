----------------------------- MODULE DeliveryProofs ----------------------------
(* Proofs about Delivery, with the tables of Settings and Channels: what was   *)
(* saved a minute ago is obeyed, secrets stay what somebody typed, and a       *)
(* delivery accounts for every channel, for any number of containers, fields,  *)
(* people and channels, any life of a copy, any times and whatever fails.      *)
EXTENDS Delivery, Integers, WellFoundedInduction, TLAPS

ItemType == {NoItem} \cup [Stored -> Values]
UseType == [ok : BOOLEAN, load : LoadType]

SettingsShape ==
  /\ policy \in ItemType /\ silences \subseteq Windows
  /\ clock \in 0..MaxClock /\ wrote \in 0..MaxClock /\ wrote <= clock
  /\ cache \in [Containers -> LoadType] /\ reading \in [Containers -> LoadType]
  /\ used \in [Containers -> UseType]

(* A copy is older than the last change of the table, or a copy of the table.  *)
TellsTable(load) == load.policy = Overlaid(policy) /\ load.silences = silences

CopyOK(c) ==
  /\ cache[c].at <= clock \/ cache[c].at = MaxClock + 1
  /\ cache[c].at <= clock /\ wrote < cache[c].at => TellsTable(cache[c])

(* A load under way began at this tick of the clock.                           *)
ReadingOK(c) ==
  reading[c] # Nothing =>
    /\ reading[c].at = clock
    /\ wrote < clock => reading[c].policy = Overlaid(policy)

UseOK(c) ==
  used[c].ok =>
    /\ used[c].load.at <= clock
    /\ wrote + TTL <= used[c].load.at => TellsTable(used[c].load)

SettingsInv ==
  SettingsShape /\ \A c \in Containers : CopyOK(c) /\ ReadingOK(c) /\ UseOK(c)
--------------------------------------------------------------------------------
LEMMA OverlaidType == ASSUME policy \in ItemType PROVE Overlaid(policy) \in PolicyType
  BY SettingsAssumption DEF ItemType, Overlaid, PolicyType, NoItem, Stored

LEMMA NothingType == Nothing \in LoadType
  BY SettingsAssumption DEF Nothing, LoadType, PolicyType

LEMMA InitInv == Init => SettingsInv
<1> SUFFICES ASSUME SettingsInit PROVE SettingsInv
  BY DEF Init
<1>1. SettingsShape
  BY NothingType, SettingsAssumption DEF SettingsInit, SettingsShape, ItemType, UseType
<1>2. ASSUME NEW c \in Containers PROVE CopyOK(c) /\ ReadingOK(c) /\ UseOK(c)
  <2>1. Nothing.at = MaxClock + 1
    BY DEF Nothing
  <2> QED  BY <2>1, SettingsAssumption DEF SettingsInit, CopyOK, ReadingOK, UseOK
<1> QED  BY <1>1, <1>2 DEF SettingsInv

(* A change of the table makes every copy older than it.                       *)
LEMMA WrittenKeeps ==
  ASSUME SettingsInv, Written, policy' \in ItemType, silences' \subseteq Windows
  PROVE  SettingsInv'
<1>1. SettingsShape'
  BY DEF SettingsInv, SettingsShape, Written
<1>2. ASSUME NEW c \in Containers PROVE (CopyOK(c) /\ ReadingOK(c) /\ UseOK(c))'
  <2>1. /\ cache[c] \in LoadType /\ reading[c] \in LoadType /\ used[c] \in UseType
        /\ clock \in Nat
    BY SettingsAssumption DEF SettingsInv, SettingsShape
  <2>2. cache[c].at \in Nat /\ reading[c].at \in Nat /\ used[c].load.at \in Nat
    BY <2>1, SettingsAssumption DEF LoadType, UseType
  <2>3. CopyOK(c) /\ ReadingOK(c) /\ UseOK(c)
    BY DEF SettingsInv
  <2>4. CopyOK(c)'
    BY <2>1, <2>2, <2>3 DEF CopyOK, Written
  <2>5. ReadingOK(c)'
    BY <2>1, <2>2, <2>3 DEF ReadingOK, Written, Nothing
  <2>6. UseOK(c)'
    BY <2>1, <2>2, <2>3, SettingsAssumption DEF UseOK, Written
  <2> QED  BY <2>4, <2>5, <2>6
<1> QED  BY <1>1, <1>2 DEF SettingsInv

LEMMA SavingKeeps ==
  ASSUME SettingsInv,
         PutPolicy \/ \E s \in Windows : CreateSilence(s) \/ DeleteSilence(s)
  PROVE  SettingsInv'
<1>1. CASE PutPolicy
  <2> PICK body \in UNION {[fs -> Values] : fs \in SUBSET Fields \ {{}}} :
        Written /\ policy' = AsSaved(body) /\ UNCHANGED silences
    BY <1>1 DEF PutPolicy
  <2>1. PICK fs \in SUBSET Fields : body \in [fs -> Values]
    OBVIOUS
  <2>2. AsSaved(body) \in [Stored -> Values]
    BY <2>1, SettingsAssumption DEF AsSaved, Stored
  <2> QED  BY <2>2, WrittenKeeps DEF ItemType, SettingsInv, SettingsShape
<1>2. CASE \E s \in Windows : CreateSilence(s) \/ DeleteSilence(s)
  <2>1. Written /\ policy' = policy /\ silences' \subseteq Windows
    BY <1>2 DEF CreateSilence, DeleteSilence, SettingsInv, SettingsShape
  <2> QED  BY <2>1, WrittenKeeps DEF SettingsInv, SettingsShape
<1> QED  BY <1>1, <1>2

(* What a container does leaves the table, the clock and the others alone.     *)
LEMMA ContainerKeeps ==
  ASSUME SettingsInv, NEW c \in Containers,
         UNCHANGED <<policy, silences, wrote, clock>>,
         NEW load \in LoadType, NEW copy \in LoadType, NEW use \in UseType,
         reading' = [reading EXCEPT ![c] = load],
         cache' = [cache EXCEPT ![c] = copy], used' = [used EXCEPT ![c] = use],
         (CopyOK(c) /\ ReadingOK(c) /\ UseOK(c))'
  PROVE  SettingsInv'
<1>1. SettingsShape'
  BY DEF SettingsInv, SettingsShape
<1>2. ASSUME NEW d \in Containers PROVE (CopyOK(d) /\ ReadingOK(d) /\ UseOK(d))'
  <2>1. CASE d = c  BY <2>1
  <2>2. CASE d # c
    <3>1. cache'[d] = cache[d] /\ reading'[d] = reading[d] /\ used'[d] = used[d]
      BY <2>2 DEF SettingsInv, SettingsShape
    <3>2. CopyOK(d) /\ ReadingOK(d) /\ UseOK(d)
      BY DEF SettingsInv
    <3> QED  BY <3>1, <3>2 DEF CopyOK, ReadingOK, UseOK, TellsTable, Overlaid, Nothing
  <2> QED  BY <2>1, <2>2
<1> QED  BY <1>1, <1>2 DEF SettingsInv

LEMMA LoadFacts ==
  ASSUME SettingsInv, NEW c \in Containers
  PROVE  /\ cache[c] \in LoadType /\ reading[c] \in LoadType /\ used[c] \in UseType
         /\ cache[c].at \in Nat /\ reading[c].at \in Nat /\ used[c].load.at \in Nat
         /\ clock \in Nat /\ wrote \in Nat /\ clock <= MaxClock
         /\ CopyOK(c) /\ ReadingOK(c) /\ UseOK(c)
  BY SettingsAssumption DEF SettingsInv, SettingsShape, LoadType, UseType

(* A judgement by `load` at this tick of the clock.                            *)
Judged(load, ok) == [ok |-> ok, load |-> [load EXCEPT !.at = clock]]

LEMMA JudgedType ==
  ASSUME SettingsInv, NEW load \in LoadType, NEW ok \in BOOLEAN
  PROVE  /\ Judged(load, ok) \in UseType
         /\ Judged(load, ok).load.at = clock /\ Judged(load, ok).ok = ok
         /\ Judged(load, ok).load.policy = load.policy
         /\ Judged(load, ok).load.silences = load.silences
  BY SettingsAssumption DEF Judged, UseType, LoadType, SettingsInv, SettingsShape

LEMMA JudgeByCopyKeeps ==
  ASSUME SettingsInv, NEW c \in Containers, JudgeByCopy(c)
  PROVE  SettingsInv'
<1> DEFINE use == Judged(cache[c], TRUE)
<1>1. use \in UseType /\ use.load.at = clock /\ use.load.policy = cache[c].policy
      /\ use.load.silences = cache[c].silences
  BY LoadFacts, JudgedType
<1>2. used' = [used EXCEPT ![c] = use]
  BY DEF JudgeByCopy, Uses, Judged
<1>3. cache' = [cache EXCEPT ![c] = cache[c]] /\ reading' = [reading EXCEPT ![c] = reading[c]]
  BY DEF JudgeByCopy, SettingsInv, SettingsShape
<1>4. used'[c] = use
  BY <1>2 DEF SettingsInv, SettingsShape
<1>5. wrote + TTL <= clock => wrote < cache[c].at
  BY LoadFacts, SettingsAssumption DEF JudgeByCopy, Fresh
<1>7. (CopyOK(c) /\ ReadingOK(c))'
  BY LoadFacts DEF CopyOK, ReadingOK, TellsTable, Overlaid, Nothing, JudgeByCopy
<1> HIDE DEF use
<1>8. wrote + TTL <= clock => use.load.policy = Overlaid(policy) /\ use.load.silences = silences
  BY <1>1, <1>5, LoadFacts DEF CopyOK, TellsTable, JudgeByCopy, Fresh
<1>6. UseOK(c)'
  <2>1. policy' = policy /\ silences' = silences /\ clock' = clock /\ wrote' = wrote
    BY DEF JudgeByCopy
  <2>2. clock <= clock
    BY LoadFacts
  <2> QED  BY <1>1, <1>4, <1>8, <2>1, <2>2 DEF UseOK, TellsTable, Overlaid
<1> QED  BY <1>1, <1>2, <1>3, <1>6, <1>7, LoadFacts, ContainerKeeps DEF JudgeByCopy

LEMMA ReadPolicyKeeps ==
  ASSUME SettingsInv, NEW c \in Containers, ReadPolicy(c)
  PROVE  SettingsInv'
<1> DEFINE load == [Nothing EXCEPT !.at = clock, !.policy = Overlaid(policy)]
<1>1. load \in LoadType /\ load.at = clock /\ load.policy = Overlaid(policy)
  <2>1. Overlaid(policy) \in PolicyType /\ clock \in 0..MaxClock + 1
    BY OverlaidType, SettingsAssumption DEF SettingsInv, SettingsShape
  <2> QED  BY <2>1 DEF Nothing, LoadType
<1>2. reading' = [reading EXCEPT ![c] = load] /\ reading'[c] = load
  BY DEF ReadPolicy, SettingsInv, SettingsShape
<1>3. cache' = [cache EXCEPT ![c] = cache[c]] /\ used' = [used EXCEPT ![c] = used[c]]
  BY DEF ReadPolicy, SettingsInv, SettingsShape
<1>4. (CopyOK(c) /\ UseOK(c))'
  BY LoadFacts DEF CopyOK, UseOK, TellsTable, Overlaid, ReadPolicy
<1> HIDE DEF load
<1>5. ReadingOK(c)'
  BY <1>1, <1>2 DEF ReadingOK, ReadPolicy, Overlaid
<1> QED  BY <1>1, <1>2, <1>3, <1>4, <1>5, LoadFacts, ContainerKeeps DEF ReadPolicy

LEMMA ReadSilencesKeeps ==
  ASSUME SettingsInv, NEW c \in Containers, ReadSilences(c)
  PROVE  SettingsInv'
<1> DEFINE load == [reading[c] EXCEPT !.silences = silences]
           use  == Judged(load, TRUE)
<1>1. load \in LoadType /\ load.at = reading[c].at /\ load.policy = reading[c].policy
      /\ load.silences = silences
  BY LoadFacts DEF LoadType, SettingsInv, SettingsShape
<1>2. use \in UseType /\ use.load.at = clock /\ use.load.policy = load.policy
      /\ use.load.silences = load.silences
  BY <1>1, JudgedType
<1>3. cache' = [cache EXCEPT ![c] = load] /\ used' = [used EXCEPT ![c] = use]
      /\ reading' = [reading EXCEPT ![c] = Nothing]
  BY DEF ReadSilences, Uses, Judged
<1>4. cache'[c] = load /\ used'[c] = use /\ reading'[c] = Nothing
  BY <1>3 DEF SettingsInv, SettingsShape
<1>5. load.at = clock /\ (wrote < clock => load.policy = Overlaid(policy))
  BY <1>1, LoadFacts DEF ReadSilences, ReadingOK
<1> HIDE DEF load, use
<1>6. CopyOK(c)'
  <2>1. cache'[c] = load /\ clock' = clock /\ wrote' = wrote
    BY <1>4 DEF ReadSilences
  <2>2. policy' = policy /\ silences' = silences
    BY DEF ReadSilences
  <2>3. clock <= clock
    BY LoadFacts
  <2> QED  BY <1>1, <1>5, <2>1, <2>2, <2>3 DEF CopyOK, TellsTable, Overlaid
<1>7. UseOK(c)'
  <2>1. policy' = policy /\ silences' = silences /\ clock' = clock /\ wrote' = wrote
    BY DEF ReadSilences
  <2>2. clock <= clock /\ (wrote + TTL <= clock => wrote < clock)
    BY LoadFacts, SettingsAssumption
  <2>3. wrote < clock => use.load.policy = Overlaid(policy) /\ use.load.silences = silences
    BY <1>1, <1>2, <1>5
  <2> QED  BY <1>2, <1>4, <2>1, <2>2, <2>3 DEF UseOK, TellsTable, Overlaid
<1>8. ReadingOK(c)'
  BY <1>4 DEF ReadingOK, Nothing
<1> QED
  BY <1>1, <1>2, <1>3, <1>6, <1>7, <1>8, NothingType, ContainerKeeps DEF ReadSilences

LEMMA LoadFailsKeeps ==
  ASSUME SettingsInv, NEW c \in Containers, LoadFails(c)
  PROVE  SettingsInv'
<1> DEFINE use == Judged(Nothing, FALSE)
<1>1. use \in UseType /\ use.ok = FALSE
  BY NothingType, JudgedType
<1>2. used' = [used EXCEPT ![c] = use] /\ reading' = [reading EXCEPT ![c] = Nothing]
      /\ cache' = [cache EXCEPT ![c] = cache[c]]
  BY DEF LoadFails, Uses, Judged, SettingsInv, SettingsShape
<1>3. used'[c] = use /\ reading'[c] = Nothing
  BY <1>2 DEF SettingsInv, SettingsShape
<1> HIDE DEF use
<1>4. (UseOK(c) /\ ReadingOK(c))'
  BY <1>1, <1>3 DEF UseOK, ReadingOK, Nothing
<1>5. CopyOK(c)'
  BY LoadFacts DEF CopyOK, TellsTable, Overlaid, LoadFails
<1> QED  BY <1>1, <1>2, <1>4, <1>5, LoadFacts, NothingType, ContainerKeeps DEF LoadFails

LEMMA PassesKeeps ==
  ASSUME SettingsInv, Passes
  PROVE  SettingsInv'
<1>1. SettingsShape'
  BY SettingsAssumption DEF SettingsInv, SettingsShape, Passes
<1>2. ASSUME NEW c \in Containers PROVE (CopyOK(c) /\ ReadingOK(c) /\ UseOK(c))'
  <2>1. CopyOK(c)'
    BY LoadFacts, SettingsAssumption DEF Passes, CopyOK, TellsTable, Overlaid
  <2>2. ReadingOK(c)'
    BY DEF Passes, ReadingOK, Nothing
  <2>3. UseOK(c)'
    BY LoadFacts DEF Passes, UseOK, TellsTable, Overlaid
  <2> QED  BY <2>1, <2>2, <2>3
<1> QED  BY <1>1, <1>2 DEF SettingsInv

LEMMA ElsewhereKeeps ==
  ASSUME SettingsInv, UNCHANGED settings
  PROVE  SettingsInv'
  BY DEF SettingsInv, SettingsShape, CopyOK, ReadingOK, UseOK, TellsTable, Overlaid, Nothing, settings

LEMMA NextKeeps == SettingsInv /\ [Next]_vars => SettingsInv'
<1> SUFFICES ASSUME SettingsInv, [Next]_vars PROVE SettingsInv'
  OBVIOUS
<1>1. CASE SettingsNext
  <2>1. CASE PutPolicy \/ \E s \in Windows : CreateSilence(s) \/ DeleteSilence(s)
    BY <2>1, SavingKeeps
  <2>2. CASE \E c \in Containers : JudgeByCopy(c) \/ ReadPolicy(c) \/ ReadSilences(c) \/ LoadFails(c)
    BY <2>2, JudgeByCopyKeeps, ReadPolicyKeeps, ReadSilencesKeeps, LoadFailsKeeps
  <2>3. CASE Passes
    BY <2>3, PassesKeeps
  <2> QED  BY <1>1, <2>1, <2>2, <2>3 DEF SettingsNext
<1>2. CASE ~SettingsNext
  <2>1. UNCHANGED settings
    BY <1>2 DEF Next, vars, Sends, Take, QueryOwn, QueryGlobal, ClaimNotice, NextChannel, Accepted,
              Refused, Unanswered, AllSent, Record, Gone
  <2> QED  BY <2>1, ElsewhereKeeps
<1> QED  BY <1>1, <1>2

(* The copies, the loads under way and the judgements agree with the table up  *)
(* to what was written since: the inductive invariant of `Obeyed`.             *)
THEOREM SettingsInvariant == Spec => []SettingsInv
  BY InitInv, NextKeeps, PTL DEF Spec

(* A judgement that could read the table goes by what was saved a minute       *)
(* before, whatever the containers, the people and the failures do             *)
(* (alert_config.load_cached).                                                 *)
THEOREM ObeyedAlways == Spec => []Obeyed
<1>1. SettingsInv => Obeyed
  BY DEF SettingsInv, UseOK, TellsTable, Obeyed
<1> QED  BY <1>1, SettingsInvariant, PTL
--------------------------------------------------------------------------------
(* The rows, and what each person's form holds.  What a form shows for a       *)
(* secret never gets into a row: the forms that put one have it replaced.      *)
FullRow == [secret : 1..MaxEdits, asks : SUBSET Kinds, on : BOOLEAN]
SeenRow == [secret : {Placeholder}, asks : SUBSET Kinds, on : BOOLEAN]
FormType ==
  [pc : {"idle", "create", "open", "put"}, ch : Ids \cup {Idle.ch},
   row : [secret : 0..MaxEdits + 1, asks : SUBSET Kinds, on : BOOLEAN]]

FormOK(f) ==
  /\ f.pc # "idle" => f.ch \in Ids /\ edits > 0
  /\ f.pc \in {"create", "put"} => f.row \in FullRow
  /\ f.pc = "open" => f.row \in SeenRow

FormsInv ==
  /\ rows \in [Ids -> RowType] /\ form \in [People -> FormType]
  /\ edits \in 0..MaxEdits /\ faults \in 0..MaxFaults
  /\ \A p \in People : FormOK(form[p])

LEMMA IdleForm == Idle \in FormType /\ Idle.pc = "idle" /\ FormOK(Idle)
  BY SettingsAssumption DEF Idle, FormType, NoRow, FormOK

LEMMA InitForms == Init => FormsInv
<1> SUFFICES ASSUME Init PROVE FormsInv
  OBVIOUS
<1>1. form = [p \in People |-> Idle] /\ rows = [ch \in Ids |-> NoRow] /\ edits = 0 /\ faults = 0
  BY DEF Init, ChannelsInit, SettingsInit
<1>2. rows \in [Ids -> RowType]
  BY <1>1 DEF RowType
<1>3. edits \in 0..MaxEdits /\ faults \in 0..MaxFaults
  BY <1>1, SettingsAssumption
<1> QED  BY <1>1, <1>2, <1>3, IdleForm DEF FormsInv

(* A person's step turns one form, and edits only grow.                        *)
LEMMA TurnKeeps ==
  ASSUME FormsInv, NEW p \in People, NEW f \in FormType, Turns(p, f),
         rows' \in [Ids -> RowType],
         edits' \in 0..MaxEdits, edits <= edits', faults' = faults, FormOK(f)'
  PROVE  FormsInv'
<1>1. form' \in [People -> FormType]
  BY DEF Turns, FormsInv
<1>2. ASSUME NEW q \in People PROVE FormOK(form[q])'
  <2>1. CASE q = p
    BY <2>1 DEF Turns, FormsInv, FormOK
  <2>2. CASE q # p
    <3>1. form'[q] = form[q] /\ FormOK(form[q])
      BY <2>2 DEF Turns, FormsInv
    <3>2. edits > 0 => edits' > 0
      BY SettingsAssumption DEF FormsInv
    <3> QED  BY <3>1, <3>2 DEF FormOK
  <2> QED  BY <2>1, <2>2
<1> QED  BY <1>1, <1>2 DEF FormsInv

LEMMA EditFacts ==
  ASSUME FormsInv, Edits
  PROVE  /\ edits' \in 1..MaxEdits /\ edits' \in 0..MaxEdits /\ edits <= edits' /\ edits' > 0
         /\ faults' = faults
  BY SettingsAssumption DEF FormsInv, Edits

LEMMA CountChannelsKeeps ==
  ASSUME FormsInv, NEW p \in People, NEW ch \in Ids, CountChannels(p, ch)
  PROVE  FormsInv'
<1> PICK asks \in SUBSET Kinds :
      Turns(p, [pc |-> "create", ch |-> ch, row |-> [secret |-> edits', asks |-> asks, on |-> TRUE]])
  BY DEF CountChannels
<1>1. Edits /\ rows' = rows
  BY DEF CountChannels
<1>2. PICK n \in 1..MaxEdits : n = edits'
  BY <1>1, EditFacts
<1> DEFINE row == [secret |-> n, asks |-> asks, on |-> TRUE]
           f   == [pc |-> "create", ch |-> ch, row |-> row]
<1>3. row \in FullRow
  BY DEF FullRow
<1>4. n \in 0..MaxEdits + 1
  BY SettingsAssumption
<1>5. f \in FormType
  BY <1>4 DEF FormType
<1>6. FormOK(f)'
  BY <1>1, <1>3, EditFacts DEF FormOK
<1>7. Turns(p, f)
  BY <1>2
<1>8. rows' \in [Ids -> RowType]
  BY <1>1 DEF FormsInv
<1> HIDE DEF f
<1> QED  BY <1>1, <1>5, <1>6, <1>7, <1>8, EditFacts, TurnKeeps

LEMMA PutKeeps ==
  ASSUME FormsInv, NEW p \in People, CreateChannel(p) \/ UpdateChannel(p) \/ DeleteChannel(p)
  PROVE  FormsInv'
<1>1. rows' \in [Ids -> RowType]
  <2>1. CASE CreateChannel(p) \/ UpdateChannel(p)
    <3>1. form[p].row \in RowType
      BY <2>1 DEF FormsInv, CreateChannel, UpdateChannel, AtForm, FormOK, FullRow, RowType
    <3> QED  BY <2>1, <3>1 DEF CreateChannel, UpdateChannel, FormsInv
  <2>2. CASE DeleteChannel(p)
    <3>1. NoRow \in RowType
      BY DEF RowType
    <3> QED  BY <2>2, <3>1 DEF DeleteChannel, FormsInv
  <2> QED  BY <2>1, <2>2
<1>2. Turns(p, Idle) /\ edits' = edits /\ faults' = faults
  BY DEF CreateChannel, UpdateChannel, DeleteChannel
<1>3. edits \in 0..MaxEdits /\ edits <= edits
  BY SettingsAssumption DEF FormsInv
<1>4. FormOK(Idle)'
  BY IdleForm DEF FormOK, Idle
<1> QED  BY <1>1, <1>2, <1>3, <1>4, IdleForm, TurnKeeps

LEMMA OpenFormKeeps ==
  ASSUME FormsInv, NEW p \in People, NEW ch \in Ids, OpenForm(p, ch)
  PROVE  FormsInv'
<1>1. rows[ch] \in FullRow
  BY DEF OpenForm, FormsInv, RowType, FullRow
<1>2. PICK row \in SeenRow : row = [rows[ch] EXCEPT !.secret = Placeholder]
  BY <1>1 DEF FullRow, SeenRow
<1> DEFINE f == [pc |-> "open", ch |-> ch, row |-> row]
<1>3. Placeholder \in 0..MaxEdits + 1
  BY SettingsAssumption DEF Placeholder
<1>4. f \in FormType
  BY <1>2, <1>3 DEF SeenRow, FormType
<1>5. Edits /\ rows' = rows /\ Turns(p, f)
  BY <1>2 DEF OpenForm
<1>6. FormOK(f)'
  BY <1>2, <1>5, EditFacts DEF FormOK, SeenRow, Placeholder
<1>7. rows' \in [Ids -> RowType]
  BY <1>5 DEF FormsInv
<1> HIDE DEF f
<1> QED  BY <1>4, <1>5, <1>6, <1>7, EditFacts, TurnKeeps

(* Whatever a form sends for a secret, the row to put has one that was typed.  *)
LEMMA KeptSecret ==
  ASSUME NEW sent \in 0..MaxEdits + 1, NEW existing \in 1..MaxEdits
  PROVE  KeepExisting(sent, existing) \in 1..MaxEdits
  BY SettingsAssumption DEF KeepExisting, Placeholder

LEMMA BodyType ==
  ASSUME FormsInv, NEW p \in People, AtForm(p, "open"), NEW body \in Bodies(p)
  PROVE  body \in [secret : 0..MaxEdits + 1, asks : SUBSET Kinds, on : BOOLEAN]
<1> DEFINE seen == form[p].row
<1>1. seen \in SeenRow
  BY DEF FormsInv, AtForm, FormOK
<1>2. Placeholder \in 0..MaxEdits + 1 /\ 0 \in 0..MaxEdits + 1 /\ edits \in 0..MaxEdits + 1
  BY SettingsAssumption DEF Placeholder, FormsInv
<1>3. CASE body \in {[seen EXCEPT !.secret = s] : s \in {0, Placeholder, edits}}
  BY <1>1, <1>2, <1>3 DEF SeenRow
<1>4. CASE body \in {[seen EXCEPT !.asks = a] : a \in SUBSET Kinds}
  BY <1>1, <1>2, <1>4 DEF SeenRow
<1>5. CASE body = [seen EXCEPT !.on = ~@]
  BY <1>1, <1>2, <1>5 DEF SeenRow
<1>6. CASE body = [secret |-> 0, asks |-> {}, on |-> TRUE]
  BY <1>2, <1>6
<1> QED  BY <1>3, <1>4, <1>5, <1>6 DEF Bodies

LEMMA ReadToUpdateKeeps ==
  ASSUME FormsInv, NEW p \in People, ReadToUpdate(p)
  PROVE  FormsInv'
<1> PICK body \in Bodies(p) :
      Turns(p, IF rows[form[p].ch] = NoRow THEN Idle
               ELSE [form[p] EXCEPT !.pc = "put",
                       !.row = [body EXCEPT !.secret = KeepExisting(@, rows[form[p].ch].secret)]])
  BY DEF ReadToUpdate
<1>1. AtForm(p, "open") /\ rows' = rows /\ edits' = edits /\ faults' = faults
  BY DEF ReadToUpdate
<1>2. edits \in 0..MaxEdits /\ edits <= edits /\ rows' \in [Ids -> RowType]
  BY <1>1, SettingsAssumption DEF FormsInv
<1>3. form[p] \in FormType /\ form[p].ch \in Ids /\ edits > 0
  BY <1>1 DEF FormsInv, FormOK, AtForm
<1>4. CASE rows[form[p].ch] = NoRow
  <2>1. FormOK(Idle)'
    BY IdleForm DEF FormOK, Idle
  <2> QED  BY <1>1, <1>2, <1>4, <2>1, IdleForm, TurnKeeps
<1>5. CASE rows[form[p].ch] # NoRow
  <2>1. rows[form[p].ch] \in FullRow
    BY <1>3, <1>5 DEF FormsInv, RowType, FullRow
  <2>2. body \in [secret : 0..MaxEdits + 1, asks : SUBSET Kinds, on : BOOLEAN]
    BY <1>1, BodyType
  <2>3. PICK kept \in 1..MaxEdits : kept = KeepExisting(body.secret, rows[form[p].ch].secret)
    BY <2>1, <2>2, KeptSecret DEF FullRow
  <2>4. PICK row \in FullRow : row = [body EXCEPT !.secret = kept]
    BY <2>2 DEF FullRow
  <2>5. row \in [secret : 0..MaxEdits + 1, asks : SUBSET Kinds, on : BOOLEAN]
    BY SettingsAssumption DEF FullRow
  <2>6. PICK f \in FormType : f = [form[p] EXCEPT !.pc = "put", !.row = row]
    BY <1>3, <2>5 DEF FormType
  <2>7. f.pc = "put" /\ f.row = row /\ f.ch \in Ids
    BY <1>3, <2>6 DEF FormType
  <2>8. Turns(p, f)
    BY <1>5, <2>3, <2>4, <2>6
  <2>9. FormOK(f)'
    BY <1>1, <1>3, <2>7 DEF FormOK
  <2> QED  BY <1>1, <1>2, <2>8, <2>9, TurnKeeps
<1> QED  BY <1>4, <1>5

(* The policy and the silences spend edits and faults, and leave the forms.    *)
LEMMA FormsKept ==
  ASSUME FormsInv, [Next]_vars
  PROVE  FormsInv'
<1>1. CASE SettingsNext /\ UNCHANGED <<rows, form, send, notices>>
  <2>1. edits' \in 0..MaxEdits /\ faults' \in 0..MaxFaults /\ edits <= edits'
    <3>1. Edits \/ Fails \/ UNCHANGED <<edits, faults>>
      BY <1>1 DEF SettingsNext, PutPolicy, CreateSilence, DeleteSilence, JudgeByCopy, ReadPolicy,
                  ReadSilences, LoadFails, Passes
    <3>2. /\ edits \in 0..MaxEdits /\ faults \in 0..MaxFaults
          /\ MaxEdits \in Nat /\ MaxFaults \in Nat
      BY SettingsAssumption DEF FormsInv
    <3>3. CASE Edits
      BY <3>2, <3>3 DEF Edits
    <3>4. CASE Fails
      BY <3>2, <3>4 DEF Fails
    <3>5. CASE UNCHANGED <<edits, faults>>
      BY <3>2, <3>5
    <3> QED  BY <3>1, <3>3, <3>4, <3>5
  <2>2. ASSUME NEW p \in People PROVE FormOK(form[p])'
    <3>1. FormOK(form[p]) /\ form' = form
      BY <1>1 DEF FormsInv
    <3>2. edits > 0 => edits' > 0
      BY <2>1, SettingsAssumption DEF FormsInv
    <3> QED  BY <3>1, <3>2 DEF FormOK
  <2> QED  BY <1>1, <2>1, <2>2 DEF FormsInv
<1>2. CASE ChannelsNext
  BY <1>2, CountChannelsKeeps, PutKeeps, OpenFormKeeps, ReadToUpdateKeeps DEF ChannelsNext
<1>3. CASE UNCHANGED <<rows, form, edits, faults>>
  BY <1>3 DEF FormsInv, FormOK
<1>4. \/ SettingsNext /\ UNCHANGED <<rows, form, send, notices>>
      \/ ChannelsNext \/ UNCHANGED <<rows, form, edits, faults>>
  BY DEF Next, vars, Sends, Take, QueryOwn, QueryGlobal, ClaimNotice, NextChannel, Accepted,
         Refused, Unanswered, AllSent, Record, Gone
<1> QED  BY <1>1, <1>2, <1>3, <1>4
--------------------------------------------------------------------------------
(* A set of channels that is not empty has a first one: a set of naturals has  *)
(* a least one.                                                                *)
Smaller == {ss \in Nat \X Nat : ss[1] < ss[2]}

LEMMA LeastExists ==
  ASSUME NEW T \in SUBSET Nat, T # {}
  PROVE  \E m \in T : \A n \in T : m <= n
<1>1. IsWellFoundedOn(Smaller, Nat)
  BY NatLessThanWellFounded DEF OpToRel, Smaller
<1>2. PICK m \in T : \A n \in T : ~(<<n, m>> \in Smaller)
  BY <1>1, WFMin
<1>3. ASSUME NEW n \in T PROVE m <= n
  <2>1. <<n, m>> \in Nat \X Nat /\ ~(<<n, m>> \in Smaller)
    BY <1>2
  <2> QED  BY <2>1 DEF Smaller
<1> QED  BY <1>3

LEMMA FirstIsOne ==
  ASSUME NEW todo \in SUBSET Ids, todo # {}
  PROVE  First(todo) \in todo
<1> DEFINE ranks == {Rank[ch] : ch \in todo}
<1>1. ranks \in SUBSET Nat /\ ranks # {}
  BY DeliveryAssumption
<1>2. PICK m \in ranks : \A n \in ranks : m <= n
  BY <1>1, LeastExists
<1>3. PICK ch \in todo : Rank[ch] = m
  OBVIOUS
<1>4. \A other \in todo : Rank[ch] <= Rank[other]
  BY <1>2, <1>3
<1> QED  BY <1>4 DEF First

(* While a notice is sent: the channels before the first to do are settled,    *)
(* and only the first may have received something, less than `bound` times.    *)
Progress(d, ch, bound) ==
  /\ ch \in d.todo =>
       /\ d.result[ch] = "none"
       /\ d.got[ch] > 0 => ch = First(d.todo) /\ d.got[ch] < bound
  /\ ch \in d.hit \ d.todo =>
       /\ d.result[ch] \in {"ok", "failed"}
       /\ d.result[ch] = "ok" => d.got[ch] > 0
  /\ ch \notin d.hit => d.result[ch] = "none"

Told(d, ch) ==
  /\ ch \in d.hit <=> d.result[ch] # "none"
  /\ d.result[ch] = "ok" => d.got[ch] > 0
  /\ d.result[ch] = "over budget" => d.got[ch] = 0

Before == {"idle", "own", "global", "claim"}
Plan(d) == d.pc = "claim" => d.todo = d.hit

SendOK(d) ==
  /\ d \in SendType /\ d.todo \subseteq d.hit
  /\ d.attempt > 0 => d.todo # {}
  /\ d.pc \in Before =>
       d.attempt = 0 /\ \A ch \in Ids : d.result[ch] = "none" /\ d.got[ch] = 0
  /\ d.pc \in {"idle", "own", "global"} => d.todo = {}
  /\ Plan(d)
  /\ d.pc = "send" => \A ch \in Ids : Progress(d, ch, d.attempt)
  /\ d.pc = "record" => \A ch \in Ids : Told(d, ch)

(* In the midst of an attempt, which the channel may have received.            *)
Attempted(d) ==
  /\ d \in SendType /\ d.todo \subseteq d.hit /\ d.todo # {}
  /\ d.pc = "send" /\ d.attempt > 0
  /\ \A ch \in Ids : Progress(d, ch, d.attempt + 1)

SendInv == SendOK(send) /\ notices \in 0..MaxNotices

LEMMA NoSendOK == SendOK(NoSend)
<1>1. NoSend \in SendType
  <2>1. 0 \in 0..Limit /\ 0 \in 0..MaxAttempts
    BY DeliveryAssumption
  <2> QED  BY <2>1 DEF NoSend, SendType
<1> QED  BY <1>1 DEF NoSend, SendOK, Plan

LEMMA SpendsKeeps ==
  ASSUME NEW d, SendOK(d), NEW time \in Nat
  PROVE  SendOK(Spends(d, time))
<1>1. d.left \in 0..Limit /\ Limit \in Nat
  BY DeliveryAssumption DEF SendOK, SendType
<1>2. CASE time <= d.left
  <2> DEFINE left == d.left - time
             e    == [d EXCEPT !.left = left]
  <2>1. left \in 0..Limit
    BY <1>1, <1>2
  <2>2. Spends(d, time) = e
    BY <1>2 DEF Spends
  <2> HIDE DEF left
  <2>3. /\ e \in SendType /\ e.pc = d.pc /\ e.todo = d.todo /\ e.hit = d.hit
        /\ e.attempt = d.attempt /\ e.result = d.result /\ e.got = d.got
    BY <2>1 DEF SendOK, SendType
  <2> HIDE DEF e
  <2> QED  BY <2>2, <2>3 DEF SendOK, Progress, Told, Plan
<1>3. CASE ~(time <= d.left)
  <2> DEFINE half == [d EXCEPT !.left = 0]
             e    == [half EXCEPT !.pc = "dead"]
  <2>1. 0 \in 0..Limit
    BY <1>1
  <2>2. Spends(d, time) = e
    BY <1>3 DEF Spends
  <2>3. /\ half \in SendType /\ half.todo = d.todo /\ half.hit = d.hit
        /\ half.attempt = d.attempt
    BY <2>1 DEF SendOK, SendType
  <2> HIDE DEF half
  <2>4. /\ e \in SendType /\ e.pc = "dead" /\ e.todo = d.todo /\ e.hit = d.hit
        /\ e.attempt = d.attempt
    BY <2>3 DEF SendType
  <2> HIDE DEF e
  <2> QED  BY <2>2, <2>4 DEF SendOK, Plan, Before
<1> QED  BY <1>2, <1>3

(* An answer settles the first channel to do.                                  *)
LEMMA AnsweredKeeps ==
  ASSUME NEW d, Attempted(d), NEW result \in {"ok", "failed"},
         result = "ok" => d.got[First(d.todo)] > 0
  PROVE  SendOK(Answered(d, result))
<1> DEFINE ch   == First(d.todo)
           e    == Answered(d, result)
           a    == [d EXCEPT !.result[ch] = result]
           b    == [a EXCEPT !.todo = @ \ {ch}]
           c    == [b EXCEPT !.attempt = 0]
<1>1. ch \in d.todo /\ ch \in Ids
  BY FirstIsOne DEF Attempted, SendType
<1>2. e = [c EXCEPT !.last = {TypeOf[ch]} \cup @]
  BY DEF Answered, Attempted, SendType
<1> HIDE DEF ch
<1>3. /\ a \in SendType /\ a.pc = "send" /\ a.todo = d.todo /\ a.hit = d.hit
      /\ a.result = [d.result EXCEPT ![ch] = result] /\ a.got = d.got
  BY <1>1 DEF Attempted, SendType
<1> HIDE DEF a
<1>4. /\ b \in SendType /\ b.pc = "send" /\ b.todo = d.todo \ {ch} /\ b.hit = d.hit
      /\ b.result = a.result /\ b.got = d.got
  BY <1>3 DEF SendType
<1> HIDE DEF b
<1>5. 0 \in 0..MaxAttempts
  BY DeliveryAssumption
<1>6. /\ c \in SendType /\ c.pc = "send" /\ c.todo = b.todo /\ c.hit = d.hit
      /\ c.result = a.result /\ c.got = d.got /\ c.attempt = 0
  BY <1>4, <1>5 DEF SendType
<1> HIDE DEF c, e
<1>7. /\ e \in SendType /\ e.pc = "send" /\ e.todo = c.todo /\ e.hit = d.hit
      /\ e.result = a.result /\ e.got = d.got /\ e.attempt = 0
  BY <1>1, <1>2, <1>6 DEF SendType
<1>8. e.todo = d.todo \ {ch} /\ e.result = [d.result EXCEPT ![ch] = result]
  BY <1>3, <1>4, <1>6, <1>7
<1>9. ASSUME NEW x \in Ids PROVE Progress(e, x, e.attempt)
  <2>1. /\ Progress(d, x, d.attempt + 1)
        /\ d.result \in [Ids -> {"none", "ok", "failed", "over budget"}]
    BY DEF Attempted, SendType
  <2>2. CASE x = ch
    <3>1. e.result[x] = result /\ x \notin e.todo /\ x \in e.hit
      BY <1>1, <1>7, <1>8, <2>1, <2>2 DEF Attempted
    <3>2. result = "ok" => e.got[x] > 0
      BY <1>7, <2>2 DEF ch
    <3> QED  BY <3>1, <3>2 DEF Progress
  <2>3. CASE x # ch
    <3>1. e.result[x] = d.result[x] /\ (x \in e.todo <=> x \in d.todo) /\ e.hit = d.hit /\ e.got = d.got
      BY <1>7, <1>8, <2>1, <2>3
    <3>2. x \in d.todo => ~(d.got[x] > 0)
      BY <2>1, <2>3 DEF Progress, ch
    <3> QED  BY <2>1, <3>1, <3>2 DEF Progress
  <2> QED  BY <2>2, <2>3
<1>10. e.todo \subseteq e.hit
  BY <1>7, <1>8 DEF Attempted
<1>11. SendOK(e)
  BY <1>7, <1>9, <1>10 DEF SendOK, Plan, Before
<1> QED  BY <1>11 DEF e

LEMMA AttemptingOK ==
  ASSUME NEW d, SendOK(d), d.pc = "send", d.attempt > 0
  PROVE  /\ Attempted(d)
         /\ Attempted(Receives(d)) /\ Receives(d).got[First(d.todo)] > 0
         /\ Receives(d).todo = d.todo /\ Receives(d).attempt = d.attempt
<1> DEFINE ch == First(d.todo)
           n  == d.got[ch] + 1
           e  == [d EXCEPT !.got[ch] = n]
<1>1. d \in SendType /\ d.attempt \in 0..MaxAttempts /\ MaxAttempts \in Nat
  BY DeliveryAssumption DEF SendOK, SendType
<1>2. ch \in d.todo /\ ch \in Ids
  BY <1>1, FirstIsOne DEF SendOK, SendType
<1>3. \A x \in Ids : d.got[x] \in 0..MaxAttempts
  BY <1>1 DEF SendType
<1>4. Attempted(d)
  BY <1>1, <1>3 DEF SendOK, Attempted, Progress
<1>5. n \in 0..MaxAttempts /\ n < d.attempt + 1 /\ n > 0
  BY <1>1, <1>2, <1>3 DEF SendOK, Progress
<1>6. Receives(d) = e
  BY DEF Receives
<1> HIDE DEF n
<1>7. /\ e \in SendType /\ e.pc = "send" /\ e.todo = d.todo /\ e.hit = d.hit
      /\ e.attempt = d.attempt /\ e.result = d.result /\ e.got = [d.got EXCEPT ![ch] = n]
      /\ e.got[ch] = n
  BY <1>1, <1>2, <1>5 DEF SendType
<1> HIDE DEF e
<1>8. ASSUME NEW x \in Ids PROVE Progress(e, x, e.attempt + 1)
  <2>1. Progress(d, x, d.attempt + 1)
    BY <1>4 DEF Attempted
  <2>2. CASE x = ch
    BY <1>2, <1>5, <1>7, <2>1, <2>2 DEF Progress
  <2>3. CASE x # ch
    <3>1. e.got[x] = d.got[x]
      BY <1>1, <1>7, <2>3 DEF SendType
    <3> QED  BY <1>7, <2>1, <3>1 DEF Progress
  <2> QED  BY <2>2, <2>3
<1>9. Attempted(e)
  BY <1>4, <1>7, <1>8 DEF Attempted
<1> QED  BY <1>4, <1>5, <1>6, <1>7, <1>9

(* Another attempt, when there is one left.                                    *)
LEMMA RetryKeeps ==
  ASSUME NEW d, Attempted(d), d.attempt # MaxAttempts
  PROVE  SendOK([d EXCEPT !.attempt = @ + 1])
<1> DEFINE n == d.attempt + 1
           e == [d EXCEPT !.attempt = n]
<1>1. n \in 0..MaxAttempts
  <2>1. d.attempt \in 0..MaxAttempts /\ MaxAttempts \in Nat
    BY DeliveryAssumption DEF Attempted, SendType
  <2> QED  BY <2>1
<1> HIDE DEF n
<1>2. /\ e \in SendType /\ e.pc = "send" /\ e.todo = d.todo /\ e.hit = d.hit
      /\ e.attempt = n /\ e.result = d.result /\ e.got = d.got
  BY <1>1 DEF Attempted, SendType
<1> HIDE DEF e
<1>3. ASSUME NEW ch \in Ids PROVE Progress(e, ch, e.attempt)
  <2>1. Progress(d, ch, n)
    BY DEF Attempted, n
  <2> QED  BY <1>2, <2>1 DEF Progress
<1>4. SendOK(e)
  BY <1>2, <1>3 DEF Attempted, SendOK, Plan, Before
<1> QED  BY <1>4 DEF e, n

(* What is left when the time is over was not begun.                           *)
LEMMA OverBudgetKeeps ==
  ASSUME NEW d, SendOK(d), d.pc = "send", d.attempt = 0
  PROVE  SendOK(OverBudget(d))
<1> DEFINE result == [ch \in Ids |-> IF ch \in d.todo THEN "over budget" ELSE d.result[ch]]
           a == [d EXCEPT !.pc = "record"]
           b == [a EXCEPT !.todo = {}]
           e == [b EXCEPT !.result = result]
<1>1. d \in SendType
  BY DEF SendOK
<1>2. OverBudget(d) = e
  BY <1>1 DEF OverBudget, SendType
<1>3. result \in [Ids -> {"none", "ok", "failed", "over budget"}]
  BY <1>1 DEF SendType
<1>4. \A ch \in Ids : result[ch] = IF ch \in d.todo THEN "over budget" ELSE d.result[ch]
  OBVIOUS
<1> HIDE DEF result
<1>5. /\ a \in SendType /\ a.pc = "record" /\ a.hit = d.hit /\ a.attempt = 0 /\ a.got = d.got
  BY <1>1 DEF SendType
<1> HIDE DEF a
<1>6. /\ b \in SendType /\ b.pc = "record" /\ b.hit = d.hit /\ b.attempt = 0 /\ b.got = d.got
      /\ b.todo = {}
  BY <1>5 DEF SendType
<1> HIDE DEF b
<1>7. /\ e \in SendType /\ e.pc = "record" /\ e.hit = d.hit /\ e.attempt = 0 /\ e.got = d.got
      /\ e.todo = {} /\ e.result = result
  BY <1>3, <1>6 DEF SendType
<1> HIDE DEF e
<1>8. ASSUME NEW ch \in Ids PROVE Told(e, ch)
  <2>1. Progress(d, ch, 0) /\ (ch \in d.todo => ch \in d.hit)
    BY DEF SendOK
  <2>2. d.got[ch] \in 0..MaxAttempts /\ MaxAttempts \in Nat
    BY <1>1, DeliveryAssumption DEF SendType
  <2>3. e.got[ch] = d.got[ch] /\ e.hit = d.hit /\ e.result[ch] = result[ch]
    BY <1>7
  <2>4. CASE ch \in d.todo
    <3>1. e.result[ch] = "over budget"
      BY <1>4, <2>3, <2>4
    <3>2. ~(d.got[ch] > 0) /\ ch \in d.hit
      BY <2>1, <2>4, <2>2 DEF Progress
    <3>3. e.got[ch] = 0
      BY <2>2, <2>3, <3>2
    <3> QED  BY <2>3, <3>1, <3>2, <3>3 DEF Told
  <2>5. CASE ch \notin d.todo
    <3>1. e.result[ch] = d.result[ch]
      BY <1>4, <2>3, <2>5
    <3> QED  BY <2>1, <2>3, <2>5, <3>1 DEF Told, Progress
  <2> QED  BY <2>4, <2>5
<1>9. SendOK(e)
  BY <1>7, <1>8 DEF SendOK, Plan, Before
<1> QED  BY <1>2, <1>9

(* What the queries find is what there is to do.                               *)
LEMMA QueriesKeep ==
  ASSUME SendOK(send), QueryOwn \/ QueryGlobal
  PROVE  SendOK(send')
<1>1. CASE QueryOwn
  <2> DEFINE hit == Hits(Ids \ Global)
             a   == [send EXCEPT !.pc = "global"]
             e   == [a EXCEPT !.hit = hit]
  <2>1. hit \in SUBSET Ids
    BY DEF Hits
  <2>2. send' = e
    BY <1>1 DEF QueryOwn, Sends
  <2> HIDE DEF hit
  <2>3. /\ send \in SendType /\ send.todo = {} /\ send.attempt = 0
        /\ \A ch \in Ids : send.result[ch] = "none" /\ send.got[ch] = 0
    BY <1>1 DEF QueryOwn, At, SendOK, Before
  <2>4. /\ a \in SendType /\ a.pc = "global" /\ a.todo = {} /\ a.attempt = 0
        /\ a.result = send.result /\ a.got = send.got
    BY <2>3 DEF SendType
  <2> HIDE DEF a
  <2>5. /\ e \in SendType /\ e.pc = "global" /\ e.todo = {} /\ e.attempt = 0
        /\ e.result = send.result /\ e.got = send.got
    BY <2>1, <2>4 DEF SendType
  <2> HIDE DEF e
  <2>6. SendOK(e)
    BY <2>3, <2>5 DEF SendOK, Plan, Before
  <2> QED  BY <2>2, <2>6
<1>2. CASE QueryGlobal
  <2> DEFINE hit == send.hit \cup Hits(Global)
             a   == [send EXCEPT !.pc = "claim"]
             b   == [a EXCEPT !.hit = hit]
             e   == [b EXCEPT !.todo = hit]
  <2>1. hit \in SUBSET Ids
    BY ChannelsAssumption DEF Hits, SendOK, SendType
  <2>2. send' = e \/ send' = NoSend
    BY <1>2 DEF QueryGlobal, Sends
  <2> HIDE DEF hit
  <2>3. /\ send \in SendType /\ send.attempt = 0
        /\ \A ch \in Ids : send.result[ch] = "none" /\ send.got[ch] = 0
    BY <1>2 DEF QueryGlobal, At, SendOK, Before
  <2>4. /\ a \in SendType /\ a.pc = "claim" /\ a.attempt = 0
        /\ a.result = send.result /\ a.got = send.got
    BY <2>3 DEF SendType
  <2> HIDE DEF a
  <2>5. /\ b \in SendType /\ b.pc = "claim" /\ b.attempt = 0 /\ b.hit = hit
        /\ b.result = send.result /\ b.got = send.got
    BY <2>1, <2>4 DEF SendType
  <2> HIDE DEF b
  <2>6. /\ e \in SendType /\ e.pc = "claim" /\ e.attempt = 0 /\ e.hit = hit /\ e.todo = hit
        /\ e.result = send.result /\ e.got = send.got
    BY <2>1, <2>5 DEF SendType
  <2> HIDE DEF e
  <2>7. SendOK(e)
    BY <2>3, <2>6 DEF SendOK, Plan, Before
  <2> QED  BY <2>2, <2>7, NoSendOK
<1> QED  BY <1>1, <1>2

LEMMA ClaimNoticeKeeps ==
  ASSUME SendOK(send), ClaimNotice
  PROVE  SendOK(send')
<1> DEFINE e == [send EXCEPT !.pc = "send"]
<1>1. /\ send \in SendType /\ send.todo = send.hit /\ send.attempt = 0
      /\ \A ch \in Ids : send.result[ch] = "none" /\ send.got[ch] = 0
  BY DEF ClaimNotice, At, SendOK, Before, Plan
<1>2. /\ e \in SendType /\ e.pc = "send" /\ e.todo = send.hit /\ e.hit = send.hit /\ e.attempt = 0
      /\ e.result = send.result /\ e.got = send.got
  BY <1>1 DEF SendType
<1>3. send' = e \/ send' = NoSend
  BY DEF ClaimNotice, Sends
<1> HIDE DEF e
<1>4. SendOK(e)
  BY <1>1, <1>2 DEF SendOK, Progress, Plan, Before
<1> QED  BY <1>3, <1>4, NoSendOK

LEMMA NextChannelKeeps ==
  ASSUME SendOK(send), NextChannel
  PROVE  SendOK(send')
<1>1. send \in SendType /\ send.pc = "send" /\ send.attempt = 0 /\ send.todo # {}
  BY DEF NextChannel, At, SendOK
<1>2. CASE send.left <= Reserve
  BY <1>1, <1>2, OverBudgetKeeps DEF NextChannel, Sends
<1>3. CASE ~(send.left <= Reserve)
  <2> DEFINE e == [send EXCEPT !.attempt = 1]
  <2>1. PICK wait \in {0, Gap} : send' = Spends(e, wait)
    BY <1>3 DEF NextChannel, Sends
  <2>2. wait \in Nat /\ 1 \in 0..MaxAttempts
    BY DeliveryAssumption
  <2>3. /\ e \in SendType /\ e.pc = "send" /\ e.todo = send.todo /\ e.hit = send.hit /\ e.attempt = 1
        /\ e.result = send.result /\ e.got = send.got
    BY <1>1, <2>2 DEF SendType
  <2> HIDE DEF e
  <2>4. ASSUME NEW ch \in Ids PROVE Progress(e, ch, 1)
    <3>1. Progress(send, ch, 0) /\ send.got[ch] \in 0..MaxAttempts
      BY <1>1 DEF SendOK, SendType
    <3> QED  BY <2>3, <3>1, DeliveryAssumption DEF Progress
  <2>5. SendOK(e)
    BY <1>1, <2>3, <2>4 DEF SendOK, Plan, Before
  <2> QED  BY <2>1, <2>2, <2>5, SpendsKeeps
<1> QED  BY <1>2, <1>3

LEMMA AttemptKeeps ==
  ASSUME SendOK(send), Accepted \/ Refused \/ Unanswered
  PROVE  SendOK(send')
<1>1. /\ Attempted(send) /\ Attempted(Receives(send)) /\ Receives(send).got[First(send.todo)] > 0
      /\ Receives(send).todo = send.todo /\ Receives(send).attempt = send.attempt
  BY AttemptingOK DEF Accepted, Refused, Unanswered, Attempting, At
<1>2. CASE Accepted
  BY <1>1, <1>2, AnsweredKeeps DEF Accepted, Sends
<1>3. CASE Refused
  BY <1>1, <1>3, AnsweredKeeps DEF Refused, Sends
<1>4. CASE Unanswered
  <2>1. PICK d \in {send, Receives(send)}, time \in {0, Timeout} :
          IF send.attempt = MaxAttempts THEN send' = Spends(Answered(d, "failed"), time)
          ELSE send' = Spends([d EXCEPT !.attempt = @ + 1], time + Backoff[send.attempt])
    BY <1>4 DEF Unanswered, Sends
  <2>2. Attempted(d) /\ d.attempt = send.attempt /\ time \in Nat
    BY <1>1, DeliveryAssumption
  <2>3. CASE send.attempt = MaxAttempts
    <3>1. SendOK(Answered(d, "failed"))
      BY <2>2, AnsweredKeeps
    <3> QED  BY <2>1, <2>2, <2>3, <3>1, SpendsKeeps
  <2>4. CASE send.attempt # MaxAttempts
    <3>1. SendOK([d EXCEPT !.attempt = @ + 1])
      BY <2>2, <2>4, RetryKeeps
    <3>2. send.attempt \in 1..MaxAttempts
      <4>1. send.attempt \in 0..MaxAttempts /\ send.attempt > 0 /\ MaxAttempts \in Nat
        BY <1>1, DeliveryAssumption DEF Attempted, SendType
      <4> QED  BY <4>1
    <3>3. Backoff[send.attempt] \in Nat
      BY <3>2, DeliveryAssumption
    <3>4. time + Backoff[send.attempt] \in Nat
      BY <2>2, <3>3
    <3> QED  BY <2>1, <2>4, <3>1, <3>4, SpendsKeeps
  <2> QED  BY <2>3, <2>4
<1> QED  BY <1>2, <1>3, <1>4

LEMMA AllSentKeeps ==
  ASSUME SendOK(send), AllSent
  PROVE  SendOK(send')
<1> DEFINE e == [send EXCEPT !.pc = "record"]
<1>1. send \in SendType /\ send.pc = "send" /\ send.todo = {} /\ ~(send.attempt > 0)
  BY DEF AllSent, At, SendOK
<1>2. /\ e \in SendType /\ e.pc = "record" /\ e.todo = {} /\ e.hit = send.hit
      /\ e.attempt = send.attempt /\ e.result = send.result /\ e.got = send.got
  BY <1>1 DEF SendType
<1>3. send' = e
  BY DEF AllSent, Sends
<1> HIDE DEF e
<1>4. ASSUME NEW ch \in Ids PROVE Told(e, ch)
  <2>1. Progress(send, ch, send.attempt)
    BY <1>1 DEF SendOK
  <2> QED  BY <1>1, <1>2, <2>1 DEF Progress, Told
<1>5. SendOK(e)
  BY <1>1, <1>2, <1>4 DEF SendOK, Plan, Before
<1> QED  BY <1>3, <1>5

LEMMA TakeKeeps ==
  ASSUME NEW kinds \in SUBSET Kinds, Take(kinds)
  PROVE  SendOK(send')
<1> DEFINE a == [NoSend EXCEPT !.pc = "own"]
           b == [a EXCEPT !.kinds = kinds]
           e == [b EXCEPT !.left = Limit]
<1>1. send' = e
  BY DEF Take, NoSend
<1>2. NoSend \in SendType /\ NoSend.todo = {} /\ NoSend.attempt = 0
      /\ \A ch \in Ids : NoSend.result[ch] = "none" /\ NoSend.got[ch] = 0
  BY NoSendOK DEF SendOK, NoSend
<1>3. /\ a \in SendType /\ a.pc = "own" /\ a.todo = {} /\ a.attempt = 0 /\ a.hit = {}
      /\ a.result = NoSend.result /\ a.got = NoSend.got
  BY <1>2 DEF SendType, NoSend
<1> HIDE DEF a
<1>4. /\ b \in SendType /\ b.pc = "own" /\ b.todo = {} /\ b.attempt = 0 /\ b.hit = {}
      /\ b.result = NoSend.result /\ b.got = NoSend.got
  BY <1>3 DEF SendType
<1> HIDE DEF b
<1>5. Limit \in 0..Limit
  BY DeliveryAssumption
<1>6. /\ e \in SendType /\ e.pc = "own" /\ e.todo = {} /\ e.attempt = 0 /\ e.hit = {}
      /\ e.result = NoSend.result /\ e.got = NoSend.got
  BY <1>4, <1>5 DEF SendType
<1> HIDE DEF e
<1>7. SendOK(e)
  BY <1>2, <1>6 DEF SendOK, Plan, Before
<1> QED  BY <1>1, <1>7

LEMMA SendKept ==
  ASSUME SendInv, [Next]_vars
  PROVE  SendInv'
<1>1. CASE \E kinds \in SUBSET Kinds : Take(kinds)
  <2>1. SendOK(send')
    BY <1>1, TakeKeeps
  <2>2. notices' \in 0..MaxNotices
    BY <1>1, DeliveryAssumption DEF Take, SendInv
  <2> QED  BY <2>1, <2>2 DEF SendInv
<1>2. CASE UNCHANGED notices /\ SendOK(send')
  BY <1>2 DEF SendInv
<1>3. CASE QueryOwn \/ QueryGlobal \/ ClaimNotice
  <2>1. UNCHANGED notices
    BY <1>3 DEF QueryOwn, QueryGlobal, ClaimNotice, Sends
  <2> QED  BY <1>2, <1>3, <2>1, QueriesKeep, ClaimNoticeKeeps DEF SendInv
<1>4. CASE NextChannel \/ Accepted \/ Refused \/ Unanswered \/ AllSent
  <2>1. UNCHANGED notices
    BY <1>4 DEF NextChannel, Accepted, Refused, Unanswered, AllSent, Sends
  <2> QED  BY <1>2, <1>4, <2>1, NextChannelKeeps, AttemptKeeps, AllSentKeeps DEF SendInv
<1>5. CASE Record \/ Gone
  BY <1>2, <1>5, NoSendOK DEF Record, Gone, Sends
<1>6. CASE UNCHANGED <<send, notices>>
  BY <1>6 DEF SendInv
<1> QED  BY <1>1, <1>3, <1>4, <1>5, <1>6 DEF Next, vars
--------------------------------------------------------------------------------
(* The tables, the forms and the delivery under way have their types, and a    *)
(* secret that is stored is one that somebody typed, never what the forms show *)
(* for it (validate_channel, _keep_existing_secrets).                          *)
THEOREM TypeCorrect == Spec => []TypeOK
<1>1. Init => SendInv
  BY NoSendOK, DeliveryAssumption DEF Init, SendInv
<1>2. FormsInv /\ [Next]_vars => FormsInv'
  BY FormsKept
<1>3. SendInv /\ [Next]_vars => SendInv'
  BY SendKept
<1>4. SettingsInv /\ FormsInv /\ SendInv => TypeOK
  BY DEF SettingsInv, SettingsShape, FormsInv, SendInv, SendOK, TypeOK, SettingsTypeOK,
         ChannelsTypeOK, ItemType, UseType, FormType, FormOK, FullRow, RowType
<1> QED  BY <1>1, <1>2, <1>3, <1>4, InitForms, SettingsInvariant, PTL DEF Spec

(* However many channels there are, whatever they answer and whenever the time *)
(* is over, what is recorded accounts for each channel that was to be told     *)
(* (deliver_all, _record).                                                     *)
THEOREM AccountedAlways == Spec => []Accounted
<1>1. Init => SendInv
  BY NoSendOK, DeliveryAssumption DEF Init, SendInv
<1>2. SendInv /\ [Next]_vars => SendInv'
  BY SendKept
<1>3. SendInv => Accounted
  BY DEF SendInv, SendOK, Told, Accounted
<1> QED  BY <1>1, <1>2, <1>3, PTL DEF Spec
================================================================================
