-------------------------------- MODULE Settings -------------------------------
(* The policy and the silences a person sets (api_handler/routes/              *)
(* alert_policy.py) and the copy of them each container of the alert pipeline  *)
(* judges by, read at most once a minute (common/alert_config.py).             *)
EXTENDS Naturals, Sequences, FiniteSets

CONSTANTS
  Fields, Values,
  FromEnv, Built,     \* the policy of the environment, and of the class
  Dropped,            \* fields that are checked but neither stored nor loaded
  Windows,            \* silences
  Containers,
  TTL, MaxClock,      \* a cached policy is used for less than TTL
  MaxEdits, MaxFaults

ASSUME SettingsAssumption ==
  /\ {FromEnv, Built} \subseteq [Fields -> Values] /\ Dropped \subseteq Fields
  /\ TTL \in Nat \ {0} /\ {MaxClock, MaxEdits, MaxFaults} \subseteq Nat

VARIABLES
  policy, silences,   \* the table: [field -> value] or NoItem, and windows
  wrote,              \* when it last changed
  clock,
  cache,              \* of each container: what it loaded, and when
  reading,            \* the policy of a load under way
  used,               \* what its last judgement went by
  edits, faults

settings == <<policy, silences, wrote, clock, cache, reading, used>>

NoItem == [f \in {} |-> 0]
Stored == Fields \ Dropped
PolicyType == [Fields -> Values]

Nothing == [at |-> MaxClock + 1, policy |-> FromEnv, silences |-> {}]
LoadType == [at : 0..MaxClock + 1, policy : PolicyType, silences : SUBSET Windows]

SettingsTypeOK ==
  /\ policy \in {NoItem} \cup [Stored -> Values] /\ silences \subseteq Windows
  /\ wrote \in 0..MaxClock /\ clock \in 0..MaxClock
  /\ cache \in [Containers -> LoadType] /\ reading \in [Containers -> LoadType]
  /\ used \in [Containers -> [ok : BOOLEAN, load : LoadType]]
  /\ edits \in 0..MaxEdits /\ faults \in 0..MaxFaults

SettingsInit ==
  /\ policy = NoItem /\ silences = {} /\ wrote = 0 /\ clock = 0
  /\ cache = [c \in Containers |-> Nothing] /\ reading = [c \in Containers |-> Nothing]
  /\ used = [c \in Containers |-> [ok |-> FALSE, load |-> Nothing]]
  /\ edits = 0 /\ faults = 0

Edits == edits < MaxEdits /\ edits' = edits + 1 /\ UNCHANGED faults
Fails == faults < MaxFaults /\ faults' = faults + 1 /\ UNCHANGED edits
--------------------------------------------------------------------------------
Written == wrote' = clock /\ UNCHANGED <<clock, cache, reading, used>>

(* validate_policy keeps what the body leaves out from its base, which is that *)
(* of the environment whatever the table has.                                  *)
AsSaved(body) == [f \in Stored |-> IF f \in DOMAIN body THEN body[f] ELSE FromEnv[f]]

PutPolicy ==
  \E body \in UNION {[fs -> Values] : fs \in SUBSET Fields \ {{}}} :
    Edits /\ Written /\ policy' = AsSaved(body) /\ UNCHANGED silences

CreateSilence(s) ==
  /\ s \notin silences
  /\ Edits /\ Written /\ UNCHANGED policy
  /\ silences' = silences \cup {s}

DeleteSilence(s) ==
  /\ s \in silences
  /\ Edits /\ Written /\ UNCHANGED policy
  /\ silences' = silences \ {s}
--------------------------------------------------------------------------------
(* policy_from_item, as load() passes it on: a dropped field has the value the *)
(* class gives it, though the environment sets another.                        *)
Overlaid(item) ==
  [f \in Fields |-> IF f \in Dropped THEN Built[f]
                    ELSE IF f \in DOMAIN item THEN item[f] ELSE FromEnv[f]]

(* A mutant: the copy is used for a moment longer.                             *)
FreshAtTTL(c) == cache[c].at <= clock /\ clock - cache[c].at <= TTL

Fresh(c) == cache[c].at <= clock /\ clock - cache[c].at < TTL

Uses(c, load, ok) ==
  used' = [used EXCEPT ![c] = [ok |-> ok, load |-> [load EXCEPT !.at = clock]]]

JudgeByCopy(c) ==
  /\ reading[c] = Nothing /\ Fresh(c)
  /\ Uses(c, cache[c], TRUE)
  /\ UNCHANGED <<policy, silences, wrote, clock, cache, reading, edits, faults>>

ReadPolicy(c) ==
  /\ reading[c] = Nothing /\ ~Fresh(c)
  /\ reading' = [reading EXCEPT ![c] = [Nothing EXCEPT !.at = clock, !.policy = Overlaid(policy)]]
  /\ UNCHANGED <<policy, silences, wrote, clock, cache, used, edits, faults>>

ReadSilences(c) ==
  LET load == [reading[c] EXCEPT !.silences = silences]
  IN /\ reading[c] # Nothing
     /\ cache' = [cache EXCEPT ![c] = load]
     /\ reading' = [reading EXCEPT ![c] = Nothing]
     /\ Uses(c, load, TRUE)
     /\ UNCHANGED <<policy, silences, wrote, clock, edits, faults>>

(* Neither read is repeated: this judgement goes by the environment.           *)
LoadFails(c) ==
  /\ reading[c] # Nothing \/ ~Fresh(c)
  /\ Fails
  /\ reading' = [reading EXCEPT ![c] = Nothing]
  /\ Uses(c, Nothing, FALSE)
  /\ UNCHANGED <<policy, silences, wrote, clock, cache>>

(* A load takes seconds, and a tick of this clock is half a minute.            *)
Passes ==
  /\ clock < MaxClock /\ \A c \in Containers : reading[c] = Nothing
  /\ clock' = clock + 1
  /\ UNCHANGED <<policy, silences, wrote, cache, reading, used, edits, faults>>

SettingsNext ==
  \/ PutPolicy \/ Passes
  \/ \E s \in Windows : CreateSilence(s) \/ DeleteSilence(s)
  \/ \E c \in Containers : JudgeByCopy(c) \/ ReadPolicy(c) \/ ReadSilences(c) \/ LoadFails(c)
--------------------------------------------------------------------------------
(* A judgement that could read the table goes by what the table had a minute   *)
(* before or later: what was written earlier is obeyed, a silence as well as   *)
(* its end (CONFIG_CACHE_TTL_SEC).                                             *)
Obeyed ==
  \A c \in Containers :
    used[c].ok /\ wrote + TTL <= used[c].load.at =>
      used[c].load.policy = Overlaid(policy) /\ used[c].load.silences = silences
================================================================================
