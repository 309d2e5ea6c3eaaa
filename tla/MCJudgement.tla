------------------------------ MODULE MCJudgement ------------------------------
(* Small instances of AlertJudgement.                                       *)
EXTENDS AlertJudgement, TLC

CONSTANTS
  Times,            \* instants at which events occur
  FewTimes,         \* those used when any event may come next
  MaxLog,           \* bound: judgements of one behaviour, in order
  MaxAnyLog         \* bound: judgements of one behaviour, in any order

MCSeverities == {"SEV-1", "SEV-2", "SEV-3"}
MCExempt == {"SEV-1"}
MCAutoPause == [s \in MCSeverities |-> IF s = "SEV-3" THEN 2 ELSE 0]

(* One maintenance window over instant 3, for another customer as well as   *)
(* ours and for one resource type only.                                     *)
MCSilences ==
  {[starts_at |-> 3, ends_at |-> 4, customer |-> AnyValue, resource_type |-> "EC2"],
   [starts_at |-> 1, ends_at |-> 9, customer |-> "other", resource_type |-> AnyValue]}

NoSilences == {}

(* The severity of an event that does not fire is never looked at.          *)
MCEvents ==
  {ev \in [id : {0}, kind : Kinds, at : Times, severity : MCSeverities,
           customer : {"acme"}, resource_type : {"EC2"}] :
     ev.kind # "firing" => ev.severity = "SEV-2"}

(* finalize() confirms a deferred event once, while its episode is open.    *)
ConfirmDue(ev) ==
  /\ \A i \in DOMAIN log : log[i] # Entry(ev, Confirmed)
  /\ state.episode_started_at <= ev.at
  /\ Confirm(ev)

Few == \A i \in DOMAIN log : log[i].ev.at \in FewTimes

(* Up to MaxAnyLog judgements, of any events in any order and any number of *)
(* times.                                                                   *)
AnyNext ==
  /\ Len(log) < MaxAnyLog /\ Few
  /\ \/ \E ev \in Events : ev.at \in FewTimes /\ (Judge(ev) \/ ConfirmDue(ev))
     \/ Vanish

(* Up to MaxLog judgements in the order of the events, of an alarm that     *)
(* goes in and out of ALARM: firings and clearings alternate.               *)
Follows(ev) ==
  LET judged == {i \in DOMAIN log : log[i].decision # Confirmed}
      last == {i \in judged : \A k \in judged : k <= i}
  IN  /\ ev.kind \in {"firing", "clearing"}
      /\ judged = {} => IsFiring(ev)
      /\ \A i \in last : log[i].ev.at < ev.at /\ log[i].ev.kind # ev.kind

Begun == log # <<>> => IsFiring(log[1].ev)

InOrderNext ==
  /\ Len(log) < MaxLog /\ Begun /\ InOrder
  /\ \/ \E ev \in Events : (Follows(ev) /\ Judge(ev)) \/ ConfirmDue(ev)
     \/ Vanish

MCSpec == Init /\ [][AnyNext \/ InOrderNext]_vars

=============================================================================
