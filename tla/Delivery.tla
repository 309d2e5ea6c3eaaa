-------------------------------- MODULE Delivery -------------------------------
(* The router sends a notice to the channels that ask for it                   *)
(* (alert_router/lambda_handler.py, common/notification_send.py): one channel  *)
(* after the other, each in up to MaxAttempts attempts, until the time it has  *)
(* given itself is over; then it records the results.  Time counts down from   *)
(* what the function may run, in half seconds.                                 *)
EXTENDS Channels

CONSTANTS
  Rank,               \* of a channel in the order select sorts by
  TypeOf,             \* Slack, e-mail, ...
  MaxAttempts, Timeout, Backoff, Gap,
  Limit, Reserve,     \* of the function; what it keeps for the results
  MaxNotices

ASSUME DeliveryAssumption ==
  /\ Rank \in [Ids -> Nat] /\ \A ch, other \in Ids : Rank[ch] = Rank[other] => ch = other
  /\ \A ch \in Ids \ Global, other \in Global : Rank[ch] < Rank[other]
  /\ {MaxAttempts, Timeout, Gap, Limit, Reserve, MaxNotices} \subseteq Nat /\ MaxAttempts > 0
  /\ Backoff \in [1..MaxAttempts -> Nat]

VARIABLES
  send,               \* the delivery under way
  notices

vars == <<settings, rows, form, send, notices, edits, faults>>

NoSend == [pc |-> "idle", kinds |-> {}, left |-> 0, hit |-> {}, todo |-> {}, attempt |-> 0,
           last |-> {}, result |-> [ch \in Ids |-> "none"], got |-> [ch \in Ids |-> 0]]

SendType ==
  [pc : {"idle", "own", "global", "claim", "send", "record", "dead"}, kinds : SUBSET Kinds,
   left : 0..Limit, hit : SUBSET Ids, todo : SUBSET Ids, attempt : 0..MaxAttempts,
   last : SUBSET {TypeOf[ch] : ch \in Ids},
   result : [Ids -> {"none", "ok", "failed", "over budget"}], got : [Ids -> 0..MaxAttempts]]

TypeOK ==
  /\ SettingsTypeOK /\ ChannelsTypeOK
  /\ notices \in 0..MaxNotices
  /\ send \in SendType

Init == SettingsInit /\ ChannelsInit /\ send = NoSend /\ notices = 0

At(pc) == send.pc = pc
Sends(changed) == send' = changed /\ UNCHANGED <<settings, rows, form, notices, edits, faults>>

(* The function is killed when its time is up.                                 *)
Spends(d, time) ==
  IF time <= d.left THEN [d EXCEPT !.left = @ - time] ELSE [d EXCEPT !.left = 0, !.pc = "dead"]
--------------------------------------------------------------------------------
Take(kinds) ==
  /\ At("idle") /\ notices < MaxNotices
  /\ notices' = notices + 1
  /\ send' = [NoSend EXCEPT !.pc = "own", !.kinds = kinds, !.left = Limit]
  /\ UNCHANGED <<settings, rows, form, edits, faults>>

Hits(shelf) == {ch \in shelf : rows[ch] # NoRow /\ Matches(rows[ch], send.kinds)}

QueryOwn == At("own") /\ Sends([send EXCEPT !.pc = "global", !.hit = Hits(Ids \ Global)])

QueryGlobal ==
  LET hit == send.hit \cup Hits(Global)
  IN /\ At("global")
     /\ Sends(IF hit = {} THEN NoSend
              ELSE [send EXCEPT !.pc = "claim", !.hit = hit, !.todo = hit])

(* What was claimed is not sent by another run, and never again.               *)
ClaimNotice ==
  At("claim") /\ (Sends([send EXCEPT !.pc = "send"]) \/ Sends(NoSend))
--------------------------------------------------------------------------------
(* Channels are told by name, those of all customers last.                     *)
First(todo) == CHOOSE ch \in todo : \A other \in todo : Rank[ch] <= Rank[other]

Answered(d, result) ==
  LET ch == First(d.todo) IN
  [d EXCEPT !.result[ch] = result, !.todo = @ \ {ch}, !.attempt = 0, !.last = {TypeOf[ch]} \cup @]

(* A mutant: the channel whose turn it is is not told of.                      *)
OverBudgetAfter(d) ==
  [d EXCEPT !.pc = "record", !.todo = {},
     !.result = [ch \in Ids |-> IF ch \in d.todo \ {First(d.todo)} THEN "over budget" ELSE @[ch]]]

OverBudget(d) ==
  [d EXCEPT !.pc = "record", !.todo = {},
     !.result = [ch \in Ids |-> IF ch \in d.todo THEN "over budget" ELSE @[ch]]]

(* deliver_all looks at the time before each channel, and then waits for the   *)
(* channels of one type to be apart.                                           *)
NextChannel ==
  /\ At("send") /\ send.attempt = 0 /\ send.todo # {}
  /\ IF send.left <= Reserve THEN Sends(OverBudget(send))
     ELSE \E wait \in {0} \cup IF TypeOf[First(send.todo)] \in send.last THEN {Gap} ELSE {} :
            Sends(Spends([send EXCEPT !.attempt = 1], wait))

Attempting == At("send") /\ send.attempt > 0

Receives(d) == [d EXCEPT !.got[First(d.todo)] = @ + 1]

Accepted == Attempting /\ Sends(Answered(Receives(send), "ok"))

(* 4xx, a redirect, or a setting that is missing: the same answer again.       *)
Refused == Attempting /\ Sends(Answered(send, "failed"))

(* 5xx, 429 or no answer in time, which may be one that was received.          *)
Unanswered ==
  /\ Attempting
  /\ \E d \in {send, Receives(send)}, time \in {0, Timeout} :
       IF send.attempt = MaxAttempts THEN Sends(Spends(Answered(d, "failed"), time))
       ELSE Sends(Spends([d EXCEPT !.attempt = @ + 1], time + Backoff[send.attempt]))

AllSent == At("send") /\ send.todo = {} /\ Sends([send EXCEPT !.pc = "record"])

Record == At("record") /\ Sends(NoSend)

Gone == At("dead") /\ Sends(NoSend)

Next ==
  \/ SettingsNext /\ UNCHANGED <<rows, form, send, notices>>
  \/ ChannelsNext /\ UNCHANGED <<settings, send, notices>>
  \/ \E kinds \in SUBSET Kinds : Take(kinds)
  \/ QueryOwn \/ QueryGlobal \/ ClaimNotice
  \/ NextChannel \/ Accepted \/ Refused \/ Unanswered \/ AllSent \/ Record \/ Gone

Spec == Init /\ [][Next]_vars
--------------------------------------------------------------------------------
(* What is recorded accounts for every channel that was to be told: one that   *)
(* is called sent did receive it, one the time was over for did not, and a     *)
(* failure of one leaves none out (deliver_all, _record).                      *)
Accounted ==
  send.pc = "record" =>
    \A ch \in Ids :
      /\ ch \in send.hit <=> send.result[ch] # "none"
      /\ send.result[ch] = "ok" => send.got[ch] > 0
      /\ send.result[ch] = "over budget" => send.got[ch] = 0
================================================================================
