------------------------------- MODULE Forwarding ------------------------------
(* Who may send alarm events to our bus.  The policy of the bus is replaced as *)
(* a whole, so each of its writers -- a registration, a deletion, a connection *)
(* test, the hourly comparison with the table of accounts -- reads it, changes *)
(* it and writes it back, with no lock (api_handler/routes/accounts.py).       *)
EXTENDS Naturals, FiniteSets

CONSTANTS
  Rows, Accounts,
  AccountOf,          \* an account may be in the rows of several customers
  Own,                \* our account, which needs no permission
  First,              \* the row that is there before the others
  People, Schedule,   \* requests at a time, and the hourly invocation
  MaxRequests, MaxFaults

ASSUME ForwardingAssumption ==
  /\ AccountOf \in [Rows -> Accounts] /\ First \in Rows /\ Schedule \notin People
  /\ {MaxRequests, MaxFaults} \subseteq Nat

VARIABLES
  rows,       \* the table of accounts
  policy,     \* the statement of each account, and one that is not ours
  told,       \* losses of a statement that a person was told of
  at,         \* the requests under way
  requests, faults, died

vars == <<rows, policy, told, at, requests, faults, died>>
Processes == People \cup {Schedule}

(* A statement is there or not, an old one lets all events pass.               *)
Empty == [of |-> [a \in Accounts |-> "none"], foreign |-> FALSE]

Free == [pc |-> "free", op |-> "none", row |-> CHOOSE k \in Rows : TRUE, seen |-> Empty, known |-> {}]

(* An account may be registered since before statements had a condition.       *)
Init ==
  /\ rows = [x \in Rows |-> IF x = First THEN "whole" ELSE "none"]
  /\ \E shape \in {"old", "new"} :
       policy = [of |-> [a \in Accounts |-> IF a = AccountOf[First] THEN shape ELSE "none"],
                 foreign |-> TRUE]
  /\ told = {} /\ at = [p \in Processes |-> Free]
  /\ requests = 0 /\ faults = 0 /\ died = FALSE

In(p, pc) == at[p].pc = pc
Account(p) == AccountOf[at[p].row]
Registered == {AccountOf[k] : k \in {x \in Rows : rows[x] # "none"}}

Goes(p, place) == at' = [at EXCEPT ![p] = place]
GoesTo(p, pc) == Goes(p, [at[p] EXCEPT !.pc = pc])
Ends(p) == Goes(p, Free)

Fine == UNCHANGED <<faults, died>>
Fails == faults < MaxFaults /\ faults' = faults + 1 /\ UNCHANGED died
Asked == requests < MaxRequests /\ requests' = requests + 1 /\ Fine
--------------------------------------------------------------------------------
(* _write_bus_policy replaces all of it.                                       *)
WritePolicy(new, reported) ==
  /\ policy' = new
  /\ told' = (told \ {a \in Accounts : policy.of[a] # "none" /\ new.of[a] = "none"}) \cup reported

ReadPolicy(p, pc) == Goes(p, [at[p] EXCEPT !.pc = pc, !.seen = policy])

(* _grant_alert_forwarding, for a registration or a test.                      *)
GrantRead(p) ==
  /\ In(p, "grant") /\ ReadPolicy(p, "write") /\ Fine
  /\ UNCHANGED <<rows, policy, told, requests>>

GrantWrite(p) ==
  /\ In(p, "write")
  /\ WritePolicy([at[p].seen EXCEPT !.of[Account(p)] = "new"], {})
  /\ GoesTo(p, "verify") /\ Fine
  /\ UNCHANGED <<rows, requests>>

Present(pol) == {a \in Accounts : pol.of[a] # "none"}

Verified(p) ==
  /\ Present(at[p].seen) \cup {Account(p)} \subseteq Present(policy)
  /\ at[p].seen.foreign => policy.foreign

(* What is found missing is told: by an incident, and a test's by its answer.  *)
Granted(p, reported) ==
  /\ Goes(p, [at[p] EXCEPT !.pc = IF at[p].op = "create" THEN "put" ELSE "save", !.seen = Empty])
  /\ told' = told \cup reported
  /\ UNCHANGED <<rows, policy, requests>>

GrantVerify(p) ==
  /\ In(p, "verify") /\ Fine
  /\ Granted(p, IF at[p].op = "create" /\ Verified(p) THEN {} ELSE {Account(p)})

GrantFails(p) ==
  /\ at[p].pc \in {"grant", "write", "verify"} /\ Fails
  /\ Granted(p, {Account(p)})
--------------------------------------------------------------------------------
Create(p, k) ==
  /\ In(p, "free") /\ rows[k] = "none" /\ Asked
  /\ Goes(p, [Free EXCEPT !.op = "create", !.row = k, !.pc = IF AccountOf[k] = Own THEN "put" ELSE "grant"])
  /\ UNCHANGED <<rows, policy, told>>

PutRow(p) ==
  /\ In(p, "put")
  /\ \/ rows' = [rows EXCEPT ![at[p].row] = "whole"] /\ Fine
     \/ UNCHANGED rows /\ Fails
  /\ Ends(p) /\ UNCHANGED <<policy, told, requests>>

Delete(p, k) ==
  /\ In(p, "free") /\ Asked
  /\ rows' = [rows EXCEPT ![k] = "none"]
  /\ IF AccountOf[k] = Own THEN UNCHANGED at
     ELSE Goes(p, [Free EXCEPT !.op = "delete", !.row = k, !.pc = "scan"])
  /\ UNCHANGED <<policy, told>>

(* _revoke_alert_forwarding_if_orphan.                                         *)
RevokeScan(p) ==
  /\ In(p, "scan") /\ Fine
  /\ IF Account(p) \in Registered THEN Ends(p) ELSE GoesTo(p, "look")
  /\ UNCHANGED <<rows, policy, told, requests>>

RevokeRead(p) ==
  /\ In(p, "look") /\ Fine
  /\ IF policy.of[Account(p)] = "none" THEN Ends(p) ELSE ReadPolicy(p, "revoke")
  /\ UNCHANGED <<rows, policy, told, requests>>

RevokeWrite(p) ==
  /\ In(p, "revoke") /\ Fine
  /\ WritePolicy([at[p].seen EXCEPT !.of[Account(p)] = "none"], {})
  /\ Ends(p) /\ UNCHANGED <<rows, requests>>

RevokeFails(p) ==
  /\ at[p].pc \in {"scan", "look", "revoke"} /\ Fails
  /\ Ends(p) /\ UNCHANGED <<rows, policy, told, requests>>
--------------------------------------------------------------------------------
(* A test of a row without a role is refused.                                  *)
Test(p, k) ==
  /\ In(p, "free") /\ rows[k] = "whole" /\ Asked
  /\ Goes(p, [Free EXCEPT !.op = "test", !.row = k, !.pc = IF AccountOf[k] = Own THEN "save" ELSE "check"])
  /\ UNCHANGED <<rows, policy, told>>

Check(p) ==
  /\ In(p, "check")
  /\ \/ GoesTo(p, IF policy.of[Account(p)] = "new" THEN "save" ELSE "grant") /\ Fine
     \/ GoesTo(p, "save") /\ Fails
  /\ UNCHANGED <<rows, policy, told, requests>>

(* The result is saved whether the row is there or not: on one that was        *)
(* deleted it makes a partial one.                                             *)
SaveTest(p) ==
  /\ In(p, "save")
  /\ \/ rows' = [rows EXCEPT ![at[p].row] = IF @ = "none" THEN "partial" ELSE @] /\ Fine
     \/ UNCHANGED rows /\ Fails
  /\ Ends(p) /\ UNCHANGED <<policy, told, requests>>
--------------------------------------------------------------------------------
(* reconcile_alert_forwarding: every hour, or when an administrator asks.      *)
Reconcile(p) ==
  /\ In(p, "free")
  /\ IF p = Schedule THEN UNCHANGED requests /\ Fine ELSE Asked
  /\ Goes(p, [Free EXCEPT !.op = "reconcile", !.known = Registered \ {Own}, !.pc = "compare"])
  /\ UNCHANGED <<rows, policy, told>>

(* A mutant: an old statement is left as it is.                                *)
WantedIfMissing(p, pol) ==
  [pol EXCEPT !.of = [a \in Accounts |->
     IF a \notin at[p].known THEN "none" ELSE IF pol.of[a] = "none" THEN "new" ELSE pol.of[a]]]

Wanted(p, pol) ==
  [pol EXCEPT !.of = [a \in Accounts |-> IF a \in at[p].known THEN "new" ELSE "none"]]

Compare(p) ==
  /\ In(p, "compare") /\ Fine
  /\ IF Wanted(p, policy) = policy THEN Ends(p) ELSE ReadPolicy(p, "mend")
  /\ UNCHANGED <<rows, policy, told, requests>>

Mend(p) ==
  /\ In(p, "mend") /\ Fine
  /\ WritePolicy(Wanted(p, at[p].seen), {}) /\ GoesTo(p, "report")
  /\ UNCHANGED <<rows, requests>>

(* A mutant: only what was brought up to date is reported.                     *)
ReportUpdated(p) ==
  /\ In(p, "report") /\ Fine
  /\ told' = told \cup {a \in at[p].known : at[p].seen.of[a] = "old"}
  /\ Ends(p) /\ UNCHANGED <<rows, policy, requests>>

Report(p) ==
  /\ In(p, "report") /\ Fine
  /\ told' = told \cup {a \in at[p].known : at[p].seen.of[a] # "new"}
  /\ Ends(p) /\ UNCHANGED <<rows, policy, requests>>

ReconcileFails(p) ==
  /\ at[p].pc \in {"compare", "mend"} /\ Fails
  /\ Ends(p) /\ UNCHANGED <<rows, policy, told, requests>>
--------------------------------------------------------------------------------
Dies(p) ==
  /\ ~In(p, "free") /\ faults < MaxFaults
  /\ faults' = faults + 1 /\ died' = TRUE
  /\ Ends(p) /\ UNCHANGED <<rows, policy, told, requests>>

Works(p) ==
  \/ GrantRead(p) \/ GrantWrite(p) \/ GrantVerify(p) \/ GrantFails(p) \/ PutRow(p)
  \/ RevokeScan(p) \/ RevokeRead(p) \/ RevokeWrite(p) \/ RevokeFails(p)
  \/ Check(p) \/ SaveTest(p) \/ Compare(p) \/ Mend(p) \/ Report(p) \/ ReconcileFails(p)

Next ==
  \/ \E p \in People, k \in Rows : Create(p, k) \/ Delete(p, k) \/ Test(p, k)
  \/ \E p \in Processes : Reconcile(p) \/ Works(p) \/ Dies(p)

(* A request goes on until it ends, and the hourly invocation comes for ever.  *)
Fairness ==
  /\ \A p \in Processes : WF_vars(Works(p))
  /\ WF_vars(Reconcile(Schedule))

Spec == Init /\ [][Next]_vars
FairSpec == Spec /\ Fairness
--------------------------------------------------------------------------------
Agrees(a) == policy.of[a] = IF a \in Registered \ {Own} THEN "new" ELSE "none"

(* However the writers overwrite one another, fail or die: in the end exactly  *)
(* the accounts of the table may send, alarm events only, and a statement that *)
(* is not ours is still there (reconcile_alert_forwarding).                    *)
ForwardingConverges == <>[](policy.foreign /\ \A a \in Accounts : Agrees(a))

Lost(a) ==
  /\ a \in Registered \ {Own} /\ policy.of[a] = "none"
  /\ \A p \in Processes : In(p, "free")

(* A registered account that is left without its statement loses events until  *)
(* it is mended, so a person is told of it (_forwarding_incident): unless the  *)
(* account is deleted or registered again meanwhile, or the function dies.     *)
LossTold ==
  \A a \in Accounts :
    Lost(a) ~> \/ a \in told \/ died \/ a \notin Registered
               \/ \E p \in People : at[p].op = "create" /\ Account(p) = a
================================================================================
