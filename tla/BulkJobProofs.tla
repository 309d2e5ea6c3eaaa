----------------------------- MODULE BulkJobProofs -----------------------------
(***************************************************************************)
(* For every request, set of resources, size of a batch and number of       *)
(* receives: no message disappears between the queue and the worker, and a  *)
(* job that says it is finished says the truth while each message is        *)
(* received once and every count arrives.                                   *)
(***************************************************************************)
EXTENDS BulkJob, FiniteSetTheorems, TLAPS

-----------------------------------------------------------------------------
(* The invariant.  What is typed:                                           *)
Typed ==
  /\ request \in Requests /\ request \in Seq(Resources) /\ Len(request) \in Nat \ {0}
  /\ api \in ApiType /\ api.at > 0 /\ job \in JobType /\ before \in JobType
  /\ queue \in Seq(MessageType) /\ worker \in WorkerType
  /\ dead \subseteq Resources /\ sent \subseteq Resources /\ acted \subseteq Resources

(* Positions of the batch whose action was tried, and whose outcome was     *)
(* counted.                                                                 *)
Tried(i) == i < worker.at \/ (i = worker.at /\ worker.pc \in {"count", "check", "write"})

IsCounted(i) == i < worker.at \/ (i = worker.at /\ worker.pc \in {"check", "write"})

InQueue(r) == \E i \in DOMAIN queue : queue[i].resource = r

InBatch(r) == \E i \in DOMAIN worker.batch : worker.batch[i].resource = r

(* One message stands for a resource, and the worker is somewhere in its    *)
(* batch.                                                                   *)
OneMessage ==
  /\ \A i, j \in DOMAIN queue : queue[i].resource = queue[j].resource => i = j
  /\ \A i, j \in DOMAIN worker.batch :
       worker.batch[i].resource = worker.batch[j].resource => i = j
  /\ \A r \in Resources : ~(InQueue(r) /\ InBatch(r))
  /\ \A r \in Resources : InQueue(r) \/ InBatch(r) => r \in sent

InPlace ==
  /\ \A i \in DOMAIN queue : queue[i].receives < MaxReceive
  /\ \A i \in DOMAIN worker.batch : worker.batch[i].receives > 0
  /\ worker.pc = "idle" => worker.batch = <<>>
  /\ worker.pc # "idle" => worker.at \in 1 .. Len(worker.batch) + 1
  /\ worker.pc \in {"count", "check", "write"} => worker.at \in DOMAIN worker.batch

(* Nobody's message is gone while there is something to do.                 *)
Kept ==
  /\ \A i \in DOMAIN worker.batch : Tried(i) =>
       worker.batch[i].resource \in acted \cup worker.failures
  /\ \A r \in sent \ acted : r \in dead \/ InQueue(r) \/ InBatch(r)

KeptInv == Typed /\ OneMessage /\ InPlace /\ Kept

(* What the request has come to.                                            *)
Requested ==
  /\ api.at = api.queued + api.rejected + 1 /\ api.at <= Len(request) + 1
  /\ api.at > 1 => job.status # "none"
  /\ api.pc = "create" => job = NoJob /\ api.at = 1
  /\ api.pc \in {"each", "record"} => job.status # "none"
  /\ api.pc = "record" => api.at = Len(request) + 1 /\ api.rejected > 0
  /\ worker.pc = "write" => worker.final # "none"
  /\ job.status # "none" => job.total = Len(request)
  /\ IsFiniteSet(sent) /\ Cardinality(sent) <= api.queued
  /\ sent \subseteq ToSet(request)
  /\ api.rejected = 0 => \A i \in 1 .. api.at - 1 : request[i] \in sent

(* Messages not received yet, or not counted yet; the others are through.   *)
Waiting == {r \in sent : \E i \in DOMAIN queue : queue[i].resource = r /\ queue[i].receives = 0}

InWork ==
  {r \in sent : \E i \in DOMAIN worker.batch : worker.batch[i].resource = r /\ ~IsCounted(i)}

Through == sent \ (Waiting \cup InWork)

Undisturbed == trouble \cap {"again", "update", "worker"} = {}

AllIn == job.total = Len(request) /\ job.completed + job.failed = Len(request)

(* The counters are the resources that are through, and the rejections once *)
(* the API has added them.                                                  *)
Exact ==
  /\ job.completed = Cardinality(Through \cap acted)
  /\ \/ job.failed = Cardinality(Through \ acted)
     \/ job.failed = Cardinality(Through \ acted) + api.rejected /\ api.pc = "done"

TriedOnce ==
  /\ \A r \in acted : r \in Through \/ (worker.pc = "count" /\ r = InHand)
  /\ worker.pc = "count" => (InHand \in worker.failures <=> InHand \notin acted)
  /\ \A i \in DOMAIN worker.batch : worker.batch[i].resource \in worker.failures => Tried(i)

ReadBefore ==
  worker.pc \in {"check", "write"} =>
    /\ before.total = Len(request)
    /\ before.completed <= job.completed /\ before.failed <= job.failed

Honest ==
  /\ worker.pc = "write" => AllIn /\ worker.final = FinalStatus(job)
  /\ Finished => AllIn /\ job.status = FinalStatus(job)

Truth == TriedOnce /\ Exact /\ ReadBefore /\ Honest

TruthInv == KeptInv /\ Requested /\ (Undisturbed => Truth)
-----------------------------------------------------------------------------
(* The positions of a sequence have ranks 1, 2, ..., so that Picked() is    *)
(* the messages at these positions, each once.                              *)
LEMMA RankBelow ==
  ASSUME NEW n \in Nat, NEW I \in SUBSET (1 .. n), NEW i \in I
  PROVE  /\ IsFiniteSet({j \in I : j <= i})
         /\ Rank(I, i) \in 1 .. Cardinality(I)
<1> DEFINE below == {j \in I : j <= i}
<1>1. IsFiniteSet(1 .. n)
  BY FS_Interval
<1>2. IsFiniteSet(I) /\ below \subseteq I
  BY <1>1, FS_Subset
<1>3. IsFiniteSet(below)
  BY <1>2, FS_Subset
<1>4. Cardinality(below) <= Cardinality(I)
  BY <1>2, FS_Subset
<1>5. i \in below
  OBVIOUS
<1>6. Cardinality(below) \in Nat /\ Cardinality(I) \in Nat
  BY <1>2, <1>3, FS_CardinalityType
<1>7. Cardinality(below) # 0
  BY <1>3, <1>5, FS_EmptySet
<1> HIDE DEF below
<1>8. Cardinality(below) \in 1 .. Cardinality(I)
  BY <1>4, <1>6, <1>7
<1> QED  BY <1>3, <1>8 DEF below, Rank

LEMMA RankGrows ==
  ASSUME NEW n \in Nat, NEW I \in SUBSET (1 .. n), NEW i \in I, NEW j \in I, i < j
  PROVE  Rank(I, i) # Rank(I, j)
<1> DEFINE few == {k \in I : k <= i}
           more == {k \in I : k <= j}
<1>1. IsFiniteSet(few) /\ IsFiniteSet(more)
  BY RankBelow
<1>2. few \subseteq more /\ j \in more /\ j \notin few
  <2>1. \A k \in I : k \in Nat /\ (k <= i => k <= j)
    OBVIOUS
  <2>2. j <= j /\ ~(j <= i)
    OBVIOUS
  <2> QED  BY <2>1, <2>2
<1> HIDE DEF few, more
<1>3. Cardinality(few) # Cardinality(more)
  BY <1>1, <1>2, FS_Subset
<1> QED  BY <1>3 DEF few, more, Rank

LEMMA RankOnto ==
  ASSUME NEW n \in Nat, NEW I \in SUBSET (1 .. n)
  PROVE  /\ IsFiniteSet(I) /\ Cardinality(I) \in Nat
         /\ \A i, j \in I : Rank(I, i) = Rank(I, j) => i = j
         /\ \A k \in 1 .. Cardinality(I) : \E i \in I : Rank(I, i) = k
<1>1. IsFiniteSet(1 .. n)
  BY FS_Interval
<1>2. IsFiniteSet(I)
  BY <1>1, FS_Subset
<1>3. Cardinality(I) \in Nat
  BY <1>2, FS_CardinalityType
<1>4. ASSUME NEW i \in I, NEW j \in I, Rank(I, i) = Rank(I, j) PROVE i = j
  <2>1. ~(i < j) /\ ~(j < i)
    BY <1>4, RankGrows
  <2> QED  BY <2>1
<1> DEFINE rank == [i \in I |-> Rank(I, i)]
           m == Cardinality(I)
<1>5. IsFiniteSet(1 .. m) /\ Cardinality(1 .. m) = m
  BY <1>3, FS_Interval
<1>6. rank \in [I -> 1 .. m]
  BY RankBelow
<1>7. rank \in Injection(I, 1 .. m)
  BY <1>4, <1>6 DEF Injection, IsInjective
<1> HIDE DEF rank
<1>8. rank \in Surjection(I, 1 .. m)
  BY <1>5, <1>7, FS_Injection
<1>9. \A k \in 1 .. m : \E i \in I : rank[i] = k
  BY <1>8 DEF Surjection
<1> QED  BY <1>2, <1>3, <1>4, <1>9 DEF rank

LEMMA PickedFacts ==
  ASSUME NEW M, NEW s \in Seq(M), NEW I \in SUBSET (DOMAIN s)
  PROVE  LET p == Picked(s, I) IN
         /\ p \in Seq(M) /\ Len(p) \in Nat /\ DOMAIN p = 1 .. Len(p)
         /\ \E f \in [DOMAIN p -> I] :
              /\ \A k \in DOMAIN p : p[k] = s[f[k]]
              /\ \A k, l \in DOMAIN p : f[k] = f[l] => k = l
              /\ \A i \in I : \E k \in DOMAIN p : f[k] = i
<1>1. Len(s) \in Nat /\ I \in SUBSET (1 .. Len(s)) /\ \A i \in I : s[i] \in M
  OBVIOUS
<1> DEFINE m == Cardinality(I)
           f == [k \in 1 .. m |-> CHOOSE i \in I : Rank(I, i) = k]
           p == Picked(s, I)
<1>2. m \in Nat
  BY <1>1, RankOnto
<1>3. \A k \in 1 .. m : f[k] \in I /\ Rank(I, f[k]) = k
  BY <1>1, RankOnto
<1>4. p = [k \in 1 .. m |-> s[f[k]]]
  BY DEF Picked
<1>5. \A i \in I : Rank(I, i) \in 1 .. m
  BY <1>1, RankBelow
<1>6. \A i \in I : f[Rank(I, i)] = i
  BY <1>1, <1>3, <1>5, RankOnto
<1>7. f \in [1 .. m -> I]
  BY <1>3
<1> HIDE DEF m, f, p
<1>8. \A k \in 1 .. m : s[f[k]] \in M
  BY <1>1, <1>3
<1>9. p \in Seq(M) /\ Len(p) = m /\ DOMAIN p = 1 .. m
  BY <1>2, <1>4, <1>8
<1>10. /\ \A k \in DOMAIN p : p[k] = s[f[k]]
       /\ \A k, l \in DOMAIN p : f[k] = f[l] => k = l
       /\ \A i \in I : \E k \in DOMAIN p : f[k] = i
  BY <1>3, <1>4, <1>5, <1>6, <1>9
<1>11. f \in [DOMAIN p -> I] /\ Len(p) \in Nat /\ DOMAIN p = 1 .. Len(p)
  BY <1>2, <1>7, <1>9
<1> QED  BY <1>9, <1>10, <1>11 DEF p
-----------------------------------------------------------------------------
(* What each step does to the messages.                                     *)
LEMMA Sequences ==
  ASSUME Typed
  PROVE  /\ Len(queue) \in Nat /\ DOMAIN queue = 1 .. Len(queue)
         /\ \A i \in DOMAIN queue : queue[i] \in MessageType
         /\ worker.batch \in Seq(MessageType)
         /\ Len(worker.batch) \in Nat /\ DOMAIN worker.batch = 1 .. Len(worker.batch)
         /\ \A i \in DOMAIN worker.batch : worker.batch[i] \in MessageType
         /\ worker.at \in Nat
<1>1. queue \in Seq(MessageType) /\ worker.batch \in Seq(MessageType) /\ worker.at \in Nat
  BY DEF Typed, WorkerType
<1> QED  BY <1>1

LEMMA IdleFields ==
  /\ Idle \in WorkerType /\ Idle.pc = "idle" /\ Idle.batch = <<>> /\ Idle.failures = {}
BY DEF Idle, WorkerType, Statuses

LEMMA NextRecordFields ==
  ASSUME worker \in WorkerType
  PROVE  /\ NextRecord \in WorkerType /\ NextRecord.pc = "act"
         /\ NextRecord.batch = worker.batch /\ NextRecord.failures = worker.failures
         /\ NextRecord.at = worker.at + 1
<1>1. worker.at + 1 \in Nat
  BY DEF WorkerType
<1> QED  BY <1>1 DEF NextRecord, WorkerType, Statuses

LEMMA ReceiveFacts ==
  ASSUME Typed, InPlace, NEW n \in 1 .. BatchSize, Receive(n)
  PROVE  /\ n \in Nat \ {0} /\ n <= Len(queue)
         /\ worker' \in WorkerType /\ worker'.pc = "act" /\ worker'.at = 1 /\ worker'.failures = {}
         /\ Len(worker'.batch) = n
         /\ \A i \in 1 .. n : /\ worker'.batch[i].resource = queue[i].resource
                              /\ worker'.batch[i].receives = queue[i].receives + 1
         /\ queue' \in Seq(MessageType) /\ Len(queue') = Len(queue) - n
         /\ \A i \in 1 .. Len(queue) - n : queue'[i] = queue[i + n]
<1>1. n \in Nat \ {0} /\ n <= Len(queue) /\ Len(queue) \in Nat
  BY JobAssumption, Sequences DEF Receive
<1> DEFINE taken == SubSeq(queue, 1, n)
           batch == Received(taken)
<1>2. taken \in Seq(MessageType) /\ Len(taken) = n /\ \A i \in 1 .. n : taken[i] = queue[i]
  BY <1>1 DEF Typed
<1>3. ASSUME NEW i \in 1 .. n
      PROVE  /\ [taken[i] EXCEPT !.receives = @ + 1] \in MessageType
             /\ [taken[i] EXCEPT !.receives = @ + 1].resource = queue[i].resource
             /\ [taken[i] EXCEPT !.receives = @ + 1].receives = queue[i].receives + 1
  <2>1. PICK m \in MessageType : m = queue[i] /\ m = taken[i]
    BY <1>1, <1>2, Sequences
  <2>2. m.receives < MaxReceive /\ m.receives \in Nat
    BY <1>1, <2>1, Sequences DEF InPlace, MessageType
  <2>3. m.receives + 1 \in 0 .. MaxReceive
    BY <2>2, JobAssumption
  <2> QED  BY <2>1, <2>3 DEF MessageType
<1>4. batch = [i \in 1 .. n |-> [taken[i] EXCEPT !.receives = @ + 1]]
  BY <1>2 DEF Received
<1> HIDE DEF taken
<1>5. batch \in Seq(MessageType) /\ Len(batch) = n
  <2>1. \A i \in 1 .. n : [taken[i] EXCEPT !.receives = @ + 1] \in MessageType
    BY <1>3
  <2>2. batch \in [1 .. n -> MessageType] /\ n \in Nat
    BY <1>1, <1>4, <2>1, Zenon
  <2> HIDE DEF batch
  <2> QED  BY <2>2
<1>6. \A i \in 1 .. n : /\ batch[i].resource = queue[i].resource
                        /\ batch[i].receives = queue[i].receives + 1
  BY <1>3, <1>4
<1>7. worker' = [Idle EXCEPT !.pc = "act", !.batch = batch, !.at = 1]
  BY DEF Receive, taken
<1> HIDE DEF batch
<1>8. /\ worker' \in WorkerType /\ worker'.pc = "act" /\ worker'.at = 1 /\ worker'.failures = {}
      /\ worker'.batch = batch
  BY <1>5, <1>7 DEF Idle, WorkerType, Statuses
<1>9. /\ queue' \in Seq(MessageType) /\ Len(queue') = Len(queue) - n
      /\ \A i \in 1 .. Len(queue) - n : queue'[i] = queue[i + n]
  <2>1. queue' = SubSeq(queue, n + 1, Len(queue))
    BY DEF Receive
  <2> QED  BY <1>1, <2>1 DEF Typed
<1> QED  BY <1>1, <1>5, <1>6, <1>8, <1>9

LEMMA ComeBackFacts ==
  ASSUME Typed, InPlace, OneMessage, NEW P \in SUBSET (DOMAIN worker.batch), ComeBack(P)
  PROVE  /\ queue' \in Seq(MessageType) /\ dead' \subseteq Resources /\ dead \subseteq dead'
         /\ \A k \in DOMAIN queue' :
              \/ \E i \in P : queue'[k] = worker.batch[i] /\ worker.batch[i].receives < MaxReceive
              \/ \E i \in DOMAIN queue : queue'[k] = queue[i]
         /\ \A i \in DOMAIN queue : \E k \in DOMAIN queue' : queue'[k] = queue[i]
         /\ \A i \in P : worker.batch[i].resource \in dead'
                           \/ \E k \in DOMAIN queue' : queue'[k] = worker.batch[i]
         /\ \A k, l \in DOMAIN queue' : queue'[k].resource = queue'[l].resource => k = l
<1> DEFINE batch == worker.batch
           again == {i \in P : batch[i].receives < MaxReceive}
           p == Picked(batch, again)
<1>1. again \in SUBSET (DOMAIN batch) /\ batch \in Seq(MessageType)
  BY Sequences
<1>2. /\ p \in Seq(MessageType) /\ Len(p) \in Nat /\ DOMAIN p = 1 .. Len(p)
      /\ \E f \in [DOMAIN p -> again] :
           /\ \A k \in DOMAIN p : p[k] = batch[f[k]]
           /\ \A k, l \in DOMAIN p : f[k] = f[l] => k = l
           /\ \A i \in again : \E k \in DOMAIN p : f[k] = i
  <2> HIDE DEF batch, again
  <2> QED  BY <1>1, PickedFacts
<1>3. PICK f \in [1 .. Len(p) -> again] :
        /\ \A k \in 1 .. Len(p) : p[k] = batch[f[k]]
        /\ \A k, l \in 1 .. Len(p) : f[k] = f[l] => k = l
        /\ \A i \in again : \E k \in 1 .. Len(p) : f[k] = i
  <2> HIDE DEF p, batch, again
  <2>1. PICK f \in [DOMAIN p -> again] :
           /\ \A k \in DOMAIN p : p[k] = batch[f[k]]
           /\ \A k, l \in DOMAIN p : f[k] = f[l] => k = l
           /\ \A i \in again : \E k \in DOMAIN p : f[k] = i
    BY <1>2
  <2>2. DOMAIN p = 1 .. Len(p)
    BY <1>2
  <2>3. f \in [1 .. Len(p) -> again]
    BY <2>2
  <2>4. /\ \A k \in 1 .. Len(p) : p[k] = batch[f[k]]
        /\ \A k, l \in 1 .. Len(p) : f[k] = f[l] => k = l
        /\ \A i \in again : \E k \in 1 .. Len(p) : f[k] = i
    BY <2>1, <2>2
  <2> QED  BY <2>3, <2>4
<1>4. queue' = p \o queue /\ dead' = dead \cup {batch[i].resource : i \in P \ again}
  BY DEF ComeBack
<1>5. /\ Len(queue) \in Nat /\ DOMAIN queue = 1 .. Len(queue) /\ queue \in Seq(MessageType)
      /\ \A i \in P : batch[i] \in MessageType
  BY Sequences DEF Typed
<1> HIDE DEF p
<1>6. /\ queue' \in Seq(MessageType) /\ Len(queue') = Len(p) + Len(queue)
      /\ DOMAIN queue' = 1 .. Len(p) + Len(queue)
      /\ \A k \in 1 .. Len(p) : queue'[k] = p[k]
      /\ \A k \in 1 .. Len(p) + Len(queue) : k > Len(p) => queue'[k] = queue[k - Len(p)]
  BY <1>2, <1>4, <1>5
<1>7. \A k \in 1 .. Len(p) : f[k] \in P /\ batch[f[k]].receives < MaxReceive /\ f[k] \in DOMAIN batch
  BY <1>3
<1>8. \A k \in 1 .. Len(p) + Len(queue) :
        \/ k \in 1 .. Len(p)
        \/ k > Len(p) /\ k - Len(p) \in DOMAIN queue
  BY <1>2, <1>5
<1>9. \A i \in DOMAIN queue : i + Len(p) \in DOMAIN queue' /\ queue'[i + Len(p)] = queue[i]
  BY <1>2, <1>5, <1>6
<1>10. ASSUME NEW i \in P
       PROVE  batch[i].resource \in dead' \/ \E k \in DOMAIN queue' : queue'[k] = batch[i]
  <2>1. CASE i \in again
    <3>1. PICK k \in 1 .. Len(p) : f[k] = i
      BY <1>3, <2>1
    <3>2. k \in DOMAIN queue' /\ queue'[k] = batch[i]
      BY <1>2, <1>3, <1>5, <1>6, <3>1
    <3> QED  BY <3>2
  <2>2. CASE i \notin again
    BY <1>4, <2>2
  <2> QED  BY <2>1, <2>2
<1>11. ASSUME NEW k \in DOMAIN queue', NEW l \in DOMAIN queue',
              queue'[k].resource = queue'[l].resource
       PROVE  k = l
  <2>1. CASE k \in 1 .. Len(p) /\ l \in 1 .. Len(p)
    <3>1. batch[f[k]].resource = batch[f[l]].resource
      BY <1>3, <1>6, <1>11, <2>1
    <3>2. f[k] = f[l]
      BY <1>7, <2>1, <3>1 DEF OneMessage
    <3> QED  BY <1>3, <2>1, <3>2
  <2>2. ASSUME NEW a \in 1 .. Len(p), NEW b \in DOMAIN queue', b > Len(p),
               queue'[a].resource = queue'[b].resource
        PROVE  FALSE
    <3>1. b - Len(p) \in DOMAIN queue /\ queue'[b] = queue[b - Len(p)]
      BY <1>6, <1>8, <2>2
    <3>2. f[a] \in DOMAIN batch /\ queue'[a] = batch[f[a]]
      BY <1>3, <1>6, <1>7
    <3>3. InQueue(queue[b - Len(p)].resource) /\ InBatch(queue[b - Len(p)].resource)
      BY <2>2, <3>1, <3>2 DEF InQueue, InBatch
    <3>4. queue[b - Len(p)].resource \in Resources
      BY <3>1, Sequences DEF MessageType
    <3> QED  BY <3>3, <3>4 DEF OneMessage
  <2>3. CASE k > Len(p) /\ l > Len(p)
    <3>1. /\ k - Len(p) \in DOMAIN queue /\ l - Len(p) \in DOMAIN queue
          /\ queue[k - Len(p)].resource = queue[l - Len(p)].resource
      BY <1>6, <1>8, <1>11, <2>3
    <3>2. k - Len(p) = l - Len(p)
      BY <3>1 DEF OneMessage
    <3> QED  BY <1>2, <1>5, <1>6, <3>2
  <2> QED  BY <1>6, <1>8, <1>11, <2>1, <2>2, <2>3
<1>12. dead' \subseteq Resources /\ dead \subseteq dead'
  BY <1>4, <1>5 DEF Typed, MessageType
<1>13. \A k \in DOMAIN queue' :
         \/ \E i \in P : queue'[k] = batch[i] /\ batch[i].receives < MaxReceive
         \/ \E i \in DOMAIN queue : queue'[k] = queue[i]
  BY <1>3, <1>6, <1>7, <1>8
<1> QED  BY <1>6, <1>9, <1>10, <1>11, <1>12, <1>13
-----------------------------------------------------------------------------
(* Typed is kept by every step.                                             *)
LEMMA InitTyped == Init => Typed
<1> SUFFICES ASSUME Init PROVE Typed
  OBVIOUS
<1>1. request \in Requests /\ request \in Seq(Resources) /\ request # <<>>
  BY JobAssumption DEF Init
<1>2. Len(request) \in Nat \ {0}
  BY <1>1
<1>3. NoJob \in JobType
  BY DEF NoJob, JobType, Statuses
<1>4. api \in ApiType /\ api.at > 0
  BY DEF Init, ApiType
<1> QED  BY <1>1, <1>2, <1>3, <1>4, IdleFields DEF Init, Typed

LEMMA ApiTyped ==
  ASSUME Typed, ApiStep \/ ApiFails
  PROVE  Typed'
<1>1. /\ Len(request) \in Nat \ {0} /\ api.at \in Nat \ {0} /\ api.queued \in Nat /\ api.rejected \in Nat
      /\ api.errors \in Nat /\ api \in ApiType
  BY DEF Typed, ApiType
<1>2. /\ api.at + 1 \in Nat /\ api.at + 1 > 0 /\ api.queued + 1 \in Nat /\ api.rejected + 1 \in Nat
      /\ api.errors + 1 \in Nat
  BY <1>1
<1>3. CASE CreateJob
  <2>1. [NoJob EXCEPT !.status = "pending", !.total = Len(request)] \in JobType
    BY <1>1 DEF NoJob, JobType, Statuses
  <2>2. api' \in ApiType /\ api'.at > 0
    BY <1>1, <1>3 DEF CreateJob, ApiType
  <2> QED  BY <1>3, <2>1, <2>2 DEF CreateJob, WriteJob, Typed
<1>4. CASE Reject
  <2>1. api' \in ApiType /\ api'.at > 0
    BY <1>1, <1>2, <1>4 DEF Reject, ApiType
  <2> QED  BY <1>4, <2>1 DEF Reject, Typed
<1>5. CASE Send
  <2>1. api' \in ApiType /\ api'.at > 0
    BY <1>1, <1>2, <1>5 DEF Send, ApiType
  <2>2. request[api.at] \in Resources
    BY <1>1, <1>5 DEF Send, Typed
  <2>3. [resource |-> request[api.at], receives |-> 0] \in MessageType
    BY <2>2, JobAssumption DEF MessageType
  <2> QED  BY <1>5, <2>1, <2>2, <2>3 DEF Send, Typed
<1>6. CASE SendFails
  <2>1. api' \in ApiType /\ api'.at > 0
    BY <1>1, <1>2, <1>6 DEF SendFails, ApiType
  <2> QED  BY <1>6, <2>1 DEF SendFails, Typed
<1>7. CASE AllTaken
  <2>1. api' \in ApiType /\ api'.at > 0
    BY <1>1, <1>7 DEF AllTaken, ApiType
  <2> QED  BY <1>7, <2>1 DEF AllTaken, Typed
<1>8. CASE RecordFailures
  <2>1. api' \in ApiType /\ api'.at > 0
    BY <1>1, <1>8 DEF RecordFailures, ApiType
  <2>2. WithFailures \in JobType
    <3>1. job.failed + api.rejected \in Nat /\ job \in JobType
      BY <1>1 DEF Typed, JobType
    <3> QED  BY <3>1 DEF WithFailures, JobType, Statuses
  <2> QED  BY <1>8, <2>1, <2>2 DEF RecordFailures, WriteJob, Typed
<1>9. CASE ApiFails
  <2>1. api' \in ApiType /\ api'.at > 0
    BY <1>1, <1>9 DEF ApiFails, ApiType
  <2> QED  BY <1>9, <2>1 DEF ApiFails, Typed
<1> QED  BY <1>3, <1>4, <1>5, <1>6, <1>7, <1>8, <1>9 DEF ApiStep

(* What a step inside a batch leaves alone.                                 *)
InBatchStep ==
  /\ worker' \in WorkerType /\ worker'.batch = worker.batch
  /\ worker.failures \subseteq worker'.failures /\ acted \subseteq acted'
  /\ acted' \subseteq Resources /\ job' \in JobType /\ before' \in JobType
  /\ UNCHANGED <<request, api, queue, dead, sent>>

LEMMA HandFacts ==
  ASSUME Typed, worker.at \in DOMAIN worker.batch
  PROVE  InHand \in Resources
BY Sequences DEF InHand, MessageType

LEMMA InBatchSteps ==
  ASSUME Typed, InPlace
  PROVE  /\ Act => /\ InBatchStep /\ worker'.pc = "count" /\ worker'.at = worker.at
                   /\ worker.at \in DOMAIN worker.batch /\ UNCHANGED <<job, before>>
                   /\ \/ acted' = acted \cup {InHand} /\ worker'.failures = worker.failures
                      \/ acted' = acted /\ worker'.failures = worker.failures \cup {InHand}
         /\ Count => InBatchStep /\ worker'.pc = "check" /\ worker'.at = worker.at
                     /\ worker'.failures = worker.failures /\ acted' = acted
         /\ Check => InBatchStep /\ UNCHANGED <<job, before, acted>>
                     /\ worker'.failures = worker.failures
                     /\ \/ worker'.pc = "write" /\ worker'.at = worker.at
                        \/ worker'.pc = "act" /\ worker'.at = worker.at + 1
         /\ WriteFinal => InBatchStep /\ worker'.pc = "act" /\ worker'.at = worker.at + 1
                     /\ worker'.failures = worker.failures /\ acted' = acted
<1>1. worker \in WorkerType /\ job \in JobType /\ before \in JobType
  BY DEF Typed
<1>2. ASSUME Act
      PROVE  /\ InBatchStep /\ worker'.pc = "count" /\ worker'.at = worker.at
             /\ worker.at \in DOMAIN worker.batch /\ UNCHANGED <<job, before>>
             /\ \/ acted' = acted \cup {InHand} /\ worker'.failures = worker.failures
                \/ acted' = acted /\ worker'.failures = worker.failures \cup {InHand}
  <2>1. worker.at \in DOMAIN worker.batch
    BY <1>2, Sequences DEF Act, InPlace
  <2>2. InHand \in Resources
    BY <2>1, HandFacts
  <2>3. UNCHANGED <<request, api, job, before, queue, dead, sent>>
    BY <1>2 DEF Act
  <2>4. CASE acted' = acted \cup {InHand} /\ worker' = [worker EXCEPT !.pc = "count"]
    <3>1. /\ worker' \in WorkerType /\ worker'.pc = "count" /\ worker'.at = worker.at
          /\ worker'.batch = worker.batch /\ worker'.failures = worker.failures
      BY <1>1, <2>4 DEF WorkerType
    <3>2. acted \subseteq acted' /\ acted' \subseteq Resources
      BY <2>2, <2>4 DEF Typed
    <3> QED  BY <1>1, <2>1, <2>3, <2>4, <3>1, <3>2 DEF InBatchStep
  <2>5. CASE /\ worker' = [worker EXCEPT !.pc = "count", !.failures = @ \cup {InHand}]
             /\ UNCHANGED acted
    <3>1. worker.failures \cup {InHand} \in SUBSET Resources
      BY <1>1, <2>2 DEF WorkerType
    <3>2. /\ worker' \in WorkerType /\ worker'.pc = "count" /\ worker'.at = worker.at
          /\ worker'.batch = worker.batch
          /\ worker'.failures = worker.failures \cup {InHand}
      BY <1>1, <2>5, <3>1 DEF WorkerType
    <3>3. acted' \subseteq Resources
      BY <2>5 DEF Typed
    <3> QED  BY <1>1, <2>1, <2>3, <2>5, <3>2, <3>3 DEF InBatchStep
  <2> QED  BY <1>2, <2>4, <2>5 DEF Act
<1>3. ASSUME Count
      PROVE  InBatchStep /\ worker'.pc = "check" /\ worker'.at = worker.at
             /\ worker'.failures = worker.failures /\ acted' = acted
  <2>1. Counted \in JobType
    <3>1. job.failed + 1 \in Nat /\ job.completed + 1 \in Nat
      BY <1>1 DEF JobType
    <3> QED  BY <1>1, <3>1 DEF Counted, JobType, Statuses
  <2> QED  BY <1>1, <1>3, <2>1 DEF Count, WriteJob, InBatchStep, Typed, WorkerType
<1>4. ASSUME Check
      PROVE  InBatchStep /\ UNCHANGED <<job, before, acted>>
             /\ worker'.failures = worker.failures
             /\ \/ worker'.pc = "write" /\ worker'.at = worker.at
                \/ worker'.pc = "act" /\ worker'.at = worker.at + 1
  <2>1. PICK seen \in {job, before} :
          worker' = IF AllCounted(seen)
                    THEN [worker EXCEPT !.pc = "write", !.final = FinalStatus(seen)]
                    ELSE NextRecord
    BY <1>4 DEF Check
  <2>2. FinalStatus(seen) \in Statuses
    BY DEF FinalStatus, Statuses
  <2>3. UNCHANGED <<request, api, job, before, queue, dead, sent, acted>>
    BY <1>4 DEF Check
  <2>4. CASE AllCounted(seen)
    <3>1. /\ worker' \in WorkerType /\ worker'.pc = "write" /\ worker'.at = worker.at
          /\ worker'.batch = worker.batch /\ worker'.failures = worker.failures
      BY <1>1, <2>1, <2>2, <2>4 DEF WorkerType
    <3> QED  BY <1>1, <2>3, <3>1 DEF InBatchStep, Typed
  <2>5. CASE ~AllCounted(seen)
    BY <1>1, <2>1, <2>3, <2>5, NextRecordFields DEF InBatchStep, Typed
  <2> QED  BY <2>4, <2>5
<1>5. ASSUME WriteFinal
      PROVE  InBatchStep /\ worker'.pc = "act" /\ worker'.at = worker.at + 1
             /\ worker'.failures = worker.failures /\ acted' = acted
  <2>1. [job EXCEPT !.status = worker.final] \in JobType
    BY <1>1 DEF WorkerType, JobType
  <2> QED  BY <1>1, <1>5, <2>1, NextRecordFields DEF WriteFinal, WriteJob, InBatchStep, Typed
<1> QED  BY <1>2, <1>3, <1>4, <1>5

LEMMA WorkerTyped ==
  ASSUME Typed, InPlace, OneMessage, WorkerStep \/ WorkerDies
  PROVE  Typed'
<1>1. ASSUME InBatchStep PROVE Typed'
  BY <1>1 DEF InBatchStep, Typed
<1>2. CASE Act \/ Count \/ Check \/ WriteFinal
  BY <1>1, <1>2, InBatchSteps
<1>3. CASE TakeBatch
  <2>1. PICK n \in 1 .. BatchSize : Receive(n)
    BY <1>3 DEF TakeBatch
  <2>2. worker' \in WorkerType /\ queue' \in Seq(MessageType)
    BY <2>1, ReceiveFacts
  <2> QED  BY <2>1, <2>2 DEF Receive, Typed
<1>4. CASE Return
  <2>1. Failed \in SUBSET (DOMAIN worker.batch) /\ ComeBack(Failed)
    BY <1>4 DEF Return, Failed
  <2>2. queue' \in Seq(MessageType) /\ dead' \subseteq Resources
    BY <2>1, ComeBackFacts
  <2> QED  BY <1>4, <2>2, IdleFields DEF Return, Typed
<1>5. CASE WorkerDies
  <2>1. ComeBack(DOMAIN worker.batch)
    BY <1>5 DEF WorkerDies
  <2>2. queue' \in Seq(MessageType) /\ dead' \subseteq Resources
    BY <2>1, ComeBackFacts
  <2> QED  BY <1>5, <2>2, IdleFields DEF WorkerDies, Typed
<1> QED  BY <1>2, <1>3, <1>4, <1>5 DEF WorkerStep
-----------------------------------------------------------------------------
(* No step loses a message.  A step that leaves the messages alone:         *)
LEMMA KeptAlone ==
  ASSUME KeptInv, Typed', UNCHANGED <<queue, worker, dead, sent, acted>>
  PROVE  KeptInv'
BY DEF KeptInv, OneMessage, InPlace, Kept, InQueue, InBatch, Tried

LEMMA KeptSend ==
  ASSUME KeptInv, Typed', Send
  PROVE  KeptInv'
<1>1. CASE request[api.at] \in sent
  <2>1. UNCHANGED <<queue, worker, dead, acted>> /\ sent' = sent
    BY <1>1 DEF Send
  <2> QED  BY <2>1, KeptAlone
<1>2. CASE request[api.at] \notin sent
  <2>1. PICK r : r = request[api.at]
    OBVIOUS
  <2>2. /\ queue' = Append(queue, [resource |-> r, receives |-> 0]) /\ sent' = sent \cup {r}
        /\ UNCHANGED <<worker, dead, acted>> /\ r \notin sent
    BY <1>2, <2>1 DEF Send
  <2>3. /\ Len(queue) \in Nat /\ DOMAIN queue = 1 .. Len(queue)
        /\ DOMAIN queue' = 1 .. Len(queue) + 1 /\ Len(queue) + 1 \in DOMAIN queue'
        /\ \A i \in DOMAIN queue : i \in DOMAIN queue' /\ queue'[i] = queue[i]
        /\ queue'[Len(queue) + 1].resource = r /\ queue'[Len(queue) + 1].receives = 0
        /\ \A i \in DOMAIN queue' : i \in DOMAIN queue \/ i = Len(queue) + 1
    BY <2>2, Sequences DEF KeptInv, Typed
  <2>4. r \in Resources
    BY <2>2 DEF KeptInv, Typed
  <2>5. ~InQueue(r) /\ ~InBatch(r)
    BY <2>2, <2>4 DEF KeptInv, OneMessage
  <2>6. \A x : InQueue(x)' <=> InQueue(x) \/ x = r
    BY <2>3 DEF InQueue
  <2>7. \A x : InBatch(x)' <=> InBatch(x)
    BY <2>2 DEF InBatch
  <2>8. OneMessage'
    <3>1. \A i, j \in DOMAIN queue' : queue'[i].resource = queue'[j].resource => i = j
      <4>1. \A i \in DOMAIN queue : queue[i].resource # r
        BY <2>5 DEF InQueue
      <4> QED  BY <2>3, <4>1 DEF KeptInv, OneMessage
    <3> QED  BY <2>2, <2>5, <2>6, <2>7, <3>1 DEF KeptInv, OneMessage
  <2>9. InPlace'
    <3>1. 0 < MaxReceive
      BY JobAssumption
    <3> QED  BY <2>2, <2>3, <3>1 DEF KeptInv, InPlace
  <2>10. Kept'
    BY <2>2, <2>6, <2>7 DEF KeptInv, Kept, Tried
  <2> QED  BY <2>8, <2>9, <2>10 DEF KeptInv
<1> QED  BY <1>1, <1>2

LEMMA KeptInBatch ==
  ASSUME KeptInv, Typed', Act \/ Count \/ Check \/ WriteFinal
  PROVE  KeptInv'
<1>1. InBatchStep
  BY InBatchSteps DEF KeptInv
<1>2. \A x : /\ InQueue(x)' <=> InQueue(x)
             /\ InBatch(x)' <=> InBatch(x)
  BY <1>1 DEF InBatchStep, InQueue, InBatch
<1>3. OneMessage'
  BY <1>1, <1>2 DEF KeptInv, OneMessage, InBatchStep
<1>4. /\ worker.at \in Nat /\ Len(worker.batch) \in Nat
      /\ DOMAIN worker.batch = 1 .. Len(worker.batch)
  BY Sequences DEF KeptInv
<1>5. /\ worker.at \in DOMAIN worker.batch /\ worker'.pc # "idle"
      /\ \/ Act /\ worker'.at = worker.at
         \/ /\ worker.pc \in {"count", "check", "write"}
            /\ worker'.at = worker.at \/ (worker'.at = worker.at + 1 /\ worker'.pc = "act")
  <2>1. CASE Act
    BY <2>1, InBatchSteps DEF KeptInv
  <2>2. CASE Count
    BY <2>2, InBatchSteps DEF KeptInv, InPlace, Count
  <2>3. CASE Check
    BY <2>3, InBatchSteps DEF KeptInv, InPlace, Check
  <2>4. CASE WriteFinal
    BY <2>4, InBatchSteps DEF KeptInv, InPlace, WriteFinal
  <2> QED  BY <2>1, <2>2, <2>3, <2>4
<1>6. InPlace'
  <2>1. worker'.at \in 1 .. Len(worker.batch) + 1
    BY <1>4, <1>5
  <2> QED  BY <1>1, <1>5, <2>1 DEF KeptInv, InPlace, InBatchStep
<1>7. ASSUME NEW i \in DOMAIN worker.batch, Tried(i)'
      PROVE  worker.batch[i].resource \in acted' \cup worker'.failures
  <2>1. CASE Tried(i)
    BY <1>1, <2>1 DEF KeptInv, Kept, InBatchStep
  <2>2. CASE ~Tried(i)
    <3>1. i \in Nat /\ (i < worker'.at \/ (i = worker'.at /\ worker'.pc # "act"))
      BY <1>4, <1>7 DEF Tried
    <3>2. i = worker.at /\ Act
      BY <1>4, <1>5, <2>2, <3>1 DEF Tried
    <3>3. InHand \in acted' \cup worker'.failures
      BY <3>2, InBatchSteps DEF KeptInv
    <3> QED  BY <3>2, <3>3 DEF InHand
  <2> QED  BY <2>1, <2>2
<1>8. Kept'
  BY <1>1, <1>2, <1>7 DEF KeptInv, Kept, InBatchStep
<1> QED  BY <1>3, <1>6, <1>8 DEF KeptInv

LEMMA KeptTaken ==
  ASSUME KeptInv, Typed', TakeBatch
  PROVE  KeptInv'
<1>1. PICK n \in 1 .. BatchSize : Receive(n)
  BY DEF TakeBatch
<1>2. /\ n \in Nat \ {0} /\ n <= Len(queue)
      /\ worker' \in WorkerType /\ worker'.pc = "act" /\ worker'.at = 1 /\ worker'.failures = {}
      /\ Len(worker'.batch) = n
      /\ \A i \in 1 .. n : /\ worker'.batch[i].resource = queue[i].resource
                           /\ worker'.batch[i].receives = queue[i].receives + 1
      /\ queue' \in Seq(MessageType) /\ Len(queue') = Len(queue) - n
      /\ \A i \in 1 .. Len(queue) - n : queue'[i] = queue[i + n]
  BY <1>1, ReceiveFacts DEF KeptInv
<1>3. PICK m \in Nat : m = Len(queue)
  BY Sequences DEF KeptInv
<1>4. /\ DOMAIN queue = 1 .. m /\ DOMAIN queue' = 1 .. m - n /\ DOMAIN worker'.batch = 1 .. n
      /\ \A i \in 1 .. m : queue[i].receives \in Nat /\ queue[i].resource \in Resources
  <2>1. PICK b \in Seq(MessageType) : b = worker'.batch
    BY <1>2 DEF WorkerType
  <2>2. DOMAIN worker'.batch = 1 .. n
    BY <1>2, <2>1
  <2>3. PICK q \in Seq(MessageType) : q = queue'
    BY <1>2
  <2>4. DOMAIN queue' = 1 .. m - n
    BY <1>2, <1>3, <2>3
  <2>5. DOMAIN queue = 1 .. m /\ \A i \in 1 .. m : queue[i] \in MessageType
    BY <1>3, Sequences DEF KeptInv
  <2> QED  BY <2>2, <2>4, <2>5 DEF MessageType
<1>5. UNCHANGED <<dead, sent, acted>> /\ worker.pc = "idle"
  BY <1>1 DEF Receive
<1>6. worker.batch = <<>>
  BY <1>5 DEF KeptInv, InPlace
<1>7. \A i \in 1 .. m : i \in 1 .. n \/ (i - n \in 1 .. m - n /\ (i - n) + n = i)
  BY <1>2, <1>3
<1>8. \A i \in 1 .. n : i \in 1 .. m
  BY <1>2, <1>3
<1>9. \A i \in 1 .. m - n : i + n \in 1 .. m /\ ~(i + n \in 1 .. n)
  BY <1>2, <1>3
<1>10. ASSUME NEW x
       PROVE  /\ InQueue(x) => InQueue(x)' \/ InBatch(x)'
              /\ InQueue(x)' => InQueue(x)
              /\ InBatch(x)' => InQueue(x)
              /\ ~InBatch(x)
  <2>1. ASSUME NEW i \in 1 .. m, queue[i].resource = x PROVE InQueue(x)' \/ InBatch(x)'
    <3>1. CASE i \in 1 .. n
      BY <1>2, <1>4, <2>1, <3>1 DEF InBatch
    <3>2. CASE i - n \in 1 .. m - n /\ (i - n) + n = i
      <4>1. queue'[i - n] = queue[i]
        BY <1>2, <1>3, <3>2
      <4> QED  BY <1>4, <2>1, <3>2, <4>1 DEF InQueue
    <3> QED  BY <1>7, <3>1, <3>2
  <2>2. ASSUME NEW k \in 1 .. m - n, queue'[k].resource = x PROVE InQueue(x)
    <3>1. queue'[k] = queue[k + n]
      BY <1>2, <1>3
    <3> QED  BY <1>4, <1>9, <2>2, <3>1 DEF InQueue
  <2>3. ASSUME NEW k \in 1 .. n, worker'.batch[k].resource = x PROVE InQueue(x)
    BY <1>2, <1>4, <1>8, <2>3 DEF InQueue
  <2>4. ~InBatch(x)
    <3>1. DOMAIN worker.batch = {}
      BY <1>6
    <3> QED  BY <3>1 DEF InBatch
  <2>5. /\ InQueue(x) => \E i \in 1 .. m : queue[i].resource = x
        /\ InQueue(x)' => \E k \in 1 .. m - n : queue'[k].resource = x
        /\ InBatch(x)' => \E k \in 1 .. n : worker'.batch[k].resource = x
    BY <1>4 DEF InQueue, InBatch
  <2> QED  BY <2>1, <2>2, <2>3, <2>4, <2>5
<1>11. \A i, j \in 1 .. m : queue[i].resource = queue[j].resource => i = j
  BY <1>4 DEF KeptInv, OneMessage
<1>12. OneMessage'
  <2>1. \A i, j \in DOMAIN queue' : queue'[i].resource = queue'[j].resource => i = j
    <3>1. SUFFICES ASSUME NEW i \in 1 .. m - n, NEW j \in 1 .. m - n,
                          queue'[i].resource = queue'[j].resource
                   PROVE  i = j
      BY <1>4
    <3>2. queue'[i] = queue[i + n] /\ queue'[j] = queue[j + n]
      BY <1>2, <1>3
    <3>3. i + n = j + n
      BY <1>9, <1>11, <3>1, <3>2
    <3> QED  BY <1>2, <3>3
  <2>2. \A i, j \in DOMAIN worker'.batch :
          worker'.batch[i].resource = worker'.batch[j].resource => i = j
    BY <1>2, <1>4, <1>8, <1>11
  <2>3. \A r \in Resources : ~(InQueue(r)' /\ InBatch(r)')
    <3>1. SUFFICES ASSUME NEW i \in 1 .. m - n, NEW j \in 1 .. n,
                          queue'[i].resource = worker'.batch[j].resource
                   PROVE  FALSE
      BY <1>4 DEF InQueue, InBatch
    <3>2. i + n = j
      BY <1>2, <1>3, <1>8, <1>9, <1>11, <3>1
    <3> QED  BY <1>9, <3>2
  <2>4. \A r \in Resources : InQueue(r)' \/ InBatch(r)' => r \in sent'
    BY <1>5, <1>10 DEF KeptInv, OneMessage
  <2> QED  BY <2>1, <2>2, <2>3, <2>4 DEF OneMessage
<1>13. InPlace'
  <2>1. \A i \in DOMAIN queue' : queue'[i].receives < MaxReceive
    BY <1>2, <1>3, <1>4, <1>9 DEF KeptInv, InPlace
  <2>2. \A i \in DOMAIN worker'.batch : worker'.batch[i].receives > 0
    BY <1>2, <1>4, <1>8
  <2>3. 1 \in 1 .. n + 1
    BY <1>2
  <2> QED  BY <1>2, <2>1, <2>2, <2>3 DEF InPlace
<1>14. Kept'
  <2>1. \A i \in DOMAIN worker'.batch : ~Tried(i)'
    BY <1>2, <1>4 DEF Tried
  <2> QED  BY <1>5, <1>10, <2>1 DEF KeptInv, Kept
<1> QED  BY <1>12, <1>13, <1>14 DEF KeptInv

(* What comes back, if nothing but what succeeded stays away.               *)
LEMMA KeptBack ==
  ASSUME KeptInv, Typed', NEW P \in SUBSET (DOMAIN worker.batch), ComeBack(P),
         \A i \in DOMAIN worker.batch \ P : worker.batch[i].resource \in acted,
         worker' = Idle, UNCHANGED <<sent, acted>>
  PROVE  KeptInv'
<1>1. /\ queue' \in Seq(MessageType) /\ dead' \subseteq Resources /\ dead \subseteq dead'
      /\ \A k \in DOMAIN queue' :
           \/ \E i \in P : queue'[k] = worker.batch[i] /\ worker.batch[i].receives < MaxReceive
           \/ \E i \in DOMAIN queue : queue'[k] = queue[i]
      /\ \A i \in DOMAIN queue : \E k \in DOMAIN queue' : queue'[k] = queue[i]
      /\ \A i \in P : worker.batch[i].resource \in dead'
                        \/ \E k \in DOMAIN queue' : queue'[k] = worker.batch[i]
      /\ \A k, l \in DOMAIN queue' : queue'[k].resource = queue'[l].resource => k = l
  BY ComeBackFacts DEF KeptInv
<1>2. worker'.batch = <<>> /\ worker'.pc = "idle"
  BY IdleFields
<1>3. DOMAIN worker'.batch = {}
  BY <1>2
<1>4. \A x : /\ ~InBatch(x)'
             /\ InQueue(x)' => InQueue(x) \/ InBatch(x)
             /\ InQueue(x) => InQueue(x)'
             /\ InBatch(x) => InQueue(x)' \/ x \in acted \/ x \in dead'
  BY <1>1, <1>3 DEF InQueue, InBatch
<1>5. OneMessage'
  BY <1>1, <1>3, <1>4 DEF KeptInv, OneMessage
<1>6. InPlace'
  BY <1>1, <1>2, <1>3 DEF KeptInv, InPlace
<1>7. Kept'
  BY <1>1, <1>3, <1>4 DEF KeptInv, Kept
<1> QED  BY <1>5, <1>6, <1>7 DEF KeptInv

LEMMA KeptStep ==
  ASSUME KeptInv, [Next]_vars
  PROVE  KeptInv'
<1>1. CASE ApiStep \/ ApiFails
  <2>1. Typed'
    BY <1>1, ApiTyped DEF KeptInv
  <2>2. CASE Send
    BY <2>1, <2>2, KeptSend
  <2>3. CASE ~Send
    <3>1. UNCHANGED <<queue, worker, dead, sent, acted>>
      BY <1>1, <2>3 DEF ApiStep, CreateJob, Reject, SendFails, AllTaken, RecordFailures, ApiFails
    <3> QED  BY <2>1, <3>1, KeptAlone
  <2> QED  BY <2>2, <2>3
<1>2. CASE WorkerStep \/ WorkerDies
  <2>1. Typed'
    BY <1>2, WorkerTyped DEF KeptInv
  <2>2. CASE TakeBatch
    BY <2>1, <2>2, KeptTaken
  <2>3. CASE Act \/ Count \/ Check \/ WriteFinal
    BY <2>1, <2>3, KeptInBatch
  <2>4. CASE Return
    <3>1. Failed \in SUBSET (DOMAIN worker.batch) /\ ComeBack(Failed)
      BY <2>4 DEF Return, Failed
    <3>2. \A i \in DOMAIN worker.batch \ Failed : worker.batch[i].resource \in acted
      <4>1. \A i \in DOMAIN worker.batch : i < worker.at
        <5>1. worker.at > Len(worker.batch)
          BY <2>4 DEF Return
        <5> QED  BY <5>1, Sequences DEF KeptInv
      <4>2. \A i \in DOMAIN worker.batch : Tried(i)
        BY <4>1 DEF Tried
      <4> QED  BY <4>2 DEF KeptInv, Kept, Failed
    <3> QED  BY <2>1, <2>4, <3>1, <3>2, KeptBack DEF Return
  <2>5. CASE WorkerDies
    <3>1. ComeBack(DOMAIN worker.batch) /\ worker' = Idle /\ UNCHANGED <<sent, acted>>
      BY <2>5 DEF WorkerDies
    <3> QED  BY <2>1, <3>1, KeptBack
  <2> QED  BY <1>2, <2>2, <2>3, <2>4, <2>5 DEF WorkerStep
<1>3. CASE UNCHANGED vars
  <2>1. Typed'
    BY <1>3 DEF vars, KeptInv, Typed
  <2> QED  BY <1>3, <2>1, KeptAlone DEF vars
<1> QED  BY <1>1, <1>2, <1>3 DEF Next

LEMMA InitKept == Init => KeptInv
<1> SUFFICES ASSUME Init PROVE KeptInv
  OBVIOUS
<1>1. Typed
  BY InitTyped
<1>2. queue = <<>> /\ worker.batch = <<>> /\ worker.pc = "idle" /\ sent = {} /\ worker = Idle
  BY IdleFields DEF Init
<1>3. DOMAIN queue = {} /\ DOMAIN worker.batch = {}
  BY <1>2
<1> QED  BY <1>1, <1>2, <1>3 DEF KeptInv, OneMessage, InPlace, Kept, InQueue, InBatch

LEMMA KeptAlways == Spec => []KeptInv
<1>1. Init => KeptInv
  BY InitKept
<1>2. KeptInv /\ [Next]_vars => KeptInv'
  BY KeptStep
<1> QED  BY <1>1, <1>2, PTL DEF Spec

(* Conserved of BulkJob: until its action has succeeded, the message of a    *)
(* resource waits, is in hand or has been given up after all its receives,   *)
(* whichever parts of a batch fail, and wherever the worker dies.            *)
THEOREM ConservedAlways == Spec => []Conserved
<1>1. KeptInv => Conserved
  <2> SUFFICES ASSUME KeptInv, NEW r \in sent \ acted
               PROVE  r \in dead \cup {m.resource : m \in ToSet(queue) \cup ToSet(worker.batch)}
    BY DEF Conserved
  <2>1. r \in dead \/ InQueue(r) \/ InBatch(r)
    BY DEF KeptInv, Kept
  <2>2. CASE InQueue(r)
    <3>1. PICK i \in DOMAIN queue : queue[i].resource = r
      BY <2>2 DEF InQueue
    <3>2. queue[i] \in ToSet(queue)
      BY DEF ToSet
    <3> QED  BY <3>1, <3>2
  <2>3. CASE InBatch(r)
    <3>1. PICK i \in DOMAIN worker.batch : worker.batch[i].resource = r
      BY <2>3 DEF InBatch
    <3>2. worker.batch[i] \in ToSet(worker.batch)
      BY DEF ToSet
    <3> QED  BY <3>1, <3>2
  <2> QED  BY <2>1, <2>2, <2>3
<1> QED  BY <1>1, KeptAlways, PTL
-----------------------------------------------------------------------------
(* What is through changes only when an outcome is counted.                 *)
LEMMA ThroughAlone ==
  ASSUME UNCHANGED <<queue, worker, sent>>
  PROVE  Through' = Through
BY DEF Through, Waiting, InWork, IsCounted

LEMMA ThroughSend ==
  ASSUME KeptInv, Send
  PROVE  Through' = Through
<1>1. CASE request[api.at] \in sent
  <2>1. UNCHANGED <<queue, worker>> /\ sent' = sent
    BY <1>1 DEF Send
  <2> QED  BY <2>1, ThroughAlone
<1>2. CASE request[api.at] \notin sent
  <2>1. PICK r : r = request[api.at]
    OBVIOUS
  <2>2. /\ queue' = Append(queue, [resource |-> r, receives |-> 0]) /\ sent' = sent \cup {r}
        /\ worker' = worker /\ r \notin sent
    BY <1>2, <2>1 DEF Send
  <2>3. /\ \A i \in DOMAIN queue : i \in DOMAIN queue' /\ queue'[i] = queue[i]
        /\ \E i \in DOMAIN queue' : queue'[i].resource = r /\ queue'[i].receives = 0
        /\ \A i \in DOMAIN queue' : i \in DOMAIN queue \/ queue'[i].resource = r
    BY <2>2, Sequences DEF KeptInv, Typed
  <2>4. \A x \in sent : x \in Waiting' <=> x \in Waiting
    BY <2>2, <2>3 DEF Waiting
  <2>5. r \in Waiting'
    BY <2>2, <2>3 DEF Waiting
  <2>6. \A x \in sent : x \in InWork' <=> x \in InWork
    BY <2>2 DEF InWork, IsCounted
  <2> QED  BY <2>2, <2>4, <2>5, <2>6 DEF Through
<1> QED  BY <1>1, <1>2

(* A batch is in work from its first receive.                               *)
LEMMA ThroughTaken ==
  ASSUME KeptInv, TakeBatch, "again" \notin trouble'
  PROVE  Through' = Through
<1>1. PICK n \in 1 .. BatchSize : Receive(n)
  BY DEF TakeBatch
<1>2. /\ n \in Nat \ {0} /\ n <= Len(queue)
      /\ worker' \in WorkerType /\ worker'.pc = "act" /\ worker'.at = 1
      /\ Len(worker'.batch) = n
      /\ \A i \in 1 .. n : /\ worker'.batch[i].resource = queue[i].resource
                           /\ worker'.batch[i].receives = queue[i].receives + 1
      /\ queue' \in Seq(MessageType) /\ Len(queue') = Len(queue) - n
      /\ \A i \in 1 .. Len(queue) - n : queue'[i] = queue[i + n]
  BY <1>1, ReceiveFacts DEF KeptInv
<1>3. PICK m \in Nat : m = Len(queue)
  BY Sequences DEF KeptInv
<1>4. PICK b \in Seq(MessageType) : b = worker'.batch
  BY <1>2 DEF WorkerType
<1>5. PICK q \in Seq(MessageType) : q = queue'
  BY <1>2
<1>6. /\ DOMAIN queue = 1 .. m /\ DOMAIN queue' = 1 .. m - n /\ DOMAIN worker'.batch = 1 .. n
      /\ \A i \in 1 .. m : queue[i].receives \in Nat
  <2>1. DOMAIN worker'.batch = 1 .. n
    BY <1>2, <1>4
  <2>2. DOMAIN queue' = 1 .. m - n
    BY <1>2, <1>3, <1>5
  <2>3. DOMAIN queue = 1 .. m /\ \A i \in 1 .. m : queue[i] \in MessageType
    BY <1>3, Sequences DEF KeptInv
  <2> QED  BY <2>1, <2>2, <2>3 DEF MessageType
<1>7. /\ \A i \in 1 .. m : i \in 1 .. n \/ (i - n \in 1 .. m - n /\ (i - n) + n = i)
      /\ \A i \in 1 .. n : i \in 1 .. m
      /\ \A i \in 1 .. m - n : i + n \in 1 .. m
  BY <1>2, <1>3
<1>8. sent' = sent /\ worker.pc = "idle"
  BY <1>1 DEF Receive
<1>9. \A i \in 1 .. n : queue[i].receives = 0
  <2>1. PICK batch : batch = Received(SubSeq(queue, 1, n))
    OBVIOUS
  <2>2. worker'.batch = batch
    BY <1>1, <2>1 DEF Receive, Idle
  <2>3. ~\E i \in DOMAIN batch : batch[i].receives > 1
    <3>1. (\E i \in DOMAIN batch : batch[i].receives > 1) => "again" \in trouble'
      BY <1>1, <2>1 DEF Receive, Trouble
    <3> QED  BY <3>1
  <2>4. \A i \in 1 .. n : ~(queue[i].receives + 1 > 1)
    BY <1>2, <1>6, <2>2, <2>3
  <2> QED  BY <1>6, <1>7, <2>4
<1>10. InWork = {}
  <2>1. worker.batch = <<>>
    BY <1>8 DEF KeptInv, InPlace
  <2>2. DOMAIN worker.batch = {}
    BY <2>1
  <2> QED  BY <2>2 DEF InWork
<1>11. ASSUME NEW x \in sent PROVE x \in Waiting <=> x \in Waiting' \/ x \in InWork'
  <2>1. x \in Waiting <=> \E i \in 1 .. m : queue[i].resource = x /\ queue[i].receives = 0
    BY <1>6 DEF Waiting
  <2>2. x \in Waiting' <=> \E k \in 1 .. m - n : queue'[k].resource = x /\ queue'[k].receives = 0
    BY <1>6, <1>8 DEF Waiting
  <2>3. x \in InWork' <=> \E k \in 1 .. n : worker'.batch[k].resource = x
    <3>1. \A k \in 1 .. n : ~IsCounted(k)'
      BY <1>2 DEF IsCounted
    <3> QED  BY <1>6, <1>8, <3>1 DEF InWork
  <2>4. \A k \in 1 .. m - n : queue'[k] = queue[k + n]
    BY <1>2, <1>3
  <2>5. ASSUME x \in Waiting PROVE x \in Waiting' \/ x \in InWork'
    <3>1. PICK i \in 1 .. m : queue[i].resource = x /\ queue[i].receives = 0
      BY <2>1, <2>5
    <3>2. CASE i \in 1 .. n
      BY <1>2, <2>3, <3>1, <3>2
    <3>3. CASE i - n \in 1 .. m - n /\ (i - n) + n = i
      <4>1. queue'[i - n] = queue[i]
        BY <2>4, <3>3
      <4> QED  BY <2>2, <3>1, <3>3, <4>1
    <3> QED  BY <1>7, <3>2, <3>3
  <2>6. x \in Waiting' => x \in Waiting
    BY <1>7, <2>1, <2>2, <2>4
  <2>7. x \in InWork' => x \in Waiting
    BY <1>2, <1>7, <1>9, <2>1, <2>3
  <2> QED  BY <2>5, <2>6, <2>7
<1> QED  BY <1>8, <1>10, <1>11 DEF Through

LEMMA ThroughInBatch ==
  ASSUME KeptInv, Act \/ Check \/ WriteFinal
  PROVE  Through' = Through
<1>1. InBatchStep
  BY InBatchSteps DEF KeptInv
<1>2. /\ worker.at \in Nat
      /\ \A i \in DOMAIN worker.batch : i \in Nat
  BY Sequences DEF KeptInv
<1>3. \/ /\ worker.pc = "act" /\ worker'.pc = "count" /\ worker'.at = worker.at
      \/ /\ worker.pc \in {"check", "write"} /\ worker'.pc = "write" /\ worker'.at = worker.at
      \/ /\ worker.pc \in {"check", "write"} /\ worker'.pc = "act" /\ worker'.at = worker.at + 1
  BY InBatchSteps DEF KeptInv, Act, Check, WriteFinal
<1>4. \A i \in DOMAIN worker.batch : IsCounted(i)' <=> IsCounted(i)
  BY <1>2, <1>3 DEF IsCounted
<1> QED  BY <1>1, <1>4 DEF Through, Waiting, InWork, InBatchStep

LEMMA HandInWork ==
  ASSUME KeptInv, worker.at \in DOMAIN worker.batch, worker.pc \in {"act", "count"}
  PROVE  InHand \in sent /\ InHand \in InWork /\ InHand \notin Through
<1>1. InHand \in Resources /\ InBatch(InHand)
  BY HandFacts DEF KeptInv, InHand, InBatch
<1>2. InHand \in sent
  BY <1>1 DEF KeptInv, OneMessage
<1>3. ~IsCounted(worker.at)
  BY Sequences DEF KeptInv, IsCounted
<1>4. InHand \in InWork
  BY <1>2, <1>3 DEF InWork, InHand
<1> QED  BY <1>2, <1>4 DEF Through

LEMMA ThroughCounted ==
  ASSUME KeptInv, Count
  PROVE  /\ worker.at \in DOMAIN worker.batch /\ InHand \in sent /\ InHand \notin Through
         /\ Through' = Through \cup {InHand}
<1>1. worker.at \in DOMAIN worker.batch /\ worker.pc = "count"
  BY DEF KeptInv, InPlace, Count
<1>2. InHand \in sent /\ InHand \in InWork /\ InHand \notin Through
  BY <1>1, HandInWork
<1>3. InBatchStep /\ worker'.pc = "check" /\ worker'.at = worker.at
  BY InBatchSteps DEF KeptInv
<1>4. /\ worker.at \in Nat
      /\ \A i \in DOMAIN worker.batch : i \in Nat
  BY Sequences DEF KeptInv
<1>5. \A i \in DOMAIN worker.batch : IsCounted(i)' <=> IsCounted(i) \/ i = worker.at
  BY <1>1, <1>3, <1>4 DEF IsCounted
<1>6. \A i \in DOMAIN worker.batch : worker.batch[i].resource = InHand <=> i = worker.at
  BY <1>1 DEF KeptInv, OneMessage, InHand
<1>7. \A x \in sent : x \in InWork' <=> x \in InWork /\ x # InHand
  BY <1>1, <1>2, <1>3, <1>5, <1>6 DEF InWork, InBatchStep
<1>8. Waiting' = Waiting /\ sent' = sent
  BY <1>3 DEF Waiting, InBatchStep
<1>9. InHand \notin Waiting
  <2>1. InHand \in Resources /\ InBatch(InHand)
    BY <1>1, HandFacts DEF KeptInv, InHand, InBatch
  <2>2. ~InQueue(InHand)
    BY <2>1 DEF KeptInv, OneMessage
  <2> QED  BY <2>2 DEF Waiting, InQueue
<1> QED  BY <1>1, <1>2, <1>7, <1>8, <1>9 DEF Through

LEMMA ThroughBack ==
  ASSUME KeptInv, Return
  PROVE  Through' = Through
<1>1. Failed \in SUBSET (DOMAIN worker.batch) /\ ComeBack(Failed)
  BY DEF Return, Failed
<1>2. /\ \A k \in DOMAIN queue' :
           \/ \E i \in Failed : queue'[k] = worker.batch[i]
           \/ \E i \in DOMAIN queue : queue'[k] = queue[i]
      /\ \A i \in DOMAIN queue : \E k \in DOMAIN queue' : queue'[k] = queue[i]
  BY <1>1, ComeBackFacts DEF KeptInv
<1>3. worker' = Idle /\ sent' = sent /\ worker.at > Len(worker.batch)
  BY DEF Return
<1>4. InWork = {} /\ InWork' = {}
  <2>1. \A i \in DOMAIN worker.batch : IsCounted(i)
    <3>1. \A i \in DOMAIN worker.batch : i < worker.at
      BY <1>3, Sequences DEF KeptInv
    <3> QED  BY <3>1 DEF IsCounted
  <2>2. worker'.batch = <<>>
    BY <1>3, IdleFields
  <2>3. DOMAIN worker'.batch = {}
    BY <2>2
  <2> QED  BY <2>1, <2>3 DEF InWork
<1>5. \A i \in Failed : worker.batch[i].receives # 0
  <2>1. \A i \in DOMAIN worker.batch : worker.batch[i].receives > 0
    BY DEF KeptInv, InPlace
  <2> QED  BY <1>1, <2>1
<1>6. Waiting' = Waiting
  BY <1>2, <1>3, <1>5 DEF Waiting
<1> QED  BY <1>3, <1>4, <1>6 DEF Through
-----------------------------------------------------------------------------
(* What the API has done with the request, step by step.                    *)
LEMMA Numbers ==
  ASSUME Typed
  PROVE  /\ Len(request) \in Nat \ {0} /\ api.at \in Nat /\ api.at > 0
         /\ api.queued \in Nat /\ api.rejected \in Nat
         /\ job.total \in Nat /\ job.completed \in Nat /\ job.failed \in Nat
BY DEF Typed, ApiType, JobType

LEMMA Busy ==
  ASSUME KeptInv, Requested, worker.pc \in {"count", "check", "write"}
  PROVE  api.at > 1 /\ job.status # "none" /\ api.pc # "create"
<1>1. worker.at \in DOMAIN worker.batch
  BY DEF KeptInv, InPlace
<1>2. InHand \in Resources /\ InBatch(InHand)
  BY <1>1, HandFacts DEF KeptInv, InHand, InBatch
<1>3. InHand \in sent
  BY <1>2 DEF KeptInv, OneMessage
<1>4. IsFiniteSet(sent)
  BY DEF Requested
<1>5. Cardinality(sent) \in Nat /\ Cardinality(sent) # 0
  BY <1>3, <1>4, FS_CardinalityType, FS_EmptySet
<1>6. api.queued > 0
  BY <1>5, Numbers DEF KeptInv, Requested
<1>7. api.at > 1
  BY <1>6, Numbers DEF KeptInv, Requested
<1> QED  BY <1>7 DEF Requested

LEMMA RequestedApi ==
  ASSUME KeptInv, Requested, ApiStep \/ ApiFails
  PROVE  Requested'
<1>1. /\ Len(request) \in Nat \ {0} /\ api.at \in Nat /\ api.at > 0
      /\ api.queued \in Nat /\ api.rejected \in Nat /\ api \in ApiType /\ job \in JobType
  BY Numbers DEF KeptInv, Typed
<1>2. CASE CreateJob
  <2>1. /\ api'.pc = "each" /\ api'.at = api.at /\ api'.queued = api.queued
        /\ api'.rejected = api.rejected /\ UNCHANGED <<request, worker, sent>>
    BY <1>1, <1>2 DEF CreateJob, ApiType
  <2>2. job'.status = "pending" /\ job'.total = Len(request)
    BY <1>2 DEF CreateJob, WriteJob, NoJob
  <2>3. /\ job'.status # "none" /\ api'.pc # "create" /\ api'.pc # "record"
        /\ api'.at - 1 = api.at - 1
    BY <2>1, <2>2
  <2>4. api'.at = api'.queued + api'.rejected + 1 /\ api'.at <= Len(request') + 1
    BY <2>1 DEF Requested
  <2>5. IsFiniteSet(sent') /\ Cardinality(sent') <= api'.queued /\ sent' \subseteq ToSet(request')
    BY <2>1 DEF Requested
  <2>6. api'.rejected = 0 => \A i \in 1 .. api'.at - 1 : request'[i] \in sent'
    BY <2>1 DEF Requested
  <2>7. (worker'.pc = "write" => worker'.final # "none") /\ job'.total = Len(request')
    BY <2>1, <2>2 DEF Requested
  <2> QED  BY <2>2, <2>3, <2>4, <2>5, <2>6, <2>7 DEF Requested
<1>3. CASE Reject \/ SendFails
  <2>1. /\ api'.pc = "each" /\ api'.at = api.at + 1 /\ api'.queued = api.queued
        /\ api'.rejected = api.rejected + 1 /\ UNCHANGED <<request, job, worker, sent>>
        /\ api.pc = "each" /\ api.at <= Len(request)
    BY <1>1, <1>3 DEF Reject, SendFails, ApiType
  <2>2. api'.at = api'.queued + api'.rejected + 1 /\ api'.at <= Len(request') + 1
    BY <1>1, <2>1 DEF Requested
  <2>3. IsFiniteSet(sent') /\ Cardinality(sent') <= api'.queued /\ sent' \subseteq ToSet(request')
    BY <2>1 DEF Requested
  <2>4. api'.rejected # 0
    BY <1>1, <2>1
  <2>5. /\ (worker'.pc = "write" => worker'.final # "none")
        /\ job'.status # "none" /\ job'.total = Len(request')
    BY <2>1 DEF Requested
  <2> QED  BY <2>1, <2>2, <2>3, <2>4, <2>5 DEF Requested
<1>4. CASE Send
  <2>1. PICK r : r = request[api.at]
    OBVIOUS
  <2>2. /\ api'.pc = "each" /\ api'.at = api.at + 1 /\ api'.queued = api.queued + 1
        /\ api'.rejected = api.rejected /\ UNCHANGED <<request, job, worker>>
        /\ api.pc = "each" /\ api.at <= Len(request) /\ sent' = sent \cup {r}
    BY <1>1, <1>4, <2>1 DEF Send, ApiType
  <2>3. IsFiniteSet(sent)
    BY DEF Requested
  <2>4. Cardinality(sent) \in Nat
    BY <2>3, FS_CardinalityType
  <2>5. IsFiniteSet(sent \cup {r}) /\ Cardinality(sent \cup {r}) <= Cardinality(sent) + 1
    BY <2>3, <2>4, FS_AddElement
  <2>6. Cardinality(sent \cup {r}) \in Nat
    BY <2>5, FS_CardinalityType
  <2>7. Cardinality(sent) <= api.queued
    BY DEF Requested
  <2>8. IsFiniteSet(sent') /\ Cardinality(sent') <= api'.queued
    BY <1>1, <2>2, <2>4, <2>5, <2>6, <2>7
  <2>9. api.at \in DOMAIN request
    BY <1>1, <2>2 DEF KeptInv, Typed
  <2>10. sent' \subseteq ToSet(request)
    BY <2>1, <2>2, <2>9 DEF Requested, ToSet
  <2>11. api'.rejected = 0 => \A i \in 1 .. api'.at - 1 : request[i] \in sent'
    <3>1. \A i \in 1 .. api'.at - 1 : i \in 1 .. api.at - 1 \/ i = api.at
      BY <1>1, <2>2
    <3> QED  BY <2>1, <2>2, <3>1 DEF Requested
  <2> QED  BY <1>1, <2>2, <2>8, <2>10, <2>11 DEF Requested
<1>5. CASE AllTaken
  <2>1. /\ api'.pc \in {"record", "done"} /\ api'.at = api.at /\ api'.queued = api.queued
        /\ api'.rejected = api.rejected /\ UNCHANGED <<request, job, worker, sent>>
        /\ api.pc = "each" /\ api.at > Len(request)
        /\ api'.pc = "record" => api.rejected > 0
    BY <1>1, <1>5 DEF AllTaken, ApiType
  <2>2. api.at = Len(request) + 1
    BY <1>1, <2>1 DEF Requested
  <2> QED  BY <2>1, <2>2 DEF Requested
<1>6. CASE RecordFailures
  <2>1. /\ api'.pc = "done" /\ api'.at = api.at /\ api'.queued = api.queued
        /\ api'.rejected = api.rejected /\ UNCHANGED <<request, worker, sent>>
        /\ api.pc = "record"
    BY <1>1, <1>6 DEF RecordFailures, ApiType
  <2>2. job.status # "none" /\ job.total = Len(request)
    BY <2>1 DEF Requested
  <2>3. job'.status # "none" /\ job'.total = Len(request)
    BY <1>1, <1>6, <2>2 DEF RecordFailures, WriteJob, WithFailures, JobType
  <2> QED  BY <2>1, <2>3 DEF Requested
<1>7. CASE ApiFails
  <2>1. /\ api'.pc = "done" /\ api'.at = api.at /\ api'.queued = api.queued
        /\ api'.rejected = api.rejected /\ UNCHANGED <<request, job, worker, sent>>
    BY <1>1, <1>7 DEF ApiFails, ApiType
  <2> QED  BY <2>1 DEF Requested
<1> QED  BY <1>2, <1>3, <1>4, <1>5, <1>6, <1>7 DEF ApiStep

LEMMA Finals ==
  /\ \A item : FinalStatus(item) \in {"completed", "failed", "partial_failure"}
  /\ \A one \in JobType, other \in JobType :
       one.failed = other.failed /\ one.total = other.total =>
         FinalStatus(one) = FinalStatus(other)
BY DEF FinalStatus

LEMMA RequestedWorker ==
  ASSUME KeptInv, Requested, WorkerStep \/ WorkerDies
  PROVE  Requested'
<1>1. UNCHANGED <<request, api, sent>> /\ job \in JobType /\ worker \in WorkerType
  BY DEF WorkerStep, WorkerDies, TakeBatch, Receive, Act, Count, Check, WriteFinal, Return,
         KeptInv, Typed
<1>2. job'.total = job.total
  BY <1>1 DEF WorkerStep, WorkerDies, TakeBatch, Receive, Act, Count, Check, WriteFinal, Return,
              WriteJob, Counted, JobType
<1>3. \/ job' = job
      \/ /\ worker.pc \in {"count", "write"}
         /\ job'.status = job.status \/ (worker.pc = "write" /\ job'.status = worker.final)
  BY <1>1 DEF WorkerStep, WorkerDies, TakeBatch, Receive, Act, Count, Check, WriteFinal, Return,
              WriteJob, Counted, JobType
<1>4. job'.status # "none" <=> job.status # "none"
  BY <1>3, Busy DEF Requested
<1>5. api.pc = "create" => job' = job
  BY <1>3, Busy
<1>6. worker'.pc = "write" => worker'.final # "none"
  <2>1. CASE Check
    <3>1. PICK seen \in {job, before} :
            worker' = IF AllCounted(seen)
                      THEN [worker EXCEPT !.pc = "write", !.final = FinalStatus(seen)]
                      ELSE NextRecord
      BY <2>1 DEF Check
    <3>2. worker'.pc = "write" => worker'.final = FinalStatus(seen)
      BY <1>1, <3>1, NextRecordFields DEF WorkerType
    <3> QED  BY <3>2, Finals
  <2>2. CASE ~Check
    <3>1. worker'.pc # "write"
      BY <1>1, <2>2, NextRecordFields, IdleFields
         DEF WorkerStep, WorkerDies, TakeBatch, Receive, Act, Count, WriteFinal, Return,
             WorkerType
    <3> QED  BY <3>1
  <2> QED  BY <2>1, <2>2
<1> QED  BY <1>1, <1>2, <1>4, <1>5, <1>6 DEF Requested
-----------------------------------------------------------------------------
(* The counters are bounded by what the request has come to, and all of it   *)
(* has come in only when nothing waits and nothing is in work.               *)
LEMMA Counts ==
  ASSUME KeptInv, Requested
  PROVE  /\ IsFiniteSet(Through \cap acted) /\ IsFiniteSet(Through \ acted)
         /\ Cardinality(Through \cap acted) \in Nat /\ Cardinality(Through \ acted) \in Nat
         /\ Cardinality(Through \cap acted) + Cardinality(Through \ acted) <= api.queued
         /\ Cardinality(Through \cap acted) + Cardinality(Through \ acted) = api.queued =>
              Through = sent
<1>1. IsFiniteSet(sent) /\ Cardinality(sent) <= api.queued
  BY DEF Requested
<1>2. Through \in SUBSET sent
  BY DEF Through
<1>3. IsFiniteSet(Through)
  BY <1>1, <1>2, FS_Subset
<1>4. Cardinality(Through) <= Cardinality(sent)
  BY <1>1, <1>2, FS_Subset
<1>5. Cardinality(sent) = Cardinality(Through) => sent = Through
  BY <1>1, <1>2, FS_Subset
<1>6. /\ IsFiniteSet(Through \ acted)
      /\ Cardinality(Through \ acted) = Cardinality(Through) - Cardinality(Through \cap acted)
  BY <1>3, FS_Difference
<1>7. IsFiniteSet(Through \cap acted)
  BY <1>3, FS_Subset
<1>8. /\ Cardinality(Through) \in Nat /\ Cardinality(sent) \in Nat
      /\ Cardinality(Through \cap acted) \in Nat /\ Cardinality(Through \ acted) \in Nat
  BY <1>1, <1>3, <1>6, <1>7, FS_CardinalityType
<1>9. api.queued \in Nat
  BY Numbers DEF KeptInv
<1> QED  BY <1>1, <1>4, <1>5, <1>6, <1>7, <1>8, <1>9

LEMMA Bound ==
  ASSUME KeptInv, Requested, Exact
  PROVE  /\ job.completed + job.failed <= Len(request)
         /\ api.pc # "done" => job.completed + job.failed <= Len(request) - api.rejected
         /\ AllIn => /\ api.at = Len(request) + 1 /\ Through = sent
                     /\ job.failed = Cardinality(Through \ acted) + api.rejected
<1>1. PICK c \in Nat, f \in Nat : c = Cardinality(Through \cap acted) /\ f = Cardinality(Through \ acted)
  BY Counts
<1>2. c + f <= api.queued /\ (c + f = api.queued => Through = sent)
  BY <1>1, Counts
<1>3. /\ Len(request) \in Nat \ {0} /\ api.at \in Nat
      /\ api.queued \in Nat /\ api.rejected \in Nat
  BY Numbers DEF KeptInv
<1>4. api.at = api.queued + api.rejected + 1 /\ api.at <= Len(request) + 1
  BY DEF Requested
<1>5. job.completed = c /\ (job.failed = f \/ (job.failed = f + api.rejected /\ api.pc = "done"))
  BY <1>1 DEF Exact
<1>6. job.completed + job.failed <= Len(request)
  BY <1>2, <1>3, <1>4, <1>5
<1>7. api.pc # "done" => job.completed + job.failed <= Len(request) - api.rejected
  BY <1>2, <1>3, <1>4, <1>5
<1>8. ASSUME AllIn
      PROVE  /\ api.at = Len(request) + 1 /\ Through = sent
             /\ job.failed = f + api.rejected
  <2>1. c + job.failed = Len(request)
    BY <1>5, <1>8 DEF AllIn
  <2>2. PICK n \in Nat, q \in Nat, x \in Nat :
          n = Len(request) /\ q = api.queued /\ x = api.rejected
    BY <1>3
  <2>3. q + x <= n /\ api.at = q + x + 1 /\ c + f <= q
    BY <1>2, <1>3, <1>4, <2>2
  <2>4. CASE job.failed = f
    <3>1. c + f = n
      BY <2>1, <2>2, <2>4
    <3>2. x = 0 /\ c + f = q /\ q + x = n
      BY <2>3, <3>1
    <3> QED  BY <1>2, <2>2, <2>3, <2>4, <3>2
  <2>5. CASE job.failed = f + x
    <3>1. c + f + x = n
      BY <2>1, <2>2, <2>5
    <3>2. c + f = q /\ q + x = n
      BY <2>3, <3>1
    <3> QED  BY <1>2, <2>2, <2>3, <2>5, <3>2
  <2> QED  BY <1>5, <2>2, <2>4, <2>5
<1> QED  BY <1>1, <1>6, <1>7, <1>8

(* What the steps do while nothing disturbs the counting.  The API:         *)
LEMMA TruthAlone ==
  ASSUME Truth, UNCHANGED <<request, job, before, worker, acted>>, Through' = Through,
         api.pc = "done" => api'.pc = "done" /\ api'.rejected = api.rejected
  PROVE  Truth'
<1>1. TriedOnce'
  BY DEF Truth, TriedOnce, InHand, Tried
<1>2. Exact'
  BY DEF Truth, Exact
<1>3. ReadBefore'
  BY DEF Truth, ReadBefore
<1>4. Honest'
  BY DEF Truth, Honest, AllIn, Finished, FinalStatus
<1> QED  BY <1>1, <1>2, <1>3, <1>4 DEF Truth

LEMMA TruthApi ==
  ASSUME KeptInv, Requested, Truth, "update" \notin trouble', ApiStep \/ ApiFails
  PROVE  Truth'
<1>1. /\ Len(request) \in Nat \ {0} /\ api.at \in Nat /\ api.at > 0
      /\ api.queued \in Nat /\ api.rejected \in Nat /\ api \in ApiType /\ job \in JobType
      /\ job.completed \in Nat /\ job.failed \in Nat
  BY Numbers DEF KeptInv, Typed
<1>2. CASE Reject \/ Send \/ SendFails \/ AllTaken \/ ApiFails
  <2>1. UNCHANGED <<request, job, before, worker, acted>> /\ api.pc # "done"
    BY <1>2 DEF Reject, Send, SendFails, AllTaken, ApiFails
  <2>2. Through' = Through
    <3>1. CASE Send
      BY <3>1, ThroughSend
    <3>2. CASE ~Send
      BY <1>2, <3>2, ThroughAlone DEF Reject, SendFails, AllTaken, ApiFails
    <3> QED  BY <3>1, <3>2
  <2> QED  BY <2>1, <2>2, TruthAlone
<1>3. CASE CreateJob
  <2>1. /\ UNCHANGED <<request, queue, worker, sent, acted>> /\ api.pc = "create"
        /\ api'.pc = "each" /\ api'.rejected = api.rejected
    BY <1>1, <1>3 DEF CreateJob, ApiType
  <2>2. job = NoJob
    BY <2>1 DEF Requested
  <2>3. job'.completed = job.completed /\ job'.failed = job.failed /\ job'.status = "pending"
    BY <1>3, <2>2 DEF CreateJob, WriteJob, NoJob
  <2>4. worker.pc \notin {"count", "check", "write"}
    BY <2>1, Busy
  <2>5. Through' = Through
    BY <2>1, ThroughAlone
  <2>6. TriedOnce'
    BY <2>1, <2>5 DEF Truth, TriedOnce, InHand, Tried
  <2>7. Exact'
    BY <2>1, <2>3, <2>5 DEF Truth, Exact
  <2>8. ReadBefore' /\ Honest'
    BY <2>1, <2>3, <2>4 DEF ReadBefore, Honest, Finished
  <2> QED  BY <2>6, <2>7, <2>8 DEF Truth
<1>4. CASE RecordFailures
  <2>1. /\ UNCHANGED <<request, queue, worker, sent, acted>> /\ api.pc = "record"
        /\ api'.pc = "done" /\ api'.rejected = api.rejected /\ api'.queued = api.queued
    BY <1>1, <1>4 DEF RecordFailures, ApiType
  <2>2. job' = WithFailures /\ before' = job
    BY <1>4 DEF RecordFailures, Trouble, WriteJob
  <2>3. /\ job'.completed = job.completed /\ job'.failed = job.failed + api.rejected
        /\ job'.total = job.total
        /\ job'.status = IF api.queued = 0 THEN "failed" ELSE job.status
    BY <1>1, <2>2 DEF WithFailures, JobType
  <2>4. /\ api.rejected > 0 /\ api.at = Len(request) + 1 /\ job.status # "none"
        /\ job.total = Len(request) /\ api.at = api.queued + api.rejected + 1
    BY <2>1 DEF Requested
  <2>5. ~AllIn
    <3>1. job.completed + job.failed <= Len(request) - api.rejected
      BY <2>1, Bound DEF Truth
    <3> QED  BY <1>1, <2>4, <3>1 DEF AllIn
  <2>6. worker.pc # "write" /\ ~Finished
    BY <2>5 DEF Truth, Honest
  <2>7. Through' = Through
    BY <2>1, ThroughAlone
  <2>8. TriedOnce'
    BY <2>1, <2>7 DEF Truth, TriedOnce, InHand, Tried
  <2>9. Exact'
    <3>1. job.failed = Cardinality(Through \ acted)
      BY <2>1 DEF Truth, Exact
    <3> QED  BY <2>1, <2>3, <2>7, <3>1 DEF Truth, Exact
  <2>10. ReadBefore'
    BY <1>1, <2>1, <2>2, <2>3, <2>4 DEF ReadBefore
  <2>11. Honest'
    <3>1. CASE api.queued = 0
      <4>1. job.completed = 0 /\ job.failed = 0
        <5>1. /\ Cardinality(Through \cap acted) \in Nat /\ Cardinality(Through \ acted) \in Nat
              /\ Cardinality(Through \cap acted) + Cardinality(Through \ acted) <= 0
          BY <3>1, Counts
        <5> QED  BY <2>1, <5>1 DEF Truth, Exact
      <4>2. job'.failed = Len(request) /\ job'.completed = 0 /\ job'.status = "failed"
        BY <1>1, <2>3, <2>4, <3>1, <4>1
      <4>3. FinalStatus(job') = "failed"
        BY <2>3, <2>4, <4>2 DEF FinalStatus
      <4>4. AllIn'
        BY <1>1, <2>1, <2>3, <2>4, <4>2 DEF AllIn
      <4>5. FinalStatus(job)' = FinalStatus(job')
        BY DEF FinalStatus
      <4> QED  BY <2>1, <2>6, <4>2, <4>3, <4>4, <4>5 DEF Honest
    <3>2. CASE api.queued # 0
      BY <2>1, <2>3, <2>6, <3>2 DEF Honest, Finished
    <3> QED  BY <3>1, <3>2
  <2> QED  BY <2>8, <2>9, <2>10, <2>11 DEF Truth
<1> QED  BY <1>2, <1>3, <1>4 DEF ApiStep

(* The worker, whose steps read the counters and add to them.               *)
LEMMA TruthTaken ==
  ASSUME KeptInv, Requested, Truth, TakeBatch, "again" \notin trouble'
  PROVE  Truth'
<1>1. PICK n \in 1 .. BatchSize : Receive(n)
  BY DEF TakeBatch
<1>2. worker'.pc = "act" /\ worker'.at = 1 /\ worker'.failures = {}
  BY <1>1, ReceiveFacts DEF KeptInv
<1>3. UNCHANGED <<request, api, job, before, acted>> /\ worker.pc = "idle"
  BY <1>1 DEF Receive
<1>4. Through' = Through
  BY ThroughTaken
<1>5. TriedOnce'
  BY <1>2, <1>3, <1>4 DEF Truth, TriedOnce
<1>6. Exact'
  BY <1>3, <1>4 DEF Truth, Exact
<1>7. ReadBefore' /\ Honest'
  BY <1>2, <1>3 DEF Truth, ReadBefore, Honest, Finished, AllIn, FinalStatus
<1> QED  BY <1>5, <1>6, <1>7 DEF Truth

LEMMA TruthAct ==
  ASSUME KeptInv, Requested, Truth, Act
  PROVE  Truth'
<1>1. /\ InBatchStep /\ worker'.pc = "count" /\ worker'.at = worker.at
      /\ worker.at \in DOMAIN worker.batch /\ UNCHANGED <<job, before>>
      /\ \/ acted' = acted \cup {InHand} /\ worker'.failures = worker.failures
         \/ acted' = acted /\ worker'.failures = worker.failures \cup {InHand}
  BY InBatchSteps DEF KeptInv
<1>2. worker.pc = "act" /\ UNCHANGED <<request, api>>
  BY DEF Act
<1>3. Through' = Through
  BY ThroughInBatch
<1>4. InHand \notin Through
  BY <1>1, <1>2, HandInWork
<1>5. InHand' = InHand
  BY <1>1 DEF InHand, InBatchStep
<1>6. worker.at \in Nat /\ \A i \in DOMAIN worker.batch : i \in Nat
  BY Sequences DEF KeptInv
<1>7. InHand \notin worker.failures
  <2>1. ~Tried(worker.at)
    BY <1>2, <1>6 DEF Tried
  <2> QED  BY <1>1, <2>1 DEF Truth, TriedOnce, InHand
<1>8. InHand \notin acted
  BY <1>2, <1>4 DEF Truth, TriedOnce
<1>9. TriedOnce'
  <2>1. \A r \in acted' : r \in Through' \/ r = InHand'
    BY <1>1, <1>2, <1>3, <1>5 DEF Truth, TriedOnce
  <2>2. InHand' \in worker'.failures <=> InHand' \notin acted'
    BY <1>1, <1>5, <1>7, <1>8
  <2>3. ASSUME NEW i \in DOMAIN worker'.batch, worker'.batch[i].resource \in worker'.failures
        PROVE  Tried(i)'
    <3>1. i \in DOMAIN worker.batch /\ worker.batch[i].resource = worker'.batch[i].resource
      BY <1>1, <2>3 DEF InBatchStep
    <3>2. CASE worker.batch[i].resource \in worker.failures
      <4>1. Tried(i)
        BY <3>1, <3>2 DEF Truth, TriedOnce
      <4> QED  BY <1>1, <1>2, <4>1 DEF Tried
    <3>3. CASE worker.batch[i].resource = InHand
      <4>1. i = worker.at
        BY <1>1, <3>1, <3>3 DEF KeptInv, OneMessage, InHand
      <4> QED  BY <1>1, <4>1 DEF Tried
    <3> QED  BY <1>1, <2>3, <3>1, <3>2, <3>3
  <2> QED  BY <1>1, <2>1, <2>2, <2>3 DEF TriedOnce
<1>10. Exact'
  <2>1. Through' \cap acted' = Through \cap acted /\ Through' \ acted' = Through \ acted
    BY <1>1, <1>3, <1>4
  <2> QED  BY <1>1, <1>2, <2>1 DEF Truth, Exact
<1>11. ReadBefore' /\ Honest'
  BY <1>1, <1>2 DEF Truth, ReadBefore, Honest, Finished, AllIn, FinalStatus
<1> QED  BY <1>9, <1>10, <1>11 DEF Truth

LEMMA TruthCount ==
  ASSUME KeptInv, Requested, Truth, Count, "update" \notin trouble'
  PROVE  Truth'
<1>1. /\ InBatchStep /\ worker'.pc = "check" /\ worker'.at = worker.at
      /\ worker'.failures = worker.failures /\ acted' = acted
  BY InBatchSteps DEF KeptInv
<1>2. worker.pc = "count" /\ UNCHANGED <<request, api>> /\ job' = Counted /\ before' = job
  BY DEF Count, Trouble, WriteJob
<1>3. /\ worker.at \in DOMAIN worker.batch /\ InHand \in sent /\ InHand \notin Through
      /\ Through' = Through \cup {InHand}
  BY ThroughCounted
<1>4. job.total = Len(request) /\ job.status # "none"
  BY <1>2, Busy DEF Requested
<1>5. /\ job \in JobType /\ job.completed \in Nat /\ job.failed \in Nat /\ api.rejected \in Nat
  BY Numbers DEF KeptInv, Typed
<1>6. /\ job'.status = job.status /\ job'.total = job.total
      /\ InHand \in worker.failures => job'.failed = job.failed + 1 /\ job'.completed = job.completed
      /\ InHand \notin worker.failures => job'.completed = job.completed + 1 /\ job'.failed = job.failed
  BY <1>2, <1>5 DEF Counted, JobType
<1>7. InHand \in worker.failures <=> InHand \notin acted
  BY <1>2 DEF Truth, TriedOnce
<1>8. ~AllIn
  BY <1>3, Bound DEF Truth
<1>9. TriedOnce'
  <2>1. \A r \in acted' : r \in Through'
    BY <1>1, <1>2, <1>3 DEF Truth, TriedOnce
  <2>2. \A i \in DOMAIN worker'.batch : worker'.batch[i].resource \in worker'.failures => Tried(i)'
    BY <1>1, <1>2 DEF Truth, TriedOnce, Tried, InBatchStep
  <2> QED  BY <1>1, <2>1, <2>2 DEF TriedOnce
<1>10. Exact'
  <2>1. PICK good, bad : good = Through \cap acted /\ bad = Through \ acted
    OBVIOUS
  <2>2. IsFiniteSet(good) /\ IsFiniteSet(bad) /\ Cardinality(good) \in Nat /\ Cardinality(bad) \in Nat
    BY <2>1, Counts
  <2>3. InHand \notin good /\ InHand \notin bad
    BY <1>3, <2>1
  <2>4. /\ job.completed = Cardinality(good)
        /\ \/ job.failed = Cardinality(bad)
           \/ job.failed = Cardinality(bad) + api.rejected /\ api.pc = "done"
    BY <2>1 DEF Truth, Exact
  <2>5. CASE InHand \in acted
    <3>1. Through' \cap acted' = good \cup {InHand} /\ Through' \ acted' = bad
      BY <1>1, <1>3, <2>1, <2>5
    <3>2. Cardinality(good \cup {InHand}) = Cardinality(good) + 1
      BY <2>2, <2>3, FS_AddElement
    <3>3. job'.completed = job.completed + 1 /\ job'.failed = job.failed
      BY <1>6, <1>7, <2>5
    <3> QED  BY <1>2, <2>4, <3>1, <3>2, <3>3 DEF Exact
  <2>6. CASE InHand \notin acted
    <3>1. Through' \cap acted' = good /\ Through' \ acted' = bad \cup {InHand}
      BY <1>1, <1>3, <2>1, <2>6
    <3>2. Cardinality(bad \cup {InHand}) = Cardinality(bad) + 1
      BY <2>2, <2>3, FS_AddElement
    <3>3. job'.completed = job.completed /\ job'.failed = job.failed + 1
      BY <1>6, <1>7, <2>6
    <3>4. \/ job'.failed = Cardinality(bad) + 1
          \/ job'.failed = Cardinality(bad) + 1 + api.rejected /\ api.pc = "done"
      BY <1>5, <2>2, <2>4, <3>3
    <3> QED  BY <1>2, <2>4, <3>1, <3>2, <3>3, <3>4 DEF Exact
  <2> QED  BY <2>5, <2>6
<1>11. ReadBefore'
  BY <1>2, <1>4, <1>5, <1>6 DEF ReadBefore
<1>12. Honest'
  <2>1. ~Finished
    BY <1>8 DEF Truth, Honest
  <2> QED  BY <1>1, <1>6, <2>1 DEF Honest, Finished
<1> QED  BY <1>9, <1>10, <1>11, <1>12 DEF Truth

LEMMA TriedAfterCheck ==
  ASSUME KeptInv, Truth, Check \/ WriteFinal
  PROVE  TriedOnce' /\ Through' = Through /\ worker'.pc \in {"act", "write"}
<1>1. /\ InBatchStep /\ worker'.failures = worker.failures /\ acted' = acted
      /\ worker.pc \in {"check", "write"}
      /\ \/ worker'.pc = "write" /\ worker'.at = worker.at
         \/ worker'.pc = "act" /\ worker'.at = worker.at + 1
  BY InBatchSteps DEF KeptInv, Check, WriteFinal
<1>2. Through' = Through
  BY ThroughInBatch
<1>3. worker.at \in Nat /\ \A i \in DOMAIN worker.batch : i \in Nat
  BY Sequences DEF KeptInv
<1>4. \A i \in DOMAIN worker.batch : Tried(i) => Tried(i)'
  BY <1>1, <1>3 DEF Tried
<1> QED  BY <1>1, <1>2, <1>4 DEF Truth, TriedOnce, InBatchStep

LEMMA TruthCheck ==
  ASSUME KeptInv, Requested, Truth, Check
  PROVE  Truth'
<1>1. /\ TriedOnce' /\ Through' = Through /\ UNCHANGED <<request, api, job, before, acted>>
      /\ worker.pc = "check"
  BY TriedAfterCheck DEF Check
<1>2. Exact'
  BY <1>1 DEF Truth, Exact
<1>3. ReadBefore'
  BY <1>1 DEF Truth, ReadBefore
<1>4. PICK seen \in {job, before} :
        worker' = IF AllCounted(seen)
                  THEN [worker EXCEPT !.pc = "write", !.final = FinalStatus(seen)]
                  ELSE NextRecord
  BY DEF Check
<1>5. /\ job \in JobType /\ before \in JobType /\ worker \in WorkerType
      /\ Len(request) \in Nat
  BY DEF KeptInv, Typed
<1>6. seen.total = Len(request) /\ job.total = Len(request)
  BY <1>1, Busy DEF Requested, Truth, ReadBefore
<1>7. /\ seen.completed \in Nat /\ seen.failed \in Nat /\ job.completed \in Nat /\ job.failed \in Nat
      /\ seen.completed <= job.completed /\ seen.failed <= job.failed
  BY <1>1, <1>5 DEF JobType, Truth, ReadBefore
<1>8. ASSUME worker'.pc = "write" PROVE AllIn' /\ worker'.final = FinalStatus(job')
  <2>1. AllCounted(seen) /\ worker'.final = FinalStatus(seen)
    BY <1>4, <1>5, <1>8, NextRecordFields DEF WorkerType
  <2>2. seen.completed + seen.failed >= Len(request)
    BY <1>6, <2>1 DEF AllCounted
  <2>3. job.completed + job.failed <= Len(request)
    BY Bound DEF Truth
  <2>4. job.completed + job.failed = Len(request) /\ seen.failed = job.failed
    BY <1>5, <1>7, <2>2, <2>3
  <2>5. FinalStatus(seen) = FinalStatus(job)
    BY <1>5, <1>6, <2>4, Finals
  <2> QED  BY <1>1, <1>6, <2>1, <2>4, <2>5 DEF AllIn
<1>9. Finished' => AllIn' /\ job'.status = FinalStatus(job')
  BY <1>1 DEF Truth, Honest, Finished, AllIn
<1>10. Honest'
  BY <1>8, <1>9 DEF Honest, FinalStatus
<1> QED  BY <1>1, <1>2, <1>3, <1>10 DEF Truth

LEMMA TruthWrite ==
  ASSUME KeptInv, Requested, Truth, WriteFinal, "update" \notin trouble'
  PROVE  Truth'
<1>1. /\ TriedOnce' /\ Through' = Through /\ UNCHANGED <<request, api, acted>>
      /\ worker.pc = "write"
  BY TriedAfterCheck DEF WriteFinal
<1>2. worker'.pc = "act"
  BY InBatchSteps DEF KeptInv
<1>3. job' = [job EXCEPT !.status = worker.final] /\ job \in JobType
  BY DEF WriteFinal, Trouble, WriteJob, KeptInv, Typed
<1>4. /\ job'.completed = job.completed /\ job'.failed = job.failed /\ job'.total = job.total
      /\ job'.status = worker.final /\ job' \in JobType
  <2>1. worker.final \in Statuses
    BY DEF KeptInv, Typed, WorkerType
  <2> QED  BY <1>3, <2>1 DEF JobType
<1>5. Exact'
  BY <1>1, <1>4 DEF Truth, Exact
<1>6. ReadBefore'
  BY <1>2 DEF ReadBefore
<1>7. AllIn /\ worker.final = FinalStatus(job)
  BY <1>1 DEF Truth, Honest
<1>8. AllIn'
  BY <1>1, <1>4, <1>7 DEF AllIn
<1>9. job'.status = FinalStatus(job')
  <2>1. FinalStatus(job) = FinalStatus(job')
    BY <1>3, <1>4, Finals
  <2> QED  BY <1>4, <1>7, <2>1
<1>10. FinalStatus(job)' = FinalStatus(job')
  BY DEF FinalStatus
<1>11. Honest'
  BY <1>2, <1>8, <1>9, <1>10 DEF Honest
<1> QED  BY <1>1, <1>5, <1>6, <1>11 DEF Truth

LEMMA TruthReturn ==
  ASSUME KeptInv, Requested, Truth, Return
  PROVE  Truth'
<1>1. UNCHANGED <<request, api, job, before, acted>> /\ worker' = Idle /\ worker.pc = "act"
  BY DEF Return
<1>2. Through' = Through
  BY ThroughBack
<1>3. worker'.pc = "idle" /\ worker'.failures = {}
  BY <1>1, IdleFields
<1>4. TriedOnce'
  BY <1>1, <1>2, <1>3 DEF Truth, TriedOnce
<1>5. Exact'
  BY <1>1, <1>2 DEF Truth, Exact
<1>6. ReadBefore' /\ Honest'
  BY <1>1, <1>3 DEF Truth, ReadBefore, Honest, Finished, AllIn, FinalStatus
<1> QED  BY <1>4, <1>5, <1>6 DEF Truth

LEMMA TroublesStay ==
  ASSUME [Next]_vars
  PROVE  trouble \subseteq trouble'
BY DEF Next, ApiStep, ApiFails, WorkerStep, WorkerDies, TakeBatch, Receive, Act, Count, Check,
       WriteFinal, Return, CreateJob, Reject, Send, SendFails, AllTaken, RecordFailures, Trouble, vars

LEMMA TruthStep ==
  ASSUME TruthInv, [Next]_vars
  PROVE  TruthInv'
<1>1. KeptInv'
  BY KeptStep DEF TruthInv
<1>2. KeptInv /\ Requested
  BY DEF TruthInv
<1>3. Requested'
  <2>1. CASE UNCHANGED vars
    BY <1>2, <2>1 DEF Requested, vars
  <2> QED  BY <1>2, <2>1, RequestedApi, RequestedWorker DEF Next
<1>4. ASSUME Undisturbed' PROVE Truth'
  <2>1. /\ "again" \notin trouble' /\ "update" \notin trouble' /\ "worker" \notin trouble'
    BY <1>4 DEF Undisturbed
  <2>2. Truth
    BY <2>1, TroublesStay DEF TruthInv, Undisturbed
  <2>3. CASE ApiStep \/ ApiFails
    BY <1>2, <2>1, <2>2, <2>3, TruthApi
  <2>4. CASE WorkerStep
    BY <1>2, <2>1, <2>2, <2>4, TruthTaken, TruthAct, TruthCount, TruthCheck, TruthWrite,
       TruthReturn DEF WorkerStep
  <2>5. CASE WorkerDies
    BY <2>1, <2>5 DEF WorkerDies, Trouble
  <2>6. CASE UNCHANGED vars
    <3>1. UNCHANGED <<request, job, before, worker, acted, queue, sent, api>>
      BY <2>6 DEF vars
    <3>2. Through' = Through
      BY <3>1, ThroughAlone
    <3> QED  BY <2>2, <3>1, <3>2, TruthAlone
  <2> QED  BY <2>3, <2>4, <2>5, <2>6 DEF Next
<1> QED  BY <1>1, <1>3, <1>4 DEF TruthInv

LEMMA InitTruth == Init => TruthInv
<1> SUFFICES ASSUME Init PROVE TruthInv
  OBVIOUS
<1>1. KeptInv
  BY InitKept
<1>2. /\ api.pc = "create" /\ api.at = 1 /\ api.queued = 0 /\ api.rejected = 0
      /\ job = NoJob /\ job.status = "none" /\ job.completed = 0 /\ job.failed = 0
      /\ sent = {} /\ acted = {} /\ worker.pc = "idle" /\ worker.failures = {}
  BY IdleFields DEF Init, NoJob
<1>3. Len(request) \in Nat
  BY <1>1 DEF KeptInv, Typed
<1>4. IsFiniteSet(sent) /\ Cardinality(sent) = 0
  BY <1>2, FS_EmptySet
<1>5. Requested
  BY <1>2, <1>3, <1>4 DEF Requested
<1>6. Through = {}
  BY <1>2 DEF Through
<1>7. Exact
  <2>1. Cardinality(Through \cap acted) = 0 /\ Cardinality(Through \ acted) = 0
    BY <1>6, FS_EmptySet
  <2> QED  BY <1>2, <2>1 DEF Exact
<1>8. TriedOnce /\ ReadBefore /\ Honest
  BY <1>2 DEF TriedOnce, ReadBefore, Honest, Finished
<1> QED  BY <1>1, <1>5, <1>7, <1>8 DEF TruthInv, Truth

(* Truthful of BulkJob: while every message is received once and every       *)
(* count arrives, a final status is the truth, though the API adds its       *)
(* failures last and a read may miss the last count.                         *)
THEOREM TruthfulAlways == Spec => []Truthful
<1>1. TruthInv => Truthful
  <2> SUFFICES ASSUME TruthInv, Finished, trouble \cap {"again", "update", "worker"} = {}
               PROVE  /\ api.at > Len(request)
                      /\ \A m \in ToSet(queue) : m.receives > 0
                      /\ job.status = "completed" <=>
                           api.rejected = 0 /\ ToSet(request) \subseteq acted
                      /\ job.status = "failed" <=> acted = {}
    BY DEF Truthful
  <2>1. KeptInv /\ Requested /\ Truth
    BY DEF TruthInv, Undisturbed
  <2>2. AllIn /\ job.status = FinalStatus(job)
    BY <2>1 DEF Truth, Honest
  <2>3. /\ api.at = Len(request) + 1 /\ Through = sent
        /\ job.failed = Cardinality(Through \ acted) + api.rejected
    BY <2>1, <2>2, Bound DEF Truth
  <2>4. /\ Len(request) \in Nat \ {0} /\ api.rejected \in Nat /\ job.completed \in Nat
        /\ job.failed \in Nat
    BY <2>1, Numbers DEF KeptInv
  <2>5. PICK c \in Nat, f \in Nat : c = Cardinality(sent \cap acted) /\ f = Cardinality(sent \ acted)
    BY <2>1, <2>3, Counts
  <2>6. /\ job.completed = c /\ job.failed = f + api.rejected
        /\ job.completed + job.failed = Len(request) /\ job.total = Len(request)
    BY <2>1, <2>2, <2>3, <2>5 DEF Truth, Exact, AllIn
  <2>7. acted \subseteq sent
    <3>1. ASSUME worker.pc = "count", InHand \in acted PROVE InHand \in sent
      <4>1. worker.at \in DOMAIN worker.batch
        BY <2>1, <3>1 DEF KeptInv, InPlace
      <4> QED  BY <2>1, <3>1, <4>1, HandInWork
    <3> QED  BY <2>1, <2>3, <3>1 DEF Truth, TriedOnce
  <2>8. (c = 0 <=> acted = {}) /\ (f = 0 <=> sent \subseteq acted)
    <3>1. IsFiniteSet(sent \cap acted) /\ IsFiniteSet(sent \ acted)
      BY <2>1, <2>3, Counts
    <3>2. (c = 0 <=> sent \cap acted = {}) /\ (f = 0 <=> sent \ acted = {})
      BY <2>5, <3>1, FS_EmptySet
    <3> QED  BY <2>7, <3>2
  <2>9. \A m \in ToSet(queue) : m.receives > 0
    <3> SUFFICES ASSUME NEW i \in DOMAIN queue PROVE queue[i].receives > 0
      BY DEF ToSet
    <3>1. queue[i].receives \in Nat /\ queue[i].resource \in Resources
      BY <2>1, Sequences DEF KeptInv, MessageType
    <3>2. queue[i].resource \in sent
      BY <2>1, <3>1 DEF KeptInv, OneMessage, InQueue
    <3>3. queue[i].resource \notin Waiting
      BY <2>3, <3>2 DEF Through
    <3>4. queue[i].receives # 0
      BY <3>2, <3>3 DEF Waiting
    <3> QED  BY <3>1, <3>4
  <2>10. job.status = "failed" <=> acted = {}
    <3>1. job.status = "failed" <=> job.failed = job.total
      BY <2>2 DEF FinalStatus
    <3>2. job.failed = job.total <=> c = 0
      BY <2>4, <2>6
    <3> QED  BY <2>8, <3>1, <3>2
  <2>11. job.status = "completed" <=> api.rejected = 0 /\ ToSet(request) \subseteq acted
    <3>1. job.status = "completed" <=> job.failed = 0
      BY <2>2, <2>4, <2>6 DEF FinalStatus
    <3>2. job.failed = 0 <=> api.rejected = 0 /\ f = 0
      BY <2>4, <2>6
    <3>3. api.rejected = 0 => ToSet(request) = sent
      <4> SUFFICES ASSUME api.rejected = 0 PROVE ToSet(request) = sent
        OBVIOUS
      <4>1. \A i \in 1 .. Len(request) : request[i] \in sent
        BY <2>1, <2>3, <2>4 DEF Requested
      <4>2. DOMAIN request = 1 .. Len(request)
        BY <2>1 DEF KeptInv, Typed
      <4>3. ToSet(request) \subseteq sent
        BY <4>1, <4>2 DEF ToSet
      <4> QED  BY <2>1, <4>3 DEF Requested
    <3> QED  BY <2>8, <3>1, <3>2, <3>3
  <2> QED  BY <2>3, <2>4, <2>9, <2>10, <2>11
<1>2. TruthInv /\ [Next]_vars => TruthInv'
  BY TruthStep
<1> QED  BY <1>1, <1>2, InitTruth, PTL DEF Spec
=============================================================================
