-------------------------------- MODULE BulkJob --------------------------------
(***************************************************************************)
(* One bulk job: the request handler that creates the job item, tags the    *)
(* resources and sends one message for each (api_handler/routes/bulk.py,    *)
(* bulk_monitoring), the FIFO queue whose message group is the job, and the *)
(* worker that acts on the messages, counts outcomes in the job item and    *)
(* finishes it (sqs_worker/lambda_handler.py).                              *)
(*                                                                          *)
(* The queue hands out a batch of one group at a time, so one worker runs;  *)
(* what a batch did not delete comes back to the head of the group, and     *)
(* after MaxReceive receives goes to the dead-letter queue.                 *)
(***************************************************************************)
EXTENDS Integers, SequencesExt

CONSTANTS
  Resources,
  Requests,         \* the lists of resource_ids that may be asked for
  BatchSize,        \* BatchSize of the event source mapping
  MaxReceive,       \* maxReceiveCount
  TroubleKinds      \* what may go wrong in the behaviours looked at

AllTroubles == {"again", "update", "stale", "api", "worker"}

ASSUME JobAssumption ==
  /\ Requests \subseteq Seq(Resources) \ {<<>>}
  /\ BatchSize \in Nat \ {0} /\ MaxReceive \in Nat \ {0}
  /\ TroubleKinds \subseteq AllTroubles

VARIABLES
  request,          \* resource_ids, as they were asked for
  api,              \* the progress of bulk_monitoring()
  job,              \* the item of the job status table
  before,           \* the item without its last write, for a read that misses it
  queue,            \* messages of the group, in order
  worker,           \* the batch in hand and the progress on it
  dead,             \* resources whose message is in the dead-letter queue
  sent,             \* resources whose deduplication id the queue has seen
  acted,            \* resources whose action succeeded
  trouble           \* (auxiliary) what has gone wrong so far

vars == <<request, api, job, before, queue, worker, dead, sent, acted, trouble>>

Statuses == {"none", "pending", "completed", "failed", "partial_failure"}

JobType == [status : Statuses, total : Nat, completed : Nat, failed : Nat]

NoJob == [status |-> "none", total |-> 0, completed |-> 0, failed |-> 0]

MessageType == [resource : Resources, receives : 0 .. MaxReceive]

ApiType ==
  [pc : {"create", "each", "record", "done"}, at : Nat, rejected : Nat, queued : Nat,
   errors : Nat]

WorkerType ==
  [pc : {"idle", "act", "count", "check", "write"}, batch : Seq(MessageType), at : Nat,
   failures : SUBSET Resources, final : Statuses]

Idle == [pc |-> "idle", batch |-> <<>>, at |-> 0, failures |-> {}, final |-> "none"]

Init ==
  /\ request \in Requests
  /\ api = [pc |-> "create", at |-> 1, rejected |-> 0, queued |-> 0, errors |-> 0]
  /\ job = NoJob /\ before = NoJob
  /\ queue = <<>>
  /\ worker = Idle
  /\ dead = {} /\ sent = {} /\ acted = {}
  /\ trouble = {}

Trouble(kind) == kind \in TroubleKinds /\ trouble' = trouble \cup {kind}

WriteJob(changed) == job' = changed /\ before' = job

-----------------------------------------------------------------------------
(* bulk_monitoring()                                                        *)

CreateJob ==
  /\ api.pc = "create"
  /\ WriteJob([NoJob EXCEPT !.status = "pending", !.total = Len(request)])
  /\ api' = [api EXCEPT !.pc = "each"]
  /\ UNCHANGED <<request, queue, worker, dead, sent, acted, trouble>>

(* Not in the inventory as this type, or its tag cannot be written.         *)
Reject ==
  /\ api.pc = "each" /\ api.at <= Len(request)
  /\ api' = [api EXCEPT !.at = @ + 1, !.rejected = @ + 1]
  /\ UNCHANGED <<request, job, before, queue, worker, dead, sent, acted, trouble>>

(* The deduplication id is of job and resource: a resource asked for twice  *)
(* has one message.                                                         *)
Send ==
  LET r == request[api.at]
  IN  /\ api.pc = "each" /\ api.at <= Len(request)
      /\ api' = [api EXCEPT !.at = @ + 1, !.queued = @ + 1]
      /\ queue' = IF r \in sent THEN queue
                  ELSE Append(queue, [resource |-> r, receives |-> 0])
      /\ sent' = sent \cup {r}
      /\ UNCHANGED <<request, job, before, worker, dead, acted, trouble>>

SendFails ==
  /\ api.pc = "each" /\ api.at <= Len(request)
  /\ api' = [api EXCEPT !.at = @ + 1, !.rejected = @ + 1, !.errors = @ + 1]
  /\ UNCHANGED <<request, job, before, queue, worker, dead, sent, acted, trouble>>

(* If no message could be sent at all the request is answered with an error *)
(* and the job left as it is.                                               *)
AllTaken ==
  /\ api.pc = "each" /\ api.at > Len(request)
  /\ api' = [api EXCEPT !.pc =
       IF api.rejected > 0 /\ api.errors < Len(request) THEN "record" ELSE "done"]
  /\ UNCHANGED <<request, job, before, queue, worker, dead, sent, acted, trouble>>

(* Mutant of WithFailures: the job ends with the request.                   *)
FailsAtOnce == [job EXCEPT !.failed = @ + api.rejected, !.status = "failed"]

WithFailures ==
  [job EXCEPT !.failed = @ + api.rejected, !.status = IF api.queued = 0 THEN "failed" ELSE @]

(* _record_failures(); that it cannot write is only logged.                 *)
RecordFailures ==
  /\ api.pc = "record"
  /\ \/ WriteJob(WithFailures) /\ UNCHANGED trouble
     \/ Trouble("update") /\ UNCHANGED <<job, before>>
  /\ api' = [api EXCEPT !.pc = "done"]
  /\ UNCHANGED <<request, queue, worker, dead, sent, acted>>

(* The job item cannot be written, or the invocation dies.                  *)
ApiFails ==
  /\ api.pc # "done"
  /\ Trouble("api")
  /\ api' = [api EXCEPT !.pc = "done"]
  /\ UNCHANGED <<request, job, before, queue, worker, dead, sent, acted>>

-----------------------------------------------------------------------------
(* The queue and the worker's lambda_handler().                             *)

Received(messages) == [i \in DOMAIN messages |-> [messages[i] EXCEPT !.receives = @ + 1]]

Receive(n) ==
  LET batch == Received(SubSeq(queue, 1, n))
      again == \E i \in DOMAIN batch : batch[i].receives > 1
  IN  /\ worker.pc = "idle"
      /\ n <= Len(queue)
      /\ queue' = SubSeq(queue, n + 1, Len(queue))
      /\ worker' = [Idle EXCEPT !.pc = "act", !.batch = batch, !.at = 1]
      /\ IF again THEN Trouble("again") ELSE UNCHANGED trouble
      /\ UNCHANGED <<request, api, job, before, dead, sent, acted>>

InHand == worker.batch[worker.at].resource

(* _run_action(), which may raise.                                          *)
Act ==
  /\ worker.pc = "act" /\ worker.at <= Len(worker.batch)
  /\ \/ /\ acted' = acted \cup {InHand}
        /\ worker' = [worker EXCEPT !.pc = "count"]
     \/ /\ worker' = [worker EXCEPT !.pc = "count", !.failures = @ \cup {InHand}]
        /\ UNCHANGED acted
  /\ UNCHANGED <<request, api, job, before, queue, dead, sent, trouble>>

Counted ==
  IF InHand \in worker.failures THEN [job EXCEPT !.failed = @ + 1]
  ELSE [job EXCEPT !.completed = @ + 1]

(* _increment_job_counter(), one atomic ADD; that it fails is only logged.  *)
(* The job always has a status, so this never sets "in_progress".           *)
Count ==
  /\ worker.pc = "count"
  /\ \/ WriteJob(Counted) /\ UNCHANGED trouble
     \/ Trouble("update") /\ UNCHANGED <<job, before>>
  /\ worker' = [worker EXCEPT !.pc = "check"]
  /\ UNCHANGED <<request, api, queue, dead, sent, acted>>

(* Mutant of AllCounted: one more than there are.                           *)
MoreThanAll(item) == item.completed + item.failed > item.total

AllCounted(item) == item.completed + item.failed >= item.total

FinalStatus(item) ==
  CASE item.failed = item.total -> "failed"
    [] item.failed > 0 /\ item.failed # item.total -> "partial_failure"
    [] OTHER -> "completed"

NextRecord == [worker EXCEPT !.pc = "act", !.at = @ + 1, !.final = "none"]

(* _finalize_job() reads the item without asking for a consistent read ...  *)
Check ==
  /\ worker.pc = "check"
  /\ \E seen \in {job, before} :
       /\ IF seen = job THEN UNCHANGED trouble ELSE Trouble("stale")
       /\ worker' = IF AllCounted(seen)
                    THEN [worker EXCEPT !.pc = "write", !.final = FinalStatus(seen)]
                    ELSE NextRecord
  /\ UNCHANGED <<request, api, job, before, queue, dead, sent, acted>>

(* ... and writes the status it computed.                                   *)
WriteFinal ==
  /\ worker.pc = "write"
  /\ \/ WriteJob([job EXCEPT !.status = worker.final]) /\ UNCHANGED trouble
     \/ Trouble("update") /\ UNCHANGED <<job, before>>
  /\ worker' = NextRecord
  /\ UNCHANGED <<request, api, queue, dead, sent, acted>>

(* The messages at some positions, in their order.                          *)
Rank(positions, i) == Cardinality({j \in positions : j <= i})

Picked(messages, positions) ==
  [k \in 1 .. Cardinality(positions) |->
     messages[CHOOSE i \in positions : Rank(positions, i) = k]]

(* Messages come back to the head of the group, or are given up.            *)
ComeBack(positions) ==
  LET batch == worker.batch
      again == {i \in positions : batch[i].receives < MaxReceive}
  IN  /\ queue' = Picked(batch, again) \o queue
      /\ dead' = dead \cup {batch[i].resource : i \in positions \ again}

(* Mutant of Failed: the first failure stands for all.                      *)
FirstFailed ==
  {i \in DOMAIN worker.batch :
     /\ worker.batch[i].resource \in worker.failures
     /\ \A j \in 1 .. i - 1 : worker.batch[j].resource \notin worker.failures}

Failed == {i \in DOMAIN worker.batch : worker.batch[i].resource \in worker.failures}

(* batchItemFailures: only what failed comes back, the rest is deleted.     *)
Return ==
  /\ worker.pc = "act" /\ worker.at > Len(worker.batch)
  /\ ComeBack(Failed)
  /\ worker' = Idle
  /\ UNCHANGED <<request, api, job, before, sent, acted, trouble>>

(* The invocation dies or times out: the whole batch comes back.  (Bound:   *)
(* once; a message whose every receive dies is never counted.)              *)
WorkerDies ==
  /\ worker.pc # "idle" /\ "worker" \notin trouble
  /\ Trouble("worker")
  /\ ComeBack(DOMAIN worker.batch)
  /\ worker' = Idle
  /\ UNCHANGED <<request, api, job, before, sent, acted>>

-----------------------------------------------------------------------------
ApiStep == CreateJob \/ Reject \/ Send \/ SendFails \/ AllTaken \/ RecordFailures

TakeBatch == \E n \in 1 .. BatchSize : Receive(n)

WorkerStep == TakeBatch \/ Act \/ Count \/ Check \/ WriteFinal \/ Return

Next == ApiStep \/ ApiFails \/ WorkerStep \/ WorkerDies

Spec == Init /\ [][Next]_vars

(* The invocations run on, and Lambda polls the queue.                      *)
FairSpec == Spec /\ WF_vars(ApiStep) /\ WF_vars(WorkerStep)

-----------------------------------------------------------------------------
Finished == job.status \in {"completed", "failed", "partial_failure"}

(* No resource is dropped between the queue and the worker: until its       *)
(* action has succeeded, its message waits, is in hand or has been given up *)
(* after all its receives, whichever parts of a batch fail.                 *)
Conserved ==
  \A r \in sent \ acted :
    r \in dead \cup {m.resource : m \in ToSet(queue) \cup ToSet(worker.batch)}

(* While every message is received once and every count arrives, a final    *)
(* status is the truth, though the API and the worker add to the counters   *)
(* concurrently and the API adds last: every resource has been tried or     *)
(* rejected, and the status tells how many succeeded (_finalize_job: "when  *)
(* completed + failed reach total_count").                                  *)
Truthful ==
  Finished /\ trouble \cap {"again", "update", "worker"} = {} =>
    /\ api.at > Len(request)
    /\ \A m \in ToSet(queue) : m.receives > 0
    /\ job.status = "completed" <=> api.rejected = 0 /\ ToSet(request) \subseteq acted
    /\ job.status = "failed" <=> acted = {}

(* A job the API reported with a message in the queue is finished in the    *)
(* end, whatever fails in the worker and however often.  Excused: a counter *)
(* or a read that went wrong, an API invocation that died, a resource asked *)
(* for twice, and rejections the API adds when the worker may be through.   *)
Finishes ==
  job.status = "pending" ~>
    \/ Finished
    \/ trouble \cap {"update", "stale", "api"} # {}
    \/ Cardinality(ToSet(request)) < Len(request)
    \/ api.rejected > 0 /\ (api.queued > 0 \/ api.errors = Len(request))
=============================================================================
