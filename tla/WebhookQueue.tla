----------------------------- MODULE WebhookQueue -----------------------------
(***************************************************************************)
(* The delivery worker behind the BullMQ queue adapter.                    *)
(*                                                                         *)
(* createWebhookQueueWorker registers handleMessage as the queue's         *)
(* consumer; each concurrency slot of the BullMQ worker is a member of     *)
(* Handlers.  A slot takes a waiting job, runs processDeliveryById on its  *)
(* delivery (the steps of WebhookDelivery) and settles the job by what     *)
(* came back: ack, retry (a new delayed job, then completion) or           *)
(* deadLetter (a job on the dead-letter queue, then completion).  Workers  *)
(* outside Handlers poll the store beside the queue.                       *)
(*                                                                         *)
(* BullMQ itself is external.  It is modelled as the adapter configures    *)
(* it: no automatic attempts, completed jobs removed, failed jobs kept;    *)
(* a job whose process died is handed out once more (maxStalledCount 1)    *)
(* and fails the next time.  The attempt number a job carries labels it    *)
(* and decides nothing; it is left out.                                    *)
(***************************************************************************)
EXTENDS WebhookDelivery

CONSTANTS
  Handlers,    \* the workers that serve the queue
  Jobs,        \* job slots: bounds the jobs that exist at one time
  MaxEnqueues, \* bound: enqueue calls per delivery
  Replayed,    \* deliveries operators may replay
  OwnPrefix    \* whether config.prefix names another prefix than BullMQ's own

ASSUME QueueConstants ==
  /\ Handlers \subseteq Workers
  /\ MaxEnqueues \in Nat
  /\ Replayed \subseteq Deliveries
  /\ OwnPrefix \in BOOLEAN

VARIABLES
  jobs,      \* the queue: slot -> job or Absent
  holding,   \* the job each handler is serving, or Absent
  dlq,       \* deliveries published on the dead-letter queue
  enqueues   \* history: enqueue calls per delivery

queue == <<jobs, holding, dlq, enqueues>>
allVars == <<vars, queue>>

\* A job is of a delivery, in one of the states waiting, delayed, active, settled
\* (the handle's promise is resolved, BullMQ has not completed the job) or failed,
\* and has stalled at most once.
Job ==
  [delivery : Deliveries,
   state    : {"waiting", "delayed", "active", "settled", "failed"},
   stalls   : {0, 1}]

\* No job and no slot is taken for a missing one.
ASSUME AbsentIsNoJob == Absent \notin Job /\ Absent \notin Jobs

JobsOf(d, states) ==
  {j \in Jobs : jobs[j] # Absent /\ jobs[j].delivery = d /\ jobs[j].state \in states}

LiveJobs(d) == JobsOf(d, {"waiting", "delayed", "active", "settled"})
FailedJobs(d) == JobsOf(d, {"failed"})

--------------------------------------------------------------------------------
\* queue.add gives every job an id of its own, so equal messages never merge.
Added(current, j, d, state) ==
  [current EXCEPT ![j] = [delivery |-> d, state |-> state, stalls |-> 0]]

Free == {j \in Jobs : jobs[j] = Absent}

\* Whoever created the delivery enqueues it.
Enqueue(d) ==
  /\ store[d] # Absent
  /\ enqueues[d] < MaxEnqueues
  /\ \E j \in Free : jobs' = Added(jobs, j, d, "waiting")
  /\ enqueues' = [enqueues EXCEPT ![d] = @ + 1]
  /\ UNCHANGED <<vars, holding, dlq>>

\* BullMQ promotes a job whose delay has passed.
DelayPasses(j) ==
  /\ jobs[j] # Absent
  /\ jobs[j].state = "delayed"
  /\ jobs' = [jobs EXCEPT ![j].state = "waiting"]
  /\ UNCHANGED <<vars, holding, dlq, enqueues>>

\* BullMQ hands a waiting job to a free slot.  The queue is created under
\* config.prefix, the worker always under BullMQ's own prefix.
Take(w) ==
  /\ ~OwnPrefix
  /\ holding[w] = Absent
  /\ \E j \in Jobs :
       /\ jobs[j] # Absent
       /\ jobs[j].state = "waiting"
       /\ jobs' = [jobs EXCEPT ![j].state = "active"]
       /\ holding' = [holding EXCEPT ![w] = j]
  /\ UNCHANGED <<vars, dlq, enqueues>>

\* handleMessage calls processDeliveryById on the job's delivery.
HandleMessage(w) ==
  /\ holding[w] # Absent
  /\ ProcessById(w, jobs[holding[w]].delivery)
  /\ UNCHANGED queue

--------------------------------------------------------------------------------
(* Settlement.  Publishing and completing the job are two steps: a crash   *)
(* between them leaves the new job and hands the old one out again.        *)

Settling(w) ==
  /\ holding[w] # Absent
  /\ pc[w] = "done"
  /\ jobs[holding[w]].state = "active"

\* Mutant: the settled flag of the handle is not set.
ResolvedAgain(w) == jobs

Resolved(w) == [jobs EXCEPT ![holding[w]].state = "settled"]

\* Mutants: acknowledges what should be retried; what should be dead-lettered.
AckPending(w) ==
  /\ Settling(w)
  /\ outcome[w] \in {"not_found", "succeeded", "pending"}
  /\ jobs' = Resolved(w)
  /\ UNCHANGED <<vars, holding, dlq, enqueues>>
AckDeadLettered(w) ==
  /\ Settling(w)
  /\ outcome[w] \in {"not_found", "succeeded", "dead_lettered"}
  /\ jobs' = Resolved(w)
  /\ UNCHANGED <<vars, holding, dlq, enqueues>>

\* Succeeded, or no such delivery: nothing to publish.
Ack(w) ==
  /\ Settling(w)
  /\ outcome[w] \in {"not_found", "succeeded"}
  /\ jobs' = Resolved(w)
  /\ UNCHANGED <<vars, holding, dlq, enqueues>>

\* A failed attempt comes back at the record's next_attempt_at, a processing
\* error after errorRetryDelaySeconds; nothing bounds the latter.
RetryJob(w) ==
  /\ Settling(w)
  /\ outcome[w] \in {"error", "pending"}
  /\ \E j \in Free :
       jobs' = Added(Resolved(w), j, jobs[holding[w]].delivery, "delayed")
  /\ UNCHANGED <<vars, holding, dlq, enqueues>>

DeadLetterJob(w) ==
  /\ Settling(w)
  /\ outcome[w] = "dead_lettered"
  /\ dlq' = dlq \cup {jobs[holding[w]].delivery}
  /\ jobs' = Resolved(w)
  /\ UNCHANGED <<vars, holding, enqueues>>

\* The slot lets go of its job and of the finished call.
LetGo(w) ==
  /\ holding' = [holding EXCEPT ![w] = Absent]
  /\ Return(w)

\* BullMQ removes the completed job.
Complete(w) ==
  /\ holding[w] # Absent
  /\ jobs[holding[w]].state = "settled"
  /\ jobs' = [jobs EXCEPT ![holding[w]] = Absent]
  /\ LetGo(w)
  /\ UNCHANGED <<dlq, enqueues>>

\* queue.add rejects: finish rejects the job, which BullMQ keeps as failed, and
\* the error is only logged.
SettleFails(w) ==
  /\ Settling(w)
  /\ outcome[w] \in {"error", "pending", "dead_lettered"}
  /\ upsets < MaxUpsets
  /\ jobs' = [jobs EXCEPT ![holding[w]].state = "failed"]
  /\ holding' = [holding EXCEPT ![w] = Absent]
  /\ pc' = [pc EXCEPT ![w] = "idle"]
  /\ outcome' = [outcome EXCEPT ![w] = "none"]
  /\ upsets' = upsets + 1
  /\ UNCHANGED <<data, batch, task, http, dlq, enqueues>>

\* The process dies while it holds a job; the job stalls.
HandlerCrash(w) ==
  /\ holding[w] # Absent
  /\ Forget(w)
  /\ holding' = [holding EXCEPT ![w] = Absent]
  /\ jobs' = [jobs EXCEPT ![holding[w]] =
                IF @.stalls = 0 THEN [@ EXCEPT !.state = "waiting", !.stalls = 1]
                                ELSE [@ EXCEPT !.state = "failed"]]
  /\ UNCHANGED <<dlq, enqueues>>

--------------------------------------------------------------------------------
QueueInit ==
  /\ Init
  /\ jobs = [j \in Jobs |-> Absent]
  /\ holding = [w \in Handlers |-> Absent]
  /\ dlq = {}
  /\ enqueues = [d \in Deliveries |-> 0]

Handle(w) ==
  \/ Take(w) \/ HandleMessage(w)
  \/ Process(w) /\ UNCHANGED queue
  \/ Ack(w) \/ RetryJob(w) \/ DeadLetterJob(w) \/ Complete(w)

PollBeside(w) == Poll(w) /\ UNCHANGED queue

Surroundings ==
  \/ Operate
  \/ \E d \in Deliveries : BecomeDue(d)
  \/ \E d \in Replayed : Replay(d)
  \/ Dispatch

QueueNext ==
  \/ Surroundings /\ UNCHANGED queue
  \/ \E d \in Deliveries : Enqueue(d)
  \/ \E j \in Jobs : DelayPasses(j)
  \/ \E w \in Handlers : Handle(w) \/ SettleFails(w) \/ HandlerCrash(w)
  \/ \E w \in Workers \ Handlers : PollBeside(w) \/ (Crash(w) /\ UNCHANGED queue)

QueueSpec == QueueInit /\ [][QueueNext]_allVars

\* The BullMQ worker and its scheduler keep running, a started handler goes on,
\* and, if there are pollers, they are called again and again.
QueueFairness ==
  /\ \A w \in Handlers : WF_allVars(Handle(w))
  /\ \A j \in Jobs : WF_allVars(DelayPasses(j))
  /\ \A w \in Workers \ Handlers : WF_allVars(PollBeside(w))
  /\ \A d \in Deliveries : WF_allVars(BecomeDue(d) /\ UNCHANGED queue)

FairQueueSpec == QueueSpec /\ QueueFairness

--------------------------------------------------------------------------------
\* A delivery that was enqueued and is not closed still has a job in the queue,
\* unless a job of it was left among the failed ones: settlement publishes the
\* next job before it gives the old one up, on every path of handleMessage.
NothingStranded ==
  \A d \in Deliveries :
    enqueues[d] > 0 /\ Open(d) => LiveJobs(d) # {} \/ FailedJobs(d) # {}

\* "The queue adapter publishes exhausted deliveries to the DLQ": once no job of
\* a dead-lettered delivery is left, it is on the dead-letter queue or among the
\* failed jobs.
DeadLettersPublished ==
  \A d \in Deliveries :
    /\ enqueues[d] > 0
    /\ Closed(d) /\ store[d].status = "dead_lettered"
    /\ LiveJobs(d) = {}
    => d \in dlq \/ FailedJobs(d) # {}

\* A delivery has no more unfinished jobs than it was enqueued, plus one for each
\* crash between publishing the next job and completing the old one.
JobsAccounted ==
  \A d \in Deliveries :
    Cardinality(JobsOf(d, {"waiting", "delayed", "active"})) <= enqueues[d] + upsets

\* Every enqueued delivery is closed or deleted in the end, or a job of it is
\* among the failed ones.
EnqueuedCloses ==
  \A d \in Deliveries :
    enqueues[d] > 0 /\ Open(d) ~> ~Open(d) \/ FailedJobs(d) # {}
================================================================================
