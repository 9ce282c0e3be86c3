-------------------------- MODULE WebhookQueueProofs --------------------------
(***************************************************************************)
(* Proofs about WebhookQueue, for any number of deliveries, workers, job   *)
(* slots, crashes and failed settlements.                                  *)
(*                                                                         *)
(* The argument has two levels.  What a handler is serving stays the job   *)
(* it took: nobody else holds it, and its batch and task are of that job's *)
(* delivery (ServingInv).  On top of it, a delivery that still needs work  *)
(* has a job that somebody will still act on: one that is not held by a    *)
(* handler about to acknowledge it (Carried).                              *)
(***************************************************************************)
EXTENDS WebhookQueue, WebhookDeliveryProofs

--------------------------------------------------------------------------------
QueueTypeOK ==
  /\ jobs \in [Jobs -> Job \cup {Absent}]
  /\ holding \in [Handlers -> Jobs \cup {Absent}]
  /\ dlq \subseteq Deliveries
  /\ enqueues \in [Deliveries -> Nat]

\* A handler serves the job it holds, and only that job's delivery.
Serving(w) ==
  /\ holding[w] = Absent => pc[w] = "idle"
  /\ pc[w] \in {"idle", "done"} => batch[w] = {}
  /\ holding[w] # Absent =>
       /\ jobs[holding[w]] # Absent
       /\ jobs[holding[w]].state \in {"active", "settled"}
       /\ jobs[holding[w]].state = "settled" => pc[w] = "done"
       /\ \A s \in batch[w] : s.id = jobs[holding[w]].delivery
       /\ Busy(w) => task[w].id = jobs[holding[w]].delivery

\* No job is held twice.
HeldOnce ==
  \A v, w \in Handlers : holding[v] # Absent /\ holding[v] = holding[w] => v = w

ServingInv ==
  /\ TypeInv
  /\ QueueTypeOK
  /\ \A w \in Handlers : Serving(w)
  /\ HeldOnce

\* A handler is about to let its job j go with one of these results.
Leaving(j, results) ==
  \E w \in Handlers : holding[w] = j /\ pc[w] = "done" /\ outcome[w] \in results

\* Some job of d is still to be acted on, or was left among the failed ones.
Unsettled(d) == JobsOf(d, {"waiting", "delayed", "active", "failed"})
Carried(d, results) == \E j \in Unsettled(d) : ~Leaving(j, results)

\* The results after which nothing more is published for a delivery, and those after
\* which nothing was.
Final == {"not_found", "succeeded", "dead_lettered"}
Silent == {"not_found", "succeeded"}

\* An enqueued delivery exists or has existed.
EnqueuedIssued ==
  \A d \in Deliveries : (store[d] # Absent => d \in issued) /\ (enqueues[d] > 0 => d \in issued)

\* Deliveries that need further work, and ones the dead-letter queue still has to learn of.
Pending(d) == enqueues[d] > 0 /\ Open(d)
Unpublished(d) ==
  enqueues[d] > 0 /\ Closed(d) /\ store[d].status = "dead_lettered" /\ d \notin dlq

OpenCarried == \A d \in Deliveries : Pending(d) => Carried(d, Final)
DeadCarried == \A d \in Deliveries : Unpublished(d) => Carried(d, Silent)

CarriedInv == ServingInv /\ EnqueuedIssued

--------------------------------------------------------------------------------
(* What the steps do to the workers and to the rows.                       *)

\* A step of w leaves every other worker where it is.
OnlyWorker(w) ==
  \A v \in Workers \ {w} :
    pc'[v] = pc[v] /\ batch'[v] = batch[v] /\ task'[v] = task[v] /\ outcome'[v] = outcome[v]

\* A step of w on delivery d: it changes no other row, inserts none, and a result
\* other than an error or a retry is the status it left in the row.
WorksOn(w, d) ==
  /\ OnlyWorker(w)
  /\ \A e \in Deliveries \ {d} : store'[e] = store[e]
  /\ store'[d] # Absent => store[d] # Absent
  /\ issued' = issued
  /\ pc'[w] # "idle"
  /\ pc'[w] = "done" => batch'[w] = {}
  /\ \A s \in batch'[w] : s.id = d
  /\ Busy(w)' => task'[w].id = d
  /\ pc'[w] = "done" /\ outcome'[w] \in {"not_found", "succeeded", "dead_lettered"} =>
       store'[d] = Absent \/ (outcome'[w] # "not_found" /\ store'[d].status = outcome'[w])

\* Finishing leaves the worker between two records or done with an empty batch.
LEMMA FinishWorks ==
  ASSUME TypeInv, NEW w \in Workers, NEW result, Finish(w, result)
  PROVE  /\ OnlyWorker(w)
         /\ pc'[w] \in {"next", "done"} /\ outcome'[w] = result
         /\ pc'[w] = "done" => batch'[w] = {}
         /\ batch'[w] \subseteq batch[w]
  BY DEF OnlyWorker, Finish, TypeInv, TypeOK

\* A finished record's processing is a step on its delivery.
LEMMA FinishWorksOn ==
  ASSUME TypeInv, NEW w \in Workers, NEW d \in Deliveries, NEW result, Finish(w, result),
         \A s \in batch[w] : s.id = d,
         issued' = issued,
         \A e \in Deliveries \ {d} : store'[e] = store[e],
         store'[d] # Absent => store[d] # Absent,
         result \in {"not_found", "succeeded", "dead_lettered"} =>
           store'[d] = Absent \/ (result # "not_found" /\ store'[d].status = result)
  PROVE  WorksOn(w, d)
  <1>1. ~Busy(w)'
    BY FinishWorks DEF Busy
  <1>. QED  BY <1>1, FinishWorks DEF WorksOn

\* So is a failed update.
LEMMA UpdateFailsWorksOn ==
  ASSUME TypeInv, NEW w \in Workers, NEW d \in Deliveries, Busy(w), d = task[w].id,
         \A s \in batch[w] : s.id = d,
         NEW status, NEW count, NEW next,
         UpdateFails(w, Written(w, status, count, next))
  PROVE  WorksOn(w, d)
  <1>1. Finish(w, "error") /\ issued' = issued
    BY DEF UpdateFails, StoreError
  <1>2. \A e \in Deliveries \ {d} : store'[e] = store[e]
    BY WrittenRows DEF UpdateFails
  <1>3. store'[d] # Absent => store[d] # Absent
    BY DEF UpdateFails
  <1>. QED  BY <1>1, <1>2, <1>3, FinishWorksOn

\* Every step of a record's processing is a step on that record's delivery.
LEMMA ProcessWorksOn ==
  ASSUME TypeInv, NEW w \in Workers, NEW d \in Deliveries, Process(w),
         \A s \in batch[w] : s.id = d, Busy(w) => task[w].id = d
  PROVE  WorksOn(w, d)
  <1>1. CASE GetSubscription(w)
    <2>1. PICK s \in batch[w] :
            /\ task' = [task EXCEPT ![w] =
                 [id |-> s.id, attemptCount |-> s.attemptCount,
                  maxAttempts |-> subs[s.sub], response |-> "none"]]
            /\ pc' = [pc EXCEPT ![w] = IF subs[s.sub] = Absent THEN "orphan" ELSE "mark"]
            /\ batch' = [batch EXCEPT ![w] = @ \ {s}]
      BY <1>1 DEF GetSubscription
    <2>2. task'[w].id = d /\ pc'[w] \in {"orphan", "mark"} /\ batch'[w] \subseteq batch[w]
      BY <2>1 DEF TypeInv, TypeOK
    <2>3. OnlyWorker(w) /\ store' = store /\ issued' = issued
      BY <1>1, <2>1 DEF GetSubscription, data, OnlyWorker, TypeInv, TypeOK
    <2>. QED  BY <2>2, <2>3 DEF WorksOn
  <1>2. CASE GetSubscriptionFails(w)
    <2>1. Finish(w, "error") /\ store' = store /\ issued' = issued
      BY <1>2 DEF GetSubscriptionFails, StoreError, data
    <2>. QED  BY <2>1, FinishWorksOn
  <1>3. CASE DeadLetterOrphan(w)
    <2> DEFINE count == store[d].attemptCount
               written == Written(w, "dead_lettered", count, "null")
    <2>1. Busy(w) /\ task[w].id = d
      BY <1>3 DEF DeadLetterOrphan, Busy
    <2>2. CASE UpdateFails(w, written)
      BY <2>1, <2>2, UpdateFailsWorksOn
    <2>3. CASE /\ store[d] # Absent /\ store' = written /\ Finish(w, "dead_lettered")
               /\ UNCHANGED <<subs, issued, missing, http, upsets>>
      <3>1. /\ store'[d] = Row(store[d].sub, "dead_lettered", count, "null")
            /\ \A e \in Deliveries \ {d} : store'[e] = store[e]
        BY <2>1, <2>3, WrittenRows
      <3>2. store'[d].status = "dead_lettered"
        BY <3>1 DEF Row
      <3>. QED  BY <2>3, <3>1, <3>2, FinishWorksOn
    <2>. QED  BY <1>3, <2>1, <2>2, <2>3 DEF DeadLetterOrphan
  <1>4. CASE MarkDelivering(w)
    <2> DEFINE written == Written(w, "delivering", AttemptNumber(w), "null")
    <2>1. Busy(w) /\ task[w].id = d
      BY <1>4 DEF MarkDelivering, Busy
    <2>2. CASE UpdateFails(w, written)
      BY <2>1, <2>2, UpdateFailsWorksOn
    <2>3. CASE /\ store[d] # Absent /\ store' = written /\ pc' = [pc EXCEPT ![w] = "send"]
               /\ UNCHANGED <<subs, issued, missing, batch, task, outcome, http, upsets>>
      <3>1. \A e \in Deliveries \ {d} : store'[e] = store[e]
        BY <2>1, <2>3, WrittenRows
      <3>2. pc'[w] = "send" /\ \A v \in Workers \ {w} : pc'[v] = pc[v]
        BY <2>3 DEF TypeInv, TypeOK
      <3>. QED  BY <2>1, <2>3, <3>1, <3>2 DEF WorksOn, OnlyWorker
    <2>. QED  BY <1>4, <2>1, <2>2, <2>3 DEF MarkDelivering
  <1>5. CASE Send(w)
    <2>1. Busy(w) /\ task[w].id = d
      BY <1>5 DEF Send, Busy
    <2>2. task[w] \in Task
      BY <2>1 DEF TypeInv, BusyHasTask
    <2>3. PICK r \in {"2xx", "failed"} : task' = [task EXCEPT ![w].response = r]
      BY <1>5 DEF Send
    <2>4. task'[w].id = d /\ \A v \in Workers \ {w} : task'[v] = task[v]
      BY <2>1, <2>2, <2>3 DEF TypeInv, TypeOK, Task
    <2>5. /\ pc'[w] = "record" /\ \A v \in Workers \ {w} : pc'[v] = pc[v]
          /\ store' = store /\ issued' = issued /\ batch' = batch /\ outcome' = outcome
      BY <1>5 DEF Send, data, TypeInv, TypeOK
    <2>. QED  BY <2>4, <2>5 DEF WorksOn, OnlyWorker
  <1>6. CASE RecordResult(w)
    <2> DEFINE status == ResultStatus(w)
               next == IF status = "pending" THEN "later" ELSE "null"
               written == Written(w, status, AttemptNumber(w), next)
    <2>1. Busy(w) /\ task[w].id = d
      BY <1>6 DEF RecordResult, Busy
    <2>2. CASE UpdateFails(w, written)
      BY <2>1, <2>2, UpdateFailsWorksOn
    <2>3. CASE /\ store[d] # Absent /\ store' = written /\ Finish(w, status)
               /\ UNCHANGED <<subs, issued, missing, http, upsets>>
      <3>1. status # "not_found"
        BY DEF ResultStatus
      <3>. HIDE DEF status, next
      <3>2. /\ store'[d] = Row(store[d].sub, status, AttemptNumber(w), next)
            /\ \A e \in Deliveries \ {d} : store'[e] = store[e]
        BY <2>1, <2>3, WrittenRows
      <3>3. store'[d].status = status
        BY <3>2 DEF Row
      <3>. QED  BY <2>3, <3>1, <3>2, <3>3, FinishWorksOn
    <2>. QED  BY <1>6, <2>1, <2>2, <2>3 DEF RecordResult
  <1>. QED  BY <1>1, <1>2, <1>3, <1>4, <1>5, <1>6 DEF Process

\* So is the read processDeliveryById starts with, by a worker with no batch.
LEMMA ProcessByIdWorksOn ==
  ASSUME TypeInv, NEW w \in Workers, NEW d \in Deliveries, ProcessById(w, d), batch[w] = {}
  PROVE  WorksOn(w, d)
  <1>1. store' = store /\ issued' = issued /\ pc[w] = "idle"
    BY DEF ProcessById, data
  <1>2. CASE /\ store[d] # Absent
             /\ batch' = [batch EXCEPT ![w] = {SnapshotOf(d)}]
             /\ pc' = [pc EXCEPT ![w] = "next"]
             /\ UNCHANGED <<task, outcome, upsets>>
    <2>1. batch'[w] = {SnapshotOf(d)} /\ pc'[w] = "next" /\ OnlyWorker(w)
      BY <1>2 DEF OnlyWorker, TypeInv, TypeOK
    <2>2. \A s \in batch'[w] : s.id = d
      BY <2>1 DEF SnapshotOf
    <2>. QED  BY <1>1, <2>1, <2>2 DEF WorksOn, Busy
  <1>3. CASE store[d] = Absent /\ Finish(w, "not_found")
    BY <1>1, <1>3, FinishWorksOn
  <1>4. CASE Finish(w, "error")
    BY <1>1, <1>4, FinishWorksOn
  <1>. QED  BY <1>2, <1>3, <1>4 DEF ProcessById, StoreError

\* A poller's step touches no other worker, and neither does giving up.
LEMMA PollOnly ==
  ASSUME TypeInv, NEW w \in Workers, Poll(w) \/ Forget(w)
  PROVE  OnlyWorker(w)
  <1>1. CASE RunOnce(w)
    BY <1>1 DEF RunOnce, OnlyWorker, TypeInv, TypeOK
  <1>2. CASE Return(w) \/ Forget(w)
    BY <1>2 DEF Return, Forget, OnlyWorker, TypeInv, TypeOK
  <1>3. CASE GetSubscription(w)
    BY <1>3 DEF GetSubscription, OnlyWorker, TypeInv, TypeOK
  <1>4. CASE MarkDelivering(w) \/ RecordResult(w) \/ DeadLetterOrphan(w) \/ GetSubscriptionFails(w)
    <2>1. (\E result : Finish(w, result))
            \/ (pc' = [pc EXCEPT ![w] = "send"] /\ UNCHANGED <<batch, task, outcome>>)
      BY <1>4 DEF MarkDelivering, RecordResult, DeadLetterOrphan, GetSubscriptionFails,
         UpdateFails, StoreError
    <2>. QED  BY <2>1, FinishWorks DEF OnlyWorker, TypeInv, TypeOK
  <1>5. CASE Send(w)
    BY <1>5 DEF Send, OnlyWorker, TypeInv, TypeOK
  <1>. QED  BY <1>1, <1>2, <1>3, <1>4, <1>5 DEF Poll, Process

--------------------------------------------------------------------------------
(* What the steps do to the jobs.                                          *)

\* Only job j changes, to the given state.
Moved(j, state) ==
  /\ jobs[j] # Absent
  /\ jobs'[j] # Absent
  /\ jobs'[j].delivery = jobs[j].delivery
  /\ jobs'[j].state = state
  /\ \A i \in Jobs \ {j} : jobs'[i] = jobs[i]

\* The free slot j gets a job of d in the given state, and no other slot changes but, if
\* a job h is settled in the same step, that one.
Published(j, d, state, settled) ==
  /\ jobs[j] = Absent
  /\ jobs'[j] # Absent
  /\ jobs'[j].delivery = d
  /\ jobs'[j].state = state
  /\ \A h \in settled :
       jobs'[h] # Absent /\ jobs'[h].delivery = jobs[h].delivery /\ jobs'[h].state = "settled"
  /\ \A i \in Jobs \ ({j} \cup settled) : jobs'[i] = jobs[i]

\* Setting the state of a job.
LEMMA StateSet ==
  ASSUME NEW q \in [Jobs -> Job \cup {Absent}], NEW j \in Jobs, q[j] # Absent,
         NEW state \in {"waiting", "delayed", "active", "settled", "failed"},
         NEW r, r = [q EXCEPT ![j].state = state]
  PROVE  /\ r \in [Jobs -> Job \cup {Absent}]
         /\ r[j] # Absent /\ r[j].delivery = q[j].delivery /\ r[j].state = state
         /\ \A i \in Jobs \ {j} : r[i] = q[i]
  <1>1. r[j] = [q[j] EXCEPT !.state = state] /\ \A i \in Jobs \ {j} : r[i] = q[i]
    OBVIOUS
  <1>2. q[j] \in Job
    OBVIOUS
  <1>3. r[j] \in Job /\ r[j].delivery = q[j].delivery /\ r[j].state = state
    BY <1>1, <1>2 DEF Job
  <1>4. r[j] # Absent
    BY <1>3, AbsentIsNoJob
  <1>. QED  BY <1>1, <1>3, <1>4

\* Adding a job to a free slot.
LEMMA JobAdded ==
  ASSUME NEW q \in [Jobs -> Job \cup {Absent}], NEW j \in Jobs, NEW d \in Deliveries,
         NEW state \in {"waiting", "delayed", "active", "settled", "failed"},
         NEW r, r = Added(q, j, d, state)
  PROVE  /\ r \in [Jobs -> Job \cup {Absent}]
         /\ r[j] # Absent /\ r[j].delivery = d /\ r[j].state = state
         /\ \A i \in Jobs \ {j} : r[i] = q[i]
  <1>1. r[j] = [delivery |-> d, state |-> state, stalls |-> 0] /\ \A i \in Jobs \ {j} : r[i] = q[i]
    BY DEF Added
  <1>2. r[j] \in Job /\ r[j].delivery = d /\ r[j].state = state
    BY <1>1 DEF Job
  <1>3. r[j] # Absent
    BY <1>2, AbsentIsNoJob
  <1>. QED  BY <1>1, <1>2, <1>3 DEF Added

\* A job a handler holds is in the queue, and the handler is a worker.
LEMMA HeldJob ==
  ASSUME ServingInv, NEW w \in Handlers, holding[w] # Absent
  PROVE  /\ w \in Workers
         /\ holding[w] \in Jobs
         /\ jobs[holding[w]] # Absent
         /\ jobs[holding[w]].delivery \in Deliveries
  <1>1. w \in Workers
    BY QueueConstants
  <1>2. holding[w] \in Jobs /\ jobs[holding[w]] # Absent
    BY DEF ServingInv, QueueTypeOK, Serving
  <1>3. jobs[holding[w]] \in Job
    BY <1>2 DEF ServingInv, QueueTypeOK
  <1>. QED  BY <1>1, <1>2, <1>3 DEF Job

\* The three ways to settle a job.
LEMMA SettledJob ==
  ASSUME ServingInv, NEW w \in Handlers, Settling(w), jobs' = Resolved(w)
  PROVE  jobs' \in [Jobs -> Job \cup {Absent}] /\ Moved(holding[w], "settled")
  <1>1. holding[w] # Absent
    BY DEF Settling
  <1>2. /\ jobs \in [Jobs -> Job \cup {Absent}]
        /\ jobs' = [jobs EXCEPT ![holding[w]].state = "settled"]
    BY DEF ServingInv, QueueTypeOK, Resolved
  <1>. QED  BY <1>1, <1>2, HeldJob, StateSet DEF Moved

\* The retry publishes one job and settles the other.
LEMMA RetriedJob ==
  ASSUME ServingInv, NEW w \in Handlers, RetryJob(w)
  PROVE  /\ jobs' \in [Jobs -> Job \cup {Absent}]
         /\ \E j \in Jobs : Published(j, jobs[holding[w]].delivery, "delayed", {holding[w]})
  <1> DEFINE h == holding[w]
             d == jobs[h].delivery
             q == Resolved(w)
  <1>1. h # Absent
    BY DEF RetryJob, Settling
  <1>2. h \in Jobs /\ jobs[h] # Absent /\ d \in Deliveries
    BY <1>1, HeldJob
  <1>3. jobs \in [Jobs -> Job \cup {Absent}] /\ q = [jobs EXCEPT ![h].state = "settled"]
    BY DEF ServingInv, QueueTypeOK, Resolved
  <1>. HIDE DEF q
  <1>4. /\ q \in [Jobs -> Job \cup {Absent}]
        /\ q[h] # Absent /\ q[h].delivery = d /\ q[h].state = "settled"
        /\ \A i \in Jobs \ {h} : q[i] = jobs[i]
    BY <1>2, <1>3, StateSet
  <1>5. PICK j \in Jobs : jobs[j] = Absent /\ jobs' = Added(q, j, d, "delayed")
    BY DEF RetryJob, Free, q
  <1>6. /\ jobs' \in [Jobs -> Job \cup {Absent}]
        /\ jobs'[j] # Absent /\ jobs'[j].delivery = d /\ jobs'[j].state = "delayed"
        /\ \A i \in Jobs \ {j} : jobs'[i] = q[i]
    BY <1>2, <1>4, <1>5, JobAdded
  <1>7. j # h
    BY <1>2, <1>5
  <1>8. /\ \A i \in {h} : jobs'[i] # Absent /\ jobs'[i].delivery = jobs[i].delivery
                             /\ jobs'[i].state = "settled"
        /\ \A i \in Jobs \ {j, h} : jobs'[i] = jobs[i]
    BY <1>2, <1>4, <1>6, <1>7
  <1>. QED  BY <1>5, <1>6, <1>8 DEF Published

\* A job whose process died is waiting again or has failed.
LEMMA StalledJob ==
  ASSUME ServingInv, NEW w \in Handlers, HandlerCrash(w)
  PROVE  /\ jobs' \in [Jobs -> Job \cup {Absent}]
         /\ Moved(holding[w], "waiting") \/ Moved(holding[w], "failed")
  <1> DEFINE h == holding[w]
  <1>1. h # Absent
    BY DEF HandlerCrash
  <1>2. h \in Jobs /\ jobs[h] # Absent
    BY <1>1, HeldJob
  <1>3. jobs[h] \in Job
    BY <1>2 DEF ServingInv, QueueTypeOK
  <1>4. /\ jobs'[h] = IF jobs[h].stalls = 0
                      THEN [jobs[h] EXCEPT !.state = "waiting", !.stalls = 1]
                      ELSE [jobs[h] EXCEPT !.state = "failed"]
        /\ \A i \in Jobs \ {h} : jobs'[i] = jobs[i]
        /\ jobs' = [jobs EXCEPT ![h] = jobs'[h]]
    BY <1>2 DEF HandlerCrash, ServingInv, QueueTypeOK
  <1>5. /\ jobs'[h] \in Job
        /\ jobs'[h].delivery = jobs[h].delivery
        /\ jobs'[h].state \in {"waiting", "failed"}
    BY <1>3, <1>4 DEF Job
  <1>6. jobs' \in [Jobs -> Job \cup {Absent}]
    BY <1>4, <1>5 DEF ServingInv, QueueTypeOK
  <1>. QED  BY <1>2, <1>4, <1>5, <1>6, AbsentIsNoJob DEF Moved

--------------------------------------------------------------------------------
(* Every step keeps the types.                                             *)

\* A step of the queue is a step of the worker, the start of a message's processing, or
\* a handler that gives its job up.
LEMMA QueueSteps ==
  ASSUME ServingInv, [QueueNext]_allVars
  PROVE  \/ [Next]_vars
         \/ \E w \in Handlers, d \in Deliveries : w \in Workers /\ ProcessById(w, d)
         \/ \E w \in Handlers : w \in Workers /\ (SettleFails(w) \/ Forget(w))
  <1>1. CASE UNCHANGED allVars
    BY <1>1 DEF allVars
  <1>2. CASE Surroundings
    BY <1>2, QueueConstants DEF Surroundings, Next
  <1>3. CASE \/ \E d \in Deliveries : Enqueue(d)
             \/ \E j \in Jobs : DelayPasses(j)
             \/ \E w \in Handlers : Take(w) \/ Ack(w) \/ RetryJob(w) \/ DeadLetterJob(w)
    BY <1>3 DEF Enqueue, DelayPasses, Take, Ack, RetryJob, DeadLetterJob
  <1>4. ASSUME NEW w \in Handlers, HandleMessage(w)
        PROVE  \E d \in Deliveries : w \in Workers /\ ProcessById(w, d)
    BY <1>4, HeldJob DEF HandleMessage
  <1>5. ASSUME NEW w \in Handlers, Process(w) \/ Complete(w)
        PROVE  Next
    BY <1>5, QueueConstants DEF Complete, LetGo, Next, Poll
  <1>6. ASSUME NEW w \in Handlers, SettleFails(w) \/ HandlerCrash(w)
        PROVE  w \in Workers /\ (SettleFails(w) \/ Forget(w))
    BY <1>6, QueueConstants DEF HandlerCrash
  <1>7. ASSUME NEW w \in Workers \ Handlers, PollBeside(w) \/ Crash(w)
        PROVE  Next
    BY <1>7 DEF PollBeside, Next
  <1>. QED
    BY <1>1, <1>2, <1>3, <1>4, <1>5, <1>6, <1>7 DEF QueueNext, Handle

\* What the queue adds to the worker's steps keeps the worker's types.
LEMMA AddedStepsType ==
  ASSUME TypeInv, NEW w \in Workers,
         SettleFails(w) \/ Forget(w) \/ \E d \in Deliveries : ProcessById(w, d)
  PROVE  TypeInv'
  <1>1. CASE SettleFails(w)
    BY <1>1, DeliveryConstants
       DEF SettleFails, TypeInv, TypeOK, BusyHasTask, Busy, Places, Outcomes, data, http
  <1>2. CASE Forget(w)
    BY <1>2, DeliveryConstants
       DEF Forget, TypeInv, TypeOK, BusyHasTask, Busy, Places, Outcomes, data, http
  <1>3. ASSUME NEW d \in Deliveries, ProcessById(w, d)
        PROVE  TypeInv'
    <2>1. UNCHANGED <<data, http>>
      BY <1>3 DEF ProcessById
    <2>2. CASE /\ store[d] # Absent
               /\ batch' = [batch EXCEPT ![w] = {SnapshotOf(d)}]
               /\ pc' = [pc EXCEPT ![w] = "next"]
               /\ UNCHANGED <<task, outcome, upsets>>
      <3>1. SnapshotOf(d) \in Snapshot
        BY <2>2 DEF SnapshotOf, Snapshot, TypeInv, TypeOK, Delivery
      <3>. QED
        BY <2>1, <2>2, <3>1 DEF TypeInv, TypeOK, BusyHasTask, Busy, Places, data, http
    <2>3. CASE Finish(w, "not_found") /\ UNCHANGED upsets
      BY <2>1, <2>3, FinishType DEF Outcomes, TypeInv, TypeOK, data, http
    <2>4. CASE StoreError(w)
      <3>1. Finish(w, "error") /\ "error" \in Outcomes
        BY <2>4 DEF StoreError, Outcomes
      <3>2. upsets' \in 0..MaxUpsets
        BY <2>4, DeliveryConstants DEF StoreError, TypeInv, TypeOK
      <3>. QED  BY <2>1, <3>1, <3>2, FinishType DEF TypeInv, TypeOK, data, http
    <2>. QED  BY <1>3, <2>2, <2>3, <2>4 DEF ProcessById
  <1>. QED  BY <1>1, <1>2, <1>3

\* Every step keeps the worker's types.
LEMMA WorkerTypeStep ==
  ASSUME ServingInv, [QueueNext]_allVars
  PROVE  TypeInv'
  BY QueueSteps, AddedStepsType, TypeInvStep DEF ServingInv

\* The queue's own state keeps its type.
LEMMA QueueTypeStep ==
  ASSUME ServingInv, [QueueNext]_allVars
  PROVE  QueueTypeOK'
  <1> USE DEF QueueTypeOK
  <1>0. QueueTypeOK
    BY DEF ServingInv
  <1>1. CASE UNCHANGED queue
    BY <1>0, <1>1 DEF queue
  <1>2. ASSUME NEW d \in Deliveries, Enqueue(d)
        PROVE  QueueTypeOK'
    <2>1. PICK j \in Free : jobs' = Added(jobs, j, d, "waiting")
      BY <1>2 DEF Enqueue
    <2>2. jobs' \in [Jobs -> Job \cup {Absent}]
      BY <1>0, <2>1, JobAdded DEF Free
    <2>. QED  BY <1>0, <1>2, <2>2 DEF Enqueue
  <1>3. ASSUME NEW j \in Jobs, DelayPasses(j)
        PROVE  QueueTypeOK'
    <2>1. jobs' \in [Jobs -> Job \cup {Absent}]
      BY <1>0, <1>3, StateSet DEF DelayPasses
    <2>. QED  BY <1>0, <1>3, <2>1 DEF DelayPasses
  <1>4. ASSUME NEW w \in Handlers, Take(w)
        PROVE  QueueTypeOK'
    <2>1. PICK j \in Jobs : /\ jobs[j] # Absent
                            /\ jobs' = [jobs EXCEPT ![j].state = "active"]
                            /\ holding' = [holding EXCEPT ![w] = j]
      BY <1>4 DEF Take
    <2>2. jobs' \in [Jobs -> Job \cup {Absent}]
      BY <1>0, <2>1, StateSet
    <2>3. holding' \in [Handlers -> Jobs \cup {Absent}]
      BY <1>0, <2>1
    <2>. QED  BY <1>0, <1>4, <2>2, <2>3 DEF Take
  <1>5. ASSUME NEW w \in Handlers, Ack(w) \/ DeadLetterJob(w)
        PROVE  QueueTypeOK'
    <2>1. Settling(w) /\ jobs' = Resolved(w) /\ UNCHANGED <<holding, enqueues>>
      BY <1>5 DEF Ack, DeadLetterJob
    <2>2. jobs[holding[w]].delivery \in Deliveries
      BY <2>1, HeldJob DEF Settling
    <2>3. dlq' \subseteq Deliveries
      BY <1>0, <1>5, <2>2 DEF Ack, DeadLetterJob
    <2>4. jobs' \in [Jobs -> Job \cup {Absent}]
      BY <2>1, SettledJob
    <2>. QED  BY <1>0, <2>1, <2>3, <2>4
  <1>6. ASSUME NEW w \in Handlers, RetryJob(w)
        PROVE  QueueTypeOK'
    BY <1>0, <1>6, RetriedJob DEF RetryJob
  <1>7. ASSUME NEW w \in Handlers, Complete(w)
        PROVE  QueueTypeOK'
    BY <1>0, <1>7 DEF Complete, LetGo
  <1>8. ASSUME NEW w \in Handlers, SettleFails(w)
        PROVE  QueueTypeOK'
    <2>1. holding[w] # Absent
      BY <1>8 DEF SettleFails, Settling
    <2>2. jobs' \in [Jobs -> Job \cup {Absent}]
      BY <1>0, <1>8, <2>1, HeldJob, StateSet DEF SettleFails
    <2>. QED  BY <1>0, <1>8, <2>2 DEF SettleFails
  <1>9. ASSUME NEW w \in Handlers, HandlerCrash(w)
        PROVE  QueueTypeOK'
    BY <1>0, <1>9, StalledJob DEF HandlerCrash
  <1>. QED
    BY <1>1, <1>2, <1>3, <1>4, <1>5, <1>6, <1>7, <1>8, <1>9
       DEF QueueNext, Handle, HandleMessage, PollBeside, allVars

--------------------------------------------------------------------------------
(* Every step keeps ServingInv.                                            *)

\* The worker is unaffected: the jobs that are held stay what they are, but for one
\* whose processing is done and which is settled.
LEMMA HeldServing ==
  ASSUME ServingInv, TypeInv', QueueTypeOK', UNCHANGED <<work, holding>>,
         \A w \in Handlers : holding[w] # Absent =>
           /\ jobs'[holding[w]] # Absent
           /\ jobs'[holding[w]].delivery = jobs[holding[w]].delivery
           /\ \/ jobs'[holding[w]].state = jobs[holding[w]].state
              \/ jobs'[holding[w]].state = "settled" /\ pc[w] = "done"
  PROVE  ServingInv'
  <1>1. /\ pc' = pc /\ batch' = batch /\ task' = task /\ holding' = holding
        /\ \A w \in Handlers : Busy(w)' = Busy(w)
    BY DEF work, Busy
  <1>2. HeldOnce'
    BY <1>1 DEF ServingInv, HeldOnce
  <1>3. ASSUME NEW w \in Handlers
        PROVE  Serving(w)'
    <2>1. Serving(w)
      BY DEF ServingInv
    <2>. QED  BY <1>1, <2>1 DEF Serving
  <1>. QED  BY <1>2, <1>3 DEF ServingInv

\* Handler w lets its job go, whatever becomes of it.
LEMMA LetGoServing ==
  ASSUME ServingInv, TypeInv', QueueTypeOK', NEW w \in Handlers, OnlyWorker(w),
         holding[w] # Absent, holding' = [holding EXCEPT ![w] = Absent],
         pc'[w] = "idle", batch'[w] = {},
         \A i \in Jobs \ {holding[w]} : jobs'[i] = jobs[i]
  PROVE  ServingInv'
  <1>1. holding'[w] = Absent /\ \A v \in Handlers \ {w} : holding'[v] = holding[v]
    BY DEF ServingInv, QueueTypeOK
  <1>2. HeldOnce'
    BY <1>1 DEF ServingInv, HeldOnce
  <1>3. Serving(w)'
    BY <1>1 DEF Serving
  <1>4. ASSUME NEW v \in Handlers \ {w}
        PROVE  Serving(v)'
    <2>1. Serving(v) /\ v \in Workers
      BY QueueConstants DEF ServingInv
    <2>2. pc'[v] = pc[v] /\ batch'[v] = batch[v] /\ task'[v] = task[v] /\ Busy(v)' = Busy(v)
      BY <2>1 DEF OnlyWorker, Busy
    <2>3. CASE holding[v] = Absent
      BY <1>1, <2>1, <2>2, <2>3 DEF Serving
    <2>4. CASE holding[v] # Absent
      <3>1. holding[v] # holding[w] /\ holding[v] \in Jobs
        BY <2>4, HeldJob DEF ServingInv, HeldOnce
      <3>2. jobs'[holding[v]] = jobs[holding[v]]
        BY <3>1
      <3>. QED  BY <1>1, <2>1, <2>2, <2>4, <3>2 DEF Serving
    <2>. QED  BY <2>3, <2>4
  <1>. QED  BY <1>2, <1>3, <1>4 DEF ServingInv

\* A handler takes a step on the delivery of its job.
LEMMA WorkServing ==
  ASSUME ServingInv, TypeInv', QueueTypeOK', NEW w \in Handlers, UNCHANGED queue,
         holding[w] # Absent, jobs[holding[w]].state = "active",
         WorksOn(w, jobs[holding[w]].delivery)
  PROVE  ServingInv'
  <1>1. jobs' = jobs /\ holding' = holding
    BY DEF queue
  <1>2. HeldOnce'
    BY <1>1 DEF ServingInv, HeldOnce
  <1>3. Serving(w)'
    BY <1>1 DEF Serving, WorksOn, ServingInv
  <1>4. ASSUME NEW v \in Handlers \ {w}
        PROVE  Serving(v)'
    <2>1. Serving(v) /\ v \in Workers
      BY QueueConstants DEF ServingInv
    <2>2. pc'[v] = pc[v] /\ batch'[v] = batch[v] /\ task'[v] = task[v] /\ Busy(v)' = Busy(v)
      BY <2>1 DEF WorksOn, OnlyWorker, Busy
    <2>. QED  BY <1>1, <2>1, <2>2 DEF Serving
  <1>. QED  BY <1>2, <1>3, <1>4 DEF ServingInv

\* A poller takes a step.
LEMMA BesideServing ==
  ASSUME ServingInv, TypeInv', QueueTypeOK', NEW w \in Workers \ Handlers, UNCHANGED queue,
         OnlyWorker(w)
  PROVE  ServingInv'
  <1>1. jobs' = jobs /\ holding' = holding
    BY DEF queue
  <1>2. HeldOnce'
    BY <1>1 DEF ServingInv, HeldOnce
  <1>3. ASSUME NEW v \in Handlers
        PROVE  Serving(v)'
    <2>1. Serving(v) /\ v \in Workers \ {w}
      BY QueueConstants DEF ServingInv
    <2>2. pc'[v] = pc[v] /\ batch'[v] = batch[v] /\ task'[v] = task[v] /\ Busy(v)' = Busy(v)
      BY <2>1 DEF OnlyWorker, Busy
    <2>. QED  BY <1>1, <2>1, <2>2 DEF Serving
  <1>. QED  BY <1>2, <1>3 DEF ServingInv

\* A job that nobody serves is held by nobody.
LEMMA NotHeld ==
  ASSUME ServingInv, NEW j \in Jobs,
         jobs[j] = Absent \/ jobs[j].state \in {"waiting", "delayed", "failed"}
  PROVE  \A w \in Handlers : holding[w] # j
  BY AbsentIsNoJob DEF ServingInv, Serving

\* A handler that processes its message works on the delivery of an active job.
LEMMA HandlerWorks ==
  ASSUME ServingInv, NEW w \in Handlers, HandleMessage(w) \/ Process(w)
  PROVE  /\ holding[w] # Absent
         /\ jobs[holding[w]].state = "active"
         /\ WorksOn(w, jobs[holding[w]].delivery)
  <1>1. Serving(w) /\ TypeInv
    BY DEF ServingInv
  <1>2. CASE HandleMessage(w)
    <2>1. holding[w] # Absent /\ pc[w] = "idle"
      BY <1>2 DEF HandleMessage, ProcessById
    <2>. QED  BY <1>1, <1>2, <2>1, HeldJob, ProcessByIdWorksOn DEF HandleMessage, Serving
  <1>3. CASE Process(w)
    <2>1. pc[w] \notin {"idle", "done"}
      BY <1>3 DEF Process, GetSubscription, GetSubscriptionFails, DeadLetterOrphan,
         MarkDelivering, Send, RecordResult
    <2>2. holding[w] # Absent
      BY <1>1, <2>1 DEF Serving
    <2>. QED  BY <1>1, <1>3, <2>1, <2>2, HeldJob, ProcessWorksOn DEF Serving
  <1>. QED  BY <1>2, <1>3

\* Every step keeps what a handler may assume of the job it holds.
LEMMA ServingStep ==
  ASSUME ServingInv, [QueueNext]_allVars
  PROVE  ServingInv'
  <1>0. TypeInv' /\ QueueTypeOK'
    BY WorkerTypeStep, QueueTypeStep
  <1>00. TypeInv /\ QueueTypeOK
    BY DEF ServingInv
  <1>1. CASE UNCHANGED allVars
    BY <1>0, <1>1, HeldJob, HeldServing DEF allVars, vars, queue
  <1>2. CASE Surroundings /\ UNCHANGED queue
    <2>1. UNCHANGED work
      BY <1>2 DEF Surroundings, Operate, CreateSubscription, UpdateSubscription,
         DeleteSubscription, DeleteDelivery, BecomeDue, Replay, Dispatch, CreateDelivery
    <2>. QED  BY <1>0, <1>2, <2>1, HeldJob, HeldServing DEF queue
  <1>3. ASSUME NEW d \in Deliveries, Enqueue(d)
        PROVE  ServingInv'
    <2>1. PICK j \in Free : jobs' = Added(jobs, j, d, "waiting")
      BY <1>3 DEF Enqueue
    <2>2. j \in Jobs /\ jobs[j] = Absent
      BY <2>1 DEF Free
    <2>3. \A i \in Jobs \ {j} : jobs'[i] = jobs[i]
      BY <1>00, <2>1, <2>2, JobAdded DEF QueueTypeOK
    <2>. QED
      BY <1>0, <1>3, <2>2, <2>3, NotHeld, HeldJob, HeldServing DEF Enqueue, vars
  <1>4. ASSUME NEW j \in Jobs, DelayPasses(j)
        PROVE  ServingInv'
    <2>1. \A i \in Jobs \ {j} : jobs'[i] = jobs[i]
      BY <1>00, <1>4, StateSet DEF DelayPasses, QueueTypeOK
    <2>. QED
      BY <1>0, <1>4, <2>1, NotHeld, HeldJob, HeldServing DEF DelayPasses, vars
  <1>5. ASSUME NEW w \in Handlers, Take(w)
        PROVE  ServingInv'
    <2>1. PICK j \in Jobs : /\ jobs[j] # Absent /\ jobs[j].state = "waiting"
                            /\ jobs' = [jobs EXCEPT ![j].state = "active"]
                            /\ holding' = [holding EXCEPT ![w] = j]
      BY <1>5 DEF Take
    <2>2. /\ jobs'[j] # Absent /\ jobs'[j].state = "active"
          /\ \A i \in Jobs \ {j} : jobs'[i] = jobs[i]
      BY <1>00, <2>1, StateSet DEF QueueTypeOK
    <2>3. holding'[w] = j /\ \A v \in Handlers \ {w} : holding'[v] = holding[v]
      BY <1>00, <2>1 DEF QueueTypeOK
    <2>4. \A v \in Handlers : holding[v] # j
      BY <2>1, NotHeld
    <2>5. /\ holding[w] = Absent /\ pc' = pc /\ batch' = batch /\ task' = task
          /\ \A v \in Handlers : Busy(v)' = Busy(v)
      BY <1>5 DEF Take, vars, work, Busy
    <2>6. HeldOnce'
      BY <2>3, <2>4 DEF HeldOnce, ServingInv
    <2>7. pc[w] = "idle" /\ batch[w] = {}
      BY <2>5 DEF ServingInv, Serving
    <2>8. Serving(w)'
      BY <2>2, <2>3, <2>5, <2>7 DEF Serving, Busy
    <2>9. ASSUME NEW v \in Handlers \ {w}
          PROVE  Serving(v)'
      <3>1. holding[v] # Absent => jobs'[holding[v]] = jobs[holding[v]]
        BY <2>2, <2>4, HeldJob
      <3>2. Serving(v)
        BY DEF ServingInv
      <3>. QED  BY <2>3, <2>5, <3>1, <3>2 DEF Serving
    <2>. QED  BY <1>0, <2>6, <2>8, <2>9 DEF ServingInv
  <1>6. ASSUME NEW w \in Handlers, HandleMessage(w) \/ (Process(w) /\ UNCHANGED queue)
        PROVE  ServingInv'
    BY <1>0, <1>6, HandlerWorks, WorkServing DEF HandleMessage
  <1>7. ASSUME NEW w \in Handlers, Ack(w) \/ DeadLetterJob(w)
        PROVE  ServingInv'
    <2>1. Settling(w) /\ jobs' = Resolved(w) /\ UNCHANGED <<vars, holding>>
      BY <1>7 DEF Ack, DeadLetterJob
    <2>2. Moved(holding[w], "settled")
      BY <2>1, SettledJob
    <2>3. \A v \in Handlers : holding[v] # Absent =>
            /\ holding[v] \in Jobs
            /\ holding[v] = holding[w] => v = w
      BY HeldJob DEF ServingInv, HeldOnce
    <2>. QED
      BY <1>0, <1>00, <2>1, <2>2, <2>3, HeldJob, HeldServing DEF Moved, Settling, vars
  <1>8. ASSUME NEW w \in Handlers, RetryJob(w)
        PROVE  ServingInv'
    <2>1. PICK j \in Jobs : Published(j, jobs[holding[w]].delivery, "delayed", {holding[w]})
      BY <1>8, RetriedJob
    <2>2. Settling(w) /\ UNCHANGED <<vars, holding>>
      BY <1>8 DEF RetryJob
    <2>3. \A v \in Handlers : holding[v] # Absent =>
            /\ holding[v] \in Jobs /\ holding[v] # j
            /\ holding[v] = holding[w] => v = w
      BY <2>1, HeldJob, NotHeld DEF ServingInv, HeldOnce, Published
    <2>4. ASSUME NEW v \in Handlers, holding[v] # Absent
          PROVE  /\ jobs'[holding[v]] # Absent
                 /\ jobs'[holding[v]].delivery = jobs[holding[v]].delivery
                 /\ \/ jobs'[holding[v]].state = jobs[holding[v]].state
                    \/ jobs'[holding[v]].state = "settled" /\ pc[v] = "done"
      <3>1. CASE v = w
        BY <2>1, <2>2, <3>1 DEF Published, Settling
      <3>2. CASE v # w
        <4>1. holding[v] \in Jobs \ {j, holding[w]}
          BY <2>3, <2>4, <3>2
        <4>2. jobs'[holding[v]] = jobs[holding[v]]
          BY <2>1, <4>1 DEF Published
        <4>. QED  BY <2>4, <4>2, HeldJob
      <3>. QED  BY <3>1, <3>2
    <2>. QED
      BY <1>0, <2>2, <2>4, HeldServing DEF vars
  <1>9. ASSUME NEW w \in Handlers, Complete(w)
        PROVE  ServingInv'
    <2>1. /\ holding[w] # Absent /\ jobs' = [jobs EXCEPT ![holding[w]] = Absent]
          /\ holding' = [holding EXCEPT ![w] = Absent]
          /\ Return(w) /\ w \in Workers
      BY <1>9, QueueConstants DEF Complete, LetGo
    <2>2. pc[w] = "done" /\ pc'[w] = "idle" /\ batch' = batch /\ OnlyWorker(w)
      BY <1>00, <2>1, PollOnly DEF Return, Poll, TypeInv, TypeOK
    <2>3. batch'[w] = {}
      BY <2>2 DEF ServingInv, Serving
    <2>4. \A i \in Jobs \ {holding[w]} : jobs'[i] = jobs[i]
      BY <1>00, <2>1 DEF QueueTypeOK
    <2>. QED  BY <1>0, <2>1, <2>2, <2>3, <2>4, LetGoServing
  <1>10. ASSUME NEW w \in Handlers, SettleFails(w)
         PROVE  ServingInv'
    <2>1. /\ holding[w] # Absent /\ jobs' = [jobs EXCEPT ![holding[w]].state = "failed"]
          /\ holding' = [holding EXCEPT ![w] = Absent]
          /\ pc[w] = "done" /\ w \in Workers
      BY <1>10, QueueConstants DEF SettleFails, Settling
    <2>2. pc'[w] = "idle" /\ batch' = batch /\ OnlyWorker(w)
      BY <1>00, <1>10, <2>1 DEF SettleFails, OnlyWorker, TypeInv, TypeOK
    <2>3. batch'[w] = {}
      BY <2>1, <2>2 DEF ServingInv, Serving
    <2>4. \A i \in Jobs \ {holding[w]} : jobs'[i] = jobs[i]
      BY <1>00, <2>1 DEF QueueTypeOK
    <2>. QED  BY <1>0, <2>1, <2>2, <2>3, <2>4, LetGoServing
  <1>11. ASSUME NEW w \in Handlers, HandlerCrash(w)
         PROVE  ServingInv'
    <2>1. /\ holding[w] # Absent
          /\ holding' = [holding EXCEPT ![w] = Absent]
          /\ Forget(w) /\ w \in Workers
      BY <1>11, QueueConstants DEF HandlerCrash
    <2>2. pc'[w] = "idle" /\ batch'[w] = {} /\ OnlyWorker(w)
      BY <1>00, <2>1, PollOnly DEF Forget, TypeInv, TypeOK
    <2>3. \A i \in Jobs \ {holding[w]} : jobs'[i] = jobs[i]
      BY <1>11, StalledJob DEF Moved
    <2>. QED  BY <1>0, <2>1, <2>2, <2>3, LetGoServing
  <1>12. ASSUME NEW w \in Workers \ Handlers, PollBeside(w) \/ (Crash(w) /\ UNCHANGED queue)
         PROVE  ServingInv'
    BY <1>0, <1>00, <1>12, PollOnly, BesideServing DEF PollBeside, Crash
  <1>. QED
    BY <1>1, <1>2, <1>3, <1>4, <1>5, <1>6, <1>7, <1>8, <1>9, <1>10, <1>11, <1>12
       DEF QueueNext, Handle

\* In the beginning nobody holds a job.
LEMMA ServingInit == QueueInit => ServingInv
  <1>. SUFFICES ASSUME QueueInit PROVE ServingInv
    OBVIOUS
  <1>1. QueueTypeOK
    BY DEF QueueInit, QueueTypeOK
  <1>2. \A w \in Handlers : holding[w] = Absent /\ pc[w] = "idle" /\ batch[w] = {}
    BY QueueConstants DEF QueueInit, Init
  <1>. QED  BY <1>1, <1>2, TypeInvInit DEF QueueInit, ServingInv, Serving, HeldOnce

--------------------------------------------------------------------------------
(* What becomes of the jobs of a delivery that still needs one.            *)

\* A step after which no more jobs are about to be let go of.
LEMMA LeavingLess ==
  ASSUME ServingInv, NEW results, NEW j \in Jobs,
         \/ UNCHANGED <<work, holding>>
         \/ \E w \in Handlers : Take(w)
         \/ \E w \in Handlers : OnlyWorker(w) /\ holding' = [holding EXCEPT ![w] = Absent],
         Leaving(j, results)'
  PROVE  Leaving(j, results)
  <1>1. PICK v \in Handlers : holding'[v] = j /\ pc'[v] = "done" /\ outcome'[v] \in results
    BY DEF Leaving
  <1>2. holding \in [Handlers -> Jobs \cup {Absent}] /\ v \in Workers /\ j # Absent
    BY QueueConstants, AbsentIsNoJob DEF ServingInv, QueueTypeOK
  <1>3. CASE UNCHANGED <<work, holding>>
    BY <1>1, <1>3 DEF Leaving, work
  <1>4. ASSUME NEW w \in Handlers, Take(w)
        PROVE  Leaving(j, results)
    <2>1. pc' = pc /\ outcome' = outcome /\ holding[w] = Absent
      BY <1>4 DEF Take, vars, work
    <2>2. v # w
      BY <1>1, <2>1 DEF ServingInv, Serving
    <2>3. holding'[v] = holding[v]
      BY <1>2, <1>4, <2>2 DEF Take
    <2>. QED  BY <1>1, <2>1, <2>3 DEF Leaving
  <1>5. ASSUME NEW w \in Handlers, OnlyWorker(w), holding' = [holding EXCEPT ![w] = Absent]
        PROVE  Leaving(j, results)
    <2>1. v # w /\ holding'[v] = holding[v]
      BY <1>1, <1>2, <1>5
    <2>2. pc'[v] = pc[v] /\ outcome'[v] = outcome[v]
      BY <1>2, <1>5, <2>1 DEF OnlyWorker
    <2>. QED  BY <1>1, <2>1, <2>2 DEF Leaving
  <1>. QED  BY <1>3, <1>4, <1>5

\* A job that stays among the unsettled ones carries its delivery on.
LEMMA CarriedOn ==
  ASSUME NEW d \in Deliveries, NEW results,
         \A j \in Jobs : Leaving(j, results)' => Leaving(j, results),
         \A j \in Unsettled(d) : ~Leaving(j, results) => j \in Unsettled(d)',
         Carried(d, results)
  PROVE  Carried(d, results)'
  <1>1. PICK j \in Unsettled(d) : ~Leaving(j, results)
    BY DEF Carried
  <1>2. j \in Jobs /\ j \in Unsettled(d)' /\ ~Leaving(j, results)'
    BY <1>1 DEF Unsettled, JobsOf
  <1>. QED  BY <1>2 DEF Carried

\* So does a job that is published: nobody holds it yet.
LEMMA CarriedByNew ==
  ASSUME ServingInv, NEW d \in Deliveries, NEW results, NEW j \in Jobs,
         jobs[j] = Absent, UNCHANGED holding,
         jobs'[j] # Absent, jobs'[j].delivery = d, jobs'[j].state \in {"waiting", "delayed"}
  PROVE  Carried(d, results)'
  <1>1. ~Leaving(j, results)'
    BY NotHeld DEF Leaving
  <1>. QED  BY <1>1 DEF Carried, Unsettled, JobsOf

\* A job moved to any other state than settled is still unsettled.
LEMMA MovedUnsettled ==
  ASSUME NEW d \in Deliveries, NEW h \in Jobs,
         NEW state \in {"waiting", "delayed", "active", "failed"}, Moved(h, state)
  PROVE  Unsettled(d) \subseteq Unsettled(d)'
  BY DEF Moved, Unsettled, JobsOf

\* Settlement leaves the jobs of other deliveries alone.
LEMMA OthersUnsettled ==
  ASSUME NEW d \in Deliveries, NEW h \in Jobs,
         \A i \in Jobs \ {h} : jobs[i] # Absent => jobs'[i] = jobs[i]
  PROVE  Unsettled(d) \ {h} \subseteq Unsettled(d)'
  BY DEF Unsettled, JobsOf

\* No step but the processing of d gives a delivery d up that a job carries: a handler
\* lets its job go only with one of the results, or with another job published.
LEMMA StillCarried ==
  ASSUME ServingInv, NEW d \in Deliveries, NEW results \in {Final, Silent}, Carried(d, results),
         \/ UNCHANGED <<work, jobs, holding>>
         \/ \E e \in Deliveries : Enqueue(e)
         \/ \E j \in Jobs : DelayPasses(j)
         \/ \E w \in Handlers :
              \/ Take(w) \/ Ack(w) \/ RetryJob(w) \/ Complete(w)
              \/ SettleFails(w) \/ HandlerCrash(w)
              \/ DeadLetterJob(w) /\ (results = Final \/ jobs[holding[w]].delivery # d)
  PROVE  Carried(d, results)'
  <1>0. TypeInv /\ QueueTypeOK /\ Silent \subseteq results
    BY DEF ServingInv, Final, Silent
  <1>1. CASE UNCHANGED <<work, jobs, holding>>
    <2>1. Unsettled(d)' = Unsettled(d)
      BY <1>1 DEF Unsettled, JobsOf
    <2>. QED  BY <1>1, <2>1, LeavingLess, CarriedOn
  <1>2. ASSUME NEW e \in Deliveries, Enqueue(e)
        PROVE  Carried(d, results)'
    <2>1. PICK j \in Free : jobs' = Added(jobs, j, e, "waiting")
      BY <1>2 DEF Enqueue
    <2>2. j \in Jobs /\ jobs[j] = Absent
      BY <2>1 DEF Free
    <2>3. \A i \in Jobs \ {j} : jobs'[i] = jobs[i]
      BY <1>0, <2>1, <2>2, JobAdded DEF QueueTypeOK
    <2>4. Unsettled(d) \subseteq Unsettled(d)'
      BY <2>2, <2>3 DEF Unsettled, JobsOf
    <2>. QED  BY <1>2, <2>4, LeavingLess, CarriedOn DEF Enqueue, vars
  <1>3. ASSUME NEW j \in Jobs, DelayPasses(j)
        PROVE  Carried(d, results)'
    <2>1. Moved(j, "waiting")
      BY <1>0, <1>3, StateSet DEF DelayPasses, QueueTypeOK, Moved
    <2>. QED  BY <1>3, <2>1, MovedUnsettled, LeavingLess, CarriedOn DEF DelayPasses, vars
  <1>4. ASSUME NEW w \in Handlers, Take(w)
        PROVE  Carried(d, results)'
    <2>1. PICK j \in Jobs : jobs[j] # Absent /\ jobs' = [jobs EXCEPT ![j].state = "active"]
      BY <1>4 DEF Take
    <2>2. Moved(j, "active")
      BY <1>0, <2>1, StateSet DEF QueueTypeOK, Moved
    <2>. QED  BY <1>4, <2>2, MovedUnsettled, LeavingLess, CarriedOn
  <1>5. ASSUME NEW w \in Handlers,
               \/ Ack(w)
               \/ DeadLetterJob(w) /\ (results = Final \/ jobs[holding[w]].delivery # d)
        PROVE  Carried(d, results)'
    <2>1. Settling(w) /\ jobs' = Resolved(w) /\ UNCHANGED <<vars, holding>>
      BY <1>5 DEF Ack, DeadLetterJob
    <2>2. Moved(holding[w], "settled") /\ holding[w] \in Jobs
      BY <2>1, SettledJob, HeldJob DEF Settling
    <2>3. \A j \in Unsettled(d) \ {holding[w]} : j \in Unsettled(d)'
      BY <2>2, OthersUnsettled DEF Moved
    <2>4. CASE outcome[w] \in results
      <3>1. Leaving(holding[w], results)
        BY <2>1, <2>4 DEF Leaving, Settling
      <3>. QED  BY <2>1, <2>3, <3>1, LeavingLess, CarriedOn DEF vars
    <2>5. CASE outcome[w] \notin results
      <3>1. ~Ack(w)
        BY <1>0, <2>5 DEF Ack, Silent
      <3>2. outcome[w] = "dead_lettered" /\ DeadLetterJob(w)
        BY <1>5, <3>1 DEF DeadLetterJob
      <3>3. results # Final
        BY <2>5, <3>2 DEF Final
      <3>4. holding[w] \notin Unsettled(d)
        BY <1>5, <3>1, <3>3 DEF Unsettled, JobsOf
      <3>. QED  BY <2>1, <2>3, <3>4, LeavingLess, CarriedOn DEF vars
    <2>. QED  BY <2>4, <2>5
  <1>6. ASSUME NEW w \in Handlers, RetryJob(w)
        PROVE  Carried(d, results)'
    <2>1. PICK j \in Jobs : Published(j, jobs[holding[w]].delivery, "delayed", {holding[w]})
      BY <1>6, RetriedJob
    <2>2. UNCHANGED <<vars, holding>> /\ holding[w] # Absent
      BY <1>6 DEF RetryJob, Settling
    <2>3. CASE jobs[holding[w]].delivery = d
      BY <2>1, <2>2, <2>3, CarriedByNew DEF Published
    <2>4. CASE jobs[holding[w]].delivery # d
      <3>1. holding[w] \in Jobs /\ holding[w] \notin Unsettled(d)
        BY <2>2, <2>4, HeldJob DEF Unsettled, JobsOf
      <3>2. \A i \in Jobs \ {holding[w]} : jobs[i] # Absent => jobs'[i] = jobs[i]
        BY <2>1 DEF Published
      <3>3. Unsettled(d) \subseteq Unsettled(d)'
        BY <3>1, <3>2, OthersUnsettled
      <3>. QED  BY <2>2, <3>3, LeavingLess, CarriedOn DEF vars
    <2>. QED  BY <2>3, <2>4
  <1>7. ASSUME NEW w \in Handlers, Complete(w)
        PROVE  Carried(d, results)'
    <2>1. /\ holding[w] # Absent /\ jobs[holding[w]].state = "settled"
          /\ jobs' = [jobs EXCEPT ![holding[w]] = Absent]
          /\ holding' = [holding EXCEPT ![w] = Absent]
          /\ Return(w) /\ w \in Workers
      BY <1>7, QueueConstants DEF Complete, LetGo
    <2>2. OnlyWorker(w)
      BY <1>0, <2>1, PollOnly DEF Poll
    <2>3. holding[w] \in Jobs /\ holding[w] \notin Unsettled(d)
      BY <2>1, HeldJob DEF Unsettled, JobsOf
    <2>4. \A i \in Jobs \ {holding[w]} : jobs'[i] = jobs[i]
      BY <1>0, <2>1 DEF QueueTypeOK
    <2>5. Unsettled(d) \subseteq Unsettled(d)'
      BY <2>3, <2>4, OthersUnsettled
    <2>. QED  BY <2>1, <2>2, <2>5, LeavingLess, CarriedOn
  <1>8. ASSUME NEW w \in Handlers, SettleFails(w)
        PROVE  Carried(d, results)'
    <2>1. /\ holding[w] # Absent /\ jobs' = [jobs EXCEPT ![holding[w]].state = "failed"]
          /\ holding' = [holding EXCEPT ![w] = Absent] /\ w \in Workers
      BY <1>8, QueueConstants DEF SettleFails, Settling
    <2>2. OnlyWorker(w)
      BY <1>0, <1>8, <2>1 DEF SettleFails, OnlyWorker, TypeInv, TypeOK
    <2>3. Moved(holding[w], "failed") /\ holding[w] \in Jobs
      BY <1>0, <2>1, HeldJob, StateSet DEF QueueTypeOK, Moved
    <2>. QED  BY <2>1, <2>2, <2>3, MovedUnsettled, LeavingLess, CarriedOn
  <1>9. ASSUME NEW w \in Handlers, HandlerCrash(w)
        PROVE  Carried(d, results)'
    <2>1. /\ holding[w] # Absent /\ holding' = [holding EXCEPT ![w] = Absent]
          /\ Forget(w) /\ w \in Workers
      BY <1>9, QueueConstants DEF HandlerCrash
    <2>2. OnlyWorker(w) /\ holding[w] \in Jobs
      BY <1>0, <2>1, PollOnly, HeldJob
    <2>3. Unsettled(d) \subseteq Unsettled(d)'
      BY <1>9, <2>2, StalledJob, MovedUnsettled
    <2>. QED  BY <2>1, <2>2, <2>3, LeavingLess, CarriedOn
  <1>. QED
    BY <1>1, <1>2, <1>3, <1>4, <1>5, <1>6, <1>7, <1>8, <1>9

\* The processing of one delivery changes nothing for another.
LEMMA WorkElsewhere ==
  ASSUME ServingInv, NEW d \in Deliveries, NEW results, Carried(d, results),
         NEW w \in Handlers, UNCHANGED queue, OnlyWorker(w),
         holding[w] # Absent, jobs[holding[w]].delivery # d
  PROVE  Carried(d, results)'
  <1>1. PICK j \in Unsettled(d) : ~Leaving(j, results)
    BY DEF Carried
  <1>2. j \in Unsettled(d)' /\ j # holding[w] /\ holding' = holding
    BY <1>1 DEF queue, Unsettled, JobsOf
  <1>3. ~Leaving(j, results)'
    BY <1>1, <1>2, QueueConstants DEF Leaving, OnlyWorker
  <1>. QED  BY <1>2, <1>3 DEF Carried

\* A handler whose processing goes on, or ended in another way, carries its delivery.
LEMMA WorkCarries ==
  ASSUME ServingInv, ServingInv', NEW results, NEW w \in Handlers, UNCHANGED queue,
         NEW d \in Deliveries,
         holding[w] # Absent, jobs[holding[w]].delivery = d, jobs[holding[w]].state = "active",
         ~(pc'[w] = "done" /\ outcome'[w] \in results)
  PROVE  Carried(d, results)'
  <1>1. PICK j \in Jobs : j = holding[w]
    BY HeldJob
  <1>2. jobs' = jobs /\ holding' = holding
    BY DEF queue
  <1>3. j \in Unsettled(d)'
    BY <1>1, <1>2, HeldJob DEF Unsettled, JobsOf
  <1>4. ~Leaving(j, results)'
    <2>1. \A v \in Handlers : holding[v] = j => v = w
      BY <1>1, HeldJob DEF ServingInv, HeldOnce
    <2>. QED  BY <1>2, <2>1 DEF Leaving
  <1>. QED  BY <1>3, <1>4 DEF Carried

--------------------------------------------------------------------------------
(* Nothing is stranded.  Both properties speak of a queue whose handlers   *)
(* are all the workers there are: a poller beside the queue may reopen, or *)
(* dead-letter, a delivery whose last job was completed.                   *)

OnlyHandlers == Handlers = Workers

\* A handler's step on its delivery leaves it carried, or in no need of a job.
LEMMA WorkPending ==
  ASSUME ServingInv, ServingInv', NEW w \in Handlers, NEW d \in Deliveries, UNCHANGED queue,
         holding[w] # Absent, jobs[holding[w]].delivery = d, jobs[holding[w]].state = "active",
         WorksOn(w, d)
  PROVE  /\ Open(d)' => Carried(d, Final)'
         /\ (Closed(d) /\ store[d].status = "dead_lettered")' => Carried(d, Silent)'
  <1>1. ASSUME Open(d)', pc'[w] = "done", outcome'[w] \in Final
        PROVE  FALSE
    BY <1>1 DEF Open, WorksOn, Final
  <1>2. ASSUME (Closed(d) /\ store[d].status = "dead_lettered")',
               pc'[w] = "done", outcome'[w] \in Silent
        PROVE  FALSE
    BY <1>2 DEF Closed, WorksOn, Silent
  <1>. QED  BY <1>1, <1>2, WorkCarries

\* What is around the worker opens only deliveries that were never enqueued, unless an
\* operator replays one, and dead-letters none.
LEMMA AroundPending ==
  ASSUME ServingInv, EnqueuedIssued, Surroundings, UNCHANGED queue, NEW d \in Deliveries
  PROVE  /\ Replayed = {} /\ Pending(d)' => Pending(d)
         /\ Unpublished(d)' => Unpublished(d)
         /\ UNCHANGED work
  <1>0. TypeOK /\ enqueues' = enqueues /\ dlq' = dlq
    BY DEF ServingInv, TypeInv, queue
  <1>1. CASE Operate
    <2>1. store'[d] \in {store[d], Absent} /\ UNCHANGED work
      BY <1>0, <1>1 DEF Operate, CreateSubscription, UpdateSubscription, DeleteSubscription,
         DeleteDelivery, TypeOK
    <2>. QED  BY <1>0, <2>1 DEF Pending, Unpublished, Open, Closed
  <1>2. ASSUME NEW e \in Deliveries, BecomeDue(e)
        PROVE  UNCHANGED work /\ (store'[d] # Absent =>
                                    store[d] # Absent /\ store'[d].status = store[d].status)
    BY <1>0, <1>2 DEF BecomeDue, TypeOK, Delivery
  <1>3. ASSUME NEW e \in Replayed, Replay(e)
        PROVE  /\ UNCHANGED work /\ Replayed # {}
               /\ store'[d] = store[d] \/ store'[d].status = "pending"
    BY <1>0, <1>3, QueueConstants DEF Replay, Row, TypeOK
  <1>4. ASSUME NEW e \in Deliveries, NEW s \in Subscriptions, CreateDelivery(e, s)
        PROVE  /\ UNCHANGED work
               /\ store'[d] = store[d]
                    \/ (store'[d].status = "pending" /\ ~(enqueues[d] > 0))
    BY <1>0, <1>4 DEF CreateDelivery, Row, TypeOK, EnqueuedIssued
  <1>. QED
    BY <1>0, <1>1, <1>2, <1>3, <1>4
       DEF Surroundings, Dispatch, Pending, Unpublished, Open, Closed

\* A delivery that has a row, or was enqueued, was created: every step keeps that.
LEMMA IssuedStep ==
  ASSUME CarriedInv, [QueueNext]_allVars
  PROVE  CarriedInv'
  <1>0. ServingInv /\ ServingInv' /\ EnqueuedIssued /\ TypeOK
    BY ServingStep DEF CarriedInv, ServingInv, TypeInv
  <1>1. CASE UNCHANGED <<store, issued, enqueues>>
    BY <1>0, <1>1 DEF CarriedInv, EnqueuedIssued
  <1>2. ASSUME NEW d \in Deliveries, Enqueue(d)
        PROVE  CarriedInv'
    <2>1. /\ store[d] # Absent /\ store' = store /\ issued' = issued
          /\ \A e \in Deliveries \ {d} : enqueues'[e] = enqueues[e]
      BY <1>0, <1>2 DEF Enqueue, vars, data, ServingInv, QueueTypeOK
    <2>. QED  BY <1>0, <2>1 DEF CarriedInv, EnqueuedIssued
  <1>3. CASE Surroundings /\ UNCHANGED queue
    <2>1. issued \subseteq issued' /\ enqueues' = enqueues
      BY <1>3 DEF Surroundings, Operate, CreateSubscription, UpdateSubscription,
         DeleteSubscription, DeleteDelivery, BecomeDue, Replay, Dispatch, CreateDelivery, queue
    <2>2. ASSUME NEW d \in Deliveries, store'[d] # Absent
          PROVE  d \in issued'
      BY <1>0, <1>3, <2>2, QueueConstants
         DEF EnqueuedIssued, TypeOK, Surroundings, Operate, CreateSubscription,
         UpdateSubscription, DeleteSubscription, DeleteDelivery, BecomeDue, Replay, Dispatch,
         CreateDelivery
    <2>. QED  BY <1>0, <2>1, <2>2 DEF CarriedInv, EnqueuedIssued
  <1>4. ASSUME NEW w \in Workers, Process(w), UNCHANGED queue
        PROVE  CarriedInv'
    <2>1. /\ issued' = issued /\ enqueues' = enqueues
          /\ \A d \in Deliveries : store'[d] # Absent => store[d] # Absent
      <3>1. issued' = issued /\ enqueues' = enqueues
        BY <1>4 DEF Process, GetSubscription, GetSubscriptionFails, DeadLetterOrphan,
           MarkDelivering, Send, RecordResult, UpdateFails, data, queue
      <3>2. CASE store' = store
        BY <3>1, <3>2
      <3>3. CASE store' # store
        <4>1. Busy(w) /\ store[task[w].id] # Absent
          BY <1>4, <3>3 DEF Process, GetSubscription, GetSubscriptionFails, DeadLetterOrphan,
             MarkDelivering, Send, RecordResult, UpdateFails, data, Busy
        <4>2. \E status, count, next : store' \in {store, Written(w, status, count, next)}
          BY <1>4, <3>3 DEF Process, GetSubscription, GetSubscriptionFails, DeadLetterOrphan,
             MarkDelivering, Send, RecordResult, UpdateFails, data
        <4>. QED  BY <1>0, <3>1, <4>1, <4>2, WrittenRows DEF ServingInv
      <3>. QED  BY <3>2, <3>3
    <2>. QED  BY <1>0, <2>1 DEF CarriedInv, EnqueuedIssued
  <1>5. ASSUME NEW w \in Handlers,
               \/ Take(w) \/ HandleMessage(w) \/ Ack(w) \/ RetryJob(w) \/ DeadLetterJob(w)
               \/ Complete(w) \/ SettleFails(w) \/ HandlerCrash(w)
        PROVE  UNCHANGED <<store, issued, enqueues>>
    BY <1>5 DEF Take, HandleMessage, ProcessById, Ack, RetryJob, DeadLetterJob, Complete, LetGo,
       Return, SettleFails, HandlerCrash, Forget, vars, data, queue
  <1>6. ASSUME NEW w \in Workers,
               (RunOnce(w) \/ Return(w) \/ Crash(w)) /\ UNCHANGED queue
        PROVE  UNCHANGED <<store, issued, enqueues>>
    BY <1>6 DEF RunOnce, Return, Crash, Forget, data, queue
  <1>7. CASE UNCHANGED allVars \/ \E j \in Jobs : DelayPasses(j)
    BY <1>1, <1>7 DEF DelayPasses, allVars, vars, data, queue
  <1>. QED
    BY <1>1, <1>2, <1>3, <1>4, <1>5, <1>6, <1>7, QueueConstants
       DEF QueueNext, Handle, PollBeside, Poll

\* What holds of a delivery that was just enqueued.
LEMMA EnqueueCarries ==
  ASSUME ServingInv, NEW e \in Deliveries, NEW d \in Deliveries, NEW results, Enqueue(e)
  PROVE  /\ e = d => Carried(d, results)'
         /\ e # d => enqueues'[d] = enqueues[d]
         /\ UNCHANGED <<vars, dlq>>
  <1>1. PICK j \in Free : jobs' = Added(jobs, j, e, "waiting")
    BY DEF Enqueue
  <1>2. j \in Jobs /\ jobs[j] = Absent /\ holding' = holding
    BY <1>1 DEF Free, Enqueue
  <1>3. jobs'[j] # Absent /\ jobs'[j].delivery = e /\ jobs'[j].state = "waiting"
    BY <1>1, <1>2, JobAdded DEF ServingInv, QueueTypeOK
  <1>4. e = d => Carried(d, results)'
    BY <1>2, <1>3, CarriedByNew
  <1>. QED  BY <1>4 DEF Enqueue, ServingInv, QueueTypeOK

\* Every other step, with no poller beside the queue, leaves what deliveries need as it is.
LEMMA QuietSteps ==
  ASSUME OnlyHandlers, ServingInv, QueueNext \/ UNCHANGED allVars
  PROVE  \/ Surroundings /\ UNCHANGED queue
         \/ \E e \in Deliveries : Enqueue(e)
         \/ \E w \in Handlers :
              UNCHANGED queue /\ (HandleMessage(w) \/ Process(w))
         \/ /\ UNCHANGED <<store, enqueues>>
            /\ \/ UNCHANGED <<work, jobs, holding, dlq>>
               \/ UNCHANGED dlq /\ \E j \in Jobs : DelayPasses(j)
               \/ /\ UNCHANGED dlq
                  /\ \E w \in Handlers :
                       \/ Take(w) \/ Ack(w) \/ RetryJob(w) \/ Complete(w)
                       \/ SettleFails(w) \/ HandlerCrash(w)
               \/ /\ \E w \in Handlers : DeadLetterJob(w)
  <1>1. CASE UNCHANGED allVars
    BY <1>1 DEF allVars, vars, data, queue
  <1>2. ASSUME NEW w \in Handlers, HandleMessage(w) \/ (Process(w) /\ UNCHANGED queue)
        PROVE  UNCHANGED queue /\ (HandleMessage(w) \/ Process(w))
    BY <1>2 DEF HandleMessage
  <1>3. CASE \E j \in Jobs : DelayPasses(j)
    BY <1>3 DEF DelayPasses, vars, data
  <1>4. ASSUME NEW w \in Handlers, Take(w) \/ Ack(w) \/ RetryJob(w) \/ Complete(w)
                                     \/ SettleFails(w) \/ HandlerCrash(w)
        PROVE  UNCHANGED <<store, enqueues, dlq>>
    BY <1>4 DEF Take, Ack, RetryJob, Complete, LetGo, Return, SettleFails, HandlerCrash, Forget,
       vars, data
  <1>5. ASSUME NEW w \in Handlers, DeadLetterJob(w)
        PROVE  UNCHANGED <<store, enqueues>>
    BY <1>5 DEF DeadLetterJob, vars, data
  <1>. QED
    BY <1>1, <1>2, <1>3, <1>4, <1>5 DEF OnlyHandlers, QueueNext, Handle

\* Every step keeps a job for each delivery that needs further work.
LEMMA OpenCarriedStep ==
  ASSUME OnlyHandlers, Replayed = {}, CarriedInv, OpenCarried, [QueueNext]_allVars
  PROVE  OpenCarried'
  <1>. SUFFICES ASSUME NEW d \in Deliveries, Pending(d)'
                PROVE  Carried(d, Final)'
    BY DEF OpenCarried
  <1>0. ServingInv /\ ServingInv' /\ EnqueuedIssued
    BY ServingStep DEF CarriedInv
  <1>1. CASE Surroundings /\ UNCHANGED queue
    <2>1. Pending(d) /\ UNCHANGED work
      BY <1>0, <1>1, AroundPending
    <2>. QED  BY <1>0, <1>1, <2>1, StillCarried DEF OpenCarried, queue
  <1>2. ASSUME NEW e \in Deliveries, Enqueue(e)
        PROVE  Carried(d, Final)'
    <2>1. CASE e # d
      <3>1. Pending(d)
        BY <1>0, <1>2, <2>1, EnqueueCarries DEF Pending, Open, vars, data
      <3>. QED  BY <1>0, <1>2, <3>1, StillCarried DEF OpenCarried
    <2>. QED  BY <1>0, <1>2, <2>1, EnqueueCarries
  <1>3. ASSUME NEW w \in Handlers, UNCHANGED queue, HandleMessage(w) \/ Process(w)
        PROVE  Carried(d, Final)'
    <2>1. PICK e \in Deliveries : e = jobs[holding[w]].delivery
      BY <1>0, <1>3, HandlerWorks, HeldJob
    <2>2. holding[w] # Absent /\ jobs[holding[w]].state = "active" /\ WorksOn(w, e)
      BY <1>0, <1>3, <2>1, HandlerWorks
    <2>3. CASE e = d
      BY <1>0, <1>3, <2>1, <2>2, <2>3, WorkPending DEF Pending
    <2>4. CASE e # d
      <3>1. Pending(d)
        BY <1>3, <2>2, <2>4 DEF WorksOn, Pending, Open, queue
      <3>. QED  BY <1>0, <1>3, <2>1, <2>2, <2>4, <3>1, WorkElsewhere DEF WorksOn, OpenCarried
    <2>. QED  BY <2>3, <2>4
  <1>4. ASSUME UNCHANGED <<store, enqueues>>,
               \/ UNCHANGED <<work, jobs, holding>>
               \/ \E j \in Jobs : DelayPasses(j)
               \/ \E w \in Handlers :
                    \/ Take(w) \/ Ack(w) \/ RetryJob(w) \/ Complete(w)
                    \/ SettleFails(w) \/ HandlerCrash(w) \/ DeadLetterJob(w)
        PROVE  Carried(d, Final)'
    <2>1. Pending(d)
      BY <1>4 DEF Pending, Open
    <2>. QED  BY <1>0, <1>4, <2>1, StillCarried DEF OpenCarried
  <1>. QED  BY <1>0, <1>1, <1>2, <1>3, <1>4, QuietSteps

\* Every step keeps a job for each dead-lettered delivery until it is published.
LEMMA DeadCarriedStep ==
  ASSUME OnlyHandlers, CarriedInv, DeadCarried, [QueueNext]_allVars
  PROVE  DeadCarried'
  <1>. SUFFICES ASSUME NEW d \in Deliveries, Unpublished(d)'
                PROVE  Carried(d, Silent)'
    BY DEF DeadCarried
  <1>0. ServingInv /\ ServingInv' /\ EnqueuedIssued
    BY ServingStep DEF CarriedInv
  <1>1. CASE Surroundings /\ UNCHANGED queue
    <2>1. Unpublished(d) /\ UNCHANGED work
      BY <1>0, <1>1, AroundPending
    <2>. QED  BY <1>0, <1>1, <2>1, StillCarried DEF DeadCarried, queue
  <1>2. ASSUME NEW e \in Deliveries, Enqueue(e)
        PROVE  Carried(d, Silent)'
    <2>1. CASE e # d
      <3>1. Unpublished(d)
        BY <1>0, <1>2, <2>1, EnqueueCarries DEF Unpublished, Closed, vars, data
      <3>. QED  BY <1>0, <1>2, <3>1, StillCarried DEF DeadCarried
    <2>. QED  BY <1>0, <1>2, <2>1, EnqueueCarries
  <1>3. ASSUME NEW w \in Handlers, UNCHANGED queue, HandleMessage(w) \/ Process(w)
        PROVE  Carried(d, Silent)'
    <2>1. PICK e \in Deliveries : e = jobs[holding[w]].delivery
      BY <1>0, <1>3, HandlerWorks, HeldJob
    <2>2. holding[w] # Absent /\ jobs[holding[w]].state = "active" /\ WorksOn(w, e)
      BY <1>0, <1>3, <2>1, HandlerWorks
    <2>3. CASE e = d
      BY <1>0, <1>3, <2>1, <2>2, <2>3, WorkPending DEF Unpublished
    <2>4. CASE e # d
      <3>1. Unpublished(d)
        BY <1>3, <2>2, <2>4 DEF WorksOn, Unpublished, Closed, queue
      <3>. QED  BY <1>0, <1>3, <2>1, <2>2, <2>4, <3>1, WorkElsewhere DEF WorksOn, DeadCarried
    <2>. QED  BY <2>3, <2>4
  <1>4. ASSUME UNCHANGED <<store, enqueues, dlq>>,
               \/ UNCHANGED <<work, jobs, holding>>
               \/ \E j \in Jobs : DelayPasses(j)
               \/ \E w \in Handlers :
                    \/ Take(w) \/ Ack(w) \/ RetryJob(w) \/ Complete(w)
                    \/ SettleFails(w) \/ HandlerCrash(w)
        PROVE  Carried(d, Silent)'
    <2>1. Unpublished(d)
      BY <1>4 DEF Unpublished, Closed
    <2>. QED  BY <1>0, <1>4, <2>1, StillCarried DEF DeadCarried
  <1>5. ASSUME NEW w \in Handlers, DeadLetterJob(w), UNCHANGED <<store, enqueues>>
        PROVE  Carried(d, Silent)'
    <2>1. dlq' = dlq \cup {jobs[holding[w]].delivery}
      BY <1>5 DEF DeadLetterJob
    <2>2. Unpublished(d) /\ jobs[holding[w]].delivery # d
      BY <1>5, <2>1 DEF Unpublished, Closed
    <2>. QED  BY <1>0, <1>5, <2>2, StillCarried DEF DeadCarried
  <1>. QED  BY <1>0, <1>1, <1>2, <1>3, <1>4, <1>5, QuietSteps

\* In the beginning nothing is enqueued.
LEMMA CarriedInit == QueueInit => CarriedInv /\ OpenCarried /\ DeadCarried
  <1>. SUFFICES ASSUME QueueInit PROVE CarriedInv /\ OpenCarried /\ DeadCarried
    OBVIOUS
  <1>1. \A d \in Deliveries : enqueues[d] = 0 /\ store[d] = Absent
    BY DEF QueueInit, Init
  <1>. QED
    BY <1>1, ServingInit
       DEF CarriedInv, EnqueuedIssued, OpenCarried, DeadCarried, Pending, Unpublished

\* With no poller beside the queue and no replays, an enqueued delivery that is not closed
\* always has a job: handleMessage gives its job up only after the next one is published or
\* when the record it left needs none, however many handlers serve the queue and crash.
THEOREM NoneStranded ==
  ASSUME OnlyHandlers, Replayed = {}
  PROVE  QueueSpec => []NothingStranded
  <1>1. CarriedInv /\ OpenCarried /\ [QueueNext]_allVars => CarriedInv' /\ OpenCarried'
    BY IssuedStep, OpenCarriedStep
  <1>2. OpenCarried => NothingStranded
    BY DEF OpenCarried, NothingStranded, Pending, Carried, Unsettled, LiveJobs, FailedJobs, JobsOf
  <1>. QED  BY CarriedInit, <1>1, <1>2, PTL DEF QueueSpec

\* With no poller beside the queue, a dead-lettered delivery none of whose jobs is left
\* has been published on the dead-letter queue, or a job of it is among the failed ones.
THEOREM DeadLettersReachQueue ==
  ASSUME OnlyHandlers
  PROVE  QueueSpec => []DeadLettersPublished
  <1>1. CarriedInv /\ DeadCarried /\ [QueueNext]_allVars => CarriedInv' /\ DeadCarried'
    BY IssuedStep, DeadCarriedStep
  <1>2. DeadCarried => DeadLettersPublished
    BY DEF DeadCarried, DeadLettersPublished, Unpublished, Carried, Unsettled,
       LiveJobs, FailedJobs, JobsOf
  <1>. QED  BY CarriedInit, <1>1, <1>2, PTL DEF QueueSpec

--------------------------------------------------------------------------------
(* No more jobs than were asked for, with pollers beside the queue or not. *)

Unfinished(d) == JobsOf(d, {"waiting", "delayed", "active"})

Accounted(d) ==
  IsFiniteSet(Unfinished(d)) /\ Cardinality(Unfinished(d)) <= enqueues[d] + upsets

AccountedInv == ServingInv /\ \A d \in Deliveries : Accounted(d)

\* The numbers of the state.
LEMMA QueueNumbers ==
  ASSUME ServingInv
  PROVE  upsets \in Nat /\ \A d \in Deliveries : enqueues[d] \in Nat
  BY DeliveryConstants DEF ServingInv, TypeInv, TypeOK, QueueTypeOK

\* A set that loses nothing but perhaps h, and gains nothing but perhaps j, keeps its size
\* or grows by one, and grows only without the loss.
LEMMA OneMore ==
  ASSUME NEW S, IsFiniteSet(S), NEW T, NEW j, T \subseteq S \cup {j}
  PROVE  /\ IsFiniteSet(T)
         /\ Cardinality(T) \in Nat /\ Cardinality(S) \in Nat
         /\ Cardinality(T) <= Cardinality(S) + 1
         /\ T \subseteq S => Cardinality(T) <= Cardinality(S)
         /\ \A h \in S : h \notin T => Cardinality(T) <= Cardinality(S)
  <1>0. \A R : IsFiniteSet(R) => Cardinality(R) \in Nat
    BY FS_CardinalityType
  <1>1. /\ IsFiniteSet(S \cup {j}) /\ Cardinality(S \cup {j}) \in Nat /\ Cardinality(S) \in Nat
        /\ Cardinality(S \cup {j}) <= Cardinality(S) + 1
    <2>1. /\ IsFiniteSet(S \cup {j})
          /\ Cardinality(S \cup {j}) =
               IF j \in S THEN Cardinality(S) ELSE Cardinality(S) + 1
      BY FS_AddElement
    <2>. QED  BY <1>0, <2>1
  <1>2. IsFiniteSet(T) /\ Cardinality(T) <= Cardinality(S \cup {j}) /\ Cardinality(T) \in Nat
    BY <1>1, FS_Subset, FS_CardinalityType
  <1>3. ASSUME NEW h \in S, h \notin T
        PROVE  Cardinality(T) <= Cardinality(S)
    <2>1. IsFiniteSet(S \ {h}) /\ Cardinality(S \ {h}) = Cardinality(S) - 1
      BY FS_RemoveElement
    <2>2. IsFiniteSet((S \ {h}) \cup {j})
            /\ Cardinality((S \ {h}) \cup {j}) <= Cardinality(S \ {h}) + 1
      <3>1. /\ IsFiniteSet((S \ {h}) \cup {j})
            /\ Cardinality((S \ {h}) \cup {j}) =
                 IF j \in S \ {h} THEN Cardinality(S \ {h}) ELSE Cardinality(S \ {h}) + 1
        BY <2>1, FS_AddElement
      <3>. QED  BY <1>0, <2>1, <3>1
    <2>3. T \subseteq (S \ {h}) \cup {j}
      BY <1>3
    <2>4. Cardinality(T) <= Cardinality((S \ {h}) \cup {j})
            /\ Cardinality((S \ {h}) \cup {j}) \in Nat
      BY <2>2, <2>3, FS_Subset, FS_CardinalityType
    <2>. QED  BY <1>1, <1>2, <2>1, <2>2, <2>4
  <1>4. ASSUME T \subseteq S
        PROVE  Cardinality(T) <= Cardinality(S)
    BY <1>4, FS_Subset
  <1>. QED  BY <1>1, <1>2, <1>3, <1>4

\* The count stays within its bounds when it does not grow, or grows by one together with
\* the enqueue calls or the upsets.
LEMMA AccountedFrom ==
  ASSUME ServingInv, ServingInv', NEW d \in Deliveries, Accounted(d),
         NEW j, Unfinished(d)' \subseteq Unfinished(d) \cup {j},
         enqueues'[d] >= enqueues[d], upsets' >= upsets,
         \/ Unfinished(d)' \subseteq Unfinished(d)
         \/ \E h \in Unfinished(d) : h \notin Unfinished(d)'
         \/ enqueues'[d] + upsets' >= enqueues[d] + upsets + 1
  PROVE  Accounted(d)'
  <1>1. PICK S : S = Unfinished(d)
    OBVIOUS
  <1>2. PICK T : T = Unfinished(d)'
    OBVIOUS
  <1>3. /\ upsets \in Nat /\ upsets' \in Nat /\ enqueues[d] \in Nat /\ enqueues'[d] \in Nat
    BY QueueNumbers DEF ServingInv, QueueTypeOK, TypeInv, TypeOK
  <1>4. /\ IsFiniteSet(T)
        /\ Cardinality(T) \in Nat /\ Cardinality(S) \in Nat
        /\ Cardinality(T) <= Cardinality(S) + 1
        /\ T \subseteq S => Cardinality(T) <= Cardinality(S)
        /\ (\E h \in S : h \notin T) => Cardinality(T) <= Cardinality(S)
    BY <1>1, <1>2, OneMore DEF Accounted
  <1>5. Cardinality(S) <= enqueues[d] + upsets
    BY <1>1 DEF Accounted
  <1>6. Cardinality(T) <= enqueues'[d] + upsets'
    BY <1>1, <1>2, <1>3, <1>4, <1>5
  <1>. QED  BY <1>2, <1>4, <1>6 DEF Accounted

\* Nothing the worker does, and nothing around it, lowers the count of upsets.
LEMMA UpsetsGrow ==
  ASSUME ServingInv, [QueueNext]_allVars
  PROVE  upsets' >= upsets
  <1>1. upsets \in Nat
    BY QueueNumbers
  <1>2. upsets' \in {upsets, upsets + 1}
    <2>1. CASE UNCHANGED allVars \/ \E d \in Deliveries : Enqueue(d)
      BY <2>1 DEF allVars, vars, Enqueue
    <2>2. CASE Surroundings
      BY <2>2 DEF Surroundings, Operate, CreateSubscription, UpdateSubscription,
         DeleteSubscription, DeleteDelivery, BecomeDue, Replay, Dispatch, CreateDelivery
    <2>3. CASE \E j \in Jobs : DelayPasses(j)
      BY <2>3 DEF DelayPasses, vars
    <2>4. ASSUME NEW w \in Workers, Process(w) \/ RunOnce(w) \/ Return(w) \/ Crash(w)
          PROVE  upsets' \in {upsets, upsets + 1}
      BY <2>4 DEF Process, GetSubscription, GetSubscriptionFails, DeadLetterOrphan,
         MarkDelivering, Send, RecordResult, UpdateFails, StoreError, RunOnce, Return, Crash,
         Forget
    <2>5. ASSUME NEW w \in Handlers,
                 \/ Take(w) \/ HandleMessage(w) \/ Ack(w) \/ RetryJob(w) \/ DeadLetterJob(w)
                 \/ Complete(w) \/ SettleFails(w) \/ HandlerCrash(w)
          PROVE  upsets' \in {upsets, upsets + 1}
      BY <2>5 DEF Take, HandleMessage, ProcessById, StoreError, Ack, RetryJob, DeadLetterJob,
         Complete, LetGo, Return, SettleFails, HandlerCrash, Forget, vars
    <2>. QED
      BY <2>1, <2>2, <2>3, <2>4, <2>5, QueueConstants
         DEF QueueNext, Handle, PollBeside, Poll
  <1>. QED  BY <1>1, <1>2

\* A job moved among the unfinished states, or out of them, adds none.
LEMMA MovedUnfinished ==
  ASSUME NEW d \in Deliveries, NEW h \in Jobs, NEW state, Moved(h, state),
         jobs[h].state \in {"waiting", "delayed", "active"} \/ state \in {"settled", "failed"}
  PROVE  Unfinished(d)' \subseteq Unfinished(d)
  BY DEF Moved, Unfinished, JobsOf

\* Every step keeps the account of the jobs.
LEMMA AccountedStep ==
  ASSUME AccountedInv, [QueueNext]_allVars
  PROVE  AccountedInv'
  <1>0. ServingInv /\ ServingInv' /\ TypeInv /\ QueueTypeOK
    BY ServingStep DEF AccountedInv, ServingInv
  <1>00. upsets' >= upsets /\ upsets \in Nat /\ upsets' \in Nat
    BY <1>0, UpsetsGrow, QueueNumbers, DeliveryConstants DEF ServingInv, TypeInv, TypeOK
  <1>. SUFFICES ASSUME NEW d \in Deliveries
                PROVE  Accounted(d)'
    BY <1>0 DEF AccountedInv
  <1>000. Accounted(d) /\ enqueues[d] \in Nat
    BY <1>0, QueueNumbers DEF AccountedInv
  <1>1. ASSUME enqueues' = enqueues, Unfinished(d)' \subseteq Unfinished(d)
        PROVE  Accounted(d)'
    BY <1>0, <1>00, <1>000, <1>1, AccountedFrom
  <1>2. CASE UNCHANGED queue
    BY <1>1, <1>2 DEF queue, Unfinished, JobsOf
  <1>3. ASSUME NEW e \in Deliveries, Enqueue(e)
        PROVE  Accounted(d)'
    <2>1. PICK j \in Free : jobs' = Added(jobs, j, e, "waiting")
      BY <1>3 DEF Enqueue
    <2>2. j \in Jobs /\ jobs[j] = Absent
      BY <2>1 DEF Free
    <2>3. jobs'[j].delivery = e /\ \A i \in Jobs \ {j} : jobs'[i] = jobs[i]
      BY <1>0, <2>1, <2>2, JobAdded DEF QueueTypeOK
    <2>4. Unfinished(d)' \subseteq Unfinished(d) \cup {j}
      BY <2>3 DEF Unfinished, JobsOf
    <2>5. /\ e = d => enqueues'[d] = enqueues[d] + 1
          /\ e # d => enqueues'[d] = enqueues[d]
      BY <1>0, <1>3 DEF Enqueue, QueueTypeOK
    <2>6. e # d => Unfinished(d)' \subseteq Unfinished(d)
      BY <2>3 DEF Unfinished, JobsOf
    <2>7. CASE e = d
      <3>1. /\ enqueues'[d] >= enqueues[d]
            /\ enqueues'[d] + upsets' >= enqueues[d] + upsets + 1
        BY <1>00, <1>000, <2>5, <2>7
      <3>. QED  BY <1>0, <1>00, <1>000, <2>4, <3>1, AccountedFrom
    <2>8. CASE e # d
      BY <1>0, <1>00, <1>000, <2>4, <2>5, <2>6, <2>8, AccountedFrom
    <2>. QED  BY <2>7, <2>8
  <1>4. ASSUME NEW j \in Jobs, DelayPasses(j)
        PROVE  Accounted(d)'
    <2>1. Moved(j, "waiting") /\ jobs[j].state = "delayed" /\ enqueues' = enqueues
      BY <1>0, <1>4, StateSet DEF DelayPasses, QueueTypeOK, Moved
    <2>. QED  BY <1>1, <2>1, MovedUnfinished
  <1>5. ASSUME NEW w \in Handlers, Take(w)
        PROVE  Accounted(d)'
    <2>1. PICK j \in Jobs : /\ jobs[j] # Absent /\ jobs[j].state = "waiting"
                            /\ jobs' = [jobs EXCEPT ![j].state = "active"]
      BY <1>5 DEF Take
    <2>2. Moved(j, "active") /\ enqueues' = enqueues
      BY <1>0, <1>5, <2>1, StateSet DEF Take, QueueTypeOK, Moved
    <2>. QED  BY <1>1, <2>1, <2>2, MovedUnfinished
  <1>6. ASSUME NEW w \in Handlers, Ack(w) \/ DeadLetterJob(w)
        PROVE  Accounted(d)'
    <2>1. Settling(w) /\ jobs' = Resolved(w) /\ enqueues' = enqueues
      BY <1>6 DEF Ack, DeadLetterJob
    <2>2. Moved(holding[w], "settled") /\ holding[w] \in Jobs
      BY <1>0, <2>1, SettledJob, HeldJob DEF Settling
    <2>. QED  BY <1>1, <2>1, <2>2, MovedUnfinished
  <1>7. ASSUME NEW w \in Handlers, RetryJob(w)
        PROVE  Accounted(d)'
    <2>1. PICK j \in Jobs : Published(j, jobs[holding[w]].delivery, "delayed", {holding[w]})
      BY <1>0, <1>7, RetriedJob
    <2>2. PICK h \in Jobs : h = holding[w]
      BY <1>0, <1>7, HeldJob DEF RetryJob, Settling
    <2>3. /\ jobs[h] # Absent /\ jobs[h].state = "active" /\ jobs'[h].state = "settled"
          /\ jobs'[h].delivery = jobs[h].delivery
          /\ jobs'[j].delivery = jobs[h].delivery
          /\ \A i \in Jobs \ {j, h} : jobs'[i] = jobs[i]
          /\ enqueues' = enqueues
      BY <1>0, <1>7, <2>1, <2>2, HeldJob DEF RetryJob, Settling, Published
    <2>4. CASE jobs[h].delivery = d
      <3>1. h \in Unfinished(d) /\ h \notin Unfinished(d)'
        BY <2>3, <2>4 DEF Unfinished, JobsOf
      <3>2. Unfinished(d)' \subseteq Unfinished(d) \cup {j}
        BY <2>3 DEF Unfinished, JobsOf
      <3>. QED  BY <1>0, <1>00, <1>000, <2>3, <3>1, <3>2, AccountedFrom
    <2>5. CASE jobs[h].delivery # d
      <3>1. Unfinished(d)' \subseteq Unfinished(d)
        BY <2>3, <2>5 DEF Unfinished, JobsOf
      <3>. QED  BY <1>1, <2>3, <3>1
    <2>. QED  BY <2>4, <2>5
  <1>8. ASSUME NEW w \in Handlers, Complete(w)
        PROVE  Accounted(d)'
    <2>1. jobs' = [jobs EXCEPT ![holding[w]] = Absent] /\ enqueues' = enqueues
      BY <1>8 DEF Complete
    <2>2. Unfinished(d)' \subseteq Unfinished(d)
      BY <1>0, <2>1 DEF Unfinished, JobsOf, QueueTypeOK
    <2>. QED  BY <1>1, <2>1, <2>2
  <1>9. ASSUME NEW w \in Handlers, SettleFails(w)
        PROVE  Accounted(d)'
    <2>1. /\ jobs' = [jobs EXCEPT ![holding[w]].state = "failed"] /\ enqueues' = enqueues
          /\ holding[w] # Absent
      BY <1>9 DEF SettleFails, Settling
    <2>2. Moved(holding[w], "failed") /\ holding[w] \in Jobs
      BY <1>0, <2>1, HeldJob, StateSet DEF QueueTypeOK, Moved
    <2>. QED  BY <1>1, <2>1, <2>2, MovedUnfinished
  <1>10. ASSUME NEW w \in Handlers, HandlerCrash(w)
         PROVE  Accounted(d)'
    <2>1. holding[w] \in Jobs /\ enqueues' = enqueues /\ upsets' = upsets + 1
      BY <1>0, <1>10, HeldJob DEF HandlerCrash, Forget
    <2>2. PICK h \in Jobs : h = holding[w]
      BY <2>1
    <2>3. Unfinished(d)' \subseteq Unfinished(d) \cup {h}
      BY <1>0, <1>10, <2>2, StalledJob DEF Moved, Unfinished, JobsOf
    <2>4. enqueues'[d] + upsets' >= enqueues[d] + upsets + 1
      BY <1>00, <1>000, <2>1
    <2>. QED  BY <1>0, <1>00, <1>000, <2>1, <2>3, <2>4, AccountedFrom
  <1>. QED
    BY <1>2, <1>3, <1>4, <1>5, <1>6, <1>7, <1>8, <1>9, <1>10
       DEF QueueNext, Handle, HandleMessage, PollBeside, allVars

\* A delivery never has more unfinished jobs than it was enqueued and processes crashed or
\* stores failed: settlement publishes at most one job for the one it gives up.
THEOREM JobsNeverMultiply == QueueSpec => []JobsAccounted
  <1>1. QueueInit => AccountedInv
    <2>. SUFFICES ASSUME QueueInit PROVE AccountedInv
      OBVIOUS
    <2>1. ServingInv
      BY ServingInit
    <2>2. ASSUME NEW d \in Deliveries
          PROVE  Accounted(d)
      <3>1. Unfinished(d) = {} /\ enqueues[d] = 0 /\ upsets = 0
        BY <2>2 DEF QueueInit, Init, Unfinished, JobsOf
      <3>. QED  BY <3>1, FS_EmptySet DEF Accounted
    <2>. QED  BY <2>1, <2>2 DEF AccountedInv
  <1>2. AccountedInv => JobsAccounted
    BY DEF AccountedInv, Accounted, Unfinished, JobsAccounted
  <1>. QED  BY <1>1, <1>2, AccountedStep, PTL DEF QueueSpec

--------------------------------------------------------------------------------
(* What holds of the worker alone holds of it behind the queue.            *)

\* The steps the queue adds keep what is known of answers: they
\* write no row, and hand the worker what a row says or take everything from it.
LEMMA AddedStepsAcked ==
  ASSUME AckedInv, TypeInv', NEW w \in Workers,
         SettleFails(w) \/ Forget(w) \/ \E d \in Deliveries : ProcessById(w, d)
  PROVE  AckedInv'
  <1>1. NoNewSuccess /\ UNCHANGED acked
    BY DEF SettleFails, Forget, ProcessById, data, http, NoNewSuccess, Succeeded
  <1>2. NoNewAnswer
    BY DEF SettleFails, Forget, ProcessById, StoreError, Finish, NoNewAnswer,
       AckedInv, TypeInv, TypeOK
  <1>. QED  BY <1>1, <1>2, AckedKept

\* The same of what is known of spent attempts.
LEMMA AddedStepsSpent ==
  ASSUME SpentInv, TypeInv', NEW w \in Workers,
         SettleFails(w) \/ Forget(w) \/ \E d \in Deliveries : ProcessById(w, d)
  PROVE  SpentInv'
  <1>1. CASE SettleFails(w)
    <2>1. /\ pc[w] = "done" /\ UNCHANGED <<data, http, batch, task>> /\ upsets' = upsets + 1
          /\ pc' = [pc EXCEPT ![w] = "idle"]
      BY <1>1 DEF SettleFails, Settling
    <2>2. pc'[w] = "idle" /\ \A v \in Workers \ {w} : pc'[v] = pc[v]
      BY <2>1 DEF SpentInv, TypeInv, TypeOK
    <2>. QED  BY <2>1, <2>2, StopSpent DEF Busy
  <1>2. CASE Forget(w)
    BY <1>2, CrashSpent
  <1>3. ASSUME NEW d \in Deliveries, ProcessById(w, d)
        PROVE  SpentInv'
    <2>1. pc[w] = "idle" /\ UNCHANGED <<data, http>>
      BY <1>3 DEF ProcessById
    <2>2. CASE /\ store[d] # Absent
               /\ batch' = [batch EXCEPT ![w] = {SnapshotOf(d)}]
               /\ pc' = [pc EXCEPT ![w] = "next"]
               /\ UNCHANGED <<task, outcome, upsets>>
      <3>1. PICK B : B = {d}
        OBVIOUS
      <3>2. /\ B \in SUBSET {e \in Deliveries : store[e] # Absent}
            /\ batch' = [batch EXCEPT ![w] = {SnapshotOf(e) : e \in B}]
        BY <2>2, <3>1
      <3>. QED  BY <2>1, <2>2, <3>2, ListSpent
    <2>3. CASE \/ Finish(w, "not_found") /\ UNCHANGED upsets
               \/ Finish(w, "error") /\ upsets' = upsets + 1
      BY <2>1, <2>3, FinishSpent, StopSpent
    <2>. QED  BY <1>3, <2>2, <2>3 DEF ProcessById, StoreError
  <1>. QED  BY <1>1, <1>2, <1>3

\* Behind the queue too, with pollers beside it or not, a succeeded record was answered
\* with 2xx.
THEOREM QueuedSuccessIsAcked == QueueSpec => []SucceededWasAcked
  <1>1. QueueInit => ServingInv /\ AckedInv
    BY ServingInit
       DEF QueueInit, Init, ServingInv, AckedInv, AnswersAcked, SucceededWasAcked, Closed
  <1>2. ServingInv /\ AckedInv /\ [QueueNext]_allVars => ServingInv' /\ AckedInv'
    <2>1. ServingInv /\ AckedInv /\ [QueueNext]_allVars => ServingInv' /\ TypeInv'
      BY ServingStep DEF ServingInv
    <2>. QED  BY <2>1, QueueSteps, AckedStep, AddedStepsAcked
  <1>3. AckedInv => SucceededWasAcked
    BY DEF AckedInv
  <1>. QED  BY <1>1, <1>2, <1>3, PTL DEF QueueSpec

\* ... and a record is dead-lettered only for a missing subscription or after the attempts
\* some policy grants were spent.
THEOREM QueuedNothingGivenUpEarly == QueueSpec => []NoEarlyDeadLetter
  <1>1. QueueInit => ServingInv /\ SpentInv
    BY ServingInit, InitSpent DEF QueueInit
  <1>2. ServingInv /\ SpentInv /\ [QueueNext]_allVars => ServingInv' /\ SpentInv'
    <2>1. ServingInv /\ SpentInv /\ [QueueNext]_allVars => ServingInv' /\ TypeInv'
      BY ServingStep DEF ServingInv
    <2>. QED  BY <2>1, QueueSteps, NextSpent, AddedStepsSpent
  <1>3. SpentInv => NoEarlyDeadLetter
    BY SpentSound
  <1>. QED  BY <1>1, <1>2, <1>3, PTL DEF QueueSpec
================================================================================
