---------------------------- MODULE WebhookDelivery ----------------------------
(***************************************************************************)
(* The webhook delivery worker over the Postgres delivery store.           *)
(*                                                                         *)
(* A delivery record is a row of auth_webhook_deliveries.  Workers run     *)
(* WebhookDeliveryWorker.runOnce (list what is due, then work through that *)
(* snapshot one record at a time) or processDeliveryById.  Every awaited   *)
(* store call or HTTP call is one action, so the steps of several workers, *)
(* of operators and of the clock interleave between any two awaits.        *)
(*                                                                         *)
(* Time is abstracted to what the store's query tells apart: a record has  *)
(* no next_attempt_at ("null"), one that has passed ("due") or one still   *)
(* in the future ("later").  The order of records inside one snapshot      *)
(* (ORDER BY next_attempt_at, created_at) is abstracted to any order.      *)
(***************************************************************************)
EXTENDS Integers, FiniteSets

CONSTANTS
  Deliveries,       \* delivery ids the id factory may hand out
  Subscriptions,    \* subscription ids
  Workers,          \* concurrently running workers
  AttemptLimits,    \* values retryPolicy.maxAttempts takes
  MaxUpsets,        \* bound: crashes, store errors and operator replays
  MaxAttemptCount,  \* bound on attempt_count
  Absent            \* no row, no task, no policy

ASSUME DeliveryConstants ==
  /\ AttemptLimits \subseteq Nat
  /\ AttemptLimits # {}
  /\ MaxUpsets \in Nat
  /\ MaxAttemptCount \in Nat
  /\ Absent \notin Nat
  /\ IsFiniteSet(Workers)

VARIABLES
  subs,      \* auth_webhook_subscriptions: id -> maxAttempts of the row, or Absent
  store,     \* auth_webhook_deliveries: id -> row or Absent
  pc,        \* where each worker is, between two awaits
  batch,     \* records of the worker's snapshot not processed yet
  task,      \* the record a worker is processing
  outcome,   \* what the call in progress returns to its caller
  issued,    \* history: ids ever created
  missing,   \* history: subscriptions that have been absent at some time
  upsets,    \* history: crashes, store errors and replays so far
  calls,     \* history: HTTP requests executed per delivery
  acked      \* history: deliveries the target answered with 2xx

data == <<subs, store, issued, missing>>
work == <<pc, batch, task, outcome>>
http == <<calls, acked>>
vars == <<data, work, http, upsets>>

--------------------------------------------------------------------------------
Delivery ==
  [sub           : Subscriptions,
   status        : {"pending", "delivering", "succeeded", "dead_lettered"},
   attemptCount  : Nat,
   nextAttemptAt : {"null", "due", "later"}]

Row(sub, status, attemptCount, nextAttemptAt) ==
  [sub |-> sub, status |-> status,
   attemptCount |-> attemptCount, nextAttemptAt |-> nextAttemptAt]

\* No row is taken for a missing one.
ASSUME AbsentIsNoRow == Absent \notin Delivery

Snapshot == [id : Deliveries, sub : Subscriptions, attemptCount : Nat]

Task ==
  [id           : Deliveries,
   attemptCount : Nat,
   maxAttempts  : AttemptLimits \cup {Absent},
   response     : {"none", "2xx", "failed"}]

NoTask == [id |-> Absent]

Places == {"idle", "next", "orphan", "mark", "send", "record", "done"}
Outcomes == {"none", "not_found", "error", "succeeded", "pending", "dead_lettered"}

TypeOK ==
  /\ subs \in [Subscriptions -> AttemptLimits \cup {Absent}]
  /\ store \in [Deliveries -> Delivery \cup {Absent}]
  /\ pc \in [Workers -> Places]
  /\ batch \in [Workers -> SUBSET Snapshot]
  /\ task \in [Workers -> Task \cup {NoTask}]
  /\ outcome \in [Workers -> Outcomes]
  /\ issued \subseteq Deliveries
  /\ missing \subseteq Subscriptions
  /\ upsets \in 0..MaxUpsets
  /\ calls \in [Deliveries -> Nat]
  /\ acked \subseteq Deliveries

Busy(w) == pc[w] \in {"orphan", "mark", "send", "record"}
Open(d) == store[d] # Absent /\ store[d].status \in {"pending", "delivering"}
Closed(d) == store[d] # Absent /\ store[d].status \in {"succeeded", "dead_lettered"}

--------------------------------------------------------------------------------
(* Subscriptions, as the subscription store changes them.  Of a row the     *)
(* worker uses only the retry policy: not even `active`.                   *)

CreateSubscription(s) ==
  /\ subs[s] = Absent
  /\ \E m \in AttemptLimits : subs' = [subs EXCEPT ![s] = m]
  /\ UNCHANGED <<store, issued, missing, work, http, upsets>>

UpdateSubscription(s) ==
  /\ subs[s] # Absent
  /\ \E m \in AttemptLimits : subs' = [subs EXCEPT ![s] = m]
  /\ UNCHANGED <<store, issued, missing, work, http, upsets>>

\* Deliveries of the subscription stay: no foreign key, no cascade.
DeleteSubscription(s) ==
  /\ subs[s] # Absent
  /\ subs' = [subs EXCEPT ![s] = Absent]
  /\ missing' = missing \cup {s}
  /\ UNCHANGED <<store, issued, work, http, upsets>>

(* Deliveries, as dispatchers and operators change them.                   *)

\* What a dispatcher inserts for one subscription it listed earlier (the
\* subscription may be gone by now): pending, no attempt yet, due at once.
CreateDelivery(d, s) ==
  /\ d \notin issued
  /\ store' = [store EXCEPT ![d] = Row(s, "pending", 0, "due")]
  /\ issued' = issued \cup {d}
  /\ UNCHANGED <<subs, missing, work, http, upsets>>

DeleteDelivery(d) ==
  /\ store[d] # Absent
  /\ store' = [store EXCEPT ![d] = Absent]
  /\ UNCHANGED <<subs, issued, missing, work, http, upsets>>

\* The runbook's replay: back to pending and due, attempt_count untouched.
Replay(d) ==
  /\ upsets < MaxUpsets
  /\ store[d] # Absent
  /\ store[d].status = "dead_lettered"
  /\ store' = [store EXCEPT ![d] = Row(@.sub, "pending", @.attemptCount, "due")]
  /\ upsets' = upsets + 1
  /\ UNCHANGED <<subs, issued, missing, work, http>>

\* The clock passes a scheduled next_attempt_at.
BecomeDue(d) ==
  /\ store[d] # Absent
  /\ store[d].nextAttemptAt = "later"
  /\ store' = [store EXCEPT ![d].nextAttemptAt = "due"]
  /\ UNCHANGED <<subs, issued, missing, work, http, upsets>>

--------------------------------------------------------------------------------
(* How a record's processing ends.  An error stops the whole batch: runOnce *)
(* returns it at once and the rest of the snapshot is dropped.             *)

Finish(w, result) ==
  /\ task' = [task EXCEPT ![w] = NoTask]
  /\ outcome' = [outcome EXCEPT ![w] = result]
  /\ batch' = [batch EXCEPT ![w] = IF result = "error" THEN {} ELSE @]
  /\ pc' = [pc EXCEPT ![w] =
              IF result = "error" \/ batch[w] = {} THEN "done" ELSE "next"]

\* A store call that fails, which the worker hands up as an error.
StoreError(w) ==
  /\ upsets < MaxUpsets
  /\ upsets' = upsets + 1
  /\ Finish(w, "error")

\* The row after an UPDATE ... WHERE id = task[w].id, whatever its status was.
Written(w, status, count, next) ==
  [store EXCEPT ![task[w].id] = Row(@.sub, status, count, next)]

\* updateDelivery without success: no row has the id, or the statement failed
\* (before or after the database had applied it).
UpdateFails(w, written) ==
  /\ UNCHANGED <<subs, issued, missing, http>>
  /\ \/ store[task[w].id] = Absent /\ Finish(w, "error") /\ UNCHANGED <<store, upsets>>
     \/ store[task[w].id] # Absent /\ StoreError(w) /\ store' \in {store, written}

--------------------------------------------------------------------------------
(* The worker.                                                             *)

\* Mutants of the listing: no status filter; only the status "pending".
EligibleAnyStatus ==
  {d \in Deliveries : store[d] # Absent /\ store[d].nextAttemptAt # "later"}
EligiblePendingOnly ==
  {d \in Deliveries : Open(d) /\ store[d].status = "pending"
                              /\ store[d].nextAttemptAt # "later"}

\* listPendingDeliveries: pending or delivering, next_attempt_at null or passed.
Eligible == {d \in Deliveries : Open(d) /\ store[d].nextAttemptAt # "later"}

\* What the query may return under any LIMIT: records without a next_attempt_at
\* come before the others (the order among the latter is left open).
Listings ==
  {B \in SUBSET Eligible \ {{}} :
     \A d \in B, e \in Eligible \ B :
       store[e].nextAttemptAt = "null" => store[d].nextAttemptAt = "null"}

SnapshotOf(d) ==
  [id |-> d, sub |-> store[d].sub, attemptCount |-> store[d].attemptCount]

\* runOnce lists; an empty or a failed listing returns without any effect.
RunOnce(w) ==
  /\ pc[w] = "idle"
  /\ Eligible # {}
  /\ \E B \in Listings : batch' = [batch EXCEPT ![w] = {SnapshotOf(d) : d \in B}]
  /\ pc' = [pc EXCEPT ![w] = "next"]
  /\ UNCHANGED <<data, task, outcome, http, upsets>>

\* processDeliveryById reads one record, of any status.
ProcessById(w, d) ==
  /\ pc[w] = "idle"
  /\ \/ /\ store[d] # Absent
        /\ batch' = [batch EXCEPT ![w] = {SnapshotOf(d)}]
        /\ pc' = [pc EXCEPT ![w] = "next"]
        /\ UNCHANGED <<task, outcome, upsets>>
     \/ store[d] = Absent /\ Finish(w, "not_found") /\ UNCHANGED upsets
     \/ StoreError(w)
  /\ UNCHANGED <<data, http>>

\* processDeliveryRecord takes the next snapshot and reads its subscription.
\* The record's current row is not looked at.
GetSubscription(w) ==
  /\ pc[w] = "next"
  /\ \E s \in batch[w] :
       /\ task' = [task EXCEPT ![w] =
             [id |-> s.id, attemptCount |-> s.attemptCount,
              maxAttempts |-> subs[s.sub], response |-> "none"]]
       /\ pc' = [pc EXCEPT ![w] = IF subs[s.sub] = Absent THEN "orphan" ELSE "mark"]
       /\ batch' = [batch EXCEPT ![w] = @ \ {s}]
  /\ UNCHANGED <<data, outcome, http, upsets>>

GetSubscriptionFails(w) ==
  /\ pc[w] = "next"
  /\ StoreError(w)
  /\ UNCHANGED <<data, http>>

\* The subscription is gone: dead-letter the record, attempt_count untouched.
DeadLetterOrphan(w) ==
  /\ pc[w] = "orphan"
  /\ LET d == task[w].id
         written == Written(w, "dead_lettered", store[d].attemptCount, "null")
     IN \/ /\ store[d] # Absent
           /\ store' = written
           /\ Finish(w, "dead_lettered")
           /\ UNCHANGED <<subs, issued, missing, http, upsets>>
        \/ UpdateFails(w, written)

\* Mutant: the snapshot's count is not incremented.
AttemptNumberStale(w) == task[w].attemptCount

\* The number of the attempt under way: one more than the snapshot's count.
AttemptNumber(w) == task[w].attemptCount + 1

\* attemptDelivery, up to the request: the attempt is recorded before it is made.
MarkDelivering(w) ==
  /\ pc[w] = "mark"
  /\ AttemptNumber(w) <= MaxAttemptCount
  /\ LET written == Written(w, "delivering", AttemptNumber(w), "null")
     IN \/ /\ store[task[w].id] # Absent
           /\ store' = written
           /\ pc' = [pc EXCEPT ![w] = "send"]
           /\ UNCHANGED <<subs, issued, missing, batch, task, outcome, http, upsets>>
        \/ UpdateFails(w, written)

\* httpClient.execute: answered with 2xx, answered with another status, or no
\* answer at all (a rejected promise, which the catch block takes).
Send(w) ==
  /\ pc[w] = "send"
  /\ LET d == task[w].id IN
     /\ calls' = [calls EXCEPT ![d] = @ + 1]
     /\ \E r \in {"2xx", "failed"} :
          /\ task' = [task EXCEPT ![w].response = r]
          /\ acked' = IF r = "2xx" THEN acked \cup {d} ELSE acked
  /\ pc' = [pc EXCEPT ![w] = "record"]
  /\ UNCHANGED <<data, batch, outcome, upsets>>

\* Mutants of the limit: one attempt too many, one too few.
ShouldRetryOnceMore(w) == AttemptNumber(w) <= task[w].maxAttempts
ShouldRetryOnceLess(w) == AttemptNumber(w) + 1 < task[w].maxAttempts

\* determineRetryDecision: retry unless the policy's attempts are used up.
ShouldRetry(w) == AttemptNumber(w) < task[w].maxAttempts

\* Mutants of the outcome: any answer is a success; a failed attempt is "failed"
\* (a status of the contract which nothing lists).
ResultStatusAnyAnswer(w) == "succeeded"
ResultStatusFailed(w) ==
  CASE task[w].response = "2xx" -> "succeeded"
    [] task[w].response # "2xx" /\ ShouldRetry(w) -> "failed"
    [] OTHER -> "dead_lettered"

\* The status an attempt ends with; only a retry has a next attempt, and its
\* delay is never zero.
ResultStatus(w) ==
  CASE task[w].response = "2xx" -> "succeeded"
    [] task[w].response # "2xx" /\ ShouldRetry(w) -> "pending"
    [] OTHER -> "dead_lettered"

\* The success branch of attemptDelivery, and handleFailure.
RecordResult(w) ==
  /\ pc[w] = "record"
  /\ LET status == ResultStatus(w)
         next == IF status = "pending" THEN "later" ELSE "null"
         written == Written(w, status, AttemptNumber(w), next)
     IN \/ /\ store[task[w].id] # Absent
           /\ store' = written
           /\ Finish(w, status)
           /\ UNCHANGED <<subs, issued, missing, http, upsets>>
        \/ UpdateFails(w, written)

\* The call returns its summary, or its error, to whoever made it.
Return(w) ==
  /\ pc[w] = "done"
  /\ pc' = [pc EXCEPT ![w] = "idle"]
  /\ outcome' = [outcome EXCEPT ![w] = "none"]
  /\ UNCHANGED <<data, batch, task, http, upsets>>

\* The worker's process dies and comes back with no memory.
Forget(w) ==
  /\ upsets < MaxUpsets
  /\ upsets' = upsets + 1
  /\ pc' = [pc EXCEPT ![w] = "idle"]
  /\ batch' = [batch EXCEPT ![w] = {}]
  /\ task' = [task EXCEPT ![w] = NoTask]
  /\ outcome' = [outcome EXCEPT ![w] = "none"]
  /\ UNCHANGED <<data, http>>

Crash(w) == pc[w] # "idle" /\ Forget(w)

--------------------------------------------------------------------------------
(* Pollers: every worker is driven by runOnce.                             *)

Init ==
  /\ subs \in [Subscriptions -> AttemptLimits]
  /\ store = [d \in Deliveries |-> Absent]
  /\ pc = [w \in Workers |-> "idle"]
  /\ batch = [w \in Workers |-> {}]
  /\ task = [w \in Workers |-> NoTask]
  /\ outcome = [w \in Workers |-> "none"]
  /\ issued = {}
  /\ missing = {}
  /\ upsets = 0
  /\ calls = [d \in Deliveries |-> 0]
  /\ acked = {}

\* One record's processing, from reading its subscription to its outcome.
Process(w) ==
  \/ GetSubscription(w) \/ GetSubscriptionFails(w)
  \/ DeadLetterOrphan(w) \/ MarkDelivering(w) \/ Send(w) \/ RecordResult(w)

Poll(w) == RunOnce(w) \/ Process(w) \/ Return(w)

Operate ==
  \/ \E s \in Subscriptions :
       CreateSubscription(s) \/ UpdateSubscription(s) \/ DeleteSubscription(s)
  \/ \E d \in Deliveries : DeleteDelivery(d)

Dispatch == \E d \in Deliveries, s \in Subscriptions : CreateDelivery(d, s)

Next ==
  \/ Operate
  \/ Dispatch
  \/ \E d \in Deliveries : Replay(d) \/ BecomeDue(d)
  \/ \E w \in Workers : Poll(w) \/ Crash(w)

Spec == Init /\ [][Next]_vars

\* A scheduler outside this repository keeps calling runOnce, a running call
\* goes on, and the clock advances.
Fairness ==
  /\ \A w \in Workers : WF_vars(Poll(w))
  /\ \A d \in Deliveries : WF_vars(BecomeDue(d))

FairSpec == Spec /\ Fairness

--------------------------------------------------------------------------------
(* Properties that hold whatever number of workers runs.                   *)

\* A record is "succeeded" only if the target did answer one of its requests
\* with 2xx (isSuccessfulStatus guards the only write of that status).
SucceededWasAcked ==
  \A d \in Deliveries : Closed(d) /\ store[d].status = "succeeded" => d \in acked

\* Requests announced by MarkDelivering and not made yet.
InFlight(d) == {w \in Workers : pc[w] = "send" /\ task[w].id = d}

\* A record is dead-lettered only when its subscription has been missing or when
\* the attempts a policy grants were spent: on requests made or announced, or on
\* upsets that interrupted an announced one.
NoEarlyDeadLetter ==
  \A d \in Deliveries :
    Closed(d) /\ store[d].status = "dead_lettered" =>
      \/ store[d].sub \in missing
      \/ \E m \in AttemptLimits :
           calls[d] + Cardinality(InFlight(d)) + upsets >= m

--------------------------------------------------------------------------------
(* Properties of a single worker.                                          *)

\* "Retries honour the subscription retry policy": a delivery costs at most the
\* attempts a policy grants (one at least), and one more per upset.
CallsHonourPolicy ==
  \A d \in Deliveries :
    \/ calls[d] <= 1 + upsets
    \/ \E m \in AttemptLimits : calls[d] <= m + upsets

\* attempt_count never forgets a request: the count is written before the
\* request is made, so a crash or an error cannot lose it.
CountCoversCalls ==
  \A d \in Deliveries : store[d] # Absent => calls[d] <= store[d].attemptCount

\* A record that is not closed is closed or deleted in the end: a 'delivering'
\* record left behind by a crash is listed and attempted again.
EventuallyClosed == \A d \in Deliveries : Open(d) ~> ~Open(d)

--------------------------------------------------------------------------------
(* The worker implements the promise.                                      *)

PhaseOf(d) ==
  CASE d \notin issued -> "none"
    [] d \in issued /\ store[d] = Absent -> "gone"
    [] Open(d) -> "open"
    [] OTHER -> IF store[d].status = "succeeded" THEN "delivered" ELSE "dead"

Promise == INSTANCE WebhookPromise WITH
  phase <- [d \in Deliveries |-> PhaseOf(d)],
  tries <- calls,
  confirmed <- acked,
  orphans <- {d \in Deliveries : store[d] # Absent /\ store[d].sub \in missing}

\* A single worker's behaviours are behaviours of WebhookPromise: closed records
\* are never requested again nor changed, and close only for a cause.
KeepsPromise == Promise!PromiseSpec
================================================================================
