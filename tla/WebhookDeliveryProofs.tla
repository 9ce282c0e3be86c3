------------------------- MODULE WebhookDeliveryProofs -------------------------
(***************************************************************************)
(* Proofs about WebhookDelivery: first what holds for any number of        *)
(* workers, then what holds for one, each for any deliveries,              *)
(* subscriptions, policies and bounds.                                     *)
(***************************************************************************)
EXTENDS WebhookDelivery, TLAPS, FiniteSetTheorems

--------------------------------------------------------------------------------
\* A busy worker has a task.
BusyHasTask == \A w \in Workers : Busy(w) => task[w] \in Task

TypeInv == TypeOK /\ BusyHasTask

\* A worker that is about to record a 2xx answer got one.
AnswersAcked ==
  \A w \in Workers :
    pc[w] = "record" /\ task[w].response = "2xx" => task[w].id \in acked

AckedInv == TypeInv /\ AnswersAcked /\ SucceededWasAcked

Succeeded(d) == store[d] # Absent /\ store[d].status = "succeeded"

\* A step that marks no record as succeeded ...
NoNewSuccess == \A d \in Deliveries : Succeeded(d)' => Succeeded(d)

\* ... and that brings no worker to, nor changes one at, the recording of an answer.
NoNewAnswer ==
  \A w \in Workers : pc'[w] = "record" => pc[w] = "record" /\ task'[w] = task[w]

--------------------------------------------------------------------------------
\* Finish leaves the worker not busy and everything in its type.
LEMMA FinishType ==
  ASSUME TypeInv, NEW w \in Workers, NEW result \in Outcomes, Finish(w, result)
  PROVE  /\ pc' \in [Workers -> Places]
         /\ batch' \in [Workers -> SUBSET Snapshot]
         /\ task' \in [Workers -> Task \cup {NoTask}]
         /\ outcome' \in [Workers -> Outcomes]
         /\ BusyHasTask'
  <1> USE DEF TypeInv, TypeOK, Finish, Places
  <1>1. /\ pc' \in [Workers -> Places]
        /\ batch' \in [Workers -> SUBSET Snapshot]
        /\ task' \in [Workers -> Task \cup {NoTask}]
        /\ outcome' \in [Workers -> Outcomes]
    OBVIOUS
  <1>2. BusyHasTask'
    BY DEF BusyHasTask, Busy
  <1>. QED  BY <1>1, <1>2

\* Writing a row keeps the store in its type.
LEMMA WrittenType ==
  ASSUME TypeInv, NEW w \in Workers, Busy(w), store[task[w].id] # Absent,
         NEW status \in {"pending", "delivering", "succeeded", "dead_lettered"},
         NEW count \in Nat, NEW next \in {"null", "due", "later"}
  PROVE  Written(w, status, count, next) \in [Deliveries -> Delivery \cup {Absent}]
  <1>1. task[w] \in Task /\ task[w].id \in Deliveries
    BY DEF TypeInv, BusyHasTask, Task
  <1>2. store[task[w].id] \in Delivery
    BY <1>1 DEF TypeInv, TypeOK
  <1>. QED  BY <1>1, <1>2 DEF Written, Row, Delivery, TypeInv, TypeOK

\* A failed update keeps the types too.
LEMMA UpdateFailsType ==
  ASSUME TypeInv, NEW w \in Workers, NEW written, UpdateFails(w, written),
         store[task[w].id] # Absent => written \in [Deliveries -> Delivery \cup {Absent}]
  PROVE  TypeInv'
  <1>1. Finish(w, "error") /\ "error" \in Outcomes
    BY DEF UpdateFails, StoreError, Outcomes
  <1>2. /\ store' \in [Deliveries -> Delivery \cup {Absent}]
        /\ upsets' \in 0..MaxUpsets
        /\ UNCHANGED <<subs, issued, missing, http>>
    BY DeliveryConstants DEF UpdateFails, StoreError, TypeInv, TypeOK
  <1>. QED  BY <1>1, <1>2, FinishType DEF TypeInv, TypeOK, http

LEMMA TypeInvInit == Init => TypeInv
  BY DeliveryConstants DEF Init, TypeInv, TypeOK, BusyHasTask, Busy, Places, Outcomes

\* Changes to subs, store, issued, missing and calls that keep the types.
LEMMA DataType ==
  ASSUME TypeInv, UNCHANGED work,
         subs' \in [Subscriptions -> AttemptLimits \cup {Absent}],
         store' \in [Deliveries -> Delivery \cup {Absent}],
         issued' \subseteq Deliveries, missing' \subseteq Subscriptions,
         upsets' \in 0..MaxUpsets, UNCHANGED http
  PROVE  TypeInv'
  BY DEF TypeInv, TypeOK, BusyHasTask, Busy, work, http

\* Every action keeps the types, and a busy worker keeps its task.
LEMMA TypeInvStep ==
  ASSUME TypeInv, [Next]_vars
  PROVE  TypeInv'
  <1> USE DeliveryConstants
  <1>1. ASSUME NEW s \in Subscriptions, CreateSubscription(s) \/ UpdateSubscription(s)
        PROVE  TypeInv'
    BY <1>1, DataType DEF CreateSubscription, UpdateSubscription, TypeInv, TypeOK
  <1>2. ASSUME NEW s \in Subscriptions, DeleteSubscription(s)
        PROVE  TypeInv'
    BY <1>2, DataType DEF DeleteSubscription, TypeInv, TypeOK
  <1>3. ASSUME NEW d \in Deliveries, DeleteDelivery(d)
        PROVE  TypeInv'
    BY <1>3, DataType DEF DeleteDelivery, TypeInv, TypeOK
  <1>4. ASSUME NEW d \in Deliveries, NEW s \in Subscriptions, CreateDelivery(d, s)
        PROVE  TypeInv'
    BY <1>4, DataType DEF CreateDelivery, Row, TypeInv, TypeOK, Delivery
  <1>5. ASSUME NEW d \in Deliveries, Replay(d)
        PROVE  TypeInv'
    BY <1>5, DataType DEF Replay, Row, TypeInv, TypeOK, Delivery
  <1>6. ASSUME NEW d \in Deliveries, BecomeDue(d)
        PROVE  TypeInv'
    BY <1>6, DataType DEF BecomeDue, TypeInv, TypeOK, Delivery
  <1>7. ASSUME NEW w \in Workers, RunOnce(w)
        PROVE  TypeInv'
    <2>1. \A d \in Eligible : SnapshotOf(d) \in Snapshot
      BY DEF Eligible, Open, SnapshotOf, Snapshot, TypeInv, TypeOK, Delivery
    <2>2. batch' \in [Workers -> SUBSET Snapshot]
      <3>1. PICK B \in Listings : batch' = [batch EXCEPT ![w] = {SnapshotOf(d) : d \in B}]
        BY <1>7 DEF RunOnce
      <3>2. B \subseteq Eligible
        BY DEF Listings
      <3>. QED  BY <2>1, <3>1, <3>2 DEF TypeInv, TypeOK
    <2>. QED
      BY <1>7, <2>2 DEF RunOnce, TypeInv, TypeOK, BusyHasTask, Busy, Places, data, http
  <1>8. ASSUME NEW w \in Workers, GetSubscription(w)
        PROVE  TypeInv'
    <2>1. PICK s \in batch[w] :
            /\ task' = [task EXCEPT ![w] =
                 [id |-> s.id, attemptCount |-> s.attemptCount,
                  maxAttempts |-> subs[s.sub], response |-> "none"]]
            /\ pc' = [pc EXCEPT ![w] = IF subs[s.sub] = Absent THEN "orphan" ELSE "mark"]
            /\ batch' = [batch EXCEPT ![w] = @ \ {s}]
      BY <1>8 DEF GetSubscription
    <2>2. [id |-> s.id, attemptCount |-> s.attemptCount,
           maxAttempts |-> subs[s.sub], response |-> "none"] \in Task
      <3>1. s \in Snapshot
        BY DEF TypeInv, TypeOK
      <3>. QED  BY <3>1 DEF Task, Snapshot, TypeInv, TypeOK
    <2>. HIDE DEF Task
    <2>. QED
      BY <1>8, <2>1, <2>2
      DEF GetSubscription, TypeInv, TypeOK, BusyHasTask, Busy, Places, data, http
  <1>9. ASSUME NEW w \in Workers, GetSubscriptionFails(w)
        PROVE  TypeInv'
    <2>1. Finish(w, "error") /\ "error" \in Outcomes
      BY <1>9 DEF GetSubscriptionFails, StoreError, Outcomes
    <2>. QED
      BY <1>9, <2>1, FinishType
      DEF GetSubscriptionFails, StoreError, TypeInv, TypeOK, data, http
  <1>10. ASSUME NEW w \in Workers, DeadLetterOrphan(w)
         PROVE  TypeInv'
    <2> DEFINE d == task[w].id
               written == Written(w, "dead_lettered", store[d].attemptCount, "null")
    <2>1. Busy(w) /\ d \in Deliveries
      BY <1>10 DEF DeadLetterOrphan, Busy, TypeInv, BusyHasTask, Task
    <2>2. store[d] # Absent => store[d].attemptCount \in Nat
      BY <2>1 DEF TypeInv, TypeOK, Delivery
    <2>3. store[d] # Absent => written \in [Deliveries -> Delivery \cup {Absent}]
      BY <2>1, <2>2, WrittenType
    <2> HIDE DEF written
    <2>4. CASE /\ store[d] # Absent /\ store' = written /\ Finish(w, "dead_lettered")
               /\ UNCHANGED <<subs, issued, missing, http, upsets>>
      BY <2>3, <2>4, FinishType DEF TypeInv, TypeOK, Outcomes, http
    <2>5. CASE UpdateFails(w, written)
      BY <2>1, <2>3, <2>5, UpdateFailsType
    <2>. QED  BY <1>10, <2>4, <2>5 DEF DeadLetterOrphan, written
  <1>11. ASSUME NEW w \in Workers, MarkDelivering(w)
         PROVE  TypeInv'
    <2> DEFINE written == Written(w, "delivering", AttemptNumber(w), "null")
    <2>1. Busy(w) /\ AttemptNumber(w) \in Nat
      BY <1>11 DEF MarkDelivering, Busy, TypeInv, BusyHasTask, Task, AttemptNumber
    <2>2. store[task[w].id] # Absent => written \in [Deliveries -> Delivery \cup {Absent}]
      BY <2>1, WrittenType
    <2> HIDE DEF written
    <2>3. CASE /\ store[task[w].id] # Absent /\ store' = written
               /\ pc' = [pc EXCEPT ![w] = "send"]
               /\ UNCHANGED <<subs, issued, missing, batch, task, outcome, http, upsets>>
      BY <2>1, <2>2, <2>3 DEF TypeInv, TypeOK, BusyHasTask, Busy, Places, http
    <2>4. CASE UpdateFails(w, written)
      BY <2>2, <2>4, UpdateFailsType
    <2>. QED  BY <1>11, <2>3, <2>4 DEF MarkDelivering, written
  <1>12. ASSUME NEW w \in Workers, Send(w)
         PROVE  TypeInv'
    <2>1. task[w] \in Task /\ task[w].id \in Deliveries
      BY <1>12 DEF Send, Busy, TypeInv, BusyHasTask, Task
    <2>2. task' \in [Workers -> Task \cup {NoTask}] /\ task'[w] \in Task
          /\ \A v \in Workers \ {w} : task'[v] = task[v]
      BY <1>12, <2>1 DEF Send, Task, TypeInv, TypeOK
    <2>3. calls' \in [Deliveries -> Nat] /\ acked' \subseteq Deliveries
      BY <1>12, <2>1 DEF Send, TypeInv, TypeOK
    <2>4. pc' \in [Workers -> Places] /\ pc' = [pc EXCEPT ![w] = "record"]
          /\ UNCHANGED <<data, batch, outcome, upsets>>
      BY <1>12 DEF Send, Places, TypeInv, TypeOK
    <2>. QED
      BY <2>2, <2>3, <2>4 DEF TypeInv, TypeOK, BusyHasTask, Busy, data
  <1>13. ASSUME NEW w \in Workers, RecordResult(w)
         PROVE  TypeInv'
    <2> DEFINE status == ResultStatus(w)
               next == IF status = "pending" THEN "later" ELSE "null"
               written == Written(w, status, AttemptNumber(w), next)
    <2>1. Busy(w) /\ AttemptNumber(w) \in Nat
      BY <1>13 DEF RecordResult, Busy, TypeInv, BusyHasTask, Task, AttemptNumber
    <2>2. status \in {"pending", "succeeded", "dead_lettered"}
      BY DEF ResultStatus
    <2>. status \in Outcomes /\ next \in {"null", "later"}
      BY <2>2 DEF Outcomes
    <2>3. store[task[w].id] # Absent => written \in [Deliveries -> Delivery \cup {Absent}]
      BY <2>1, <2>2, WrittenType
    <2> HIDE DEF written, status, next
    <2>4. CASE /\ store[task[w].id] # Absent /\ store' = written /\ Finish(w, status)
               /\ UNCHANGED <<subs, issued, missing, http, upsets>>
      BY <2>3, <2>4, FinishType DEF TypeInv, TypeOK, http
    <2>5. CASE UpdateFails(w, written)
      BY <2>3, <2>5, UpdateFailsType
    <2>. QED  BY <1>13, <2>4, <2>5 DEF RecordResult, written, status, next
  <1>14. ASSUME NEW w \in Workers, Return(w) \/ Crash(w)
         PROVE  TypeInv'
    BY <1>14
    DEF Return, Crash, Forget, TypeInv, TypeOK, BusyHasTask, Busy, Places, Outcomes, data, http
  <1>15. CASE UNCHANGED vars
    BY <1>15 DEF vars, data, work, http, TypeInv, TypeOK, BusyHasTask, Busy
  <1>. QED
    BY <1>1, <1>2, <1>3, <1>4, <1>5, <1>6, <1>7, <1>8, <1>9, <1>10, <1>11, <1>12,
       <1>13, <1>14, <1>15
    DEF Next, Operate, Dispatch, Poll, Process

\* Every reachable state is well typed, and a worker in the middle of a record
\* has that record as its task.
THEOREM TypeCorrect == Spec => []TypeOK
  <1>1. Spec => []TypeInv
    BY TypeInvInit, TypeInvStep, PTL DEF Spec
  <1>2. TypeInv => TypeOK
    BY DEF TypeInv
  <1>. QED  BY <1>1, <1>2, PTL

--------------------------------------------------------------------------------
\* Steps of those two kinds keep AckedInv.
LEMMA AckedKept ==
  ASSUME AckedInv, TypeInv', acked \subseteq acked', NoNewSuccess, NoNewAnswer
  PROVE  AckedInv'
  BY DEF AckedInv, AnswersAcked, SucceededWasAcked, Closed, Succeeded, NoNewSuccess, NoNewAnswer

\* What Written leaves in each row.
LEMMA WrittenRows ==
  ASSUME TypeInv, NEW w \in Workers, Busy(w), NEW status, NEW count, NEW next
  PROVE  /\ task[w].id \in Deliveries
         /\ Written(w, status, count, next)[task[w].id] =
              Row(store[task[w].id].sub, status, count, next)
         /\ \A d \in Deliveries \ {task[w].id} :
              Written(w, status, count, next)[d] = store[d]
  BY DEF Written, TypeInv, TypeOK, BusyHasTask, Task

\* The end of a record's processing brings no worker to the recording of an answer.
LEMMA FinishAnswers ==
  ASSUME TypeInv, NEW w \in Workers, NEW result, Finish(w, result)
  PROVE  NoNewAnswer
  BY DEF NoNewAnswer, Finish, TypeInv, TypeOK

\* An update to another status than "succeeded", applied or not.
LEMMA AckedUpdate ==
  ASSUME TypeInv, NEW w \in Workers, Busy(w),
         NEW status, status # "succeeded", NEW count, NEW next,
         store' \in {store, Written(w, status, count, next)}
  PROVE  NoNewSuccess
  <1>1. Row(store[task[w].id].sub, status, count, next).status # "succeeded"
    BY DEF Row
  <1>. QED  BY <1>1, WrittenRows DEF NoNewSuccess, Succeeded

\* A failed update writes nothing, or what it was meant to write.
LEMMA UpdateFailsEffect ==
  ASSUME NEW w \in Workers, NEW written, UpdateFails(w, written)
  PROVE  store' \in {store, written} /\ Finish(w, "error") /\ UNCHANGED acked
  BY DEF UpdateFails, StoreError, http

\* Every step keeps AckedInv: the only one that may write "succeeded" is
\* RecordResult, at a worker that got a 2xx answer.
LEMMA AckedStep ==
  ASSUME AckedInv, [Next]_vars
  PROVE  AckedInv'
  <1>0. TypeInv /\ TypeInv'
    BY TypeInvStep DEF AckedInv
  <1> USE <1>0, AckedKept
  <1>1. CASE Operate
    <2>. NoNewSuccess /\ NoNewAnswer /\ UNCHANGED acked
      BY <1>1 DEF Operate, CreateSubscription, UpdateSubscription, DeleteSubscription,
         DeleteDelivery, work, http, TypeInv, TypeOK, NoNewSuccess, NoNewAnswer, Succeeded
    <2>. QED  OBVIOUS
  <1>2. ASSUME NEW d \in Deliveries, NEW s \in Subscriptions, CreateDelivery(d, s)
        PROVE  AckedInv'
    <2>. NoNewSuccess /\ NoNewAnswer /\ UNCHANGED acked
      BY <1>2 DEF CreateDelivery, Row, work, http, TypeInv, TypeOK,
         NoNewSuccess, NoNewAnswer, Succeeded
    <2>. QED  OBVIOUS
  <1>3. ASSUME NEW d \in Deliveries, Replay(d)
        PROVE  AckedInv'
    <2>. NoNewSuccess /\ NoNewAnswer /\ UNCHANGED acked
      BY <1>3 DEF Replay, Row, work, http, TypeInv, TypeOK,
         NoNewSuccess, NoNewAnswer, Succeeded
    <2>. QED  OBVIOUS
  <1>4. ASSUME NEW d \in Deliveries, BecomeDue(d)
        PROVE  AckedInv'
    <2>. NoNewSuccess /\ NoNewAnswer /\ UNCHANGED acked
      BY <1>4 DEF BecomeDue, work, http, Delivery, TypeInv, TypeOK,
         NoNewSuccess, NoNewAnswer, Succeeded
    <2>. QED  OBVIOUS
  <1>5. ASSUME NEW w \in Workers,
               RunOnce(w) \/ GetSubscription(w) \/ GetSubscriptionFails(w)
                 \/ Return(w) \/ Crash(w)
        PROVE  AckedInv'
    <2>1. NoNewSuccess /\ UNCHANGED acked
      BY <1>5 DEF RunOnce, GetSubscription, GetSubscriptionFails, Return, Crash, Forget,
         data, http, NoNewSuccess, Succeeded
    <2>2. NoNewAnswer
      BY <1>5 DEF RunOnce, GetSubscription, GetSubscriptionFails, StoreError, Finish,
         Return, Crash, Forget, TypeInv, TypeOK, NoNewAnswer
    <2>. QED  BY <2>1, <2>2
  <1>6. ASSUME NEW w \in Workers, DeadLetterOrphan(w)
        PROVE  AckedInv'
    <2>1. Busy(w)
      BY <1>6 DEF DeadLetterOrphan, Busy
    <2>2. /\ store' \in {store, Written(w, "dead_lettered", store[task[w].id].attemptCount, "null")}
          /\ UNCHANGED acked
          /\ \E result : Finish(w, result)
      BY <1>6, UpdateFailsEffect DEF DeadLetterOrphan, http
    <2>3. NoNewSuccess
      BY <2>1, <2>2, AckedUpdate
    <2>. QED  BY <2>2, <2>3, FinishAnswers
  <1>7. ASSUME NEW w \in Workers, MarkDelivering(w)
        PROVE  AckedInv'
    <2>1. Busy(w)
      BY <1>7 DEF MarkDelivering, Busy
    <2>2. store' \in {store, Written(w, "delivering", AttemptNumber(w), "null")}
          /\ UNCHANGED acked
      BY <1>7, UpdateFailsEffect DEF MarkDelivering, http
    <2>3. NoNewAnswer
      <3>1. CASE \E written : UpdateFails(w, written)
        BY <3>1, UpdateFailsEffect, FinishAnswers
      <3>2. CASE pc' = [pc EXCEPT ![w] = "send"] /\ UNCHANGED task
        BY <3>2 DEF NoNewAnswer, TypeInv, TypeOK
      <3>. QED  BY <1>7, <3>1, <3>2 DEF MarkDelivering
    <2>4. NoNewSuccess
      BY <2>1, <2>2, AckedUpdate
    <2>. QED  BY <2>2, <2>3, <2>4
  <1>8. ASSUME NEW w \in Workers, Send(w)
        PROVE  AckedInv'
    <2>1. task[w] \in Task
      BY <1>8 DEF Send, Busy, TypeInv, BusyHasTask
    <2>2. PICK r \in {"2xx", "failed"} :
            /\ task' = [task EXCEPT ![w].response = r]
            /\ acked' = IF r = "2xx" THEN acked \cup {task[w].id} ELSE acked
      BY <1>8 DEF Send
    <2>3. task'[w].response = r /\ task'[w].id = task[w].id
          /\ \A v \in Workers \ {w} : task'[v] = task[v]
      BY <2>1, <2>2 DEF TypeInv, TypeOK, Task
    <2>4. pc' = [pc EXCEPT ![w] = "record"] /\ UNCHANGED store
      BY <1>8 DEF Send, data
    <2>5. AnswersAcked'
      BY <2>2, <2>3, <2>4 DEF AckedInv, AnswersAcked, TypeInv, TypeOK
    <2>6. SucceededWasAcked'
      BY <2>2, <2>4 DEF AckedInv, SucceededWasAcked, Closed
    <2>. QED  BY <2>5, <2>6 DEF AckedInv
  <1>9. ASSUME NEW w \in Workers, RecordResult(w)
        PROVE  AckedInv'
    <2> DEFINE status == ResultStatus(w)
               next == IF status = "pending" THEN "later" ELSE "null"
               written == Written(w, status, AttemptNumber(w), next)
    <2>1. Busy(w) /\ pc[w] = "record"
      BY <1>9 DEF RecordResult, Busy
    <2>2. store' \in {store, written} /\ UNCHANGED acked /\ \E result : Finish(w, result)
      BY <1>9, UpdateFailsEffect DEF RecordResult, http
    <2>3. NoNewAnswer
      BY <2>2, FinishAnswers
    <2>4. CASE task[w].response = "2xx"
      <3>1. task[w].id \in acked
        BY <2>1, <2>4 DEF AckedInv, AnswersAcked
      <3>2. SucceededWasAcked'
        BY <2>1, <2>2, <3>1, WrittenRows DEF AckedInv, SucceededWasAcked, Closed
      <3>. QED  BY <2>2, <2>3, <3>2 DEF AckedInv, AnswersAcked, NoNewAnswer
    <2>5. CASE task[w].response # "2xx"
      <3>1. status # "succeeded"
        BY <2>5 DEF ResultStatus
      <3>. QED  BY <2>1, <2>2, <2>3, <3>1, AckedUpdate
    <2>. QED  BY <2>4, <2>5
  <1>10. CASE UNCHANGED vars
    BY <1>10 DEF vars, data, work, http, AckedInv, AnswersAcked, SucceededWasAcked, Closed
  <1>. QED
    BY <1>1, <1>2, <1>3, <1>4, <1>5, <1>6, <1>7, <1>8, <1>9, <1>10
    DEF Next, Dispatch, Poll, Process

\* A record of any worker count that says "succeeded" was answered with 2xx.
THEOREM SuccessIsAcked == Spec => []SucceededWasAcked
  <1>1. Init => AckedInv
    BY TypeInvInit DEF Init, AckedInv, AnswersAcked, SucceededWasAcked, Closed
  <1>2. AckedInv => SucceededWasAcked
    BY DEF AckedInv
  <1>. QED  BY <1>1, <1>2, AckedStep, PTL DEF Spec

--------------------------------------------------------------------------------
(***************************************************************************)
(* NoEarlyDeadLetter: however the workers overlap, a delivery is given up  *)
(* only when the attempts some policy grants were spent, or its            *)
(* subscription has been missing.                                          *)
(*                                                                         *)
(* The count a worker writes is one more than the count it listed, which   *)
(* another worker may have overtaken: it may fall behind what was spent,   *)
(* and never gets ahead of it.                                             *)
(***************************************************************************)

\* Requests made or announced, and upsets that may have interrupted one.
Spent(d) == calls[d] + Cardinality(InFlight(d)) + upsets

\* A row counts no more than was spent, and is dead-lettered for a cause.
RowSound(d) ==
  store[d] # Absent =>
    /\ d \in issued
    /\ store[d].attemptCount <= Spent(d)
    /\ store[d].status = "dead_lettered" =>
         store[d].sub \in missing \/ \E m \in AttemptLimits : m <= Spent(d)

\* What a worker has listed is about a delivery that existed and says no more than was spent.
ListedSound(s) ==
  /\ s.id \in issued
  /\ s.attemptCount <= Spent(s.id)
  /\ store[s.id] # Absent => store[s.id].sub = s.sub

\* The same of the record at hand; an orphan's subscription has been missing.
TaskSound(w) ==
  /\ task[w].id \in issued
  /\ task[w].attemptCount <= Spent(task[w].id)
  /\ pc[w] \in {"send", "record"} => AttemptNumber(w) <= Spent(task[w].id)
  /\ pc[w] # "orphan" => task[w].maxAttempts \in AttemptLimits
  /\ pc[w] = "orphan" =>
       (store[task[w].id] # Absent => store[task[w].id].sub \in missing)

WorkerSound(w) ==
  /\ \A s \in batch[w] : ListedSound(s)
  /\ Busy(w) => TaskSound(w)

SpentInv ==
  /\ TypeInv
  /\ \A s \in Subscriptions : subs[s] = Absent => s \in missing
  /\ \A d \in Deliveries : RowSound(d)
  /\ \A w \in Workers : WorkerSound(w)

--------------------------------------------------------------------------------
(* What steps have in common.                                              *)

\* Nothing that was spent or missing is forgotten, and an id never gets another row.
Forward ==
  /\ TypeInv'
  /\ \A d \in Deliveries : Spent(d) \in Int /\ Spent(d)' \in Int /\ Spent(d) <= Spent(d)'
  /\ issued \subseteq issued' /\ missing \subseteq missing'
  /\ \A d \in Deliveries : store'[d] # Absent =>
       d \notin issued \/ (store[d] # Absent /\ store'[d].sub = store[d].sub)

\* The row is as it was but for its schedule or a reopening, or is deleted.
SameRow(d) ==
  store'[d] # Absent =>
    /\ store[d] # Absent /\ store'[d].sub = store[d].sub
    /\ store'[d].attemptCount = store[d].attemptCount
    /\ store'[d].status = "dead_lettered" => store[d].status = "dead_lettered"

\* Finitely many requests are announced at a time, for there are finitely many workers.
LEMMA FlightsFinite ==
  ASSUME NEW d \in Deliveries
  PROVE  IsFiniteSet(InFlight(d)) /\ Cardinality(InFlight(d)) \in Nat
  <1>1. InFlight(d) \in SUBSET Workers
    BY DEF InFlight
  <1>. QED  BY <1>1, DeliveryConstants, FS_Subset, FS_CardinalityType

\* The same after the step.
LEMMA FlightsFiniteNext ==
  ASSUME NEW d \in Deliveries
  PROVE  IsFiniteSet(InFlight(d)') /\ Cardinality(InFlight(d)') \in Nat
  <1>1. InFlight(d)' \in SUBSET Workers
    BY DEF InFlight
  <1>. QED  BY <1>1, DeliveryConstants, FS_Subset, FS_CardinalityType

\* A step of one worker adds or removes nobody else's request.
LEMMA Flights ==
  ASSUME NEW w \in Workers, NEW d \in Deliveries,
         \A v \in Workers \ {w} : pc'[v] = pc[v] /\ task'[v] = task[v]
  PROVE  /\ Cardinality(InFlight(d)) \in Nat /\ Cardinality(InFlight(d)') \in Nat
         /\ Cardinality(InFlight(d)) + (IF w \in InFlight(d)' THEN 1 ELSE 0) =
            Cardinality(InFlight(d)') + (IF w \in InFlight(d) THEN 1 ELSE 0)
  <1>1. InFlight(d) \ {w} = InFlight(d)' \ {w}
    BY DEF InFlight
  <1>2. Cardinality(InFlight(d) \ {w}) =
          IF w \in InFlight(d) THEN Cardinality(InFlight(d)) - 1 ELSE Cardinality(InFlight(d))
    BY FlightsFinite, FS_RemoveElement
  <1>3. Cardinality(InFlight(d)' \ {w}) =
          IF w \in InFlight(d)' THEN Cardinality(InFlight(d)') - 1 ELSE Cardinality(InFlight(d)')
    BY FlightsFiniteNext, FS_RemoveElement
  <1>4. Cardinality(InFlight(d)) \in Nat /\ Cardinality(InFlight(d)') \in Nat
    BY FlightsFinite, FlightsFiniteNext
  <1>5. Cardinality(InFlight(d) \ {w}) = Cardinality(InFlight(d)' \ {w})
    BY <1>1
  <1>. DEFINE rest == Cardinality(InFlight(d) \ {w})
  <1>6. /\ rest = IF w \in InFlight(d) THEN Cardinality(InFlight(d)) - 1
                                       ELSE Cardinality(InFlight(d))
        /\ rest = IF w \in InFlight(d)' THEN Cardinality(InFlight(d)') - 1
                                        ELSE Cardinality(InFlight(d)')
    BY <1>2, <1>3, <1>5
  <1>. HIDE DEF rest
  <1>. QED  BY <1>4, <1>6

\* What was spent on a delivery is a number.
LEMMA SpentType ==
  ASSUME TypeInv, NEW d \in Deliveries
  PROVE  Spent(d) \in Int /\ calls[d] \in Nat /\ upsets \in Nat
  BY FlightsFinite, DeliveryConstants DEF Spent, TypeInv, TypeOK

\* The same after the step.
LEMMA SpentTypeNext ==
  ASSUME TypeInv', NEW d \in Deliveries
  PROVE  Spent(d)' \in Int /\ calls'[d] \in Nat /\ upsets' \in Nat
  BY FlightsFiniteNext, DeliveryConstants DEF Spent, TypeInv, TypeOK

\* A row that was left as it was, or deleted, stays sound.
LEMMA RowStays ==
  ASSUME SpentInv, Forward, NEW d \in Deliveries, SameRow(d)
  PROVE  RowSound(d)'
  <1>. SUFFICES ASSUME store'[d] # Absent
                PROVE  /\ d \in issued'
                       /\ store'[d].attemptCount <= Spent(d)'
                       /\ store'[d].status = "dead_lettered" =>
                            \/ store'[d].sub \in missing'
                            \/ \E m \in AttemptLimits : m <= Spent(d)'
    BY DEF RowSound
  <1>1. store[d] # Absent /\ RowSound(d) /\ store[d] \in Delivery
    BY DEF SameRow, SpentInv, TypeInv, TypeOK
  <1>2. store[d].attemptCount \in Nat
    BY <1>1 DEF Delivery
  <1>3. \A m \in AttemptLimits : m \in Int
    BY DeliveryConstants
  <1>4. d \in issued' /\ store'[d].attemptCount <= Spent(d)'
    BY <1>1, <1>2 DEF RowSound, SameRow, Forward
  <1>5. ASSUME store'[d].status = "dead_lettered"
        PROVE  store'[d].sub \in missing' \/ \E m \in AttemptLimits : m <= Spent(d)'
    BY <1>1, <1>3, <1>5 DEF RowSound, SameRow, Forward
  <1>. QED  BY <1>4, <1>5

\* So does what a worker that took no part holds, or one that only drops some of it.
LEMMA ListedStays ==
  ASSUME SpentInv, Forward, NEW s \in Snapshot, ListedSound(s)
  PROVE  ListedSound(s)'
  <1>1. s.id \in Deliveries /\ s.attemptCount \in Nat
    BY DEF Snapshot
  <1>2. s.attemptCount <= Spent(s.id)'
    BY <1>1 DEF ListedSound, Forward
  <1>. QED  BY <1>1, <1>2 DEF ListedSound, Forward

\* A worker that keeps its task, or has none, stays sound.
LEMMA WorkerStays ==
  ASSUME SpentInv, Forward, NEW w \in Workers,
         batch'[w] \subseteq batch[w],
         Busy(w)' => pc'[w] = pc[w] /\ task'[w] = task[w]
  PROVE  WorkerSound(w)'
  <1>1. \A s \in batch'[w] : ListedSound(s)'
    BY ListedStays DEF SpentInv, WorkerSound, TypeInv, TypeOK
  <1>2. ASSUME Busy(w)' PROVE TaskSound(w)'
    <2>1. Busy(w) /\ TaskSound(w) /\ task[w] \in Task /\ pc'[w] = pc[w] /\ task'[w] = task[w]
      BY <1>2 DEF Busy, SpentInv, WorkerSound, TypeInv, BusyHasTask
    <2>2. task[w].id \in Deliveries /\ task[w].attemptCount \in Nat
      BY <2>1 DEF Task
    <2>3. /\ task[w].attemptCount <= Spent(task[w].id)'
          /\ pc[w] \in {"send", "record"} => task[w].attemptCount + 1 <= Spent(task[w].id)'
      BY <2>1, <2>2 DEF TaskSound, AttemptNumber, Forward
    <2>. QED  BY <2>1, <2>2, <2>3 DEF TaskSound, AttemptNumber, Forward
  <1>. QED  BY <1>1, <1>2 DEF WorkerSound

\* The invariant after a step of one worker, from its parts.
LEMMA SpentInvFrom ==
  ASSUME SpentInv, Forward, NEW w \in Workers,
         \A s \in Subscriptions : subs'[s] = Absent => s \in missing',
         \A d \in Deliveries : RowSound(d)',
         \A v \in Workers \ {w} : pc'[v] = pc[v] /\ task'[v] = task[v] /\ batch'[v] = batch[v],
         WorkerSound(w)'
  PROVE  SpentInv'
  <1>1. \A v \in Workers \ {w} : WorkerSound(v)'
    BY WorkerStays
  <1>. QED  BY <1>1 DEF SpentInv, Forward

--------------------------------------------------------------------------------
\* A step that sends, announces and interrupts no request.
LEMMA NothingSpent ==
  ASSUME SpentInv, TypeInv', calls' = calls, upsets <= upsets', upsets' \in Int,
         NEW d \in Deliveries, InFlight(d)' = InFlight(d)
  PROVE  Spent(d) \in Int /\ Spent(d)' \in Int /\ Spent(d) <= Spent(d)'
  <1>1. Cardinality(InFlight(d)') = Cardinality(InFlight(d))
    OBVIOUS
  <1>2. Cardinality(InFlight(d)) \in Nat /\ calls[d] \in Nat /\ upsets \in Nat
    BY FlightsFinite, SpentType DEF SpentInv
  <1>. QED  BY <1>1, <1>2 DEF Spent

\* What goes on around the workers.
LEMMA DataSpent ==
  ASSUME SpentInv, TypeInv', UNCHANGED <<work, http>>,
         upsets \in Int, upsets' \in Int, upsets <= upsets',
         issued \subseteq issued', missing \subseteq missing',
         \A s \in Subscriptions : subs'[s] = Absent => s \in missing',
         \A d \in Deliveries : SameRow(d) \/ (d \notin issued /\ (Forward => RowSound(d)'))
  PROVE  SpentInv'
  <1>1. \A d \in Deliveries : InFlight(d)' = InFlight(d)
    BY DEF InFlight, work
  <1>2. Forward
    BY <1>1, NothingSpent DEF Forward, SameRow, http
  <1>3. \A d \in Deliveries : RowSound(d)'
    BY <1>2, RowStays
  <1>4. \A w \in Workers : WorkerSound(w)'
    BY <1>2, WorkerStays DEF work
  <1>. QED  BY <1>2, <1>3, <1>4 DEF SpentInv, Forward

\* Operators, dispatchers, replays and the clock keep the invariant.
LEMMA AroundSpent ==
  ASSUME SpentInv, TypeInv',
         \/ Operate \/ Dispatch \/ (\E d \in Deliveries : Replay(d) \/ BecomeDue(d))
  PROVE  SpentInv'
  <1>. upsets \in Int /\ upsets' \in Int
    BY DeliveryConstants DEF SpentInv, TypeInv, TypeOK
  <1>1. ASSUME NEW s \in Subscriptions,
               CreateSubscription(s) \/ UpdateSubscription(s) \/ DeleteSubscription(s)
        PROVE  SpentInv'
    <2>1. \A d \in Deliveries : SameRow(d)
      BY <1>1 DEF CreateSubscription, UpdateSubscription, DeleteSubscription, SameRow
    <2>2. /\ issued' = issued /\ missing \subseteq missing' /\ UNCHANGED <<work, http, upsets>>
          /\ \A r \in Subscriptions \ {s} : subs'[r] = subs[r]
          /\ subs'[s] = Absent => s \in missing'
      BY <1>1, DeliveryConstants
         DEF CreateSubscription, UpdateSubscription, DeleteSubscription, SpentInv, TypeInv, TypeOK
    <2>. QED  BY <2>1, <2>2, DataSpent DEF SpentInv
  <1>2. ASSUME NEW d \in Deliveries, DeleteDelivery(d)
        PROVE  SpentInv'
    <2>1. \A e \in Deliveries : SameRow(e)
      BY <1>2 DEF DeleteDelivery, SameRow, SpentInv, TypeInv, TypeOK
    <2>. QED  BY <1>2, <2>1, DataSpent DEF DeleteDelivery, SpentInv
  <1>3. ASSUME NEW d \in Deliveries, NEW s \in Subscriptions, CreateDelivery(d, s)
        PROVE  SpentInv'
    <2>1. /\ store'[d] = Row(s, "pending", 0, "due")
          /\ \A e \in Deliveries \ {d} : store'[e] = store[e]
      BY <1>3 DEF CreateDelivery, SpentInv, TypeInv, TypeOK
    <2>2. \A e \in Deliveries \ {d} : SameRow(e)
      BY <2>1 DEF SameRow
    <2>3. ASSUME Forward PROVE RowSound(d)'
      <3>1. Spent(d)' \in Int /\ 0 <= Spent(d)'
        <4>1. Cardinality(InFlight(d)') \in Nat /\ calls'[d] \in Nat /\ upsets' \in Nat
          BY FlightsFiniteNext, SpentTypeNext
        <4>. QED  BY <4>1 DEF Spent
      <3>. QED  BY <1>3, <2>1, <3>1 DEF RowSound, CreateDelivery, Row
    <2>4. d \notin issued /\ issued \subseteq issued'
      BY <1>3 DEF CreateDelivery
    <2>. QED  BY <1>3, <2>2, <2>3, <2>4, DataSpent DEF CreateDelivery, SpentInv
  <1>4. ASSUME NEW d \in Deliveries, Replay(d) \/ BecomeDue(d)
        PROVE  SpentInv'
    <2>1. store[d] \in Delivery
      BY <1>4 DEF Replay, BecomeDue, SpentInv, TypeInv, TypeOK
    <2>2. /\ store'[d].sub = store[d].sub /\ store'[d].attemptCount = store[d].attemptCount
          /\ store'[d].status = "dead_lettered" => store[d].status = "dead_lettered"
          /\ \A e \in Deliveries \ {d} : store'[e] = store[e]
      BY <1>4, <2>1 DEF Replay, BecomeDue, Row, Delivery, SpentInv, TypeInv, TypeOK
    <2>3. \A e \in Deliveries : SameRow(e)
      BY <1>4, <2>2 DEF SameRow, Replay, BecomeDue
    <2>4. upsets <= upsets' /\ UNCHANGED <<subs, issued, missing, work, http>>
      BY <1>4 DEF Replay, BecomeDue
    <2>. QED  BY <2>3, <2>4, DataSpent DEF SpentInv
  <1>. QED  BY <1>1, <1>2, <1>3, <1>4 DEF Operate, Dispatch

--------------------------------------------------------------------------------
(* The worker.                                                             *)

\* A step of a worker that changes no row.
LEMMA StoreUntouched ==
  ASSUME SpentInv, TypeInv', UNCHANGED data, NEW w \in Workers,
         \A d \in Deliveries : Spent(d) \in Int /\ Spent(d)' \in Int /\ Spent(d) <= Spent(d)',
         \A v \in Workers \ {w} : pc'[v] = pc[v] /\ task'[v] = task[v] /\ batch'[v] = batch[v],
         Forward => WorkerSound(w)'
  PROVE  SpentInv'
  <1>1. Forward
    BY DEF Forward, data
  <1>2. \A d \in Deliveries : RowSound(d)'
    BY <1>1, RowStays DEF SameRow, data
  <1>. QED  BY <1>1, <1>2, SpentInvFrom DEF data, SpentInv

\* A worker that neither comes to a request nor leaves one sends none.
LEMMA NoRequest ==
  ASSUME SpentInv, NEW w \in Workers, NEW d \in Deliveries,
         pc[w] # "send", pc'[w] # "send",
         \A v \in Workers \ {w} : pc'[v] = pc[v] /\ task'[v] = task[v]
  PROVE  InFlight(d)' = InFlight(d)
  BY DEF InFlight

\* A record is finished with: the worker holds no task and lists nothing new.
LEMMA FinishSpent ==
  ASSUME SpentInv, NEW w \in Workers, NEW result, Finish(w, result)
  PROVE  /\ \A v \in Workers \ {w} : pc'[v] = pc[v] /\ task'[v] = task[v] /\ batch'[v] = batch[v]
         /\ batch'[w] \subseteq batch[w] /\ ~Busy(w)' /\ pc'[w] # "send"
  BY DEF Finish, SpentInv, TypeInv, TypeOK, Busy

\* A listing, of whatever records: what it returns is what the rows say.
LEMMA ListSpent ==
  ASSUME SpentInv, TypeInv', NEW w \in Workers, pc[w] = "idle",
         NEW B \in SUBSET {d \in Deliveries : store[d] # Absent},
         batch' = [batch EXCEPT ![w] = {SnapshotOf(d) : d \in B}],
         pc' = [pc EXCEPT ![w] = "next"], UNCHANGED <<data, task, http, upsets>>
  PROVE  SpentInv'
  <1>3. /\ \A v \in Workers \ {w} : pc'[v] = pc[v] /\ task'[v] = task[v] /\ batch'[v] = batch[v]
        /\ batch'[w] = {SnapshotOf(d) : d \in B} /\ pc'[w] = "next"
    BY DEF SpentInv, TypeInv, TypeOK
  <1>4. \A d \in Deliveries : InFlight(d)' = InFlight(d)
    BY <1>3, NoRequest
  <1>5. upsets \in Int
    BY DeliveryConstants DEF SpentInv, TypeInv, TypeOK
  <1>6. \A d \in Deliveries : Spent(d) \in Int /\ Spent(d)' \in Int /\ Spent(d) <= Spent(d)'
    BY <1>4, <1>5, NothingSpent DEF http
  <1>7. ASSUME NEW d \in B PROVE ListedSound(SnapshotOf(d)) /\ SnapshotOf(d) \in Snapshot
    <2>1. d \in Deliveries /\ store[d] # Absent
      OBVIOUS
    <2>2. RowSound(d) /\ store[d] \in Delivery
      BY <2>1 DEF SpentInv, TypeInv, TypeOK
    <2>. QED  BY <2>1, <2>2 DEF RowSound, ListedSound, SnapshotOf, Snapshot, Delivery
  <1>8. ASSUME Forward PROVE WorkerSound(w)'
    <2>1. ASSUME NEW s \in batch'[w] PROVE ListedSound(s)'
      <3>1. s \in Snapshot /\ ListedSound(s)
        BY <1>3, <1>7
      <3>. QED  BY <1>8, <3>1, ListedStays
    <2>2. ~Busy(w)'
      BY <1>3 DEF Busy
    <2>. QED  BY <2>1, <2>2 DEF WorkerSound
  <1>. QED  BY <1>3, <1>6, <1>8, StoreUntouched

LEMMA RunOnceSpent ==
  ASSUME SpentInv, TypeInv', NEW w \in Workers, RunOnce(w)
  PROVE  SpentInv'
  <1>1. PICK B \in Listings : batch' = [batch EXCEPT ![w] = {SnapshotOf(d) : d \in B}]
    BY DEF RunOnce
  <1>2. B \subseteq {d \in Deliveries : store[d] # Absent}
    BY DEF Listings, Eligible, Open
  <1>. QED  BY <1>1, <1>2, ListSpent DEF RunOnce

\* The subscription is read: what was listed becomes the task.
LEMMA GetSubscriptionSpent ==
  ASSUME SpentInv, TypeInv', NEW w \in Workers, GetSubscription(w)
  PROVE  SpentInv'
  <1>1. PICK s \in batch[w] :
          /\ task' = [task EXCEPT ![w] =
               [id |-> s.id, attemptCount |-> s.attemptCount,
                maxAttempts |-> subs[s.sub], response |-> "none"]]
          /\ pc' = [pc EXCEPT ![w] = IF subs[s.sub] = Absent THEN "orphan" ELSE "mark"]
          /\ batch' = [batch EXCEPT ![w] = @ \ {s}]
    BY DEF GetSubscription
  <1>2. UNCHANGED <<data, http, upsets>> /\ pc[w] = "next"
    BY DEF GetSubscription
  <1>3. s \in Snapshot /\ ListedSound(s)
    BY DEF SpentInv, TypeInv, TypeOK, WorkerSound
  <1>4. /\ \A v \in Workers \ {w} : pc'[v] = pc[v] /\ task'[v] = task[v] /\ batch'[v] = batch[v]
        /\ batch'[w] \subseteq batch[w]
        /\ task'[w] = [id |-> s.id, attemptCount |-> s.attemptCount,
                       maxAttempts |-> subs[s.sub], response |-> "none"]
        /\ pc'[w] = IF subs[s.sub] = Absent THEN "orphan" ELSE "mark"
    BY <1>1 DEF SpentInv, TypeInv, TypeOK
  <1>5. \A d \in Deliveries : InFlight(d)' = InFlight(d)
    BY <1>2, <1>4, NoRequest
  <1>6. upsets \in Int
    BY DeliveryConstants DEF SpentInv, TypeInv, TypeOK
  <1>7. \A d \in Deliveries : Spent(d) \in Int /\ Spent(d)' \in Int /\ Spent(d) <= Spent(d)'
    BY <1>2, <1>5, <1>6, NothingSpent DEF http
  <1>8. ASSUME Forward PROVE WorkerSound(w)'
    <2>1. \A r \in batch'[w] : ListedSound(r)'
      BY <1>4, <1>8, ListedStays DEF SpentInv, WorkerSound, TypeInv, TypeOK
    <2>2. ListedSound(s)'
      BY <1>3, <1>8, ListedStays
    <2>3. subs[s.sub] = Absent => s.sub \in missing
      BY <1>3 DEF Snapshot, SpentInv
    <2>4. subs[s.sub] # Absent => subs[s.sub] \in AttemptLimits
      BY <1>3 DEF Snapshot, SpentInv, TypeInv, TypeOK
    <2>5. /\ s.id \in issued' /\ s.attemptCount <= Spent(s.id)'
          /\ store'[s.id] # Absent => store'[s.id].sub = s.sub
      BY <2>2 DEF ListedSound
    <2>6. TaskSound(w)'
      BY <1>2, <1>4, <2>3, <2>4, <2>5 DEF TaskSound, data
    <2>. QED  BY <2>1, <2>6 DEF WorkerSound
  <1>. QED  BY <1>2, <1>4, <1>7, <1>8, StoreUntouched

\* A worker that stops before a request, for an error or at the end of its batch.
LEMMA StopSpent ==
  ASSUME SpentInv, TypeInv', NEW w \in Workers, pc[w] # "send", UNCHANGED <<data, http>>,
         upsets' \in {upsets, upsets + 1},
         \A v \in Workers \ {w} : pc'[v] = pc[v] /\ task'[v] = task[v] /\ batch'[v] = batch[v],
         batch'[w] \subseteq batch[w], ~Busy(w)'
  PROVE  SpentInv'
  <1>1. pc'[w] # "send"
    BY DEF Busy
  <1>2. \A d \in Deliveries : InFlight(d)' = InFlight(d)
    BY <1>1, NoRequest
  <1>3. upsets \in Int /\ upsets' \in Int
    BY DeliveryConstants DEF SpentInv, TypeInv, TypeOK
  <1>4. upsets <= upsets'
    BY <1>3
  <1>5. \A d \in Deliveries : Spent(d) \in Int /\ Spent(d)' \in Int /\ Spent(d) <= Spent(d)'
    BY <1>2, <1>3, <1>4, NothingSpent DEF http
  <1>6. Forward => WorkerSound(w)'
    BY WorkerStays
  <1>. QED  BY <1>5, <1>6, StoreUntouched

\* A write to the row at hand, applied or not.
LEMMA WriteSpent ==
  ASSUME SpentInv, TypeInv', NEW w \in Workers, Busy(w), NEW d \in Deliveries, task[w].id = d,
         NEW status, NEW count \in Nat, NEW next,
         store[d] # Absent,
         store' \in {store, Written(w, status, count, next)},
         UNCHANGED <<subs, issued, missing>>,
         \A e \in Deliveries : Spent(e) \in Int /\ Spent(e)' \in Int /\ Spent(e) <= Spent(e)',
         count <= Spent(d)',
         status = "dead_lettered" =>
           store[d].sub \in missing \/ \E m \in AttemptLimits : m <= Spent(d)',
         \A v \in Workers \ {w} : pc'[v] = pc[v] /\ task'[v] = task[v] /\ batch'[v] = batch[v],
         Forward => WorkerSound(w)'
  PROVE  SpentInv'
  <1>1. TaskSound(w)
    BY DEF SpentInv, WorkerSound
  <1>2. /\ \A e \in Deliveries \ {d} : store'[e] = store[e]
        /\ \/ store'[d] = store[d]
           \/ store'[d] = Row(store[d].sub, status, count, next)
    BY <1>1 DEF Written, SpentInv, TypeInv, TypeOK
  <1>3. store'[d].sub = store[d].sub
    BY <1>2 DEF Row
  <1>4. Forward
    BY <1>2, <1>3 DEF Forward
  <1>5. ASSUME NEW e \in Deliveries PROVE RowSound(e)'
    <2>1. CASE store'[e] = store[e]
      BY <2>1, <1>4, RowStays DEF SameRow
    <2>2. CASE e = d /\ store'[d] = Row(store[d].sub, status, count, next)
      BY <2>2, <1>1 DEF RowSound, TaskSound, Row
    <2>. QED  BY <1>2, <2>1, <2>2
  <1>. QED  BY <1>4, <1>5, SpentInvFrom DEF SpentInv

\* An update that fails ends the batch; the upset pays for what it may have written.
LEMMA UpdateFailsSpent ==
  ASSUME SpentInv, TypeInv', NEW w \in Workers, Busy(w), pc[w] # "send",
         NEW d \in Deliveries, task[w].id = d,
         NEW status, NEW count \in Nat, NEW next,
         store[d] # Absent =>
           /\ count <= Spent(d) + 1
           /\ status = "dead_lettered" =>
                \/ store[d].sub \in missing
                \/ \E m \in AttemptLimits : m <= Spent(d) + 1,
         UpdateFails(w, Written(w, status, count, next))
  PROVE  SpentInv'
  <1>1. CASE store[d] = Absent
    BY <1>1, FinishSpent, StopSpent DEF UpdateFails, data
  <1>2. CASE store[d] # Absent
    <2>1. StoreError(w) /\ store' \in {store, Written(w, status, count, next)}
          /\ UNCHANGED <<subs, issued, missing, http>>
      BY <1>2 DEF UpdateFails
    <2>2. upsets' = upsets + 1 /\ Finish(w, "error")
      BY <2>1 DEF StoreError
    <2>3. /\ \A v \in Workers \ {w} : pc'[v] = pc[v] /\ task'[v] = task[v] /\ batch'[v] = batch[v]
          /\ batch'[w] \subseteq batch[w] /\ ~Busy(w)' /\ pc'[w] # "send"
      BY <2>2, FinishSpent
    <2>4. ASSUME NEW e \in Deliveries
          PROVE  Spent(e) \in Int /\ Spent(e)' = Spent(e) + 1
      <3>1. InFlight(e)' = InFlight(e)
        BY <2>3, NoRequest
      <3>2. Cardinality(InFlight(e)') = Cardinality(InFlight(e))
        BY <3>1
      <3>3. /\ Cardinality(InFlight(e)) \in Nat /\ calls[e] \in Nat /\ upsets \in Nat
            /\ calls'[e] = calls[e]
        BY <2>1, FlightsFinite, SpentType DEF SpentInv, http
      <3>. QED  BY <2>2, <3>2, <3>3 DEF Spent
    <2>5. \A e \in Deliveries : Spent(e) \in Int /\ Spent(e)' \in Int /\ Spent(e) <= Spent(e)'
      BY <2>4
    <2>6. /\ count <= Spent(d)'
          /\ status = "dead_lettered" =>
               store[d].sub \in missing \/ \E m \in AttemptLimits : m <= Spent(d)'
      BY <1>2, <2>4
    <2>7. Forward => WorkerSound(w)'
      BY <2>3, WorkerStays
    <2>. QED  BY <1>2, <2>1, <2>3, <2>5, <2>6, <2>7, WriteSpent
  <1>. QED  BY <1>1, <1>2

\* The orphan: its subscription has been missing, its count stays.
LEMMA DeadLetterOrphanSpent ==
  ASSUME SpentInv, TypeInv', NEW w \in Workers, DeadLetterOrphan(w)
  PROVE  SpentInv'
  <1>1. pc[w] = "orphan" /\ Busy(w) /\ TaskSound(w)
    BY DEF DeadLetterOrphan, Busy, SpentInv, WorkerSound
  <1>2. PICK d \in Deliveries : d = task[w].id
    BY <1>1 DEF SpentInv, TypeInv, BusyHasTask, Task, Busy
  <1>3. store[d] # Absent =>
          /\ store[d].attemptCount \in Nat /\ store[d].attemptCount <= Spent(d)
          /\ store[d].sub \in missing
    BY <1>1, <1>2 DEF TaskSound, SpentInv, RowSound, TypeInv, TypeOK, Delivery
  <1>4. Spent(d) \in Int
    BY SpentType DEF SpentInv
  <1>5. CASE store[d] = Absent
    <2>1. Finish(w, "error") /\ UNCHANGED <<data, http, upsets>>
      BY <1>2, <1>5 DEF DeadLetterOrphan, UpdateFails, data
    <2>. QED  BY <1>1, <2>1, FinishSpent, StopSpent
  <1>6. CASE store[d] # Absent
    <2>. DEFINE count == store[d].attemptCount
                written == Written(w, "dead_lettered", count, "null")
    <2>1. CASE store' = written /\ Finish(w, "dead_lettered")
               /\ UNCHANGED <<subs, issued, missing, http, upsets>>
      <3>1. /\ \A v \in Workers \ {w} : pc'[v] = pc[v] /\ task'[v] = task[v] /\ batch'[v] = batch[v]
            /\ batch'[w] \subseteq batch[w] /\ ~Busy(w)' /\ pc'[w] # "send"
        BY <2>1, FinishSpent
      <3>2. \A e \in Deliveries : InFlight(e)' = InFlight(e)
        BY <1>1, <3>1, NoRequest
      <3>3. upsets \in Int
        BY DeliveryConstants DEF SpentInv, TypeInv, TypeOK
      <3>4. \A e \in Deliveries : Spent(e) \in Int /\ Spent(e)' \in Int /\ Spent(e) <= Spent(e)'
        BY <2>1, <3>2, <3>3, NothingSpent DEF http
      <3>5. count \in Nat /\ count <= Spent(d)'
        BY <1>3, <1>6, <3>4
      <3>6. Forward => WorkerSound(w)'
        BY <3>1, WorkerStays
      <3>. HIDE DEF count
      <3>. QED  BY <1>1, <1>2, <1>3, <1>6, <2>1, <3>1, <3>4, <3>5, <3>6, WriteSpent
    <2>2. CASE UpdateFails(w, written)
      <3>1. count \in Nat /\ count <= Spent(d) + 1
        BY <1>3, <1>4, <1>6
      <3>. HIDE DEF count
      <3>. QED  BY <1>1, <1>2, <1>3, <1>6, <2>2, <3>1, UpdateFailsSpent
    <2>. QED  BY <1>2, <2>1, <2>2 DEF DeadLetterOrphan
  <1>. QED  BY <1>5, <1>6

\* The attempt is announced: one more request in flight, one more counted.
LEMMA MarkDeliveringSpent ==
  ASSUME SpentInv, TypeInv', NEW w \in Workers, MarkDelivering(w)
  PROVE  SpentInv'
  <1>1. pc[w] = "mark" /\ Busy(w) /\ TaskSound(w)
    BY DEF MarkDelivering, Busy, SpentInv, WorkerSound
  <1>2. PICK d \in Deliveries : d = task[w].id
    BY <1>1 DEF SpentInv, TypeInv, BusyHasTask, Task, Busy
  <1>. DEFINE count == AttemptNumber(w)
              written == Written(w, "delivering", count, "null")
  <1>3. Spent(d) \in Int
    BY SpentType DEF SpentInv
  <1>4. count \in Nat /\ count <= Spent(d) + 1
    <2>1. task[w].attemptCount \in Nat /\ task[w].attemptCount <= Spent(d)
      BY <1>1, <1>2 DEF TaskSound, SpentInv, TypeInv, BusyHasTask, Task, Busy
    <2>. QED  BY <1>3, <2>1 DEF AttemptNumber
  <1>5. CASE /\ store[task[w].id] # Absent /\ store' = written
             /\ pc' = [pc EXCEPT ![w] = "send"]
             /\ UNCHANGED <<subs, issued, missing, batch, task, outcome, http, upsets>>
    <2>1. /\ \A v \in Workers \ {w} : pc'[v] = pc[v] /\ task'[v] = task[v] /\ batch'[v] = batch[v]
          /\ batch'[w] \subseteq batch[w] /\ pc'[w] = "send" /\ task'[w] = task[w]
      BY <1>5 DEF SpentInv, TypeInv, TypeOK
    <2>2. ASSUME NEW e \in Deliveries
          PROVE  Spent(e) \in Int /\ Spent(e)' = Spent(e) + (IF e = d THEN 1 ELSE 0)
      <3>1. (w \in InFlight(e)' <=> e = d) /\ w \notin InFlight(e)
        BY <1>1, <1>2, <2>1 DEF InFlight
      <3>2. /\ Cardinality(InFlight(e)) \in Nat
            /\ Cardinality(InFlight(e)') = Cardinality(InFlight(e)) + (IF e = d THEN 1 ELSE 0)
        BY <2>1, <3>1, Flights
      <3>3. calls[e] \in Nat /\ upsets \in Nat /\ calls'[e] = calls[e] /\ upsets' = upsets
        BY <1>5, SpentType DEF SpentInv, http
      <3>. QED  BY <3>2, <3>3 DEF Spent
    <2>3. \A e \in Deliveries : Spent(e) \in Int /\ Spent(e)' \in Int /\ Spent(e) <= Spent(e)'
      BY <2>2
    <2>4. count <= Spent(d)'
      BY <1>4, <2>2
    <2>5. ASSUME Forward PROVE WorkerSound(w)'
      <3>1. \A s \in batch'[w] : ListedSound(s)'
        BY <2>1, <2>5, ListedStays DEF SpentInv, WorkerSound, TypeInv, TypeOK
      <3>2. task'[w].id = d /\ AttemptNumber(w)' = count
        BY <1>2, <2>1 DEF AttemptNumber
      <3>3. task'[w].attemptCount <= Spent(d)'
        <4>1. task[w].attemptCount \in Nat /\ task[w].attemptCount <= Spent(d)
          BY <1>1, <1>2 DEF TaskSound, SpentInv, TypeInv, BusyHasTask, Task, Busy
        <4>. QED  BY <2>1, <2>3, <4>1
      <3>4. AttemptNumber(w)' <= Spent(d)'
        BY <2>4, <3>2
      <3>5. Spent(task[w].id)' = Spent(d)'
        BY <3>2 DEF Spent, InFlight
      <3>6. TaskSound(w)'
        BY <1>1, <1>2, <1>5, <2>1, <3>2, <3>3, <3>4, <3>5 DEF TaskSound
      <3>. QED  BY <3>1, <3>6 DEF WorkerSound
    <2>. HIDE DEF count
    <2>. QED  BY <1>1, <1>2, <1>4, <1>5, <2>1, <2>3, <2>4, <2>5, WriteSpent
  <1>6. CASE UpdateFails(w, written)
    <2>. HIDE DEF count
    <2>. QED  BY <1>1, <1>2, <1>4, <1>6, UpdateFailsSpent
  <1>. QED  BY <1>5, <1>6 DEF MarkDelivering

\* The request is made: what was announced is now a call.
LEMMA SendSpent ==
  ASSUME SpentInv, TypeInv', NEW w \in Workers, Send(w)
  PROVE  SpentInv'
  <1>1. pc[w] = "send" /\ Busy(w) /\ TaskSound(w) /\ UNCHANGED <<data, batch, outcome, upsets>>
    BY DEF Send, Busy, SpentInv, WorkerSound
  <1>2. PICK d \in Deliveries : d = task[w].id
    BY <1>1 DEF SpentInv, TypeInv, BusyHasTask, Task, Busy
  <1>3. PICK r \in {"2xx", "failed"} : task' = [task EXCEPT ![w].response = r]
    BY DEF Send
  <1>4. pc' = [pc EXCEPT ![w] = "record"] /\ calls' = [calls EXCEPT ![d] = @ + 1]
    BY <1>2 DEF Send
  <1>5. task[w] \in Task
    BY <1>1 DEF SpentInv, TypeInv, BusyHasTask, Busy
  <1>6. /\ \A v \in Workers \ {w} : pc'[v] = pc[v] /\ task'[v] = task[v] /\ batch'[v] = batch[v]
        /\ pc'[w] = "record" /\ batch'[w] = batch[w]
        /\ task'[w].id = d /\ task'[w].attemptCount = task[w].attemptCount
        /\ task'[w].maxAttempts = task[w].maxAttempts
    BY <1>1, <1>2, <1>3, <1>4, <1>5 DEF SpentInv, TypeInv, TypeOK, Task
  <1>7. ASSUME NEW e \in Deliveries
        PROVE  Spent(e) \in Int /\ Spent(e)' = Spent(e)
    <2>1. (w \in InFlight(e) <=> e = d) /\ w \notin InFlight(e)'
      BY <1>1, <1>2, <1>6 DEF InFlight
    <2>2. /\ Cardinality(InFlight(e)) \in Nat /\ Cardinality(InFlight(e)') \in Nat
          /\ Cardinality(InFlight(e)) = Cardinality(InFlight(e)') + (IF e = d THEN 1 ELSE 0)
      BY <1>6, <2>1, Flights
    <2>3. calls[e] \in Nat /\ upsets \in Nat /\ upsets' = upsets
      BY <1>1, SpentType DEF SpentInv
    <2>4. calls'[e] = calls[e] + (IF e = d THEN 1 ELSE 0)
      BY <1>4, <2>3 DEF SpentInv, TypeInv, TypeOK
    <2>. QED  BY <2>2, <2>3, <2>4 DEF Spent
  <1>8. ASSUME Forward PROVE WorkerSound(w)'
    <2>1. \A s \in batch'[w] : ListedSound(s)'
      BY <1>6, <1>8, ListedStays DEF SpentInv, WorkerSound, TypeInv, TypeOK
    <2>2. Spent(task[w].id)' = Spent(d)'
      BY <1>6 DEF Spent, InFlight
    <2>3. /\ task[w].attemptCount <= Spent(d) /\ AttemptNumber(w) <= Spent(d)
          /\ d \in issued /\ task[w].maxAttempts \in AttemptLimits
      BY <1>1, <1>2 DEF TaskSound
    <2>4. task'[w].attemptCount <= Spent(d)' /\ AttemptNumber(w)' <= Spent(d)'
      BY <1>6, <1>7, <2>3 DEF AttemptNumber
    <2>5. TaskSound(w)'
      BY <1>1, <1>6, <2>2, <2>3, <2>4 DEF TaskSound, data
    <2>. QED  BY <2>1, <2>5 DEF WorkerSound
  <1>9. \A e \in Deliveries : Spent(e) \in Int /\ Spent(e)' \in Int /\ Spent(e) <= Spent(e)'
    BY <1>7
  <1>. QED  BY <1>1, <1>6, <1>8, <1>9, StoreUntouched

\* The result: the attempt was counted already, and giving up means some policy's
\* attempts are spent.
LEMMA RecordResultSpent ==
  ASSUME SpentInv, TypeInv', NEW w \in Workers, RecordResult(w)
  PROVE  SpentInv'
  <1>1. pc[w] = "record" /\ Busy(w) /\ TaskSound(w)
    BY DEF RecordResult, Busy, SpentInv, WorkerSound
  <1>2. PICK d \in Deliveries : d = task[w].id
    BY <1>1 DEF SpentInv, TypeInv, BusyHasTask, Task, Busy
  <1>. DEFINE count == AttemptNumber(w)
              status == ResultStatus(w)
              next == IF status = "pending" THEN "later" ELSE "null"
              written == Written(w, status, count, next)
  <1>3. Spent(d) \in Int
    BY SpentType DEF SpentInv
  <1>4. count \in Nat /\ count <= Spent(d)
    <2>1. task[w].attemptCount \in Nat
      BY <1>1 DEF SpentInv, TypeInv, BusyHasTask, Task, Busy
    <2>. QED  BY <1>1, <1>2, <2>1 DEF TaskSound, AttemptNumber
  <1>5. status = "dead_lettered" => \E m \in AttemptLimits : m \in Nat /\ m <= Spent(d)
    <2>1. task[w].maxAttempts \in AttemptLimits /\ task[w].maxAttempts \in Nat
      BY <1>1, DeliveryConstants DEF TaskSound
    <2>2. status = "dead_lettered" => ~ (count < task[w].maxAttempts)
      BY DEF ResultStatus, ShouldRetry
    <2>. HIDE DEF count, status
    <2>. QED  BY <1>3, <1>4, <2>1, <2>2
  <1>6. CASE /\ store[task[w].id] # Absent /\ store' = written /\ Finish(w, status)
             /\ UNCHANGED <<subs, issued, missing, http, upsets>>
    <2>1. /\ \A v \in Workers \ {w} : pc'[v] = pc[v] /\ task'[v] = task[v] /\ batch'[v] = batch[v]
          /\ batch'[w] \subseteq batch[w] /\ ~Busy(w)' /\ pc'[w] # "send"
      BY <1>6, FinishSpent
    <2>2. \A e \in Deliveries : InFlight(e)' = InFlight(e)
      BY <1>1, <2>1, NoRequest
    <2>3. upsets \in Int
      BY DeliveryConstants DEF SpentInv, TypeInv, TypeOK
    <2>4. \A e \in Deliveries : Spent(e) \in Int /\ Spent(e)' \in Int /\ Spent(e) <= Spent(e)'
      BY <1>6, <2>2, <2>3, NothingSpent DEF http
    <2>5. /\ count <= Spent(d)'
          /\ status = "dead_lettered" => \E m \in AttemptLimits : m <= Spent(d)'
      <3>. HIDE DEF count, status
      <3>. QED  BY <1>4, <1>5, <2>4
    <2>6. Forward => WorkerSound(w)'
      BY <2>1, WorkerStays
    <2>. HIDE DEF count, status, next
    <2>. QED  BY <1>1, <1>2, <1>4, <1>6, <2>1, <2>4, <2>5, <2>6, WriteSpent
  <1>7. CASE UpdateFails(w, written)
    <2>. HIDE DEF count, status, next
    <2>1. /\ count <= Spent(d) + 1
          /\ status = "dead_lettered" => \E m \in AttemptLimits : m <= Spent(d) + 1
      BY <1>3, <1>4, <1>5
    <2>. QED  BY <1>1, <1>2, <1>4, <1>7, <2>1, UpdateFailsSpent
  <1>. QED  BY <1>6, <1>7 DEF RecordResult

\* A crash loses at most one announced request, and is an upset.
LEMMA CrashSpent ==
  ASSUME SpentInv, TypeInv', NEW w \in Workers, Forget(w)
  PROVE  SpentInv'
  <1>1. /\ \A v \in Workers \ {w} : pc'[v] = pc[v] /\ task'[v] = task[v] /\ batch'[v] = batch[v]
        /\ batch'[w] = {} /\ pc'[w] = "idle"
        /\ UNCHANGED <<data, http>> /\ upsets' = upsets + 1
    BY DEF Forget, SpentInv, TypeInv, TypeOK
  <1>2. ASSUME NEW e \in Deliveries
        PROVE  Spent(e) \in Int /\ Spent(e)' \in Int /\ Spent(e) <= Spent(e)'
    <2>1. w \notin InFlight(e)'
      BY <1>1 DEF InFlight
    <2>2. /\ Cardinality(InFlight(e)) \in Nat /\ Cardinality(InFlight(e)') \in Nat
          /\ Cardinality(InFlight(e)) =
               Cardinality(InFlight(e)') + (IF w \in InFlight(e) THEN 1 ELSE 0)
      BY <1>1, <2>1, Flights
    <2>3. calls[e] \in Nat /\ upsets \in Nat /\ calls'[e] = calls[e] /\ upsets' = upsets + 1
      BY <1>1, SpentType DEF SpentInv, http
    <2>. QED  BY <2>2, <2>3 DEF Spent
  <1>3. Forward => WorkerSound(w)'
    BY <1>1 DEF WorkerSound, Busy
  <1>. QED  BY <1>1, <1>2, <1>3, StoreUntouched

\* Every step of a worker keeps the invariant.
LEMMA WorkerStepSpent ==
  ASSUME SpentInv, TypeInv', NEW w \in Workers, Poll(w)
  PROVE  SpentInv'
  <1>1. CASE GetSubscriptionFails(w)
    <2>1. StoreError(w) /\ UNCHANGED <<data, http>> /\ pc[w] = "next"
      BY <1>1 DEF GetSubscriptionFails
    <2>2. Finish(w, "error") /\ upsets' = upsets + 1
      BY <2>1 DEF StoreError
    <2>. QED  BY <2>1, <2>2, FinishSpent, StopSpent
  <1>2. CASE Return(w)
    <2>1. /\ pc[w] = "done" /\ pc'[w] = "idle" /\ UNCHANGED <<data, batch, task, http, upsets>>
          /\ \A v \in Workers \ {w} : pc'[v] = pc[v]
      BY <1>2 DEF Return, SpentInv, TypeInv, TypeOK
    <2>2. ~Busy(w)'
      BY <2>1 DEF Busy
    <2>. QED  BY <2>1, <2>2, StopSpent
  <1>. QED  BY <1>1, <1>2, RunOnceSpent, GetSubscriptionSpent, DeadLetterOrphanSpent,
               MarkDeliveringSpent, SendSpent, RecordResultSpent DEF Poll, Process

--------------------------------------------------------------------------------
\* At the start nothing was issued and no worker is busy.
LEMMA InitSpent == Init => SpentInv
  <1>. SUFFICES ASSUME Init PROVE SpentInv
    OBVIOUS
  <1>1. TypeInv
    BY TypeInvInit
  <1>2. \A s \in Subscriptions : subs[s] # Absent
    BY DeliveryConstants DEF Init
  <1>. QED  BY <1>1, <1>2 DEF Init, SpentInv, RowSound, WorkerSound, Busy

\* Every step keeps the invariant.
LEMMA NextSpent == SpentInv /\ [Next]_vars => SpentInv'
  <1>. SUFFICES ASSUME SpentInv, [Next]_vars PROVE SpentInv'
    OBVIOUS
  <1>1. TypeInv'
    BY TypeInvStep DEF SpentInv
  <1>2. CASE UNCHANGED vars
    BY <1>2 DEF vars, data, work, http, SpentInv, TypeInv, TypeOK, BusyHasTask, Busy, RowSound,
                WorkerSound, ListedSound, TaskSound, Spent, InFlight, AttemptNumber
  <1>3. CASE Next
    BY <1>1, <1>3, AroundSpent, WorkerStepSpent, CrashSpent DEF Next, Crash
  <1>. QED  BY <1>2, <1>3

\* The invariant is about NoEarlyDeadLetter's own count.
LEMMA SpentSound == SpentInv => NoEarlyDeadLetter
  <1>. SUFFICES ASSUME SpentInv, NEW d \in Deliveries, Closed(d),
                       store[d].status = "dead_lettered", store[d].sub \notin missing
                PROVE  \E m \in AttemptLimits :
                         calls[d] + Cardinality(InFlight(d)) + upsets >= m
    BY DEF NoEarlyDeadLetter
  <1>1. PICK m \in AttemptLimits : m <= Spent(d)
    BY DEF SpentInv, RowSound, Closed
  <1>2. Spent(d) \in Int /\ m \in Int
    BY SpentType, DeliveryConstants DEF SpentInv
  <1>. QED  BY <1>1, <1>2 DEF Spent

\* However many workers overlap, however often they crash and stores fail, a record is
\* given up only for a missing subscription or after the attempts some policy grants
\* (handleFailure, and the orphan branch of processDeliveryRecord).
THEOREM NothingGivenUpEarly == Spec => []NoEarlyDeadLetter
  BY SpentSound, InitSpent, NextSpent, PTL DEF Spec

--------------------------------------------------------------------------------
(***************************************************************************)
(* A single worker, the deployment in which the retry policy is honoured:  *)
(* what the worker remembers of a record stays true of the row until it is *)
(* done with the record.                                                   *)
(***************************************************************************)

SoleWorker == \A v, w \in Workers : v = w

\* n requests are within some policy, given u upsets.
Allowed(n, u) == n <= 1 + u \/ \E m \in AttemptLimits : n <= m + u

\* The records a worker has yet to process are as they were when it listed them.
SnapshotsFresh ==
  \A w \in Workers : \A s \in batch[w] :
    /\ s.id \in issued
    /\ calls[s.id] <= s.attemptCount
    /\ Allowed(s.attemptCount + 1, upsets)
    /\ store[s.id] # Absent => Open(s.id) /\ store[s.id].attemptCount = s.attemptCount
    /\ Busy(w) => s.id # task[w].id
    /\ \A t \in batch[w] : s.id = t.id => s = t

\* So is the one it is processing, up to the attempt it has recorded.
TaskFresh ==
  \A w \in Workers : Busy(w) =>
    /\ task[w].id \in issued
    /\ Allowed(task[w].attemptCount + 1, upsets)
    /\ store[task[w].id] # Absent => Open(task[w].id)
    /\ pc[w] # "orphan" => task[w].maxAttempts \in AttemptLimits
    /\ pc[w] \in {"orphan", "mark"} =>
         /\ calls[task[w].id] <= task[w].attemptCount
         /\ store[task[w].id] # Absent =>
              store[task[w].id].attemptCount = task[w].attemptCount
    /\ pc[w] = "send" => calls[task[w].id] <= task[w].attemptCount
    /\ pc[w] = "record" => calls[task[w].id] <= task[w].attemptCount + 1
    /\ pc[w] \in {"send", "record"} /\ store[task[w].id] # Absent =>
         store[task[w].id].attemptCount = task[w].attemptCount + 1

\* A worker has written the attempt it is making on d.
Attempting(d) == \E w \in Workers : pc[w] \in {"send", "record"} /\ task[w].id = d

\* An open record nobody is attempting has room for one more attempt.
RecordsAllowed ==
  \A d \in Deliveries : store[d] # Absent =>
    /\ d \in issued
    /\ Allowed(store[d].attemptCount, upsets)
    /\ Open(d) /\ ~Attempting(d) => Allowed(store[d].attemptCount + 1, upsets)

\* The clock has nothing to do with a closed record.
ClosedUnscheduled == \A d \in Deliveries : Closed(d) => store[d].nextAttemptAt # "later"

CallsAllowed ==
  \A d \in Deliveries : Allowed(calls[d], upsets) /\ (d \notin issued => calls[d] = 0)

SoleInv ==
  /\ TypeInv
  /\ SnapshotsFresh
  /\ TaskFresh
  /\ RecordsAllowed
  /\ ClosedUnscheduled
  /\ CallsAllowed
  /\ CountCoversCalls

--------------------------------------------------------------------------------
\* Fewer requests, or as many more as there were upsets, are allowed as well.
LEMMA AllowedMonotone ==
  ASSUME NEW m \in Int, NEW n \in Int, NEW u \in Int, NEW v \in Int,
         u <= v, n - v <= m - u, Allowed(m, u)
  PROVE  Allowed(n, v)
  <1>1. CASE m <= 1 + u
    BY <1>1 DEF Allowed
  <1>2. CASE \E k \in AttemptLimits : m <= k + u
    <2>1. PICK k \in AttemptLimits : m <= k + u
      BY <1>2
    <2>2. k \in Int
      BY DeliveryConstants
    <2>3. n <= k + v
      BY <2>1, <2>2
    <2>. QED  BY <2>3 DEF Allowed
  <1>. QED  BY <1>1, <1>2 DEF Allowed

\* Another upset allows another request.
LEMMA AllowedAfter ==
  ASSUME NEW n \in Nat, NEW u \in Nat, NEW v \in {u, u + 1}, Allowed(n, u)
  PROVE  Allowed(n, v) /\ (v = u + 1 => Allowed(n + 1, v))
  BY AllowedMonotone

\* The numbers in a well-typed state.
LEMMA Numbers ==
  ASSUME TypeInv
  PROVE  /\ upsets \in Nat
         /\ \A d \in Deliveries : calls[d] \in Nat
         /\ \A d \in Deliveries : store[d] # Absent => store[d].attemptCount \in Nat
         /\ \A w \in Workers : \A s \in batch[w] : s.id \in Deliveries /\ s.attemptCount \in Nat
         /\ \A w \in Workers : Busy(w) => task[w].id \in Deliveries /\ task[w].attemptCount \in Nat
  <1>1. upsets \in Nat
    BY DeliveryConstants DEF TypeInv, TypeOK
  <1>2. \A d \in Deliveries : calls[d] \in Nat
    BY DEF TypeInv, TypeOK
  <1>3. \A d \in Deliveries : store[d] # Absent => store[d].attemptCount \in Nat
    BY DEF TypeInv, TypeOK, Delivery
  <1>4. \A w \in Workers : \A s \in batch[w] : s.id \in Deliveries /\ s.attemptCount \in Nat
    <2>1. \A w \in Workers : batch[w] \subseteq Snapshot
      BY DEF TypeInv, TypeOK
    <2>. QED  BY <2>1 DEF Snapshot
  <1>5. \A w \in Workers : Busy(w) => task[w].id \in Deliveries /\ task[w].attemptCount \in Nat
    BY DEF TypeInv, BusyHasTask, Task
  <1>. QED  BY <1>1, <1>2, <1>3, <1>4, <1>5

--------------------------------------------------------------------------------
(* Steps that leave the worker alone.                                      *)

\* What such a step does to a row: nothing that matters here, or the row is
\* deleted; or it is inserted; or it is a closed one that is opened again.
Kept(d) ==
  store'[d] # Absent =>
    /\ store[d] # Absent
    /\ store'[d].status = store[d].status
    /\ store'[d].attemptCount = store[d].attemptCount
Inserted(d) == d \notin issued /\ d \in issued' /\ store'[d].attemptCount = 0
Reopened(d) ==
  /\ Closed(d)
  /\ store'[d].attemptCount = store[d].attemptCount
  /\ upsets' = upsets + 1

\* Such steps keep the invariant: what the worker remembers is of open rows.
LEMMA DataKept ==
  ASSUME SoleInv, TypeInv', ClosedUnscheduled', UNCHANGED <<work, http>>,
         issued \subseteq issued', upsets' \in {upsets, upsets + 1},
         \A d \in Deliveries : Kept(d) \/ Inserted(d) \/ Reopened(d)
  PROVE  SoleInv'
  <1> USE DEF SoleInv
  <1>1. /\ pc' = pc /\ batch' = batch /\ task' = task /\ calls' = calls
        /\ \A w \in Workers : Busy(w)' = Busy(w)
        /\ \A d \in Deliveries : Attempting(d)' = Attempting(d)
    BY DEF work, http, Busy, Attempting
  <1>2. \A n \in Int : Allowed(n, upsets) => Allowed(n, upsets')
    BY Numbers, AllowedMonotone
  <1>3. \A d \in Deliveries : d \in issued /\ (store[d] # Absent => Open(d)) =>
          /\ Kept(d)
          /\ store'[d] # Absent => Open(d)'
    BY DEF Kept, Inserted, Reopened, Open, Closed
  <1>4. SnapshotsFresh'
    <2>1. ASSUME NEW w \in Workers, NEW s \in batch[w]
          PROVE  /\ s.id \in issued'
                 /\ calls[s.id] <= s.attemptCount
                 /\ Allowed(s.attemptCount + 1, upsets')
                 /\ store'[s.id] # Absent =>
                      Open(s.id)' /\ store'[s.id].attemptCount = s.attemptCount
                 /\ Busy(w) => s.id # task[w].id
                 /\ \A t \in batch[w] : s.id = t.id => s = t
      <3>1. s.id \in Deliveries /\ s.attemptCount + 1 \in Int
        BY Numbers
      <3>2. s.id \in issued /\ (store[s.id] # Absent => Open(s.id))
        BY DEF SnapshotsFresh
      <3>. QED  BY <1>2, <1>3, <3>1, <3>2 DEF SnapshotsFresh, Kept
    <2>. QED  BY <1>1, <2>1 DEF SnapshotsFresh
  <1>5. TaskFresh'
    <2>1. ASSUME NEW w \in Workers, Busy(w)
          PROVE  /\ task[w].id \in issued'
                 /\ Allowed(task[w].attemptCount + 1, upsets')
                 /\ store'[task[w].id] # Absent =>
                      /\ Open(task[w].id)'
                      /\ store[task[w].id] # Absent
                      /\ store'[task[w].id].attemptCount = store[task[w].id].attemptCount
      <3>1. task[w].id \in Deliveries /\ task[w].attemptCount + 1 \in Int
        BY <2>1, Numbers
      <3>2. /\ task[w].id \in issued /\ (store[task[w].id] # Absent => Open(task[w].id))
            /\ Allowed(task[w].attemptCount + 1, upsets)
        BY <2>1 DEF TaskFresh
      <3>3. Kept(task[w].id) /\ (store'[task[w].id] # Absent => Open(task[w].id)')
        BY <1>1, <1>3, <3>1, <3>2
      <3>. QED  BY <1>2, <3>1, <3>2, <3>3 DEF Kept
    <2>. QED  BY <1>1, <2>1 DEF TaskFresh
  <1>6. RecordsAllowed'
    <2>1. ASSUME NEW d \in Deliveries, store'[d] # Absent
          PROVE  /\ d \in issued'
                 /\ Allowed(store'[d].attemptCount, upsets')
                 /\ Open(d)' /\ ~Attempting(d) => Allowed(store'[d].attemptCount + 1, upsets')
      <3>1. CASE Kept(d)
        <4>1. store[d].attemptCount \in Int /\ store[d].attemptCount + 1 \in Int
          BY <2>1, <3>1, Numbers DEF Kept
        <4>. QED  BY <1>2, <2>1, <3>1, <4>1 DEF Kept, RecordsAllowed, Open
      <3>2. CASE Inserted(d)
        <4>1. Allowed(0, upsets') /\ Allowed(0 + 1, upsets')
          BY Numbers DEF Allowed
        <4>. QED  BY <3>2, <4>1 DEF Inserted
      <3>3. CASE Reopened(d)
        <4>1. store[d] # Absent /\ store[d].attemptCount \in Nat /\ d \in issued
          BY <3>3, Numbers DEF Reopened, Closed, RecordsAllowed
        <4>2. Allowed(store[d].attemptCount, upsets)
          BY <4>1 DEF RecordsAllowed
        <4>3. Allowed(store[d].attemptCount + 1, upsets + 1)
          BY <4>1, <4>2, Numbers, AllowedMonotone
        <4>. QED  BY <1>2, <3>3, <4>1, <4>2, <4>3 DEF Reopened
      <3>. QED  BY <3>1, <3>2, <3>3
    <2>. QED  BY <1>1, <2>1 DEF RecordsAllowed
  <1>7. CallsAllowed'
    BY <1>1, <1>2, Numbers DEF CallsAllowed
  <1>8. CountCoversCalls'
    <2>1. ASSUME NEW d \in Deliveries, store'[d] # Absent
          PROVE  calls[d] <= store'[d].attemptCount
      BY <2>1 DEF CountCoversCalls, CallsAllowed, Kept, Inserted, Reopened, Closed
    <2>. QED  BY <1>1, <2>1 DEF CountCoversCalls
  <1>. QED  BY <1>4, <1>5, <1>6, <1>7, <1>8

--------------------------------------------------------------------------------
(* Steps that end the processing of a record, or of the whole batch.       *)

\* A row is left as it is; if an attempt on it was cut off, by an upset.
Left(d) == store'[d] = store[d] /\ (Attempting(d) => upsets' = upsets + 1)

\* A row is left with a count that covers its requests and is allowed.
Settled(d) ==
  store'[d] # Absent =>
    /\ calls[d] <= store'[d].attemptCount
    /\ Allowed(store'[d].attemptCount, upsets')
    /\ Open(d)' => Allowed(store'[d].attemptCount + 1, upsets')

LEMMA EndKept ==
  ASSUME SoleWorker, SoleInv, TypeInv', ClosedUnscheduled', NEW w \in Workers,
         ~Busy(w)', batch'[w] \subseteq batch[w], UNCHANGED <<issued, http>>,
         upsets' \in {upsets, upsets + 1},
         \A d \in Deliveries : Left(d) \/ (Busy(w) /\ d = task[w].id /\ Settled(d))
  PROVE  SoleInv'
  <1> USE DEF SoleInv
  <1>1. /\ calls' = calls /\ issued' = issued
        /\ \A v \in Workers : v = w
        /\ \A d \in Deliveries : ~Attempting(d)'
    BY DEF http, SoleWorker, Attempting, Busy
  <1>2. \A n \in Int : Allowed(n, upsets) => Allowed(n, upsets')
    BY Numbers, AllowedMonotone
  <1>3. SnapshotsFresh'
    <2>1. ASSUME NEW s \in batch'[w]
          PROVE  /\ s.id \in issued
                 /\ calls[s.id] <= s.attemptCount
                 /\ Allowed(s.attemptCount + 1, upsets')
                 /\ store'[s.id] # Absent =>
                      Open(s.id)' /\ store'[s.id].attemptCount = s.attemptCount
                 /\ \A t \in batch'[w] : s.id = t.id => s = t
      <3>1. s \in batch[w] /\ s.id \in Deliveries /\ s.attemptCount + 1 \in Int
        BY Numbers
      <3>2. store'[s.id] = store[s.id]
        BY <3>1 DEF SnapshotsFresh, Left
      <3>. QED  BY <1>2, <3>1, <3>2 DEF SnapshotsFresh, Open
    <2>. QED  BY <1>1, <2>1 DEF SnapshotsFresh
  <1>4. TaskFresh'
    BY <1>1 DEF TaskFresh
  <1>5. RecordsAllowed'
    <2>1. ASSUME NEW d \in Deliveries, store'[d] # Absent
          PROVE  /\ d \in issued
                 /\ Allowed(store'[d].attemptCount, upsets')
                 /\ Open(d)' => Allowed(store'[d].attemptCount + 1, upsets')
      <3>1. CASE Left(d)
        <4>1. store'[d] = store[d] /\ store[d].attemptCount \in Nat /\ (Open(d)' => Open(d))
          BY <2>1, <3>1, Numbers DEF Left, Open
        <4>2. d \in issued /\ Allowed(store[d].attemptCount, upsets)
          BY <2>1, <4>1 DEF RecordsAllowed
        <4>3. CASE ~Attempting(d)
          BY <1>2, <2>1, <4>1, <4>2, <4>3 DEF RecordsAllowed
        <4>4. CASE upsets' = upsets + 1
          <5>1. Allowed(store[d].attemptCount + 1, upsets + 1)
            BY <4>1, <4>2, Numbers, AllowedMonotone
          <5>. QED  BY <1>2, <4>1, <4>2, <4>4, <5>1
        <4>. QED  BY <3>1, <4>3, <4>4 DEF Left
      <3>2. CASE Busy(w) /\ d = task[w].id /\ Settled(d)
        BY <2>1, <3>2 DEF Settled, TaskFresh
      <3>. QED  BY <3>1, <3>2
    <2>. QED  BY <1>1, <2>1 DEF RecordsAllowed
  <1>6. CallsAllowed'
    BY <1>1, <1>2, Numbers DEF CallsAllowed
  <1>7. CountCoversCalls'
    BY <1>1 DEF CountCoversCalls, Left, Settled
  <1>. QED  BY <1>3, <1>4, <1>5, <1>6, <1>7

\* The end of a record's processing, in the form EndKept asks for.
LEMMA FinishEnds ==
  ASSUME TypeInv, NEW w \in Workers, NEW result, Finish(w, result)
  PROVE  ~Busy(w)' /\ batch'[w] \subseteq batch[w]
  BY DEF Finish, Busy, TypeInv, TypeOK

--------------------------------------------------------------------------------
(* The steps, one lemma each.                                              *)

LEMMA OperateKept ==
  ASSUME SoleInv, TypeInv',
         Operate \/ Dispatch \/ \E d \in Deliveries : Replay(d) \/ BecomeDue(d)
  PROVE  SoleInv'
  <1> USE DEF SoleInv
  <1>1. ASSUME NEW s \in Subscriptions,
               CreateSubscription(s) \/ UpdateSubscription(s) \/ DeleteSubscription(s)
        PROVE  SoleInv'
    <2>1. /\ UNCHANGED <<store, issued, upsets, work, http>>
          /\ ClosedUnscheduled'
      BY <1>1 DEF CreateSubscription, UpdateSubscription, DeleteSubscription,
         ClosedUnscheduled, Closed
    <2>. QED  BY <2>1, DataKept DEF Kept
  <1>2. ASSUME NEW d \in Deliveries, DeleteDelivery(d)
        PROVE  SoleInv'
    <2>1. /\ UNCHANGED <<issued, upsets, work, http>>
          /\ store'[d] = Absent /\ \A e \in Deliveries \ {d} : store'[e] = store[e]
      BY <1>2 DEF DeleteDelivery, TypeInv, TypeOK
    <2>2. ClosedUnscheduled'
      BY <2>1 DEF ClosedUnscheduled, Closed
    <2>. QED  BY <2>1, <2>2, DataKept DEF Kept
  <1>3. ASSUME NEW d \in Deliveries, NEW s \in Subscriptions, CreateDelivery(d, s)
        PROVE  SoleInv'
    <2>1. /\ UNCHANGED <<upsets, work, http>> /\ d \notin issued /\ issued' = issued \cup {d}
          /\ store'[d] = Row(s, "pending", 0, "due")
          /\ \A e \in Deliveries \ {d} : store'[e] = store[e]
      BY <1>3 DEF CreateDelivery, TypeInv, TypeOK
    <2>2. store'[d].status = "pending" /\ store'[d].attemptCount = 0
      BY <2>1 DEF Row
    <2>3. ClosedUnscheduled'
      BY <2>1, <2>2 DEF ClosedUnscheduled, Closed
    <2>4. \A e \in Deliveries : Kept(e) \/ Inserted(e)
      BY <2>1, <2>2 DEF Kept, Inserted
    <2>. QED  BY <2>1, <2>3, <2>4, DataKept
  <1>4. ASSUME NEW d \in Deliveries, Replay(d)
        PROVE  SoleInv'
    <2>1. /\ UNCHANGED <<issued, work, http>> /\ upsets' = upsets + 1 /\ Closed(d)
          /\ store'[d] = Row(store[d].sub, "pending", store[d].attemptCount, "due")
          /\ \A e \in Deliveries \ {d} : store'[e] = store[e]
      BY <1>4 DEF Replay, Closed, TypeInv, TypeOK
    <2>2. store'[d].status = "pending" /\ store'[d].attemptCount = store[d].attemptCount
      BY <2>1 DEF Row
    <2>3. ClosedUnscheduled'
      BY <2>1, <2>2 DEF ClosedUnscheduled, Closed
    <2>4. \A e \in Deliveries : Kept(e) \/ Reopened(e)
      BY <2>1, <2>2 DEF Kept, Reopened
    <2>. QED  BY <2>1, <2>3, <2>4, DataKept
  <1>5. ASSUME NEW d \in Deliveries, BecomeDue(d)
        PROVE  SoleInv'
    <2>1. /\ UNCHANGED <<issued, upsets, work, http>> /\ store[d] \in Delivery
          /\ store'[d] = [store[d] EXCEPT !.nextAttemptAt = "due"]
          /\ \A e \in Deliveries \ {d} : store'[e] = store[e]
      BY <1>5 DEF BecomeDue, TypeInv, TypeOK
    <2>2. /\ store'[d].status = store[d].status /\ store'[d].nextAttemptAt = "due"
          /\ store'[d].attemptCount = store[d].attemptCount /\ store[d] # Absent
      BY <1>5, <2>1 DEF Delivery, BecomeDue
    <2>3. ClosedUnscheduled'
      BY <2>1, <2>2 DEF ClosedUnscheduled, Closed
    <2>4. \A e \in Deliveries : Kept(e)
      BY <2>1, <2>2 DEF Kept
    <2>. QED  BY <2>1, <2>3, <2>4, DataKept
  <1>. QED  BY <1>1, <1>2, <1>3, <1>4, <1>5 DEF Operate, Dispatch

\* The listing remembers open rows nobody is attempting.
LEMMA RunOnceKept ==
  ASSUME SoleWorker, SoleInv, TypeInv', NEW w \in Workers, RunOnce(w)
  PROVE  SoleInv'
  <1> USE DEF SoleInv
  <1>1. /\ UNCHANGED <<store, issued, upsets, calls, task>>
        /\ ~Busy(w)' /\ \A v \in Workers : v = w
        /\ \A d \in Deliveries : ~Attempting(d) /\ ~Attempting(d)'
    BY DEF RunOnce, data, http, TypeInv, TypeOK, Busy, Attempting, SoleWorker
  <1>2. PICK B \in Listings : batch'[w] = {SnapshotOf(d) : d \in B}
    BY DEF RunOnce, TypeInv, TypeOK
  <1>3. \A d \in B : d \in Deliveries /\ Open(d)
    BY DEF Listings, Eligible
  <1>4. SnapshotsFresh'
    <2>1. ASSUME NEW s \in batch'[w]
          PROVE  /\ s.id \in issued
                 /\ calls[s.id] <= s.attemptCount
                 /\ Allowed(s.attemptCount + 1, upsets)
                 /\ store[s.id] # Absent => Open(s.id) /\ store[s.id].attemptCount = s.attemptCount
                 /\ s = SnapshotOf(s.id)
      <3>1. PICK d \in B : s = SnapshotOf(d)
        BY <1>2
      <3>2. s.id = d /\ s.attemptCount = store[d].attemptCount /\ store[d] # Absent
        BY <1>3, <3>1 DEF SnapshotOf, Open
      <3>. QED  BY <1>1, <1>3, <3>1, <3>2 DEF RecordsAllowed, CountCoversCalls
    <2>2. \A s, t \in batch'[w] : s.id = t.id => s = t
      BY <2>1
    <2>. QED  BY <1>1, <2>1, <2>2 DEF SnapshotsFresh, Open
  <1>5. TaskFresh' /\ RecordsAllowed' /\ ClosedUnscheduled' /\ CallsAllowed' /\ CountCoversCalls'
    BY <1>1 DEF TaskFresh, RecordsAllowed, ClosedUnscheduled, CallsAllowed, CountCoversCalls,
       Open, Closed
  <1>. QED  BY <1>4, <1>5

\* The task is made of a snapshot, and no other snapshot is of the same record.
LEMMA GetSubscriptionKept ==
  ASSUME SoleWorker, SoleInv, TypeInv', NEW w \in Workers, GetSubscription(w)
  PROVE  SoleInv'
  <1> USE DEF SoleInv
  <1>1. PICK s \in batch[w] :
          /\ task' = [task EXCEPT ![w] =
               [id |-> s.id, attemptCount |-> s.attemptCount,
                maxAttempts |-> subs[s.sub], response |-> "none"]]
          /\ pc' = [pc EXCEPT ![w] = IF subs[s.sub] = Absent THEN "orphan" ELSE "mark"]
          /\ batch' = [batch EXCEPT ![w] = @ \ {s}]
    BY DEF GetSubscription
  <1>2. /\ task'[w].id = s.id /\ task'[w].attemptCount = s.attemptCount
        /\ task'[w].maxAttempts = subs[s.sub]
        /\ pc'[w] = IF subs[s.sub] = Absent THEN "orphan" ELSE "mark"
        /\ batch'[w] = batch[w] \ {s}
    BY <1>1 DEF TypeInv, TypeOK
  <1>3. /\ UNCHANGED <<store, issued, upsets, calls>>
        /\ \A v \in Workers : v = w
        /\ \A d \in Deliveries : ~Attempting(d) /\ ~Attempting(d)'
    BY <1>2 DEF GetSubscription, data, http, Attempting, SoleWorker
  <1>4. subs[s.sub] # Absent => subs[s.sub] \in AttemptLimits
    <2>1. s \in Snapshot
      BY DEF TypeInv, TypeOK
    <2>. QED  BY <2>1 DEF Snapshot, TypeInv, TypeOK
  <1>5. SnapshotsFresh'
    BY <1>2, <1>3 DEF SnapshotsFresh, Open
  <1>6. TaskFresh'
    BY <1>2, <1>3, <1>4 DEF TaskFresh, SnapshotsFresh, Busy, Open
  <1>7. RecordsAllowed' /\ ClosedUnscheduled' /\ CallsAllowed' /\ CountCoversCalls'
    BY <1>3 DEF RecordsAllowed, ClosedUnscheduled, CallsAllowed, CountCoversCalls, Open, Closed
  <1>. QED  BY <1>5, <1>6, <1>7

\* The attempt is in the row before it is made.
LEMMA MarkKept ==
  ASSUME SoleWorker, SoleInv, TypeInv', NEW w \in Workers,
         pc[w] = "mark", store[task[w].id] # Absent,
         store' = Written(w, "delivering", AttemptNumber(w), "null"),
         pc' = [pc EXCEPT ![w] = "send"],
         UNCHANGED <<issued, batch, task, calls, upsets>>
  PROVE  SoleInv'
  <1> USE DEF SoleInv
  <1> DEFINE d == task[w].id
  <1>1. /\ Busy(w) /\ pc'[w] = "send" /\ Busy(w)'
        /\ \A v \in Workers : v = w
        /\ d \in Deliveries /\ task[w].attemptCount \in Nat
    BY Numbers DEF Busy, SoleWorker, TypeInv, TypeOK
  <1>2. /\ store'[d] = Row(store[d].sub, "delivering", AttemptNumber(w), "null")
        /\ \A e \in Deliveries \ {d} : store'[e] = store[e]
    BY <1>1, WrittenRows
  <1>3. /\ store'[d].status = "delivering"
        /\ store'[d].attemptCount = task[w].attemptCount + 1
        /\ store'[d].nextAttemptAt = "null"
        /\ Open(d)' \/ store'[d] = Absent
    BY <1>2 DEF Row, AttemptNumber, Open
  <1>4. /\ d \in issued /\ Allowed(task[w].attemptCount + 1, upsets)
        /\ calls[d] <= task[w].attemptCount /\ task[w].maxAttempts \in AttemptLimits
    BY <1>1 DEF TaskFresh
  <1>5. \A e \in Deliveries : (Attempting(e) => e = d) /\ (Attempting(e)' <=> e = d)
    BY <1>1 DEF Attempting
  <1> HIDE DEF d
  <1>6. SnapshotsFresh'
    BY <1>1, <1>2, Numbers DEF SnapshotsFresh, Open, d
  <1>7. TaskFresh'
    BY <1>1, <1>3, <1>4 DEF TaskFresh, d, Open
  <1>8. RecordsAllowed'
    BY <1>2, <1>3, <1>4, <1>5 DEF RecordsAllowed, Open
  <1>9. ClosedUnscheduled' /\ CallsAllowed' /\ CountCoversCalls'
    BY <1>1, <1>2, <1>3, <1>4, Numbers DEF ClosedUnscheduled, CallsAllowed, CountCoversCalls, Closed
  <1>. QED  BY <1>6, <1>7, <1>8, <1>9

\* The request is within the attempt the row already counts.
LEMMA SendKept ==
  ASSUME SoleWorker, SoleInv, TypeInv', NEW w \in Workers, Send(w)
  PROVE  SoleInv'
  <1> USE DEF SoleInv
  <1> DEFINE d == task[w].id
  <1>1. /\ Busy(w) /\ pc[w] = "send" /\ pc'[w] = "record"
        /\ \A v \in Workers : v = w
        /\ d \in Deliveries /\ task[w].attemptCount \in Nat /\ task[w] \in Task
    BY Numbers DEF Send, Busy, SoleWorker, TypeInv, TypeOK, BusyHasTask
  <1>2. /\ task'[w].id = d /\ task'[w].attemptCount = task[w].attemptCount
        /\ task'[w].maxAttempts = task[w].maxAttempts
    BY <1>1 DEF Send, TypeInv, TypeOK, Task
  <1>3. /\ UNCHANGED <<store, issued, batch, upsets>>
        /\ calls'[d] = calls[d] + 1
        /\ \A e \in Deliveries \ {d} : calls'[e] = calls[e]
    BY <1>1 DEF Send, data, TypeInv, TypeOK
  <1>4. /\ d \in issued /\ Allowed(task[w].attemptCount + 1, upsets)
        /\ calls[d] <= task[w].attemptCount /\ task[w].maxAttempts \in AttemptLimits
        /\ store[d] # Absent =>
             Open(d) /\ store[d].attemptCount = task[w].attemptCount + 1
    BY <1>1 DEF TaskFresh
  <1>5. \A e \in Deliveries : Attempting(e)' <=> Attempting(e)
    BY <1>1, <1>2 DEF Attempting
  <1>6. Allowed(calls[d] + 1, upsets)
    BY <1>1, <1>4, Numbers, AllowedMonotone
  <1> HIDE DEF d
  <1>7. SnapshotsFresh'
    BY <1>1, <1>2, <1>3, Numbers DEF SnapshotsFresh, Open, d
  <1>8. TaskFresh'
    BY <1>1, <1>2, <1>3, <1>4, Numbers DEF TaskFresh, Open
  <1>9. RecordsAllowed' /\ ClosedUnscheduled'
    BY <1>3, <1>5 DEF RecordsAllowed, ClosedUnscheduled, Open, Closed
  <1>10. CallsAllowed'
    BY <1>3, <1>4, <1>6 DEF CallsAllowed
  <1>11. CountCoversCalls'
    BY <1>1, <1>3, <1>4, Numbers DEF CountCoversCalls
  <1>. QED  BY <1>7, <1>8, <1>9, <1>10, <1>11

\* What an UPDATE of the worker comes to, whether it reports success or not: no
\* row has the id, or it failed before or after the database had applied it, or
\* it was applied.
Updated(w, written) ==
  \/ store[task[w].id] = Absent /\ UNCHANGED <<store, upsets>>
  \/ store[task[w].id] # Absent /\ store' = store /\ upsets' = upsets + 1
  \/ store[task[w].id] # Absent /\ store' = written /\ upsets' \in {upsets, upsets + 1}

LEMMA UpdateFailsUpdated ==
  ASSUME NEW w \in Workers, NEW written, UpdateFails(w, written)
  PROVE  /\ Updated(w, written) /\ Finish(w, "error") /\ UNCHANGED <<issued, http>>
         /\ store[task[w].id] # Absent => upsets' = upsets + 1
  BY DEF UpdateFails, StoreError, Updated

\* An update that ends the record's processing.
LEMMA UpdateEndKept ==
  ASSUME SoleWorker, SoleInv, TypeInv', NEW w \in Workers, Busy(w),
         NEW status, NEW count, NEW next, NEW result, Finish(w, result),
         UNCHANGED <<issued, http>>, Updated(w, Written(w, status, count, next)),
         next = "later" => status = "pending",
         store[task[w].id] # Absent =>
           /\ calls[task[w].id] <= count
           /\ Allowed(count, upsets')
           /\ status \in {"pending", "delivering"} => Allowed(count + 1, upsets')
  PROVE  SoleInv'
  <1> USE DEF SoleInv
  <1> DEFINE d == task[w].id
             row == Row(store[d].sub, status, count, next)
  <1>1. d \in Deliveries /\ ~Busy(w)' /\ batch'[w] \subseteq batch[w]
    BY Numbers, FinishEnds
  <1>2. row.status = status /\ row.attemptCount = count /\ row.nextAttemptAt = next
    BY DEF Row
  <1>3. /\ Written(w, status, count, next)[d] = row
        /\ \A e \in Deliveries \ {d} : Written(w, status, count, next)[e] = store[e]
    BY WrittenRows
  <1>4. \A e \in Deliveries : Attempting(e) => e = d
    BY DEF Attempting, SoleWorker
  <1> HIDE DEF row, d
  <1>5. upsets' \in {upsets, upsets + 1}
    BY DEF Updated
  <1>6. ClosedUnscheduled'
    BY <1>2, <1>3 DEF Updated, ClosedUnscheduled, Closed
  <1>7. \A e \in Deliveries \ {d} : store'[e] = store[e] /\ ~Attempting(e)
    BY <1>3, <1>4 DEF Updated
  <1>8. ASSUME NEW e \in Deliveries, e = d
        PROVE  Left(e) \/ Settled(e)
    <2>1. CASE store[d] = Absent /\ UNCHANGED <<store, upsets>>
      BY <1>8, <2>1 DEF Settled
    <2>2. CASE store' = store /\ upsets' = upsets + 1
      BY <2>2 DEF Left
    <2>3. CASE store[d] # Absent /\ store' = Written(w, status, count, next)
      <3>1. store'[e] = row
        BY <1>3, <1>8, <2>3
      <3>. QED  BY <1>2, <1>8, <2>3, <3>1 DEF Settled, Open, d
    <2>. QED  BY <2>1, <2>2, <2>3 DEF Updated, d
  <1>. QED  BY <1>1, <1>5, <1>6, <1>7, <1>8, EndKept DEF Left, d

LEMMA DeadLetterOrphanKept ==
  ASSUME SoleWorker, SoleInv, TypeInv', NEW w \in Workers, DeadLetterOrphan(w)
  PROVE  SoleInv'
  <1> USE DEF SoleInv
  <1> DEFINE count == store[task[w].id].attemptCount
             written == Written(w, "dead_lettered", count, "null")
  <1>1. Busy(w) /\ task[w].id \in Deliveries
    BY Numbers DEF DeadLetterOrphan, Busy
  <1>2. /\ Updated(w, written) /\ UNCHANGED <<issued, http>>
        /\ \E result : Finish(w, result)
    BY UpdateFailsUpdated DEF DeadLetterOrphan, Updated
  <1>3. upsets' \in {upsets, upsets + 1}
    BY <1>2 DEF Updated
  <1>4. store[task[w].id] # Absent => calls[task[w].id] <= count /\ Allowed(count, upsets')
    <2>1. ASSUME store[task[w].id] # Absent
          PROVE  count \in Nat /\ Allowed(count, upsets) /\ calls[task[w].id] <= count
      BY <1>1, <2>1, Numbers DEF RecordsAllowed, CountCoversCalls
    <2>2. upsets \in Nat
      BY Numbers
    <2> HIDE DEF count
    <2>. QED  BY <1>3, <2>1, <2>2, AllowedAfter
  <1> HIDE DEF count
  <1>. QED  BY <1>1, <1>2, <1>4, UpdateEndKept

\* Both halves of MarkDelivering: the attempt is on, or it was cut off by an upset.
LEMMA MarkDeliveringKept ==
  ASSUME SoleWorker, SoleInv, TypeInv', NEW w \in Workers, MarkDelivering(w)
  PROVE  SoleInv'
  <1> USE DEF SoleInv
  <1> DEFINE count == AttemptNumber(w)
             written == Written(w, "delivering", count, "null")
  <1>1. Busy(w) /\ pc[w] = "mark" /\ task[w].attemptCount \in Nat /\ task[w].id \in Deliveries
    BY Numbers DEF MarkDelivering, Busy
  <1>2. CASE UpdateFails(w, written)
    <2>1. /\ Updated(w, written) /\ UNCHANGED <<issued, http>> /\ Finish(w, "error")
          /\ store[task[w].id] # Absent => upsets' = upsets + 1
      BY <1>2, UpdateFailsUpdated
    <2>2. /\ count \in Nat /\ Allowed(count, upsets)
          /\ calls[task[w].id] <= count
      BY <1>1, Numbers DEF TaskFresh, AttemptNumber
    <2> HIDE DEF count
    <2>3. Allowed(count, upsets + 1) /\ Allowed(count + 1, upsets + 1)
      <3>1. upsets \in Nat
        BY Numbers
      <3>. QED  BY <2>2, <3>1, AllowedAfter
    <2>. QED  BY <1>1, <2>1, <2>2, <2>3, UpdateEndKept
  <1>3. CASE /\ store[task[w].id] # Absent /\ store' = written
             /\ pc' = [pc EXCEPT ![w] = "send"]
             /\ UNCHANGED <<subs, issued, missing, batch, task, outcome, http, upsets>>
    BY <1>1, <1>3, MarkKept DEF http
  <1>. QED  BY <1>2, <1>3 DEF MarkDelivering

\* A record that goes back to pending has an attempt left by its policy.
LEMMA RecordResultKept ==
  ASSUME SoleWorker, SoleInv, TypeInv', NEW w \in Workers, RecordResult(w)
  PROVE  SoleInv'
  <1> USE DEF SoleInv
  <1> DEFINE status == ResultStatus(w)
             next == IF status = "pending" THEN "later" ELSE "null"
             count == AttemptNumber(w)
             written == Written(w, status, count, next)
  <1>1. Busy(w) /\ pc[w] = "record" /\ task[w].attemptCount \in Nat /\ task[w].id \in Deliveries
    BY Numbers DEF RecordResult, Busy
  <1>2. /\ Updated(w, written) /\ UNCHANGED <<issued, http>>
        /\ \E result : Finish(w, result)
    BY UpdateFailsUpdated DEF RecordResult, Updated
  <1>3. upsets' \in {upsets, upsets + 1}
    BY <1>2 DEF Updated
  <1>4. /\ count \in Nat /\ Allowed(count, upsets) /\ calls[task[w].id] <= count
        /\ task[w].maxAttempts \in AttemptLimits
    BY <1>1, Numbers DEF TaskFresh, AttemptNumber
  <1>5. Allowed(count, upsets')
    BY <1>3, <1>4, Numbers, AllowedMonotone
  <1>6. status \in {"pending", "delivering"} => Allowed(count + 1, upsets')
    <2>1. ASSUME status \in {"pending", "delivering"}
          PROVE  count < task[w].maxAttempts
      BY <2>1 DEF ResultStatus, ShouldRetry
    <2>2. task[w].maxAttempts \in Nat /\ upsets' \in Nat
      <3>1. upsets \in Nat
        BY Numbers
      <3>2. upsets' \in Nat
        BY <1>3, <3>1
      <3>3. task[w].maxAttempts \in Nat
        BY <1>4, DeliveryConstants
      <3>. QED  BY <3>2, <3>3
    <2> HIDE DEF count, status
    <2>3. count < task[w].maxAttempts => count + 1 <= task[w].maxAttempts + upsets'
      BY <1>4, <2>2
    <2>. QED  BY <1>4, <2>1, <2>3 DEF Allowed
  <1>7. next = "later" => status = "pending"
    OBVIOUS
  <1> HIDE DEF count, status, next
  <1>. QED  BY <1>1, <1>2, <1>4, <1>5, <1>6, <1>7, UpdateEndKept

LEMMA BreakOffKept ==
  ASSUME SoleWorker, SoleInv, TypeInv', NEW w \in Workers,
         GetSubscriptionFails(w) \/ Return(w) \/ Crash(w)
  PROVE  SoleInv'
  <1> USE DEF SoleInv
  <1>1. /\ UNCHANGED <<store, issued, http>> /\ upsets' \in {upsets, upsets + 1}
        /\ ~Busy(w)' /\ batch'[w] \subseteq batch[w]
    BY DEF GetSubscriptionFails, StoreError, Finish, Return, Crash, Forget, Busy, data,
       TypeInv, TypeOK
  <1>2. \A d \in Deliveries : Attempting(d) => upsets' = upsets + 1
    BY DEF GetSubscriptionFails, Return, Crash, Forget, Attempting, SoleWorker
  <1>3. ClosedUnscheduled'
    BY <1>1 DEF ClosedUnscheduled, Closed
  <1>. QED  BY <1>1, <1>2, <1>3, EndKept DEF Left

--------------------------------------------------------------------------------
\* Every step keeps the invariant.
LEMMA SoleStep ==
  ASSUME SoleWorker, SoleInv, [Next]_vars
  PROVE  SoleInv'
  <1>1. TypeInv'
    BY TypeInvStep DEF SoleInv
  <1>2. CASE Operate \/ Dispatch \/ \E d \in Deliveries : Replay(d) \/ BecomeDue(d)
    BY <1>1, <1>2, OperateKept
  <1>3. ASSUME NEW w \in Workers, Poll(w) \/ Crash(w)
        PROVE  SoleInv'
    BY <1>1, <1>3, RunOnceKept, GetSubscriptionKept, DeadLetterOrphanKept,
       MarkDeliveringKept, SendKept, RecordResultKept, BreakOffKept
    DEF Poll, Process
  <1>4. CASE UNCHANGED vars
    BY <1>1, <1>4
    DEF vars, data, work, http, SoleInv, SnapshotsFresh, TaskFresh, RecordsAllowed,
        ClosedUnscheduled, CallsAllowed, CountCoversCalls, Attempting, Busy, Open, Closed
  <1>. QED  BY <1>2, <1>3, <1>4 DEF Next

LEMMA SoleInvInit == Init => SoleInv
  <1> SUFFICES ASSUME Init PROVE SoleInv
    OBVIOUS
  <1>1. Allowed(0, upsets)
    BY DEF Init, Allowed
  <1>. QED
    BY <1>1, TypeInvInit
    DEF Init, SoleInv, SnapshotsFresh, TaskFresh, RecordsAllowed, ClosedUnscheduled,
        CallsAllowed, CountCoversCalls, Busy, Closed

THEOREM SoleWorkerInvariant ==
  ASSUME SoleWorker
  PROVE  Spec => []SoleInv
  <1>1. Init => SoleInv
    BY SoleInvInit
  <1>2. SoleInv /\ [Next]_vars => SoleInv'
    BY SoleStep
  <1>. QED  BY <1>1, <1>2, PTL DEF Spec

\* With one worker, whatever the policies, however often it crashes and whatever
\* happens to rows and subscriptions meanwhile, a delivery costs at most the
\* attempts some policy grants, and one more for each upset.
THEOREM PolicyHonoured ==
  ASSUME SoleWorker
  PROVE  Spec => []CallsHonourPolicy
  <1>1. SoleInv => CallsHonourPolicy
    BY DEF SoleInv, CallsAllowed, CallsHonourPolicy, Allowed
  <1>. QED  BY <1>1, SoleWorkerInvariant, PTL

\* With one worker the attempt_count of a row never falls behind the requests made.
THEOREM CountNeverForgets ==
  ASSUME SoleWorker
  PROVE  Spec => []CountCoversCalls
  <1>1. SoleInv => CountCoversCalls
    BY DEF SoleInv
  <1>. QED  BY <1>1, SoleWorkerInvariant, PTL

--------------------------------------------------------------------------------
(***************************************************************************)
(* A single worker keeps what WebhookPromise promises of each delivery:    *)
(* every step of WebhookDelivery is a step of the promise, or none.        *)
(*                                                                         *)
(* Three invariants meet here: the worker holds a record nobody else       *)
(* touches (SoleInv), an attempt is never counted before it is spent       *)
(* (SpentInv), and an answer it holds was given (AckedInv).                *)
(***************************************************************************)

KeptInv == SoleInv /\ SpentInv /\ AckedInv

\* The state of the promise.
Phases == [d \in Deliveries |-> PhaseOf(d)]
Orphaned == {d \in Deliveries : store[d] # Absent /\ store[d].sub \in missing}

\* A step the promise allows.
Allows == Promise!PromiseNext \/ UNCHANGED <<Phases, calls, acked, Orphaned, upsets>>

--------------------------------------------------------------------------------
(* The promise's state and steps, in the worker's terms.                   *)

\* Where a delivery stands, before the step and after it.
LEMMA PhaseIs ==
  ASSUME NEW d \in Deliveries, d \in issued
  PROVE  /\ store[d] = Absent => PhaseOf(d) = "gone"
         /\ Open(d) => PhaseOf(d) = "open"
         /\ Closed(d) /\ store[d].status = "succeeded" => PhaseOf(d) = "delivered"
         /\ Closed(d) /\ store[d].status = "dead_lettered" => PhaseOf(d) = "dead"
  BY DEF PhaseOf, Open, Closed

\* The same after the step.
LEMMA PhaseIsNext ==
  ASSUME NEW d \in Deliveries, d \in issued'
  PROVE  /\ store'[d] = Absent => PhaseOf(d)' = "gone"
         /\ Open(d)' => PhaseOf(d)' = "open"
         /\ Closed(d)' /\ store'[d].status = "succeeded" => PhaseOf(d)' = "delivered"
         /\ Closed(d)' /\ store'[d].status = "dead_lettered" => PhaseOf(d)' = "dead"
  BY DEF PhaseOf, Open, Closed

\* One delivery moves and the others stay: a move of the promise.
LEMMA MoveIs ==
  ASSUME NEW d \in Deliveries, NEW from, NEW to, PhaseOf(d) = from, PhaseOf(d)' = to,
         \A e \in Deliveries \ {d} : PhaseOf(e)' = PhaseOf(e)
  PROVE  Promise!Move(d, from, to) /\ Phases' = [Phases EXCEPT ![d] = to]
  BY DEF Promise!Move, Phases

\* A row that keeps its subscription, and no others, leaves the orphans as they are.
LEMMA OrphansStay ==
  ASSUME missing' = missing,
         \A e \in Deliveries : (store'[e] = Absent <=> store[e] = Absent)
                               /\ (store[e] # Absent => store'[e].sub = store[e].sub)
  PROVE  Orphaned' = Orphaned
  BY DEF Orphaned

\* An untouched row stays where it stands.
LEMMA PhaseStays ==
  ASSUME NEW d \in Deliveries, d \in issued <=> d \in issued',
         store'[d] = store[d] \/ (d \in issued /\ Open(d) /\ Open(d)')
  PROVE  PhaseOf(d)' = PhaseOf(d)
  <1>1. CASE d \notin issued /\ store'[d] = store[d]
    BY <1>1 DEF PhaseOf, Open
  <1>2. CASE d \in issued /\ Open(d) /\ Open(d)'
    BY <1>2, PhaseIs, PhaseIsNext
  <1>3. CASE d \in issued /\ store'[d] = store[d]
    BY <1>3 DEF PhaseOf, Open
  <1>. QED  BY <1>1, <1>2, <1>3

\* A step that moves no delivery is none of the promise.
LEMMA StutterAllowed ==
  ASSUME \A d \in Deliveries : PhaseOf(d)' = PhaseOf(d), Orphaned' = Orphaned,
         UNCHANGED <<calls, acked, upsets>>
  PROVE  Allows
  BY DEF Allows, Phases

\* A crash or an error that moves no delivery is an upset.
LEMMA UpsetAllowed ==
  ASSUME \A d \in Deliveries : PhaseOf(d)' = PhaseOf(d), Orphaned' = Orphaned,
         UNCHANGED <<calls, acked>>, upsets < MaxUpsets, upsets' = upsets + 1
  PROVE  Allows
  BY DEF Allows, Phases, Orphaned, Promise!PromiseNext, Promise!Upset

--------------------------------------------------------------------------------
(* What goes on around the worker.                                         *)

\* Each step of an operator, a dispatcher, a replay or the clock is one the promise allows.
LEMMA OperateAllowed ==
  ASSUME KeptInv, Operate \/ Dispatch \/ \E d \in Deliveries : Replay(d) \/ BecomeDue(d)
  PROVE  Allows
  <1> USE DEF KeptInv, SoleInv, TypeInv, TypeOK
  <1>1. ASSUME NEW s \in Subscriptions, CreateSubscription(s) \/ UpdateSubscription(s)
        PROVE  Allows
    <2>1. UNCHANGED <<store, issued, missing, calls, acked, upsets>>
      BY <1>1 DEF CreateSubscription, UpdateSubscription, http
    <2>. QED  BY <2>1, PhaseStays, OrphansStay, StutterAllowed
  <1>2. ASSUME NEW s \in Subscriptions, DeleteSubscription(s)
        PROVE  Allows
    <2>1. UNCHANGED <<store, issued, calls, acked, upsets>> /\ missing' = missing \cup {s}
      BY <1>2 DEF DeleteSubscription, http
    <2>2. \A d \in Deliveries : PhaseOf(d)' = PhaseOf(d)
      BY <2>1, PhaseStays
    <2>3. Orphaned' = Orphaned \cup {d \in Deliveries : store[d] # Absent /\ store[d].sub = s}
      BY <2>1 DEF Orphaned
    <2>4. \E D \in SUBSET Deliveries : Orphaned' = Orphaned \cup D
      BY <2>3
    <2>. QED  BY <2>1, <2>2, <2>4
              DEF Allows, Phases, Orphaned, Promise!PromiseNext, Promise!Orphan
  <1>3. ASSUME NEW d \in Deliveries, DeleteDelivery(d)
        PROVE  Allows
    <2>1. /\ UNCHANGED <<issued, missing, calls, acked, upsets>>
          /\ store[d] # Absent /\ store'[d] = Absent
          /\ \A e \in Deliveries \ {d} : store'[e] = store[e]
      BY <1>3 DEF DeleteDelivery, http
    <2>2. d \in issued /\ (Open(d) \/ Closed(d))
      BY <2>1 DEF RecordsAllowed, Open, Closed, Delivery
    <2>3. PhaseOf(d) \in {"open", "delivered", "dead"} /\ PhaseOf(d)' = "gone"
      BY <2>1, <2>2, PhaseIs, PhaseIsNext DEF Closed
    <2>4. \A e \in Deliveries \ {d} : PhaseOf(e)' = PhaseOf(e)
      BY <2>1, PhaseStays
    <2>5. Phases' = [Phases EXCEPT ![d] = "gone"] /\ Phases[d] \in {"open", "delivered", "dead"}
      BY <2>3, <2>4 DEF Phases
    <2>6. Orphaned' = Orphaned \ {d}
      BY <2>1 DEF Orphaned
    <2>. QED  BY <2>1, <2>5, <2>6
              DEF Allows, Phases, Orphaned, Promise!PromiseNext, Promise!Drop
  <1>4. ASSUME NEW d \in Deliveries, NEW s \in Subscriptions, CreateDelivery(d, s)
        PROVE  Allows
    <2>1. /\ UNCHANGED <<missing, calls, acked, upsets>>
          /\ d \notin issued /\ issued' = issued \cup {d}
          /\ store'[d] = Row(s, "pending", 0, "due")
          /\ \A e \in Deliveries \ {d} : store'[e] = store[e]
      BY <1>4 DEF CreateDelivery, http
    <2>2. store[d] = Absent
      BY <2>1 DEF RecordsAllowed
    <2>3. Open(d)'
      <3>1. store'[d] \in Delivery
        BY <2>1 DEF Row, Delivery
      <3>. QED  BY <2>1, <3>1, AbsentIsNoRow DEF Open, Row
    <2>4. PhaseOf(d) = "none" /\ PhaseOf(d)' = "open"
      BY <2>1, <2>2, <2>3, PhaseIsNext DEF PhaseOf, Open
    <2>5. \A e \in Deliveries \ {d} : PhaseOf(e)' = PhaseOf(e)
      BY <2>1, PhaseStays
    <2>6. Promise!Move(d, "none", "open")
      BY <2>4, <2>5, MoveIs
    <2>7. Orphaned' \in {Orphaned, Orphaned \cup {d}}
      BY <2>1, <2>2 DEF Orphaned
    <2>. QED  BY <2>1, <2>6, <2>7
              DEF Allows, Orphaned, Promise!PromiseNext, Promise!Accept
  <1>5. ASSUME NEW d \in Deliveries, Replay(d)
        PROVE  Allows
    <2>1. /\ UNCHANGED <<issued, missing, calls, acked>>
          /\ upsets < MaxUpsets /\ upsets' = upsets + 1
          /\ store[d] # Absent /\ store[d].status = "dead_lettered"
          /\ store'[d] = Row(store[d].sub, "pending", store[d].attemptCount, "due")
          /\ \A e \in Deliveries \ {d} : store'[e] = store[e]
      BY <1>5 DEF Replay, http
    <2>2. d \in issued /\ Closed(d)
      BY <2>1 DEF RecordsAllowed, Closed
    <2>3. store'[d] # Absent /\ store'[d].sub = store[d].sub /\ store'[d].status = "pending"
      <3>1. store'[d] \in Delivery
        BY <2>1 DEF Row, Delivery
      <3>. QED  BY <2>1, <3>1, AbsentIsNoRow DEF Row
    <2>4. PhaseOf(d) = "dead" /\ PhaseOf(d)' = "open"
      BY <2>1, <2>2, <2>3, PhaseIs, PhaseIsNext DEF Open
    <2>5. \A e \in Deliveries \ {d} : PhaseOf(e)' = PhaseOf(e)
      BY <2>1, PhaseStays
    <2>6. Promise!Move(d, "dead", "open")
      BY <2>4, <2>5, MoveIs
    <2>7. Orphaned' = Orphaned
      BY <2>1, <2>3, OrphansStay
    <2>. QED  BY <2>1, <2>6, <2>7
              DEF Allows, Orphaned, Promise!PromiseNext, Promise!Reopen
  <1>6. ASSUME NEW d \in Deliveries, BecomeDue(d)
        PROVE  Allows
    <2>1. /\ UNCHANGED <<issued, missing, calls, acked, upsets>>
          /\ store[d] # Absent /\ store[d] \in Delivery /\ store[d].nextAttemptAt = "later"
          /\ store'[d] = [store[d] EXCEPT !.nextAttemptAt = "due"]
          /\ \A e \in Deliveries \ {d} : store'[e] = store[e]
      BY <1>6 DEF BecomeDue, http
    <2>2. Open(d) /\ d \in issued
      BY <2>1 DEF RecordsAllowed, ClosedUnscheduled, Open, Closed, Delivery
    <2>3. /\ store'[d] \in Delivery /\ store'[d].sub = store[d].sub
          /\ store'[d].status = store[d].status
      BY <2>1 DEF Delivery
    <2>4. store'[d] # Absent /\ Open(d)'
      BY <2>2, <2>3, AbsentIsNoRow DEF Open
    <2>. QED  BY <2>1, <2>2, <2>3, <2>4, PhaseStays, OrphansStay, StutterAllowed
  <1>. QED  BY <1>1, <1>2, <1>3, <1>4, <1>5, <1>6 DEF Operate, Dispatch

--------------------------------------------------------------------------------
(* The worker.                                                             *)

\* The row at hand is open or deleted.
LEMMA AtHand ==
  ASSUME KeptInv, NEW w \in Workers, Busy(w)
  PROVE  /\ task[w].id \in Deliveries /\ task[w].id \in issued
         /\ task[w].attemptCount \in Nat
         /\ store[task[w].id] # Absent => Open(task[w].id)
  BY Numbers DEF KeptInv, SoleInv, TaskFresh

\* A worker that sends nothing leaves nothing in flight: there is no other.
LEMMA SpentAlone ==
  ASSUME SoleWorker, KeptInv, NEW w \in Workers, pc[w] # "send", NEW d \in Deliveries
  PROVE  Spent(d) = calls[d] + upsets /\ calls[d] \in Nat /\ upsets \in Nat
  <1>1. InFlight(d) = {}
    BY DEF SoleWorker, InFlight
  <1>2. Cardinality(InFlight(d)) = 0
    BY <1>1, FS_EmptySet
  <1>. QED  BY <1>2, SpentType DEF Spent, KeptInv, SpentInv

\* What an update of the row at hand comes to is a step of the promise.
LEMMA UpdateAllowed ==
  ASSUME SoleWorker, KeptInv, TypeInv', NEW w \in Workers, Busy(w), pc[w] # "send",
         NEW status \in {"pending", "delivering", "succeeded", "dead_lettered"},
         NEW count \in Nat, NEW next \in {"null", "due", "later"},
         Updated(w, Written(w, status, count, next)),
         UNCHANGED <<issued, missing, calls, acked>>,
         status = "succeeded" => task[w].id \in acked,
         store[task[w].id] # Absent /\ status = "dead_lettered" =>
           \/ store[task[w].id].sub \in missing
           \/ \E m \in AttemptLimits : m <= Spent(task[w].id)
  PROVE  Allows
  <1>. DEFINE d == task[w].id
  <1>1. d \in Deliveries /\ d \in issued /\ (store[d] # Absent => Open(d))
    BY AtHand
  <1>2. upsets \in Nat /\ upsets' \in Nat /\ upsets' <= MaxUpsets /\ MaxUpsets \in Nat
    BY DeliveryConstants DEF KeptInv, SoleInv, TypeInv, TypeOK
  <1>3. CASE store' = store
    <2>1. \A e \in Deliveries : PhaseOf(e)' = PhaseOf(e)
      BY <1>3, PhaseStays
    <2>2. Orphaned' = Orphaned
      BY <1>3, OrphansStay
    <2>3. CASE upsets' = upsets
      BY <2>1, <2>2, <2>3, StutterAllowed
    <2>4. CASE upsets' = upsets + 1
      BY <1>2, <2>1, <2>2, <2>4, UpsetAllowed
    <2>. QED  BY <2>3, <2>4 DEF Updated
  <1>4. CASE store[d] # Absent /\ store' = Written(w, status, count, next)
             /\ upsets' \in {upsets, upsets + 1}
    <2>1. /\ store'[d] = Row(store[d].sub, status, count, next)
          /\ \A e \in Deliveries \ {d} : store'[e] = store[e]
      BY <1>4, WrittenRows DEF KeptInv, SoleInv
    <2>2. store[d] \in Delivery
      BY <1>1, <1>4 DEF KeptInv, SoleInv, TypeInv, TypeOK
    <2>3. store'[d] # Absent /\ store'[d].sub = store[d].sub /\ store'[d].status = status
      <3>1. Row(store[d].sub, status, count, next) \in Delivery
        BY <2>2 DEF Row, Delivery
      <3>. QED  BY <2>1, <3>1, AbsentIsNoRow DEF Row
    <2>4. Orphaned' = Orphaned
      BY <1>4, <2>1, <2>3, OrphansStay
    <2>5. \A e \in Deliveries \ {d} : PhaseOf(e)' = PhaseOf(e)
      BY <2>1, PhaseStays
    <2>6. PhaseOf(d) = "open"
      BY <1>1, <1>4, PhaseIs
    <2>7. CASE status \in {"pending", "delivering"}
      <3>0. PICK e \in Deliveries : e = d
        BY <1>1
      <3>1. Open(e)'
        BY <2>3, <2>7, <3>0 DEF Open
      <3>2. \A f \in Deliveries : PhaseOf(f)' = PhaseOf(f)
        BY <1>1, <1>4, <2>5, <3>0, <3>1, PhaseStays
      <3>3. CASE upsets' = upsets
        BY <2>4, <3>2, <3>3, StutterAllowed
      <3>4. CASE upsets' = upsets + 1
        BY <1>2, <2>4, <3>2, <3>4, UpsetAllowed
      <3>. QED  BY <1>4, <3>3, <3>4
    <2>8. ASSUME NEW e \in Deliveries, e = d, status \in {"succeeded", "dead_lettered"}
          PROVE  Promise!Move(e, "open", IF status = "succeeded" THEN "delivered" ELSE "dead")
      <3>1. Closed(e)' /\ store'[e].status = status /\ e \in issued'
        BY <1>1, <2>3, <2>8 DEF Closed
      <3>2. PhaseOf(e)' = IF status = "succeeded" THEN "delivered" ELSE "dead"
        BY <2>8, <3>1, PhaseIsNext
      <3>. QED  BY <2>5, <2>6, <2>8, <3>2, MoveIs
    <2>9. CASE status = "succeeded"
      <3>1. Promise!Deliver(d)
        BY <1>1, <1>2, <1>4, <2>4, <2>8, <2>9 DEF Promise!Deliver, Promise!UpsetMaybe, Orphaned
      <3>. QED  BY <1>1, <3>1 DEF Allows, Promise!PromiseNext
    <2>10. CASE status = "dead_lettered"
      <3>1. d \in Orphaned \/ \E m \in AttemptLimits : calls[d] + upsets >= m
        <4>1. \A m \in AttemptLimits : m \in Int
          BY DeliveryConstants
        <4>. QED  BY <1>1, <1>4, <2>10, <4>1, SpentAlone DEF Orphaned
      <3>2. d \in Orphaned \/ Promise!Spent(d)
        BY <3>1 DEF Promise!Spent
      <3>3. Promise!GiveUp(d)
        BY <1>1, <1>2, <1>4, <2>4, <2>8, <2>10, <3>2
           DEF Promise!GiveUp, Promise!UpsetMaybe, Orphaned
      <3>. QED  BY <1>1, <3>3 DEF Allows, Promise!PromiseNext
    <2>. QED  BY <2>7, <2>9, <2>10
  <1>. QED  BY <1>3, <1>4 DEF Updated

\* A request is made for a record that is open, or was deleted meanwhile.
LEMMA SendAllowed ==
  ASSUME KeptInv, NEW w \in Workers, Send(w)
  PROVE  Allows
  <1>1. Busy(w) /\ UNCHANGED <<store, issued, missing, upsets>>
    BY DEF Send, Busy, data
  <1>2. PICK d \in Deliveries : d = task[w].id
    BY <1>1, AtHand
  <1>3. /\ calls' = [calls EXCEPT ![d] = @ + 1]
        /\ acked' \in {acked, acked \cup {d}}
    BY <1>2 DEF Send
  <1>4. PhaseOf(d) \in {"open", "gone"}
    BY <1>1, <1>2, AtHand, PhaseIs
  <1>5. Phases' = Phases /\ Orphaned' = Orphaned /\ Phases[d] \in {"open", "gone"}
    BY <1>1, <1>4, PhaseStays, OrphansStay DEF Phases
  <1>6. Promise!Try(d)
    BY <1>1, <1>3, <1>5 DEF Promise!Try, Phases, Orphaned
  <1>. QED  BY <1>6 DEF Allows, Promise!PromiseNext

\* So is each step of the worker.
LEMMA WorkerAllowed ==
  ASSUME SoleWorker, KeptInv, TypeInv', NEW w \in Workers, Poll(w) \/ Crash(w)
  PROVE  Allows
  <1>1. CASE RunOnce(w) \/ GetSubscription(w) \/ Return(w)
    <2>1. UNCHANGED <<store, issued, missing, calls, acked, upsets>>
      BY <1>1 DEF RunOnce, GetSubscription, Return, data, http
    <2>. QED  BY <2>1, PhaseStays, OrphansStay, StutterAllowed
  <1>2. CASE GetSubscriptionFails(w) \/ Crash(w)
    <2>1. /\ UNCHANGED <<store, issued, missing, calls, acked>>
          /\ upsets < MaxUpsets /\ upsets' = upsets + 1
      BY <1>2 DEF GetSubscriptionFails, StoreError, Crash, Forget, data, http
    <2>. QED  BY <2>1, PhaseStays, OrphansStay, UpsetAllowed
  <1>3. CASE DeadLetterOrphan(w)
    <2>. DEFINE count == store[task[w].id].attemptCount
    <2>1. Busy(w) /\ pc[w] = "orphan"
      BY <1>3 DEF DeadLetterOrphan, Busy
    <2>2. /\ Updated(w, Written(w, "dead_lettered", count, "null"))
          /\ UNCHANGED <<issued, missing, calls, acked>>
      BY <1>3, UpdateFailsUpdated DEF DeadLetterOrphan, UpdateFails, Updated, http
    <2>3. store[task[w].id] # Absent => store[task[w].id].sub \in missing /\ count \in Nat
      BY <2>1, AtHand, Numbers DEF KeptInv, SoleInv, SpentInv, WorkerSound, TaskSound
    <2>4. CASE store[task[w].id] = Absent
      <3>1. UNCHANGED <<store, upsets>>
        BY <2>2, <2>4 DEF Updated
      <3>. QED  BY <2>2, <3>1, PhaseStays, OrphansStay, StutterAllowed
    <2>5. CASE store[task[w].id] # Absent
      <3>. HIDE DEF count
      <3>. QED  BY <2>1, <2>2, <2>3, <2>5, UpdateAllowed
    <2>. QED  BY <2>4, <2>5
  <1>4. CASE MarkDelivering(w)
    <2>. DEFINE count == AttemptNumber(w)
                written == Written(w, "delivering", count, "null")
    <2>1. Busy(w) /\ pc[w] = "mark" /\ count \in Nat
      BY <1>4, AtHand DEF MarkDelivering, Busy, AttemptNumber
    <2>2. Updated(w, written) /\ UNCHANGED <<issued, missing, calls, acked>>
      BY <1>4, UpdateFailsUpdated DEF MarkDelivering, UpdateFails, Updated, http
    <2>. HIDE DEF count
    <2>. QED  BY <2>1, <2>2, UpdateAllowed
  <1>5. CASE RecordResult(w)
    <2>. DEFINE count == AttemptNumber(w)
                status == ResultStatus(w)
                next == IF status = "pending" THEN "later" ELSE "null"
                written == Written(w, status, count, next)
    <2>1. Busy(w) /\ pc[w] = "record" /\ count \in Nat /\ TaskSound(w)
      BY <1>5, AtHand
         DEF RecordResult, Busy, AttemptNumber, KeptInv, SpentInv, WorkerSound
    <2>2. Updated(w, written) /\ UNCHANGED <<issued, missing, calls, acked>>
      BY <1>5, UpdateFailsUpdated DEF RecordResult, UpdateFails, Updated, http
    <2>3. status \in {"pending", "succeeded", "dead_lettered"}
      BY DEF ResultStatus
    <2>4. status = "succeeded" => task[w].id \in acked
      <3>1. status = "succeeded" => task[w].response = "2xx"
        BY DEF ResultStatus
      <3>. QED  BY <2>1, <3>1 DEF KeptInv, AckedInv, AnswersAcked
    <2>5. status = "dead_lettered" => \E m \in AttemptLimits : m <= Spent(task[w].id)
      <3>1. status = "dead_lettered" => ~ (count < task[w].maxAttempts)
        BY DEF ResultStatus, ShouldRetry
      <3>2. /\ task[w].maxAttempts \in AttemptLimits /\ task[w].maxAttempts \in Nat
            /\ count <= Spent(task[w].id) /\ Spent(task[w].id) \in Int
        BY <2>1, AtHand, DeliveryConstants, SpentType DEF TaskSound, KeptInv, SpentInv
      <3>. HIDE DEF count, status
      <3>. QED  BY <2>1, <3>1, <3>2
    <2>6. next \in {"null", "due", "later"}
      OBVIOUS
    <2>. HIDE DEF count, status, next
    <2>. QED  BY <2>1, <2>2, <2>3, <2>4, <2>5, <2>6, UpdateAllowed
  <1>. QED  BY <1>1, <1>2, <1>3, <1>4, <1>5, SendAllowed DEF Poll, Process

--------------------------------------------------------------------------------
\* With one worker, each delivery gets what WebhookPromise promises: it stays open until
\* the target has confirmed it, the attempts of a policy are spent or its subscription was
\* missing, and is not touched after that unless it is reopened or deleted.
THEOREM PromiseKept ==
  ASSUME SoleWorker
  PROVE  Spec => KeepsPromise
  <1>1. Init => KeptInv
    BY SoleInvInit, InitSpent, TypeInvInit
       DEF KeptInv, Init, AckedInv, AnswersAcked, SucceededWasAcked, Closed
  <1>2. KeptInv /\ [Next]_vars => KeptInv'
    BY SoleStep, NextSpent, AckedStep DEF KeptInv
  <1>3. Init => Promise!PromiseInit
    <2>1. Init => \A d \in Deliveries : PhaseOf(d) = "none"
      BY DEF Init, PhaseOf, Open
    <2>. QED  BY <2>1 DEF Init, Promise!PromiseInit
  <1>4. KeptInv /\ [Next]_vars => [Promise!PromiseNext]_(Promise!promiseVars)
    <2>. SUFFICES ASSUME KeptInv, [Next]_vars PROVE Allows
      BY DEF Allows, Phases, Orphaned, Promise!promiseVars
    <2>1. TypeInv'
      BY TypeInvStep DEF KeptInv, SoleInv
    <2>2. CASE UNCHANGED vars
      BY <2>2, PhaseStays, OrphansStay, StutterAllowed DEF vars, data, http
    <2>3. CASE Operate \/ Dispatch \/ \E d \in Deliveries : Replay(d) \/ BecomeDue(d)
      BY <2>3, OperateAllowed
    <2>4. CASE \E w \in Workers : Poll(w) \/ Crash(w)
      BY <2>1, <2>4, WorkerAllowed
    <2>. QED  BY <2>2, <2>3, <2>4 DEF Next
  <1>. QED  BY <1>1, <1>2, <1>3, <1>4, PTL DEF Spec, KeepsPromise, Promise!PromiseSpec

================================================================================
