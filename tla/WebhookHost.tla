------------------------------- MODULE WebhookHost -------------------------------
(***************************************************************************)
(* What a host process calls: dispatch, which creates a delivery of an     *)
(* event for every subscription, and start and stop of the queue worker,   *)
(* which registers a consumer at the queue.  All of them await: calls      *)
(* overlap, and the subscriptions change meanwhile.  The dispatches are    *)
(* about one event and the subscriptions are those of its org and type.    *)
(***************************************************************************)
EXTENDS Integers, FiniteSets

CONSTANTS
  Hooks,      \* subscriptions
  Dispatches, \* calls of dispatch; a failed one may be made again
  Consumers,  \* calls of start, each with the consumer it may register
  MaxFlips,   \* bound: subscriptions activated or deactivated
  NoConsumer  \* no consumer

ASSUME NoConsumerIsNone == NoConsumer \notin Consumers

VARIABLES
  subscribed, \* active subscriptions
  flips,      \* history: how many have changed
  dispatched, \* call -> new, creating, ok or error
  toCreate,   \* call -> subscriptions listed, whose createDelivery has not answered ok
  created,    \* call -> subscriptions it inserted a delivery for
  steady,     \* history: call -> subscriptions active all the time
  started, subscription,  \* of the queue worker
  consumers,  \* consumer -> unused, awaited, open, closing, closed or failed
  wanted,     \* history: the last of start and stop is a start
  overlapped  \* history: consumers of starts that overlap, or that a stop missed

dispatchVars == <<subscribed, flips, dispatched, toCreate, created, steady>>
workerVars == <<started, subscription, consumers, wanted, overlapped>>
hostVars == <<dispatchVars, workerVars>>

HostInit ==
  /\ subscribed \in SUBSET Hooks
  /\ flips = 0
  /\ dispatched = [d \in Dispatches |-> "new"]
  /\ toCreate = [d \in Dispatches |-> {}]
  /\ created = [d \in Dispatches |-> {}]
  /\ steady = [d \in Dispatches |-> {}]
  /\ started = FALSE /\ subscription = NoConsumer
  /\ consumers = [c \in Consumers |-> "unused"]
  /\ wanted = FALSE /\ overlapped = {}

--------------------------------------------------------------------------------
(* dispatch.                                                               *)

\* The active subscriptions are listed, or the listing fails.
List(d) ==
  /\ dispatched[d] = "new"
  /\ \/ /\ dispatched' = [dispatched EXCEPT ![d] = "creating"]
        /\ toCreate' = [toCreate EXCEPT ![d] = subscribed]
        /\ steady' = [steady EXCEPT ![d] = subscribed]
     \/ dispatched' = [dispatched EXCEPT ![d] = "error"] /\ UNCHANGED <<toCreate, steady>>
  /\ UNCHANGED <<subscribed, flips, created, workerVars>>

\* Mutant: a subscription whose delivery could not be created is passed over.
SkipFailed(d, s) ==
  /\ toCreate' = [toCreate EXCEPT ![d] = @ \ {s}]
  /\ UNCHANGED <<dispatched, created>>

\* The first failure ends the call; the deliveries created stay, perhaps the one whose
\* answer was lost too.
CreateFails(d, s) ==
  /\ dispatched' = [dispatched EXCEPT ![d] = "error"]
  /\ created' \in {created, [created EXCEPT ![d] = @ \cup {s}]}
  /\ UNCHANGED toCreate

CreateDelivery(d) ==
  /\ dispatched[d] = "creating"
  /\ \E s \in toCreate[d] :
       \/ CreateFails(d, s)
       \/ /\ toCreate' = [toCreate EXCEPT ![d] = @ \ {s}]
          /\ created' = [created EXCEPT ![d] = @ \cup {s}]
          /\ UNCHANGED dispatched
  /\ UNCHANGED <<subscribed, flips, steady, workerVars>>

DispatchReturns(d) ==
  /\ dispatched[d] = "creating"
  /\ toCreate[d] = {}
  /\ dispatched' = [dispatched EXCEPT ![d] = "ok"]
  /\ UNCHANGED <<subscribed, flips, toCreate, created, steady, workerVars>>

\* Another process activates or deactivates a subscription.
Flip(s) ==
  /\ flips < MaxFlips
  /\ flips' = flips + 1
  /\ subscribed' = IF s \in subscribed THEN subscribed \ {s} ELSE subscribed \cup {s}
  /\ steady' = [d \in Dispatches |-> steady[d] \ {s}]
  /\ UNCHANGED <<dispatched, toCreate, created, workerVars>>

DispatchNext ==
  \/ \E d \in Dispatches : List(d) \/ CreateDelivery(d) \/ DispatchReturns(d)
  \/ \E s \in Hooks : Flip(s)

--------------------------------------------------------------------------------
(* createWebhookQueueWorker.                                               *)

Awaited == {c \in Consumers : consumers[c] = "awaited"}
Open == {c \in Consumers : consumers[c] = "open"}

\* Mutant: start does not look whether it has been called before.
StartsAnyway == TRUE

MayStart == ~started

Start(c) ==
  /\ MayStart
  /\ consumers[c] = "unused"
  /\ consumers' = [consumers EXCEPT ![c] = "awaited"]
  /\ wanted' = TRUE
  /\ overlapped' = IF Awaited = {} THEN overlapped ELSE overlapped \cup Awaited \cup {c}
  /\ UNCHANGED <<dispatchVars, started, subscription>>

\* A start of a worker that has started.
StartAgain ==
  /\ started
  /\ wanted' = TRUE
  /\ UNCHANGED <<dispatchVars, started, subscription, consumers, overlapped>>

\* consume answers.
ConsumeAnswers(c) ==
  /\ consumers[c] = "awaited"
  /\ \/ /\ consumers' = [consumers EXCEPT ![c] = "open"]
        /\ subscription' = c
        /\ started' = TRUE
     \/ consumers' = [consumers EXCEPT ![c] = "failed"] /\ UNCHANGED <<started, subscription>>
  /\ UNCHANGED <<dispatchVars, wanted, overlapped>>

\* A worker that has not started yet takes no notice.
Stop ==
  /\ wanted' = FALSE
  /\ started' = FALSE
  /\ IF started
     THEN /\ consumers' = [consumers EXCEPT ![subscription] = "closing"]
          /\ subscription' = NoConsumer
     ELSE UNCHANGED <<consumers, subscription>>
  /\ overlapped' = overlapped \cup Awaited
  /\ UNCHANGED dispatchVars

\* close of the subscription is done, or rejects and leaves the consumer open.
Close(c) ==
  /\ consumers[c] = "closing"
  /\ \/ consumers' = [consumers EXCEPT ![c] = "closed"] /\ UNCHANGED overlapped
     \/ /\ consumers' = [consumers EXCEPT ![c] = "open"]
        /\ overlapped' = overlapped \cup {c}
  /\ UNCHANGED <<dispatchVars, started, subscription, wanted>>

WorkerNext ==
  \/ \E c \in Consumers : Start(c) \/ ConsumeAnswers(c) \/ Close(c)
  \/ StartAgain \/ Stop

HostSpec == HostInit /\ [][DispatchNext \/ WorkerNext]_hostVars

--------------------------------------------------------------------------------
\* Inserted, for all the dispatch knows not.
Unanswered(d) == created[d] \cap toCreate[d]

\* A dispatch that answers ok has a delivery for every subscription that was active all
\* the time, and names all it inserted; one that ends in an error has inserted one at
\* most that it does not know of (dispatch).
DispatchCovers ==
  \A d \in Dispatches :
    /\ dispatched[d] = "ok" => steady[d] \subseteq created[d] /\ Unanswered(d) = {}
    /\ dispatched[d] = "error" => \A s, t \in Unanswered(d) : s = t

\* Unless starts overlap, a stop overlaps a start, or close rejects, the worker has one
\* consumer at most, it is the one stop would close, and there is none after a stop
\* (start and stop of createWebhookQueueWorker).
ConsumersClosed ==
  /\ Open \ overlapped \subseteq {subscription}
  /\ ~wanted => Open \subseteq overlapped
================================================================================
