---------------------------- MODULE MCWebhookQueue ----------------------------
(* WebhookQueue with a history of which deliveries were ever processed by  *)
(* two workers at once, and what the others may cost.                      *)
EXTENDS WebhookQueue

VARIABLE shared

\* Read by the worker, and its outcome not known yet.
InHand(w) == {s.id : s \in batch[w]} \cup ({task[w].id} \ {Absent})

SharedNow == {d \in Deliveries : \E v, w \in Workers : v # w /\ d \in InHand(v) \cap InHand(w)}

SharedInit == QueueInit /\ shared = {}

SharedNext == QueueNext /\ shared' = shared \cup SharedNow'

SharedSpec == SharedInit /\ [][SharedNext]_<<allVars, shared>> /\ QueueFairness

\* A delivery whose jobs are handed out again, published twice or enqueued again is
\* processed whatever its status (processDeliveryById), also when it has succeeded.
\* As long as no two workers have it in hand at once, that costs one request for every
\* enqueue and every upset and no more: the attempts are counted on, not begun again.
RedeliveryBounded ==
  \A d \in Deliveries \ shared :
    \/ calls[d] = 0
    \/ \E m \in AttemptLimits : calls[d] <= m - 1 + enqueues[d] + upsets
================================================================================
