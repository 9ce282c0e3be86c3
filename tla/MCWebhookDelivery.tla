--------------------------- MODULE MCWebhookDelivery ---------------------------
(* Model values and symmetry for WebhookDelivery.                          *)
EXTENDS WebhookDelivery, TLC

Symmetric ==
  Permutations(Deliveries) \cup Permutations(Subscriptions) \cup Permutations(Workers)
================================================================================
