---------------------------- MODULE WebhookPromise ----------------------------
(***************************************************************************)
(* What the delivery pipeline promises of each delivery, without saying    *)
(* how: an accepted delivery stays open until the target has confirmed it  *)
(* ("delivered") or the attempts of a policy are used up or its            *)
(* subscription was missing ("dead"); only an operator opens it again.     *)
(* Every upset (a crash, a store error, a replay) may cost one attempt.    *)
(***************************************************************************)
EXTENDS Integers

CONSTANTS Deliveries, AttemptLimits, MaxUpsets

VARIABLES
  phase,      \* "none", "open", "delivered", "dead" or "gone" (deleted)
  tries,      \* requests made for each delivery
  confirmed,  \* deliveries the target has answered with 2xx
  orphans,    \* deliveries whose subscription has been missing
  upsets      \* crashes, errors and replays so far

promiseVars == <<phase, tries, confirmed, orphans, upsets>>

PromiseInit ==
  /\ phase = [d \in Deliveries |-> "none"]
  /\ tries = [d \in Deliveries |-> 0]
  /\ confirmed = {}
  /\ orphans = {}
  /\ upsets = 0

Move(d, from, to) == phase[d] = from /\ phase' = [phase EXCEPT ![d] = to]

UpsetMaybe == upsets' \in {upsets, upsets + 1} /\ upsets' <= MaxUpsets

Accept(d) ==
  /\ Move(d, "none", "open")
  /\ orphans' \in {orphans, orphans \cup {d}}
  /\ UNCHANGED <<tries, confirmed, upsets>>

\* One request.  A delivery deleted meanwhile may still see its last one, a
\* closed one never does.
Try(d) ==
  /\ phase[d] \in {"open", "gone"}
  /\ tries' = [tries EXCEPT ![d] = @ + 1]
  /\ confirmed' \in {confirmed, confirmed \cup {d}}
  /\ UNCHANGED <<phase, orphans, upsets>>

Deliver(d) ==
  /\ Move(d, "open", "delivered")
  /\ d \in confirmed
  /\ UpsetMaybe
  /\ UNCHANGED <<tries, confirmed, orphans>>

\* The attempts of some policy are spent.
Spent(d) == \E m \in AttemptLimits : tries[d] + upsets >= m

GiveUp(d) ==
  /\ Move(d, "open", "dead")
  /\ d \in orphans \/ Spent(d)
  /\ UpsetMaybe
  /\ UNCHANGED <<tries, confirmed, orphans>>

Reopen(d) ==
  /\ Move(d, "dead", "open")
  /\ upsets < MaxUpsets
  /\ upsets' = upsets + 1
  /\ UNCHANGED <<tries, confirmed, orphans>>

Drop(d) ==
  /\ phase[d] \in {"open", "delivered", "dead"}
  /\ phase' = [phase EXCEPT ![d] = "gone"]
  /\ orphans' = orphans \ {d}
  /\ UNCHANGED <<tries, confirmed, upsets>>

Orphan ==
  /\ \E D \in SUBSET Deliveries : orphans' = orphans \cup D
  /\ UNCHANGED <<phase, tries, confirmed, upsets>>

Upset ==
  /\ upsets < MaxUpsets
  /\ upsets' = upsets + 1
  /\ UNCHANGED <<phase, tries, confirmed, orphans>>

PromiseNext ==
  \/ \E d \in Deliveries :
       \/ Accept(d) \/ Try(d) \/ Deliver(d) \/ GiveUp(d)
       \/ Reopen(d) \/ Drop(d)
  \/ Orphan
  \/ Upset

PromiseSpec == PromiseInit /\ [][PromiseNext]_promiseVars
================================================================================
