---------------------------- MODULE MCForwardAuth -----------------------------
(* ForwardAuth on a small instance. *)
EXTENDS ForwardAuth, TLC

Symmetric == Permutations(Requests)

\* Everybody has their rights at first, so the changes take rights away.
InitEntitled == Init /\ rights = [s \in Subjects |-> TRUE]

EntitledSpec == InitEntitled /\ [][Next]_vars
================================================================================
