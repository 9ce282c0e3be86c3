------------------------------ MODULE MCTagCache ------------------------------
(* A cache in use, for model checking TagCache with few calls.             *)
EXTENDS TagCache, TLC

Symmetric == Permutations(Keys) \cup Permutations(Tags) \cup Permutations(Calls)

\* Every key was set by an earlier call, under all tags.
InitInUse ==
  /\ \E c \in Calls : value = [k \in Keys |->
       [tags |-> Tags, lives |-> TRUE, writer |-> c, complete |-> TRUE, excused |-> {}]]
  /\ tagsOf = [k \in Keys |-> Tags]
  /\ expiry = [k \in Keys |-> value[k].writer]
  /\ index = [i \in Indices |-> Keys]
  /\ call = [c \in Calls |-> Absent]
  /\ todo = [c \in Calls |-> {}]
  /\ young = [c \in Calls |-> {}]
  /\ made = 0
  /\ upsets = 0

SpecInUse == InitInUse /\ [][Next]_vars
================================================================================
