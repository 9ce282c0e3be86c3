------------------------ MODULE MCEffectiveIdentity ------------------------
(* Initial tables for model checking EffectiveIdentity.                    *)
EXTENDS EffectiveIdentity, TLC

CONSTANT l1

\* A user's identity, or that of one membership.
Asked == {q \in Request : q.org = Absent /\ q.includeGroups}

Symmetric == Permutations(Orgs) \cup Permutations(Users)

\* Every table with labels l1 throughout; the writes bring in the others.
InitPlain ==
  /\ Init
  /\ \A u \in Users : users[u].labels = l1
  /\ \A o \in Orgs : orgs[o] \in {l1, Absent}
  /\ \A m \in Memberships : memberships[m] # Absent => memberships[m].labels = l1
  /\ \A g \in Groups : groups[g] # Absent => groups[g].labels = l1

PlainSpec == InitPlain /\ [][Next]_vars
================================================================================
