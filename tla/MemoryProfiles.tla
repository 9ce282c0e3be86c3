----------------------------- MODULE MemoryProfiles -----------------------------
(***************************************************************************)
(* The in-memory profile store: users, orgs, groups and memberships, with  *)
(* the indexes its queries go by.  No operation awaits: each is one step.  *)
(* An id without a bucket in an index and one with an empty bucket are the *)
(* same, and a query that takes the first of a bucket takes any of it.     *)
(* Labels are left out, and so is the primary org of a user.               *)
(***************************************************************************)

CONSTANTS
  People, Firms, Teams, MemberIds,  \* ids of users, orgs, groups and memberships
  Slugs,                            \* slugs of orgs
  NoRow                             \* no record, nothing asked for

VARIABLES
  people,      \* users with a profile
  slugOf,      \* org -> slug or NoRow
  slugIndex,   \* slug -> org or NoRow
  firmOf,      \* group -> org or NoRow
  teamsByFirm, \* org -> groups
  members,     \* id -> membership or NoRow
  byPerson,    \* user -> ids
  byFirm,      \* org -> ids
  contested,   \* history: slugs two orgs have had at a time
  bereft       \* history: <<id, group>> deleted under a member, not given again since

profileVars == <<people, slugOf, slugIndex, firmOf, teamsByFirm, members, byPerson, byFirm,
                 contested, bereft>>

Membership == [person : People, firm : Firms, teams : SUBSET Teams]

ASSUME NoRowIsNone ==
  NoRow \notin Slugs /\ NoRow \notin Firms /\ NoRow \notin MemberIds /\ NoRow \notin Membership

ProfilesInit ==
  /\ people = {}
  /\ slugOf = [o \in Firms |-> NoRow]
  /\ slugIndex = [s \in Slugs |-> NoRow]
  /\ firmOf = [g \in Teams |-> NoRow]
  /\ teamsByFirm = [o \in Firms |-> {}]
  /\ members = [i \in MemberIds |-> NoRow]
  /\ byPerson = [u \in People |-> {}]
  /\ byFirm = [o \in Firms |-> {}]
  /\ contested = {} /\ bereft = {}

Known(row) == row # NoRow

--------------------------------------------------------------------------------
SaveUserProfile(u) ==
  /\ people' = people \cup {u}
  /\ UNCHANGED <<slugOf, slugIndex, firmOf, teamsByFirm, members, byPerson, byFirm,
                 contested, bereft>>

\* The former slug leads nowhere from now on, also if another org has it.
SaveOrgProfile(o, s) ==
  /\ slugOf' = [slugOf EXCEPT ![o] = s]
  /\ slugIndex' = [t \in Slugs |->
       IF t = s THEN o ELSE IF t = slugOf[o] THEN NoRow ELSE slugIndex[t]]
  /\ contested' = contested \cup {t \in {s} : \E other \in Firms \ {o} : slugOf[other] = t}
  /\ UNCHANGED <<people, firmOf, teamsByFirm, members, byPerson, byFirm, bereft>>

\* Mutant: a group that moves stays listed where it was.
StaysLinked(g, o) == [teamsByFirm EXCEPT ![o] = @ \cup {g}]

\* unlinkGroupFromOrg of the former org, linkGroupToOrg.
Relinked(g, o) ==
  [p \in Firms |-> IF p = o THEN teamsByFirm[p] \cup {g}
                   ELSE IF p = firmOf[g] THEN teamsByFirm[p] \ {g} ELSE teamsByFirm[p]]

SaveGroup(g, o) ==
  /\ firmOf' = [firmOf EXCEPT ![g] = o]
  /\ teamsByFirm' = Relinked(g, o)
  /\ UNCHANGED <<people, slugOf, slugIndex, members, byPerson, byFirm, contested, bereft>>

Holding(g) == {i \in MemberIds : Known(members[i]) /\ g \in members[i].teams}

\* Its members in its own org lose it.
DeleteGroup(g) ==
  /\ Known(firmOf[g])
  /\ firmOf' = [firmOf EXCEPT ![g] = NoRow]
  /\ teamsByFirm' = [teamsByFirm EXCEPT ![firmOf[g]] = @ \ {g}]
  /\ members' = [i \in MemberIds |->
       IF i \in byFirm[firmOf[g]] \cap Holding(g)
       THEN [members[i] EXCEPT !.teams = @ \ {g}] ELSE members[i]]
  /\ bereft' = bereft \cup {<<i, g>> : i \in {i \in Holding(g) : members[i].firm = firmOf[g]}}
  /\ UNCHANGED <<people, slugOf, slugIndex, byPerson, byFirm, contested>>

\* unlinkMembership.
WithoutMember(i) ==
  IF Known(members[i])
  THEN <<[byPerson EXCEPT ![members[i].person] = @ \ {i}],
         [byFirm EXCEPT ![members[i].firm] = @ \ {i}]>>
  ELSE <<byPerson, byFirm>>

\* unlinkMembership of the former one, linkMembership.
SaveMembership(i, row) ==
  /\ members' = [members EXCEPT ![i] = row]
  /\ byPerson' = [WithoutMember(i)[1] EXCEPT ![row.person] = @ \cup {i}]
  /\ byFirm' = [WithoutMember(i)[2] EXCEPT ![row.firm] = @ \cup {i}]
  /\ bereft' = {pair \in bereft : pair[1] # i}
  /\ UNCHANGED <<people, slugOf, slugIndex, firmOf, teamsByFirm, contested>>

RemoveMembership(i) ==
  /\ Known(members[i])
  /\ members' = [members EXCEPT ![i] = NoRow]
  /\ byPerson' = WithoutMember(i)[1]
  /\ byFirm' = WithoutMember(i)[2]
  /\ bereft' = {pair \in bereft : pair[1] # i}
  /\ UNCHANGED <<people, slugOf, slugIndex, firmOf, teamsByFirm, contested>>

ProfilesNext ==
  \/ \E u \in People : SaveUserProfile(u)
  \/ \E o \in Firms, s \in Slugs : SaveOrgProfile(o, s)
  \/ \E g \in Teams, o \in Firms : SaveGroup(g, o)
  \/ \E g \in Teams : DeleteGroup(g)
  \/ \E i \in MemberIds, row \in Membership : SaveMembership(i, row)
  \/ \E i \in MemberIds : RemoveMembership(i)

ProfilesSpec == ProfilesInit /\ [][ProfilesNext]_profileVars

--------------------------------------------------------------------------------
(* Queries, and computeEffectiveIdentity for a user, with an org or a      *)
(* membership or without.                                                  *)

GetOrgProfileBySlug(s) ==
  IF Known(slugIndex[s]) /\ Known(slugOf[slugIndex[s]]) THEN slugIndex[s] ELSE NoRow

ListGroups(o) == {g \in teamsByFirm[o] : Known(firmOf[g])}

ListMembershipsByOrg(o) == {i \in byFirm[o] : Known(members[i])}

InFirm(i, o) == o \in {NoRow, members[i].firm}

\* The membership named, else the user's first, or the first in the org: those it may be,
\* and none where there is no such membership.
ResolveMembership(u, o, i) ==
  IF Known(i) THEN {i}
  ELSE IF Known(o) THEN {j \in byPerson[u] : Known(members[j]) /\ members[j].firm = o}
  ELSE byPerson[u]

\* An unknown user, org or membership is an error, and a membership of another.
Computes(u, o, i) ==
  /\ u \in people
  /\ Known(i) => Known(members[i]) /\ members[i].person = u /\ InFirm(i, o)
  /\ Known(o) => Known(slugOf[o])

\* collectGroupIds: those of the membership that exist.
TeamsOf(i) == {g \in members[i].teams : Known(firmOf[g])}

\* The queries find the records and nothing else: a slug its org (unless two orgs have
\* had it at a time), an org its groups and members, an identity a membership of its user
\* in its org whenever there is one; and the groups of an identity are none that was
\* deleted under the member and created anew (saveOrgProfile, saveGroup, deleteGroup,
\* saveMembership, resolveMembership).
ProfilesAgree ==
  /\ \A s \in Slugs :
       LET having == {o \in Firms : slugOf[o] = s}
       IN  IF having = {} THEN GetOrgProfileBySlug(s) = NoRow
           ELSE GetOrgProfileBySlug(s) \in having \/ s \in contested
  /\ \A o \in Firms :
       /\ ListGroups(o) = {g \in Teams : firmOf[g] = o}
       /\ ListMembershipsByOrg(o) = {i \in MemberIds : Known(members[i]) /\ members[i].firm = o}
  /\ \A u \in People, o \in Firms \cup {NoRow}, i \in MemberIds \cup {NoRow} :
       LET own == {j \in MemberIds : Known(members[j]) /\ members[j].person = u /\ InFirm(j, o)}
           found == ResolveMembership(u, o, i)
       IN  Computes(u, o, i) =>
             /\ found \subseteq own /\ (found = {} => own = {})
             /\ \A j \in found : \A g \in TeamsOf(j) : <<j, g>> \notin bereft
================================================================================
