--------------------------- MODULE EffectiveIdentity ---------------------------
(***************************************************************************)
(* computeEffectiveIdentity over Postgres with the effective-identity      *)
(* cache, and the profile and entitlement writes that invalidate it.       *)
(*                                                                         *)
(* A reader fetches the user, resolves the membership, asks the cache and, *)
(* on a miss, reads the organisation, the groups and the entitlements one  *)
(* after the other and caches the result under tags.  A writer commits its *)
(* statement first and purges the tags of what it wrote afterwards, all at *)
(* once.  No transaction spans the reads, and no foreign key relates the   *)
(* tables.                                                                 *)
(*                                                                         *)
(* A row keeps what the identity depends on: what it refers to and one     *)
(* value for all its labels.                                               *)
(***************************************************************************)
EXTENDS Integers, FiniteSets

CONSTANTS
  Users, Orgs, Memberships, Groups, Entitlements,  \* primary keys
  Labels,     \* values of a row's labels
  Requests,   \* the requests readers make
  Readers,    \* concurrent computeEffectiveIdentity calls
  Writers,    \* concurrent store mutations
  MaxWrites,  \* bound: statements executed by writers
  MaxUpsets,  \* bound: invalidations that never happen
  Absent      \* no row, no entry, not asked for

Subjects ==
  ({"user"} \X Users) \cup ({"org"} \X Orgs) \cup ({"membership"} \X Memberships)

UserRow == [primaryOrg : Orgs \cup {Absent}, labels : Labels]
MembershipRow ==
  [user : Users, org : Orgs, groups : SUBSET Groups, labels : Labels]
GroupRow == [org : Orgs, labels : Labels]

VARIABLES
  users, orgs, memberships, groups, entitlements,  \* the tables: key -> row or Absent
  cache,    \* the effective-identity cache: key -> entry or Absent
  pc,       \* where each reader is, between two awaits
  got,      \* what each reader has read so far
  pending,  \* tags each writer has still to purge
  writes,   \* history: statements executed
  lost,     \* history: tags whose purge was lost
  moved     \* history: subjects an entitlement was taken away from

tables == <<users, orgs, memberships, groups, entitlements>>
reading == <<cache, pc, got>>
vars == <<tables, reading, pending, writes, lost, moved>>

Tags ==
  ({"user"} \X Users) \cup ({"org"} \X Orgs) \cup ({"membership"} \X Memberships)
    \cup ({"group"} \X Groups)

Request ==
  [user : Users, org : Orgs \cup {Absent}, membership : Memberships \cup {Absent},
   includeGroups : BOOLEAN]

ASSUME IdentityConstants ==
  /\ MaxWrites \in Nat
  /\ MaxUpsets \in Nat
  /\ Requests \subseteq Request
  /\ Absent \notin Orgs \cup Memberships

\* Of the same fields, resolved.
Key == {k \in Request : \E q \in Requests :
          q.user = k.user /\ q.includeGroups = k.includeGroups}

Identity ==
  [user : Users, org : Orgs \cup {Absent}, membership : Memberships \cup {Absent},
   labels : SUBSET (Tags \X Labels), groups : SUBSET Groups,
   entitlements : SUBSET Entitlements]

\* overlapped: a statement was executed while the entry's reader was under way.
Entry == [identity : Identity, tags : SUBSET Tags, overlapped : BOOLEAN]

\* What a reader has in hand: the membership's row and the cache key once resolved.
Reading ==
  [request : Requests, overlapped : BOOLEAN, primaryOrg : Orgs \cup {Absent},
   row : MembershipRow \cup {Absent}, key : Key \cup {Absent}, identity : Identity]

\* No row, no subject and no reader's state is taken for a missing one.
ASSUME AbsentIsNothing ==
  Absent \notin UserRow \cup MembershipRow \cup GroupRow \cup Key \cup Reading
    \cup Subjects \cup ({"org", "membership"} \X {Absent})

Started == {"member", "lookup", "org", "groups", "entitlements", "fill"}

TypeOK ==
  /\ users \in [Users -> UserRow \cup {Absent}]
  /\ orgs \in [Orgs -> Labels \cup {Absent}]
  /\ memberships \in [Memberships -> MembershipRow \cup {Absent}]
  /\ groups \in [Groups -> GroupRow \cup {Absent}]
  /\ entitlements \in [Entitlements -> Subjects \cup {Absent}]
  /\ cache \in [Key -> Entry \cup {Absent}]
  /\ pc \in [Readers -> Started \cup {"idle"}]
  /\ got \in [Readers -> Reading \cup {Absent}]
  /\ pending \in [Writers -> SUBSET Tags]
  /\ writes \in 0..MaxWrites
  /\ lost \subseteq Tags
  /\ moved \subseteq Subjects

--------------------------------------------------------------------------------
(* What an identity is made of.                                            *)

\* The entitlements of the subjects that were resolved.
EntitlementsOf(u, o, m) ==
  {e \in Entitlements :
     entitlements[e] \in {<<"user", u>>, <<"org", o>>, <<"membership", m>>}}

ExistingGroups(m, row, include) ==
  IF m # Absent /\ include THEN {g \in row.groups : groups[g] # Absent} ELSE {}

GroupLabels(gs) == {<<<<"group", g>>, groups[g].labels>> : g \in gs}

\* The identity the rows make up now for a cache key.
Fresh(k) ==
  LET o == IF k.org # Absent /\ orgs[k.org] # Absent THEN k.org ELSE Absent
      m == k.membership
      gs == ExistingGroups(m, memberships[m], k.includeGroups)
  IN [user |-> k.user, org |-> o, membership |-> m, groups |-> gs,
      labels |-> {<<<<"user", k.user>>, users[k.user].labels>>}
            \cup (IF o = Absent THEN {} ELSE {<<<<"org", o>>, orgs[o]>>})
            \cup (IF m = Absent THEN {}
                  ELSE {<<<<"membership", m>>, memberships[m].labels>>})
            \cup GroupLabels(gs),
      entitlements |-> EntitlementsOf(k.user, o, m)]

\* A key some request resolves to now.
Reachable(k) ==
  /\ users[k.user] # Absent
  /\ k.membership # Absent =>
       /\ memberships[k.membership] # Absent
       /\ memberships[k.membership].user = k.user
       /\ memberships[k.membership].org = k.org

--------------------------------------------------------------------------------
(* Readers.                                                                *)

To(r, place) == pc' = [pc EXCEPT ![r] = place]
Quiet == UNCHANGED <<tables, pending, writes, lost, moved>>

\* The call returns or throws.
Leave(r) ==
  /\ To(r, "idle")
  /\ got' = [got EXCEPT ![r] = Absent]

Nobody(q) ==
  [user |-> q.user, org |-> Absent, membership |-> Absent,
   labels |-> {}, groups |-> {}, entitlements |-> {}]

\* getUserProfile; without a row the call throws, which changes nothing.
ReadUser(r, q) ==
  /\ pc[r] = "idle"
  /\ users[q.user] # Absent
  /\ got' = [got EXCEPT ![r] =
       [request |-> q, overlapped |-> FALSE, primaryOrg |-> users[q.user].primaryOrg,
        row |-> Absent, key |-> Absent,
        identity |-> [Nobody(q) EXCEPT
                        !.labels = {<<<<"user", q.user>>, users[q.user].labels>>}]]]
  /\ To(r, "member")
  /\ UNCHANGED cache
  /\ Quiet

\* The memberships resolveMembership may return: the one asked for, if it fits the
\* request, or the oldest that fits (any, created_at can be set), or none.
Candidates(q) ==
  LET fits == {m \in Memberships :
                 /\ memberships[m] # Absent
                 /\ memberships[m].user = q.user
                 /\ q.org # Absent => memberships[m].org = q.org}
  IN IF q.membership # Absent THEN fits \cap {q.membership}
     ELSE IF fits # {} THEN fits ELSE {Absent}

\* Mutant: the membership is not part of the key.
KeyWithoutMembership(q, m, org) ==
  [user |-> q.user, org |-> org, membership |-> Absent, includeGroups |-> q.includeGroups]

KeyOf(q, m, org) ==
  [user |-> q.user, org |-> org, membership |-> m, includeGroups |-> q.includeGroups]

ResolveMembership(r) ==
  /\ pc[r] = "member"
  /\ LET q == got[r].request IN
     \/ /\ Candidates(q) = {}
        /\ Leave(r)
     \/ \E m \in Candidates(q) :
          LET row == IF m = Absent THEN Absent ELSE memberships[m]
              org == CASE q.org # Absent -> q.org
                       [] q.org = Absent /\ m # Absent -> row.org
                       [] OTHER -> got[r].primaryOrg
          IN /\ got' = [got EXCEPT
                  ![r].row = row,
                  ![r].key = KeyOf(q, m, org),
                  ![r].identity.membership = m,
                  ![r].identity.labels =
                     IF m = Absent THEN @ ELSE @ \cup {<<<<"membership", m>>, row.labels>>}]
             /\ To(r, "lookup")
  /\ UNCHANGED cache
  /\ Quiet

\* The org asked for or referred to: the id kept in the key even without a row.
OrgOf(r) == IF got[r].request.org # Absent THEN got[r].request.org
            ELSE IF got[r].row # Absent THEN got[r].row.org
            ELSE got[r].primaryOrg

\* A hit is returned as it is; a miss goes on.
CacheGet(r) ==
  /\ pc[r] = "lookup"
  /\ IF cache[got[r].key] # Absent THEN Leave(r)
     ELSE To(r, "org") /\ UNCHANGED got
  /\ UNCHANGED cache
  /\ Quiet

\* Only an organisation the request names must exist.
ReadOrg(r) ==
  /\ pc[r] = "org"
  /\ LET o == OrgOf(r) IN
     CASE o # Absent /\ orgs[o] # Absent ->
            /\ got' = [got EXCEPT
                 ![r].identity.org = o,
                 ![r].identity.labels = @ \cup {<<<<"org", o>>, orgs[o]>>}]
            /\ To(r, "groups")
       [] got[r].request.org # Absent /\ orgs[o] = Absent -> Leave(r)
       [] OTHER -> To(r, "groups") /\ UNCHANGED got
  /\ UNCHANGED cache
  /\ Quiet

ReadGroups(r) ==
  /\ pc[r] = "groups"
  /\ LET gs == ExistingGroups(got[r].identity.membership, got[r].row,
                              got[r].request.includeGroups)
     IN got' = [got EXCEPT ![r].identity.groups = gs,
                           ![r].identity.labels = @ \cup GroupLabels(gs)]
  /\ To(r, "entitlements")
  /\ UNCHANGED cache
  /\ Quiet

CollectEntitlements(r) ==
  /\ pc[r] = "entitlements"
  /\ LET i == got[r].identity IN
     got' = [got EXCEPT ![r].identity.entitlements =
               EntitlementsOf(i.user, i.org, i.membership)]
  /\ To(r, "fill")
  /\ UNCHANGED cache
  /\ Quiet

\* Mutant: groups are not among the tags.
TagsWithoutGroups(i) ==
  {<<"user", i.user>>}
    \cup (IF i.org = Absent THEN {} ELSE {<<"org", i.org>>})
    \cup (IF i.membership = Absent THEN {} ELSE {<<"membership", i.membership>>})

TagsOf(i) ==
  {<<"user", i.user>>}
    \cup (IF i.org = Absent THEN {} ELSE {<<"org", i.org>>})
    \cup (IF i.membership = Absent THEN {} ELSE {<<"membership", i.membership>>})
    \cup {<<"group", g>> : g \in i.groups}

CacheIdentity(r) ==
  /\ pc[r] = "fill"
  /\ cache' = [cache EXCEPT ![got[r].key] =
       [identity |-> got[r].identity, tags |-> TagsOf(got[r].identity),
        overlapped |-> got[r].overlapped]]
  /\ Leave(r)
  /\ Quiet

Read(r) ==
  \/ \E q \in Requests : ReadUser(r, q)
  \/ ResolveMembership(r) \/ CacheGet(r) \/ ReadOrg(r) \/ ReadGroups(r)
  \/ CollectEntitlements(r) \/ CacheIdentity(r)

--------------------------------------------------------------------------------
(* Writers.  Each executes one statement and takes the tags to purge from  *)
(* the row the statement returned: the new one.                            *)

Statement(w, tags) ==
  /\ pending[w] = {}
  /\ writes < MaxWrites
  /\ writes' = writes + 1
  /\ pending' = [pending EXCEPT ![w] = tags]
  /\ got' = [r \in Readers |->
               IF got[r] = Absent THEN Absent ELSE [got[r] EXCEPT !.overlapped = TRUE]]
  /\ UNCHANGED <<cache, pc, lost>>

UpsertUserProfile(w, u) ==
  /\ \E row \in UserRow : users' = [users EXCEPT ![u] = row]
  /\ Statement(w, {<<"user", u>>})
  /\ UNCHANGED <<orgs, memberships, groups, entitlements, moved>>

UpsertOrgProfile(w, o) ==
  /\ \E labels \in Labels : orgs' = [orgs EXCEPT ![o] = labels]
  /\ Statement(w, {<<"org", o>>})
  /\ UNCHANGED <<users, memberships, groups, entitlements, moved>>

UpsertGroup(w, g) ==
  /\ \E row \in GroupRow :
       /\ groups' = [groups EXCEPT ![g] = row]
       /\ Statement(w, {<<"org", row.org>>, <<"group", g>>})
  /\ UNCHANGED <<users, orgs, memberships, entitlements, moved>>

\* Memberships keep naming the group.
DeleteGroup(w, g) ==
  /\ groups[g] # Absent
  /\ groups' = [groups EXCEPT ![g] = Absent]
  /\ Statement(w, {<<"org", groups[g].org>>, <<"group", g>>})
  /\ UNCHANGED <<users, orgs, memberships, entitlements, moved>>

MembershipTags(m, row) ==
  {<<"user", row.user>>, <<"org", row.org>>, <<"membership", m>>}
    \cup {<<"group", g>> : g \in row.groups}

UpsertMembership(w, m) ==
  /\ \E row \in MembershipRow :
       /\ memberships' = [memberships EXCEPT ![m] = row]
       /\ Statement(w, MembershipTags(m, row))
  /\ UNCHANGED <<users, orgs, groups, entitlements, moved>>

RemoveMembership(w, m) ==
  /\ memberships[m] # Absent
  /\ memberships' = [memberships EXCEPT ![m] = Absent]
  /\ Statement(w, MembershipTags(m, memberships[m]))
  /\ UNCHANGED <<users, orgs, groups, entitlements, moved>>

\* The record's subject may differ from the one it had.
UpsertEntitlement(w, e) ==
  /\ \E s \in Subjects :
       /\ entitlements' = [entitlements EXCEPT ![e] = s]
       /\ Statement(w, {s})
       /\ moved' = moved \cup ({entitlements[e]} \ {s, Absent})
  /\ UNCHANGED <<users, orgs, memberships, groups>>

RemoveEntitlement(w, e) ==
  /\ entitlements[e] # Absent
  /\ entitlements' = [entitlements EXCEPT ![e] = Absent]
  /\ Statement(w, {entitlements[e]})
  /\ UNCHANGED <<users, orgs, memberships, groups, moved>>

Write(w) ==
  \/ \E u \in Users : UpsertUserProfile(w, u)
  \/ \E o \in Orgs : UpsertOrgProfile(w, o)
  \/ \E g \in Groups : UpsertGroup(w, g) \/ DeleteGroup(w, g)
  \/ \E m \in Memberships : UpsertMembership(w, m) \/ RemoveMembership(w, m)
  \/ \E e \in Entitlements : UpsertEntitlement(w, e) \/ RemoveEntitlement(w, e)

\* purgeByTag for one of the tags; they are purged concurrently.
PurgeByTag(w, t) ==
  /\ t \in pending[w]
  /\ pending' = [pending EXCEPT ![w] = @ \ {t}]
  /\ cache' = [k \in Key |->
                 IF cache[k] # Absent /\ t \in cache[k].tags THEN Absent ELSE cache[k]]
  /\ UNCHANGED <<tables, pc, got, writes, lost, moved>>

\* The cache is out of reach or the process dies: the statement is committed, what
\* was still to be purged never is.
LoseInvalidation(w) ==
  /\ pending[w] # {}
  /\ Cardinality(lost) + Cardinality(pending[w]) <= MaxUpsets
  /\ lost' = lost \cup pending[w]
  /\ pending' = [pending EXCEPT ![w] = {}]
  /\ UNCHANGED <<tables, reading, writes, moved>>

\* The entry's time to live ends, or the cache evicts it.
Expire(k) ==
  /\ cache[k] # Absent
  /\ cache' = [cache EXCEPT ![k] = Absent]
  /\ UNCHANGED <<tables, pc, got, pending, writes, lost, moved>>

--------------------------------------------------------------------------------
Init ==
  /\ users \in [Users -> UserRow]
  /\ orgs \in [Orgs -> Labels \cup {Absent}]
  /\ memberships \in [Memberships -> MembershipRow \cup {Absent}]
  /\ groups \in [Groups -> GroupRow \cup {Absent}]
  /\ entitlements \in [Entitlements -> Subjects \cup {Absent}]
  /\ cache = [k \in Key |-> Absent]
  /\ pc = [r \in Readers |-> "idle"]
  /\ got = [r \in Readers |-> Absent]
  /\ pending = [w \in Writers |-> {}]
  /\ writes = 0
  /\ lost = {}
  /\ moved = {}

Next ==
  \/ \E r \in Readers : Read(r)
  \/ \E w \in Writers :
       Write(w) \/ LoseInvalidation(w) \/ \E t \in Tags : PurgeByTag(w, t)
  \/ \E k \in Key : Expire(k)

Spec == Init /\ [][Next]_vars

--------------------------------------------------------------------------------
Settled == \A w \in Writers : pending[w] = {}

\* "Profile mutations invalidate decision and identity caches": once the purges
\* are through, an entry that some request may still hit and that no statement
\* overlapped is what the rows make up.
MutationsInvalidate ==
  Settled =>
    \A k \in Key : cache[k] # Absent /\ ~cache[k].overlapped /\ Reachable(k) =>
      cache[k].identity = Fresh(k) \/ cache[k].tags \cap lost # {}

\* The entry was made while the row of the organisation in its key was missing,
\* and so carries no tag of it.
OrgWasMissing(k) == k.org # Absent /\ cache[k].identity.org = Absent

\* A group the membership names had no row when the entry was made.
GroupWasMissing(k) ==
  /\ k.includeGroups
  /\ k.membership # Absent
  /\ memberships[k.membership].groups \ cache[k].identity.groups # {}

\* The tags cover everything an identity depends on, except in three cases: an
\* organisation or a group that was missing when the entry was made, and an
\* entitlement moved away from one of the entry's subjects.
TagsCoverDependencies ==
  Settled =>
    \A k \in Key : cache[k] # Absent /\ ~cache[k].overlapped /\ Reachable(k) =>
      \/ cache[k].identity = Fresh(k)
      \/ cache[k].tags \cap (lost \cup moved) # {}
      \/ OrgWasMissing(k)
      \/ GroupWasMissing(k)

\* A membership is resolved anew for every request, so whatever is stale in the
\* cache, the identity a reader takes from it is for the user and the membership
\* the reader has just resolved.
HitIsForMembership ==
  \A r \in Readers :
    pc[r] = "lookup" /\ cache[got[r].key] # Absent =>
      /\ cache[got[r].key].identity.user = got[r].request.user
      /\ cache[got[r].key].identity.membership = got[r].identity.membership
================================================================================
