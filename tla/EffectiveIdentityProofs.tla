------------------------ MODULE EffectiveIdentityProofs ------------------------
(***************************************************************************)
(* Proofs about EffectiveIdentity, for any tables, requests and numbers of *)
(* readers and writers: its types, that a hit is for the membership just   *)
(* resolved, and that the tags cover what an identity depends on.          *)
(*                                                                         *)
(* The tags are checked when every purge is through, but what makes the    *)
(* check true is what holds in between: a statement that changes what an   *)
(* entry was made of leaves a tag of the entry to be purged.               *)
(***************************************************************************)
EXTENDS EffectiveIdentity, TLAPS

--------------------------------------------------------------------------------
(* The invariant.  What a reader has in hand is a value here, so that only *)
(* the tables change under it.                                             *)

OrgNow(k) == IF k.org # Absent /\ orgs[k.org] # Absent THEN k.org ELSE Absent
GroupsNow(k) == ExistingGroups(k.membership, memberships[k.membership], k.includeGroups)

OwnLabels(k) ==
  {<<<<"user", k.user>>, users[k.user].labels>>}
    \cup (IF k.membership = Absent THEN {}
          ELSE {<<<<"membership", k.membership>>, memberships[k.membership].labels>>})
OrgLabels(k) ==
  IF OrgNow(k) = Absent THEN {} ELSE {<<<<"org", OrgNow(k)>>, orgs[OrgNow(k)]>>}

\* OrgOf for a reader that has h in hand.
OrgIn(h) == IF h.request.org # Absent THEN h.request.org
            ELSE IF h.row # Absent THEN h.row.org
            ELSE h.primaryOrg

\* What the request and the membership resolved say of the key.
KeyFits(h) ==
  /\ h.key \in Key
  /\ h.key.user = h.request.user
  /\ h.key.includeGroups = h.request.includeGroups
  /\ h.key.membership = h.identity.membership
  /\ h.key.org = OrgIn(h)
  /\ h.identity.membership # Absent => h.row \in MembershipRow

Fits(place, h) ==
  /\ h \in Reading
  /\ h.identity.user = h.request.user
  /\ place \in {"member", "lookup", "org"} => h.identity.org = Absent
  /\ place # "member" => KeyFits(h)

\* No statement came in between: what was read so far is what the rows still say.
StillSo(place, h) ==
  IF place = "member"
  THEN /\ users[h.request.user] # Absent
       /\ h.identity.labels = {<<<<"user", h.request.user>>, users[h.request.user].labels>>}
  ELSE /\ Reachable(h.key)
       /\ h.key.membership # Absent => h.row = memberships[h.key.membership]
       /\ place \in {"lookup", "org"} => h.identity.labels = OwnLabels(h.key)
       /\ place = "groups" =>
            /\ h.identity.org = OrgNow(h.key)
            /\ h.identity.labels = OwnLabels(h.key) \cup OrgLabels(h.key)
       /\ place = "entitlements" =>
            /\ h.identity.org = OrgNow(h.key)
            /\ h.identity.groups = GroupsNow(h.key)
            /\ h.identity.labels = OwnLabels(h.key) \cup OrgLabels(h.key)
                                     \cup GroupLabels(GroupsNow(h.key))
       /\ place = "fill" => h.identity = Fresh(h.key)

ReaderSound(place, h) ==
  place # "idle" => Fits(place, h) /\ (~h.overlapped => StillSo(place, h))

\* A tag of the entry is still to be purged, or never will be, or an entitlement was
\* taken away from one of its subjects.
Touched(k) ==
  \/ cache[k].tags \cap (lost \cup moved) # {}
  \/ \E w \in Writers : cache[k].tags \cap pending[w] # {}

Covered(k) ==
  \/ cache[k].identity = Fresh(k)
  \/ OrgWasMissing(k)
  \/ GroupWasMissing(k)

EntrySound(k) ==
  cache[k] # Absent =>
    /\ cache[k].tags = TagsOf(cache[k].identity)
    /\ cache[k].identity.user = k.user
    /\ cache[k].identity.membership = k.membership
    /\ ~cache[k].overlapped => Touched(k) \/ (Reachable(k) /\ Covered(k))

ReadersSound == \A r \in Readers : ReaderSound(pc[r], got[r])
EntriesSound == \A k \in Key : EntrySound(k)

IdentityInv == TypeOK /\ ReadersSound /\ EntriesSound

--------------------------------------------------------------------------------
(* What the rows make up, and when it stays as it was.                     *)

\* Fresh, put together as the readers do it.
MadeUp(k) ==
  [user |-> k.user, org |-> OrgNow(k), membership |-> k.membership,
   groups |-> GroupsNow(k),
   labels |-> OwnLabels(k) \cup OrgLabels(k) \cup GroupLabels(GroupsNow(k)),
   entitlements |-> EntitlementsOf(k.user, OrgNow(k), k.membership)]

\* They are the same.
LEMMA FreshParts ==
  ASSUME NEW k
  PROVE  /\ Fresh(k) = MadeUp(k)
         /\ Fresh(k)' = MadeUp(k)'
<1>1. Fresh(k) = MadeUp(k)
  BY DEF MadeUp, Fresh, OrgNow, GroupsNow, OwnLabels, OrgLabels
<1>2. Fresh(k)' = MadeUp(k)'
  BY DEF MadeUp, Fresh, OrgNow, GroupsNow, OwnLabels, OrgLabels
<1>. QED  BY <1>1, <1>2

\* The rows a key names did not change: neither did what they make up.
LEMMA FreshStays ==
  ASSUME NEW k \in Key,
         users'[k.user] = users[k.user],
         k.org # Absent => orgs'[k.org] = orgs[k.org],
         k.membership # Absent => memberships'[k.membership] = memberships[k.membership],
         k.membership # Absent /\ k.includeGroups =>
           \A g \in memberships[k.membership].groups : groups'[g] = groups[g],
         EntitlementsOf(k.user, OrgNow(k), k.membership)'
           = EntitlementsOf(k.user, OrgNow(k), k.membership)
  PROVE  /\ Fresh(k)' = Fresh(k)
         /\ Reachable(k)' = Reachable(k)
<1>1. OrgNow(k)' = OrgNow(k) /\ OrgLabels(k)' = OrgLabels(k)
  BY DEF OrgNow, OrgLabels
<1>2. OwnLabels(k)' = OwnLabels(k)
  BY DEF OwnLabels
<1>3. GroupsNow(k)' = GroupsNow(k)
  BY DEF GroupsNow, ExistingGroups
<1>4. GroupLabels(GroupsNow(k))' = GroupLabels(GroupsNow(k))
  BY <1>3 DEF GroupLabels, GroupsNow, ExistingGroups
<1>5. Reachable(k)' = Reachable(k)
  BY DEF Reachable
<1>6. Fresh(k)' = Fresh(k)
  <2>1. MadeUp(k)' = MadeUp(k)
    BY <1>1, <1>2, <1>3, <1>4 DEF MadeUp
  <2>. QED  BY <2>1, FreshParts
<1>. QED  BY <1>5, <1>6

\* A step that leaves the tables alone leaves everything made of them alone.
LEMMA QuietStays ==
  ASSUME NEW place, NEW h, NEW k, UNCHANGED tables
  PROVE  /\ ReaderSound(place, h)' = ReaderSound(place, h)
         /\ Fresh(k)' = Fresh(k)
         /\ Reachable(k)' = Reachable(k)
  BY DEF tables, ReaderSound, Fits, StillSo, KeyFits, OrgIn, Fresh, Reachable, OrgNow,
         GroupsNow, OwnLabels, OrgLabels, ExistingGroups, GroupLabels, EntitlementsOf

\* An entry no step touches stays sound, if its tags to be purged are not forgotten.
LEMMA EntryStays ==
  ASSUME NEW k \in Key, UNCHANGED tables, cache'[k] = cache[k], EntrySound(k),
         Touched(k) => Touched(k)'
  PROVE  EntrySound(k)'
<1>1. Covered(k)' = Covered(k)
  BY QuietStays DEF Covered, OrgWasMissing, GroupWasMissing, tables
<1>. QED  BY <1>1, QuietStays DEF EntrySound, TagsOf

--------------------------------------------------------------------------------
(* Readers.                                                                *)

\* A reader that goes on to a place with something sound in hand.
LEMMA ReaderGoesOn ==
  ASSUME IdentityInv, Quiet, UNCHANGED cache,
         NEW r \in Readers, NEW place \in Started, NEW h,
         To(r, place), got' = [got EXCEPT ![r] = h], ReaderSound(place, h)
  PROVE  IdentityInv'
<1>. USE DEF IdentityInv, Quiet
<1>1. h \in Reading
  BY DEF ReaderSound, Fits, Started
<1>2. TypeOK'
  BY <1>1 DEF TypeOK, To, tables
<1>3. ReadersSound'
  <2>. SUFFICES ASSUME NEW x \in Readers PROVE ReaderSound(pc[x], got[x])'
    BY DEF ReadersSound
  <2>. PICK p, g : p = pc'[x] /\ g = got'[x]
    OBVIOUS
  <2>1. ReaderSound(p, g)
    BY DEF To, TypeOK, ReadersSound
  <2>2. ReaderSound(p, g)'
    BY <2>1, QuietStays
  <2>. QED  BY <2>2
<1>4. EntriesSound'
  <2>. SUFFICES ASSUME NEW k \in Key PROVE EntrySound(k)'
    BY DEF EntriesSound
  <2>. QED  BY EntryStays DEF EntriesSound, Touched
<1>. QED  BY <1>2, <1>3, <1>4

\* A reader that returns, and whatever became of the cache key by key.
LEMMA ReaderLeaves ==
  ASSUME IdentityInv, Quiet, NEW r \in Readers, Leave(r),
         cache' \in [Key -> Entry \cup {Absent}],
         \A k \in Key : EntrySound(k)'
  PROVE  IdentityInv'
<1>. USE DEF IdentityInv, Quiet, Leave
<1>1. TypeOK'
  BY DEF TypeOK, To, tables
<1>2. ReadersSound'
  <2>. SUFFICES ASSUME NEW x \in Readers PROVE ReaderSound(pc[x], got[x])'
    BY DEF ReadersSound
  <2>1. CASE x = r
    BY <2>1 DEF To, TypeOK, ReaderSound
  <2>2. CASE x # r
    <3>. PICK p, g : p = pc'[x] /\ g = got'[x]
      OBVIOUS
    <3>1. ReaderSound(p, g)
      BY <2>2 DEF To, TypeOK, ReadersSound
    <3>2. ReaderSound(p, g)'
      BY <3>1, QuietStays
    <3>. QED  BY <3>2
  <2>. QED  BY <2>1, <2>2
<1>. QED  BY <1>1, <1>2 DEF EntriesSound

\* A reader that returns with the cache as it was.
LEMMA ReaderGivesUp ==
  ASSUME IdentityInv, Quiet, UNCHANGED cache, NEW r \in Readers, Leave(r)
  PROVE  IdentityInv'
<1>1. \A k \in Key : EntrySound(k)'
  BY EntryStays DEF IdentityInv, EntriesSound, Touched, Quiet
<1>. QED  BY <1>1, ReaderLeaves DEF IdentityInv, TypeOK

\* getUserProfile.
LEMMA ReadUserKeeps ==
  ASSUME IdentityInv, NEW r \in Readers, NEW q \in Requests, ReadUser(r, q)
  PROVE  IdentityInv'
<1>. USE DEF IdentityInv, ReadUser
<1>1. PICK h : h = [request |-> q, overlapped |-> FALSE, primaryOrg |-> users[q.user].primaryOrg,
                    row |-> Absent, key |-> Absent,
                    identity |-> [Nobody(q) EXCEPT
                      !.labels = {<<<<"user", q.user>>, users[q.user].labels>>}]]
  OBVIOUS
<1>2. q \in Request /\ users[q.user] \in UserRow
  BY IdentityConstants DEF TypeOK, Request
<1>3. h.identity \in Identity
  BY <1>1, <1>2 DEF Nobody, Identity, Tags, Request, UserRow
<1>4. h \in Reading
  BY <1>1, <1>2, <1>3 DEF Reading, UserRow
<1>5. ReaderSound("member", h)
  BY <1>1, <1>4 DEF ReaderSound, Fits, StillSo, Nobody
<1>. QED  BY <1>1, <1>5, ReaderGoesOn DEF Started

\* resolveMembership, and the cache key it leads to.
LEMMA ResolveMembershipKeeps ==
  ASSUME IdentityInv, NEW r \in Readers, ResolveMembership(r)
  PROVE  IdentityInv'
<1>. USE DEF IdentityInv
<1>. PICK g : g = got[r]
  OBVIOUS
<1>. DEFINE q == g.request
<1>1. ReaderSound("member", g) /\ g \in Reading /\ q \in Request
  BY IdentityConstants DEF ReadersSound, ResolveMembership, ReaderSound, Fits, Reading
<1>2. CASE Candidates(q) = {} /\ Leave(r)
  BY <1>2, ReaderGivesUp DEF ResolveMembership
<1>3. ASSUME NEW m \in Candidates(q),
             NEW row, row = IF m = Absent THEN Absent ELSE memberships[m],
             NEW org, org = CASE q.org # Absent -> q.org
                              [] q.org = Absent /\ m # Absent -> row.org
                              [] OTHER -> g.primaryOrg,
             got' = [got EXCEPT
                  ![r].row = row,
                  ![r].key = KeyOf(q, m, org),
                  ![r].identity.membership = m,
                  ![r].identity.labels =
                     IF m = Absent THEN @ ELSE @ \cup {<<<<"membership", m>>, row.labels>>}],
             To(r, "lookup"), UNCHANGED cache, Quiet
      PROVE  IdentityInv'
  <2>. PICK ls : ls = IF m = Absent THEN g.identity.labels
                      ELSE g.identity.labels \cup {<<<<"membership", m>>, row.labels>>}
    OBVIOUS
  <2>1. PICK h : h = [g EXCEPT !.row = row, !.key = KeyOf(q, m, org),
                       !.identity = [g.identity EXCEPT !.membership = m, !.labels = ls]]
    OBVIOUS
  <2>2. /\ got' = [got EXCEPT
                    ![r].row = row,
                    ![r].key = KeyOf(q, m, org),
                    ![r].identity.membership = m,
                    ![r].identity.labels = ls]
        /\ To(r, "lookup") /\ UNCHANGED cache /\ Quiet
    <3>1. g.identity.labels = got[r].identity.labels
      OBVIOUS
    <3>. QED  BY <1>3, <3>1, <1>1 DEF TypeOK, Reading, Identity
  <2>3. got' = [got EXCEPT ![r] = h]
    <3>1. got \in [Readers -> Reading \cup {Absent}]
      BY DEF TypeOK
    <3>2. \A x \in Readers : x # r => got'[x] = got[x]
      BY <2>2, <3>1
    <3>3. got'[r] = [g EXCEPT !.row = row, !.key = KeyOf(q, m, org),
                       !.identity.membership = m, !.identity.labels = ls]
      BY <2>2, <3>1
    <3>4. got'[r] = h
      BY <1>1, <2>1, <3>3 DEF Reading, Identity
    <3>5. got' = [x \in Readers |-> got'[x]]
      BY <2>2, <3>1
    <3>. QED  BY <3>1, <3>2, <3>4, <3>5
  <2>4. /\ m \in Memberships \cup {Absent}
        /\ m # Absent => /\ row = memberships[m] /\ row \in MembershipRow
                         /\ row.user = q.user
                         /\ q.org # Absent => row.org = q.org
        /\ m = Absent => row = Absent
    BY <1>3 DEF Candidates, TypeOK
  <2>5. /\ org \in Orgs \cup {Absent}
        /\ q.org # Absent => org = q.org
        /\ q.org = Absent /\ m # Absent => org = row.org
        /\ q.org = Absent /\ m = Absent => org = g.primaryOrg
    BY <1>1, <1>3, <2>4 DEF Request, Reading, MembershipRow
  <2>6. KeyOf(q, m, org) \in Key
    BY <1>1, <2>4, <2>5 DEF KeyOf, Key, Request, Reading
  <2>7. /\ h.request = q /\ h.row = row /\ h.key = KeyOf(q, m, org)
        /\ h.primaryOrg = g.primaryOrg /\ h.overlapped = g.overlapped
        /\ h.identity.membership = m /\ h.identity.user = g.identity.user
        /\ h.identity.org = g.identity.org /\ h.identity.labels = ls
    BY <1>1, <2>1 DEF Reading, Identity
  <2>8. h.identity \in Identity
    <3>1. h.identity = [g.identity EXCEPT !.membership = m, !.labels = ls]
      BY <1>1, <2>1 DEF Reading
    <3>2. ls \subseteq Tags \X Labels
      <4>1. m # Absent => <<"membership", m>> \in Tags /\ row.labels \in Labels
        BY <2>4 DEF Tags, MembershipRow
      <4>2. g.identity.labels \subseteq Tags \X Labels
        BY <1>1 DEF Reading, Identity
      <4>. QED  BY <4>1, <4>2
    <3>. QED  BY <1>1, <2>4, <3>1, <3>2 DEF Identity, Reading
  <2>9. h \in Reading
    <3>1. h = [request |-> q, overlapped |-> g.overlapped, primaryOrg |-> g.primaryOrg,
               row |-> row, key |-> KeyOf(q, m, org), identity |-> h.identity]
      BY <1>1, <2>1 DEF Reading
    <3>. QED  BY <1>1, <2>4, <2>6, <2>8, <3>1 DEF Reading
  <2>10. Fits("lookup", h)
    <3>1. OrgIn(h) = org
      BY <2>4, <2>5, <2>7, AbsentIsNothing DEF OrgIn
    <3>. QED  BY <1>1, <2>4, <2>6, <2>9, <2>7, <3>1 DEF Fits, KeyFits, KeyOf, ReaderSound
  <2>11. ASSUME ~h.overlapped PROVE StillSo("lookup", h)
    <3>. DEFINE k == KeyOf(q, m, org)
    <3>1. /\ users[q.user] # Absent
          /\ g.identity.labels = {<<<<"user", q.user>>, users[q.user].labels>>}
      BY <1>1, <2>7, <2>11 DEF ReaderSound, StillSo
    <3>2. k.user = q.user /\ k.membership = m /\ k.org = org
      BY DEF KeyOf
    <3>3. Reachable(k)
      BY <2>4, <2>5, <3>1, <3>2, AbsentIsNothing DEF Reachable
    <3>4. h.identity.labels = OwnLabels(k)
      BY <2>4, <2>7, <3>1, <3>2 DEF OwnLabels
    <3>. QED  BY <2>4, <2>7, <3>2, <3>3, <3>4 DEF StillSo
  <2>12. ReaderSound("lookup", h)
    BY <2>10, <2>11 DEF ReaderSound
  <2>. QED  BY <2>2, <2>3, <2>12, ReaderGoesOn DEF Started
<1>4. ASSUME ~(Candidates(q) = {} /\ Leave(r)) PROVE IdentityInv'
  <2>1. PICK m \in Candidates(q) :
          LET row == IF m = Absent THEN Absent ELSE memberships[m]
              org == CASE q.org # Absent -> q.org
                       [] q.org = Absent /\ m # Absent -> row.org
                       [] OTHER -> got[r].primaryOrg
          IN /\ got' = [got EXCEPT
                  ![r].row = row,
                  ![r].key = KeyOf(q, m, org),
                  ![r].identity.membership = m,
                  ![r].identity.labels =
                     IF m = Absent THEN @ ELSE @ \cup {<<<<"membership", m>>, row.labels>>}]
             /\ To(r, "lookup")
    BY <1>4 DEF ResolveMembership
  <2>. PICK row : row = IF m = Absent THEN Absent ELSE memberships[m]
    OBVIOUS
  <2>. PICK org : org = CASE q.org # Absent -> q.org
                          [] q.org = Absent /\ m # Absent -> row.org
                          [] OTHER -> g.primaryOrg
    OBVIOUS
  <2>. QED  BY <2>1, <1>3 DEF ResolveMembership
<1>. QED  BY <1>2, <1>4

\* The cache is asked.
LEMMA CacheGetKeeps ==
  ASSUME IdentityInv, NEW r \in Readers, CacheGet(r)
  PROVE  IdentityInv'
<1>. USE DEF IdentityInv, CacheGet
<1>. PICK h : h = got[r]
  OBVIOUS
<1>1. ReaderSound("lookup", h)
  BY DEF ReadersSound
<1>2. CASE Leave(r)
  BY <1>2, ReaderGivesUp
<1>3. CASE To(r, "org") /\ UNCHANGED got
  <2>1. ReaderSound("org", h)
    BY <1>1 DEF ReaderSound, Fits, StillSo
  <2>2. got' = [got EXCEPT ![r] = h]
    BY <1>3 DEF TypeOK
  <2>. QED  BY <1>3, <2>1, <2>2, ReaderGoesOn DEF Started
<1>. QED  BY <1>2, <1>3

\* The organisation's row, if it has one.
LEMMA ReadOrgKeeps ==
  ASSUME IdentityInv, NEW r \in Readers, ReadOrg(r)
  PROVE  IdentityInv'
<1>. USE DEF IdentityInv
<1>. PICK g : g = got[r]
  OBVIOUS
<1>. PICK o : o = OrgOf(r)
  OBVIOUS
<1>1. ReaderSound("org", g) /\ g \in Reading
  BY DEF ReadersSound, ReadOrg, ReaderSound, Fits
<1>2. o = g.key.org /\ o \in Orgs \cup {Absent}
  BY <1>1 DEF ReaderSound, Fits, KeyFits, OrgIn, OrgOf, Key, Request
<1>3. CASE o # Absent /\ orgs[o] # Absent
  <2>1. PICK h : h = [g EXCEPT !.identity = [g.identity EXCEPT !.org = o,
                        !.labels = g.identity.labels \cup {<<<<"org", o>>, orgs[o]>>}]]
    OBVIOUS
  <2>2. /\ got' = [got EXCEPT ![r].identity.org = o,
                     ![r].identity.labels = @ \cup {<<<<"org", o>>, orgs[o]>>}]
        /\ To(r, "groups") /\ UNCHANGED cache /\ Quiet
    BY <1>3 DEF ReadOrg
  <2>3. got' = [got EXCEPT ![r] = h]
    BY <1>1, <2>1, <2>2 DEF TypeOK, Reading, Identity
  <2>4. h.identity \in Identity /\ h \in Reading
    <3>1. <<"org", o>> \in Tags /\ orgs[o] \in Labels
      BY <1>2, <1>3 DEF Tags, TypeOK
    <3>2. h.identity = [g.identity EXCEPT !.org = o,
                        !.labels = g.identity.labels \cup {<<<<"org", o>>, orgs[o]>>}]
      BY <1>1, <2>1 DEF Reading
    <3>3. g.identity.labels \cup {<<<<"org", o>>, orgs[o]>>} \subseteq Tags \X Labels
      <4>1. g.identity.labels \subseteq Tags \X Labels
        BY <1>1 DEF Reading, Identity
      <4>. QED  BY <3>1, <4>1
    <3>4. h.identity \in Identity
      <4>. PICK ls : ls = g.identity.labels \cup {<<<<"org", o>>, orgs[o]>>}
        OBVIOUS
      <4>. QED  BY <1>1, <1>2, <3>2, <3>3 DEF Reading, Identity
    <3>. QED  BY <1>1, <2>1, <3>4 DEF Reading
  <2>5. /\ h.request = g.request /\ h.row = g.row /\ h.key = g.key
        /\ h.primaryOrg = g.primaryOrg /\ h.overlapped = g.overlapped
        /\ h.identity.membership = g.identity.membership
        /\ h.identity.user = g.identity.user /\ h.identity.org = o
        /\ h.identity.labels = g.identity.labels \cup {<<<<"org", o>>, orgs[o]>>}
    BY <1>1, <2>1 DEF Reading, Identity
  <2>6. Fits("groups", h)
    BY <1>1, <2>4, <2>5 DEF Fits, KeyFits, OrgIn, ReaderSound
  <2>7. ~h.overlapped => StillSo("groups", h)
    BY <1>1, <1>2, <1>3, <2>5 DEF ReaderSound, StillSo, OrgNow, OrgLabels
  <2>. QED  BY <2>2, <2>3, <2>6, <2>7, ReaderGoesOn DEF ReaderSound, Started
<1>4. CASE ~(o # Absent /\ orgs[o] # Absent) /\ g.request.org # Absent /\ orgs[o] = Absent
  BY <1>4, ReaderGivesUp DEF ReadOrg
<1>5. CASE ~(o # Absent /\ orgs[o] # Absent) /\ ~(g.request.org # Absent /\ orgs[o] = Absent)
  <2>1. To(r, "groups") /\ UNCHANGED got /\ UNCHANGED cache /\ Quiet
    BY <1>5 DEF ReadOrg
  <2>2. got' = [got EXCEPT ![r] = g]
    BY <2>1 DEF TypeOK
  <2>3. Fits("groups", g)
    BY <1>1 DEF Fits, ReaderSound
  <2>4. ~g.overlapped => StillSo("groups", g)
    BY <1>1, <1>2, <1>5 DEF ReaderSound, Fits, StillSo, OrgNow, OrgLabels
  <2>. QED  BY <2>1, <2>2, <2>3, <2>4, ReaderGoesOn DEF ReaderSound, Started
<1>. QED  BY <1>3, <1>4, <1>5

\* The rows of the membership's groups.
LEMMA ReadGroupsKeeps ==
  ASSUME IdentityInv, NEW r \in Readers, ReadGroups(r)
  PROVE  IdentityInv'
<1>. USE DEF IdentityInv
<1>. PICK g : g = got[r]
  OBVIOUS
<1>1. ReaderSound("groups", g) /\ g \in Reading /\ Fits("groups", g)
  BY DEF ReadersSound, ReadGroups, ReaderSound, Fits
<1>. PICK gs : gs = ExistingGroups(g.identity.membership, g.row, g.request.includeGroups)
  OBVIOUS
<1>. PICK ls : ls = g.identity.labels \cup GroupLabels(gs)
  OBVIOUS
<1>2. PICK h : h = [g EXCEPT !.identity = [g.identity EXCEPT !.groups = gs, !.labels = ls]]
  OBVIOUS
<1>3. /\ got' = [got EXCEPT ![r].identity.groups = gs, ![r].identity.labels = ls]
      /\ To(r, "entitlements") /\ UNCHANGED cache /\ Quiet
  <2>1. g.identity.labels = got[r].identity.labels
    OBVIOUS
  <2>2. got \in [Readers -> Reading \cup {Absent}]
    BY DEF TypeOK
  <2>3. got' = [got EXCEPT ![r].identity.groups = gs,
                           ![r].identity.labels = @ \cup GroupLabels(gs)]
    BY DEF ReadGroups
  <2>4. got' = [got EXCEPT ![r].identity.groups = gs, ![r].identity.labels = ls]
    BY <1>1, <2>1, <2>2, <2>3 DEF Reading, Identity
  <2>. QED  BY <2>4 DEF ReadGroups
<1>4. got' = [got EXCEPT ![r] = h]
  <2>1. got \in [Readers -> Reading \cup {Absent}]
    BY DEF TypeOK
  <2>2. \A x \in Readers : x # r => got'[x] = got[x]
    BY <1>3, <2>1
  <2>3. got'[r] = [g EXCEPT !.identity.groups = gs, !.identity.labels = ls]
    BY <1>3, <2>1
  <2>4. got'[r] = h
    BY <1>1, <1>2, <2>3 DEF Reading, Identity
  <2>5. got' = [x \in Readers |-> got'[x]]
    BY <1>3, <2>1
  <2>. QED  BY <2>1, <2>2, <2>4, <2>5
<1>5. /\ h.request = g.request /\ h.row = g.row /\ h.key = g.key
      /\ h.primaryOrg = g.primaryOrg /\ h.overlapped = g.overlapped
      /\ h.identity = [g.identity EXCEPT !.groups = gs, !.labels = ls]
  BY <1>1, <1>2 DEF Reading
<1>6. /\ h.identity.membership = g.identity.membership
      /\ h.identity.user = g.identity.user /\ h.identity.org = g.identity.org
      /\ h.identity.labels = ls /\ h.identity.groups = gs
  BY <1>1, <1>5 DEF Reading, Identity
<1>7. gs \subseteq Groups /\ \A x \in gs : groups[x] \in GroupRow
  BY <1>1 DEF ExistingGroups, Fits, KeyFits, MembershipRow, TypeOK
<1>8. ls \subseteq Tags \X Labels
  <2>1. g.identity.labels \subseteq Tags \X Labels
    BY <1>1 DEF Reading, Identity
  <2>2. \A x \in gs : <<"group", x>> \in Tags /\ groups[x].labels \in Labels
    BY <1>7 DEF Tags, GroupRow
  <2>. QED  BY <2>1, <2>2 DEF GroupLabels
<1>9. h \in Reading
  <2>1. h.identity \in Identity
    <3>1. ls \in SUBSET (Tags \X Labels) /\ gs \in SUBSET Groups
      BY <1>7, <1>8
    <3>2. g.identity \in Identity
      BY <1>1 DEF Reading
    <3>. PICK L : L = SUBSET (Tags \X Labels)
      OBVIOUS
    <3>. PICK G : G = SUBSET Groups
      OBVIOUS
    <3>. PICK E : E = SUBSET Entitlements
      OBVIOUS
    <3>3. Identity = [user : Users, org : Orgs \cup {Absent},
                      membership : Memberships \cup {Absent},
                      labels : L, groups : G, entitlements : E]
      BY DEF Identity
    <3>. QED  BY <1>5, <3>1, <3>2, <3>3
  <2>. QED  BY <1>1, <1>2, <2>1 DEF Reading
<1>10. Fits("entitlements", h)
  BY <1>1, <1>5, <1>6, <1>9 DEF Fits, KeyFits, OrgIn
<1>11. ASSUME ~h.overlapped PROVE StillSo("entitlements", h)
  <2>1. StillSo("groups", g)
    BY <1>1, <1>5, <1>11 DEF ReaderSound
  <2>2. gs = GroupsNow(g.key)
    BY <1>1, <2>1 DEF GroupsNow, ExistingGroups, StillSo, Fits, KeyFits
  <2>. QED  BY <1>5, <1>6, <2>1, <2>2 DEF StillSo
<1>. QED  BY <1>3, <1>4, <1>10, <1>11, ReaderGoesOn DEF ReaderSound, Started

\* The entitlements of the subjects resolved.
LEMMA CollectEntitlementsKeeps ==
  ASSUME IdentityInv, NEW r \in Readers, CollectEntitlements(r)
  PROVE  IdentityInv'
<1>. USE DEF IdentityInv
<1>. PICK g : g = got[r]
  OBVIOUS
<1>. PICK i : i = g.identity
  OBVIOUS
<1>. PICK es : es = EntitlementsOf(i.user, i.org, i.membership)
  OBVIOUS
<1>1. /\ ReaderSound("entitlements", g) /\ g \in Reading /\ Fits("entitlements", g)
      /\ i \in Identity
  BY DEF ReadersSound, CollectEntitlements, ReaderSound, Fits, Reading
<1>2. PICK h : h = [g EXCEPT !.identity = [i EXCEPT !.entitlements = es]]
  OBVIOUS
<1>3. /\ got' = [got EXCEPT ![r].identity.entitlements = es]
      /\ To(r, "fill") /\ UNCHANGED cache /\ Quiet
  BY DEF CollectEntitlements
<1>4. got' = [got EXCEPT ![r] = h]
  BY <1>1, <1>2, <1>3 DEF TypeOK, Reading
<1>5. /\ h.request = g.request /\ h.row = g.row /\ h.key = g.key
      /\ h.primaryOrg = g.primaryOrg /\ h.overlapped = g.overlapped
      /\ h.identity = [i EXCEPT !.entitlements = es]
  BY <1>1, <1>2 DEF Reading
<1>6. /\ h.identity.membership = i.membership
      /\ h.identity.user = i.user /\ h.identity.org = i.org
      /\ h.identity.labels = i.labels /\ h.identity.groups = i.groups
      /\ h.identity.entitlements = es
  BY <1>1, <1>5 DEF Identity
<1>7. h.identity \in Identity
  <2>1. es \subseteq Entitlements
    BY DEF EntitlementsOf
  <2>. QED  BY <1>1, <1>5, <2>1 DEF Identity
<1>8. h \in Reading
  BY <1>1, <1>2, <1>7 DEF Reading
<1>9. Fits("fill", h)
  BY <1>1, <1>5, <1>6, <1>8 DEF Fits, KeyFits, OrgIn
<1>10. ASSUME ~h.overlapped PROVE StillSo("fill", h)
  <2>. PICK k : k = g.key
    OBVIOUS
  <2>1. StillSo("entitlements", g)
    BY <1>1, <1>5, <1>10 DEF ReaderSound
  <2>2. i.user = k.user /\ i.membership = k.membership
    BY <1>1 DEF Fits, KeyFits
  <2>3. /\ i.org = OrgNow(k) /\ i.groups = GroupsNow(k)
        /\ i.labels = OwnLabels(k) \cup OrgLabels(k) \cup GroupLabels(GroupsNow(k))
    BY <2>1 DEF StillSo
  <2>4. h.identity = [user |-> i.user, org |-> i.org, membership |-> i.membership,
                      groups |-> i.groups, labels |-> i.labels, entitlements |-> es]
    BY <1>1, <1>5 DEF Identity
  <2>5. h.identity = MadeUp(k)
    BY <2>2, <2>3, <2>4 DEF MadeUp
  <2>. QED  BY <1>5, <2>1, <2>5, FreshParts DEF StillSo
<1>. QED  BY <1>3, <1>4, <1>9, <1>10, ReaderGoesOn DEF ReaderSound, Started

\* The identity is cached under its tags.
LEMMA CacheIdentityKeeps ==
  ASSUME IdentityInv, NEW r \in Readers, CacheIdentity(r)
  PROVE  IdentityInv'
<1>. USE DEF IdentityInv
<1>. PICK g : g = got[r]
  OBVIOUS
<1>. PICK n : n = [identity |-> g.identity, tags |-> TagsOf(g.identity),
                   overlapped |-> g.overlapped]
  OBVIOUS
<1>1. ReaderSound("fill", g) /\ g \in Reading /\ Fits("fill", g) /\ g.key \in Key
  BY DEF ReadersSound, CacheIdentity, ReaderSound, Fits, KeyFits
<1>2. cache' = [cache EXCEPT ![g.key] = n] /\ Leave(r) /\ Quiet
  BY DEF CacheIdentity
<1>3. n \in Entry
  <2>1. g.identity \in Identity /\ g.overlapped \in BOOLEAN
    BY <1>1 DEF Reading
  <2>2. TagsOf(g.identity) \subseteq Tags
    BY <2>1 DEF TagsOf, Identity, Tags
  <2>. QED  BY <2>1, <2>2 DEF Entry
<1>4. ASSUME NEW k \in Key PROVE EntrySound(k)'
  <2>1. CASE k # g.key
    BY <1>2, <2>1, EntryStays DEF EntriesSound, Touched, Quiet, TypeOK
  <2>2. CASE k = g.key
    <3>1. cache'[k] = n
      BY <1>1, <1>2, <2>2 DEF TypeOK
    <3>2. n.identity.user = k.user /\ n.identity.membership = k.membership
      BY <1>1, <2>2 DEF Fits, KeyFits
    <3>3. ASSUME ~n.overlapped PROVE Reachable(k)' /\ n.identity = Fresh(k)'
      <4>1. StillSo("fill", g)
        BY <1>1, <3>3 DEF ReaderSound
      <4>2. Reachable(k) /\ n.identity = Fresh(k)
        BY <2>2, <4>1 DEF StillSo
      <4>. QED  BY <1>2, <4>2, QuietStays DEF Quiet
    <3>. QED  BY <3>1, <3>2, <3>3 DEF EntrySound, Covered, TagsOf
  <2>. QED  BY <2>1, <2>2
<1>5. cache' \in [Key -> Entry \cup {Absent}]
  BY <1>1, <1>2, <1>3 DEF TypeOK
<1>. QED  BY <1>2, <1>4, <1>5, ReaderLeaves

--------------------------------------------------------------------------------
(* Writers.                                                                *)

\* A statement: every reader under way has something that may no longer be so, and
\* the entries are sound if each has a tag of the statement's or is covered as before.
LEMMA StatementKeeps ==
  ASSUME IdentityInv, NEW w \in Writers, NEW T \in SUBSET Tags, Statement(w, T),
         users' \in [Users -> UserRow \cup {Absent}],
         orgs' \in [Orgs -> Labels \cup {Absent}],
         memberships' \in [Memberships -> MembershipRow \cup {Absent}],
         groups' \in [Groups -> GroupRow \cup {Absent}],
         entitlements' \in [Entitlements -> Subjects \cup {Absent}],
         moved' \subseteq Subjects, moved \subseteq moved',
         \A k \in Key :
           cache[k] # Absent /\ EntrySound(k) /\ ~cache[k].overlapped /\ ~Touched(k) =>
             \/ cache[k].tags \cap (T \cup moved') # {}
             \/ Reachable(k)' /\ Covered(k)'
  PROVE  IdentityInv'
<1>. USE DEF IdentityInv
<1>1. \A x \in Readers :
        got[x] # Absent => got'[x] = [got[x] EXCEPT !.overlapped = TRUE]
  BY DEF Statement
<1>2. \A x \in Readers : got[x] = Absent => got'[x] = Absent
  BY DEF Statement
<1>3. ASSUME NEW x \in Readers, got[x] # Absent
      PROVE  /\ got'[x] \in Reading /\ got'[x].overlapped = TRUE
             /\ got'[x].request = got[x].request /\ got'[x].row = got[x].row
             /\ got'[x].key = got[x].key /\ got'[x].primaryOrg = got[x].primaryOrg
             /\ got'[x].identity = got[x].identity
  <2>1. got[x] \in Reading
    BY <1>3 DEF TypeOK
  <2>. QED  BY <1>1, <1>3, <2>1 DEF Reading
<1>4. TypeOK'
  <2>1. got' \in [Readers -> Reading \cup {Absent}]
    BY <1>2, <1>3 DEF Statement
  <2>2. writes' \in 0..MaxWrites
    BY IdentityConstants DEF Statement, TypeOK
  <2>3. pending' \in [Writers -> SUBSET Tags]
    BY DEF Statement, TypeOK
  <2>. QED  BY <2>1, <2>2, <2>3 DEF Statement, TypeOK
<1>5. ReadersSound'
  <2>. SUFFICES ASSUME NEW x \in Readers, pc'[x] # "idle"
                PROVE  Fits(pc[x], got[x])' /\ got'[x].overlapped
    BY DEF ReadersSound, ReaderSound
  <2>1. pc'[x] = pc[x] /\ Fits(pc[x], got[x])
    BY DEF Statement, ReadersSound, ReaderSound
  <2>2. got[x] # Absent
    BY <2>1, AbsentIsNothing DEF Fits
  <2>. QED  BY <1>3, <2>1, <2>2 DEF Fits, KeyFits, OrgIn
<1>6. EntriesSound'
  <2>. SUFFICES ASSUME NEW k \in Key PROVE EntrySound(k)'
    BY DEF EntriesSound
  <2>1. cache'[k] = cache[k] /\ EntrySound(k)
    BY DEF Statement, EntriesSound
  <2>2. Touched(k) => Touched(k)'
    BY <2>1 DEF Touched, Statement, TypeOK
  <2>3. cache[k].tags \cap (T \cup moved') # {} => Touched(k)'
    BY <2>1 DEF Touched, Statement, TypeOK
  <2>. QED  BY <2>1, <2>2, <2>3 DEF EntrySound, TagsOf
<1>. QED  BY <1>4, <1>5, <1>6

\* An entry with no tag of a statement on rows it does not depend on is covered as
\* it was.
LEMMA CoveredStays ==
  ASSUME NEW k \in Key, cache[k] # Absent, EntrySound(k), ~cache[k].overlapped,
         ~Touched(k), cache'[k] = cache[k],
         Fresh(k)' = Fresh(k), Reachable(k)' = Reachable(k),
         k.membership # Absent => memberships'[k.membership] = memberships[k.membership]
  PROVE  Reachable(k)' /\ Covered(k)'
  BY DEF EntrySound, Covered, OrgWasMissing, GroupWasMissing

\* The tables other than the entitlements, with an entitlement in place.
LEMMA EntitlementsStay ==
  ASSUME NEW k \in Key, UNCHANGED entitlements,
         k.org # Absent => orgs'[k.org] = orgs[k.org]
  PROVE  EntitlementsOf(k.user, OrgNow(k), k.membership)'
           = EntitlementsOf(k.user, OrgNow(k), k.membership)
  BY DEF EntitlementsOf, OrgNow

\* upsertUserProfile: an entry for another user does not depend on the row.
LEMMA UpsertUserProfileKeeps ==
  ASSUME IdentityInv, NEW w \in Writers, NEW u \in Users, UpsertUserProfile(w, u)
  PROVE  IdentityInv'
<1>. USE DEF UpsertUserProfile
<1>. PICK T : T = {<<"user", u>>}
  OBVIOUS
<1>0. T \in SUBSET Tags /\ Statement(w, T) /\ T = {<<"user", u>>}
  BY DEF Tags
<1>1. \A k \in Key :
        cache[k] # Absent /\ EntrySound(k) /\ ~cache[k].overlapped /\ ~Touched(k) =>
          \/ cache[k].tags \cap (T \cup moved') # {}
          \/ Reachable(k)' /\ Covered(k)'
  <2>. SUFFICES ASSUME NEW k \in Key, cache[k] # Absent, EntrySound(k),
                       ~cache[k].overlapped, ~Touched(k), k.user # u
                PROVE  Reachable(k)' /\ Covered(k)'
    BY <1>0 DEF EntrySound, TagsOf
  <2>1. users'[k.user] = users[k.user]
    BY DEF IdentityInv, TypeOK, Key, Request
  <2>. QED  BY <2>1, FreshStays, EntitlementsStay, CoveredStays DEF Statement
<1>2. /\ TypeOK /\ UNCHANGED moved
      /\ users' \in [Users -> UserRow \cup {Absent}]
  BY DEF IdentityInv, TypeOK
<1>. QED  BY <1>0, <1>1, <1>2, StatementKeeps DEF TypeOK

\* upsertOrgProfile: an entry with the organisation in its key has its tag, or was
\* made while the row was missing.
LEMMA UpsertOrgProfileKeeps ==
  ASSUME IdentityInv, NEW w \in Writers, NEW o \in Orgs, UpsertOrgProfile(w, o)
  PROVE  IdentityInv'
<1>. USE DEF UpsertOrgProfile
<1>. PICK T : T = {<<"org", o>>}
  OBVIOUS
<1>0. T \in SUBSET Tags /\ Statement(w, T) /\ T = {<<"org", o>>}
  BY DEF Tags
<1>1. \A k \in Key :
        cache[k] # Absent /\ EntrySound(k) /\ ~cache[k].overlapped /\ ~Touched(k) =>
          \/ cache[k].tags \cap (T \cup moved') # {}
          \/ Reachable(k)' /\ Covered(k)'
  <2>. SUFFICES ASSUME NEW k \in Key, cache[k] # Absent, EntrySound(k),
                       ~cache[k].overlapped, ~Touched(k),
                       <<"org", o>> \notin cache[k].tags
                PROVE  Reachable(k)' /\ Covered(k)'
    BY <1>0
  <2>1. cache[k].identity.org # o
    BY IdentityConstants DEF EntrySound, TagsOf
  <2>2. cache'[k] = cache[k]
    BY DEF Statement
  <2>3. CASE k.org # o
    <3>1. k.org # Absent => orgs'[k.org] = orgs[k.org]
      BY <2>3 DEF IdentityInv, TypeOK, Key, Request
    <3>. QED  BY <2>2, <3>1, FreshStays, EntitlementsStay, CoveredStays
  <2>4. CASE k.org = o
    <3>1. Fresh(k).org \in {o, Absent}
      <4>1. Fresh(k) = MadeUp(k) /\ MadeUp(k).org = OrgNow(k)
        BY FreshParts DEF MadeUp
      <4>. QED  BY <2>4, <4>1 DEF OrgNow
    <3>2. cache[k].identity.org = Absent \/ GroupWasMissing(k)
      BY <2>1, <3>1 DEF EntrySound, Covered, OrgWasMissing
    <3>3. OrgWasMissing(k)' \/ GroupWasMissing(k)'
      BY <2>2, <2>4, <3>2, IdentityConstants DEF OrgWasMissing, GroupWasMissing
    <3>4. Reachable(k)'
      BY DEF EntrySound, Reachable
    <3>. QED  BY <3>3, <3>4 DEF Covered
  <2>. QED  BY <2>3, <2>4
<1>2. /\ TypeOK /\ UNCHANGED moved
      /\ orgs' \in [Orgs -> Labels \cup {Absent}]
  BY DEF IdentityInv, TypeOK
<1>. QED  BY <1>0, <1>1, <1>2, StatementKeeps DEF TypeOK

\* One group written: an entry whose membership names it has its tag, or was made
\* while the group was missing.
LEMMA GroupWritten ==
  ASSUME NEW k \in Key, NEW g \in Groups, EntrySound(k), cache[k] # Absent,
         ~cache[k].overlapped, ~Touched(k), <<"group", g>> \notin cache[k].tags,
         cache'[k] = cache[k], \A x \in Groups \ {g} : groups'[x] = groups[x],
         memberships \in [Memberships -> MembershipRow \cup {Absent}],
         UNCHANGED <<users, orgs, memberships, entitlements>>
  PROVE  Reachable(k)' /\ Covered(k)'
<1>1. Reachable(k)'
  BY DEF EntrySound, Reachable
<1>2. g \notin cache[k].identity.groups
  BY DEF EntrySound, TagsOf
<1>3. CASE k.includeGroups /\ k.membership # Absent /\ g \in memberships[k.membership].groups
  <2>1. GroupWasMissing(k)'
    BY <1>2, <1>3 DEF GroupWasMissing
  <2>. QED  BY <1>1, <2>1 DEF Covered
<1>4. CASE ~(k.includeGroups /\ k.membership # Absent
               /\ g \in memberships[k.membership].groups)
  <2>1. k.membership # Absent => memberships[k.membership].groups \subseteq Groups
    <3>1. k.membership # Absent =>
            k.membership \in Memberships /\ memberships[k.membership] # Absent
      BY DEF EntrySound, Reachable, Key, Request
    <3>. QED  BY <3>1 DEF MembershipRow
  <2>2. k.membership # Absent /\ k.includeGroups =>
          \A x \in memberships[k.membership].groups : groups'[x] = groups[x]
    BY <1>4, <2>1
  <2>. QED  BY <2>2, FreshStays, EntitlementsStay, CoveredStays
<1>. QED  BY <1>3, <1>4

\* upsertGroup.
LEMMA UpsertGroupKeeps ==
  ASSUME IdentityInv, NEW w \in Writers, NEW g \in Groups, UpsertGroup(w, g)
  PROVE  IdentityInv'
<1>. USE DEF UpsertGroup
<1>1. PICK row \in GroupRow :
        groups' = [groups EXCEPT ![g] = row]
          /\ Statement(w, {<<"org", row.org>>, <<"group", g>>})
  OBVIOUS
<1>. PICK T : T = {<<"org", row.org>>, <<"group", g>>}
  OBVIOUS
<1>2. T \in SUBSET Tags /\ Statement(w, T) /\ <<"group", g>> \in T
  BY <1>1 DEF Tags, GroupRow
<1>3. \A k \in Key :
        cache[k] # Absent /\ EntrySound(k) /\ ~cache[k].overlapped /\ ~Touched(k) =>
          \/ cache[k].tags \cap (T \cup moved') # {}
          \/ Reachable(k)' /\ Covered(k)'
  BY <1>1, <1>2, GroupWritten DEF Statement, IdentityInv, TypeOK
<1>4. /\ TypeOK /\ UNCHANGED moved
      /\ groups' \in [Groups -> GroupRow \cup {Absent}]
  BY <1>1 DEF IdentityInv, TypeOK
<1>. QED  BY <1>2, <1>3, <1>4, StatementKeeps DEF TypeOK

\* deleteGroup.
LEMMA DeleteGroupKeeps ==
  ASSUME IdentityInv, NEW w \in Writers, NEW g \in Groups, DeleteGroup(w, g)
  PROVE  IdentityInv'
<1>. USE DEF DeleteGroup
<1>. PICK T : T = {<<"org", groups[g].org>>, <<"group", g>>}
  OBVIOUS
<1>1. groups[g] \in GroupRow
  BY DEF IdentityInv, TypeOK
<1>2. T \in SUBSET Tags /\ Statement(w, T) /\ <<"group", g>> \in T
  BY <1>1 DEF Tags, GroupRow
<1>3. \A k \in Key :
        cache[k] # Absent /\ EntrySound(k) /\ ~cache[k].overlapped /\ ~Touched(k) =>
          \/ cache[k].tags \cap (T \cup moved') # {}
          \/ Reachable(k)' /\ Covered(k)'
  BY <1>2, GroupWritten DEF Statement, IdentityInv, TypeOK
<1>4. /\ TypeOK /\ UNCHANGED moved
      /\ groups' \in [Groups -> GroupRow \cup {Absent}]
  BY DEF IdentityInv, TypeOK
<1>. QED  BY <1>2, <1>3, <1>4, StatementKeeps DEF TypeOK

\* One membership written: the entries made of it have its tag.
LEMMA MembershipWritten ==
  ASSUME NEW k \in Key, NEW m \in Memberships, EntrySound(k), cache[k] # Absent,
         ~cache[k].overlapped, ~Touched(k), <<"membership", m>> \notin cache[k].tags,
         cache'[k] = cache[k],
         \A x \in Memberships \ {m} : memberships'[x] = memberships[x],
         UNCHANGED <<users, orgs, groups, entitlements>>
  PROVE  Reachable(k)' /\ Covered(k)'
<1>1. k.membership # Absent => k.membership \in Memberships \ {m}
  BY DEF EntrySound, TagsOf, Key, Request
<1>2. k.membership # Absent => memberships'[k.membership] = memberships[k.membership]
  BY <1>1
<1>. QED  BY <1>2, FreshStays, EntitlementsStay, CoveredStays

\* The tags a membership's writer purges.
LEMMA MembershipTagsTyped ==
  ASSUME NEW m \in Memberships, NEW row \in MembershipRow
  PROVE  MembershipTags(m, row) \in SUBSET Tags
           /\ <<"membership", m>> \in MembershipTags(m, row)
  BY DEF MembershipTags, MembershipRow, Tags

\* upsertMembership.
LEMMA UpsertMembershipKeeps ==
  ASSUME IdentityInv, NEW w \in Writers, NEW m \in Memberships, UpsertMembership(w, m)
  PROVE  IdentityInv'
<1>. USE DEF UpsertMembership
<1>1. PICK row \in MembershipRow :
        memberships' = [memberships EXCEPT ![m] = row]
          /\ Statement(w, MembershipTags(m, row))
  OBVIOUS
<1>. PICK T : T = MembershipTags(m, row)
  OBVIOUS
<1>2. T \in SUBSET Tags /\ Statement(w, T) /\ <<"membership", m>> \in T
  BY <1>1, MembershipTagsTyped
<1>3. \A k \in Key :
        cache[k] # Absent /\ EntrySound(k) /\ ~cache[k].overlapped /\ ~Touched(k) =>
          \/ cache[k].tags \cap (T \cup moved') # {}
          \/ Reachable(k)' /\ Covered(k)'
  BY <1>1, <1>2, MembershipWritten DEF Statement, IdentityInv, TypeOK
<1>4. /\ TypeOK /\ UNCHANGED moved
      /\ memberships' \in [Memberships -> MembershipRow \cup {Absent}]
  BY <1>1 DEF IdentityInv, TypeOK
<1>. QED  BY <1>2, <1>3, <1>4, StatementKeeps DEF TypeOK

\* removeMembership.
LEMMA RemoveMembershipKeeps ==
  ASSUME IdentityInv, NEW w \in Writers, NEW m \in Memberships, RemoveMembership(w, m)
  PROVE  IdentityInv'
<1>. USE DEF RemoveMembership
<1>. PICK T : T = MembershipTags(m, memberships[m])
  OBVIOUS
<1>1. memberships[m] \in MembershipRow
  BY DEF IdentityInv, TypeOK
<1>2. T \in SUBSET Tags /\ Statement(w, T) /\ <<"membership", m>> \in T
  BY <1>1, MembershipTagsTyped
<1>3. \A k \in Key :
        cache[k] # Absent /\ EntrySound(k) /\ ~cache[k].overlapped /\ ~Touched(k) =>
          \/ cache[k].tags \cap (T \cup moved') # {}
          \/ Reachable(k)' /\ Covered(k)'
  BY <1>2, MembershipWritten DEF Statement, IdentityInv, TypeOK
<1>4. /\ TypeOK /\ UNCHANGED moved
      /\ memberships' \in [Memberships -> MembershipRow \cup {Absent}]
  BY DEF IdentityInv, TypeOK
<1>. QED  BY <1>2, <1>3, <1>4, StatementKeeps DEF TypeOK

\* One entitlement written: the entries it belonged or now belongs to have a tag that
\* is purged or on record as taken away.
LEMMA EntitlementWritten ==
  ASSUME NEW k \in Key, NEW e \in Entitlements, EntrySound(k), cache[k] # Absent,
         ~cache[k].overlapped, ~Touched(k), cache'[k] = cache[k],
         entitlements[e] \in Subjects \cup {Absent},
         entitlements'[e] \in Subjects \cup {Absent},
         entitlements[e] \notin cache[k].tags \cap Subjects,
         entitlements'[e] \notin cache[k].tags \cap Subjects,
         \A x \in Entitlements \ {e} : entitlements'[x] = entitlements[x],
         UNCHANGED <<users, orgs, memberships, groups>>
  PROVE  Reachable(k)' /\ Covered(k)'
<1>1. Reachable(k)'
  BY DEF EntrySound, Reachable
<1>2. OrgWasMissing(k)' = OrgWasMissing(k) /\ GroupWasMissing(k)' = GroupWasMissing(k)
  BY DEF OrgWasMissing, GroupWasMissing
<1>3. ASSUME cache[k].identity = Fresh(k) PROVE Fresh(k)' = Fresh(k)
  <2>. DEFINE subjects ==
         {<<"user", k.user>>, <<"org", OrgNow(k)>>, <<"membership", k.membership>>}
  <2>1. cache[k].identity.org = OrgNow(k)
    <3>1. Fresh(k) = MadeUp(k) /\ MadeUp(k).org = OrgNow(k)
      BY FreshParts DEF MadeUp
    <3>. QED  BY <1>3, <3>1
  <2>2. ASSUME NEW s \in subjects, s \in Subjects PROVE s \in cache[k].tags
    BY <2>1, <2>2, IdentityConstants DEF EntrySound, TagsOf, Subjects
  <2>3. entitlements[e] \notin subjects /\ entitlements'[e] \notin subjects
    <3>1. Absent \notin subjects
      <4>1. <<"user", k.user>> \in Subjects
        BY DEF Subjects, Key, Request
      <4>2. <<"org", OrgNow(k)>> \in Subjects \cup ({"org", "membership"} \X {Absent})
        BY DEF Subjects, Key, Request, OrgNow
      <4>3. <<"membership", k.membership>> \in
              Subjects \cup ({"org", "membership"} \X {Absent})
        BY DEF Subjects, Key, Request
      <4>. QED  BY <4>1, <4>2, <4>3, AbsentIsNothing
    <3>. QED  BY <2>2, <3>1
  <2>4. EntitlementsOf(k.user, OrgNow(k), k.membership)'
          = EntitlementsOf(k.user, OrgNow(k), k.membership)
    BY <2>3 DEF EntitlementsOf, OrgNow
  <2>. QED  BY <2>4, FreshStays
<1>. QED  BY <1>1, <1>2, <1>3 DEF EntrySound, Covered

\* upsertEntitlement.
LEMMA UpsertEntitlementKeeps ==
  ASSUME IdentityInv, NEW w \in Writers, NEW e \in Entitlements, UpsertEntitlement(w, e)
  PROVE  IdentityInv'
<1>. USE DEF UpsertEntitlement
<1>1. PICK s \in Subjects :
        /\ entitlements' = [entitlements EXCEPT ![e] = s]
        /\ Statement(w, {s})
        /\ moved' = moved \cup ({entitlements[e]} \ {s, Absent})
  OBVIOUS
<1>. PICK T : T = {s}
  OBVIOUS
<1>2. T \in SUBSET Tags /\ Statement(w, T) /\ s \in T
  BY <1>1 DEF Tags, Subjects
<1>3. /\ entitlements \in [Entitlements -> Subjects \cup {Absent}]
      /\ entitlements' \in [Entitlements -> Subjects \cup {Absent}]
      /\ moved' \subseteq Subjects /\ moved \subseteq moved'
  BY <1>1 DEF IdentityInv, TypeOK
<1>4. ASSUME NEW k \in Key, cache[k] # Absent, EntrySound(k), ~cache[k].overlapped,
             ~Touched(k), cache[k].tags \cap (T \cup moved') = {}
      PROVE  Reachable(k)' /\ Covered(k)'
  <2>1. entitlements'[e] = s /\ \A x \in Entitlements \ {e} : entitlements'[x] = entitlements[x]
    BY <1>1, <1>3
  <2>2. cache'[k] = cache[k]
    BY <1>2 DEF Statement
  <2>3. /\ entitlements[e] \notin cache[k].tags \cap Subjects
        /\ entitlements'[e] \notin cache[k].tags \cap Subjects
    BY <1>1, <1>2, <1>4, <2>1, AbsentIsNothing
  <2>. QED  BY <1>3, <1>4, <2>1, <2>2, <2>3, EntitlementWritten
<1>. QED  BY <1>2, <1>3, <1>4, StatementKeeps DEF IdentityInv, TypeOK

\* removeEntitlement.
LEMMA RemoveEntitlementKeeps ==
  ASSUME IdentityInv, NEW w \in Writers, NEW e \in Entitlements, RemoveEntitlement(w, e)
  PROVE  IdentityInv'
<1>. USE DEF RemoveEntitlement
<1>. PICK T : T = {entitlements[e]}
  OBVIOUS
<1>1. /\ entitlements \in [Entitlements -> Subjects \cup {Absent}]
      /\ entitlements' \in [Entitlements -> Subjects \cup {Absent}]
      /\ entitlements[e] \in Subjects
  BY DEF IdentityInv, TypeOK
<1>2. T \in SUBSET Tags /\ Statement(w, T) /\ entitlements[e] \in T
  BY <1>1 DEF Tags, Subjects
<1>3. ASSUME NEW k \in Key, cache[k] # Absent, EntrySound(k), ~cache[k].overlapped,
             ~Touched(k), cache[k].tags \cap (T \cup moved') = {}
      PROVE  Reachable(k)' /\ Covered(k)'
  <2>1. entitlements'[e] = Absent
          /\ \A x \in Entitlements \ {e} : entitlements'[x] = entitlements[x]
    BY <1>1
  <2>2. cache'[k] = cache[k]
    BY <1>2 DEF Statement
  <2>3. /\ entitlements[e] \notin cache[k].tags \cap Subjects
        /\ entitlements'[e] \notin cache[k].tags \cap Subjects
    BY <1>2, <1>3, <2>1, AbsentIsNothing
  <2>. QED  BY <1>1, <1>3, <2>1, <2>2, <2>3, EntitlementWritten
<1>. QED  BY <1>1, <1>2, <1>3, StatementKeeps DEF IdentityInv, TypeOK

\* Whatever a writer executes.
LEMMA WriteKeeps ==
  ASSUME IdentityInv, NEW w \in Writers, Write(w)
  PROVE  IdentityInv'
  BY UpsertUserProfileKeeps, UpsertOrgProfileKeeps, UpsertGroupKeeps, DeleteGroupKeeps,
     UpsertMembershipKeeps, RemoveMembershipKeeps, UpsertEntitlementKeeps,
     RemoveEntitlementKeeps
     DEF Write

--------------------------------------------------------------------------------
(* The cache's own steps, and the whole.                                   *)

\* A step that leaves the readers alone and drops entries or keeps them as they are.
LEMMA EntriesDropped ==
  ASSUME IdentityInv, UNCHANGED <<tables, pc, got>>, TypeOK',
         \A k \in Key : cache'[k] \in {cache[k], Absent},
         \A k \in Key : cache[k] # Absent /\ cache'[k] = cache[k] /\ Touched(k) => Touched(k)'
  PROVE  IdentityInv'
<1>1. ReadersSound'
  <2>. SUFFICES ASSUME NEW x \in Readers PROVE ReaderSound(pc[x], got[x])'
    BY DEF ReadersSound
  <2>. PICK p, g : p = pc[x] /\ g = got[x]
    OBVIOUS
  <2>1. ReaderSound(p, g)'
    BY QuietStays DEF IdentityInv, ReadersSound
  <2>. QED  BY <2>1
<1>2. EntriesSound'
  BY EntryStays DEF IdentityInv, EntriesSound, EntrySound
<1>. QED  BY <1>1, <1>2 DEF IdentityInv

\* One tag purged: the entries that keep their place do not carry it.
LEMMA PurgeKeeps ==
  ASSUME IdentityInv, NEW w \in Writers, NEW t \in Tags, PurgeByTag(w, t)
  PROVE  IdentityInv'
<1>. USE DEF PurgeByTag, IdentityInv
<1>1. cache' \in [Key -> Entry \cup {Absent}]
  BY DEF TypeOK
<1>2. TypeOK'
  BY <1>1 DEF TypeOK, tables
<1>3. \A k \in Key : cache'[k] \in {cache[k], Absent}
  BY DEF TypeOK
<1>4. ASSUME NEW k \in Key, cache[k] # Absent, cache'[k] = cache[k], Touched(k)
      PROVE  Touched(k)'
  <2>1. t \notin cache[k].tags
    BY <1>4
  <2>. QED  BY <1>4, <2>1 DEF Touched, TypeOK
<1>. QED  BY <1>2, <1>3, <1>4, EntriesDropped

\* An invalidation lost: its tags are on record.
LEMMA LoseKeeps ==
  ASSUME IdentityInv, NEW w \in Writers, LoseInvalidation(w)
  PROVE  IdentityInv'
<1>. USE DEF LoseInvalidation, IdentityInv, reading
<1>1. TypeOK'
  BY DEF TypeOK, tables
<1>2. ASSUME NEW k \in Key, Touched(k) PROVE Touched(k)'
  BY <1>2 DEF Touched, TypeOK
<1>. QED  BY <1>1, <1>2, EntriesDropped

\* An entry that expires.
LEMMA ExpireKeeps ==
  ASSUME IdentityInv, NEW k \in Key, Expire(k)
  PROVE  IdentityInv'
<1>. USE DEF Expire, IdentityInv
<1>1. TypeOK'
  BY DEF TypeOK, tables
<1>2. \A x \in Key : cache'[x] \in {cache[x], Absent}
  BY DEF TypeOK
<1>3. \A x \in Key : cache'[x] = cache[x] /\ Touched(x) => Touched(x)'
  BY DEF Touched
<1>. QED  BY <1>1, <1>2, <1>3, EntriesDropped

\* The invariant is inductive.
THEOREM IdentityInvHolds == Spec => []IdentityInv
<1>1. Init => IdentityInv
  BY IdentityConstants DEF Init, IdentityInv, TypeOK, ReadersSound, ReaderSound,
     EntriesSound, EntrySound
<1>2. ASSUME IdentityInv, [Next]_vars PROVE IdentityInv'
  <2>1. ASSUME NEW r \in Readers, Read(r) PROVE IdentityInv'
    BY <1>2, <2>1, ReadUserKeeps, ResolveMembershipKeeps, CacheGetKeeps, ReadOrgKeeps,
       ReadGroupsKeeps, CollectEntitlementsKeeps, CacheIdentityKeeps
       DEF Read
  <2>2. ASSUME NEW w \in Writers, Write(w) PROVE IdentityInv'
    BY <1>2, <2>2, WriteKeeps
  <2>3. ASSUME NEW w \in Writers, LoseInvalidation(w) PROVE IdentityInv'
    BY <1>2, <2>3, LoseKeeps
  <2>4. ASSUME NEW w \in Writers, NEW t \in Tags, PurgeByTag(w, t) PROVE IdentityInv'
    BY <1>2, <2>4, PurgeKeeps
  <2>5. ASSUME NEW k \in Key, Expire(k) PROVE IdentityInv'
    BY <1>2, <2>5, ExpireKeeps
  <2>6. CASE UNCHANGED vars
    <3>1. TypeOK'
      BY <1>2, <2>6 DEF IdentityInv, TypeOK, vars, tables, reading
    <3>. QED  BY <1>2, <2>6, <3>1, EntriesDropped DEF vars, reading, Touched
  <2>. QED  BY <1>2, <2>1, <2>2, <2>3, <2>4, <2>5, <2>6 DEF Next
<1>. QED  BY <1>1, <1>2, PTL DEF Spec

\* Every variable keeps its type, whatever the rows and the requests are.
THEOREM IdentityTypes == Spec => []TypeOK
<1>1. IdentityInv => TypeOK
  BY DEF IdentityInv
<1>. QED  BY <1>1, IdentityInvHolds, PTL

\* computeEffectiveIdentity resolves the membership before it asks the cache: what it
\* takes from it is for the user and the membership just resolved.
THEOREM HitsAreForMembership == Spec => []HitIsForMembership
<1>1. IdentityInv => HitIsForMembership
  <2>. SUFFICES ASSUME IdentityInv, NEW r \in Readers, pc[r] = "lookup",
                       cache[got[r].key] # Absent
                PROVE  /\ cache[got[r].key].identity.user = got[r].request.user
                       /\ cache[got[r].key].identity.membership = got[r].identity.membership
    BY DEF HitIsForMembership
  <2>1. KeyFits(got[r])
    BY DEF IdentityInv, ReadersSound, ReaderSound, Fits
  <2>. QED  BY <2>1 DEF IdentityInv, EntriesSound, EntrySound, KeyFits
<1>. QED  BY <1>1, IdentityInvHolds, PTL

\* An entry no statement overlapped and some request may hit is what the rows make up
\* once every purge is through, but for what the tags do not reach: an organisation or
\* a group that was missing, an entitlement moved away, a purge that was lost.
THEOREM TagsCover == Spec => []TagsCoverDependencies
<1>1. IdentityInv => TagsCoverDependencies
  BY DEF IdentityInv, TagsCoverDependencies, EntriesSound, EntrySound, Touched, Covered,
     Settled
<1>. QED  BY <1>1, IdentityInvHolds, PTL
================================================================================
