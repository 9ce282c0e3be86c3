------------------------------ MODULE StoresProofs ------------------------------
(***************************************************************************)
(* What the stores and the host's calls promise, for any number of keys,   *)
(* entries, records, calls, requests and connections: the properties of    *)
(* the run Stores, each from an inductive invariant of its own module.     *)
(***************************************************************************)
EXTENDS KeyStores, MemoryCache, MemoryProfiles, WebhookHost, SessionRows, Transactions, TLAPS

--------------------------------------------------------------------------------
(* KeyStores: KeysAccounted.                                               *)

KeysTypeOK ==
  /\ store \in {"memory", "postgres"}
  /\ tick \in Nat
  /\ rows \in [KeyIds -> KeyRow \cup {NoKey}]
  /\ hashIndex \in [Hashes -> KeyIds \cup {NoKey}]
  /\ ownerIndex \in [KeyOwners -> SUBSET KeyIds]
  /\ lookedUp \in [Users -> (KeyIds \X Nat) \cup {NoKey}]
  /\ recorded \in [KeyIds -> Nat]

\* What a caller was given is the id of a stored key: keys are never removed.
GivenKeysStored == \A u \in Users : lookedUp[u] # NoKey => Taken(lookedUp[u][1])

\* Every accepted use is in the count of its key.
UsesCounted == \A i \in KeyIds : recorded[i] = IF Taken(i) THEN rows[i].uses ELSE 0

HasHash(i, h) == Taken(i) /\ rows[i].hash = h
HashesUnique == \A h \in Hashes, i, j \in KeyIds : HasHash(i, h) /\ HasHash(j, h) => i = j

OfOwner(o) == {i \in KeyIds : Taken(i) /\ rows[i].owner = o}

\* The memory store's maps say what its keys say.
MapsAgree ==
  store = "memory" =>
    /\ late = {}
    /\ \A h \in Hashes, i \in KeyIds : hashIndex[h] = i <=> HasHash(i, h)
    /\ \A o \in KeyOwners : ownerIndex[o] = OfOwner(o)

KeysInv == KeysTypeOK /\ GivenKeysStored /\ UsesCounted /\ HashesUnique /\ MapsAgree

\* No key is stored at the start.
LEMMA KeysInvInit == KeyStoreInit => KeysInv
  <1> SUFFICES ASSUME KeyStoreInit PROVE KeysInv  OBVIOUS
  <1>1. KeysTypeOK
    BY KeyStoreConstants DEF KeyStoreInit, KeysTypeOK
  <1>2. \A i \in KeyIds : ~Taken(i)
    BY DEF KeyStoreInit, Taken
  <1>3. GivenKeysStored /\ UsesCounted /\ HashesUnique
    BY <1>2 DEF KeyStoreInit, GivenKeysStored, UsesCounted, HashesUnique, HasHash
  <1>4. MapsAgree
    BY <1>2, KeyStoreConstants DEF KeyStoreInit, MapsAgree, HasHash, OfOwner
  <1>. QED  BY <1>1, <1>3, <1>4 DEF KeysInv

\* The row of a stored key, and none where there is none.
LEMMA TakenRow == ASSUME KeysTypeOK, NEW i \in KeyIds PROVE Taken(i) <=> rows[i] \in KeyRow
  BY KeyStoreConstants DEF KeysTypeOK, Taken

\* The key a hash leads to has it, in either store; and a stored key is led to.
LEMMA HashLeads ==
  ASSUME KeysInv
  PROVE  /\ \A h \in Hashes : FindByHash(h) \in KeyIds \cup {NoKey}
         /\ \A h \in Hashes : FindByHash(h) # NoKey => HasHash(FindByHash(h), h)
         /\ \A i \in KeyIds : Taken(i) => FindByHash(rows[i].hash) = i
  <1>1. CASE store = "memory"
    <2>1. \A h \in Hashes : FindByHash(h) = hashIndex[h]
      BY <1>1 DEF FindByHash
    <2>2. \A i \in KeyIds : Taken(i) => rows[i].hash \in Hashes
      BY TakenRow DEF KeysInv, KeyRow
    <2>. QED  BY <1>1, <2>1, <2>2, KeyStoreConstants DEF KeysInv, KeysTypeOK, MapsAgree, HasHash
  <1>2. CASE store # "memory"
    <2>1. ASSUME NEW h \in Hashes
          PROVE  /\ FindByHash(h) \in KeyIds \cup {NoKey}
                 /\ FindByHash(h) # NoKey => HasHash(FindByHash(h), h)
      <3>1. CASE \E i \in KeyIds : Taken(i) /\ rows[i].hash = h
        BY <1>2, <3>1 DEF FindByHash, HasHash
      <3>2. CASE ~\E i \in KeyIds : Taken(i) /\ rows[i].hash = h
        BY <1>2, <3>2 DEF FindByHash
      <3>. QED  BY <3>1, <3>2
    <2>2. ASSUME NEW i \in KeyIds, Taken(i) PROVE FindByHash(rows[i].hash) = i
      <3>1. rows[i].hash \in Hashes
        BY <2>2, TakenRow DEF KeysInv, KeyRow
      <3>2. FindByHash(rows[i].hash) # NoKey
        BY <1>2, <2>2, KeyStoreConstants DEF FindByHash
      <3>3. HasHash(i, rows[i].hash)
        BY <2>2 DEF HasHash
      <3>. QED  BY <2>1, <3>1, <3>2, <3>3 DEF KeysInv, HashesUnique
    <2>. QED  BY <2>1, <2>2
  <1>. QED  BY <1>1, <1>2

\* The maps of the memory store take a new key in with its row.
LEMMA IssueKeepsKeys ==
  ASSUME KeysInv, NEW i \in KeyIds, NEW h \in Hashes, NEW o \in KeyOwners,
         NEW e \in Ticks \cup {Unbounded}, IssueKey(i, h, o, e)
  PROVE  KeysInv'
  <1> DEFINE row == [hash |-> h, owner |-> o, expiresAt |-> e, revoked |-> FALSE,
                     uses |-> 0, lastUsedAt |-> 0]
  <1>1. /\ ~Duplicate(i, h) /\ StoreKey(i, h, o)
        /\ rows' = [rows EXCEPT ![i] = row]
        /\ UNCHANGED <<store, tick, lookedUp, recorded, late>>
    BY DEF IssueKey
  <1>2. row \in KeyRow
    BY KeyStoreConstants DEF KeyRow, Ticks, Unbounded
  <1>3. row # NoKey
    BY <1>2, KeyStoreConstants
  <1>4. row.hash = h /\ row.owner = o /\ row.uses = 0
    OBVIOUS
  <1> HIDE DEF row
  <1>5. KeysTypeOK'
    BY <1>1, <1>2 DEF KeysInv, KeysTypeOK, StoreKey
  <1>6. rows'[i] = row /\ \A j \in KeyIds \ {i} : rows'[j] = rows[j]
    BY <1>1 DEF KeysInv, KeysTypeOK
  <1>7. ~Taken(i) /\ Taken(i)' /\ \A j \in KeyIds \ {i} : Taken(j)' = Taken(j)
    BY <1>1, <1>3, <1>6 DEF Taken, Duplicate
  <1>8. GivenKeysStored'
    BY <1>1, <1>7 DEF KeysInv, GivenKeysStored, KeysTypeOK
  <1>9. UsesCounted'
    BY <1>1, <1>4, <1>6, <1>7 DEF KeysInv, UsesCounted
  <1>10. \A j \in KeyIds : ~HasHash(j, h)
    BY <1>1, KeyStoreConstants DEF Duplicate, KeysInv, MapsAgree, HasHash
  <1>11. \A j \in KeyIds, k \in Hashes :
           HasHash(j, k)' <=> HasHash(j, k) \/ (j = i /\ k = h)
    BY <1>4, <1>6, <1>7 DEF HasHash
  <1>12. HashesUnique'
    BY <1>10, <1>11 DEF KeysInv, HashesUnique
  <1>13. ASSUME store' = "memory" PROVE MapsAgree'
    <2>1. /\ hashIndex' = [hashIndex EXCEPT ![h] = i]
          /\ ownerIndex' = [ownerIndex EXCEPT ![o] = @ \cup {i}]
          /\ MapsAgree /\ store = "memory"
      BY <1>1, <1>13 DEF StoreKey, KeysInv
    <2>2. \A k \in Hashes, j \in KeyIds : hashIndex'[k] = j <=> HasHash(j, k)'
      BY <1>10, <1>11, <2>1 DEF MapsAgree, KeysInv, KeysTypeOK
    <2>3. \A p \in KeyOwners :
            OfOwner(p)' = IF p = o THEN OfOwner(p) \cup {i} ELSE OfOwner(p)
      BY <1>4, <1>6, <1>7 DEF OfOwner
    <2>4. \A p \in KeyOwners : ownerIndex'[p] = OfOwner(p)'
      BY <2>1, <2>3 DEF MapsAgree, KeysInv, KeysTypeOK
    <2>. QED  BY <1>1, <2>1, <2>2, <2>4 DEF MapsAgree
  <1>. QED  BY <1>5, <1>8, <1>9, <1>12, <1>13 DEF KeysInv, MapsAgree

\* A row that keeps its hash and its owner leaves every key where it is found.
LEMMA SameKeysFound ==
  ASSUME KeysInv, KeysTypeOK', UNCHANGED <<store, hashIndex, ownerIndex>>,
         store = "memory" => late' = {},
         \A j \in KeyIds : /\ Taken(j)' = Taken(j)
                           /\ Taken(j) => /\ rows'[j].hash = rows[j].hash
                                          /\ rows'[j].owner = rows[j].owner
  PROVE  HashesUnique' /\ MapsAgree'
  <1>1. \A j \in KeyIds, h \in Hashes : HasHash(j, h)' = HasHash(j, h)
    BY DEF HasHash
  <1>2. \A o \in KeyOwners : OfOwner(o)' = OfOwner(o)
    BY DEF OfOwner
  <1>. QED  BY <1>1, <1>2 DEF KeysInv, HashesUnique, MapsAgree

\* A use that is accepted is counted in the row and in the history alike.
LEMMA UsageKeepsKeys ==
  ASSUME KeysInv, NEW u \in Users, NEW at \in Nat, RecordKeyUsage(u, at)
  PROVE  KeysInv'
  <1> DEFINE i == lookedUp[u][1]
  <1>1. /\ lookedUp[u] # NoKey /\ lookedUp' = [lookedUp EXCEPT ![u] = NoKey]
        /\ UNCHANGED <<store, tick, hashIndex, ownerIndex>>
    BY DEF RecordKeyUsage
  <1>2. i \in KeyIds /\ Taken(i)
    BY <1>1 DEF KeysInv, KeysTypeOK, GivenKeysStored
  <1>3. CASE Refuses(rows[i])
    <2>1. UNCHANGED <<rows, recorded, late>>
      BY <1>3 DEF RecordKeyUsage
    <2>2. KeysTypeOK'
      BY <1>1, <2>1 DEF KeysInv, KeysTypeOK
    <2>3. \A j \in KeyIds : Taken(j)' = Taken(j)
      BY <2>1 DEF Taken
    <2>4. GivenKeysStored' /\ UsesCounted'
      BY <1>1, <2>1, <2>3 DEF KeysInv, KeysTypeOK, GivenKeysStored, UsesCounted
    <2>5. store = "memory" => late' = {}
      BY <2>1 DEF KeysInv, MapsAgree
    <2>. QED  BY <1>1, <2>1, <2>2, <2>3, <2>4, <2>5, SameKeysFound DEF KeysInv
  <1>4. CASE ~Refuses(rows[i])
    <2>1. /\ rows' = [rows EXCEPT ![i].uses = NextCount(u), ![i].lastUsedAt = at]
          /\ recorded' = [recorded EXCEPT ![i] = @ + 1]
          /\ late' = IF StatusOf(rows[i]) = "active" THEN late ELSE late \cup {i}
      BY <1>4 DEF RecordKeyUsage
    <2>2. rows[i] \in KeyRow /\ NextCount(u) = rows[i].uses + 1
      BY <1>2, TakenRow DEF KeysInv, NextCount
    <2>3. rows'[i] = [rows[i] EXCEPT !.uses = NextCount(u), !.lastUsedAt = at]
      BY <1>2, <2>1 DEF KeysInv, KeysTypeOK
    <2>4. /\ rows'[i] \in KeyRow /\ rows'[i].uses = rows[i].uses + 1
          /\ rows'[i].hash = rows[i].hash /\ rows'[i].owner = rows[i].owner
      <3>1. PICK row : row = rows[i]
        OBVIOUS
      <3>2. PICK n : n = NextCount(u)
        OBVIOUS
      <3>3. row \in KeyRow /\ n = row.uses + 1 /\ n \in Nat
        BY <2>2, <3>1, <3>2 DEF KeyRow
      <3>4. PICK new : new = [row EXCEPT !.uses = n, !.lastUsedAt = at]
        OBVIOUS
      <3>5. new \in KeyRow /\ new.uses = n /\ new.hash = row.hash /\ new.owner = row.owner
        <4>1. new = [hash |-> row.hash, owner |-> row.owner, expiresAt |-> row.expiresAt,
                     revoked |-> row.revoked, uses |-> n, lastUsedAt |-> at]
          BY <3>3, <3>4 DEF KeyRow
        <4>. QED  BY <3>3, <4>1 DEF KeyRow
      <3>6. rows'[i] = new
        BY <2>3, <3>1, <3>2, <3>4
      <3>. QED  BY <3>1, <3>3, <3>5, <3>6
    <2>5. \A j \in KeyIds \ {i} : rows'[j] = rows[j]
      BY <1>2, <2>1 DEF KeysInv, KeysTypeOK
    <2>6. rows' \in [KeyIds -> KeyRow \cup {NoKey}]
      BY <2>1, <2>4, <2>5 DEF KeysInv, KeysTypeOK
    <2>7. KeysTypeOK'
      BY <1>1, <2>1, <2>6 DEF KeysInv, KeysTypeOK
    <2>8. \A j \in KeyIds : Taken(j)' = Taken(j)
      BY <1>2, <2>4, <2>5, KeyStoreConstants DEF Taken
    <2>9. GivenKeysStored'
      BY <1>1, <2>8 DEF KeysInv, KeysTypeOK, GivenKeysStored
    <2>10. UsesCounted'
      BY <1>2, <2>1, <2>4, <2>5, <2>8 DEF KeysInv, KeysTypeOK, UsesCounted
    <2>11. store = "memory" => late' = {}
      BY <1>4, <2>1 DEF Refuses, KeysInv, MapsAgree
    <2>. QED  BY <1>1, <2>4, <2>5, <2>7, <2>8, <2>9, <2>10, <2>11, SameKeysFound DEF KeysInv
  <1>. QED  BY <1>3, <1>4

\* Revoking a key changes nothing else of its row.
LEMMA RevokeKeepsKeys ==
  ASSUME KeysInv, NEW i \in KeyIds, RevokeKey(i)
  PROVE  KeysInv'
  <1>1. /\ Taken(i) /\ rows' = [rows EXCEPT ![i].revoked = TRUE]
        /\ UNCHANGED <<store, tick, hashIndex, ownerIndex, lookedUp, recorded, late>>
    BY DEF RevokeKey
  <1>2. rows[i] \in KeyRow
    BY <1>1, TakenRow DEF KeysInv
  <1>3. rows'[i] = [rows[i] EXCEPT !.revoked = TRUE] /\ \A j \in KeyIds \ {i} : rows'[j] = rows[j]
    BY <1>1 DEF KeysInv, KeysTypeOK
  <1>4. /\ rows'[i] \in KeyRow /\ rows'[i].uses = rows[i].uses
        /\ rows'[i].hash = rows[i].hash /\ rows'[i].owner = rows[i].owner
    BY <1>2, <1>3 DEF KeyRow
  <1>5. KeysTypeOK'
    BY <1>1, <1>3, <1>4 DEF KeysInv, KeysTypeOK
  <1>6. \A j \in KeyIds : Taken(j)' = Taken(j)
    BY <1>1, <1>3, <1>4, KeyStoreConstants DEF Taken
  <1>7. GivenKeysStored' /\ UsesCounted'
    BY <1>1, <1>3, <1>4, <1>6 DEF KeysInv, KeysTypeOK, GivenKeysStored, UsesCounted
  <1>8. store = "memory" => late' = {}
    BY <1>1 DEF KeysInv, MapsAgree
  <1>. QED  BY <1>1, <1>3, <1>4, <1>5, <1>6, <1>7, <1>8, SameKeysFound DEF KeysInv

\* Looking a key up, and time, change no key.
LEMMA ReadKeepsKeys ==
  ASSUME KeysInv, UNCHANGED <<store, rows, hashIndex, ownerIndex, recorded, late>>,
         tick' \in Nat,
         \A u \in Users : \/ lookedUp'[u] = lookedUp[u]
                          \/ lookedUp'[u] \in KeyIds \X Nat /\ Taken(lookedUp'[u][1]),
         lookedUp' = [u \in Users |-> lookedUp'[u]]
  PROVE  KeysInv'
  <1>1. KeysTypeOK'
    BY DEF KeysInv, KeysTypeOK
  <1>2. \A i \in KeyIds : Taken(i)' = Taken(i)
    BY DEF Taken
  <1>3. GivenKeysStored' /\ UsesCounted'
    BY <1>2 DEF KeysInv, KeysTypeOK, GivenKeysStored, UsesCounted
  <1>4. store = "memory" => late' = {}
    BY DEF KeysInv, MapsAgree
  <1>. QED  BY <1>1, <1>2, <1>3, <1>4, SameKeysFound DEF KeysInv

LEMMA LookUpKeepsKeys ==
  ASSUME KeysInv, NEW u \in Users, NEW h \in Hashes, LookUp(u, h)
  PROVE  KeysInv'
  <1> DEFINE i == FindByHash(h)
  <1>1. /\ i # NoKey /\ lookedUp' = [lookedUp EXCEPT ![u] = <<i, rows[i].uses>>]
        /\ UNCHANGED <<store, tick, rows, hashIndex, ownerIndex, recorded, late>>
    BY DEF LookUp
  <1>2. i \in KeyIds /\ Taken(i)
    BY <1>1, HashLeads DEF HasHash
  <1> HIDE DEF i
  <1>3. <<i, rows[i].uses>> \in KeyIds \X Nat
    BY <1>2, TakenRow DEF KeysInv, KeyRow
  <1>. QED  BY <1>1, <1>2, <1>3, ReadKeepsKeys DEF KeysInv, KeysTypeOK

\* Every step of either store.
LEMMA KeysInvNext == KeysInv /\ [KeyStoreNext]_keyVars => KeysInv'
  <1> SUFFICES ASSUME KeysInv, [KeyStoreNext]_keyVars PROVE KeysInv'  OBVIOUS
  <1>1. ASSUME NEW i \in KeyIds, NEW h \in Hashes, NEW o \in KeyOwners,
               NEW e \in Ticks \cup {Unbounded}, IssueKey(i, h, o, e)
        PROVE  KeysInv'
    BY <1>1, IssueKeepsKeys
  <1>2. ASSUME NEW u \in Users, NEW h \in Hashes, LookUp(u, h) PROVE KeysInv'
    BY <1>2, LookUpKeepsKeys
  <1>3. ASSUME NEW u \in Users, NEW at \in {t \in Ticks : t <= tick}, RecordKeyUsage(u, at)
        PROVE  KeysInv'
    <2>1. at \in Nat
      BY KeyStoreConstants DEF Ticks
    <2>. QED  BY <1>3, <2>1, UsageKeepsKeys
  <1>4. ASSUME NEW i \in KeyIds, RevokeKey(i) PROVE KeysInv'
    BY <1>4, RevokeKeepsKeys
  <1>5. CASE KeyClock \/ UNCHANGED keyVars
    BY <1>5, ReadKeepsKeys DEF KeyClock, keyVars, KeysInv, KeysTypeOK
  <1>. QED  BY <1>1, <1>2, <1>3, <1>4, <1>5 DEF KeyStoreNext

\* The invariant says what the stores answer.
LEMMA KeysInvAccounts == KeysInv => KeysAccounted
  <1> SUFFICES ASSUME KeysInv PROVE KeysAccounted  OBVIOUS
  <1>1. \A o \in KeyOwners : OwnedBy(o) = OfOwner(o)
    BY DEF OwnedBy, OfOwner, KeysInv, MapsAgree
  <1>2. ASSUME NEW o \in KeyOwners
        PROVE  ListKeysByOwner(o, FALSE, FALSE) =
                 {i \in KeyIds : Taken(i) /\ rows[i].owner = o /\ StatusOf(rows[i]) = "active"}
    <2>1. \A i \in KeyIds : StatusOf(rows[i]) \in {"revoked", "expired", "active"}
      BY DEF StatusOf
    <2>. QED  BY <1>1, <2>1 DEF ListKeysByOwner, OfOwner
  <1>3. store = "memory" => late = {}
    BY DEF KeysInv, MapsAgree
  <1>. QED  BY <1>2, <1>3, HashLeads DEF KeysAccounted, KeysInv, UsesCounted

\* For any keys, owners and users: every accepted use is counted once, memory accepts none
\* after the key's end, a hash leads to its key, and an owner is listed its active keys
\* (MemoryKeyStore and PostgresKeyStore).
THEOREM UsesAccounted == KeyStoreSpec => []KeysAccounted
  <1>. QED  BY KeysInvInit, KeysInvNext, KeysInvAccounts, PTL DEF KeyStoreSpec

--------------------------------------------------------------------------------
(* MemoryCache: TaggedIsIndexed.                                           *)

CacheTypeOK ==
  /\ entries \in [CacheKeys -> Entry \cup {NoEntry}]
  /\ tagIndex \in [CacheTags -> SUBSET CacheKeys]
  /\ purging \in [Purgers -> (CacheTags \X SUBSET CacheKeys) \cup {NoEntry}]

Tagged(k, t) == t \in TagsOf(k)
Overtook(k, t) == <<k, t>> \in overtaken

\* The list of a tag holds its keys, but for those set while it was being purged.
ListHolds(k, t) ==
  /\ k \in tagIndex[t] => Tagged(k, t)
  /\ Tagged(k, t) => k \in tagIndex[t] \/ Overtook(k, t)

\* So does what a purge has left to delete: when it ends, nothing under the tag is left.
PurgeHolds(p, k, t) ==
  purging[p] # NoEntry /\ purging[p][1] = t /\ Tagged(k, t) =>
    k \in purging[p][2] \/ Overtook(k, t)

PurgesHold == \A p \in Purgers, k \in CacheKeys, t \in CacheTags : PurgeHolds(p, k, t)

CacheInv ==
  /\ CacheTypeOK
  /\ \A k \in CacheKeys, t \in CacheTags : ListHolds(k, t)
  /\ PurgesHold

\* The tags of a key are tags, and nothing is under those of an entry that is gone.
LEMMA TagsAreTags ==
  ASSUME CacheTypeOK, NEW k \in CacheKeys
  PROVE  TagsOf(k) \in SUBSET CacheTags
  BY DEF CacheTypeOK, TagsOf, Present, Entry

\* A key that leaves the lists of its tags leaves them to the others as they were.
LEMMA UnindexedLists ==
  ASSUME CacheInv, NEW k \in CacheKeys
  PROVE  /\ Unindexed(k) \in [CacheTags -> SUBSET CacheKeys]
         /\ \A t \in CacheTags : Unindexed(k)[t] = tagIndex[t] \ {k}
  <1>1. ASSUME NEW t \in CacheTags
        PROVE  (IF t \in TagsOf(k) THEN tagIndex[t] \ {k} ELSE tagIndex[t]) = tagIndex[t] \ {k}
    BY DEF CacheInv, ListHolds, Tagged
  <1>. QED  BY <1>1 DEF Unindexed, CacheInv, CacheTypeOK

\* Evicting the entry of a key, alone or in a purge that then has it no more.
LEMMA EvictKeepsIndex ==
  ASSUME CacheInv, NEW k \in CacheKeys, Evict(k),
         purging' \in [Purgers -> (CacheTags \X SUBSET CacheKeys) \cup {NoEntry}],
         \A p \in Purgers :
           \/ purging'[p] = purging[p]
           \/ /\ purging[p] # NoEntry /\ purging'[p] # NoEntry
              /\ purging'[p][1] = purging[p][1] /\ purging'[p][2] = purging[p][2] \ {k}
  PROVE  CacheInv'
  <1>1. /\ entries' = [entries EXCEPT ![k] = NoEntry]
        /\ tagIndex' = Unindexed(k) /\ overtaken' = Forget(k)
    BY DEF Evict
  <1>2. CacheTypeOK'
    BY <1>1, UnindexedLists DEF CacheInv, CacheTypeOK
  <1>3. ASSUME NEW j \in CacheKeys, NEW t \in CacheTags
        PROVE  /\ Tagged(j, t)' <=> j # k /\ Tagged(j, t)
               /\ j # k => Overtook(j, t)' = Overtook(j, t)
    BY <1>1 DEF Tagged, TagsOf, Present, Overtook, Forget, CacheInv, CacheTypeOK
  <1>4. \A j \in CacheKeys, t \in CacheTags : ListHolds(j, t)'
    BY <1>1, <1>3, UnindexedLists DEF CacheInv, ListHolds
  <1>5. PurgesHold'
    BY <1>3 DEF CacheInv, PurgesHold, PurgeHolds
  <1>. QED  BY <1>2, <1>4, <1>5 DEF CacheInv

\* A new entry is in the lists of its tags and in no other, and known to have overtaken
\* the purges of them.
LEMMA SetKeepsIndex ==
  ASSUME CacheInv, NEW k \in CacheKeys, NEW tags \in SUBSET CacheTags, NEW due \in BOOLEAN,
         Set(k, tags, due)
  PROVE  CacheInv'
  <1> DEFINE entry == [tags |-> tags, expired |-> due]
             during == {t \in tags : BeingPurged(t)}
  <1>1. /\ entries' = [entries EXCEPT ![k] = entry]
        /\ tagIndex' = [t \in CacheTags |-> IF t \in tags THEN Unindexed(k)[t] \cup {k}
                                                           ELSE Unindexed(k)[t]]
        /\ overtaken' = Forget(k) \cup {<<k, t>> : t \in during}
        /\ purging' = purging
    BY DEF Set
  <1>2. entry \in Entry /\ entry # NoEntry /\ entry.tags = tags
    BY NoEntryIsNone DEF Entry
  <1> HIDE DEF entry
  <1>3. \A t \in CacheTags : tagIndex'[t] = IF t \in tags THEN tagIndex[t] \cup {k}
                                                           ELSE tagIndex[t] \ {k}
    BY <1>1, UnindexedLists
  <1>4. CacheTypeOK'
    <2>1. tagIndex' \in [CacheTags -> SUBSET CacheKeys]
      BY <1>1, UnindexedLists
    <2>. QED  BY <1>1, <1>2, <2>1 DEF CacheInv, CacheTypeOK
  <1>5. ASSUME NEW j \in CacheKeys, NEW t \in CacheTags
        PROVE  Tagged(j, t)' <=> IF j = k THEN t \in tags ELSE Tagged(j, t)
    BY <1>1, <1>2 DEF Tagged, TagsOf, Present, CacheInv, CacheTypeOK
  <1>6. ASSUME NEW j \in CacheKeys, NEW t \in CacheTags
        PROVE  Overtook(j, t)' <=> IF j = k THEN t \in tags /\ BeingPurged(t)
                                            ELSE Overtook(j, t)
    BY <1>1 DEF Overtook, Forget
  <1>7. \A j \in CacheKeys, t \in CacheTags : ListHolds(j, t)'
    BY <1>3, <1>5, <1>6 DEF CacheInv, ListHolds
  <1>8. PurgesHold'
    BY <1>1, <1>5, <1>6 DEF CacheInv, PurgesHold, PurgeHolds, BeingPurged
  <1>. QED  BY <1>4, <1>7, <1>8 DEF CacheInv

\* A purge that begins has the whole list.
LEMMA BeginKeepsIndex ==
  ASSUME CacheInv, NEW p \in Purgers, NEW t \in CacheTags, PurgeByTag(p, t)
  PROVE  CacheInv'
  <1>1. /\ purging' = [purging EXCEPT ![p] = <<t, tagIndex[t]>>]
        /\ UNCHANGED <<entries, tagIndex, overtaken>>
    BY DEF PurgeByTag
  <1>2. CacheTypeOK'
    BY <1>1 DEF CacheInv, CacheTypeOK
  <1>3. \A k \in CacheKeys, s \in CacheTags :
          /\ Tagged(k, s)' = Tagged(k, s) /\ Overtook(k, s)' = Overtook(k, s)
          /\ ListHolds(k, s)
    BY <1>1 DEF CacheInv, Tagged, TagsOf, Present, Overtook
  <1>4. \A k \in CacheKeys, s \in CacheTags : ListHolds(k, s)'
    BY <1>1, <1>3 DEF ListHolds
  <1>5. PurgesHold'
    BY <1>1, <1>3 DEF CacheInv, CacheTypeOK, PurgesHold, PurgeHolds, ListHolds
  <1>. QED  BY <1>2, <1>4, <1>5 DEF CacheInv

\* A key of a purge is deleted, whatever it is by now.
LEMMA PurgeKeyKeepsIndex ==
  ASSUME CacheInv, NEW p \in Purgers, PurgeKey(p)
  PROVE  CacheInv'
  <1>1. PICK k \in purging[p][2] :
          /\ purging' = [purging EXCEPT ![p] = <<purging[p][1], purging[p][2] \ {k}>>]
          /\ IF Present(k) THEN Evict(k) ELSE UNCHANGED <<entries, tagIndex, overtaken>>
    BY DEF PurgeKey
  <1>2. purging[p] \in CacheTags \X SUBSET CacheKeys
    BY DEF PurgeKey, CacheInv, CacheTypeOK
  <1>3. k \in CacheKeys /\ <<purging[p][1], purging[p][2] \ {k}>> \in CacheTags \X SUBSET CacheKeys
    BY <1>1, <1>2
  <1>4. /\ purging' \in [Purgers -> (CacheTags \X SUBSET CacheKeys) \cup {NoEntry}]
        /\ \A o \in Purgers \ {p} : purging'[o] = purging[o]
        /\ purging'[p] = <<purging[p][1], purging[p][2] \ {k}>>
    BY <1>1, <1>3 DEF CacheInv, CacheTypeOK
  <1>5. purging[p] # NoEntry /\ purging'[p] # NoEntry
    BY <1>2, <1>3, <1>4, NoEntryIsNone
  <1>6. /\ purging'[p][1] = purging[p][1] /\ purging'[p][2] = purging[p][2] \ {k}
    BY <1>4
  <1>7. CASE Present(k)
    BY <1>1, <1>3, <1>4, <1>5, <1>6, <1>7, EvictKeepsIndex
  <1>8. CASE ~Present(k)
    <2>1. UNCHANGED <<entries, tagIndex, overtaken>>
      BY <1>1, <1>8
    <2>2. CacheTypeOK'
      BY <1>4, <2>1 DEF CacheInv, CacheTypeOK
    <2>3. \A t \in CacheTags : ~Tagged(k, t)
      BY <1>8 DEF Tagged, TagsOf
    <2>4. \A j \in CacheKeys, t \in CacheTags :
            Tagged(j, t)' = Tagged(j, t) /\ Overtook(j, t)' = Overtook(j, t)
      BY <2>1 DEF Tagged, TagsOf, Present, Overtook
    <2>5. \A j \in CacheKeys, t \in CacheTags : ListHolds(j, t)'
      BY <2>1, <2>4 DEF CacheInv, ListHolds
    <2>6. PurgesHold'
      BY <1>4, <1>5, <1>6, <2>3, <2>4 DEF CacheInv, PurgesHold, PurgeHolds
    <2>. QED  BY <2>2, <2>5, <2>6 DEF CacheInv
  <1>. QED  BY <1>7, <1>8

\* The list dropped at the end of a purge held nothing that did not overtake it.
LEMMA EndKeepsIndex ==
  ASSUME CacheInv, NEW p \in Purgers, PurgeEnds(p)
  PROVE  CacheInv'
  <1>1. /\ purging[p] # NoEntry /\ purging[p][2] = {}
        /\ tagIndex' = [tagIndex EXCEPT ![purging[p][1]] = {}]
        /\ purging' = [purging EXCEPT ![p] = NoEntry]
        /\ UNCHANGED <<entries, overtaken>>
    BY DEF PurgeEnds
  <1>2. CacheTypeOK'
    BY <1>1 DEF CacheInv, CacheTypeOK
  <1>3. \A k \in CacheKeys, t \in CacheTags :
          Tagged(k, t)' = Tagged(k, t) /\ Overtook(k, t)' = Overtook(k, t)
    BY <1>1 DEF Tagged, TagsOf, Present, Overtook
  <1>4. ASSUME NEW k \in CacheKeys, NEW t \in CacheTags PROVE ListHolds(k, t)'
    <2>1. PurgeHolds(p, k, t) /\ ListHolds(k, t)
      BY DEF CacheInv, PurgesHold
    <2>2. tagIndex'[t] = IF t = purging[p][1] THEN {} ELSE tagIndex[t]
      BY <1>1 DEF CacheInv, CacheTypeOK
    <2>. QED  BY <1>1, <1>3, <2>1, <2>2 DEF PurgeHolds, ListHolds
  <1>5. PurgesHold'
    BY <1>1, <1>3 DEF CacheInv, CacheTypeOK, PurgesHold, PurgeHolds
  <1>. QED  BY <1>2, <1>4, <1>5 DEF CacheInv

\* An entry whose time is over keeps its tags.
LEMMA ExpireKeepsIndex ==
  ASSUME CacheInv, NEW k \in CacheKeys, Expire(k)
  PROVE  CacheInv'
  <1>1. /\ entries[k] \in Entry /\ entries' = [entries EXCEPT ![k].expired = TRUE]
        /\ UNCHANGED <<tagIndex, purging, overtaken>>
    BY DEF Expire, Present, CacheInv, CacheTypeOK
  <1>2. entries'[k] = [tags |-> entries[k].tags, expired |-> TRUE]
    BY <1>1 DEF CacheInv, CacheTypeOK, Entry
  <1>3. entries'[k] \in Entry /\ entries'[k].tags = entries[k].tags
    <2>1. PICK tags \in SUBSET CacheTags : tags = entries[k].tags
      BY <1>1 DEF Entry
    <2>2. entries'[k] = [tags |-> tags, expired |-> TRUE]
      BY <1>2, <2>1
    <2>. QED  BY <2>1, <2>2 DEF Entry
  <1>4. \A j \in CacheKeys \ {k} : entries'[j] = entries[j]
    BY <1>1 DEF CacheInv, CacheTypeOK
  <1>5. CacheTypeOK'
    BY <1>1, <1>3, <1>4 DEF CacheInv, CacheTypeOK
  <1>6. \A j \in CacheKeys, t \in CacheTags :
          Tagged(j, t)' = Tagged(j, t) /\ Overtook(j, t)' = Overtook(j, t)
    <2>1. \A j \in CacheKeys : (Present(j)' <=> Present(j)) /\ TagsOf(j)' = TagsOf(j)
      <3>1. ASSUME NEW j \in CacheKeys, j # k
            PROVE  (Present(j)' <=> Present(j)) /\ TagsOf(j)' = TagsOf(j)
        BY <1>4, <3>1 DEF TagsOf, Present
      <3>2. Present(k)' /\ Present(k)
        BY <1>1, <1>3, NoEntryIsNone DEF Present
      <3>3. TagsOf(k)' = TagsOf(k)
        BY <1>3, <3>2 DEF TagsOf
      <3>. QED  BY <3>1, <3>2, <3>3
    <2>. QED  BY <1>1, <2>1 DEF Tagged, Overtook
  <1>. QED  BY <1>1, <1>5, <1>6 DEF CacheInv, ListHolds, PurgesHold, PurgeHolds

\* Every step of the cache.
LEMMA CacheInvNext == CacheInv /\ [MemoryCacheNext]_cacheVars => CacheInv'
  <1> SUFFICES ASSUME CacheInv, [MemoryCacheNext]_cacheVars PROVE CacheInv'  OBVIOUS
  <1>1. ASSUME NEW k \in CacheKeys, NEW tags \in SUBSET CacheTags, NEW due \in BOOLEAN,
               Set(k, tags, due)
        PROVE  CacheInv'
    BY <1>1, SetKeepsIndex
  <1>2. ASSUME NEW k \in CacheKeys, Expire(k) PROVE CacheInv'
    BY <1>2, ExpireKeepsIndex
  <1>3. ASSUME NEW k \in CacheKeys, EvictExpired(k) \/ Delete(k) PROVE CacheInv'
    <2>1. Evict(k) /\ purging' = purging
      BY <1>3 DEF EvictExpired, Delete
    <2>. QED  BY <2>1, EvictKeepsIndex DEF CacheInv, CacheTypeOK
  <1>4. ASSUME NEW p \in Purgers, NEW t \in CacheTags, PurgeByTag(p, t) PROVE CacheInv'
    BY <1>4, BeginKeepsIndex
  <1>5. ASSUME NEW p \in Purgers, PurgeKey(p) PROVE CacheInv'
    BY <1>5, PurgeKeyKeepsIndex
  <1>6. ASSUME NEW p \in Purgers, PurgeEnds(p) PROVE CacheInv'
    BY <1>6, EndKeepsIndex
  <1>7. CASE Clear
    <2>1. CacheTypeOK'
      BY <1>7 DEF Clear, CacheInv, CacheTypeOK
    <2>2. \A k \in CacheKeys, t \in CacheTags : ~Tagged(k, t)' /\ k \notin tagIndex'[t]
      BY <1>7 DEF Clear, Tagged, TagsOf, Present
    <2>. QED  BY <2>1, <2>2 DEF CacheInv, ListHolds, PurgesHold, PurgeHolds
  <1>8. CASE UNCHANGED cacheVars
    <2>1. UNCHANGED <<entries, tagIndex, purging, overtaken>>
      BY <1>8 DEF cacheVars
    <2>2. \A k \in CacheKeys, t \in CacheTags :
            Tagged(k, t)' = Tagged(k, t) /\ Overtook(k, t)' = Overtook(k, t)
      BY <2>1 DEF Tagged, TagsOf, Present, Overtook
    <2>. QED  BY <2>1, <2>2 DEF CacheInv, CacheTypeOK, ListHolds, PurgesHold, PurgeHolds
  <1>. QED  BY <1>1, <1>2, <1>3, <1>4, <1>5, <1>6, <1>7, <1>8 DEF MemoryCacheNext

LEMMA CacheInvInit == MemoryCacheInit => CacheInv
  <1> SUFFICES ASSUME MemoryCacheInit PROVE CacheInv  OBVIOUS
  <1>1. CacheTypeOK
    BY DEF MemoryCacheInit, CacheTypeOK
  <1>2. \A k \in CacheKeys, t \in CacheTags : ~Tagged(k, t) /\ k \notin tagIndex[t]
    BY DEF MemoryCacheInit, Tagged, TagsOf, Present
  <1>. QED  BY <1>1, <1>2 DEF CacheInv, ListHolds, PurgesHold, PurgeHolds

\* Only its last step ends a purge.
LEMMA PurgeReturns ==
  ASSUME CacheInv, MemoryCacheNext, NEW p \in Purgers, purging[p] # NoEntry, purging'[p] = NoEntry
  PROVE  PurgeEnds(p)
  <1>1. purging[p] \in CacheTags \X SUBSET CacheKeys /\ NoEntry \notin CacheTags \X SUBSET CacheKeys
    BY NoEntryIsNone DEF CacheInv, CacheTypeOK
  <1>2. purging' # purging
    OBVIOUS
  <1>3. ASSUME NEW k \in CacheKeys,
               \/ \E tags \in SUBSET CacheTags, due \in BOOLEAN : Set(k, tags, due)
               \/ Expire(k) \/ EvictExpired(k) \/ Delete(k)
        PROVE  FALSE
    BY <1>2, <1>3 DEF Set, Expire, EvictExpired, Delete
  <1>4. ~Clear
    BY <1>2 DEF Clear
  <1>5. ASSUME NEW o \in Purgers, o # p, PurgeKey(o) \/ PurgeEnds(o) PROVE FALSE
    BY <1>5 DEF PurgeKey, PurgeEnds, CacheInv, CacheTypeOK
  <1>6. ASSUME NEW o \in Purgers, NEW t \in CacheTags, PurgeByTag(o, t) PROVE FALSE
    <2>1. o # p
      BY <1>6 DEF PurgeByTag
    <2>. QED  BY <1>6, <2>1 DEF PurgeByTag, CacheInv, CacheTypeOK
  <1>7. ~PurgeKey(p)
    <2>. SUFFICES ASSUME PurgeKey(p) PROVE FALSE
      OBVIOUS
    <2>1. PICK k \in purging[p][2] :
            purging' = [purging EXCEPT ![p] = <<purging[p][1], purging[p][2] \ {k}>>]
      BY DEF PurgeKey
    <2>2. purging'[p] \in CacheTags \X SUBSET CacheKeys
      BY <1>1, <2>1 DEF CacheInv, CacheTypeOK
    <2>. QED  BY <1>1, <2>2
  <1>. QED  BY <1>3, <1>4, <1>5, <1>6, <1>7 DEF MemoryCacheNext

\* For any keys, tags and purges under way: a purge finds every entry under its tag and no
\* other, but for those set while it was under way (MemoryCache.set, evict, purgeByTag).
THEOREM TagsStayIndexed == MemoryCacheSpec => []TaggedIsIndexed
  <1>1. CacheInv => TaggedIsIndexed
    BY DEF CacheInv, ListHolds, Tagged, Overtook, TaggedIsIndexed
  <1>. QED  BY <1>1, CacheInvInit, CacheInvNext, PTL DEF MemoryCacheSpec

\* For any keys, tags and purges under way: one that returns leaves no entry under its tag
\* but those set while the tag was being purged (MemoryCache.purgeByTag).
THEOREM MemoryPurgesRemove == MemoryCacheSpec => MemoryPurgeRemoves
  <1>1. CacheInv /\ [MemoryCacheNext]_cacheVars =>
          [\A p \in Purgers : purging[p] # NoEntry /\ purging'[p] = NoEntry =>
             \A k \in CacheKeys :
               purging[p][1] \in TagsOf(k)' => <<k, purging[p][1]>> \in overtaken']_cacheVars
    <2>. SUFFICES ASSUME CacheInv, MemoryCacheNext, NEW p \in Purgers, purging[p] # NoEntry,
                         purging'[p] = NoEntry, NEW k \in CacheKeys,
                         purging[p][1] \in TagsOf(k)'
                  PROVE  <<k, purging[p][1]>> \in overtaken'
      OBVIOUS
    <2>1. PurgeEnds(p)
      BY PurgeReturns
    <2>2. purging[p][2] = {} /\ entries' = entries /\ overtaken' = overtaken
      BY <2>1 DEF PurgeEnds
    <2>3. purging[p][1] \in CacheTags
      BY DEF CacheInv, CacheTypeOK
    <2>4. Tagged(k, purging[p][1])
      BY <2>2 DEF Tagged, TagsOf, Present
    <2>5. PurgeHolds(p, k, purging[p][1])
      BY <2>3 DEF CacheInv, PurgesHold
    <2>. QED  BY <2>2, <2>4, <2>5 DEF PurgeHolds, Overtook
  <1>. QED  BY <1>1, CacheInvInit, CacheInvNext, PTL DEF MemoryCacheSpec, MemoryPurgeRemoves

--------------------------------------------------------------------------------
(* MemoryProfiles: ProfilesAgree.                                          *)

ProfilesTypeOK ==
  /\ slugOf \in [Firms -> Slugs \cup {NoRow}]
  /\ slugIndex \in [Slugs -> Firms \cup {NoRow}]
  /\ firmOf \in [Teams -> Firms \cup {NoRow}]
  /\ teamsByFirm \in [Firms -> SUBSET Teams]
  /\ members \in [MemberIds -> Membership \cup {NoRow}]
  /\ byPerson \in [People -> SUBSET MemberIds]
  /\ byFirm \in [Firms -> SUBSET MemberIds]

\* A slug leads to an org that has it, and an org's slug to it, unless it is contested, as
\* every slug of two orgs is.
SlugsLead ==
  /\ \A s \in Slugs, o \in Firms : slugIndex[s] = o => slugOf[o] = s
  /\ \A s \in Slugs, o \in Firms : slugOf[o] = s => slugIndex[s] = o \/ s \in contested
  /\ \A s \in Slugs, o, p \in Firms : slugOf[o] = s /\ slugOf[p] = s => o = p \/ s \in contested

TeamsListed == \A o \in Firms, g \in Teams : g \in teamsByFirm[o] <=> firmOf[g] = o

IsMember(i, u) == Known(members[i]) /\ members[i].person = u
InFirmNow(i, o) == Known(members[i]) /\ members[i].firm = o
HasTeam(i, g) == Known(members[i]) /\ g \in members[i].teams

MembersListed ==
  /\ \A u \in People, i \in MemberIds : i \in byPerson[u] <=> IsMember(i, u)
  /\ \A o \in Firms, i \in MemberIds : i \in byFirm[o] <=> InFirmNow(i, o)

\* A group that was deleted under a member is none of its groups.
Deprived == \A i \in MemberIds, g \in Teams : <<i, g>> \in bereft => ~HasTeam(i, g)

ProfilesInv == ProfilesTypeOK /\ SlugsLead /\ TeamsListed /\ MembersListed /\ Deprived

\* Nothing is stored at the start.
LEMMA ProfilesInvInit == ProfilesInit => ProfilesInv
  <1> SUFFICES ASSUME ProfilesInit PROVE ProfilesInv  OBVIOUS
  <1>1. ProfilesTypeOK
    BY DEF ProfilesInit, ProfilesTypeOK
  <1>2. SlugsLead /\ TeamsListed
    BY NoRowIsNone DEF ProfilesInit, SlugsLead, TeamsListed
  <1>3. MembersListed /\ Deprived
    BY DEF ProfilesInit, MembersListed, IsMember, InFirmNow, Deprived, Known
  <1>. QED  BY <1>1, <1>2, <1>3 DEF ProfilesInv

\* An org that takes a slug another org has makes it contested, and one that leaves a slug
\* takes the index of it away also from another that had it.
LEMMA SlugTaken ==
  ASSUME ProfilesInv, NEW o \in Firms, NEW s \in Slugs, SaveOrgProfile(o, s)
  PROVE  ProfilesInv'
  <1>1. /\ slugOf' = [slugOf EXCEPT ![o] = s]
        /\ slugIndex' = [t \in Slugs |->
             IF t = s THEN o ELSE IF t = slugOf[o] THEN NoRow ELSE slugIndex[t]]
        /\ contested' = contested \cup {t \in {s} : \E other \in Firms \ {o} : slugOf[other] = t}
        /\ UNCHANGED <<firmOf, teamsByFirm, members, byPerson, byFirm, bereft>>
    BY DEF SaveOrgProfile
  <1>2. ProfilesTypeOK'
    BY <1>1 DEF ProfilesInv, ProfilesTypeOK
  <1>3. slugOf'[o] = s /\ \A p \in Firms \ {o} : slugOf'[p] = slugOf[p]
    BY <1>1 DEF ProfilesInv, ProfilesTypeOK
  <1>4. \A t \in Slugs : t \in contested => t \in contested'
    BY <1>1
  <1>5. \A p \in Firms \ {o} : slugOf[p] = s => s \in contested'
    BY <1>1
  <1>6. \A t \in Slugs, p \in Firms : slugIndex'[t] = p => slugOf'[p] = t
    BY <1>1, <1>3, NoRowIsNone DEF ProfilesInv, SlugsLead
  <1>7. ASSUME NEW t \in Slugs, NEW p \in Firms, slugOf'[p] = t
        PROVE  slugIndex'[t] = p \/ t \in contested'
    <2>1. CASE p = o
      BY <1>1, <1>3, <1>7, <2>1
    <2>2. CASE p # o /\ t = s
      BY <1>3, <1>5, <1>7, <2>2
    <2>3. CASE p # o /\ t # s /\ t = slugOf[o]
      BY <1>3, <1>4, <1>7, <2>3 DEF ProfilesInv, SlugsLead
    <2>4. CASE p # o /\ t # s /\ t # slugOf[o]
      BY <1>1, <1>3, <1>4, <1>7, <2>4 DEF ProfilesInv, SlugsLead
    <2>. QED  BY <2>1, <2>2, <2>3, <2>4
  <1>8. \A t \in Slugs, p, q \in Firms :
          slugOf'[p] = t /\ slugOf'[q] = t => p = q \/ t \in contested'
    BY <1>3, <1>4, <1>5 DEF ProfilesInv, SlugsLead
  <1>9. SlugsLead'
    BY <1>6, <1>7, <1>8 DEF SlugsLead
  <1>10. TeamsListed' /\ MembersListed' /\ Deprived'
    BY <1>1 DEF ProfilesInv, TeamsListed, MembersListed, Deprived, IsMember, InFirmNow, HasTeam
  <1>. QED  BY <1>2, <1>9, <1>10 DEF ProfilesInv

\* A group is listed where it is now.
LEMMA GroupSaved ==
  ASSUME ProfilesInv, NEW g \in Teams, NEW o \in Firms, SaveGroup(g, o)
  PROVE  ProfilesInv'
  <1>1. /\ firmOf' = [firmOf EXCEPT ![g] = o] /\ teamsByFirm' = Relinked(g, o)
        /\ UNCHANGED <<slugOf, slugIndex, members, byPerson, byFirm, contested, bereft>>
    BY DEF SaveGroup
  <1>2. \A p \in Firms : teamsByFirm'[p] = IF p = o THEN teamsByFirm[p] \cup {g}
                           ELSE IF p = firmOf[g] THEN teamsByFirm[p] \ {g} ELSE teamsByFirm[p]
    BY <1>1 DEF Relinked
  <1>3. ProfilesTypeOK'
    BY <1>1 DEF ProfilesInv, ProfilesTypeOK, Relinked
  <1>4. TeamsListed'
    <2>1. firmOf'[g] = o /\ \A h \in Teams \ {g} : firmOf'[h] = firmOf[h]
      BY <1>1 DEF ProfilesInv, ProfilesTypeOK
    <2>2. ASSUME NEW p \in Firms, NEW h \in Teams PROVE h \in teamsByFirm'[p] <=> firmOf'[h] = p
      <3>1. h \in teamsByFirm[p] <=> firmOf[h] = p
        BY DEF ProfilesInv, TeamsListed
      <3>2. CASE h = g
        BY <1>2, <2>1, <3>1, <3>2
      <3>3. CASE h # g
        BY <1>2, <2>1, <3>1, <3>3
      <3>. QED  BY <3>2, <3>3
    <2>. QED  BY <2>2 DEF TeamsListed
  <1>5. SlugsLead' /\ MembersListed' /\ Deprived'
    BY <1>1 DEF ProfilesInv, SlugsLead, MembersListed, Deprived, IsMember, InFirmNow, HasTeam
  <1>. QED  BY <1>3, <1>4, <1>5 DEF ProfilesInv

\* The members in the group's own org are those its index has, and they all lose the group.
LEMMA GroupDeleted ==
  ASSUME ProfilesInv, NEW g \in Teams, DeleteGroup(g)
  PROVE  ProfilesInv'
  <1>1. PICK o : o = firmOf[g]
    OBVIOUS
  <1>2. o \in Firms /\ o # NoRow
    BY <1>1, NoRowIsNone DEF DeleteGroup, Known, ProfilesInv, ProfilesTypeOK
  <1>3. PICK losers : losers = byFirm[o] \cap Holding(g)
    OBVIOUS
  <1>4. /\ firmOf' = [firmOf EXCEPT ![g] = NoRow]
        /\ teamsByFirm' = [teamsByFirm EXCEPT ![o] = @ \ {g}]
        /\ members' = [i \in MemberIds |->
             IF i \in losers THEN [members[i] EXCEPT !.teams = @ \ {g}] ELSE members[i]]
        /\ bereft' = bereft \cup {<<i, g>> : i \in {i \in Holding(g) : members[i].firm = o}}
        /\ UNCHANGED <<slugOf, slugIndex, byPerson, byFirm, contested>>
    BY <1>1, <1>3 DEF DeleteGroup
  <1>5. losers = {i \in Holding(g) : members[i].firm = o}
    BY <1>2, <1>3 DEF ProfilesInv, MembersListed, InFirmNow, Holding
  <1>6. \A i \in losers : i \in MemberIds /\ members[i] \in Membership
    BY <1>5 DEF Holding, Known, ProfilesInv, ProfilesTypeOK
  <1>7. ASSUME NEW i \in losers
        PROVE  /\ members'[i] \in Membership /\ members'[i].person = members[i].person
               /\ members'[i].firm = members[i].firm
               /\ members'[i].teams = members[i].teams \ {g}
    <2>1. PICK row \in Membership : row = members[i]
      BY <1>6
    <2>2. PICK teams : teams = row.teams \ {g}
      OBVIOUS
    <2>3. members'[i] = [row EXCEPT !.teams = teams]
      BY <1>4, <1>6, <2>1, <2>2
    <2>4. members'[i] = [person |-> row.person, firm |-> row.firm, teams |-> teams]
      BY <2>3 DEF Membership
    <2>5. row.person \in People /\ row.firm \in Firms /\ teams \in SUBSET Teams
      BY <2>2 DEF Membership
    <2>. QED  BY <2>1, <2>2, <2>4, <2>5 DEF Membership
  <1>8. \A i \in MemberIds \ losers : members'[i] = members[i]
    BY <1>4
  <1>9. \A i \in MemberIds : members'[i] \in Membership \cup {NoRow}
    BY <1>7, <1>8 DEF ProfilesInv, ProfilesTypeOK
  <1>10. ProfilesTypeOK'
    <2>1. members' \in [MemberIds -> Membership \cup {NoRow}]
      BY <1>4, <1>9
    <2>. QED  BY <1>4, <2>1 DEF ProfilesInv, ProfilesTypeOK
  <1>11. ASSUME NEW i \in MemberIds
         PROVE  /\ Known(members'[i]) <=> Known(members[i])
                /\ Known(members[i]) => /\ members'[i].person = members[i].person
                                        /\ members'[i].firm = members[i].firm
                                        /\ members'[i].teams \subseteq members[i].teams
    BY <1>6, <1>7, <1>8, NoRowIsNone DEF Known
  <1>12. MembersListed'
    BY <1>4, <1>11 DEF ProfilesInv, MembersListed, IsMember, InFirmNow
  <1>13. ASSUME NEW i \in MemberIds, NEW h \in Teams, <<i, h>> \in bereft' PROVE ~HasTeam(i, h)'
    <2>1. CASE <<i, h>> \in bereft
      BY <1>11, <2>1 DEF ProfilesInv, Deprived, HasTeam
    <2>2. CASE <<i, h>> \notin bereft
      <3>1. i \in losers /\ h = g
        BY <1>4, <1>5, <1>13, <2>2
      <3>. QED  BY <1>7, <3>1 DEF HasTeam
    <2>. QED  BY <2>1, <2>2
  <1>14. TeamsListed'
    <2>1. firmOf'[g] = NoRow /\ \A h \in Teams \ {g} : firmOf'[h] = firmOf[h]
      BY <1>4 DEF ProfilesInv, ProfilesTypeOK
    <2>2. \A p \in Firms : teamsByFirm'[p] = IF p = o THEN teamsByFirm[p] \ {g}
                                                      ELSE teamsByFirm[p]
      BY <1>4 DEF ProfilesInv, ProfilesTypeOK
    <2>3. ASSUME NEW p \in Firms, NEW h \in Teams PROVE h \in teamsByFirm'[p] <=> firmOf'[h] = p
      <3>1. h \in teamsByFirm[p] <=> firmOf[h] = p
        BY DEF ProfilesInv, TeamsListed
      <3>2. CASE h = g
        BY <1>1, <2>1, <2>2, <3>1, <3>2, NoRowIsNone
      <3>3. CASE h # g
        BY <2>1, <2>2, <3>1, <3>3
      <3>. QED  BY <3>2, <3>3
    <2>. QED  BY <2>3 DEF TeamsListed
  <1>15. SlugsLead'
    BY <1>4 DEF ProfilesInv, SlugsLead
  <1>. QED  BY <1>10, <1>12, <1>13, <1>14, <1>15 DEF ProfilesInv, Deprived

\* The lists of a user and an org without an id.
LEMMA WithoutMemberLists ==
  ASSUME ProfilesInv, NEW i \in MemberIds
  PROVE  /\ WithoutMember(i)[1] \in [People -> SUBSET MemberIds]
         /\ WithoutMember(i)[2] \in [Firms -> SUBSET MemberIds]
         /\ \A u \in People : WithoutMember(i)[1][u] = byPerson[u] \ {i}
         /\ \A o \in Firms : WithoutMember(i)[2][o] = byFirm[o] \ {i}
  <1>1. CASE Known(members[i])
    <2>1. PICK u \in People, o \in Firms : members[i].person = u /\ members[i].firm = o
      BY <1>1 DEF Known, ProfilesInv, ProfilesTypeOK, Membership
    <2>2. /\ WithoutMember(i)[1] = [byPerson EXCEPT ![u] = @ \ {i}]
          /\ WithoutMember(i)[2] = [byFirm EXCEPT ![o] = @ \ {i}]
      BY <1>1, <2>1 DEF WithoutMember
    <2>3. /\ \A v \in People : v # u => i \notin byPerson[v]
          /\ \A p \in Firms : p # o => i \notin byFirm[p]
      BY <2>1 DEF ProfilesInv, MembersListed, IsMember, InFirmNow
    <2>. QED  BY <2>2, <2>3 DEF ProfilesInv, ProfilesTypeOK
  <1>2. CASE ~Known(members[i])
    <2>1. WithoutMember(i)[1] = byPerson /\ WithoutMember(i)[2] = byFirm
      BY <1>2 DEF WithoutMember
    <2>2. /\ \A v \in People : i \notin byPerson[v]
          /\ \A p \in Firms : i \notin byFirm[p]
      BY <1>2 DEF ProfilesInv, MembersListed, IsMember, InFirmNow
    <2>. QED  BY <2>1, <2>2 DEF ProfilesInv, ProfilesTypeOK
  <1>. QED  BY <1>1, <1>2

\* A membership is listed with the user and the org it is of now, and given its groups anew.
LEMMA MemberSaved ==
  ASSUME ProfilesInv, NEW i \in MemberIds, NEW row \in Membership, SaveMembership(i, row)
  PROVE  ProfilesInv'
  <1>1. PICK persons, firms : persons = WithoutMember(i)[1] /\ firms = WithoutMember(i)[2]
    OBVIOUS
  <1>2. /\ members' = [members EXCEPT ![i] = row]
        /\ byPerson' = [persons EXCEPT ![row.person] = @ \cup {i}]
        /\ byFirm' = [firms EXCEPT ![row.firm] = @ \cup {i}]
        /\ bereft' = {pair \in bereft : pair[1] # i}
        /\ UNCHANGED <<slugOf, slugIndex, firmOf, teamsByFirm, contested>>
    BY <1>1 DEF SaveMembership
  <1>3. /\ persons \in [People -> SUBSET MemberIds] /\ firms \in [Firms -> SUBSET MemberIds]
        /\ \A u \in People : persons[u] = byPerson[u] \ {i}
        /\ \A o \in Firms : firms[o] = byFirm[o] \ {i}
    BY <1>1, WithoutMemberLists
  <1>4. row.person \in People /\ row.firm \in Firms /\ Known(row)
    BY NoRowIsNone DEF Membership, Known
  <1>5. ProfilesTypeOK'
    BY <1>2, <1>3, <1>4 DEF ProfilesInv, ProfilesTypeOK
  <1>6. members'[i] = row /\ \A j \in MemberIds \ {i} : members'[j] = members[j]
    BY <1>2 DEF ProfilesInv, ProfilesTypeOK
  <1>7. \A u \in People, j \in MemberIds : j \in byPerson'[u] <=> IsMember(j, u)'
    BY <1>2, <1>3, <1>4, <1>6 DEF ProfilesInv, MembersListed, IsMember
  <1>8. \A o \in Firms, j \in MemberIds : j \in byFirm'[o] <=> InFirmNow(j, o)'
    BY <1>2, <1>3, <1>4, <1>6 DEF ProfilesInv, MembersListed, InFirmNow
  <1>9. ASSUME NEW j \in MemberIds, NEW g \in Teams, <<j, g>> \in bereft' PROVE ~HasTeam(j, g)'
    <2>1. <<j, g>> \in bereft /\ j # i
      BY <1>2, <1>9
    <2>. QED  BY <1>6, <2>1 DEF ProfilesInv, Deprived, HasTeam
  <1>10. SlugsLead' /\ TeamsListed'
    BY <1>2 DEF ProfilesInv, SlugsLead, TeamsListed
  <1>. QED  BY <1>5, <1>7, <1>8, <1>9, <1>10 DEF ProfilesInv, MembersListed, Deprived

\* A membership that is removed is listed nowhere.
LEMMA MemberRemoved ==
  ASSUME ProfilesInv, NEW i \in MemberIds, RemoveMembership(i)
  PROVE  ProfilesInv'
  <1>1. /\ members' = [members EXCEPT ![i] = NoRow]
        /\ byPerson' = WithoutMember(i)[1] /\ byFirm' = WithoutMember(i)[2]
        /\ bereft' = {pair \in bereft : pair[1] # i}
        /\ UNCHANGED <<slugOf, slugIndex, firmOf, teamsByFirm, contested>>
    BY DEF RemoveMembership
  <1>2. ProfilesTypeOK'
    BY <1>1, WithoutMemberLists DEF ProfilesInv, ProfilesTypeOK
  <1>3. ~Known(members'[i]) /\ \A j \in MemberIds \ {i} : members'[j] = members[j]
    BY <1>1 DEF ProfilesInv, ProfilesTypeOK, Known
  <1>4. MembersListed'
    BY <1>1, <1>3, WithoutMemberLists DEF ProfilesInv, MembersListed, IsMember, InFirmNow
  <1>5. ASSUME NEW j \in MemberIds, NEW g \in Teams, <<j, g>> \in bereft' PROVE ~HasTeam(j, g)'
    <2>1. <<j, g>> \in bereft /\ j # i
      BY <1>1, <1>5
    <2>. QED  BY <1>3, <2>1 DEF ProfilesInv, Deprived, HasTeam
  <1>6. SlugsLead' /\ TeamsListed'
    BY <1>1 DEF ProfilesInv, SlugsLead, TeamsListed
  <1>. QED  BY <1>2, <1>4, <1>5, <1>6 DEF ProfilesInv, Deprived

\* Every step of the store.
LEMMA ProfilesInvNext == ProfilesInv /\ [ProfilesNext]_profileVars => ProfilesInv'
  <1> SUFFICES ASSUME ProfilesInv, [ProfilesNext]_profileVars PROVE ProfilesInv'  OBVIOUS
  <1>1. ASSUME NEW o \in Firms, NEW s \in Slugs, SaveOrgProfile(o, s) PROVE ProfilesInv'
    BY <1>1, SlugTaken
  <1>2. ASSUME NEW g \in Teams, NEW o \in Firms, SaveGroup(g, o) PROVE ProfilesInv'
    BY <1>2, GroupSaved
  <1>3. ASSUME NEW g \in Teams, DeleteGroup(g) PROVE ProfilesInv'
    BY <1>3, GroupDeleted
  <1>4. ASSUME NEW i \in MemberIds, NEW row \in Membership, SaveMembership(i, row)
        PROVE  ProfilesInv'
    BY <1>4, MemberSaved
  <1>5. ASSUME NEW i \in MemberIds, RemoveMembership(i) PROVE ProfilesInv'
    BY <1>5, MemberRemoved
  <1>6. CASE (\E u \in People : SaveUserProfile(u)) \/ UNCHANGED profileVars
    <2>1. UNCHANGED <<slugOf, slugIndex, firmOf, teamsByFirm, members, byPerson, byFirm,
                      contested, bereft>>
      BY <1>6 DEF SaveUserProfile, profileVars
    <2>. QED  BY <2>1 DEF ProfilesInv, ProfilesTypeOK, SlugsLead, TeamsListed, MembersListed,
                Deprived, IsMember, InFirmNow, HasTeam
  <1>. QED  BY <1>1, <1>2, <1>3, <1>4, <1>5, <1>6 DEF ProfilesNext

\* What the indexes hold is what the queries find.
LEMMA QueriesFind == ProfilesInv => ProfilesAgree
  <1> SUFFICES ASSUME ProfilesInv PROVE ProfilesAgree  OBVIOUS
  <1> USE DEF ProfilesInv, ProfilesTypeOK
  <1>1. ASSUME NEW s \in Slugs, NEW having, having = {o \in Firms : slugOf[o] = s}
        PROVE  IF having = {} THEN GetOrgProfileBySlug(s) = NoRow
               ELSE GetOrgProfileBySlug(s) \in having \/ s \in contested
    <2>1. CASE slugIndex[s] = NoRow
      <3>1. GetOrgProfileBySlug(s) = NoRow
        BY <2>1 DEF GetOrgProfileBySlug, Known
      <3>2. \A o \in having : s \in contested
        BY <1>1, <2>1, NoRowIsNone DEF SlugsLead
      <3>. QED  BY <3>1, <3>2
    <2>2. CASE slugIndex[s] \in Firms
      <3>1. slugOf[slugIndex[s]] = s /\ Known(slugIndex[s]) /\ Known(s)
        BY <2>2, NoRowIsNone DEF SlugsLead, Known
      <3>2. GetOrgProfileBySlug(s) = slugIndex[s] /\ slugIndex[s] \in having
        BY <1>1, <2>2, <3>1 DEF GetOrgProfileBySlug
      <3>. QED  BY <3>2
    <2>. QED  BY <2>1, <2>2
  <1>2. ASSUME NEW o \in Firms
        PROVE  /\ ListGroups(o) = {g \in Teams : firmOf[g] = o}
               /\ ListMembershipsByOrg(o) =
                    {i \in MemberIds : Known(members[i]) /\ members[i].firm = o}
    <2>1. Known(o)
      BY NoRowIsNone DEF Known
    <2>. QED  BY <2>1 DEF ListGroups, TeamsListed, ListMembershipsByOrg, MembersListed, InFirmNow
  <1>3. ASSUME NEW u \in People, NEW o \in Firms \cup {NoRow}, NEW i \in MemberIds \cup {NoRow},
               Computes(u, o, i)
        PROVE  LET own == {j \in MemberIds : Known(members[j]) /\ members[j].person = u
                                               /\ InFirm(j, o)}
                   found == ResolveMembership(u, o, i)
               IN  /\ found \subseteq own /\ (found = {} => own = {})
                   /\ \A j \in found : \A g \in TeamsOf(j) : <<j, g>> \notin bereft
    <2> DEFINE own == {j \in MemberIds : Known(members[j]) /\ members[j].person = u /\ InFirm(j, o)}
               found == ResolveMembership(u, o, i)
    <2>1. found = ResolveMembership(u, o, i)
      OBVIOUS
    <2>2. \A j : j \in own <=> /\ j \in MemberIds /\ Known(members[j]) /\ members[j].person = u
                              /\ InFirm(j, o)
      OBVIOUS
    <2>3. /\ found \subseteq own /\ (found = {} => own = {})
          /\ \A j \in found : \A g \in TeamsOf(j) : <<j, g>> \notin bereft
      <3> HIDE DEF own, found
      <3>1. found \subseteq own /\ (found = {} => own = {})
        <4>1. CASE Known(i)
          <5>1. found = {i} /\ i \in MemberIds
            BY <1>3, <2>1, <2>2, <4>1 DEF ResolveMembership, Known
          <5>2. i \in own
            BY <1>3, <2>1, <2>2, <4>1, <5>1 DEF Computes
          <5>. QED  BY <5>1, <5>2
        <4>2. CASE ~Known(i) /\ Known(o)
          <5>1. found = {j \in byPerson[u] : Known(members[j]) /\ members[j].firm = o}
            BY <1>3, <2>1, <2>2, <4>2 DEF ResolveMembership
          <5>2. \A j \in MemberIds : InFirm(j, o) <=> members[j].firm = o
            BY <4>2 DEF InFirm, Known
          <5>3. found = own
            BY <1>3, <2>1, <2>2, <5>1, <5>2 DEF MembersListed, IsMember
          <5>. QED  BY <5>3
        <4>3. CASE ~Known(i) /\ ~Known(o)
          <5>1. found = byPerson[u] /\ \A j \in MemberIds : InFirm(j, o)
            BY <1>3, <2>1, <2>2, <4>3 DEF ResolveMembership, InFirm, Known
          <5>2. found = own
            BY <1>3, <2>1, <2>2, <5>1 DEF MembersListed, IsMember
          <5>. QED  BY <5>2
        <4>. QED  BY <4>1, <4>2, <4>3
      <3>2. ASSUME NEW j \in own, NEW g \in TeamsOf(j) PROVE <<j, g>> \notin bereft
        <4>1. j \in MemberIds /\ Known(members[j]) /\ g \in members[j].teams
          BY <1>3, <2>2 DEF TeamsOf
        <4>2. g \in Teams
          BY <4>1 DEF Known, Membership
        <4>. QED  BY <4>1, <4>2 DEF Deprived, HasTeam
      <3>. QED  BY <3>1, <3>2
    <2>. QED  BY <2>3
  <1>4. \A s \in Slugs :
          LET having == {o \in Firms : slugOf[o] = s}
          IN  IF having = {} THEN GetOrgProfileBySlug(s) = NoRow
              ELSE GetOrgProfileBySlug(s) \in having \/ s \in contested
    BY <1>1
  <1>5. ASSUME NEW u \in People, NEW o \in Firms \cup {NoRow}, NEW i \in MemberIds \cup {NoRow}
        PROVE
          LET own == {j \in MemberIds : Known(members[j]) /\ members[j].person = u
                                         /\ InFirm(j, o)}
              found == ResolveMembership(u, o, i)
          IN  Computes(u, o, i) =>
                /\ found \subseteq own /\ (found = {} => own = {})
                /\ \A j \in found : \A g \in TeamsOf(j) : <<j, g>> \notin bereft
    BY <1>3
  <1> HIDE DEF ProfilesInv, ProfilesTypeOK
  <1>. QED  BY <1>2, <1>4, <1>5 DEF ProfilesAgree

\* For any users, orgs, groups and memberships: a slug that was never two orgs' leads to its
\* org, an org lists its groups and members, an identity is of a membership of its user
\* whenever there is one, and without groups deleted under it (InMemoryProfileStore).
THEOREM IndexesAgree == ProfilesSpec => []ProfilesAgree
  <1>. QED  BY ProfilesInvInit, ProfilesInvNext, QueriesFind, PTL DEF ProfilesSpec

--------------------------------------------------------------------------------
(* WebhookHost: DispatchCovers and ConsumersClosed.                        *)

DispatchesTypeOK ==
  /\ dispatched \in [Dispatches -> {"new", "creating", "ok", "error"}]
  /\ toCreate \in [Dispatches -> SUBSET Hooks]
  /\ created \in [Dispatches -> SUBSET Hooks]
  /\ steady \in [Dispatches -> SUBSET Hooks]
  /\ subscribed \subseteq Hooks

\* A subscription that was active all the time has a delivery, or is yet to get one; only
\* the failure that ends a call leaves a delivery without an answer.
CallCovers(d) ==
  /\ dispatched[d] = "new" => created[d] = {}
  /\ dispatched[d] = "creating" => steady[d] \subseteq created[d] \cup toCreate[d]
  /\ dispatched[d] = "ok" => steady[d] \subseteq created[d]
  /\ dispatched[d] # "error" => Unanswered(d) = {}
  /\ \A s, t \in Unanswered(d) : s = t

DispatchInv == DispatchesTypeOK /\ \A d \in Dispatches : CallCovers(d)

\* A call that changes only what is its own keeps the others covered.
LEMMA OneDispatch ==
  ASSUME DispatchInv, NEW d \in Dispatches, DispatchesTypeOK', CallCovers(d)',
         \A o \in Dispatches \ {d} :
           /\ dispatched'[o] = dispatched[o] /\ created'[o] = created[o]
           /\ toCreate'[o] = toCreate[o] /\ steady'[o] = steady[o]
  PROVE  DispatchInv'
  BY DEF DispatchInv, CallCovers, Unanswered

\* Listing, creating a delivery, failing to, and the end of a call.
LEMMA DispatchInvNext == DispatchInv /\ [DispatchNext \/ WorkerNext]_hostVars => DispatchInv'
  <1> SUFFICES ASSUME DispatchInv, [DispatchNext \/ WorkerNext]_hostVars PROVE DispatchInv'
    OBVIOUS
  <1> USE DEF DispatchInv, DispatchesTypeOK
  <1>1. ASSUME NEW d \in Dispatches, List(d) PROVE DispatchInv'
    <2>1. DispatchesTypeOK' /\ CallCovers(d)'
      BY <1>1 DEF List, CallCovers, Unanswered
    <2>. QED  BY <1>1, <2>1, OneDispatch DEF List
  <1>2. ASSUME NEW d \in Dispatches, CreateDelivery(d) PROVE DispatchInv'
    <2>1. PICK s \in toCreate[d] :
            \/ CreateFails(d, s)
            \/ /\ toCreate' = [toCreate EXCEPT ![d] = @ \ {s}]
               /\ created' = [created EXCEPT ![d] = @ \cup {s}]
               /\ UNCHANGED dispatched
      BY <1>2 DEF CreateDelivery
    <2>2. dispatched[d] = "creating" /\ UNCHANGED <<subscribed, steady>>
      BY <1>2 DEF CreateDelivery
    <2>3. CASE CreateFails(d, s)
      <3>1. /\ dispatched' = [dispatched EXCEPT ![d] = "error"] /\ toCreate' = toCreate
            /\ \/ created' = created
               \/ created' = [created EXCEPT ![d] = @ \cup {s}]
        BY <2>3 DEF CreateFails
      <3>2. DispatchesTypeOK'
        BY <2>2, <3>1
      <3>3. Unanswered(d)' \subseteq {s}
        BY <2>2, <3>1 DEF CallCovers, Unanswered
      <3>4. CallCovers(d)'
        BY <2>2, <3>1, <3>3 DEF CallCovers
      <3>. QED  BY <2>2, <3>1, <3>2, <3>4, OneDispatch
    <2>4. CASE ~CreateFails(d, s)
      <3>1. DispatchesTypeOK' /\ CallCovers(d)'
        BY <2>1, <2>2, <2>4 DEF CallCovers, Unanswered
      <3>. QED  BY <2>1, <2>2, <2>4, <3>1, OneDispatch
    <2>. QED  BY <2>3, <2>4
  <1>3. ASSUME NEW d \in Dispatches, DispatchReturns(d) PROVE DispatchInv'
    <2>1. DispatchesTypeOK' /\ CallCovers(d)'
      BY <1>3 DEF DispatchReturns, CallCovers, Unanswered
    <2>. QED  BY <1>3, <2>1, OneDispatch DEF DispatchReturns
  <1>4. ASSUME NEW s \in Hooks, Flip(s) PROVE DispatchInv'
    <2>1. DispatchesTypeOK'
      BY <1>4 DEF Flip
    <2>2. \A d \in Dispatches : steady'[d] \subseteq steady[d]
      BY <1>4 DEF Flip
    <2>. QED  BY <1>4, <2>1, <2>2 DEF Flip, CallCovers, Unanswered
  <1>5. CASE WorkerNext \/ UNCHANGED hostVars
    <2>1. UNCHANGED dispatchVars
      BY <1>5 DEF WorkerNext, Start, ConsumeAnswers, Close, StartAgain, Stop, hostVars
    <2>. QED  BY <2>1 DEF dispatchVars, CallCovers, Unanswered
  <1>. QED  BY <1>1, <1>2, <1>3, <1>4, <1>5 DEF DispatchNext

\* Whatever the subscriptions do meanwhile and however many dispatches overlap: one that
\* answers ok has a delivery for every subscription active throughout and knows of all it
\* inserted, one that fails has inserted at most one it knows nothing of (dispatch).
THEOREM NoSubscriptionMissed == HostSpec => []DispatchCovers
  <1>1. HostInit => DispatchInv
    BY DEF HostInit, DispatchInv, DispatchesTypeOK, CallCovers, Unanswered
  <1>2. DispatchInv => DispatchCovers
    BY DEF DispatchInv, CallCovers, DispatchCovers
  <1>. QED  BY <1>1, <1>2, DispatchInvNext, PTL DEF HostSpec

--------------------------------------------------------------------------------
Fates == {"unused", "awaited", "open", "closing", "closed", "failed"}

WorkerTypeOK ==
  /\ started \in BOOLEAN /\ wanted \in BOOLEAN
  /\ subscription \in Consumers \cup {NoConsumer}
  /\ consumers \in [Consumers -> Fates]

\* A worker that has started has a subscription to stop, and one that has not has none.
StopHasOne == started <=> subscription \in Consumers

\* Without an overlap there is one consumer: the subscription, or the one awaited.
OneConsumer ==
  /\ Open \ overlapped \subseteq {subscription}
  /\ Awaited # {} => Open \subseteq overlapped
  /\ \A c \in Awaited \ overlapped : Awaited = {c}
  /\ ~started => Open \subseteq overlapped
  /\ ~wanted => Open \cup Awaited \subseteq overlapped

WorkerInv == WorkerTypeOK /\ StopHasOne /\ OneConsumer

\* Start, its answer, stop and close, in any order.
LEMMA WorkerInvNext == WorkerInv /\ [DispatchNext \/ WorkerNext]_hostVars => WorkerInv'
  <1> SUFFICES ASSUME WorkerInv, [DispatchNext \/ WorkerNext]_hostVars PROVE WorkerInv'
    OBVIOUS
  <1> USE DEF WorkerInv, WorkerTypeOK, Fates
  <1>1. ASSUME NEW c \in Consumers, Start(c) PROVE WorkerInv'
    <2>1. /\ ~started /\ consumers[c] = "unused" /\ UNCHANGED <<started, subscription>>
          /\ consumers' = [consumers EXCEPT ![c] = "awaited"] /\ wanted' = TRUE
          /\ overlapped' = IF Awaited = {} THEN overlapped ELSE overlapped \cup Awaited \cup {c}
      BY <1>1 DEF Start, MayStart
    <2>2. WorkerTypeOK' /\ StopHasOne'
      BY <2>1 DEF StopHasOne
    <2>3. Open' = Open /\ Awaited' = Awaited \cup {c}
      BY <2>1 DEF Open, Awaited
    <2>4. OneConsumer'
      BY <2>1, <2>3 DEF OneConsumer
    <2>. QED  BY <2>2, <2>4
  <1>2. ASSUME NEW c \in Consumers, ConsumeAnswers(c) PROVE WorkerInv'
    <2>1. consumers[c] = "awaited" /\ UNCHANGED <<wanted, overlapped>> /\ c \in Awaited
      BY <1>2 DEF ConsumeAnswers, Awaited
    <2>2. CASE /\ consumers' = [consumers EXCEPT ![c] = "open"]
               /\ subscription' = c /\ started' = TRUE
      <3>1. WorkerTypeOK' /\ StopHasOne'
        BY <2>1, <2>2 DEF StopHasOne
      <3>2. Open' = Open \cup {c} /\ Awaited' = Awaited \ {c}
        BY <2>1, <2>2 DEF Open, Awaited
      <3>3. OneConsumer'
        BY <2>1, <2>2, <3>2 DEF OneConsumer
      <3>. QED  BY <3>1, <3>3
    <2>3. CASE /\ consumers' = [consumers EXCEPT ![c] = "failed"]
               /\ UNCHANGED <<started, subscription>>
      <3>1. WorkerTypeOK' /\ StopHasOne'
        BY <2>1, <2>3 DEF StopHasOne
      <3>2. Open' = Open /\ Awaited' = Awaited \ {c}
        BY <2>1, <2>3 DEF Open, Awaited
      <3>3. OneConsumer'
        BY <2>1, <2>3, <3>2 DEF OneConsumer
      <3>. QED  BY <3>1, <3>3
    <2>. QED  BY <1>2, <2>2, <2>3 DEF ConsumeAnswers
  <1>3. ASSUME NEW c \in Consumers, Close(c) PROVE WorkerInv'
    <2>1. WorkerTypeOK' /\ StopHasOne'
      BY <1>3 DEF Close, StopHasOne
    <2>2. /\ Awaited' = Awaited
          /\ \/ Open' = Open /\ overlapped' = overlapped
             \/ Open' = Open \cup {c} /\ overlapped' = overlapped \cup {c}
      BY <1>3 DEF Close, Open, Awaited
    <2>3. UNCHANGED <<started, subscription, wanted>>
      BY <1>3 DEF Close
    <2>4. OneConsumer'
      BY <2>2, <2>3 DEF OneConsumer
    <2>. QED  BY <2>1, <2>4
  <1>4. CASE StartAgain
    <2>1. started /\ wanted' = TRUE
          /\ UNCHANGED <<started, subscription, consumers, overlapped>>
      BY <1>4 DEF StartAgain
    <2>. QED  BY <2>1 DEF StopHasOne, OneConsumer, Open, Awaited
  <1>5. CASE Stop
    <2>1. wanted' = FALSE /\ started' = FALSE /\ overlapped' = overlapped \cup Awaited
      BY <1>5 DEF Stop
    <2>2. CASE started
      <3>1. /\ consumers' = [consumers EXCEPT ![subscription] = "closing"]
            /\ subscription' = NoConsumer /\ subscription \in Consumers
        BY <1>5, <2>2 DEF Stop, StopHasOne
      <3>2. WorkerTypeOK' /\ StopHasOne'
        BY <2>1, <3>1, NoConsumerIsNone DEF StopHasOne
      <3>3. Open' \subseteq Open \ {subscription} /\ Awaited' \subseteq Awaited
        BY <3>1 DEF Open, Awaited
      <3>4. Open' \subseteq overlapped'
        BY <2>1, <3>3 DEF OneConsumer
      <3>5. OneConsumer'
        BY <2>1, <3>3, <3>4 DEF OneConsumer
      <3>. QED  BY <3>2, <3>5
    <2>3. CASE ~started
      <3>1. UNCHANGED <<consumers, subscription>>
        BY <1>5, <2>3 DEF Stop
      <3>2. WorkerTypeOK' /\ StopHasOne'
        BY <2>1, <2>3, <3>1 DEF StopHasOne
      <3>3. Open' = Open /\ Awaited' = Awaited
        BY <3>1 DEF Open, Awaited
      <3>4. OneConsumer'
        BY <2>1, <2>3, <3>1, <3>3 DEF OneConsumer
      <3>. QED  BY <3>2, <3>4
    <2>. QED  BY <2>2, <2>3
  <1>6. CASE DispatchNext \/ UNCHANGED hostVars
    <2>1. UNCHANGED workerVars
      BY <1>6 DEF DispatchNext, List, CreateDelivery, DispatchReturns, Flip, hostVars
    <2>. QED  BY <2>1 DEF workerVars, StopHasOne, OneConsumer, Open, Awaited
  <1>. QED  BY <1>1, <1>2, <1>3, <1>4, <1>5, <1>6 DEF WorkerNext

\* However start and stop are called: a consumer that no overlap and no failed close let
\* slip is the one the next stop closes, and after a stop there is none
\* (createWebhookQueueWorker).
THEOREM StopClosesConsumer == HostSpec => []ConsumersClosed
  <1>1. HostInit => WorkerInv
    BY NoConsumerIsNone DEF HostInit, WorkerInv, WorkerTypeOK, Fates, StopHasOne, OneConsumer,
       Open, Awaited
  <1>2. WorkerInv => ConsumersClosed
    BY DEF WorkerInv, OneConsumer, ConsumersClosed
  <1>. QED  BY <1>1, <1>2, WorkerInvNext, PTL DEF HostSpec

--------------------------------------------------------------------------------
(* SessionRows: SessionKept.                                               *)

SessionPlaces ==
  {"arrives", "reads", "touches", "describes", "creates", "falls back", "done"}

Asking ==
  [at : SessionPlaces, now : Nat, tells : SUBSET Facts, facts : Metadata,
   before : SUBSET Requests]

SessionsTypeOK ==
  /\ session \in Row \cup {NoSession}
  /\ request \in [Requests -> Asking]
  /\ standing \subseteq Requests /\ blind \subseteq Requests /\ hour \in Nat

Arrived(r) == request[r].at # "arrives"
Done(r) == request[r].at = "done"

\* A request knows of those done before it; they were there no later.
Ordered(r) ==
  /\ request[r].now <= hour
  /\ r \notin request[r].before
  /\ \A q \in request[r].before : Done(q) /\ request[q].now <= request[r].now

\* What a request is to write has its own facts.
Own(r) ==
  request[r].at \in {"touches", "creates"} =>
    \A f \in request[r].tells : request[r].facts[f] = r

\* A request that may be written over: one overlapped it, or a statement failed.
Excused(r) == blind # {} \/ \E q \in Requests : Overlap(q, r)

\* The facts keep what r told, or something newer.
Keeps(facts, r) == \A f \in request[r].tells : facts[f] \in Requests \ request[r].before

\* What a touch is about to write keeps the facts of earlier requests; a create finds no
\* earlier request's row, unless a statement failed; and one that falls back has failed.
WritesOn(w) ==
  /\ request[w].at = "touches" =>
       \A r \in standing \cap request[w].before : Excused(r) \/ Keeps(request[w].facts, r)
  /\ request[w].at \in {"describes", "creates"} /\ blind = {} =>
       request[w].before \cap standing = {}
  /\ request[w].at = "falls back" => w \in blind

\* Whose write stands has written to the row that is there, the last of them what it holds.
WritesStand ==
  /\ \A r \in standing : Done(r)
  /\ session = NoSession => standing = {}
  /\ session # NoSession => session.by \in standing /\ session.seen = request[session.by].now

\* The row was last seen by a request no earlier than r, and keeps r's facts.
Stands(r) ==
  /\ session.seen >= request[r].now \/ Overlap(session.by, r)
  /\ Excused(r) \/ Keeps(session.facts, r)

SessionsInv ==
  /\ SessionsTypeOK /\ WritesStand
  /\ \A r \in Requests : Ordered(r) /\ Own(r) /\ WritesOn(r)
  /\ \A r \in standing : Stands(r)

\* No request has arrived and no row is there.
LEMMA SessionsInvInit == SessionsInit => SessionsInv
  <1> SUFFICES ASSUME SessionsInit PROVE SessionsInv  OBVIOUS
  <1>1. SessionsTypeOK
    BY DEF SessionsInit, SessionsTypeOK, Asking, SessionPlaces, Nothing, Metadata
  <1>2. WritesStand /\ \A r \in standing : Stands(r)
    BY DEF SessionsInit, WritesStand
  <1>3. \A r \in Requests :
          /\ request[r].at = "arrives" /\ request[r].now = 0 /\ request[r].before = {}
          /\ hour = 0
    BY DEF SessionsInit
  <1>4. ASSUME NEW r \in Requests PROVE Ordered(r) /\ Own(r) /\ WritesOn(r)
    <2>1. Ordered(r)
      BY <1>3 DEF Ordered
    <2>2. Own(r) /\ WritesOn(r)
      BY <1>3 DEF Own, WritesOn
    <2>. QED  BY <2>1, <2>2
  <1>. QED  BY <1>1, <1>2, <1>4 DEF SessionsInv

\* What no step takes from a request: that it arrived, when, with what, after whom.
Goes(r) ==
  Arrived(r) => /\ request'[r].at # "arrives" /\ request'[r].now = request[r].now
                /\ request'[r].tells = request[r].tells
                /\ request'[r].before = request[r].before

Onwards == blind \subseteq blind' /\ hour <= hour' /\ \A r \in Requests : Goes(r)

\* What excuses a write over a request's facts excuses it from then on.
LEMMA ExcusesStay ==
  ASSUME Onwards, NEW r \in Requests, Arrived(r)
  PROVE  /\ \A q \in Requests : Overlap(q, r) => Overlap(q, r)'
         /\ Excused(r) => Excused(r)'
         /\ \A facts : Keeps(facts, r) => \A f \in request'[r].tells :
              facts[f] \in Requests \ request'[r].before
  <1>1. ASSUME NEW q \in Requests, Overlap(q, r) PROVE Overlap(q, r)'
    <2>1. Arrived(q)
      BY <1>1 DEF Overlap, Arrived
    <2>2. Goes(q) /\ Goes(r)
      BY DEF Onwards
    <2>. QED  BY <1>1, <2>1, <2>2 DEF Overlap, Goes, Arrived
  <1>2. Excused(r) => Excused(r)'
    BY <1>1 DEF Excused, Onwards
  <1>3. Goes(r)
    BY DEF Onwards
  <1>. QED  BY <1>1, <1>2, <1>3 DEF Goes, Keeps

MovesTo(w, place, facts) ==
  \/ request' = [request EXCEPT ![w].at = place, ![w].facts = facts]
  \/ facts = request[w].facts /\ request' = [request EXCEPT ![w].at = place]

\* A request that has arrived moves to another place, perhaps with other facts.
LEMMA RequestGoes ==
  ASSUME SessionsTypeOK, NEW w \in Requests, Arrived(w),
         NEW place \in SessionPlaces \ {"arrives"}, NEW facts \in Metadata,
         MovesTo(w, place, facts),
         blind \subseteq blind', hour' = hour
  PROVE  /\ request' \in [Requests -> Asking] /\ Onwards
         /\ \A r \in Requests \ {w} : request'[r] = request[r]
         /\ request'[w].at = place /\ request'[w].facts = facts
         /\ request'[w].now = request[w].now /\ request'[w].tells = request[w].tells
         /\ request'[w].before = request[w].before
  <1>1. PICK asking : asking = request[w]
    OBVIOUS
  <1>2. asking \in Asking
    BY <1>1 DEF SessionsTypeOK
  <1>3. PICK new : new = [at |-> place, now |-> asking.now, tells |-> asking.tells,
                          facts |-> facts, before |-> asking.before]
    OBVIOUS
  <1>4. /\ new \in Asking /\ new.at = place /\ new.now = asking.now
        /\ new.tells = asking.tells /\ new.facts = facts /\ new.before = asking.before
    BY <1>2, <1>3 DEF Asking
  <1>5. request' = [request EXCEPT ![w] = new]
    <2>1. CASE request' = [request EXCEPT ![w].at = place, ![w].facts = facts]
      <3>1. PICK e : e = [asking EXCEPT !.at = place, !.facts = facts]
        OBVIOUS
      <3>2. e = [at |-> place, now |-> asking.now, tells |-> asking.tells,
                 facts |-> facts, before |-> asking.before]
        BY <1>2, <3>1 DEF Asking
      <3>. QED  BY <1>1, <1>3, <2>1, <3>1, <3>2 DEF SessionsTypeOK
    <2>2. CASE facts = request[w].facts /\ request' = [request EXCEPT ![w].at = place]
      <3>1. [asking EXCEPT !.at = place] = new
        BY <1>1, <1>2, <1>3, <2>2 DEF Asking
      <3>. QED  BY <1>1, <2>2, <3>1 DEF SessionsTypeOK
    <2>. QED  BY <2>1, <2>2 DEF MovesTo
  <1>6. /\ request' \in [Requests -> Asking] /\ request'[w] = new
        /\ \A r \in Requests \ {w} : request'[r] = request[r]
    BY <1>4, <1>5 DEF SessionsTypeOK
  <1>7. \A r \in Requests : Goes(r)
    BY <1>1, <1>4, <1>6 DEF Goes, Arrived
  <1>8. Onwards
    BY <1>7 DEF Onwards, SessionsTypeOK
  <1>. QED  BY <1>1, <1>4, <1>6, <1>8

\* A request that moves without a write leaves the others and the row as they were.
LEMMA RequestMoves ==
  ASSUME SessionsInv, SessionsTypeOK', Onwards, UNCHANGED <<session, standing>>,
         NEW w \in Requests, ~Done(w), \A r \in Requests \ {w} : request'[r] = request[r],
         Ordered(w)', Own(w)', WritesOn(w)'
  PROVE  SessionsInv'
  <1>1. \A r \in standing : Done(r) /\ r # w /\ r \in Requests /\ Arrived(r)
    BY DEF SessionsInv, WritesStand, Done, Arrived, SessionsTypeOK
  <1>2. \A r \in standing : Done(r)' /\ request'[r] = request[r]
    BY <1>1 DEF Done
  <1>3. WritesStand'
    BY <1>2 DEF SessionsInv, WritesStand
  <1>4. ASSUME NEW r \in Requests \ {w} PROVE Ordered(r)' /\ Own(r)' /\ WritesOn(r)'
    <2>1. request'[r] = request[r] /\ Ordered(r) /\ Own(r) /\ WritesOn(r)
      BY DEF SessionsInv
    <2>2. \A q \in request[r].before : q \in Requests /\ q # w /\ Done(q)
      BY <2>1 DEF Ordered, SessionsInv, SessionsTypeOK, Asking
    <2>3. \A q \in request[r].before : request'[q] = request[q]
      BY <2>2
    <2>4. request[r].now \in Nat /\ hour \in Nat /\ hour' \in Nat /\ hour <= hour'
      BY DEF SessionsInv, SessionsTypeOK, Asking, Onwards
    <2>5. request[r].now <= hour'
      BY <2>1, <2>4 DEF Ordered
    <2>6. Ordered(r)'
      BY <2>1, <2>3, <2>5 DEF Ordered, Done
    <2>7. Own(r)'
      BY <2>1 DEF Own
    <2>8. WritesOn(r)'
      <3>1. ASSUME request[r].at = "touches", NEW q \in standing, q \in request[r].before
            PROVE  Excused(q)' \/ Keeps(request[r].facts, q)'
        <4>1. Excused(q) \/ Keeps(request[r].facts, q)
          BY <2>1, <3>1 DEF WritesOn
        <4>2. q \in Requests /\ Arrived(q) /\ request'[q] = request[q]
          BY <1>1, <1>2
        <4>. QED  BY <2>1, <4>1, <4>2, ExcusesStay DEF Keeps
      <3>2. blind' = {} => blind = {}
        BY DEF Onwards
      <3>. QED  BY <2>1, <3>1, <3>2 DEF WritesOn, Onwards, Keeps
    <2>. QED  BY <2>6, <2>7, <2>8
  <1>5. ASSUME NEW r \in standing PROVE Stands(r)'
    <2>1. Stands(r) /\ r \in Requests /\ Arrived(r) /\ request'[r] = request[r]
      BY <1>1, <1>2 DEF SessionsInv
    <2>2. session # NoSession /\ session.by \in Requests
      BY DEF SessionsInv, WritesStand, SessionsTypeOK
    <2>3. Overlap(session.by, r) => Overlap(session.by, r)'
      BY <2>1, <2>2, ExcusesStay
    <2>4. Excused(r) => Excused(r)'
      BY <2>1, ExcusesStay
    <2>5. Keeps(session.facts, r) => Keeps(session.facts, r)'
      BY <2>1 DEF Keeps
    <2>. QED  BY <2>1, <2>3, <2>4, <2>5 DEF Stands
  <1>. QED  BY <1>3, <1>4, <1>5 DEF SessionsInv

\* A write: of facts that keep those of the requests that were done before, or are excused.
LEMMA RowWritten ==
  ASSUME SessionsInv, NEW w \in Requests, Arrived(w), ~Done(w), Wrote(w),
         NEW facts \in Metadata,
         session' = [seen |-> request[w].now, by |-> w, facts |-> facts],
         \A r \in standing \cap request[w].before : Excused(r) \/ Keeps(facts, r),
         Excused(w) \/ Keeps(facts, w)
  PROVE  SessionsInv'
  <1>1. /\ request' = [request EXCEPT ![w].at = "done"] /\ standing' = standing \cup {w}
        /\ UNCHANGED <<blind, hour>>
    BY DEF Wrote, GoTo
  <1>2. SessionsTypeOK /\ request[w] \in Asking /\ request[w].facts \in Metadata
    BY DEF SessionsInv, SessionsTypeOK, Asking
  <1>3. /\ request' \in [Requests -> Asking] /\ Onwards
        /\ \A r \in Requests \ {w} : request'[r] = request[r]
        /\ request'[w].at = "done"
        /\ request'[w].now = request[w].now /\ request'[w].tells = request[w].tells
        /\ request'[w].before = request[w].before
    <2>1. "done" \in SessionPlaces \ {"arrives"}
      BY DEF SessionPlaces
    <2>. QED  BY <1>1, <1>2, <2>1, RequestGoes DEF MovesTo
  <1>4. session' \in Row /\ session' # NoSession
    BY <1>2, HeadersAssumption DEF Row, Asking
  <1>5. SessionsTypeOK'
    BY <1>1, <1>2, <1>3, <1>4 DEF SessionsTypeOK
  <1>6. Onwards
    BY <1>3
  <1>7. \A r \in standing : Done(r) /\ r # w /\ r \in Requests /\ Arrived(r)
    BY DEF SessionsInv, WritesStand, Done, Arrived, SessionsTypeOK
  <1>8. session'.by = w /\ session'.seen = request[w].now /\ session'.facts = facts
    OBVIOUS
  <1>9. WritesStand'
    BY <1>1, <1>2, <1>3, <1>4, <1>7, <1>8 DEF WritesStand, Done
  <1>10. \A r \in Requests : /\ request'[r].now = request[r].now
                             /\ request'[r].before = request[r].before
                             /\ request'[r].tells = request[r].tells
                             /\ Done(r) => Done(r)'
    BY <1>2, <1>3 DEF Done
  <1>11. ASSUME NEW r \in Requests PROVE Ordered(r)' /\ Own(r)'
    <2>1. Ordered(r) /\ Own(r) /\ request[r].before \subseteq Requests
      BY DEF SessionsInv, SessionsTypeOK, Asking
    <2>2. Ordered(r)'
      BY <1>1, <1>10, <2>1 DEF Ordered
    <2>3. Own(r)'
      BY <1>2, <1>3, <2>1 DEF Own
    <2>. QED  BY <2>2, <2>3
  <1>12. ASSUME NEW r \in Requests PROVE WritesOn(r)'
    <2>1. CASE r = w
      BY <1>3, <2>1 DEF WritesOn
    <2>2. CASE r # w
      <3>1. request'[r] = request[r] /\ WritesOn(r) /\ Ordered(r)
        BY <1>3, <2>2 DEF SessionsInv
      <3>2. w \notin request[r].before
        BY <3>1 DEF Ordered
      <3>3. ASSUME request[r].at = "touches", NEW q \in standing, q \in request[r].before
            PROVE  Excused(q)' \/ Keeps(request[r].facts, q)'
        <4>1. Excused(q) \/ Keeps(request[r].facts, q)
          BY <3>1, <3>3 DEF WritesOn
        <4>2. q \in Requests /\ Arrived(q) /\ request'[q] = request[q]
          BY <1>3, <1>7
        <4>. QED  BY <1>6, <3>1, <4>1, <4>2, ExcusesStay DEF Keeps
      <3>. QED  BY <1>1, <3>1, <3>2, <3>3 DEF WritesOn, Keeps
    <2>. QED  BY <2>1, <2>2
  <1>13. Stands(w)'
    <2>1. session'.seen >= request'[w].now
      BY <1>2, <1>3, <1>8 DEF Asking
    <2>2. Excused(w) => Excused(w)'
      BY <1>6, ExcusesStay
    <2>3. Keeps(facts, w) => Keeps(session.facts, w)'
      BY <1>3, <1>8 DEF Keeps
    <2>. QED  BY <2>1, <2>2, <2>3 DEF Stands
  <1>14. ASSUME NEW r \in standing PROVE Stands(r)'
    <2>1. r \in Requests /\ r # w /\ Arrived(r) /\ Done(r) /\ request'[r] = request[r]
      BY <1>3, <1>7
    <2>2. w \notin request[r].before /\ Ordered(w)
      BY DEF SessionsInv, SessionsTypeOK, Ordered
    <2>3. CASE r \in request[w].before
      <3>1. request[r].now <= request[w].now /\ request[r].now \in Nat /\ request[w].now \in Nat
        BY <2>1, <2>2, <2>3 DEF Ordered, SessionsInv, SessionsTypeOK, Asking
      <3>2. session'.seen >= request'[r].now
        BY <1>8, <2>1, <3>1
      <3>3. Excused(r) \/ Keeps(facts, r)
        BY <2>3
      <3>4. Excused(r) => Excused(r)'
        BY <1>6, <2>1, ExcusesStay
      <3>5. Keeps(facts, r) => Keeps(session.facts, r)'
        BY <1>8, <2>1 DEF Keeps
      <3>. QED  BY <3>2, <3>3, <3>4, <3>5 DEF Stands
    <2>4. CASE r \notin request[w].before
      <3>1. Overlap(w, r)
        BY <2>1, <2>2, <2>4 DEF Overlap, Arrived
      <3>2. Overlap(w, r)'
        BY <1>6, <2>1, <3>1, ExcusesStay
      <3>3. Excused(r)' /\ Overlap(session.by, r)'
        BY <1>8, <3>2 DEF Excused
      <3>. QED  BY <3>3 DEF Stands
    <2>. QED  BY <2>3, <2>4
  <1>. QED  BY <1>1, <1>5, <1>9, <1>11, <1>12, <1>13, <1>14 DEF SessionsInv

--------------------------------------------------------------------------------
\* The facts merged have those of the request, and the old ones elsewhere.
LEMMA MergedFacts ==
  ASSUME SessionsTypeOK, NEW r \in Requests, NEW old \in Metadata
  PROVE  /\ Merged(old, r) \in Metadata
         /\ \A f \in Facts : Merged(old, r)[f] = IF f \in request[r].tells THEN r ELSE old[f]
  BY DEF Merged, Metadata

\* A request that comes in is after those that are done.
LEMMA BeginKeeps ==
  ASSUME SessionsInv, NEW r \in Requests, BeginRequest(r)
  PROVE  SessionsInv'
  <1>1. PICK told \in Headers[r] :
          request' = [request EXCEPT ![r] =
                       [at |-> "reads", now |-> hour, tells |-> told, facts |-> Nothing,
                        before |-> {q \in Requests : request[q].at = "done"}]]
    BY DEF BeginRequest
  <1>2. PICK finished : finished = {q \in Requests : request[q].at = "done"}
    OBVIOUS
  <1>3. PICK new : new = [at |-> "reads", now |-> hour, tells |-> told, facts |-> Nothing,
                          before |-> finished]
    OBVIOUS
  <1>4. request[r].at = "arrives" /\ UNCHANGED <<session, standing, blind, hour, mishaps>>
    BY DEF BeginRequest
  <1>5. told \subseteq Facts /\ Nothing \in Metadata /\ hour \in Nat /\ finished \subseteq Requests
    BY <1>2, HeadersAssumption DEF Nothing, Metadata, SessionsInv, SessionsTypeOK
  <1>6. /\ new \in Asking /\ new.at = "reads" /\ new.now = hour /\ new.tells = told
        /\ new.before = finished
    BY <1>3, <1>5 DEF Asking, SessionPlaces
  <1>7. /\ request' \in [Requests -> Asking] /\ request'[r] = new
        /\ \A q \in Requests \ {r} : request'[q] = request[q]
    BY <1>1, <1>2, <1>3, <1>6 DEF SessionsInv, SessionsTypeOK
  <1>8. SessionsTypeOK'
    BY <1>4, <1>7 DEF SessionsInv, SessionsTypeOK
  <1>9. Onwards
    BY <1>4, <1>5, <1>7 DEF Onwards, Goes, Arrived
  <1>10. r \notin finished /\ ~Done(r)
    BY <1>2, <1>4 DEF Done
  <1>11. \A q \in finished : /\ q # r /\ Done(q)' /\ request'[q].now <= hour
    BY <1>2, <1>7, <1>10 DEF Done, SessionsInv, Ordered
  <1>12. Ordered(r)' /\ Own(r)' /\ WritesOn(r)'
    <2>1. request'[r].at = "reads" /\ request'[r].now = hour' /\ request'[r].before = finished
      BY <1>4, <1>6, <1>7
    <2>2. hour' <= hour'
      BY <1>4, <1>5
    <2>3. Ordered(r)'
      BY <1>4, <1>10, <1>11, <2>1, <2>2 DEF Ordered
    <2>4. Own(r)' /\ WritesOn(r)'
      BY <2>1 DEF Own, WritesOn
    <2>. QED  BY <2>3, <2>4
  <1>. QED  BY <1>4, <1>7, <1>8, <1>9, <1>10, <1>12, RequestMoves

\* A request of the row's state that does not write: it is somewhere else, with facts of
\* its own, and its own part of the invariant is to be shown.
LEMMA RequestReads ==
  ASSUME SessionsInv, NEW w \in Requests, Arrived(w), ~Done(w),
         NEW place \in SessionPlaces \ {"arrives"}, NEW facts \in Metadata,
         MovesTo(w, place, facts),
         UNCHANGED <<session, standing, hour>>,
         blind' \subseteq Requests, blind \subseteq blind',
         place \in {"touches", "creates"} => \A f \in request[w].tells : facts[f] = w,
         place = "touches" =>
           \A r \in standing \cap request[w].before : Excused(r) \/ Keeps(facts, r),
         place \in {"describes", "creates"} /\ blind' = {} =>
           request[w].before \cap standing = {},
         place = "falls back" => w \in blind'
  PROVE  SessionsInv'
  <1>1. SessionsTypeOK /\ Ordered(w)
    BY DEF SessionsInv
  <1>2. /\ request' \in [Requests -> Asking] /\ Onwards
        /\ \A r \in Requests \ {w} : request'[r] = request[r]
        /\ request'[w].at = place /\ request'[w].facts = facts
        /\ request'[w].now = request[w].now /\ request'[w].tells = request[w].tells
        /\ request'[w].before = request[w].before
    BY <1>1, RequestGoes
  <1>3. SessionsTypeOK'
    BY <1>1, <1>2 DEF SessionsTypeOK
  <1>4. request[w].before \subseteq Requests \ {w}
    BY <1>1 DEF Ordered, SessionsTypeOK, Asking
  <1>5. Ordered(w)'
    BY <1>1, <1>2, <1>4 DEF Ordered, Done
  <1>6. Own(w)'
    BY <1>2 DEF Own
  <1>7. ASSUME place = "touches", NEW r \in standing, r \in request[w].before
        PROVE  Excused(r)' \/ Keeps(facts, r)'
    <2>1. Excused(r) \/ Keeps(facts, r)
      BY <1>7
    <2>2. r \in Requests /\ Arrived(r) /\ request'[r] = request[r]
      BY <1>1, <1>2, <1>4, <1>7 DEF Ordered, Done, Arrived
    <2>. QED  BY <1>2, <2>1, <2>2, ExcusesStay DEF Keeps
  <1>8. WritesOn(w)'
    BY <1>2, <1>7 DEF WritesOn, Keeps
  <1>. QED  BY <1>2, <1>3, <1>5, <1>6, <1>8, RequestMoves

\* Without a row there is nothing to keep; the facts read with one are kept in the merge.
LEMMA GetRowKeeps ==
  ASSUME SessionsInv, NEW r \in Requests, GetRow(r)
  PROVE  SessionsInv'
  <1>1. request[r].at = "reads" /\ UNCHANGED <<session, standing, blind, hour, mishaps>>
    BY DEF GetRow
  <1>2. Arrived(r) /\ ~Done(r) /\ SessionsTypeOK /\ request[r].facts \in Metadata
    BY <1>1 DEF Arrived, Done, SessionsInv, SessionsTypeOK, Asking
  <1>3. blind \subseteq Requests /\ {"touches", "describes"} \subseteq SessionPlaces \ {"arrives"}
    BY <1>2 DEF SessionsTypeOK, SessionPlaces
  <1>4. CASE session = NoSession
    <2>1. standing = {} /\ request' = [request EXCEPT ![r].at = "describes"]
      BY <1>4 DEF SessionsInv, WritesStand, GetRow, GoTo
    <2>. QED  BY <1>1, <1>2, <1>3, <2>1, RequestReads DEF MovesTo
  <1>5. CASE session # NoSession
    <2>1. PICK facts : facts = Merged(session.facts, r)
      OBVIOUS
    <2>2. request' = [request EXCEPT ![r].at = "touches", ![r].facts = facts]
      BY <1>5, <2>1 DEF GetRow
    <2>3. session.facts \in Metadata
      BY <1>2, <1>5 DEF SessionsTypeOK, Row
    <2>4. /\ facts \in Metadata
          /\ \A f \in Facts : facts[f] = IF f \in request[r].tells THEN r ELSE session.facts[f]
      BY <1>2, <2>1, <2>3, MergedFacts
    <2>5. request[r].tells \subseteq Facts
      BY <1>2 DEF SessionsTypeOK, Asking
    <2>6. ASSUME NEW q \in standing PROVE Excused(q) \/ Keeps(facts, q)
      <3>1. Excused(q) \/ Keeps(session.facts, q)
        BY DEF SessionsInv, Stands
      <3>2. q \in Requests /\ request[q].tells \subseteq Facts /\ r \notin request[q].before
        BY <1>2 DEF SessionsInv, Ordered, SessionsTypeOK, Asking
      <3>. QED  BY <2>4, <3>1, <3>2 DEF Keeps
    <2>. QED  BY <1>1, <1>2, <1>3, <2>2, <2>4, <2>5, <2>6, RequestReads DEF MovesTo
  <1>. QED  BY <1>4, <1>5

\* A touch writes what it has merged, or nothing at all if there is nothing to tell.
LEMMA TouchKeeps ==
  ASSUME SessionsInv, NEW r \in Requests, TouchRow(r)
  PROVE  SessionsInv'
  <1>1. /\ request[r].at = "touches" /\ Arrived(r) /\ ~Done(r)
        /\ SessionsTypeOK /\ Own(r) /\ WritesOn(r) /\ Ordered(r)
        /\ request[r].facts \in Metadata /\ request[r].tells \subseteq Facts
    BY DEF TouchRow, Arrived, Done, SessionsInv, SessionsTypeOK, Asking
  <1>2. CASE session # NoSession /\ session' = Touched(r) /\ Wrote(r)
    <2>1. PICK facts : facts = IF request[r].facts = Nothing THEN session.facts
                                                           ELSE request[r].facts
      OBVIOUS
    <2>2. session.facts \in Metadata
      BY <1>1, <1>2 DEF SessionsTypeOK, Row
    <2>3. facts \in Metadata
      BY <1>1, <2>1, <2>2
    <2>4. session' = [seen |-> request[r].now, by |-> r, facts |-> facts]
      BY <1>2, <2>1 DEF Touched
    <2>5. Keeps(facts, r)
      <3>1. ASSUME NEW f \in request[r].tells PROVE facts[f] = r
        <4>1. request[r].facts[f] = r /\ f \in Facts
          BY <1>1 DEF Own
        <4>2. request[r].facts # Nothing
          BY <4>1, HeadersAssumption DEF Nothing
        <4>. QED  BY <2>1, <4>1, <4>2
      <3>. QED  BY <1>1, <3>1 DEF Keeps, Ordered
    <2>6. ASSUME NEW q \in standing \cap request[r].before PROVE Excused(q) \/ Keeps(facts, q)
      <3>1. Excused(q) \/ Keeps(request[r].facts, q)
        BY <1>1 DEF WritesOn
      <3>2. Excused(q) \/ Keeps(session.facts, q)
        BY DEF SessionsInv, Stands
      <3>. QED  BY <2>1, <3>1, <3>2
    <2>. QED  BY <1>1, <1>2, <2>3, <2>4, <2>5, <2>6, RowWritten
  <1>3. CASE /\ session = NoSession /\ GoTo(r, "describes")
             /\ UNCHANGED <<session, standing, blind, hour, mishaps>>
    <2>1. standing = {} /\ request' = [request EXCEPT ![r].at = "describes"]
      BY <1>3 DEF SessionsInv, WritesStand, GoTo
    <2>2. "describes" \in SessionPlaces \ {"arrives"} /\ blind \subseteq Requests
      BY <1>1 DEF SessionPlaces, SessionsTypeOK
    <2>. QED  BY <1>1, <1>3, <2>1, <2>2, RequestReads DEF MovesTo
  <1>. QED  BY <1>2, <1>3 DEF TouchRow

\* A create tells the facts of the request with what the identity provider says.
LEMMA DescribeKeeps ==
  ASSUME SessionsInv, NEW r \in Requests, DescribeSession(r)
  PROVE  SessionsInv'
  <1>1. PICK told \in {{}, Facts} :
          request' = [request EXCEPT ![r].at = "creates",
                        ![r].facts = Merged([f \in Facts |-> IF f \in told THEN Idp
                                                                            ELSE NoFact], r)]
    BY DEF DescribeSession
  <1>2. PICK old : old = [f \in Facts |-> IF f \in told THEN Idp ELSE NoFact]
    OBVIOUS
  <1>3. PICK facts : facts = Merged(old, r)
    OBVIOUS
  <1>4. MovesTo(r, "creates", facts)
    BY <1>1, <1>2, <1>3 DEF MovesTo
  <1>5. /\ request[r].at = "describes" /\ UNCHANGED <<session, standing, blind, hour, mishaps>>
        /\ Arrived(r) /\ ~Done(r) /\ SessionsTypeOK /\ WritesOn(r)
        /\ request[r].tells \subseteq Facts /\ blind \subseteq Requests
    BY DEF DescribeSession, Arrived, Done, SessionsInv, SessionsTypeOK, Asking
  <1>6. old \in Metadata
    BY <1>2 DEF Metadata
  <1>7. facts \in Metadata /\ \A f \in request[r].tells : facts[f] = r
    BY <1>3, <1>5, <1>6, MergedFacts
  <1>8. blind = {} => request[r].before \cap standing = {}
    BY <1>5 DEF WritesOn
  <1>9. "creates" \in SessionPlaces \ {"arrives"}
    BY DEF SessionPlaces
  <1>10. blind' = {} => request[r].before \cap standing = {}
    BY <1>5, <1>8
  <1>11. blind \subseteq blind' /\ blind' \subseteq Requests
    BY <1>5
  <1>. QED  BY <1>4, <1>5, <1>7, <1>9, <1>10, <1>11, RequestReads

\* A create that finds the writes of others had them overlap, or a statement fail.
LEMMA CreateKeeps ==
  ASSUME SessionsInv, NEW r \in Requests, CreateRow(r)
  PROVE  SessionsInv'
  <1>1. /\ request[r].at = "creates" /\ Wrote(r) /\ Arrived(r) /\ ~Done(r)
        /\ SessionsTypeOK /\ Own(r) /\ WritesOn(r) /\ Ordered(r)
        /\ session' = [seen |-> request[r].now, by |-> r, facts |-> request[r].facts]
        /\ request[r].facts \in Metadata
    BY DEF CreateRow, Arrived, Done, SessionsInv, SessionsTypeOK, Asking
  <1>2. Keeps(request[r].facts, r)
    BY <1>1 DEF Own, Ordered, Keeps
  <1>3. \A q \in standing \cap request[r].before : Excused(q)
    BY <1>1 DEF WritesOn, Excused
  <1>. QED  BY <1>1, <1>2, <1>3, RowWritten

\* A request that falls back has had a statement fail.
LEMMA FallBackKeeps ==
  ASSUME SessionsInv, NEW r \in Requests, FallBack(r)
  PROVE  SessionsInv'
  <1>1. /\ request[r].at = "falls back" /\ Arrived(r) /\ ~Done(r)
        /\ SessionsTypeOK /\ WritesOn(r)
        /\ request[r].facts \in Metadata
    BY DEF FallBack, Arrived, Done, SessionsInv, SessionsTypeOK, Asking
  <1>2. CASE session # NoSession /\ session' = Touched(r) /\ Wrote(r)
    <2>1. PICK facts : facts = IF request[r].facts = Nothing THEN session.facts
                                                           ELSE request[r].facts
      OBVIOUS
    <2>2. session.facts \in Metadata
      BY <1>1, <1>2 DEF SessionsTypeOK, Row
    <2>3. facts \in Metadata
      BY <1>1, <2>1, <2>2
    <2>4. session' = [seen |-> request[r].now, by |-> r, facts |-> facts]
      BY <1>2, <2>1 DEF Touched
    <2>5. \A q \in Requests : Excused(q)
      BY <1>1 DEF WritesOn, Excused
    <2>. QED  BY <1>1, <1>2, <2>3, <2>4, <2>5, RowWritten DEF SessionsTypeOK
  <1>3. CASE /\ session = NoSession /\ GoTo(r, "done")
             /\ UNCHANGED <<session, standing, blind, hour, mishaps>>
    <2>1. request' = [request EXCEPT ![r].at = "done"]
      BY <1>3 DEF GoTo
    <2>2. "done" \in SessionPlaces \ {"arrives"} /\ blind \subseteq Requests
      BY <1>1 DEF SessionPlaces, SessionsTypeOK
    <2>. QED  BY <1>1, <1>3, <2>1, <2>2, RequestReads DEF MovesTo
  <1>. QED  BY <1>2, <1>3 DEF FallBack

\* A statement that fails leaves the row and what the request is to write.
LEMMA FailureKeeps ==
  ASSUME SessionsInv, NEW r \in Requests, StatementFails(r)
  PROVE  SessionsInv'
  <1>1. PICK place : place = AfterFailure(request[r].at)
    OBVIOUS
  <1>2. /\ request[r].at \in {"reads", "touches", "creates", "falls back"}
        /\ request' = [request EXCEPT ![r].at = place]
        /\ blind' = blind \cup {r} /\ UNCHANGED <<session, standing, hour>>
    BY <1>1 DEF StatementFails, GoTo
  <1>3. place \in {"describes", "falls back", "done"}
    BY <1>1, <1>2 DEF AfterFailure
  <1>4. place \in SessionPlaces \ {"arrives"}
    BY <1>3 DEF SessionPlaces
  <1>5. /\ Arrived(r) /\ ~Done(r) /\ SessionsTypeOK /\ request[r].facts \in Metadata
        /\ blind' \subseteq Requests /\ blind' # {}
    BY <1>2 DEF Arrived, Done, SessionsInv, SessionsTypeOK, Asking
  <1>. QED  BY <1>2, <1>3, <1>4, <1>5, RequestReads DEF MovesTo

\* Without the row nothing is left to stand; nothing else moves the requests.
LEMMA DeleteKeeps == ASSUME SessionsInv, DeleteRow PROVE SessionsInv'
  <1>1. session' = NoSession /\ standing' = {} /\ UNCHANGED <<request, blind, hour>>
    BY DEF DeleteRow
  <1>2. SessionsTypeOK' /\ WritesStand'
    BY <1>1 DEF SessionsInv, SessionsTypeOK, WritesStand
  <1>3. \A r \in Requests : Ordered(r)' /\ Own(r)'
    BY <1>1 DEF SessionsInv, Ordered, Own, Done
  <1>4. \A r \in Requests : WritesOn(r)'
    BY <1>1 DEF SessionsInv, WritesOn
  <1>. QED  BY <1>1, <1>2, <1>3, <1>4 DEF SessionsInv

\* Time passes for nobody's request.
LEMMA HourKeeps ==
  ASSUME SessionsInv, UNCHANGED <<session, request, standing, blind>>, hour' \in Nat,
         hour <= hour'
  PROVE  SessionsInv'
  <1>1. SessionsTypeOK' /\ WritesStand'
    BY DEF SessionsInv, SessionsTypeOK, WritesStand, Done
  <1>2. \A r \in Requests : Own(r)'
    BY DEF SessionsInv, Own
  <1>3. ASSUME NEW r \in Requests PROVE Ordered(r)'
    <2>1. Ordered(r) /\ request[r].now \in Nat /\ hour \in Nat
      BY DEF SessionsInv, SessionsTypeOK, Asking
    <2>. QED  BY <2>1 DEF Ordered, Done
  <1>4. \A q, r \in Requests : Overlap(q, r)' = Overlap(q, r)
    BY DEF Overlap
  <1>5. \A r \in Requests : Excused(r)' <=> Excused(r)
    BY <1>4 DEF Excused
  <1>6. \A r \in Requests : WritesOn(r)'
    BY <1>5 DEF SessionsInv, SessionsTypeOK, WritesOn, Keeps
  <1>7. ASSUME NEW r \in standing PROVE Stands(r)'
    <2>1. Stands(r) /\ r \in Requests /\ session.by \in Requests
      BY DEF SessionsInv, WritesStand, SessionsTypeOK
    <2>. QED  BY <1>4, <1>5, <2>1 DEF Stands, Keeps
  <1>. QED  BY <1>1, <1>2, <1>3, <1>6, <1>7 DEF SessionsInv

\* Every step of a session's requests.
LEMMA SessionsInvNext == SessionsInv /\ [SessionsNext]_sessionVars => SessionsInv'
  <1> SUFFICES ASSUME SessionsInv, [SessionsNext]_sessionVars PROVE SessionsInv'  OBVIOUS
  <1>1. ASSUME NEW r \in Requests,
               BeginRequest(r) \/ GetRow(r) \/ TouchRow(r) \/ DescribeSession(r)
                 \/ CreateRow(r) \/ FallBack(r) \/ StatementFails(r)
        PROVE  SessionsInv'
    BY <1>1, BeginKeeps, GetRowKeeps, TouchKeeps, DescribeKeeps, CreateKeeps, FallBackKeeps,
       FailureKeeps
  <1>2. CASE DeleteRow
    BY <1>2, DeleteKeeps
  <1>3. CASE HourPasses \/ UNCHANGED sessionVars
    BY <1>3, HourKeeps DEF HourPasses, sessionVars, SessionsInv, SessionsTypeOK
  <1>. QED  BY <1>1, <1>2, <1>3 DEF SessionsNext

\* For any requests of a session, whatever facts they tell and however their statements
\* interleave and fail: the row was last seen no earlier than any request whose write
\* stands, and keeps its facts, unless another overlapped it (ensureSessionRecord).
THEOREM SessionKeepsFacts == SessionsSpec => []SessionKept
  <1>1. SessionsInv => SessionKept
    BY DEF SessionsInv, SessionsTypeOK, Stands, Excused, Keeps, SessionKept
  <1>. QED  BY <1>1, SessionsInvInit, SessionsInvNext, PTL DEF SessionsSpec

--------------------------------------------------------------------------------
(* Transactions: TransactionsWhole.                                        *)

Places == {"calls", "begins", "runs", "commits", "rolls back", "releases", "returned"}

Call == [at : Places, client : Connections \cup {NoClient}, part : Parts,
         failed : BOOLEAN, unsure : BOOLEAN, threw : BOOLEAN]

TxnTypeOK ==
  /\ pooled \in BOOLEAN
  /\ idle \subseteq Connections
  /\ mode \in [Connections -> {"none", "open", "aborted"}]
  /\ work \in [Connections -> SUBSET (Callers \X Parts)]
  /\ call \in [Callers -> Call]
  /\ database \subseteq Callers \X Parts

\* A caller that has a connection, before, in or after its transaction.
Busy(t) == call[t].at \in {"begins", "runs", "commits", "rolls back", "releases"}

\* Only a pool is asked for connections, and no two callers have the same one.
HasClient(t) == Busy(t) => pooled /\ call[t].client \in Connections \ idle
ClientsApart ==
  \A t, u \in Callers : Busy(t) /\ Busy(u) /\ call[t].client = call[u].client => t = u

\* A connection that is idle, or held before BEGIN or after the end, is in no transaction.
Quiet(c) == mode[c] = "none" /\ work[c] = {}
IdleQuiet == \A c \in idle : Quiet(c)
HeldQuiet(t) == call[t].at \in {"begins", "releases"} => Quiet(call[t].client)

Did(t, p, done) == <<t, p>> \in done
All(t) == Did(t, 1, database) /\ Did(t, 2, database)
None(t) == ~Did(t, 1, database) /\ ~Did(t, 2, database)

\* A transaction holds the statements of its own caller: all so far, if none failed.
WorkIsOwn(t) ==
  /\ call[t].at \in {"runs", "commits", "rolls back"} =>
       work[call[t].client] \subseteq {t} \X Parts
  /\ call[t].at \in {"runs", "commits"} =>
       mode[call[t].client] = (IF call[t].failed THEN "aborted" ELSE "open")
  /\ call[t].at = "runs" /\ ~call[t].failed /\ call[t].part = 2 =>
       Did(t, 1, work[call[t].client])
  /\ call[t].at = "commits" /\ ~call[t].failed =>
       Did(t, 1, work[call[t].client]) /\ Did(t, 2, work[call[t].client])

\* What took effect so far, and what the caller has been told.
PooledEffects(t) ==
  /\ call[t].at \in {"calls", "begins"} => call[t].part = 1 /\ ~call[t].failed
  /\ call[t].at \in {"calls", "begins", "runs", "commits"} =>
       None(t) /\ ~call[t].threw /\ ~call[t].unsure
  /\ call[t].at = "rolls back" =>
       ~call[t].threw /\ (None(t) \/ (call[t].unsure /\ All(t)))
  /\ call[t].at \in {"releases", "returned"} =>
       /\ None(t) \/ All(t)
       /\ ~call[t].threw /\ ~call[t].failed => All(t)
       /\ call[t].threw /\ ~call[t].unsure => None(t)

InlineEffects(t) ==
  /\ call[t].at \in {"calls", "returned"}
  /\ call[t].at = "calls" =>
       ~call[t].threw /\ (call[t].part = 2 /\ ~call[t].failed => Did(t, 1, database))
  /\ call[t].at = "returned" /\ ~call[t].threw /\ ~call[t].failed => All(t)

CallerSound(t) ==
  /\ HasClient(t) /\ HeldQuiet(t) /\ WorkIsOwn(t)
  /\ IF pooled THEN PooledEffects(t) ELSE InlineEffects(t)

TxnInv == TxnTypeOK /\ ClientsApart /\ IdleQuiet /\ \A t \in Callers : CallerSound(t)

--------------------------------------------------------------------------------
\* Before anybody calls, nothing is held or done.
LEMMA TxnInvInit == TransactionsInit => TxnInv
  <1> SUFFICES ASSUME TransactionsInit PROVE TxnInv  OBVIOUS
  <1>1. TxnTypeOK
    BY DEF TransactionsInit, TxnTypeOK, Places, Call, Parts
  <1>2. ClientsApart /\ IdleQuiet
    BY DEF TransactionsInit, ClientsApart, IdleQuiet, Quiet, Busy
  <1>3. ASSUME NEW t \in Callers PROVE CallerSound(t)
    <2>1. /\ call[t].at = "calls" /\ call[t].part = 1
          /\ ~call[t].failed /\ ~call[t].threw /\ ~call[t].unsure
      BY DEF TransactionsInit
    <2>2. HasClient(t) /\ HeldQuiet(t) /\ WorkIsOwn(t)
      BY <2>1 DEF HasClient, HeldQuiet, WorkIsOwn, Busy
    <2>3. database = {}
      BY DEF TransactionsInit
    <2>4. PooledEffects(t) /\ InlineEffects(t)
      BY <2>1, <2>3 DEF PooledEffects, InlineEffects, None, Did
    <2>. QED  BY <2>2, <2>4 DEF CallerSound
  <1>. QED  BY <1>1, <1>2, <1>3 DEF TxnInv

\* What a caller does on its own connection leaves the others sound.
LEMMA OthersStay ==
  ASSUME TxnInv, TxnTypeOK', NEW t \in Callers, NEW u \in Callers \ {t},
         call'[u] = call[u], pooled' = pooled,
         Busy(u) => idle' \cap {call[u].client} = {},
         Busy(u) => /\ mode'[call[u].client] = mode[call[u].client]
                    /\ work'[call[u].client] = work[call[u].client],
         \A p \in Parts : Did(u, p, database') <=> Did(u, p, database)
  PROVE  CallerSound(u)'
  <1>1. CallerSound(u)
    BY DEF TxnInv
  <1>2. Did(u, 1, database') = Did(u, 1, database) /\ Did(u, 2, database') = Did(u, 2, database)
    BY DEF Parts, Did
  <1>3. HasClient(u)' /\ HeldQuiet(u)'
    BY <1>1 DEF CallerSound, HasClient, HeldQuiet, Busy, Quiet, TxnInv, TxnTypeOK
  <1>4. WorkIsOwn(u)'
    BY <1>1 DEF CallerSound, WorkIsOwn, Busy, Did
  <1>5. All(u)' = All(u) /\ None(u)' = None(u)
    BY <1>2 DEF All, None
  <1>6. PooledEffects(u)' = PooledEffects(u)
    BY <1>5 DEF PooledEffects
  <1>7. InlineEffects(u)' = InlineEffects(u)
    BY <1>2, <1>5 DEF InlineEffects
  <1>. QED  BY <1>1, <1>3, <1>4, <1>6, <1>7 DEF CallerSound

\* The others stay sound whatever a caller does on the connection it has.
LEMMA OthersAlone ==
  ASSUME TxnInv, TxnTypeOK', NEW t \in Callers, Busy(t), pooled' = pooled,
         idle' \subseteq idle \cup {call[t].client},
         \A u \in Callers \ {t} : call'[u] = call[u],
         \A c \in Connections \ {call[t].client} : mode'[c] = mode[c] /\ work'[c] = work[c],
         \A u \in Callers \ {t}, p \in Parts : Did(u, p, database') <=> Did(u, p, database)
  PROVE  \A u \in Callers \ {t} : CallerSound(u)'
  <1>. TAKE u \in Callers \ {t}
  <1>1. Busy(u) => call[u].client \in Connections \ {call[t].client} /\ call[u].client \notin idle
    BY DEF TxnInv, ClientsApart, CallerSound, HasClient
  <1>2. /\ Busy(u) => idle' \cap {call[u].client} = {}
        /\ Busy(u) => /\ mode'[call[u].client] = mode[call[u].client]
                      /\ work'[call[u].client] = work[call[u].client]
    BY <1>1
  <1>. QED  BY <1>2, OthersStay

\* A caller that gets no connection leaves them apart, and the idle ones quiet.
LEMMA ClientsAlone ==
  ASSUME TxnInv, NEW t \in Callers, Busy(t), Busy(t)' => call'[t].client = call[t].client,
         \A u \in Callers \ {t} : call'[u] = call[u]
  PROVE  ClientsApart'
  <1>. SUFFICES ASSUME NEW u \in Callers, NEW v \in Callers, Busy(u)', Busy(v)',
                       call'[u].client = call'[v].client
                PROVE  u = v
    BY DEF ClientsApart
  <1>1. Busy(u) /\ Busy(v) /\ call[u].client = call[v].client
    BY DEF Busy
  <1>. QED  BY <1>1 DEF TxnInv, ClientsApart

\* A statement that succeeds joins the work of its own caller.
LEMMA RunStatementKeeps ==
  ASSUME TxnInv, NEW t \in Callers, RunStatement(t)
  PROVE  TxnInv'
  <1>1. CallerSound(t) /\ TxnTypeOK
    BY DEF TxnInv
  <1>2. /\ call'[t].at = Onward(t)
        /\ call'[t].client = call[t].client
        /\ call'[t].part = 2
        /\ call'[t].failed = call[t].failed
        /\ call'[t].unsure = call[t].unsure
        /\ call'[t].threw = call[t].threw
    BY <1>1 DEF RunStatement, Onward, TxnTypeOK, Call, Places
  <1>3. call' \in [Callers -> Call] /\ \A u \in Callers \ {t} : call'[u] = call[u]
    BY <1>1, <1>2 DEF RunStatement, Onward, TxnTypeOK, Call, Places, Parts
  <1>4. TxnTypeOK'
    <2>1. <<t, call[t].part>> \in Callers \X Parts /\ call[t].client \in Connections
      BY <1>1 DEF RunStatement, TxnTypeOK, Call, CallerSound, HasClient, Busy
    <2>2. work' \in [Connections -> SUBSET (Callers \X Parts)]
      BY <1>1, <2>1 DEF RunStatement, TxnTypeOK
    <2>. QED  BY <1>1, <1>3, <2>2 DEF RunStatement, TxnTypeOK
  <1>5. Busy(t) /\ pooled' = pooled /\ idle' \subseteq idle \cup {call[t].client}
    BY DEF RunStatement, Onward, Busy
  <1>6. \A c \in Connections \ {call[t].client} : mode'[c] = mode[c] /\ work'[c] = work[c]
    BY <1>1 DEF RunStatement, Onward, TxnTypeOK
  <1>7. \A u \in Callers \ {t}, p \in Parts : Did(u, p, database') <=> Did(u, p, database)
    BY <1>1 DEF RunStatement, Onward, Did, CallerSound, WorkIsOwn
  <1>8. \A u \in Callers \ {t} : CallerSound(u)'
    BY <1>3, <1>4, <1>5, <1>6, <1>7, OthersAlone
  <1>9. HasClient(t)' /\ HeldQuiet(t)' /\ WorkIsOwn(t)'
    <2>0. call'[t].at \in {"runs", "commits"}
      BY <1>2 DEF Onward
    <2>1. HasClient(t)' /\ HeldQuiet(t)'
      BY <1>1, <1>2, <2>0 DEF RunStatement, CallerSound, HasClient, Busy, HeldQuiet
    <2>2. call[t].client \in Connections /\ call[t].part \in Parts
      BY <1>1 DEF RunStatement, CallerSound, HasClient, Busy, TxnTypeOK, Call
    <2>3. work'[call[t].client] = work[call[t].client] \cup {<<t, call[t].part>>}
      BY <1>1, <2>2 DEF RunStatement, TxnTypeOK
    <2>4. work'[call[t].client] \subseteq {t} \X Parts
      BY <1>1, <2>2, <2>3 DEF RunStatement, CallerSound, WorkIsOwn
    <2>5. Did(t, call[t].part, work'[call[t].client])
      BY <2>3 DEF Did
    <2>6. call[t].part = 2 => Did(t, 1, work'[call[t].client])
      BY <1>1, <2>3 DEF RunStatement, CallerSound, WorkIsOwn, Did
    <2>7. mode' = mode /\ mode[call[t].client] = "open" /\ ~call[t].failed
      BY <1>1 DEF RunStatement, CallerSound, WorkIsOwn
    <2>. QED  BY <1>2, <2>1, <2>2, <2>4, <2>5, <2>6, <2>7 DEF WorkIsOwn, Onward, Parts
  <1>10. IF pooled' THEN PooledEffects(t)' ELSE InlineEffects(t)'
    BY <1>1, <1>2
       DEF RunStatement, Onward, CallerSound, HasClient, Busy, PooledEffects,
           InlineEffects, WorkIsOwn, All, None, Did, TxnTypeOK
  <1>11. ClientsApart'
    BY <1>2, <1>3, <1>5, ClientsAlone DEF Busy
  <1>12. IdleQuiet'
    BY <1>1, <1>2, <1>5, <1>6
       DEF RunStatement, Onward, TxnInv, CallerSound, HasClient, Busy, IdleQuiet,
           HeldQuiet, Quiet, TxnTypeOK
  <1>. QED  BY <1>4, <1>8, <1>9, <1>10, <1>11, <1>12 DEF TxnInv, CallerSound

\* A callback that throws leads to a ROLLBACK, with nothing in effect.
LEMMA CallbackThrowsKeeps ==
  ASSUME TxnInv, NEW t \in Callers, CallbackThrows(t)
  PROVE  TxnInv'
  <1>1. CallerSound(t) /\ TxnTypeOK
    BY DEF TxnInv
  <1>2. /\ call'[t].at = "rolls back"
        /\ call'[t].client = call[t].client
        /\ call'[t].part = call[t].part
        /\ call'[t].failed = call[t].failed
        /\ call'[t].unsure = call[t].unsure
        /\ call'[t].threw = call[t].threw
    BY <1>1 DEF CallbackThrows, Reach, TxnTypeOK, Call, Places
  <1>3. call' \in [Callers -> Call] /\ \A u \in Callers \ {t} : call'[u] = call[u]
    BY <1>1, <1>2 DEF CallbackThrows, Reach, TxnTypeOK, Call, Places, Parts
  <1>4. TxnTypeOK'
    BY <1>1, <1>3 DEF CallbackThrows, Reach, TxnTypeOK, CallerSound, HasClient, Busy
  <1>5. Busy(t) /\ pooled' = pooled /\ idle' \subseteq idle \cup {call[t].client}
    BY DEF CallbackThrows, Reach, Busy
  <1>6. \A c \in Connections \ {call[t].client} : mode'[c] = mode[c] /\ work'[c] = work[c]
    BY <1>1 DEF CallbackThrows, Reach, TxnTypeOK
  <1>7. \A u \in Callers \ {t}, p \in Parts : Did(u, p, database') <=> Did(u, p, database)
    BY <1>1 DEF CallbackThrows, Reach, Did, CallerSound, WorkIsOwn
  <1>8. \A u \in Callers \ {t} : CallerSound(u)'
    BY <1>3, <1>4, <1>5, <1>6, <1>7, OthersAlone
  <1>9. HasClient(t)' /\ HeldQuiet(t)' /\ WorkIsOwn(t)'
    BY <1>1, <1>2
       DEF CallbackThrows, Reach, CallerSound, HasClient, Busy, HeldQuiet, Quiet,
           WorkIsOwn, Did, TxnTypeOK
  <1>10. IF pooled' THEN PooledEffects(t)' ELSE InlineEffects(t)'
    BY <1>1, <1>2
       DEF CallbackThrows, Reach, CallerSound, HasClient, Busy, PooledEffects,
           InlineEffects, WorkIsOwn, All, None, Did, TxnTypeOK
  <1>11. ClientsApart'
    BY <1>2, <1>3, <1>5, ClientsAlone DEF Busy
  <1>12. IdleQuiet'
    BY <1>1, <1>2, <1>5, <1>6
       DEF CallbackThrows, Reach, TxnInv, CallerSound, HasClient, Busy, IdleQuiet,
           HeldQuiet, Quiet, TxnTypeOK
  <1>. QED  BY <1>4, <1>8, <1>9, <1>10, <1>11, <1>12 DEF TxnInv, CallerSound

\* COMMIT puts all the work of an open transaction into effect, and none of an aborted one.
LEMMA CommitKeeps ==
  ASSUME TxnInv, NEW t \in Callers, Commit(t)
  PROVE  TxnInv'
  <1>1. CallerSound(t) /\ TxnTypeOK
    BY DEF TxnInv
  <1>2. /\ call'[t].at = "releases"
        /\ call'[t].client = call[t].client
        /\ call'[t].part = call[t].part
        /\ call'[t].failed = call[t].failed
        /\ call'[t].unsure = call[t].unsure
        /\ call'[t].threw = call[t].threw
    BY <1>1 DEF Commit, Reach, Ended, TxnTypeOK, Call, Places
  <1>3. call' \in [Callers -> Call] /\ \A u \in Callers \ {t} : call'[u] = call[u]
    BY <1>1, <1>2 DEF Commit, Reach, Ended, TxnTypeOK, Call, Places, Parts
  <1>4. TxnTypeOK'
    BY <1>1, <1>3 DEF Commit, Reach, Ended, TxnTypeOK, CallerSound, HasClient, Busy
  <1>5. Busy(t) /\ pooled' = pooled /\ idle' \subseteq idle \cup {call[t].client}
    BY DEF Commit, Reach, Ended, Busy
  <1>6. \A c \in Connections \ {call[t].client} : mode'[c] = mode[c] /\ work'[c] = work[c]
    BY <1>1 DEF Commit, Reach, Ended, TxnTypeOK
  <1>7. \A u \in Callers \ {t}, p \in Parts : Did(u, p, database') <=> Did(u, p, database)
    BY <1>1 DEF Commit, Reach, Ended, Did, CallerSound, WorkIsOwn
  <1>8. \A u \in Callers \ {t} : CallerSound(u)'
    BY <1>3, <1>4, <1>5, <1>6, <1>7, OthersAlone
  <1>9. HasClient(t)' /\ HeldQuiet(t)' /\ WorkIsOwn(t)'
    BY <1>1, <1>2
       DEF Commit, Reach, Ended, CallerSound, HasClient, Busy, HeldQuiet, Quiet,
           WorkIsOwn, Did, TxnTypeOK
  <1>10. IF pooled' THEN PooledEffects(t)' ELSE InlineEffects(t)'
    BY <1>1, <1>2
       DEF Commit, Reach, Ended, CallerSound, HasClient, Busy, PooledEffects,
           InlineEffects, WorkIsOwn, All, None, Did, TxnTypeOK
  <1>11. ClientsApart'
    BY <1>2, <1>3, <1>5, ClientsAlone DEF Busy
  <1>12. IdleQuiet'
    BY <1>1, <1>2, <1>5, <1>6
       DEF Commit, Reach, Ended, TxnInv, CallerSound, HasClient, Busy, IdleQuiet,
           HeldQuiet, Quiet, TxnTypeOK
  <1>. QED  BY <1>4, <1>8, <1>9, <1>10, <1>11, <1>12 DEF TxnInv, CallerSound

\* After ROLLBACK the connection is quiet and the caller is told of the failure.
LEMMA RollBackKeeps ==
  ASSUME TxnInv, NEW t \in Callers, RollBack(t)
  PROVE  TxnInv'
  <1>1. CallerSound(t) /\ TxnTypeOK
    BY DEF TxnInv
  <1>2. /\ call'[t].at = "releases"
        /\ call'[t].client = call[t].client
        /\ call'[t].part = call[t].part
        /\ call'[t].failed = call[t].failed
        /\ call'[t].unsure = call[t].unsure
        /\ call'[t].threw = TRUE
    BY <1>1 DEF RollBack, Ended, TxnTypeOK, Call, Places
  <1>3. call' \in [Callers -> Call] /\ \A u \in Callers \ {t} : call'[u] = call[u]
    BY <1>1, <1>2 DEF RollBack, Ended, TxnTypeOK, Call, Places, Parts
  <1>4. TxnTypeOK'
    BY <1>1, <1>3 DEF RollBack, Ended, TxnTypeOK, CallerSound, HasClient, Busy
  <1>5. Busy(t) /\ pooled' = pooled /\ idle' \subseteq idle \cup {call[t].client}
    BY DEF RollBack, Ended, Busy
  <1>6. \A c \in Connections \ {call[t].client} : mode'[c] = mode[c] /\ work'[c] = work[c]
    BY <1>1 DEF RollBack, Ended, TxnTypeOK
  <1>7. \A u \in Callers \ {t}, p \in Parts : Did(u, p, database') <=> Did(u, p, database)
    BY <1>1 DEF RollBack, Ended, Did, CallerSound, WorkIsOwn
  <1>8. \A u \in Callers \ {t} : CallerSound(u)'
    BY <1>3, <1>4, <1>5, <1>6, <1>7, OthersAlone
  <1>9. HasClient(t)' /\ HeldQuiet(t)' /\ WorkIsOwn(t)'
    BY <1>1, <1>2
       DEF RollBack, Ended, CallerSound, HasClient, Busy, HeldQuiet, Quiet, WorkIsOwn,
           Did, TxnTypeOK
  <1>10. IF pooled' THEN PooledEffects(t)' ELSE InlineEffects(t)'
    BY <1>1, <1>2
       DEF RollBack, Ended, CallerSound, HasClient, Busy, PooledEffects, InlineEffects,
           WorkIsOwn, All, None, Did, TxnTypeOK
  <1>11. ClientsApart'
    BY <1>2, <1>3, <1>5, ClientsAlone DEF Busy
  <1>12. IdleQuiet'
    BY <1>1, <1>2, <1>5, <1>6
       DEF RollBack, Ended, TxnInv, CallerSound, HasClient, Busy, IdleQuiet, HeldQuiet,
           Quiet, TxnTypeOK
  <1>. QED  BY <1>4, <1>8, <1>9, <1>10, <1>11, <1>12 DEF TxnInv, CallerSound

\* With the connection goes the work on it, unless only the answer of COMMIT was lost.
LEMMA LoseConnectionKeeps ==
  ASSUME TxnInv, NEW t \in Callers, LoseConnection(t)
  PROVE  TxnInv'
  <1>1. CallerSound(t) /\ TxnTypeOK
    BY DEF TxnInv
  <1>2. /\ call'[t].at = "rolls back"
        /\ call'[t].client = call[t].client
        /\ call'[t].part = call[t].part
        /\ call'[t].failed = call[t].failed
        /\ call'[t].unsure = (call[t].unsure \/ call[t].at = "commits")
        /\ call'[t].threw = call[t].threw
    BY <1>1 DEF LoseConnection, Ended, TxnTypeOK, Call, Places
  <1>3. call' \in [Callers -> Call] /\ \A u \in Callers \ {t} : call'[u] = call[u]
    BY <1>1, <1>2 DEF LoseConnection, Ended, TxnTypeOK, Call, Places, Parts
  <1>4. TxnTypeOK'
    BY <1>1, <1>3 DEF LoseConnection, Ended, TxnTypeOK, CallerSound, HasClient, Busy
  <1>5. Busy(t) /\ pooled' = pooled /\ idle' \subseteq idle \cup {call[t].client}
    BY DEF LoseConnection, Ended, Busy
  <1>6. \A c \in Connections \ {call[t].client} : mode'[c] = mode[c] /\ work'[c] = work[c]
    BY <1>1 DEF LoseConnection, Ended, TxnTypeOK
  <1>7. \A u \in Callers \ {t}, p \in Parts : Did(u, p, database') <=> Did(u, p, database)
    <2>1. CASE database' = database
      BY <2>1
    <2>2. CASE database' # database
      <3>1. /\ database' = database \cup work[call[t].client]
            /\ work[call[t].client] \subseteq {t} \X Parts
        BY <1>1, <2>2 DEF LoseConnection, CallerSound, WorkIsOwn
      <3>. QED  BY <3>1 DEF Did
    <2>. QED  BY <2>1, <2>2
  <1>8. \A u \in Callers \ {t} : CallerSound(u)'
    BY <1>3, <1>4, <1>5, <1>6, <1>7, OthersAlone
  <1>9. HasClient(t)' /\ HeldQuiet(t)' /\ WorkIsOwn(t)'
    BY <1>1, <1>2
       DEF LoseConnection, Ended, CallerSound, HasClient, Busy, HeldQuiet, Quiet,
           WorkIsOwn, Did, TxnTypeOK
  <1>10. IF pooled' THEN PooledEffects(t)' ELSE InlineEffects(t)'
    BY <1>1, <1>2
       DEF LoseConnection, Ended, CallerSound, HasClient, Busy, PooledEffects,
           InlineEffects, WorkIsOwn, All, None, Did, TxnTypeOK
  <1>11. ClientsApart'
    BY <1>2, <1>3, <1>5, ClientsAlone DEF Busy
  <1>12. IdleQuiet'
    BY <1>1, <1>2, <1>5, <1>6
       DEF LoseConnection, Ended, TxnInv, CallerSound, HasClient, Busy, IdleQuiet,
           HeldQuiet, Quiet, TxnTypeOK
  <1>. QED  BY <1>4, <1>8, <1>9, <1>10, <1>11, <1>12 DEF TxnInv, CallerSound

\* A connection is given back with no transaction left on it.
LEMMA ReleaseClientKeeps ==
  ASSUME TxnInv, NEW t \in Callers, ReleaseClient(t)
  PROVE  TxnInv'
  <1>1. CallerSound(t) /\ TxnTypeOK
    BY DEF TxnInv
  <1>2. /\ call'[t].at = "returned"
        /\ call'[t].client = NoClient
        /\ call'[t].part = call[t].part
        /\ call'[t].failed = call[t].failed
        /\ call'[t].unsure = call[t].unsure
        /\ call'[t].threw = call[t].threw
    BY <1>1 DEF ReleaseClient, TxnTypeOK, Call, Places
  <1>3. call' \in [Callers -> Call] /\ \A u \in Callers \ {t} : call'[u] = call[u]
    BY <1>1, <1>2 DEF ReleaseClient, TxnTypeOK, Call, Places, Parts
  <1>4. TxnTypeOK'
    BY <1>1, <1>3 DEF ReleaseClient, TxnTypeOK, CallerSound, HasClient, Busy
  <1>5. Busy(t) /\ pooled' = pooled /\ idle' \subseteq idle \cup {call[t].client}
    BY DEF ReleaseClient, Busy
  <1>6. \A c \in Connections \ {call[t].client} : mode'[c] = mode[c] /\ work'[c] = work[c]
    BY <1>1 DEF ReleaseClient, TxnTypeOK
  <1>7. \A u \in Callers \ {t}, p \in Parts : Did(u, p, database') <=> Did(u, p, database)
    BY <1>1 DEF ReleaseClient, Did, CallerSound, WorkIsOwn
  <1>8. \A u \in Callers \ {t} : CallerSound(u)'
    BY <1>3, <1>4, <1>5, <1>6, <1>7, OthersAlone
  <1>9. HasClient(t)' /\ HeldQuiet(t)' /\ WorkIsOwn(t)'
    BY <1>1, <1>2
       DEF ReleaseClient, CallerSound, HasClient, Busy, HeldQuiet, Quiet, WorkIsOwn, Did,
           TxnTypeOK
  <1>10. IF pooled' THEN PooledEffects(t)' ELSE InlineEffects(t)'
    BY <1>1, <1>2
       DEF ReleaseClient, CallerSound, HasClient, Busy, PooledEffects, InlineEffects,
           WorkIsOwn, All, None, Did, TxnTypeOK
  <1>11. ClientsApart'
    BY <1>2, <1>3, <1>5, ClientsAlone DEF Busy
  <1>12. IdleQuiet'
    BY <1>1, <1>2, <1>5, <1>6
       DEF ReleaseClient, TxnInv, CallerSound, HasClient, Busy, IdleQuiet, HeldQuiet,
           Quiet, TxnTypeOK
  <1>. QED  BY <1>4, <1>8, <1>9, <1>10, <1>11, <1>12 DEF TxnInv, CallerSound

\* BEGIN finds the connection quiet, so it opens an empty transaction.
LEMMA BeginTransactionKeeps ==
  ASSUME TxnInv, NEW t \in Callers, BeginTransaction(t)
  PROVE  TxnInv'
  <1>1. CallerSound(t) /\ TxnTypeOK
    BY DEF TxnInv
  <1>2. /\ mode[call[t].client] = "none" /\ work[call[t].client] = {}
        /\ call' = [call EXCEPT ![t].at = "runs"]
        /\ mode' = [mode EXCEPT ![call[t].client] = "open"]
    BY <1>1 DEF BeginTransaction, CallerSound, HeldQuiet, Quiet, Reach
  <1>3. /\ call'[t].at = "runs"
        /\ call'[t].client = call[t].client
        /\ call'[t].part = call[t].part
        /\ call'[t].failed = call[t].failed
        /\ call'[t].unsure = call[t].unsure
        /\ call'[t].threw = call[t].threw
    BY <1>2, <1>1 DEF TxnTypeOK, Call, Places
  <1>4. call' \in [Callers -> Call] /\ \A u \in Callers \ {t} : call'[u] = call[u]
    BY <1>1, <1>2, <1>3 DEF TxnTypeOK, Call, Places, Parts
  <1>5. TxnTypeOK'
    BY <1>2, <1>1, <1>4 DEF BeginTransaction, Reach, TxnTypeOK, CallerSound, HasClient, Busy
  <1>6. Busy(t) /\ pooled' = pooled /\ idle' \subseteq idle \cup {call[t].client}
    BY DEF BeginTransaction, Reach, Busy
  <1>7. \A c \in Connections \ {call[t].client} : mode'[c] = mode[c] /\ work'[c] = work[c]
    BY <1>1 DEF BeginTransaction, Reach, TxnTypeOK
  <1>8. \A u \in Callers \ {t}, p \in Parts : Did(u, p, database') <=> Did(u, p, database)
    BY <1>1 DEF BeginTransaction, Reach, Did, CallerSound, WorkIsOwn
  <1>9. \A u \in Callers \ {t} : CallerSound(u)'
    BY <1>4, <1>5, <1>6, <1>7, <1>8, OthersAlone
  <1>10. HasClient(t)' /\ HeldQuiet(t)' /\ WorkIsOwn(t)'
    <2>1. HasClient(t)' /\ HeldQuiet(t)'
      BY <1>1, <1>3 DEF BeginTransaction, CallerSound, HasClient, Busy, HeldQuiet
    <2>2. mode'[call[t].client] = "open" /\ work'[call[t].client] = {}
      BY <1>2, <1>1 DEF BeginTransaction, CallerSound, HasClient, Busy, TxnTypeOK
    <2>3. ~call[t].failed /\ call[t].part = 1
      BY <1>1 DEF BeginTransaction, CallerSound, HasClient, Busy, PooledEffects
    <2>. QED  BY <1>3, <2>1, <2>2, <2>3 DEF WorkIsOwn
  <1>11. IF pooled' THEN PooledEffects(t)' ELSE InlineEffects(t)'
    BY <1>1, <1>2, <1>3
       DEF BeginTransaction, Reach, CallerSound, HasClient, Busy, PooledEffects,
           InlineEffects, WorkIsOwn, All, None, Did, TxnTypeOK
  <1>12. ClientsApart'
    BY <1>3, <1>4, <1>6, ClientsAlone DEF Busy
  <1>13. IdleQuiet'
    BY <1>1, <1>3, <1>6, <1>7
       DEF BeginTransaction, Reach, TxnInv, CallerSound, HasClient, Busy, IdleQuiet,
           HeldQuiet, Quiet, TxnTypeOK
  <1>. QED  BY <1>5, <1>9, <1>10, <1>11, <1>12, <1>13 DEF TxnInv, CallerSound

\* A failed statement aborts the transaction, whatever the callback makes of it.
LEMMA StatementErrsKeeps ==
  ASSUME TxnInv, NEW t \in Callers, StatementErrs(t)
  PROVE  TxnInv'
  <1>1. CallerSound(t) /\ TxnTypeOK
    BY DEF TxnInv
  <1>2. PICK place \in {"rolls back", "runs", "commits"} :
          call' = [call EXCEPT ![t].at = place, ![t].failed = TRUE, ![t].part = 2]
    BY DEF StatementErrs, Onward
  <1>3. /\ call'[t].at = place
        /\ call'[t].client = call[t].client
        /\ call'[t].part = 2
        /\ call'[t].failed = TRUE
        /\ call'[t].unsure = call[t].unsure
        /\ call'[t].threw = call[t].threw
    BY <1>2, <1>1 DEF TxnTypeOK, Call
  <1>4. call' \in [Callers -> Call] /\ \A u \in Callers \ {t} : call'[u] = call[u]
    <2>1. call[t] \in Call /\ call' = [call EXCEPT ![t] = call'[t]]
      BY <1>2, <1>1 DEF TxnTypeOK
    <2>2. call'[t] = [call[t] EXCEPT !.at = place, !.failed = TRUE, !.part = 2]
      BY <1>2, <1>1 DEF TxnTypeOK
    <2>3. place \in Places /\ 2 \in Parts
      BY DEF Places, Parts
    <2>4. call'[t] \in Call
      BY <2>1, <2>2, <2>3 DEF Call
    <2>. QED  BY <1>1, <2>1, <2>4 DEF TxnTypeOK
  <1>5. TxnTypeOK'
    BY <1>2, <1>1, <1>4 DEF StatementErrs, Onward, TxnTypeOK, CallerSound, HasClient, Busy
  <1>6. Busy(t) /\ pooled' = pooled /\ idle' \subseteq idle \cup {call[t].client}
    BY DEF StatementErrs, Onward, Busy
  <1>7. \A c \in Connections \ {call[t].client} : mode'[c] = mode[c] /\ work'[c] = work[c]
    BY <1>2, <1>1 DEF StatementErrs, Onward, TxnTypeOK
  <1>8. \A u \in Callers \ {t}, p \in Parts : Did(u, p, database') <=> Did(u, p, database)
    BY <1>2, <1>1 DEF StatementErrs, Onward, Did, CallerSound, WorkIsOwn
  <1>9. \A u \in Callers \ {t} : CallerSound(u)'
    BY <1>4, <1>5, <1>6, <1>7, <1>8, OthersAlone
  <1>10. HasClient(t)' /\ HeldQuiet(t)' /\ WorkIsOwn(t)'
    BY <1>1, <1>2, <1>3
       DEF StatementErrs, Onward, CallerSound, HasClient, Busy, HeldQuiet, Quiet,
           WorkIsOwn, Did, TxnTypeOK
  <1>11. IF pooled' THEN PooledEffects(t)' ELSE InlineEffects(t)'
    BY <1>1, <1>2, <1>3
       DEF StatementErrs, Onward, CallerSound, HasClient, Busy, PooledEffects,
           InlineEffects, WorkIsOwn, All, None, Did, TxnTypeOK
  <1>12. ClientsApart'
    BY <1>3, <1>4, <1>6, ClientsAlone DEF Busy
  <1>13. IdleQuiet'
    BY <1>1, <1>2, <1>3, <1>6, <1>7
       DEF StatementErrs, Onward, TxnInv, CallerSound, HasClient, Busy, IdleQuiet,
           HeldQuiet, Quiet, TxnTypeOK
  <1>. QED  BY <1>5, <1>9, <1>10, <1>11, <1>12, <1>13 DEF TxnInv, CallerSound

\* An idle connection is quiet and comes to one caller.
LEMMA AcquireClientKeeps ==
  ASSUME TxnInv, NEW t \in Callers, AcquireClient(t)
  PROVE  TxnInv'
  <1>1. CallerSound(t) /\ TxnTypeOK /\ IdleQuiet
    BY DEF TxnInv
  <1>2. PICK c \in idle : /\ idle' = idle \ {c}
                          /\ call' = [call EXCEPT ![t].at = "begins", ![t].client = c]
    BY DEF AcquireClient
  <1>3. /\ call'[t].at = "begins"
        /\ call'[t].client = c
        /\ call'[t].part = call[t].part
        /\ call'[t].failed = call[t].failed
        /\ call'[t].unsure = call[t].unsure
        /\ call'[t].threw = call[t].threw
    BY <1>1, <1>2 DEF TxnTypeOK, Call
  <1>4. call' \in [Callers -> Call] /\ \A u \in Callers \ {t} : call'[u] = call[u]
    BY <1>1, <1>2, <1>3 DEF TxnTypeOK, Call, Places
  <1>5. TxnTypeOK'
    BY <1>1, <1>2, <1>4 DEF AcquireClient, TxnTypeOK
  <1>6. \A u \in Callers \ {t} : CallerSound(u)'
    <2>. TAKE u \in Callers \ {t}
    <2>1. Busy(u) => idle' \cap {call[u].client} = {}
      BY <1>2 DEF TxnInv, CallerSound, HasClient
    <2>. QED  BY <1>4, <1>5, <2>1, OthersStay DEF AcquireClient
  <1>7. HasClient(t)' /\ HeldQuiet(t)' /\ WorkIsOwn(t)'
    BY <1>1, <1>2, <1>3
       DEF AcquireClient, HasClient, HeldQuiet, Quiet, IdleQuiet, WorkIsOwn, TxnTypeOK
  <1>8. IF pooled' THEN PooledEffects(t)' ELSE InlineEffects(t)'
    BY <1>1, <1>3 DEF AcquireClient, CallerSound, PooledEffects, All, None
  <1>9. ClientsApart'
    <2>. SUFFICES ASSUME NEW u \in Callers, NEW v \in Callers, Busy(u)', Busy(v)',
                         call'[u].client = call'[v].client
                  PROVE  u = v
      BY DEF ClientsApart
    <2>1. \A x \in Callers \ {t} : Busy(x)' => call'[x].client # c
      BY <1>2, <1>4 DEF TxnInv, CallerSound, HasClient, Busy
    <2>2. CASE u = t \/ v = t
      BY <1>3, <2>1, <2>2
    <2>3. CASE u # t /\ v # t
      BY <1>4, <2>3 DEF TxnInv, ClientsApart, Busy
    <2>. QED  BY <2>2, <2>3
  <1>10. IdleQuiet'
    BY <1>1, <1>2 DEF AcquireClient, IdleQuiet, Quiet
  <1>. QED  BY <1>5, <1>6, <1>7, <1>8, <1>9, <1>10 DEF TxnInv, CallerSound

\* Without a pool each statement takes effect by itself.
LEMMA RunInlineKeeps ==
  ASSUME TxnInv, NEW t \in Callers, RunInline(t)
  PROVE  TxnInv'
  <1>1. CallerSound(t) /\ TxnTypeOK /\ IdleQuiet /\ ~pooled
    BY DEF TxnInv, RunInline
  <1>2. call[t] \in Call /\ call[t].at = "calls" /\ call[t].part \in Parts
    BY <1>1 DEF RunInline, TxnTypeOK, Call
  <1>3. PICK place \in {"calls", "returned"}, failed \in BOOLEAN, threw \in BOOLEAN :
          /\ call' = [call EXCEPT ![t].part = 2, ![t].failed = failed, ![t].threw = threw,
                                  ![t].at = place]
          /\ \/ /\ database' = database \cup {<<t, call[t].part>>}
                /\ failed = call[t].failed /\ threw = call[t].threw
                /\ place = IF call[t].part = 2 THEN "returned" ELSE "calls"
             \/ /\ database' = database /\ failed
                /\ place = IF threw \/ call[t].part = 2 THEN "returned" ELSE "calls"
    <2>1. CASE database' = database \cup {<<t, call[t].part>>} /\
               call' = [call EXCEPT ![t].part = 2,
                                    ![t].at = IF call[t].part = 2 THEN "returned" ELSE @]
      <3>. DEFINE place == IF call[t].part = 2 THEN "returned" ELSE "calls"
      <3>1. call' = [call EXCEPT ![t].part = 2, ![t].failed = call[t].failed,
                                 ![t].threw = call[t].threw, ![t].at = place]
        BY <1>1, <1>2, <2>1 DEF TxnTypeOK, Call
      <3>. QED  BY <1>2, <2>1, <3>1 DEF Call
    <2>2. CASE \E thrown \in BOOLEAN : database' = database /\
               call' = [call EXCEPT ![t].part = 2, ![t].failed = TRUE, ![t].threw = thrown,
                          ![t].at = IF thrown \/ call[t].part = 2 THEN "returned" ELSE @]
      <3>1. PICK thrown \in BOOLEAN : database' = database /\
               call' = [call EXCEPT ![t].part = 2, ![t].failed = TRUE, ![t].threw = thrown,
                          ![t].at = IF thrown \/ call[t].part = 2 THEN "returned" ELSE @]
        BY <2>2
      <3>. DEFINE place == IF thrown \/ call[t].part = 2 THEN "returned" ELSE "calls"
      <3>2. call' = [call EXCEPT ![t].part = 2, ![t].failed = TRUE, ![t].threw = thrown,
                              ![t].at = place]
        BY <1>1, <1>2, <3>1 DEF TxnTypeOK, Call
      <3>. QED  BY <3>1, <3>2
    <2>. QED  BY <2>1, <2>2 DEF RunInline
  <1>4. /\ call'[t].failed = failed /\ call'[t].threw = threw /\ call'[t].at = place
        /\ call'[t].part = 2 /\ call'[t].client = call[t].client
        /\ call'[t].unsure = call[t].unsure
    BY <1>1, <1>3 DEF TxnTypeOK, Call
  <1>5. \/ /\ database' = database \cup {<<t, call[t].part>>}
           /\ call'[t].failed = call[t].failed /\ call'[t].threw = call[t].threw
           /\ call'[t].at = IF call[t].part = 2 THEN "returned" ELSE "calls"
        \/ /\ database' = database /\ call'[t].failed
           /\ call'[t].at = IF call'[t].threw \/ call[t].part = 2 THEN "returned" ELSE "calls"
    BY <1>4, <1>3
  <1>6. call' \in [Callers -> Call] /\ \A u \in Callers \ {t} : call'[u] = call[u]
    <2>1. call' = [call EXCEPT ![t] = call'[t]]
      BY <1>1, <1>3 DEF TxnTypeOK
    <2>2. call'[t] = [call[t] EXCEPT !.part = 2, !.failed = failed, !.threw = threw, !.at = place]
      BY <1>1, <1>3 DEF TxnTypeOK
    <2>3. place \in Places /\ 2 \in Parts
      BY DEF Places, Parts
    <2>4. call'[t] \in Call
      BY <1>2, <2>2, <2>3 DEF Call
    <2>. QED  BY <1>1, <2>1, <2>4 DEF TxnTypeOK
  <1>7. TxnTypeOK'
    <2>1. <<t, call[t].part>> \in Callers \X Parts
      BY <1>2
    <2>2. database' \subseteq Callers \X Parts
      BY <1>1, <1>5, <2>1 DEF TxnTypeOK
    <2>. QED  BY <1>1, <1>6, <2>2 DEF RunInline, TxnTypeOK
  <1>8. \A u \in Callers \ {t} : CallerSound(u)'
    <2>. TAKE u \in Callers \ {t}
    <2>1. ~Busy(u)
      BY <1>1 DEF TxnInv, CallerSound, HasClient
    <2>2. \A p \in Parts : Did(u, p, database') <=> Did(u, p, database)
      BY <1>5 DEF Did
    <2>. QED  BY <1>6, <1>7, <2>1, <2>2, OthersStay DEF RunInline
  <1>9. CallerSound(t)'
    <2>1. call'[t].at \in {"calls", "returned"} /\ ~pooled'
      BY <1>1, <1>5 DEF RunInline
    <2>2. HasClient(t)' /\ HeldQuiet(t)' /\ WorkIsOwn(t)'
      BY <2>1 DEF HasClient, HeldQuiet, WorkIsOwn, Busy
    <2>3. InlineEffects(t)'
      BY <1>1, <1>2, <1>4, <1>5, <2>1 DEF CallerSound, InlineEffects, All, Did, Parts
    <2>. QED  BY <2>1, <2>2, <2>3 DEF CallerSound
  <1>10. ClientsApart'
    BY <1>1, <1>8, <1>9 DEF CallerSound, HasClient, ClientsApart, RunInline
  <1>11. IdleQuiet'
    BY <1>1 DEF RunInline, IdleQuiet, Quiet
  <1>. QED  BY <1>7, <1>8, <1>9, <1>10, <1>11 DEF TxnInv

--------------------------------------------------------------------------------
\* The invariant of runInTransaction: what every caller holds, has done and was told.
THEOREM TxnInvHolds == TransactionsSpec => []TxnInv
  <1>1. TransactionsInit => TxnInv
    BY TxnInvInit
  <1>2. TxnInv /\ [TransactionsNext]_transactionVars => TxnInv'
    <2>. SUFFICES ASSUME TxnInv, [TransactionsNext]_transactionVars PROVE TxnInv'
      OBVIOUS
    <2>1. CASE UNCHANGED transactionVars
      BY <2>1
         DEF transactionVars, TxnInv, TxnTypeOK, ClientsApart, IdleQuiet, Quiet,
             CallerSound,
              HasClient, HeldQuiet, WorkIsOwn, PooledEffects, InlineEffects, Busy, All, None, Did
    <2>2. CASE TransactionsNext
      BY <2>2, AcquireClientKeeps, BeginTransactionKeeps, RunStatementKeeps, StatementErrsKeeps,
         CallbackThrowsKeeps, CommitKeeps, RollBackKeeps, LoseConnectionKeeps,
         ReleaseClientKeeps, RunInlineKeeps DEF TransactionsNext
    <2>. QED  BY <2>1, <2>2
  <1>. QED  BY <1>1, <1>2, PTL DEF TransactionsSpec

\* What a caller of runInTransaction is told is what the database holds.
THEOREM TransactionsAreWhole == TransactionsSpec => []TransactionsWhole
  <1>1. TxnInv => TransactionsWhole
    <2>. SUFFICES ASSUME TxnInv, NEW t \in Callers, call[t].at = "returned"
                  PROVE  /\ ~(call[t].threw \/ call[t].failed) => Effect(t) = Parts
                         /\ pooled => /\ Effect(t) \in {{}, Parts}
                                      /\ call[t].threw /\ ~call[t].unsure => Effect(t) = {}
      BY DEF TransactionsWhole
    <2>1. (All(t) => Effect(t) = Parts) /\ (None(t) => Effect(t) = {})
      BY DEF All, None, Did, Effect, Parts
    <2>2. IF pooled THEN PooledEffects(t) ELSE InlineEffects(t)
      BY DEF TxnInv, CallerSound
    <2>. QED  BY <2>1, <2>2 DEF PooledEffects, InlineEffects
  <1>. QED  BY <1>1, TxnInvHolds, PTL
================================================================================
