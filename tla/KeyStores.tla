------------------------------- MODULE KeyStores -------------------------------
(***************************************************************************)
(* The two key stores behind the key port: MemoryKeyStore and              *)
(* PostgresKeyStore.  Keys are issued, looked up by id, hash and owner,    *)
(* revoked, and their uses recorded by callers that looked a key up some   *)
(* time before (as handle of the forward-auth service does).  One          *)
(* operation is one action: the memory store never awaits, Postgres runs   *)
(* one statement.  Time is counted in ticks.                               *)
(***************************************************************************)
EXTENDS Integers, FiniteSets

CONSTANTS
  KeyIds, Hashes, KeyOwners, Users,  \* keys, their hashes and owners; who uses them
  LastTick,                          \* bound on the clock
  MaxUses,                           \* bound on the uses of a key
  NoKey                              \* no key, nothing looked up

KeyRow ==
  [hash : Hashes, owner : KeyOwners, expiresAt : Nat, revoked : BOOLEAN,
   uses : Nat, lastUsedAt : Nat]

ASSUME KeyStoreConstants ==
  /\ {LastTick, MaxUses} \subseteq Nat
  /\ NoKey \notin KeyIds /\ NoKey \notin KeyRow /\ NoKey \notin KeyIds \X Nat

VARIABLES
  store,      \* which store it is
  tick,       \* the clock
  rows,       \* id -> stored key or NoKey
  hashIndex,  \* memory: hash -> id or NoKey
  ownerIndex, \* memory: owner -> ids
  lookedUp,   \* user -> the key it was given, with the time, or NoKey
  recorded,   \* history: id -> uses the store accepted
  late        \* history: ids with uses accepted after their end

keyVars == <<store, tick, rows, hashIndex, ownerIndex, lookedUp, recorded, late>>

Ticks == 0..LastTick
Unbounded == LastTick + 1

KeyStoreInit ==
  /\ store \in {"memory", "postgres"}
  /\ tick = 0
  /\ rows = [i \in KeyIds |-> NoKey]
  /\ hashIndex = [h \in Hashes |-> NoKey]
  /\ ownerIndex = [o \in KeyOwners |-> {}]
  /\ lookedUp = [u \in Users |-> NoKey]
  /\ recorded = [i \in KeyIds |-> 0]
  /\ late = {}

Taken(i) == rows[i] # NoKey

\* resolveStatus.
StatusOf(row) ==
  IF row.revoked THEN "revoked" ELSE IF row.expiresAt <= tick THEN "expired" ELSE "active"

\* Memory looks both maps up; Postgres has two unique columns.
Duplicate(i, h) ==
  \/ Taken(i)
  \/ IF store = "memory" THEN hashIndex[h] # NoKey
     ELSE \E j \in KeyIds : Taken(j) /\ rows[j].hash = h

\* storeKey.
StoreKey(i, h, o) ==
  IF store = "memory"
  THEN /\ hashIndex' = [hashIndex EXCEPT ![h] = i]
       /\ ownerIndex' = [ownerIndex EXCEPT ![o] = @ \cup {i}]
  ELSE UNCHANGED <<hashIndex, ownerIndex>>

\* A duplicate id or hash is refused.
IssueKey(i, h, o, expiresAt) ==
  /\ ~Duplicate(i, h)
  /\ rows' = [rows EXCEPT ![i] =
       [hash |-> h, owner |-> o, expiresAt |-> expiresAt, revoked |-> FALSE,
        uses |-> 0, lastUsedAt |-> 0]]
  /\ StoreKey(i, h, o)
  /\ UNCHANGED <<store, tick, lookedUp, recorded, late>>

\* The key a hash leads to.
FindByHash(h) ==
  IF store = "memory" THEN hashIndex[h]
  ELSE IF \E i \in KeyIds : Taken(i) /\ rows[i].hash = h
       THEN CHOOSE i \in KeyIds : Taken(i) /\ rows[i].hash = h
       ELSE NoKey

\* Mutant: every key of the owner, whatever became of it.
ListWhateverStatus(o, includeRevoked, includeExpired) ==
  {i \in KeyIds : Taken(i) /\ rows[i].owner = o}

\* The keys of an owner: from the index, or by the owner's columns.
OwnedBy(o) ==
  IF store = "memory" THEN ownerIndex[o] ELSE {i \in KeyIds : Taken(i) /\ rows[i].owner = o}

ListKeysByOwner(o, includeRevoked, includeExpired) ==
  {i \in OwnedBy(o) :
     /\ StatusOf(rows[i]) = "revoked" => includeRevoked
     /\ StatusOf(rows[i]) = "expired" => includeExpired}

\* A caller looks a key up and goes on only if it is active.
LookUp(u, h) ==
  /\ FindByHash(h) # NoKey
  /\ StatusOf(rows[FindByHash(h)]) = "active"
  /\ lookedUp' = [lookedUp EXCEPT ![u] = <<FindByHash(h), rows[FindByHash(h)].uses>>]
  /\ UNCHANGED <<store, tick, rows, hashIndex, ownerIndex, recorded, late>>

\* Mutant: the count is that of the key the caller was given, plus one.
CountFromLookUp(u) == lookedUp[u][2] + 1

\* usage_count + 1, in the statement or in one go.
NextCount(u) == rows[lookedUp[u][1]].uses + 1

\* Memory refuses a use of a key that has ended since, Postgres counts it.
Refuses(row) == store = "memory" /\ StatusOf(row) # "active"

RecordKeyUsage(u, usedAt) ==
  /\ lookedUp[u] # NoKey
  /\ LET i == lookedUp[u][1]
     IN  IF Refuses(rows[i]) THEN UNCHANGED <<rows, recorded, late>>
         ELSE /\ rows[i].uses < MaxUses
              /\ rows' = [rows EXCEPT ![i].uses = NextCount(u), ![i].lastUsedAt = usedAt]
              /\ recorded' = [recorded EXCEPT ![i] = @ + 1]
              /\ late' = IF StatusOf(rows[i]) = "active" THEN late ELSE late \cup {i}
  /\ lookedUp' = [lookedUp EXCEPT ![u] = NoKey]
  /\ UNCHANGED <<store, tick, hashIndex, ownerIndex>>

\* Memory refuses a second revocation, Postgres writes it over the first.
RevokeKey(i) ==
  /\ Taken(i)
  /\ store = "memory" => ~rows[i].revoked
  /\ rows' = [rows EXCEPT ![i].revoked = TRUE]
  /\ UNCHANGED <<store, tick, hashIndex, ownerIndex, lookedUp, recorded, late>>

KeyClock ==
  /\ tick < LastTick
  /\ tick' = tick + 1
  /\ UNCHANGED <<store, rows, hashIndex, ownerIndex, lookedUp, recorded, late>>

KeyStoreNext ==
  \/ \E i \in KeyIds, h \in Hashes, o \in KeyOwners, e \in Ticks \cup {Unbounded} :
       IssueKey(i, h, o, e)
  \/ \E u \in Users, h \in Hashes : LookUp(u, h)
  \/ \E u \in Users, at \in {t \in Ticks : t <= tick} : RecordKeyUsage(u, at)
  \/ \E i \in KeyIds : RevokeKey(i)
  \/ KeyClock

KeyStoreSpec == KeyStoreInit /\ [][KeyStoreNext]_keyVars

--------------------------------------------------------------------------------
\* Both stores account for their keys: every accepted use is counted once, however
\* callers overlap; in memory none is accepted after the end of the key; a hash leads
\* to its key; and an owner is listed the keys that are active, and no other
\* (recordKeyUsage, getKeyByHash, listKeysByOwner).
KeysAccounted ==
  /\ \A i \in KeyIds :
       /\ recorded[i] = (IF Taken(i) THEN rows[i].uses ELSE 0)
       /\ Taken(i) => FindByHash(rows[i].hash) = i
  /\ store = "memory" => late = {}
  /\ \A o \in KeyOwners :
       ListKeysByOwner(o, FALSE, FALSE) =
         {i \in KeyIds : Taken(i) /\ rows[i].owner = o /\ StatusOf(rows[i]) = "active"}
================================================================================
