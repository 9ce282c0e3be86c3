------------------------------ MODULE MemoryCache ------------------------------
(***************************************************************************)
(* The in-memory cache: entries with tags, an index from tags to keys, and *)
(* a timer for every entry that expires.  get, set, delete and clear never *)
(* await; purgeByTag awaits each of its deletes, and other callers run in  *)
(* between.  An empty list of the index is the same as none.               *)
(***************************************************************************)
EXTENDS FiniteSets

CONSTANTS
  CacheKeys, CacheTags,
  Purgers,   \* calls of purgeByTag that may be under way
  NoEntry    \* no entry, no call

Entry == [tags : SUBSET CacheTags, expired : BOOLEAN]

ASSUME NoEntryIsNone ==
  NoEntry \notin Entry /\ NoEntry \notin CacheTags \X SUBSET CacheKeys

VARIABLES
  entries,   \* key -> entry or NoEntry
  tagIndex,  \* tag -> keys
  purging,   \* purger -> <<tag, keys still to delete>> or NoEntry
  overtaken  \* history: <<key, tag>> set while the tag was being purged

cacheVars == <<entries, tagIndex, purging, overtaken>>

MemoryCacheInit ==
  /\ entries = [k \in CacheKeys |-> NoEntry]
  /\ tagIndex = [t \in CacheTags |-> {}]
  /\ purging = [p \in Purgers |-> NoEntry]
  /\ overtaken = {}

Present(k) == entries[k] # NoEntry

TagsOf(k) == IF Present(k) THEN entries[k].tags ELSE {}

\* Mutant: a key stays in the lists of the tags its entry had.
KeptIndex(k) == tagIndex

\* evict: the key leaves the lists of the tags of its entry.
Unindexed(k) == [t \in CacheTags |-> IF t \in TagsOf(k) THEN tagIndex[t] \ {k} ELSE tagIndex[t]]

Forget(k) == {pair \in overtaken : pair[1] # k}

Evict(k) ==
  /\ Present(k)
  /\ entries' = [entries EXCEPT ![k] = NoEntry]
  /\ tagIndex' = Unindexed(k)
  /\ overtaken' = Forget(k)

BeingPurged(t) == \E p \in Purgers : purging[p] # NoEntry /\ purging[p][1] = t

\* The entry there is goes first, with its timer.
Set(k, tags, due) ==
  /\ entries' = [entries EXCEPT ![k] = [tags |-> tags, expired |-> due]]
  /\ tagIndex' = [t \in CacheTags |-> IF t \in tags THEN Unindexed(k)[t] \cup {k} ELSE Unindexed(k)[t]]
  /\ overtaken' = Forget(k) \cup {<<k, t>> : t \in {t \in tags : BeingPurged(t)}}
  /\ UNCHANGED purging

\* An entry's time is over; get and the timer find out later.
Expire(k) ==
  /\ Present(k)
  /\ ~entries[k].expired
  /\ entries' = [entries EXCEPT ![k].expired = TRUE]
  /\ UNCHANGED <<tagIndex, purging, overtaken>>

\* get of an expired entry, or its timer: one that fires too early does nothing.
EvictExpired(k) == Present(k) /\ entries[k].expired /\ Evict(k) /\ UNCHANGED purging

Delete(k) == Evict(k) /\ UNCHANGED purging

PurgeByTag(p, t) ==
  /\ purging[p] = NoEntry
  /\ tagIndex[t] # {}
  /\ purging' = [purging EXCEPT ![p] = <<t, tagIndex[t]>>]
  /\ UNCHANGED <<entries, tagIndex, overtaken>>

\* await this.delete(key), of a key that may be gone, or under other tags by now.
PurgeKey(p) ==
  /\ purging[p] # NoEntry
  /\ \E k \in purging[p][2] :
       /\ purging' = [purging EXCEPT ![p] = <<purging[p][1], purging[p][2] \ {k}>>]
       /\ IF Present(k) THEN Evict(k) ELSE UNCHANGED <<entries, tagIndex, overtaken>>

\* Mutant: the deletions are not awaited.
PurgeEndsEarly(p) ==
  /\ purging[p] # NoEntry
  /\ tagIndex' = [tagIndex EXCEPT ![purging[p][1]] = {}]
  /\ purging' = [purging EXCEPT ![p] = NoEntry]
  /\ UNCHANGED <<entries, overtaken>>

\* The list of the tag is dropped with whatever it holds by now.
PurgeEnds(p) ==
  /\ purging[p] # NoEntry
  /\ purging[p][2] = {}
  /\ tagIndex' = [tagIndex EXCEPT ![purging[p][1]] = {}]
  /\ purging' = [purging EXCEPT ![p] = NoEntry]
  /\ UNCHANGED <<entries, overtaken>>

Clear ==
  /\ entries' = [k \in CacheKeys |-> NoEntry]
  /\ tagIndex' = [t \in CacheTags |-> {}]
  /\ overtaken' = {}
  /\ UNCHANGED purging

MemoryCacheNext ==
  \/ \E k \in CacheKeys :
       \/ \E tags \in SUBSET CacheTags, due \in BOOLEAN : Set(k, tags, due)
       \/ Expire(k) \/ EvictExpired(k) \/ Delete(k)
  \/ \E p \in Purgers : (\E t \in CacheTags : PurgeByTag(p, t)) \/ PurgeKey(p) \/ PurgeEnds(p)
  \/ Clear

MemoryCacheSpec == MemoryCacheInit /\ [][MemoryCacheNext]_cacheVars

--------------------------------------------------------------------------------
\* A purge by tag finds every entry under the tag, and no key it does not belong to,
\* unless the entry was set while that tag was being purged (set, evict, purgeByTag).
TaggedIsIndexed ==
  \A k \in CacheKeys, t \in CacheTags :
    /\ k \in tagIndex[t] => t \in TagsOf(k)
    /\ t \in TagsOf(k) => k \in tagIndex[t] \/ <<k, t>> \in overtaken

\* When purgeByTag returns, no entry is under its tag but those set while the tag was
\* being purged, however sets, deletions, timers and other purges came between its own
\* deletions, and whatever tags its keys have had meanwhile.
MemoryPurgeRemoves ==
  [][\A p \in Purgers : purging[p] # NoEntry /\ purging'[p] = NoEntry =>
       \A k \in CacheKeys :
         purging[p][1] \in TagsOf(k)' => <<k, purging[p][1]>> \in overtaken']_cacheVars
================================================================================
