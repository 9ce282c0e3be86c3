-------------------------------- MODULE TagCache --------------------------------
(***************************************************************************)
(* The Redis cache: set, delete, purgeByTag and clear over an entry, its   *)
(* list of tags and an index per tag, without a transaction.               *)
(*                                                                         *)
(* A call is a set of commands it may send next; executing one puts its    *)
(* successors in its place, and what Promise.all waits for goes on when    *)
(* the last of the group is done.  Each Redis command is one action, so    *)
(* the commands of concurrent calls interleave; those of one Promise.all   *)
(* are taken in any order.  clear is purgeByTag for the index of all keys  *)
(* ("all"), which every entry is under.  get changes nothing.              *)
(***************************************************************************)
EXTENDS Integers, FiniteSets

CONSTANTS
  Keys,       \* cache keys
  Tags,       \* tags
  Calls,      \* concurrent calls, of one process or of several
  Lifetimes,  \* whether a set may come with a time to live
  MaxCalls,   \* bound: calls made, one that is cut off counting twice
  MaxUpsets,  \* bound: calls cut off by a crash or a lost connection
  All,        \* the index of all keys
  Absent      \* no entry, no call, an empty tag

Indices == Tags \cup {All}

ASSUME CacheConstants ==
  /\ Lifetimes \subseteq BOOLEAN
  /\ MaxCalls \in Nat
  /\ MaxUpsets \in Nat
  /\ {All, Absent} \cap (Keys \cup Tags \cup Calls) = {}
  /\ All # Absent

\* What a call is asked to do.
Call ==
  [kind : {"set"}, key : Keys, tags : SUBSET Tags, lives : BOOLEAN]
    \cup [kind : {"delete"}, key : Keys]
    \cup [kind : {"purge"}, index : Indices]

ASSUME AbsentIsNoCall == Absent \notin Call

VARIABLES
  value,   \* key -> entry, or Absent
  tagsOf,  \* the __tags__ sets: key -> tags
  expiry,  \* the call whose EXPIRE the __tags__ set has, or Absent
  index,   \* the __tag__ sets and the __index__ of all keys
  call,    \* what each call was asked to do, or Absent
  todo,    \* the commands each call may send next
  young,   \* history: keys whose entry was not complete when the call began
  made,    \* history: calls made
  upsets   \* history: calls cut off

tagging == <<tagsOf, expiry>>
redis == <<value, tagging, index>>
vars == <<redis, call, todo, young, made, upsets>>

\* An entry is [tags, complete, excused, lives, writer]; a call is its kind and
\* arguments; a command is its name, its key or index, and a tag if it has one.
\* writer: the call that put the entry.  complete (history): that call has
\* returned.  excused (history): the indices it was taken from by a call that
\* raced with the writer, or whose deletion of the entry was cut off.

--------------------------------------------------------------------------------
(* Calls.                                                                  *)

Incomplete == {k \in Keys : value[k] # Absent /\ ~value[k].complete}

Begin(c, first) ==
  /\ call[c] = Absent
  /\ made + upsets < MaxCalls
  /\ made' = made + 1
  /\ todo' = [todo EXCEPT ![c] = {first}]
  /\ young' = [young EXCEPT ![c] = Incomplete]
  /\ UNCHANGED <<redis, upsets>>

\* Tags may be empty strings, which are dropped.
Given(tags) == tags \ {Absent}

Set(c, k) ==
  /\ Begin(c, <<"tags", k>>)
  /\ \E tags \in SUBSET (Tags \cup {Absent}), lives \in Lifetimes :
       call' = [call EXCEPT ![c] =
         [kind |-> "set", key |-> k, tags |-> Given(tags), lives |-> lives]]

Delete(c, k) ==
  /\ Begin(c, <<"tags", k>>)
  /\ call' = [call EXCEPT ![c] = [kind |-> "delete", key |-> k]]

PurgeByTag(c, i) ==
  /\ Begin(c, <<"members", i>>)
  /\ call' = [call EXCEPT ![c] = [kind |-> "purge", index |-> i]]

\* The call is left with what it has still to send, and more.
Go(c, cmd, more) ==
  /\ cmd \in todo[c]
  /\ todo' = [todo EXCEPT ![c] = (@ \ {cmd}) \cup more]
  /\ UNCHANGED <<call, young, made, upsets>>

--------------------------------------------------------------------------------
(* delete, which set, purgeByTag and clear use as well.                    *)

\* Mutant: a key without tags is not deleted.
SMembersOfTagged(c, k) ==
  /\ Go(c, <<"tags", k>>, {<<"srem", k, t>> : t \in tagsOf[k]})
  /\ UNCHANGED redis

SMembersTags(c, k) ==
  /\ Go(c, <<"tags", k>>,
        IF tagsOf[k] = {} THEN {<<"drop", k>>}
        ELSE {<<"srem", k, t>> : t \in tagsOf[k]})
  /\ UNCHANGED redis

SRem(c, k, t) ==
  /\ Go(c, <<"srem", k, t>>, {<<"card", k, t>>})
  /\ index' = [index EXCEPT ![t] = @ \ {k}]
  /\ UNCHANGED <<value, tagging>>

\* What follows when c is done with tag t of k: the entry, once all are done.
Untagged(c, k, cmd) ==
  IF \E x \in todo[c] \ {cmd} : x[1] \in {"srem", "card", "delIndex"} /\ x[2] = k
  THEN {} ELSE {<<"drop", k>>}

\* Mutant: an index of one key counts as empty.
IsEmptyOrOne(t) == Cardinality(index[t]) <= 1
IsEmpty(t) == index[t] = {}

SCard(c, k, t) ==
  LET cmd == <<"card", k, t>> IN
  /\ Go(c, cmd, IF IsEmpty(t) THEN {<<"delIndex", k, t>>} ELSE Untagged(c, k, cmd))
  /\ UNCHANGED redis

\* The call takes keys from an index.  If it began before their entry was
\* complete, the two have raced.
TakeFrom(c, i, keys) ==
  /\ index' = [index EXCEPT ![i] = @ \ keys]
  /\ value' = [k \in Keys |->
       IF k \in keys \cap index[i] \cap young[c] /\ value[k] # Absent
       THEN [value[k] EXCEPT !.excused = @ \cup {i}] ELSE value[k]]

DelIndex(c, k, t) ==
  LET cmd == <<"delIndex", k, t>> IN
  /\ Go(c, cmd, Untagged(c, k, cmd))
  /\ TakeFrom(c, t, Keys)
  /\ UNCHANGED tagging

\* The list of tags is gone.
Forget(k) ==
  /\ tagsOf' = [tagsOf EXCEPT ![k] = {}]
  /\ expiry' = [expiry EXCEPT ![k] = Absent]

\* One DEL for the entry and its tags.
Drop(c, k) ==
  /\ Go(c, <<"drop", k>>, {<<"unlist", k>>})
  /\ value' = [value EXCEPT ![k] = Absent]
  /\ Forget(k)
  /\ UNCHANGED index

\* What follows the last deletion of a call.
Deleted(c, cmd) ==
  IF todo[c] # {cmd} THEN {}
  ELSE CASE call[c].kind = "set" -> {<<"put", call[c].key>>}
         [] call[c].kind = "purge" -> {<<"dropIndex", call[c].index>>}
         [] call[c].kind = "delete" -> {}

Unlist(c, k) ==
  LET cmd == <<"unlist", k>> IN
  /\ Go(c, cmd, Deleted(c, cmd))
  /\ TakeFrom(c, All, {k})
  /\ UNCHANGED tagging

--------------------------------------------------------------------------------
(* purgeByTag and clear.                                                   *)

\* Mutant: only some of the members.
SomeMembers(i) == IF index[i] = {} THEN {} ELSE {CHOOSE k \in index[i] : TRUE}
Members(i) == index[i]

SMembersIndex(c, i) ==
  /\ Go(c, <<"members", i>>, {<<"tags", k>> : k \in Members(i)})
  /\ UNCHANGED redis

DropIndex(c, i) ==
  /\ Go(c, <<"dropIndex", i>>, {})
  /\ TakeFrom(c, i, Keys)
  /\ UNCHANGED tagging

--------------------------------------------------------------------------------
(* set, after the deletion.                                                *)

Put(c, k) ==
  /\ <<"put", k>> \in todo[c]
  /\ todo' = [todo EXCEPT ![c] = {<<"list", k>>}]
  /\ value' = [value EXCEPT ![k] =
       [tags |-> call[c].tags, complete |-> FALSE, excused |-> {},
        lives |-> call[c].lives, writer |-> c]]
  /\ young' = [d \in Calls |->
       IF d # c /\ call[d] # Absent THEN young[d] \cup {k} ELSE young[d]]
  /\ UNCHANGED <<tagging, index, call, made, upsets>>

AddKey(c, k) ==
  /\ Go(c, <<"list", k>>, {<<"delTags", k>>})
  /\ index' = [index EXCEPT ![All] = @ \cup {k}]
  /\ UNCHANGED <<value, tagging>>

DelTags(c, k) ==
  /\ Go(c, <<"delTags", k>>, IF call[c].tags = {} THEN {} ELSE {<<"addTags", k>>})
  /\ Forget(k)
  /\ UNCHANGED <<value, index>>

IndexTags(c, k) == {<<"add", k, t>> : t \in call[c].tags}

AddTags(c, k) ==
  /\ Go(c, <<"addTags", k>>,
        IF call[c].lives THEN {<<"expire", k>>} ELSE IndexTags(c, k))
  /\ tagsOf' = [tagsOf EXCEPT ![k] = @ \cup call[c].tags]
  /\ UNCHANGED <<value, expiry, index>>

\* EXPIRE does nothing if the key is gone.
Expire(c, k) ==
  /\ Go(c, <<"expire", k>>, IndexTags(c, k))
  /\ expiry' = [expiry EXCEPT ![k] = IF tagsOf[k] = {} THEN @ ELSE c]
  /\ UNCHANGED <<value, tagsOf, index>>

AddToIndex(c, k, t) ==
  /\ Go(c, <<"add", k, t>>, {})
  /\ index' = [index EXCEPT ![t] = @ \cup {k}]
  /\ UNCHANGED <<value, tagging>>

--------------------------------------------------------------------------------
Wrote(c, k) == call[c].kind = "set" /\ call[c].key = k /\ value[k] # Absent /\ value[k].writer = c

Return(c) ==
  /\ call[c] # Absent
  /\ todo[c] = {}
  /\ value' = [k \in Keys |->
                 IF Wrote(c, k) THEN [value[k] EXCEPT !.complete = TRUE] ELSE value[k]]
  /\ call' = [call EXCEPT ![c] = Absent]
  /\ young' = [young EXCEPT ![c] = {}]
  /\ UNCHANGED <<tagging, index, todo, made, upsets>>

\* The call takes k out of its indices and will drop its entry.
Dropping(c, k) ==
  \E x \in todo[c] : x[1] \in {"srem", "card", "delIndex", "drop"} /\ x[2] = k

\* The process dies or loses the connection: the rest is never sent.
CutOff(c) ==
  /\ todo[c] # {}
  /\ upsets < MaxUpsets
  /\ upsets' = upsets + 1
  /\ value' = [k \in Keys |->
       IF value[k] # Absent /\ Dropping(c, k)
       THEN [value[k] EXCEPT !.excused = Indices] ELSE value[k]]
  /\ call' = [call EXCEPT ![c] = Absent]
  /\ todo' = [todo EXCEPT ![c] = {}]
  /\ young' = [young EXCEPT ![c] = {}]
  /\ UNCHANGED <<tagging, index, made>>

\* Redis drops an entry whose time to live is over.
ExpireValue(k) ==
  /\ value[k] # Absent
  /\ value[k].lives
  /\ value' = [value EXCEPT ![k] = Absent]
  /\ UNCHANGED <<tagging, index, call, todo, young, made, upsets>>

\* The tags outlive the entry put by the same call: their EXPIRE came later.
ExpireTags(k) ==
  /\ expiry[k] # Absent
  /\ value[k] # Absent => value[k].writer # expiry[k]
  /\ Forget(k)
  /\ UNCHANGED <<value, index, call, todo, young, made, upsets>>

--------------------------------------------------------------------------------
Init ==
  /\ value = [k \in Keys |-> Absent]
  /\ tagsOf = [k \in Keys |-> {}]
  /\ expiry = [k \in Keys |-> Absent]
  /\ index = [i \in Indices |-> {}]
  /\ call = [c \in Calls |-> Absent]
  /\ todo = [c \in Calls |-> {}]
  /\ young = [c \in Calls |-> {}]
  /\ made = 0
  /\ upsets = 0

KeyStep(c, k) ==
  \/ SMembersTags(c, k) \/ Drop(c, k) \/ Unlist(c, k)
  \/ Put(c, k) \/ AddKey(c, k) \/ DelTags(c, k) \/ AddTags(c, k) \/ Expire(c, k)
  \/ \E t \in Tags :
       SRem(c, k, t) \/ SCard(c, k, t) \/ DelIndex(c, k, t) \/ AddToIndex(c, k, t)

Next ==
  \/ \E c \in Calls :
       \/ \E k \in Keys : Set(c, k) \/ Delete(c, k) \/ KeyStep(c, k)
       \/ \E i \in Indices : PurgeByTag(c, i) \/ SMembersIndex(c, i) \/ DropIndex(c, i)
       \/ Return(c) \/ CutOff(c)
  \/ \E k \in Keys : ExpireValue(k) \/ ExpireTags(k)

Spec == Init /\ [][Next]_vars

--------------------------------------------------------------------------------
\* The indices of an entry: its tags', and that of all keys.
IndicesOf(k) == value[k].tags \cup {All}

\* Some call will drop the entry presently.
Doomed(k) == \E c \in Calls : Dropping(c, k)

\* An entry whose set has returned is in all of its indices, however other sets,
\* deletions and purges of the same or of other keys interleave, until a call is
\* about to drop it; only a call that raced with its set takes it from an index,
\* or a deletion that is cut off half way.
EntriesIndexed ==
  \A k \in Keys : value[k] # Absent /\ value[k].complete /\ ~Doomed(k) =>
    \A i \in IndicesOf(k) \ value[k].excused : k \in index[i]

\* When purgeByTag or clear returns, every entry under the tag whose set had
\* returned before it was called is gone, or another call is about to drop it,
\* with the same two exceptions.
PurgeRemoves ==
  [][\A c \in Calls :
       call[c] # Absent /\ call[c].kind = "purge" /\ todo[c] = {} /\ call'[c] = Absent =>
         \A k \in Keys \ young[c] :
           value[k] # Absent /\ value[k].complete /\ ~Doomed(k) =>
             call[c].index \notin IndicesOf(k) \ value[k].excused]_vars

\* The cache seen through what its callers are promised.
Claims == [c \in Calls |-> {k \in Keys : Dropping(c, k)}]
Stored ==
  {c \in Calls : /\ call[c] # Absent
                 /\ call[c].kind = "set"
                 /\ \A x \in todo[c] : x[1] \in {"list", "delTags", "addTags", "expire", "add"}}
Store == INSTANCE TagStore WITH stored <- Stored, claimed <- Claims, failures <- upsets

\* Behaviours of the cache are behaviours of TagStore, without tag lists and indices:
\* a set, delete or purge that returns has done what it is for, and only a call that
\* raced with an entry's set, or failed half way through deleting it, excuses the entry.
KeepsStore == Store!StoreSpec
================================================================================
