-------------------------------- MODULE TagStore --------------------------------
(***************************************************************************)
(* What the Redis cache promises of its entries, without saying how: a     *)
(* call claims what it deletes and leaves no claim behind; a set or delete *)
(* that returns has replaced the entry of its key, a purge has left none   *)
(* under its index.  Only two things excuse an entry from an index: a call *)
(* that began before its set had returned, and a call that fails with a    *)
(* claim on it.                                                            *)
(***************************************************************************)
EXTENDS Naturals

CONSTANTS Keys, Tags, Calls, All, Absent

Indices == Tags \cup {All}

Call ==
  [kind : {"set"}, key : Keys, tags : SUBSET Tags, lives : BOOLEAN]
    \cup [kind : {"delete"}, key : Keys]
    \cup [kind : {"purge"}, index : Indices]

\* An entry of a set that has returned.
Finished ==
  [tags : SUBSET Tags, complete : {TRUE}, excused : SUBSET Indices, lives : BOOLEAN,
   writer : Calls]

VARIABLES
  value,   \* key -> entry, or Absent
  call,    \* what each call was asked to do, or Absent
  young,   \* call -> keys whose entry is younger, or was not finished when it began
  stored,  \* the sets that have put their entry
  claimed, \* call -> keys whose entry it is about to delete
  failures \* how many calls have failed

storeVars == <<value, call, young, stored, claimed, failures>>

\* The cache may be in use.
StoreInit ==
  /\ value \in [Keys -> Finished \cup {Absent}]
  /\ call = [c \in Calls |-> Absent]
  /\ young = [c \in Calls |-> {}]
  /\ stored = {}
  /\ claimed = [c \in Calls |-> {}]
  /\ failures = 0

Unfinished == {k \in Keys : value[k] # Absent /\ ~value[k].complete}
IndicesOf(k) == value[k].tags \cup {All}
Claimed(k) == \E c \in Calls : k \in claimed[c]

Begin(c) ==
  /\ call[c] = Absent
  /\ \E job \in Call : call' = [call EXCEPT ![c] = job]
  /\ young' = [young EXCEPT ![c] = Unfinished]
  /\ UNCHANGED <<value, stored, claimed>>

\* A set or delete claims only its own key.
Claim(c, k) ==
  /\ call[c] # Absent
  /\ call[c].kind # "purge" => call[c].key = k
  /\ claimed' = [claimed EXCEPT ![c] = @ \cup {k}]
  /\ UNCHANGED <<value, call, young, stored>>

Delete(c, k) ==
  /\ k \in claimed[c]
  /\ value' = [value EXCEPT ![k] = Absent]
  /\ claimed' = [claimed EXCEPT ![c] = @ \ {k}]
  /\ UNCHANGED <<call, young, stored>>

\* A set puts its entry once, when it is through with what it claimed.
Put(c, k) ==
  /\ call[c] # Absent /\ call[c].kind = "set" /\ call[c].key = k
  /\ c \notin stored /\ claimed[c] = {}
  /\ stored' = stored \cup {c}
  /\ value' = [value EXCEPT ![k] =
       [tags |-> call[c].tags, complete |-> FALSE, excused |-> {},
        lives |-> call[c].lives, writer |-> c]]
  /\ young' = [d \in Calls |->
       IF d # c /\ call[d] # Absent THEN young[d] \cup {k} ELSE young[d]]
  /\ UNCHANGED <<call, claimed>>

\* A call may take younger entries from an index.
Miss(c, i) ==
  /\ call[c] # Absent
  /\ \E missed \in SUBSET young[c] :
       value' = [k \in Keys |->
         IF k \in missed /\ value[k] # Absent
         THEN [value[k] EXCEPT !.excused = @ \cup {i}] ELSE value[k]]
  /\ UNCHANGED <<call, young, stored, claimed>>

\* The entry of its key, if any, is its own or younger.
Replaced(c, k) ==
  value[k] # Absent =>
    \/ k \in young[c]
    \/ call[c].kind = "set" /\ value[k].writer = c /\ ~value[k].complete

\* Nothing it has to find is left under the index.
Purged(c, i) ==
  \A k \in Keys \ young[c] :
    value[k] # Absent /\ value[k].complete /\ ~Claimed(k) =>
      i \notin IndicesOf(k) \ value[k].excused

Wrote(c, k) == call[c].kind = "set" /\ call[c].key = k /\ value[k] # Absent /\ value[k].writer = c

Over(c) ==
  /\ call' = [call EXCEPT ![c] = Absent]
  /\ young' = [young EXCEPT ![c] = {}]
  /\ stored' = stored \ {c}

Return(c) ==
  /\ call[c] # Absent
  /\ claimed[c] = {}
  /\ call[c].kind = "set" => c \in stored
  /\ IF call[c].kind = "purge" THEN Purged(c, call[c].index) ELSE Replaced(c, call[c].key)
  /\ value' = [k \in Keys |->
                 IF Wrote(c, k) THEN [value[k] EXCEPT !.complete = TRUE] ELSE value[k]]
  /\ Over(c)
  /\ UNCHANGED claimed

\* What it had claimed may stay, and be found no more.
Fail(c) ==
  /\ call[c] # Absent
  /\ failures' = failures + 1
  /\ value' = [k \in Keys |->
       IF value[k] # Absent /\ k \in claimed[c]
       THEN [value[k] EXCEPT !.excused = Indices] ELSE value[k]]
  /\ claimed' = [claimed EXCEPT ![c] = {}]
  /\ Over(c)

\* An entry's time is over.
Lose(k) ==
  /\ value[k] # Absent
  /\ value[k].lives
  /\ value' = [value EXCEPT ![k] = Absent]
  /\ UNCHANGED <<call, young, stored, claimed>>

\* What happens as long as nothing fails.
Serve ==
  \/ \E c \in Calls :
       \/ \E k \in Keys : Claim(c, k) \/ Delete(c, k) \/ Put(c, k)
       \/ \E i \in Indices : Miss(c, i)
       \/ Begin(c) \/ Return(c)
  \/ \E k \in Keys : Lose(k)

StoreNext == (Serve /\ UNCHANGED failures) \/ \E c \in Calls : Fail(c)

StoreSpec == StoreInit /\ [][StoreNext]_storeVars
================================================================================
