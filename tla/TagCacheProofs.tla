----------------------------- MODULE TagCacheProofs -----------------------------
(***************************************************************************)
(* What the indices of the Redis cache are worth, for any keys, tags and   *)
(* calls, and any interleaving of their commands: an entry whose set has   *)
(* returned is found under its tags, and a purge leaves none; and that the *)
(* cache implements TagStore, in which neither tags nor indices are kept.  *)
(***************************************************************************)
EXTENDS TagCache, TLAPS

--------------------------------------------------------------------------------
(* States.                                                                 *)

Entry ==
  [tags : SUBSET Tags, complete : BOOLEAN, excused : SUBSET Indices, lives : BOOLEAN,
   writer : Calls]

TypeOK ==
  /\ value \in [Keys -> Entry \cup {Absent}]
  /\ tagsOf \in [Keys -> SUBSET Tags]
  /\ index \in [Indices -> SUBSET Keys]
  /\ call \in [Calls -> Call \cup {Absent}]
  /\ todo = [c \in Calls |-> todo[c]]
  /\ young \in [Calls -> SUBSET Keys]

--------------------------------------------------------------------------------
(* What the calls are at.                                                  *)

\* The commands that delete k, those that write it under some tags.
Deletes(k) ==
  {<<"tags", k>>, <<"drop", k>>, <<"unlist", k>>}
    \cup {<<s, k, t>> : s \in {"srem", "card", "delIndex"}, t \in Tags}

Writes(k, tags) ==
  {<<"list", k>>, <<"delTags", k>>, <<"addTags", k>>, <<"expire", k>>}
    \cup {<<"add", k, t>> : t \in tags}

IsSet(c) == call[c] # Absent /\ call[c].kind = "set"
IsPurge(c) == call[c] # Absent /\ call[c].kind = "purge"

\* A set deletes, puts, then writes; a purge reads its index, deletes what is there and
\* drops the index.
Deleting(c) == IsSet(c) /\ todo[c] # {} /\ todo[c] \subseteq Deletes(call[c].key)
Putting(c) == IsSet(c) /\ todo[c] = {<<"put", call[c].key>>}
Writing(c) == IsSet(c) /\ todo[c] \subseteq Writes(call[c].key, call[c].tags)

Reading(c) == IsPurge(c) /\ todo[c] = {<<"members", call[c].index>>}
Purging(c) == IsPurge(c) /\ todo[c] \subseteq UNION {Deletes(k) : k \in Keys}
Closing(c) == IsPurge(c) /\ todo[c] = {<<"dropIndex", call[c].index>>}

InOrder(c) ==
  \/ call[c] = Absent /\ todo[c] = {}
  \/ Deleting(c) \/ Putting(c) \/ Writing(c)
  \/ call[c] # Absent /\ call[c].kind = "delete" /\ todo[c] \subseteq Deletes(call[c].key)
  \/ Reading(c) \/ Purging(c) \/ Closing(c)

--------------------------------------------------------------------------------
(* What they can rely on.                                                  *)

\* The entry of k is the one that c puts now.
Own(c, k) == Writing(c) /\ call[c].key = k /\ value[k] # Absent /\ value[k].writer = c

\* c will add k to index i.
Adding(c, k, i) ==
  \/ i = All /\ <<"list", k>> \in todo[c]
  \/ <<"add", k, i>> \in todo[c]
  \/ i # All /\ \E s \in {"list", "delTags", "addTags", "expire"} : <<s, k>> \in todo[c]

\* An entry that has to be in index i, and that c has not raced with.
Standing(k) == value[k] # Absent /\ value[k].complete /\ ~Doomed(k)
Under(k, i, c) == k \notin young[c] /\ Standing(k) /\ i \in IndicesOf(k) \ value[k].excused

\* An entry that is not complete is younger than any call but the one that put it.
Younger(c) ==
  call[c] # Absent =>
    \A k \in Keys : value[k] # Absent /\ ~value[k].complete => k \in young[c] \/ Own(c, k)

\* An entry is under what it is written for, as far as its set has come.
Written(c) ==
  \A k \in Keys : Own(c, k) =>
    /\ ~value[k].complete /\ value[k].tags = call[c].tags
    /\ \A i \in IndicesOf(k) \ value[k].excused : k \in index[i] \/ Doomed(k) \/ Adding(c, k, i)

\* Who takes a key from the list of all keys has dropped its entry.
Dropped(c) ==
  \A k \in Keys : <<"unlist", k>> \in todo[c] => value[k] = Absent \/ k \in young[c]

\* Who deletes an index deletes nothing an entry relies on.
Unneeded(c) ==
  \A k \in Keys, t \in Tags : <<"delIndex", k, t>> \in todo[c] => \A d \in Keys : ~Under(d, t, c)

\* A purge that has read its index deletes everything that has to be there.
Purged(c) ==
  IsPurge(c) /\ ~Reading(c) =>
    \A k \in Keys : Under(k, call[c].index, c) => <<"tags", k>> \in todo[c]

CallSound(c) ==
  InOrder(c) /\ Younger(c) /\ Written(c) /\ Dropped(c) /\ Unneeded(c) /\ Purged(c)

TagInv == TypeOK /\ EntriesIndexed /\ \A c \in Calls : CallSound(c)

--------------------------------------------------------------------------------
(* The commands.                                                           *)

DeleteNames == {"tags", "srem", "card", "delIndex", "drop", "unlist"}
WriteNames == {"list", "delTags", "addTags", "expire", "add"}

\* A command tells by its name which phase it belongs to.
LEMMA DeletesNamed ==
  ASSUME NEW k, NEW x \in Deletes(k)
  PROVE  x[1] \in DeleteNames /\ x[2] = k
  BY DEF Deletes, DeleteNames

LEMMA WritesNamed ==
  ASSUME NEW k, NEW tags, NEW x \in Writes(k, tags)
  PROVE  x[1] \in WriteNames /\ x[2] = k
  BY DEF Writes, WriteNames

\* A call that deletes has no other commands.
InDeletion(c) ==
  \/ Deleting(c)
  \/ call[c] # Absent /\ call[c].kind = "delete" /\ todo[c] \subseteq Deletes(call[c].key)
  \/ Purging(c)

LEMMA DeletionPhase ==
  ASSUME NEW c, InOrder(c), NEW x \in todo[c], x[1] \in DeleteNames
  PROVE  InDeletion(c)
  <1>1. ~Putting(c) /\ ~Reading(c) /\ ~Closing(c)
    BY DEF Putting, Reading, Closing, DeleteNames
  <1>2. ~Writing(c)
    BY WritesNamed DEF Writing, DeleteNames, WriteNames
  <1>. QED  BY <1>1, <1>2 DEF InOrder, InDeletion

LEMMA WritePhase ==
  ASSUME NEW c, InOrder(c), NEW x \in todo[c], x[1] \in WriteNames
  PROVE  Writing(c)
  <1>1. ~Putting(c) /\ ~Reading(c) /\ ~Closing(c)
    BY DEF Putting, Reading, Closing, WriteNames
  <1>2. \A k : x \notin Deletes(k)
    BY DeletesNamed DEF DeleteNames, WriteNames
  <1>. QED  BY <1>1, <1>2 DEF InOrder, Deleting, Purging

LEMMA PutPhase ==
  ASSUME NEW c, InOrder(c), NEW x \in todo[c], x[1] = "put"
  PROVE  Putting(c)
  <1>1. ~Reading(c) /\ ~Closing(c)
    BY DEF Reading, Closing
  <1>2. \A k : x \notin Deletes(k)
    BY DeletesNamed DEF DeleteNames
  <1>3. \A k, tags : x \notin Writes(k, tags)
    BY WritesNamed DEF WriteNames
  <1>. QED  BY <1>1, <1>2, <1>3 DEF InOrder, Deleting, Purging, Writing

LEMMA ReadPhase ==
  ASSUME NEW c, InOrder(c), NEW x \in todo[c], x[1] = "members"
  PROVE  Reading(c)
  <1>1. ~Putting(c) /\ ~Closing(c)
    BY DEF Putting, Closing
  <1>2. \A k : x \notin Deletes(k)
    BY DeletesNamed DEF DeleteNames
  <1>3. \A k, tags : x \notin Writes(k, tags)
    BY WritesNamed DEF WriteNames
  <1>. QED  BY <1>1, <1>2, <1>3 DEF InOrder, Deleting, Purging, Writing

LEMMA ClosePhase ==
  ASSUME NEW c, InOrder(c), NEW x \in todo[c], x[1] = "dropIndex"
  PROVE  Closing(c)
  <1>1. ~Putting(c) /\ ~Reading(c)
    BY DEF Putting, Reading
  <1>2. \A k : x \notin Deletes(k)
    BY DeletesNamed DEF DeleteNames
  <1>3. \A k, tags : x \notin Writes(k, tags)
    BY WritesNamed DEF WriteNames
  <1>. QED  BY <1>1, <1>2, <1>3 DEF InOrder, Deleting, Purging, Writing

\* A call that deletes puts nothing now.
LEMMA DeletionOwnsNothing ==
  ASSUME NEW c, InDeletion(c), NEW x \in todo[c]
  PROVE  ~Writing(c)
  <1>1. \E k : x \in Deletes(k)
    BY DEF InDeletion, Deleting, Purging
  <1>. QED  BY <1>1, DeletesNamed, WritesNamed DEF Writing, DeleteNames, WriteNames

\* Executing a command.
LEMMA GoDoes ==
  ASSUME TypeOK, NEW c \in Calls, NEW cmd, NEW more, Go(c, cmd, more)
  PROVE  /\ cmd \in todo[c]
         /\ todo' = [d \in Calls |-> todo'[d]]
         /\ todo'[c] = (todo[c] \ {cmd}) \cup more
         /\ \A d \in Calls \ {c} : todo'[d] = todo[d]
         /\ call' = call /\ young' = young
  BY DEF Go, TypeOK

--------------------------------------------------------------------------------
(* Entries that get older.                                                 *)

\* The entry stays but for the indices it is excused from, or goes.
Ages(k) ==
  value'[k] = Absent \/
    /\ value[k] # Absent /\ value'[k] # Absent
    /\ value'[k].tags = value[k].tags /\ value'[k].writer = value[k].writer
    /\ value'[k].complete = value[k].complete
    /\ value[k].excused \subseteq value'[k].excused

\* An entry that is to be dropped is dropped, or excused from all of its indices.
StaysDoomed(k) ==
  Doomed(k) =>
    Doomed(k)' \/ value'[k] = Absent \/ \A i \in IndicesOf(k)' : i \in value'[k].excused

\* An entry is taken from an index only if it is excused from it, or doomed.
Keeps(k, i) ==
  value'[k] # Absent /\ i \in IndicesOf(k)' /\ i \notin value'[k].excused /\ ~Doomed(k)'
    /\ k \in index[i] => k \in index'[i]

\* So nothing comes under an index that a call has not raced with.
LEMMA NoneRises ==
  ASSUME NEW c, NEW k, NEW i, Ages(k), StaysDoomed(k), young[c] \subseteq young'[c],
         Under(k, i, c)'
  PROVE  Under(k, i, c)
  BY DEF Ages, StaysDoomed, Under, Standing, IndicesOf

\* All of these.
Lasts(k) == Ages(k) /\ StaysDoomed(k) /\ \A i \in Indices : Keeps(k, i)

\* An entry that has to be in its indices is.
InItsIndices(k) == Standing(k) => \A i \in IndicesOf(k) \ value[k].excused : k \in index[i]

\* What is complete stays indexed.
LEMMA LastingStaysIndexed ==
  ASSUME EntriesIndexed, TypeOK', \A k \in Keys : Lasts(k) \/ InItsIndices(k)'
  PROVE  EntriesIndexed'
  <1>. SUFFICES ASSUME NEW k \in Keys, Lasts(k), Standing(k)',
                      NEW i \in (IndicesOf(k) \ value[k].excused)'
               PROVE  (k \in index[i])'
    BY DEF EntriesIndexed, InItsIndices, Standing
  <1>1. value'[k] \in Entry
    BY DEF TypeOK, Standing
  <1>2. i \in Indices
    BY <1>1 DEF Entry, IndicesOf, Indices
  <1>3. Standing(k) /\ i \in IndicesOf(k) \ value[k].excused
    BY DEF Lasts, Ages, StaysDoomed, Standing, IndicesOf
  <1>4. k \in index[i]
    BY <1>3 DEF EntriesIndexed, Standing
  <1>. QED  BY <1>2, <1>4 DEF Lasts, Keeps, Standing

\* An entry that another call than d puts or completes: d has raced with it.
Raced(k, d) ==
  value'[k] # Absent /\ value'[k].writer # d /\ (call[d] # Absent => k \in young'[d])

\* A call that takes no step is where it was.
LEMMA OthersStaySound ==
  ASSUME TypeOK', NEW d \in Calls, CallSound(d), \A k \in Keys : Lasts(k) \/ Raced(k, d),
         call'[d] = call[d], young[d] \subseteq young'[d], todo'[d] = todo[d]
  PROVE  CallSound(d)'
  <1>1. InOrder(d)' /\ (Writing(d)' <=> Writing(d)) /\ (Reading(d)' <=> Reading(d))
    BY DEF CallSound, InOrder, Deleting, Putting, Writing, Reading, Purging, Closing, IsSet,
           IsPurge
  <1>2. ASSUME NEW k \in Keys, NEW i, Under(k, i, d)', call[d] # Absent PROVE Under(k, i, d)
    <2>1. Lasts(k)
      BY <1>2 DEF Raced, Under
    <2>. QED  BY <1>2, <2>1, NoneRises DEF Lasts
  <1>3. \A k \in Keys : Own(d, k)' => Lasts(k) /\ Own(d, k)
    BY <1>1 DEF Own, Lasts, Ages, Raced
  <1>4. Younger(d)'
    <2>. SUFFICES ASSUME call[d] # Absent, NEW k \in Keys, value'[k] # Absent, ~value'[k].complete
                 PROVE  k \in young'[d] \/ Own(d, k)'
      BY DEF Younger
    <2>1. CASE Lasts(k)
      BY <1>1, <2>1 DEF CallSound, Younger, Own, Lasts, Ages
    <2>. QED  BY <2>1 DEF Raced
  <1>5. Written(d)'
    <2>. SUFFICES ASSUME NEW k \in Keys, Own(d, k)'
                 PROVE  /\ ~value'[k].complete /\ value'[k].tags = call'[d].tags
                        /\ \A i \in (IndicesOf(k) \ value[k].excused)' :
                             k \in index'[i] \/ Doomed(k)' \/ Adding(d, k, i)'
      BY DEF Written
    <2>1. Own(d, k) /\ Ages(k) /\ StaysDoomed(k) /\ \A i \in Indices : Keeps(k, i)
      BY <1>3 DEF Lasts
    <2>2. ~value'[k].complete /\ value'[k].tags = call'[d].tags
      BY <2>1 DEF Own, Ages, CallSound, Written
    <2>3. ASSUME NEW i \in (IndicesOf(k) \ value[k].excused)'
          PROVE  k \in index'[i] \/ Doomed(k)' \/ Adding(d, k, i)'
      <3>1. value'[k] \in Entry
        BY DEF TypeOK, Own
      <3>2. i \in Indices
        BY <2>3, <3>1 DEF Entry, IndicesOf, Indices
      <3>3. i \in IndicesOf(k) \ value[k].excused /\ (Adding(d, k, i)' <=> Adding(d, k, i))
        BY <2>1, <2>3 DEF Ages, Own, IndicesOf, Adding
      <3>4. k \in index[i] \/ Doomed(k) \/ Adding(d, k, i)
        BY <2>1, <3>3 DEF CallSound, Written
      <3>5. Doomed(k) => Doomed(k)'
        BY <2>1, <2>3 DEF StaysDoomed, Own
      <3>6. k \in index[i] => k \in index'[i] \/ Doomed(k)'
        BY <2>1, <2>3, <3>2 DEF Keeps, Own
      <3>. QED  BY <3>3, <3>4, <3>5, <3>6
    <2>. QED  BY <2>2, <2>3
  <1>6. todo[d] # {} => call[d] # Absent
    BY DEF CallSound, InOrder, Deleting, Putting, Writing, Reading, Purging, Closing, IsSet,
           IsPurge
  <1>7. Dropped(d)'
    BY <1>6 DEF CallSound, Dropped, Lasts, Ages, Raced
  <1>8. Unneeded(d)'
    BY <1>2, <1>6 DEF CallSound, Unneeded
  <1>9. Purged(d)'
    BY <1>1, <1>2 DEF CallSound, Purged, IsPurge
  <1>. QED  BY <1>1, <1>4, <1>5, <1>7, <1>8, <1>9 DEF CallSound

\* A call is no less sound for what it says of others, when it does not write.
LEMMA AgingStaysYounger ==
  ASSUME NEW c \in Calls, CallSound(c), \A k \in Keys : Ages(k),
         call'[c] = call[c], young'[c] = young[c], Writing(c) => Writing(c)'
  PROVE  Younger(c)'
  BY DEF CallSound, Younger, Own, Ages

\* Whom a step takes no command of still dooms what it doomed.
LEMMA DoomedByOthers ==
  ASSUME NEW c \in Calls, NEW k, \A d \in Calls \ {c} : todo'[d] = todo[d],
         Dropping(c, k) =>
           \/ Dropping(c, k)' \/ value'[k] = Absent
           \/ \A i \in IndicesOf(k)' : i \in value'[k].excused
  PROVE  StaysDoomed(k)
  <1>1. \A d \in Calls \ {c} : Dropping(d, k) => Dropping(d, k)'
    BY DEF Dropping
  <1>. QED  BY <1>1 DEF StaysDoomed, Doomed

DropNames == {"srem", "card", "delIndex", "drop"}

\* A command that is not about to drop k leaves what is.
LEMMA OtherCommands ==
  ASSUME TypeOK, NEW c \in Calls, NEW cmd, NEW more, Go(c, cmd, more), NEW k,
         cmd[1] \notin DropNames \/ cmd[2] # k
  PROVE  StaysDoomed(k)
  <1>1. Dropping(c, k) => Dropping(c, k)'
    BY GoDoes DEF Dropping, DropNames
  <1>. QED  BY <1>1, GoDoes, DoomedByOthers

\* One that hands over to another does too.
LEMMA HandsOver ==
  ASSUME TypeOK, NEW c \in Calls, NEW cmd, NEW more, Go(c, cmd, more), NEW k,
         NEW x \in (todo[c] \ {cmd}) \cup more, x[1] \in DropNames, x[2] = k
  PROVE  StaysDoomed(k) /\ Dropping(c, k)'
  <1>1. Dropping(c, k)'
    BY GoDoes DEF Dropping, DropNames
  <1>. QED  BY <1>1, GoDoes, DoomedByOthers

--------------------------------------------------------------------------------
(* A call that deletes.                                                    *)

\* It goes on with commands about the same key.
LEMMA DeletionGoesOn ==
  ASSUME TypeOK, NEW c \in Calls, NEW k \in Keys, NEW cmd \in Deletes(k), NEW more,
         Go(c, cmd, more), InDeletion(c), more \subseteq Deletes(k), todo'[c] # {}
  PROVE  InOrder(c)' /\ ~Writing(c)'
  <1>1. cmd \in todo[c] /\ todo'[c] = (todo[c] \ {cmd}) \cup more /\ call' = call
    BY GoDoes
  <1>2. CASE Deleting(c)
    <2>1. call[c].key = k
      BY <1>1, <1>2, DeletesNamed DEF Deleting
    <2>2. Deleting(c)'
      BY <1>1, <1>2, <2>1 DEF Deleting, IsSet
    <2>3. ~Writing(c)'
      BY <2>2, DeletesNamed, WritesNamed DEF Deleting, Writing, DeleteNames, WriteNames
    <2>. QED  BY <2>2, <2>3 DEF InOrder
  <1>3. CASE call[c] # Absent /\ call[c].kind = "delete" /\ todo[c] \subseteq Deletes(call[c].key)
    <2>1. call[c].key = k
      BY <1>1, <1>3, DeletesNamed
    <2>2. call'[c] # Absent /\ call'[c].kind = "delete" /\ todo'[c] \subseteq Deletes(call'[c].key)
      BY <1>1, <1>3, <2>1
    <2>. QED  BY <2>2 DEF InOrder, Writing, IsSet
  <1>4. CASE Purging(c)
    <2>1. todo'[c] \subseteq UNION {Deletes(j) : j \in Keys}
      BY <1>1, <1>4 DEF Purging
    <2>2. Purging(c)'
      BY <1>1, <1>4, <2>1 DEF Purging, IsPurge
    <2>. QED  BY <2>2 DEF InOrder, Purging, IsPurge, Writing, IsSet
  <1>. QED  BY <1>2, <1>3, <1>4 DEF InDeletion

\* What a step of the deletion has to see to.
LEMMA DeletionSound ==
  ASSUME TypeOK, TypeOK', EntriesIndexed, \A d \in Calls : CallSound(d),
         NEW c \in Calls, NEW cmd, NEW more, Go(c, cmd, more), cmd[1] \in DeleteNames,
         \A k \in Keys : Ages(k) /\ StaysDoomed(k),
         \A k \in Keys, i \in Indices : Keeps(k, i),
         InOrder(c)', ~Writing(c)',
         \A k \in Keys : <<"tags", k>> = cmd => Dropping(c, k)',
         \A k \in Keys : <<"unlist", k>> \in more => value'[k] = Absent,
         \A k \in Keys, t \in Tags : <<"delIndex", k, t>> \in more => index[t] = {}
  PROVE  TagInv'
  <1>1. /\ cmd \in todo[c] /\ todo'[c] = (todo[c] \ {cmd}) \cup more
        /\ \A d \in Calls \ {c} : todo'[d] = todo[d]
        /\ call' = call /\ young' = young
    BY GoDoes
  <1>2. EntriesIndexed'
    BY LastingStaysIndexed DEF Lasts
  <1>3. \A d \in Calls \ {c} : CallSound(d)'
    BY <1>1, OthersStaySound DEF Lasts
  <1>4. InDeletion(c) /\ ~Writing(c) /\ ~Reading(c)
    <2>1. InDeletion(c)
      BY <1>1, DeletionPhase DEF CallSound
    <2>2. ~Reading(c)
      BY <1>1 DEF Reading, DeleteNames
    <2>. QED  BY <1>1, <2>1, <2>2, DeletionOwnsNothing
  <1>5. \A k, i : k \in Keys /\ Under(k, i, c)' => Under(k, i, c)
    BY <1>1, NoneRises
  <1>6. Younger(c)'
    BY <1>1, <1>4, AgingStaysYounger
  <1>7. Written(c)'
    BY DEF Written, Own
  <1>8. Dropped(c)'
    BY <1>1 DEF CallSound, Dropped, Ages
  <1>9. Unneeded(c)'
    <2>. SUFFICES ASSUME NEW k \in Keys, NEW t \in Tags, <<"delIndex", k, t>> \in todo'[c],
                        NEW j \in Keys, Under(j, t, c)'
                 PROVE  FALSE
      BY DEF Unneeded
    <2>1. Under(j, t, c)
      BY <1>5
    <2>2. CASE <<"delIndex", k, t>> \in todo[c]
      BY <2>1, <2>2 DEF CallSound, Unneeded
    <2>3. CASE <<"delIndex", k, t>> \in more
      BY <2>1, <2>3 DEF Under, Standing, EntriesIndexed
    <2>. QED  BY <1>1, <2>2, <2>3
  <1>10. Purged(c)'
    <2>. SUFFICES ASSUME IsPurge(c)', NEW k \in Keys, Under(k, call[c].index, c)'
                 PROVE  <<"tags", k>> \in todo'[c]
      BY DEF Purged
    <2>1. Under(k, call[c].index, c) /\ IsPurge(c)
      BY <1>1, <1>5 DEF IsPurge
    <2>2. <<"tags", k>> \in todo[c]
      BY <1>4, <2>1 DEF CallSound, Purged
    <2>3. ~Dropping(c, k)'
      BY DEF Under, Standing, Doomed
    <2>. QED  BY <1>1, <2>2, <2>3
  <1>11. CallSound(c)'
    BY <1>6, <1>7, <1>8, <1>9, <1>10 DEF CallSound
  <1>. QED  BY <1>2, <1>3, <1>11 DEF TagInv

\* Entries that do not change age.
LEMMA Unchanged == value' = value => \A k : Ages(k)
  BY DEF Ages

LEMMA TagsSound ==
  ASSUME TagInv, NEW c \in Calls, NEW k \in Keys, SMembersTags(c, k)
  PROVE  TagInv'
  <1>. DEFINE cmd == <<"tags", k>>
              more == IF tagsOf[k] = {} THEN {<<"drop", k>>}
                      ELSE {<<"srem", k, t>> : t \in tagsOf[k]}
  <1>1. /\ Go(c, cmd, more) /\ value' = value /\ index' = index /\ tagsOf' = tagsOf
        /\ TypeOK /\ InOrder(c)
    BY DEF SMembersTags, redis, tagging, TagInv, CallSound
  <1>2. /\ cmd \in todo[c] /\ todo'[c] = (todo[c] \ {cmd}) \cup more
        /\ call' = call /\ young' = young /\ todo' = [d \in Calls |-> todo'[d]]
    BY <1>1, GoDoes
  <1>3. PICK x : x \in more /\ x[1] \in {"drop", "srem"} /\ x[2] = k
    <2>1. CASE tagsOf[k] = {}
      <3>1. <<"drop", k>> \in more
        BY <2>1
      <3>. QED  BY <3>1
    <2>2. CASE tagsOf[k] # {}
      <3>1. PICK t \in tagsOf[k] : <<"srem", k, t>> \in more
        BY <2>2
      <3>. QED  BY <3>1
    <2>. QED  BY <2>1, <2>2
  <1>4. more \subseteq Deletes(k) /\ cmd \in Deletes(k) /\ cmd[1] \in DeleteNames
    <2>1. tagsOf[k] \subseteq Tags
      BY <1>1 DEF TypeOK
    <2>. QED  BY <2>1 DEF Deletes, DeleteNames
  <1>5. \A y \in more : y[1] \in {"drop", "srem"}
    OBVIOUS
  <1>. HIDE DEF more
  <1>6. InOrder(c)' /\ ~Writing(c)'
    <2>1. InDeletion(c)
      BY <1>1, <1>2, <1>4, DeletionPhase
    <2>. QED  BY <1>1, <1>2, <1>3, <1>4, <2>1, DeletionGoesOn
  <1>7. \A j \in Keys : Ages(j) /\ StaysDoomed(j)
    BY <1>1, Unchanged, OtherCommands DEF DropNames
  <1>8. \A j \in Keys, i \in Indices : Keeps(j, i)
    BY <1>1 DEF Keeps
  <1>9. Dropping(c, k)'
    BY <1>1, <1>2, <1>3, HandsOver DEF DropNames
  <1>10. TypeOK'
    BY <1>1, <1>2 DEF TypeOK
  <1>11. \A j \in Keys : <<"tags", j>> = cmd => Dropping(c, j)'
    BY <1>9
  <1>12. /\ \A j \in Keys : <<"unlist", j>> \notin more
         /\ \A j \in Keys, t \in Tags : <<"delIndex", j, t>> \notin more
    BY <1>5
  <1>. HIDE DEF cmd
  <1>. QED
    BY <1>1, <1>4, <1>6, <1>7, <1>8, <1>10, <1>11, <1>12, DeletionSound DEF TagInv

LEMMA SRemSound ==
  ASSUME TagInv, NEW c \in Calls, NEW k \in Keys, NEW t \in Tags, SRem(c, k, t)
  PROVE  TagInv'
  <1>. DEFINE cmd == <<"srem", k, t>>
              x == <<"card", k, t>>
              more == {x}
  <1>1. /\ Go(c, cmd, more) /\ value' = value /\ tagsOf' = tagsOf
        /\ index' = [index EXCEPT ![t] = @ \ {k}] /\ TypeOK /\ InOrder(c)
    BY DEF SRem, tagging, TagInv, CallSound
  <1>2. /\ cmd \in todo[c] /\ todo'[c] = (todo[c] \ {cmd}) \cup more
        /\ call' = call /\ young' = young /\ todo' = [d \in Calls |-> todo'[d]]
    BY <1>1, GoDoes
  <1>3. more \subseteq Deletes(k) /\ cmd \in Deletes(k) /\ cmd[1] \in DeleteNames
    BY DEF Deletes, DeleteNames
  <1>4. InOrder(c)' /\ ~Writing(c)'
    <2>1. InDeletion(c)
      BY <1>1, <1>2, <1>3, DeletionPhase
    <2>. QED  BY <1>1, <1>2, <1>3, <2>1, DeletionGoesOn
  <1>5. StaysDoomed(k) /\ Dropping(c, k)'
    <2>1. x \in (todo[c] \ {cmd}) \cup more /\ x[1] \in DropNames /\ x[2] = k
      BY DEF DropNames
    <2>. HIDE DEF x, cmd, more
    <2>. QED  BY <1>1, <2>1, HandsOver
  <1>6. \A j \in Keys : Ages(j) /\ StaysDoomed(j)
    BY <1>1, <1>5, Unchanged, OtherCommands DEF DropNames
  <1>7. \A j \in Keys, i \in Indices : Keeps(j, i)
    <2>. SUFFICES ASSUME NEW j \in Keys, NEW i \in Indices, ~Doomed(j)', j \in index[i]
                 PROVE  j \in index'[i]
      BY DEF Keeps
    <2>1. j # k
      BY <1>5 DEF Doomed
    <2>2. index'[i] = IF i = t THEN index[t] \ {k} ELSE index[i]
      BY <1>1 DEF TypeOK
    <2>. QED  BY <2>1, <2>2
  <1>8. TypeOK'
    <2>1. index' \in [Indices -> SUBSET Keys]
      BY <1>1 DEF TypeOK
    <2>. QED  BY <1>1, <1>2, <2>1 DEF TypeOK
  <1>9. \A j : <<"tags", j>> # cmd /\ <<"unlist", j>> \notin more
    OBVIOUS
  <1>10. \A j \in Keys, i \in Tags : <<"delIndex", j, i>> \notin more
    OBVIOUS
  <1>. HIDE DEF cmd, more
  <1>. QED
    BY <1>1, <1>3, <1>4, <1>6, <1>7, <1>8, <1>9, <1>10, DeletionSound DEF TagInv

\* When a call is done with a tag of k, another tag of k or its entry is next.
LEMMA UntaggedGoesOn ==
  ASSUME NEW c, NEW k, NEW cmd
  PROVE  /\ Untagged(c, k, cmd) \subseteq {<<"drop", k>>}
         /\ \E x \in (todo[c] \ {cmd}) \cup Untagged(c, k, cmd) : x[1] \in DropNames /\ x[2] = k
  <1>1. CASE \E x \in todo[c] \ {cmd} : x[1] \in {"srem", "card", "delIndex"} /\ x[2] = k
    <2>1. PICK x \in todo[c] \ {cmd} : x[1] \in DropNames /\ x[2] = k
      BY <1>1 DEF DropNames
    <2>2. Untagged(c, k, cmd) = {}
      BY <1>1, Zenon DEF Untagged
    <2>. QED  BY <2>1, <2>2
  <1>2. CASE ~\E x \in todo[c] \ {cmd} : x[1] \in {"srem", "card", "delIndex"} /\ x[2] = k
    <2>1. Untagged(c, k, cmd) = {<<"drop", k>>}
      BY <1>2, Zenon DEF Untagged
    <2>2. <<"drop", k>>[1] \in DropNames /\ <<"drop", k>>[2] = k
      BY DEF DropNames
    <2>. QED  BY <2>1, <2>2
  <1>. QED  BY <1>1, <1>2

LEMMA SCardSound ==
  ASSUME TagInv, NEW c \in Calls, NEW k \in Keys, NEW t \in Tags, SCard(c, k, t)
  PROVE  TagInv'
  <1>. DEFINE cmd == <<"card", k, t>>
              more == IF IsEmpty(t) THEN {<<"delIndex", k, t>>} ELSE Untagged(c, k, cmd)
  <1>1. /\ Go(c, cmd, more) /\ value' = value /\ tagsOf' = tagsOf /\ index' = index
        /\ TypeOK /\ InOrder(c)
    BY DEF SCard, redis, tagging, TagInv, CallSound
  <1>2. /\ cmd \in todo[c] /\ todo'[c] = (todo[c] \ {cmd}) \cup more
        /\ call' = call /\ young' = young /\ todo' = [d \in Calls |-> todo'[d]]
    BY <1>1, GoDoes
  <1>3. PICK x : x \in (todo[c] \ {cmd}) \cup more /\ x[1] \in DropNames /\ x[2] = k
    <2>1. CASE IsEmpty(t)
      <3>1. <<"delIndex", k, t>> \in more
        BY <2>1
      <3>. QED  BY <3>1 DEF DropNames
    <2>2. CASE ~IsEmpty(t)
      BY <2>2, UntaggedGoesOn
    <2>. QED  BY <2>1, <2>2
  <1>4. more \subseteq Deletes(k) /\ cmd \in Deletes(k) /\ cmd[1] \in DeleteNames
    <2>1. Untagged(c, k, cmd) \subseteq {<<"drop", k>>}
      BY UntaggedGoesOn
    <2>. QED  BY <2>1 DEF Deletes, DeleteNames
  <1>5. /\ \A j \in Keys : <<"tags", j>> # cmd /\ <<"unlist", j>> \notin more
        /\ \A j \in Keys, i \in Tags : <<"delIndex", j, i>> \in more => index[i] = {}
    <2>1. Untagged(c, k, cmd) \subseteq {<<"drop", k>>}
      BY UntaggedGoesOn
    <2>. QED  BY <2>1 DEF IsEmpty
  <1>. HIDE DEF more
  <1>6. InOrder(c)' /\ ~Writing(c)'
    <2>1. InDeletion(c)
      BY <1>1, <1>2, <1>4, DeletionPhase
    <2>. QED  BY <1>1, <1>2, <1>3, <1>4, <2>1, DeletionGoesOn
  <1>7. \A j \in Keys : Ages(j) /\ StaysDoomed(j)
    <2>1. StaysDoomed(k)
      BY <1>1, <1>3, HandsOver
    <2>. QED  BY <1>1, <2>1, Unchanged, OtherCommands
  <1>8. \A j \in Keys, i \in Indices : Keeps(j, i)
    BY <1>1 DEF Keeps
  <1>9. TypeOK'
    BY <1>1, <1>2 DEF TypeOK
  <1>. HIDE DEF cmd
  <1>. QED
    BY <1>1, <1>4, <1>5, <1>6, <1>7, <1>8, <1>9, DeletionSound DEF TagInv

\* Taking keys from an index leaves every entry, and excuses those that race.
LEMMA TakeFromDoes ==
  ASSUME TypeOK, NEW c \in Calls, NEW i \in Indices, NEW keys, TakeFrom(c, i, keys)
  PROVE  /\ \A k \in Keys : Ages(k)
         /\ \A k \in Keys : k \in keys \cap index[i] \cap young[c] /\ value'[k] # Absent
              => i \in value'[k].excused
         /\ \A j \in Indices : index'[j] = IF j = i THEN index[i] \ keys ELSE index[j]
         /\ value' \in [Keys -> Entry \cup {Absent}]
         /\ index' \in [Indices -> SUBSET Keys]
  <1>. DEFINE raced(k) == k \in keys \cap index[i] \cap young[c] /\ value[k] # Absent
              excused(k) == [value[k] EXCEPT !.excused = @ \cup {i}]
  <1>1. value' = [k \in Keys |-> IF raced(k) THEN excused(k) ELSE value[k]]
    BY DEF TakeFrom
  <1>2. \A k \in Keys : value'[k] = IF raced(k) THEN excused(k) ELSE value[k]
    BY <1>1
  <1>3. ASSUME NEW k \in Keys, value[k] # Absent
        PROVE  /\ excused(k) \in Entry
               /\ excused(k).tags = value[k].tags /\ excused(k).writer = value[k].writer
               /\ excused(k).complete = value[k].complete
               /\ value[k].excused \cup {i} = excused(k).excused
    <2>1. value[k] \in Entry
      BY <1>3 DEF TypeOK
    <2>. QED  BY <2>1 DEF Entry
  <1>4. \A k \in Keys : value[k] \in Entry \cup {Absent}
    BY DEF TypeOK
  <1>. HIDE DEF excused
  <1>5. \A k \in Keys : Ages(k)
    BY <1>2, <1>3 DEF Ages
  <1>6. value' \in [Keys -> Entry \cup {Absent}]
    <2>1. \A k \in Keys : value'[k] \in Entry \cup {Absent}
      BY <1>2, <1>3, <1>4
    <2>. QED  BY <1>1, <2>1
  <1>7. /\ \A j \in Indices : index'[j] = IF j = i THEN index[i] \ keys ELSE index[j]
        /\ index' \in [Indices -> SUBSET Keys]
    BY DEF TakeFrom, TypeOK
  <1>8. \A k \in Keys : k \in keys \cap index[i] \cap young[c] /\ value'[k] # Absent
          => i \in value'[k].excused
    BY <1>2, <1>3
  <1>. QED  BY <1>2, <1>5, <1>6, <1>7, <1>8

\* What is under the index and has not raced keeps it.
LEMMA TakesOnly ==
  ASSUME TypeOK, TypeOK', NEW c \in Calls, CallSound(c), call[c] # Absent, ~Writing(c),
         NEW i \in Indices, NEW keys, TakeFrom(c, i, keys),
         \A k \in Keys : StaysDoomed(k),
         \A k \in Keys : k \in keys => ~Under(k, i, c)
  PROVE  \A k \in Keys, j \in Indices : Keeps(k, j)
  <1>. SUFFICES ASSUME NEW k \in Keys, NEW j \in Indices, value'[k] # Absent,
                      j \in IndicesOf(k)', j \notin value'[k].excused, ~Doomed(k)', k \in index[j]
               PROVE  k \in index'[j]
    BY DEF Keeps
  <1>1. Ages(k) /\ index'[j] = IF j = i THEN index[i] \ keys ELSE index[j]
    BY TakeFromDoes
  <1>2. CASE j # i \/ k \notin keys
    BY <1>1, <1>2
  <1>3. CASE j = i /\ k \in keys
    <2>1. k \notin young[c]
      BY <1>3, TakeFromDoes
    <2>2. value[k] # Absent /\ i \in IndicesOf(k) \ value[k].excused
      BY <1>1, <1>3 DEF Ages, IndicesOf
    <2>3. value[k].complete
      BY <2>1, <2>2 DEF CallSound, Younger, Own
    <2>4. ~Doomed(k)
      BY DEF StaysDoomed
    <2>5. Under(k, i, c)
      BY <2>1, <2>2, <2>3, <2>4 DEF Under, Standing
    <2>. QED  BY <1>3, <2>5
  <1>. QED  BY <1>2, <1>3

LEMMA DelIndexSound ==
  ASSUME TagInv, NEW c \in Calls, NEW k \in Keys, NEW t \in Tags, DelIndex(c, k, t)
  PROVE  TagInv'
  <1>. DEFINE cmd == <<"delIndex", k, t>>
              more == Untagged(c, k, cmd)
  <1>1. /\ Go(c, cmd, more) /\ TakeFrom(c, t, Keys) /\ tagsOf' = tagsOf
        /\ TypeOK /\ CallSound(c) /\ InOrder(c) /\ t \in Indices
    BY DEF DelIndex, tagging, TagInv, CallSound, Indices
  <1>2. /\ cmd \in todo[c] /\ todo'[c] = (todo[c] \ {cmd}) \cup more
        /\ call' = call /\ young' = young /\ todo' = [d \in Calls |-> todo'[d]]
    BY <1>1, GoDoes
  <1>3. PICK x : x \in (todo[c] \ {cmd}) \cup more /\ x[1] \in DropNames /\ x[2] = k
    BY UntaggedGoesOn
  <1>4. more \subseteq Deletes(k) /\ cmd \in Deletes(k) /\ cmd[1] \in DeleteNames
    <2>1. Untagged(c, k, cmd) \subseteq {<<"drop", k>>}
      BY UntaggedGoesOn
    <2>. QED  BY <2>1 DEF Deletes, DeleteNames
  <1>5. /\ \A j \in Keys : <<"tags", j>> # cmd /\ <<"unlist", j>> \notin more
        /\ \A j \in Keys, i \in Tags : <<"delIndex", j, i>> \notin more
    <2>1. Untagged(c, k, cmd) \subseteq {<<"drop", k>>}
      BY UntaggedGoesOn
    <2>. QED  BY <2>1
  <1>6. \A j \in Keys : ~Under(j, t, c)
    BY <1>1, <1>2 DEF CallSound, Unneeded
  <1>. HIDE DEF more
  <1>7. InDeletion(c) /\ ~Writing(c) /\ call[c] # Absent
    <2>1. InDeletion(c)
      BY <1>1, <1>2, <1>4, DeletionPhase
    <2>2. ~Writing(c)
      BY <1>2, <2>1, DeletionOwnsNothing
    <2>. QED  BY <2>1, <2>2 DEF InDeletion, Deleting, Purging, IsSet, IsPurge
  <1>8. InOrder(c)' /\ ~Writing(c)'
    BY <1>1, <1>2, <1>3, <1>4, <1>7, DeletionGoesOn
  <1>9. \A j \in Keys : Ages(j) /\ StaysDoomed(j)
    <2>1. StaysDoomed(k)
      BY <1>1, <1>3, HandsOver
    <2>2. \A j \in Keys : j # k => StaysDoomed(j)
      BY <1>1, OtherCommands
    <2>. QED  BY <1>1, <2>1, <2>2, TakeFromDoes
  <1>10. TypeOK'
    <2>1. value' \in [Keys -> Entry \cup {Absent}] /\ index' \in [Indices -> SUBSET Keys]
      BY <1>1, TakeFromDoes
    <2>. QED  BY <1>1, <1>2, <2>1 DEF TypeOK
  <1>11. \A j \in Keys, i \in Indices : Keeps(j, i)
    BY <1>1, <1>6, <1>7, <1>9, <1>10, TakesOnly
  <1>. HIDE DEF cmd
  <1>. QED
    BY <1>1, <1>4, <1>5, <1>8, <1>9, <1>10, <1>11, DeletionSound DEF TagInv

LEMMA DropSound ==
  ASSUME TagInv, NEW c \in Calls, NEW k \in Keys, Drop(c, k)
  PROVE  TagInv'
  <1>. DEFINE cmd == <<"drop", k>>
              more == {<<"unlist", k>>}
  <1>1. /\ Go(c, cmd, more) /\ index' = index /\ value' = [value EXCEPT ![k] = Absent]
        /\ tagsOf' = [tagsOf EXCEPT ![k] = {}] /\ TypeOK /\ InOrder(c)
    BY DEF Drop, Forget, TagInv, CallSound
  <1>2. /\ cmd \in todo[c] /\ todo'[c] = (todo[c] \ {cmd}) \cup more
        /\ call' = call /\ young' = young /\ todo' = [d \in Calls |-> todo'[d]]
        /\ \A d \in Calls \ {c} : todo'[d] = todo[d]
    BY <1>1, GoDoes
  <1>3. more \subseteq Deletes(k) /\ cmd \in Deletes(k) /\ cmd[1] \in DeleteNames
    BY DEF Deletes, DeleteNames
  <1>4. InOrder(c)' /\ ~Writing(c)'
    <2>1. InDeletion(c)
      BY <1>1, <1>2, <1>3, DeletionPhase
    <2>. QED  BY <1>1, <1>2, <1>3, <2>1, DeletionGoesOn
  <1>5. value'[k] = Absent /\ \A j \in Keys \ {k} : value'[j] = value[j]
    BY <1>1 DEF TypeOK
  <1>6. \A j \in Keys : Ages(j) /\ StaysDoomed(j)
    <2>1. \A j \in Keys : Ages(j)
      BY <1>5 DEF Ages
    <2>2. StaysDoomed(k)
      BY <1>5 DEF StaysDoomed
    <2>3. \A j \in Keys : j # k => StaysDoomed(j)
      BY <1>1, OtherCommands
    <2>. QED  BY <2>1, <2>2, <2>3
  <1>7. \A j \in Keys, i \in Indices : Keeps(j, i)
    BY <1>1 DEF Keeps
  <1>8. TypeOK'
    <2>1. /\ value' \in [Keys -> Entry \cup {Absent}] /\ tagsOf' \in [Keys -> SUBSET Tags]
      BY <1>1 DEF TypeOK
    <2>. QED  BY <1>1, <1>2, <2>1 DEF TypeOK
  <1>9. /\ \A j \in Keys : <<"tags", j>> # cmd
        /\ \A j \in Keys : <<"unlist", j>> \in more => value'[j] = Absent
        /\ \A j \in Keys, i \in Tags : <<"delIndex", j, i>> \notin more
    BY <1>5
  <1>. HIDE DEF cmd, more
  <1>. QED
    BY <1>1, <1>3, <1>4, <1>6, <1>7, <1>8, <1>9, DeletionSound DEF TagInv

\* The last deletion of a set is followed by its put, that of a purge by the deletion of
\* its index.
LEMMA DeletedGoesOn ==
  ASSUME TypeOK, NEW c \in Calls, NEW k \in Keys, InOrder(c),
         Go(c, <<"unlist", k>>, Deleted(c, <<"unlist", k>>))
  PROVE  /\ InOrder(c)' /\ ~Writing(c)' /\ InDeletion(c)
         /\ \A x \in Deleted(c, <<"unlist", k>>) : x[1] \in {"put", "dropIndex"}
  <1>. DEFINE cmd == <<"unlist", k>>
              more == Deleted(c, cmd)
  <1>1. /\ cmd \in todo[c] /\ todo'[c] = (todo[c] \ {cmd}) \cup more /\ call' = call
    BY GoDoes
  <1>2. cmd \in Deletes(k) /\ cmd[1] \in DeleteNames
    BY DEF Deletes, DeleteNames
  <1>3. InDeletion(c)
    BY <1>1, <1>2, DeletionPhase
  <1>4. CASE todo[c] # {cmd}
    <2>1. more = {}
      BY <1>4 DEF Deleted
    <2>2. todo'[c] # {}
      BY <1>1, <1>4, <2>1
    <2>3. more \subseteq Deletes(k)
      BY <2>1
    <2>. HIDE DEF cmd
    <2>. QED  BY <1>2, <1>3, <2>1, <2>2, <2>3, DeletionGoesOn DEF cmd
  <1>5. CASE todo[c] = {cmd} /\ Deleting(c)
    <2>1. more = {<<"put", call[c].key>>}
      BY <1>5 DEF Deleted, Deleting, IsSet
    <2>2. todo'[c] = {<<"put", call[c].key>>}
      BY <1>1, <1>5, <2>1
    <2>3. Putting(c)'
      BY <1>1, <1>5, <2>2 DEF Putting, Deleting, IsSet
    <2>4. ~Writing(c)'
      <3>1. <<"put", call[c].key>> \in todo'[c] /\ <<"put", call[c].key>>[1] \notin WriteNames
        BY <2>2 DEF WriteNames
      <3>. QED  BY <3>1, WritesNamed DEF Writing
    <2>. QED  BY <1>3, <2>1, <2>3, <2>4 DEF InOrder
  <1>6. CASE todo[c] = {cmd} /\ Purging(c)
    <2>1. more = {<<"dropIndex", call[c].index>>}
      BY <1>6 DEF Deleted, Purging, IsPurge
    <2>2. todo'[c] = {<<"dropIndex", call[c].index>>}
      BY <1>1, <1>6, <2>1
    <2>3. Closing(c)'
      BY <1>1, <1>6, <2>2 DEF Closing, Purging, IsPurge
    <2>. QED  BY <1>3, <2>1, <2>3 DEF InOrder, Closing, IsPurge, Writing, IsSet
  <1>7. CASE todo[c] = {cmd} /\ call[c] # Absent /\ call[c].kind = "delete"
    <2>1. more = {}
      BY <1>7 DEF Deleted
    <2>2. todo'[c] = {}
      BY <1>1, <1>7, <2>1
    <2>. QED  BY <1>1, <1>3, <1>7, <2>1, <2>2 DEF InOrder, Writing, IsSet
  <1>. QED  BY <1>3, <1>4, <1>5, <1>6, <1>7 DEF InDeletion

LEMMA UnlistSound ==
  ASSUME TagInv, NEW c \in Calls, NEW k \in Keys, Unlist(c, k)
  PROVE  TagInv'
  <1>. DEFINE cmd == <<"unlist", k>>
              more == Deleted(c, cmd)
  <1>1. /\ Go(c, cmd, more) /\ TakeFrom(c, All, {k}) /\ tagsOf' = tagsOf
        /\ TypeOK /\ CallSound(c) /\ InOrder(c) /\ All \in Indices
    BY DEF Unlist, tagging, TagInv, CallSound, Indices
  <1>2. /\ cmd \in todo[c] /\ todo'[c] = (todo[c] \ {cmd}) \cup more
        /\ call' = call /\ young' = young /\ todo' = [d \in Calls |-> todo'[d]]
    BY <1>1, GoDoes
  <1>3. /\ InOrder(c)' /\ ~Writing(c)' /\ InDeletion(c)
        /\ \A x \in more : x[1] \in {"put", "dropIndex"}
    BY <1>1, DeletedGoesOn
  <1>4. /\ \A j \in Keys : <<"tags", j>> # cmd /\ <<"unlist", j>> \notin more
        /\ \A j \in Keys, i \in Tags : <<"delIndex", j, i>> \notin more
        /\ cmd[1] \in DeleteNames /\ cmd[1] \notin DropNames
    BY <1>3 DEF DeleteNames, DropNames
  <1>5. ~Under(k, All, c)
    BY <1>1, <1>2 DEF CallSound, Dropped, Under, Standing
  <1>. HIDE DEF more, cmd
  <1>6. ~Writing(c) /\ call[c] # Absent
    <2>1. ~Writing(c)
      BY <1>2, <1>3, DeletionOwnsNothing
    <2>. QED  BY <1>3, <2>1 DEF InDeletion, Deleting, Purging, IsSet, IsPurge
  <1>7. \A j \in Keys : Ages(j) /\ StaysDoomed(j)
    BY <1>1, <1>4, OtherCommands, TakeFromDoes
  <1>8. TypeOK'
    <2>1. value' \in [Keys -> Entry \cup {Absent}] /\ index' \in [Indices -> SUBSET Keys]
      BY <1>1, TakeFromDoes
    <2>. QED  BY <1>1, <1>2, <2>1 DEF TypeOK
  <1>9. \A j \in Keys, i \in Indices : Keeps(j, i)
    BY <1>1, <1>5, <1>6, <1>7, <1>8, TakesOnly
  <1>. QED
    BY <1>1, <1>3, <1>4, <1>7, <1>8, <1>9, DeletionSound DEF TagInv

--------------------------------------------------------------------------------
(* A purge, before and after.                                              *)

\* What it reads is everything that has to be there.
LEMMA MembersSound ==
  ASSUME TagInv, NEW c \in Calls, NEW i \in Indices, SMembersIndex(c, i)
  PROVE  TagInv'
  <1>. DEFINE cmd == <<"members", i>>
              more == {<<"tags", k>> : k \in index[i]}
  <1>1. /\ Go(c, cmd, more) /\ value' = value /\ index' = index /\ tagsOf' = tagsOf
        /\ TypeOK /\ CallSound(c) /\ InOrder(c)
    BY DEF SMembersIndex, Members, redis, tagging, TagInv, CallSound
  <1>2. /\ cmd \in todo[c] /\ todo'[c] = (todo[c] \ {cmd}) \cup more
        /\ call' = call /\ young' = young /\ todo' = [d \in Calls |-> todo'[d]]
        /\ \A d \in Calls \ {c} : todo'[d] = todo[d]
    BY <1>1, GoDoes
  <1>3. Reading(c) /\ call[c].index = i
    <2>1. Reading(c)
      BY <1>1, <1>2, ReadPhase
    <2>2. cmd = <<"members", call[c].index>>
      BY <1>2, <2>1 DEF Reading
    <2>. QED  BY <2>1, <2>2
  <1>4. todo'[c] = more
    BY <1>2, <1>3 DEF Reading
  <1>5. \A k \in Keys : Lasts(k)
    <2>1. cmd[1] \notin DropNames
      BY DEF DropNames
    <2>. HIDE DEF cmd, more
    <2>2. \A k \in Keys : StaysDoomed(k)
      BY <1>1, <2>1, OtherCommands
    <2>. QED  BY <1>1, <2>2, Unchanged DEF Lasts, Keeps
  <1>6. TypeOK'
    BY <1>1, <1>2 DEF TypeOK
  <1>7. EntriesIndexed'
    BY <1>5, <1>6, LastingStaysIndexed DEF TagInv
  <1>8. \A d \in Calls \ {c} : CallSound(d)'
    BY <1>2, <1>5, <1>6, OthersStaySound DEF TagInv
  <1>9. ~IsSet(c) /\ ~IsSet(c)'
    BY <1>2, <1>3 DEF Reading, IsPurge, IsSet
  <1>10. InOrder(c)'
    <2>1. more \subseteq UNION {Deletes(k) : k \in Keys}
      <3>1. index[i] \subseteq Keys
        BY <1>1 DEF TypeOK
      <3>2. \A k \in Keys : <<"tags", k>> \in Deletes(k)
        BY DEF Deletes
      <3>. QED  BY <3>1, <3>2
    <2>. QED  BY <1>2, <1>3, <1>4, <2>1 DEF Reading, InOrder, Purging, IsPurge
  <1>11. Younger(c)'
    BY <1>1, <1>2, <1>5, <1>9, AgingStaysYounger DEF Lasts, Writing
  <1>12. Written(c)'
    BY <1>9 DEF Written, Own, Writing
  <1>13. Dropped(c)' /\ Unneeded(c)'
    BY <1>4 DEF Dropped, Unneeded
  <1>14. Purged(c)'
    <2>. SUFFICES ASSUME NEW k \in Keys, Under(k, call[c].index, c)'
                 PROVE  <<"tags", k>> \in todo'[c]
      BY DEF Purged
    <2>1. Under(k, i, c)
      BY <1>2, <1>3, <1>5, NoneRises DEF Lasts
    <2>2. k \in index[i]
      BY <2>1 DEF Under, Standing, TagInv, EntriesIndexed
    <2>. QED  BY <1>4, <2>2
  <1>15. CallSound(c)'
    BY <1>10, <1>11, <1>12, <1>13, <1>14 DEF CallSound
  <1>. QED  BY <1>6, <1>7, <1>8, <1>15 DEF TagInv

\* When it drops the index, no entry has to be there.
LEMMA DropIndexSound ==
  ASSUME TagInv, NEW c \in Calls, NEW i \in Indices, DropIndex(c, i)
  PROVE  TagInv'
  <1>. DEFINE cmd == <<"dropIndex", i>>
  <1>1. /\ Go(c, cmd, {}) /\ TakeFrom(c, i, Keys) /\ tagsOf' = tagsOf
        /\ TypeOK /\ CallSound(c) /\ InOrder(c)
    BY DEF DropIndex, tagging, TagInv, CallSound
  <1>2. /\ cmd \in todo[c] /\ todo'[c] = (todo[c] \ {cmd}) \cup {}
        /\ call' = call /\ young' = young /\ todo' = [d \in Calls |-> todo'[d]]
        /\ \A d \in Calls \ {c} : todo'[d] = todo[d]
    BY <1>1, GoDoes
  <1>3. Closing(c) /\ call[c].index = i
    <2>1. Closing(c)
      BY <1>1, <1>2, ClosePhase
    <2>2. cmd = <<"dropIndex", call[c].index>>
      BY <1>2, <2>1 DEF Closing
    <2>. QED  BY <2>1, <2>2
  <1>4. todo[c] = {cmd} /\ todo'[c] = {}
    BY <1>2, <1>3 DEF Closing
  <1>5. IsPurge(c) /\ ~IsSet(c) /\ ~IsSet(c)' /\ ~Reading(c) /\ call[c] # Absent
    <2>1. cmd # <<"members", call[c].index>>
      OBVIOUS
    <2>2. ~Reading(c)
      BY <1>4, <2>1 DEF Reading
    <2>. QED  BY <1>2, <1>3, <2>2 DEF Closing, IsPurge, IsSet
  <1>6. \A k \in Keys : ~Under(k, i, c)
    <2>1. \A k \in Keys : <<"tags", k>> \notin todo[c]
      BY <1>4
    <2>. QED  BY <1>1, <1>3, <1>5, <2>1 DEF CallSound, Purged
  <1>7. \A k \in Keys : StaysDoomed(k) /\ Ages(k)
    <2>1. cmd[1] \notin DropNames
      BY DEF DropNames
    <2>. HIDE DEF cmd
    <2>. QED  BY <1>1, <2>1, OtherCommands, TakeFromDoes
  <1>8. TypeOK'
    <2>1. value' \in [Keys -> Entry \cup {Absent}] /\ index' \in [Indices -> SUBSET Keys]
      BY <1>1, TakeFromDoes
    <2>. QED  BY <1>1, <1>2, <2>1 DEF TypeOK
  <1>9. \A k \in Keys, j \in Indices : Keeps(k, j)
    BY <1>1, <1>5, <1>6, <1>7, <1>8, TakesOnly DEF Writing
  <1>10. EntriesIndexed'
    BY <1>7, <1>8, <1>9, LastingStaysIndexed DEF TagInv, Lasts
  <1>11. \A d \in Calls \ {c} : CallSound(d)'
    BY <1>2, <1>7, <1>8, <1>9, OthersStaySound DEF TagInv, Lasts
  <1>12. InOrder(c)'
    BY <1>2, <1>4, <1>5 DEF InOrder, Purging, IsPurge
  <1>13. Younger(c)'
    BY <1>1, <1>2, <1>5, <1>7, AgingStaysYounger DEF Writing
  <1>14. Written(c)' /\ Dropped(c)' /\ Unneeded(c)'
    BY <1>4, <1>5 DEF Written, Own, Writing, Dropped, Unneeded
  <1>15. Purged(c)'
    BY <1>2, <1>3, <1>6, <1>7, NoneRises DEF Purged
  <1>16. CallSound(c)'
    BY <1>12, <1>13, <1>14, <1>15 DEF CallSound
  <1>. QED  BY <1>8, <1>10, <1>11, <1>16 DEF TagInv

--------------------------------------------------------------------------------
(* A set that writes.                                                      *)

\* What a step of the writing has to see to: an index that is no longer to be written
\* has the key.
LEMMA WriteSound ==
  ASSUME TagInv, TypeOK', NEW c \in Calls, NEW k \in Keys, NEW cmd, NEW more,
         Go(c, cmd, more), cmd[1] \in WriteNames, cmd[2] = k, value' = value,
         \A i \in Indices : index[i] \subseteq index'[i],
         call[c].key = k => more \subseteq Writes(k, call[c].tags),
         \A i \in call[c].tags \cup {All} : Adding(c, k, i) => Adding(c, k, i)' \/ k \in index'[i]
  PROVE  TagInv'
  <1>1. /\ cmd \in todo[c] /\ todo'[c] = (todo[c] \ {cmd}) \cup more
        /\ call' = call /\ young' = young /\ todo' = [d \in Calls |-> todo'[d]]
        /\ \A d \in Calls \ {c} : todo'[d] = todo[d]
        /\ TypeOK /\ CallSound(c)
    BY GoDoes DEF TagInv
  <1>2. Writing(c) /\ call[c].key = k
    <2>1. Writing(c)
      BY <1>1, WritePhase DEF CallSound
    <2>. QED  BY <1>1, <2>1, WritesNamed DEF Writing
  <1>3. IsSet(c) /\ IsSet(c)' /\ ~IsPurge(c)' /\ Writing(c)'
    BY <1>1, <1>2 DEF Writing, IsSet, IsPurge
  <1>4. \A j \in Keys : Lasts(j)
    <2>1. cmd[1] \notin DropNames
      BY DEF DropNames, WriteNames
    <2>2. \A j \in Keys : StaysDoomed(j)
      BY <1>1, <2>1, OtherCommands
    <2>3. \A j \in Keys, i \in Indices : Keeps(j, i)
      BY DEF Keeps
    <2>. QED  BY <2>2, <2>3, Unchanged DEF Lasts
  <1>5. EntriesIndexed'
    BY <1>4, LastingStaysIndexed DEF TagInv
  <1>6. \A d \in Calls \ {c} : CallSound(d)'
    BY <1>1, <1>4, OthersStaySound DEF TagInv
  <1>7. Younger(c)'
    BY <1>1, <1>3, <1>4, AgingStaysYounger DEF Lasts
  <1>8. Written(c)'
    <2>. SUFFICES ASSUME NEW j \in Keys, Own(c, j)'
                 PROVE  /\ ~value'[j].complete /\ value'[j].tags = call'[c].tags
                        /\ \A i \in (IndicesOf(j) \ value[j].excused)' :
                             j \in index'[i] \/ Doomed(j)' \/ Adding(c, j, i)'
      BY DEF Written
    <2>1. Own(c, j) /\ j = k
      BY <1>1, <1>2 DEF Own
    <2>2. /\ ~value[j].complete /\ value[j].tags = call[c].tags
          /\ \A i \in IndicesOf(j) \ value[j].excused :
               j \in index[i] \/ Doomed(j) \/ Adding(c, j, i)
      BY <1>1, <2>1 DEF CallSound, Written
    <2>3. ASSUME NEW i \in (IndicesOf(j) \ value[j].excused)'
          PROVE  j \in index'[i] \/ Doomed(j)' \/ Adding(c, j, i)'
      <3>1. i \in IndicesOf(j) \ value[j].excused /\ i \in call[c].tags \cup {All}
        BY <2>2, <2>3 DEF IndicesOf
      <3>2. i \in Indices
        <4>1. value[j] \in Entry
          BY <1>1, <2>1 DEF Own, TypeOK
        <4>. QED  BY <3>1, <4>1 DEF Entry, IndicesOf, Indices
      <3>3. Doomed(j) => Doomed(j)'
        BY <1>4, <2>1, <2>3 DEF Lasts, StaysDoomed, Own
      <3>. QED  BY <2>1, <2>2, <3>1, <3>2, <3>3
    <2>. QED  BY <1>1, <2>2, <2>3
  <1>9. Dropped(c)' /\ Unneeded(c)'
    <2>1. \A x \in todo'[c] : x[1] \in WriteNames
      BY <1>3, WritesNamed DEF Writing
    <2>. QED  BY <2>1 DEF WriteNames, Dropped, Unneeded
  <1>10. InOrder(c)' /\ Purged(c)'
    BY <1>3 DEF InOrder, Purged
  <1>11. CallSound(c)'
    BY <1>7, <1>8, <1>9, <1>10 DEF CallSound
  <1>. QED  BY <1>5, <1>6, <1>11 DEF TagInv

LEMMA AddKeySound ==
  ASSUME TagInv, NEW c \in Calls, NEW k \in Keys, AddKey(c, k)
  PROVE  TagInv'
  <1>. DEFINE cmd == <<"list", k>>
              more == {<<"delTags", k>>}
  <1>1. /\ Go(c, cmd, more) /\ value' = value /\ tagsOf' = tagsOf /\ TypeOK /\ All \in Indices
        /\ index' = [index EXCEPT ![All] = @ \cup {k}]
    BY DEF AddKey, tagging, TagInv, Indices
  <1>2. todo'[c] = (todo[c] \ {cmd}) \cup more /\ call' = call /\ young' = young
        /\ todo' = [d \in Calls |-> todo'[d]]
    BY <1>1, GoDoes
  <1>3. k \in index'[All] /\ \A i \in Indices : index[i] \subseteq index'[i]
    BY <1>1 DEF TypeOK
  <1>4. ASSUME NEW i, Adding(c, k, i) PROVE Adding(c, k, i)' \/ k \in index'[i]
    <2>1. CASE i = All
      BY <1>3, <2>1
    <2>2. CASE i # All
      <3>1. <<"delTags", k>> \in todo'[c]
        BY <1>2
      <3>. QED  BY <2>2, <3>1 DEF Adding
    <2>. QED  BY <2>1, <2>2
  <1>5. TypeOK'
    <2>1. index' \in [Indices -> SUBSET Keys]
      BY <1>1 DEF TypeOK
    <2>. QED  BY <1>1, <1>2, <2>1 DEF TypeOK
  <1>6. more \subseteq Writes(k, call[c].tags) /\ cmd[1] \in WriteNames /\ cmd[2] = k
    BY DEF Writes, WriteNames
  <1>. HIDE DEF cmd, more
  <1>. QED  BY <1>1, <1>3, <1>4, <1>5, <1>6, WriteSound

\* Only a set without tags is through with the list of tags.
LEMMA DelTagsSound ==
  ASSUME TagInv, NEW c \in Calls, NEW k \in Keys, DelTags(c, k)
  PROVE  TagInv'
  <1>. DEFINE cmd == <<"delTags", k>>
              more == IF call[c].tags = {} THEN {} ELSE {<<"addTags", k>>}
  <1>1. /\ Go(c, cmd, more) /\ value' = value /\ index' = index /\ TypeOK
        /\ tagsOf' = [tagsOf EXCEPT ![k] = {}]
    BY DEF DelTags, Forget, TagInv
  <1>2. todo'[c] = (todo[c] \ {cmd}) \cup more /\ call' = call /\ young' = young
        /\ todo' = [d \in Calls |-> todo'[d]]
    BY <1>1, GoDoes
  <1>3. ASSUME NEW i \in call[c].tags \cup {All}, Adding(c, k, i) PROVE Adding(c, k, i)'
    <2>1. CASE i = All
      <3>1. <<"list", k>> \in todo[c] \/ <<"add", k, i>> \in todo[c]
        BY <1>3, <2>1 DEF Adding
      <3>2. <<"list", k>> # cmd /\ <<"add", k, i>> # cmd
        OBVIOUS
      <3>3. <<"list", k>> \in todo'[c] \/ <<"add", k, i>> \in todo'[c]
        BY <1>2, <3>1, <3>2
      <3>. QED  BY <2>1, <3>3 DEF Adding
    <2>2. CASE i # All
      <3>1. <<"addTags", k>> \in todo'[c]
        BY <1>2, <1>3, <2>2
      <3>. QED  BY <2>2, <3>1 DEF Adding
    <2>. QED  BY <2>1, <2>2
  <1>4. TypeOK'
    <2>1. tagsOf' \in [Keys -> SUBSET Tags]
      BY <1>1 DEF TypeOK
    <2>. QED  BY <1>1, <1>2, <2>1 DEF TypeOK
  <1>5. more \subseteq Writes(k, call[c].tags) /\ cmd[1] \in WriteNames /\ cmd[2] = k
    BY DEF Writes, WriteNames
  <1>. HIDE DEF cmd, more
  <1>. QED  BY <1>1, <1>3, <1>4, <1>5, WriteSound

\* From here on each tag has its own command.
LEMMA TagByTag ==
  ASSUME NEW c, NEW k, NEW cmd, cmd[1] # "add" /\ cmd[1] # "list",
         todo'[c] = (todo[c] \ {cmd}) \cup IndexTags(c, k),
         NEW i \in call[c].tags \cup {All}, Adding(c, k, i)
  PROVE  Adding(c, k, i)'
  <1>1. CASE i \in call[c].tags
    <2>1. <<"add", k, i>> \in todo'[c]
      BY <1>1 DEF IndexTags
    <2>. QED  BY <2>1 DEF Adding
  <1>2. CASE i = All
    <2>1. <<"list", k>> \in todo[c] \/ <<"add", k, i>> \in todo[c]
      BY <1>2 DEF Adding
    <2>2. <<"list", k>> # cmd /\ <<"add", k, i>> # cmd
      OBVIOUS
    <2>3. <<"list", k>> \in todo'[c] \/ <<"add", k, i>> \in todo'[c]
      BY <2>1, <2>2
    <2>. QED  BY <1>2, <2>3 DEF Adding
  <1>. QED  BY <1>1, <1>2

LEMMA AddTagsSound ==
  ASSUME TagInv, NEW c \in Calls, NEW k \in Keys, AddTags(c, k)
  PROVE  TagInv'
  <1>. DEFINE cmd == <<"addTags", k>>
              more == IF call[c].lives THEN {<<"expire", k>>} ELSE IndexTags(c, k)
  <1>1. /\ Go(c, cmd, more) /\ value' = value /\ index' = index /\ TypeOK
        /\ tagsOf' = [tagsOf EXCEPT ![k] = @ \cup call[c].tags]
    BY DEF AddTags, TagInv
  <1>2. /\ todo'[c] = (todo[c] \ {cmd}) \cup more /\ call' = call /\ young' = young
        /\ todo' = [d \in Calls |-> todo'[d]] /\ cmd \in todo[c]
    BY <1>1, GoDoes
  <1>3. more \subseteq Writes(k, call[c].tags) /\ cmd[1] \in WriteNames /\ cmd[2] = k
    BY DEF Writes, WriteNames, IndexTags
  <1>4. ASSUME NEW i \in call[c].tags \cup {All}, Adding(c, k, i) PROVE Adding(c, k, i)'
    <2>1. CASE call[c].lives /\ i # All
      <3>1. <<"expire", k>> \in todo'[c]
        BY <1>2, <2>1
      <3>. QED  BY <2>1, <3>1 DEF Adding
    <2>2. CASE call[c].lives /\ i = All
      <3>1. <<"list", k>> \in todo[c] \/ <<"add", k, i>> \in todo[c]
        BY <1>4, <2>2 DEF Adding
      <3>2. <<"list", k>> # cmd /\ <<"add", k, i>> # cmd
        OBVIOUS
      <3>3. <<"list", k>> \in todo'[c] \/ <<"add", k, i>> \in todo'[c]
        BY <1>2, <3>1, <3>2
      <3>. QED  BY <2>2, <3>3 DEF Adding
    <2>3. CASE ~call[c].lives
      <3>1. todo'[c] = (todo[c] \ {cmd}) \cup IndexTags(c, k) /\ cmd[1] # "add" /\ cmd[1] # "list"
        BY <1>2, <2>3
      <3>. HIDE DEF cmd
      <3>. QED  BY <1>4, <3>1, TagByTag
    <2>. QED  BY <2>1, <2>2, <2>3
  <1>5. TypeOK'
    <2>1. call[c].tags \subseteq Tags
      <3>1. Writing(c)
        BY <1>2, <1>3, WritePhase DEF TagInv, CallSound
      <3>2. call[c] \in Call /\ call[c].kind = "set"
        BY <1>1, <3>1 DEF TypeOK, Writing, IsSet
      <3>. QED  BY <3>2 DEF Call
    <2>2. tagsOf' \in [Keys -> SUBSET Tags]
      BY <1>1, <2>1 DEF TypeOK
    <2>. QED  BY <1>1, <1>2, <2>2 DEF TypeOK
  <1>. HIDE DEF cmd, more
  <1>. QED  BY <1>1, <1>3, <1>4, <1>5, WriteSound

LEMMA ExpireSound ==
  ASSUME TagInv, NEW c \in Calls, NEW k \in Keys, Expire(c, k)
  PROVE  TagInv'
  <1>. DEFINE cmd == <<"expire", k>>
              more == IndexTags(c, k)
  <1>1. /\ Go(c, cmd, more) /\ value' = value /\ index' = index /\ TypeOK /\ tagsOf' = tagsOf
    BY DEF Expire, TagInv
  <1>2. todo'[c] = (todo[c] \ {cmd}) \cup more /\ call' = call /\ young' = young
        /\ todo' = [d \in Calls |-> todo'[d]]
    BY <1>1, GoDoes
  <1>3. more \subseteq Writes(k, call[c].tags) /\ cmd[1] \in WriteNames /\ cmd[2] = k
    BY DEF Writes, WriteNames, IndexTags
  <1>4. cmd[1] # "add" /\ cmd[1] # "list"
    OBVIOUS
  <1>5. TypeOK'
    BY <1>1, <1>2 DEF TypeOK
  <1>. HIDE DEF cmd
  <1>6. \A i \in call[c].tags \cup {All} : Adding(c, k, i) => Adding(c, k, i)'
    BY <1>2, <1>4, TagByTag
  <1>. HIDE DEF more
  <1>. QED  BY <1>1, <1>3, <1>5, <1>6, WriteSound

LEMMA AddToIndexSound ==
  ASSUME TagInv, NEW c \in Calls, NEW k \in Keys, NEW t \in Tags, AddToIndex(c, k, t)
  PROVE  TagInv'
  <1>. DEFINE cmd == <<"add", k, t>>
  <1>1. /\ Go(c, cmd, {}) /\ value' = value /\ tagsOf' = tagsOf /\ TypeOK /\ t \in Indices
        /\ index' = [index EXCEPT ![t] = @ \cup {k}]
    BY DEF AddToIndex, tagging, TagInv, Indices
  <1>2. todo'[c] = (todo[c] \ {cmd}) \cup {} /\ call' = call /\ young' = young
        /\ todo' = [d \in Calls |-> todo'[d]]
    BY <1>1, GoDoes
  <1>3. k \in index'[t] /\ \A i \in Indices : index[i] \subseteq index'[i]
    BY <1>1 DEF TypeOK
  <1>4. ASSUME NEW i, Adding(c, k, i) PROVE Adding(c, k, i)' \/ k \in index'[i]
    <2>1. CASE i = t
      BY <1>3, <2>1
    <2>2. CASE i # t
      <3>1. <<"add", k, i>> # cmd /\ \A s : <<s, k>> # cmd
        BY <2>2
      <3>2. /\ <<"add", k, i>> \in todo[c] => <<"add", k, i>> \in todo'[c]
            /\ \A s : <<s, k>> \in todo[c] => <<s, k>> \in todo'[c]
        BY <1>2, <3>1
      <3>. QED  BY <1>4, <3>2 DEF Adding
    <2>. QED  BY <2>1, <2>2
  <1>5. TypeOK'
    <2>1. index' \in [Indices -> SUBSET Keys]
      BY <1>1 DEF TypeOK
    <2>. QED  BY <1>1, <1>2, <2>1 DEF TypeOK
  <1>6. {} \subseteq Writes(k, call[c].tags) /\ cmd[1] \in WriteNames /\ cmd[2] = k
    BY DEF WriteNames
  <1>. HIDE DEF cmd
  <1>. QED  BY <1>1, <1>3, <1>4, <1>5, <1>6, WriteSound

\* The new entry is younger than every other call, and its own is to index it.
LEMMA PutSound ==
  ASSUME TagInv, NEW c \in Calls, NEW k \in Keys, Put(c, k)
  PROVE  TagInv'
  <1>. DEFINE entry == [tags |-> call[c].tags, complete |-> FALSE, excused |-> {},
                        lives |-> call[c].lives, writer |-> c]
  <1>1. /\ <<"put", k>> \in todo[c] /\ todo' = [todo EXCEPT ![c] = {<<"list", k>>}]
        /\ value' = [value EXCEPT ![k] = entry]
        /\ young' = [d \in Calls |->
                        IF d # c /\ call[d] # Absent THEN young[d] \cup {k} ELSE young[d]]
        /\ tagsOf' = tagsOf /\ index' = index /\ call' = call /\ TypeOK /\ CallSound(c)
    BY DEF Put, tagging, TagInv
  <1>2. Putting(c) /\ call[c].key = k
    <2>1. Putting(c)
      BY <1>1, PutPhase DEF CallSound
    <2>2. <<"put", k>> = <<"put", call[c].key>>
      BY <1>1, <2>1 DEF Putting
    <2>. QED  BY <2>1, <2>2
  <1>3. ~Writing(c)
    <2>1. <<"put", k>>[1] \notin WriteNames
      BY DEF WriteNames
    <2>. QED  BY <1>1, <2>1, WritesNamed DEF Writing
  <1>4. entry \in Entry
    <2>1. call[c] \in Call /\ call[c].kind = "set"
      BY <1>1, <1>2 DEF TypeOK, Putting, IsSet
    <2>2. call[c].tags \subseteq Tags /\ call[c].lives \in BOOLEAN
      BY <2>1 DEF Call
    <2>. QED  BY <2>2 DEF Entry
  <1>5. /\ value'[k] = entry /\ \A j \in Keys \ {k} : value'[j] = value[j]
        /\ todo'[c] = {<<"list", k>>} /\ \A d \in Calls \ {c} : todo'[d] = todo[d]
        /\ todo' = [d \in Calls |-> todo'[d]] /\ young'[c] = young[c]
        /\ \A d \in Calls : young[d] \subseteq young'[d]
        /\ \A d \in Calls \ {c} : call[d] # Absent => k \in young'[d]
    BY <1>1 DEF TypeOK
  <1>6. /\ entry.tags = call[c].tags /\ entry.complete = FALSE /\ entry.excused = {}
        /\ entry.writer = c
    OBVIOUS
  <1>7. TypeOK'
    <2>1. value' \in [Keys -> Entry \cup {Absent}]
      BY <1>1, <1>4 DEF TypeOK
    <2>2. young' \in [Calls -> SUBSET Keys]
      BY <1>1 DEF TypeOK
    <2>. HIDE DEF entry
    <2>. QED  BY <1>1, <1>5, <2>1, <2>2 DEF TypeOK
  <1>. HIDE DEF entry
  <1>8. ASSUME NEW j \in Keys \ {k} PROVE Lasts(j)
    <2>1. Ages(j)
      BY <1>5 DEF Ages
    <2>2. ~Dropping(c, j)
      BY <1>2 DEF Putting, Dropping
    <2>3. StaysDoomed(j)
      BY <1>5, <2>2, DoomedByOthers
    <2>. QED  BY <1>1, <2>1, <2>3 DEF Lasts, Keeps
  <1>9. EntriesIndexed'
    <2>1. InItsIndices(k)'
      BY <1>5, <1>6 DEF InItsIndices, Standing
    <2>. QED  BY <1>7, <1>8, <2>1, LastingStaysIndexed DEF TagInv
  <1>10. ASSUME NEW d \in Calls \ {c} PROVE CallSound(d)'
    <2>1. value'[k] # Absent => Raced(k, d)
      BY <1>5, <1>6 DEF Raced
    <2>2. value'[k] = Absent => Lasts(k)
      BY <1>1 DEF Lasts, Ages, StaysDoomed, Keeps
    <2>. QED  BY <1>1, <1>5, <1>7, <1>8, <2>1, <2>2, OthersStaySound DEF TagInv
  <1>11. Writing(c)' /\ IsSet(c)' /\ ~IsPurge(c)'
    <2>1. <<"list", k>> \in Writes(k, call[c].tags)
      BY DEF Writes
    <2>. QED  BY <1>1, <1>2, <1>5, <2>1 DEF Writing, Putting, IsSet, IsPurge
  <1>12. Younger(c)'
    <2>. SUFFICES ASSUME NEW j \in Keys, value'[j] # Absent, ~value'[j].complete
                 PROVE  j \in young'[c] \/ Own(c, j)'
      BY DEF Younger
    <2>1. CASE j = k
      BY <1>1, <1>2, <1>5, <1>6, <1>11, <2>1 DEF Own
    <2>2. CASE j # k
      BY <1>1, <1>3, <1>5, <1>11, <2>2 DEF CallSound, Younger, Own, IsSet
    <2>. QED  BY <2>1, <2>2
  <1>13. Written(c)'
    <2>. SUFFICES ASSUME Own(c, k)'
                 PROVE  /\ ~value'[k].complete /\ value'[k].tags = call'[c].tags
                        /\ \A i \in (IndicesOf(k) \ value[k].excused)' : Adding(c, k, i)'
      BY <1>1, <1>2 DEF Written, Own
    <2>1. \A i : Adding(c, k, i)'
      BY <1>5 DEF Adding
    <2>. QED  BY <1>1, <1>5, <1>6, <2>1
  <1>14. Dropped(c)' /\ Unneeded(c)'
    BY <1>5 DEF Dropped, Unneeded
  <1>15. CallSound(c)'
    BY <1>11, <1>12, <1>13, <1>14 DEF CallSound, InOrder, Purged
  <1>. QED  BY <1>7, <1>9, <1>10, <1>15 DEF TagInv

--------------------------------------------------------------------------------
(* Calls begin and end.                                                    *)

\* A call that begins knows what is not complete yet.
LEMMA BeginSound ==
  ASSUME TagInv, NEW c \in Calls, NEW first, Begin(c, first), first[1] \in {"tags", "members"},
         NEW new \in Call, call' = [call EXCEPT ![c] = new], InOrder(c)', ~Writing(c)',
         IsPurge(c)' => Reading(c)'
  PROVE  TagInv'
  <1>1. /\ call[c] = Absent /\ todo' = [todo EXCEPT ![c] = {first}]
        /\ young' = [young EXCEPT ![c] = Incomplete] /\ value' = value /\ index' = index
        /\ tagsOf' = tagsOf /\ TypeOK /\ CallSound(c)
    BY DEF Begin, redis, tagging, TagInv
  <1>2. /\ todo'[c] = {first} /\ young'[c] = Incomplete /\ call'[c] = new
        /\ todo' = [d \in Calls |-> todo'[d]]
        /\ \A d \in Calls \ {c} : /\ todo'[d] = todo[d] /\ young'[d] = young[d]
                                  /\ call'[d] = call[d]
    BY <1>1 DEF TypeOK
  <1>3. TypeOK'
    <2>1. call' \in [Calls -> Call \cup {Absent}] /\ young' \in [Calls -> SUBSET Keys]
      BY <1>1 DEF TypeOK, Incomplete
    <2>. QED  BY <1>1, <1>2, <2>1 DEF TypeOK
  <1>4. todo[c] = {}
    BY <1>1 DEF CallSound, InOrder, Deleting, Putting, Writing, Reading, Purging, Closing,
                IsSet, IsPurge
  <1>5. ASSUME NEW k \in Keys PROVE Lasts(k)
    <2>1. ~Dropping(c, k)
      BY <1>4 DEF Dropping
    <2>2. StaysDoomed(k)
      BY <1>2, <2>1, DoomedByOthers
    <2>. QED  BY <1>1, <2>2, Unchanged DEF Lasts, Keeps
  <1>6. EntriesIndexed'
    BY <1>3, <1>5, LastingStaysIndexed DEF TagInv
  <1>7. \A d \in Calls \ {c} : CallSound(d)'
    BY <1>2, <1>3, <1>5, OthersStaySound DEF TagInv
  <1>8. Younger(c)'
    BY <1>1, <1>2 DEF Younger, Incomplete
  <1>9. Written(c)' /\ Purged(c)'
    BY DEF Written, Own, Purged
  <1>10. Dropped(c)' /\ Unneeded(c)'
    <2>1. \A x \in todo'[c] : x[1] # "unlist" /\ x[1] # "delIndex"
      BY <1>2
    <2>. QED  BY <2>1 DEF Dropped, Unneeded
  <1>. QED  BY <1>3, <1>6, <1>7, <1>8, <1>9, <1>10 DEF TagInv, CallSound

\* Sets and deletions begin with the list of tags.
LEMMA FirstDeletes ==
  ASSUME NEW k
  PROVE  {<<"tags", k>>} \subseteq Deletes(k) /\ <<"tags", k>>[1] \notin WriteNames
  BY DEF Deletes, WriteNames

LEMMA SetSound ==
  ASSUME TagInv, NEW c \in Calls, NEW k \in Keys, Set(c, k)
  PROVE  TagInv'
  <1>1. PICK tags \in SUBSET (Tags \cup {Absent}), lives \in Lifetimes :
          call' = [call EXCEPT ![c] =
            [kind |-> "set", key |-> k, tags |-> Given(tags), lives |-> lives]]
    BY DEF Set
  <1>2. PICK new : new = [kind |-> "set", key |-> k, tags |-> Given(tags), lives |-> lives]
    OBVIOUS
  <1>3. Begin(c, <<"tags", k>>) /\ call' = [call EXCEPT ![c] = new]
    BY <1>1, <1>2 DEF Set
  <1>4. new \in Call /\ new.kind = "set" /\ new.key = k
    <2>1. Given(tags) \subseteq Tags /\ lives \in BOOLEAN
      BY CacheConstants DEF Given
    <2>. QED  BY <1>2, <2>1 DEF Call
  <1>5. call'[c] = new /\ todo'[c] = {<<"tags", k>>}
    BY <1>3 DEF Begin, TagInv, TypeOK
  <1>6. Deleting(c)' /\ ~IsPurge(c)'
    BY <1>4, <1>5, FirstDeletes, AbsentIsNoCall DEF Deleting, IsSet, IsPurge
  <1>7. ~Writing(c)'
    BY <1>5, FirstDeletes, WritesNamed DEF Writing
  <1>8. <<"tags", k>>[1] \in {"tags", "members"}
    OBVIOUS
  <1>. QED  BY <1>3, <1>4, <1>6, <1>7, <1>8, BeginSound DEF InOrder

LEMMA DeleteSound ==
  ASSUME TagInv, NEW c \in Calls, NEW k \in Keys, Delete(c, k)
  PROVE  TagInv'
  <1>2. PICK new : new = [kind |-> "delete", key |-> k]
    OBVIOUS
  <1>3. Begin(c, <<"tags", k>>) /\ call' = [call EXCEPT ![c] = new]
    BY <1>2 DEF Delete
  <1>4. new \in Call /\ new.kind = "delete" /\ new.key = k
    BY <1>2 DEF Call
  <1>5. call'[c] = new /\ todo'[c] = {<<"tags", k>>}
    BY <1>3 DEF Begin, TagInv, TypeOK
  <1>6. InOrder(c)' /\ ~IsPurge(c)' /\ ~Writing(c)'
    <2>1. call'[c] # Absent /\ call'[c].kind = "delete" /\ todo'[c] \subseteq Deletes(call'[c].key)
      BY <1>4, <1>5, FirstDeletes, AbsentIsNoCall
    <2>. QED  BY <2>1 DEF InOrder, IsPurge, Writing, IsSet
  <1>7. <<"tags", k>>[1] \in {"tags", "members"}
    OBVIOUS
  <1>. QED  BY <1>3, <1>4, <1>6, <1>7, BeginSound

LEMMA PurgeByTagSound ==
  ASSUME TagInv, NEW c \in Calls, NEW i \in Indices, PurgeByTag(c, i)
  PROVE  TagInv'
  <1>2. PICK new : new = [kind |-> "purge", index |-> i]
    OBVIOUS
  <1>3. Begin(c, <<"members", i>>) /\ call' = [call EXCEPT ![c] = new]
    BY <1>2 DEF PurgeByTag
  <1>4. new \in Call /\ new.kind = "purge" /\ new.index = i
    BY <1>2 DEF Call
  <1>5. call'[c] = new /\ todo'[c] = {<<"members", i>>}
    BY <1>3 DEF Begin, TagInv, TypeOK
  <1>6. Reading(c)' /\ ~Writing(c)'
    BY <1>4, <1>5, AbsentIsNoCall DEF Reading, IsPurge, Writing, IsSet
  <1>7. <<"members", i>>[1] \in {"tags", "members"}
    OBVIOUS
  <1>. QED  BY <1>3, <1>4, <1>6, <1>7, BeginSound DEF InOrder

\* A call that is gone.
LEMMA GoneSound ==
  ASSUME NEW c \in Calls, call'[c] = Absent, todo'[c] = {}
  PROVE  CallSound(c)'
  BY DEF CallSound, InOrder, Younger, Written, Own, Writing, IsSet, Dropped, Unneeded, Purged,
         IsPurge

\* A set returns: its entry is in all of its indices.
LEMMA ReturnSound ==
  ASSUME TagInv, NEW c \in Calls, Return(c)
  PROVE  TagInv'
  <1>. DEFINE completed(k) == [value[k] EXCEPT !.complete = TRUE]
  <1>1. /\ call[c] # Absent /\ todo[c] = {} /\ todo' = todo /\ index' = index
        /\ value' = [k \in Keys |-> IF Wrote(c, k) THEN completed(k) ELSE value[k]]
        /\ call' = [call EXCEPT ![c] = Absent] /\ young' = [young EXCEPT ![c] = {}]
        /\ tagsOf' = tagsOf /\ TypeOK /\ CallSound(c)
    BY DEF Return, tagging, TagInv
  <1>2. /\ call'[c] = Absent
        /\ \A d \in Calls \ {c} : call'[d] = call[d] /\ young'[d] = young[d]
        /\ \A k \in Keys : value'[k] = IF Wrote(c, k) THEN completed(k) ELSE value[k]
    BY <1>1 DEF TypeOK
  <1>3. ASSUME NEW k \in Keys, value[k] # Absent
        PROVE  /\ completed(k) \in Entry /\ completed(k).tags = value[k].tags
               /\ completed(k).writer = value[k].writer
               /\ completed(k).excused = value[k].excused
    <2>1. value[k] \in Entry
      BY <1>1, <1>3 DEF TypeOK
    <2>. QED  BY <2>1 DEF Entry
  <1>4. \A k \in Keys : Wrote(c, k) => value[k] # Absent /\ Own(c, k)
    BY <1>1 DEF Wrote, Own, Writing, IsSet
  <1>5. TypeOK'
    <2>1. \A k \in Keys : value'[k] \in Entry \cup {Absent}
      <3>1. \A k \in Keys : value[k] \in Entry \cup {Absent}
        BY <1>1 DEF TypeOK
      <3>. HIDE DEF completed
      <3>. QED  BY <1>2, <1>3, <1>4, <3>1
    <2>2. value' \in [Keys -> Entry \cup {Absent}]
      BY <1>1, <2>1
    <2>3. call' \in [Calls -> Call \cup {Absent}] /\ young' \in [Calls -> SUBSET Keys]
      BY <1>1 DEF TypeOK
    <2>. QED  BY <1>1, <2>2, <2>3 DEF TypeOK
  <1>. HIDE DEF completed
  <1>6. \A k : Doomed(k)' <=> Doomed(k)
    BY <1>1 DEF Doomed, Dropping
  <1>7. \A k \in Keys : ~Wrote(c, k) => Lasts(k)
    BY <1>1, <1>2, <1>6 DEF Lasts, Ages, StaysDoomed, Keeps
  <1>8. \A k \in Keys : Wrote(c, k) => InItsIndices(k)'
    <2>. SUFFICES ASSUME NEW k \in Keys, Wrote(c, k), ~Doomed(k)',
                        NEW i \in (IndicesOf(k) \ value[k].excused)'
                 PROVE  k \in index'[i]
      BY DEF InItsIndices, Standing
    <2>1. i \in IndicesOf(k) \ value[k].excused
      BY <1>2, <1>3, <1>4 DEF IndicesOf
    <2>2. k \in index[i] \/ Doomed(k) \/ Adding(c, k, i)
      BY <1>1, <1>4, <2>1 DEF CallSound, Written
    <2>. QED  BY <1>1, <1>6, <2>2 DEF Adding
  <1>9. EntriesIndexed'
    BY <1>5, <1>7, <1>8, LastingStaysIndexed DEF TagInv
  <1>10. ASSUME NEW d \in Calls \ {c} PROVE CallSound(d)'
    <2>1. ASSUME NEW k \in Keys, Wrote(c, k) PROVE Lasts(k) \/ Raced(k, d)
      <3>1. value[k] # Absent /\ ~value[k].complete /\ value[k].writer = c
        BY <1>1, <1>4, <2>1 DEF CallSound, Written, Own
      <3>2. call[d] # Absent => k \in young[d]
        BY <3>1 DEF TagInv, CallSound, Younger, Own
      <3>3. value'[k] # Absent => Raced(k, d)
        BY <1>2, <1>3, <2>1, <3>1, <3>2 DEF Raced
      <3>4. value'[k] = Absent => Lasts(k)
        BY <1>1 DEF Lasts, Ages, StaysDoomed, Keeps
      <3>. QED  BY <3>3, <3>4
    <2>. QED  BY <1>1, <1>2, <1>5, <1>7, <2>1, OthersStaySound DEF TagInv
  <1>11. CallSound(c)'
    BY <1>1, <1>2, GoneSound
  <1>. QED  BY <1>5, <1>9, <1>10, <1>11 DEF TagInv

\* A call is cut off: what it was about to drop is excused.
LEMMA CutOffSound ==
  ASSUME TagInv, NEW c \in Calls, CutOff(c)
  PROVE  TagInv'
  <1>. DEFINE excused(k) == [value[k] EXCEPT !.excused = Indices]
              hit(k) == value[k] # Absent /\ Dropping(c, k)
  <1>1. /\ value' = [k \in Keys |-> IF hit(k) THEN excused(k) ELSE value[k]]
        /\ call' = [call EXCEPT ![c] = Absent] /\ todo' = [todo EXCEPT ![c] = {}]
        /\ young' = [young EXCEPT ![c] = {}] /\ tagsOf' = tagsOf /\ index' = index /\ TypeOK
    BY DEF CutOff, tagging, TagInv
  <1>2. /\ call'[c] = Absent /\ todo'[c] = {} /\ todo' = [d \in Calls |-> todo'[d]]
        /\ \A d \in Calls \ {c} : /\ call'[d] = call[d] /\ young'[d] = young[d]
                                  /\ todo'[d] = todo[d]
        /\ \A k \in Keys : value'[k] = IF hit(k) THEN excused(k) ELSE value[k]
    BY <1>1 DEF TypeOK
  <1>3. ASSUME NEW k \in Keys, value[k] # Absent
        PROVE  /\ excused(k) \in Entry /\ excused(k).tags = value[k].tags
               /\ excused(k).writer = value[k].writer
               /\ excused(k).complete = value[k].complete
               /\ excused(k).excused = Indices /\ value[k].excused \subseteq Indices
    <2>1. value[k] \in Entry
      BY <1>1, <1>3 DEF TypeOK
    <2>. QED  BY <2>1 DEF Entry
  <1>. HIDE DEF excused
  <1>4. TypeOK'
    <2>1. \A k \in Keys : value'[k] \in Entry \cup {Absent}
      <3>1. \A k \in Keys : value[k] \in Entry \cup {Absent}
        BY <1>1 DEF TypeOK
      <3>. QED  BY <1>2, <1>3, <3>1
    <2>2. value' \in [Keys -> Entry \cup {Absent}]
      BY <1>1, <2>1
    <2>3. call' \in [Calls -> Call \cup {Absent}] /\ young' \in [Calls -> SUBSET Keys]
      BY <1>1 DEF TypeOK
    <2>. QED  BY <1>1, <1>2, <2>2, <2>3 DEF TypeOK
  <1>5. ASSUME NEW k \in Keys PROVE Lasts(k)
    <2>1. Ages(k)
      BY <1>2, <1>3 DEF Ages
    <2>2. ASSUME Dropping(c, k), value'[k] # Absent
          PROVE  \A i \in IndicesOf(k)' : i \in value'[k].excused
      <3>1. value[k] # Absent /\ value'[k] = excused(k)
        BY <1>2, <2>2
      <3>2. value'[k] \in Entry
        BY <1>3, <3>1
      <3>3. IndicesOf(k)' \subseteq Indices
        BY <3>2 DEF Entry, IndicesOf, Indices
      <3>. QED  BY <1>3, <3>1, <3>3
    <2>3. StaysDoomed(k)
      BY <1>2, <2>2, DoomedByOthers
    <2>. QED  BY <1>1, <2>1, <2>3 DEF Lasts, Keeps
  <1>6. EntriesIndexed'
    BY <1>4, <1>5, LastingStaysIndexed DEF TagInv
  <1>7. \A d \in Calls \ {c} : CallSound(d)'
    BY <1>2, <1>4, <1>5, OthersStaySound DEF TagInv
  <1>8. CallSound(c)'
    BY <1>2, GoneSound
  <1>. QED  BY <1>4, <1>6, <1>7, <1>8 DEF TagInv

\* Redis lets go of an entry or of a list of tags.
LEMMA ExpirySound ==
  ASSUME TagInv, NEW k \in Keys, ExpireValue(k) \/ ExpireTags(k)
  PROVE  TagInv'
  <1>1. /\ index' = index /\ call' = call /\ todo' = todo /\ young' = young /\ TypeOK
        /\ value' = value \/ value' = [value EXCEPT ![k] = Absent]
        /\ tagsOf' = tagsOf \/ tagsOf' = [tagsOf EXCEPT ![k] = {}]
    BY DEF ExpireValue, ExpireTags, Forget, tagging, TagInv
  <1>2. \A j \in Keys : value'[j] = value[j] \/ value'[j] = Absent
    BY <1>1 DEF TypeOK
  <1>3. TypeOK'
    <2>1. value' \in [Keys -> Entry \cup {Absent}] /\ tagsOf' \in [Keys -> SUBSET Tags]
      BY <1>1 DEF TypeOK
    <2>. QED  BY <1>1, <2>1 DEF TypeOK
  <1>4. \A j \in Keys : Lasts(j)
    BY <1>1, <1>2 DEF Lasts, Ages, StaysDoomed, Doomed, Dropping, Keeps
  <1>5. EntriesIndexed'
    BY <1>3, <1>4, LastingStaysIndexed DEF TagInv
  <1>6. \A d \in Calls : CallSound(d)'
    BY <1>1, <1>3, <1>4, OthersStaySound DEF TagInv
  <1>. QED  BY <1>3, <1>5, <1>6 DEF TagInv

--------------------------------------------------------------------------------
LEMMA TagInit == Init => TagInv
  <1>. SUFFICES ASSUME Init PROVE TagInv  OBVIOUS
  <1>1. TypeOK
    BY DEF Init, TypeOK
  <1>2. EntriesIndexed
    BY DEF Init, EntriesIndexed
  <1>3. \A c \in Calls : CallSound(c)
    BY DEF Init, CallSound, InOrder, Younger, Written, Own, Writing, IsSet, Dropped, Unneeded,
           Purged, IsPurge
  <1>. QED  BY <1>1, <1>2, <1>3 DEF TagInv

LEMMA TagNext == TagInv /\ [Next]_vars => TagInv'
  <1>. SUFFICES ASSUME TagInv, [Next]_vars PROVE TagInv'  OBVIOUS
  <1>1. ASSUME NEW c \in Calls, NEW k \in Keys, Set(c, k) \/ Delete(c, k) PROVE TagInv'
    BY <1>1, SetSound, DeleteSound
  <1>2. ASSUME NEW c \in Calls, NEW k \in Keys, KeyStep(c, k) PROVE TagInv'
    <2>1. CASE SMembersTags(c, k) \/ Drop(c, k) \/ Unlist(c, k)
      BY <2>1, TagsSound, DropSound, UnlistSound
    <2>2. CASE Put(c, k) \/ AddKey(c, k) \/ DelTags(c, k) \/ AddTags(c, k) \/ Expire(c, k)
      BY <2>2, PutSound, AddKeySound, DelTagsSound, AddTagsSound, ExpireSound
    <2>3. ASSUME NEW t \in Tags, SRem(c, k, t) \/ SCard(c, k, t) PROVE TagInv'
      BY <2>3, SRemSound, SCardSound
    <2>4. ASSUME NEW t \in Tags, DelIndex(c, k, t) \/ AddToIndex(c, k, t) PROVE TagInv'
      BY <2>4, DelIndexSound, AddToIndexSound
    <2>. QED  BY <1>2, <2>1, <2>2, <2>3, <2>4 DEF KeyStep
  <1>3. ASSUME NEW c \in Calls, NEW i \in Indices,
               PurgeByTag(c, i) \/ SMembersIndex(c, i) \/ DropIndex(c, i)
        PROVE  TagInv'
    BY <1>3, PurgeByTagSound, MembersSound, DropIndexSound
  <1>4. ASSUME NEW c \in Calls, Return(c) \/ CutOff(c) PROVE TagInv'
    BY <1>4, ReturnSound, CutOffSound
  <1>5. ASSUME NEW k \in Keys, ExpireValue(k) \/ ExpireTags(k) PROVE TagInv'
    BY <1>5, ExpirySound
  <1>6. CASE UNCHANGED vars
    <2>1. /\ value' = value /\ index' = index /\ tagsOf' = tagsOf /\ call' = call
          /\ todo' = todo /\ young' = young
      BY <1>6 DEF vars, redis, tagging
    <2>2. TypeOK' /\ \A j \in Keys : Lasts(j)
      BY <2>1 DEF TagInv, TypeOK, Lasts, Ages, StaysDoomed, Doomed, Dropping, Keeps
    <2>3. EntriesIndexed'
      BY <2>2, LastingStaysIndexed DEF TagInv
    <2>4. \A d \in Calls : CallSound(d)'
      BY <2>1, <2>2, OthersStaySound DEF TagInv
    <2>. QED  BY <2>2, <2>3, <2>4 DEF TagInv
  <1>. QED  BY <1>1, <1>2, <1>3, <1>4, <1>5, <1>6 DEF Next

\* However the commands of any number of sets, deletions, purges and clears interleave,
\* and wherever one is cut off, an entry whose set has returned is in all of its indices,
\* but for those it was taken from by a call that raced with its set, and until a call is
\* about to drop it (set, delete, purgeByTag, clear).
THEOREM EntriesAreFound == Spec => []EntriesIndexed
  <1>1. TagInv => EntriesIndexed
    BY DEF TagInv
  <1>. QED  BY <1>1, TagInit, TagNext, PTL DEF Spec

\* A purge that has no more to send has left nothing under its index that it has not
\* raced with.
LEMMA PurgeLeavesNothing ==
  ASSUME TagInv, NEW c \in Calls, call[c] # Absent, call[c].kind = "purge", todo[c] = {},
         NEW k \in Keys
  PROVE  ~Under(k, call[c].index, c)
  <1>1. IsPurge(c) /\ ~Reading(c)
    BY DEF IsPurge, Reading
  <1>. QED  BY <1>1 DEF TagInv, CallSound, Purged

\* When purgeByTag or clear returns, every entry under its index whose set had returned
\* when it was called is gone, or is about to go, with the same exceptions.
THEOREM PurgesRemove == Spec => PurgeRemoves
  <1>1. TagInv /\ [Next]_vars =>
          [\A c \in Calls :
             call[c] # Absent /\ call[c].kind = "purge" /\ todo[c] = {} /\ call'[c] = Absent =>
               \A k \in Keys \ young[c] :
                 value[k] # Absent /\ value[k].complete /\ ~Doomed(k) =>
                   call[c].index \notin IndicesOf(k) \ value[k].excused]_vars
    BY PurgeLeavesNothing DEF Under, Standing
  <1>. QED  BY <1>1, TagInit, TagNext, PTL DEF Spec, PurgeRemoves

--------------------------------------------------------------------------------
(* The cache keeps what TagStore promises: further invariants.             *)

\* A call deletes a key in stages: it reads its tags, takes it out of their indices, and
\* drops the entry last.
Staged(c) ==
  \A k \in Keys :
    /\ <<"tags", k>> \in todo[c] => ~Dropping(c, k)
    /\ <<"drop", k>> \in todo[c] =>
         \A x \in todo[c] : x[1] \in DropNames /\ x[2] = k => x = <<"drop", k>>

\* A delete is not through with its key until the entry has gone; the entry a set has put
\* is there unless it has gone or was replaced.
Effective(c) ==
  /\ call[c] # Absent /\ call[c].kind = "delete" =>
       \/ <<"tags", call[c].key>> \in todo[c] \/ Dropping(c, call[c].key)
       \/ value[call[c].key] = Absent \/ call[c].key \in young[c]
  /\ Writing(c) =>
       value[call[c].key] = Absent \/ call[c].key \in young[c] \/ Own(c, call[c].key)

StoreInv == TagInv /\ \A c \in Calls : Staged(c) /\ Effective(c)

--------------------------------------------------------------------------------
(* Claims, and what a command does to them.                                *)

\* TagStore speaks of the same things.
LEMMA StoreTerms ==
  /\ Store!Call = Call /\ Store!Indices = Indices
  /\ Store!Unfinished = Incomplete
  /\ \A k : Store!IndicesOf(k) = IndicesOf(k)
  /\ \A c, k : Store!Wrote(c, k) <=> Wrote(c, k)
  /\ \A k \in Keys : Store!Claimed(k) <=> Doomed(k)
  BY DEF Store!Call, Call, Store!Indices, Indices, Store!Unfinished, Incomplete,
         Store!IndicesOf, IndicesOf, Store!Wrote, Wrote, Store!Claimed, Doomed, Claims

\* A command about k claims or releases no other key.
LEMMA ClaimStep ==
  ASSUME TypeOK, NEW c \in Calls, NEW cmd, NEW more, Go(c, cmd, more), NEW k \in Keys,
         cmd[1] \in DropNames => cmd[2] = k,
         \A x \in more : x[1] \in DropNames => x[2] = k
  PROVE  /\ Dropping(c, k)' => Claims' = [Claims EXCEPT ![c] = @ \cup {k}]
         /\ ~Dropping(c, k)' => Claims' = [Claims EXCEPT ![c] = @ \ {k}]
         /\ Dropping(c, k) /\ Dropping(c, k)' => Claims' = Claims
  <1>1. /\ cmd \in todo[c] /\ todo'[c] = (todo[c] \ {cmd}) \cup more
        /\ \A d \in Calls \ {c} : todo'[d] = todo[d]
    BY GoDoes
  <1>2. \A d \in Calls \ {c}, j \in Keys : Dropping(d, j)' <=> Dropping(d, j)
    BY <1>1 DEF Dropping
  <1>3. \A j \in Keys \ {k} : Dropping(c, j)' <=> Dropping(c, j)
    BY <1>1 DEF Dropping, DropNames
  <1>4. \A d \in Calls \ {c} : {j \in Keys : Dropping(d, j)}' = {j \in Keys : Dropping(d, j)}
    BY <1>2
  <1>5. Dropping(c, k)' => {j \in Keys : Dropping(c, j)}' = {j \in Keys : Dropping(c, j)} \cup {k}
    BY <1>3
  <1>6. ~Dropping(c, k)' => {j \in Keys : Dropping(c, j)}' = {j \in Keys : Dropping(c, j)} \ {k}
    BY <1>3
  <1>7. Dropping(c, k) => k \in {j \in Keys : Dropping(c, j)}
    OBVIOUS
  <1>. QED  BY <1>4, <1>5, <1>6, <1>7 DEF Claims

\* Other commands leave the claims.
LEMMA NoClaimStep ==
  ASSUME TypeOK, NEW c \in Calls, NEW cmd, NEW more, Go(c, cmd, more),
         cmd[1] \notin DropNames, \A x \in more : x[1] \notin DropNames
  PROVE  Claims' = Claims
  <1>1. /\ cmd \in todo[c] /\ todo'[c] = (todo[c] \ {cmd}) \cup more
        /\ \A d \in Calls \ {c} : todo'[d] = todo[d]
    BY GoDoes
  <1>2. \A d \in Calls, j \in Keys : Dropping(d, j)' <=> Dropping(d, j)
    BY <1>1 DEF Dropping, DropNames
  <1>. QED  BY <1>2 DEF Claims

\* The sets that have put their entry are those that write.
LEMMA StoredWrite ==
  \A c \in Calls : InOrder(c) => (c \in Stored <=> Writing(c))
  <1>. SUFFICES ASSUME NEW c \in Calls, InOrder(c) PROVE c \in Stored <=> Writing(c)
    OBVIOUS
  <1>1. Writing(c) => c \in Stored
    BY WritesNamed DEF Writing, Stored, IsSet, WriteNames
  <1>2. c \in Stored => ~Deleting(c) /\ ~Putting(c)
    <2>. SUFFICES ASSUME c \in Stored, Deleting(c) \/ Putting(c) PROVE FALSE
      OBVIOUS
    <2>1. CASE Deleting(c)
      <3>1. PICK x \in todo[c] : x \in Deletes(call[c].key)
        BY <2>1 DEF Deleting
      <3>2. x[1] \in DeleteNames
        BY <3>1, DeletesNamed
      <3>. QED  BY <3>2 DEF Stored, DeleteNames
    <2>2. CASE Putting(c)
      <3>1. <<"put", call[c].key>> \in todo[c] /\ <<"put", call[c].key>>[1] = "put"
        BY <2>2 DEF Putting
      <3>. QED  BY <3>1 DEF Stored
    <2>. QED  BY <2>1, <2>2
  <1>3. c \in Stored => IsSet(c)
    BY DEF Stored, IsSet
  <1>. QED  BY <1>1, <1>2, <1>3 DEF InOrder, IsSet, IsPurge, Reading, Purging, Closing

LEMMA StoredWriteNext ==
  (\A c \in Calls : InOrder(c) => (c \in Stored <=> Writing(c)))'
  BY StoredWrite, PTL

\* A command but for PUT leaves them.
LEMMA StoredStays ==
  ASSUME TagInv, TagInv', NEW c \in Calls, NEW cmd, NEW more, Go(c, cmd, more),
         Writing(c)' <=> Writing(c)
  PROVE  Stored' = Stored
  <1>1. call' = call /\ \A d \in Calls \ {c} : todo'[d] = todo[d]
    BY GoDoes DEF TagInv
  <1>2. \A d \in Calls : Writing(d)' <=> Writing(d)
    BY <1>1 DEF Writing, IsSet
  <1>3. \A d \in Calls : d \in Stored' <=> d \in Stored
    BY <1>2, StoredWrite, StoredWriteNext DEF TagInv, CallSound
  <1>. QED  BY <1>3 DEF Stored

\* A command of a deletion, as long as the call does not write next.
LEMMA StoredNotYet ==
  ASSUME TagInv, TagInv', NEW c \in Calls, NEW cmd, NEW more, Go(c, cmd, more),
         cmd[1] \notin WriteNames, ~Writing(c)'
  PROVE  Stored' = Stored
  <1>1. cmd \in todo[c]
    BY GoDoes DEF TagInv
  <1>2. ~Writing(c)
    BY <1>1, WritesNamed DEF Writing
  <1>. QED  BY <1>2, StoredStays

\* A call that deletes has a call to delete for.
LEMMA ClaimsItsOwn ==
  ASSUME TypeOK, NEW c \in Calls, InDeletion(c), NEW k, NEW x \in todo[c], x \in Deletes(k)
  PROVE  call[c] # Absent /\ (call[c].kind # "purge" => call[c].key = k)
  <1>1. CASE Purging(c)
    BY <1>1 DEF Purging, IsPurge
  <1>2. CASE Deleting(c)
    <2>1. x \in Deletes(call[c].key)
      BY <1>2 DEF Deleting
    <2>. QED  BY <1>2, <2>1, DeletesNamed DEF Deleting, IsSet
  <1>3. CASE call[c] # Absent /\ call[c].kind = "delete" /\ todo[c] \subseteq Deletes(call[c].key)
    <2>1. x \in Deletes(call[c].key)
      BY <1>3
    <2>. QED  BY <1>3, <2>1, DeletesNamed
  <1>. QED  BY <1>1, <1>2, <1>3 DEF InDeletion

\* The command that drops k is the only one of that name and key.
LEMMA DropIs ==
  ASSUME NEW c, InOrder(c), NEW k, NEW x \in todo[c], x[1] = "drop", x[2] = k
  PROVE  x = <<"drop", k>>
  <1>1. InDeletion(c)
    BY DeletionPhase DEF DeleteNames
  <1>2. PICK j : x \in Deletes(j)
    BY <1>1 DEF InDeletion, Deleting, Purging
  <1>3. \A t \in Tags : <<"srem", j, t>>[1] # "drop" /\ <<"card", j, t>>[1] # "drop"
                        /\ <<"delIndex", j, t>>[1] # "drop"
    OBVIOUS
  <1>4. x = <<"drop", j>>
    BY <1>2, <1>3 DEF Deletes
  <1>. QED  BY <1>4

--------------------------------------------------------------------------------
(* The further invariants: what a step keeps of them.                      *)

\* The entry goes or is still the same set's.
Kept(k) == value'[k] = Absent \/ (value[k] # Absent /\ value'[k].writer = value[k].writer)

LEMMA OthersStaySure ==
  ASSUME TypeOK, NEW d \in Calls, Staged(d), Effective(d),
         todo'[d] = todo[d], call'[d] = call[d], young[d] \subseteq young'[d],
         call[d] # Absent => \A k \in Keys : Kept(k) \/ k \in young'[d]
  PROVE  Staged(d)' /\ Effective(d)'
  <1>1. Staged(d)'
    BY DEF Staged, Dropping
  <1>2. call[d] # Absent /\ call[d].kind \in {"set", "delete"} => call[d].key \in Keys
    BY DEF TypeOK, Call
  <1>3. (Writing(d)' <=> Writing(d)) /\ \A k : Dropping(d, k)' <=> Dropping(d, k)
    BY DEF Writing, IsSet, Dropping
  <1>4. Writing(d) => call[d] # Absent /\ call[d].kind = "set"
    BY DEF Writing, IsSet
  <1>. QED  BY <1>1, <1>2, <1>3, <1>4 DEF Effective, Own, Kept

\* A command that begins no new deletion.
LEMMA StagedGoes ==
  ASSUME TypeOK, NEW c \in Calls, NEW cmd, NEW more, Go(c, cmd, more), Staged(c),
         \A x \in more : x[1] \notin DropNames /\ x[1] # "tags"
  PROVE  Staged(c)'
  <1>1. todo'[c] = (todo[c] \ {cmd}) \cup more
    BY GoDoes
  <1>2. \A k : <<"tags", k>> \notin more /\ <<"drop", k>> \notin more
    BY DEF DropNames
  <1>. QED  BY <1>1, <1>2 DEF Staged, Dropping, DropNames

\* One that goes on with the deletion of k: its entry comes last.
LEMMA StagedOn ==
  ASSUME TypeOK, NEW c \in Calls, NEW cmd, NEW more, Go(c, cmd, more), Staged(c), NEW k \in Keys,
         <<"drop", k>> \notin todo[c], <<"tags", k>> \notin todo'[c],
         \A x \in more : x[1] \in DropNames /\ x[2] = k,
         \/ <<"drop", k>> \notin more
         \/ more = {<<"drop", k>>} /\ \A x \in todo[c] \ {cmd} : ~(x[1] \in DropNames /\ x[2] = k)
  PROVE  Staged(c)'
  <1>1. todo'[c] = (todo[c] \ {cmd}) \cup more
    BY GoDoes
  <1>. SUFFICES ASSUME NEW j \in Keys
               PROVE  /\ <<"tags", j>> \in todo'[c] => ~Dropping(c, j)'
                      /\ <<"drop", j>> \in todo'[c] =>
                           \A x \in todo'[c] : x[1] \in DropNames /\ x[2] = j => x = <<"drop", j>>
    BY DEF Staged
  <1>2. CASE j = k
    <2>1. CASE <<"drop", k>> \notin more
      BY <1>1, <1>2, <2>1
    <2>2. CASE /\ more = {<<"drop", k>>}
               /\ \A x \in todo[c] \ {cmd} : ~(x[1] \in DropNames /\ x[2] = k)
      BY <1>1, <1>2, <2>2
    <2>. QED  BY <2>1, <2>2
  <1>3. CASE j # k
    <2>1. \A x \in more : ~(x[1] \in DropNames /\ x[2] = j)
      BY <1>3
    <2>2. <<"tags", j>> \notin more /\ <<"drop", j>> \notin more
      <3>1. <<"tags", j>>[2] = j /\ <<"drop", j>>[2] = j
        OBVIOUS
      <3>. QED  BY <1>3, <3>1
    <2>. QED  BY <1>1, <2>1, <2>2 DEF Staged, Dropping, DropNames
  <1>. QED  BY <1>2, <1>3

\* A step of a deletion.
LEMMA EffectiveDeletes ==
  ASSUME TypeOK, NEW c \in Calls, NEW cmd, NEW more, Go(c, cmd, more), Effective(c), ~Writing(c)',
         \A k \in Keys : Dropping(c, k) => Dropping(c, k)' \/ value'[k] = Absent,
         \A k \in Keys : <<"tags", k>> = cmd => Dropping(c, k)',
         \A k \in Keys : value[k] = Absent => value'[k] = Absent
  PROVE  Effective(c)'
  <1>1. /\ cmd \in todo[c] /\ todo'[c] = (todo[c] \ {cmd}) \cup more
        /\ call' = call /\ young' = young
    BY GoDoes
  <1>2. call[c] # Absent /\ call[c].kind = "delete" => call[c].key \in Keys
    BY DEF TypeOK, Call
  <1>. QED  BY <1>1, <1>2 DEF Effective

\* A step of a call that writes.
LEMMA EffectiveWrites ==
  ASSUME TypeOK, NEW c \in Calls, NEW cmd, NEW more, Go(c, cmd, more), Effective(c), InOrder(c),
         cmd[1] \in WriteNames, value' = value, InOrder(c)'
  PROVE  Effective(c)'
  <1>1. /\ cmd \in todo[c] /\ todo'[c] = (todo[c] \ {cmd}) \cup more
        /\ call' = call /\ young' = young
    BY GoDoes
  <1>2. Writing(c)
    BY <1>1, WritePhase
  <1>3. IsSet(c) /\ call'[c].kind # "delete"
    BY <1>1, <1>2 DEF Writing, IsSet
  <1>. QED  BY <1>1, <1>2, <1>3 DEF Effective, Own

\* What every step has to show: the further invariants, and a step of the store.
Sure == \A c \in Calls : Staged(c) /\ Effective(c)
Simulated == Store!Serve \/ UNCHANGED <<value, call, young, Stored, Claims>>

\* What a command leaves to show.
LEMMA SureStep ==
  ASSUME StoreInv, NEW c \in Calls, NEW cmd, NEW more, Go(c, cmd, more),
         \A k \in Keys : Kept(k), Staged(c)', Effective(c)'
  PROVE  Sure'
  <1>1. /\ \A d \in Calls \ {c} : todo'[d] = todo[d]
        /\ call' = call /\ young' = young
    BY GoDoes DEF StoreInv, TagInv
  <1>2. \A d \in Calls \ {c} : Staged(d)' /\ Effective(d)'
    BY <1>1, OthersStaySure DEF StoreInv, TagInv
  <1>. QED  BY <1>2 DEF Sure

\* A call that has a command of a deletion left does not write.
LEMMA NotWrites ==
  ASSUME NEW k, NEW tags, NEW x, x[1] \in DeleteNames
  PROVE  x \notin Writes(k, tags)
  BY WritesNamed DEF DeleteNames, WriteNames

--------------------------------------------------------------------------------
(* Each command is a step of the store, or none.                           *)

\* The last part of a deletion that hands over to another claims the key, or keeps it.
LEMMA ClaimKept ==
  ASSUME StoreInv, TagInv', NEW c \in Calls, NEW k \in Keys, NEW cmd \in Deletes(k), NEW more,
         Go(c, cmd, more), cmd[1] \in {"tags", "srem", "card"}, value' = value,
         \A x \in more : x[1] \in DropNames /\ x[2] = k,
         Dropping(c, k)', Staged(c)'
  PROVE  Sure' /\ Simulated
  <1>1. /\ cmd \in todo[c] /\ todo'[c] = (todo[c] \ {cmd}) \cup more
        /\ call' = call /\ young' = young /\ TypeOK /\ InOrder(c) /\ Effective(c)
    BY GoDoes DEF StoreInv, TagInv, CallSound
  <1>2. cmd[1] \in DeleteNames /\ cmd[2] = k
    BY DeletesNamed
  <1>3. InDeletion(c)
    BY <1>1, <1>2, DeletionPhase
  <1>4. Claims' = [Claims EXCEPT ![c] = @ \cup {k}]
    BY <1>1, <1>2, ClaimStep
  <1>5. ~Writing(c)'
    <2>1. PICK x \in todo'[c] : x[1] \in DropNames
      BY DEF Dropping, DropNames
    <2>. QED  BY <2>1, NotWrites DEF DropNames, DeleteNames, Writing
  <1>6. Store!Claim(c, k)
    <2>1. Stored' = Stored
      BY <1>5, StoredNotYet DEF StoreInv, WriteNames
    <2>. QED  BY <1>1, <1>3, <1>4, <2>1, ClaimsItsOwn DEF Store!Claim
  <1>7. \A j \in Keys : Dropping(c, j) => Dropping(c, j)'
    BY <1>1, <1>2 DEF Dropping, DropNames
  <1>8. \A j \in Keys : <<"tags", j>> = cmd => j = k
    BY <1>2
  <1>9. Effective(c)'
    BY <1>1, <1>5, <1>7, <1>8, EffectiveDeletes
  <1>10. Sure'
    BY <1>1, <1>9, SureStep DEF Kept, Staged
  <1>. QED  BY <1>6, <1>10 DEF Simulated, Store!Serve

LEMMA TagsKept ==
  ASSUME StoreInv, TagInv', NEW c \in Calls, NEW k \in Keys, SMembersTags(c, k)
  PROVE  Sure' /\ Simulated
  <1>. DEFINE cmd == <<"tags", k>>
              more == IF tagsOf[k] = {} THEN {<<"drop", k>>}
                      ELSE {<<"srem", k, t>> : t \in tagsOf[k]}
  <1>1. /\ Go(c, cmd, more) /\ value' = value /\ TypeOK /\ Staged(c) /\ InOrder(c)
    BY DEF SMembersTags, redis, StoreInv, TagInv, CallSound
  <1>2. cmd \in todo[c] /\ todo'[c] = (todo[c] \ {cmd}) \cup more
    BY <1>1, GoDoes
  <1>3. cmd \in Deletes(k) /\ cmd[1] = "tags" /\ cmd[2] = k
    BY DEF Deletes
  <1>4. \A x \in more : x[1] \in {"drop", "srem"} /\ x[2] = k
    OBVIOUS
  <1>5. \E x \in more : TRUE
    <2>1. CASE tagsOf[k] = {}
      <3>1. <<"drop", k>> \in more
        BY <2>1
      <3>. QED  BY <3>1
    <2>2. CASE tagsOf[k] # {}
      <3>1. PICK t \in tagsOf[k] : <<"srem", k, t>> \in more
        BY <2>2
      <3>. QED  BY <3>1
    <2>. QED  BY <2>1, <2>2
  <1>6. more = {<<"drop", k>>} \/ <<"drop", k>> \notin more
    <2>1. CASE tagsOf[k] = {}
      BY <2>1
    <2>2. CASE tagsOf[k] # {}
      <3>1. \A x \in more : x[1] = "srem"
        BY <2>2
      <3>2. <<"drop", k>>[1] # "srem"
        OBVIOUS
      <3>. QED  BY <3>1, <3>2
    <2>. QED  BY <2>1, <2>2
  <1>. HIDE DEF more
  <1>7. ~Dropping(c, k)
    BY <1>1, <1>2 DEF Staged
  <1>8. <<"drop", k>> \notin todo[c] /\ \A x \in todo[c] : ~(x[1] \in DropNames /\ x[2] = k)
    <2>1. \A x \in todo[c] : ~(x[1] \in DropNames /\ x[2] = k)
      BY <1>7 DEF Dropping, DropNames
    <2>2. <<"drop", k>>[1] \in DropNames /\ <<"drop", k>>[2] = k
      BY DEF DropNames
    <2>. QED  BY <2>1, <2>2
  <1>9. <<"tags", k>> \notin todo'[c]
    <2>1. cmd \notin more
      BY <1>3, <1>4
    <2>. QED  BY <1>2, <2>1
  <1>10. Dropping(c, k)'
    BY <1>2, <1>4, <1>5 DEF Dropping
  <1>11. \A x \in more : x[1] \in DropNames /\ x[2] = k
    BY <1>4 DEF DropNames
  <1>. HIDE DEF cmd
  <1>12. Staged(c)'
    BY <1>1, <1>6, <1>8, <1>9, <1>11, StagedOn
  <1>. QED  BY <1>1, <1>3, <1>10, <1>11, <1>12, ClaimKept

\* While a tag of k is being seen to, neither its tags nor its entry are.
LEMMA AmidTags ==
  ASSUME NEW c, Staged(c), NEW k \in Keys, NEW cmd \in todo[c],
         cmd[1] \in {"srem", "card", "delIndex"}, cmd[2] = k
  PROVE  Dropping(c, k) /\ <<"tags", k>> \notin todo[c] /\ <<"drop", k>> \notin todo[c]
  <1>1. Dropping(c, k)
    BY DEF Dropping
  <1>2. cmd # <<"drop", k>> /\ cmd[1] \in DropNames
    BY DEF DropNames
  <1>. QED  BY <1>1, <1>2 DEF Staged

LEMMA SRemKept ==
  ASSUME StoreInv, TagInv', NEW c \in Calls, NEW k \in Keys, NEW t \in Tags, SRem(c, k, t)
  PROVE  Sure' /\ Simulated
  <1>. DEFINE cmd == <<"srem", k, t>>
              more == {<<"card", k, t>>}
  <1>1. Go(c, cmd, more) /\ value' = value /\ TypeOK /\ Staged(c)
    BY DEF SRem, StoreInv, TagInv
  <1>2. cmd \in todo[c] /\ todo'[c] = (todo[c] \ {cmd}) \cup more
    BY <1>1, GoDoes
  <1>3. cmd \in Deletes(k) /\ cmd[1] = "srem" /\ cmd[2] = k
    BY DEF Deletes
  <1>4. \A x \in more : x[1] = "card" /\ x[2] = k
    OBVIOUS
  <1>5. \A x \in more : x[1] \in DropNames /\ x[2] = k
    BY <1>4 DEF DropNames
  <1>6. Dropping(c, k)'
    <2>1. <<"card", k, t>> \in todo'[c]
      BY <1>2
    <2>. QED  BY <2>1 DEF Dropping
  <1>7. <<"tags", k>> \notin more /\ <<"drop", k>> \notin more
    OBVIOUS
  <1>. HIDE DEF cmd, more
  <1>8. <<"tags", k>> \notin todo[c] /\ <<"drop", k>> \notin todo[c]
    BY <1>1, <1>2, <1>3, AmidTags
  <1>9. Staged(c)'
    BY <1>1, <1>2, <1>5, <1>7, <1>8, StagedOn
  <1>. QED  BY <1>1, <1>3, <1>5, <1>6, <1>9, ClaimKept

\* The entry of k is next only when nothing else of k is left.
LEMMA UntaggedStaged ==
  ASSUME TypeOK, NEW c \in Calls, InOrder(c), Staged(c), NEW k \in Keys, NEW cmd \in todo[c],
         cmd[1] \in {"srem", "card", "delIndex"}, cmd[2] = k,
         Go(c, cmd, Untagged(c, k, cmd))
  PROVE  Staged(c)'
  <1>1. todo'[c] = (todo[c] \ {cmd}) \cup Untagged(c, k, cmd)
    BY GoDoes
  <1>2. <<"tags", k>> \notin todo[c] /\ <<"drop", k>> \notin todo[c]
    BY AmidTags
  <1>3. <<"drop", k>>[1] \in DropNames /\ <<"drop", k>>[2] = k /\ <<"drop", k>> # <<"tags", k>>
    BY DEF DropNames
  <1>4. CASE \E x \in todo[c] \ {cmd} : x[1] \in {"srem", "card", "delIndex"} /\ x[2] = k
    <2>1. Untagged(c, k, cmd) = {}
      BY <1>4, Zenon DEF Untagged
    <2>. QED  BY <1>1, <1>2, <2>1, StagedOn
  <1>5. CASE ~\E x \in todo[c] \ {cmd} : x[1] \in {"srem", "card", "delIndex"} /\ x[2] = k
    <2>1. Untagged(c, k, cmd) = {<<"drop", k>>}
      BY <1>5, Zenon DEF Untagged
    <2>2. \A x \in todo[c] \ {cmd} : ~(x[1] \in DropNames /\ x[2] = k)
      BY <1>2, <1>5, DropIs DEF DropNames
    <2>. QED  BY <1>1, <1>2, <1>3, <2>1, <2>2, StagedOn
  <1>. QED  BY <1>4, <1>5

LEMMA SCardKept ==
  ASSUME StoreInv, TagInv', NEW c \in Calls, NEW k \in Keys, NEW t \in Tags, SCard(c, k, t)
  PROVE  Sure' /\ Simulated
  <1>. DEFINE cmd == <<"card", k, t>>
              more == IF IsEmpty(t) THEN {<<"delIndex", k, t>>} ELSE Untagged(c, k, cmd)
  <1>1. Go(c, cmd, more) /\ value' = value /\ TypeOK /\ Staged(c) /\ InOrder(c)
    BY DEF SCard, redis, StoreInv, TagInv, CallSound
  <1>2. cmd \in todo[c] /\ todo'[c] = (todo[c] \ {cmd}) \cup more
    BY <1>1, GoDoes
  <1>3. cmd \in Deletes(k) /\ cmd[1] = "card" /\ cmd[2] = k
    BY DEF Deletes
  <1>4. CASE IsEmpty(t)
    <2>1. more = {<<"delIndex", k, t>>}
      BY <1>4
    <2>2. \A x \in more : x[1] = "delIndex" /\ x[2] = k
      BY <2>1
    <2>3. \A x \in more : x[1] \in DropNames /\ x[2] = k
      BY <2>2 DEF DropNames
    <2>4. <<"tags", k>> \notin more /\ <<"drop", k>> \notin more
      BY <2>1
    <2>5. Dropping(c, k)'
      <3>1. <<"delIndex", k, t>> \in todo'[c]
        BY <1>2, <2>1
      <3>. QED  BY <3>1 DEF Dropping
    <2>. HIDE DEF cmd, more
    <2>6. Staged(c)'
      BY <1>1, <1>2, <1>3, <2>3, <2>4, AmidTags, StagedOn
    <2>. QED  BY <1>1, <1>3, <2>3, <2>5, <2>6, ClaimKept
  <1>5. CASE ~IsEmpty(t)
    <2>1. more = Untagged(c, k, cmd)
      BY <1>5
    <2>. HIDE DEF cmd, more
    <2>2. more \subseteq {<<"drop", k>>}
          /\ \E x \in (todo[c] \ {cmd}) \cup more : x[1] \in DropNames /\ x[2] = k
      BY <2>1, UntaggedGoesOn
    <2>3. <<"drop", k>>[1] \in DropNames /\ <<"drop", k>>[2] = k
      BY DEF DropNames
    <2>4. \A x \in more : x[1] \in DropNames /\ x[2] = k
      BY <2>2, <2>3
    <2>5. Dropping(c, k)'
      BY <1>2, <2>2 DEF Dropping, DropNames
    <2>6. Staged(c)'
      BY <1>1, <1>2, <1>3, <2>1, UntaggedStaged
    <2>. QED  BY <1>1, <1>3, <2>4, <2>5, <2>6, ClaimKept
  <1>. QED  BY <1>4, <1>5


\* Taking keys from an index misses those that are younger than the call.
LEMMA TakeFromMisses ==
  ASSUME TypeOK, NEW c \in Calls, call[c] # Absent, NEW i \in Indices, NEW keys,
         TakeFrom(c, i, keys), call' = call, young' = young, Claims' = Claims,
         Stored' = Stored
  PROVE  Simulated /\ \A k \in Keys : Kept(k) /\ (value[k] = Absent => value'[k] = Absent)
  <1>1. \A k \in Keys : Kept(k) /\ (value[k] = Absent => value'[k] = Absent)
    BY TakeFromDoes DEF Ages, Kept
  <1>. DEFINE missed == keys \cap index[i] \cap young[c]
  <1>2. missed \in SUBSET young[c]
    OBVIOUS
  <1>3. value' = [k \in Keys |->
                    IF k \in missed /\ value[k] # Absent
                    THEN [value[k] EXCEPT !.excused = @ \cup {i}] ELSE value[k]]
    BY DEF TakeFrom
  <1>. HIDE DEF missed
  <1>4. Store!Miss(c, i)
    BY <1>2, <1>3 DEF Store!Miss
  <1>5. i \in Store!Indices
    BY StoreTerms
  <1>. QED  BY <1>1, <1>4, <1>5 DEF Simulated, Store!Serve

LEMMA DelIndexKept ==
  ASSUME StoreInv, TagInv', NEW c \in Calls, NEW k \in Keys, NEW t \in Tags, DelIndex(c, k, t)
  PROVE  Sure' /\ Simulated
  <1>. DEFINE cmd == <<"delIndex", k, t>>
              more == Untagged(c, k, cmd)
  <1>1. /\ Go(c, cmd, more) /\ TakeFrom(c, t, Keys)
        /\ TypeOK /\ Staged(c) /\ InOrder(c) /\ Effective(c) /\ t \in Indices
    BY DEF DelIndex, StoreInv, TagInv, CallSound, Indices
  <1>2. /\ cmd \in todo[c] /\ todo'[c] = (todo[c] \ {cmd}) \cup more
        /\ call' = call /\ young' = young
    BY <1>1, GoDoes
  <1>3. cmd \in Deletes(k) /\ cmd[1] = "delIndex" /\ cmd[2] = k /\ cmd[1] \in DeleteNames
    BY DEF Deletes, DeleteNames
  <1>. HIDE DEF cmd
  <1>4. more \subseteq {<<"drop", k>>}
        /\ \E x \in (todo[c] \ {cmd}) \cup more : x[1] \in DropNames /\ x[2] = k
    BY UntaggedGoesOn
  <1>5. <<"drop", k>>[1] \in DropNames /\ <<"drop", k>>[2] = k
    BY DEF DropNames
  <1>6. \A x \in more : x[1] \in DropNames /\ x[2] = k
    BY <1>4, <1>5
  <1>7. Staged(c)'
    BY <1>1, <1>2, <1>3, UntaggedStaged
  <1>. HIDE DEF more
  <1>8. Dropping(c, k) /\ Dropping(c, k)'
    BY <1>2, <1>3, <1>4 DEF Dropping, DropNames
  <1>9. Claims' = Claims
    BY <1>1, <1>3, <1>6, <1>8, ClaimStep
  <1>10. InDeletion(c)
    BY <1>1, <1>2, <1>3, DeletionPhase
  <1>11. call[c] # Absent
    BY <1>1, <1>2, <1>3, <1>10, ClaimsItsOwn
  <1>12. ~Writing(c)'
    <2>1. PICK x \in todo'[c] : x[1] \in DropNames
      BY <1>8 DEF Dropping, DropNames
    <2>. QED  BY <2>1, NotWrites DEF DropNames, DeleteNames, Writing
  <1>13. Simulated /\ \A j \in Keys : Kept(j) /\ (value[j] = Absent => value'[j] = Absent)
    <2>1. Stored' = Stored
      BY <1>1, <1>3, <1>12, StoredNotYet DEF StoreInv, DeleteNames, WriteNames
    <2>. QED  BY <1>1, <1>2, <1>9, <1>11, <2>1, TakeFromMisses
  <1>14. \A j \in Keys : Dropping(c, j) => Dropping(c, j)'
    BY <1>2, <1>3, <1>8 DEF Dropping, DropNames
  <1>15. \A j \in Keys : <<"tags", j>> # cmd
    BY <1>3
  <1>16. Effective(c)'
    BY <1>1, <1>12, <1>13, <1>14, <1>15, EffectiveDeletes
  <1>. QED  BY <1>1, <1>7, <1>13, <1>16, SureStep

LEMMA DropKept ==
  ASSUME StoreInv, TagInv', NEW c \in Calls, NEW k \in Keys, Drop(c, k)
  PROVE  Sure' /\ Simulated
  <1>. DEFINE cmd == <<"drop", k>>
              more == {<<"unlist", k>>}
  <1>1. /\ Go(c, cmd, more) /\ value' = [value EXCEPT ![k] = Absent]
        /\ TypeOK /\ Staged(c) /\ InOrder(c) /\ Effective(c)
    BY DEF Drop, StoreInv, TagInv, CallSound
  <1>2. /\ cmd \in todo[c] /\ todo'[c] = (todo[c] \ {cmd}) \cup more
        /\ call' = call /\ young' = young
    BY <1>1, GoDoes
  <1>3. cmd[1] = "drop" /\ cmd[2] = k /\ cmd[1] \in DropNames
    BY DEF DropNames
  <1>4. \A x \in more : x[1] \notin DropNames /\ x[1] # "tags" /\ x[1] \in DeleteNames
    BY DEF DropNames, DeleteNames
  <1>5. <<"unlist", k>> \in todo'[c]
    BY <1>2
  <1>6. value'[k] = Absent /\ \A j \in Keys \ {k} : value'[j] = value[j]
    BY <1>1 DEF TypeOK
  <1>7. \A j \in Keys : Kept(j) /\ (value[j] = Absent => value'[j] = Absent)
    BY <1>6 DEF Kept
  <1>8. \A x \in todo[c] : x[1] \in DropNames /\ x[2] = k => x = cmd
    BY <1>1, <1>2 DEF Staged
  <1>9. Staged(c)'
    BY <1>1, <1>4, StagedGoes
  <1>10. ~Writing(c)'
    <2>1. <<"unlist", k>>[1] \in DeleteNames
      BY DEF DeleteNames
    <2>. QED  BY <1>5, <2>1, NotWrites DEF Writing
  <1>11. \A j \in Keys : <<"tags", j>> # cmd
    OBVIOUS
  <1>. HIDE DEF cmd, more
  <1>12. ~Dropping(c, k)'
    BY <1>2, <1>4, <1>8 DEF Dropping, DropNames
  <1>13. Claims' = [Claims EXCEPT ![c] = @ \ {k}]
    BY <1>1, <1>3, <1>4, <1>12, ClaimStep
  <1>14. k \in Claims[c]
    BY <1>2, <1>3 DEF Claims, Dropping
  <1>15. Store!Delete(c, k)
    <2>1. Stored' = Stored
      BY <1>1, <1>3, <1>10, StoredNotYet DEF StoreInv, DropNames, WriteNames
    <2>. QED  BY <1>1, <1>2, <1>13, <1>14, <2>1 DEF Store!Delete
  <1>16. \A j \in Keys : Dropping(c, j) => Dropping(c, j)' \/ value'[j] = Absent
    BY <1>2, <1>3, <1>6 DEF Dropping, DropNames
  <1>17. Effective(c)'
    BY <1>1, <1>7, <1>10, <1>11, <1>16, EffectiveDeletes
  <1>18. Sure'
    BY <1>1, <1>7, <1>9, <1>17, SureStep
  <1>. QED  BY <1>15, <1>18 DEF Simulated, Store!Serve

LEMMA UnlistKept ==
  ASSUME StoreInv, TagInv', NEW c \in Calls, NEW k \in Keys, Unlist(c, k)
  PROVE  Sure' /\ Simulated
  <1>. DEFINE cmd == <<"unlist", k>>
              more == Deleted(c, cmd)
  <1>1. /\ Go(c, cmd, more) /\ TakeFrom(c, All, {k})
        /\ TypeOK /\ Staged(c) /\ InOrder(c) /\ Effective(c) /\ All \in Indices
    BY DEF Unlist, StoreInv, TagInv, CallSound, Indices
  <1>2. /\ cmd \in todo[c] /\ todo'[c] = (todo[c] \ {cmd}) \cup more
        /\ call' = call /\ young' = young
    BY <1>1, GoDoes
  <1>3. ~Writing(c)' /\ InDeletion(c) /\ \A x \in more : x[1] \in {"put", "dropIndex"}
    BY <1>1, DeletedGoesOn
  <1>4. cmd \in Deletes(k) /\ cmd[1] \notin DropNames /\ cmd[1] \notin WriteNames
    BY DEF Deletes, DropNames, WriteNames
  <1>5. \A x \in more : x[1] \notin DropNames /\ x[1] # "tags"
    BY <1>3 DEF DropNames
  <1>6. \A j \in Keys : <<"tags", j>> # cmd
    OBVIOUS
  <1>. HIDE DEF cmd, more
  <1>7. Staged(c)'
    BY <1>1, <1>5, StagedGoes
  <1>8. Claims' = Claims
    BY <1>1, <1>4, <1>5, NoClaimStep
  <1>9. call[c] # Absent
    BY <1>1, <1>2, <1>3, <1>4, ClaimsItsOwn
  <1>10. Simulated /\ \A j \in Keys : Kept(j) /\ (value[j] = Absent => value'[j] = Absent)
    <2>1. Stored' = Stored
      BY <1>1, <1>3, <1>4, StoredNotYet DEF StoreInv
    <2>. QED  BY <1>1, <1>2, <1>8, <1>9, <2>1, TakeFromMisses
  <1>11. \A j \in Keys : Dropping(c, j) => Dropping(c, j)'
    BY <1>2, <1>4 DEF Dropping, DropNames
  <1>12. Effective(c)'
    BY <1>1, <1>3, <1>6, <1>10, <1>11, EffectiveDeletes
  <1>. QED  BY <1>1, <1>7, <1>10, <1>12, SureStep


\* A step that changes none of what the store shows.
LEMMA Unseen ==
  ASSUME value' = value, call' = call, young' = young, Stored' = Stored, Claims' = Claims
  PROVE  Simulated /\ \A k \in Keys : Kept(k)
  BY DEF Simulated, Kept

\* What is read for a purge, or written for a set, the store does not show.
LEMMA MembersKept ==
  ASSUME StoreInv, TagInv', NEW c \in Calls, NEW i \in Indices, SMembersIndex(c, i)
  PROVE  Sure' /\ Simulated
  <1>. DEFINE cmd == <<"members", i>>
              more == {<<"tags", k>> : k \in index[i]}
  <1>1. /\ Go(c, cmd, more) /\ value' = value /\ TypeOK /\ InOrder(c)
    BY DEF SMembersIndex, Members, redis, StoreInv, TagInv, CallSound
  <1>2. /\ cmd \in todo[c] /\ todo'[c] = (todo[c] \ {cmd}) \cup more
        /\ call' = call /\ young' = young
    BY <1>1, GoDoes
  <1>3. cmd[1] = "members" /\ cmd[1] \notin DropNames /\ \A x \in more : x[1] = "tags"
    BY DEF DropNames
  <1>4. Reading(c)
    BY <1>1, <1>2, <1>3, ReadPhase
  <1>5. todo'[c] = more
    <2>1. todo[c] = {<<"members", call[c].index>>}
      BY <1>4 DEF Reading
    <2>. HIDE DEF cmd, more
    <2>. QED  BY <1>2, <2>1
  <1>. HIDE DEF cmd, more
  <1>6. \A x \in more : x[1] \notin DropNames
    BY <1>3 DEF DropNames
  <1>7. Staged(c)'
    <2>1. \A k : <<"drop", k>> \notin more
      <3>1. \A k : <<"drop", k>>[1] # "tags"
        OBVIOUS
      <3>. QED  BY <1>3, <3>1
    <2>2. \A k \in Keys : ~Dropping(c, k)'
      BY <1>5, <1>6 DEF Dropping, DropNames
    <2>. QED  BY <1>5, <2>1, <2>2 DEF Staged
  <1>8. Effective(c)'
    BY <1>2, <1>4 DEF Effective, Reading, IsPurge, Writing, IsSet
  <1>9. Claims' = Claims
    BY <1>1, <1>3, <1>6, NoClaimStep
  <1>10. Simulated /\ \A k \in Keys : Kept(k)
    <2>1. ~Writing(c)'
      BY <1>2, <1>4 DEF Reading, IsPurge, Writing, IsSet
    <2>2. Stored' = Stored
      BY <1>1, <1>3, <2>1, StoredNotYet DEF StoreInv, WriteNames
    <2>. QED  BY <1>1, <1>2, <1>9, <2>2, Unseen
  <1>. QED  BY <1>1, <1>7, <1>8, <1>10, SureStep

LEMMA DropIndexKept ==
  ASSUME StoreInv, TagInv', NEW c \in Calls, NEW i \in Indices, DropIndex(c, i)
  PROVE  Sure' /\ Simulated
  <1>. DEFINE cmd == <<"dropIndex", i>>
  <1>1. /\ Go(c, cmd, {}) /\ TakeFrom(c, i, Keys) /\ TypeOK /\ InOrder(c) /\ Staged(c)
    BY DEF DropIndex, StoreInv, TagInv, CallSound
  <1>2. cmd \in todo[c] /\ call' = call /\ young' = young
    BY <1>1, GoDoes
  <1>3. cmd[1] = "dropIndex" /\ cmd[1] \notin DropNames
    BY DEF DropNames
  <1>. HIDE DEF cmd
  <1>4. IsPurge(c) /\ IsPurge(c)' /\ ~Writing(c)'
    <2>1. Closing(c)
      BY <1>1, <1>2, <1>3, ClosePhase
    <2>. QED  BY <1>2, <2>1 DEF Closing, IsPurge, IsSet, Writing
  <1>5. Claims' = Claims
    BY <1>1, <1>3, NoClaimStep
  <1>6. Simulated /\ \A k \in Keys : Kept(k)
    <2>1. Stored' = Stored
      BY <1>1, <1>3, <1>4, StoredNotYet DEF StoreInv, WriteNames
    <2>. QED  BY <1>1, <1>2, <1>4, <1>5, <2>1, TakeFromMisses DEF IsPurge
  <1>7. Staged(c)'
    BY <1>1, StagedGoes
  <1>8. Effective(c)'
    BY <1>4 DEF Effective, IsPurge
  <1>. QED  BY <1>1, <1>6, <1>7, <1>8, SureStep

\* A set that writes goes on writing until it is through.
LEMMA StillWriting ==
  ASSUME NEW c \in Calls, Writing(c), InOrder(c)', call' = call,
         \A x \in todo'[c] : x \in todo[c] \/ x[1] \in WriteNames
  PROVE  Writing(c)'
  <1>1. \A x \in todo'[c] : x[1] \in WriteNames
    BY WritesNamed DEF Writing
  <1>2. IsSet(c)'
    BY DEF Writing, IsSet
  <1>3. ~Putting(c)'
    <2>. SUFFICES ASSUME Putting(c)' PROVE FALSE
      OBVIOUS
    <2>1. <<"put", call'[c].key>> \in todo'[c]
      BY DEF Putting
    <2>. QED  BY <1>1, <2>1 DEF WriteNames
  <1>4. ~Deleting(c)'
    <2>. SUFFICES ASSUME Deleting(c)' PROVE FALSE
      OBVIOUS
    <2>1. PICK x \in todo'[c] : x \in Deletes(call'[c].key)
      BY DEF Deleting
    <2>2. x[1] \in DeleteNames
      BY <2>1, DeletesNamed
    <2>. QED  BY <1>1, <2>2 DEF DeleteNames, WriteNames
  <1>. QED  BY <1>2, <1>3, <1>4 DEF InOrder, IsSet, IsPurge, Reading, Purging, Closing

LEMMA WriteKept ==
  ASSUME StoreInv, TagInv', NEW c \in Calls, NEW cmd, NEW more, Go(c, cmd, more), value' = value,
         cmd[1] \in WriteNames, \A x \in more : x[1] \in WriteNames
  PROVE  Sure' /\ Simulated
  <1>1. TypeOK /\ InOrder(c) /\ InOrder(c)' /\ Staged(c) /\ Effective(c)
    BY DEF StoreInv, TagInv, CallSound
  <1>2. call' = call /\ young' = young
    BY <1>1, GoDoes
  <1>3. /\ cmd[1] \notin DropNames
        /\ \A x \in more : x[1] \notin DropNames /\ x[1] # "tags"
    BY DEF WriteNames, DropNames
  <1>4. Claims' = Claims
    BY <1>1, <1>3, NoClaimStep
  <1>5. Simulated /\ \A k \in Keys : Kept(k)
    <2>1. cmd \in todo[c] /\ todo'[c] = (todo[c] \ {cmd}) \cup more
      BY <1>1, GoDoes
    <2>2. Writing(c)
      BY <1>1, <2>1, WritePhase
    <2>3. Writing(c)'
      BY <1>1, <1>2, <2>1, <2>2, StillWriting
    <2>4. Stored' = Stored
      BY <2>2, <2>3, StoredStays DEF StoreInv
    <2>. QED  BY <1>2, <1>4, <2>4, Unseen
  <1>6. Staged(c)' /\ Effective(c)'
    BY <1>1, <1>3, StagedGoes, EffectiveWrites
  <1>. QED  BY <1>5, <1>6, SureStep

LEMMA WritesKept ==
  ASSUME StoreInv, TagInv', NEW c \in Calls, NEW k \in Keys,
         \/ AddKey(c, k) \/ DelTags(c, k) \/ AddTags(c, k) \/ Expire(c, k)
         \/ \E t \in Tags : AddToIndex(c, k, t)
  PROVE  Sure' /\ Simulated
  <1>1. \A x : x \in {<<"list", k>>, <<"delTags", k>>, <<"addTags", k>>, <<"expire", k>>}
               => x[1] \in WriteNames
    BY DEF WriteNames
  <1>2. /\ \A t : <<"add", k, t>>[1] \in WriteNames
        /\ \A x \in IndexTags(c, k) : x[1] \in WriteNames
    BY DEF WriteNames, IndexTags
  <1>3. PICK cmd, more : /\ Go(c, cmd, more) /\ value' = value /\ cmd[1] \in WriteNames
                         /\ \A x \in more : x[1] \in WriteNames
    <2>1. CASE AddKey(c, k)
      BY <1>1, <2>1 DEF AddKey
    <2>2. CASE DelTags(c, k)
      BY <1>1, <2>2 DEF DelTags
    <2>3. CASE AddTags(c, k)
      BY <1>1, <1>2, <2>3 DEF AddTags
    <2>4. CASE Expire(c, k)
      BY <1>1, <1>2, <2>4 DEF Expire
    <2>5. CASE \E t \in Tags : AddToIndex(c, k, t)
      BY <1>2, <2>5 DEF AddToIndex
    <2>. QED  BY <2>1, <2>2, <2>3, <2>4, <2>5
  <1>. QED  BY <1>3, WriteKept


\* The entry a set puts is younger than every other call.
LEMMA PutKept ==
  ASSUME StoreInv, TagInv', NEW c \in Calls, NEW k \in Keys, Put(c, k)
  PROVE  Sure' /\ Simulated
  <1>. DEFINE entry == [tags |-> call[c].tags, complete |-> FALSE, excused |-> {},
                        lives |-> call[c].lives, writer |-> c]
  <1>1. /\ <<"put", k>> \in todo[c] /\ todo' = [todo EXCEPT ![c] = {<<"list", k>>}]
        /\ value' = [value EXCEPT ![k] = entry]
        /\ young' = [d \in Calls |->
                        IF d # c /\ call[d] # Absent THEN young[d] \cup {k} ELSE young[d]]
        /\ call' = call /\ TypeOK /\ InOrder(c)
    BY DEF Put, StoreInv, TagInv, CallSound
  <1>2. Putting(c) /\ call[c].key = k
    <2>1. Putting(c)
      BY <1>1, PutPhase
    <2>2. <<"put", k>> = <<"put", call[c].key>>
      BY <1>1, <2>1 DEF Putting
    <2>. QED  BY <2>1, <2>2
  <1>3. /\ value'[k] = entry /\ \A j \in Keys \ {k} : value'[j] = value[j]
        /\ todo'[c] = {<<"list", k>>} /\ \A d \in Calls \ {c} : todo'[d] = todo[d]
        /\ \A d \in Calls : young[d] \subseteq young'[d]
        /\ \A d \in Calls \ {c} : call[d] # Absent => k \in young'[d]
    BY <1>1 DEF TypeOK
  <1>4. entry.writer = c
    OBVIOUS
  <1>5. todo[c] = {<<"put", k>>}
    BY <1>2 DEF Putting
  <1>6. \A d \in Calls, j \in Keys : Dropping(d, j)' <=> Dropping(d, j)
    <2>1. \A j \in Keys : ~Dropping(c, j) /\ ~Dropping(c, j)'
      BY <1>3, <1>5 DEF Dropping
    <2>. QED  BY <1>3, <2>1 DEF Dropping
  <1>7. Claims' = Claims /\ Claims[c] = {}
    <2>1. \A j \in Keys : ~Dropping(c, j)
      BY <1>5 DEF Dropping
    <2>. QED  BY <1>6, <2>1 DEF Claims
  <1>8. Store!Put(c, k)
    <2>1. c \notin Stored
      <3>1. <<"put", k>> \in todo[c] /\ <<"put", k>>[1] = "put"
        BY <1>5
      <3>. QED  BY <3>1 DEF Stored
    <2>2. c \in Stored'
      BY <1>1, <1>2, <1>3 DEF Stored, Putting, IsSet
    <2>3. Stored' = Stored \cup {c}
      BY <1>1, <1>3, <2>2 DEF Stored
    <2>. QED  BY <1>1, <1>2, <1>7, <2>1, <2>3 DEF Store!Put, Putting, IsSet
  <1>. HIDE DEF entry
  <1>9. \A d \in Calls \ {c} : Staged(d)' /\ Effective(d)'
    <2>1. \A j \in Keys : Kept(j) \/ j = k
      BY <1>3 DEF Kept
    <2>. QED  BY <1>1, <1>3, <2>1, OthersStaySure DEF StoreInv
  <1>10. Staged(c)'
    BY <1>3 DEF Staged
  <1>11. Effective(c)'
    <2>1. call'[c].kind = "set"
      BY <1>1, <1>2 DEF Putting, IsSet
    <2>. QED  BY <1>1, <1>2, <1>3, <1>4, <2>1 DEF Effective, Own
  <1>. QED  BY <1>8, <1>9, <1>10, <1>11 DEF Sure, Simulated, Store!Serve

\* A call begins with all it has to do.
LEMMA BeginKept ==
  ASSUME StoreInv, TagInv', NEW c \in Calls, NEW first, Begin(c, first),
         first[1] \in {"tags", "members"},
         NEW new \in Call, call' = [call EXCEPT ![c] = new],
         new.kind = "delete" => first = <<"tags", new.key>>
  PROVE  Sure' /\ Simulated
  <1>1. /\ call[c] = Absent /\ todo' = [todo EXCEPT ![c] = {first}]
        /\ young' = [young EXCEPT ![c] = Incomplete] /\ value' = value
        /\ TypeOK /\ InOrder(c)
    BY DEF Begin, redis, StoreInv, TagInv, CallSound
  <1>2. /\ todo'[c] = {first} /\ call'[c] = new
        /\ \A d \in Calls \ {c} : /\ todo'[d] = todo[d] /\ young'[d] = young[d]
                                  /\ call'[d] = call[d]
    BY <1>1 DEF TypeOK
  <1>3. todo[c] = {}
    BY <1>1 DEF InOrder, Deleting, Putting, Writing, Reading, Purging, Closing, IsSet, IsPurge
  <1>4. \A d \in Calls, j \in Keys : Dropping(d, j)' <=> Dropping(d, j)
    <2>1. \A j \in Keys : ~Dropping(c, j) /\ ~Dropping(c, j)'
      BY <1>2, <1>3 DEF Dropping
    <2>. QED  BY <1>2, <2>1 DEF Dropping
  <1>5. Claims' = Claims
    BY <1>4 DEF Claims
  <1>6. Store!Begin(c)
    <2>1. \E job \in Store!Call : call' = [call EXCEPT ![c] = job]
      BY StoreTerms
    <2>2. young' = [young EXCEPT ![c] = Store!Unfinished]
      BY <1>1, StoreTerms
    <2>3. c \notin Stored /\ c \notin Stored'
      BY <1>1, <1>2 DEF Stored
    <2>4. Stored' = Stored
      BY <1>2, <2>3 DEF Stored
    <2>. QED  BY <1>1, <1>5, <2>1, <2>2, <2>4 DEF Store!Begin
  <1>7. \A d \in Calls \ {c} : Staged(d)' /\ Effective(d)'
    BY <1>1, <1>2, OthersStaySure DEF StoreInv, Kept
  <1>8. Staged(c)'
    <2>1. \A j : first # <<"drop", j>>
      <3>1. \A j : <<"drop", j>>[1] \notin {"tags", "members"}
        OBVIOUS
      <3>. QED  BY <3>1
    <2>2. \A j \in Keys : ~Dropping(c, j)'
      BY <1>2 DEF Dropping
    <2>. QED  BY <1>2, <2>1, <2>2 DEF Staged
  <1>9. ~Writing(c)'
    <2>1. first[1] \notin WriteNames
      BY DEF WriteNames
    <2>. QED  BY <1>2, <2>1, WritesNamed DEF Writing
  <1>10. Effective(c)'
    BY <1>2, <1>9 DEF Effective
  <1>. QED  BY <1>6, <1>7, <1>8, <1>10 DEF Sure, Simulated, Store!Serve

LEMMA BeginsKept ==
  ASSUME StoreInv, TagInv', NEW c \in Calls,
         \/ \E k \in Keys : Set(c, k) \/ Delete(c, k)
         \/ \E i \in Indices : PurgeByTag(c, i)
  PROVE  Sure' /\ Simulated
  <1>1. ASSUME NEW k \in Keys, Set(c, k) PROVE Sure' /\ Simulated
    <2>1. PICK tags \in SUBSET (Tags \cup {Absent}), lives \in Lifetimes :
            call' = [call EXCEPT ![c] =
              [kind |-> "set", key |-> k, tags |-> Given(tags), lives |-> lives]]
      BY <1>1 DEF Set
    <2>2. PICK new : new = [kind |-> "set", key |-> k, tags |-> Given(tags), lives |-> lives]
      OBVIOUS
    <2>3. Begin(c, <<"tags", k>>) /\ call' = [call EXCEPT ![c] = new]
      BY <1>1, <2>1, <2>2 DEF Set
    <2>4. new \in Call /\ new.kind = "set"
      <3>1. Given(tags) \subseteq Tags /\ lives \in BOOLEAN
        BY CacheConstants DEF Given
      <3>. QED  BY <2>2, <3>1 DEF Call
    <2>5. <<"tags", k>>[1] \in {"tags", "members"}
      OBVIOUS
    <2>. QED  BY <2>3, <2>4, <2>5, BeginKept
  <1>2. ASSUME NEW k \in Keys, Delete(c, k) PROVE Sure' /\ Simulated
    <2>1. PICK new : new = [kind |-> "delete", key |-> k]
      OBVIOUS
    <2>2. Begin(c, <<"tags", k>>) /\ call' = [call EXCEPT ![c] = new]
      BY <1>2, <2>1 DEF Delete
    <2>3. new \in Call /\ new.key = k
      BY <2>1 DEF Call
    <2>4. <<"tags", k>>[1] \in {"tags", "members"}
      OBVIOUS
    <2>. QED  BY <2>2, <2>3, <2>4, BeginKept
  <1>3. ASSUME NEW i \in Indices, PurgeByTag(c, i) PROVE Sure' /\ Simulated
    <2>1. PICK new : new = [kind |-> "purge", index |-> i]
      OBVIOUS
    <2>2. Begin(c, <<"members", i>>) /\ call' = [call EXCEPT ![c] = new]
      BY <1>3, <2>1 DEF PurgeByTag
    <2>3. new \in Call /\ new.kind = "purge"
      BY <2>1 DEF Call
    <2>4. <<"members", i>>[1] \in {"tags", "members"}
      OBVIOUS
    <2>. QED  BY <2>2, <2>3, <2>4, BeginKept
  <1>. QED  BY <1>1, <1>2, <1>3

\* A call that is over has nothing left.
LEMMA OverSure ==
  ASSUME StoreInv, NEW c \in Calls, call' = [call EXCEPT ![c] = Absent],
         young' = [young EXCEPT ![c] = {}], todo'[c] = {},
         \A d \in Calls \ {c} : todo'[d] = todo[d], \A k \in Keys : Kept(k)
  PROVE  Sure'
  <1>1. /\ call'[c] = Absent
        /\ \A d \in Calls \ {c} : call'[d] = call[d] /\ young'[d] = young[d]
    BY DEF StoreInv, TagInv, TypeOK
  <1>2. \A d \in Calls \ {c} : Staged(d)' /\ Effective(d)'
    BY <1>1, OthersStaySure DEF StoreInv, TagInv
  <1>3. Staged(c)' /\ Effective(c)'
    BY <1>1 DEF Staged, Effective, Writing, IsSet
  <1>. QED  BY <1>2, <1>3 DEF Sure

LEMMA OverStored ==
  ASSUME TypeOK, NEW c \in Calls, call' = [call EXCEPT ![c] = Absent],
         \A d \in Calls \ {c} : todo'[d] = todo[d]
  PROVE  Stored' = Stored \ {c}
  <1>1. call'[c] = Absent /\ \A d \in Calls \ {c} : call'[d] = call[d]
    BY DEF TypeOK
  <1>. QED  BY <1>1 DEF Stored

\* A call that returns has done what it is for.
LEMMA ReturnKept ==
  ASSUME StoreInv, TagInv', NEW c \in Calls, Return(c)
  PROVE  Sure' /\ Simulated
  <1>1. /\ call[c] # Absent /\ todo[c] = {} /\ todo' = todo
        /\ value' = [k \in Keys |-> IF Wrote(c, k) THEN [value[k] EXCEPT !.complete = TRUE]
                                    ELSE value[k]]
        /\ call' = [call EXCEPT ![c] = Absent] /\ young' = [young EXCEPT ![c] = {}]
        /\ TypeOK /\ CallSound(c) /\ Effective(c) /\ TagInv
    BY DEF Return, StoreInv, TagInv
  <1>2. Claims' = Claims /\ Claims[c] = {}
    BY <1>1 DEF Claims, Dropping
  <1>3. \A k \in Keys : Kept(k)
    <2>. SUFFICES ASSUME NEW k \in Keys, value'[k] # Absent
                  PROVE  value[k] # Absent /\ value'[k].writer = value[k].writer
      BY DEF Kept
    <2>1. CASE Wrote(c, k)
      <3>1. value[k] \in Entry /\ value[k] # Absent
        BY <1>1, <2>1 DEF TypeOK, Wrote
      <3>. QED  BY <1>1, <2>1, <3>1 DEF Entry
    <2>2. CASE ~Wrote(c, k)
      BY <1>1, <2>2
    <2>. QED  BY <2>1, <2>2
  <1>4. call[c].kind = "purge" => Store!Purged(c, call[c].index)
    <2>. SUFFICES ASSUME call[c].kind = "purge", NEW k \in Keys \ young[c], value[k] # Absent,
                         value[k].complete, ~Store!Claimed(k)
                  PROVE  call[c].index \notin Store!IndicesOf(k) \ value[k].excused
      BY DEF Store!Purged
    <2>1. ~Doomed(k) /\ Store!IndicesOf(k) = IndicesOf(k)
      BY StoreTerms
    <2>2. ~Under(k, call[c].index, c)
      BY <1>1, PurgeLeavesNothing
    <2>. QED  BY <2>1, <2>2 DEF Under, Standing
  <1>5. call[c].kind # "purge" => Store!Replaced(c, call[c].key)
    <2>1. CASE call[c].kind = "delete"
      BY <1>1, <2>1 DEF Effective, Dropping, Store!Replaced
    <2>2. CASE call[c].kind = "set"
      <3>1. Writing(c) /\ call[c].key \in Keys
        BY <1>1, <2>2 DEF CallSound, InOrder, Deleting, Putting, Writing, Reading, Purging,
                          Closing, IsSet, IsPurge, TypeOK, Call
      <3>2. Own(c, call[c].key) => ~value[call[c].key].complete
        BY <1>1, <3>1 DEF CallSound, Written
      <3>. QED  BY <1>1, <2>2, <3>1, <3>2 DEF Effective, Own, Store!Replaced
    <2>3. call[c].kind \in {"set", "delete", "purge"}
      BY <1>1 DEF TypeOK, Call
    <2>. QED  BY <2>1, <2>2, <2>3
  <1>6. value' = [k \in Keys |->
                    IF Store!Wrote(c, k) THEN [value[k] EXCEPT !.complete = TRUE] ELSE value[k]]
    BY <1>1, StoreTerms
  <1>7. Store!Return(c)
    <2>1. Stored' = Stored \ {c}
      BY <1>1, OverStored
    <2>2. call[c].kind = "set" => c \in Stored
      BY <1>1 DEF Stored
    <2>. QED  BY <1>1, <1>2, <1>4, <1>5, <1>6, <2>1, <2>2 DEF Store!Return, Store!Over
  <1>8. Sure'
    BY <1>1, <1>3, OverSure
  <1>. QED  BY <1>7, <1>8 DEF Simulated, Store!Serve

\* A call that is cut off excuses what it had claimed.
LEMMA CutOffKept ==
  ASSUME StoreInv, TagInv', NEW c \in Calls, CutOff(c)
  PROVE  Sure' /\ Store!Fail(c)
  <1>1. /\ value' = [k \in Keys |-> IF value[k] # Absent /\ Dropping(c, k)
                                    THEN [value[k] EXCEPT !.excused = Indices] ELSE value[k]]
        /\ call' = [call EXCEPT ![c] = Absent] /\ todo' = [todo EXCEPT ![c] = {}]
        /\ young' = [young EXCEPT ![c] = {}] /\ upsets' = upsets + 1
        /\ TypeOK /\ InOrder(c) /\ todo[c] # {}
    BY DEF CutOff, StoreInv, TagInv, CallSound
  <1>2. todo'[c] = {} /\ \A d \in Calls \ {c} : todo'[d] = todo[d]
    BY <1>1 DEF TypeOK
  <1>3. call[c] # Absent
    BY <1>1 DEF InOrder, Deleting, Putting, Writing, Reading, Purging, Closing, IsSet, IsPurge
  <1>4. \A k \in Keys : Kept(k)
    <2>. SUFFICES ASSUME NEW k \in Keys, value'[k] # Absent
                  PROVE  value[k] # Absent /\ value'[k].writer = value[k].writer
      BY DEF Kept
    <2>1. CASE value[k] # Absent /\ Dropping(c, k)
      <3>1. value[k] \in Entry
        BY <1>1, <2>1 DEF TypeOK
      <3>. QED  BY <1>1, <2>1, <3>1 DEF Entry
    <2>2. CASE ~(value[k] # Absent /\ Dropping(c, k))
      BY <1>1, <2>2
    <2>. QED  BY <2>1, <2>2
  <1>5. Claims' = [Claims EXCEPT ![c] = {}]
    <2>1. \A j \in Keys : ~Dropping(c, j)'
      BY <1>2 DEF Dropping
    <2>2. \A d \in Calls \ {c}, j \in Keys : Dropping(d, j)' <=> Dropping(d, j)
      BY <1>2 DEF Dropping
    <2>. QED  BY <2>1, <2>2 DEF Claims
  <1>6. \A k \in Keys : k \in Claims[c] <=> Dropping(c, k)
    BY DEF Claims
  <1>7. value' = [k \in Keys |-> IF value[k] # Absent /\ k \in Claims[c]
                                 THEN [value[k] EXCEPT !.excused = Store!Indices] ELSE value[k]]
    BY <1>1, <1>6, StoreTerms
  <1>8. Store!Fail(c)
    <2>1. Stored' = Stored \ {c}
      BY <1>1, <1>2, OverStored
    <2>. QED  BY <1>1, <1>3, <1>5, <1>7, <2>1 DEF Store!Fail, Store!Over
  <1>9. Sure'
    BY <1>1, <1>2, <1>4, OverSure
  <1>. QED  BY <1>8, <1>9

\* Redis lets go of an entry, or of a list of tags, which the store does not show.
LEMMA ExpiryKept ==
  ASSUME StoreInv, TagInv', NEW k \in Keys, ExpireValue(k) \/ ExpireTags(k)
  PROVE  Sure' /\ Simulated
  <1>1. /\ call' = call /\ todo' = todo /\ young' = young /\ TypeOK
        /\ \/ value' = value
           \/ value[k] # Absent /\ value[k].lives /\ value' = [value EXCEPT ![k] = Absent]
    BY DEF ExpireValue, ExpireTags, StoreInv, TagInv
  <1>2. \A j \in Keys : Kept(j)
    BY <1>1 DEF TypeOK, Kept
  <1>3. Claims' = Claims /\ Stored' = Stored
    BY <1>1 DEF Claims, Stored, Dropping
  <1>4. Sure'
    BY <1>1, <1>2, OthersStaySure DEF StoreInv, Sure
  <1>5. Simulated
    BY <1>1, <1>3 DEF Simulated, Store!Serve, Store!Lose
  <1>. QED  BY <1>4, <1>5

--------------------------------------------------------------------------------
LEMMA StoreStart == Init => StoreInv /\ Store!StoreInit
  <1>. SUFFICES ASSUME Init PROVE StoreInv /\ Store!StoreInit
    OBVIOUS
  <1>1. \A c \in Calls : Staged(c) /\ Effective(c)
    BY DEF Init, Staged, Effective, Writing, IsSet
  <1>2. Claims = [c \in Calls |-> {}] /\ Stored = {}
    BY DEF Init, Claims, Stored, Dropping
  <1>3. value \in [Keys -> Store!Finished \cup {Absent}]
    BY DEF Init
  <1>. QED  BY <1>1, <1>2, <1>3, TagInit DEF StoreInv, Init, Store!StoreInit

\* Only a call that is cut off is a failure.
LEMMA NoFailure ==
  ASSUME Next, \A c \in Calls : ~CutOff(c)
  PROVE  upsets' = upsets
  <1>1. \A c, cmd, more : Go(c, cmd, more) => upsets' = upsets
    BY DEF Go
  <1>2. \A c, first : Begin(c, first) => upsets' = upsets
    BY DEF Begin
  <1>3. ASSUME NEW c \in Calls, NEW k \in Keys, Set(c, k) \/ Delete(c, k) \/ KeyStep(c, k)
        PROVE  upsets' = upsets
    <2>1. CASE Set(c, k) \/ Delete(c, k)
      BY <1>2, <2>1 DEF Set, Delete
    <2>2. CASE SMembersTags(c, k) \/ Drop(c, k) \/ Unlist(c, k)
      BY <1>1, <2>2 DEF SMembersTags, Drop, Unlist
    <2>3. CASE Put(c, k) \/ AddKey(c, k) \/ DelTags(c, k) \/ AddTags(c, k) \/ Expire(c, k)
      BY <1>1, <2>3 DEF Put, AddKey, DelTags, AddTags, Expire
    <2>4. ASSUME NEW t \in Tags,
                 SRem(c, k, t) \/ SCard(c, k, t) \/ DelIndex(c, k, t) \/ AddToIndex(c, k, t)
          PROVE  upsets' = upsets
      BY <1>1, <2>4 DEF SRem, SCard, DelIndex, AddToIndex
    <2>. QED  BY <1>3, <2>1, <2>2, <2>3, <2>4 DEF KeyStep
  <1>4. ASSUME NEW c \in Calls, NEW i \in Indices,
               PurgeByTag(c, i) \/ SMembersIndex(c, i) \/ DropIndex(c, i)
        PROVE  upsets' = upsets
    BY <1>1, <1>2, <1>4 DEF PurgeByTag, SMembersIndex, DropIndex
  <1>. QED  BY <1>3, <1>4 DEF Next, Return, ExpireValue, ExpireTags

LEMMA Serves ==
  ASSUME StoreInv, TagInv', Next, \A c \in Calls : ~CutOff(c)
  PROVE  Sure' /\ Simulated
  <1>1. ASSUME NEW c \in Calls, NEW k \in Keys, Set(c, k) \/ Delete(c, k) PROVE Sure' /\ Simulated
    BY <1>1, BeginsKept
  <1>2. ASSUME NEW c \in Calls, NEW k \in Keys, KeyStep(c, k) PROVE Sure' /\ Simulated
    <2>1. CASE SMembersTags(c, k) \/ Drop(c, k) \/ Unlist(c, k) \/ Put(c, k)
      BY <2>1, TagsKept, DropKept, UnlistKept, PutKept
    <2>2. CASE AddKey(c, k) \/ DelTags(c, k) \/ AddTags(c, k) \/ Expire(c, k)
      BY <2>2, WritesKept
    <2>3. ASSUME NEW t \in Tags, SRem(c, k, t) \/ SCard(c, k, t) \/ DelIndex(c, k, t)
          PROVE  Sure' /\ Simulated
      BY <2>3, SRemKept, SCardKept, DelIndexKept
    <2>4. ASSUME NEW t \in Tags, AddToIndex(c, k, t) PROVE Sure' /\ Simulated
      BY <2>4, WritesKept
    <2>. QED  BY <1>2, <2>1, <2>2, <2>3, <2>4 DEF KeyStep
  <1>3. ASSUME NEW c \in Calls, NEW i \in Indices,
               PurgeByTag(c, i) \/ SMembersIndex(c, i) \/ DropIndex(c, i)
        PROVE  Sure' /\ Simulated
    BY <1>3, BeginsKept, MembersKept, DropIndexKept
  <1>4. ASSUME NEW c \in Calls, Return(c) PROVE Sure' /\ Simulated
    BY <1>4, ReturnKept
  <1>5. ASSUME NEW k \in Keys, ExpireValue(k) \/ ExpireTags(k) PROVE Sure' /\ Simulated
    BY <1>5, ExpiryKept
  <1>. QED  BY <1>1, <1>2, <1>3, <1>4, <1>5 DEF Next

LEMMA StoreStep ==
  StoreInv /\ [Next]_vars => StoreInv' /\ [Store!StoreNext]_(Store!storeVars)
  <1>. SUFFICES ASSUME StoreInv, [Next]_vars
               PROVE  Sure' /\ TagInv' /\ [Store!StoreNext]_(Store!storeVars)
    BY DEF StoreInv, Sure
  <1>1. TagInv'
    BY TagNext DEF StoreInv
  <1>2. CASE Next /\ \A c \in Calls : ~CutOff(c)
    BY <1>1, <1>2, Serves, NoFailure DEF Simulated, Store!StoreNext, Store!storeVars
  <1>3. ASSUME NEW c \in Calls, CutOff(c)
        PROVE  Sure' /\ [Store!StoreNext]_(Store!storeVars)
    BY <1>1, <1>3, CutOffKept DEF Store!StoreNext
  <1>4. CASE UNCHANGED vars
    <2>1. value' = value /\ call' = call /\ todo' = todo /\ young' = young /\ upsets' = upsets
      BY <1>4 DEF vars, redis
    <2>2. Claims' = Claims /\ Stored' = Stored
      BY <2>1 DEF Claims, Stored, Dropping
    <2>3. \A k \in Keys : Kept(k)
      BY <2>1, <2>2, Unseen
    <2>4. Sure'
      BY <2>1, <2>3, OthersStaySure DEF StoreInv, TagInv, Sure
    <2>. QED  BY <1>1, <2>1, <2>2, <2>4 DEF Store!storeVars
  <1>. QED  BY <1>1, <1>2, <1>3, <1>4

\* However the commands of any number of calls interleave and wherever one is cut off, the
\* cache keeps the promises of TagStore: a set that returns has put its entry, once, and it or
\* a delete that returns has replaced the entry of its key; a purge that returns has left none
\* under its index; and an entry is excused from an index only by a call that began before its
\* set had returned, or by one that was cut off while it was deleting it (set, delete,
\* purgeByTag, clear).
THEOREM StoreIsKept == Spec => KeepsStore
  BY StoreStart, StoreStep, PTL DEF Spec, KeepsStore, Store!StoreSpec
================================================================================
