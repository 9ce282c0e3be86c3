--------------------------- MODULE ForwardAuthProofs ---------------------------
(***************************************************************************)
(* What a grant of the decision point rests on, for any number of          *)
(* requests, keys, subjects and decisions, any lifetime of the cache and   *)
(* any run of the clock.                                                   *)
(***************************************************************************)
EXTENDS ForwardAuth, TLAPS

--------------------------------------------------------------------------------
Early == {"lookup", "validate", "findKey"}
Identified == {"session", "touch", "create", "fallback", "policy", "fill"}
Late == {"identity"} \cup Identified

\* A key that has ended stays unusable.
KeysSound ==
  \A k \in Keys : ended[k] # Never =>
    keys[k] # Absent /\ (keys[k].status = "revoked" \/ keys[k].expiresAt <= now)

\* A request that looked its key up was valid, and knows if the key has ended since.
KeyInForce(q) ==
  /\ pc[q] \in Early =>
       \/ ctx[q].valid
       \/ ctx[q].key # Absent /\ (keys[ctx[q].key] = Absent \/ ended[ctx[q].key] # Never)
  /\ pc[q] \in Late =>
       ctx[q].valid /\ (ctx[q].key # Absent => ctx[q].raced \/ ended[ctx[q].key] = Never)

\* A request that was not raced has found what the rights still are.
RightsSeen(q) ==
  /\ pc[q] \in Identified /\ ~ctx[q].raced /\ ctx[q].about \cap Users # {} /\ ctx[q].allowed =>
       \A s \in ctx[q].about : rights[s]
  /\ pc[q] = "fill" => ctx[q].allowed

RequestSound(q) ==
  /\ pc[q] \in Early \cup Late => ctx[q] \in Context
  /\ pc[q] = "validate" => ctx[q].key = Absent /\ ctx[q].user \in Users
  /\ pc[q] = "findKey" => ctx[q].key # Absent
  /\ pc[q] \in Late \ {"policy", "fill"} => ctx[q].user \in Users
  /\ KeyInForce(q)
  /\ RightsSeen(q)

\* A cached decision is no younger than the end of its key or of the rights of whom it is
\* about, and rights that are gone are about to be purged or were changed in silence,
\* unless its request overlapped the change.
EntrySound(d) ==
  cache[d] # Absent =>
    /\ cache[d].cachedAt <= now
    /\ cache[d].grant.key # Absent /\ ~cache[d].grant.raced =>
         cache[d].cachedAt <= ended[cache[d].grant.key]
    /\ ~cache[d].grant.raced /\ cache[d].grant.about \cap Users # {} =>
         \A s \in cache[d].grant.about :
           cache[d].cachedAt <= withdrawn[s] /\ (rights[s] \/ s \in pending \/ s \in silent)

\* Who has rights has not lost them.
RightsSound == \A s \in Subjects : rights[s] => withdrawn[s] = Never

DecisionInv ==
  /\ TypeOK
  /\ KeysSound
  /\ RightsSound
  /\ \A q \in Requests : RequestSound(q)
  /\ \A d \in Decisions : EntrySound(d)

--------------------------------------------------------------------------------
\* The clock never reaches Never.
LEMMA Clock == now \in Times => now \in Nat /\ now < Never
  BY ForwardAuthConstants DEF Times, Never

LEMMA InitSound == Init => DecisionInv
  <1>. SUFFICES ASSUME Init PROVE DecisionInv  OBVIOUS
  <1>1. TypeOK
    BY ForwardAuthConstants DEF Init, TypeOK, Times, Never, Places
  <1>2. KeysSound /\ RightsSound
    BY DEF Init, KeysSound, RightsSound
  <1>3. \A q \in Requests : RequestSound(q)
    BY DEF Init, RequestSound, KeyInForce, RightsSeen, Early, Late, Identified
  <1>4. \A d \in Decisions : EntrySound(d)
    BY DEF Init, EntrySound
  <1>. QED  BY <1>1, <1>2, <1>3, <1>4 DEF DecisionInv

\* A step of one request leaves the others sound, and the stores.
LEMMA HandleKeeps ==
  ASSUME DecisionInv, NEW q \in Requests,
         UNCHANGED <<now, keys, purging, ended>>,
         sessions' \subseteq Users,
         pc' \in [Requests -> Places], ctx' \in [Requests -> Context \cup {Absent}],
         answer' \in [Requests -> {"none", "granted", "refused"}],
         \A p \in Requests \ {q} : pc'[p] = pc[p] /\ ctx'[p] = ctx[p],
         RequestSound(q)',
         cache' \in [Decisions -> Entry \cup {Absent}],
         \A d \in Decisions : EntrySound(d)'
  PROVE  DecisionInv'
  <1>1. TypeOK'
    BY DEF purging, DecisionInv, TypeOK
  <1>2. KeysSound' /\ RightsSound'
    BY DEF purging, DecisionInv, KeysSound, RightsSound
  <1>3. ASSUME NEW p \in Requests \ {q} PROVE RequestSound(p)'
    BY <1>3 DEF purging, DecisionInv, RequestSound, KeyInForce, RightsSeen
  <1>. QED  BY <1>1, <1>2, <1>3 DEF DecisionInv

\* A request that is answered leaves nothing to be sound about.
LEMMA AnswerKeeps ==
  ASSUME DecisionInv, NEW q \in Requests, NEW how \in {"granted", "refused"},
         Answer(q, how), UNCHANGED <<stores, sessions>>
  PROVE  DecisionInv'
  <1>1. pc' \in [Requests -> Places] /\ pc'[q] = "done"
    BY DEF DecisionInv, TypeOK, Answer, To, Places
  <1>2. ctx' \in [Requests -> Context \cup {Absent}]
    BY DEF DecisionInv, TypeOK, Answer
  <1>3. answer' \in [Requests -> {"none", "granted", "refused"}]
    BY DEF DecisionInv, TypeOK, Answer
  <1>4. RequestSound(q)'
    BY <1>1 DEF RequestSound, KeyInForce, RightsSeen, Early, Late, Identified
  <1>5. \A p \in Requests \ {q} : pc'[p] = pc[p] /\ ctx'[p] = ctx[p]
    BY DEF DecisionInv, TypeOK, Answer, To
  <1>6. \A d \in Decisions : EntrySound(d)'
    BY DEF stores, purging, DecisionInv, EntrySound
  <1>. QED  BY <1>1, <1>2, <1>3, <1>4, <1>5, <1>6, HandleKeeps
     DEF stores, purging, DecisionInv, TypeOK

\* A request that only goes on, to a place where no more is required of it.
LEMMA GoesOnKeeps ==
  ASSUME DecisionInv, NEW q \in Requests, NEW place \in Places, To(q, place),
         UNCHANGED <<stores, ctx, answer>>, sessions' \subseteq Users,
         \/ pc[q] = "validate" /\ place = "identity"
         \/ pc[q] \in Identified /\ place \in Identified \ {"fill"} /\
            (pc[q] \in {"policy", "fill"} => place = "policy")
         \/ pc[q] = "policy" /\ place = "fill" /\ ctx[q].allowed
  PROVE  DecisionInv'
  <1>1. pc' \in [Requests -> Places] /\ pc'[q] = place
    BY DEF DecisionInv, TypeOK, To
  <1>2. RequestSound(q)'
    BY <1>1 DEF DecisionInv, RequestSound, KeyInForce, RightsSeen, Early, Late, Identified,
       stores, purging
  <1>3. \A p \in Requests \ {q} : pc'[p] = pc[p] /\ ctx'[p] = ctx[p]
    BY DEF DecisionInv, TypeOK, To
  <1>4. \A d \in Decisions : EntrySound(d)'
    BY DEF stores, purging, DecisionInv, EntrySound
  <1>. QED  BY <1>1, <1>2, <1>3, <1>4, HandleKeeps DEF stores, purging, DecisionInv, TypeOK

\* A request that comes in with a key in force is valid, and with no key.
LEMMA ArriveKeeps ==
  ASSUME DecisionInv, NEW q \in Requests, Arrive(q)
  PROVE  DecisionInv'
  <1>1. PICK d \in Decisions \cup {Absent}, o \in Orgs \cup {Absent}, c \in Credentials :
          ctx' = [ctx EXCEPT ![q] =
            [decision |-> d, key |-> c.key, user |-> c.user, org |-> o,
             about |-> {}, allowed |-> FALSE, raced |-> FALSE,
             valid |-> IF c.key = Absent THEN TRUE
                       ELSE keys[c.key] # Absent /\ ended[c.key] = Never]]
    BY DEF Arrive
  <1>. DEFINE good == IF c.key = Absent THEN TRUE
                      ELSE keys[c.key] # Absent /\ ended[c.key] = Never
  <1>2. good \in BOOLEAN
    OBVIOUS
  <1>3. c.key \in Keys \cup {Absent} /\ c.user \in Users \cup {Absent}
    BY DEF Credentials
  <1>. DEFINE new == [decision |-> d, key |-> c.key, user |-> c.user, org |-> o,
                      about |-> {}, allowed |-> FALSE, raced |-> FALSE, valid |-> good]
  <1>4. new \in Context
    <2>. HIDE DEF good
    <2>. QED  BY <1>2, <1>3 DEF Context
  <1>5. ctx' = [ctx EXCEPT ![q] = new]
    BY <1>1
  <1>6. ctx'[q] = new
    BY <1>5 DEF DecisionInv, TypeOK
  <1>. HIDE DEF new, good
  <1>7. ctx' \in [Requests -> Context \cup {Absent}] /\ \A p \in Requests \ {q} : ctx'[p] = ctx[p]
    BY <1>4, <1>5 DEF DecisionInv, TypeOK
  <1>8. /\ pc' \in [Requests -> Places] /\ pc'[q] = "lookup"
        /\ \A p \in Requests \ {q} : pc'[p] = pc[p]
    BY DEF DecisionInv, TypeOK, Arrive, To, Places
  <1>9. KeyInForce(q)'
    <2>1. ctx'[q].key = c.key /\ ctx'[q].valid = good
      BY <1>6 DEF new
    <2>2. c.key # Absent => (good <=> keys[c.key] # Absent /\ ended[c.key] = Never)
      BY DEF good
    <2>3. c.key = Absent => good
      BY DEF good
    <2>. QED  BY <1>8, <2>1, <2>2, <2>3 DEF KeyInForce, Early, Late, Identified, Arrive, stores
  <1>10. RequestSound(q)'
    BY <1>4, <1>6, <1>8, <1>9 DEF RequestSound, RightsSeen, Early, Late, Identified
  <1>11. \A e \in Decisions : EntrySound(e)'
    BY DEF stores, purging, DecisionInv, EntrySound, Arrive
  <1>. QED  BY <1>7, <1>8, <1>10, <1>11, HandleKeeps
     DEF stores, purging, DecisionInv, TypeOK, Arrive

LEMMA ResolveCachedDecisionKeeps ==
  ASSUME DecisionInv, NEW q \in Requests, ResolveCachedDecision(q)
  PROVE  DecisionInv'
  <1>1. CASE Answer(q, "granted") /\ UNCHANGED <<stores, sessions>>
    BY <1>1, AnswerKeeps
  <1>2. CASE Refuse(q)
    BY <1>2, AnswerKeeps DEF Refuse
  <1>3. CASE /\ pc[q] = "lookup"
             /\ ctx[q].key # Absent \/ ctx[q].user # Absent
             /\ To(q, IF ctx[q].key # Absent THEN "findKey" ELSE "validate")
             /\ ctx' = [ctx EXCEPT ![q].decision = Absent]
             /\ UNCHANGED <<stores, sessions, answer>>
    <2>1. ctx[q] \in Context
      BY <1>3 DEF DecisionInv, RequestSound, Early
    <2>2. ctx' = [ctx EXCEPT ![q] = ctx'[q]] /\ ctx'[q] = [ctx[q] EXCEPT !.decision = Absent]
      BY <1>3 DEF DecisionInv, TypeOK
    <2>3. ctx'[q] \in Context
      BY <2>1, <2>2 DEF Context
    <2>4. /\ ctx'[q].key = ctx[q].key
          /\ ctx'[q].user = ctx[q].user
          /\ ctx'[q].valid = ctx[q].valid
      BY <2>1, <2>2 DEF Context
    <2>5. ctx' \in [Requests -> Context \cup {Absent}] /\ \A p \in Requests \ {q} : ctx'[p] = ctx[p]
      BY <2>2, <2>3 DEF DecisionInv, TypeOK
    <2>6. /\ pc' \in [Requests -> Places] /\ \A p \in Requests \ {q} : pc'[p] = pc[p]
          /\ pc'[q] = IF ctx[q].key # Absent THEN "findKey" ELSE "validate"
      BY <1>3 DEF DecisionInv, TypeOK, To, Places
    <2>7. ctx[q].key = Absent => ctx[q].user \in Users
      BY <1>3, <2>1 DEF Context
    <2>8. RequestSound(q)'
      BY <1>3, <2>3, <2>4, <2>6, <2>7
         DEF DecisionInv, RequestSound, KeyInForce, RightsSeen, Early, Late, Identified, stores,
            purging
    <2>9. \A e \in Decisions : EntrySound(e)'
      BY <1>3 DEF stores, purging, DecisionInv, EntrySound
    <2>. QED  BY <1>3, <2>5, <2>6, <2>8, <2>9, HandleKeeps DEF stores, purging, DecisionInv, TypeOK
  <1>. QED  BY <1>1, <1>2, <1>3 DEF ResolveCachedDecision

\* A usable key has not ended.
LEMMA UsableNotEnded ==
  ASSUME DecisionInv, NEW k \in Keys, Usable(k)
  PROVE  ended[k] = Never /\ keys[k] # Absent /\ keys[k].owner \in Owners
  <1>1. keys[k] \in KeyRow
    BY DEF DecisionInv, TypeOK, Usable
  <1>2. keys[k].expiresAt \in Nat /\ now \in Nat
    BY <1>1, ForwardAuthConstants DEF KeyRow, Times, Never, DecisionInv, TypeOK
  <1>. QED  BY <1>1, <1>2 DEF DecisionInv, KeysSound, Usable, KeyRow

LEMMA FindKeyKeeps ==
  ASSUME DecisionInv, NEW q \in Requests, FindKey(q)
  PROVE  DecisionInv'
  <1>. DEFINE k == ctx[q].key
  <1>1. ctx[q] \in Context /\ pc[q] = "findKey" /\ k \in Keys
    BY DEF FindKey, DecisionInv, RequestSound, Early, Context
  <1>2. CASE Refuse(q)
    BY <1>2, AnswerKeeps DEF Refuse
  <1>3. ASSUME Usable(k)
        PROVE  ended[k] = Never /\ keys[k] # Absent /\ keys[k].owner \in Owners /\ ctx[q].valid
    BY <1>1, <1>3, UsableNotEnded DEF DecisionInv, RequestSound, KeyInForce, Early
  <1>4. CASE /\ Usable(k)
             /\ keys[k].owner \in Users
             /\ ctx' = [ctx EXCEPT ![q].user = keys[k].owner]
             /\ To(q, "identity")
             /\ UNCHANGED <<stores, sessions, answer>>
    <2>1. ctx' = [ctx EXCEPT ![q] = ctx'[q]] /\ ctx'[q] = [ctx[q] EXCEPT !.user = keys[k].owner]
      BY <1>4 DEF DecisionInv, TypeOK
    <2>2. ctx'[q] \in Context
      BY <1>1, <1>4, <2>1 DEF Context
    <2>3. ctx'[q].key = k /\ ctx'[q].user \in Users /\ ctx'[q].valid = ctx[q].valid
      BY <1>1, <1>4, <2>1 DEF Context
    <2>4. ctx' \in [Requests -> Context \cup {Absent}] /\ \A p \in Requests \ {q} : ctx'[p] = ctx[p]
      BY <2>1, <2>2 DEF DecisionInv, TypeOK
    <2>5. /\ pc' \in [Requests -> Places] /\ pc'[q] = "identity"
          /\ \A p \in Requests \ {q} : pc'[p] = pc[p]
      BY <1>4 DEF DecisionInv, TypeOK, To, Places
    <2>6. RequestSound(q)'
      BY <1>3, <1>4, <2>2, <2>3, <2>5
         DEF RequestSound, KeyInForce, RightsSeen, Early, Late, Identified, stores, purging
    <2>7. \A e \in Decisions : EntrySound(e)'
      BY <1>4 DEF stores, purging, DecisionInv, EntrySound
    <2>. QED  BY <1>4, <2>4, <2>5, <2>6, <2>7, HandleKeeps DEF stores, purging, DecisionInv, TypeOK
  <1>5. CASE /\ Usable(k)
             /\ keys[k].owner \notin Users
             /\ \E allowed \in BOOLEAN :
                  ctx' = [ctx EXCEPT
                    ![q].about = About(Absent, IF keys[k].owner \in Orgs THEN keys[k].owner
                                               ELSE ctx[q].org),
                    ![q].org = Absent,
                    ![q].allowed = allowed]
             /\ To(q, "policy")
             /\ UNCHANGED <<stores, sessions, answer>>
    <2>. DEFINE about == About(Absent, IF keys[k].owner \in Orgs THEN keys[k].owner
                                       ELSE ctx[q].org)
    <2>1. about \subseteq Orgs
      BY <1>1 DEF About, Context
    <2>2. about \cap Users = {} /\ about \subseteq Subjects
      BY <2>1, ForwardAuthConstants DEF Subjects
    <2>. HIDE DEF about
    <2>3. PICK allowed \in BOOLEAN :
            ctx' = [ctx EXCEPT ![q].about = about, ![q].org = Absent, ![q].allowed = allowed]
      BY <1>5 DEF about
    <2>4. /\ ctx' = [ctx EXCEPT ![q] = ctx'[q]]
          /\ ctx'[q] = [ctx[q] EXCEPT !.about = about, !.org = Absent, !.allowed = allowed]
      BY <2>3 DEF DecisionInv, TypeOK
    <2>5. ctx'[q] \in Context
      BY <1>1, <2>2, <2>4 DEF Context
    <2>6. ctx'[q].key = k /\ ctx'[q].about = about /\ ctx'[q].valid = ctx[q].valid
      BY <1>1, <2>4 DEF Context
    <2>7. ctx' \in [Requests -> Context \cup {Absent}] /\ \A p \in Requests \ {q} : ctx'[p] = ctx[p]
      BY <2>4, <2>5 DEF DecisionInv, TypeOK
    <2>8. /\ pc' \in [Requests -> Places] /\ pc'[q] = "policy"
          /\ \A p \in Requests \ {q} : pc'[p] = pc[p]
      BY <1>5 DEF DecisionInv, TypeOK, To, Places
    <2>9. RequestSound(q)'
      BY <1>3, <1>5, <2>2, <2>5, <2>6, <2>8
         DEF RequestSound, KeyInForce, RightsSeen, Early, Late, Identified, stores, purging
    <2>10. \A e \in Decisions : EntrySound(e)'
      BY <1>5 DEF stores, purging, DecisionInv, EntrySound
    <2>. QED  BY <1>5, <2>7, <2>8, <2>9, <2>10, HandleKeeps DEF stores, purging, DecisionInv, TypeOK
  <1>. QED  BY <1>2, <1>4, <1>5 DEF FindKey

LEMMA BuildIdentityKeeps ==
  ASSUME DecisionInv, NEW q \in Requests, BuildIdentity(q)
  PROVE  DecisionInv'
  <1>. DEFINE about == About(ctx[q].user, ctx[q].org)
              entitled == \A s \in about : rights[s]
  <1>1. ctx[q] \in Context /\ pc[q] = "identity" /\ ctx[q].user \in Users
    BY DEF BuildIdentity, DecisionInv, RequestSound, Late
  <1>2. about \subseteq Subjects
    BY <1>1 DEF About, Context, Subjects
  <1>3. ctx' = [ctx EXCEPT ![q].about = about, ![q].allowed = entitled, ![q].org = Absent]
    BY DEF BuildIdentity
  <1>4. PICK place \in {"session", "policy"} : To(q, place)
    BY DEF BuildIdentity
  <1>5. entitled \in BOOLEAN /\ (entitled => \A s \in about : rights[s])
    OBVIOUS
  <1>. HIDE DEF about, entitled
  <1>6. /\ ctx' = [ctx EXCEPT ![q] = ctx'[q]]
        /\ ctx'[q] = [ctx[q] EXCEPT !.about = about, !.allowed = entitled, !.org = Absent]
    BY <1>3 DEF DecisionInv, TypeOK
  <1>7. ctx'[q] \in Context
    BY <1>1, <1>2, <1>5, <1>6 DEF Context
  <1>8. /\ ctx'[q].key = ctx[q].key /\ ctx'[q].user = ctx[q].user
        /\ ctx'[q].about = about /\ ctx'[q].allowed = entitled
        /\ ctx'[q].valid = ctx[q].valid /\ ctx'[q].raced = ctx[q].raced
    BY <1>1, <1>6 DEF Context
  <1>9. ctx' \in [Requests -> Context \cup {Absent}] /\ \A p \in Requests \ {q} : ctx'[p] = ctx[p]
    BY <1>6, <1>7 DEF DecisionInv, TypeOK
  <1>10. pc' \in [Requests -> Places] /\ pc'[q] = place /\ \A p \in Requests \ {q} : pc'[p] = pc[p]
    BY <1>4 DEF DecisionInv, TypeOK, To, Places
  <1>11. KeyInForce(q)'
    BY <1>1, <1>4, <1>8, <1>10
       DEF BuildIdentity, DecisionInv, RequestSound, KeyInForce, Early, Late, Identified, stores,
          purging
  <1>12. RightsSeen(q)'
    BY <1>4, <1>5, <1>8, <1>10 DEF BuildIdentity, RightsSeen, stores, purging
  <1>13. RequestSound(q)'
    BY <1>1, <1>4, <1>7, <1>8, <1>10, <1>11, <1>12 DEF RequestSound, Early, Late, Identified
  <1>14. \A e \in Decisions : EntrySound(e)'
    BY DEF stores, purging, DecisionInv, EntrySound, BuildIdentity
  <1>. QED  BY <1>9, <1>10, <1>13, <1>14, HandleKeeps DEF BuildIdentity, stores, DecisionInv, TypeOK

\* ensureSessionRecord decides nothing but where the request goes on.
LEMMA SessionStepKeeps ==
  ASSUME DecisionInv, NEW q \in Requests,
         GetSession(q) \/ TouchSession(q) \/ CreateSession(q) \/ FallbackTouch(q)
           \/ SessionStoreFails(q)
  PROVE  DecisionInv'
  <1>1. pc[q] \in {"session", "touch", "create", "fallback"}
    BY DEF GetSession, TouchSession, CreateSession, FallbackTouch, SessionStoreFails
  <1>2. PICK place \in {"touch", "create", "fallback", "policy"} : To(q, place)
    BY DEF GetSession, TouchSession, CreateSession, FallbackTouch, SessionStoreFails
  <1>3. ctx[q].user \in Users
    BY <1>1 DEF DecisionInv, RequestSound, Late, Identified
  <1>4. sessions' \subseteq Users
    BY <1>3 DEF GetSession, TouchSession, CreateSession, FallbackTouch, SessionStoreFails,
                DecisionInv, TypeOK
  <1>5. UNCHANGED <<stores, ctx, answer>>
    BY DEF GetSession, TouchSession, CreateSession, FallbackTouch, SessionStoreFails
  <1>. QED  BY <1>1, <1>2, <1>4, <1>5, GoesOnKeeps DEF Places, Identified

LEMMA EvaluateKeeps ==
  ASSUME DecisionInv, NEW q \in Requests, Evaluate(q)
  PROVE  DecisionInv'
  <1>1. CASE Refuse(q)
    BY <1>1, AnswerKeeps DEF Refuse
  <1>2. CASE Answer(q, "granted") /\ UNCHANGED <<stores, sessions>>
    BY <1>2, AnswerKeeps
  <1>3. CASE pc[q] = "policy" /\ ctx[q].allowed /\ To(q, "fill") /\ UNCHANGED <<stores, sessions, ctx, answer>>
    BY <1>3, GoesOnKeeps DEF Places, DecisionInv, TypeOK
  <1>. QED  BY <1>1, <1>2, <1>3 DEF Evaluate

\* An entry is as sound as the request that made it.
LEMMA CacheDecisionKeeps ==
  ASSUME DecisionInv, NEW q \in Requests, CacheDecision(q)
  PROVE  DecisionInv'
  <1>1. PICK d \in Decisions : cache' = [cache EXCEPT ![d] = [grant |-> GrantOf(q), cachedAt |-> now]]
    BY DEF CacheDecision
  <1>2. PICK how \in {"granted", "refused"} : Answer(q, how)
    BY DEF CacheDecision
  <1>3. ctx[q] \in Context /\ pc[q] = "fill" /\ ctx[q].allowed
    BY DEF CacheDecision, DecisionInv, RequestSound, RightsSeen, Late, Identified
  <1>4. /\ GrantOf(q) \in Grant
        /\ GrantOf(q).key = ctx[q].key /\ GrantOf(q).about = ctx[q].about
        /\ GrantOf(q).raced = ctx[q].raced
    BY <1>3 DEF GrantOf, Grant, Context
  <1>5. now \in Times /\ now \in Nat /\ now <= Never
    BY Clock, ForwardAuthConstants DEF DecisionInv, TypeOK, Never
  <1>6. cache' \in [Decisions -> Entry \cup {Absent}]
    BY <1>1, <1>4, <1>5 DEF DecisionInv, TypeOK, Entry
  <1>7. EntrySound(d)'
    <2>1. cache'[d].cachedAt = now /\ cache'[d].grant = GrantOf(q)
      BY <1>1 DEF DecisionInv, TypeOK
    <2>2. UNCHANGED <<now, ended, rights, withdrawn, pending, silent>>
      BY DEF CacheDecision, purging
    <2>3. ctx[q].key # Absent /\ ~ctx[q].raced => now <= ended[ctx[q].key]
      BY <1>3, <1>5 DEF DecisionInv, RequestSound, KeyInForce, Late, Identified
    <2>4. ~ctx[q].raced /\ ctx[q].about \cap Users # {} => \A s \in ctx[q].about : rights[s]
      BY <1>3 DEF DecisionInv, RequestSound, RightsSeen, Identified
    <2>5. \A s \in ctx[q].about : rights[s] => now <= withdrawn[s]
      BY <1>3, <1>5 DEF DecisionInv, RightsSound, Context
    <2>. QED  BY <1>4, <1>5, <2>1, <2>2, <2>3, <2>4, <2>5 DEF EntrySound
  <1>8. ASSUME NEW e \in Decisions \ {d} PROVE EntrySound(e)'
    BY <1>1, <1>8 DEF CacheDecision, purging, DecisionInv, TypeOK, EntrySound
  <1>9. pc' \in [Requests -> Places] /\ pc'[q] = "done" /\ \A p \in Requests \ {q} : pc'[p] = pc[p]
    BY <1>2 DEF DecisionInv, TypeOK, Answer, To, Places
  <1>10. ctx' \in [Requests -> Context \cup {Absent}] /\ \A p \in Requests \ {q} : ctx'[p] = ctx[p]
    BY <1>2 DEF DecisionInv, TypeOK, Answer
  <1>11. answer' \in [Requests -> {"none", "granted", "refused"}]
    BY <1>2 DEF DecisionInv, TypeOK, Answer
  <1>12. RequestSound(q)'
    BY <1>9 DEF RequestSound, KeyInForce, RightsSeen, Early, Late, Identified
  <1>13. UNCHANGED <<now, keys, purging, ended>> /\ sessions' \subseteq Users
    BY DEF CacheDecision, purging, DecisionInv, TypeOK
  <1>. QED  BY <1>6, <1>7, <1>8, <1>9, <1>10, <1>11, <1>12, <1>13, HandleKeeps

LEMMA HandleStepKeeps ==
  ASSUME DecisionInv, NEW q \in Requests, Handle(q)
  PROVE  DecisionInv'
  <1>1. CASE ValidateAccessToken(q)
    BY <1>1, AnswerKeeps, GoesOnKeeps
       DEF ValidateAccessToken, Refuse, Places, DecisionInv, TypeOK
  <1>2. CASE CallFails(q)
    BY <1>2, AnswerKeeps DEF CallFails, Refuse
  <1>. QED  BY <1>1, <1>2, ResolveCachedDecisionKeeps, FindKeyKeeps, BuildIdentityKeeps,
               SessionStepKeeps, EvaluateKeeps, CacheDecisionKeeps DEF Handle

--------------------------------------------------------------------------------
(* What goes on around the requests.                                       *)

\* Of the requests only raced changes, to TRUE for those in S.
RacedOnly(S) ==
  /\ ctx' \in [Requests -> Context \cup {Absent}]
  /\ \A p \in Requests : ctx[p] \in Context =>
       /\ ctx'[p] \in Context
       /\ ctx'[p].key = ctx[p].key /\ ctx'[p].user = ctx[p].user
       /\ ctx'[p].about = ctx[p].about /\ ctx'[p].allowed = ctx[p].allowed
       /\ ctx'[p].valid = ctx[p].valid
       /\ p \in S => ctx'[p].raced
       /\ ctx[p].raced => ctx'[p].raced

LEMMA RaceFields ==
  ASSUME DecisionInv, NEW S,
         ctx' = [p \in Requests |->
                  IF ctx[p] # Absent /\ p \in S THEN [ctx[p] EXCEPT !.raced = TRUE] ELSE ctx[p]]
  PROVE  RacedOnly(S)
  <1>1. ASSUME NEW p \in Requests, ctx[p] \in Context
        PROVE  /\ ctx'[p] \in Context
               /\ ctx'[p].key = ctx[p].key /\ ctx'[p].user = ctx[p].user
               /\ ctx'[p].about = ctx[p].about /\ ctx'[p].allowed = ctx[p].allowed
               /\ ctx'[p].valid = ctx[p].valid
               /\ p \in S => ctx'[p].raced
               /\ ctx[p].raced => ctx'[p].raced
    <2>1. CASE p \in S
      <3>1. ctx'[p] = [ctx[p] EXCEPT !.raced = TRUE]
        BY <1>1, <2>1, AbsentIsNothing
      <3>. QED  BY <1>1, <3>1 DEF Context
    <2>2. CASE p \notin S
      BY <1>1, <2>2
    <2>. QED  BY <2>1, <2>2
  <1>2. ASSUME NEW p \in Requests PROVE ctx'[p] \in Context \cup {Absent}
    BY <1>1 DEF DecisionInv, TypeOK
  <1>. QED  BY <1>1, <1>2 DEF RacedOnly

LEMMA IssueKeyKeeps ==
  ASSUME DecisionInv, NEW k \in Keys, IssueKey(k)
  PROVE  DecisionInv'
  <1>1. PICK owner \in Owners, expiresAt \in (now + 1)..Never :
          keys' = [keys EXCEPT ![k] =
            [owner |-> owner, status |-> "active", expiresAt |-> expiresAt]]
    BY DEF IssueKey
  <1>2. ended[k] = Never
    BY DEF IssueKey, purging, DecisionInv, KeysSound
  <1>3. expiresAt \in Times \cup {Never}
    BY Clock, ForwardAuthConstants DEF DecisionInv, TypeOK, Times, Never
  <1>4. keys' \in [Keys -> KeyRow \cup {Absent}]
    BY <1>1, <1>3 DEF DecisionInv, TypeOK, KeyRow
  <1>5. ASSUME NEW p \in Requests, ctx[p] \in Context
        PROVE  /\ ctx'[p] \in Context
               /\ ctx'[p].key = ctx[p].key /\ ctx'[p].user = ctx[p].user
               /\ ctx'[p].about = ctx[p].about /\ ctx'[p].allowed = ctx[p].allowed
               /\ ctx'[p].raced = ctx[p].raced
               /\ ctx[p].key = k => ctx'[p].valid
               /\ ctx[p].valid => ctx'[p].valid
    <2>1. CASE ctx[p].key = k
      <3>1. ctx'[p] = [ctx[p] EXCEPT !.valid = TRUE]
        BY <1>5, <2>1, AbsentIsNothing DEF IssueKey
      <3>. QED  BY <1>5, <3>1 DEF Context
    <2>2. CASE ctx[p].key # k
      <3>1. ctx'[p] = ctx[p]
        BY <2>2 DEF IssueKey
      <3>. QED  BY <1>5, <2>2, <3>1
    <2>. QED  BY <2>1, <2>2
  <1>6. ctx' \in [Requests -> Context \cup {Absent}]
    <2>1. ASSUME NEW p \in Requests PROVE ctx'[p] \in Context \cup {Absent}
      BY <1>5 DEF DecisionInv, TypeOK, IssueKey
    <2>. QED  BY <2>1 DEF IssueKey
  <1>7. TypeOK'
    BY <1>4, <1>6 DEF IssueKey, purging, DecisionInv, TypeOK
  <1>8. KeysSound' /\ RightsSound'
    BY <1>1, <1>2 DEF IssueKey, purging, DecisionInv, TypeOK, KeysSound, RightsSound
  <1>9. ASSUME NEW p \in Requests PROVE RequestSound(p)'
    <2>1. pc'[p] = pc[p] /\ UNCHANGED <<rights, ended>>
      BY DEF IssueKey, purging
    <2>2. \A l \in Keys \ {k} : keys'[l] = keys[l]
      BY <1>1 DEF DecisionInv, TypeOK
    <2>3. ctx[p] \in Context => ctx[p].key \in Keys \cup {Absent}
      BY DEF Context
    <2>4. KeyInForce(p)'
      BY <1>5, <1>9, <2>1, <2>2, <2>3 DEF DecisionInv, RequestSound, KeyInForce
    <2>5. RightsSeen(p)'
      BY <1>5, <1>9, <2>1 DEF DecisionInv, RequestSound, RightsSeen, Late, Identified
    <2>. QED  BY <1>5, <1>9, <2>1, <2>4, <2>5
              DEF DecisionInv, RequestSound, Early, Late, Identified
  <1>10. \A e \in Decisions : EntrySound(e)'
    BY DEF DecisionInv, EntrySound, IssueKey, purging
  <1>. QED  BY <1>7, <1>8, <1>9, <1>10 DEF DecisionInv

LEMMA RevokeKeyKeeps ==
  ASSUME DecisionInv, NEW k \in Keys, RevokeKey(k)
  PROVE  DecisionInv'
  <1>. DEFINE S == {p \in Requests : ctx[p].key = k}
  <1>1. ctx' = [p \in Requests |->
                 IF ctx[p] # Absent /\ p \in S THEN [ctx[p] EXCEPT !.raced = TRUE] ELSE ctx[p]]
    BY DEF RevokeKey, Race
  <1>2. \A p \in Requests : ctx[p] \in Context /\ ctx[p].key = k => p \in S
    OBVIOUS
  <1>. HIDE DEF S
  <1>3. RacedOnly(S)
    BY <1>1, RaceFields
  <1>. USE DEF RacedOnly
  <1>4. now \in Times /\ now \in Nat /\ now < Never
    BY Clock DEF DecisionInv, TypeOK
  <1>5. keys[k] \in KeyRow
    BY DEF DecisionInv, TypeOK, RevokeKey
  <1>6. /\ keys' \in [Keys -> KeyRow \cup {Absent}]
        /\ keys'[k] \in KeyRow /\ keys'[k].status = "revoked"
        /\ \A l \in Keys \ {k} : keys'[l] = keys[l]
    <2>1. keys' = [keys EXCEPT ![k] = keys'[k]] /\ keys'[k] = [keys[k] EXCEPT !.status = "revoked"]
      BY DEF RevokeKey, purging, DecisionInv, TypeOK
    <2>2. keys'[k] \in KeyRow /\ keys'[k].status = "revoked"
      BY <1>5, <2>1 DEF KeyRow
    <2>. QED  BY <2>1, <2>2 DEF DecisionInv, TypeOK
  <1>7. /\ ended' \in [Keys -> Times \cup {Never}]
        /\ ended'[k] = IF ended[k] = Never THEN now ELSE ended[k]
        /\ \A l \in Keys \ {k} : ended'[l] = ended[l]
    BY <1>4 DEF RevokeKey, purging, DecisionInv, TypeOK
  <1>8. TypeOK'
    BY <1>3, <1>6, <1>7 DEF RevokeKey, purging, DecisionInv, TypeOK
  <1>9. KeysSound' /\ RightsSound'
    BY <1>6, <1>7, AbsentIsNothing DEF RevokeKey, purging, DecisionInv, KeysSound, RightsSound
  <1>10. ASSUME NEW p \in Requests PROVE RequestSound(p)'
    <2>1. pc'[p] = pc[p] /\ UNCHANGED <<rights>>
      BY DEF RevokeKey, purging
    <2>2. ctx[p] \in Context => ctx[p].key \in Keys \cup {Absent}
      BY DEF Context
    <2>3. ended'[k] # Never
      BY <1>4, <1>7
    <2>4. KeyInForce(p)'
      BY <1>2, <1>3, <1>6, <1>7, <1>10, <2>1, <2>2, <2>3 DEF DecisionInv, RequestSound, KeyInForce
    <2>5. RightsSeen(p)'
      BY <1>3, <1>10, <2>1 DEF DecisionInv, RequestSound, RightsSeen, Late, Identified
    <2>. QED  BY <1>3, <1>10, <2>1, <2>4, <2>5
              DEF DecisionInv, RequestSound, Early, Late, Identified
  <1>11. ASSUME NEW e \in Decisions PROVE EntrySound(e)'
    <2>1. cache[e] # Absent => cache[e].grant.key \in Keys \cup {Absent} /\ cache[e].cachedAt \in Nat
      BY DEF DecisionInv, TypeOK, Entry, Grant, Times
    <2>. QED  BY <1>4, <1>7, <1>11, <2>1 DEF DecisionInv, EntrySound, RevokeKey, purging
  <1>. QED  BY <1>8, <1>9, <1>10, <1>11 DEF DecisionInv

\* Rights change, or not, and decisions resting on what is gone are to be purged or not.
LEMMA RightsStepKeeps ==
  ASSUME DecisionInv, NEW s \in Subjects, ChangeRights(s) \/ MutateProfile(s)
  PROVE  DecisionInv'
  <1>1. UNCHANGED <<now, keys, cache, sessions, pc, answer, ended>>
    BY DEF ChangeRights, MutateProfile
  <1>2. /\ changes' \in 0..MaxChanges /\ pending' \subseteq Subjects /\ silent' \subseteq Subjects
        /\ pending \cup silent \cup {s} = pending' \cup silent' \cup {s}
        /\ s \in pending' \cup silent'
    BY ForwardAuthConstants DEF ChangeRights, MutateProfile, DecisionInv, TypeOK
  <1>3. now \in Times /\ now \in Nat /\ now < Never
    BY Clock DEF DecisionInv, TypeOK
  <1>4. CASE Flip(s)
    <2>1. ctx' = [p \in Requests |->
                   IF ctx[p] # Absent /\ p \in Requests THEN [ctx[p] EXCEPT !.raced = TRUE]
                   ELSE ctx[p]]
      BY <1>4 DEF Flip, Race
    <2>2. RacedOnly(Requests)
      BY <2>1, RaceFields
    <2>. USE DEF RacedOnly
    <2>3. /\ rights' \in [Subjects -> BOOLEAN] /\ withdrawn' \in [Subjects -> Times \cup {Never}]
          /\ \A u \in Subjects \ {s} : rights'[u] = rights[u] /\ withdrawn'[u] = withdrawn[u]
          /\ rights'[s] = ~rights[s]
          /\ withdrawn'[s] = IF rights[s] THEN now ELSE Never
      BY <1>3, <1>4 DEF Flip, DecisionInv, TypeOK
    <2>4. TypeOK'
      BY <1>1, <1>2, <2>2, <2>3 DEF DecisionInv, TypeOK
    <2>5. KeysSound' /\ RightsSound'
      BY <1>1, <2>3 DEF DecisionInv, TypeOK, KeysSound, RightsSound
    <2>6. ASSUME NEW p \in Requests PROVE RequestSound(p)'
      <3>1. KeyInForce(p)'
        BY <1>1, <2>2, <2>6 DEF DecisionInv, RequestSound, KeyInForce
      <3>2. RightsSeen(p)'
        BY <1>1, <2>2, <2>6 DEF DecisionInv, RequestSound, RightsSeen, Late, Identified
      <3>. QED  BY <1>1, <2>2, <2>6, <3>1, <3>2
                DEF DecisionInv, RequestSound, Early, Late, Identified
    <2>7. ASSUME NEW e \in Decisions PROVE EntrySound(e)'
      <3>. SUFFICES ASSUME cache[e] # Absent PROVE EntrySound(e)'
        BY <1>1 DEF EntrySound
      <3>1. cache[e].grant.about \subseteq Subjects /\ cache[e].cachedAt \in Nat
        BY DEF DecisionInv, TypeOK, Entry, Grant, Times
      <3>2. cache[e].cachedAt <= withdrawn'[s]
        <4>1. cache[e].cachedAt <= now
          BY <2>7 DEF DecisionInv, EntrySound
        <4>2. Never \in Nat
          BY ForwardAuthConstants DEF Never
        <4>. QED  BY <1>3, <2>3, <3>1, <4>1, <4>2
      <3>3. EntrySound(e)
        BY <2>7 DEF DecisionInv
      <3>4. ASSUME NEW u \in cache[e].grant.about, ~cache[e].grant.raced,
                   cache[e].grant.about \cap Users # {}
            PROVE  /\ cache[e].cachedAt <= withdrawn'[u]
                   /\ rights'[u] \/ u \in pending' \/ u \in silent'
        <4>1. CASE u = s
          BY <1>2, <3>2, <4>1, <3>4
        <4>2. CASE u # s
          BY <1>2, <2>3, <3>1, <3>3, <3>4, <4>2 DEF EntrySound
        <4>. QED  BY <4>1, <4>2
      <3>. QED  BY <1>1, <3>3, <3>4 DEF EntrySound
    <2>. QED  BY <2>4, <2>5, <2>6, <2>7 DEF DecisionInv
  <1>5. CASE UNCHANGED <<rights, withdrawn, ctx>>
    <2>1. TypeOK' /\ KeysSound' /\ RightsSound'
      BY <1>1, <1>2, <1>5 DEF DecisionInv, TypeOK, KeysSound, RightsSound
    <2>2. \A p \in Requests : RequestSound(p)'
      BY <1>1, <1>5 DEF DecisionInv, RequestSound, KeyInForce, RightsSeen
    <2>3. \A e \in Decisions : EntrySound(e)'
      BY <1>1, <1>2, <1>5 DEF DecisionInv, EntrySound
    <2>. QED  BY <2>1, <2>2, <2>3 DEF DecisionInv
  <1>. QED  BY <1>4, <1>5 DEF ChangeRights, MutateProfile

LEMMA PurgeDecisionsKeeps ==
  ASSUME DecisionInv, NEW s \in Subjects, PurgeDecisions(s)
  PROVE  DecisionInv'
  <1>1. cache' \in [Decisions -> Entry \cup {Absent}]
    BY DEF PurgeDecisions, DecisionInv, TypeOK
  <1>2. TypeOK'
    BY <1>1 DEF PurgeDecisions, DecisionInv, TypeOK
  <1>3. KeysSound' /\ RightsSound' /\ \A p \in Requests : RequestSound(p)'
    BY DEF PurgeDecisions, DecisionInv, KeysSound, RightsSound, RequestSound, KeyInForce, RightsSeen
  <1>4. ASSUME NEW e \in Decisions PROVE EntrySound(e)'
    <2>1. cache'[e] # Absent => cache'[e] = cache[e] /\ s \notin cache[e].grant.about
      BY DEF PurgeDecisions
    <2>2. UNCHANGED <<now, ended, rights, withdrawn, silent>> /\ pending' = pending \ {s}
      BY DEF PurgeDecisions
    <2>. QED  BY <1>4, <2>1, <2>2 DEF DecisionInv, EntrySound
  <1>. QED  BY <1>2, <1>3, <1>4 DEF DecisionInv

LEMMA DeleteSessionKeeps ==
  ASSUME DecisionInv, NEW u \in Users, DeleteSession(u)
  PROVE  DecisionInv'
  BY DEF DeleteSession, stores, purging, DecisionInv, TypeOK, KeysSound, RightsSound,
         RequestSound, KeyInForce, RightsSeen, EntrySound

LEMMA TickKeeps ==
  ASSUME DecisionInv, Tick
  PROVE  DecisionInv'
  <1>. DEFINE expiring == {k \in Keys : keys[k] # Absent /\ keys[k].expiresAt = now + 1}
              S == {p \in Requests : ctx[p].key \in expiring}
  <1>1. ctx' = [p \in Requests |->
                 IF ctx[p] # Absent /\ p \in S THEN [ctx[p] EXCEPT !.raced = TRUE] ELSE ctx[p]]
    BY DEF Tick, Race
  <1>2. ended' = [k \in Keys |->
                   IF k \in expiring /\ ended[k] = Never THEN now + 1 ELSE ended[k]]
    BY DEF Tick
  <1>3. \A p \in Requests : ctx[p].key \in expiring => p \in S
    OBVIOUS
  <1>4. \A k \in expiring : k \in Keys /\ keys[k] # Absent /\ keys[k].expiresAt = now + 1
    OBVIOUS
  <1>. HIDE DEF S, expiring
  <1>5. RacedOnly(S)
    BY <1>1, RaceFields
  <1>. USE DEF RacedOnly
  <1>6. now \in Nat /\ now' = now + 1 /\ now' \in Times /\ now' < Never
    BY Clock, ForwardAuthConstants DEF Tick, purging, DecisionInv, TypeOK, Times, Never
  <1>7. ended' \in [Keys -> Times \cup {Never}]
    BY <1>2, <1>6 DEF DecisionInv, TypeOK
  <1>8. TypeOK'
    BY <1>5, <1>6, <1>7 DEF Tick, purging, DecisionInv, TypeOK
  <1>9a. RightsSound'
    BY DEF Tick, purging, DecisionInv, RightsSound
  <1>9. KeysSound'
    <2>. SUFFICES ASSUME NEW k \in Keys, ended'[k] # Never
                  PROVE  keys[k] # Absent /\ (keys[k].status = "revoked" \/ keys[k].expiresAt <= now')
      BY DEF KeysSound, Tick
    <2>1. CASE ended[k] # Never
      <3>1. keys[k] # Absent /\ (keys[k].status = "revoked" \/ keys[k].expiresAt <= now)
        BY <2>1 DEF DecisionInv, KeysSound
      <3>2. keys[k] \in KeyRow
        BY <3>1 DEF DecisionInv, TypeOK
      <3>3. keys[k].expiresAt \in Nat
        BY <3>2, ForwardAuthConstants DEF KeyRow, Times, Never
      <3>. QED  BY <1>6, <3>1, <3>3
    <2>2. CASE ended[k] = Never
      BY <1>2, <1>4, <1>6, <2>2
    <2>. QED  BY <2>1, <2>2
  <1>10. ASSUME NEW p \in Requests PROVE RequestSound(p)'
    <2>1. pc'[p] = pc[p] /\ UNCHANGED <<keys, rights>>
      BY DEF Tick, purging
    <2>2. ctx[p] \in Context => ctx[p].key \in Keys \cup {Absent}
      BY DEF Context
    <2>3. \A k \in Keys : ended[k] # Never => ended'[k] # Never
      BY <1>2
    <2>4. \A k \in Keys : ended[k] = Never => ended'[k] = Never \/ k \in expiring
      BY <1>2
    <2>5. KeyInForce(p)'
      BY <1>3, <1>5, <1>10, <2>1, <2>2, <2>3, <2>4 DEF DecisionInv, RequestSound, KeyInForce
    <2>6. RightsSeen(p)'
      BY <1>5, <1>10, <2>1 DEF DecisionInv, RequestSound, RightsSeen, Late, Identified
    <2>. QED  BY <1>5, <1>10, <2>1, <2>5, <2>6
              DEF DecisionInv, RequestSound, Early, Late, Identified
  <1>11. ASSUME NEW e \in Decisions PROVE EntrySound(e)'
    <2>1. cache[e] # Absent => cache[e].grant.key \in Keys \cup {Absent} /\ cache[e].cachedAt \in Nat
      BY DEF DecisionInv, TypeOK, Entry, Grant, Times
    <2>2. UNCHANGED <<cache, rights, withdrawn, pending, silent>>
      BY DEF Tick, purging
    <2>3. \A k \in Keys : ended'[k] \in {ended[k], now + 1}
      BY <1>2
    <2>. QED  BY <1>6, <1>11, <2>1, <2>2, <2>3 DEF DecisionInv, EntrySound
  <1>. QED  BY <1>8, <1>9, <1>9a, <1>10, <1>11 DEF DecisionInv

--------------------------------------------------------------------------------
LEMMA NextKeeps == DecisionInv /\ [Next]_vars => DecisionInv'
  <1>. SUFFICES ASSUME DecisionInv, [Next]_vars PROVE DecisionInv'
    OBVIOUS
  <1>1. CASE UNCHANGED vars
    BY <1>1
       DEF vars, purging, DecisionInv, TypeOK, KeysSound, RightsSound, RequestSound, KeyInForce,
          RightsSeen, EntrySound
  <1>2. CASE Next
    BY <1>2, ArriveKeeps, HandleStepKeeps, IssueKeyKeeps, RevokeKeyKeeps, DeleteSessionKeeps,
       RightsStepKeeps, PurgeDecisionsKeeps, TickKeeps DEF Next
  <1>. QED  BY <1>1, <1>2

\* The invariant of the decision point: what its requests and its cache know of keys
\* and rights (every handler of ForwardAuthService and the stores around it).
THEOREM DecisionInvHolds == Spec => []DecisionInv
  BY InitSound, NextKeeps, PTL DEF Spec

\* Every reachable state of the decision point is well typed.
THEOREM DecisionTypes == Spec => []TypeOK
  <1>1. DecisionInv => TypeOK
    BY DEF DecisionInv
  <1>. QED  BY <1>1, DecisionInvHolds, PTL

\* Where a request is granted: at the cache, or after the policy.
LEMMA GrantedWhere ==
  ASSUME DecisionInv, Next, NEW q \in Requests, Granting(q)
  PROVE  (Hit(q) /\ Cached(q)) \/ (pc[q] \in {"policy", "fill"} /\ ctx[q].allowed)
  <1>1. PICK p \in Requests : Handle(p)
    BY DEF Next, Granting, Arrive, IssueKey, RevokeKey, DeleteSession, ChangeRights,
           MutateProfile, PurgeDecisions, Tick
  <1>2. CASE p = q
    <2>1. ~Refuse(q)
      BY DEF Refuse, Answer, Granting, DecisionInv, TypeOK
    <2>2. pc[q] = "fill" => ctx[q].allowed
      BY DEF DecisionInv, RequestSound, RightsSeen
    <2>. QED  BY <1>1, <1>2, <2>1, <2>2
              DEF Handle, ResolveCachedDecision, ValidateAccessToken, FindKey, BuildIdentity,
                  GetSession, TouchSession, CreateSession, FallbackTouch, SessionStoreFails,
                  Evaluate, CacheDecision, CallFails, Granting, Hit
  <1>3. CASE p # q
    <2>1. answer'[q] = answer[q]
      BY <1>1, <1>3
         DEF Handle, ResolveCachedDecision, ValidateAccessToken, FindKey, BuildIdentity,
             GetSession, TouchSession, CreateSession, FallbackTouch, SessionStoreFails,
             Evaluate, CacheDecision, CallFails, Refuse, Answer, DecisionInv, TypeOK
    <2>. QED  BY <2>1 DEF Granting
  <1>. QED  BY <1>2, <1>3

\* A request is granted anew on an API key only if the key was in force at some time
\* since it came in (isKeyActive before every later step of handle).
THEOREM GrantsRestOnKeys == Spec => GrantNeedsValidKey
  <1>1. DecisionInv /\ [Next]_vars =>
          [\A q \in Requests : Granting(q) /\ ~Hit(q) => ctx[q].valid]_vars
    <2>. SUFFICES ASSUME DecisionInv, Next, NEW q \in Requests, Granting(q), ~Hit(q)
                  PROVE  ctx[q].valid
      OBVIOUS
    <2>1. pc[q] \in {"policy", "fill"}
      BY GrantedWhere
    <2>. QED  BY <2>1 DEF DecisionInv, RequestSound, KeyInForce, Late, Identified
  <1>. QED  BY <1>1, DecisionInvHolds, PTL DEF Spec, GrantNeedsValidKey

\* An ended key lets nothing through for longer than a cached decision lives
\* (decisionTtlSeconds of maybeCacheDecision).
THEOREM EndedKeysFadeOut == Spec => EndedKeyFadesOut
  <1>1. DecisionInv /\ [Next]_vars =>
          [\A q \in Requests : Granting(q) =>
             LET g == Basis(q) IN
             g.key # Absent => g.raced \/ now < ended[g.key] + Ttl]_vars
    <2>. SUFFICES ASSUME DecisionInv, Next, NEW q \in Requests, Granting(q),
                         Basis(q).key # Absent, ~Basis(q).raced
                  PROVE  now < ended[Basis(q).key] + Ttl
      OBVIOUS
    <2>1. now \in Nat /\ now < Never /\ Never \in Nat
      BY Clock, ForwardAuthConstants DEF DecisionInv, TypeOK, Never
    <2>2. CASE Hit(q) /\ Cached(q)
      <3>. DEFINE d == ctx[q].decision
      <3>1. ctx[q] \in Context /\ d \in Decisions /\ cache[d] # Absent
        BY <2>2 DEF Hit, Cached, Live, DecisionInv, RequestSound, Early, Context
      <3>2. cache[d] \in Entry /\ EntrySound(d)
        BY <3>1 DEF DecisionInv, TypeOK
      <3>3. Basis(q) = cache[d].grant
        BY <2>2 DEF Basis
      <3>4. cache[d].cachedAt \in Nat /\ cache[d].grant.key \in Keys
        BY <3>2, <3>3 DEF Entry, Grant, Times
      <3>5. ended[cache[d].grant.key] \in Nat
        BY <3>4, <2>1 DEF DecisionInv, TypeOK, Times
      <3>6. now < cache[d].cachedAt + Ttl
        BY <2>2 DEF Cached, Live
      <3>7. cache[d].cachedAt <= ended[cache[d].grant.key]
        BY <3>1, <3>2, <3>3 DEF EntrySound
      <3>. QED  BY <2>1, <3>3, <3>4, <3>5, <3>6, <3>7, ForwardAuthConstants
    <2>3. CASE pc[q] \in {"policy", "fill"}
      <3>1. Basis(q) = GrantOf(q)
        BY <2>3 DEF Basis, Hit
      <3>2. ctx[q].key # Absent /\ ~ctx[q].raced
        BY <3>1 DEF GrantOf
      <3>3. ended[ctx[q].key] = Never
        BY <2>3, <3>2 DEF DecisionInv, RequestSound, KeyInForce, Late, Identified
      <3>. QED  BY <2>1, <3>1, <3>3, ForwardAuthConstants DEF GrantOf
    <2>. QED  BY <2>2, <2>3, GrantedWhere
  <1>. QED  BY <1>1, DecisionInvHolds, PTL DEF Spec, EndedKeyFadesOut

\* Rights that are gone let nobody through for longer than a cached decision lives, nor
\* after the purge where one follows (the tags and decisionTtlSeconds of
\* maybeCacheDecision, the purges of PostgresCacheInvalidator).
THEOREM WithdrawnRightsFadeOut == Spec => WithdrawnRightFadesOut
  <1>1. DecisionInv /\ [Next]_vars =>
          [\A q \in Requests : Granting(q) =>
             LET g == Basis(q) IN
             ~g.raced /\ g.about \cap Users # {} =>
               \A s \in g.about :
                 /\ now < withdrawn[s] + Ttl
                 /\ rights[s] \/ s \in pending \/ s \in silent]_vars
    <2>. SUFFICES ASSUME DecisionInv, Next, NEW q \in Requests, Granting(q),
                         ~Basis(q).raced, Basis(q).about \cap Users # {},
                         NEW s \in Basis(q).about
                  PROVE  /\ now < withdrawn[s] + Ttl
                         /\ rights[s] \/ s \in pending \/ s \in silent
      OBVIOUS
    <2>1. now \in Nat /\ now < Never /\ Never \in Nat
      BY Clock, ForwardAuthConstants DEF DecisionInv, TypeOK, Never
    <2>2. CASE Hit(q) /\ Cached(q)
      <3>. DEFINE d == ctx[q].decision
      <3>1. ctx[q] \in Context /\ d \in Decisions /\ cache[d] # Absent
        BY <2>2 DEF Hit, Cached, Live, DecisionInv, RequestSound, Early, Context
      <3>2. cache[d] \in Entry /\ EntrySound(d)
        BY <3>1 DEF DecisionInv, TypeOK
      <3>3. Basis(q) = cache[d].grant
        BY <2>2 DEF Basis
      <3>4. cache[d].cachedAt \in Nat /\ s \in Subjects
        BY <3>2, <3>3 DEF Entry, Grant, Times
      <3>5. withdrawn[s] \in Nat
        BY <3>4, <2>1 DEF DecisionInv, TypeOK, Times
      <3>6. now < cache[d].cachedAt + Ttl
        BY <2>2 DEF Cached, Live
      <3>7. /\ cache[d].cachedAt <= withdrawn[s]
            /\ rights[s] \/ s \in pending \/ s \in silent
        BY <3>1, <3>2, <3>3 DEF EntrySound
      <3>. QED  BY <2>1, <3>4, <3>5, <3>6, <3>7, ForwardAuthConstants
    <2>3. CASE pc[q] \in {"policy", "fill"} /\ ctx[q].allowed
      <3>1. Basis(q) = GrantOf(q)
        BY <2>3 DEF Basis, Hit
      <3>2. ~ctx[q].raced /\ ctx[q].about \cap Users # {} /\ s \in ctx[q].about
        BY <3>1 DEF GrantOf
      <3>3. rights[s]
        BY <2>3, <3>2 DEF DecisionInv, RequestSound, RightsSeen, Identified
      <3>4. s \in Subjects
        BY <2>3, <3>2 DEF DecisionInv, RequestSound, Late, Identified, Context
      <3>5. withdrawn[s] = Never
        BY <3>3, <3>4 DEF DecisionInv, RightsSound
      <3>. QED  BY <2>1, <3>3, <3>5, ForwardAuthConstants
    <2>. QED  BY <2>2, <2>3, GrantedWhere
  <1>. QED  BY <1>1, DecisionInvHolds, PTL DEF Spec, WithdrawnRightFadesOut

\* A request leaves the session step from a touch that found the row or from a create.
LEMMA LeavesOnRecord ==
  ASSUME DecisionInv, Next, NEW q \in Requests, pc[q] \in {"touch", "create"}, pc'[q] = "policy"
  PROVE  ctx[q].user \in sessions'
  <1>1. PICK p \in Requests : Arrive(p) \/ Handle(p)
    BY DEF Next, IssueKey, RevokeKey, DeleteSession, ChangeRights, MutateProfile,
         PurgeDecisions, Tick
  <1>2. p = q
    BY <1>1 DEF Arrive, Handle, ResolveCachedDecision, ValidateAccessToken, FindKey, BuildIdentity,
                GetSession, TouchSession, CreateSession, FallbackTouch, SessionStoreFails,
                Evaluate, CacheDecision, CallFails, Refuse, Answer, To, DecisionInv, TypeOK
  <1>3. CASE TouchSession(q)
    BY <1>3 DEF TouchSession, To, DecisionInv, TypeOK
  <1>4. CASE CreateSession(q)
    BY <1>4 DEF CreateSession
  <1>5. CASE SessionStoreFails(q)
    BY <1>5 DEF SessionStoreFails, To, DecisionInv, TypeOK
  <1>. QED
    BY <1>1, <1>2, <1>3, <1>4, <1>5
       DEF Arrive, Handle, ResolveCachedDecision, ValidateAccessToken, FindKey, BuildIdentity,
           GetSession, FallbackTouch, Evaluate, CacheDecision, CallFails

\* A session that was deleted between two calls of the step is on record when the step is
\* left, unless the store failed (ensureSessionRecord).
THEOREM SessionsOnRecord == Spec => SessionOnRecord
  <1>1. DecisionInv /\ [Next]_vars =>
          [\A q \in Requests :
             pc[q] \in {"touch", "create"} /\ pc'[q] = "policy" => ctx[q].user \in sessions']_vars
    BY LeavesOnRecord
  <1>. QED  BY <1>1, DecisionInvHolds, PTL DEF Spec, SessionOnRecord
================================================================================
