------------------------------ MODULE ForwardAuth ------------------------------
(***************************************************************************)
(* The forward-auth decision point: ForwardAuthService.handle over a key   *)
(* store, a session store, a decision cache, an identity provider and a    *)
(* policy engine, while keys are issued and revoked, rights change, caches *)
(* are purged and time passes.                                             *)
(*                                                                         *)
(* Each awaited call of handle is one action.  A request carries a         *)
(* decision JWT, an API key, an access token, or none of them.  Identity   *)
(* provider and policy are external: what they say about a user, alone or  *)
(* in an organisation, is `rights`, read when the identity is built.  A    *)
(* change there purges nothing; only mutations of the profile store that   *)
(* the policy may read, and of entitlements, are followed by a purge.  Any *)
(* of the awaited calls may fail.  Time is counted in ticks.               *)
(*                                                                         *)
(* A session row is reduced to its existence, and recordKeyUsage left out: *)
(* nothing in handle reads what it writes and its errors are only logged.  *)
(* A group tag is treated like that of an organisation.                    *)
(***************************************************************************)
EXTENDS Integers, FiniteSets

CONSTANTS
  Requests,    \* requests, each handled once
  Users, Orgs, \* subjects whose rights may change
  Keys,        \* API keys
  Services,    \* owners of keys that are neither users nor organisations
  Decisions,   \* decision JWTs the policy engine may mint
  Ttl,         \* decisionCacheTtlSeconds, in ticks
  MaxTime,     \* bound on the clock
  MaxChanges,  \* bound: changes of rights and mutations of profiles
  Absent

Subjects == Users \cup Orgs
Owners == Subjects \cup Services
Times == 0..MaxTime
Never == MaxTime + 1   \* no expiry, or not ended within the bound

ASSUME ForwardAuthConstants ==
  /\ Ttl \in Nat \ {0}
  /\ MaxTime \in Nat
  /\ MaxChanges \in Nat
  /\ Absent \notin Subjects \cup Keys \cup Decisions
  /\ Users \cap Orgs = {}

VARIABLES
  now,       \* the clock
  keys,      \* the key store: key -> row or Absent
  rights,    \* what identity provider and policy grant: subject -> BOOLEAN
  pending,   \* subjects mutated whose decisions are still to be purged
  cache,     \* the decision cache: JWT -> entry or Absent
  sessions,  \* the session store: users whose session is on record
  pc,        \* where each request is, between two awaits
  ctx,       \* what each request carries and has found out, or Absent
  answer,    \* how each request was answered
  ended,     \* history: when each key was revoked or expired
  withdrawn, \* history: since when each subject has had no rights, or Never
  silent,    \* history: subjects changed with no purge to follow, nor since
  changes    \* history: changes of rights and mutations

purging == <<rights, pending, withdrawn, silent, changes>>
vars == <<now, keys, purging, cache, sessions, pc, ctx, answer, ended>>
stores == <<now, keys, purging, cache, ended>>

KeyRow ==
  [owner : Owners, status : {"active", "revoked"}, expiresAt : Times \cup {Never}]

\* key: the API key it rests on, or Absent.  about: the subjects of its tags.
\* raced: rights changed, or the key ended, while its request was under way.
Grant == [key : Keys \cup {Absent}, about : SUBSET Subjects, raced : BOOLEAN]
Entry == [grant : Grant, cachedAt : Times]

Context ==
  [decision : Decisions \cup {Absent}, key : Keys \cup {Absent},
   user : Users \cup {Absent}, org : Orgs \cup {Absent},
   about : SUBSET Subjects, allowed : BOOLEAN,
   valid : BOOLEAN, raced : BOOLEAN]

ASSUME AbsentIsNothing == Absent \notin KeyRow \cup Entry \cup Context

Places ==
  {"new", "lookup", "validate", "findKey", "identity", "session", "touch",
   "create", "fallback", "policy", "fill", "done"}

TypeOK ==
  /\ now \in Times
  /\ keys \in [Keys -> KeyRow \cup {Absent}]
  /\ rights \in [Subjects -> BOOLEAN]
  /\ pending \subseteq Subjects
  /\ cache \in [Decisions -> Entry \cup {Absent}]
  /\ sessions \subseteq Users
  /\ pc \in [Requests -> Places]
  /\ ctx \in [Requests -> Context \cup {Absent}]
  /\ answer \in [Requests -> {"none", "granted", "refused"}]
  /\ ended \in [Keys -> Times \cup {Never}]
  /\ withdrawn \in [Subjects -> Times \cup {Never}]
  /\ silent \subseteq Subjects
  /\ changes \in 0..MaxChanges

--------------------------------------------------------------------------------
\* Mutant: an expired key still counts as active.
UsableUnlessRevoked(k) == keys[k] # Absent /\ keys[k].status = "active"

\* resolveStatus and isKeyActive agree: not revoked, and not expired yet.
Usable(k) ==
  /\ keys[k] # Absent
  /\ keys[k].status = "active"
  /\ now < keys[k].expiresAt

\* Mutant: the cache keeps decisions for good.
LiveForGood(d) == cache[d] # Absent

\* An entry lives decisionTtlSeconds from the moment it was set.
Live(d) == cache[d] # Absent /\ now < cache[d].cachedAt + Ttl

To(q, place) == pc' = [pc EXCEPT ![q] = place]

Answer(q, how) ==
  /\ To(q, "done")
  /\ answer' = [answer EXCEPT ![q] = how]
  /\ ctx' = [ctx EXCEPT ![q] = Absent]

\* 401, 403, 500 and 502, and the promise that rejects.
Refuse(q) == Answer(q, "refused") /\ UNCHANGED <<stores, sessions>>

--------------------------------------------------------------------------------
(* handle.                                                                 *)

\* The headers of a request: an API key comes before an access token.  Whether
\* the key is in force is kept as history.
Credentials ==
  {[key |-> k, user |-> Absent] : k \in Keys}
    \cup {[key |-> Absent, user |-> u] : u \in Users \cup {Absent}}

Arrive(q) ==
  /\ pc[q] = "new"
  /\ \E d \in Decisions \cup {Absent}, o \in Orgs \cup {Absent}, c \in Credentials :
       ctx' = [ctx EXCEPT ![q] =
         [decision |-> d, key |-> c.key, user |-> c.user, org |-> o,
          about |-> {}, allowed |-> FALSE, raced |-> FALSE,
          valid |-> IF c.key = Absent THEN TRUE
                    ELSE keys[c.key] # Absent /\ ended[c.key] = Never]]
  /\ To(q, "lookup")
  /\ UNCHANGED <<stores, sessions, answer>>

Cached(q) == ctx[q].decision # Absent /\ Live(ctx[q].decision)

\* tryResolveCachedDecision, then extractCredentials.
ResolveCachedDecision(q) ==
  /\ pc[q] = "lookup"
  /\ \/ Cached(q) /\ Answer(q, "granted") /\ UNCHANGED <<stores, sessions>>
     \/ ~Cached(q) /\ ctx[q].key = Absent /\ ctx[q].user = Absent /\ Refuse(q)
     \/ /\ ~Cached(q)
        /\ ctx[q].key # Absent \/ ctx[q].user # Absent
        /\ To(q, IF ctx[q].key # Absent THEN "findKey" ELSE "validate")
        /\ ctx' = [ctx EXCEPT ![q].decision = Absent]
        /\ UNCHANGED <<stores, sessions, answer>>

\* The identity provider finds the token active, or not.
ValidateAccessToken(q) ==
  /\ pc[q] = "validate"
  /\ \/ To(q, "identity") /\ UNCHANGED <<stores, sessions, ctx, answer>>
     \/ Refuse(q)

\* Whom the tags of a decision name.
About(user, org) == {user, org} \ {Absent}

\* getKeyByHash and isKeyActive.  A key of an organisation or a service gets an
\* identity of its own making (buildSyntheticIdentityForKey): no session, and the
\* key's or the asked-for organisation; what the policy says to it does not depend
\* on any rights.
FindKey(q) ==
  /\ pc[q] = "findKey"
  /\ LET k == ctx[q].key IN
     \/ ~Usable(k) /\ Refuse(q)
     \/ /\ Usable(k)
        /\ keys[k].owner \in Users
        /\ ctx' = [ctx EXCEPT ![q].user = keys[k].owner]
        /\ To(q, "identity")
        /\ UNCHANGED <<stores, sessions, answer>>
     \/ /\ Usable(k)
        /\ keys[k].owner \notin Users
        /\ \E allowed \in BOOLEAN :
             ctx' = [ctx EXCEPT
               ![q].about = About(Absent, IF keys[k].owner \in Orgs THEN keys[k].owner
                                          ELSE ctx[q].org),
               ![q].org = Absent,
               ![q].allowed = allowed]
        /\ To(q, "policy")
        /\ UNCHANGED <<stores, sessions, answer>>

\* buildEffectiveIdentity: the rights of the user, and in the organisation, now.
\* The identity may or may not name a session.
BuildIdentity(q) ==
  /\ pc[q] = "identity"
  /\ LET about == About(ctx[q].user, ctx[q].org) IN
     ctx' = [ctx EXCEPT ![q].about = about,
                        ![q].allowed = \A s \in about : rights[s],
                        ![q].org = Absent]
  /\ \E place \in {"session", "policy"} : To(q, place)
  /\ UNCHANGED <<stores, sessions, answer>>

--------------------------------------------------------------------------------
(* ensureSessionRecord never throws.                                       *)

GetSession(q) ==
  /\ pc[q] = "session"
  /\ To(q, IF ctx[q].user \in sessions THEN "touch" ELSE "create")
  /\ UNCHANGED <<stores, sessions, ctx, answer>>

\* Mutant: a session that cannot be touched is not created.
TouchSessionOnly(q) ==
  /\ pc[q] = "touch"
  /\ To(q, "policy")
  /\ UNCHANGED <<stores, sessions, ctx, answer>>

\* A row that has been deleted since makes touchSession throw: it is created anew.
TouchSession(q) ==
  /\ pc[q] = "touch"
  /\ To(q, IF ctx[q].user \in sessions THEN "policy" ELSE "create")
  /\ UNCHANGED <<stores, sessions, ctx, answer>>

\* listActiveSessions, for what it knows of the session, and createSession, an
\* upsert.
CreateSession(q) ==
  /\ pc[q] = "create"
  /\ sessions' = sessions \cup {ctx[q].user}
  /\ To(q, "policy")
  /\ UNCHANGED <<stores, ctx, answer>>

\* A call of the session store fails, which leads to the next thing to try.
SessionStoreFails(q) ==
  /\ \/ pc[q] \in {"session", "touch"} /\ To(q, "create")
     \/ pc[q] = "create" /\ To(q, "fallback")
     \/ pc[q] = "fallback" /\ To(q, "policy")
  /\ UNCHANGED <<stores, sessions, ctx, answer>>

\* A last touchSession, which changes at most the row that is there.
FallbackTouch(q) ==
  /\ pc[q] = "fallback"
  /\ To(q, "policy")
  /\ UNCHANGED <<stores, sessions, ctx, answer>>

--------------------------------------------------------------------------------
GrantOf(q) ==
  [key |-> ctx[q].key, about |-> ctx[q].about, raced |-> ctx[q].raced]

\* policyEngine.evaluate on the identity that was built: an allowing decision may
\* carry a JWT, and only then is there something to cache.
Evaluate(q) ==
  /\ pc[q] = "policy"
  /\ \/ ~ctx[q].allowed /\ Refuse(q)
     \/ ctx[q].allowed /\ Answer(q, "granted") /\ UNCHANGED <<stores, sessions>>
     \/ ctx[q].allowed /\ To(q, "fill") /\ UNCHANGED <<stores, sessions, ctx, answer>>

\* maybeCacheDecision under the tags of the user and the organisation, with a JWT
\* of its own.  If the audit log rejects after that, so does the request.
CacheDecision(q) ==
  /\ pc[q] = "fill"
  /\ \E d \in Decisions :
       /\ ~Live(d)
       /\ cache' = [cache EXCEPT ![d] = [grant |-> GrantOf(q), cachedAt |-> now]]
  /\ \E how \in {"granted", "refused"} : Answer(q, how)
  /\ UNCHANGED <<now, keys, purging, sessions, ended>>

\* The cache, the identity provider, the key store or the policy engine fails.
CallFails(q) ==
  /\ \/ pc[q] \in {"validate", "findKey", "identity", "policy", "fill"}
     \/ pc[q] = "lookup" /\ ctx[q].decision # Absent
  /\ Refuse(q)

Handle(q) ==
  \/ ResolveCachedDecision(q) \/ ValidateAccessToken(q) \/ FindKey(q)
  \/ BuildIdentity(q)
  \/ GetSession(q) \/ TouchSession(q) \/ CreateSession(q) \/ FallbackTouch(q)
  \/ SessionStoreFails(q)
  \/ Evaluate(q) \/ CacheDecision(q) \/ CallFails(q)

--------------------------------------------------------------------------------
(* What goes on around the service.                                        *)

\* Requests under way for which P holds remember that they were raced.
Race(P(_)) ==
  ctx' = [q \in Requests |->
    IF ctx[q] # Absent /\ P(q) THEN [ctx[q] EXCEPT !.raced = TRUE] ELSE ctx[q]]

\* issueKey of either key store.  (A key issued expired is never in force.)
IssueKey(k) ==
  /\ keys[k] = Absent
  /\ \E owner \in Owners, expiresAt \in (now + 1)..Never :
       keys' = [keys EXCEPT ![k] =
         [owner |-> owner, status |-> "active", expiresAt |-> expiresAt]]
  /\ ctx' = [q \in Requests |->
       IF ctx[q] # Absent /\ ctx[q].key = k THEN [ctx[q] EXCEPT !.valid = TRUE]
       ELSE ctx[q]]
  /\ UNCHANGED <<now, purging, cache, sessions, pc, answer, ended>>

\* revokeKey of either store.  The decisions that rest on the key stay cached.
RevokeKey(k) ==
  /\ keys[k] # Absent
  /\ keys[k].status = "active"
  /\ keys' = [keys EXCEPT ![k].status = "revoked"]
  /\ ended' = [ended EXCEPT ![k] = IF @ = Never THEN now ELSE @]
  /\ Race(LAMBDA q : ctx[q].key = k)
  /\ UNCHANGED <<now, purging, cache, sessions, pc, answer>>

\* s gains or loses its rights.
Flip(s) ==
  /\ rights' = [rights EXCEPT ![s] = ~@]
  /\ withdrawn' = [withdrawn EXCEPT ![s] = IF rights[s] THEN now ELSE Never]
  /\ Race(LAMBDA q : TRUE)

\* The identity provider, or the policy, changes what a user, or anybody in an
\* organisation, may do.  Nobody tells the decision cache.
ChangeRights(s) ==
  /\ changes < MaxChanges
  /\ changes' = changes + 1
  /\ Flip(s)
  /\ silent' = silent \cup {s}
  /\ UNCHANGED <<now, keys, pending, cache, sessions, pc, answer, ended>>

\* A mutation of the profile store or of entitlements in Postgres, which the policy
\* may read: the row is written, and a purge of the decision cache follows.
MutateProfile(s) ==
  /\ changes < MaxChanges
  /\ changes' = changes + 1
  /\ Flip(s) \/ UNCHANGED <<rights, withdrawn, ctx>>
  /\ pending' = pending \cup {s}
  /\ silent' = silent \ {s}
  /\ UNCHANGED <<now, keys, cache, sessions, pc, answer, ended>>

\* Mutant: decisions are purged by the user's tag only.
PurgeUsersOnly(s) ==
  /\ s \in pending
  /\ pending' = pending \ {s}
  /\ cache' = [d \in Decisions |->
                 IF cache[d] # Absent /\ s \in cache[d].grant.about /\ s \in Users
                 THEN Absent ELSE cache[d]]
  /\ UNCHANGED <<now, keys, rights, withdrawn, silent, sessions, pc, ctx, answer, ended, changes>>

\* PostgresCacheInvalidator: purgeByTag of decision:user or decision:org.  For the
\* entitlement of a membership it has no tag here and clears the whole cache.
PurgeDecisions(s) ==
  /\ s \in pending
  /\ pending' = pending \ {s}
  /\ \E whole \in BOOLEAN :
       cache' = [d \in Decisions |->
                   IF whole \/ (cache[d] # Absent /\ s \in cache[d].grant.about)
                   THEN Absent ELSE cache[d]]
  /\ UNCHANGED <<now, keys, rights, withdrawn, silent, sessions, pc, ctx, answer, ended, changes>>

\* deleteSession of either session store.
DeleteSession(u) ==
  /\ u \in sessions
  /\ sessions' = sessions \ {u}
  /\ UNCHANGED <<stores, pc, ctx, answer>>

\* The clock ticks; keys may expire.
Tick ==
  /\ now < MaxTime
  /\ now' = now + 1
  /\ LET expiring == {k \in Keys : keys[k] # Absent /\ keys[k].expiresAt = now + 1} IN
     /\ ended' = [k \in Keys |->
                    IF k \in expiring /\ ended[k] = Never THEN now + 1 ELSE ended[k]]
     /\ Race(LAMBDA q : ctx[q].key \in expiring)
  /\ UNCHANGED <<keys, purging, cache, sessions, pc, answer>>

--------------------------------------------------------------------------------
Init ==
  /\ now = 0
  /\ keys = [k \in Keys |-> Absent]
  /\ rights \in [Subjects -> BOOLEAN]
  /\ pending = {}
  /\ cache = [d \in Decisions |-> Absent]
  /\ sessions = {}
  /\ pc = [q \in Requests |-> "new"]
  /\ ctx = [q \in Requests |-> Absent]
  /\ answer = [q \in Requests |-> "none"]
  /\ ended = [k \in Keys |-> Never]
  /\ withdrawn = [s \in Subjects |-> IF rights[s] THEN Never ELSE 0]
  /\ silent = {}
  /\ changes = 0

Next ==
  \/ \E q \in Requests : Arrive(q) \/ Handle(q)
  \/ \E k \in Keys : IssueKey(k) \/ RevokeKey(k)
  \/ \E u \in Users : DeleteSession(u)
  \/ \E s \in Subjects : ChangeRights(s) \/ MutateProfile(s) \/ PurgeDecisions(s)
  \/ Tick

Spec == Init /\ [][Next]_vars

--------------------------------------------------------------------------------
\* The step answers q with 200, from the cache or after an evaluation.
Granting(q) == answer[q] = "none" /\ answer'[q] = "granted"
Hit(q) == pc[q] = "lookup"

\* An uncached request is granted on the strength of an API key only if the key
\* was in force at some time since the request came in, however its revocation,
\* its expiry and the request's own steps interleave.
GrantNeedsValidKey ==
  [][\A q \in Requests : Granting(q) /\ ~Hit(q) => ctx[q].valid]_vars

\* What a 200 rests on.
Basis(q) == IF Hit(q) THEN cache[ctx[q].decision].grant ELSE GrantOf(q)

\* A revoked or expired key lets nothing through for longer than a decision lives:
\* every later grant comes from a request that was under way when the key ended.
\* (Revoking a key does not purge the decisions made for it.)
EndedKeyFadesOut ==
  [][\A q \in Requests : Granting(q) =>
       LET g == Basis(q) IN
       g.key # Absent => g.raced \/ now < ended[g.key] + Ttl]_vars

\* A right that is gone lets nothing through for longer than a decision lives, and
\* once the purge that follows a mutation is done not even for that long: every later
\* grant to a user, alone or in an organisation, comes from a request that was under
\* way at some change.  What the identity provider and the policy change by
\* themselves is purged by nobody; there the lifetime is all there is.
WithdrawnRightFadesOut ==
  [][\A q \in Requests : Granting(q) =>
       LET g == Basis(q) IN
       ~g.raced /\ g.about \cap Users # {} =>
         \A s \in g.about :
           /\ now < withdrawn[s] + Ttl
           /\ rights[s] \/ s \in pending \/ s \in silent]_vars

\* "The service automatically upserts session activity": a request leaves the
\* session step with its session on record, even if the row is deleted between two
\* calls of the step, unless the store failed to create it.
SessionOnRecord ==
  [][\A q \in Requests :
       pc[q] \in {"touch", "create"} /\ pc'[q] = "policy" => ctx[q].user \in sessions']_vars
================================================================================
