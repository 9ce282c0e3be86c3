---------------------------- MODULE AuthentikClient ----------------------------
(***************************************************************************)
(* The Authentik client: the requests a call sends, what it makes of their *)
(* answers, and the effective identity it builds of three of them while    *)
(* groups, sessions and tokens change in Authentik.                        *)
(*                                                                         *)
(* A result is a pair of a kind and an HTTP status (0 where there is       *)
(* none); <<"ok", 200>> goes with the values the call then holds.  All     *)
(* requests are about one user and one access token.                       *)
(***************************************************************************)
EXTENDS Integers, FiniteSets

CONSTANTS
  Groups,      \* groups of the user in Authentik
  Sessions,    \* sessions of the user in Authentik
  Statuses,    \* HTTP statuses other than 2xx
  MaxChanges,  \* bound: changes in Authentik
  None         \* no call, no result

Operations == {"exchange", "refresh", "validate", "profile", "sessions", "identity"}

ASSUME ClientConstants ==
  /\ Statuses \subseteq Nat \ (200..299)
  /\ MaxChanges \in Nat
  /\ None \notin Groups \cup Sessions \cup Operations

VARIABLES
  active,     \* Authentik: the access token is active
  memberOf,   \* Authentik: the groups of the user
  alive,      \* Authentik: the sessions of the user
  changes,    \* history: changes in Authentik
  op,         \* the operation in progress, or None
  pending,    \* the requests it waits for
  seen,       \* request -> result, or None
  valid,      \* the introspection's answer: active, with a subject
  profiled,   \* the groups the profile names
  grouped,    \* the groups listed
  listed,     \* the sessions listed
  held,       \* history: groups the user had at some time of the call for an identity
  kept        \* history: groups the user had all the time

authentik == <<active, memberOf, alive, changes>>
answers == <<seen, valid, profiled, grouped, listed>>
clientVars == <<authentik, op, pending, answers, held, kept>>

Requests == {"token", "introspect", "profile", "sessions", "groups"}
Ok == <<"ok", 200>>

ClientInit ==
  /\ active \in BOOLEAN
  /\ memberOf \in SUBSET Groups
  /\ alive = Sessions
  /\ changes = 0
  /\ op = None
  /\ pending = {}
  /\ seen = [r \in Requests |-> None]
  /\ valid = FALSE
  /\ profiled = {} /\ grouped = {} /\ listed = {}
  /\ held = {} /\ kept = {}

--------------------------------------------------------------------------------
(* Answers.  A body is a JSON object with every field, one without those   *)
(* that matter, a list, nothing, or no JSON; a profile may name no groups. *)

Bodies == {"full", "bare", "partial", "list", "empty", "garbage"}
NamesNothing == {"bare", "partial", "empty", "garbage"}

Malformed(r, body) ==
  \/ body = "garbage" /\ r # "sessions"
  \/ body \in {"list", "empty"} /\ r \in {"token", "introspect", "profile"}

Incomplete(r, body) == body = "partial" /\ r \in {"token", "profile"}

\* The requests to the API of Authentik need an admin token.
NeedsAdminToken(r) == r \in {"profile", "sessions", "groups"}

ResultOf(r, body) ==
  IF Malformed(r, body) THEN <<"parse", 0>>
  ELSE IF Incomplete(r, body) THEN <<"incomplete", 0>> ELSE Ok

\* Mutant: any failed listing of groups is made up for by the profile.
AnyFailure(result) == TRUE

\* No access to the groups: those of the profile have to do.
Tolerated(result) == result \in {<<"status", 403>>, <<"status", 404>>}

Outcome ==
  CASE op = "validate" -> seen["introspect"]
    [] op \in {"exchange", "refresh"} -> seen["token"]
    [] op \in {"profile", "sessions"} -> seen[op]
    [] op = "identity" ->
         IF seen["profile"] # Ok THEN seen["profile"]
         ELSE IF seen["sessions"] # Ok THEN seen["sessions"]
         ELSE IF seen["groups"] = Ok \/ Tolerated(seen["groups"]) THEN Ok
         ELSE seen["groups"]

\* Groups of the identity, those of the profile first.
IdentityGroups == profiled \cup grouped

Finished == op # None /\ pending = {}

--------------------------------------------------------------------------------
FirstRequest(o) ==
  CASE o \in {"exchange", "refresh"} -> "token"
    [] o = "validate" -> "introspect"
    [] o \in {"profile", "identity"} -> "profile"
    [] o = "sessions" -> "sessions"

\* exchangeCodeForTokens, refreshTokens, validateAccessToken, fetchUserProfile,
\* listActiveSessions, buildEffectiveIdentity.
Call(o) ==
  /\ op' = o
  /\ pending' = {FirstRequest(o)}
  /\ seen' = [r \in Requests |-> None]
  /\ valid' = FALSE
  /\ profiled' = {} /\ grouped' = {} /\ listed' = {}
  /\ held' = IF o = "identity" THEN memberOf ELSE {}
  /\ kept' = held'
  /\ UNCHANGED authentik

\* The caller has the outcome.
Return ==
  /\ op' = None
  /\ seen' = [r \in Requests |-> None]
  /\ valid' = FALSE
  /\ profiled' = {} /\ grouped' = {} /\ listed' = {}
  /\ held' = {} /\ kept' = {}
  /\ UNCHANGED <<authentik, pending>>

\* What the call sends when it has the answer: sessions and groups at once,
\* waiting for both.
Then(r, result) ==
  (pending \ {r}) \cup
    IF op = "identity" /\ r = "profile" /\ result = Ok
    THEN {"sessions", "groups"} ELSE {}

Learn(r, result) ==
  /\ r \in pending
  /\ pending' = Then(r, result)
  /\ seen' = [seen EXCEPT ![r] = result]
  /\ UNCHANGED <<authentik, op, held, kept>>

\* The admin token is missing, or the request got no answer: never an exception.
Fails(r) ==
  /\ \/ NeedsAdminToken(r) /\ Learn(r, <<"no_token", 0>>)
     \/ Learn(r, <<"unknown", 0>>)
     \/ \E s \in Statuses : Learn(r, <<"status", s>>)
  /\ UNCHANGED <<valid, profiled, grouped, listed>>

Tells(body, values) == IF body \in NamesNothing THEN {} ELSE values

\* mapIntrospectionResponse, mapUserProfile, mapGroups and mapSessions.
TokenValid(body) == body = "full" /\ active
GroupsNamed(body) == Tells(body, memberOf)
GroupsListed(body) == Tells(body, memberOf)
SessionsListed(body) == Tells(body, alive)

Answers(r) ==
  \E body \in Bodies :
    /\ body = "bare" => r = "profile"
    /\ Learn(r, ResultOf(r, body))
    /\ valid' = IF r = "introspect" THEN TokenValid(body) ELSE valid
    /\ profiled' = IF r = "profile" THEN GroupsNamed(body) ELSE profiled
    /\ grouped' = IF r = "groups" THEN GroupsListed(body) ELSE grouped
    /\ listed' = IF r = "sessions" THEN SessionsListed(body) ELSE listed

ClientStep == \E r \in pending : Fails(r) \/ Answers(r)

--------------------------------------------------------------------------------
(* Authentik.                                                              *)

Changing ==
  /\ changes < MaxChanges
  /\ changes' = changes + 1
  /\ held' = IF op = "identity" THEN held \cup memberOf' ELSE held
  /\ kept' = kept \cap memberOf'
  /\ UNCHANGED <<op, pending, answers>>

ChangeGroups ==
  /\ \E g \in Groups :
       memberOf' = IF g \in memberOf THEN memberOf \ {g} ELSE memberOf \cup {g}
  /\ Changing
  /\ UNCHANGED <<active, alive>>

EndToken ==
  /\ active
  /\ active' = FALSE
  /\ memberOf' = memberOf
  /\ Changing
  /\ UNCHANGED alive

EndSession ==
  /\ \E s \in alive : alive' = alive \ {s}
  /\ memberOf' = memberOf
  /\ Changing
  /\ UNCHANGED active

AuthentikStep == ChangeGroups \/ EndToken \/ EndSession

--------------------------------------------------------------------------------
\* An identity is never torn beyond the time it was built in: it has no group
\* the user did not have at some time of the call, and every group the user had
\* all the time, unless Authentik refuses the listing (403, 404), or answers it
\* without content, and the profile does not name it (buildEffectiveIdentity).
IdentityInWindow ==
  op = "identity" /\ Finished /\ Outcome = Ok =>
    /\ IdentityGroups \subseteq held
    /\ \/ kept \subseteq IdentityGroups
       \/ seen["groups"] \in {<<"status", 403>>, <<"status", 404>>}
       \/ seen["groups"] = Ok /\ grouped = {}
================================================================================
