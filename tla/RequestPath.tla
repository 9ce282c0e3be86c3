------------------------------ MODULE RequestPath ------------------------------
(***************************************************************************)
(* The way of a request with an access token: an edge (middleware, fetch   *)
(* server or warmer) hands it to ForwardAuthService.handle, handle asks    *)
(* the Authentik client and the policy engine, the edge acts on the        *)
(* answer.  Beside it the calls of the SDK's auth module to the client,    *)
(* the tokens the JWT service mints, and the health check of the server.   *)
(*                                                                         *)
(* The decision cache, API keys and session records are in ForwardAuth.    *)
(* The engine's rules, the edge and its hooks are fixed at start-up; they  *)
(* are chosen where they are first used.  The proxy behind the server and  *)
(* the framework around Next pass a request on when the answer is 2xx.     *)
(***************************************************************************)
EXTENDS PolicyEngine, JwtService, AuthentikClient

CONSTANTS
  RuleLists,  \* the lists of rules an engine may have
  Warmed,     \* bound: requests of a warmer
  Checks,     \* cache health checks of the server
  Ttls        \* lifetimes given for tokens

ASSUME EngineStarts ==
  /\ RuleLists \subseteq Seq(Rule)
  /\ \A rules \in RuleLists : \A i \in DOMAIN rules : Accepted(rules[i])

ASSUME TtlsAreNumbers == \A ttl \in Ttls : ttl = {} \/ \E n \in ttl : n \in Int /\ ttl = {n}

VARIABLES
  caller,    \* who asks: client, one of the warmers, sdk, probe; or None
  stage,     \* what it waits for
  groups,    \* the groups of the identity
  window,    \* history: the least and the most groups the user had meanwhile
  edge,      \* where the request came in, or None
  due,       \* history: the rules let the request pass
  answer,    \* what handle or a call answered: a status, 0 if it rejected
  relayed,   \* calls of next: without and with an error
  reports,   \* the results a warming run has so far: how many
  target,    \* session the SDK is asked about, or None
  withToken, \* signOut has an access token
  minted     \* token, pair of tokens or error, or None

handling == <<groups, window, edge, due, answer, relayed>>
sdkVars == <<target, withToken, minted>>
vars == <<clientVars, caller, stage, handling, reports, sdkVars>>

\* createDecisionCacheWarmer asks the server, warmDecisionsWithService the service.
Warmers == {"fetchWarmer", "serviceWarmer"}

\* Middleware and server, or handle without either.
EdgesOf(who) ==
  CASE who = "client" -> {"middleware", "server"}
    [] who = "fetchWarmer" -> {"server"}
    [] OTHER -> {"service"}

Init ==
  /\ ClientInit
  /\ caller = None /\ stage = "idle"
  /\ groups = {} /\ window = <<{}, {}>>
  /\ edge = None /\ due = FALSE /\ answer = 0 /\ relayed = <<>>
  /\ reports = 0
  /\ target = None /\ withToken = FALSE /\ minted = None

--------------------------------------------------------------------------------
(* handle.                                                                 *)

Respond(who, status) ==
  /\ stage' = "deliver"
  /\ answer' = status
  /\ edge' \in EdgesOf(who)
  /\ groups' = {} /\ window' = <<{}, {}>> /\ due' = FALSE

\* A request comes in: the access token is validated, without one the answer is 401.
Receive(who) ==
  /\ caller' = who
  /\ relayed' = <<>>
  /\ \/ /\ Call("validate")
        /\ stage' = "validate"
        /\ groups' = {} /\ window' = <<{}, {}>>
        /\ edge' = None /\ due' = FALSE /\ answer' = 0
     \/ Respond(who, 401) /\ UNCHANGED clientVars
  /\ UNCHANGED <<reports, sdkVars>>

\* createDecisionCacheWarmer builds URL and headers outside its try: where they cannot
\* be built the whole run rejects, and the reports it had are lost with it.
BuildFails ==
  /\ caller' = "fetchWarmer"
  /\ stage' = "rejected"
  /\ reports' = 0
  /\ UNCHANGED <<clientVars, handling, sdkVars>>

Arrive ==
  /\ stage = "idle"
  /\ (\E who \in {"client"} \cup Warmers : Receive(who)) \/ BuildFails

\* A warmer has a report, and more to ask.
Warming == caller \in Warmers /\ stage = "done" /\ reports < Warmed

\* Mutant: a request that is refused or fails ends the warming.
WarmWhileGranted == Warming /\ answer = 200 /\ Receive(caller)

\* One request after the other.
WarmNext ==
  /\ Warming
  /\ Receive(caller) \/ (caller = "fetchWarmer" /\ BuildFails)

Validated ==
  /\ stage = "validate" /\ Finished
  /\ UNCHANGED <<caller, relayed, reports, sdkVars>>
  /\ \/ Outcome # Ok /\ Respond(caller, 502) /\ Return
     \/ Outcome = Ok /\ ~valid /\ Respond(caller, 401) /\ Return
     \/ /\ Outcome = Ok /\ valid
        /\ Call("identity")
        /\ stage' = "identity"
        /\ UNCHANGED <<groups, window, edge, due, answer>>

\* A listing that was refused, or came without content, may miss groups.
Listing == seen["groups"] = Ok /\ grouped # {}

Identified ==
  /\ stage = "identity" /\ Finished
  /\ Return
  /\ UNCHANGED <<caller, relayed, reports, sdkVars>>
  /\ \/ Outcome # Ok /\ Respond(caller, 502)
     \/ /\ Outcome = Ok
        /\ stage' = "policy"
        /\ groups' = IdentityGroups
        /\ window' = <<IF Listing THEN kept ELSE {}, held>>
        /\ UNCHANGED <<edge, due, answer>>

\* What an edge asks for: an action, perhaps a resource and an environment.
Asked ==
  [action : Actions, environment : SUBSET Labels,
   resource : [type : Types, id : Ids, labels : SUBSET Labels \cup {Absent}] \cup {Absent}]

\* The server keeps the query and names the URL as the resource.
ServerAsks(asked) == asked.resource # Absent

\* Middleware cuts the query off; a resource and an environment come from its hooks.
MiddlewareAsks(asked) == asked.action = "path"

Asks(e, asked) == IF e = "server" THEN ServerAsks(asked) ELSE MiddlewareAsks(asked)

\* What the identity mapper makes of the groups.
Identities(someGroups) ==
  [roles : {{}}, groups : someGroups, scopes : {{}}, entitlements : {{}},
   labels : SUBSET Labels]

\* Reference: no rule that applies denies, and one allows or none applies and the
\* default decision allows.
Permitted(rules, default, asked, identity) ==
  LET effects == {rules[i].effect : i \in {i \in DOMAIN rules : Applies(rules[i], asked, identity)}}
  IN  effects = {"allow"} \/ (effects = {} /\ default)

Allows(rules, decisive, default) ==
  IF decisive = 0 THEN default ELSE rules[decisive].effect = "allow"

Between(bounds) == {g \in SUBSET bounds[2] : bounds[1] \subseteq g}

\* evaluate.
AskPolicy ==
  /\ stage = "policy"
  /\ stage' = "deliver"
  /\ \E rules \in RuleLists, asked \in Asked, identity \in Identities({groups}) :
       LET decisive == Evaluate(rules, asked, identity)
       IN  /\ \E default \in IF decisive = 0 THEN BOOLEAN ELSE {FALSE} :
                /\ answer' = IF Allows(rules, decisive, default) THEN 200 ELSE 403
                /\ due' = \E g \in Between(window) :
                            Permitted(rules, default, asked, [identity EXCEPT !.groups = g])
           /\ edge' \in {e \in EdgesOf(caller) : Asks(e, asked)}
  /\ groups' = {} /\ window' = <<{}, {}>>
  /\ UNCHANGED <<clientVars, caller, relayed, reports, sdkVars>>

\* The factory of the decision JWT, or a hook that names action, resource or
\* environment, throws: handle rejects.
PolicyThrows ==
  /\ stage = "policy"
  /\ Respond(caller, 0)
  /\ UNCHANGED <<clientVars, caller, relayed, reports, sdkVars>>

--------------------------------------------------------------------------------
(* The edges.                                                              *)

Passed == answer = 200

\* next() once the answer is 2xx, end() otherwise; a hook that throws, a handler
\* that throws out of next() and handle's rejection go to next(error).
Express ==
  /\ edge = "middleware"
  /\ relayed' \in IF Passed THEN {<<"next">>, <<"error">>, <<"next", "error">>}
                  ELSE IF answer = 0 THEN {<<"error">>} ELSE {<<>>, <<"error">>}

\* The promise of the plugin rejects when a hook throws, or handle rejects.
Elysia ==
  /\ edge = "middleware"
  /\ relayed' \in IF Passed THEN {<<"next">>, <<>>} ELSE {<<>>}

\* Next's continue header; the status the proxy behind the server looks at.
ByAnswer ==
  /\ edge # None /\ caller = "client"
  /\ relayed' = IF Passed THEN <<"next">> ELSE <<>>

\* An answer, a 500 of the server and an exception, also of fetch, are all results.
Report ==
  /\ caller \in Warmers
  /\ reports' = reports + 1
  /\ UNCHANGED relayed

Deliver ==
  /\ stage = "deliver"
  /\ stage' = "done"
  /\ \/ (Express \/ Elysia \/ ByAnswer) /\ UNCHANGED reports
     \/ Report
  /\ UNCHANGED <<clientVars, caller, groups, window, edge, due, answer, sdkVars>>

\* Healthy when every check says so; one that throws is not.
HealthCheck ==
  /\ stage = "idle"
  /\ stage' = "done"
  /\ caller' = "probe"
  /\ \E healthy \in SUBSET Checks : answer' = IF healthy = Checks THEN 200 ELSE 503
  /\ UNCHANGED <<clientVars, groups, window, edge, due, relayed, reports, sdkVars>>

--------------------------------------------------------------------------------
(* The SDK's auth module and the JWT service.                              *)

SdkCalls(o) ==
  /\ stage = "idle"
  /\ stage' = "sdk"
  /\ caller' = "sdk"
  /\ Call(o)
  /\ UNCHANGED <<handling, reports, minted>>

\* signInWithCode, refreshSession.
Sign == \E o \in {"exchange", "refresh"} : SdkCalls(o) /\ UNCHANGED <<target, withToken>>

\* verifySession, signOut with or without an access token.
FindSession ==
  /\ SdkCalls("sessions")
  /\ target' \in Sessions
  /\ withToken' \in BOOLEAN

SdkAnswers(status) == stage' = "done" /\ answer' = status /\ Return

SdkGoesOn ==
  /\ stage = "sdk" /\ Finished
  /\ \/ Outcome # Ok /\ SdkAnswers(502)
     \/ Outcome = Ok /\ op = "sessions" /\ target \notin listed /\ SdkAnswers(404)
     \/ Outcome = Ok /\ op = "sessions" /\ target \in listed /\ withToken
          /\ Call("validate") /\ stage' = "token" /\ UNCHANGED answer
     \/ Outcome = Ok /\ (op = "sessions" => target \in listed /\ ~withToken) /\ SdkAnswers(200)
  /\ UNCHANGED <<caller, groups, window, edge, due, relayed, reports, sdkVars>>

\* signOut ends nothing: it answers when the session is listed and the token active.
SignOut ==
  /\ stage = "token" /\ Finished
  /\ SdkAnswers(IF Outcome = Ok /\ valid THEN 200 ELSE 500)
  /\ UNCHANGED <<caller, groups, window, edge, due, relayed, reports, sdkVars>>

\* issueDecisionToken of the SDK, and the calls of a host that signs users in.
MintTokens ==
  /\ stage = "idle"
  /\ stage' = "done"
  /\ caller' = "sdk"
  /\ \E configured \in SUBSET Kinds, signs \in SUBSET Kinds, usual, given \in Ttls,
        named \in BOOLEAN :
       LET ttl == [k \in configured |-> usual]
           M(kind) == Mint(ttl, signs, kind, "user", named, given)
       IN  /\ Startable(ttl)
           /\ minted' \in {M("decision"), M("access"), M("refresh"),
                           MintPair(M("access"), M("refresh"))}
  /\ UNCHANGED <<clientVars, handling, reports, target, withToken>>

--------------------------------------------------------------------------------
ExternalStep(step) == step /\ UNCHANGED <<caller, stage, handling, reports, sdkVars>>

HandleStep == Validated \/ Identified \/ AskPolicy \/ PolicyThrows \/ Deliver \/ WarmNext

Next ==
  \/ Arrive \/ HandleStep \/ HealthCheck
  \/ Sign \/ FindSession \/ SdkGoesOn \/ SignOut \/ MintTokens
  \/ ExternalStep(ClientStep) \/ ExternalStep(AuthentikStep)

\* Node runs what is ready, and a request to Authentik is answered or fails.
Fairness == WF_vars(HandleStep) /\ WF_vars(ExternalStep(ClientStep))

Spec == Init /\ [][Next]_vars /\ Fairness

--------------------------------------------------------------------------------
\* A request is passed on only when handle granted it and the rules grant it to some
\* groups the user had between the start and the end of the call for the identity
\* (evaluate, buildEffectiveIdentity and every edge).
PassedOnlyIfPermitted == Len(relayed) > 0 /\ relayed[1] = "next" => Passed /\ due

Lives(token) == token[3] >= 1 /\ token[2] = "user"

\* Whatever lifetimes are configured and given, no token is born expired, and a pair
\* has both (mintDecisionJwt, mintAccessToken, mintRefreshToken, mintTokenPair).
TokensLive ==
  minted # None /\ ~IsError(minted) =>
    IF minted[1] = "pair" THEN Lives(minted[2]) /\ Lives(minted[3]) ELSE Lives(minted)

\* A warming run through the service reports on every request, whatever is refused,
\* fails or throws on the way; one through the server does too, unless a request could
\* not even be built: then it rejects.
WarmerReports ==
  /\ caller = "serviceWarmer" ~> reports = Warmed
  /\ caller = "fetchWarmer" ~> reports = Warmed \/ stage = "rejected"
================================================================================
