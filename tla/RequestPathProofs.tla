--------------------------- MODULE RequestPathProofs ---------------------------
(***************************************************************************)
(* What holds of a request with an access token, for any groups, sessions, *)
(* rules and lifetimes: the identity it is given, the rules it passes and  *)
(* the tokens that are minted beside it.                                   *)
(***************************************************************************)
EXTENDS RequestPath, TLAPS, WellFoundedInduction

--------------------------------------------------------------------------------
(* AuthentikClient: IdentityInWindow.                                      *)

\* While an identity is built: what the user had all the time it has now, and had then;
\* what Authentik named is of that time, and a listing with content misses nothing that
\* was there all the time.
IdentityInv ==
  /\ seen = [r \in Requests |-> seen[r]]
  /\ op = "identity" =>
       /\ kept \subseteq memberOf /\ memberOf \subseteq held
       /\ profiled \subseteq held /\ grouped \subseteq held
       /\ seen["groups"] = Ok /\ grouped # {} => kept \subseteq grouped

\* A step of the whole is one of the client, one of Authentik, or leaves both alone.
ClientMoves ==
  (\E o \in Operations : Call(o)) \/ Return \/ ClientStep \/ AuthentikStep
    \/ UNCHANGED clientVars

\* No step of a request, the SDK or the server reaches into the client.
LEMMA StepMovesClient == [Next]_vars => ClientMoves
  <1>. SUFFICES ASSUME [Next]_vars PROVE ClientMoves  OBVIOUS
  <1>1. CASE UNCHANGED vars
    BY <1>1 DEF vars, ClientMoves
  <1>2. \A who : Receive(who) => Call("validate") \/ UNCHANGED clientVars
    BY DEF Receive
  <1>3. Validated => Return \/ Call("identity")
    BY DEF Validated
  <1>4. Identified => Return
    BY DEF Identified
  <1>5. AskPolicy \/ PolicyThrows \/ Deliver \/ HealthCheck \/ MintTokens => UNCHANGED clientVars
    BY DEF AskPolicy, PolicyThrows, Deliver, HealthCheck, MintTokens
  <1>6. Sign \/ FindSession => \E o \in {"exchange", "refresh", "sessions"} : Call(o)
    BY DEF Sign, FindSession, SdkCalls
  <1>7. SdkGoesOn => Return \/ Call("validate")
    BY DEF SdkGoesOn, SdkAnswers
  <1>8. SignOut => Return
    BY DEF SignOut, SdkAnswers
  <1>9. \A o \in {"exchange", "refresh", "sessions", "validate", "identity"} : o \in Operations
    BY DEF Operations
  <1>10. Arrive \/ WarmNext => ClientMoves
    BY <1>2, <1>9 DEF Arrive, WarmNext, Warming, BuildFails, ClientMoves
  <1>11. HandleStep => ClientMoves
    BY <1>3, <1>4, <1>5, <1>9, <1>10 DEF HandleStep, ClientMoves
  <1>12. CASE Next
    BY <1>12, <1>5, <1>6, <1>7, <1>8, <1>9, <1>10, <1>11 DEF Next, ExternalStep, ClientMoves
  <1>. QED  BY <1>1, <1>12

\* A call begins without answers.
LEMMA CallKeepsIdentity ==
  ASSUME IdentityInv, NEW o \in Operations, Call(o)
  PROVE  IdentityInv'
  <1>1. /\ seen' = [r \in Requests |-> None] /\ memberOf' = memberOf /\ op' = o
        /\ profiled' = {} /\ grouped' = {} /\ kept' = held'
        /\ held' = IF o = "identity" THEN memberOf ELSE {}
    BY DEF Call, authentik
  <1>. QED  BY <1>1 DEF IdentityInv

\* It ends with no call in progress.
LEMMA ReturnKeepsIdentity == IdentityInv /\ Return => IdentityInv'
  <1>. SUFFICES ASSUME IdentityInv, Return PROVE IdentityInv'  OBVIOUS
  <1>1. seen' = [r \in Requests |-> None] /\ op' = None
    BY DEF Return
  <1>2. op' # "identity"
    BY <1>1, ClientConstants DEF Operations
  <1>. QED  BY <1>1, <1>2 DEF IdentityInv

\* A result is entered for its request only.
LEMMA LearnEnters ==
  ASSUME IdentityInv, NEW r, NEW result, Learn(r, result)
  PROVE  /\ seen' = [q \in Requests |-> seen'[q]]
         /\ seen'["groups"] = IF r = "groups" THEN result ELSE seen["groups"]
         /\ op' = op /\ memberOf' = memberOf /\ held' = held /\ kept' = kept
  BY DEF Learn, IdentityInv, Requests, authentik

\* A request that fails says nothing of the groups.
LEMMA FailureKeepsIdentity ==
  ASSUME IdentityInv, NEW r, Fails(r)
  PROVE  IdentityInv'
  <1>1. PICK result : result # Ok /\ Learn(r, result)
    BY DEF Fails, Ok
  <1>2. profiled' = profiled /\ grouped' = grouped
    BY DEF Fails
  <1>. QED  BY <1>1, <1>2, LearnEnters DEF IdentityInv

\* One that is answered names what the user has now, or nothing.
LEMMA AnswerKeepsIdentity ==
  ASSUME IdentityInv, NEW r, Answers(r)
  PROVE  IdentityInv'
  <1>1. PICK body \in Bodies :
          /\ Learn(r, ResultOf(r, body))
          /\ profiled' = IF r = "profile" THEN GroupsNamed(body) ELSE profiled
          /\ grouped' = IF r = "groups" THEN GroupsListed(body) ELSE grouped
    BY DEF Answers
  <1>2. GroupsNamed(body) \in {{}, memberOf} /\ GroupsListed(body) \in {{}, memberOf}
    BY DEF GroupsNamed, GroupsListed, Tells
  <1>3. /\ seen' = [q \in Requests |-> seen'[q]]
        /\ seen'["groups"] = IF r = "groups" THEN ResultOf(r, body) ELSE seen["groups"]
        /\ op' = op /\ memberOf' = memberOf /\ held' = held /\ kept' = kept
    BY <1>1, LearnEnters
  <1>4. ASSUME op = "identity" PROVE profiled' \subseteq held' /\ grouped' \subseteq held'
    BY <1>1, <1>2, <1>3, <1>4 DEF IdentityInv
  <1>5. ASSUME op = "identity", seen'["groups"] = Ok, grouped' # {} PROVE kept' \subseteq grouped'
    BY <1>1, <1>2, <1>3, <1>5 DEF IdentityInv
  <1>. QED  BY <1>3, <1>4, <1>5 DEF IdentityInv

\* A change there widens what was held and narrows what was kept.
LEMMA AuthentikKeepsIdentity == IdentityInv /\ AuthentikStep => IdentityInv'
  <1>. SUFFICES ASSUME IdentityInv, AuthentikStep PROVE IdentityInv'  OBVIOUS
  <1>1. Changing
    BY DEF AuthentikStep, ChangeGroups, EndToken, EndSession
  <1>2. /\ op' = op /\ seen' = seen /\ profiled' = profiled /\ grouped' = grouped
        /\ kept' = kept \cap memberOf'
        /\ held' = IF op = "identity" THEN held \cup memberOf' ELSE held
    BY <1>1 DEF Changing, answers
  <1>. QED  BY <1>2 DEF IdentityInv

LEMMA ClientKeepsIdentity == IdentityInv /\ ClientMoves => IdentityInv'
  <1>. SUFFICES ASSUME IdentityInv, ClientMoves PROVE IdentityInv'  OBVIOUS
  <1>1. CASE \E o \in Operations : Call(o)
    BY <1>1, CallKeepsIdentity
  <1>2. CASE Return
    BY <1>2, ReturnKeepsIdentity
  <1>3. CASE ClientStep
    BY <1>3, FailureKeepsIdentity, AnswerKeepsIdentity DEF ClientStep
  <1>4. CASE AuthentikStep
    BY <1>4, AuthentikKeepsIdentity
  <1>5. CASE UNCHANGED clientVars
    BY <1>5 DEF clientVars, authentik, answers, IdentityInv
  <1>. QED  BY <1>1, <1>2, <1>3, <1>4, <1>5 DEF ClientMoves

LEMMA IdentityStarts == Init => IdentityInv
  <1>. SUFFICES ASSUME Init PROVE IdentityInv  OBVIOUS
  <1>1. seen = [r \in Requests |-> None] /\ op = None
    BY DEF Init, ClientInit
  <1>2. op # "identity"
    BY <1>1, ClientConstants DEF Operations
  <1>. QED  BY <1>1, <1>2 DEF IdentityInv

\* An identity is Ok when its listing is, or is refused.
LEMMA IdentitySound == IdentityInv => IdentityInWindow
  <1>. SUFFICES ASSUME IdentityInv, op = "identity", Outcome = Ok
               PROVE  /\ IdentityGroups \subseteq held
                      /\ \/ kept \subseteq IdentityGroups
                         \/ seen["groups"] \in {<<"status", 403>>, <<"status", 404>>}
                         \/ seen["groups"] = Ok /\ grouped = {}
    BY DEF IdentityInWindow
  <1>1. IdentityGroups \subseteq held
    BY DEF IdentityInv, IdentityGroups
  <1>2. Outcome = IF seen["profile"] # Ok THEN seen["profile"]
                  ELSE IF seen["sessions"] # Ok THEN seen["sessions"]
                  ELSE IF seen["groups"] = Ok \/ Tolerated(seen["groups"]) THEN Ok
                  ELSE seen["groups"]
    BY DEF Outcome
  <1>3. seen["groups"] = Ok \/ Tolerated(seen["groups"])
    BY <1>2
  <1>. QED  BY <1>1, <1>3 DEF IdentityInv, IdentityGroups, Tolerated

\* Whatever changes in Authentik while an identity is built of its three answers, it has
\* no group from outside the time of the call and, unless the listing is refused or empty,
\* every group of all that time (buildEffectiveIdentity).
THEOREM IdentityOfItsTime == Spec => []IdentityInWindow
  <1>1. Init => IdentityInv
    BY IdentityStarts
  <1>2. IdentityInv /\ [Next]_vars => IdentityInv'
    BY StepMovesClient, ClientKeepsIdentity
  <1>. QED  BY <1>1, <1>2, IdentitySound, PTL DEF Spec

--------------------------------------------------------------------------------
(* PolicyEngine: evaluate against its reference.                           *)

\* A set of positions has a first one.
LEMMA FirstPosition ==
  ASSUME NEW S \in SUBSET Nat, S # {}
  PROVE  Min(S) \in S
  <1>1. PICK x \in S : \A y \in S : <<y, x>> \notin OpToRel(<, Nat)
    BY WFMin, NatLessThanWellFounded, Zenon
  <1>2. \A y \in S : x <= y
    <2>. SUFFICES ASSUME NEW y \in S PROVE ~(y < x)
      OBVIOUS
    <2>1. x \in Nat /\ y \in Nat
      OBVIOUS
    <2>2. ASSUME y < x PROVE <<y, x>> \in OpToRel(<, Nat)
      BY <2>1, <2>2, Zenon DEF OpToRel
    <2>. QED  BY <1>1, <2>2
  <1>. QED  BY <1>2 DEF Min

\* The loop over the rules grants exactly what the reference does: a deny that applies
\* wins wherever it stands, an allow over the default decision.
THEOREM EvaluatePermits ==
  ASSUME NEW rules \in Seq(Rule), NEW asked, NEW identity, NEW default \in BOOLEAN
  PROVE  Allows(rules, Evaluate(rules, asked, identity), default)
           <=> Permitted(rules, default, asked, identity)
  <1>. DEFINE applying == {i \in DOMAIN rules : Applies(rules[i], asked, identity)}
              effects == {rules[i].effect : i \in applying}
              denying == {i \in applying : rules[i].effect = "deny"}
              decisive == Evaluate(rules, asked, identity)
  <1>1. applying \subseteq DOMAIN rules /\ DOMAIN rules \subseteq Nat \ {0}
    OBVIOUS
  <1>2. \A i \in DOMAIN rules : rules[i].effect \in {"allow", "deny"}
    <2>. SUFFICES ASSUME NEW i \in DOMAIN rules PROVE rules[i].effect \in {"allow", "deny"}
      OBVIOUS
    <2>1. rules[i] \in Rule
      OBVIOUS
    <2>2. \A r \in Rule : r.effect \in {"allow", "deny"}
      BY DEF Rule
    <2>. QED  BY <2>1, <2>2
  <1>3. decisive = IF applying = {} THEN 0
                   ELSE IF denying # {} THEN Min(denying) ELSE Min(applying)
    BY DEF Evaluate, Decides
  <1>4. Permitted(rules, default, asked, identity)
          <=> (effects = {"allow"} \/ (effects = {} /\ default))
    BY DEF Permitted
  <1>. HIDE DEF applying, decisive
  <1>5. CASE applying = {}
    <2>1. Allows(rules, decisive, default) <=> default
      BY <1>3, <1>5 DEF Allows
    <2>2. effects = {}
      BY <1>5
    <2>3. Permitted(rules, default, asked, identity) <=> default
      BY <1>4, <2>2
    <2>. QED  BY <2>1, <2>3 DEF decisive
  <1>6. CASE denying # {}
    <2>1. Min(denying) \in denying
      <3>1. denying \in SUBSET Nat
        BY <1>1
      <3>. QED  BY <3>1, <1>6, FirstPosition
    <2>2. decisive # 0 /\ rules[decisive].effect = "deny"
      BY <1>1, <1>3, <1>6, <2>1
    <2>3. ~Allows(rules, decisive, default)
      BY <2>2 DEF Allows
    <2>4. "deny" \in effects
      BY <1>6
    <2>5. ~Permitted(rules, default, asked, identity)
      BY <1>4, <2>4
    <2>. QED  BY <2>3, <2>5 DEF decisive
  <1>7. CASE applying # {} /\ denying = {}
    <2>1. \A i \in applying : rules[i].effect = "allow"
      BY <1>1, <1>2, <1>7
    <2>2. Min(applying) \in applying
      <3>1. applying \in SUBSET Nat
        BY <1>1
      <3>. QED  BY <3>1, <1>7, FirstPosition
    <2>3. decisive # 0 /\ rules[decisive].effect = "allow"
      BY <1>1, <1>3, <1>7, <2>1, <2>2
    <2>4. effects = {"allow"}
      BY <1>7, <2>1
    <2>5. Allows(rules, decisive, default)
      BY <2>3 DEF Allows
    <2>6. Permitted(rules, default, asked, identity)
      BY <1>4, <2>4
    <2>. QED  BY <2>5, <2>6 DEF decisive
  <1>. QED  BY <1>5, <1>6, <1>7

--------------------------------------------------------------------------------
(* RequestPath: PassedOnlyIfPermitted.                                     *)

\* Until an edge has acted nothing was relayed; the groups that are asked about lie in
\* the window of their identity; what was granted on the way to the edge was due.
RequestSound ==
  /\ stage \notin {"done", "rejected"} => relayed = <<>>
  /\ stage = "identity" => op = "identity"
  /\ stage = "policy" => window[1] \subseteq groups /\ groups \subseteq window[2]
  /\ stage = "deliver" /\ answer = 200 => due
  /\ PassedOnlyIfPermitted

\* A refusal and a failure grant nothing.
LEMMA RefusalSound ==
  ASSUME NEW who, NEW status \in {0, 401, 502}, Respond(who, status), relayed' = <<>>
  PROVE  RequestSound'
  BY DEF Respond, RequestSound, PassedOnlyIfPermitted, Passed

\* A request that comes in has been relayed nowhere.
LEMMA ReceiveSound == ASSUME NEW who, Receive(who) PROVE RequestSound'
  <1>1. relayed' = <<>>
    BY DEF Receive
  <1>2. CASE stage' = "validate"
    BY <1>1, <1>2 DEF RequestSound, PassedOnlyIfPermitted
  <1>3. CASE Respond(who, 401)
    BY <1>1, <1>3, RefusalSound
  <1>. QED  BY <1>2, <1>3 DEF Receive

\* A warming run that rejects passes nothing on.
LEMMA BuildFailsSound == RequestSound /\ BuildFails => RequestSound'
  <1>. SUFFICES ASSUME RequestSound, BuildFails PROVE RequestSound'  OBVIOUS
  <1>1. stage' = "rejected" /\ UNCHANGED <<relayed, answer, due>>
    BY DEF BuildFails, handling
  <1>. QED  BY <1>1 DEF RequestSound, PassedOnlyIfPermitted, Passed

\* The call for the identity begins when the token is valid.
LEMMA ValidatedSound == RequestSound /\ Validated => RequestSound'
  <1>. SUFFICES ASSUME RequestSound, Validated PROVE RequestSound'  OBVIOUS
  <1>1. relayed' = <<>>
    BY DEF RequestSound, Validated
  <1>2. CASE Respond(caller, 502) \/ Respond(caller, 401)
    BY <1>1, <1>2, RefusalSound
  <1>3. CASE Call("identity") /\ stage' = "identity"
    BY <1>1, <1>3 DEF Call, RequestSound, PassedOnlyIfPermitted
  <1>. QED  BY <1>2, <1>3 DEF Validated

\* The window is that of the groups.
LEMMA IdentifiedSound == RequestSound /\ IdentityInv /\ Identified => RequestSound'
  <1>. SUFFICES ASSUME RequestSound, IdentityInv, Identified PROVE RequestSound'  OBVIOUS
  <1>1. relayed' = <<>> /\ op = "identity"
    BY DEF RequestSound, Identified
  <1>2. CASE Respond(caller, 502)
    BY <1>1, <1>2, RefusalSound
  <1>3. CASE /\ stage' = "policy" /\ groups' = IdentityGroups
             /\ window' = <<IF Listing THEN kept ELSE {}, held>>
    <2>1. window'[1] \subseteq groups' /\ groups' \subseteq window'[2]
      BY <1>1, <1>3 DEF IdentityInv, IdentityGroups, Listing
    <2>. QED  BY <1>1, <1>3, <2>1 DEF RequestSound, PassedOnlyIfPermitted
  <1>. QED  BY <1>2, <1>3 DEF Identified

\* What the engine grants is due for the groups it was asked about.
LEMMA AskPolicySound == RequestSound /\ AskPolicy => RequestSound'
  <1>. SUFFICES ASSUME RequestSound, AskPolicy PROVE RequestSound'  OBVIOUS
  <1>1. stage = "policy" /\ stage' = "deliver" /\ relayed' = relayed /\ relayed = <<>>
    BY DEF AskPolicy, RequestSound
  <1>2. PICK rules \in RuleLists, asked \in Asked, identity \in Identities({groups}) :
          \E default \in IF Evaluate(rules, asked, identity) = 0 THEN BOOLEAN ELSE {FALSE} :
            /\ answer' = IF Allows(rules, Evaluate(rules, asked, identity), default)
                         THEN 200 ELSE 403
            /\ due' = \E g \in Between(window) :
                        Permitted(rules, default, asked, [identity EXCEPT !.groups = g])
    BY Zenon DEF AskPolicy
  <1>3. PICK default \in IF Evaluate(rules, asked, identity) = 0 THEN BOOLEAN ELSE {FALSE} :
          /\ answer' = IF Allows(rules, Evaluate(rules, asked, identity), default)
                       THEN 200 ELSE 403
          /\ due' = \E g \in Between(window) :
                      Permitted(rules, default, asked, [identity EXCEPT !.groups = g])
    BY <1>2, Zenon
  <1>4. rules \in Seq(Rule) /\ default \in BOOLEAN
    BY EngineStarts
  <1>5. groups \in Between(window)
    BY <1>1 DEF RequestSound, Between
  <1>6. [identity EXCEPT !.groups = groups] = identity
    BY DEF Identities
  <1>7. ASSUME answer' = 200 PROVE due'
    <2>1. Allows(rules, Evaluate(rules, asked, identity), default)
      BY <1>3, <1>7
    <2>2. Permitted(rules, default, asked, identity)
      BY <1>4, <2>1, EvaluatePermits
    <2>. QED  BY <1>3, <1>5, <1>6, <2>2
  <1>. QED  BY <1>1, <1>7 DEF RequestSound, PassedOnlyIfPermitted

\* An edge goes on only with an answer that grants.
LEMMA DeliverSound == RequestSound /\ Deliver => RequestSound'
  <1>. SUFFICES ASSUME RequestSound, Deliver PROVE RequestSound'  OBVIOUS
  <1>1. /\ stage = "deliver" /\ stage' = "done" /\ relayed = <<>>
        /\ answer' = answer /\ due' = due
    BY DEF Deliver, RequestSound
  <1>2. \/ relayed' \in {<<>>, <<"error">>}
        \/ relayed' \in {<<"next">>, <<"next", "error">>} /\ answer = 200
    <2>1. CASE Express
      BY <2>1 DEF Express, Passed
    <2>2. CASE Elysia
      BY <2>2 DEF Elysia, Passed
    <2>3. CASE ByAnswer
      BY <2>3 DEF ByAnswer, Passed
    <2>4. CASE Report
      BY <1>1, <2>4 DEF Report
    <2>. QED  BY <2>1, <2>2, <2>3, <2>4 DEF Deliver
  <1>3. ASSUME relayed' \in {<<>>, <<"error">>}
        PROVE  ~(Len(relayed') > 0 /\ relayed'[1] = "next")
    <2>1. CASE relayed' = <<>>
      BY <2>1
    <2>2. CASE relayed' = <<"error">>
      BY <2>2
    <2>. QED  BY <1>3, <2>1, <2>2
  <1>4. PassedOnlyIfPermitted'
    BY <1>1, <1>2, <1>3 DEF RequestSound, PassedOnlyIfPermitted, Passed
  <1>. QED  BY <1>1, <1>4 DEF RequestSound

\* The SDK, the health check and the client relay nothing.
LEMMA OthersSound ==
  ASSUME RequestSound,
         \/ HealthCheck \/ Sign \/ FindSession \/ SdkGoesOn \/ SignOut \/ MintTokens
         \/ ExternalStep(ClientStep) \/ ExternalStep(AuthentikStep) \/ UNCHANGED vars
  PROVE  RequestSound'
  <1>1. CASE HealthCheck \/ MintTokens \/ Sign \/ FindSession \/ SdkGoesOn \/ SignOut
    <2>1. relayed = <<>> /\ relayed' = <<>>
      BY <1>1 DEF RequestSound, HealthCheck, MintTokens, Sign, FindSession, SdkGoesOn, SignOut,
                  SdkCalls, handling
    <2>2. stage' \in {"done", "sdk", "token"}
      BY <1>1 DEF HealthCheck, MintTokens, Sign, FindSession, SdkGoesOn, SignOut, SdkCalls,
                  SdkAnswers
    <2>. QED  BY <2>1, <2>2 DEF RequestSound, PassedOnlyIfPermitted
  <1>2. CASE ExternalStep(ClientStep) \/ ExternalStep(AuthentikStep) \/ UNCHANGED vars
    <2>1. UNCHANGED <<caller, stage, handling, reports, sdkVars>>
      BY <1>2 DEF ExternalStep, vars
    <2>2. op' = op
      BY <1>2 DEF ExternalStep, vars, clientVars, ClientStep, Fails, Answers, Learn,
                  AuthentikStep, ChangeGroups, EndToken, EndSession, Changing
    <2>. QED  BY <2>1, <2>2 DEF RequestSound, PassedOnlyIfPermitted, Passed, handling
  <1>. QED  BY <1>1, <1>2

LEMMA NextSound == RequestSound /\ IdentityInv /\ [Next]_vars => RequestSound'
  <1>. SUFFICES ASSUME RequestSound, IdentityInv, [Next]_vars PROVE RequestSound'  OBVIOUS
  <1>1. CASE Arrive \/ WarmNext
    BY <1>1, ReceiveSound, BuildFailsSound DEF Arrive, WarmNext
  <1>2. CASE Validated
    BY <1>2, ValidatedSound
  <1>3. CASE Identified
    BY <1>3, IdentifiedSound
  <1>4. CASE AskPolicy
    BY <1>4, AskPolicySound
  <1>5. CASE PolicyThrows
    <2>1. relayed' = <<>>
      BY <1>5 DEF PolicyThrows, RequestSound
    <2>. QED  BY <1>5, <2>1, RefusalSound DEF PolicyThrows
  <1>6. CASE Deliver
    BY <1>6, DeliverSound
  <1>7. CASE \/ HealthCheck \/ Sign \/ FindSession \/ SdkGoesOn \/ SignOut \/ MintTokens
             \/ ExternalStep(ClientStep) \/ ExternalStep(AuthentikStep) \/ UNCHANGED vars
    BY <1>7, OthersSound
  <1>. QED  BY <1>1, <1>2, <1>3, <1>4, <1>5, <1>6, <1>7 DEF Next, HandleStep

\* A request goes on, at whatever edge, only when the rules grant it to some groups the
\* user had while the identity was built (handle, evaluate and every edge).
THEOREM NothingPassesUnpermitted == Spec => []PassedOnlyIfPermitted
  <1>1. Init => RequestSound /\ IdentityInv
    BY IdentityStarts DEF Init, RequestSound, PassedOnlyIfPermitted
  <1>2. RequestSound /\ IdentityInv /\ [Next]_vars => (RequestSound /\ IdentityInv)'
    BY NextSound, StepMovesClient, ClientKeepsIdentity
  <1>3. RequestSound => PassedOnlyIfPermitted
    BY DEF RequestSound
  <1>. QED  BY <1>1, <1>2, <1>3, PTL DEF Spec

--------------------------------------------------------------------------------
(* JwtService: TokensLive.                                                 *)

\* A lifetime is a number, and at least a second.
LEMMA LifetimeLives ==
  ASSUME NEW given, given = {} \/ \E n \in given : n \in Int /\ given = {n}, NEW usual \in Int
  PROVE  Lifetime(given, usual) \in Int /\ Lifetime(given, usual) >= 1
  <1>1. PICK n \in Int : Lifetime(given, usual) = Max({1, n})
    <2>1. CASE given = {}
      BY <2>1 DEF Lifetime
    <2>2. CASE \E n \in given : n \in Int /\ given = {n}
      BY <2>2 DEF Lifetime
    <2>. QED  BY <2>1, <2>2
  <1>2. \E x \in {1, n} : \A y \in {1, n} : x >= y
    OBVIOUS
  <1>3. Max({1, n}) \in {1, n} /\ \A y \in {1, n} : Max({1, n}) >= y
    BY <1>2 DEF Max
  <1>. QED  BY <1>1, <1>3

\* What a service says that is configured for some kinds, with one lifetime for all.
Token(configured, signs, kind, usual, given, named) ==
  Mint([k \in configured |-> usual], signs, kind, "user", named, given)

\* A token is an error, or names its kind and its subject and lives.
LEMMA MintLives ==
  ASSUME NEW configured \in SUBSET Kinds, NEW signs, NEW kind \in Kinds, NEW named,
         NEW usual \in Ttls, NEW given \in Ttls
  PROVE  LET token == Token(configured, signs, kind, usual, given, named)
         IN  IsError(token) \/ (Lives(token) /\ token[1] = kind)
  <1>. DEFINE ttl == [k \in configured |-> usual]
  <1>1. UsualTtl(kind) \in Int
    BY DEF Kinds, UsualTtl
  <1>2. ASSUME kind \in configured
        PROVE  Lifetime(given, Lifetime(ttl[kind], UsualTtl(kind))) >= 1
    <2>1. ttl[kind] = usual
      BY <1>2
    <2>2. Lifetime(usual, UsualTtl(kind)) \in Int
      BY <1>1, LifetimeLives, TtlsAreNumbers
    <2>. QED  BY <2>1, <2>2, LifetimeLives, TtlsAreNumbers
  <1>3. CASE kind \in configured /\ named /\ kind \in signs
    BY <1>2, <1>3 DEF Token, Mint, Lives
  <1>4. CASE ~(kind \in configured /\ named /\ kind \in signs)
    BY <1>4 DEF Token, Mint, IsError
  <1>. QED  BY <1>3, <1>4

\* Each token of a pair is minted as it is alone.
LEMMA MintTokensLives == MintTokens => TokensLive'
  <1>. SUFFICES ASSUME MintTokens PROVE TokensLive'  OBVIOUS
  <1>1. PICK configured \in SUBSET Kinds, signs \in SUBSET Kinds, usual \in Ttls,
             given \in Ttls, named \in BOOLEAN :
          LET ttl == [k \in configured |-> usual]
              M(kind) == Mint(ttl, signs, kind, "user", named, given)
          IN  /\ Startable(ttl)
              /\ minted' \in {M("decision"), M("access"), M("refresh"),
                              MintPair(M("access"), M("refresh"))}
    BY Zenon DEF MintTokens
  <1>. DEFINE M(kind) == Token(configured, signs, kind, usual, given, named)
  <1>2. \A kind \in Kinds : IsError(M(kind)) \/ (Lives(M(kind)) /\ M(kind)[1] = kind)
    BY MintLives
  <1>3. minted' \in {M("decision"), M("access"), M("refresh"),
                     MintPair(M("access"), M("refresh"))}
    BY <1>1 DEF Token
  <1>. HIDE DEF M
  <1>4. CASE \E kind \in Kinds : minted' = M(kind)
    BY <1>2, <1>4 DEF TokensLive, Kinds
  <1>5. CASE minted' = MintPair(M("access"), M("refresh"))
    <2>1. CASE IsError(minted')
      BY <2>1 DEF TokensLive
    <2>2. CASE ~IsError(minted')
      <3>1. /\ ~IsError(M("access")) /\ ~IsError(M("refresh"))
            /\ minted' = <<"pair", M("access"), M("refresh")>>
        BY <1>5, <2>2 DEF MintPair
      <3>2. Lives(M("access")) /\ Lives(M("refresh"))
        BY <1>2, <3>1 DEF Kinds
      <3>. QED  BY <3>1, <3>2 DEF TokensLive
    <2>. QED  BY <2>1, <2>2
  <1>. QED  BY <1>3, <1>4, <1>5 DEF Kinds

\* Whatever lifetimes are configured and given, a token that is minted lives, and so do
\* both of a pair (mintDecisionJwt, mintAccessToken, mintRefreshToken, mintTokenPair).
THEOREM NoTokenBornExpired == Spec => []TokensLive
  <1>1. Init => TokensLive
    BY DEF Init, TokensLive
  <1>2. TokensLive /\ [Next]_vars => TokensLive'
    <2>. SUFFICES ASSUME TokensLive, [Next]_vars PROVE TokensLive'  OBVIOUS
    <2>1. CASE MintTokens
      BY <2>1, MintTokensLives
    <2>2. CASE minted' = minted
      BY <2>2 DEF TokensLive
    <2>3. MintTokens \/ minted' = minted
      BY DEF Next, vars, sdkVars, ExternalStep, Arrive, HandleStep, Receive, Validated,
             Identified, AskPolicy, PolicyThrows, Deliver, WarmNext, BuildFails, HealthCheck, Sign,
             FindSession, SdkCalls, SdkGoesOn, SignOut
    <2>. QED  BY <2>1, <2>2, <2>3
  <1>. QED  BY <1>1, <1>2, PTL DEF Spec
================================================================================
