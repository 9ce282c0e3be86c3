------------------------------- MODULE JwtService -------------------------------
(***************************************************************************)
(* The JWT service: which token is minted, for whom and for how long, or   *)
(* why none is.  The claims are reduced to the subject, time to the        *)
(* lifetime of a token in seconds.  A lifetime that may be left out is a   *)
(* set of at most one number.  A signature succeeds when the key suits the *)
(* algorithm.                                                              *)
(***************************************************************************)
EXTENDS Integers, FiniteSetsExt

Kinds == {"decision", "access", "refresh"}

\* 55 s, 15 min, 30 days.
UsualTtl(kind) ==
  CASE kind = "decision" -> 55 [] kind = "access" -> 900 [] kind = "refresh" -> 2592000

\* Mutant: a lifetime is taken as it was given.
AnyLifetime(given, usual) == Max(IF given = {} THEN {usual} ELSE given)

\* At least a second.
Lifetime(given, usual) == Max({1} \cup (IF given = {} THEN {usual} ELSE given))

\* A service: for the kinds configured, the lifetime given; the kinds whose key
\* signs.  It does not start without decision tokens.
Startable(ttl) == "decision" \in DOMAIN ttl

\* mintDecisionJwt, mintAccessToken and mintRefreshToken: named when the action, or
\* the subject and the client, are more than blanks.
Mint(ttl, signs, kind, subject, named, given) ==
  IF kind \notin DOMAIN ttl THEN <<"error", "unsupported">>
  ELSE IF ~named THEN <<"error", "invalid">>
  ELSE IF kind \notin signs THEN <<"error", "sign_failed">>
  ELSE <<kind, subject, Lifetime(given, Lifetime(ttl[kind], UsualTtl(kind)))>>

IsError(minted) == minted[1] = "error"

\* The access token, then the refresh token: both or an error.
MintPair(access, refresh) ==
  IF IsError(access) THEN access ELSE IF IsError(refresh) THEN refresh
  ELSE <<"pair", access, refresh>>
================================================================================
