------------------------------ MODULE SessionRows ------------------------------
(***************************************************************************)
(* ensureSessionRecord of the decision service on the row of one session   *)
(* in auth_sessions: requests of the session read, touch and create it in  *)
(* any order, statements fail, and someone deletes the row.  ForwardAuth   *)
(* models whether the row exists; this module what is in it: the time it   *)
(* was last seen, and which request each fact of its metadata is from.     *)
(* Facts stands for the fields of the metadata (address, agent, host...).  *)
(***************************************************************************)
EXTENDS Naturals, FiniteSets

CONSTANTS
  Requests,     \* requests that carry the session
  Facts,        \* fields of the metadata
  Headers,      \* which of them the headers of each request may tell
  LastHour,     \* bound on the clock
  MaxMishaps,   \* bound on failing statements and deletions
  NoSession,    \* no row
  NoFact,       \* a field that is not set
  Idp           \* whose fact it is when the identity provider told it

Metadata == [Facts -> Requests \cup {Idp, NoFact}]
Row == [seen : Nat, by : Requests, facts : Metadata]

ASSUME HeadersAssumption ==
  /\ Headers \in [Requests -> SUBSET SUBSET Facts]
  /\ NoSession \notin Row /\ Idp \notin Requests /\ NoFact \notin Requests

VARIABLES
  session,      \* the row: seen (last_seen_at), facts (metadata); by: its last writer
  request,      \* what each request holds between its awaits
  standing,     \* the requests whose write no deletion followed
  blind,        \* the requests that had a statement fail
  hour,
  mishaps

sessionVars == <<session, request, standing, blind, hour, mishaps>>

Nothing == [f \in Facts |-> NoFact]

SessionsInit ==
  /\ session = NoSession
  /\ request = [r \in Requests |->
                 [at |-> "arrives", now |-> 0, tells |-> {}, facts |-> Nothing, before |-> {}]]
  /\ standing = {} /\ blind = {} /\ hour = 0 /\ mishaps = 0

-----------------------------------------------------------------------------
(* A bug: the touch stores the metadata of the request, not the merge.     *)
MergedAnew(old, r) == [f \in Facts |-> IF f \in request[r].tells THEN r ELSE NoFact]

(* mergeMetadataRecords: the facts of the request replace those of old.    *)
Merged(old, r) == [f \in Facts |-> IF f \in request[r].tells THEN r ELSE old[f]]

GoTo(r, place) == request' = [request EXCEPT ![r].at = place]

(* The time and the headers are read before the first await.               *)
BeginRequest(r) ==
  /\ request[r].at = "arrives"
  /\ \E told \in Headers[r] :
       request' = [request EXCEPT ![r] =
                    [at |-> "reads", now |-> hour, tells |-> told, facts |-> Nothing,
                     before |-> {q \in Requests : request[q].at = "done"}]]
  /\ UNCHANGED <<session, standing, blind, hour, mishaps>>

GetRow(r) ==
  /\ request[r].at = "reads"
  /\ IF session = NoSession
       THEN GoTo(r, "describes")
       ELSE request' = [request EXCEPT ![r].at = "touches",
                                       ![r].facts = Merged(session.facts, r)]
  /\ UNCHANGED <<session, standing, blind, hour, mishaps>>

(* last_seen_at always, metadata only when there is any.                   *)
Touched(r) ==
  [seen |-> request[r].now, by |-> r,
   facts |-> IF request[r].facts = Nothing THEN session.facts ELSE request[r].facts]

Wrote(r) ==
  /\ GoTo(r, "done")
  /\ standing' = standing \cup {r}
  /\ UNCHANGED <<blind, hour, mishaps>>

(* No row any more is an error, which the caller catches.                  *)
TouchRow(r) ==
  /\ request[r].at = "touches"
  /\ \/ /\ session # NoSession
        /\ session' = Touched(r)
        /\ Wrote(r)
     \/ /\ session = NoSession
        /\ GoTo(r, "describes")
        /\ UNCHANGED <<session, standing, blind, hour, mishaps>>

(* What the identity provider says of the session, if it says anything.    *)
DescribeSession(r) ==
  /\ request[r].at = "describes"
  /\ \E told \in {{}, Facts} :
       request' = [request EXCEPT ![r].at = "creates",
                                  ![r].facts = Merged([f \in Facts |-> IF f \in told THEN Idp
                                                                                     ELSE NoFact], r)]
  /\ UNCHANGED <<session, standing, blind, hour, mishaps>>

(* An upsert that replaces every column.                                   *)
CreateRow(r) ==
  /\ request[r].at = "creates"
  /\ session' = [seen |-> request[r].now, by |-> r, facts |-> request[r].facts]
  /\ Wrote(r)

(* The touch after a create that failed: of the new metadata, unmerged.    *)
FallBack(r) ==
  /\ request[r].at = "falls back"
  /\ \/ /\ session # NoSession
        /\ session' = Touched(r)
        /\ Wrote(r)
     \/ /\ session = NoSession
        /\ GoTo(r, "done")
        /\ UNCHANGED <<session, standing, blind, hour, mishaps>>

(* A statement that fails is logged, and the next one is tried.            *)
AfterFailure(place) ==
  CASE place \in {"reads", "touches"} -> "describes"
    [] place = "creates" -> "falls back"
    [] place = "falls back" -> "done"

StatementFails(r) ==
  /\ request[r].at \in {"reads", "touches", "creates", "falls back"}
  /\ mishaps < MaxMishaps
  /\ GoTo(r, AfterFailure(request[r].at))
  /\ blind' = blind \cup {r}
  /\ mishaps' = mishaps + 1
  /\ UNCHANGED <<session, standing, hour>>

DeleteRow ==
  /\ session # NoSession
  /\ mishaps < MaxMishaps
  /\ session' = NoSession
  /\ standing' = {}
  /\ mishaps' = mishaps + 1
  /\ UNCHANGED <<request, blind, hour>>

HourPasses ==
  /\ hour < LastHour
  /\ hour' = hour + 1
  /\ UNCHANGED <<session, request, standing, blind, mishaps>>

SessionsNext ==
  \/ \E r \in Requests :
       \/ BeginRequest(r) \/ GetRow(r) \/ TouchRow(r) \/ DescribeSession(r)
       \/ CreateRow(r) \/ FallBack(r) \/ StatementFails(r)
  \/ DeleteRow
  \/ HourPasses

SessionsSpec == SessionsInit /\ [][SessionsNext]_sessionVars

-----------------------------------------------------------------------------
(* Neither request had finished when the other began.                      *)
Overlap(q, r) ==
  /\ q # r /\ "arrives" \notin {request[q].at, request[r].at}
  /\ r \notin request[q].before /\ q \notin request[r].before

(* What a request wrote to its session stays until something newer takes   *)
(* its place: the session was last seen no earlier than any request whose  *)
(* write no deletion followed, unless the last writer overlapped it; and a *)
(* fact it told is there, its own or that of a request not finished before *)
(* it, unless a request overlapped it or had a statement fail and so wrote *)
(* over metadata it could not merge.                                       *)
SessionKept ==
  \A r \in standing :
    /\ session.seen >= request[r].now \/ Overlap(session.by, r)
    /\ \A f \in request[r].tells :
         \/ session.facts[f] \in Requests \ request[r].before
         \/ \E q \in Requests : Overlap(q, r) \/ q \in blind
================================================================================
