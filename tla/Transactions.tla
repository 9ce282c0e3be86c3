------------------------------ MODULE Transactions -----------------------------
(***************************************************************************)
(* PostgresTransactionManager.runInTransaction and the executor it hands   *)
(* to its callback.  Callers run a callback of two statements each over a  *)
(* pool of connections, or, without a pool, over a bare executor.  A       *)
(* statement may fail, and the callback may pass its error on or swallow   *)
(* it, as the repositories do that turn an error into a result.  A         *)
(* connection may be lost at any statement: Postgres then rolls back and   *)
(* the pool puts a new connection in its place.  What Postgres does with   *)
(* BEGIN, COMMIT and ROLLBACK is external.                                 *)
(***************************************************************************)
EXTENDS Naturals

CONSTANTS
  Callers,      \* calls of runInTransaction
  Connections,  \* clients of the pool
  MaxFaults,    \* bound on failing statements and lost connections
  NoClient      \* holds no connection

Parts == {1, 2}   \* the statements of a callback

VARIABLES
  pooled,       \* whether the manager was given a pool
  idle,         \* the connections nobody holds
  mode,         \* per connection: "none", or in a transaction, "open" or "aborted"
  work,         \* per connection: the statements of its transaction
  call,         \* per caller: where it is, its client, and what happened to it
  database,     \* the statements that took effect
  faults

transactionVars == <<pooled, idle, mode, work, call, database, faults>>

(* A data source without a pool passes its executor alone.                 *)
TransactionsInit ==
  /\ pooled \in BOOLEAN
  /\ idle = Connections
  /\ mode = [c \in Connections |-> "none"]
  /\ work = [c \in Connections |-> {}]
  /\ call = [t \in Callers |->
              [at |-> "calls", client |-> NoClient, part |-> 1, failed |-> FALSE,
               unsure |-> FALSE, threw |-> FALSE]]
  /\ database = {} /\ faults = 0

-----------------------------------------------------------------------------
Reach(t, place) == call' = [call EXCEPT ![t].at = place]

AcquireClient(t) ==
  /\ pooled /\ call[t].at = "calls"
  /\ \E c \in idle :
       /\ idle' = idle \ {c}
       /\ call' = [call EXCEPT ![t].at = "begins", ![t].client = c]
  /\ UNCHANGED <<pooled, mode, work, database, faults>>

(* BEGIN inside a transaction only warns; inside an aborted one it fails.  *)
BeginTransaction(t) ==
  /\ call[t].at = "begins"
  /\ IF mode[call[t].client] = "aborted"
       THEN Reach(t, "rolls back") /\ UNCHANGED mode
       ELSE Reach(t, "runs") /\ mode' = [mode EXCEPT ![call[t].client] = "open"]
  /\ UNCHANGED <<pooled, idle, work, database, faults>>

(* A bug: COMMIT without waiting for the callback.                         *)
OnwardUnawaited(t) == "commits"

(* The next statement of the callback, or the end of the callback.         *)
Onward(t) == IF call[t].part = 2 THEN "commits" ELSE "runs"

RunStatement(t) ==
  /\ call[t].at = "runs" /\ mode[call[t].client] = "open"
  /\ work' = [work EXCEPT ![call[t].client] = @ \cup {<<t, call[t].part>>}]
  /\ call' = [call EXCEPT ![t].at = Onward(t), ![t].part = 2]
  /\ UNCHANGED <<pooled, idle, mode, database, faults>>

(* An error aborts the transaction, and every later statement of it fails. *)
(* The callback throws, or swallows the error and goes on.                 *)
StatementErrs(t) ==
  /\ call[t].at = "runs"
  /\ \/ mode[call[t].client] = "aborted" /\ UNCHANGED faults
     \/ mode[call[t].client] = "open" /\ faults < MaxFaults /\ faults' = faults + 1
  /\ mode' = [mode EXCEPT ![call[t].client] = "aborted"]
  /\ \E place \in {"rolls back", Onward(t)} :
       call' = [call EXCEPT ![t].at = place, ![t].failed = TRUE, ![t].part = 2]
  /\ UNCHANGED <<pooled, idle, work, database>>

(* The callback throws for a reason of its own.                            *)
CallbackThrows(t) ==
  /\ call[t].at = "runs"
  /\ Reach(t, "rolls back")
  /\ UNCHANGED <<pooled, idle, mode, work, database, faults>>

Ended(c) ==
  /\ mode' = [mode EXCEPT ![c] = "none"]
  /\ work' = [work EXCEPT ![c] = {}]

(* COMMIT of an aborted transaction rolls it back and reports no error.    *)
Commit(t) ==
  /\ call[t].at = "commits"
  /\ Ended(call[t].client)
  /\ database' = IF mode[call[t].client] = "open" THEN database \cup work[call[t].client]
                                                  ELSE database
  /\ Reach(t, "releases")
  /\ UNCHANGED <<pooled, idle, faults>>

(* The catch block, whose own failure is suppressed.                       *)
RollBack(t) ==
  /\ call[t].at = "rolls back"
  /\ Ended(call[t].client)
  /\ call' = [call EXCEPT ![t].at = "releases", ![t].threw = TRUE]
  /\ UNCHANGED <<pooled, idle, database, faults>>

(* The connection is lost under a query, or under the callback's own work: *)
(* Postgres rolls back, unless it was the answer to a COMMIT that was lost.*)
(* The query rejects, and a ROLLBACK after that finds nothing to undo.     *)
LoseConnection(t) ==
  /\ call[t].at \in {"begins", "runs", "commits", "rolls back"}
  /\ faults < MaxFaults
  /\ faults' = faults + 1
  /\ Ended(call[t].client)
  /\ \/ UNCHANGED database
     \/ /\ call[t].at = "commits" /\ mode[call[t].client] = "open"
        /\ database' = database \cup work[call[t].client]
  /\ call' = [call EXCEPT ![t].at = "rolls back", ![t].unsure = @ \/ call[t].at = "commits"]
  /\ UNCHANGED <<pooled, idle>>

(* The finally block.                                                      *)
ReleaseClient(t) ==
  /\ call[t].at = "releases"
  /\ idle' = idle \cup {call[t].client}
  /\ call' = [call EXCEPT ![t].at = "returned", ![t].client = NoClient]
  /\ UNCHANGED <<pooled, mode, work, database, faults>>

-----------------------------------------------------------------------------
(* Without a pool the callback runs on the executor, in no transaction.    *)
RunInline(t) ==
  /\ ~pooled /\ call[t].at = "calls"
  /\ \/ /\ database' = database \cup {<<t, call[t].part>>}
        /\ call' = [call EXCEPT ![t].part = 2,
                                ![t].at = IF call[t].part = 2 THEN "returned" ELSE @]
        /\ UNCHANGED faults
     \/ /\ faults < MaxFaults /\ faults' = faults + 1
        /\ \E thrown \in BOOLEAN :
             call' = [call EXCEPT ![t].part = 2, ![t].failed = TRUE, ![t].threw = thrown,
                                  ![t].at = IF thrown \/ call[t].part = 2 THEN "returned" ELSE @]
        /\ UNCHANGED database
  /\ UNCHANGED <<pooled, idle, mode, work>>

TransactionsNext ==
  \E t \in Callers :
    \/ AcquireClient(t) \/ BeginTransaction(t) \/ RunStatement(t) \/ StatementErrs(t)
    \/ CallbackThrows(t) \/ Commit(t) \/ RollBack(t) \/ LoseConnection(t) \/ ReleaseClient(t)
    \/ RunInline(t)

TransactionsSpec == TransactionsInit /\ [][TransactionsNext]_transactionVars

-----------------------------------------------------------------------------
Effect(t) == {p \in Parts : <<t, p>> \in database}

(* What a caller of runInTransaction is told is what the database holds:   *)
(* everything if the call returned and no statement failed; over a pool    *)
(* never a part of it, and nothing, now or through a connection that       *)
(* somebody else is given later, if the call threw, unless the answer to   *)
(* its COMMIT was lost.  A call that returned after its callback swallowed *)
(* a failure may have done nothing.                                        *)
TransactionsWhole ==
  \A t \in Callers : call[t].at = "returned" =>
    /\ ~(call[t].threw \/ call[t].failed) => Effect(t) = Parts
    /\ pooled => /\ Effect(t) \in {{}, Parts}
                 /\ call[t].threw /\ ~call[t].unsure => Effect(t) = {}
================================================================================
