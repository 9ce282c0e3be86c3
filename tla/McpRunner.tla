------------------------------- MODULE McpRunner -------------------------------
(***************************************************************************)
(* The automation runner: plan and apply of a runbook against Authentik.   *)
(*                                                                         *)
(* apply first plans every action, reading the resource each one names,    *)
(* and only then works through the computed changes; nothing is read again *)
(* before it is changed.  Several runners (operators, pipelines) may work  *)
(* on the same runbook, and Authentik is also changed by others.  Each     *)
(* awaited call is one action.                                             *)
(*                                                                         *)
(* A resource is represented by its properties; equal properties have      *)
(* equal spec hashes.  An action's id is its position in the runbook, and  *)
(* an action that wants Absent is an authentik.delete.                     *)
(***************************************************************************)
EXTENDS Integers, Sequences, FiniteSets

CONSTANTS
  Runners,    \* runner objects working on the runbook
  Resources,  \* Authentik resources, by selector
  Specs,      \* property sets of a resource
  Length,     \* number of actions of the runbook
  Runbooks,   \* the runbooks under consideration
  MaxUpsets,  \* bound: failed calls, crashes and changes made by others
  Absent      \* no resource, no row

Ids == 1..Length
Contents == Specs \cup {Absent}
Action == [resource : Resources, wants : Contents, dependsOn : SUBSET Ids]

ASSUME RunnerConstants ==
  /\ Length \in Nat \ {0}
  /\ MaxUpsets \in Nat
  /\ Runbooks \subseteq [Ids -> Action]

VARIABLES
  runbook,   \* the runbook (validated: every dependency is one of its ids)
  resource,  \* Authentik: resource -> properties, or Absent
  recorded,  \* mcp_run_state: action -> spec_hash of its row, or Absent
  schema,    \* the memoised schemaReady promise of each runner
  pc,        \* where each runner is, between two awaits
  mode,      \* "plan", "dry" (apply as a dry run) or "apply"; "plan" between runs
  plans,     \* the changes planned so far, in runbook order
  status,    \* the outcomes so far (statusById), in runbook order
  upsets,    \* history: failed calls, crashes and changes made by others
  seen,      \* history: actions whose goal held at some time of the run
  reached    \* history: actions whose goal held at some time

vars == <<runbook, resource, recorded, schema, pc, mode, plans, status, upsets, seen, reached>>

Changes == {"noop", "create", "update", "delete"}
Outcomes == {"applied", "noop", "skipped", "failed"}

TypeOK ==
  /\ runbook \in Runbooks
  /\ resource \in [Resources -> Contents]
  /\ recorded \in [Ids -> Contents]
  /\ schema \in [Runners -> {"unknown", "ready", "rejected"}]
  /\ pc \in [Runners -> {"idle", "planning", "applying", "saving", "done"}]
  /\ mode \in [Runners -> {"plan", "dry", "apply"}]
  /\ \A r \in Runners :
       /\ plans[r] \in Seq(Changes) /\ Len(plans[r]) <= Length
       /\ status[r] \in Seq(Outcomes) /\ Len(status[r]) <= Len(plans[r])
  /\ upsets \in 0..MaxUpsets
  /\ seen \in [Runners -> SUBSET Ids]
  /\ reached \subseteq Ids

--------------------------------------------------------------------------------
Holds(i) == resource[runbook[i].resource] = runbook[i].wants
InPlace == {i \in Ids : Holds(i)}

\* Mutant: whatever exists is taken to match.
ChangeIfMissing(i) ==
  CASE Holds(i) \/ (resource[runbook[i].resource] # Absent /\ runbook[i].wants # Absent) -> "noop"
    [] resource[runbook[i].resource] = Absent /\ ~Holds(i) -> "create"
    [] OTHER -> "delete"

\* planAuthentikEnsure and planAuthentikDelete: by what is there now.  The
\* recorded row is read as well, but only shown.
Change(i) ==
  CASE Holds(i) -> "noop"
    [] ~Holds(i) /\ resource[runbook[i].resource] = Absent -> "create"
    [] ~Holds(i) /\ runbook[i].wants = Absent -> "delete"
    [] OTHER -> "update"

Planned(r) == Len(plans[r])
Position(r) == Len(status[r]) + 1
Current(r) == runbook[Position(r)]

Upset == upsets < MaxUpsets /\ upsets' = upsets + 1

\* The action at hand ends with an outcome and the loop goes on.
Settle(r, outcome) ==
  /\ status' = [status EXCEPT ![r] = Append(@, outcome)]
  /\ pc' = [pc EXCEPT ![r] = IF Position(r) = Length THEN "done" ELSE "applying"]

--------------------------------------------------------------------------------
(* Planning.                                                               *)

Start(r, m) ==
  /\ pc[r] = "idle"
  /\ pc' = [pc EXCEPT ![r] = "planning"]
  /\ mode' = [mode EXCEPT ![r] = m]
  /\ UNCHANGED <<runbook, resource, recorded, schema, plans, status, upsets>>

\* planAction reads the state row, then describes the resource.
PlanAction(r) ==
  /\ pc[r] = "planning"
  /\ schema[r] # "rejected"
  /\ schema' = [schema EXCEPT ![r] = "ready"]
  /\ plans' = [plans EXCEPT ![r] = Append(@, Change(Planned(r) + 1))]
  /\ pc' = [pc EXCEPT ![r] =
              CASE Planned(r) + 1 < Length -> "planning"
                [] Planned(r) + 1 = Length /\ mode[r] = "plan" -> "done"
                [] OTHER -> "applying"]
  /\ UNCHANGED <<runbook, resource, recorded, mode, status, upsets>>

\* A run ends: computations and statusById were its own.
Forgotten(r) ==
  /\ pc' = [pc EXCEPT ![r] = "idle"]
  /\ mode' = [mode EXCEPT ![r] = "plan"]
  /\ plans' = [plans EXCEPT ![r] = <<>>]
  /\ status' = [status EXCEPT ![r] = <<>>]
  /\ UNCHANGED <<runbook, resource, recorded>>

\* A failing read or description rejects the whole run.  If it was the creation
\* of the table that failed, the runner keeps the rejected promise and every
\* later run of it fails here as well.
PlanFails(r) ==
  /\ pc[r] = "planning"
  /\ \/ /\ schema[r] = "rejected"
        /\ UNCHANGED <<schema, upsets>>
     \/ /\ schema[r] = "unknown"
        /\ Upset
        /\ schema' = [schema EXCEPT ![r] = "rejected"]
     \/ /\ schema[r] # "rejected"
        /\ Upset
        /\ schema' = [schema EXCEPT ![r] = "ready"]
  /\ Forgotten(r)

--------------------------------------------------------------------------------
(* Applying.                                                               *)

\* Mutant: what was skipped itself blocks nothing.
BlockedByFailure(r) ==
  \E d \in Current(r).dependsOn : d < Position(r) /\ status[r][d] = "failed"

\* Mutant: a dependency without a status blocks as well.
BlockedUnlessDone(r) ==
  \E d \in Current(r).dependsOn :
    d < Position(r) => status[r][d] \in {"failed", "skipped"}

\* A dependency has failed or was skipped.  One that comes later in the runbook
\* has no status yet and blocks nothing.
Blocked(r) ==
  \E d \in Current(r).dependsOn : d < Position(r) /\ status[r][d] \in {"failed", "skipped"}

\* Mutant: dry runs are not told apart.
NotWithheld(r) == FALSE

Withheld(r) == mode[r] = "dry" /\ plans[r][Position(r)] # "noop"

Allowed(r) == pc[r] = "applying" /\ ~Blocked(r) /\ ~Withheld(r)

Skip(r) ==
  /\ pc[r] = "applying"
  /\ Blocked(r) \/ Withheld(r)
  /\ Settle(r, "skipped")
  /\ UNCHANGED <<runbook, resource, recorded, schema, mode, plans, upsets>>

\* createResource, updateResource or deleteResource, as planned.
Touch(r) ==
  /\ Allowed(r)
  /\ plans[r][Position(r)] # "noop"
  /\ plans[r][Position(r)] = "update" => resource[Current(r).resource] # Absent
  /\ resource' = [resource EXCEPT ![Current(r).resource] = Current(r).wants]
  /\ pc' = [pc EXCEPT ![r] = "saving"]
  /\ UNCHANGED <<runbook, recorded, schema, mode, plans, status, upsets>>

\* The call fails, done or not; so does the update of a resource that is gone.
TouchFails(r) ==
  /\ Allowed(r)
  /\ plans[r][Position(r)] # "noop"
  /\ \/ /\ plans[r][Position(r)] = "update"
        /\ resource[Current(r).resource] = Absent
        /\ UNCHANGED <<resource, upsets>>
     \/ /\ resource' \in
             {resource, [resource EXCEPT ![Current(r).resource] = Current(r).wants]}
        /\ Upset
  /\ Settle(r, "failed")
  /\ UNCHANGED <<runbook, recorded, schema, mode, plans>>

Saving(r) == pc[r] = "saving" \/ (Allowed(r) /\ plans[r][Position(r)] = "noop")
Saved(r) == [recorded EXCEPT ![Position(r)] = Current(r).wants]

\* Mutant: the row is written although the change is still to be made.
SaveEarly(r) ==
  /\ pc[r] = "saving" \/ Allowed(r)
  /\ recorded' = Saved(r)
  /\ Settle(r, IF pc[r] = "saving" THEN "applied" ELSE "noop")
  /\ UNCHANGED <<runbook, resource, schema, mode, plans, upsets>>

\* The row is written (ensure) or removed (delete), also when nothing had to be
\* changed, in a dry run too.
Save(r) ==
  /\ Saving(r)
  /\ recorded' = Saved(r)
  /\ Settle(r, IF pc[r] = "saving" THEN "applied" ELSE "noop")
  /\ UNCHANGED <<runbook, resource, schema, mode, plans, upsets>>

\* The statement fails, applied or not, or the telemetry hook throws: the action
\* counts as failed although Authentik has changed.
SaveFails(r) ==
  /\ Saving(r)
  /\ recorded' \in {recorded, Saved(r)}
  /\ Settle(r, "failed")
  /\ Upset
  /\ UNCHANGED <<runbook, resource, schema, mode, plans>>

Return(r) ==
  /\ pc[r] = "done"
  /\ Forgotten(r)
  /\ UNCHANGED <<schema, upsets>>

\* A telemetry hook throws outside the try block, or the process dies and comes
\* back as a new runner.
Abandon(r) ==
  /\ pc[r] \notin {"idle", "done"}
  /\ Upset
  /\ Forgotten(r)
  /\ schema' \in {schema, [schema EXCEPT ![r] = "unknown"]}

\* Somebody else changes a resource.
Drift(x) ==
  /\ Upset
  /\ \E v \in Contents \ {resource[x]} : resource' = [resource EXCEPT ![x] = v]
  /\ UNCHANGED <<runbook, recorded, schema, pc, mode, plans, status>>

--------------------------------------------------------------------------------
Init ==
  /\ runbook \in Runbooks
  /\ resource \in [Resources -> Contents]
  /\ recorded = [i \in Ids |-> Absent]
  /\ schema = [r \in Runners |-> "unknown"]
  /\ pc = [r \in Runners |-> "idle"]
  /\ mode = [r \in Runners |-> "plan"]
  /\ plans = [r \in Runners |-> <<>>]
  /\ status = [r \in Runners |-> <<>>]
  /\ upsets = 0
  /\ seen = [r \in Runners |-> {}]
  /\ reached = InPlace

\* The history variables follow every step.
Observe ==
  /\ reached' = reached \cup InPlace'
  /\ seen' = [r \in Runners |-> IF pc'[r] = "idle" THEN {} ELSE seen[r] \cup InPlace']

Work(r) ==
  \/ PlanAction(r) \/ PlanFails(r)
  \/ Skip(r) \/ Touch(r) \/ TouchFails(r) \/ Save(r) \/ SaveFails(r)
  \/ Return(r)

Next ==
  /\ \/ \E r \in Runners :
          Work(r) \/ Abandon(r) \/ \E m \in {"plan", "dry", "apply"} : Start(r, m)
     \/ \E x \in Resources : Drift(x)
  /\ Observe

Spec == Init /\ [][Next]_vars

\* A run goes on once started, and somebody keeps applying the runbook.
Fairness ==
  \A r \in Runners :
    WF_vars(Work(r) /\ Observe) /\ SF_vars(Start(r, "apply") /\ Observe)

FairSpec == Spec /\ Fairness

--------------------------------------------------------------------------------
(* Properties, whatever the runbook and the number of runners.             *)

\* What a run reports as applied or as nothing to do did hold at some time while
\* it ran, however stale its plan and whoever else changed Authentik.
SuccessReached ==
  \A r \in Runners : \A i \in 1..Len(status[r]) :
    status[r][i] \in {"applied", "noop"} => i \in seen[r]

\* The actions an action names and which come before it.
Direct(i) == {d \in runbook[i].dependsOn : d < i}
Closed(S) == \A k \in S : Direct(k) \subseteq S

\* The actions an action depends on, directly or through others, and which come
\* before it: what every closed set with its direct ones has.
Prerequisites(i) ==
  {p \in Ids : \A S \in SUBSET Ids : Direct(i) \subseteq S /\ Closed(S) => p \in S}

\* Nothing is done for an action of which some prerequisite, near or far, was not
\* reached in the same run ("skipped due to dependency failures").
PrerequisitesReached ==
  \A r \in Runners : \A i \in 1..Len(status[r]) :
    status[r][i] # "skipped" => Prerequisites(i) \subseteq seen[r]

\* A row of mcp_run_state tells of a spec that was in place once.
RecordedReached == \A i \in Ids : recorded[i] # Absent => i \in reached

\* "The CLI enforces dry-run semantics": only an apply that is not a dry run, or
\* somebody else, changes a resource.
DryRunHarmless ==
  [][resource' = resource \/ upsets' # upsets
     \/ \E r \in Runners : mode[r] = "apply" /\ pc[r] = "applying" /\ pc'[r] = "saving"]_vars

\* Runbooks whose actions name different resources converge, whatever fails,
\* drifts or crashes on the way and in whichever order dependencies are listed,
\* unless every runner has lost its table for good.
Converges ==
  <>[](InPlace = Ids \/ \A r \in Runners : schema[r] = "rejected")

\* The last action on a resource.
Last(i) == \A j \in Ids : runbook[j].resource = runbook[i].resource => j <= i

\* "authentik.ensure creates or updates a resource until it matches the provided
\* spec": after a run without any failure or outside change, what the last action
\* on a resource wants is in place.
EnsuredHolds ==
  \A r \in Runners :
    /\ pc[r] = "done" /\ mode[r] = "apply" /\ upsets = 0
    /\ \A i \in Ids : status[r][i] \in {"applied", "noop"}
    => \A i \in Ids : Last(i) => Holds(i)
================================================================================
