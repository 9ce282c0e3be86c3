---------------------------- MODULE McpRunnerProofs ----------------------------
(***************************************************************************)
(* What runs report and record did hold while they ran, for any runbook    *)
(* and any number of runners: a plan may be stale when it is carried out,  *)
(* but never says of an action that there is nothing to do unless there    *)
(* was, and a touched resource is what the action wants at that moment.    *)
(***************************************************************************)
EXTENDS McpRunner, TLAPS

--------------------------------------------------------------------------------
\* How far a run is, by its place.
Stage(r) ==
  /\ Len(plans[r]) \in 0..Length /\ Len(status[r]) \in 0..Len(plans[r])
  /\ pc[r] = "idle" => Len(plans[r]) = 0
  /\ pc[r] = "planning" => Len(plans[r]) < Length
  /\ pc[r] \in {"idle", "planning"} => Len(status[r]) = 0
  /\ pc[r] \in {"applying", "saving"} =>
       Len(plans[r]) = Length /\ Len(status[r]) < Length /\ mode[r] # "plan"
  /\ pc[r] = "done" /\ mode[r] # "plan" => Len(status[r]) = Length

\* What was nothing to do when planned, or has been done, held during the run.
RunSound(r) ==
  /\ \A i \in 1..Len(plans[r]) : plans[r][i] = "noop" => i \in seen[r]
  /\ \A i \in 1..Len(status[r]) : status[r][i] \in {"applied", "noop"} => i \in seen[r]
  /\ pc[r] = "saving" => Position(r) \in seen[r]
  /\ seen[r] \subseteq reached

Done(r) == {i \in 1..Len(status[r]) : status[r][i] \in {"applied", "noop"}}

\* What was tried, or is being saved, had all its direct prerequisites done.
RunOrdered(r) ==
  /\ \A i \in 1..Len(status[r]) : status[r][i] # "skipped" => Direct(i) \subseteq Done(r)
  /\ pc[r] = "saving" => ~Blocked(r)

RunnerInv ==
  /\ runbook \in Runbooks
  /\ resource \in [Resources -> Contents]
  /\ recorded \in [Ids -> Contents]
  /\ schema \in [Runners -> {"unknown", "ready", "rejected"}]
  /\ pc \in [Runners -> {"idle", "planning", "applying", "saving", "done"}]
  /\ mode \in [Runners -> {"plan", "dry", "apply"}]
  /\ plans \in [Runners -> Seq(Changes)]
  /\ status \in [Runners -> Seq(Outcomes)]
  /\ upsets \in 0..MaxUpsets
  /\ seen \in [Runners -> SUBSET Ids]
  /\ reached \subseteq Ids
  /\ \A r \in Runners : Stage(r) /\ RunSound(r) /\ RunOrdered(r)
  /\ RecordedReached

--------------------------------------------------------------------------------
\* The runbook's actions are what they should be.
LEMMA Actions ==
  ASSUME RunnerInv, NEW i \in Ids
  PROVE  runbook[i] \in Action /\ runbook[i].resource \in Resources /\ runbook[i].wants \in Contents
  <1>1. runbook \in [Ids -> Action]
    BY RunnerConstants DEF RunnerInv
  <1>. QED  BY <1>1 DEF Action

\* A runner that carries on works on one of its actions, and has planned it.
LEMMA AtWork ==
  ASSUME RunnerInv, NEW r \in Runners, pc[r] \in {"applying", "saving"}
  PROVE  /\ Position(r) \in Ids /\ Len(plans[r]) = Length /\ Len(status[r]) \in Nat
         /\ Position(r) = Len(status[r]) + 1 /\ Position(r) <= Length
         /\ Current(r) \in Action /\ Current(r).resource \in Resources
         /\ Current(r).wants \in Contents
  <1>1. Len(status[r]) \in Nat /\ Len(status[r]) < Length /\ Len(plans[r]) = Length
    BY RunnerConstants DEF RunnerInv, Stage
  <1>2. Position(r) \in Ids /\ Position(r) = Len(status[r]) + 1 /\ Position(r) <= Length
    BY <1>1, RunnerConstants DEF Position, Ids
  <1>. QED  BY <1>1, <1>2, Actions DEF Current

\* The history variables keep what they have, while a run lasts, and add what holds.
LEMMA Observed ==
  ASSUME RunnerInv, Observe,
         resource' \in [Resources -> Contents], runbook' = runbook
  PROVE  /\ seen' \in [Runners -> SUBSET Ids]
         /\ reached' \subseteq Ids /\ reached \subseteq reached'
         /\ \A r \in Runners : pc'[r] # "idle" => seen[r] \subseteq seen'[r]
         /\ \A r \in Runners : pc'[r] # "idle" => InPlace' \subseteq seen'[r]
         /\ \A r \in Runners : seen'[r] \subseteq reached'
  <1>1. InPlace' \subseteq Ids
    BY DEF InPlace
  <1>2. reached' = reached \cup InPlace'
    BY DEF Observe
  <1>3. seen' = [r \in Runners |-> IF pc'[r] = "idle" THEN {} ELSE seen[r] \cup InPlace']
    BY DEF Observe
  <1>4. \A r \in Runners : seen[r] \subseteq reached /\ seen[r] \subseteq Ids
    BY DEF RunnerInv, RunSound
  <1>. HIDE DEF InPlace
  <1>. QED  BY <1>1, <1>2, <1>3, <1>4 DEF RunnerInv

\* A runner that took no part is as sound as before.
LEMMA OthersSound ==
  ASSUME RunnerInv, Observe, resource' \in [Resources -> Contents], runbook' = runbook,
         NEW r \in Runners, pc'[r] = pc[r], plans'[r] = plans[r], status'[r] = status[r],
         mode'[r] = mode[r]
  PROVE  Stage(r)' /\ RunSound(r)' /\ RunOrdered(r)'
  <1>1. Stage(r) /\ RunSound(r) /\ RunOrdered(r)
    BY DEF RunnerInv
  <1>2. Stage(r)'
    BY <1>1 DEF Stage
  <1>3. pc[r] # "idle" => seen[r] \subseteq seen'[r]
    BY Observed
  <1>4. seen'[r] \subseteq reached'
    BY Observed
  <1>5. pc[r] = "idle" => Len(plans[r]) = 0 /\ Len(status[r]) = 0
    BY <1>1 DEF Stage
  <1>6. RunOrdered(r)'
    BY <1>1 DEF RunOrdered, Done, Direct, Blocked, Current, Position
  <1>7. RunSound(r)'
    BY <1>1, <1>2, <1>3, <1>4, <1>5 DEF RunSound, Position
  <1>. QED  BY <1>2, <1>6, <1>7

--------------------------------------------------------------------------------
\* The shape of a step of one runner.
Steps(r) ==
  /\ runbook' = runbook
  /\ resource' \in [Resources -> Contents]
  /\ schema' \in [Runners -> {"unknown", "ready", "rejected"}]
  /\ pc' \in [Runners -> {"idle", "planning", "applying", "saving", "done"}]
  /\ mode' \in [Runners -> {"plan", "dry", "apply"}]
  /\ plans' \in [Runners -> Seq(Changes)]
  /\ status' \in [Runners -> Seq(Outcomes)]
  /\ upsets' \in 0..MaxUpsets
  /\ \A q \in Runners \ {r} :
       pc'[q] = pc[q] /\ plans'[q] = plans[q] /\ status'[q] = status[q] /\ mode'[q] = mode[q]

\* The invariant after a step of one runner, from its parts.
LEMMA StepKeeps ==
  ASSUME RunnerInv, Observe, NEW r \in Runners, Steps(r),
         Stage(r)', RunSound(r)', RunOrdered(r)',
         recorded' \in [Ids -> Contents],
         \A i \in Ids : recorded'[i] # Absent => recorded'[i] = recorded[i] \/ i \in reached'
  PROVE  RunnerInv'
  <1>1. \A q \in Runners : Stage(q)' /\ RunSound(q)' /\ RunOrdered(q)'
    BY OthersSound DEF Steps
  <1>2. RecordedReached'
    BY Observed DEF RecordedReached, RunnerInv, Steps
  <1>. QED  BY <1>1, <1>2, Observed DEF RunnerInv, Steps

\* A run that ends leaves nothing.
LEMMA ForgottenKeeps ==
  ASSUME RunnerInv, Observe, NEW r \in Runners, Forgotten(r),
         schema' \in [Runners -> {"unknown", "ready", "rejected"}], upsets' \in 0..MaxUpsets
  PROVE  RunnerInv'
  <1>0. <<>> \in Seq(Changes) /\ <<>> \in Seq(Outcomes)
    OBVIOUS
  <1>1. Steps(r)
    <2>1. plans' \in [Runners -> Seq(Changes)] /\ status' \in [Runners -> Seq(Outcomes)]
      BY <1>0 DEF Forgotten, RunnerInv
    <2>. QED  BY <2>1 DEF Forgotten, Steps, RunnerInv
  <1>2. pc'[r] = "idle" /\ plans'[r] = <<>> /\ status'[r] = <<>>
    BY DEF Forgotten, RunnerInv
  <1>3. Stage(r)'
    BY <1>2, RunnerConstants DEF Stage
  <1>4. RunSound(r)'
    BY <1>1, <1>2, Observed DEF RunSound, Steps
  <1>5. RunOrdered(r)'
    BY <1>2 DEF RunOrdered
  <1>. QED  BY <1>1, <1>3, <1>4, <1>5, StepKeeps DEF Forgotten, RunnerInv

\* What was tried of an action that is not blocked has its direct prerequisites done.
LEMMA UnblockedDirect ==
  ASSUME RunnerInv, NEW r \in Runners, pc[r] \in {"applying", "saving"}, ~Blocked(r)
  PROVE  Direct(Position(r)) \subseteq Done(r)
  <1>1. /\ Position(r) \in Ids /\ Len(status[r]) \in Nat /\ Position(r) = Len(status[r]) + 1
        /\ Current(r).dependsOn \subseteq Ids
    BY AtWork DEF Action
  <1>. SUFFICES ASSUME NEW d \in Direct(Position(r)) PROVE d \in Done(r)
    OBVIOUS
  <1>2. d \in Current(r).dependsOn /\ d < Position(r)
    BY DEF Direct, Current
  <1>3. d \in Int /\ d >= 1
    BY <1>1, <1>2, RunnerConstants DEF Ids
  <1>4. d \in 1..Len(status[r])
    BY <1>1, <1>2, <1>3
  <1>5. status[r][d] \in Outcomes
    <2>1. status[r] \in Seq(Outcomes)
      BY DEF RunnerInv
    <2>. QED  BY <1>4, <2>1
  <1>6. status[r][d] \notin {"failed", "skipped"}
    BY <1>2 DEF Blocked
  <1>. QED  BY <1>4, <1>5, <1>6 DEF Done, Outcomes

\* The action at hand ends: an outcome that says it is done must be borne out, and
\* one that says it was tried comes of an action that is not blocked.
LEMMA SettleKeeps ==
  ASSUME RunnerInv, Observe, NEW r \in Runners, NEW outcome \in Outcomes, Settle(r, outcome),
         pc[r] \in {"applying", "saving"},
         runbook' = runbook, resource' \in [Resources -> Contents],
         UNCHANGED <<schema, mode, plans>>, upsets' \in 0..MaxUpsets,
         outcome \in {"applied", "noop"} => Position(r) \in seen[r],
         outcome # "skipped" => ~Blocked(r),
         recorded' \in [Ids -> Contents],
         \A i \in Ids : recorded'[i] # Absent => recorded'[i] = recorded[i] \/ i \in reached
  PROVE  RunnerInv'
  <1>1. Len(status[r]) \in Nat /\ Len(plans[r]) = Length /\ Position(r) = Len(status[r]) + 1
        /\ Position(r) <= Length /\ status[r] \in Seq(Outcomes)
    BY AtWork DEF RunnerInv
  <1>2. /\ status' = [status EXCEPT ![r] = Append(@, outcome)]
        /\ pc' = [pc EXCEPT ![r] = IF Position(r) = Length THEN "done" ELSE "applying"]
    BY DEF Settle
  <1>3. /\ status'[r] = Append(status[r], outcome)
        /\ pc'[r] = IF Position(r) = Length THEN "done" ELSE "applying"
    BY <1>2 DEF RunnerInv
  <1>4. /\ status'[r] \in Seq(Outcomes) /\ Len(status'[r]) = Position(r)
        /\ \A i \in 1..Len(status[r]) : status'[r][i] = status[r][i]
        /\ status'[r][Position(r)] = outcome
    BY <1>1, <1>3
  <1>5. status' \in [Runners -> Seq(Outcomes)]
    BY <1>2, <1>3, <1>4 DEF RunnerInv
  <1>6. Steps(r)
    BY <1>2, <1>5 DEF Steps, RunnerInv
  <1>7. Stage(r)'
    BY <1>1, <1>3, <1>4, RunnerConstants DEF Stage, RunnerInv
  <1>8. RunSound(r)'
    <2>1. seen[r] \subseteq seen'[r] /\ seen'[r] \subseteq reached'
      BY <1>3, Observed
    <2>2. RunSound(r)
      BY DEF RunnerInv
    <2>3. \A i \in 1..Len(status'[r]) : i \in 1..Len(status[r]) \/ i = Position(r)
      BY <1>1, <1>4
    <2>. QED  BY <1>3, <1>4, <2>1, <2>2, <2>3 DEF RunSound
  <1>9. reached \subseteq reached'
    BY Observed
  <1>10. RunOrdered(r)'
    <2>1. Done(r) \subseteq Done(r)'
      BY <1>1, <1>4 DEF Done
    <2>2. \A i \in 1..Len(status[r]) : status[r][i] # "skipped" => Direct(i) \subseteq Done(r)
      BY DEF RunnerInv, RunOrdered
    <2>3. outcome # "skipped" => Direct(Position(r)) \subseteq Done(r)
      BY UnblockedDirect
    <2>4. \A i \in 1..Len(status'[r]) : i \in 1..Len(status[r]) \/ i = Position(r)
      BY <1>1, <1>4
    <2>5. \A i : Direct(i)' = Direct(i)
      BY DEF Direct
    <2>6. pc'[r] # "saving"
      BY <1>3
    <2>. QED  BY <1>4, <2>1, <2>2, <2>3, <2>4, <2>5, <2>6 DEF RunOrdered
  <1>. QED  BY <1>6, <1>7, <1>8, <1>9, <1>10, StepKeeps

--------------------------------------------------------------------------------
(* The actions, one lemma each.                                            *)

\* A run starts with nothing planned and nothing done.
LEMMA StartKeeps ==
  ASSUME RunnerInv, Observe, NEW r \in Runners, NEW m \in {"plan", "dry", "apply"}, Start(r, m)
  PROVE  RunnerInv'
  <1>1. /\ Stage(r) /\ pc[r] = "idle" /\ pc'[r] = "planning"
        /\ UNCHANGED <<plans, status, resource, runbook>>
    BY DEF Start, RunnerInv
  <1>2. Len(plans[r]) = 0 /\ Len(status[r]) = 0
    BY <1>1 DEF Stage
  <1>3. Steps(r)
    BY DEF Start, Steps, RunnerInv
  <1>4. Stage(r)'
    BY <1>1, <1>2, RunnerConstants DEF Stage
  <1>5. RunSound(r)'
    BY <1>1, <1>2, <1>3, Observed DEF RunSound, Steps
  <1>6. RunOrdered(r)'
    BY <1>1, <1>2 DEF RunOrdered
  <1>. QED  BY <1>3, <1>4, <1>5, <1>6, StepKeeps DEF Start, RunnerInv

\* What is planned as nothing to do holds as it is planned.
LEMMA PlanActionKeeps ==
  ASSUME RunnerInv, Observe, NEW r \in Runners, PlanAction(r)
  PROVE  RunnerInv'
  <1>. DEFINE n == Len(plans[r]) + 1
              change == Change(n)
  <1>1. /\ UNCHANGED <<runbook, resource, recorded, mode, status, upsets>>
        /\ pc[r] = "planning" /\ schema' = [schema EXCEPT ![r] = "ready"]
        /\ plans' = [plans EXCEPT ![r] = Append(@, change)]
    BY DEF PlanAction, Planned
  <1>2. /\ Len(plans[r]) \in Nat /\ Len(plans[r]) < Length /\ Len(status[r]) = 0
        /\ plans[r] \in Seq(Changes)
    BY <1>1 DEF RunnerInv, Stage
  <1>3. n \in Ids
    BY <1>2, RunnerConstants DEF Ids
  <1>4. change \in Changes /\ (change = "noop" => n \in InPlace)
    BY <1>3 DEF Change, Changes, InPlace
  <1>5. pc' = [pc EXCEPT ![r] = IF n < Length THEN "planning"
                                ELSE IF mode[r] = "plan" THEN "done" ELSE "applying"]
    <2>. DEFINE to == CASE n < Length -> "planning"
                        [] n = Length /\ mode[r] = "plan" -> "done"
                        [] OTHER -> "applying"
    <2>1. pc' = [pc EXCEPT ![r] = to]
      BY DEF PlanAction, Planned
    <2>2. n \in Int /\ Length \in Int /\ (n < Length \/ n = Length)
      BY <1>2, RunnerConstants
    <2>3. to = IF n < Length THEN "planning" ELSE IF mode[r] = "plan" THEN "done" ELSE "applying"
      <3>. HIDE DEF n
      <3>1. CASE n < Length
        BY <2>2, <3>1
      <3>2. CASE n = Length /\ mode[r] = "plan"
        BY <2>2, <3>2
      <3>3. CASE n = Length /\ mode[r] # "plan"
        BY <2>2, <3>3
      <3>. QED  BY <2>2, <3>1, <3>2, <3>3
    <2>. QED  BY <2>1, <2>3
  <1>. HIDE DEF change
  <1>6. plans'[r] = Append(plans[r], change)
    BY <1>1 DEF RunnerInv
  <1>7. /\ plans'[r] \in Seq(Changes) /\ Len(plans'[r]) = n
        /\ \A i \in 1..Len(plans[r]) : plans'[r][i] = plans[r][i]
        /\ plans'[r][n] = change
    BY <1>2, <1>4, <1>6
  <1>8. plans' \in [Runners -> Seq(Changes)]
    BY <1>1, <1>6, <1>7 DEF RunnerInv
  <1>9. Steps(r)
    <2>1. /\ pc' \in [Runners -> {"idle", "planning", "applying", "saving", "done"}]
          /\ \A q \in Runners \ {r} : pc'[q] = pc[q]
      BY <1>5 DEF RunnerInv
    <2>. QED  BY <1>1, <1>8, <2>1 DEF Steps, RunnerInv
  <1>10. pc'[r] = IF n < Length THEN "planning" ELSE IF mode[r] = "plan" THEN "done" ELSE "applying"
    BY <1>5 DEF RunnerInv
  <1>11. Stage(r)'
    BY <1>1, <1>2, <1>7, <1>10, RunnerConstants DEF Stage
  <1>12. RunSound(r)'
    <2>1. seen[r] \subseteq seen'[r] /\ seen'[r] \subseteq reached' /\ InPlace' \subseteq seen'[r]
      BY <1>1, <1>9, <1>10, Observed DEF Steps
    <2>2. InPlace' = InPlace
      BY <1>1 DEF InPlace, Holds
    <2>3. RunSound(r)
      BY DEF RunnerInv
    <2>4. \A i \in 1..Len(plans'[r]) : i \in 1..Len(plans[r]) \/ i = n
      BY <1>2, <1>7
    <2>5. \A i \in 1..Len(plans'[r]) : plans'[r][i] = "noop" => i \in seen'[r]
      BY <1>4, <1>7, <2>1, <2>2, <2>3, <2>4 DEF RunSound
    <2>6. Len(status'[r]) = 0 /\ pc'[r] # "saving"
      BY <1>1, <1>2, <1>10
    <2>. QED  BY <2>1, <2>5, <2>6 DEF RunSound
  <1>13. RunOrdered(r)'
    BY <1>1, <1>2, <1>10 DEF RunOrdered
  <1>. QED  BY <1>1, <1>9, <1>11, <1>12, <1>13, StepKeeps DEF RunnerInv

\* Upsets stay within their bound.
LEMMA UpsetType ==
  ASSUME upsets \in 0..MaxUpsets, Upset
  PROVE  upsets' \in 0..MaxUpsets
  BY RunnerConstants DEF Upset

\* A run that fails, returns or is abandoned.
LEMMA EndKeeps ==
  ASSUME RunnerInv, Observe, NEW r \in Runners, PlanFails(r) \/ Return(r) \/ Abandon(r)
  PROVE  RunnerInv'
  <1>1. Forgotten(r)
    BY DEF PlanFails, Return, Abandon
  <1>2. upsets' \in 0..MaxUpsets
    BY UpsetType DEF PlanFails, Return, Abandon, RunnerInv
  <1>3. schema' \in [Runners -> {"unknown", "ready", "rejected"}]
    BY DEF PlanFails, Return, Abandon, RunnerInv
  <1>. QED  BY <1>1, <1>2, <1>3, ForgottenKeeps

\* A skipped action says nothing of what held.
LEMMA SkipKeeps ==
  ASSUME RunnerInv, Observe, NEW r \in Runners, Skip(r)
  PROVE  RunnerInv'
  BY SettleKeeps DEF Skip, RunnerInv, Outcomes

\* What was touched holds at that moment.
LEMMA TouchKeeps ==
  ASSUME RunnerInv, Observe, NEW r \in Runners, Touch(r)
  PROVE  RunnerInv'
  <1>1. /\ pc[r] = "applying" /\ pc'[r] = "saving"
        /\ UNCHANGED <<runbook, recorded, schema, mode, plans, status, upsets>>
    BY DEF Touch, Allowed, RunnerInv
  <1>2. /\ resource' \in [Resources -> Contents]
        /\ resource'[Current(r).resource] = Current(r).wants
    BY <1>1, AtWork DEF Touch, RunnerInv
  <1>3. Position(r) \in InPlace'
    BY <1>1, <1>2, AtWork DEF InPlace, Holds, Current, Position
  <1>4. Steps(r)
    BY <1>1, <1>2 DEF Touch, Steps, RunnerInv
  <1>5. Stage(r)'
    BY <1>1 DEF Stage, RunnerInv
  <1>6. RunSound(r)'
    <2>1. seen[r] \subseteq seen'[r] /\ seen'[r] \subseteq reached' /\ InPlace' \subseteq seen'[r]
      BY <1>1, <1>2, Observed
    <2>2. Position(r) \in seen'[r] /\ Position(r)' = Position(r)
      BY <1>1, <1>3, <2>1 DEF Position
    <2>. QED  BY <1>1, <2>1, <2>2 DEF RunSound, RunnerInv
  <1>7. RunOrdered(r)'
    <2>1. RunOrdered(r) /\ ~Blocked(r)
      BY DEF RunnerInv, Touch, Allowed
    <2>. QED  BY <1>1, <2>1 DEF RunOrdered, Done, Direct, Blocked, Current, Position
  <1>. QED  BY <1>1, <1>4, <1>5, <1>6, <1>7, StepKeeps DEF RunnerInv

\* A failed action says nothing of it either, whether Authentik changed or not.
LEMMA TouchFailsKeeps ==
  ASSUME RunnerInv, Observe, NEW r \in Runners, TouchFails(r)
  PROVE  RunnerInv'
  <1>1. /\ pc[r] = "applying" /\ ~Blocked(r) /\ Settle(r, "failed")
        /\ UNCHANGED <<runbook, recorded, schema, mode, plans>>
    BY DEF TouchFails, Allowed
  <1>2. resource' \in [Resources -> Contents]
    BY <1>1, AtWork DEF TouchFails, RunnerInv
  <1>3. upsets' \in 0..MaxUpsets
    BY UpsetType DEF TouchFails, RunnerInv
  <1>. QED  BY <1>1, <1>2, <1>3, SettleKeeps DEF RunnerInv, Outcomes

\* The action is borne out when its row is written.
LEMMA SavingSeen ==
  ASSUME RunnerInv, NEW r \in Runners, Saving(r)
  PROVE  /\ pc[r] \in {"applying", "saving"} /\ Position(r) \in seen[r] /\ ~Blocked(r)
         /\ Saved(r) \in [Ids -> Contents]
         /\ \A i \in Ids : Saved(r)[i] = recorded[i] \/ i \in reached
  <1>1. pc[r] \in {"applying", "saving"} /\ RunSound(r)
    BY DEF Saving, Allowed, RunnerInv
  <1>2. Position(r) \in seen[r]
    BY <1>1, AtWork DEF Saving, RunSound, Ids
  <1>3. Position(r) \in reached
    BY <1>1, <1>2 DEF RunSound
  <1>4. ~Blocked(r)
    BY DEF Saving, Allowed, RunnerInv, RunOrdered
  <1>. QED  BY <1>1, <1>2, <1>3, <1>4, AtWork DEF Saved, RunnerInv

\* The row is written, or the attempt at it fails.
LEMMA SaveKeeps ==
  ASSUME RunnerInv, Observe, NEW r \in Runners, Save(r) \/ SaveFails(r)
  PROVE  RunnerInv'
  <1>1. Saving(r) /\ recorded' \in {recorded, Saved(r)}
        /\ UNCHANGED <<runbook, resource, schema, mode, plans>>
    BY DEF Save, SaveFails
  <1>2. upsets' \in 0..MaxUpsets
    BY UpsetType DEF Save, SaveFails, RunnerInv
  <1>3. PICK outcome \in Outcomes : Settle(r, outcome)
    BY DEF Save, SaveFails, Outcomes
  <1>4. recorded' \in [Ids -> Contents]
        /\ \A i \in Ids : recorded'[i] # Absent => recorded'[i] = recorded[i] \/ i \in reached
    BY <1>1, SavingSeen DEF RunnerInv
  <1>. QED  BY <1>1, <1>2, <1>3, <1>4, SavingSeen, SettleKeeps DEF RunnerInv

\* What others change was in place before all the same.
LEMMA DriftKeeps ==
  ASSUME RunnerInv, Observe, NEW x \in Resources, Drift(x)
  PROVE  RunnerInv'
  <1>1. /\ UNCHANGED <<runbook, recorded, schema, pc, mode, plans, status>>
        /\ resource' \in [Resources -> Contents] /\ upsets' \in 0..MaxUpsets
    BY UpsetType DEF Drift, RunnerInv
  <1>2. \A q \in Runners : Stage(q)' /\ RunSound(q)' /\ RunOrdered(q)'
    BY <1>1, OthersSound
  <1>3. RecordedReached'
    BY <1>1, Observed DEF RecordedReached, RunnerInv
  <1>. QED  BY <1>1, <1>2, <1>3, Observed DEF RunnerInv

--------------------------------------------------------------------------------
\* At the start nothing is planned, done or recorded.
LEMMA InitRunner == Init => RunnerInv
  <1>. SUFFICES ASSUME Init PROVE RunnerInv
    OBVIOUS
  <1>1. <<>> \in Seq(Changes) /\ <<>> \in Seq(Outcomes) /\ Len(<<>>) = 0
    OBVIOUS
  <1>2. plans \in [Runners -> Seq(Changes)] /\ status \in [Runners -> Seq(Outcomes)]
    BY <1>1 DEF Init
  <1>3. \A r \in Runners : plans[r] = <<>> /\ status[r] = <<>> /\ pc[r] = "idle" /\ seen[r] = {}
    BY DEF Init
  <1>4. \A r \in Runners : Stage(r) /\ RunSound(r) /\ RunOrdered(r)
    BY <1>1, <1>3, RunnerConstants DEF Stage, RunSound, RunOrdered
  <1>5. reached \subseteq Ids
    BY DEF Init, InPlace
  <1>6. RecordedReached
    BY DEF Init, RecordedReached
  <1>7. recorded \in [Ids -> Contents]
    BY DEF Init, Contents
  <1>. QED  BY <1>2, <1>4, <1>5, <1>6, <1>7, RunnerConstants DEF Init, RunnerInv

\* Every step keeps the invariant.
LEMMA NextRunner == RunnerInv /\ [Next]_vars => RunnerInv'
  <1>. SUFFICES ASSUME RunnerInv, [Next]_vars PROVE RunnerInv'
    OBVIOUS
  <1>1. CASE UNCHANGED vars
    BY <1>1 DEF vars, RunnerInv, Stage, RunSound, RunOrdered, Done, Direct, Blocked, Current,
                Position, RecordedReached
  <1>2. CASE Next
    BY <1>2, StartKeeps, PlanActionKeeps, EndKeeps, SkipKeeps, TouchKeeps, TouchFailsKeeps,
       SaveKeeps, DriftKeeps DEF Next, Work
  <1>. QED  BY <1>1, <1>2

\* The invariant of the runners.
THEOREM RunnerInvHolds == Spec => []RunnerInv
  BY InitRunner, NextRunner, PTL DEF Spec

\* Every reachable state of any number of runners is well typed.
THEOREM RunnerTypes == Spec => []TypeOK
  <1>1. RunnerInv => TypeOK
    BY DEF RunnerInv, TypeOK, Stage
  <1>. QED  BY <1>1, RunnerInvHolds, PTL

\* What a run reports as applied or as nothing to do did hold while it ran, however many
\* runners work on the runbook and however stale the plan (apply, planAuthentikEnsure).
THEOREM SuccessRests == Spec => []SuccessReached
  <1>1. RunnerInv => SuccessReached
    BY DEF RunnerInv, SuccessReached, RunSound
  <1>. QED  BY <1>1, RunnerInvHolds, PTL

\* Nothing is done for an action of which some prerequisite, near or far, was not reached
\* in the same run, whatever the runbook's dependencies, cycles included (blockedBy in
\* apply).
THEOREM PrerequisitesRest == Spec => []PrerequisitesReached
  <1>1. RunnerInv => PrerequisitesReached
    <2>. SUFFICES ASSUME RunnerInv, NEW r \in Runners, NEW i \in 1..Len(status[r]),
                         status[r][i] # "skipped"
                  PROVE  Prerequisites(i) \subseteq seen[r]
      BY DEF PrerequisitesReached
    <2>1. Stage(r) /\ RunSound(r) /\ RunOrdered(r)
      BY DEF RunnerInv
    <2>2. Done(r) \subseteq Ids
      BY <2>1, RunnerConstants DEF Done, Stage, Ids
    <2>3. Direct(i) \subseteq Done(r)
      BY <2>1 DEF RunOrdered
    <2>4. Closed(Done(r))
      BY <2>1 DEF RunOrdered, Done, Closed
    <2>5. Prerequisites(i) \subseteq Done(r)
      BY <2>2, <2>3, <2>4 DEF Prerequisites
    <2>6. Done(r) \subseteq seen[r]
      BY <2>1 DEF RunSound, Done
    <2>. QED  BY <2>5, <2>6
  <1>. QED  BY <1>1, RunnerInvHolds, PTL

\* A row of mcp_run_state tells of a spec that was in place once (saveState).
THEOREM RowsRest == Spec => []RecordedReached
  <1>1. RunnerInv => RecordedReached
    BY DEF RunnerInv
  <1>. QED  BY <1>1, RunnerInvHolds, PTL

--------------------------------------------------------------------------------
(* What a step without a failure, a crash or an outside change does.       *)

\* Such a step changes Authentik only by carrying out a planned change.
LEMMA OnlyTouched ==
  ASSUME RunnerInv, Next, upsets' = upsets, resource' # resource
  PROVE  \E r \in Runners : Touch(r)
  <1>1. upsets + 1 # upsets
    BY RunnerConstants DEF RunnerInv
  <1>2. ~ \E x \in Resources : Drift(x)
    BY <1>1 DEF Drift, Upset
  <1>. QED
    BY <1>1, <1>2
       DEF Next, Work, PlanAction, PlanFails, Forgotten, Skip, TouchFails, Save, SaveFails,
           Return, Abandon, Start, Upset

\* Failures, crashes and outside changes are only ever counted up.
LEMMA UpsetsGrow ==
  ASSUME RunnerInv, [Next]_vars
  PROVE  upsets' = upsets \/ upsets' = upsets + 1
  BY DEF Next, Work, PlanAction, PlanFails, Forgotten, Skip, Touch, TouchFails, Save, SaveFails,
         Return, Abandon, Start, Drift, Upset, vars

\* Only an apply that is not a dry run, or somebody else, changes a resource (the
\* dry-run branch of apply).
THEOREM DryRunsChangeNothing == Spec => DryRunHarmless
  <1>1. RunnerInv /\ [Next]_vars =>
          [resource' = resource \/ upsets' # upsets
           \/ \E r \in Runners :
                mode[r] = "apply" /\ pc[r] = "applying" /\ pc'[r] = "saving"]_vars
    <2>. SUFFICES ASSUME RunnerInv, Next, resource' # resource, upsets' = upsets
                  PROVE  \E r \in Runners :
                           mode[r] = "apply" /\ pc[r] = "applying" /\ pc'[r] = "saving"
      BY DEF vars
    <2>1. PICK r \in Runners : Touch(r)
      BY OnlyTouched
    <2>2. pc[r] = "applying" /\ pc'[r] = "saving" /\ mode[r] # "dry"
      BY <2>1 DEF Touch, Allowed, Withheld, RunnerInv
    <2>3. mode[r] = "apply"
      BY <2>2 DEF RunnerInv, Stage
    <2>. QED  BY <2>2, <2>3
  <1>. QED  BY <1>1, RunnerInvHolds, PTL DEF Spec, DryRunHarmless

--------------------------------------------------------------------------------
(* What ensuring achieves.                                                 *)

\* Actions that name the same resource want the same of it.
Agreeing ==
  \A b \in Runbooks : \A i, j \in Ids :
    b[i].resource = b[j].resource => b[i].wants = b[j].wants

\* As long as nothing fails, crashes or is changed by others, what was in place stays.
Steady == upsets = 0 => reached \subseteq InPlace

\* Carrying out a change undoes what no agreeing action wants.
LEMMA TouchSteady ==
  ASSUME Agreeing, RunnerInv, NEW r \in Runners, Touch(r)
  PROVE  InPlace \subseteq InPlace'
  <1>1. /\ Position(r) \in Ids /\ Current(r).resource \in Resources /\ runbook \in Runbooks
        /\ runbook' = runbook /\ resource \in [Resources -> Contents]
        /\ resource' = [resource EXCEPT ![Current(r).resource] = Current(r).wants]
    BY AtWork DEF Touch, Allowed, RunnerInv
  <1>. SUFFICES ASSUME NEW i \in InPlace PROVE i \in InPlace'
    OBVIOUS
  <1>2. i \in Ids /\ resource[runbook[i].resource] = runbook[i].wants
        /\ runbook[i].resource \in Resources
    BY Actions DEF InPlace, Holds
  <1>3. runbook[i].resource = Current(r).resource => runbook[i].wants = Current(r).wants
    BY <1>1, <1>2 DEF Agreeing, Current
  <1>4. resource'[runbook[i].resource] = runbook[i].wants
    BY <1>1, <1>2, <1>3
  <1>. QED  BY <1>1, <1>2, <1>4 DEF InPlace, Holds

\* Every step of a runbook whose actions agree is steady.
LEMMA NextSteady ==
  ASSUME Agreeing, RunnerInv, Steady, [Next]_vars
  PROVE  Steady'
  <1>. SUFFICES ASSUME upsets' = 0 PROVE reached' \subseteq InPlace'
    BY DEF Steady
  <1>1. upsets = 0 /\ upsets' = upsets
    <2>1. upsets \in Nat
      BY RunnerConstants DEF RunnerInv
    <2>. QED  BY <2>1, UpsetsGrow
  <1>2. reached \subseteq InPlace
    BY <1>1 DEF Steady
  <1>3. InPlace \subseteq InPlace'
    <2>1. CASE UNCHANGED vars
      BY <2>1 DEF vars, InPlace, Holds
    <2>2. CASE Next /\ resource' = resource
      <3>1. runbook' = runbook
        BY <2>2 DEF Next, Work, PlanAction, PlanFails, Forgotten, Skip, Touch, TouchFails, Save,
                    SaveFails, Return, Abandon, Start, Drift
      <3>. QED  BY <2>2, <3>1 DEF InPlace, Holds
    <2>3. CASE Next /\ resource' # resource
      BY <1>1, <2>3, OnlyTouched, TouchSteady
    <2>. QED  BY <2>1, <2>2, <2>3
  <1>4. reached' \subseteq reached \cup InPlace'
    BY DEF Next, Observe, vars
  <1>. QED  BY <1>2, <1>3, <1>4

\* "authentik.ensure creates or updates a resource until it matches the provided spec" does
\* hold of every runbook in which actions on one resource want the same: after a run without
\* a failure or an outside change all it wants is in place, however many runners interleave
\* (apply).  A runbook that recreates a resource is outside: EnsuredHolds fails there.
THEOREM AgreeingEnsured ==
  ASSUME Agreeing
  PROVE  Spec => []EnsuredHolds
  <1>1. Init => Steady
    BY DEF Init, Steady
  <1>2. RunnerInv /\ Steady /\ [Next]_vars => Steady'
    BY NextSteady
  <1>3. RunnerInv /\ Steady => EnsuredHolds
    <2>. SUFFICES ASSUME RunnerInv, Steady, NEW r \in Runners, NEW i \in Ids,
                         pc[r] = "done", mode[r] = "apply", upsets = 0,
                         status[r][i] \in {"applied", "noop"}
                  PROVE  Holds(i)
      BY DEF EnsuredHolds
    <2>1. Len(status[r]) = Length /\ RunSound(r)
      BY DEF RunnerInv, Stage
    <2>2. i \in seen[r] /\ seen[r] \subseteq reached
      BY <2>1 DEF RunSound, Ids
    <2>. QED  BY <2>2 DEF Steady, InPlace
  <1>. QED  BY <1>1, <1>2, <1>3, RunnerInvHolds, PTL DEF Spec

================================================================================
