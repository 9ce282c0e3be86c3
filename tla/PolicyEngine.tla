------------------------------ MODULE PolicyEngine ------------------------------
(***************************************************************************)
(* The basic policy engine: which rule decides a request.                  *)
(*                                                                         *)
(* A pattern is the set of the strings it matches, so a blank one is {}.   *)
(* Labels are key-value pairs; a list that is missing and an empty one are *)
(* the same to the engine, except for the labels of a resource.            *)
(***************************************************************************)
EXTENDS Integers, Sequences, FiniteSetsExt

CONSTANTS
  Actions,  \* what may be asked for
  Types,    \* types of resources
  Ids,      \* ids of resources
  Names,    \* roles, groups, scopes and entitlements
  Labels,   \* pairs of a key and a value
  Blank,    \* a string of blanks, or none
  Absent    \* nothing given

ASSUME PolicyConstants == {Blank, Absent} \cap (Names \cup Labels \cup Types \cup Ids) = {}

Fields == {"roles", "groups", "scopes", "entitlements"}

\* Conditions: of each field one of some names, all of some names.
Rule ==
  [effect : {"allow", "deny"}, actions : SUBSET SUBSET Actions,
   type : SUBSET Types \cup {Absent}, id : SUBSET Ids \cup {Absent},
   labels : SUBSET Labels \cup {Absent},
   any : [Fields -> SUBSET (Names \cup {Blank})],
   every : [Fields -> SUBSET (Names \cup {Blank})],
   require : SUBSET Labels, forbid : SUBSET Labels, environment : SUBSET Labels]

\* The constructor refuses a rule without an action.
Accepted(rule) == \E pattern \in rule.actions : pattern # {}

\* labelsContainAll: labels wanted of a resource need some there.
Required(wanted, given) == wanted = Absent \/ (given # Absent /\ wanted \subseteq given)

\* labelsContainNone.
LabelsContainNone(forbidden, given) == forbidden \cap given = {}

\* matchesRecord.
MatchesRecord(wanted, given) == wanted \subseteq given

IncludesAny(wanted, given) == wanted # {} => wanted \cap given # {}
IncludesAll(wanted, given) == wanted \subseteq given

Covers(pattern, given) == pattern = Absent \/ given \in pattern

Unrestricted(rule) == rule.type = Absent /\ rule.id = Absent /\ rule.labels = Absent

MatchesResource(rule, resource) ==
  \/ Unrestricted(rule)
  \/ /\ resource # Absent
     /\ Covers(rule.type, resource.type)
     /\ Covers(rule.id, resource.id)
     /\ Required(rule.labels, resource.labels)

\* A list of nothing but blanks is no condition.
Given(list) == list \ {Blank}

MatchesConditions(rule, identity, environment) ==
  /\ \A f \in Fields :
       /\ IncludesAny(Given(rule.any[f]), identity[f])
       /\ IncludesAll(Given(rule.every[f]), identity[f])
  /\ Required(rule.require, identity.labels)
  /\ LabelsContainNone(rule.forbid, identity.labels)
  /\ MatchesRecord(rule.environment, environment)

Applies(rule, asked, identity) ==
  /\ \E pattern \in rule.actions : asked.action \in pattern
  /\ MatchesResource(rule, asked.resource)
  /\ MatchesConditions(rule, identity, asked.environment)

\* Mutant: the first rule that applies decides.
FirstDecides(rules, applying) == Min(applying)

\* The first deny that applies ends the evaluation; the first allow is kept.
Decides(rules, applying) ==
  LET denying == {i \in applying : rules[i].effect = "deny"}
  IN  IF denying # {} THEN Min(denying) ELSE Min(applying)

\* The rule that decides; 0 is the default decision.
Evaluate(rules, asked, identity) ==
  LET applying == {i \in DOMAIN rules : Applies(rules[i], asked, identity)}
  IN  IF applying = {} THEN 0 ELSE Decides(rules, applying)
================================================================================
