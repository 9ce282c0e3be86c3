----------------------------- MODULE MCRequestPath -----------------------------
(* Rule lists for model checking RequestPath: up to two rules about the    *)
(* action, the resource and the groups, and single rules about labels.     *)
EXTENDS RequestPath

CONSTANTS g1, g2, label

GroupLists(lists) == {[f \in Fields |-> IF f = "groups" THEN l ELSE {}] : l \in lists}

RulesOnGroups ==
  [effect : {"allow", "deny"}, actions : {{{"path"}}, {Actions}},
   type : {Absent}, id : {Absent}, labels : {Absent},
   any : GroupLists({{g1}}), every : GroupLists({{}, {g2}}),
   require : {{}}, forbid : {{}}, environment : {{}}]

RulesOnLabels(identity, lacking, surroundings) ==
  [effect : {"allow"}, actions : {{Actions}},
   type : {Absent, {"http"}}, id : {Absent}, labels : {Absent, {label}},
   any : GroupLists({{Blank}}), every : GroupLists({{}}),
   require : {identity}, forbid : {lacking}, environment : {surroundings}]

Single ==
  RulesOnGroups \cup RulesOnLabels({label}, {}, {}) \cup RulesOnLabels({}, {label}, {})
    \cup RulesOnLabels({}, {}, {label})

OneOrTwo == {<<a>> : a \in Single} \cup (RulesOnGroups \X RulesOnGroups)
================================================================================
