----------------------------- MODULE MCMcpRunner -----------------------------
(* Runbooks for model checking McpRunner.                                  *)
EXTENDS McpRunner

CONSTANTS app, provider, group, v1

Ensure(x, needs) == [resource |-> x, wants |-> v1, dependsOn |-> needs]
Delete(x, needs) == [resource |-> x, wants |-> Absent, dependsOn |-> needs]

\* A chain of dependencies over three resources whose head names its own tail:
\* nothing rejects a cycle.
Chain == {<<Ensure(provider, {3}), Ensure(app, {1}), Delete(group, {2})>>}

\* A resource is removed and set up anew.
Recreate == {<<Delete(app, {}), Ensure(app, {1})>>, <<Delete(app, {}), Ensure(app, {})>>}
================================================================================
