# TLA+ models of Catalyst Auth

Catalyst Auth is a TypeScript monorepo: an authorization layer in front of an
Authentik installation. A forward-auth service answers the access questions of a
reverse proxy; profile, key, session, audit and webhook data live in Postgres,
caches in Redis or in memory; a webhook worker delivers events; a runner applies
automation runbooks to Authentik.

This directory holds TLA+ modules of the parts whose correctness depends on
interleavings, failures and order, TLC configurations that check them on small
instances, and proofs, checked by TLAPS, of nearly every safety property those
configurations check. Paths
below are relative to `src/packages` unless they start with `src/`.

    tlc -workers 2 -config DeliveryOneWorker.cfg MCWebhookDelivery.tla
    tlapm WebhookDeliveryProofs.tla

Contents: [inventory](#1-inventory), [modules](#2-modules-and-how-they-correspond-to-the-code),
[runs](#3-runs), [fairness](#4-fairness), [proofs](#5-proofs),
[disagreements](#6-where-code-and-documentation-disagree),
[limits](#7-what-is-not-modelled), [plan](#8-plan).

## 1. Inventory

### Webhook delivery (`webhook-worker`, `webhook-queue-redis`, repositories in `data-postgres`)

| Part | State | Operations | Interacts with |
|---|---|---|---|
| Dispatcher (`dispatcher.ts`) | none | `dispatch`: list active subscriptions of an event, insert one delivery each | subscription and delivery stores |
| Delivery worker (`worker.ts`) | a snapshot of the records it works through | `runOnce`, `processDeliveryById` | both stores, the target over HTTP |
| Repositories (`webhook-repository.ts`) | `auth_webhook_subscriptions`, `auth_webhook_deliveries` | create, update, delete, get, list, `listPendingDeliveries` | Postgres, one statement at a time |
| Queue worker (`queue-worker.ts`) | whether it is running | `start`, `stop`, `handleMessage` | queue adapter, delivery worker |
| Queue adapter (`redis-webhook-queue.ts`) | BullMQ queues | `enqueue`, `consume`, `ack`, `retry`, `deadLetter` | BullMQ |
| Memory store (`webhook-memory`) | the same records in maps | the same | tests and demos |

Hard: nothing locks a record, so the worker acts on a snapshot that others
change; the attempt is written before the request and its result after it, with
a crash possible in between; settlement of a job is two BullMQ calls; polling and
queue may run side by side. Correct when: no accepted delivery is lost, a
success is final and was really answered with 2xx, nothing is given up before
its policy's attempts are spent and nothing is requested more often than it
allows, dead letters are published.

### Automation runner (`mcp-runner`)

State: the memoised promise of the state table, `mcp_run_state` rows (one hash
per action), Authentik itself. Operations: `plan`, `apply` (also as a dry run).
Hard: every action is planned before the first is applied, several runners and
people change the same resources, each call can fail after it took effect,
dependencies are followed only backwards. Correct when: a reported success was
true at some time of the run, nothing is done whose prerequisites were not met,
a dry run changes nothing, repeated runs converge. The CLI and the loader of
runbooks parse and format.

### Profiles and effective identity (`data-postgres`)

State: tables of users, organisations, memberships, groups, entitlements; the
effective-identity cache, tagged. Operations: upserts and deletions of each,
`computeEffectiveIdentity`, purges through `PostgresCacheInvalidator`. Hard: a
reader combines up to five reads and a cache entry without a transaction, a
writer purges after it has committed, and the tags have to name everything an
identity depends on. Correct when: after the purges no entry is out of date,
but for what was read across a write; a hit is about the membership that was
asked for. `profile-memory` keeps the same data in maps with indices and without
a cache: correct when the indices lead to the records and to nothing else.

### Forward-auth decision point (`forward-auth`, key, session and audit stores)

State: the decision cache, keys (`data-postgres` and `key-memory`), sessions,
the audit log. Operations: `handle`; `issueKey`, `revokeKey`, `recordKeyUsage`;
`createSession`, `touchSession`, `deleteSession`. Hard: a request reads the key,
the identity, the policy and the session one after another while all of them
change; a granted decision is cached and outlives what it was based on.
Correct when: a grant rests on a key that was in force, an ended key and
withdrawn rights lose their effect within known limits, a session that was used
is on record.

### The way to the decision point (`middleware`, server, `authentik-client`, `policy-basic`, `jwt-service`, `sdk`)

State: of Authentik, tokens, sessions and groups; of the client a call in
progress; of the engine its rules, fixed at the start. Operations: `handle`
through Express, Elysia, Next, the fetch server and the warmers; the client's
`validateAccessToken`, `buildEffectiveIdentity` and the rest; `evaluate`; the
minting of tokens; the auth module of the SDK. Hard: one identity is combined of
three requests, two of them at once, any of which may be refused, answered in
another form or not at all, while Authentik changes; a rule that denies may come
after one that allows; hooks and handlers may throw on either side of `next`.
Correct when: an identity belongs to the time it was built in, a request is
passed on only when the rules grant it, no token is born expired, a warmer
reports on every request unless it cannot build one.

### Caches (`cache-redis`, `cache-memory`)

State: values with a time to live and an index per tag. Operations: `get`,
`set`, `delete`, `purgeByTag`, `clear`. Hard: in Redis each is several commands
without a transaction, so an index may lose a key that a concurrent set added; in
memory only `purgeByTag` awaits, and what is set between its deletions goes with
the index it drops at the end. Correct when: a purge removes every entry under
its tag that was set before; there are races and crashes after which it does not,
and the point is to know which.

### Transactions (`data-postgres`: `transactions`, `executors`)

State: a pool of connections, each in no transaction, an open or an aborted one.
Operations: `runInTransaction` with a callback of the host; no repository opens a
transaction of its own. Hard: a callback may swallow the error of a statement, a
connection may be lost at any point and the next caller gets it or its successor.
Correct when: what the caller is told is what the database holds.

### The rest

| Part | What it is |
|---|---|
| `token-service` | random identifiers |
| `data-postgres`: `migrations`, `seeding`, `testing` | table definitions, sample rows, a query executor for tests |
| `sdk` beside its auth module | each call goes to one port and returns its answer |
| `ui-admin`, `ui-headless` | React components |
| `telemetry`, `contracts` | OpenTelemetry wrappers; types |

`PROJECT.json` lists every component with its sources and status, and the
hazards of the code with the line where each bites and the properties about it.

## 2. Modules and how they correspond to the code

In every module an action is the code between two awaits: what the source awaits
(a statement, an HTTP request, a cache command) is where other actors may step
in. `PROJECT.json` maps each definition to the lines it stands for. Definitions
marked as mutants in the modules are what the code might have been by mistake;
they are used only to see that a property notices them.

**`WebhookDelivery`** models the worker over the Postgres store. A row is its
status, `attempt_count`, its subscription and whether `next_attempt_at` is null,
passed or in the future, which is all `listPendingDeliveries` looks at.
`RunOnce` lists (any set some LIMIT could return, nulls first); `GetSubscription`
takes the next record of the snapshot; `DeadLetterOrphan`, `MarkDelivering`,
`Send` and `RecordResult` are the awaits of `processDeliveryRecord`,
`attemptDelivery` and `handleFailure`. Updates are `WHERE id = ...` whatever the
row has become. A store call may fail before or after it took effect; an error
ends the batch, as in `runOnce`. `Crash` loses the worker's memory. Around it,
subscriptions are created, changed and deleted, deliveries inserted and deleted,
dead letters replayed as the runbook says, and time passes. `calls`, `acked`,
`missing`, `issued` and `upsets` are history.

**`WebhookPromise`** is what the pipeline promises of a delivery: open until
confirmed, or given up for a cause; closed ones are left alone. A single worker
implements it (`KeepsPromise`), under the mapping at the end of
`WebhookDelivery`.

**`WebhookQueue`** extends `WebhookDelivery` by the queue: a slot of the BullMQ
worker takes a job (`Take`), runs `processDeliveryById` (`HandleMessage` and the
worker's own actions) and settles the job. `Ack`, `RetryJob` and `DeadLetterJob`
publish what `handleMessage` publishes, `Complete` is BullMQ's removal of the job
afterwards; the two are separate because a crash can come between them.
`HandlerCrash` is a stalled job that BullMQ hands out once more, `SettleFails` a
`queue.add` that rejects. BullMQ is external and modelled as the adapter
configures it. Workers outside `Handlers` poll.

**`McpRunner`**: `PlanAction` for each action, then `Skip`, `Touch` (the call to
Authentik), `Save` (the row of `mcp_run_state` and the telemetry hook) for each,
in the order of `runner.ts`, with `PlanFails`, `TouchFails`, `SaveFails`,
`Abandon` for what fails, `Drift` for what others change, and `schema` for the
memoised promise that stays rejected. A resource is its set of properties; equal
properties have equal hashes.

**`EffectiveIdentity`**: the reader's steps follow `computeEffectiveIdentity`
read by read, the cache entry gets `TagsOf` the identity; every mutation of the
profile and entitlement repositories is a `Statement` that commits and owes
purges, which are then done one tag after the other, or lost. An entry remembers
whether a statement overlapped its making (`overlapped`, history).

**`ForwardAuth`**: `handle` from `ResolveCachedDecision` to `CacheDecision`, with
the whole of `ensureSessionRecord`; keys are issued, expire and are revoked,
the clock ticks. Identity provider and policy engine are external: `rights` is what they
would answer. They change by themselves (`ChangeRights`), of which the decision cache
learns nothing, or because a mutation in Postgres changes what the policy reads
(`MutateProfile`), after which `PurgeDecisions` does what `PostgresCacheInvalidator`
does, some time later. `valid`, `raced`, `ended`, `withdrawn` and `silent` are history.

**`TagCache`**: `set`, `delete`, `purgeByTag` and `clear` of the Redis cache, one
action per Redis command. A call is the set of commands it may send next;
executing one puts its successors in its place, and a step behind a
`Promise.all` is enabled when the last command of the group is done. `clear` is
`purgeByTag` for the index of all keys. Entries and lists of tags expire, a call
can be cut off between any two commands; a command that fails is taken for a lost
connection. `complete`, `young` and `excused` are history: whether an entry's
`set` has returned, and whether it lost an index to a call that raced with it or
to a deletion cut off half way.

**`TagStore`** is what that cache promises, without tag lists, indices and commands: a
call claims an entry, deletes it, puts its own, and returns only when what it was
called for is done; entries are excused from an index by races with their `set` and by
failures, and by nothing else. `TagCache` implements it (`KeepsStore`), with the keys
a call is taking out of their indices for its claims, the sets that have sent their
SET for `stored`, and the calls cut off counted as failures, so that no return can pass
for a failure.

**`AuthentikClient`**, **`PolicyEngine`**, **`JwtService`**, **`RequestPath`** are
one system. A call of the client is a set of requests it waits for; each is
answered with a full body, one without what matters, a list, nothing or garbage,
refused, or never reaches Authentik, and `Then` says what is sent next
(`buildEffectiveIdentity`: the profile, then sessions and groups at once).
`Evaluate` is the engine as an operator on a list of rules, a pattern being the
set of strings it matches; `Mint` is the JWT service, from lifetimes and keys to a
token or an error. `RequestPath` puts them behind the edges: `Receive`,
`Validated`, `Identified` and `AskPolicy` are `handle` between its awaits,
`Express`, `Elysia` and `ByAnswer` what becomes of the answer, `WarmNext` and
`Report` the two warmers; `BuildFails` is the one that builds URL and headers outside its
`try`, where an exception rejects the whole run (`createDecisionCacheWarmer`). Decision
cache, keys and sessions are `ForwardAuth`'s, which in turn takes this module's identity and policy as external. `window` and `due`
are history: the groups the user had meanwhile, and whether the rules grant the
request to them by a definition (`Permitted`) that is not the engine's.

**`KeyStores`** is the memory and the Postgres key store, with callers that use a
key some time after they looked it up; **`MemoryCache`** the cache with its
timers, where `PurgeByTag`, `PurgeKey` and `PurgeEnds` are the three parts of
`purgeByTag`; **`MemoryProfiles`** the memory profile store with each of its
indices; **`WebhookHost`** `dispatch` (its listing, one insert after the other,
the first failure, which may have inserted its row all the same) and `start` and `stop`
of the queue worker; **`SessionRows`**
`ensureSessionRecord` again, this time with the contents of the row
(`last_seen_at` and metadata); **`Transactions`** `runInTransaction`, with and
without a pool, and what Postgres does to a connection. `contested`, `bereft`,
`late`, `recorded`, `overtaken`, `steady`, `overlapped`, `standing` and `blind` are
history.

**`MC...`** modules hold what only the model checker needs: runbooks, initial
tables, lists of rules, symmetry. `MCWebhookQueue` adds to `WebhookQueue` a history of the
deliveries that two workers had in hand at once (`shared`) and the property about the
others. `MCStores` puts six modules side by side: a
behaviour belongs to one of seven parts chosen at the start, so that the parts do
not multiply.

**`WebhookDeliveryProofs`**, **`WebhookQueueProofs`**, **`McpRunnerProofs`**,
**`EffectiveIdentityProofs`**, **`ForwardAuthProofs`**, **`RequestPathProofs`** (with
the Authentik client, the policy engine and the JWT service), **`TagCacheProofs`** and
**`StoresProofs`** (the modules of the run `Stores`) hold the theorems of section 5.

## 3. Runs

| Run | Asks |
|---|---|
| `DeliveryOneWorker` | Does one poller keep every promise, whatever else happens? `TypeOK`, `SucceededWasAcked`, `NoEarlyDeadLetter`, `CallsHonourPolicy`, `CountCoversCalls`, `KeepsPromise`, `EventuallyClosed` |
| `QueueHandlers` | Is an enqueued delivery ever lost by two concurrent slots, crashes and failed settlements, and what does a job cost that is handed out again? `NothingStranded`, `DeadLettersPublished`, `JobsAccounted`, `RedeliveryBounded`, `EnqueuedCloses` |
| `QueuePlusPoller` | Does everything close when polling and queue run side by side and dead letters are replayed? `EventuallyClosed` |
| `McpRunner` | Are reports true and does the runbook converge with two runners, one failure and a cycle of dependencies? `EnsuredHolds`, `SuccessReached`, `PrerequisitesReached`, `RecordedReached`, `DryRunHarmless`, `Converges` |
| `EffectiveIdentity` | Is every cached identity purged by whatever changes it? `TagsCoverDependencies`, `HitIsForMembership` |
| `ForwardAuth` | What can a grant rest on? `GrantNeedsValidKey`, `EndedKeyFadesOut`, `WithdrawnRightFadesOut`, `SessionOnRecord` |
| `RequestPath` | Which requests pass, whatever Authentik answers and whoever throws? `IdentityInWindow`, `PassedOnlyIfPermitted`, `TokensLive`, `WarmerReports` |
| `TagCache` | Which entries can a purge of the Redis cache miss, and what does a call that returns promise? `EntriesIndexed`, `PurgeRemoves`, `KeepsStore` |
| `Stores` | What survives overlapping calls in the other stores? Keys and their uses (`KeysAccounted`), the memory cache (`TaggedIsIndexed`, `MemoryPurgeRemoves`), indices of profiles (`ProfilesAgree`), a dispatch that fails half way (`DispatchCovers`), consumers of the queue worker (`ConsumersClosed`), the row of a session (`SessionKept`), transactions (`TransactionsWhole`) |
| `DeliveryPolicyViolated`, `McpRecreate`, `IdentityInvalidation` | A statement of the documentation the code does not keep: section 6 |

### Bounds, and why they are enough

* `MaxUpsets` (1, or 0 where a counterexample needs none) bounds crashes, store
  errors, failed settlements, lost purges, drift and replays. Each property says
  what one of them may cost, and any step can be hit by it; a second one repeats
  the case from a state the first has led to. The proofs of section 5 are for
  any number.
* `DeliveryOneWorker`: two deliveries, so a snapshot can be worked through in
  part, and an error can drop its rest. Policies of 2 or 3 attempts differ by
  one, so that a policy may change under way and both the retry and the last
  attempt occur. `MaxAttemptCount` 5 = 3 + the replay or crash + 1; no guard cuts
  anything off below it.
* `QueueHandlers`: one delivery and two slots meet on it; four job slots are one
  more than can be needed. `MaxEnqueues` 1: a duplicate arises through a crash
  between publishing and completing. Policies grant three attempts, the least with which
  two workers on one record write counts that fall behind: `RedeliveryBounded` would be
  violated here if it did not leave such records out.
* `QueuePlusPoller`: one attempt per policy, because a poller and a slot on one
  record already take attempts from each other.
* `McpRunner`: three actions are the least with an indirect dependency; the
  runbook's first action depends on its last, a cycle, and its last is a
  deletion. Two runners overlap in all ways, in all modes.
* `EffectiveIdentity`: one statement, at any point of one reader, in any initial
  contents of the tables (all rows with the first label, so a change shows). The
  property is about what one statement leaves behind; entries made across one
  are excluded by name. Section 5 proves it for any number of statements, readers and
  writers.
* `ForwardAuth`: two requests, so one can take from the cache what the other
  puts there; a decision lives one tick and the clock has three, so both the
  last moment of an entry and the first after it occur; one key of a user or an
  organisation (a key of a service carries no rights, and the proofs have it),
  one decision JWT, one change that takes a right away, with a purge after it or none. Requests are handled once
  and the run may stop (`CHECK_DEADLOCK FALSE`).
* `TagCache`: three calls, two at a time, on a cache in which both keys were set
  before: two calls race and a third meets what they leave. A call that is cut
  off counts as two, so one more can follow it. Two keys share one index, which
  is what a deletion of an index can go wrong about. The calls run out, so
  the run may stop (`CHECK_DEADLOCK FALSE`).
* `RequestPath`: two groups, so one can join the user while another leaves, in two
  changes, which is what a torn identity needs; two sorts of refusal (403, which
  the listing of groups tolerates, and 500). Lists of up to two rules give every
  order of an allowing and a denying one; label conditions are checked one at a
  time. Two requests of a warmer of either kind: one after one that failed. The run ends when the
  request does (`CHECK_DEADLOCK FALSE`).
* `Stores`, part by part: two keys, hashes, owners and users meet on one key and
  on one owner; two cache keys and tags with two purges, so a purge of one tag meets
  an entry under both; two users, organisations, slugs and memberships and a group
  can change places; two dispatches of two subscriptions that change twice; three
  consumers, as a start may overlap a start and a stop; three requests on one
  session, two facts, two hours and one failure; three transactions over two
  connections, so that a connection comes to a second caller after a failure of the
  first. Calls run out (`CHECK_DEADLOCK FALSE`).
* Symmetry is used only in runs without liveness properties, over constants no
  definition names.

## 4. Fairness

Safety properties assume none. Liveness uses what the deployment provides:

* *Webhook*: `runOnce` is a single pass and nothing in the repository repeats it,
  so whoever embeds the worker calls it again and again: `Poll(w)` is weakly
  fair. A started call goes on; BullMQ's worker and its promotion of delayed
  jobs run as long as the process is up; time passes. Nothing forces a request to
  succeed; a store stops failing because the upsets are bounded.
* *Request*: Node runs what is ready (weak fairness of `HandleStep`). Nothing in
  the client limits the time of a request to Authentik; that each is answered or
  fails in the end (weak fairness of `ClientStep`) is left to `fetch` and the
  network, and `WarmerReports` rests on it: every request of a warming run through the
  service has its report, and through the server unless the run rejects.
* *Runner*: a started run goes on (weak fairness); somebody applies the runbook
  again and again (strong fairness of starting an apply, as other modes may be
  started in between).

`EventuallyClosed`, `EnqueuedCloses`, `WarmerReports` and `Converges` are the
liveness properties. `Converges` excuses runners that have all lost their state table:
`state-store.ts` memoises the rejected promise for the life of the process.
`EnqueuedCloses` excuses a job left among BullMQ's failed ones, which the adapter
only logs.

## 5. Proofs

TLAPS checks every step; the theorems hold for every value of the constants: any
number of deliveries, jobs, subscriptions, policies, keys, users, memberships, runbooks,
runners, requests, rules, calls and connections, and every bound on upsets, failures and
time. Each rests on an inductive invariant, which the initial states satisfy and every
action preserves;
the proof that it does has one lemma per action, and one for what all steps of a
kind have in common. What the constants are assumed to be is stated with them:

* `DeliveryConstants`, `AbsentIsNoRow` (`WebhookDelivery`): policies are natural
  numbers and at least one exists, workers are finitely many, and the value that
  stands for a missing row is not a row.
* `ForwardAuthConstants`, `AbsentIsNothing` (`ForwardAuth`): likewise, and a subject
  is not both a user and an organisation.
* `IdentityConstants`, `AbsentIsNothing` (`EffectiveIdentity`): requests
  have the fields of a request, and no row, subject or reader's state is taken for a
  missing one.
* `RunnerConstants` (`McpRunner`): the types of a runbook and of the bounds.
* `AbsentIsNoJob` (`WebhookQueue`), `CacheConstants`, `AbsentIsNoCall` (`TagCache`),
  `KeyStoreConstants` (`KeyStores`), `NoEntryIsNone` (`MemoryCache`), `NoRowIsNone`
  (`MemoryProfiles`), `NoConsumerIsNone` (`WebhookHost`), `HeadersAssumption`
  (`SessionRows`), `PolicyConstants` (`PolicyEngine`), `ClientConstants`
  (`AuthentikClient`): the value that stands for a missing one is none of those it is
  told from, bounds are numbers, a refusal of Authentik is no 2xx status.
* `EngineStarts`, `TtlsAreNumbers` (`RequestPath`): the lists of rules are ones the
  engine starts with, and a lifetime is a whole number or not given.
* `Transactions` assumes nothing.

A theorem that needs more than its constants states it as a hypothesis: `SoleWorker`
below, and the two of the queue.

**Any number of workers** (`WebhookDeliveryProofs`).

* `TypeCorrect`: `Spec => []TypeOK`. `TypeOK` is not inductive: an update writes
  `task[w].attemptCount + 1`, which needs a worker in the middle of a record to
  have a task at all. `TypeInv` adds that (`BusyHasTask`).
* `SuccessIsAcked`: `Spec => []SucceededWasAcked`. The invariant `AckedInv` adds
  `AnswersAcked`: the answer a worker holds between `Send` and `RecordResult` is
  one the target gave for that very delivery.
* `NothingGivenUpEarly`: `Spec => []NoEarlyDeadLetter`. `Spent(d)`, the requests
  made or announced and the upsets, never decreases: a crash that loses an announced
  request is an upset. `SpentInv` says that no count, in a row, in a listing or in a
  task, is ahead of it. Overlapping workers may write counts that fall behind, which
  costs the target requests (the run `DeliveryPolicyViolated`) but never a
  delivery its attempts.

**A single worker** (also in `WebhookDeliveryProofs`), under the
further assumption `SoleWorker` that two workers are never different. The assumption
is needed: with two, `DeliveryPolicyViolated` violates `CallsHonourPolicy`, and the
same overlap the others.

* `PolicyHonoured`: `Spec => []CallsHonourPolicy`.
* `CountNeverForgets`: `Spec => []CountCoversCalls`.
* `PromiseKept`: `Spec => KeepsPromise`, the refinement: `WebhookDelivery` with one
  worker implements `WebhookPromise`.

The first two rest on one inductive invariant, `SoleInv`, whose point is that what
the worker remembers of a record is still true of the row when it gets to it:

* `SnapshotsFresh`: a record listed and not processed yet is still open, with the
  count it was listed with, or deleted, and there is room for one more attempt.
  Here the single worker matters: another one would have written it.
* `TaskFresh`: the same of the record being processed, where the row's count is
  one ahead from `MarkDelivering` to the result, and the requests made are one
  ahead from `Send`.
* `RecordsAllowed`: any open row that is not being attempted has room for one
  more attempt under some policy, given the upsets. A crash or a store error
  between `MarkDelivering` and the result leaves an attempt counted; the upset
  pays for it (`AllowedAfter`). A replay pays in the same way.
* `ClosedUnscheduled`: closed rows have no attempt in the future, so the clock
  leaves them alone; `CallsAllowed` and `CountCoversCalls` are the conclusions.

`PromiseKept` takes all three invariants:
`SoleInv` for where a delivery stands when the worker writes to it, `SpentInv` for why
it may be given up (an orphan's subscription was missing, or the attempts are spent),
`AckedInv` for why it counts as delivered. `UpdateAllowed` is the heart of it: every
outcome of an update, applied or not and reported or not, is a step of the promise, an
upset or nothing.

**The queue** (`WebhookQueueProofs`), with any number of handlers, jobs, crashes and
failed settlements.

* `NoneStranded`: `QueueSpec => []NothingStranded`, if `OnlyHandlers` and
  `Replayed = {}`.
* `DeadLettersReachQueue`: `QueueSpec => []DeadLettersPublished`, if `OnlyHandlers`.
* `JobsNeverMultiply`: `QueueSpec => []JobsAccounted`.
* `QueuedSuccessIsAcked`, `QueuedNothingGivenUpEarly`: `SucceededWasAcked` and
  `NoEarlyDeadLetter` again, now of the worker behind the queue.

`ServingInv` says that a job is held by one handler at most, and that what a handler
works on is the delivery of the job it holds. `Carried` is what the two first theorems
are about: an open delivery that was enqueued has a job (or one among the failed) that
no handler is about to give up with a final result (`OpenCarried`), a dead-lettered one
not published yet has one that no handler is about to give up without publishing
(`DeadCarried`). The step that matters is a handler's last write: its result is then
the status it left in the row, so a handler that gives its job up for good leaves a row
that is closed. `OnlyHandlers` (every worker serves the queue) is needed for that: a poller may
fail a record between a handler's write and its settlement, and `Replayed = {}` because
an operator who replays a dead letter opens a record without a job. Both are how
the run `QueueHandlers` is set up, and `QueuePlusPoller` is about what helps without
them: the poller itself. `JobsNeverMultiply` needs neither; its proof counts: each step
adds at most one unfinished job, and adds one without taking one away only when it
enqueues or is an upset.

**The decision point** (`ForwardAuthProofs`), with any number of concurrent requests.

* `DecisionTypes`: `Spec => []TypeOK`.
* `WithdrawnRightsFadeOut`: `Spec => WithdrawnRightFadesOut`.
* `GrantsRestOnKeys`: `Spec => GrantNeedsValidKey`.
* `EndedKeysFadeOut`: `Spec => EndedKeyFadesOut`.
* `SessionsOnRecord`: `Spec => SessionOnRecord`.

The invariant `DecisionInv` relates what requests and cache entries carry to the
stores they were read from: a key that has ended stays unusable (`KeysSound`); a
request past the lookup had a key in force, and either knows that it ended since
(`raced`) or it has not (`KeyInForce`); what it found a subject allowed still is,
unless a change raced with it (`RightsSeen`); and a cached decision is no younger than
the end of its key or of a right it rests on, and agrees with the rights, or is about to
be purged, or was overtaken by a change nobody purges after (`EntrySound`). That is what
`WithdrawnRightFadesOut` promises: where a mutation took the right away the purge ends its
effect, where the identity provider or the policy did only the lifetime of the entry does. A request in flight is why the last two need `raced`: it read before
the change and caches after the purge.

**Effective identities** (`EffectiveIdentityProofs`), with any tables, requests and
numbers of readers and writers.

* `IdentityTypes`: `Spec => []TypeOK`.
* `HitsAreForMembership`: `Spec => []HitIsForMembership`.
* `TagsCover`: `Spec => []TagsCoverDependencies`.

The property speaks of states in which every purge is through; the invariant
`IdentityInv` says what makes it so in the states before. A reader that no statement
overlapped has in hand what the rows still say, as far as it has read (`StillSo`, by
place, up to `Fresh` when it fills the cache); its key is what its request and the
membership resolved make up (`KeyFits`). An entry carries the tags of its identity and
either one of them is still to be purged, lost or of a subject something was taken
from (`Touched`), or the entry is what the rows make up but for an organisation or a
group that was missing (`Covered`). Every statement either touches an entry or leaves
`Fresh` of its key as it was (`FreshStays`), which is one lemma per table.

**The runner** (`McpRunnerProofs`), with any runbook and any number of runners.

* `RunnerTypes`: `Spec => []TypeOK`.
* `SuccessRests`: `Spec => []SuccessReached`.
* `RowsRest`: `Spec => []RecordedReached`.
* `PrerequisitesRest`: `Spec => []PrerequisitesReached`.
* `DryRunsChangeNothing`: `Spec => DryRunHarmless`.
* `AgreeingEnsured`: `Spec => []EnsuredHolds` if `Agreeing`.

`RunnerInv` adds how far each run is (`Stage`: as many actions planned, and reported,
as its place says; a run that applies is no plan) and that what a run planned as a
noop, reported as done or is about to save is a state it has seen, and that whatever
is seen was reached (`RunSound`).

What an action depends on, near or far, is the least set that has its dependencies and
those of each of its own (`Closed`), so no induction over the runbook is needed: the actions
settled without being skipped (`Done`) all lie in what was seen, and each has its direct
dependencies among them (`RunOrdered`), as an action is attempted only if no earlier
dependency failed or was skipped; so they are closed, and hold the least closed set.

`Agreeing` says that actions of a runbook which name the same resource want the same of
it. It cannot be left out: `McpRecreate`, whose runbook deletes a resource and ensures it
again, violates `EnsuredHolds`. With it, no runner undoes what another did: while nothing
fails or is changed from outside, what was ever in place still is (`Steady`), as every
touch makes the resource what its action wants and nothing else (`OnlyTouched`); and
what a run reports was in place once (`SuccessReached`).

**The request path** (`RequestPathProofs`), with any groups, sessions, rules, middleware
and lifetimes.

* `IdentityOfItsTime`: `Spec => []IdentityInWindow`. `IdentityInv` says it of a call that
  still goes on: what the user had all along it has now, the profile and the listing
  name no group from outside the call, and a listing with content misses none of those.
* `EvaluatePermits`: for every sequence of rules and every request, what the loop of
  `evaluate` decides is what `Permitted` says: a deny that applies wins wherever it
  stands, then an allow, then the default.
* `NothingPassesUnpermitted`: `Spec => []PassedOnlyIfPermitted`, from the two: the groups
  asked about lie in the window (`RequestSound`), and no edge relays before it has an
  answer.
* `NoTokenBornExpired`: `Spec => []TokensLive`; a lifetime that is left out takes the
  usual one, and none is less than a second (`LifetimeLives`).

**The Redis cache** (`TagCacheProofs`), with any keys and tags and any number of calls,
each of them any number of commands.

* `EntriesAreFound`: `Spec => []EntriesIndexed`.
* `PurgesRemove`: `Spec => PurgeRemoves`.
* `StoreIsKept`: `Spec => KeepsStore`, the refinement: `TagCache` implements `TagStore`.

`EntriesIndexed` says nothing of calls that are half way, and they are what can break
it. `TagInv` gives each call the phase it is in, by the commands it has left (`InOrder`),
and what it can rely on there: an entry that is not complete is the call's own or
younger than the call (`Younger`); a set has put its key under each tag or is about to
(`Written`); who takes a key from the list of all keys has dropped its entry
(`Dropped`); who deletes an index because it was empty deletes nothing an entry that
stands relies on (`Unneeded`); a purge that has read its index has yet to delete
every entry it must (`Purged`). `Unneeded` is the delicate one: it is between
SCARD and DEL that another set may add a key, and then the entry is one that raced.

For the refinement `StoreInv` adds two facts. A call deletes a key in stages, its entry last
(`Staged`): hence a claim begins with the list of tags, is handed on from command to
command, and ends exactly with the DEL of the entry. And no call loses sight of its
purpose (`Effective`): a delete is not through with its key until the entry has gone or is
a younger one, and the entry a set has put stays until it goes or is replaced. Reading
tags, SREM, SCARD hold a claim or take one; DEL of an index, SREM from the list of all
keys and the end of a purge are `Miss`, of younger entries only; the commands that write
tags and indices change nothing the store shows; a return is a `Return` because `Effective`
holds and, for a purge, because of `Purged`; only `CutOff` is a `Fail`.

**The other stores** (`StoresProofs`), one invariant for each module of the run `Stores`.

* `UsesAccounted`: `KeyStoreSpec => []KeysAccounted`. `KeysInv`: the maps of the memory store
  say what its rows say, hashes are unique, and what a caller looked up is a stored key,
  as none is ever removed.
* `TagsStayIndexed`: `MemoryCacheSpec => []TaggedIsIndexed`, and `MemoryPurgesRemove`:
  `MemoryCacheSpec => MemoryPurgeRemoves`, an action property. `CacheInv` says of the keys a
  purge has yet to delete what the property says of the index: they are why the index
  may be dropped at the end, and what a purge has done when it returns.
* `IndexesAgree`: `ProfilesSpec => []ProfilesAgree`. `ProfilesInv` relates each of the five
  indices to the records in both directions, so that every query, whatever index it
  goes by, finds what it must and nothing else (`QueriesFind`).
* `NoSubscriptionMissed`: `HostSpec => []DispatchCovers`. `DispatchInv`: what was active
  throughout has its delivery or is still to be created, and a row without an answer is
  that of the failure which ended its call.
* `StopClosesConsumer`: `HostSpec => []ConsumersClosed`. `WorkerInv`: unless calls
  overlapped, there is one consumer, open or awaited, and it is the one stop will see.
* `SessionKeepsFacts`: `SessionsSpec => []SessionKept`. `SessionsInv`: who is about to write
  metadata it merged has in it what earlier writers told (`WritesOn`), and the row's last
  writer stands (`WritesStand`).
* `TransactionsAreWhole`: `TransactionsSpec => []TransactionsWhole`. `TxnInv` says that no
  two callers hold the same connection, that a connection which is idle, fresh or about
  to be released is in no transaction, that what a transaction holds are its own
  caller's statements, all of them so far unless one failed, and what took effect at
  each place of a caller.

**Model-checked only.**

* `RedeliveryBounded`: an invariant for it would have to tell which of the requests each
  job of a delivery stands for, which the model does not keep.
* Liveness: `EventuallyClosed`, `EnqueuedCloses`, `WarmerReports` and `Converges`, which
  rest on fairness and so are out of the prover's reach.

## 6. Where code and documentation disagree

Each has a run that finds the shortest counterexample; `PROJECT.json` quotes the
lines.

* **Overlapping pollers exceed the retry policy** (`DeliveryPolicyViolated`).
  `listPendingDeliveries` returns records in status `delivering` with no
  `next_attempt_at`, which is what a record under attempt looks like, and
  processing never looks at the record again. A delivery whose policy grants one
  attempt is requested twice without any failure, the second time after the target has
  answered with 2xx, and with more pollers more often. The same trace contradicts
  "Workers are idempotent—processing the same delivery twice is safe"
  (`src/docs/docs/setup/webhooks.md:36-37`): `processDeliveryRecord` requests the target
  for whatever record it is handed.
  The listing of `delivering` is what recovers records after a crash
  (`EventuallyClosed`), so leaving it out is no remedy; a lease would be.
* **Delete then ensure leaves the resource deleted** (`McpRecreate`), because
  everything is planned before anything is applied. `AgreeingEnsured` proves that
  runbooks whose actions agree on each resource are safe from it.
* **An identity cached while its organisation had no row survives the
  organisation's creation** (`IdentityInvalidation`). The same holds of a group
  that had no row and of an entitlement moved to another subject;
  `TagsCoverDependencies` names the three and shows that there are no more.

Seen in passing, without a run:

* *Documents and tests.* `mcp-runner.test.ts:148` expects a dry run after
  convergence to report `skipped`, where `runner.ts:397` lets a noop through;
  `forward-auth/README.md:82` says that `Authorization: Decision <token>` is
  honoured, which `extractCredentials` refuses to
  (`forward-auth-service.ts:365-368`).
* *Queue.* `processDeliveryById` takes a record of any status, so a job that is
  redelivered after a crash between recording a success and completing it requests
  the target again (once, says `RedeliveryBounded`, as long as no two workers have the
  record at once). A prefix is given to the queue and not to the worker BullMQ
  consumes with, and it imports `QueueScheduler`, which the BullMQ version it asks
  for no longer has. The replay of
  `src/docs/docs/runbooks/backup-restore.md:41-42` has no effect where only the
  queue worker runs, as nothing enqueues the record again (which is why
  `QueuePlusPoller` has a poller). A second start before the first has finished, and
  a stop during a start, leave a consumer nobody closes (`ConsumersClosed` names
  both). `webhook-memory` reports every attempt as the first.
* *Decisions.* `revokeKey` does not purge the decisions made with the key (hence
  the `Ttl` in `EndedKeyFadesOut`); a cached decision is not tied to a path or an
  action; it may be kept longer than the 55 s its JWT lives. A hook of the Express
  middleware that throws out of `next` makes it call `next` once more with the
  error.
* *Stores.* A slug that two organisations have had at a time leads nowhere after
  one of them gives it up; a group that moves to another organisation stays in the
  memberships of its old one; the memory key store refuses the late use of an ended
  key, Postgres counts it; an entry set in the memory cache during a purge of its
  tag is kept without an index; a session created after its touch failed loses
  metadata it had. A callback that swallows the failure of a statement makes
  COMMIT roll back without an error: `runInTransaction` returns and nothing was
  written.

## 7. What is not modelled

* Data that decides nothing: payloads, headers, signatures, metadata, log and
  telemetry records, the wording of answers. Diffs and hashes of the runner are
  equality of properties.
* The order of a listing beyond "nulls first", and the length of delays: a retry
  is in the future, and then it is not.
* Statements are atomic, as Postgres makes them; a failing one may have been
  applied. `purgeByTag` is one step in `EffectiveIdentity` and `ForwardAuth`;
  `TagCache` shows what that leaves out: an entry set during the purge of a tag it
  is under may lose its index, and one whose deletion was cut off half way may
  stay.
* In `ForwardAuth` sessions are reduced to their existence and uses of keys left
  out; `SessionRows` and `KeyStores` have them. Of a session `factors_verified`, of a
  profile in memory labels, entitlements and the primary organisation are left out.
* A ROLLBACK that only times out at the client and is done later by Postgres; clocks
  of several processes that differ.
* `webhook-memory`, whose delivery is the dispatcher's own and has no store to
  disagree with; the start of `postgres-runtime`, the generated Traefik
  configuration and the formatting of key sets; the SDK beside its auth module; the
  token service; migrations and seeding; the audit log, which nothing reads back;
  user interfaces, telemetry, contracts: I/O, formatting or types around the parts
  above.
* The arithmetic of backoff, and what a subscription row without `backoffSeconds`
  does to its reader.

## 8. Plan

Done: the delivery worker with its promise, the queue over it; the runner;
effective identities; the decision point; the Redis cache; the request path
through Authentik client and policy engine; the stores, dispatch, start and stop,
transactions; the proofs of section 5.

1. **`TagStore` for the cache in memory too**, whose `set` is one step where `TagStore`
   has several, and in the modules that use a cache in place of their own purges.
2. **`webhook-memory` and backoff arithmetic** as operators in front of
   `WebhookDelivery`.
