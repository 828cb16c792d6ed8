# Verification of the proxy control plane

TLA+ models of the control plane, its stores and its runners, the TLC
runs that check them on small instances, and TLAPS proofs for every instance.
All paths below are relative to the repository.

## 1. The system

A control plane (`crates/control-plane`, Axum) keeps nodes, profiles, clients
and deployments in a store (`crates/storage`, in memory or Postgres). An admin
compiles a profile for a node: the config is content-addressed, recorded as a
deployment plan, and a signed command is queued for the node. A runner process
on the node (`crates/runner`) polls its queue over HTTP, verifies the envelope
(`crates/domain`), applies it to its work directory and submits a signed result,
which settles the deployment's status. Clients fetch subscriptions.

### Inventory

| Component | State | Operations | Correct when |
|---|---|---|---|
| Command delivery (`control-plane` `next_sequence`, `storage` `enqueue_runner_command` / `next_runner_command`, `runner` `poll_apply_once`, `domain` `SignedRunnerCommand::verify`) | `node_sequences`, `runner_commands`, the runner's `last_sequence` and `seen_nonces` | sign, enqueue, poll, verify, apply | a signed command is executed at most once, in order within a runner process, refused for its TTL only, and never stuck in the queue |
| Local runner (`runner/src/lib.rs`) | `tmp/`, `releases/`, `active`, `active.next`, the core process | `apply_deployment`, `rollback_deployment`, `switch_active`, `rollback_after_apply_failure`, hooks | nothing untested is ever active; success means installed, active and loaded; failure leaves the active release; a crash damages nothing but the command's own release |
| Deployments and rollout (`control-plane` compile, rollback, readiness, advance; `storage` deployment records) | plans, statuses, rollback pointers, snapshots, health samples, idempotency responses | `compile_deployment`, `queue_rollback`, `advance_deployment_rollout`, `submit_runner_result`, health samples | a rollback goes to a release the node has; Succeeded means installed; one command per idempotency key; what is promoted is installed; a plan gets a result |
| Node registration and keys | registration tokens, node records, heartbeats | issue, list, register, rotate key, heartbeat, runner start-up, result verification | a token registers one node once; only results under the node's own key are committed; a registered runner gets to polling |
| Clients, quota, expiry | credentials, quotas, expiries, usage buckets | `create_client`, `record_usage_sample`, the decisions | a credential is hidden when it is over quota or expired, and only then; a client that was created has its limits |
| Subscription tokens | token hashes, status, access log | issue, rotate, verify, fetch | once rotated, the old token never verifies; a profile with tokens requires one |
| Profiles and Xray compiler (`compiler-xray`, `subscription`) | profiles, clients and their secrets | create profile, create client, compile, links | a config admits exactly the clients it should, REALITY has its version, whoever is admitted has a link |
| Postgres store | the schema of `migrations/` | the same trait as the in-memory store | the same promises, over statements that are mostly not in a transaction |
| Artifacts | ids and bytes by digest | record, read | a config that was deployed can be compiled again, although its artifact keeps its first id |
| Audit, outbox | append-only records | record, count | nothing reads them back into a decision |
| Web console, scripts, read-only views | none | | |

How they interact: handlers of the control plane are concurrent tasks. Each call
of the store is one lock acquisition in memory and an await, so a handler is
atomic between its awaits only, and a client that disconnects drops the handler
at the await it is at. Runners never share memory with the control plane: they
poll, and every failure of a request, a verification or a file system call ends
the process through `?` in `main.rs`; its sequence and nonce memory end with it.
A restart of the control plane with the in-memory store forgets everything.

What is hard in this code: handlers interleaved between a check and its act; a
command that is popped before the runner has it; two memories of the sequence
that are lost independently; a work directory that a crash can leave between any
two file system calls; deployment records keyed by content, shared by requests
and nodes; values read in one await and used in a later one. `PROJECT.json`
lists these hazards at their lines with the properties that cover them.

## 2. Modules

| Module | Models | Notes |
|---|---|---|
| `CommandQueue` | `MemoryStore::next_runner_command` on one queue, as operators | used by both `CommandDelivery` and `Rollout` |
| `CommandChannel` | what delivery promises, abstractly | no queue, no polls, no failures |
| `CommandDelivery` | the path of a command, implements `CommandChannel` | one action per await, poll, exit, restart |
| `PostgresQueue` | the same path over the Postgres table, implements `CommandChannel` | takes handlers and runner processes from `CommandDelivery` (INSTANCE) |
| `NodeRelease` | what a node promises about its releases, abstractly | one step per command |
| `LocalRunner` | one runner's work directory, implements `NodeRelease` | one action per file system call and external command |
| `Rollout` | compile/rollback/advance handlers, deployment records, queue and nodes | composes `CommandQueue` with nodes that behave as `NodeRelease`; implements `CommandChannel` too; both stores |
| `NodeRegistry` | tokens, node records, keys, runner start-up | |
| `XrayCompiler` | `compile_profile_to_xray` and `generate_subscription_artifact`, as operators | with the reference definitions they are checked against |
| `ProfileCompile` | creating and compiling profiles and clients, on both stores | uses `XrayCompiler` |
| `SubscriptionAccess` | clients, usage, subscription tokens and the fetch of a subscription, on both stores | one action per call in memory, per statement in Postgres |
| `CommandDeliveryProofs`, `PostgresQueueProofs`, `LocalRunnerProofs`, `NodeRegistryProofs`, `SubscriptionAccessProofs`, `ProfileCompileProofs`, `RolloutProofs` | theorems about the module of that name | with their inductive invariants, see section 4 |
| `FoldFacts` | induction, and what the folds of the community modules compute | used by the proofs about sums and loops |
| `MC*` | instances for TLC: symmetry sets | the constants are in the `.cfg` files |

### CommandDelivery

A command is its nonce (drawn fresh by `RunnerCommand::new`), node and sequence
number. `Sign` is `next_sequence` and the signature; `Enqueue` is the later await
of `compile_deployment` or `enqueue_rollback_command`; `Abort` drops the handler
in between. `SendPoll`, `Deliver` / `DeliverNothing` and `Apply` / `Reject` are
one turn of the runner's loop; `Verify` has the checks of
`SignedRunnerCommand::verify` except the signature, which is always good here.
`Exit` ends a runner at any point and may leave its poll in flight, which
`HandleStalePoll` then serves: what it pops is lost. `Expire` is the TTL, which
matters when the runner looks at the clock, so it passes while a command is held.
`Restart` empties the control plane and breaks open polls. Submission of results
belongs to `Rollout`. `issued`, `executed` (an `Execution` is a command and the session
that executed it) and `session` are history.

### PostgresQueue

`stored`, `leased` and `skipped` are the rows of `runner_commands`; the others are
pending. `Enqueue` is the INSERT, which answers Ok whether or not `UNIQUE (node_id,
sequence)` let it insert. A poll is a record that goes through its statements:
`PollSkip`, then the inner SELECT (`PollSelect`, `PollNothing`) and the outer
UPDATE (`PollLease`) of the second one. Under READ COMMITTED the SELECT is
evaluated on the statement's snapshot and not again when the row lock is granted,
so another poll may have leased the row by then. A poll outlives the runner that
sent it until `DropPoll` or its answer; `Restart` keeps the table, forgets the
numbers and drops the polls that are not inside the UPDATE. The rest is
`CommandDelivery`'s, instantiated without its queue. Nonces are named in the order
they are drawn (`FreshNonce`, of the `Unused` ones), which leaves out no behaviour but a
renaming.

### LocalRunner

`pc` is the next file system call or external command of the command in hand.
`release[d]` is `absent`, `empty` (its `config.json` already removed by
`remove_dir_all`) or `complete`. `active` and `next` are link targets, and a
link may dangle. `core` is what the running core has loaded: external, known
through the hooks only; a reload hook that fails may or may not have loaded the
new config. `hooks` (any subset of reload and health) is chosen in `Init`.
`Crash` stands for a crash and for an I/O error of any call: both end the
process with the directory as it is. The one I/O error the code ignores, that of
`remove_file` in `rollback_after_apply_failure`, is taken not to happen.
Commands arrive here verified, in any order and for any deployment.

### Rollout

A handler record holds the await it is at and what it carries across it. A
deployment id is the digest of a config, so `Ids` are configs and the profile and
compiler (`ProfileCompile`) are the choice of an id. `store` is chosen in `Init`.

In memory, `RecordPlan` and `SubmitResult` are one lock acquisition each, a plan
overwrites the one of the same id, and `created` is its number: plans are taken to
be recorded in the order of their `created_at` (the code takes the time just before
the lock). In Postgres a compile is `StoreArtifact`, `LookUpPrevious`, `InsertPlan`
and `InsertPointer`, a result is `UpdateStatus`, `UpsertSnapshot` and
`InsertHealth`, all of them awaits at which the handler can be dropped, and the
first plan and pointer of an id stay. `artifact[d]` is the request whose artifact
id is in the table: every compile draws a new id, a digest keeps its first one, and
the rows of `deployments` and `rollback_pointers` have foreign keys to it, so an
INSERT of another request is `Refused` unless the row is there already.
`finished` numbers `finished_at`, which the first result sets. `queue` is the
in-memory queue and `rows` are the pending rows of Postgres; a store uses its own
one of the two, and `Undelivered` is what either has. `LatestSucceeded` is the set
of deployments that no other one is later than: times are numbered apart, so it has
one element at most.

`PostHealth` is the runner's own sample. Nodes run `NodeRelease`'s steps on what
the queue hands out, and their runner may end with a popped command or an
unsubmitted or half recorded result (`EndRunner`) or in the middle of a command
(`Interrupt`). A poll of Postgres is one step here; `PostgresQueue` has its
statements. Control plane restarts are not repeated here: in memory a restart
empties every record of this module at once, and its effect on the commands in
flight is in `CommandDelivery` and `PostgresQueue`. Results are submitted by the
runner that executed the command; `NodeRegistry` has their verification.

### NodeRegistry

`Ensured` is `ensure_default_registration_token`, which every token handler calls
first. `IssueLookup` and `IssueCreate` are the two awaits of
`issue_registration_token`. `Register` checks and marks the token and writes the
node under one lock; in Postgres it is one transaction whose `UPDATE ... WHERE
status = 'active'` lets one registration through, and the other calls decide in
one statement, so the module stands for both stores. A runner goes down, registering (with
`NODE_REGISTRATION_TOKEN` only), greeting (heartbeat), polling; a result is
verified in one await and committed in a later one, so rotations may fall in
between. Keys are abstract; a malformed key is one that no runner has.

### SubscriptionAccess

`store` is chosen in `Init`: the same handlers over `MemoryStore` and
`PostgresStore`. A call of the former is one step under its lock; a call of the
latter is one step per statement that writes or decides, since these calls open
no transaction. `StartCreate`, `JoinProfile`, `SetQuota` and `SetExpiry` are
`create_client`; `StartReport` and `UpsertRollup` are `runner_usage`;
`IssueToken`, `StartRotate` and `InsertRotated` are the token handlers;
`StartFetch` to `ReadExpiry` are `get_subscription`, where `Loop` is the `for`
over the credentials in `deployed_profile_for_subscription`. `Abort` drops a
handler at any of these awaits. Left out: the event rows, the text of the links,
and the tables `clients` and `secrets`, which are written before the credential
and always found. The profile and a node exist. The clients of a profile are a
set (the in-memory store keeps a `Vec`, in which a client created twice is listed
twice, with one decision for both). `Day` is a multiple of `Hour` and `Month` of
`Day`; months have one length.

`runner_usage` and both stores take any `i64` for uplink and downlink, and
`create_client` any `i64` for `quota_bytes`, without a check. So `Samples` and `Quotas`
are sets of integers, negative ones included, and usage may fall as well as grow. The
sums of the model do not overflow; those of the code do at 2^63 bytes.

History, which no action reads for a decision:

- `least` and `most`, per credential: what it has used at least and at most, whichever
  of the samples under way or cut off are counted. A sample that is sent widens the
  range by its bytes, to the side of its sign; the 202 moves the other end.
- `over` and `present` of a fetch: the credentials that were denied, and those in the
  profile, when the request came in, less those whose limits have changed, or of which
  a negative sample was sent or answered, since. Without the latter the claim is false:
  on Postgres a negative sample between the gate and the SUM brings a credential that
  was over its quota back under it, rightly.
- `seen` of a rotation: the tokens the profile had when it began. A token is in
  `Revoked` once a rotation that had seen it was answered. `barred` of a fetch: whether
  its token was in `Revoked` when it came in or, without a token, whether the profile
  had one.

`Denied` leaves a negative quota in memory out. That store counts every sample in three
rollups, and three times a negative usage is less than the usage: with a quota of -5 and
one sample of -2, it compares -6 with -5 and shows a credential that is over. It is the
miscount of `subscription_quota` with the other sign.

### XrayCompiler and ProfileCompile

The API creates profiles with one inbound and one client group, so a profile is
its protocol and a config is the protocol with the set of secrets it admits.
`CompileVless`, `CompileShadowsocks` and `CompileTrojan` are the arms of
`compile_profile_to_xray`, with its errors. The loop of each is a fold over the
credentials of the group, and `PushUuid`, `Select` and `PushPassword` are its rounds;
`ValidPsk` works on the number of bytes a password decodes to, `SupportsReality`
on a version as a sequence of parts, of which some are no numbers: `NextNumber` is
`parts.next()` after `filter_map`, the next part that parses. `Entitled`,
`OneMethod` and `AtLeast18` say the same without loops and are what the properties
compare with. The other fields of a config (ports, names, routing) are left out.

`ProfileCompile` is who calls it: in memory a profile is replaced and a client
appended, once more if its id is known; in Postgres the first version of a profile
stays and a client id is one secret and one row, whichever profile it is created
under. `MaterialsOf` is `credentials_for_profile`, whose JOIN in Postgres is a fold
over the rows (`JoinRow`). `ReadProfile` and `CompileProfile` are two awaits of `compile_deployment`
(the node is read between them and gives the version). `from` and `version` of a
compiled config, and `replaced`, are history.

## 3. Runs

Bounds are constants of the modules. Every module states the types of its variables
as `TypeOK`. It is proved for every module (section 4), so only `delivery` lists it and
the other runs list the properties that can really fail.
Passing runs:

- `delivery`: one node, three commands, two concurrent handlers, one exit, one
  control plane restart, TTL, fairness. Three commands are what it takes to
  overtake one another, lose one and still have one to execute. Nodes share
  nothing but the store's lock, and the proofs of section 4 are for any number of
  them. `AtMostOnce`, `SessionOrder`, `OnlyExpiryRejects`, `PendingDistinct`,
  `ImplementsChannel`. `QueueDrains`: no command stays in the queue for good.
  `QueuedIsSettled`: without an exit or a restart and within its TTL a queued
  command is executed unless the runner has moved past its number. The escape is
  what the code does: a lower number enqueued after a higher one is dropped unread.
- `postgres_queue`: the same bounds over the Postgres table. Three commands, an
  exit and a restart reach a number drawn twice, a row leased by two polls, and a
  row inserted between the statements of a poll. `ImplementsChannel`: no
  command is executed twice, although two polls may lease one row, since only one
  of them has a runner to answer. `DroppedOnlyForOldRow`: a
  command the store answered Ok for and did not insert met a row of an earlier run
  of the control plane. `SkippedWasLate`: only a row inserted after a higher one
  was handed out is ever passed over, which the in-memory queue does not keep.
  `PendingIsTaken` and `PunctualIsExecuted` under fairness.
- `runner_releases`: three deployments (new, previous, one uninvolved), four
  commands, two crashes, every choice of hooks. `ActiveIsTested`,
  `SuccessIsServing`, `RestingActiveComplete`, `OthersUntouched`,
  `ImplementsNode`. Crash after crash reaches every combination of dangling
  links and half-removed releases.
- `rollout_one_node`: both stores, one node, two configs, three requests of which
  two overlap (compile, compile, rollback is the shortest path to a rollback
  command), one posted health sample, one fault (a runner end or an interruption),
  disconnecting clients. `RollbackTargetInstalled`, `SucceededIsInstalled`, the
  refinements `ImplementsChannel` and `NodesImplement`, and `PromotedIsInstalled`:
  advance joins a status and samples of different moments, so a deployment that was
  rolled back in between is still promoted, but never one that is not on its
  node. These three invariants are claimed while no command has been interrupted: an
  interrupted re-deployment removes its release. `PointerIsOtherInPostgres`: no
  deployment is its own rollback target there (in memory a recompiled one is).
  `SettledHasSnapshot`: a result without its snapshot is one that Postgres was
  stopped in. `DeployedCompilesAgain`: a compile that Postgres refuses is one whose
  config was never taken to its end by the request that owns the artifact.
- `rollout_serial`: both stores, one request at a time, an idempotency key,
  fairness. `OneCommandPerKey` and `PendingResolves`: both need that handlers do not
  overlap, see `rollout_same_key` and the overtaken numbers above.
- `registry_nodes`: two nodes, one of which registers itself, two tokens, two
  keys, two concurrent issuers, one exit and one rotation.
  `OneNodePerToken`, `AcceptedWasRegistered` (a result about to
  be committed was signed with a key of the node's own record, since the result
  was ready), and `RegisteredRunnerPolls` for nodes an operator registered.
- `subscription_access`: both stores, one profile, two clients, three requests of
  which two overlap, quotas of -1 and 0, samples of -1 and 1, two instants in different
  hours of one day, disconnecting clients. `OverLimitHidden` on both stores, with the
  exceptions for negative amounts stated above; `RotatedRefused`: a token that the
  profile had when a rotation began is refused to every request after that rotation was
  answered, whatever else is issued and rotated meanwhile; `CreatedHasLimits`;
  `EntitledShownByPostgres` on the store that keeps it; `BucketsAgree` for credentials
  without a report under way or cut off. Three requests are a client, a sample and a
  fetch, or an issue, a rotation and a fetch.
- `profile_compile`: both stores, two profiles, two clients, two profile and two
  client creations, materials of every kind with two shadowsocks methods, two keys
  and a key of the wrong length, versions at both sides of 1.8 and with parts that
  are no numbers, two waiting handlers. Two creations of each kind are what it takes
  to create something again, which is where the stores differ. `ConfigIsEntitled`
  and `RealityHasVersion` compare the compiler with its reference;
  `AdmittedHasLink` and `ConfigMatchesProfileInPostgres` relate a deployed config to
  what has been created since.

Runs whose counterexample is the result; each quotes the line it contradicts in
`PROJECT.json` under `findings`:

- `rollout_two_nodes` (`RollbackTargetInstalled`): the deployment id does not
  contain the node. One config compiled for two nodes is one record, the first
  node's result is recorded as the second's, and a rollback is queued to a node
  that never had the release. The trace also shows a rollback pointer that names
  its own deployment, which recompiling an unchanged config makes.
- `rollout_same_key` (`OneCommandPerKey`): overlapping requests with one key.
- `subscription_quota` (`EntitledShown`): every sample is in three rollups, and
  `credential_quota_exceeded_in_memory` adds all of them up: a client that has
  used its quota to a third is hidden, while the quota endpoint and Postgres
  count the hours.
- `subscription_rotation` (`TokenlessRefused`): Postgres retires the old tokens in
  one statement and inserts the new one in the next. In between no token is
  active, so none is required.

More that the models show, without a run of their own:

- "monotonic sequence" holds within a runner process and not for a node, since a
  process that starts again has forgotten its `last_sequence` (this is why
  `SessionOrder` is about sessions);
- a runner with `NODE_REGISTRATION_TOKEN` uses the token up in its first start and
  ends with a 409 at every later one (this is why `RegisteredRunnerPolls` leaves
  such nodes out);
- `switch_active` removes `active` before it renames `active.next` into place, so
  the "atomic `active` symlink switch" of `docs/runner/trust-model.md` has a moment
  without an active release (`NodeRelease` allows it to an interrupted command);
- after a restart on Postgres a compile is answered 201 while its command is dropped
  for a row of the earlier run, until the numbers have caught up
  (`DroppedOnlyForOldRow` says that nothing else drops one);
- a Postgres compile that is dropped between its artifact and its pointer leaves a
  config that every later compile is refused for, and the artifact id in the answer
  of a repeated compile is in no table, so `GET /artifacts/{artifact_id}/bytes` does
  not find it (this is why `DeployedCompilesAgain` asks for a finished compile);
- a second shadowsocks client of a profile gets a link with a password that its
  config does not admit: the converse of `AdmittedHasLink` does not hold;
- `supports_reality` takes "v1.7.5" for version 7.5 (this is why
  `RealityHasVersion` is about versions written in numbers).

Deadlock is checked in `delivery`, `postgres_queue` and `registry_nodes`. In the
others the bounded requests simply run out, so it is off there.

Every property of a passing run has a mutant in `PROJECT.json`: an operator
`Mutant...` next to the definition it replaces, a change of the kind a bug in
that code would make, under which TLC finds the property violated.

### Fairness

Weak fairness only, on what the code does by itself:

- a runner that is up polls, and finishes what it polled: `main.rs` loops. This
  supposes that `xray -test` and the hooks return; they are awaited without a
  timeout;
- the control plane answers a poll, a heartbeat or a result that it has received, on
  Postgres statement by statement;
- a runner that ended is started again by its supervisor. `CommandDelivery`
  supposes that such a start gets to polling, which `RegisteredRunnerPolls` shows
  for operator-registered nodes; a runner with a used registration token ends at
  every start, and this liveness is not about it;
- a handler whose client stays connected runs to its end (`Rollout`).

Nothing is fair about signing, disconnects, exits, restarts or the TTL.

## 4. Proofs

Seven modules hold the theorems, and `FoldFacts` lemmas that two of them use. They are for every value of the constants that
satisfies the `ASSUME` of the module: any sets of nodes, deployments, requests,
clients and versions, any number of handlers, crashes, exits and restarts, and both
stores. TLC evaluates the same assumptions on the instances of the runs. Those of
`SubscriptionAccess` let samples and quotas be any integers; they ask that `None` is
neither an input nor a row, and that buckets nest (`Day` a multiple of `Hour`, `Month`
of `Day`).

| Theorem | States | Module of the specification |
|---|---|---|
| `TypeCorrect` | `Spec => []TypeOK` | `CommandDelivery` |
| `AtMostOnceHolds` | `Spec => []AtMostOnce` | |
| `OnlyExpiryRejectsHolds` | `Spec => []OnlyExpiryRejects` | |
| `SessionOrderHolds` | `Spec => []SessionOrder` | |
| `PendingDistinctHolds` | `Spec => []PendingDistinct` | |
| `DeliveryImplementsChannel` | `Spec => ImplementsChannel` | |
| `QueueTypeCorrect` | `Spec => []TypeOK` | `PostgresQueue` |
| `DroppedOnlyForOldRowHolds` | `Spec => []DroppedOnlyForOldRow` | |
| `SkippedWasLateHolds` | `Spec => []SkippedWasLate` | |
| `QueueImplementsChannel` | `Spec => ImplementsChannel` | |
| `RunnerTypeCorrect` | `Spec => []TypeOK` | `LocalRunner` |
| `ActiveIsTestedHolds` | `Spec => []ActiveIsTested` | |
| `SuccessIsServingHolds` | `Spec => []SuccessIsServing` | |
| `RestingActiveCompleteHolds` | `Spec => []RestingActiveComplete` | |
| `OthersUntouchedHolds` | `Spec => OthersUntouched` | |
| `RunnerImplementsNode` | `Spec => ImplementsNode` | |
| `RegistryTypeCorrect` | `Spec => []TypeOK` | `NodeRegistry` |
| `OneNodePerTokenHolds` | `Spec => []OneNodePerToken` | |
| `AcceptedWasRegisteredHolds` | `Spec => []AcceptedWasRegistered` | |
| `AccessTypeCorrect` | `Spec => []TypeOK` | `SubscriptionAccess` |
| `RotatedRefusedHolds` | `Spec => []RotatedRefused` | |
| `CreatedHasLimitsHolds` | `Spec => []CreatedHasLimits` | |
| `BucketsAgreeHolds` | `Spec => []BucketsAgree` | |
| `OverLimitHiddenHolds` | `Spec => []OverLimitHidden` | |
| `EntitledShownByPostgresHolds` | `Spec => EntitledShownByPostgres` | |
| `ConfigMatchesProfileInPostgresHolds` | `Spec => []ConfigMatchesProfileInPostgres` | `ProfileCompile` |
| `RealityHasVersionHolds` | `Spec => []RealityHasVersion` | |
| `ProfileTypeCorrect` | `Spec => []TypeOK` | |
| `ConfigIsEntitledHolds` | `Spec => []ConfigIsEntitled` | |
| `AdmittedHasLinkHolds` | `Spec => []AdmittedHasLink` | |
| `RolloutTypeCorrect` | `Spec => []TypeOK` | `Rollout` |
| `PointerIsOtherInPostgresHolds` | `Spec => []PointerIsOtherInPostgres` | |
| `SettledHasSnapshotHolds` | `Spec => []SettledHasSnapshot` | |
| `RollbackTargetInstalledHolds` | `Nodes = {n}` gives `Spec => []RollbackTargetInstalled` | |
| `SucceededIsInstalledHolds` | `Nodes = {n}` gives `Spec => []SucceededIsInstalled` | |
| `PromotedIsInstalledHolds` | `Nodes = {n}` gives `Spec => []PromotedIsInstalled` | |
| `ReleasesAreSomewhere` | `Spec => []KnownSomewhere` | |
| `DeployedCompilesAgainHolds` | `Spec => DeployedCompilesAgain` | |
| `NodesImplementHolds` | `Spec => NodesImplement` | |
| `RolloutImplementsChannel` | `Spec => ImplementsChannel` | |
| `OneCommandPerKeyHolds` | `MaxHandlers = 1`, `MayAbort = FALSE` give `Spec => []OneCommandPerKey` | |

Four theorems have a hypothesis, and for each the code breaks the property without
it: `rollout_two_nodes` is the counterexample with a second node, `rollout_same_key`
the one with a second handler. (A client that disconnects between the queue and the
stored response, and tries again, queues a second command as well.)
`ReleasesAreSomewhere` is what is left of the first three with any number of nodes:
what is rolled back to, has Succeeded or was promoted is installed on some node.

What the assumptions ask for: bounds are natural numbers, sets of stores and
operations are among the known ones, and the value `None` is not one of the values it
is the absence of. `RolloutAssumption` wants `Ids` and `Requests` finite: "the latest
of a set" needs a largest number. `AccessAssumption` wants hours, days and months to
take time, days to be whole hours and months whole days.

### The invariants

Hardly any of the properties is inductive as it stands. What each proof adds:

- **`CommandDelivery`**, `Located`. That an executed command is not executed again
  depends on its not being anywhere else any more: nonces of issued commands are
  distinct; what is signed, queued, held or executed was issued and is at its own
  node; a command is in one of these places at most (and at one index of its queue);
  and a runner's memory covers what it has executed (`seen`) and what it holds is
  above `last`. Each action moves a command from one place to the next, one lemma per
  action. `OnlyExpiryRejects` follows. `SessionOrder` adds that what the current
  process has executed is at most `last` and that no session number lies in the
  future; `PendingDistinct` that what is pending is at most `nodeSequences`, which a
  restart sets to 0 in the step that empties the pending commands. The refinement uses
  `Located` for `Execute`'s guard, that the command is issued and not done.
- **`PostgresQueue`**, `QueueInv`. A command is not in one place here: two polls may
  lease one row. `NotYetExecuted` says that neither what a runner holds nor what its
  own poll is about to return was executed, and `OnePoll` that a live process has at
  most one such poll; polls of earlier sessions answer nobody. For the table:
  `NumbersOfThisRun` (a number drawn since the last restart is drawn once) gives
  `DroppedOnlyForOldRow`, and `PassedOver` (a pending row below one that is handed out
  came after it) with `PastIsLeased` gives `SkippedWasLate`.
- **`LocalRunner`**, `RunnerInv`. The call that the runner is at determines what the
  directory looks like, relative to what it was when the command began: which function
  the step is of (`StepOfCommand`), what `switch_active` was called with
  (`TargetOfSwitch`), that whatever may yet be activated has passed the test
  (`CandidatesTested`), where the new release, `active` and the set of releases stand
  (`NewRelease`, `ActiveMoves`, `InstalledMoves`), and that nothing is damaged while no
  process has ended inside a command (`NoFaultNoDamage`). The last five make
  `RunnerImplementsNode` a step-by-step argument: all calls stutter but those that
  return a result, and `Crash`, which maps to an interrupted command.
- **`NodeRegistry`**, `RegistryInv`. `UsedTokens`: a token that has registered a node
  is `used`, by that node, and nothing makes it active again, `issue` between its two
  awaits included. `KeysDuring`: `during` has the key of the record now and the one
  that a verified result was signed with.
- **`SubscriptionAccess`**, `AccessInv`: what is known of each handler at each of its
  awaits (`TokenWasGood`, `LimitsSet`), which other handlers cannot take back.
  `AllRetire`: every token that a rotation has seen is rotated and stays so, and a
  handler that has still to insert its token has none, so no insert brings one back;
  with it a token in `Revoked` does not verify, which is `RotatedRefused`. Two more
  invariants rest on these. `LedgerInv` is about the rollups: for each credential and
  kind of bucket, the buckets add up to something between `least` and `most`, and every
  report under way keeps a distance to both ends (`Above`, `Below`): a positive sample to
  the lower end once the bucket is written and to the upper until then, a negative one
  the other way round. A report that is cut off leaves the bucket in the range. When the
  ends meet there is no such report and the buckets are what was accepted, which is
  `BucketsAgree`; in memory the ends always meet, and all rollups together are three
  times them. `FetchInv` is about a fetch between its awaits: what
  was denied as it began is denied still and is not shown (`HidesDenied`), and a client
  that is entitled is still to come, at hand or shown (`ShowsEntitled`). The step that
  reads the hours needs `LedgerInv`: they have at least `least`, so a denied
  client does not pass, and at most `most`, so an entitled one does. The proof of
  a step judges the fetches by the state before it (`FetchesDecide`) and then shows that
  what they know stays true (`FetchStays`): time grows, no client leaves a profile, and
  a client whose limits change, or of which a negative sample is sent or answered, is
  dropped from what a fetch knows; any other step leaves `least` and `most` where they
  are or raises them.
- **`ProfileCompile`**, `CompileInv`. `HeldIsStored`: on Postgres what a compile read
  before its awaits is what the table still has after them. `ConfigShape`: a vless
  config passed `supports_reality`, and the lemma `SupportsRealityIsAtLeast18` shows
  that this is the comparison with 1.8 for every version in numbers. `LinkInv` adds the
  configs: each is what `Entitled` says of the credentials it was compiled from, and
  these are linked to the profile still or were overwritten (`FromIsLinked`). That a
  compile establishes it is a lemma per loop of the compiler.
- **`Rollout`**, `RecordsInv`. `HandlersSound` says what each handler holds at each
  await and that the rows it has read or written are still there; `TablesSound`,
  `CommandsSound` and `ReportsSound` relate plans, pointers, statuses, commands and
  results; all of them say that what is, was or may become a rollback target is
  installed somewhere, while no command was interrupted. `PointerIsOtherInPostgres`
  needs that a compile which found its own id Succeeded already has a pointer, so its
  INSERT changes nothing. `DeployedCompilesAgain` needs that an answered compile has
  left both plan and pointer, so no later INSERT of its id reaches the foreign key.
  For the channel, `DeliveredOnce`: a command to deliver is of a handler past its
  enqueue, was not executed, and is in one store once. `KeysInv` is for the keys: what
  a key has queued is answered for, or the one running handler is about to.

### Sums and loops

What `MapThenSumSet` and `FoldLeft` return takes an induction over their argument. The
induction theorems of the library have an operator as a parameter, which the provers
cannot instantiate. `FoldFacts` states induction for a set instead: a set of numbers
that has 0 and the successors of its elements has all of them (`Induction`, from the
well-foundedness of the order), and a set of subsets of a finite `S` that has a set
when it has the set's rest has `S` (`SubsetInduction`), or when it has the set without
any one of its elements (`RemovalInduction`). With it the recursive function
inside the folds is shown to exist (`FoldDef`) and, for a loop over the indices of a
sequence, to be the loop's state after each round (`LoopDef`). The operators of a fold
are constants of the module, so each sum or loop is an instance of it: `Sums` in
`SubscriptionAccessProofs`; `Uuids`, `Passwords`, `Selection` and `Join` in
`ProfileCompileProofs`. There a loop's result follows from a loop invariant: the set of
the rounds after which it holds is inductive.

With `RunnerImplementsNode` and `NodesImplementHolds` the composition is proved at both
ends: the rollout is shown for nodes that behave as `NodeRelease`, and the runner,
call by call, behaves so.

### Only model-checked

Liveness, which is out of the prover's reach: `QueueDrains`, `QueuedIsSettled`,
`PendingIsTaken`, `PunctualIsExecuted`, `PendingResolves`, `RegisteredRunnerPolls`.
Every invariant and every action property of a passing run is a theorem, four of them
under the hypotheses named above.

## 5. Not modelled

Left out for good: web console, scripts, read-only inventory views (node, profile,
client, deployment, quota and usage listings change no state), audit and outbox
rows, start-up and routing, HTTP and JSON layout, the text of configs and links, the
cryptography itself. A hook or an `xray -test` that never returns is left out too:
it is awaited without a timeout, and every liveness property supposes it returns.
