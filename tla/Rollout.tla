------------------------------ MODULE Rollout ------------------------------
(***************************************************************************)
(* Deployments from compile to rollback: the control plane's compile,      *)
(* rollback and advance handlers at the granularity of their awaits, the   *)
(* deployment records, the command queue, and the nodes as NodeRelease     *)
(* describes them.  The in-memory store records a plan or a result under   *)
(* one lock; Postgres does it in several statements without a transaction, *)
(* and keeps the first plan of an id.                                      *)
(*                                                                         *)
(* A deployment id is the digest of the compiled config, so one id stands  *)
(* for one config, whichever profile, node or request it was compiled for. *)
(* A handler that waits may be dropped with its connection (Abort); a      *)
(* command or a result may be lost with the runner that held it.           *)
(***************************************************************************)
EXTENDS Naturals, Sequences, FiniteSets, CommandQueue

CONSTANTS
    Nodes,              \* registered nodes
    Ids,                \* deployment ids: "dep-" and the artifact's digest
    Requests,           \* handler invocations
    Keys,               \* idempotency keys clients send
    None,
    Stores,             \* which of "memory", "postgres" the control plane runs on
    Operations,         \* which of "compile", "rollback", "advance" are called
    MaxHandlers,        \* bound: handlers running at once
    MayAbort,           \* whether clients may disconnect
    MaxSamples,         \* bound: health samples posted
    MaxEnds,            \* bound: runner ends between commands
    MaxInterruptions,   \* bound: runner ends in the middle of a command
    MaxFaults           \* bound: ends of both kinds

Statuses == {"Pending", "Succeeded", "Failed", "RolledBack"}
Results  == [kind : {"apply", "rollback"}, id : Ids, status : Statuses \ {"Pending"}]
Replies  == {"compiled", "replayed", "promoted", "waiting", "rollback_queued", "error"}

ASSUME RolloutAssumption ==
    /\ None \notin Nodes \cup Ids \cup Keys \cup Requests \cup Replies
    /\ None \notin {"compile", "rollback", "advance"}
    /\ None \notin Statuses \cup Results \cup [node : Nodes, status : Statuses]
    /\ IsFiniteSet(Ids) /\ IsFiniteSet(Requests)
    /\ Stores \subseteq {"memory", "postgres"}
    /\ Operations \subseteq {"compile", "rollback", "advance"}
    /\ MayAbort \in BOOLEAN
    /\ {MaxHandlers, MaxSamples, MaxEnds, MaxInterruptions, MaxFaults} \subseteq Nat

VARIABLES
    store,          \* the store the control plane was started with
    nodeSequences,  \* AppState.node_sequences
    handler,        \* per request: its step and what it holds across awaits
    reply,          \* per request: what the client was told
    artifact,       \* artifacts (Postgres): the request whose row the config has
    plan,           \* deployments: the node of the plan
    created,        \* its created_at, as the number of the plan
    finished,       \* its finished_at, as the number of the result (Postgres)
    status,         \* deployment_statuses, or deployments.status
    pointed,        \* ids that have a rollback pointer
    previous,       \* rollback_pointers: previous_deployment_id
    snapshot,       \* deployment_snapshots: node and result status
    health,         \* deployment_health_checks, oldest first
    responses,      \* idempotency_responses: the request answered
    queue,          \* MemoryState.runner_commands, in the order they came
    rows,           \* runner_commands (Postgres): the pending rows
    enqueued,       \* history: requests whose command reached the queue
    last,           \* the runner's last_sequence
    executed,       \* history: requests whose command a runner executed
    installed,      \* per node: releases on disk
    active,         \* per node: the active release
    report,         \* per node: the result of its last command
    runner,         \* per node: its runner process is "polling", has a result
                    \* to submit ("unsent"), waits for Postgres to record its
                    \* snapshot or its health sample, or has "ended"
    plans,          \* plans recorded so far
    samples,        \* health samples posted so far
    ends,           \* such ends so far
    interruptions   \* interruptions so far

storeVars   == <<store, artifact, plan, created, finished, status, pointed,
                 previous, snapshot, health>>
handlerVars == <<handler, reply>>
nodeVars    == <<last, executed, installed, active, report, runner>>
bounds      == <<plans, samples, ends, interruptions>>
vars == <<store, nodeSequences, handler, reply, artifact, plan, created, finished,
          status, pointed, previous, snapshot, health, responses, queue, rows, enqueued,
          last, executed, installed, active, report, runner, plans, samples, ends,
          interruptions>>

Commands == [nonce : Requests, node : Nodes, sequence : Nat,
             kind : {"apply", "rollback"}, id : Ids, to : Ids \cup {None}]

\* step: the await the handler is at.  to: the rollback target it read.
\* observed: the status an advance handler read.
Handlers ==
    [step : {"new", "compile", "stored", "insert", "link", "ready", "signed", "queued",
             "status", "pointer", "snapshot", "done"},
     op : Operations \cup {None}, id : Ids \cup {None}, node : Nodes \cup {None},
     key : Keys \cup {None}, to : Ids \cup {None}, sequence : Nat,
     observed : Statuses \cup {None}]

NewHandler == [step |-> "new", op |-> None, id |-> None, node |-> None,
               key |-> None, to |-> None, sequence |-> 0, observed |-> None]

TypeOK ==
    /\ store \in Stores
    /\ nodeSequences \in [Nodes -> Nat]
    /\ handler \in [Requests -> Handlers]
    /\ reply \in [Requests -> Replies \cup {None}]
    /\ artifact \in [Ids -> Requests \cup {None}]
    /\ plan \in [Ids -> Nodes \cup {None}]
    /\ created \in [Ids -> Nat]
    /\ finished \in [Ids -> Nat]
    /\ pointed \subseteq Ids
    /\ status \in [Ids -> Statuses \cup {None}]
    /\ previous \in [Ids -> Ids \cup {None}]
    /\ snapshot \in [Ids -> [node : Nodes, status : Statuses] \cup {None}]
    /\ health \in [Ids -> Seq({"healthy", "unhealthy"})]
    /\ responses \in [Keys -> Requests \cup {None}]
    /\ queue \in [Nodes -> Seq(Commands)]
    /\ rows \in [Nodes -> SUBSET Commands]
    /\ enqueued \subseteq Requests
    /\ last \in [Nodes -> Nat]
    /\ executed \subseteq Requests
    /\ installed \in [Nodes -> SUBSET Ids]
    /\ active \in [Nodes -> Ids \cup {None}]
    /\ report \in [Nodes -> Results \cup {None}]
    /\ runner \in [Nodes -> {"polling", "unsent", "snapshot", "health", "ended"}]
    /\ {plans, samples, ends, interruptions} \subseteq Nat

Init ==
    /\ store \in Stores
    /\ nodeSequences = [n \in Nodes |-> 0]
    /\ handler = [r \in Requests |-> NewHandler]
    /\ reply = [r \in Requests |-> None]
    /\ artifact = [d \in Ids |-> None]
    /\ plan = [d \in Ids |-> None]
    /\ created = [d \in Ids |-> 0]
    /\ finished = [d \in Ids |-> 0]
    /\ pointed = {}
    /\ status = [d \in Ids |-> None]
    /\ previous = [d \in Ids |-> None]
    /\ snapshot = [d \in Ids |-> None]
    /\ health = [d \in Ids |-> <<>>]
    /\ responses = [k \in Keys |-> None]
    /\ queue = [n \in Nodes |-> <<>>]
    /\ rows = [n \in Nodes |-> {}]
    /\ enqueued = {}
    /\ last = [n \in Nodes |-> 0]
    /\ executed = {}
    /\ installed = [n \in Nodes |-> {}]
    /\ active = [n \in Nodes |-> None]
    /\ report = [n \in Nodes |-> None]
    /\ runner = [n \in Nodes |-> "polling"]
    /\ plans = 0
    /\ samples = 0
    /\ ends = 0
    /\ interruptions = 0

-----------------------------------------------------------------------------
(* Handlers: bookkeeping.                                                  *)

Busy == {r \in Requests : handler[r].step \notin {"new", "done"}}

MayStart(r, op) ==
    /\ op \in Operations
    /\ handler[r].step = "new"
    /\ Cardinality(Busy) < MaxHandlers

\* The handler goes on to its next await with what it has learnt.
GoTo(r, h) ==
    /\ handler' = [handler EXCEPT ![r] = h]
    /\ UNCHANGED reply

\* The handler ends, and what it has read goes with it.
Answer(r, h, text) ==
    /\ handler' = [handler EXCEPT ![r] = [h EXCEPT !.step = "done", !.op = None,
                                           !.to = None, !.observed = None]]
    /\ reply' = [reply EXCEPT ![r] = text]

-----------------------------------------------------------------------------
(* compile_deployment.                                                     *)

\* The idempotency lookup.  Its inputs are the node, the config the profile
\* compiles to and the key; a cached response ends the handler.  A request that
\* fails before its plan is recorded changes nothing of this state.
\* Mutant: the stored responses are never consulted.
MutantCachedNever(k) == FALSE

Cached(k) == k # None /\ responses[k] # None

StartCompile(r, n, d, k) ==
    LET h == [NewHandler EXCEPT !.step = "compile", !.op = "compile", !.node = n,
                                !.id = d, !.key = k] IN
    /\ MayStart(r, "compile")
    /\ \/ Cached(k) /\ Answer(r, h, "replayed")
       \/ ~Cached(k) /\ GoTo(r, h)
    /\ UNCHANGED <<nodeSequences, responses, queue, rows, enqueued>>
    /\ UNCHANGED storeVars /\ UNCHANGED nodeVars /\ UNCHANGED bounds

\* Mutant: the status of the candidate is not looked at.
MutantCandidatesAnyStatus(n) == {e \in Ids : plan[e] = n}

\* The node's deployments that are Succeeded.
Candidates(n) == {e \in Ids : plan[e] = n /\ status[e] = "Succeeded"}

\* What a new plan for the node may roll back to: in memory the candidate planned
\* last (created_at), in Postgres the one whose first result came last
\* (finished_at), and None without a candidate.
LatestSucceeded(n) ==
    LET S == Candidates(n)
        at == IF store = "memory" THEN created ELSE finished IN
    IF S = {} THEN {None} ELSE {e \in S : \A f \in S : at[f] <= at[e]}

\* MemoryStore::record_deployment_plan: the record, its Pending status and the
\* rollback pointer under one lock; a plan of the same id is overwritten.
RecordPlan(r) ==
    LET h == handler[r]  d == h.id IN
    /\ store = "memory"
    /\ h.step = "compile"
    /\ plan' = [plan EXCEPT ![d] = h.node]
    /\ created' = [created EXCEPT ![d] = plans + 1]
    /\ plans' = plans + 1
    /\ status' = [status EXCEPT ![d] = "Pending"]
    /\ pointed' = pointed \cup {d}
    /\ \E e \in LatestSucceeded(h.node) : previous' = [previous EXCEPT ![d] = e]
    /\ GoTo(r, [h EXCEPT !.step = "ready"])
    /\ UNCHANGED <<store, nodeSequences, artifact, finished, snapshot, health,
                   responses, queue, rows, enqueued, samples, ends, interruptions>>
    /\ UNCHANGED nodeVars

\* PostgresStore::record_artifact_blob: the row gets the request's artifact id,
\* unless the config has a row (ON CONFLICT (tenant_id, sha256) DO NOTHING).
StoreArtifact(r) ==
    LET h == handler[r] IN
    /\ store = "postgres"
    /\ h.step = "compile"
    /\ artifact' = [artifact EXCEPT ![h.id] = IF @ = None THEN r ELSE @]
    /\ GoTo(r, [h EXCEPT !.step = "stored"])
    /\ UNCHANGED <<store, nodeSequences, plan, created, finished, status, pointed,
                   previous, snapshot, health, responses, queue, rows, enqueued>>
    /\ UNCHANGED nodeVars /\ UNCHANGED bounds

\* PostgresStore::record_deployment_plan looks the previous deployment up, ...
LookUpPrevious(r) ==
    LET h == handler[r] IN
    /\ h.step = "stored"
    /\ \E e \in LatestSucceeded(h.node) :
           GoTo(r, [h EXCEPT !.step = "insert", !.to = e])
    /\ UNCHANGED <<nodeSequences, responses, queue, rows, enqueued>>
    /\ UNCHANGED storeVars /\ UNCHANGED nodeVars /\ UNCHANGED bounds

\* Mutant: the foreign key is checked although nothing is inserted.
MutantInsertableAlways(r, known) == artifact[handler[r].id] = r

\* An INSERT that names the request's artifact id passes when its row is known (ON
\* CONFLICT (id) DO NOTHING) or when the id is in artifacts (the foreign key).
Insertable(r, known) == known \/ artifact[handler[r].id] = r

\* The statement fails with a database error, a 500.
Refused(r) ==
    LET h == handler[r] IN
    /\ \/ h.step = "insert" /\ ~Insertable(r, plan[h.id] # None)
       \/ h.step = "link" /\ ~Insertable(r, h.id \in pointed)
    /\ Answer(r, h, "error")
    /\ UNCHANGED <<nodeSequences, responses, queue, rows, enqueued>>
    /\ UNCHANGED storeVars /\ UNCHANGED nodeVars /\ UNCHANGED bounds

\* ... inserts the deployment as Pending, unless it knows the id, ...
InsertPlan(r) ==
    LET h == handler[r]  d == h.id IN
    /\ h.step = "insert"
    /\ Insertable(r, plan[d] # None)
    /\ \/ /\ plan[d] = None
          /\ plan' = [plan EXCEPT ![d] = h.node]
          /\ created' = [created EXCEPT ![d] = plans + 1]
          /\ plans' = plans + 1
          /\ status' = [status EXCEPT ![d] = "Pending"]
       \/ /\ plan[d] # None
          /\ UNCHANGED <<plan, created, plans, status>>
    /\ GoTo(r, [h EXCEPT !.step = "link"])
    /\ UNCHANGED <<store, nodeSequences, artifact, finished, pointed, previous,
                   snapshot, health, responses, queue, rows, enqueued, samples, ends,
                   interruptions>>
    /\ UNCHANGED nodeVars

\* Mutant: the conflict overwrites the pointer.
MutantLinkedUpserts(d, e) == [previous EXCEPT ![d] = e]

\* ON CONFLICT (id) DO NOTHING
Linked(d, e) == [previous EXCEPT ![d] = IF d \in pointed THEN @ ELSE e]

\* ... and inserts the rollback pointer, unless there is one.
InsertPointer(r) ==
    LET h == handler[r] IN
    /\ h.step = "link"
    /\ Insertable(r, h.id \in pointed)
    /\ previous' = Linked(h.id, h.to)
    /\ pointed' = pointed \cup {h.id}
    /\ GoTo(r, [h EXCEPT !.step = "ready", !.to = None])
    /\ UNCHANGED <<store, nodeSequences, artifact, plan, created, finished, status,
                   snapshot, health, responses, queue, rows, enqueued>>
    /\ UNCHANGED nodeVars /\ UNCHANGED bounds

\* Mutant: the sequence is read and not advanced.
MutantSignReusesSequence(r) ==
    LET h == handler[r]  n == h.node IN
    /\ h.step = "ready"
    /\ GoTo(r, [h EXCEPT !.step = "signed", !.sequence = nodeSequences[n] + 1])
    /\ UNCHANGED <<nodeSequences, responses, queue, rows, enqueued>>
    /\ UNCHANGED storeVars /\ UNCHANGED nodeVars /\ UNCHANGED bounds

\* next_sequence and the signature, for a compile or a rollback.
Sign(r) ==
    LET h == handler[r]  n == h.node IN
    /\ h.step = "ready"
    /\ nodeSequences' = [nodeSequences EXCEPT ![n] = @ + 1]
    /\ GoTo(r, [h EXCEPT !.step = "signed", !.sequence = nodeSequences[n] + 1])
    /\ UNCHANGED <<responses, queue, rows, enqueued>>
    /\ UNCHANGED storeVars /\ UNCHANGED nodeVars /\ UNCHANGED bounds

CommandOf(r) ==
    LET h == handler[r] IN
    [nonce |-> r, node |-> h.node, sequence |-> h.sequence,
     kind |-> IF h.op = "compile" THEN "apply" ELSE "rollback",
     id |-> h.id, to |-> h.to]

\* enqueue_runner_command.  A compile with a key has its response to store; any
\* other handler answers.
Enqueue(r) ==
    LET h == handler[r] IN
    /\ h.step = "signed"
    /\ \/ /\ store = "memory"
          /\ queue' = [queue EXCEPT ![h.node] = Append(@, CommandOf(r))]
          /\ UNCHANGED rows
       \/ /\ store = "postgres"
          /\ rows' = [rows EXCEPT ![h.node] = @ \cup {CommandOf(r)}]
          /\ UNCHANGED queue
    /\ enqueued' = enqueued \cup {r}
    /\ \/ h.key # None /\ GoTo(r, [h EXCEPT !.step = "queued"])
       \/ h.key = None /\ Answer(r, h, IF h.op = "compile" THEN "compiled"
                                       ELSE "rollback_queued")
    /\ UNCHANGED <<nodeSequences, responses>>
    /\ UNCHANGED storeVars /\ UNCHANGED nodeVars /\ UNCHANGED bounds

\* record_idempotency_response keeps the first response of a key.
RecordResponse(r) ==
    LET h == handler[r] IN
    /\ h.step = "queued"
    /\ responses' = [responses EXCEPT ![h.key] = IF @ = None THEN r ELSE @]
    /\ Answer(r, h, "compiled")
    /\ UNCHANGED <<nodeSequences, queue, rows, enqueued>>
    /\ UNCHANGED storeVars /\ UNCHANGED nodeVars /\ UNCHANGED bounds

-----------------------------------------------------------------------------
(* queue_rollback and advance_deployment_rollout.                          *)

StartRollback(r, d) ==
    /\ MayStart(r, "rollback")
    /\ GoTo(r, [NewHandler EXCEPT !.step = "pointer", !.op = "rollback", !.id = d])
    /\ UNCHANGED <<nodeSequences, responses, queue, rows, enqueued>>
    /\ UNCHANGED storeVars /\ UNCHANGED nodeVars /\ UNCHANGED bounds

\* compute_deployment_readiness reads the status first.
StartAdvance(r, d) ==
    LET h == [NewHandler EXCEPT !.step = "status", !.op = "advance", !.id = d,
                                !.observed = status[d]] IN
    /\ MayStart(r, "advance")
    /\ \/ status[d] = None /\ Answer(r, h, "error")
       \/ status[d] # None /\ GoTo(r, h)
    /\ UNCHANGED <<nodeSequences, responses, queue, rows, enqueued>>
    /\ UNCHANGED storeVars /\ UNCHANGED nodeVars /\ UNCHANGED bounds

RequiredHealthySamples == 2

HealthySamples(d) == Cardinality({i \in DOMAIN health[d] : health[d][i] = "healthy"})

LatestUnhealthy(d) ==
    health[d] # <<>> /\ health[d][Len(health[d])] # "healthy"

\* Mutant: the samples alone decide.
MutantReadinessOfSamples(observed, d) ==
    CASE LatestUnhealthy(d) -> "latest_health_unhealthy"
      [] /\ ~LatestUnhealthy(d)
         /\ HealthySamples(d) < RequiredHealthySamples -> "waiting_for_healthy_samples"
      [] OTHER -> "ready"

\* The verdict on a status read earlier and the samples there are now.
Readiness(observed, d) ==
    CASE observed # "Succeeded" -> "waiting_for_successful_deployment"
      [] observed = "Succeeded" /\ LatestUnhealthy(d) -> "latest_health_unhealthy"
      [] /\ observed = "Succeeded" /\ ~LatestUnhealthy(d)
         /\ HealthySamples(d) < RequiredHealthySamples -> "waiting_for_healthy_samples"
      [] OTHER -> "ready"

\* Then it reads the health samples, and advance acts on the verdict.
ReadHealth(r) ==
    LET h == handler[r]  verdict == Readiness(h.observed, h.id) IN
    /\ h.step = "status"
    /\ \/ verdict = "ready" /\ Answer(r, h, "promoted")
       \/ verdict = "latest_health_unhealthy" /\ GoTo(r, [h EXCEPT !.step = "pointer"])
       \/ /\ verdict \notin {"ready", "latest_health_unhealthy"}
          /\ Answer(r, h, "waiting")
    /\ UNCHANGED <<nodeSequences, responses, queue, rows, enqueued>>
    /\ UNCHANGED storeVars /\ UNCHANGED nodeVars /\ UNCHANGED bounds

\* enqueue_rollback_command reads the rollback pointer; there is no command
\* without a plan or without a previous deployment.
ReadPointer(r) ==
    LET h == handler[r] IN
    /\ h.step = "pointer"
    /\ \/ previous[h.id] = None /\ Answer(r, h, "error")
       \/ /\ previous[h.id] # None
          /\ GoTo(r, [h EXCEPT !.step = "snapshot", !.to = previous[h.id]])
    /\ UNCHANGED <<nodeSequences, responses, queue, rows, enqueued>>
    /\ UNCHANGED storeVars /\ UNCHANGED nodeVars /\ UNCHANGED bounds

\* Then the snapshot, whose node the command is for.  The previous artifact's
\* bytes are always there.
ReadSnapshot(r) ==
    LET h == handler[r] IN
    /\ h.step = "snapshot"
    /\ \/ snapshot[h.id] = None /\ Answer(r, h, "error")
       \/ /\ snapshot[h.id] # None
          /\ GoTo(r, [h EXCEPT !.step = "ready", !.node = snapshot[h.id].node])
    /\ UNCHANGED <<nodeSequences, responses, queue, rows, enqueued>>
    /\ UNCHANGED storeVars /\ UNCHANGED nodeVars /\ UNCHANGED bounds

\* The client disconnects: the handler is dropped at the await it is at.
Abort(r) ==
    /\ MayAbort
    /\ r \in Busy
    /\ Answer(r, handler[r], None)
    /\ UNCHANGED <<nodeSequences, responses, queue, rows, enqueued>>
    /\ UNCHANGED storeVars /\ UNCHANGED nodeVars /\ UNCHANGED bounds

-----------------------------------------------------------------------------
(* Nodes: NodeRelease's steps on the commands the queue hands out.         *)

\* The commands to deliver to a node.
Undelivered(n) == Elements(queue[n]) \cup rows[n]

\* The command the store hands out, and what it leaves to deliver: in memory
\* the first one above last_sequence, in Postgres the lowest one.
HandsOut(n, c) ==
    \/ /\ store = "memory"
       /\ \E i \in DOMAIN queue[n] :
              /\ FirstFresh(queue[n], last[n], i)
              /\ c = queue[n][i]
              /\ queue' = [queue EXCEPT ![n] = Rest(@, i)]
       /\ UNCHANGED rows
    \/ /\ store = "postgres"
       /\ c.sequence > last[n]
       /\ \A d \in rows[n] : d.sequence > last[n] => c.sequence <= d.sequence
       /\ rows' = [rows EXCEPT ![n] = {d \in @ \ {c} : d.sequence > last[n]}]
       /\ UNCHANGED queue

\* next_runner_command for node n pops c.
Pops(n, c) == runner[n] = "polling" /\ HandsOut(n, c)

Reports(n, c, result) ==
    report' = [report EXCEPT ![n] = [kind |-> c.kind, id |-> c.id, status |-> result]]

ApplySucceeds(n, c) ==
    /\ c.kind = "apply"
    /\ installed' = [installed EXCEPT ![n] = @ \cup {c.id}]
    /\ active' = [active EXCEPT ![n] = c.id]
    /\ Reports(n, c, "Succeeded")

\* Mutant: a failed apply is reported as a success.
MutantApplyFailsReportsSuccess(n, c) ==
    /\ c.kind = "apply"
    /\ Reports(n, c, "Succeeded")
    /\ UNCHANGED <<installed, active>>

ApplyFails(n, c) ==
    /\ c.kind = "apply"
    /\ \E S \in {installed[n], installed[n] \cup {c.id}} :
           installed' = [installed EXCEPT ![n] = S]
    /\ Reports(n, c, IF active[n] = None THEN "Failed" ELSE "RolledBack")
    /\ UNCHANGED active

\* Mutant: the rollback target is not looked up first.
MutantRollsBackUnchecked(n, c) ==
    /\ c.kind = "rollback"
    /\ active' = [active EXCEPT ![n] = c.to]
    /\ Reports(n, c, "RolledBack")
    /\ UNCHANGED installed

RollsBack(n, c) ==
    /\ c.kind = "rollback"
    /\ \/ /\ c.to \in installed[n]
          /\ active' = [active EXCEPT ![n] = c.to]
          /\ Reports(n, c, "RolledBack")
       \/ /\ c.to \notin installed[n]
          /\ Reports(n, c, "Failed")
          /\ UNCHANGED active
    /\ UNCHANGED installed

\* The runner of n polls a command and executes it; its result is to be sent.
Execute(n) ==
    /\ \E c \in Undelivered(n) :
           /\ Pops(n, c)
           /\ last' = [last EXCEPT ![n] = c.sequence]
           /\ executed' = executed \cup {c.nonce}
           /\ ApplySucceeds(n, c) \/ ApplyFails(n, c) \/ RollsBack(n, c)
    /\ runner' = [runner EXCEPT ![n] = "unsent"]
    /\ UNCHANGED <<nodeSequences, responses, enqueued>>
    /\ UNCHANGED handlerVars /\ UNCHANGED storeVars /\ UNCHANGED bounds

\* A poll that finds nothing above last_sequence leaves nothing to deliver.
DropStale(n) ==
    /\ runner[n] = "polling"
    /\ Undelivered(n) # {}
    /\ \A c \in Undelivered(n) : c.sequence <= last[n]
    /\ queue' = [queue EXCEPT ![n] = <<>>]
    /\ rows' = [rows EXCEPT ![n] = {}]
    /\ UNCHANGED <<nodeSequences, responses, enqueued>>
    /\ UNCHANGED handlerVars /\ UNCHANGED storeVars /\ UNCHANGED nodeVars
    /\ UNCHANGED bounds

\* The runner process ends between two commands.  It may have a command that
\* was popped for it (the TTL passed, the response was lost) or a result that
\* it could not submit, or that Postgres has recorded in part when the
\* connection closes and the handler is dropped: none of them comes back.
EndRunner(n) ==
    /\ ends < MaxEnds
    /\ ends + interruptions < MaxFaults
    /\ ends' = ends + 1
    /\ \/ \E c \in Undelivered(n) : Pops(n, c)
       \/ runner[n] # "ended" /\ UNCHANGED <<queue, rows>>
    /\ runner' = [runner EXCEPT ![n] = "ended"]
    /\ UNCHANGED <<nodeSequences, responses, enqueued, last, executed, installed,
                   active, report, plans, samples, interruptions>>
    /\ UNCHANGED handlerVars /\ UNCHANGED storeVars

\* The runner process ends in the middle of a command.
Interrupt(n) ==
    /\ interruptions < MaxInterruptions
    /\ ends + interruptions < MaxFaults
    /\ interruptions' = interruptions + 1
    /\ \E c \in Undelivered(n) :
           LET d == IF c.kind = "apply" THEN c.id ELSE c.to IN
           /\ Pops(n, c)
           /\ last' = [last EXCEPT ![n] = c.sequence]
           /\ executed' = executed \cup {c.nonce}
           /\ \E S \in {installed[n], installed[n] \cup {d}, installed[n] \ {d}} :
                  /\ c.kind = "rollback" => S = installed[n]
                  /\ installed' = [installed EXCEPT ![n] = S]
           /\ \E a \in {active[n], None, d} :
                  /\ (c.kind = "rollback" /\ d \notin installed[n]) => a = active[n]
                  /\ active' = [active EXCEPT ![n] = a]
    /\ report' = [report EXCEPT ![n] = None]
    /\ runner' = [runner EXCEPT ![n] = "ended"]
    /\ UNCHANGED <<nodeSequences, responses, enqueued, plans, samples, ends>>
    /\ UNCHANGED handlerVars /\ UNCHANGED storeVars

\* The runner is started again; it has no memory of the sequence.
Restart(n) ==
    /\ runner[n] = "ended"
    /\ runner' = [runner EXCEPT ![n] = "polling"]
    /\ last' = [last EXCEPT ![n] = 0]
    /\ UNCHANGED <<nodeSequences, responses, queue, rows, enqueued, executed, installed,
                   active, report>>
    /\ UNCHANGED handlerVars /\ UNCHANGED storeVars /\ UNCHANGED bounds

-----------------------------------------------------------------------------
(* submit_runner_result and record_runner_deployment_health.               *)

HealthOf(result) ==
    IF result \in {"Succeeded", "RolledBack"} THEN "healthy" ELSE "unhealthy"

\* DeploymentSnapshotRecord::from_result, under the plan's node.
Snapshot(n) == [node |-> plan[report[n].id], status |-> report[n].status]

\* Mutant: only a success is worth a snapshot.
MutantSnapshottedOnSuccess(n) ==
    [snapshot EXCEPT ![report[n].id] =
        IF report[n].status = "Succeeded" THEN Snapshot(n) ELSE @]

Snapshotted(n) == [snapshot EXCEPT ![report[n].id] = Snapshot(n)]

\* DeploymentHealthCheckRecord::from_result
Sampled(n) == [health EXCEPT ![report[n].id] = Append(@, HealthOf(report[n].status))]

\* MemoryStore::record_deployment_result: status, snapshot and a health sample
\* under one lock.  The node that signed is not compared with the plan's node.
SubmitResult(n) ==
    LET d == report[n].id IN
    /\ store = "memory"
    /\ runner[n] = "unsent"
    /\ plan[d] # None
    /\ status' = [status EXCEPT ![d] = report[n].status]
    /\ snapshot' = Snapshotted(n)
    /\ health' = Sampled(n)
    /\ runner' = [runner EXCEPT ![n] = "polling"]
    /\ UNCHANGED <<store, nodeSequences, artifact, plan, created, finished, pointed,
                   previous, responses, queue, rows, enqueued, last, executed, installed,
                   active, report>>
    /\ UNCHANGED handlerVars /\ UNCHANGED bounds

\* PostgresStore::record_deployment_result updates the status first, and
\* finished_at when it is not set yet, ...
UpdateStatus(n) ==
    LET d == report[n].id IN
    /\ store = "postgres"
    /\ runner[n] = "unsent"
    /\ plan[d] # None
    /\ status' = [status EXCEPT ![d] = report[n].status]
    /\ finished' = [finished EXCEPT ![d] =
                       IF @ # 0 THEN @ ELSE 1 + Cardinality({e \in Ids : finished[e] # 0})]
    /\ runner' = [runner EXCEPT ![n] = "snapshot"]
    /\ UNCHANGED <<store, nodeSequences, artifact, plan, created, pointed, previous,
                   snapshot, health, responses, queue, rows, enqueued, last, executed, installed,
                   active, report>>
    /\ UNCHANGED handlerVars /\ UNCHANGED bounds

\* ... then upserts the snapshot, ...
UpsertSnapshot(n) ==
    /\ runner[n] = "snapshot"
    /\ snapshot' = Snapshotted(n)
    /\ runner' = [runner EXCEPT ![n] = "health"]
    /\ UNCHANGED <<store, nodeSequences, artifact, plan, created, finished, status,
                   pointed, previous, health, responses, queue, rows, enqueued, last, executed,
                   installed, active, report>>
    /\ UNCHANGED handlerVars /\ UNCHANGED bounds

\* ... and inserts the health sample; the runner has its 202.
InsertHealth(n) ==
    /\ runner[n] = "health"
    /\ health' = Sampled(n)
    /\ runner' = [runner EXCEPT ![n] = "polling"]
    /\ UNCHANGED <<store, nodeSequences, artifact, plan, created, finished, status,
                   pointed, previous, snapshot, responses, queue, rows, enqueued, last, executed,
                   installed, active, report>>
    /\ UNCHANGED handlerVars /\ UNCHANGED bounds

\* record_deployment_health_check: only for the plan's own node.
PostHealth(n, d, s) ==
    /\ samples < MaxSamples
    /\ samples' = samples + 1
    /\ plan[d] = n
    /\ health' = [health EXCEPT ![d] = Append(@, s)]
    /\ UNCHANGED <<store, nodeSequences, artifact, plan, created, finished, status,
                   pointed, previous, snapshot, responses, queue, rows, enqueued, plans, ends,
                   interruptions>>
    /\ UNCHANGED handlerVars /\ UNCHANGED nodeVars

-----------------------------------------------------------------------------
Next ==
    \/ \E r \in Requests, n \in Nodes, d \in Ids, k \in Keys \cup {None} :
           StartCompile(r, n, d, k)
    \/ \E r \in Requests, d \in Ids : StartRollback(r, d)
    \/ \E r \in Requests, d \in Ids : StartAdvance(r, d)
    \/ \E r \in Requests : RecordPlan(r)
    \/ \E r \in Requests : StoreArtifact(r)
    \/ \E r \in Requests : LookUpPrevious(r)
    \/ \E r \in Requests : Refused(r)
    \/ \E r \in Requests : InsertPlan(r)
    \/ \E r \in Requests : InsertPointer(r)
    \/ \E r \in Requests : Sign(r)
    \/ \E r \in Requests : Enqueue(r)
    \/ \E r \in Requests : RecordResponse(r)
    \/ \E r \in Requests : ReadHealth(r)
    \/ \E r \in Requests : ReadPointer(r)
    \/ \E r \in Requests : ReadSnapshot(r)
    \/ \E r \in Requests : Abort(r)
    \/ \E n \in Nodes : Execute(n)
    \/ \E n \in Nodes : DropStale(n)
    \/ \E n \in Nodes : EndRunner(n)
    \/ \E n \in Nodes : Interrupt(n)
    \/ \E n \in Nodes : Restart(n)
    \/ \E n \in Nodes : SubmitResult(n)
    \/ \E n \in Nodes : UpdateStatus(n)
    \/ \E n \in Nodes : UpsertSnapshot(n)
    \/ \E n \in Nodes : InsertHealth(n)
    \/ \E n \in Nodes, d \in Ids, s \in {"healthy", "unhealthy"} : PostHealth(n, d, s)

Spec == Init /\ [][Next]_vars

\* A handler nobody cancels runs to its end; a runner keeps polling and submits
\* what it has.
Fairness ==
    /\ \A r \in Requests :
           WF_vars(\/ RecordPlan(r) \/ StoreArtifact(r) \/ LookUpPrevious(r)
                   \/ InsertPlan(r) \/ InsertPointer(r) \/ Refused(r) \/ Sign(r)
                   \/ Enqueue(r) \/ RecordResponse(r) \/ ReadHealth(r) \/ ReadPointer(r) \/ ReadSnapshot(r))
    /\ \A n \in Nodes :
           /\ WF_vars(Execute(n))
           /\ WF_vars(\/ SubmitResult(n) \/ UpdateStatus(n)
                      \/ UpsertSnapshot(n) \/ InsertHealth(n))

FairSpec == Spec /\ Fairness

-----------------------------------------------------------------------------
(* What the rollout guarantees.                                            *)

\* A rollback command on its way to a node names a release that is installed on
\* that node, "a known previous release" (an interrupted re-deployment may have
\* taken it away).
RollbackTargetInstalled ==
    interruptions = 0 =>
        \A n \in Nodes : \A c \in Undelivered(n) :
            (c.kind = "rollback" => c.to \in installed[n])

\* Requests with one idempotency key queue one runner command at most.
OneCommandPerKey ==
    \A q, r \in enqueued :
        handler[q].key # None /\ handler[q].key = handler[r].key => q = r

\* A deployment that advance has promoted is installed on the node of its plan,
\* although the status was read before the samples, a rollback result counts as a
\* healthy sample, and both may have changed since (unless a re-deployment was
\* interrupted).
PromotedIsInstalled ==
    interruptions = 0 =>
        \A r \in Requests :
            LET d == handler[r].id IN
            reply[r] = "promoted" => d \in installed[plan[d]]

\* A Succeeded deployment has its release on the node of its plan, whichever
\* results were lost and whichever plans were made again (unless a re-deployment
\* was interrupted).
SucceededIsInstalled ==
    interruptions = 0 =>
        \A d \in Ids : status[d] = "Succeeded" => d \in installed[plan[d]]

\* In Postgres no deployment is its own rollback target, although two compiles of
\* one config may interleave statement by statement and a deployed config may be
\* compiled again: the first pointer of an id is inserted before its command.
PointerIsOtherInPostgres ==
    store = "postgres" => \A d \in Ids : previous[d] # d

\* A config whose compile was answered with its deployment is never refused later, on
\* either store: its artifact id is then not the one in the database, and only the
\* rows that the first compile left keep the foreign keys quiet.  What is refused is
\* a config whose first compile has been dropped half way or is still running.
DeployedCompilesAgain ==
    [][\A r \in Requests :
           LET q == artifact[handler[r].id] IN
           handler[r].op = "compile" /\ reply[r] = None /\ reply'[r] = "error"
               => q # r /\ reply[q] # "compiled"]_vars

\* A deployment that has a result has the snapshot that its rollback needs, unless
\* Postgres is between the two statements or was dropped there.
SettledHasSnapshot ==
    \A d \in Ids :
        status[d] \in Statuses \ {"Pending"} =>
            \/ snapshot[d] # None
            \/ store = "postgres" /\ ends > 0
            \/ \E n \in Nodes : runner[n] = "snapshot" /\ report[n].id = d

\* A deployment that is planned gets a result.
PendingResolves == \A d \in Ids : (status[d] = "Pending") ~> (status[d] # "Pending")

Issued(S) ==
    {[nonce |-> r, node |-> handler[r].node, sequence |-> handler[r].sequence] : r \in S}

Channel == INSTANCE CommandChannel
               WITH Nonces <- Requests,
                    issued <- Issued({r \in Requests : handler[r].sequence > 0}),
                    done <- Issued(executed),
                    highest <- last

\* The rollout's queue, sequences and runners keep the channel's promise.
ImplementsChannel == Channel!Spec

Release(n) == INSTANCE NodeRelease
                  WITH Deployments <- Ids, installed <- installed[n],
                       active <- active[n], report <- report[n]

\* Every node behaves as the abstract node that LocalRunner implements.
NodesImplement ==
    /\ \A n \in Nodes : Release(n)!Init
    /\ [][\A n \in Nodes : [Release(n)!Next]_(Release(n)!vars)]_vars
=============================================================================
