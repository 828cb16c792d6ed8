---------------------------- MODULE NodeRegistry ----------------------------
(***************************************************************************)
(* How a node comes to be trusted: one-time registration tokens, the node  *)
(* record with the public key its results are verified with, and the way   *)
(* a runner process starts (register, heartbeat, poll) and submits results.*)
(* Both stores do the same here: what is one lock in memory is one         *)
(* transaction or one deciding statement in Postgres.  The control plane   *)
(* does not restart: with the in-memory store that forgets the tokens and  *)
(* the nodes alike, and with Postgres it only drops handlers.              *)
(*                                                                         *)
(* Every handler that deals with tokens first makes sure that the default  *)
(* token exists; that call only ever acts once and is part of the step     *)
(* that follows it.                                                        *)
(***************************************************************************)
EXTENDS Naturals, FiniteSets

CONSTANTS
    Nodes,
    Tokens,             \* registration tokens
    DefaultToken,       \* AppState.default_registration_token
    Keys,               \* key pairs a runner may sign its results with
    Requests,           \* calls of issue_registration_token
    None,
    SelfRegisters,      \* nodes whose runner has NODE_REGISTRATION_TOKEN set
    MaxIssuers,         \* bound: issue handlers running at once
    MaxExits,           \* bound: runner exits no refused request causes
    MaxRotations        \* bound: changes of a runner's key or of its record

ASSUME RegistryAssumption ==
    /\ DefaultToken \in Tokens
    /\ SelfRegisters \subseteq Nodes
    /\ None \notin Nodes \cup Tokens \cup Keys \cup Requests
    /\ MaxIssuers \in Nat /\ MaxExits \in Nat /\ MaxRotations \in Nat

VARIABLES
    status,         \* MemoryState.node_registration_tokens: status of a token
    usedBy,         \* ... and its used_by_node_id
    key,            \* MemoryState.nodes: the key of the record, None without one
    heartbeats,     \* MemoryState.heartbeats: nodes with one
    issue,          \* per request: the token it issues and where it is
    process,        \* per node: where its runner process is
    envToken,       \* per node: NODE_REGISTRATION_TOKEN of its runner
    runnerKey,      \* per node: the key its runner signs with
    registrations,  \* history: [token, node] of every successful registration
    uses,           \* history: how often a token registered a node
    during,         \* history: keys the record has had since the result in hand
                    \* was ready to be sent
    exits,          \* exits so far
    rotations       \* rotations so far

tokenVars   == <<status, usedBy, registrations, uses>>
processVars == <<process, envToken, runnerKey>>
bounds      == <<exits, rotations>>
vars == <<status, usedBy, key, heartbeats, issue, process, envToken, runnerKey,
          registrations, uses, during, exits, rotations>>

TypeOK ==
    /\ status \in [Tokens -> {"absent", "active", "used"}]
    /\ usedBy \in [Tokens -> Nodes \cup {None}]
    /\ key \in [Nodes -> Keys \cup {None}]
    /\ heartbeats \subseteq Nodes
    /\ issue \in [Requests -> [step : {"new", "create", "done"},
                               token : Tokens \cup {None},
                               reply : {None, "created", "conflict"}]]
    /\ process \in [Nodes -> {"down", "registering", "greeting", "polling",
                              "sending", "committing"}]
    /\ envToken \in [Nodes -> Tokens \cup {None}]
    /\ runnerKey \in [Nodes -> Keys]
    /\ registrations \subseteq [token : Tokens, node : Nodes]
    /\ uses \in [Tokens -> Nat]
    /\ during \in [Nodes -> SUBSET Keys]
    /\ exits \in Nat
    /\ rotations \in Nat

Init ==
    /\ status = [t \in Tokens |-> "absent"]
    /\ usedBy = [t \in Tokens |-> None]
    /\ key = [n \in Nodes |-> None]
    /\ heartbeats = {}
    /\ issue = [r \in Requests |-> [step |-> "new", token |-> None, reply |-> None]]
    /\ process = [n \in Nodes |-> "down"]
    /\ envToken \in {e \in [Nodes -> Tokens \cup {None}] :
                         \A n \in Nodes : e[n] # None <=> n \in SelfRegisters}
    /\ runnerKey \in [Nodes -> Keys]
    /\ registrations = {}
    /\ uses = [t \in Tokens |-> 0]
    /\ during = [n \in Nodes |-> {}]
    /\ exits = 0
    /\ rotations = 0

-----------------------------------------------------------------------------
(* Registration tokens.                                                    *)

\* create_node_registration_token: a token that is there is left as it is (ON
\* CONFLICT DO NOTHING).
Created(s, t) == [s EXCEPT ![t] = IF @ = "absent" THEN "active" ELSE @]

\* The statuses once ensure_default_registration_token has returned.
Ensured == Created(status, DefaultToken)

\* list_registration_tokens.
ListTokens ==
    /\ status' = Ensured
    /\ UNCHANGED <<usedBy, registrations, uses, key, heartbeats, issue, during>>
    /\ UNCHANGED processVars /\ UNCHANGED bounds

Issuing == {r \in Requests : issue[r].step = "create"}

\* issue_registration_token looks the token up: it may answer 409.
IssueLookup(r, t) ==
    /\ issue[r].step = "new"
    /\ Cardinality(Issuing) < MaxIssuers
    /\ status' = Ensured
    /\ \/ /\ Ensured[t] = "absent"
          /\ issue' = [issue EXCEPT ![r] = [@ EXCEPT !.step = "create", !.token = t]]
       \/ /\ Ensured[t] # "absent"
          /\ issue' = [issue EXCEPT ![r] = [step |-> "done", token |-> t,
                                            reply |-> "conflict"]]
    /\ UNCHANGED <<usedBy, registrations, uses, key, heartbeats, during>>
    /\ UNCHANGED processVars /\ UNCHANGED bounds

\* A later await stores the record; the answer is 201 whether or not it was
\* there by then.
IssueCreate(r) ==
    /\ issue[r].step = "create"
    /\ status' = Created(status, issue[r].token)
    /\ issue' = [issue EXCEPT ![r] = [@ EXCEPT !.step = "done", !.reply = "created"]]
    /\ UNCHANGED <<usedBy, registrations, uses, key, heartbeats, during>>
    /\ UNCHANGED processVars /\ UNCHANGED bounds

-----------------------------------------------------------------------------
(* Registration.                                                           *)

\* Mutant: a token is good as long as it is known.
MutantConsumableKnown(t) == Ensured[t] # "absent"

\* register_node_with_registration_token accepts the token.
Consumable(t) == Ensured[t] = "active"

MarkUsed(t) == [Ensured EXCEPT ![t] = "used"]

\* The node's record now has key k.
SetKey(n, k) ==
    /\ key' = [key EXCEPT ![n] = k]
    /\ during' = [during EXCEPT ![n] =
                     IF process[n] \in {"sending", "committing"} THEN @ \cup {k} ELSE @]

\* Node record and token under one lock, or in one transaction that a token which
\* is not active rolls back; a node that is known is overwritten.
Register(n, t, k) ==
    /\ Consumable(t)
    /\ status' = MarkUsed(t)
    /\ usedBy' = [usedBy EXCEPT ![t] = n]
    /\ SetKey(n, k)
    /\ registrations' = registrations \cup {[token |-> t, node |-> n]}
    /\ uses' = [uses EXCEPT ![t] = @ + 1]

\* register_node called by an operator.
AdminRegister(n, t, k) ==
    /\ Register(n, t, k)
    /\ UNCHANGED <<heartbeats, issue>>
    /\ UNCHANGED processVars /\ UNCHANGED bounds

\* rotate_runner_result_key: only for a node that has a record.
RotateKey(n, k) ==
    /\ key[n] # None
    /\ rotations < MaxRotations
    /\ rotations' = rotations + 1
    /\ SetKey(n, k)
    /\ UNCHANGED <<heartbeats, issue, exits>>
    /\ UNCHANGED tokenVars /\ UNCHANGED processVars

-----------------------------------------------------------------------------
(* A runner process, from main's first line to its loop.                   *)

GoTo(n, step) ==
    /\ process' = [process EXCEPT ![n] = step]
    /\ UNCHANGED <<envToken, runnerKey>>

Start(n) ==
    /\ process[n] = "down"
    /\ GoTo(n, IF envToken[n] = None THEN "greeting" ELSE "registering")
    /\ UNCHANGED <<key, heartbeats, issue, during>>
    /\ UNCHANGED tokenVars /\ UNCHANGED bounds

\* HttpCommandSource::register_node; any answer but a success ends the process.
SelfRegister(n) ==
    /\ process[n] = "registering"
    /\ \/ Register(n, envToken[n], runnerKey[n]) /\ GoTo(n, "greeting")
       \/ /\ ~Consumable(envToken[n])
          /\ status' = Ensured
          /\ GoTo(n, "down")
          /\ UNCHANGED <<usedBy, registrations, uses, key, during>>
    /\ UNCHANGED <<heartbeats, issue>> /\ UNCHANGED bounds

\* Mutant: a heartbeat only refreshes an earlier one.
MutantHeartbeatAcceptedKnown(n) == n \in heartbeats

\* record_heartbeat finds the node (in Postgres the session's foreign key does).
HeartbeatAccepted(n) == key[n] # None

Heartbeat(n) ==
    /\ process[n] = "greeting"
    /\ \/ /\ HeartbeatAccepted(n)
          /\ heartbeats' = heartbeats \cup {n}
          /\ GoTo(n, "polling")
       \/ /\ ~HeartbeatAccepted(n)
          /\ GoTo(n, "down")
          /\ UNCHANGED heartbeats
    /\ UNCHANGED <<key, issue, during>>
    /\ UNCHANGED tokenVars /\ UNCHANGED bounds

\* A command was polled and executed: its result is to be submitted.
ResultReady(n) ==
    /\ process[n] = "polling"
    /\ GoTo(n, "sending")
    /\ during' = [during EXCEPT ![n] = {key[n]} \ {None}]
    /\ UNCHANGED <<key, heartbeats, issue>>
    /\ UNCHANGED tokenVars /\ UNCHANGED bounds

\* Mutant: the result may be signed with the key of any node.
MutantVerifiesAnyNode(n) == \E m \in Nodes : key[m] = runnerKey[n]

\* SignedDeploymentResult::verify under the key of the node's record.
Verifies(n) == key[n] = runnerKey[n]

\* submit_runner_result reads the record and verifies; 401 ends the runner.
VerifyResult(n) ==
    /\ process[n] = "sending"
    /\ \/ Verifies(n) /\ GoTo(n, "committing")
       \/ ~Verifies(n) /\ GoTo(n, "down")
    /\ UNCHANGED <<key, heartbeats, issue, during>>
    /\ UNCHANGED tokenVars /\ UNCHANGED bounds

\* A later await records the result (Rollout's SubmitResult).
CommitResult(n) ==
    /\ process[n] = "committing"
    /\ GoTo(n, "polling")
    /\ UNCHANGED <<key, heartbeats, issue, during>>
    /\ UNCHANGED tokenVars /\ UNCHANGED bounds

Exit(n) ==
    /\ process[n] # "down"
    /\ exits < MaxExits
    /\ exits' = exits + 1
    /\ GoTo(n, "down")
    /\ UNCHANGED <<key, heartbeats, issue, during, rotations>>
    /\ UNCHANGED tokenVars

\* The operator gives a runner that is down another signing key.
ChangeRunnerKey(n, k) ==
    /\ process[n] = "down"
    /\ rotations < MaxRotations
    /\ rotations' = rotations + 1
    /\ runnerKey' = [runnerKey EXCEPT ![n] = k]
    /\ UNCHANGED <<process, envToken, key, heartbeats, issue, during, exits>>
    /\ UNCHANGED tokenVars

Next ==
    \/ ListTokens
    \/ \E r \in Requests, t \in Tokens : IssueLookup(r, t)
    \/ \E r \in Requests : IssueCreate(r)
    \/ \E n \in Nodes, t \in Tokens, k \in Keys : AdminRegister(n, t, k)
    \/ \E n \in Nodes, k \in Keys : RotateKey(n, k)
    \/ \E n \in Nodes : Start(n)
    \/ \E n \in Nodes : SelfRegister(n)
    \/ \E n \in Nodes : Heartbeat(n)
    \/ \E n \in Nodes : ResultReady(n)
    \/ \E n \in Nodes : VerifyResult(n)
    \/ \E n \in Nodes : CommitResult(n)
    \/ \E n \in Nodes : Exit(n)
    \/ \E n \in Nodes, k \in Keys : ChangeRunnerKey(n, k)

Spec == Init /\ [][Next]_vars

\* A supervisor starts a runner that is down, and a runner's requests are
\* answered.
Fairness ==
    \A n \in Nodes :
        /\ WF_vars(Start(n))
        /\ WF_vars(SelfRegister(n))
        /\ WF_vars(Heartbeat(n))
        /\ WF_vars(VerifyResult(n))
        /\ WF_vars(CommitResult(n))

FairSpec == Spec /\ Fairness

-----------------------------------------------------------------------------
(* What the registry guarantees.                                           *)

\* A token registers one node, once, whoever uses it and in whatever order it
\* is issued, listed and used (register_node_with_registration_token checks and
\* marks it under one lock); usedBy names that node.
OneNodePerToken ==
    \A t \in Tokens :
        /\ uses[t] <= 1
        /\ \A x \in registrations : x.token = t => usedBy[t] = x.node

\* A result that is about to be recorded was signed with a key that the node's
\* own record had at some moment since the result was ready: a rotation, a
\* re-registration or another node's key never lets in any other.
AcceptedWasRegistered ==
    \A n \in Nodes : process[n] = "committing" => runnerKey[n] \in during[n]

\* A node that an operator registered gets its runner to poll, however often
\* the runner exits or is refused.
RegisteredRunnerPolls ==
    \A n \in Nodes \ SelfRegisters : (key[n] # None) ~> (process[n] = "polling")
=============================================================================
