-------------------------- MODULE CommandDelivery --------------------------
(***************************************************************************)
(* The path of a signed command: a compile or rollback handler draws a     *)
(* sequence number and signs, hands the envelope to the in-memory store's  *)
(* queue, a runner polls it out and verifies it before it executes it.     *)
(* Every await of the handlers, every process exit of a runner, a restart  *)
(* of the control plane, a poll that outlives its runner and the TTL are   *)
(* steps of their own.                                                     *)
(*                                                                         *)
(* A command is its nonce, its node and its sequence; what it asks for is  *)
(* the subject of LocalRunner and Rollout.                                 *)
(***************************************************************************)
EXTENDS Naturals, Sequences, FiniteSets, CommandQueue

CONSTANTS
    Nodes,          \* registered nodes
    Nonces,         \* one per handler invocation: RunnerCommand::new draws a UUID
    MaxHandlers,    \* bound: handlers between next_sequence and enqueue at once
    MaxExits,       \* bound: runner exits that no rejected command causes
    MaxRestarts,    \* bound: restarts of the control plane
    TTLElapses      \* whether the 60 seconds of a command may pass

ASSUME BoundsAssumption ==
    /\ MaxHandlers \in Nat
    /\ MaxExits \in Nat
    /\ MaxRestarts \in Nat
    /\ TTLElapses \in BOOLEAN

VARIABLES
    nodeSequences,  \* AppState.node_sequences: last number drawn per node
    issued,         \* history: every command ever signed
    signed,         \* signed by a handler that has not enqueued it yet
    queue,          \* MemoryState.runner_commands
    expired,        \* commands whose expires_at has passed
    pc,             \* where the runner process of a node is
    last,           \* LocalRunner.last_sequence
    seen,           \* LocalRunner.seen_nonces
    held,           \* the envelope a poll returned and apply has not verified
    stalePolls,     \* polls in flight whose runner process is gone
    session,        \* how many runner processes the node has had
    executed,       \* history: [command, session] in execution order
    exits,          \* exits so far
    restarts        \* control plane restarts so far

controlVars == <<nodeSequences, issued, signed, queue>>
runnerVars  == <<pc, last, seen, held, session, executed>>
vars == <<nodeSequences, issued, signed, queue, expired, pc, last, seen, held,
          stalePolls, session, executed, exits, restarts>>

Command == [nonce : Nonces, node : Nodes, sequence : Nat]
Execution == [command : Command, session : Nat]

TypeOK ==
    /\ nodeSequences \in [Nodes -> Nat]
    /\ issued \subseteq Command
    /\ signed \subseteq Command
    /\ queue \in [Nodes -> Seq(Command)]
    /\ expired \subseteq Command
    /\ pc \in [Nodes -> {"down", "idle", "polling", "holding"}]
    /\ last \in [Nodes -> Nat]
    /\ seen \in [Nodes -> SUBSET Nonces]
    /\ held \in [Nodes -> SUBSET Command]
    /\ stalePolls \subseteq [node : Nodes, session : Nat, last : Nat]
    /\ session \in [Nodes -> Nat]
    /\ executed \in [Nodes -> Seq(Execution)]
    /\ exits \in Nat
    /\ restarts \in Nat

Init ==
    /\ nodeSequences = [n \in Nodes |-> 0]
    /\ issued = {}
    /\ signed = {}
    /\ queue = [n \in Nodes |-> <<>>]
    /\ expired = {}
    /\ pc = [n \in Nodes |-> "down"]
    /\ last = [n \in Nodes |-> 0]
    /\ seen = [n \in Nodes |-> {}]
    /\ held = [n \in Nodes |-> {}]
    /\ stalePolls = {}
    /\ session = [n \in Nodes |-> 0]
    /\ executed = [n \in Nodes |-> <<>>]
    /\ exits = 0
    /\ restarts = 0

-----------------------------------------------------------------------------
(* The control plane's handlers.                                           *)

\* Mutant: the counter is not advanced.
MutantNextSequenceNoIncrement(n) == nodeSequences[n]

\* Mutant: the counter runs down.
MutantNextSequenceUnderflow(n) == nodeSequences[n] - 1

\* AppState::next_sequence: the number after the last one drawn for the node.
NextSequence(n) == nodeSequences[n] + 1

\* A handler draws the sequence and signs; the enqueue is a later await.
Sign(r, n) ==
    LET c == [nonce |-> r, node |-> n, sequence |-> NextSequence(n)] IN
    /\ \A d \in issued : d.nonce # r
    /\ Cardinality(signed) < MaxHandlers
    /\ nodeSequences' = [nodeSequences EXCEPT ![n] = NextSequence(n)]
    /\ issued' = issued \cup {c}
    /\ signed' = signed \cup {c}
    /\ UNCHANGED <<queue, expired, stalePolls, exits, restarts>>
    /\ UNCHANGED runnerVars

\* enqueue_runner_command: push_back under the store's lock.
Enqueue(c) ==
    /\ c \in signed
    /\ signed' = signed \ {c}
    /\ queue' = [queue EXCEPT ![c.node] = Append(@, c)]
    /\ UNCHANGED <<nodeSequences, issued, expired, stalePolls, exits, restarts>>
    /\ UNCHANGED runnerVars

\* The client goes away while the handler waits: its future is dropped.
Abort(c) ==
    /\ c \in signed
    /\ signed' = signed \ {c}
    /\ UNCHANGED <<nodeSequences, issued, queue, expired, stalePolls, exits, restarts>>
    /\ UNCHANGED runnerVars

-----------------------------------------------------------------------------
(* A runner process: main.rs loops over poll_apply_once and ends at the    *)
(* first error; last_sequence and seen_nonces live in its memory only.     *)

Start(n) ==
    /\ pc[n] = "down"
    /\ pc' = [pc EXCEPT ![n] = "idle"]
    /\ session' = [session EXCEPT ![n] = @ + 1]
    /\ UNCHANGED <<last, seen, held, executed, expired, stalePolls, exits, restarts>>
    /\ UNCHANGED controlVars

SendPoll(n) ==
    /\ pc[n] = "idle"
    /\ pc' = [pc EXCEPT ![n] = "polling"]
    /\ UNCHANGED <<last, seen, held, session, executed, expired, stalePolls, exits, restarts>>
    /\ UNCHANGED controlVars

\* next_runner_command on behalf of a live runner: the first fresh command
\* leaves the queue and is the response.
Deliver(n) ==
    /\ pc[n] = "polling"
    /\ \E i \in DOMAIN queue[n] :
           /\ FirstFresh(queue[n], last[n], i)
           /\ held' = [held EXCEPT ![n] = {queue[n][i]}]
           /\ queue' = [queue EXCEPT ![n] = Rest(@, i)]
    /\ pc' = [pc EXCEPT ![n] = "holding"]
    /\ UNCHANGED <<nodeSequences, issued, signed, last, seen, session, executed,
                   expired, stalePolls, exits, restarts>>

\* Mutant: stale commands are looked at and left in the queue.
MutantDeliverNothingKeeps(n) ==
    /\ pc[n] = "polling"
    /\ AllStale(queue[n], last[n])
    /\ pc' = [pc EXCEPT ![n] = "idle"]
    /\ UNCHANGED <<last, seen, held, session, executed, expired, stalePolls, exits, restarts>>
    /\ UNCHANGED controlVars

\* next_runner_command finds nothing fresh: 204 No Content.
DeliverNothing(n) ==
    /\ pc[n] = "polling"
    /\ AllStale(queue[n], last[n])
    /\ queue' = [queue EXCEPT ![n] = <<>>]
    /\ pc' = [pc EXCEPT ![n] = "idle"]
    /\ UNCHANGED <<nodeSequences, issued, signed, last, seen, held, session, executed,
                   expired, stalePolls, exits, restarts>>

\* The checks of SignedRunnerCommand::verify on an envelope of this control
\* plane, in their order; the signature itself is always good.
Verify(n, c) ==
    /\ c.node = n
    /\ c \notin expired
    /\ c.sequence > last[n]
    /\ c.nonce \notin seen[n]

\* Mutant: last_sequence is not updated.
MutantAcceptedForgets(n, c) == last

\* self.last_sequence = command.sequence
Accepted(n, c) == [last EXCEPT ![n] = c.sequence]

\* LocalRunner::apply: verify, remember the sequence and the nonce, execute.
Apply(n) ==
    /\ pc[n] = "holding"
    /\ \E c \in held[n] :
           /\ Verify(n, c)
           /\ last' = Accepted(n, c)
           /\ seen' = [seen EXCEPT ![n] = @ \cup {c.nonce}]
           /\ executed' = [executed EXCEPT ![n] =
                              Append(@, [command |-> c, session |-> session[n]])]
    /\ held' = [held EXCEPT ![n] = {}]
    /\ pc' = [pc EXCEPT ![n] = "idle"]
    /\ UNCHANGED <<session, expired, stalePolls, exits, restarts>>
    /\ UNCHANGED controlVars

\* The process memory of the runners in S is gone.
EndProcesses(S) ==
    /\ pc' = [n \in Nodes |-> IF n \in S THEN "down" ELSE pc[n]]
    /\ last' = [n \in Nodes |-> IF n \in S THEN 0 ELSE last[n]]
    /\ seen' = [n \in Nodes |-> IF n \in S THEN {} ELSE seen[n]]
    /\ held' = [n \in Nodes |-> IF n \in S THEN {} ELSE held[n]]
    /\ UNCHANGED <<session, executed>>

\* verify fails: the error leaves poll_apply_once and main ends.
Reject(n) ==
    /\ pc[n] = "holding"
    /\ \E c \in held[n] : ~Verify(n, c)
    /\ EndProcesses({n})
    /\ UNCHANGED <<expired, stalePolls, exits, restarts>>
    /\ UNCHANGED controlVars

\* A crash, an I/O error or a failed request ends the process.  A poll that
\* was under way may still reach the control plane.
Exit(n) ==
    /\ pc[n] # "down"
    /\ exits < MaxExits
    /\ exits' = exits + 1
    /\ \/ UNCHANGED stalePolls
       \/ /\ pc[n] = "polling"
          /\ stalePolls' = stalePolls \cup
                 {[node |-> n, session |-> session[n], last |-> last[n]]}
    /\ EndProcesses({n})
    /\ UNCHANGED <<expired, restarts>>
    /\ UNCHANGED controlVars

-----------------------------------------------------------------------------
(* The environment.                                                        *)

\* next_runner_command for a runner that is gone: what it pops is lost.
HandleStalePoll(p) ==
    /\ p \in stalePolls
    /\ stalePolls' = stalePolls \ {p}
    /\ \/ \E i \in DOMAIN queue[p.node] :
              /\ FirstFresh(queue[p.node], p.last, i)
              /\ queue' = [queue EXCEPT ![p.node] = Rest(@, i)]
       \/ /\ AllStale(queue[p.node], p.last)
          /\ queue' = [queue EXCEPT ![p.node] = <<>>]
    /\ UNCHANGED <<nodeSequences, issued, signed, expired, exits, restarts>>
    /\ UNCHANGED runnerVars

\* now passes expires_at: nobody looks at the clock before the command is held.
Expire(c) ==
    /\ TTLElapses
    /\ c \in issued \ expired
    /\ c \in held[c.node]
    /\ expired' = expired \cup {c}
    /\ UNCHANGED <<stalePolls, exits, restarts>>
    /\ UNCHANGED controlVars
    /\ UNCHANGED runnerVars

\* The control plane ends and starts again: AppState and the MemoryStore are
\* new, the handlers and the open connections are gone, and a runner whose
\* poll breaks ends too.
Restart ==
    /\ restarts < MaxRestarts
    /\ restarts' = restarts + 1
    /\ nodeSequences' = [n \in Nodes |-> 0]
    /\ signed' = {}
    /\ queue' = [n \in Nodes |-> <<>>]
    /\ stalePolls' = {}
    /\ EndProcesses({n \in Nodes : pc[n] = "polling"})
    /\ UNCHANGED <<issued, expired, exits>>

Next ==
    \/ \E r \in Nonces, n \in Nodes : Sign(r, n)
    \/ \E c \in signed : Enqueue(c)
    \/ \E c \in signed : Abort(c)
    \/ \E n \in Nodes : Start(n)
    \/ \E n \in Nodes : SendPoll(n)
    \/ \E n \in Nodes : Deliver(n)
    \/ \E n \in Nodes : DeliverNothing(n)
    \/ \E n \in Nodes : Apply(n)
    \/ \E n \in Nodes : Reject(n)
    \/ \E n \in Nodes : Exit(n)
    \/ \E p \in stalePolls : HandleStalePoll(p)
    \/ \E c \in issued : Expire(c)
    \/ Restart

Spec == Init /\ [][Next]_vars

\* A runner that is up keeps polling (main.rs loops) and finishes what it
\* polled; a supervisor starts a runner that ended.
Fairness ==
    \A n \in Nodes :
        /\ WF_vars(Start(n))
        /\ WF_vars(SendPoll(n))
        /\ WF_vars(Deliver(n))
        /\ WF_vars(DeliverNothing(n))
        /\ WF_vars(Apply(n))
        /\ WF_vars(Reject(n))

FairSpec == Spec /\ Fairness

-----------------------------------------------------------------------------
(* What the delivery path guarantees.                                      *)

ExecutedCommands(n) == {executed[n][i].command : i \in DOMAIN executed[n]}

\* No signed command is executed twice, by whichever runner processes, over
\* any number of runner and control plane restarts: next_runner_command pops
\* what it hands out and nothing puts it back.
AtMostOnce ==
    \A m, n \in Nodes :
        \A i \in DOMAIN executed[m], j \in DOMAIN executed[n] :
            executed[m][i].command.nonce = executed[n][j].command.nonce
                => m = n /\ i = j

\* One runner process executes commands in strictly increasing sequence, even
\* when concurrent handlers enqueued them out of order (apply's last_sequence).
SessionOrder ==
    \A n \in Nodes :
        \A i, j \in DOMAIN executed[n] :
            /\ i < j
            /\ executed[n][i].session = executed[n][j].session
            => executed[n][i].command.sequence < executed[n][j].command.sequence

\* The only check of verify that a command from this queue can fail is the
\* TTL: the store has already dropped what the runner would call a replay, an
\* old sequence or another node's command.
OnlyExpiryRejects ==
    \A n \in Nodes :
        \A c \in held[n] :
            c.node = n /\ c.sequence > last[n] /\ c.nonce \notin seen[n]

\* Two commands of one node that are still to be delivered never carry the
\* same number, so next_runner_command cannot drop one for the other
\* (next_sequence increments under its lock).
PendingDistinct ==
    \A n \in Nodes :
        /\ \A i, j \in DOMAIN queue[n] :
               queue[n][i].sequence = queue[n][j].sequence => i = j
        /\ \A c \in signed :
               /\ c.node = n
               => \A i \in DOMAIN queue[n] : queue[n][i].sequence # c.sequence

AllExecuted == UNION {ExecutedCommands(n) : n \in Nodes}

AllQueued == UNION {Elements(queue[n]) : n \in Nodes}

\* The command of one handler: a nonce is signed once.
HasNonce(S, r) == \E c \in S : c.nonce = r

Overtaken == {c \in issued : last[c.node] >= c.sequence}

\* As long as no process ends from outside and its own TTL does not pass, a
\* queued command is executed, or the runner has moved past its number (a later
\* number was enqueued first).
QueuedIsSettled ==
    \A r \in Nonces :
        HasNonce(AllQueued, r) ~> \/ HasNonce(AllExecuted \cup Overtaken \cup expired, r)
                                  \/ exits > 0 \/ restarts > 0

\* With runner exits, lost polls, restarts and the TTL, a command still never
\* stays in the queue for good: every run of the runner takes the queue's head.
QueueDrains ==
    \A r \in Nonces : HasNonce(AllQueued, r) ~> ~HasNonce(AllQueued, r)

\* The delivery path seen as the abstract channel.
Channel == INSTANCE CommandChannel
               WITH done <- AllExecuted, highest <- last

\* Every step of queue, polls, restarts and verification is a step the channel
\* promises, or none that it sees.
ImplementsChannel == Channel!Spec
=============================================================================
