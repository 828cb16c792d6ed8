--------------------------- MODULE PostgresQueue ---------------------------
(***************************************************************************)
(* The command path on the Postgres store: the table runner_commands, with *)
(* its UNIQUE (node_id, sequence), outlives the control plane, while the   *)
(* numbers are drawn from memory.  A poll is two statements, and the       *)
(* second reads a snapshot before it locks the row it updates, so two      *)
(* polls of a node (one of a runner that is gone) may lease one row.       *)
(*                                                                         *)
(* The handlers, the runner processes and the TTL are CommandDelivery's;   *)
(* the actions of this module replace its in-memory queue.                 *)
(***************************************************************************)
EXTENDS Naturals

CONSTANTS Nodes, Nonces, MaxHandlers, MaxExits, MaxRestarts, TTLElapses

VARIABLES
    nodeSequences, issued, signed, expired, pc, last, seen, held, session,
    executed, exits, restarts,      \* as in CommandDelivery
    stored,         \* commands with a row in runner_commands
    leased,         \* rows with status 'leased'
    skipped,        \* rows with status 'skipped'; the other rows are 'pending'
    polls,          \* next_runner_command calls under way
    acknowledged,   \* history: commands whose handler was told Ok by the store
    before,         \* history: commands signed before the last restart
    late            \* history: rows inserted when a higher one was handed out

\* The handlers and the runner processes, without the in-memory queue.
Path == INSTANCE CommandDelivery WITH
            queue <- [n \in Nodes |-> <<>>], stalePolls <- {}

Command == Path!Command

tableVars   == <<stored, leased, skipped>>
historyVars == <<acknowledged, before, late>>
vars == <<nodeSequences, issued, signed, expired, pc, last, seen, held, session,
          executed, exits, restarts, stored, leased, skipped, polls,
          acknowledged, before, late>>

Poll == [node : Nodes, session : Nat, last : Nat,
         stage : {"skip", "select", "lease"}, target : SUBSET Command]

TypeOK ==
    /\ Path!TypeOK
    /\ stored \subseteq Command
    /\ leased \subseteq stored
    /\ skipped \subseteq stored
    /\ leased \cap skipped = {}
    /\ polls \subseteq Poll
    /\ acknowledged \subseteq Command
    /\ before \subseteq issued
    /\ late \subseteq stored

Init ==
    /\ Path!Init
    /\ stored = {} /\ leased = {} /\ skipped = {}
    /\ polls = {}
    /\ acknowledged = {} /\ before = {} /\ late = {}

\* Mutant: the inner SELECT does not look at the status.
MutantPendingAnyStatus(n) == {c \in stored : c.node = n}

\* status = 'pending'
Pending(n) == {c \in stored \ (leased \cup skipped) : c.node = n}

-----------------------------------------------------------------------------
(* enqueue_runner_command                                                  *)

\* ON CONFLICT (node_id, sequence)
Conflicts(c) == \E d \in stored : d.node = c.node /\ d.sequence = c.sequence

HandedOut == leased \cup UNION {p.target : p \in polls}

\* INSERT ... ON CONFLICT DO NOTHING: the caller sees Ok in both cases.
Enqueue(c) ==
    /\ c \in signed
    /\ signed' = signed \ {c}
    /\ \/ /\ Conflicts(c)
          /\ UNCHANGED <<stored, late>>
       \/ /\ ~Conflicts(c)
          /\ stored' = stored \cup {c}
          /\ late' = late \cup {d \in {c} : \E e \in HandedOut :
                                   e.node = d.node /\ e.sequence > d.sequence}
    /\ acknowledged' = acknowledged \cup {c}
    /\ UNCHANGED <<nodeSequences, issued, expired, pc, last, seen, held, session,
                   executed, exits, restarts, leased, skipped, polls, before>>

-----------------------------------------------------------------------------
(* next_runner_command: a poll is answered by its handler, whether or not  *)
(* the runner process that sent it is still there.                         *)

Live(p) == pc[p.node] = "polling" /\ session[p.node] = p.session

\* The response reaches a live runner, or nobody.
Answer(p, envelopes) ==
    \/ /\ Live(p)
       /\ held' = [held EXCEPT ![p.node] = envelopes]
       /\ pc' = [pc EXCEPT ![p.node] = IF envelopes = {} THEN "idle" ELSE "holding"]
    \/ /\ ~Live(p)
       /\ UNCHANGED <<held, pc>>

GoesOn(p, q) == polls' = (polls \ {p}) \cup {q}

SendPoll(n) ==
    /\ Path!SendPoll(n)
    /\ polls' = polls \cup {[node |-> n, session |-> session[n], last |-> last[n],
                             stage |-> "skip", target |-> {}]}
    /\ UNCHANGED tableVars
    /\ UNCHANGED historyVars

\* Mutant: the first statement is left out.
MutantPassedNone(p) == {}

\* UPDATE ... SET status = 'skipped' WHERE sequence <= $2 AND status = 'pending'
Passed(p) == {c \in Pending(p.node) : c.sequence <= p.last}

PollSkip(p) ==
    /\ p.stage = "skip"
    /\ skipped' = skipped \cup Passed(p)
    /\ GoesOn(p, [p EXCEPT !.stage = "select"])
    /\ UNCHANGED <<nodeSequences, issued, signed, expired, pc, last, seen, held,
                   session, executed, exits, restarts, stored, leased>>
    /\ UNCHANGED historyVars

\* node_id = $1 AND sequence > $2 AND status = 'pending'
Fresh(p) == {c \in Pending(p.node) : c.sequence > p.last}

\* Mutant: no ORDER BY.
MutantLowestAny(S) == S

\* ORDER BY sequence ASC LIMIT 1
Lowest(S) == {c \in S : \A d \in S : c.sequence <= d.sequence}

\* The inner SELECT of the second statement, on the statement's snapshot.
PollSelect(p) ==
    /\ p.stage = "select"
    /\ \E c \in Lowest(Fresh(p)) :
           GoesOn(p, [p EXCEPT !.stage = "lease", !.target = {c}])
    /\ UNCHANGED <<nodeSequences, issued, signed, expired, pc, last, seen, held,
                   session, executed, exits, restarts>>
    /\ UNCHANGED tableVars
    /\ UNCHANGED historyVars

\* The inner SELECT finds no row: 204 No Content.
PollNothing(p) ==
    /\ p.stage = "select"
    /\ Fresh(p) = {}
    /\ polls' = polls \ {p}
    /\ Answer(p, {})
    /\ UNCHANGED <<nodeSequences, issued, signed, expired, last, seen, session,
                   executed, exits, restarts>>
    /\ UNCHANGED tableVars
    /\ UNCHANGED historyVars

\* SET status = 'leased'
Mark(S) == leased \cup S

\* The outer UPDATE: the row is locked and WHERE id = ... holds whatever the
\* status has become since the SELECT; RETURNING is the response.
PollLease(p) ==
    /\ p.stage = "lease"
    /\ leased' = Mark(p.target)
    /\ skipped' = skipped \ p.target
    /\ polls' = polls \ {p}
    /\ Answer(p, p.target)
    /\ UNCHANGED <<nodeSequences, issued, signed, expired, last, seen, session,
                   executed, exits, restarts, stored>>
    /\ UNCHANGED historyVars

\* The connection of a runner that is gone closes: its handler is dropped
\* between two statements, or its statement never reaches the database.
DropPoll(p) ==
    /\ ~Live(p)
    /\ polls' = polls \ {p}
    /\ UNCHANGED <<nodeSequences, issued, signed, expired, pc, last, seen, held,
                   session, executed, exits, restarts>>
    /\ UNCHANGED tableVars
    /\ UNCHANGED historyVars

-----------------------------------------------------------------------------
(* Processes                                                               *)

Unqueued == UNCHANGED <<stored, leased, skipped, polls, acknowledged, before, late>>

Unused == {r \in Nonces : \A d \in issued : d.nonce # r}

\* The UUID a handler draws; nonces are named in the order they are drawn.
FreshNonce == CHOOSE r \in Unused : TRUE

Sign(n)    == Unused # {} /\ Path!Sign(FreshNonce, n) /\ Unqueued
Abort(c)   == Path!Abort(c) /\ Unqueued
Start(n)   == Path!Start(n) /\ Unqueued
Apply(n)   == Path!Apply(n) /\ Unqueued
Reject(n)  == Path!Reject(n) /\ Unqueued
Expire(c)  == Path!Expire(c) /\ Unqueued

\* The runner process ends; a poll of it that is under way stays.
Exit(n) ==
    /\ pc[n] # "down"
    /\ exits < MaxExits
    /\ exits' = exits + 1
    /\ Path!EndProcesses({n})
    /\ UNCHANGED <<nodeSequences, issued, signed, expired, restarts>>
    /\ Unqueued

\* The control plane ends and starts again on the same database: the numbers
\* and the handlers are gone, the table is not, and a lease the database is
\* working on may still happen.
Restart ==
    /\ restarts < MaxRestarts
    /\ restarts' = restarts + 1
    /\ nodeSequences' = [n \in Nodes |-> 0]
    /\ signed' = {}
    /\ before' = issued
    /\ polls' = {p \in polls : p.stage = "lease"}
    /\ Path!EndProcesses({n \in Nodes : pc[n] = "polling"})
    /\ UNCHANGED <<issued, expired, exits, acknowledged, late>>
    /\ UNCHANGED tableVars

Next ==
    \/ \E n \in Nodes : Sign(n)
    \/ \E c \in signed : Enqueue(c)
    \/ \E c \in signed : Abort(c)
    \/ \E n \in Nodes : Start(n)
    \/ \E n \in Nodes : SendPoll(n)
    \/ \E p \in polls : PollSkip(p)
    \/ \E p \in polls : PollSelect(p)
    \/ \E p \in polls : PollNothing(p)
    \/ \E p \in polls : PollLease(p)
    \/ \E p \in polls : DropPoll(p)
    \/ \E n \in Nodes : Apply(n)
    \/ \E n \in Nodes : Reject(n)
    \/ \E n \in Nodes : Exit(n)
    \/ \E c \in issued : Expire(c)
    \/ Restart

Spec == Init /\ [][Next]_vars

\* The step the handler of n's current poll takes next.
PollStep(n) ==
    \E p \in polls : /\ p.node = n
                     /\ Live(p)
                     /\ PollSkip(p) \/ PollSelect(p) \/ PollNothing(p) \/ PollLease(p)

\* As in CommandDelivery; the handler of a live poll goes on.
Fairness ==
    \A n \in Nodes :
        /\ WF_vars(Start(n))
        /\ WF_vars(SendPoll(n))
        /\ WF_vars(PollStep(n))
        /\ WF_vars(Apply(n))
        /\ WF_vars(Reject(n))

FairSpec == Spec /\ Fairness

-----------------------------------------------------------------------------
(* What the queue in the database guarantees.                              *)

\* The store answers Ok for a command it does not insert only when a row of an
\* earlier run of the control plane has the number: next_sequence never
\* draws a number twice in one run.
DroppedOnlyForOldRow ==
    \A c \in acknowledged \ stored :
        \E d \in stored \cap before : d.node = c.node /\ d.sequence = c.sequence

\* A row is passed over only when a higher number was handed out before it was
\* inserted: ORDER BY sequence puts right what concurrent handlers enqueued in
\* the other order, over restarts and overlapping polls.
SkippedWasLate == skipped \subseteq late

AllPending == UNION {Pending(n) : n \in Nodes}

\* A pending row never stays pending for good, whatever exits, restarts, lost
\* polls and TTLs come.
PendingIsTaken ==
    \A r \in Nonces : Path!HasNonce(AllPending, r) ~> ~Path!HasNonce(AllPending, r)

\* A row that was not late is executed, as long as no process ends from outside
\* and its own TTL does not pass.
PunctualIsExecuted ==
    \A r \in Nonces :
        Path!HasNonce(stored \ late, r) ~> \/ Path!HasNonce(Path!AllExecuted \cup expired, r)
                                      \/ exits > 0 \/ restarts > 0

\* The table, its polls and its statements are steps of the abstract channel.
ImplementsChannel == Path!ImplementsChannel
=============================================================================
