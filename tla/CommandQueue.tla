---------------------------- MODULE CommandQueue ----------------------------
(***************************************************************************)
(* The in-memory store's queue of signed commands for one node: a sequence *)
(* of records with a sequence number.  enqueue_runner_command appends;     *)
(* next_runner_command drops the prefix the runner is past and pops.       *)
(***************************************************************************)
EXTENDS Naturals, Sequences

\* The commands in a queue.
Elements(q) == {q[i] : i \in DOMAIN q}

\* Mutant: the comparison is not strict.
MutantFirstFreshNotStrict(q, lastSequence, i) ==
    /\ i \in DOMAIN q
    /\ q[i].sequence >= lastSequence
    /\ \A j \in 1 .. (i - 1) : q[j].sequence < lastSequence

\* next_runner_command drops the stale prefix of the queue: i is the place of
\* the first command above lastSequence.
FirstFresh(q, lastSequence, i) ==
    /\ i \in DOMAIN q
    /\ q[i].sequence > lastSequence
    /\ \A j \in 1 .. (i - 1) : q[j].sequence <= lastSequence

\* Mutant: a stale command clears the queue, and with an off-by-one.
MutantAllStaleAnyStale(q, lastSequence) ==
    \/ q = <<>>
    \/ \E i \in DOMAIN q : q[i].sequence <= lastSequence + 1

\* The loop pops every command: none is above lastSequence.
AllStale(q, lastSequence) == \A i \in DOMAIN q : q[i].sequence <= lastSequence

\* Mutant: the command is handed out and left in the queue.
MutantRestPeeks(q, i) == SubSeq(q, i, Len(q))

\* The queue once the command at place i is popped.
Rest(q, i) == SubSeq(q, i + 1, Len(q))
=============================================================================
