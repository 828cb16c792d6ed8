--------------------------- MODULE CommandChannel ---------------------------
(***************************************************************************)
(* What the command path from the control plane to the runners promises,   *)
(* with no queue, no polling and no failures in sight: a command that was  *)
(* signed may be executed by the node it is addressed to, at most once,    *)
(* and inside one run of the runner process the sequence numbers of the    *)
(* executed commands only grow.  Nothing promises that a command is ever   *)
(* executed.  CommandDelivery implements this module.                      *)
(***************************************************************************)
EXTENDS Naturals

CONSTANTS Nodes, Nonces

VARIABLES
    issued,       \* commands the control plane has signed
    done,         \* commands some runner has executed
    highest       \* per node: last sequence executed by its current process

vars == <<issued, done, highest>>

Command == [nonce : Nonces, node : Nodes, sequence : Nat]

Init ==
    /\ issued = {}
    /\ done = {}
    /\ highest = [n \in Nodes |-> 0]

\* A handler signs a command under a nonce nobody used before.
IssueCommand(c) ==
    /\ c \in Command
    /\ \A d \in issued : d.nonce # c.nonce
    /\ issued' = issued \cup {c}
    /\ UNCHANGED <<done, highest>>

Issue == \E c \in issued' \ issued : IssueCommand(c)

\* The addressed node executes a command nobody has executed.
Execute(c) ==
    /\ c \in issued \ done
    /\ c.sequence > highest[c.node]
    /\ done' = done \cup {c}
    /\ highest' = [highest EXCEPT ![c.node] = c.sequence]
    /\ UNCHANGED issued

\* Runner processes end; the next ones have no memory of the sequence.
Forget(S) ==
    /\ highest' = [n \in Nodes |-> IF n \in S THEN 0 ELSE highest[n]]
    /\ UNCHANGED <<issued, done>>

Next ==
    \/ Issue
    \/ \E c \in issued : Execute(c)
    \/ \E S \in SUBSET Nodes : Forget(S)

Spec == Init /\ [][Next]_vars
=============================================================================
