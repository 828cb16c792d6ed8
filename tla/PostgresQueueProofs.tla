------------------------ MODULE PostgresQueueProofs ------------------------
(***************************************************************************)
(* Proofs about PostgresQueue for any set of nodes and nonces, any number  *)
(* of handlers, runner exits and control plane restarts, and any number of *)
(* polls of one node under way at once.                                    *)
(***************************************************************************)
EXTENDS PostgresQueue, Sequences, TLAPS

-----------------------------------------------------------------------------
(* The inductive invariant.                                                *)

\* A number this run of the control plane has drawn is drawn once; the numbers
\* start at 1.
NumbersOfThisRun ==
    /\ \A c \in issued : c.sequence > 0
    /\ signed \subseteq issued \ before
    /\ \A c \in issued \ before : c.sequence <= nodeSequences[c.node]
    /\ \A c, d \in issued \ before :
           c.node = d.node /\ c.sequence = d.sequence => c = d

\* Rows are commands that were signed and that no handler has to enqueue any more,
\* one for each number of a node (UNIQUE (node_id, sequence)).
Rows ==
    /\ stored \subseteq issued \ signed
    /\ \A c, d \in stored : c.node = d.node /\ c.sequence = d.sequence => c = d

\* A number a runner is past, or was when it polled, is that of a leased row.
Reached(n, number) ==
    number = 0 \/ \E e \in leased : e.node = n /\ e.sequence = number

PastIsLeased ==
    /\ \A n \in Nodes : Reached(n, last[n])
    /\ \A p \in polls : Reached(p.node, p.last)

\* What is handed out is a row of the node; what a runner has got is leased.
HandedOutRows ==
    /\ \A p \in polls : \A c \in p.target : c \in stored /\ c.node = p.node
    /\ \A n \in Nodes : \A c \in held[n] : c \in leased /\ c.node = n

\* A pending row below one that is handed out came after it.
PassedOver ==
    \A c \in stored \ (leased \cup skipped) :
        \A e \in HandedOut : e.node = c.node /\ e.sequence > c.sequence => c \in late

\* A runner process has one poll under way, while it waits for it.
OnePoll ==
    /\ \A p \in polls :
           /\ p.session <= session[p.node]
           /\ p.session = session[p.node] => pc[p.node] \in {"down", "polling"}
    /\ \A p, q \in polls : Live(p) /\ Live(q) /\ p.node = q.node => p = q

\* Neither what a runner holds nor what its poll is about to return has been
\* executed, although other polls may lease the same row.
NotYetExecuted ==
    /\ \A n \in Nodes : held[n] # {} => pc[n] = "holding"
    /\ \A n \in Nodes : held[n] \cap Path!AllExecuted = {}
    /\ Path!AllExecuted \subseteq leased
    /\ \A p \in polls : Live(p) => p.target \cap Path!AllExecuted = {}

QueueInv ==
    /\ TypeOK
    /\ NumbersOfThisRun
    /\ Rows
    /\ DroppedOnlyForOldRow
    /\ PastIsLeased
    /\ HandedOutRows
    /\ PassedOver
    /\ SkippedWasLate
    /\ OnePoll
    /\ NotYetExecuted

-----------------------------------------------------------------------------
(* Facts about the instance and about single polls.                        *)

\* The sets of commands and polls do not depend on the state.
LEMMA ConstantSets ==
    /\ Path!Command' = Path!Command
    /\ Path!Execution' = Path!Execution
    /\ Command' = Command
    /\ Poll' = Poll
<1>1. Path!Command' = Path!Command
  BY DEF Path!Command
<1> QED BY <1>1 DEF Command, Path!Execution, Poll

\* A command has a nonce, a node and a number.
LEMMA CommandFields ==
    ASSUME NEW c \in Command
    PROVE  c.nonce \in Nonces /\ c.node \in Nodes /\ c.sequence \in Nat
  BY DEF Command, Path!Command

\* So has a poll a runner process and the number it is past.
LEMMA PollFields ==
    ASSUME NEW p \in Poll
    PROVE  /\ p.node \in Nodes /\ p.session \in Nat /\ p.last \in Nat
           /\ p.target \subseteq Command
  BY DEF Poll

\* The poll after its UPDATE, and after its inner SELECT, is the same but for its
\* stage and its target.
LEMMA PollGoesOn ==
    ASSUME NEW p \in Poll
    PROVE  /\ LET q == [p EXCEPT !.stage = "select"] IN
              /\ q \in Poll
              /\ q.node = p.node /\ q.session = p.session /\ q.last = p.last
              /\ q.target = p.target
           /\ \A c \in Command :
              LET q == [p EXCEPT !.stage = "lease", !.target = {c}] IN
              /\ q \in Poll
              /\ q.node = p.node /\ q.session = p.session /\ q.last = p.last
              /\ q.target = {c}
  BY DEF Poll

\* The poll a runner sends.
LEMMA PollSent ==
    ASSUME TypeOK, NEW n \in Nodes
    PROVE  [node |-> n, session |-> session[n], last |-> last[n],
            stage |-> "skip", target |-> {}] \in Poll
  BY DEF TypeOK, Path!TypeOK, Poll

\* A handler that signs draws a nonce nobody used.
LEMMA FreshNonceLemma ==
    ASSUME Unused # {}
    PROVE  FreshNonce \in Nonces /\ \A d \in issued : d.nonce # FreshNonce
<1>1. FreshNonce \in Unused
  BY DEF FreshNonce
<1> QED BY <1>1 DEF Unused

\* What has been executed only depends on the history of executions, ...
LEMMA ExecutedStays ==
    ASSUME executed' = executed
    PROVE  Path!AllExecuted' = Path!AllExecuted
  BY DEF Path!AllExecuted, Path!ExecutedCommands

\* ... and an execution adds its command to it.
LEMMA ExecutedGrows ==
    ASSUME TypeOK, NEW n \in Nodes, NEW c \in Command,
           executed' = [executed EXCEPT ![n] =
                           Append(@, [command |-> c, session |-> session[n]])]
    PROVE  /\ Path!AllExecuted' = Path!AllExecuted \cup {c}
           /\ executed' \in [Nodes -> Seq(Path!Execution)]
<1> DEFINE x == [command |-> c, session |-> session[n]]
<1>1. /\ x \in Path!Execution /\ x.command = c
      /\ executed \in [Nodes -> Seq(Path!Execution)]
  BY DEF TypeOK, Path!TypeOK, Path!Execution, Command
<1> HIDE DEF x
<1>2. /\ Append(executed[n], x) \in Seq(Path!Execution)
      /\ DOMAIN Append(executed[n], x) = DOMAIN executed[n] \cup {Len(executed[n]) + 1}
      /\ \A i \in DOMAIN executed[n] : Append(executed[n], x)[i] = executed[n][i]
      /\ Append(executed[n], x)[Len(executed[n]) + 1] = x
  BY <1>1
<1>3. executed' = [executed EXCEPT ![n] = Append(executed[n], x)]
  BY DEF x
<1>4. /\ executed'[n] = Append(executed[n], x)
      /\ \A m \in Nodes \ {n} : executed'[m] = executed[m]
      /\ executed' \in [Nodes -> Seq(Path!Execution)]
  BY <1>1, <1>2, <1>3
<1>5. Path!ExecutedCommands(n)' = Path!ExecutedCommands(n) \cup {c}
  BY <1>1, <1>2, <1>4 DEF Path!ExecutedCommands
<1>6. \A m \in Nodes \ {n} : Path!ExecutedCommands(m)' = Path!ExecutedCommands(m)
  BY <1>4 DEF Path!ExecutedCommands
<1>7. Path!AllExecuted' = Path!AllExecuted \cup {c}
  <2>1. Path!AllExecuted' = UNION {Path!ExecutedCommands(m)' : m \in Nodes}
    BY DEF Path!AllExecuted
  <2> QED BY <1>5, <1>6, <2>1 DEF Path!AllExecuted
<1> QED BY <1>4, <1>7

-----------------------------------------------------------------------------
(* The types.                                                              *)

\* The runner processes that end keep the types of their variables.
LEMMA EndProcessesTypes ==
    ASSUME TypeOK, NEW S, Path!EndProcesses(S)
    PROVE  /\ pc' \in [Nodes -> {"down", "idle", "polling", "holding"}]
           /\ last' \in [Nodes -> Nat]
           /\ seen' \in [Nodes -> SUBSET Nonces]
           /\ held' \in [Nodes -> SUBSET Command]
           /\ session' \in [Nodes -> Nat]
           /\ executed' \in [Nodes -> Seq(Path!Execution)]
  BY DEF Path!EndProcesses, TypeOK, Path!TypeOK, Command

\* So does the runner process that a response reaches, if there is one.
LEMMA AnswerTypes ==
    ASSUME TypeOK, NEW p \in polls, NEW envelopes, envelopes \subseteq Command,
           Answer(p, envelopes)
    PROVE  /\ pc' \in [Nodes -> {"down", "idle", "polling", "holding"}]
           /\ held' \in [Nodes -> SUBSET Command]
<1>1. p.node \in Nodes
  BY PollFields DEF TypeOK
<1> QED BY <1>1 DEF Answer, TypeOK, Path!TypeOK, Command

\* A poll that goes on is taken out of the set and put back at its next stage.
LEMMA Skips ==
    ASSUME TypeOK, NEW p \in polls, PollSkip(p)
    PROVE  \E q \in Poll : /\ polls' = (polls \ {p}) \cup {q}
                           /\ q.node = p.node /\ q.session = p.session /\ q.last = p.last
                           /\ q.target = p.target
  BY PollGoesOn DEF PollSkip, GoesOn, TypeOK

\* The inner SELECT puts it back with the row it has found.
LEMMA Selects ==
    ASSUME TypeOK, NEW p \in polls, PollSelect(p)
    PROVE  \E q \in Poll, c \in Lowest(Fresh(p)) :
               /\ polls' = (polls \ {p}) \cup {q}
               /\ q.node = p.node /\ q.session = p.session /\ q.last = p.last
               /\ q.target = {c}
<1>1. PICK c \in Lowest(Fresh(p)) :
          polls' = (polls \ {p}) \cup {[p EXCEPT !.stage = "lease", !.target = {c}]}
  BY DEF PollSelect, GoesOn
<1>2. c \in Command /\ p \in Poll
  BY DEF Lowest, Fresh, Pending, TypeOK
<1> DEFINE q == [p EXCEPT !.stage = "lease", !.target = {c}]
<1>3. /\ q \in Poll
      /\ q.node = p.node /\ q.session = p.session /\ q.last = p.last /\ q.target = {c}
  BY <1>2, PollGoesOn
<1>4. polls' = (polls \ {p}) \cup {q}
  BY <1>1
<1> HIDE DEF q
<1> QED BY <1>3, <1>4

\* Every step keeps the types of the table, of the polls and of the runners.
LEMMA TypeStep == TypeOK /\ HandedOutRows /\ [Next]_vars => TypeOK'
<1> SUFFICES ASSUME TypeOK, HandedOutRows, [Next]_vars
             PROVE  TypeOK'
  OBVIOUS
<1> USE ConstantSets DEF TypeOK, Path!TypeOK
<1>1. ASSUME NEW n \in Nodes, Sign(n) PROVE TypeOK'
  <2> DEFINE c == [nonce |-> FreshNonce, node |-> n, sequence |-> Path!NextSequence(n)]
  <2>1. Path!NextSequence(n) \in Nat /\ FreshNonce \in Nonces
    BY <1>1, FreshNonceLemma DEF Sign, Path!NextSequence
  <2>2. c \in Path!Command
    BY <2>1 DEF Path!Command
  <2>3. nodeSequences' \in [Nodes -> Nat]
    BY <1>1, <2>1 DEF Sign, Path!Sign
  <2>4. issued' = issued \cup {c} /\ signed' = signed \cup {c}
    BY <1>1 DEF Sign, Path!Sign
  <2> HIDE DEF c
  <2> QED BY <1>1, <2>2, <2>3, <2>4 DEF Sign, Path!Sign, Path!runnerVars, Unqueued
<1>2. ASSUME NEW c \in signed, Enqueue(c) PROVE TypeOK'
  <2>1. c \in Command
    BY DEF Command
  <2>2. stored' \subseteq Command /\ stored \subseteq stored' /\ late' \subseteq stored'
    BY <1>2, <2>1 DEF Enqueue
  <2> QED BY <1>2, <2>1, <2>2 DEF Enqueue
<1>3. ASSUME NEW c \in signed, Abort(c) PROVE TypeOK'
  BY <1>3 DEF Abort, Path!Abort, Path!runnerVars, Unqueued
<1>4. ASSUME NEW n \in Nodes, Start(n) PROVE TypeOK'
  BY <1>4 DEF Start, Path!Start, Path!controlVars, Unqueued
<1>5. ASSUME NEW n \in Nodes, SendPoll(n) PROVE TypeOK'
  <2>1. polls' \subseteq Poll
    BY <1>5, PollSent DEF SendPoll
  <2> QED BY <1>5, <2>1
          DEF SendPoll, Path!SendPoll, Path!controlVars, tableVars, historyVars
<1>6. ASSUME NEW p \in polls, PollSkip(p) PROVE TypeOK'
  <2>1. polls' \subseteq Poll
    BY <1>6, Skips
  <2> QED BY <1>6, <2>1 DEF PollSkip, historyVars, Passed, Pending
<1>7. ASSUME NEW p \in polls, PollSelect(p) PROVE TypeOK'
  <2>1. polls' \subseteq Poll
    BY <1>7, Selects
  <2> QED BY <1>7, <2>1 DEF PollSelect, historyVars, tableVars
<1>8. ASSUME NEW p \in polls, PollNothing(p) PROVE TypeOK'
  BY <1>8, AnswerTypes DEF PollNothing, historyVars, tableVars, Command
<1>9. ASSUME NEW p \in polls, PollLease(p) PROVE TypeOK'
  <2>1. p.target \subseteq stored /\ p.target \subseteq Command
    BY DEF HandedOutRows
  <2> QED BY <1>9, <2>1, AnswerTypes DEF PollLease, Mark, historyVars, Command
<1>10. ASSUME NEW p \in polls, DropPoll(p) PROVE TypeOK'
  BY <1>10 DEF DropPoll, historyVars, tableVars
<1>11. ASSUME NEW n \in Nodes, Apply(n) PROVE TypeOK'
  <2>1. PICK c \in held[n] :
            /\ last' = [last EXCEPT ![n] = c.sequence]
            /\ seen' = [seen EXCEPT ![n] = @ \cup {c.nonce}]
            /\ executed' = [executed EXCEPT ![n] =
                               Append(@, [command |-> c, session |-> session[n]])]
    BY <1>11 DEF Apply, Path!Apply, Path!Accepted
  <2>2. c \in Command /\ c.nonce \in Nonces /\ c.sequence \in Nat
    BY CommandFields DEF Command
  <2>3. executed' \in [Nodes -> Seq(Path!Execution)]
    BY <2>1, <2>2, ExecutedGrows
  <2>4. last' \in [Nodes -> Nat] /\ seen' \in [Nodes -> SUBSET Nonces]
    BY <2>1, <2>2
  <2> QED BY <1>11, <2>3, <2>4 DEF Apply, Path!Apply, Path!controlVars, Unqueued
<1>12. ASSUME NEW n \in Nodes, Reject(n) PROVE TypeOK'
  BY <1>12, EndProcessesTypes DEF Reject, Path!Reject, Path!controlVars, Unqueued, Command
<1>13. ASSUME NEW n \in Nodes, Exit(n) PROVE TypeOK'
  <2>1. exits' \in Nat /\ Path!EndProcesses({n})
    BY <1>13 DEF Exit
  <2> QED BY <1>13, <2>1, EndProcessesTypes DEF Exit, Unqueued, Command
<1>14. ASSUME NEW c \in issued, Expire(c) PROVE TypeOK'
  BY <1>14 DEF Expire, Path!Expire, Path!controlVars, Path!runnerVars, Unqueued
<1>15. ASSUME Restart PROVE TypeOK'
  BY <1>15, EndProcessesTypes DEF Restart, tableVars, Command
<1>16. ASSUME UNCHANGED vars PROVE TypeOK'
  BY <1>16 DEF vars
<1> QED BY <1>1, <1>2, <1>3, <1>4, <1>5, <1>6, <1>7, <1>8, <1>9, <1>10, <1>11, <1>12,
   <1>13, <1>14, <1>15, <1>16 DEF Next

-----------------------------------------------------------------------------
(* The numbers and the rows.                                               *)

\* Steps of polls and runners draw no number and insert no row.
LEMMA NumbersStay ==
    ASSUME NumbersOfThisRun, Rows, DroppedOnlyForOldRow,
           UNCHANGED <<nodeSequences, issued, signed, stored, before, acknowledged>>
    PROVE  NumbersOfThisRun' /\ Rows' /\ DroppedOnlyForOldRow'
  BY DEF NumbersOfThisRun, Rows, DroppedOnlyForOldRow

\* A number is drawn once in a run of the control plane, so a conflict is one with
\* a row of an earlier run.
LEMMA NumbersStep ==
    ASSUME TypeOK, NumbersOfThisRun, Rows, DroppedOnlyForOldRow, [Next]_vars
    PROVE  NumbersOfThisRun' /\ Rows' /\ DroppedOnlyForOldRow'
<1> DEFINE Goal == NumbersOfThisRun' /\ Rows' /\ DroppedOnlyForOldRow'
<1> USE DEF TypeOK, Path!TypeOK
<1>1. ASSUME NEW n \in Nodes, Sign(n) PROVE Goal
  <2> DEFINE c == [nonce |-> FreshNonce, node |-> n, sequence |-> Path!NextSequence(n)]
  <2>1. c.node = n /\ c.sequence = nodeSequences[n] + 1 /\ c \notin issued
    BY <1>1, FreshNonceLemma DEF Sign, Path!NextSequence
  <2>2. /\ issued' = issued \cup {c} /\ signed' = signed \cup {c}
        /\ nodeSequences' = [nodeSequences EXCEPT ![n] = nodeSequences[n] + 1]
        /\ UNCHANGED <<stored, before, acknowledged>>
    BY <1>1 DEF Sign, Path!Sign, Path!NextSequence, Unqueued
  <2> HIDE DEF c
  <2>3. \A d \in issued : d.node \in Nodes /\ d.sequence \in Nat
    BY CommandFields DEF Command
  <2>4. NumbersOfThisRun'
    BY <2>1, <2>2, <2>3 DEF NumbersOfThisRun
  <2>5. Rows' /\ DroppedOnlyForOldRow'
    BY <2>1, <2>2 DEF Rows, DroppedOnlyForOldRow
  <2> QED BY <2>4, <2>5
<1>2. ASSUME NEW c \in signed, Enqueue(c) PROVE Goal
  <2>1. UNCHANGED <<nodeSequences, issued, before>> /\ signed' = signed \ {c}
    BY <1>2 DEF Enqueue
  <2>2. NumbersOfThisRun'
    BY <2>1 DEF NumbersOfThisRun
  <2>3. Rows'
    <3>1. CASE stored' = stored
      BY <2>1, <3>1 DEF Rows
    <3>2. CASE ~Conflicts(c) /\ stored' = stored \cup {c}
      BY <2>1, <3>2 DEF Rows, NumbersOfThisRun, Conflicts
    <3> QED BY <1>2, <3>1, <3>2 DEF Enqueue
  <2>4. DroppedOnlyForOldRow'
    <3>1. ASSUME Conflicts(c)
          PROVE  \E d \in stored \cap before : d.node = c.node /\ d.sequence = c.sequence
      BY <3>1 DEF Conflicts, NumbersOfThisRun, Rows
    <3>2. acknowledged' = acknowledged \cup {c} /\ stored \subseteq stored'
      BY <1>2 DEF Enqueue
    <3>3. c \in stored' \/ Conflicts(c)
      BY <1>2 DEF Enqueue
    <3> QED BY <2>1, <3>1, <3>2, <3>3 DEF DroppedOnlyForOldRow
  <2> QED BY <2>2, <2>3, <2>4
<1>3. ASSUME NEW c \in signed, Abort(c) PROVE Goal
  BY <1>3 DEF Abort, Path!Abort, Unqueued, NumbersOfThisRun, Rows, DroppedOnlyForOldRow
<1>4. ASSUME Restart PROVE Goal
  BY <1>4 DEF Restart, tableVars, NumbersOfThisRun, Rows, DroppedOnlyForOldRow
<1>5. CASE \/ \E n \in Nodes : Start(n) \/ SendPoll(n) \/ Apply(n) \/ Reject(n) \/ Exit(n)
           \/ \E p \in polls : \/ PollSkip(p) \/ PollSelect(p) \/ PollNothing(p)
                               \/ PollLease(p) \/ DropPoll(p)
           \/ \E c \in issued : Expire(c)
           \/ UNCHANGED vars
  <2>1. UNCHANGED <<nodeSequences, issued, signed, stored, before, acknowledged>>
    BY <1>5
    DEF Start, Path!Start, SendPoll, Path!SendPoll, Apply, Path!Apply, Reject, Path!Reject,
        Exit, PollSkip, PollSelect, PollNothing, PollLease, DropPoll, Expire, Path!Expire,
        Path!controlVars, Unqueued, tableVars, historyVars, vars
  <2> QED BY <2>1, NumbersStay
<1> QED BY <1>1, <1>2, <1>3, <1>4, <1>5 DEF Next

-----------------------------------------------------------------------------
(* The order in which rows are handed out.                                 *)

OrderInv == PastIsLeased /\ HandedOutRows /\ PassedOver /\ SkippedWasLate

\* Steps that hand nothing out, insert no row and move no runner.
LEMMA OrderStays ==
    ASSUME OrderInv, UNCHANGED <<last, held, stored, leased, skipped, polls, late>>
    PROVE  OrderInv'
  BY DEF OrderInv, PastIsLeased, Reached, HandedOutRows, PassedOver, HandedOut,
         SkippedWasLate

\* A runner process that ends knows no number and holds nothing any more.
LEMMA OrderEnds ==
    ASSUME TypeOK, OrderInv, NEW S, Path!EndProcesses(S),
           UNCHANGED <<stored, leased, skipped, late>>, polls' \subseteq polls
    PROVE  OrderInv'
<1>1. \A n \in Nodes : last'[n] \in {0, last[n]} /\ held'[n] \subseteq held[n]
  BY DEF Path!EndProcesses
<1> QED BY <1>1 DEF OrderInv, PastIsLeased, Reached, HandedOutRows, PassedOver, HandedOut,
                    SkippedWasLate

\* A pending row at or below a number that was reached came after a higher one:
\* the row of that number is leased, and there is no other of that number.
LEMMA BelowReachedIsLate ==
    ASSUME TypeOK, NumbersOfThisRun, Rows, PassedOver,
           NEW c \in stored \ (leased \cup skipped), NEW number \in Nat,
           Reached(c.node, number), c.sequence <= number
    PROVE  c \in late
<1>1. c \in Command /\ c \in issued
  BY DEF TypeOK, Rows
<1>2. c.sequence \in Nat /\ c.sequence > 0
  BY <1>1, CommandFields DEF NumbersOfThisRun
<1>3. PICK e \in leased : e.node = c.node /\ e.sequence = number
  BY <1>2 DEF Reached
<1>4. e \in stored /\ e # c
  BY DEF TypeOK
<1>5. e.sequence # c.sequence
  BY <1>3, <1>4 DEF Rows
<1> QED BY <1>2, <1>3, <1>5 DEF PassedOver, HandedOut

\* ORDER BY sequence hands out the rows of a node in their order, except for those
\* that come after a higher one.
LEMMA OrderStep ==
    ASSUME TypeOK, NumbersOfThisRun, Rows, OrderInv, [Next]_vars
    PROVE  OrderInv'
<1> USE DEF TypeOK, OrderInv
<1>1. ASSUME NEW c \in signed, Enqueue(c) PROVE OrderInv'
  <2>1. UNCHANGED <<last, held, leased, skipped, polls>> /\ stored \subseteq stored'
    BY <1>1 DEF Enqueue
  <2>2. PastIsLeased' /\ HandedOutRows' /\ SkippedWasLate'
    BY <1>1, <2>1 DEF Enqueue, PastIsLeased, Reached, HandedOutRows, SkippedWasLate
  <2>3. PassedOver'
    BY <1>1, <2>1 DEF Enqueue, PassedOver, HandedOut
  <2> QED BY <2>2, <2>3
<1>2. ASSUME NEW n \in Nodes, SendPoll(n) PROVE OrderInv'
  <2> DEFINE p == [node |-> n, session |-> session[n], last |-> last[n],
                   stage |-> "skip", target |-> {}]
  <2>1. polls' = polls \cup {p} /\ p.node = n /\ p.last = last[n] /\ p.target = {}
    BY <1>2 DEF SendPoll
  <2> HIDE DEF p
  <2>2. UNCHANGED <<last, held, stored, leased, skipped, late>>
    BY <1>2 DEF SendPoll, Path!SendPoll, tableVars, historyVars
  <2> QED BY <2>1, <2>2 DEF PastIsLeased, Reached, HandedOutRows, PassedOver, HandedOut,
                            SkippedWasLate
<1>3. ASSUME NEW p \in polls, PollSkip(p) PROVE OrderInv'
  <2>1. /\ UNCHANGED <<last, held, stored, leased, late>>
        /\ skipped' = skipped \cup Passed(p)
    BY <1>3 DEF PollSkip, historyVars
  <2>2. PICK q \in Poll : /\ polls' = (polls \ {p}) \cup {q}
                          /\ q.node = p.node /\ q.last = p.last /\ q.target = p.target
    BY <1>3, Skips
  <2>3. PastIsLeased' /\ HandedOutRows'
    BY <2>1, <2>2 DEF PastIsLeased, Reached, HandedOutRows
  <2>4. PassedOver'
    BY <2>1, <2>2 DEF PassedOver, HandedOut
  <2>5. ASSUME NEW c \in Passed(p) PROVE c \in late
    <3>1. /\ c \in stored \ (leased \cup skipped) /\ c.node = p.node
          /\ c.sequence <= p.last
      BY DEF Passed, Pending
    <3>2. Reached(c.node, p.last) /\ p.last \in Nat
      BY <3>1, PollFields DEF PastIsLeased
    <3> QED BY <3>1, <3>2, BelowReachedIsLate
  <2>6. SkippedWasLate'
    BY <2>1, <2>5 DEF SkippedWasLate
  <2> QED BY <2>3, <2>4, <2>6
<1>4. ASSUME NEW p \in polls, PollSelect(p) PROVE OrderInv'
  <2>1. UNCHANGED <<last, held, stored, leased, skipped, late>>
    BY <1>4 DEF PollSelect, tableVars, historyVars
  <2>2. PICK q \in Poll, e \in Lowest(Fresh(p)) :
            /\ polls' = (polls \ {p}) \cup {q}
            /\ q.node = p.node /\ q.last = p.last /\ q.target = {e}
    BY <1>4, Selects
  <2>3. e \in stored /\ e.node = p.node /\ \A d \in Fresh(p) : e.sequence <= d.sequence
    BY DEF Lowest, Fresh, Pending
  <2>4. PastIsLeased' /\ HandedOutRows' /\ SkippedWasLate'
    BY <2>1, <2>2, <2>3 DEF PastIsLeased, Reached, HandedOutRows, SkippedWasLate
  <2>5. ASSUME NEW c \in stored \ (leased \cup skipped), c.node = p.node,
               e.sequence > c.sequence
        PROVE  c \in late
    <3>1. c.sequence \in Nat /\ e.sequence \in Nat /\ p.last \in Nat
      BY <2>3, CommandFields, PollFields
    <3>2. c.sequence <= p.last
      BY <2>3, <2>5, <3>1 DEF Fresh, Pending
    <3>3. Reached(c.node, p.last)
      BY <2>5 DEF PastIsLeased
    <3> QED BY <3>1, <3>2, <3>3, BelowReachedIsLate
  <2>6. PassedOver'
    BY <2>1, <2>2, <2>3, <2>5 DEF PassedOver, HandedOut
  <2> QED BY <2>4, <2>6
<1>5. ASSUME NEW p \in polls, PollNothing(p) PROVE OrderInv'
  <2>1. UNCHANGED <<last, stored, leased, skipped, late>> /\ polls' = polls \ {p}
    BY <1>5 DEF PollNothing, tableVars, historyVars
  <2>2. \A n \in Nodes : held'[n] \subseteq held[n]
    BY <1>5 DEF PollNothing, Answer, Path!TypeOK
  <2> QED BY <2>1, <2>2 DEF PastIsLeased, Reached, HandedOutRows, PassedOver, HandedOut,
                            SkippedWasLate
<1>6. ASSUME NEW p \in polls, PollLease(p) PROVE OrderInv'
  <2>1. /\ UNCHANGED <<last, stored, late>> /\ polls' = polls \ {p}
        /\ leased' = leased \cup p.target /\ skipped' = skipped \ p.target
    BY <1>6 DEF PollLease, Mark, historyVars
  <2>2. \A n \in Nodes : held'[n] = held[n] \/ (n = p.node /\ held'[n] = p.target)
    BY <1>6 DEF PollLease, Answer, Path!TypeOK
  <2>3. PastIsLeased' /\ SkippedWasLate'
    BY <2>1 DEF PastIsLeased, Reached, SkippedWasLate
  <2>4. HandedOutRows'
    BY <2>1, <2>2 DEF HandedOutRows
  <2>5. PassedOver'
    BY <2>1 DEF PassedOver, HandedOut
  <2> QED BY <2>3, <2>4, <2>5
<1>7. ASSUME NEW p \in polls, DropPoll(p) PROVE OrderInv'
  BY <1>7 DEF DropPoll, tableVars, historyVars, PastIsLeased, Reached, HandedOutRows,
              PassedOver, HandedOut, SkippedWasLate
<1>8. ASSUME NEW n \in Nodes, Apply(n) PROVE OrderInv'
  <2>1. PICK c \in held[n] : last' = [last EXCEPT ![n] = c.sequence]
    BY <1>8 DEF Apply, Path!Apply, Path!Accepted
  <2>2. /\ UNCHANGED <<stored, leased, skipped, polls, late>>
        /\ held' = [held EXCEPT ![n] = {}]
    BY <1>8 DEF Apply, Path!Apply, Unqueued
  <2>3. c \in leased /\ c.node = n
    BY DEF HandedOutRows
  <2>4. PastIsLeased'
    BY <2>1, <2>2, <2>3 DEF PastIsLeased, Reached, Path!TypeOK
  <2> QED BY <2>2, <2>4 DEF HandedOutRows, PassedOver, HandedOut, SkippedWasLate,
                            Path!TypeOK
<1>9. CASE Restart \/ \E n \in Nodes : Reject(n) \/ Exit(n)
  <2>1. \E S : Path!EndProcesses(S)
    BY <1>9 DEF Restart, Reject, Path!Reject, Exit
  <2>2. UNCHANGED <<stored, leased, skipped, late>> /\ polls' \subseteq polls
    BY <1>9 DEF Restart, Reject, Exit, Unqueued, tableVars
  <2> QED BY <2>1, <2>2, OrderEnds
<1>10. CASE \/ \E n \in Nodes : Sign(n) \/ Start(n)
            \/ \E c \in signed : Abort(c)
            \/ \E c \in issued : Expire(c)
            \/ UNCHANGED vars
  <2>1. UNCHANGED <<last, held, stored, leased, skipped, polls, late>>
    BY <1>10 DEF Sign, Path!Sign, Start, Path!Start, Abort, Path!Abort, Expire,
                 Path!Expire, Path!runnerVars, Unqueued, vars
  <2> QED BY <2>1, OrderStays
<1> QED BY <1>1, <1>2, <1>3, <1>4, <1>5, <1>6, <1>7, <1>8, <1>9, <1>10 DEF Next

-----------------------------------------------------------------------------
(* A command is executed once.                                             *)

OnceInv == OnePoll /\ NotYetExecuted

\* Steps of the handlers that sign and enqueue.
LEMMA OnceStays ==
    ASSUME OnceInv, UNCHANGED <<pc, held, session, executed, leased, polls>>
    PROVE  OnceInv'
  BY ExecutedStays DEF OnceInv, OnePoll, NotYetExecuted, Live

\* A runner process that ends leaves its poll behind, which is nobody's then.
LEMMA OnceEnds ==
    ASSUME TypeOK, OnceInv, NEW S, Path!EndProcesses(S), leased' = leased,
           polls' \subseteq polls
    PROVE  OnceInv'
<1>1. /\ session' = session /\ Path!AllExecuted' = Path!AllExecuted
      /\ \A n \in Nodes : \/ pc'[n] = "down" /\ held'[n] = {}
                          \/ pc'[n] = pc[n] /\ held'[n] = held[n]
  BY ExecutedStays DEF Path!EndProcesses
<1>2. \A p \in polls : p.node \in Nodes
  BY PollFields DEF TypeOK
<1> QED BY <1>1, <1>2 DEF OnceInv, OnePoll, NotYetExecuted, Live

\* A response ends its poll, and what it brings to a live runner has not been executed.
LEMMA OnceAnswered ==
    ASSUME TypeOK, OnceInv, NEW p \in polls, NEW envelopes, envelopes \subseteq p.target,
           Answer(p, envelopes), polls' = polls \ {p}, leased \subseteq leased',
           UNCHANGED <<session, executed>>
    PROVE  OnceInv'
<1> USE DEF OnceInv
<1>1. \A q \in polls : q.node \in Nodes
  BY PollFields DEF TypeOK
<1>2. Path!AllExecuted' = Path!AllExecuted
  BY ExecutedStays
<1>3. CASE ~Live(p)
  <2>1. UNCHANGED <<held, pc>>
    BY <1>3 DEF Answer
  <2> QED BY <1>2, <2>1 DEF OnePoll, NotYetExecuted, Live
<1>4. CASE Live(p)
  <2>1. /\ held' = [held EXCEPT ![p.node] = envelopes]
        /\ pc' = [pc EXCEPT ![p.node] = IF envelopes = {} THEN "idle" ELSE "holding"]
    BY <1>4 DEF Answer
  <2>2. \A q \in polls' : q.node = p.node => q.session # session[q.node]
    BY <1>4 DEF OnePoll, Live
  <2>3. OnePoll'
    BY <1>1, <2>1, <2>2 DEF OnePoll, Live, TypeOK, Path!TypeOK
  <2>4. NotYetExecuted'
    BY <1>1, <1>2, <1>4, <2>1, <2>2 DEF NotYetExecuted, Live, TypeOK, Path!TypeOK
  <2> QED BY <2>3, <2>4
<1> QED BY <1>3, <1>4

\* Whatever polls lease a row, the command in it reaches one runner process at most
\* once, and is not executed by anybody else.
LEMMA OnceStep ==
    ASSUME TypeOK, HandedOutRows, OnceInv, [Next]_vars
    PROVE  OnceInv'
<1> USE DEF OnceInv
<1>1. \A q \in polls : q.node \in Nodes /\ q.session \in Nat
  BY PollFields DEF TypeOK
<1>2. ASSUME NEW n \in Nodes, Start(n) PROVE OnceInv'
  <2>1. /\ pc[n] = "down" /\ pc' = [pc EXCEPT ![n] = "idle"]
        /\ session' = [session EXCEPT ![n] = @ + 1]
        /\ UNCHANGED <<held, leased, polls>> /\ Path!AllExecuted' = Path!AllExecuted
    BY <1>2, ExecutedStays DEF Start, Path!Start, Unqueued
  <2>2. OnePoll'
    BY <1>1, <2>1 DEF OnePoll, Live, TypeOK, Path!TypeOK
  <2>3. NotYetExecuted'
    BY <1>1, <2>1 DEF NotYetExecuted, Live, TypeOK, Path!TypeOK
  <2> QED BY <2>2, <2>3
<1>3. ASSUME NEW n \in Nodes, SendPoll(n) PROVE OnceInv'
  <2> DEFINE p == [node |-> n, session |-> session[n], last |-> last[n],
                   stage |-> "skip", target |-> {}]
  <2>1. polls' = polls \cup {p} /\ p.node = n /\ p.session = session[n] /\ p.target = {}
    BY <1>3 DEF SendPoll
  <2> HIDE DEF p
  <2>2. /\ pc[n] = "idle" /\ pc' = [pc EXCEPT ![n] = "polling"]
        /\ UNCHANGED <<held, leased, session>> /\ Path!AllExecuted' = Path!AllExecuted
    BY <1>3, ExecutedStays DEF SendPoll, Path!SendPoll, tableVars
  <2>3. OnePoll'
    BY <1>1, <2>1, <2>2 DEF OnePoll, Live, TypeOK, Path!TypeOK
  <2>4. NotYetExecuted'
    BY <1>1, <2>1, <2>2 DEF OnePoll, NotYetExecuted, Live, TypeOK, Path!TypeOK
  <2> QED BY <2>3, <2>4
<1>4. ASSUME NEW p \in polls, PollSkip(p) PROVE OnceInv'
  <2>1. UNCHANGED <<pc, held, session, leased>> /\ Path!AllExecuted' = Path!AllExecuted
    BY <1>4, ExecutedStays DEF PollSkip
  <2>2. PICK q \in Poll :
            /\ polls' = (polls \ {p}) \cup {q}
            /\ q.node = p.node /\ q.session = p.session /\ q.target = p.target
    BY <1>4, Skips
  <2> QED BY <2>1, <2>2 DEF OnePoll, NotYetExecuted, Live
<1>5. ASSUME NEW p \in polls, PollSelect(p) PROVE OnceInv'
  <2>1. UNCHANGED <<pc, held, session, leased>> /\ Path!AllExecuted' = Path!AllExecuted
    BY <1>5, ExecutedStays DEF PollSelect, tableVars
  <2>2. PICK q \in Poll, c \in Lowest(Fresh(p)) :
            /\ polls' = (polls \ {p}) \cup {q}
            /\ q.node = p.node /\ q.session = p.session /\ q.target = {c}
    BY <1>5, Selects
  <2>3. c \notin Path!AllExecuted
    BY DEF Lowest, Fresh, Pending, NotYetExecuted
  <2> QED BY <2>1, <2>2, <2>3 DEF OnePoll, NotYetExecuted, Live
<1>6. ASSUME NEW p \in polls, PollNothing(p) PROVE OnceInv'
  BY <1>6, OnceAnswered DEF PollNothing, tableVars
<1>7. ASSUME NEW p \in polls, PollLease(p) PROVE OnceInv'
  BY <1>7, OnceAnswered DEF PollLease, Mark
<1>8. ASSUME NEW p \in polls, DropPoll(p) PROVE OnceInv'
  BY <1>8, ExecutedStays DEF DropPoll, tableVars, OnePoll, NotYetExecuted, Live
<1>9. ASSUME NEW n \in Nodes, Apply(n) PROVE OnceInv'
  <2>1. PICK c \in held[n] :
            executed' = [executed EXCEPT ![n] =
                            Append(@, [command |-> c, session |-> session[n]])]
    BY <1>9 DEF Apply, Path!Apply
  <2>2. /\ pc[n] = "holding" /\ pc' = [pc EXCEPT ![n] = "idle"]
        /\ held' = [held EXCEPT ![n] = {}]
        /\ UNCHANGED <<session, leased, polls>>
    BY <1>9 DEF Apply, Path!Apply, Unqueued
  <2>3. c \in Command /\ c \in leased /\ c.node = n
    BY DEF HandedOutRows, TypeOK
  <2>4. Path!AllExecuted' = Path!AllExecuted \cup {c}
    BY <2>1, <2>3, ExecutedGrows
  <2>5. OnePoll'
    BY <1>1, <2>2 DEF OnePoll, Live, TypeOK, Path!TypeOK
  <2>6. \A m \in Nodes \ {n} : c \notin held[m]
    BY <2>3 DEF HandedOutRows
  <2>7. \A q \in polls : c \in q.target => q.node = n
    BY <2>3 DEF HandedOutRows
  <2>8. NotYetExecuted'
    BY <1>1, <2>2, <2>3, <2>4, <2>6, <2>7
    DEF NotYetExecuted, Live, TypeOK, Path!TypeOK
  <2> QED BY <2>5, <2>8
<1>10. CASE Restart \/ \E n \in Nodes : Reject(n) \/ Exit(n)
  <2>1. \E S : Path!EndProcesses(S)
    BY <1>10 DEF Restart, Reject, Path!Reject, Exit
  <2>2. leased' = leased /\ polls' \subseteq polls
    BY <1>10 DEF Restart, Reject, Exit, Unqueued, tableVars
  <2> QED BY <2>1, <2>2, OnceEnds
<1>11. CASE \/ \E n \in Nodes : Sign(n)
            \/ \E c \in signed : Enqueue(c) \/ Abort(c)
            \/ \E c \in issued : Expire(c)
            \/ UNCHANGED vars
  <2>1. UNCHANGED <<pc, held, session, executed, leased, polls>>
    BY <1>11 DEF Sign, Path!Sign, Enqueue, Abort, Path!Abort, Expire, Path!Expire,
                 Path!runnerVars, Unqueued, vars
  <2> QED BY <2>1, OnceStays
<1> QED BY <1>2, <1>3, <1>4, <1>5, <1>6, <1>7, <1>8, <1>9, <1>10, <1>11 DEF Next

-----------------------------------------------------------------------------
(* The invariant.                                                          *)

\* It holds before the first command is signed.
LEMMA InitQueueInv == Init => QueueInv
<1> SUFFICES ASSUME Init
             PROVE  QueueInv
  OBVIOUS
<1>1. TypeOK
  BY DEF Init, Path!Init, TypeOK, Path!TypeOK
<1>2. Path!AllExecuted = {}
  BY DEF Init, Path!Init, Path!AllExecuted, Path!ExecutedCommands
<1>3. NumbersOfThisRun /\ Rows /\ DroppedOnlyForOldRow
  BY DEF Init, Path!Init, NumbersOfThisRun, Rows, DroppedOnlyForOldRow
<1>4. OrderInv
  BY DEF Init, Path!Init, OrderInv, PastIsLeased, Reached, HandedOutRows, PassedOver,
         HandedOut, SkippedWasLate
<1>5. OnceInv
  BY <1>2 DEF Init, Path!Init, OnceInv, OnePoll, NotYetExecuted
<1> QED BY <1>1, <1>3, <1>4, <1>5 DEF QueueInv, OrderInv, OnceInv

\* Every step keeps it.
LEMMA NextQueueInv == QueueInv /\ [Next]_vars => QueueInv'
  BY TypeStep, NumbersStep, OrderStep, OnceStep DEF QueueInv, OrderInv, OnceInv

\* It holds in every reachable state.
LEMMA AlwaysQueueInv == Spec => []QueueInv
  BY InitQueueInv, NextQueueInv, PTL DEF Spec

-----------------------------------------------------------------------------
(* The theorems.                                                           *)

\* The table, the polls and the runner processes keep their types; a leased or a
\* skipped row is a row, and none is both.
THEOREM QueueTypeCorrect == Spec => []TypeOK
  BY AlwaysQueueInv, PTL DEF QueueInv

\* Over any number of restarts, ON CONFLICT DO NOTHING swallows a command only for
\* a row an earlier run of the control plane has left.
THEOREM DroppedOnlyForOldRowHolds == Spec => []DroppedOnlyForOldRow
  BY AlwaysQueueInv, PTL DEF QueueInv

\* However many polls of however many runner processes overlap, a row is skipped
\* only if a higher number was handed out before the row was there.
THEOREM SkippedWasLateHolds == Spec => []SkippedWasLate
  BY AlwaysQueueInv, PTL DEF QueueInv

-----------------------------------------------------------------------------
(* The refinement.                                                         *)

\* Steps that sign nothing, execute nothing and end no process are invisible.
LEMMA Invisible ==
    ASSUME UNCHANGED <<issued, executed, last>>
    PROVE  UNCHANGED Path!Channel!vars
  BY ExecutedStays DEF Path!Channel!vars

\* Ending runner processes is the channel's Forget.
LEMMA EndProcessesForget ==
    ASSUME NEW S \in SUBSET Nodes, Path!EndProcesses(S), issued' = issued
    PROVE  Path!Channel!Next
<1>1. /\ last' = [n \in Nodes |-> IF n \in S THEN 0 ELSE last[n]]
      /\ Path!AllExecuted' = Path!AllExecuted
  BY ExecutedStays DEF Path!EndProcesses
<1>2. Path!Channel!Forget(S)
  BY <1>1 DEF Path!Channel!Forget
<1> QED BY <1>2 DEF Path!Channel!Next

\* Signing is the channel's Issue: the command is new and so is its nonce.
LEMMA SignIssues ==
    ASSUME TypeOK, NEW n \in Nodes, Sign(n)
    PROVE  Path!Channel!Next
<1> DEFINE c == [nonce |-> FreshNonce, node |-> n, sequence |-> Path!NextSequence(n)]
<1>1. /\ issued' = issued \cup {c} /\ last' = last
      /\ Path!AllExecuted' = Path!AllExecuted
  BY ExecutedStays DEF Sign, Path!Sign, Path!runnerVars
<1>2. /\ FreshNonce \in Nonces /\ \A d \in issued : d.nonce # FreshNonce
      /\ Path!NextSequence(n) \in Nat
  BY FreshNonceLemma DEF Sign, TypeOK, Path!TypeOK, Path!NextSequence
<1>3. c \in Path!Channel!Command /\ c.nonce = FreshNonce
  BY <1>2 DEF Path!Channel!Command
<1> HIDE DEF c
<1>4. Path!Channel!IssueCommand(c) /\ c \in issued' \ issued
  BY <1>1, <1>2, <1>3 DEF Path!Channel!IssueCommand
<1> QED BY <1>4 DEF Path!Channel!Issue, Path!Channel!Next

\* Apply is the channel's Execute: the command was signed, nobody has executed it,
\* although it may have been leased twice, and it is above the last number.
LEMMA ApplyExecutes ==
    ASSUME QueueInv, NEW n \in Nodes, Apply(n)
    PROVE  Path!Channel!Next
<1> USE DEF QueueInv
<1>1. PICK c \in held[n] :
          /\ c.sequence > last[n]
          /\ last' = [last EXCEPT ![n] = c.sequence]
          /\ executed' = [executed EXCEPT ![n] =
                             Append(@, [command |-> c, session |-> session[n]])]
  BY DEF Apply, Path!Apply, Path!Verify, Path!Accepted
<1>2. c \in Command /\ c.node = n /\ c \in issued /\ issued' = issued
  BY DEF HandedOutRows, Rows, TypeOK, Apply, Path!Apply, Path!controlVars
<1>3. c \notin Path!AllExecuted
  BY DEF NotYetExecuted
<1>4. Path!AllExecuted' = Path!AllExecuted \cup {c}
  BY <1>1, <1>2, ExecutedGrows
<1>5. Path!Channel!Execute(c)
  BY <1>1, <1>2, <1>3, <1>4 DEF Path!Channel!Execute
<1> QED BY <1>2, <1>5 DEF Path!Channel!Next

\* Every statement of every poll, and every step around them, is a step of the
\* channel or none.
LEMMA ChannelStep == QueueInv /\ [Next]_vars => [Path!Channel!Next]_(Path!Channel!vars)
<1> SUFFICES ASSUME QueueInv, [Next]_vars
             PROVE  Path!Channel!Next \/ UNCHANGED Path!Channel!vars
  OBVIOUS
<1>1. ASSUME NEW n \in Nodes, Sign(n) PROVE Path!Channel!Next
  BY <1>1, SignIssues DEF QueueInv
<1>2. ASSUME NEW n \in Nodes, Apply(n) PROVE Path!Channel!Next
  BY <1>2, ApplyExecutes
<1>3. ASSUME NEW n \in Nodes, Reject(n) PROVE Path!Channel!Next
  BY <1>3, EndProcessesForget DEF Reject, Path!Reject, Path!controlVars
<1>4. ASSUME NEW n \in Nodes, Exit(n) PROVE Path!Channel!Next
  BY <1>4, EndProcessesForget DEF Exit
<1>5. CASE Restart
  BY <1>5, EndProcessesForget DEF Restart
<1>6. ASSUME NEW c \in signed, Enqueue(c) \/ Abort(c)
      PROVE  UNCHANGED Path!Channel!vars
  BY <1>6, Invisible DEF Enqueue, Abort, Path!Abort, Path!runnerVars
<1>7. ASSUME NEW n \in Nodes, Start(n) \/ SendPoll(n)
      PROVE  UNCHANGED Path!Channel!vars
  BY <1>7, Invisible DEF Start, Path!Start, SendPoll, Path!SendPoll, Path!controlVars
<1>8. ASSUME NEW p \in polls,
             PollSkip(p) \/ PollSelect(p) \/ PollNothing(p) \/ PollLease(p) \/ DropPoll(p)
      PROVE  UNCHANGED Path!Channel!vars
  BY <1>8, Invisible DEF PollSkip, PollSelect, PollNothing, PollLease, DropPoll
<1>9. ASSUME NEW c \in issued, Expire(c) PROVE UNCHANGED Path!Channel!vars
  BY <1>9, Invisible DEF Expire, Path!Expire, Path!controlVars, Path!runnerVars
<1>10. CASE UNCHANGED vars
  BY <1>10, Invisible DEF vars
<1> QED
  BY <1>1, <1>2, <1>3, <1>4, <1>5, <1>6, <1>7, <1>8, <1>9, <1>10 DEF Next

\* The table and its polls implement the channel: a signed command is executed at
\* most once, by its node, although two polls may lease one row.
THEOREM QueueImplementsChannel == Spec => ImplementsChannel
<1>1. Init => Path!Channel!Init
  <2>1. Init => Path!AllExecuted = {}
    BY DEF Init, Path!Init, Path!AllExecuted, Path!ExecutedCommands
  <2> QED BY <2>1 DEF Init, Path!Init, Path!Channel!Init
<1> QED
  BY <1>1, ChannelStep, AlwaysQueueInv, PTL
  DEF Spec, ImplementsChannel, Path!ImplementsChannel, Path!Channel!Spec
=============================================================================
