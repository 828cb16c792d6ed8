----------------------- MODULE CommandDeliveryProofs -----------------------
(***************************************************************************)
(* Theorems about CommandDelivery for any set of nodes and nonces, any     *)
(* number of handlers, runner exits and control plane restarts.            *)
(***************************************************************************)
EXTENDS CommandDelivery, TLAPS

-----------------------------------------------------------------------------
(* What the queue operations return.                                       *)

\* push_back keeps every element in its place and adds one at the end.
LEMMA AppendLemma ==
    ASSUME NEW S, NEW q \in Seq(S), NEW x \in S
    PROVE  /\ Append(q, x) \in Seq(S)
           /\ DOMAIN Append(q, x) = 1 .. (Len(q) + 1)
           /\ DOMAIN q = 1 .. Len(q)
           /\ Len(q) \in Nat
           /\ \A i \in DOMAIN q : Append(q, x)[i] = q[i]
           /\ Append(q, x)[Len(q) + 1] = x
  OBVIOUS

\* Popping up to place i shifts the rest of the queue to the front.
LEMMA RestLemma ==
    ASSUME NEW S, NEW q \in Seq(S), NEW i \in DOMAIN q
    PROVE  /\ Rest(q, i) \in Seq(S)
           /\ i \in 1 .. Len(q)
           /\ Len(q) \in Nat
           /\ DOMAIN q = 1 .. Len(q)
           /\ \A k \in DOMAIN Rest(q, i) :
                  k \in Nat /\ k > 0 /\ k + i \in DOMAIN q /\ Rest(q, i)[k] = q[k + i]
  BY DEF Rest

-----------------------------------------------------------------------------
(* Type correctness.                                                       *)

\* The runner processes that end keep the types of their variables.
LEMMA EndProcessesTypes ==
    ASSUME TypeOK, NEW S, EndProcesses(S)
    PROVE  /\ pc' \in [Nodes -> {"down", "idle", "polling", "holding"}]
           /\ last' \in [Nodes -> Nat]
           /\ seen' \in [Nodes -> SUBSET Nonces]
           /\ held' \in [Nodes -> SUBSET Command]
           /\ session' \in [Nodes -> Nat]
           /\ executed' \in [Nodes -> Seq(Execution)]
  BY DEF EndProcesses, TypeOK

\* Every variable of the delivery path keeps its type: the queues hold
\* commands, the runners' memories hold sequences and nonces.
THEOREM TypeCorrect == Spec => []TypeOK
<1>1. Init => TypeOK
  BY DEF Init, TypeOK
<1>2. TypeOK /\ [Next]_vars => TypeOK'
  <2> SUFFICES ASSUME TypeOK, [Next]_vars PROVE TypeOK'
    OBVIOUS
  <2>1. ASSUME NEW r \in Nonces, NEW n \in Nodes, Sign(r, n) PROVE TypeOK'
    <3> DEFINE c == [nonce |-> r, node |-> n, sequence |-> NextSequence(n)]
    <3>1. NextSequence(n) \in Nat
      BY DEF NextSequence, TypeOK
    <3>2. c \in Command
      BY <3>1 DEF Command
    <3>3. nodeSequences' \in [Nodes -> Nat]
      BY <2>1, <3>1 DEF Sign, TypeOK
    <3> QED BY <2>1, <3>2, <3>3 DEF Sign, TypeOK, runnerVars
  <2>2. ASSUME NEW c \in signed, Enqueue(c) PROVE TypeOK'
    <3>1. c \in Command /\ c.node \in Nodes
      BY DEF TypeOK, Command
    <3>2. Append(queue[c.node], c) \in Seq(Command)
      BY <3>1, AppendLemma DEF TypeOK
    <3>3. queue' \in [Nodes -> Seq(Command)]
      BY <2>2, <3>1, <3>2 DEF Enqueue, TypeOK
    <3> QED BY <2>2, <3>3 DEF Enqueue, TypeOK, runnerVars
  <2>3. ASSUME NEW c \in signed, Abort(c) PROVE TypeOK'
    BY <2>3 DEF Abort, TypeOK, runnerVars
  <2>4. ASSUME NEW n \in Nodes, Start(n) PROVE TypeOK'
    <3>1. session' \in [Nodes -> Nat]
      BY <2>4 DEF Start, TypeOK
    <3>2. pc' \in [Nodes -> {"down", "idle", "polling", "holding"}]
      BY <2>4 DEF Start, TypeOK
    <3> QED BY <2>4, <3>1, <3>2 DEF Start, TypeOK, controlVars
  <2>5. ASSUME NEW n \in Nodes, SendPoll(n) PROVE TypeOK'
    BY <2>5 DEF SendPoll, TypeOK, controlVars
  <2>6. ASSUME NEW n \in Nodes, Deliver(n) PROVE TypeOK'
    <3>1. PICK i \in DOMAIN queue[n] :
              /\ held' = [held EXCEPT ![n] = {queue[n][i]}]
              /\ queue' = [queue EXCEPT ![n] = Rest(queue[n], i)]
      BY <2>6 DEF Deliver, Rest
    <3>2. queue[n] \in Seq(Command)
      BY DEF TypeOK
    <3>3. Rest(queue[n], i) \in Seq(Command) /\ queue[n][i] \in Command
      BY <3>2, RestLemma
    <3>4. queue' \in [Nodes -> Seq(Command)] /\ held' \in [Nodes -> SUBSET Command]
      BY <3>1, <3>3 DEF TypeOK
    <3> QED BY <2>6, <3>4 DEF Deliver, TypeOK
  <2>7. ASSUME NEW n \in Nodes, DeliverNothing(n) PROVE TypeOK'
    <3>1. queue' \in [Nodes -> Seq(Command)]
      BY <2>7 DEF DeliverNothing, TypeOK
    <3>2. pc' \in [Nodes -> {"down", "idle", "polling", "holding"}]
      BY <2>7 DEF DeliverNothing, TypeOK
    <3> QED BY <2>7, <3>1, <3>2 DEF DeliverNothing, TypeOK
  <2>8. ASSUME NEW n \in Nodes, Apply(n) PROVE TypeOK'
    <3>1. PICK c \in held[n] :
              /\ last' = Accepted(n, c)
              /\ seen' = [seen EXCEPT ![n] = @ \cup {c.nonce}]
              /\ executed' = [executed EXCEPT ![n] =
                                Append(executed[n], [command |-> c, session |-> session[n]])]
      BY <2>8 DEF Apply
    <3>2. c \in Command /\ c.nonce \in Nonces /\ c.sequence \in Nat
      BY DEF TypeOK, Command
    <3>3. [command |-> c, session |-> session[n]] \in Execution
      BY <3>2 DEF TypeOK, Execution
    <3>4. Append(executed[n], [command |-> c, session |-> session[n]])
            \in Seq(Execution)
      BY <3>3, AppendLemma DEF TypeOK
    <3>5. executed' \in [Nodes -> Seq(Execution)]
      BY <3>1, <3>4 DEF TypeOK
    <3>6. last' \in [Nodes -> Nat] /\ seen' \in [Nodes -> SUBSET Nonces]
      BY <3>1, <3>2 DEF TypeOK, Accepted
    <3> QED BY <2>8, <3>5, <3>6 DEF Apply, TypeOK, controlVars
  <2>9. ASSUME NEW n \in Nodes, Reject(n) PROVE TypeOK'
    BY <2>9, EndProcessesTypes DEF Reject, TypeOK, controlVars
  <2>10. ASSUME NEW n \in Nodes, Exit(n) PROVE TypeOK'
    <3>1. stalePolls' \subseteq [node : Nodes, session : Nat, last : Nat]
      BY <2>10 DEF Exit, TypeOK
    <3>2. exits' \in Nat
      BY <2>10 DEF Exit, TypeOK
    <3>3. EndProcesses({n})
      BY <2>10 DEF Exit
    <3> QED BY <2>10, <3>1, <3>2, <3>3, EndProcessesTypes DEF Exit, TypeOK, controlVars
  <2>11. ASSUME NEW p \in stalePolls, HandleStalePoll(p) PROVE TypeOK'
    <3>1. p.node \in Nodes /\ queue[p.node] \in Seq(Command)
      BY DEF TypeOK
    <3>2. \A i \in DOMAIN queue[p.node] : Rest(queue[p.node], i) \in Seq(Command)
      BY <3>1, RestLemma
    <3>3. \E q \in Seq(Command) : queue' = [queue EXCEPT ![p.node] = q]
      <4>1. <<>> \in Seq(Command)
        OBVIOUS
      <4>2. \/ \E i \in DOMAIN queue[p.node] :
                   queue' = [queue EXCEPT ![p.node] = Rest(queue[p.node], i)]
            \/ queue' = [queue EXCEPT ![p.node] = <<>>]
        BY <2>11 DEF HandleStalePoll
      <4> QED BY <3>2, <4>1, <4>2, Zenon
    <3>4. queue' \in [Nodes -> Seq(Command)]
      BY <3>1, <3>3 DEF TypeOK
    <3> QED BY <2>11, <3>4 DEF HandleStalePoll, TypeOK, runnerVars
  <2>12. ASSUME NEW c \in issued, Expire(c) PROVE TypeOK'
    BY <2>12 DEF Expire, TypeOK, controlVars, runnerVars
  <2>13. CASE Restart
    <3>1. EndProcesses({n \in Nodes : pc[n] = "polling"})
      BY <2>13 DEF Restart
    <3>2. restarts' \in Nat /\ nodeSequences' \in [Nodes -> Nat]
      BY <2>13 DEF Restart, TypeOK
    <3>3. queue' \in [Nodes -> Seq(Command)]
      BY <2>13 DEF Restart
    <3> QED BY <2>13, <3>1, <3>2, <3>3, EndProcessesTypes DEF Restart, TypeOK
  <2>14. CASE UNCHANGED vars
    BY <2>14 DEF vars, TypeOK
  <2> QED
    BY <2>1, <2>2, <2>3, <2>4, <2>5, <2>6, <2>7, <2>8, <2>9, <2>10, <2>11,
       <2>12, <2>13, <2>14 DEF Next
<1>3. QED
  BY <1>1, <1>2, PTL DEF Spec

-----------------------------------------------------------------------------
(* A command is in one place: with its handler, in the queue of its node,  *)
(* in the hands of that node's runner, or executed.  AtMostOnce is not     *)
(* inductive by itself; this is what makes it so.                          *)

NoncesDistinct == \A c, d \in issued : c.nonce = d.nonce => c = d

InScope ==
    /\ signed \subseteq issued
    /\ \A n \in Nodes :
           /\ \A i \in DOMAIN queue[n] : queue[n][i] \in issued /\ queue[n][i].node = n
           /\ \A c \in held[n] : c \in issued /\ c.node = n
           /\ \A i \in DOMAIN executed[n] :
                  executed[n][i].command \in issued /\ executed[n][i].command.node = n

OnePlace ==
    \A n \in Nodes :
        /\ \A i \in DOMAIN queue[n] : queue[n][i] \notin signed /\ queue[n][i] \notin held[n]
        /\ \A i, j \in DOMAIN queue[n] : queue[n][i] = queue[n][j] => i = j
        /\ \A c \in held[n] : c \notin signed
        /\ \A i \in DOMAIN executed[n] :
               /\ executed[n][i].command \notin signed
               /\ executed[n][i].command \notin held[n]
               /\ \A j \in DOMAIN queue[n] : queue[n][j] # executed[n][i].command
        /\ \A i, j \in DOMAIN executed[n] :
               executed[n][i].command = executed[n][j].command => i = j

\* What a runner process remembers comes from what it executed.
Memory ==
    \A n \in Nodes :
        /\ pc[n] # "holding" => held[n] = {}
        /\ \A c \in held[n] : c.sequence > last[n]
        /\ \A r \in seen[n] :
               \E i \in DOMAIN executed[n] : executed[n][i].command.nonce = r

Located == NoncesDistinct /\ InScope /\ OnePlace /\ Memory

Suffix(q2, q1) ==
    \E k \in Nat : \A i \in DOMAIN q2 :
        i \in Nat /\ i + k \in DOMAIN q1 /\ q2[i] = q1[i + k]

\* A queue is its own suffix, the empty queue and what Rest leaves are.
LEMMA SuffixLemma ==
    ASSUME NEW S, NEW q \in Seq(S)
    PROVE  /\ Suffix(q, q)
           /\ Suffix(<<>>, q)
           /\ \A i \in DOMAIN q : Suffix(Rest(q, i), q)
<1>1. Suffix(q, q)
  <2>1. \A i \in DOMAIN q : i \in Nat /\ i + 0 \in DOMAIN q /\ q[i] = q[i + 0]
    OBVIOUS
  <2> QED BY <2>1 DEF Suffix
<1>2. Suffix(<<>>, q)
  BY DEF Suffix
<1>3. ASSUME NEW i \in DOMAIN q PROVE Suffix(Rest(q, i), q)
  <2>1. i \in Nat
    OBVIOUS
  <2>2. \A k \in DOMAIN Rest(q, i) :
            k \in Nat /\ k + i \in DOMAIN q /\ Rest(q, i)[k] = q[k + i]
    BY RestLemma
  <2> QED BY <2>1, <2>2 DEF Suffix
<1> QED BY <1>1, <1>2, <1>3

\* A step that only removes commands from their places keeps every other one
\* where it was.
LEMMA ShrinkLemma ==
    ASSUME TypeOK, InScope, OnePlace,
           issued' = issued, executed' = executed, signed' \subseteq signed,
           \A n \in Nodes : Suffix(queue'[n], queue[n]) /\ held'[n] \subseteq held[n]
    PROVE  InScope' /\ OnePlace'
<1>1. InScope'
  BY DEF InScope, Suffix
<1>2. ASSUME NEW n \in Nodes
      PROVE  \A i, j \in DOMAIN queue'[n] : queue'[n][i] = queue'[n][j] => i = j
  <2>1. PICK k \in Nat : \A i \in DOMAIN queue'[n] :
            i \in Nat /\ i + k \in DOMAIN queue[n] /\ queue'[n][i] = queue[n][i + k]
    BY DEF Suffix
  <2>2. \A i, j \in DOMAIN queue[n] : queue[n][i] = queue[n][j] => i = j
    BY DEF OnePlace
  <2> QED BY <2>1, <2>2
<1>3. OnePlace'
  BY <1>2 DEF OnePlace, Suffix
<1> QED BY <1>1, <1>3

\* Signing puts a new command, under a new nonce, with its handler.
LEMMA SignLocated ==
    ASSUME TypeOK, Located, NEW r \in Nonces, NEW n \in Nodes, Sign(r, n)
    PROVE  Located'
<1> DEFINE c == [nonce |-> r, node |-> n, sequence |-> NextSequence(n)]
<1>1. /\ issued' = issued \cup {c} /\ signed' = signed \cup {c}
      /\ \A d \in issued : d.nonce # r
      /\ queue' = queue /\ held' = held /\ executed' = executed
      /\ pc' = pc /\ last' = last /\ seen' = seen
  BY DEF Sign, runnerVars
<1>2. c.nonce = r /\ c \notin issued
  BY <1>1
<1> HIDE DEF c
<1>3. NoncesDistinct'
  BY <1>1, <1>2 DEF NoncesDistinct, Located
<1>4. InScope'
  BY <1>1 DEF InScope, Located
<1>5. OnePlace'
  BY <1>1, <1>2 DEF InScope, OnePlace, Located
<1>6. Memory'
  BY <1>1 DEF Memory, Located
<1> QED BY <1>3, <1>4, <1>5, <1>6 DEF Located

\* Enqueueing moves the command from its handler to the end of the queue.
LEMMA EnqueueLocated ==
    ASSUME TypeOK, Located, NEW c \in signed, Enqueue(c)
    PROVE  Located'
<1>1. /\ signed' = signed \ {c} /\ issued' = issued
      /\ queue' = [queue EXCEPT ![c.node] = Append(queue[c.node], c)]
      /\ held' = held /\ executed' = executed
      /\ pc' = pc /\ last' = last /\ seen' = seen
  BY DEF Enqueue, runnerVars
<1>2. c \in Command /\ c.node \in Nodes /\ c \in issued /\ queue[c.node] \in Seq(Command)
  BY DEF TypeOK, Command, InScope, Located
<1>3. /\ queue'[c.node] = Append(queue[c.node], c)
      /\ \A m \in Nodes : m # c.node => queue'[m] = queue[m]
  BY <1>1, <1>2 DEF TypeOK
<1>4. /\ \A i \in DOMAIN queue'[c.node] :
             \/ i \in DOMAIN queue[c.node] /\ queue'[c.node][i] = queue[c.node][i]
             \/ i = Len(queue[c.node]) + 1 /\ queue'[c.node][i] = c
  BY <1>2, <1>3, AppendLemma
<1>5. NoncesDistinct'
  BY <1>1 DEF NoncesDistinct, Located
<1>6. InScope'
  BY <1>1, <1>2, <1>3, <1>4 DEF InScope, Located
<1>7. \A m \in Nodes : \A i, j \in DOMAIN queue'[m] : queue'[m][i] = queue'[m][j] => i = j
  <2>1. \A i, j \in DOMAIN queue[c.node] : queue[c.node][i] = queue[c.node][j] => i = j
    BY <1>2 DEF OnePlace, Located
  <2>2. \A i \in DOMAIN queue[c.node] : queue[c.node][i] # c
    BY <1>2 DEF OnePlace, Located
  <2>3. \A i, j \in DOMAIN queue'[c.node] : queue'[c.node][i] = queue'[c.node][j] => i = j
    BY <1>4, <2>1, <2>2
  <2> QED BY <1>3, <2>3 DEF OnePlace, Located
<1>8. OnePlace'
  BY <1>1, <1>2, <1>3, <1>4, <1>7 DEF OnePlace, InScope, Located
<1>9. Memory'
  BY <1>1 DEF Memory, Located
<1> QED BY <1>5, <1>6, <1>8, <1>9 DEF Located

\* A poll moves one command from the queue to the runner.
LEMMA DeliverLocated ==
    ASSUME TypeOK, Located, NEW n \in Nodes, Deliver(n)
    PROVE  Located'
<1>1. PICK i \in DOMAIN queue[n] :
          /\ queue[n][i].sequence > last[n]
          /\ held' = [held EXCEPT ![n] = {queue[n][i]}]
          /\ queue' = [queue EXCEPT ![n] = Rest(queue[n], i)]
  BY DEF Deliver, FirstFresh
<1>2. /\ issued' = issued /\ signed' = signed /\ executed' = executed
      /\ last' = last /\ seen' = seen /\ pc' = [pc EXCEPT ![n] = "holding"]
  BY DEF Deliver
<1>3. queue[n] \in Seq(Command)
  BY DEF TypeOK
<1>4. \A k \in DOMAIN Rest(queue[n], i) :
          k \in Nat /\ k > 0 /\ k + i \in DOMAIN queue[n] /\ Rest(queue[n], i)[k] = queue[n][k + i]
  BY <1>3, RestLemma
<1>5. /\ queue'[n] = Rest(queue[n], i) /\ held'[n] = {queue[n][i]} /\ pc'[n] = "holding"
      /\ \A m \in Nodes : m # n => queue'[m] = queue[m] /\ held'[m] = held[m] /\ pc'[m] = pc[m]
  BY <1>1, <1>2 DEF TypeOK
<1>6. i \in Nat
  BY <1>3
<1>7. NoncesDistinct'
  BY <1>2 DEF NoncesDistinct, Located
<1>8. InScope'
  BY <1>2, <1>4, <1>5 DEF InScope, Located
<1>9. \A k \in DOMAIN queue'[n] : queue'[n][k] # queue[n][i]
  BY <1>4, <1>5, <1>6 DEF OnePlace, Located
<1>10. \A k, l \in DOMAIN queue'[n] : queue'[n][k] = queue'[n][l] => k = l
  BY <1>4, <1>5, <1>6 DEF OnePlace, Located
<1>11. OnePlace'
  BY <1>2, <1>4, <1>5, <1>9, <1>10 DEF OnePlace, Located
<1>12. Memory'
  BY <1>1, <1>2, <1>5 DEF Memory, Located
<1> QED BY <1>7, <1>8, <1>11, <1>12 DEF Located

\* Executing moves the command from the runner's hands to its history.
LEMMA ApplyLocated ==
    ASSUME TypeOK, Located, NEW n \in Nodes, Apply(n)
    PROVE  Located'
<1>1. PICK c \in held[n] :
          /\ seen' = [seen EXCEPT ![n] = @ \cup {c.nonce}]
          /\ executed' = [executed EXCEPT ![n] =
                            Append(executed[n], [command |-> c, session |-> session[n]])]
  BY DEF Apply
<1>2. /\ issued' = issued /\ signed' = signed /\ queue' = queue
      /\ held' = [held EXCEPT ![n] = {}]
      /\ pc' = [pc EXCEPT ![n] = "idle"]
  BY DEF Apply, controlVars
<1>3. /\ [command |-> c, session |-> session[n]] \in Execution
      /\ executed[n] \in Seq(Execution)
  BY DEF TypeOK, Execution
<1>4. /\ executed'[n] = Append(executed[n], [command |-> c, session |-> session[n]])
      /\ seen'[n] = seen[n] \cup {c.nonce}
      /\ held'[n] = {} /\ pc'[n] = "idle"
      /\ \A m \in Nodes : m # n => /\ executed'[m] = executed[m] /\ held'[m] = held[m]
                                   /\ seen'[m] = seen[m] /\ pc'[m] = pc[m]
  BY <1>1, <1>2 DEF TypeOK
<1>5. \A k \in DOMAIN executed'[n] :
          \/ k \in DOMAIN executed[n] /\ executed'[n][k] = executed[n][k]
          \/ k = Len(executed[n]) + 1 /\ executed'[n][k].command = c
  BY <1>3, <1>4, AppendLemma
<1>6. /\ \A k \in DOMAIN executed[n] : k \in DOMAIN executed'[n] /\ executed'[n][k] = executed[n][k]
      /\ Len(executed[n]) + 1 \in DOMAIN executed'[n]
      /\ executed'[n][Len(executed[n]) + 1].command = c
  BY <1>3, <1>4, AppendLemma
<1>7. c \in issued /\ c.node = n
  BY DEF InScope, Located
<1>8. NoncesDistinct'
  BY <1>2 DEF NoncesDistinct, Located
<1>9. InScope'
  BY <1>2, <1>4, <1>5, <1>7 DEF InScope, Located
<1>10. \A k, l \in DOMAIN executed'[n] :
           executed'[n][k].command = executed'[n][l].command => k = l
  BY <1>5 DEF OnePlace, Located
<1>11. OnePlace'
  <2> DEFINE Cmd(m, k) == executed'[m][k].command
  <2>1. \A k \in DOMAIN executed'[n] :
            Cmd(n, k) \notin signed /\ \A j \in DOMAIN queue[n] : queue[n][j] # Cmd(n, k)
    BY <1>5 DEF OnePlace, Located
  <2>2. ASSUME NEW m \in Nodes, m # n
        PROVE  /\ \A k \in DOMAIN executed'[m] :
                      /\ Cmd(m, k) \notin signed /\ Cmd(m, k) \notin held'[m]
                      /\ \A j \in DOMAIN queue[m] : queue[m][j] # Cmd(m, k)
               /\ \A k, l \in DOMAIN executed'[m] : Cmd(m, k) = Cmd(m, l) => k = l
    BY <1>4, <2>2 DEF OnePlace, Located
  <2>3. \A m \in Nodes : held'[m] \subseteq held[m]
    BY <1>4
  <2> HIDE DEF Cmd
  <2>4. \A m \in Nodes :
           /\ \A i \in DOMAIN queue[m] : queue[m][i] \notin signed /\ queue[m][i] \notin held'[m]
           /\ \A i, j \in DOMAIN queue[m] : queue[m][i] = queue[m][j] => i = j
           /\ \A d \in held'[m] : d \notin signed
    BY <2>3 DEF OnePlace, Located
  <2>5. \A m \in Nodes :
           /\ \A k \in DOMAIN executed'[m] :
                  /\ Cmd(m, k) \notin signed /\ Cmd(m, k) \notin held'[m]
                  /\ \A j \in DOMAIN queue[m] : queue[m][j] # Cmd(m, k)
           /\ \A k, l \in DOMAIN executed'[m] : Cmd(m, k) = Cmd(m, l) => k = l
    <3>1. \A k, l \in DOMAIN executed'[n] : Cmd(n, k) = Cmd(n, l) => k = l
      BY <1>10 DEF Cmd
    <3> QED BY <1>4, <2>1, <2>2, <3>1
  <2> QED BY <1>2, <2>4, <2>5 DEF OnePlace, Cmd
<1>12. Memory'
  <2>1. \A m \in Nodes : pc'[m] # "holding" => held'[m] = {}
    BY <1>4 DEF Memory, Located
  <2>2. \A m \in Nodes : \A d \in held'[m] : d.sequence > last'[m]
    <3>1. \A m \in Nodes : m # n => last'[m] = last[m]
      BY DEF Apply, Accepted, TypeOK
    <3> QED BY <1>4, <3>1 DEF Memory, Located
  <2>3. \A m \in Nodes : \A r \in seen'[m] :
            \E k \in DOMAIN executed'[m] : executed'[m][k].command.nonce = r
    <3>1. ASSUME NEW r \in seen'[n]
          PROVE  \E k \in DOMAIN executed'[n] : executed'[n][k].command.nonce = r
      <4>1. CASE r \in seen[n]
        <5>1. PICK k \in DOMAIN executed[n] : executed[n][k].command.nonce = r
          BY <4>1 DEF Memory, Located
        <5> QED BY <1>6, <5>1
      <4>2. CASE r = c.nonce
        BY <1>6, <4>2
      <4> QED BY <1>4, <4>1, <4>2
    <3> QED BY <1>4, <3>1 DEF Memory, Located
  <2> QED BY <2>1, <2>2, <2>3 DEF Memory
<1> QED BY <1>8, <1>9, <1>11, <1>12 DEF Located

\* The steps that move no command forward: they only drop some.
LEMMA DropLocated ==
    ASSUME TypeOK, Located,
           issued' = issued, executed' = executed, signed' \subseteq signed,
           \A n \in Nodes : Suffix(queue'[n], queue[n]),
           \A n \in Nodes :
               \/ held'[n] = {} /\ seen'[n] \subseteq seen[n]
               \/ /\ held'[n] = held[n] /\ last'[n] = last[n]
                  /\ seen'[n] = seen[n] /\ pc'[n] = pc[n]
    PROVE  Located'
<1>1. InScope' /\ OnePlace'
  BY ShrinkLemma DEF Located
<1>2. NoncesDistinct'
  BY DEF NoncesDistinct, Located
<1>3. Memory'
  BY DEF Memory, Located
<1> QED BY <1>1, <1>2, <1>3 DEF Located

\* The processes that end hold nothing and remember nothing.
LEMMA EndProcessesMemory ==
    ASSUME TypeOK, NEW S, EndProcesses(S)
    PROVE  /\ executed' = executed
           /\ \A n \in Nodes :
               \/ held'[n] = {} /\ seen'[n] \subseteq seen[n]
               \/ /\ held'[n] = held[n] /\ last'[n] = last[n]
                  /\ seen'[n] = seen[n] /\ pc'[n] = pc[n]
<1>1. executed' = executed
  BY DEF EndProcesses
<1>2. \A n \in Nodes : n \in S => held'[n] = {} /\ seen'[n] = {}
  BY DEF EndProcesses
<1>3. \A n \in Nodes : n \notin S => /\ held'[n] = held[n] /\ last'[n] = last[n]
                                     /\ seen'[n] = seen[n] /\ pc'[n] = pc[n]
  BY DEF EndProcesses
<1> QED BY <1>1, <1>2, <1>3

\* Every step of the delivery path keeps each command in one place.
LEMMA LocatedStep == TypeOK /\ Located /\ [Next]_vars => Located'
<1> SUFFICES ASSUME TypeOK, Located, [Next]_vars PROVE Located'
  OBVIOUS
<1>0. \A n \in Nodes : Suffix(queue[n], queue[n])
  BY SuffixLemma DEF TypeOK
<1>1. ASSUME NEW r \in Nonces, NEW n \in Nodes, Sign(r, n) PROVE Located'
  BY <1>1, SignLocated
<1>2. ASSUME NEW c \in signed, Enqueue(c) PROVE Located'
  BY <1>2, EnqueueLocated
<1>3. ASSUME NEW c \in signed, Abort(c) PROVE Located'
  <2>1. /\ issued' = issued /\ executed' = executed /\ signed' \subseteq signed
        /\ queue' = queue /\ held' = held /\ last' = last /\ seen' = seen /\ pc' = pc
    BY <1>3 DEF Abort, runnerVars
  <2> QED BY <1>0, <2>1, DropLocated
<1>4. ASSUME NEW n \in Nodes, Start(n) PROVE Located'
  <2>1. /\ issued' = issued /\ executed' = executed /\ signed' = signed
        /\ queue' = queue /\ held' = held /\ last' = last /\ seen' = seen
        /\ pc' = [pc EXCEPT ![n] = "idle"] /\ pc[n] = "down"
    BY <1>4 DEF Start, controlVars
  <2>2. held[n] = {}
    BY <2>1 DEF Memory, Located
  <2>3. \A m \in Nodes : m # n => pc'[m] = pc[m]
    BY <2>1 DEF TypeOK
  <2> QED BY <1>0, <2>1, <2>2, <2>3, DropLocated
<1>5. ASSUME NEW n \in Nodes, SendPoll(n) PROVE Located'
  <2>1. /\ issued' = issued /\ executed' = executed /\ signed' = signed
        /\ queue' = queue /\ held' = held /\ last' = last /\ seen' = seen
        /\ pc' = [pc EXCEPT ![n] = "polling"] /\ pc[n] = "idle"
    BY <1>5 DEF SendPoll, controlVars
  <2>2. held[n] = {}
    BY <2>1 DEF Memory, Located
  <2>3. \A m \in Nodes : m # n => pc'[m] = pc[m]
    BY <2>1 DEF TypeOK
  <2> QED BY <1>0, <2>1, <2>2, <2>3, DropLocated
<1>6. ASSUME NEW n \in Nodes, Deliver(n) PROVE Located'
  BY <1>6, DeliverLocated
<1>7. ASSUME NEW n \in Nodes, DeliverNothing(n) PROVE Located'
  <2>1. /\ issued' = issued /\ executed' = executed /\ signed' = signed
        /\ queue' = [queue EXCEPT ![n] = <<>>]
        /\ held' = held /\ last' = last /\ seen' = seen
        /\ pc' = [pc EXCEPT ![n] = "idle"] /\ pc[n] = "polling"
    BY <1>7 DEF DeliverNothing
  <2>2. held[n] = {}
    BY <2>1 DEF Memory, Located
  <2>3. \A m \in Nodes : m # n => pc'[m] = pc[m] /\ queue'[m] = queue[m]
    BY <2>1 DEF TypeOK
  <2>4. Suffix(queue'[n], queue[n])
    BY <2>1, SuffixLemma DEF TypeOK
  <2> QED BY <1>0, <2>1, <2>2, <2>3, <2>4, DropLocated
<1>8. ASSUME NEW n \in Nodes, Apply(n) PROVE Located'
  BY <1>8, ApplyLocated
<1>9. ASSUME NEW n \in Nodes, Reject(n) PROVE Located'
  <2>1. /\ issued' = issued /\ signed' = signed /\ queue' = queue /\ EndProcesses({n})
    BY <1>9 DEF Reject, controlVars
  <2> QED BY <1>0, <2>1, EndProcessesMemory, DropLocated
<1>10. ASSUME NEW n \in Nodes, Exit(n) PROVE Located'
  <2>1. /\ issued' = issued /\ signed' = signed /\ queue' = queue /\ EndProcesses({n})
    BY <1>10 DEF Exit, controlVars
  <2> QED BY <1>0, <2>1, EndProcessesMemory, DropLocated
<1>11. ASSUME NEW p \in stalePolls, HandleStalePoll(p) PROVE Located'
  <2>1. /\ issued' = issued /\ executed' = executed /\ signed' = signed
        /\ held' = held /\ last' = last /\ seen' = seen /\ pc' = pc
    BY <1>11 DEF HandleStalePoll, runnerVars
  <2>2. p.node \in Nodes /\ queue[p.node] \in Seq(Command)
    BY DEF TypeOK
  <2>3. \/ \E i \in DOMAIN queue[p.node] :
               queue' = [queue EXCEPT ![p.node] = Rest(queue[p.node], i)]
        \/ queue' = [queue EXCEPT ![p.node] = <<>>]
    BY <1>11 DEF HandleStalePoll
  <2>4. \A m \in Nodes : m # p.node => queue'[m] = queue[m]
    BY <2>2, <2>3 DEF TypeOK
  <2>5. \/ \E i \in DOMAIN queue[p.node] : queue'[p.node] = Rest(queue[p.node], i)
        \/ queue'[p.node] = <<>>
    BY <2>2, <2>3 DEF TypeOK
  <2>6. Suffix(queue'[p.node], queue[p.node])
    BY <2>2, <2>5, SuffixLemma
  <2>7. \A m \in Nodes : Suffix(queue'[m], queue[m])
    BY <1>0, <2>4, <2>6
  <2> QED BY <2>1, <2>7, DropLocated
<1>12. ASSUME NEW c \in issued, Expire(c) PROVE Located'
  <2>1. /\ issued' = issued /\ executed' = executed /\ signed' = signed
        /\ queue' = queue /\ held' = held /\ last' = last /\ seen' = seen /\ pc' = pc
    BY <1>12 DEF Expire, controlVars, runnerVars
  <2> QED BY <1>0, <2>1, DropLocated
<1>13. CASE Restart
  <2>1. /\ issued' = issued /\ signed' \subseteq signed
        /\ queue' = [n \in Nodes |-> <<>>]
        /\ EndProcesses({n \in Nodes : pc[n] = "polling"})
    BY <1>13 DEF Restart
  <2>2. \A n \in Nodes : Suffix(queue'[n], queue[n])
    BY <2>1, SuffixLemma DEF TypeOK
  <2> QED BY <2>1, <2>2, EndProcessesMemory, DropLocated
<1>14. CASE UNCHANGED vars
  <2>1. /\ issued' = issued /\ executed' = executed /\ signed' = signed
        /\ queue' = queue /\ held' = held /\ last' = last /\ seen' = seen /\ pc' = pc
    BY <1>14 DEF vars
  <2> QED BY <1>0, <2>1, DropLocated
<1> QED
  BY <1>1, <1>2, <1>3, <1>4, <1>5, <1>6, <1>7, <1>8, <1>9, <1>10, <1>11,
     <1>12, <1>13, <1>14 DEF Next

\* Every command is in one place, always.
LEMMA AlwaysLocated == Spec => []Located
<1>1. Init => Located
  BY DEF Init, Located, NoncesDistinct, InScope, OnePlace, Memory
<1>2. QED
  BY <1>1, LocatedStep, TypeCorrect, PTL DEF Spec

\* A signed command is executed at most once whatever restarts, lost polls and
\* cancelled handlers happen: what next_runner_command pops is in no queue.
THEOREM AtMostOnceHolds == Spec => []AtMostOnce
<1>1. Located => AtMostOnce
  <2> SUFFICES ASSUME Located, NEW m \in Nodes, NEW n \in Nodes,
                      NEW i \in DOMAIN executed[m], NEW j \in DOMAIN executed[n],
                      executed[m][i].command.nonce = executed[n][j].command.nonce
               PROVE  m = n /\ i = j
    BY DEF AtMostOnce
  <2>1. executed[m][i].command = executed[n][j].command
    BY DEF Located, InScope, NoncesDistinct
  <2>2. m = n
    BY <2>1 DEF Located, InScope
  <2> QED BY <2>1, <2>2 DEF Located, OnePlace
<1>2. QED
  BY <1>1, AlwaysLocated, PTL

\* A runner can reject a command of this control plane only because its TTL
\* has passed: verify's scope, sequence and nonce checks always succeed.
THEOREM OnlyExpiryRejectsHolds == Spec => []OnlyExpiryRejects
<1>1. Located => OnlyExpiryRejects
  <2> SUFFICES ASSUME Located, NEW n \in Nodes, NEW c \in held[n]
               PROVE  c.node = n /\ c.sequence > last[n] /\ c.nonce \notin seen[n]
    BY DEF OnlyExpiryRejects
  <2>1. c.node = n /\ c \in issued /\ c.sequence > last[n]
    BY DEF Located, InScope, Memory
  <2>2. ASSUME c.nonce \in seen[n] PROVE FALSE
    <3>1. PICK i \in DOMAIN executed[n] : executed[n][i].command.nonce = c.nonce
      BY <2>2 DEF Located, Memory
    <3>2. executed[n][i].command = c
      BY <2>1, <3>1 DEF Located, InScope, NoncesDistinct
    <3> QED BY <3>2 DEF Located, OnePlace
  <2> QED BY <2>1, <2>2
<1>2. QED
  BY <1>1, AlwaysLocated, PTL

-----------------------------------------------------------------------------
(* The order of execution inside one runner process.                       *)

\* A process that is up has executed nothing above its last_sequence.
SessionInv ==
    \A n \in Nodes :
        /\ \A i \in DOMAIN executed[n] : executed[n][i].session <= session[n]
        /\ pc[n] # "down" =>
               \A i \in DOMAIN executed[n] :
                   executed[n][i].session = session[n]
                       => executed[n][i].command.sequence <= last[n]

\* The elements of a sequence are of its element type.
LEMMA ElementLemma ==
    ASSUME NEW S, NEW q \in Seq(S), NEW i \in DOMAIN q
    PROVE  q[i] \in S
  OBVIOUS

\* What the fields of an execution record are.
LEMMA ExecutedTypes ==
    ASSUME TypeOK, NEW n \in Nodes, NEW i \in DOMAIN executed[n]
    PROVE  /\ executed[n][i].session \in Nat
           /\ executed[n][i].command \in Command
           /\ executed[n][i].command.sequence \in Nat
<1>1. executed[n][i] \in Execution
  BY ElementLemma DEF TypeOK
<1>2. executed[n][i].session \in Nat /\ executed[n][i].command \in Command
  BY <1>1 DEF Execution
<1> QED BY <1>2 DEF Command

\* A step that executes nothing and starts no process keeps the order.
LEMMA QuietSession ==
    ASSUME SessionInv, SessionOrder, executed' = executed, session' = session,
           \A n \in Nodes : pc'[n] = "down" \/ (pc[n] # "down" /\ last'[n] = last[n])
    PROVE  SessionInv' /\ SessionOrder'
  BY DEF SessionInv, SessionOrder

\* Every process that ends goes down, every other one stays as it is.
LEMMA EndProcessesSession ==
    ASSUME TypeOK, NEW S, EndProcesses(S)
    PROVE  /\ executed' = executed /\ session' = session
           /\ \A n \in Nodes :
                  pc'[n] = "down" \/ (pc'[n] = pc[n] /\ last'[n] = last[n])
<1>1. executed' = executed /\ session' = session
  BY DEF EndProcesses
<1>2. \A n \in Nodes : n \in S => pc'[n] = "down"
  BY DEF EndProcesses
<1>3. \A n \in Nodes : n \notin S => pc'[n] = pc[n] /\ last'[n] = last[n]
  BY DEF EndProcesses
<1> QED BY <1>1, <1>2, <1>3

\* Executing a fresh command extends the process's increasing run.
LEMMA ApplySession ==
    ASSUME TypeOK, SessionInv, SessionOrder, NEW n \in Nodes, Apply(n)
    PROVE  SessionInv' /\ SessionOrder'
<1>1. PICK c \in held[n] :
          /\ c.sequence > last[n]
          /\ last' = [last EXCEPT ![n] = c.sequence]
          /\ executed' = [executed EXCEPT ![n] =
                            Append(executed[n], [command |-> c, session |-> session[n]])]
  BY DEF Apply, Verify, Accepted
<1>2. pc[n] = "holding" /\ pc' = [pc EXCEPT ![n] = "idle"] /\ session' = session
  BY DEF Apply
<1>3. /\ [command |-> c, session |-> session[n]] \in Execution
      /\ executed[n] \in Seq(Execution)
      /\ c.sequence \in Nat /\ last[n] \in Nat /\ session[n] \in Nat
  <2>1. c \in Command /\ last[n] \in Nat /\ session[n] \in Nat
    BY DEF TypeOK
  <2>2. c.sequence \in Nat
    BY <2>1 DEF Command
  <2> QED BY <2>1, <2>2 DEF TypeOK, Execution
<1>4. /\ executed'[n] = Append(executed[n], [command |-> c, session |-> session[n]])
      /\ last'[n] = c.sequence /\ pc'[n] = "idle"
      /\ \A m \in Nodes : m # n => /\ executed'[m] = executed[m]
                                   /\ last'[m] = last[m] /\ pc'[m] = pc[m]
  BY <1>1, <1>2 DEF TypeOK
<1>5. /\ DOMAIN executed'[n] = 1 .. (Len(executed[n]) + 1)
      /\ DOMAIN executed[n] = 1 .. Len(executed[n])
      /\ Len(executed[n]) \in Nat
      /\ \A i \in DOMAIN executed[n] : executed'[n][i] = executed[n][i]
      /\ executed'[n][Len(executed[n]) + 1].command = c
      /\ executed'[n][Len(executed[n]) + 1].session = session[n]
  BY <1>3, <1>4, AppendLemma
<1>6. \A i \in DOMAIN executed[n] :
          /\ executed[n][i].session \in Nat
          /\ executed[n][i].command.sequence \in Nat
          /\ executed[n][i].session <= session[n]
          /\ executed[n][i].session = session[n]
                 => executed[n][i].command.sequence < c.sequence
  <2>1. \A i \in DOMAIN executed[n] :
            executed[n][i].session \in Nat /\ executed[n][i].command.sequence \in Nat
    BY ExecutedTypes
  <2>2. \A i \in DOMAIN executed[n] :
            /\ executed[n][i].session <= session[n]
            /\ executed[n][i].session = session[n]
                   => executed[n][i].command.sequence <= last[n]
    BY <1>2 DEF SessionInv
  <2> QED BY <1>1, <1>3, <2>1, <2>2
<1>7. ASSUME NEW i \in DOMAIN executed'[n]
      PROVE  /\ executed'[n][i].session <= session[n]
             /\ executed'[n][i].session = session[n]
                    => executed'[n][i].command.sequence <= c.sequence
  <2>1. CASE i \in DOMAIN executed[n]
    <3>1. executed'[n][i] = executed[n][i]
      BY <1>5, <2>1
    <3> QED BY <1>3, <1>6, <2>1, <3>1
  <2>2. CASE i = Len(executed[n]) + 1
    <3>1. executed'[n][i].session = session[n] /\ executed'[n][i].command.sequence = c.sequence
      BY <1>5, <2>2
    <3> QED BY <1>3, <3>1
  <2> QED BY <1>5, <2>1, <2>2
<1>8. SessionInv'
  BY <1>2, <1>4, <1>7 DEF SessionInv
<1>9. ASSUME NEW i \in DOMAIN executed'[n], NEW j \in DOMAIN executed'[n], i < j,
             executed'[n][i].session = executed'[n][j].session
      PROVE  executed'[n][i].command.sequence < executed'[n][j].command.sequence
  <2>1. CASE j = Len(executed[n]) + 1
    BY <1>5, <1>6, <1>9, <2>1
  <2>2. CASE j # Len(executed[n]) + 1
    <3>1. i \in DOMAIN executed[n] /\ j \in DOMAIN executed[n]
      BY <1>5, <1>9, <2>2
    <3> QED BY <1>5, <1>9, <3>1 DEF SessionOrder
  <2> QED BY <2>1, <2>2
<1>10. SessionOrder'
  BY <1>4, <1>9 DEF SessionOrder
<1> QED BY <1>8, <1>10

\* Every step keeps the order inside each runner process.
LEMMA SessionStep ==
    TypeOK /\ SessionInv /\ SessionOrder /\ [Next]_vars => SessionInv' /\ SessionOrder'
<1> SUFFICES ASSUME TypeOK, SessionInv, SessionOrder, [Next]_vars
             PROVE  SessionInv' /\ SessionOrder'
  OBVIOUS
<1> DEFINE Quiet == /\ executed' = executed /\ session' = session
                    /\ \A n \in Nodes :
                           pc'[n] = "down" \/ (pc[n] # "down" /\ last'[n] = last[n])
           Same == /\ executed' = executed /\ session' = session
                   /\ \A n \in Nodes :
                          pc'[n] = "down" \/ (pc'[n] = pc[n] /\ last'[n] = last[n])
           Goal == SessionInv' /\ SessionOrder'
<1>1. Same => Goal
  BY QuietSession
<1>2. UNCHANGED runnerVars => Same
  BY DEF runnerVars
<1>3. ASSUME NEW n \in Nodes, Start(n) PROVE Goal
  <2>1. /\ session' = [session EXCEPT ![n] = @ + 1] /\ executed' = executed /\ last' = last
        /\ pc' = [pc EXCEPT ![n] = "idle"]
    BY <1>3 DEF Start
  <2>2. SessionOrder'
    BY <2>1 DEF SessionOrder
  <2>3. /\ session'[n] = session[n] + 1 /\ session[n] \in Nat
        /\ \A m \in Nodes : m # n => session'[m] = session[m] /\ pc'[m] = pc[m]
    BY <2>1 DEF TypeOK
  <2>4. \A i \in DOMAIN executed[n] : executed[n][i].session \in Nat
    BY ExecutedTypes
  <2>5. \A i \in DOMAIN executed[n] :
            executed[n][i].session <= session'[n] /\ executed[n][i].session # session'[n]
    BY <2>3, <2>4 DEF SessionInv
  <2>6. SessionInv'
    BY <2>1, <2>3, <2>5 DEF SessionInv
  <2> QED BY <2>2, <2>6
<1>4. ASSUME NEW n \in Nodes, SendPoll(n) PROVE Goal
  <2>1. Quiet
    BY <1>4 DEF SendPoll, TypeOK
  <2> QED BY <2>1, QuietSession
<1>5. ASSUME NEW n \in Nodes, Deliver(n) PROVE Goal
  <2>1. Quiet
    BY <1>5 DEF Deliver, TypeOK
  <2> QED BY <2>1, QuietSession
<1>6. ASSUME NEW n \in Nodes, DeliverNothing(n) PROVE Goal
  <2>1. Quiet
    BY <1>6 DEF DeliverNothing, TypeOK
  <2> QED BY <2>1, QuietSession
<1>7. ASSUME NEW n \in Nodes, Apply(n) PROVE Goal
  BY <1>7, ApplySession
<1>8. ASSUME NEW n \in Nodes, Reject(n) PROVE Goal
  BY <1>1, <1>8, EndProcessesSession DEF Reject
<1>9. ASSUME NEW n \in Nodes, Exit(n) PROVE Goal
  BY <1>1, <1>9, EndProcessesSession DEF Exit
<1>10. CASE Restart
  BY <1>1, <1>10, EndProcessesSession DEF Restart
<1>11. ASSUME NEW r \in Nonces, NEW n \in Nodes, Sign(r, n) PROVE Goal
  BY <1>1, <1>2, <1>11 DEF Sign
<1>12. ASSUME NEW c \in signed, Enqueue(c) PROVE Goal
  BY <1>1, <1>2, <1>12 DEF Enqueue
<1>13. ASSUME NEW c \in signed, Abort(c) PROVE Goal
  BY <1>1, <1>2, <1>13 DEF Abort
<1>14. ASSUME NEW p \in stalePolls, HandleStalePoll(p) PROVE Goal
  BY <1>1, <1>2, <1>14 DEF HandleStalePoll
<1>15. ASSUME NEW c \in issued, Expire(c) PROVE Goal
  BY <1>1, <1>2, <1>15 DEF Expire
<1>16. CASE UNCHANGED vars
  BY <1>1, <1>2, <1>16 DEF vars, runnerVars
<1> QED
  BY <1>3, <1>4, <1>5, <1>6, <1>7, <1>8, <1>9, <1>10, <1>11, <1>12, <1>13,
     <1>14, <1>15, <1>16 DEF Next

\* One runner process executes commands in strictly increasing sequence,
\* whatever order concurrent handlers enqueue them in.
THEOREM SessionOrderHolds == Spec => []SessionOrder
<1>1. Init => SessionInv /\ SessionOrder
  BY DEF Init, SessionInv, SessionOrder
<1>2. QED
  BY <1>1, SessionStep, TypeCorrect, PTL DEF Spec

-----------------------------------------------------------------------------
(* Sequence numbers of the commands still to be delivered.                 *)

\* next_sequence is at least every number it has drawn since it started, and
\* no two handlers hold the same number for one node.
PendingInv ==
    /\ \A n \in Nodes : \A i \in DOMAIN queue[n] : queue[n][i].sequence <= nodeSequences[n]
    /\ \A c \in signed : c.sequence <= nodeSequences[c.node]
    /\ \A c, d \in signed : c.node = d.node /\ c.sequence = d.sequence => c = d
    /\ PendingDistinct

\* Removing commands from handlers and queues keeps the rest distinct.
LEMMA DropPending ==
    ASSUME TypeOK, PendingInv, signed' \subseteq signed, nodeSequences' = nodeSequences,
           \A n \in Nodes : Suffix(queue'[n], queue[n])
    PROVE  PendingInv'
<1>1. \A n \in Nodes : \A i \in DOMAIN queue'[n] :
          \E j \in DOMAIN queue[n] : queue'[n][i] = queue[n][j]
  BY DEF Suffix
<1>2. ASSUME NEW n \in Nodes, NEW i \in DOMAIN queue'[n], NEW j \in DOMAIN queue'[n],
             queue'[n][i].sequence = queue'[n][j].sequence
      PROVE  i = j
  <2>1. PICK k \in Nat : \A l \in DOMAIN queue'[n] :
            l \in Nat /\ l + k \in DOMAIN queue[n] /\ queue'[n][l] = queue[n][l + k]
    BY DEF Suffix
  <2>2. i + k = j + k
    BY <1>2, <2>1 DEF PendingInv, PendingDistinct
  <2> QED BY <2>1, <2>2
<1>3. PendingDistinct'
  <2>1. \A n \in Nodes, c \in signed' :
            c.node = n => \A i \in DOMAIN queue'[n] : queue'[n][i].sequence # c.sequence
    BY <1>1 DEF PendingInv, PendingDistinct
  <2> QED BY <1>2, <2>1 DEF PendingDistinct
<1>4. \A n \in Nodes : \A i \in DOMAIN queue'[n] : queue'[n][i].sequence <= nodeSequences'[n]
  BY <1>1 DEF PendingInv
<1> QED BY <1>3, <1>4 DEF PendingInv

\* The number a handler draws is above every number pending for the node.
LEMMA SignPending ==
    ASSUME TypeOK, PendingInv, NEW r \in Nonces, NEW n \in Nodes, Sign(r, n)
    PROVE  PendingInv'
<1> DEFINE c == [nonce |-> r, node |-> n, sequence |-> NextSequence(n)]
<1>1. /\ signed' = signed \cup {c} /\ queue' = queue
      /\ nodeSequences' = [nodeSequences EXCEPT ![n] = NextSequence(n)]
  BY DEF Sign
<1>2. c.node = n /\ c.sequence = nodeSequences[n] + 1 /\ nodeSequences[n] \in Nat
  BY DEF NextSequence, TypeOK
<1>3. /\ nodeSequences'[n] = nodeSequences[n] + 1
      /\ \A m \in Nodes : m # n => nodeSequences'[m] = nodeSequences[m]
  BY <1>1 DEF TypeOK, NextSequence
<1>4. /\ \A m \in Nodes : \A i \in DOMAIN queue[m] : queue[m][i].sequence \in Nat
      /\ \A d \in signed : d.sequence \in Nat /\ d.node \in Nodes
  <2>1. \A m \in Nodes : \A i \in DOMAIN queue[m] : queue[m][i] \in Command
    BY ElementLemma DEF TypeOK
  <2> QED BY <2>1 DEF TypeOK, Command
<1> HIDE DEF c
<1>5. /\ \A m \in Nodes : \A i \in DOMAIN queue'[m] : queue'[m][i].sequence <= nodeSequences'[m]
      /\ \A i \in DOMAIN queue[n] : queue[n][i].sequence # c.sequence
  BY <1>1, <1>2, <1>3, <1>4 DEF PendingInv
<1>6. /\ \A d \in signed : d.sequence <= nodeSequences'[d.node]
      /\ c.sequence <= nodeSequences'[c.node]
      /\ \A d \in signed : d.node = n => d.sequence # c.sequence
  BY <1>2, <1>3, <1>4 DEF PendingInv
<1>7. PendingDistinct'
  BY <1>1, <1>2, <1>5 DEF PendingInv, PendingDistinct
<1>8. \A d, e \in signed' : d.node = e.node /\ d.sequence = e.sequence => d = e
  BY <1>1, <1>2, <1>6 DEF PendingInv
<1> QED BY <1>1, <1>5, <1>6, <1>7, <1>8 DEF PendingInv

\* Enqueueing moves a number from a handler to the queue.
LEMMA EnqueuePending ==
    ASSUME TypeOK, PendingInv, NEW c \in signed, Enqueue(c)
    PROVE  PendingInv'
<1>1. /\ signed' = signed \ {c} /\ nodeSequences' = nodeSequences
      /\ queue' = [queue EXCEPT ![c.node] = Append(queue[c.node], c)]
  BY DEF Enqueue
<1>2. c \in Command /\ c.node \in Nodes /\ queue[c.node] \in Seq(Command)
  BY DEF TypeOK, Command
<1>3. /\ queue'[c.node] = Append(queue[c.node], c)
      /\ \A m \in Nodes : m # c.node => queue'[m] = queue[m]
  BY <1>1, <1>2 DEF TypeOK
<1>4. \A i \in DOMAIN queue'[c.node] :
          \/ i \in DOMAIN queue[c.node] /\ queue'[c.node][i] = queue[c.node][i]
          \/ i = Len(queue[c.node]) + 1 /\ queue'[c.node][i] = c
  BY <1>2, <1>3, AppendLemma
<1>5. /\ \A i, j \in DOMAIN queue[c.node] :
             queue[c.node][i].sequence = queue[c.node][j].sequence => i = j
      /\ \A i \in DOMAIN queue[c.node] : queue[c.node][i].sequence # c.sequence
  BY <1>2 DEF PendingInv, PendingDistinct
<1>6. \A i, j \in DOMAIN queue'[c.node] :
          queue'[c.node][i].sequence = queue'[c.node][j].sequence => i = j
  BY <1>4, <1>5
<1>7. \A d \in signed' : d.node = c.node =>
          \A i \in DOMAIN queue'[c.node] : queue'[c.node][i].sequence # d.sequence
  BY <1>1, <1>2, <1>4 DEF PendingInv, PendingDistinct
<1>8. PendingDistinct'
  BY <1>1, <1>3, <1>6, <1>7 DEF PendingInv, PendingDistinct
<1>9. \A m \in Nodes : \A i \in DOMAIN queue'[m] : queue'[m][i].sequence <= nodeSequences'[m]
  BY <1>1, <1>3, <1>4 DEF PendingInv
<1> QED BY <1>1, <1>8, <1>9 DEF PendingInv

\* Every step keeps the pending numbers of a node distinct.
LEMMA PendingStep == TypeOK /\ PendingInv /\ [Next]_vars => PendingInv'
<1> SUFFICES ASSUME TypeOK, PendingInv, [Next]_vars PROVE PendingInv'
  OBVIOUS
<1> DEFINE Quiet == /\ signed' \subseteq signed /\ nodeSequences' = nodeSequences
                    /\ queue' = queue
<1>0. \A n \in Nodes : /\ Suffix(queue[n], queue[n]) /\ Suffix(<<>>, queue[n])
                       /\ \A i \in DOMAIN queue[n] : Suffix(Rest(queue[n], i), queue[n])
  BY SuffixLemma DEF TypeOK
<1>1. Quiet => PendingInv'
  BY <1>0, DropPending
<1>2. ASSUME NEW n \in Nodes,
             \/ \E i \in DOMAIN queue[n] : queue' = [queue EXCEPT ![n] = Rest(queue[n], i)]
             \/ queue' = [queue EXCEPT ![n] = <<>>],
             signed' = signed, nodeSequences' = nodeSequences
      PROVE  PendingInv'
  <2>1. \A m \in Nodes : m # n => queue'[m] = queue[m]
    BY <1>2 DEF TypeOK
  <2>2. \/ \E i \in DOMAIN queue[n] : queue'[n] = Rest(queue[n], i)
        \/ queue'[n] = <<>>
    BY <1>2 DEF TypeOK
  <2>3. \A m \in Nodes : Suffix(queue'[m], queue[m])
    BY <1>0, <2>1, <2>2
  <2> QED BY <1>2, <2>3, DropPending
<1>3. ASSUME NEW r \in Nonces, NEW n \in Nodes, Sign(r, n) PROVE PendingInv'
  BY <1>3, SignPending
<1>4. ASSUME NEW c \in signed, Enqueue(c) PROVE PendingInv'
  BY <1>4, EnqueuePending
<1>5. ASSUME NEW c \in signed, Abort(c) PROVE PendingInv'
  BY <1>1, <1>5 DEF Abort
<1>6. ASSUME NEW n \in Nodes, Start(n) \/ SendPoll(n) \/ Apply(n) \/ Reject(n) \/ Exit(n)
      PROVE  PendingInv'
  BY <1>1, <1>6 DEF Start, SendPoll, Apply, Reject, Exit, controlVars
<1>7. ASSUME NEW n \in Nodes, Deliver(n) PROVE PendingInv'
  BY <1>2, <1>7 DEF Deliver
<1>8. ASSUME NEW n \in Nodes, DeliverNothing(n) PROVE PendingInv'
  BY <1>2, <1>8 DEF DeliverNothing
<1>9. ASSUME NEW p \in stalePolls, HandleStalePoll(p) PROVE PendingInv'
  <2>1. p.node \in Nodes
    BY DEF TypeOK
  <2> QED BY <1>2, <1>9, <2>1 DEF HandleStalePoll
<1>10. ASSUME NEW c \in issued, Expire(c) PROVE PendingInv'
  BY <1>1, <1>10 DEF Expire, controlVars
<1>11. CASE Restart
  <2>1. signed' = {} /\ queue' = [n \in Nodes |-> <<>>]
    BY <1>11 DEF Restart
  <2> QED BY <2>1 DEF PendingInv, PendingDistinct
<1>12. CASE UNCHANGED vars
  BY <1>1, <1>12 DEF vars
<1> QED
  BY <1>3, <1>4, <1>5, <1>6, <1>7, <1>8, <1>9, <1>10, <1>11, <1>12 DEF Next

\* Two commands still to be delivered to one node never carry one number, for
\* any number of concurrent handlers and restarts of the in-memory control plane.
THEOREM PendingDistinctHolds == Spec => []PendingDistinct
<1>1. Init => PendingInv
  BY DEF Init, PendingInv, PendingDistinct
<1>2. PendingInv => PendingDistinct
  BY DEF PendingInv
<1>3. QED
  BY <1>1, <1>2, PendingStep, TypeCorrect, PTL DEF Spec

-----------------------------------------------------------------------------
(* The delivery path implements the abstract channel.                      *)

\* A step that signs, executes and forgets nothing is invisible in the channel.
LEMMA Invisible ==
    ASSUME issued' = issued, executed' = executed, last' = last
    PROVE  UNCHANGED Channel!vars
  BY DEF Channel!vars, AllExecuted, ExecutedCommands

\* Ending runner processes is the channel's Forget.
LEMMA EndProcessesForget ==
    ASSUME TypeOK, NEW S \in SUBSET Nodes, EndProcesses(S), issued' = issued
    PROVE  Channel!Next
<1>1. last' = [n \in Nodes |-> IF n \in S THEN 0 ELSE last[n]] /\ executed' = executed
  BY DEF EndProcesses
<1>2. AllExecuted' = AllExecuted
  BY <1>1 DEF AllExecuted, ExecutedCommands
<1>3. Channel!Forget(S)
  BY <1>1, <1>2 DEF Channel!Forget
<1> QED BY <1>3 DEF Channel!Next

\* Signing is the channel's Issue: the command is new and so is its nonce.
LEMMA SignIssues ==
    ASSUME TypeOK, NEW r \in Nonces, NEW n \in Nodes, Sign(r, n)
    PROVE  Channel!Next
<1> DEFINE c == [nonce |-> r, node |-> n, sequence |-> NextSequence(n)]
<1>1. /\ issued' = issued \cup {c} /\ \A d \in issued : d.nonce # r
      /\ executed' = executed /\ last' = last
  BY DEF Sign, runnerVars
<1>2. c \in Command /\ c.nonce = r
  BY DEF TypeOK, NextSequence, Command
<1>3. c \in Channel!Command
  BY <1>2 DEF Channel!Command, Command
<1> HIDE DEF c
<1>4. c \in issued' \ issued
  BY <1>1, <1>2
<1>5. AllExecuted' = AllExecuted
  BY <1>1 DEF AllExecuted, ExecutedCommands
<1>6. Channel!Issue
  BY <1>1, <1>2, <1>3, <1>4, <1>5 DEF Channel!Issue, Channel!IssueCommand
<1> QED BY <1>6 DEF Channel!Next

\* Apply is the channel's Execute: the command was signed, is not executed yet
\* and is above the process's last sequence.
LEMMA ApplyExecutes ==
    ASSUME TypeOK, Located, NEW n \in Nodes, Apply(n)
    PROVE  Channel!Next
<1>1. PICK c \in held[n] :
          /\ c.sequence > last[n]
          /\ last' = [last EXCEPT ![n] = c.sequence]
          /\ executed' = [executed EXCEPT ![n] =
                            Append(executed[n], [command |-> c, session |-> session[n]])]
  BY DEF Apply, Verify, Accepted
<1>2. issued' = issued
  BY DEF Apply, controlVars
<1>3. c.node = n /\ c \in issued
  BY DEF Located, InScope
<1>4. \A m \in Nodes : \A i \in DOMAIN executed[m] : executed[m][i].command # c
  BY <1>3 DEF Located, InScope, OnePlace
<1>5. c \notin AllExecuted
  BY <1>4 DEF AllExecuted, ExecutedCommands
<1>6. /\ [command |-> c, session |-> session[n]] \in Execution
      /\ executed[n] \in Seq(Execution)
  BY DEF TypeOK, Execution
<1>7. /\ executed'[n] = Append(executed[n], [command |-> c, session |-> session[n]])
      /\ \A m \in Nodes : m # n => executed'[m] = executed[m]
  BY <1>1 DEF TypeOK
<1>8. ExecutedCommands(n)' = ExecutedCommands(n) \cup {c}
  <2>1. ASSUME NEW i \in DOMAIN executed'[n]
        PROVE  executed'[n][i].command \in ExecutedCommands(n) \cup {c}
    BY <1>6, <1>7, AppendLemma DEF ExecutedCommands
  <2>2. ASSUME NEW i \in DOMAIN executed[n]
        PROVE  executed[n][i].command \in ExecutedCommands(n)'
    <3>1. i \in DOMAIN executed'[n] /\ executed'[n][i] = executed[n][i]
      BY <1>6, <1>7, AppendLemma
    <3> QED BY <3>1 DEF ExecutedCommands
  <2>3. c \in ExecutedCommands(n)'
    <3>1. /\ Len(executed[n]) + 1 \in DOMAIN executed'[n]
          /\ executed'[n][Len(executed[n]) + 1].command = c
      BY <1>6, <1>7, AppendLemma
    <3> QED BY <3>1 DEF ExecutedCommands
  <2>4. ExecutedCommands(n)' \subseteq ExecutedCommands(n) \cup {c}
    BY <2>1 DEF ExecutedCommands
  <2>5. ExecutedCommands(n) \subseteq ExecutedCommands(n)'
    BY <2>2 DEF ExecutedCommands
  <2> QED BY <2>3, <2>4, <2>5
<1>9. \A m \in Nodes : m # n => ExecutedCommands(m)' = ExecutedCommands(m)
  BY <1>7 DEF ExecutedCommands
<1>10. AllExecuted' = AllExecuted \cup {c}
  BY <1>8, <1>9 DEF AllExecuted
<1>11. Channel!Execute(c)
  BY <1>1, <1>2, <1>3, <1>5, <1>10 DEF Channel!Execute
<1> QED BY <1>3, <1>11 DEF Channel!Next

\* Every step of the delivery path is a step of the channel or none.
LEMMA ChannelStep == TypeOK /\ Located /\ [Next]_vars => [Channel!Next]_(Channel!vars)
<1> SUFFICES ASSUME TypeOK, Located, [Next]_vars
             PROVE  Channel!Next \/ UNCHANGED Channel!vars
  OBVIOUS
<1>1. ASSUME NEW r \in Nonces, NEW n \in Nodes, Sign(r, n) PROVE Channel!Next
  BY <1>1, SignIssues
<1>2. ASSUME NEW n \in Nodes, Apply(n) PROVE Channel!Next
  BY <1>2, ApplyExecutes
<1>3. ASSUME NEW n \in Nodes, Reject(n) PROVE Channel!Next
  BY <1>3, EndProcessesForget DEF Reject, controlVars
<1>4. ASSUME NEW n \in Nodes, Exit(n) PROVE Channel!Next
  BY <1>4, EndProcessesForget DEF Exit, controlVars
<1>5. CASE Restart
  BY <1>5, EndProcessesForget DEF Restart
<1>6. ASSUME NEW c \in signed, Enqueue(c) \/ Abort(c) PROVE UNCHANGED Channel!vars
  BY <1>6, Invisible DEF Enqueue, Abort, runnerVars
<1>7. ASSUME NEW n \in Nodes, Start(n) \/ SendPoll(n) \/ Deliver(n) \/ DeliverNothing(n)
      PROVE  UNCHANGED Channel!vars
  BY <1>7, Invisible DEF Start, SendPoll, Deliver, DeliverNothing, controlVars
<1>8. ASSUME NEW p \in stalePolls, HandleStalePoll(p) PROVE UNCHANGED Channel!vars
  BY <1>8, Invisible DEF HandleStalePoll, runnerVars
<1>9. ASSUME NEW c \in issued, Expire(c) PROVE UNCHANGED Channel!vars
  BY <1>9, Invisible DEF Expire, controlVars, runnerVars
<1>10. CASE UNCHANGED vars
  BY <1>10, Invisible DEF vars
<1> QED
  BY <1>1, <1>2, <1>3, <1>4, <1>5, <1>6, <1>7, <1>8, <1>9, <1>10 DEF Next

\* Queue, polls, restarts, TTL and verification together implement the channel:
\* at most one execution per signed command, by the addressed node, in
\* increasing sequence inside one process.
THEOREM DeliveryImplementsChannel == Spec => ImplementsChannel
<1>1. Init => Channel!Init
  <2> SUFFICES ASSUME Init PROVE Channel!Init
    OBVIOUS
  <2>1. issued = {} /\ last = [n \in Nodes |-> 0] /\ executed = [n \in Nodes |-> <<>>]
    BY DEF Init
  <2>2. \A n \in Nodes : ExecutedCommands(n) = {}
    BY <2>1 DEF ExecutedCommands
  <2>3. AllExecuted = {}
    BY <2>2 DEF AllExecuted
  <2> QED BY <2>1, <2>3 DEF Channel!Init
<1>2. QED
  BY <1>1, ChannelStep, TypeCorrect, AlwaysLocated, PTL
     DEF Spec, ImplementsChannel, Channel!Spec
=============================================================================
