--------------------------- MODULE RolloutProofs ---------------------------
(***************************************************************************)
(* Proofs about Rollout for any number of nodes, deployments, requests and *)
(* faults, on both stores.  Three of its invariants hold for one node only *)
(* (the run rollout_two_nodes has the counterexample for two) and one for  *)
(* handlers that run one after the other: their theorems say so.           *)
(***************************************************************************)
EXTENDS Rollout, FiniteSetTheorems, TLAPS

-----------------------------------------------------------------------------
(* The inductive invariant.                                                *)

\* What a handler holds and has answered at each of its awaits.
Shape(h, a) ==
    /\ h.step = "new" => h.op = None /\ h.id = None /\ a = None
    /\ h.step \notin {"new", "done"} => h.op \in Operations /\ h.id \in Ids /\ a = None
    /\ h.step = "done" => h.op = None
    /\ h.step \in {"compile", "stored", "insert", "link", "queued"} => h.op = "compile"
    /\ h.step \in {"status", "pointer", "snapshot"} => h.op # "compile"
    /\ h.step \in {"compile", "stored", "insert", "link", "ready", "signed", "queued"} =>
           h.node \in Nodes
    /\ h.step \in {"ready", "signed"} => h.op = "compile" \/ h.to \in Ids
    /\ h.step = "snapshot" => h.to \in Ids
    /\ h.key # None => h.op \in {"compile", None}
    /\ h.step = "queued" => h.key \in Keys
    /\ h.step \in {"signed", "queued"} => h.sequence > 0
    /\ h.step \notin {"signed", "queued", "done"} => h.sequence = 0
    /\ h.sequence > 0 => h.node \in Nodes
    /\ h.observed # None \/ a \in {"compiled", "promoted"} => h.id \in Ids

\* Some node has the release.
Somewhere(d) == \E m \in Nodes : d \in installed[m]

\* What the tables have for a handler at its await: rows it has written or read
\* are still there, and what it read as a rollback target or as Succeeded is
\* installed somewhere.
Backed(h, a) ==
    /\ h.step \in {"stored", "insert", "link"} => artifact[h.id] # None
    /\ h.step \in {"insert", "link"} /\ h.to = h.id => h.id \in pointed
    /\ h.step = "link" => plan[h.id] # None
    /\ h.step \in {"snapshot", "ready", "signed", "queued"} => h.id \in pointed
    /\ h.step \in {"ready", "signed", "queued"} /\ h.op = "compile" => plan[h.id] # None
    /\ a = "compiled" => h.id \in pointed /\ plan[h.id] # None
    /\ h.observed # None \/ a = "promoted" => plan[h.id] # None
    /\ interruptions = 0 =>
           /\ h.to # None => Somewhere(h.to)
           /\ h.observed = "Succeeded" \/ a = "promoted" => Somewhere(h.id)

HandlersSound ==
    \A r \in Requests : Shape(handler[r], reply[r]) /\ Backed(handler[r], reply[r])

\* The tables among each other: what has a status has a plan, what has a result
\* has a pointer, and both pointers and successes lead to releases.
TablesSound ==
    \A d \in Ids :
        /\ previous[d] # None => d \in pointed
        /\ status[d] # None => plan[d] # None
        /\ status[d] \in Statuses \ {"Pending"} => d \in pointed
        /\ artifact[d] # None => handler[artifact[d]].id = d
        /\ interruptions = 0 =>
               /\ previous[d] # None => Somewhere(previous[d])
               /\ status[d] = "Succeeded" => Somewhere(d)

\* A command on its way is about a deployment with a pointer; the target of a
\* rollback is installed somewhere.
CommandSound(c) ==
    /\ c.id \in pointed
    /\ c.kind = "rollback" => /\ c.to \in Ids
                              /\ interruptions = 0 => Somewhere(c.to)

CommandsSound == \A n \in Nodes : \A c \in Undelivered(n) : CommandSound(c)

\* A result is about a deployment with a pointer, and with a plan once Postgres has
\* taken its first statement; what succeeded is installed somewhere.
ReportSound(n) ==
    /\ report[n] # None =>
           /\ report[n].id \in pointed
           /\ interruptions = 0 /\ report[n].status = "Succeeded" => Somewhere(report[n].id)
    /\ runner[n] \in {"unsent", "snapshot", "health"} => report[n] # None
    /\ runner[n] \in {"snapshot", "health"} =>
           store = "postgres" /\ plan[report[n].id] # None

ReportsSound == \A n \in Nodes : ReportSound(n)

RecordsInv ==
    /\ TypeOK
    /\ HandlersSound
    /\ TablesSound
    /\ CommandsSound
    /\ ReportsSound
    /\ PointerIsOtherInPostgres
    /\ SettledHasSnapshot

\* A command to deliver is that of a handler past its enqueue; nobody has executed
\* it, and it is there once, in the one store.
DeliveredOnce ==
    /\ \A r \in executed : handler[r].sequence > 0 /\ handler[r].step \in {"queued", "done"}
    /\ \A n \in Nodes :
           /\ store = "memory" => rows[n] = {}
           /\ store = "postgres" => queue[n] = <<>>
           /\ \A c \in Undelivered(n) :
                  /\ handler[c.nonce].node = n
                  /\ c.sequence > 0 /\ handler[c.nonce].sequence = c.sequence
                  /\ handler[c.nonce].step \in {"queued", "done"}
                  /\ c.nonce \notin executed
           /\ \A i, j \in DOMAIN queue[n] : queue[n][i].nonce = queue[n][j].nonce => i = j
           /\ \A c, d \in rows[n] : c.nonce = d.nonce => c = d


-----------------------------------------------------------------------------
(* Handlers.                                                               *)

\* The fields of a handler.
LEMMA HandlerFields ==
    ASSUME NEW h \in Handlers
    PROVE  /\ h.op \in Operations \cup {None} /\ h.id \in Ids \cup {None}
           /\ h.node \in Nodes \cup {None} /\ h.key \in Keys \cup {None}
           /\ h.to \in Ids \cup {None} /\ h.sequence \in Nat
           /\ h.observed \in Statuses \cup {None}
  BY DEF Handlers

\* A handler goes on to its next await and has not answered.
LEMMA Goes ==
    ASSUME TypeOK, NEW r \in Requests, NEW g \in Handlers, GoTo(r, g), reply[r] = None
    PROVE  handler' = [handler EXCEPT ![r] = g] /\ reply' = [reply EXCEPT ![r] = None]
  BY DEF GoTo, TypeOK

\* A handler that answers keeps what identifies its command and forgets the rest.
LEMMA Answers ==
    ASSUME TypeOK, NEW r \in Requests, NEW h \in Handlers, NEW text, Answer(r, h, text)
    PROVE  \E g \in Handlers :
               /\ handler' = [handler EXCEPT ![r] = g]
               /\ reply' = [reply EXCEPT ![r] = text]
               /\ g.step = "done" /\ g.op = None /\ g.to = None /\ g.observed = None
               /\ g.id = h.id /\ g.node = h.node /\ g.key = h.key
               /\ g.sequence = h.sequence
<1> DEFINE g == [h EXCEPT !.step = "done", !.op = None, !.to = None, !.observed = None]
<1>1. /\ g \in Handlers
      /\ g.step = "done" /\ g.op = None /\ g.to = None /\ g.observed = None
      /\ g.id = h.id /\ g.node = h.node /\ g.key = h.key /\ g.sequence = h.sequence
  BY DEF Handlers
<1>2. handler' = [handler EXCEPT ![r] = g] /\ reply' = [reply EXCEPT ![r] = text]
  BY DEF Answer
<1> HIDE DEF g
<1> QED BY <1>1, <1>2

\* What the tables have only grows, as long as no command is interrupted.
Grows ==
    /\ pointed \subseteq pointed'
    /\ \A d \in Ids : /\ plan[d] # None => plan'[d] # None
                      /\ artifact[d] # None => artifact'[d] # None
    /\ interruptions' = 0 =>
           interruptions = 0 /\ \A m \in Nodes : installed[m] \subseteq installed'[m]

\* What some node has stays there.
LEMMA SomewhereStays ==
    ASSUME Grows, NEW d, Somewhere(d), interruptions' = 0
    PROVE  interruptions = 0 /\ Somewhere(d)'
  BY DEF Grows, Somewhere

\* So what backs a handler at its await goes on backing it.
LEMMA BackedStays ==
    ASSUME Grows, NEW h \in Handlers, NEW a, Shape(h, a), Backed(h, a)
    PROVE  Backed(h, a)'
  BY SomewhereStays DEF Grows, Backed, Shape

\* One handler moves, to an await that suits what it holds and what the tables have.
LEMMA OneMoves ==
    ASSUME TypeOK, HandlersSound, Grows, NEW r \in Requests, NEW g \in Handlers,
           NEW a \in Replies \cup {None},
           handler' = [handler EXCEPT ![r] = g], reply' = [reply EXCEPT ![r] = a],
           Shape(g, a), Backed(g, a)'
    PROVE  /\ handler' \in [Requests -> Handlers]
           /\ reply' \in [Requests -> Replies \cup {None}]
           /\ HandlersSound'
<1>1. /\ handler' \in [Requests -> Handlers]
      /\ reply' \in [Requests -> Replies \cup {None}]
  BY DEF TypeOK
<1>2. handler'[r] = g /\ reply'[r] = a
  BY DEF TypeOK
<1>3. ASSUME NEW x \in Requests, x # r
      PROVE  Shape(handler'[x], reply'[x]) /\ Backed(handler[x], reply[x])
             /\ handler'[x] = handler[x] /\ reply'[x] = reply[x] /\ handler[x] \in Handlers
  BY <1>3 DEF TypeOK, HandlersSound
<1>4. ASSUME NEW x \in Requests
      PROVE  (Shape(handler[x], reply[x]) /\ Backed(handler[x], reply[x]))'
  <2>1. CASE x = r
    <3>1. Shape(handler[r], reply[r])'
      BY <1>2 DEF Shape
    <3>2. Backed(handler[r], reply[r])'
      BY <1>2 DEF Backed
    <3> QED BY <2>1, <3>1, <3>2
  <2>2. CASE x # r
    <3>1. PICK h \in Handlers, b \in Replies \cup {None} : h = handler[x] /\ b = reply[x]
      BY DEF TypeOK
    <3>2. Shape(h, b) /\ Backed(h, b)
      BY <3>1 DEF HandlersSound
    <3>3. Backed(h, b)'
      BY <3>2, BackedStays
    <3>4. handler'[x] = h /\ reply'[x] = b
      BY <1>3, <2>2, <3>1
    <3> QED BY <3>2, <3>3, <3>4 DEF Shape, Backed
  <2> QED BY <2>1, <2>2
<1> QED BY <1>1, <1>4 DEF HandlersSound

\* A handler that only reads moves on: the tables and the nodes are as they were.
LEMMA HandlerOnly ==
    ASSUME RecordsInv, NEW r \in Requests, NEW g \in Handlers,
           NEW a \in Replies \cup {None},
           handler' = [handler EXCEPT ![r] = g], reply' = [reply EXCEPT ![r] = a],
           handler[r].step = "new" \/ g.id = handler[r].id,
           Shape(g, a), Backed(g, a),
           nodeSequences' \in [Nodes -> Nat], responses' \in [Keys -> Requests \cup {None}],
           UNCHANGED <<queue, rows, enqueued>>,
           UNCHANGED storeVars, UNCHANGED nodeVars, UNCHANGED bounds
    PROVE  RecordsInv'
<1> USE DEF RecordsInv, storeVars, nodeVars, bounds
<1>1. Grows
  BY DEF Grows
<1>2. Backed(g, a)'
  BY DEF Backed, Somewhere
<1>3. /\ handler' \in [Requests -> Handlers]
      /\ reply' \in [Requests -> Replies \cup {None}]
      /\ HandlersSound'
  BY <1>1, <1>2, OneMoves
<1>4. TypeOK'
  BY <1>3 DEF TypeOK
<1>5. ASSUME NEW d \in Ids, artifact[d] # None
      PROVE  handler'[artifact[d]].id = d
  <2>1. artifact[d] \in Requests /\ handler[artifact[d]].id = d
    BY <1>5 DEF TypeOK, TablesSound
  <2>2. CASE artifact[d] = r
    <3>1. handler[r].step # "new"
      BY <2>1, <2>2, RolloutAssumption DEF HandlersSound, Shape
    <3> QED BY <2>1, <2>2, <3>1 DEF TypeOK
  <2>3. CASE artifact[d] # r
    BY <2>1, <2>3 DEF TypeOK
  <2> QED BY <2>2, <2>3
<1>6. TablesSound'
  BY <1>5 DEF TablesSound, Somewhere
<1>7. CommandsSound' /\ ReportsSound'
  BY DEF CommandsSound, CommandSound, ReportsSound, ReportSound, Undelivered, Elements,
         Somewhere
<1>8. PointerIsOtherInPostgres' /\ SettledHasSnapshot'
  BY DEF PointerIsOtherInPostgres, SettledHasSnapshot
<1> QED BY <1>3, <1>4, <1>6, <1>7, <1>8

\* A deployment to roll back to has succeeded, so some node has it.
LEMMA LatestSucceededLemma ==
    ASSUME RecordsInv, NEW n \in Nodes, NEW e \in LatestSucceeded(n)
    PROVE  /\ e \in Ids \cup {None}
           /\ e # None => /\ status[e] = "Succeeded" /\ e \in pointed
                          /\ interruptions = 0 => Somewhere(e)
<1>1. e = None \/ (e \in Ids /\ status[e] = "Succeeded")
  BY DEF LatestSucceeded, Candidates
<1>2. ASSUME e # None PROVE e \in pointed /\ (interruptions = 0 => Somewhere(e))
  BY <1>1, <1>2 DEF RecordsInv, TablesSound, Statuses
<1> QED BY <1>1, <1>2

\* The handler goes on to an await that suits it and writes nothing.
LEMMA GoesOn ==
    ASSUME RecordsInv, NEW r \in Requests, NEW g \in Handlers, GoTo(r, g),
           reply[r] = None, handler[r].step = "new" \/ g.id = handler[r].id,
           Shape(g, None), Backed(g, None),
           nodeSequences' \in [Nodes -> Nat], responses' \in [Keys -> Requests \cup {None}],
           UNCHANGED <<queue, rows, enqueued>>,
           UNCHANGED storeVars, UNCHANGED nodeVars, UNCHANGED bounds
    PROVE  RecordsInv'
<1>1. handler' = [handler EXCEPT ![r] = g] /\ reply' = [reply EXCEPT ![r] = None]
  BY Goes DEF RecordsInv
<1> QED BY <1>1, HandlerOnly

\* The handler answers what the tables justify and writes nothing.
LEMMA AnswersOnly ==
    ASSUME RecordsInv, NEW r \in Requests, NEW h \in Handlers,
           NEW text \in Replies \cup {None}, Answer(r, h, text),
           handler[r].step = "new" \/ h.id = handler[r].id,
           h.sequence > 0 => h.node \in Nodes,
           h.key # None => h.op \in {"compile", None},
           text \in {"compiled", "promoted"} => h.id \in Ids /\ plan[h.id] # None,
           text = "compiled" => h.id \in pointed,
           text = "promoted" /\ interruptions = 0 => Somewhere(h.id),
           nodeSequences' \in [Nodes -> Nat], responses' \in [Keys -> Requests \cup {None}],
           UNCHANGED <<queue, rows, enqueued>>,
           UNCHANGED storeVars, UNCHANGED nodeVars, UNCHANGED bounds
    PROVE  RecordsInv'
<1>1. PICK g \in Handlers :
          /\ handler' = [handler EXCEPT ![r] = g]
          /\ reply' = [reply EXCEPT ![r] = text]
          /\ g.step = "done" /\ g.op = None /\ g.to = None /\ g.observed = None
          /\ g.id = h.id /\ g.node = h.node /\ g.key = h.key /\ g.sequence = h.sequence
  BY Answers DEF RecordsInv
<1>2. Shape(g, text)
  BY <1>1 DEF Shape
<1>3. Backed(g, text)
  BY <1>1, RolloutAssumption DEF Backed, Statuses
<1> QED BY <1>1, <1>2, <1>3, HandlerOnly

\* A request that has not been handled yet.
LEMMA NotStarted ==
    ASSUME RecordsInv, NEW r \in Requests, NEW op, MayStart(r, op)
    PROVE  op \in Operations /\ handler[r].step = "new" /\ reply[r] = None
  BY DEF RecordsInv, HandlersSound, Shape, MayStart

\* Nothing but the handler and its answer changes.
ReadsOnly ==
    /\ UNCHANGED <<nodeSequences, responses, queue, rows, enqueued>>
    /\ UNCHANGED storeVars /\ UNCHANGED nodeVars /\ UNCHANGED bounds

\* So the types of what a reading handler leaves alone are kept.
LEMMA ReadsOnlyTypes ==
    ASSUME TypeOK, ReadsOnly
    PROVE  /\ nodeSequences' \in [Nodes -> Nat]
           /\ responses' \in [Keys -> Requests \cup {None}]
           /\ UNCHANGED <<queue, rows, enqueued>>
           /\ UNCHANGED storeVars /\ UNCHANGED nodeVars /\ UNCHANGED bounds
  BY DEF TypeOK, ReadsOnly

\* The idempotency lookup.
LEMMA StartCompileStep ==
    ASSUME RecordsInv, NEW r \in Requests, NEW n \in Nodes, NEW d \in Ids,
           NEW k \in Keys \cup {None}, StartCompile(r, n, d, k)
    PROVE  RecordsInv'
<1> DEFINE h == [NewHandler EXCEPT !.step = "compile", !.op = "compile", !.node = n,
                                   !.id = d, !.key = k]
<1>1. "compile" \in Operations /\ handler[r].step = "new" /\ reply[r] = None
  BY NotStarted DEF StartCompile
<1>2. /\ h \in Handlers
      /\ h.step = "compile" /\ h.op = "compile" /\ h.node = n /\ h.id = d
      /\ h.key = k /\ h.to = None /\ h.sequence = 0 /\ h.observed = None
  BY <1>1 DEF NewHandler, Handlers
<1>3. ReadsOnly
  BY DEF StartCompile, ReadsOnly
<1>4. GoTo(r, h) \/ Answer(r, h, "replayed")
  BY DEF StartCompile
<1> HIDE DEF h
<1>5. CASE GoTo(r, h)
  <2>1. Shape(h, None)
    BY <1>1, <1>2, RolloutAssumption DEF Shape, Replies
  <2>2. Backed(h, None)
    BY <1>2, RolloutAssumption DEF Backed, Replies, Statuses
  <2> QED BY <1>1, <1>2, <1>3, <1>5, <2>1, <2>2, GoesOn, ReadsOnlyTypes DEF RecordsInv
<1>6. CASE Answer(r, h, "replayed")
  BY <1>1, <1>2, <1>3, <1>6, AnswersOnly, ReadsOnlyTypes DEF Replies, RecordsInv
<1> QED BY <1>4, <1>5, <1>6

\* queue_rollback starts with the pointer to read.
LEMMA StartRollbackStep ==
    ASSUME RecordsInv, NEW r \in Requests, NEW d \in Ids, StartRollback(r, d)
    PROVE  RecordsInv'
<1> DEFINE h == [NewHandler EXCEPT !.step = "pointer", !.op = "rollback", !.id = d]
<1>1. "rollback" \in Operations /\ handler[r].step = "new" /\ reply[r] = None
  BY NotStarted DEF StartRollback
<1>2. /\ h \in Handlers
      /\ h.step = "pointer" /\ h.op = "rollback" /\ h.node = None /\ h.id = d
      /\ h.key = None /\ h.to = None /\ h.sequence = 0 /\ h.observed = None
  BY <1>1 DEF NewHandler, Handlers
<1>3. ReadsOnly /\ GoTo(r, h)
  BY DEF StartRollback, ReadsOnly
<1> HIDE DEF h
<1>4. Shape(h, None)
  BY <1>1, <1>2, RolloutAssumption DEF Shape, Replies
<1>5. Backed(h, None)
  BY <1>2, RolloutAssumption DEF Backed, Replies, Statuses
<1> QED BY <1>1, <1>2, <1>3, <1>4, <1>5, GoesOn, ReadsOnlyTypes DEF RecordsInv

\* The readiness computation reads the status: a Succeeded one has its release on
\* some node.
LEMMA StartAdvanceStep ==
    ASSUME RecordsInv, NEW r \in Requests, NEW d \in Ids, StartAdvance(r, d)
    PROVE  RecordsInv'
<1> DEFINE h == [NewHandler EXCEPT !.step = "status", !.op = "advance", !.id = d,
                                   !.observed = status[d]]
<1>1. "advance" \in Operations /\ handler[r].step = "new" /\ reply[r] = None
  BY NotStarted DEF StartAdvance
<1>2. /\ h \in Handlers
      /\ h.step = "status" /\ h.op = "advance" /\ h.node = None /\ h.id = d
      /\ h.key = None /\ h.to = None /\ h.sequence = 0 /\ h.observed = status[d]
  BY <1>1 DEF NewHandler, Handlers, RecordsInv, TypeOK
<1>3. ReadsOnly
  BY DEF StartAdvance, ReadsOnly
<1>4. GoTo(r, h) \/ Answer(r, h, "error")
  BY DEF StartAdvance
<1> HIDE DEF h
<1>5. CASE GoTo(r, h)
  <2>1. Shape(h, None)
    BY <1>1, <1>2, RolloutAssumption DEF Shape, Replies
  <2>2. Backed(h, None)
    BY <1>2, RolloutAssumption DEF Backed, Replies, Statuses, RecordsInv, TablesSound
  <2> QED BY <1>1, <1>2, <1>3, <1>5, <2>1, <2>2, GoesOn, ReadsOnlyTypes DEF RecordsInv
<1>6. CASE Answer(r, h, "error")
  BY <1>1, <1>2, <1>3, <1>6, AnswersOnly, ReadsOnlyTypes DEF Replies, RecordsInv
<1> QED BY <1>4, <1>5, <1>6

\* What is known of a handler at an await.
LEMMA AtAwait ==
    ASSUME RecordsInv, NEW r \in Requests, handler[r].step \notin {"new", "done"}
    PROVE  /\ handler[r] \in Handlers
           /\ Shape(handler[r], None) /\ Backed(handler[r], None)
           /\ handler[r].id \in Ids /\ handler[r].op \in Operations /\ reply[r] = None
  BY DEF RecordsInv, TypeOK, HandlersSound, Shape

\* The lookup of the previous deployment: it has succeeded, and when it is the
\* deployment itself then that has its pointer.
LEMMA LookUpPreviousStep ==
    ASSUME RecordsInv, NEW r \in Requests, LookUpPrevious(r)
    PROVE  RecordsInv'
<1>1. PICK h \in Handlers :
          /\ h = handler[r] /\ h.step = "stored" /\ h.id \in Ids /\ reply[r] = None
          /\ Shape(h, None) /\ Backed(h, None)
  BY AtAwait DEF LookUpPrevious
<1>2. h.node \in Nodes
  BY <1>1 DEF Shape
<1>3. PICK e \in LatestSucceeded(h.node) : GoTo(r, [h EXCEPT !.step = "insert", !.to = e])
  BY <1>1 DEF LookUpPrevious
<1>4. /\ e \in Ids \cup {None}
      /\ e # None => e \in pointed /\ (interruptions = 0 => Somewhere(e))
  BY <1>2, LatestSucceededLemma
<1> DEFINE g == [h EXCEPT !.step = "insert", !.to = e]
<1>5. /\ g \in Handlers
      /\ g.step = "insert" /\ g.op = h.op /\ g.node = h.node /\ g.id = h.id
      /\ g.key = h.key /\ g.to = e /\ g.sequence = h.sequence /\ g.observed = h.observed
  BY <1>4 DEF Handlers
<1>6. ReadsOnly /\ GoTo(r, g)
  BY <1>3 DEF LookUpPrevious, ReadsOnly
<1> HIDE DEF g
<1>7. Shape(g, None)
  BY <1>1, <1>5 DEF Shape
<1>8. Backed(g, None)
  BY <1>1, <1>4, <1>5, RolloutAssumption DEF Backed
<1> QED BY <1>1, <1>5, <1>6, <1>7, <1>8, GoesOn, ReadsOnlyTypes DEF RecordsInv

\* An answer that tells nothing about a deployment: an error, a verdict to wait for,
\* a dropped handler.
LEMMA PlainAnswer ==
    ASSUME RecordsInv, NEW r \in Requests, handler[r].step \notin {"new", "done"},
           NEW text \in {"error", "waiting", None}, Answer(r, handler[r], text), ReadsOnly
    PROVE  RecordsInv'
<1>1. PICK h \in Handlers :
          h = handler[r] /\ h.id \in Ids /\ h.op \in Operations /\ Shape(h, None)
  BY AtAwait
<1>2. /\ h.sequence > 0 => h.node \in Nodes
      /\ h.key # None => h.op \in {"compile", None}
  BY <1>1 DEF Shape
<1>3. text \in Replies \cup {None} /\ text \notin {"compiled", "promoted"}
  BY RolloutAssumption DEF Replies
<1> QED BY <1>1, <1>2, <1>3, AnswersOnly, ReadsOnlyTypes DEF RecordsInv

\* A statement is refused; a client disconnects.
LEMMA RefusedStep ==
    ASSUME RecordsInv, NEW r \in Requests, Refused(r) \/ Abort(r)
    PROVE  RecordsInv'
<1>1. handler[r].step \notin {"new", "done"} /\ ReadsOnly
  BY DEF Refused, Abort, Busy, ReadsOnly
<1>2. Answer(r, handler[r], "error") \/ Answer(r, handler[r], None)
  BY DEF Refused, Abort
<1> QED BY <1>1, <1>2, PlainAnswer

\* The sequence and the signature.
LEMMA SignStep ==
    ASSUME RecordsInv, NEW r \in Requests, Sign(r)
    PROVE  RecordsInv'
<1>1. PICK h \in Handlers :
          /\ h = handler[r] /\ h.step = "ready" /\ h.id \in Ids /\ reply[r] = None
          /\ Shape(h, None) /\ Backed(h, None)
  BY AtAwait DEF Sign
<1>2. h.node \in Nodes /\ nodeSequences \in [Nodes -> Nat]
  BY <1>1 DEF Shape, RecordsInv, TypeOK
<1>3. PICK s \in Nat : s = nodeSequences[h.node] + 1 /\ s > 0
  BY <1>2
<1> DEFINE g == [h EXCEPT !.step = "signed", !.sequence = s]
<1>4. /\ g \in Handlers
      /\ g.step = "signed" /\ g.op = h.op /\ g.node = h.node /\ g.id = h.id
      /\ g.key = h.key /\ g.to = h.to /\ g.sequence = s /\ g.observed = h.observed
  BY DEF Handlers
<1>5. GoTo(r, g)
  BY <1>1, <1>3 DEF Sign
<1>6. /\ nodeSequences' \in [Nodes -> Nat]
      /\ responses' \in [Keys -> Requests \cup {None}]
      /\ UNCHANGED <<queue, rows, enqueued>>
      /\ UNCHANGED storeVars /\ UNCHANGED nodeVars /\ UNCHANGED bounds
  BY <1>1, <1>2 DEF Sign, RecordsInv, TypeOK
<1> HIDE DEF g
<1>7. Shape(g, None)
  BY <1>1, <1>3, <1>4 DEF Shape
<1>8. Backed(g, None)
  BY <1>1, <1>4 DEF Backed
<1> QED BY <1>1, <1>4, <1>5, <1>6, <1>7, <1>8, GoesOn

\* The response of a key; the compile has its plan and its pointer.
LEMMA RecordResponseStep ==
    ASSUME RecordsInv, NEW r \in Requests, RecordResponse(r)
    PROVE  RecordsInv'
<1>1. PICK h \in Handlers :
          /\ h = handler[r] /\ h.step = "queued" /\ h.id \in Ids /\ reply[r] = None
          /\ Shape(h, None) /\ Backed(h, None)
  BY AtAwait DEF RecordResponse
<1>2. /\ h.node \in Nodes /\ h.key \in Keys /\ h.op = "compile"
      /\ plan[h.id] # None /\ h.id \in pointed
  BY <1>1 DEF Shape, Backed
<1>3. /\ nodeSequences' \in [Nodes -> Nat]
      /\ responses' \in [Keys -> Requests \cup {None}]
      /\ UNCHANGED <<queue, rows, enqueued>>
      /\ UNCHANGED storeVars /\ UNCHANGED nodeVars /\ UNCHANGED bounds
  BY <1>1, <1>2 DEF RecordResponse, RecordsInv, TypeOK
<1>4. Answer(r, h, "compiled")
  BY <1>1 DEF RecordResponse
<1> QED BY <1>1, <1>2, <1>3, <1>4, AnswersOnly DEF Replies

\* The verdict: "ready" only for a status that was read as Succeeded.
LEMMA ReadHealthStep ==
    ASSUME RecordsInv, NEW r \in Requests, ReadHealth(r)
    PROVE  RecordsInv'
<1>1. PICK h \in Handlers :
          /\ h = handler[r] /\ h.step = "status" /\ h.id \in Ids /\ reply[r] = None
          /\ Shape(h, None) /\ Backed(h, None)
  BY AtAwait DEF ReadHealth
<1>2. ReadsOnly
  BY DEF ReadHealth, ReadsOnly
<1>3. CASE Readiness(h.observed, h.id) = "ready" /\ Answer(r, h, "promoted")
  <2>1. h.observed = "Succeeded"
    BY <1>3 DEF Readiness
  <2>2. plan[h.id] # None /\ (interruptions = 0 => Somewhere(h.id))
    BY <1>1, <2>1, RolloutAssumption DEF Backed, Statuses
  <2>3. h.sequence = 0 /\ (h.key # None => h.op \in {"compile", None})
    BY <1>1 DEF Shape
  <2> QED BY <1>1, <1>2, <1>3, <2>2, <2>3, AnswersOnly, ReadsOnlyTypes
          DEF Replies, RecordsInv
<1>4. CASE GoTo(r, [h EXCEPT !.step = "pointer"])
  <2> DEFINE g == [h EXCEPT !.step = "pointer"]
  <2>1. /\ g \in Handlers
        /\ g.step = "pointer" /\ g.op = h.op /\ g.node = h.node /\ g.id = h.id
        /\ g.key = h.key /\ g.to = h.to /\ g.sequence = h.sequence
        /\ g.observed = h.observed
    BY DEF Handlers
  <2>2. GoTo(r, g)
    BY <1>4
  <2> HIDE DEF g
  <2>3. Shape(g, None)
    BY <1>1, <2>1 DEF Shape
  <2>4. Backed(g, None)
    BY <1>1, <2>1 DEF Backed
  <2> QED BY <1>1, <1>2, <2>1, <2>2, <2>3, <2>4, GoesOn, ReadsOnlyTypes DEF RecordsInv
<1>5. CASE Answer(r, h, "waiting")
  BY <1>1, <1>2, <1>5, PlainAnswer
<1> QED BY <1>1, <1>3, <1>4, <1>5 DEF ReadHealth

\* The rollback pointer: its deployment has one, and its target is installed.
LEMMA ReadPointerStep ==
    ASSUME RecordsInv, NEW r \in Requests, ReadPointer(r)
    PROVE  RecordsInv'
<1>1. PICK h \in Handlers :
          /\ h = handler[r] /\ h.step = "pointer" /\ h.id \in Ids /\ reply[r] = None
          /\ Shape(h, None) /\ Backed(h, None)
  BY AtAwait DEF ReadPointer
<1>2. ReadsOnly
  BY DEF ReadPointer, ReadsOnly
<1>3. CASE Answer(r, h, "error")
  BY <1>1, <1>2, <1>3, PlainAnswer
<1>4. CASE /\ previous[h.id] # None
           /\ GoTo(r, [h EXCEPT !.step = "snapshot", !.to = previous[h.id]])
  <2>1. PICK e \in Ids : e = previous[h.id]
    BY <1>1, <1>4 DEF RecordsInv, TypeOK
  <2>2. h.id \in pointed /\ (interruptions = 0 => Somewhere(e))
    BY <1>1, <1>4, <2>1 DEF RecordsInv, TablesSound
  <2> DEFINE g == [h EXCEPT !.step = "snapshot", !.to = e]
  <2>3. /\ g \in Handlers
        /\ g.step = "snapshot" /\ g.op = h.op /\ g.node = h.node /\ g.id = h.id
        /\ g.key = h.key /\ g.to = e /\ g.sequence = h.sequence
        /\ g.observed = h.observed
    BY DEF Handlers
  <2>4. GoTo(r, g)
    BY <1>4, <2>1
  <2> HIDE DEF g
  <2>5. Shape(g, None)
    BY <1>1, <2>1, <2>3 DEF Shape
  <2>6. Backed(g, None)
    BY <1>1, <2>2, <2>3 DEF Backed
  <2> QED BY <1>1, <1>2, <2>3, <2>4, <2>5, <2>6, GoesOn, ReadsOnlyTypes DEF RecordsInv
<1> QED BY <1>1, <1>3, <1>4 DEF ReadPointer

\* The snapshot, whose node the command is for.
LEMMA ReadSnapshotStep ==
    ASSUME RecordsInv, NEW r \in Requests, ReadSnapshot(r)
    PROVE  RecordsInv'
<1>1. PICK h \in Handlers :
          /\ h = handler[r] /\ h.step = "snapshot" /\ h.id \in Ids /\ reply[r] = None
          /\ Shape(h, None) /\ Backed(h, None)
  BY AtAwait DEF ReadSnapshot
<1>2. ReadsOnly
  BY DEF ReadSnapshot, ReadsOnly
<1>3. CASE Answer(r, h, "error")
  BY <1>1, <1>2, <1>3, PlainAnswer
<1>4. CASE /\ snapshot[h.id] # None
           /\ GoTo(r, [h EXCEPT !.step = "ready", !.node = snapshot[h.id].node])
  <2>1. PICK n \in Nodes : n = snapshot[h.id].node
    BY <1>1, <1>4 DEF RecordsInv, TypeOK
  <2> DEFINE g == [h EXCEPT !.step = "ready", !.node = n]
  <2>2. /\ g \in Handlers
        /\ g.step = "ready" /\ g.op = h.op /\ g.node = n /\ g.id = h.id
        /\ g.key = h.key /\ g.to = h.to /\ g.sequence = h.sequence
        /\ g.observed = h.observed
    BY DEF Handlers
  <2>3. GoTo(r, g)
    BY <1>4, <2>1
  <2> HIDE DEF g
  <2>4. Shape(g, None)
    BY <1>1, <2>2 DEF Shape
  <2>5. Backed(g, None)
    BY <1>1, <2>2 DEF Backed, Shape
  <2> QED BY <1>1, <1>2, <2>2, <2>3, <2>4, <2>5, GoesOn, ReadsOnlyTypes DEF RecordsInv
<1> QED BY <1>1, <1>3, <1>4 DEF ReadSnapshot

-----------------------------------------------------------------------------
(* The statements that write the deployment tables.                        *)

\* The targets of the commands on their way go on being installed.
LEMMA CommandStays ==
    ASSUME Grows, NEW c, CommandSound(c)
    PROVE  CommandSound(c)'
<1>1. PICK e : e = c.to
  OBVIOUS
<1>2. interruptions = 0 /\ Somewhere(e) /\ interruptions' = 0 => Somewhere(e)'
  BY SomewhereStays
<1> QED BY <1>1, <1>2 DEF CommandSound, Grows

\* No command is added: all that are on their way go on being sound.
LEMMA CommandsStay ==
    ASSUME CommandsSound, Grows, \A n \in Nodes : Undelivered(n)' \subseteq Undelivered(n)
    PROVE  CommandsSound'
<1>1. ASSUME NEW n \in Nodes, NEW c \in Undelivered(n)'
      PROVE  CommandSound(c)'
  <2>1. CommandSound(c)
    BY DEF CommandsSound
  <2> QED BY <2>1, CommandStays
<1> QED BY <1>1 DEF CommandsSound

\* The result that a node holds goes on being one of a deployment with its rows.
LEMMA ReportStays ==
    ASSUME TypeOK, Grows, store' = store, NEW n \in Nodes, ReportSound(n),
           report'[n] = report[n], runner'[n] = runner[n]
    PROVE  ReportSound(n)'
<1>1. PICK e : e = report[n].id
  OBVIOUS
<1>2. interruptions = 0 /\ Somewhere(e) /\ interruptions' = 0 => Somewhere(e)'
  BY SomewhereStays
<1>3. ASSUME report[n] # None
      PROVE  /\ report[n].id \in pointed'
             /\ interruptions' = 0 /\ report[n].status = "Succeeded" => Somewhere(e)'
  BY <1>1, <1>2, <1>3 DEF ReportSound, Grows
<1>4. ASSUME runner[n] \in {"snapshot", "health"}
      PROVE  store = "postgres" /\ plan'[report[n].id] # None
  BY <1>4 DEF ReportSound, Grows, TypeOK, Results
<1>5. report'[n].id = e
  BY <1>1
<1> QED BY <1>3, <1>4, <1>5 DEF ReportSound, Somewhere

\* Nothing of the nodes changes.
LEMMA NodesStay ==
    ASSUME TypeOK, CommandsSound, ReportsSound, Grows,
           UNCHANGED <<store, queue, rows, report, runner>>
    PROVE  CommandsSound' /\ ReportsSound'
<1>1. CommandsSound'
  BY CommandsStay DEF Undelivered, Elements
<1>2. ReportsSound'
  BY ReportStays DEF ReportsSound
<1> QED BY <1>1, <1>2

\* A handler at an await goes on, to an await that suits what the tables then have.
LEMMA WriterGoesOn ==
    ASSUME RecordsInv, Grows, NEW r \in Requests, NEW g \in Handlers, GoTo(r, g),
           reply[r] = None, Shape(g, None), Backed(g, None)', g.id = handler[r].id
    PROVE  /\ handler' \in [Requests -> Handlers]
           /\ reply' \in [Requests -> Replies \cup {None}]
           /\ HandlersSound'
           /\ \A x \in Requests : handler'[x].id = handler[x].id
<1>1. handler' = [handler EXCEPT ![r] = g] /\ reply' = [reply EXCEPT ![r] = None]
  BY Goes DEF RecordsInv
<1>2. /\ handler' \in [Requests -> Handlers]
      /\ reply' \in [Requests -> Replies \cup {None}]
      /\ HandlersSound'
  BY <1>1, OneMoves DEF RecordsInv
<1> QED BY <1>1, <1>2 DEF RecordsInv, TypeOK

\* record_deployment_plan in memory: the new plan is Pending, and what it may roll
\* back to has succeeded.
LEMMA RecordPlanStep ==
    ASSUME RecordsInv, NEW r \in Requests, RecordPlan(r)
    PROVE  RecordsInv'
<1>1. PICK h \in Handlers :
          /\ h = handler[r] /\ h.step = "compile" /\ h.id \in Ids /\ reply[r] = None
          /\ Shape(h, None) /\ Backed(h, None)
  BY AtAwait DEF RecordPlan
<1>2. PICK d \in Ids, n \in Nodes : d = h.id /\ n = h.node
  BY <1>1 DEF Shape
<1>3. PICK e \in LatestSucceeded(n) : previous' = [previous EXCEPT ![d] = e]
  BY <1>1, <1>2 DEF RecordPlan
<1>4. e \in Ids \cup {None} /\ (e # None /\ interruptions = 0 => Somewhere(e))
  BY LatestSucceededLemma
<1> DEFINE g == [h EXCEPT !.step = "ready"]
<1>5. /\ g \in Handlers
      /\ g.step = "ready" /\ g.op = h.op /\ g.node = h.node /\ g.id = h.id
      /\ g.key = h.key /\ g.to = h.to /\ g.sequence = h.sequence /\ g.observed = h.observed
  BY DEF Handlers
<1>6. /\ store = "memory"
      /\ plan' = [plan EXCEPT ![d] = n]
      /\ created' = [created EXCEPT ![d] = plans + 1]
      /\ plans' = plans + 1
      /\ status' = [status EXCEPT ![d] = "Pending"]
      /\ pointed' = pointed \cup {d}
      /\ GoTo(r, g)
  BY <1>1, <1>2 DEF RecordPlan
<1>7. /\ UNCHANGED <<store, nodeSequences, artifact, finished, snapshot, health, responses,
                     queue, rows, enqueued, samples, ends, interruptions>>
      /\ UNCHANGED <<last, executed, installed, active, report, runner>>
  BY DEF RecordPlan, nodeVars
<1> HIDE DEF g
<1>8. Grows
  BY <1>6, <1>7, RolloutAssumption DEF Grows, RecordsInv, TypeOK
<1>9. Shape(g, None)
  BY <1>1, <1>5 DEF Shape
<1>10. Backed(g, None)'
  <2>1. d \in pointed' /\ plan'[d] # None
    BY <1>6, RolloutAssumption DEF RecordsInv, TypeOK
  <2>2. Backed(h, None)'
    BY <1>1, <1>8, BackedStays
  <2> QED BY <1>1, <1>2, <1>5, <2>1, <2>2 DEF Backed
<1>11. /\ handler' \in [Requests -> Handlers]
       /\ reply' \in [Requests -> Replies \cup {None}]
       /\ HandlersSound'
       /\ \A x \in Requests : handler'[x].id = handler[x].id
  BY <1>1, <1>5, <1>6, <1>8, <1>9, <1>10, WriterGoesOn
<1>12. TypeOK'
  BY <1>3, <1>4, <1>6, <1>7, <1>11 DEF RecordsInv, TypeOK, Statuses
<1>13. TablesSound'
  <2>1. ASSUME NEW x \in Ids
        PROVE  /\ previous'[x] # None => x \in pointed'
               /\ status'[x] # None => plan'[x] # None
               /\ status'[x] \in Statuses \ {"Pending"} => x \in pointed'
               /\ artifact'[x] # None => handler'[artifact'[x]].id = x
               /\ interruptions' = 0 =>
                      /\ previous'[x] # None => Somewhere(previous[x])'
                      /\ status'[x] = "Succeeded" => Somewhere(x)'
    <3>1. previous'[x] # None => x \in pointed'
      BY <1>3, <1>6 DEF RecordsInv, TypeOK, TablesSound
    <3>2. /\ status'[x] # None => plan'[x] # None
          /\ status'[x] \in Statuses \ {"Pending"} => x \in pointed'
      BY <1>6, RolloutAssumption DEF RecordsInv, TypeOK, TablesSound
    <3>3. artifact'[x] # None => handler'[artifact'[x]].id = x
      BY <1>7, <1>11 DEF RecordsInv, TypeOK, TablesSound
    <3>4. ASSUME interruptions' = 0, previous'[x] # None PROVE Somewhere(previous[x])'
      <4>1. PICK f : f = previous'[x]
        OBVIOUS
      <4>2. interruptions = 0 /\ Somewhere(f)
        BY <1>3, <1>4, <1>7, <3>4, <4>1 DEF RecordsInv, TypeOK, TablesSound
      <4>3. Somewhere(f)'
        BY <1>8, <3>4, <4>2, SomewhereStays
      <4> QED BY <4>1, <4>3 DEF Somewhere
    <3>5. ASSUME interruptions' = 0, status'[x] = "Succeeded" PROVE Somewhere(x)'
      <4>1. Somewhere(x)
        BY <1>6, <1>7, <3>5 DEF RecordsInv, TypeOK, TablesSound
      <4> QED BY <1>8, <3>5, <4>1, SomewhereStays
    <3> QED BY <3>1, <3>2, <3>3, <3>4, <3>5
  <2> QED BY <2>1 DEF TablesSound
<1>14. CommandsSound' /\ ReportsSound'
  BY <1>7, <1>8, NodesStay DEF RecordsInv
<1>15. PointerIsOtherInPostgres'
  BY <1>6, <1>7 DEF PointerIsOtherInPostgres
<1>16. SettledHasSnapshot'
  BY <1>6, <1>7 DEF RecordsInv, TypeOK, SettledHasSnapshot, Statuses
<1> QED BY <1>11, <1>12, <1>13, <1>14, <1>15, <1>16 DEF RecordsInv

\* record_artifact_blob: the row it leaves is that of the request or of one before.
LEMMA StoreArtifactStep ==
    ASSUME RecordsInv, NEW r \in Requests, StoreArtifact(r)
    PROVE  RecordsInv'
<1>1. PICK h \in Handlers :
          /\ h = handler[r] /\ h.step = "compile" /\ h.id \in Ids /\ reply[r] = None
          /\ Shape(h, None) /\ Backed(h, None)
  BY AtAwait DEF StoreArtifact
<1>2. PICK d \in Ids : d = h.id
  BY <1>1
<1> DEFINE g == [h EXCEPT !.step = "stored"]
<1>3. /\ g \in Handlers
      /\ g.step = "stored" /\ g.op = h.op /\ g.node = h.node /\ g.id = h.id
      /\ g.key = h.key /\ g.to = h.to /\ g.sequence = h.sequence /\ g.observed = h.observed
  BY DEF Handlers
<1>4. GoTo(r, g) /\ artifact' = [artifact EXCEPT ![d] = IF @ = None THEN r ELSE @]
  BY <1>1, <1>2 DEF StoreArtifact
<1>5. /\ UNCHANGED <<store, nodeSequences, plan, created, finished, status, pointed, previous,
                     snapshot, health, responses, queue, rows, enqueued>>
      /\ UNCHANGED <<last, executed, installed, active, report, runner>>
      /\ UNCHANGED <<plans, samples, ends, interruptions>>
  BY DEF StoreArtifact, nodeVars, bounds
<1> HIDE DEF g
<1>6. Grows
  BY <1>4, <1>5, RolloutAssumption DEF Grows, RecordsInv, TypeOK
<1>7. Shape(g, None)
  BY <1>1, <1>3 DEF Shape
<1>8. Backed(g, None)'
  <2>1. artifact'[d] # None
    BY <1>4, RolloutAssumption DEF RecordsInv, TypeOK
  <2>2. Backed(h, None)'
    BY <1>1, <1>6, BackedStays
  <2> QED BY <1>1, <1>2, <1>3, <2>1, <2>2 DEF Backed
<1>9. /\ handler' \in [Requests -> Handlers]
      /\ reply' \in [Requests -> Replies \cup {None}]
      /\ HandlersSound'
      /\ \A x \in Requests : handler'[x].id = handler[x].id
  BY <1>1, <1>3, <1>4, <1>6, <1>7, <1>8, WriterGoesOn
<1>10. TypeOK'
  BY <1>4, <1>5, <1>9 DEF RecordsInv, TypeOK
<1>11. ASSUME NEW x \in Ids, artifact'[x] # None
       PROVE  handler'[artifact'[x]].id = x
  BY <1>1, <1>2, <1>4, <1>9, <1>11 DEF RecordsInv, TypeOK, TablesSound
<1>12. TablesSound'
  BY <1>5, <1>11 DEF RecordsInv, TablesSound, Somewhere
<1>13. CommandsSound' /\ ReportsSound'
  BY <1>5, <1>6, NodesStay DEF RecordsInv
<1>14. PointerIsOtherInPostgres' /\ SettledHasSnapshot'
  BY <1>5 DEF RecordsInv, PointerIsOtherInPostgres, SettledHasSnapshot
<1> QED BY <1>9, <1>10, <1>12, <1>13, <1>14 DEF RecordsInv

\* The deployment row, inserted as Pending or left as it is.
LEMMA InsertPlanStep ==
    ASSUME RecordsInv, NEW r \in Requests, InsertPlan(r)
    PROVE  RecordsInv'
<1>1. PICK h \in Handlers :
          /\ h = handler[r] /\ h.step = "insert" /\ h.id \in Ids /\ reply[r] = None
          /\ Shape(h, None) /\ Backed(h, None)
  BY AtAwait DEF InsertPlan
<1>2. PICK d \in Ids, n \in Nodes : d = h.id /\ n = h.node
  BY <1>1 DEF Shape
<1> DEFINE g == [h EXCEPT !.step = "link"]
<1>3. /\ g \in Handlers
      /\ g.step = "link" /\ g.op = h.op /\ g.node = h.node /\ g.id = h.id
      /\ g.key = h.key /\ g.to = h.to /\ g.sequence = h.sequence /\ g.observed = h.observed
  BY DEF Handlers
<1>4. /\ \/ /\ plan[d] = None
            /\ plan' = [plan EXCEPT ![d] = n]
            /\ created' = [created EXCEPT ![d] = plans + 1]
            /\ plans' = plans + 1
            /\ status' = [status EXCEPT ![d] = "Pending"]
         \/ /\ plan[d] # None
            /\ UNCHANGED <<plan, created, plans, status>>
      /\ GoTo(r, g)
  BY <1>1, <1>2 DEF InsertPlan
<1>5. /\ UNCHANGED <<store, nodeSequences, artifact, finished, pointed, previous, snapshot,
                     health, responses, queue, rows, enqueued, samples, ends, interruptions>>
      /\ UNCHANGED <<last, executed, installed, active, report, runner>>
  BY DEF InsertPlan, nodeVars
<1> HIDE DEF g
<1>6. /\ plan' \in [Ids -> Nodes \cup {None}] /\ created' \in [Ids -> Nat] /\ plans' \in Nat
      /\ status' \in [Ids -> Statuses \cup {None}]
      /\ plan'[d] # None /\ \A x \in Ids : plan[x] # None => plan'[x] # None
      /\ \A x \in Ids : status'[x] = status[x] \/ status'[x] = "Pending"
      /\ \A x \in Ids : status'[x] # None => plan'[x] # None
  <2>1. CASE plan[d] = None
    <3>1. /\ plan' = [plan EXCEPT ![d] = n]
          /\ created' = [created EXCEPT ![d] = plans + 1]
          /\ plans' = plans + 1
          /\ status' = [status EXCEPT ![d] = "Pending"]
      BY <1>4, <2>1
    <3>2. n # None
      BY RolloutAssumption
    <3> QED BY <3>1, <3>2 DEF RecordsInv, TypeOK, Statuses, TablesSound
  <2>2. CASE plan[d] # None
    BY <1>4, <2>2 DEF RecordsInv, TypeOK, TablesSound
  <2> QED BY <2>1, <2>2
<1>7. Grows
  BY <1>5, <1>6 DEF Grows
<1>8. Shape(g, None)
  BY <1>1, <1>3 DEF Shape
<1>9. Backed(g, None)'
  <2>1. Backed(h, None)'
    BY <1>1, <1>7, BackedStays
  <2> QED BY <1>1, <1>2, <1>3, <1>6, <2>1 DEF Backed
<1>10. /\ handler' \in [Requests -> Handlers]
       /\ reply' \in [Requests -> Replies \cup {None}]
       /\ HandlersSound'
       /\ \A x \in Requests : handler'[x].id = handler[x].id
  BY <1>1, <1>3, <1>4, <1>7, <1>8, <1>9, WriterGoesOn
<1>11. TypeOK'
  BY <1>5, <1>6, <1>10 DEF RecordsInv, TypeOK
<1>12. ASSUME NEW x \in Ids, artifact'[x] # None
       PROVE  handler'[artifact'[x]].id = x
  BY <1>5, <1>10, <1>12 DEF RecordsInv, TypeOK, TablesSound
<1>13. TablesSound'
  <2>1. ASSUME NEW x \in Ids
        PROVE  /\ status'[x] \in Statuses \ {"Pending"} => x \in pointed'
               /\ interruptions' = 0 /\ status'[x] = "Succeeded" => Somewhere(x)'
    BY <1>5, <1>6 DEF RecordsInv, TablesSound, Somewhere
  <2>2. ASSUME NEW x \in Ids
        PROVE  /\ previous'[x] # None => x \in pointed'
               /\ interruptions' = 0 /\ previous'[x] # None => Somewhere(previous[x])'
    BY <1>5 DEF RecordsInv, TablesSound, Somewhere
  <2> QED BY <1>6, <1>12, <2>1, <2>2 DEF TablesSound
<1>14. CommandsSound' /\ ReportsSound'
  BY <1>5, <1>7, NodesStay DEF RecordsInv
<1>15. PointerIsOtherInPostgres' /\ SettledHasSnapshot'
  <2>1. \A x \in Ids : status'[x] \in Statuses \ {"Pending"} => status'[x] = status[x]
    BY <1>6
  <2> QED BY <1>5, <2>1 DEF RecordsInv, PointerIsOtherInPostgres, SettledHasSnapshot
<1> QED BY <1>10, <1>11, <1>13, <1>14, <1>15 DEF RecordsInv

\* The pointer row: a first pointer is never to the deployment itself, because a
\* deployment that was found Succeeded has its pointer.
LEMMA InsertPointerStep ==
    ASSUME RecordsInv, NEW r \in Requests, InsertPointer(r)
    PROVE  RecordsInv'
<1>1. PICK h \in Handlers :
          /\ h = handler[r] /\ h.step = "link" /\ h.id \in Ids /\ reply[r] = None
          /\ Shape(h, None) /\ Backed(h, None)
  BY AtAwait DEF InsertPointer
<1>2. PICK d \in Ids, e \in Ids \cup {None} : d = h.id /\ e = h.to
  BY <1>1, HandlerFields
<1>3. /\ plan[d] # None /\ (e = d => d \in pointed)
      /\ interruptions = 0 /\ e # None => Somewhere(e)
  BY <1>1, <1>2 DEF Backed
<1> DEFINE g == [h EXCEPT !.step = "ready", !.to = None]
<1>4. /\ g \in Handlers
      /\ g.step = "ready" /\ g.op = h.op /\ g.node = h.node /\ g.id = h.id
      /\ g.key = h.key /\ g.to = None /\ g.sequence = h.sequence /\ g.observed = h.observed
  BY DEF Handlers
<1>5. /\ previous' = [previous EXCEPT ![d] = IF d \in pointed THEN @ ELSE e]
      /\ pointed' = pointed \cup {d}
      /\ GoTo(r, g)
  BY <1>1, <1>2 DEF InsertPointer, Linked
<1>6. /\ UNCHANGED <<store, nodeSequences, artifact, plan, created, finished, status, snapshot,
                     health, responses, queue, rows, enqueued>>
      /\ UNCHANGED <<last, executed, installed, active, report, runner>>
      /\ UNCHANGED <<plans, samples, ends, interruptions>>
  BY DEF InsertPointer, nodeVars, bounds
<1> HIDE DEF g
<1>7. Grows
  BY <1>5, <1>6 DEF Grows
<1>8. Shape(g, None)
  BY <1>1, <1>4 DEF Shape
<1>9. Backed(g, None)'
  <2>1. Backed(h, None)'
    BY <1>1, <1>7, BackedStays
  <2> QED BY <1>1, <1>2, <1>3, <1>4, <1>5, <1>6, <2>1 DEF Backed
<1>10. /\ handler' \in [Requests -> Handlers]
       /\ reply' \in [Requests -> Replies \cup {None}]
       /\ HandlersSound'
       /\ \A x \in Requests : handler'[x].id = handler[x].id
  BY <1>1, <1>4, <1>5, <1>7, <1>8, <1>9, WriterGoesOn
<1>11. TypeOK'
  BY <1>5, <1>6, <1>10 DEF RecordsInv, TypeOK
<1>12. ASSUME NEW x \in Ids, artifact'[x] # None
       PROVE  handler'[artifact'[x]].id = x
  BY <1>6, <1>10, <1>12 DEF RecordsInv, TypeOK, TablesSound
<1>13. ASSUME NEW x \in Ids
       PROVE  \/ previous'[x] = previous[x]
              \/ x = d /\ d \notin pointed /\ previous'[x] = e
  BY <1>5 DEF RecordsInv, TypeOK
<1>14. ASSUME NEW x \in Ids, interruptions' = 0, previous'[x] # None
       PROVE  Somewhere(previous[x])'
  <2>1. PICK f : f = previous'[x]
    OBVIOUS
  <2>2. interruptions = 0 /\ Somewhere(f)
    BY <1>3, <1>6, <1>13, <1>14, <2>1 DEF RecordsInv, TablesSound
  <2>3. Somewhere(f)'
    BY <1>7, <1>14, <2>2, SomewhereStays
  <2> QED BY <2>1, <2>3 DEF Somewhere
<1>15. ASSUME NEW x \in Ids, interruptions' = 0, status'[x] = "Succeeded"
       PROVE  Somewhere(x)'
  <2>1. Somewhere(x)
    BY <1>6, <1>15 DEF RecordsInv, TablesSound
  <2> QED BY <1>7, <1>15, <2>1, SomewhereStays
<1>16. TablesSound'
  BY <1>5, <1>6, <1>12, <1>13, <1>14, <1>15 DEF RecordsInv, TablesSound
<1>17. CommandsSound' /\ ReportsSound'
  BY <1>6, <1>7, NodesStay DEF RecordsInv
<1>18. PointerIsOtherInPostgres'
  BY <1>3, <1>6, <1>13 DEF RecordsInv, PointerIsOtherInPostgres
<1>19. SettledHasSnapshot'
  BY <1>6 DEF RecordsInv, SettledHasSnapshot
<1> QED BY <1>10, <1>11, <1>16, <1>17, <1>18, <1>19 DEF RecordsInv

-----------------------------------------------------------------------------
(* The queue.                                                              *)

\* What is in a queue once a command is appended.
LEMMA ElementsAppend ==
    ASSUME NEW q \in Seq(Commands), NEW c \in Commands
    PROVE  Append(q, c) \in Seq(Commands) /\ Elements(Append(q, c)) = Elements(q) \cup {c}
<1>1. /\ Append(q, c) \in Seq(Commands)
      /\ DOMAIN Append(q, c) = 1 .. (Len(q) + 1) /\ DOMAIN q = 1 .. Len(q)
      /\ \A i \in 1 .. Len(q) : Append(q, c)[i] = q[i]
      /\ Append(q, c)[Len(q) + 1] = c /\ Len(q) \in Nat
  OBVIOUS
<1>2. Elements(q) \cup {c} \subseteq Elements(Append(q, c))
  BY <1>1 DEF Elements
<1>3. Elements(Append(q, c)) \subseteq Elements(q) \cup {c}
  BY <1>1 DEF Elements
<1> QED BY <1>1, <1>2, <1>3

\* The command of a handler that has signed it.
LEMMA CommandOfType ==
    ASSUME RecordsInv, NEW r \in Requests, handler[r].step = "signed"
    PROVE  /\ CommandOf(r) \in Commands
           /\ CommandOf(r).nonce = r /\ CommandOf(r).node = handler[r].node
           /\ CommandOf(r).sequence = handler[r].sequence
           /\ CommandOf(r).id = handler[r].id /\ CommandOf(r).to = handler[r].to
           /\ CommandOf(r).kind = "rollback" => handler[r].op # "compile"
<1>1. PICK h \in Handlers : h = handler[r] /\ h.id \in Ids /\ Shape(h, None)
  BY AtAwait
<1>2. h.step = "signed" /\ h.node \in Nodes /\ h.to \in Ids \cup {None} /\ h.sequence \in Nat
  BY <1>1, HandlerFields DEF Shape
<1> QED BY <1>1, <1>2 DEF CommandOf, Commands

\* enqueue_runner_command adds the one command to what is to be delivered.
LEMMA EnqueueAdds ==
    ASSUME RecordsInv, NEW r \in Requests, Enqueue(r)
    PROVE  /\ queue' \in [Nodes -> Seq(Commands)] /\ rows' \in [Nodes -> SUBSET Commands]
           /\ \A n \in Nodes :
                  Undelivered(n)' = Undelivered(n) \cup
                      (IF n = handler[r].node THEN {CommandOf(r)} ELSE {})
<1>1. PICK m \in Nodes : m = handler[r].node
  BY AtAwait DEF Enqueue, Shape
<1>2. PICK c \in Commands : c = CommandOf(r)
  BY CommandOfType DEF Enqueue
<1>3. queue \in [Nodes -> Seq(Commands)] /\ rows \in [Nodes -> SUBSET Commands]
  BY DEF RecordsInv, TypeOK
<1>4. \/ queue' = [queue EXCEPT ![m] = Append(@, c)] /\ rows' = rows
      \/ rows' = [rows EXCEPT ![m] = @ \cup {c}] /\ queue' = queue
  BY <1>1, <1>2 DEF Enqueue
<1>5. CASE queue' = [queue EXCEPT ![m] = Append(@, c)] /\ rows' = rows
  <2>1. queue[m] \in Seq(Commands)
    BY <1>3
  <2>2. /\ Append(queue[m], c) \in Seq(Commands)
        /\ Elements(Append(queue[m], c)) = Elements(queue[m]) \cup {c}
    BY <2>1, ElementsAppend
  <2>3. /\ queue' \in [Nodes -> Seq(Commands)] /\ queue'[m] = Append(queue[m], c)
        /\ \A n \in Nodes \ {m} : queue'[n] = queue[n]
    BY <1>3, <1>5, <2>2
  <2>4. Undelivered(m)' = Undelivered(m) \cup {c}
    BY <1>5, <2>2, <2>3 DEF Undelivered, Elements
  <2>5. ASSUME NEW n \in Nodes \ {m} PROVE Undelivered(n)' = Undelivered(n)
    BY <1>5, <2>3 DEF Undelivered, Elements
  <2> QED BY <1>1, <1>2, <1>3, <1>5, <2>3, <2>4, <2>5
<1>6. CASE rows' = [rows EXCEPT ![m] = @ \cup {c}] /\ queue' = queue
  <2>1. /\ rows' \in [Nodes -> SUBSET Commands] /\ rows'[m] = rows[m] \cup {c}
        /\ \A n \in Nodes \ {m} : rows'[n] = rows[n]
    BY <1>3, <1>6
  <2>2. Undelivered(m)' = Undelivered(m) \cup {c}
    BY <1>6, <2>1 DEF Undelivered, Elements
  <2>3. ASSUME NEW n \in Nodes \ {m} PROVE Undelivered(n)' = Undelivered(n)
    BY <1>6, <2>1 DEF Undelivered, Elements
  <2> QED BY <1>1, <1>2, <1>3, <1>6, <2>1, <2>2, <2>3
<1> QED BY <1>4, <1>5, <1>6

\* The command is queued, and the handler answers unless it has a response to store.
LEMMA EnqueueStep ==
    ASSUME RecordsInv, NEW r \in Requests, Enqueue(r)
    PROVE  RecordsInv'
<1>1. PICK h \in Handlers :
          /\ h = handler[r] /\ h.step = "signed" /\ h.id \in Ids /\ reply[r] = None
          /\ Shape(h, None) /\ Backed(h, None) /\ h.op \in Operations
  BY AtAwait DEF Enqueue
<1>2. PICK c \in Commands : c = CommandOf(r)
  BY <1>1, CommandOfType
<1>3. CommandSound(c)
  <2>1. c.id = h.id /\ c.to = h.to /\ (c.kind = "rollback" => h.op # "compile")
    BY <1>1, <1>2, CommandOfType
  <2>2. h.id \in pointed /\ (h.op # "compile" => h.to \in Ids)
    BY <1>1 DEF Shape, Backed
  <2>3. h.to \in Ids /\ interruptions = 0 => Somewhere(h.to)
    BY <1>1, RolloutAssumption DEF Backed
  <2> QED BY <2>1, <2>2, <2>3 DEF CommandSound
<1>4. /\ queue' \in [Nodes -> Seq(Commands)] /\ rows' \in [Nodes -> SUBSET Commands]
      /\ \A n \in Nodes : Undelivered(n)' \subseteq Undelivered(n) \cup {c}
  BY <1>2, EnqueueAdds
<1>5. /\ UNCHANGED <<nodeSequences, responses>> /\ enqueued' = enqueued \cup {r}
      /\ UNCHANGED storeVars /\ UNCHANGED nodeVars /\ UNCHANGED bounds
  BY DEF Enqueue
<1>6. Grows
  BY <1>5 DEF Grows, storeVars, nodeVars, bounds
<1>7. CommandsSound'
  <2>1. ASSUME NEW n \in Nodes, NEW e \in Undelivered(n)' PROVE CommandSound(e)'
    <3>1. CommandSound(e)
      BY <1>3, <1>4 DEF CommandsSound, RecordsInv
    <3> QED BY <1>6, <3>1, CommandStays
  <2> QED BY <2>1 DEF CommandsSound
<1>8. ReportsSound'
  BY <1>5, <1>6, ReportStays DEF ReportsSound, RecordsInv, storeVars, nodeVars
<1>9. \E g \in Handlers, a \in Replies \cup {None} :
          /\ handler' = [handler EXCEPT ![r] = g] /\ reply' = [reply EXCEPT ![r] = a]
          /\ g.id = h.id /\ Shape(g, a) /\ Backed(g, a)
  <2>1. CASE h.key # None /\ GoTo(r, [h EXCEPT !.step = "queued"])
    <3> DEFINE g == [h EXCEPT !.step = "queued"]
    <3>1. /\ g \in Handlers
          /\ g.step = "queued" /\ g.op = h.op /\ g.node = h.node /\ g.id = h.id
          /\ g.key = h.key /\ g.to = h.to /\ g.sequence = h.sequence
          /\ g.observed = h.observed
      BY DEF Handlers
    <3>2. GoTo(r, g)
      BY <2>1
    <3> HIDE DEF g
    <3>3. handler' = [handler EXCEPT ![r] = g] /\ reply' = [reply EXCEPT ![r] = None]
      BY <1>1, <3>1, <3>2, Goes DEF RecordsInv
    <3>4. h.op = "compile" /\ h.key \in Keys
      BY <1>1, <2>1, HandlerFields, RolloutAssumption DEF Shape
    <3>5. Shape(g, None)
      BY <1>1, <3>1, <3>4 DEF Shape
    <3>6. Backed(g, None)
      BY <1>1, <3>1 DEF Backed
    <3> QED BY <3>1, <3>3, <3>5, <3>6
  <2>2. CASE /\ h.key = None
             /\ Answer(r, h, IF h.op = "compile" THEN "compiled" ELSE "rollback_queued")
    <3>1. PICK a \in Replies :
              /\ a = IF h.op = "compile" THEN "compiled" ELSE "rollback_queued"
              /\ a # "promoted" /\ (a = "compiled" => h.op = "compile")
      BY DEF Replies
    <3>2. PICK g \in Handlers :
              /\ handler' = [handler EXCEPT ![r] = g] /\ reply' = [reply EXCEPT ![r] = a]
              /\ g.step = "done" /\ g.op = None /\ g.to = None /\ g.observed = None
              /\ g.id = h.id /\ g.node = h.node /\ g.key = h.key
              /\ g.sequence = h.sequence
      BY <2>2, <3>1, Answers DEF RecordsInv
    <3>3. Shape(g, a)
      BY <1>1, <2>2, <3>2 DEF Shape
    <3>4. h.id \in pointed /\ (h.op = "compile" => plan[h.id] # None)
      BY <1>1 DEF Backed
    <3>5. Backed(g, a)
      BY <3>1, <3>2, <3>4, RolloutAssumption DEF Backed, Statuses
    <3> QED BY <3>2, <3>3, <3>5
  <2> QED BY <1>1, <2>1, <2>2 DEF Enqueue
<1>10. PICK g \in Handlers, a \in Replies \cup {None} :
          /\ handler' = [handler EXCEPT ![r] = g] /\ reply' = [reply EXCEPT ![r] = a]
          /\ g.id = h.id /\ Shape(g, a) /\ Backed(g, a)
  BY <1>9
<1>11. Backed(g, a)'
  BY <1>6, <1>10, BackedStays
<1>12. /\ handler' \in [Requests -> Handlers]
       /\ reply' \in [Requests -> Replies \cup {None}]
       /\ HandlersSound'
  BY <1>6, <1>10, <1>11, OneMoves DEF RecordsInv
<1>13. TypeOK'
  BY <1>4, <1>5, <1>12 DEF RecordsInv, TypeOK, storeVars, nodeVars, bounds
<1>14. \A x \in Requests : handler'[x].id = handler[x].id
  BY <1>1, <1>10 DEF RecordsInv, TypeOK
<1>15. TablesSound'
  BY <1>5, <1>14 DEF RecordsInv, TypeOK, TablesSound, Somewhere, storeVars, nodeVars, bounds
<1>16. PointerIsOtherInPostgres' /\ SettledHasSnapshot'
  BY <1>5 DEF RecordsInv, PointerIsOtherInPostgres, SettledHasSnapshot, storeVars,
              nodeVars, bounds
<1> QED BY <1>7, <1>8, <1>12, <1>13, <1>15, <1>16 DEF RecordsInv

-----------------------------------------------------------------------------
(* The nodes.                                                              *)

\* A popped queue is a suffix of the queue.
LEMMA RestIsSuffix ==
    ASSUME NEW q \in Seq(Commands), NEW i \in DOMAIN q
    PROVE  /\ Rest(q, i) \in Seq(Commands)
           /\ \A j \in DOMAIN Rest(q, i) : i + j \in DOMAIN q /\ Rest(q, i)[j] = q[i + j]
           /\ Elements(Rest(q, i)) \subseteq Elements(q)
<1>1. i \in Nat /\ i >= 1 /\ i <= Len(q) /\ Len(q) \in Nat /\ DOMAIN q = 1 .. Len(q)
  OBVIOUS
<1>2. /\ Rest(q, i) \in Seq(Commands) /\ DOMAIN Rest(q, i) = 1 .. (Len(q) - i)
      /\ \A j \in 1 .. (Len(q) - i) : Rest(q, i)[j] = q[i + j]
  BY <1>1 DEF Rest
<1>3. \A j \in DOMAIN Rest(q, i) : i + j \in DOMAIN q /\ Rest(q, i)[j] = q[i + j]
  BY <1>1, <1>2
<1> QED BY <1>2, <1>3 DEF Elements

\* A command that is handed out was to be delivered, and what is left was too.
LEMMA HandsOutShrinks ==
    ASSUME TypeOK, NEW n \in Nodes, NEW c \in Undelivered(n), HandsOut(n, c)
    PROVE  /\ c \in Commands /\ c.sequence > last[n]
           /\ queue' \in [Nodes -> Seq(Commands)] /\ rows' \in [Nodes -> SUBSET Commands]
           /\ \A m \in Nodes : Undelivered(m)' \subseteq Undelivered(m)
<1>1. queue \in [Nodes -> Seq(Commands)] /\ rows \in [Nodes -> SUBSET Commands]
  BY DEF TypeOK
<1>2. c \in Commands
  BY <1>1 DEF Undelivered, Elements
<1>3. CASE \E i \in DOMAIN queue[n] :
              /\ FirstFresh(queue[n], last[n], i) /\ c = queue[n][i]
              /\ queue' = [queue EXCEPT ![n] = Rest(@, i)] /\ rows' = rows
  <2>1. PICK i \in DOMAIN queue[n] :
            /\ FirstFresh(queue[n], last[n], i) /\ c = queue[n][i]
            /\ queue' = [queue EXCEPT ![n] = Rest(@, i)] /\ rows' = rows
    BY <1>3
  <2>2. queue[n] \in Seq(Commands)
    BY <1>1
  <2>3. /\ Rest(queue[n], i) \in Seq(Commands)
        /\ Elements(Rest(queue[n], i)) \subseteq Elements(queue[n])
    BY <2>2, RestIsSuffix
  <2>4. /\ queue' \in [Nodes -> Seq(Commands)] /\ queue'[n] = Rest(queue[n], i)
        /\ \A m \in Nodes \ {n} : queue'[m] = queue[m]
    BY <1>1, <2>1, <2>3
  <2>5. ASSUME NEW m \in Nodes PROVE Undelivered(m)' \subseteq Undelivered(m)
    <3>1. Elements(queue[m])' \subseteq Elements(queue[m])
      BY <2>3, <2>4 DEF Elements
    <3> QED BY <2>1, <3>1 DEF Undelivered
  <2>6. c.sequence > last[n]
    BY <2>1 DEF FirstFresh
  <2> QED BY <1>1, <1>2, <2>1, <2>4, <2>5, <2>6
<1>4. CASE /\ c.sequence > last[n] /\ queue' = queue
           /\ rows' = [rows EXCEPT ![n] = {d \in @ \ {c} : d.sequence > last[n]}]
  <2>1. rows' \in [Nodes -> SUBSET Commands] /\ \A m \in Nodes : rows'[m] \subseteq rows[m]
    BY <1>1, <1>4
  <2>2. ASSUME NEW m \in Nodes PROVE Undelivered(m)' \subseteq Undelivered(m)
    BY <1>4, <2>1 DEF Undelivered, Elements
  <2> QED BY <1>1, <1>2, <1>4, <2>1, <2>2
<1> QED BY <1>3, <1>4 DEF HandsOut

\* Handlers and tables do not change; the nodes lose nothing, or are interrupted.
LEMMA TablesStay ==
    ASSUME RecordsInv, Grows, UNCHANGED handlerVars, UNCHANGED storeVars
    PROVE  HandlersSound' /\ TablesSound' /\ PointerIsOtherInPostgres'
<1> USE DEF handlerVars, storeVars
<1>1. HandlersSound'
  <2>1. ASSUME NEW x \in Requests
        PROVE  (Shape(handler[x], reply[x]) /\ Backed(handler[x], reply[x]))'
    <3>1. PICK h \in Handlers, a \in Replies \cup {None} : h = handler[x] /\ a = reply[x]
      BY DEF RecordsInv, TypeOK
    <3>2. Shape(h, a) /\ Backed(h, a)
      BY <3>1 DEF RecordsInv, HandlersSound
    <3>3. Backed(h, a)'
      BY <3>2, BackedStays
    <3> QED BY <3>1, <3>2, <3>3 DEF Shape, Backed
  <2> QED BY <2>1 DEF HandlersSound
<1>2. TablesSound'
  <2>1. ASSUME NEW d \in Ids, interruptions' = 0
        PROVE  /\ previous[d] # None => Somewhere(previous[d])'
               /\ status[d] = "Succeeded" => Somewhere(d)'
    <3>1. PICK e : e = previous[d]
      OBVIOUS
    <3>2. interruptions = 0
      BY <2>1 DEF Grows
    <3>3. previous[d] # None => Somewhere(e)'
      BY <2>1, <3>1, <3>2, SomewhereStays DEF RecordsInv, TablesSound
    <3>4. status[d] = "Succeeded" => Somewhere(d)'
      BY <2>1, <3>2, SomewhereStays DEF RecordsInv, TablesSound
    <3> QED BY <3>1, <3>3, <3>4 DEF Somewhere
  <2> QED BY <2>1 DEF RecordsInv, TablesSound
<1> QED BY <1>1, <1>2 DEF RecordsInv, PointerIsOtherInPostgres

\* A runner executes a command: its result is one about a deployment with a pointer,
\* and a success leaves the release on the node.
LEMMA ExecuteStep ==
    ASSUME RecordsInv, NEW n \in Nodes, Execute(n)
    PROVE  RecordsInv'
<1> USE DEF RecordsInv
<1>1. PICK c \in Undelivered(n) :
          /\ Pops(n, c)
          /\ last' = [last EXCEPT ![n] = c.sequence]
          /\ executed' = executed \cup {c.nonce}
          /\ ApplySucceeds(n, c) \/ ApplyFails(n, c) \/ RollsBack(n, c)
  BY DEF Execute
<1>2. /\ c \in Commands
      /\ queue' \in [Nodes -> Seq(Commands)] /\ rows' \in [Nodes -> SUBSET Commands]
      /\ \A m \in Nodes : Undelivered(m)' \subseteq Undelivered(m)
  BY <1>1, HandsOutShrinks DEF Pops
<1>3. /\ runner' = [runner EXCEPT ![n] = "unsent"] /\ runner[n] = "polling"
      /\ UNCHANGED <<nodeSequences, responses, enqueued>>
      /\ UNCHANGED handlerVars /\ UNCHANGED storeVars /\ UNCHANGED bounds
  BY <1>1 DEF Execute, Pops
<1>4. PICK k \in {"apply", "rollback"}, d \in Ids, s \in Statuses \ {"Pending"} :
          /\ report' = [report EXCEPT ![n] = [kind |-> k, id |-> d, status |-> s]]
          /\ d = c.id
          /\ s = "Succeeded" => ApplySucceeds(n, c)
  <2>1. c.kind \in {"apply", "rollback"} /\ c.id \in Ids
    BY <1>2 DEF Commands
  <2>2. PICK s \in Statuses \ {"Pending"} :
            Reports(n, c, s) /\ (s = "Succeeded" => ApplySucceeds(n, c))
    <3>1. CASE ApplySucceeds(n, c)
      BY <3>1 DEF ApplySucceeds, Statuses
    <3>2. CASE ApplyFails(n, c)
      BY <3>2 DEF ApplyFails, Statuses
    <3>3. CASE RollsBack(n, c)
      BY <3>3 DEF RollsBack, Statuses
    <3> QED BY <1>1, <3>1, <3>2, <3>3
  <2> QED BY <2>1, <2>2 DEF Reports
<1>5. /\ installed' \in [Nodes -> SUBSET Ids] /\ active' \in [Nodes -> Ids \cup {None}]
      /\ \A m \in Nodes : installed[m] \subseteq installed'[m]
  <2>1. d \in Ids /\ c.to \in Ids \cup {None}
    BY <1>2 DEF Commands
  <2>2. CASE ApplySucceeds(n, c)
    BY <1>4, <2>2 DEF ApplySucceeds, TypeOK
  <2>3. CASE ApplyFails(n, c)
    BY <1>4, <2>3 DEF ApplyFails, TypeOK
  <2>4. CASE RollsBack(n, c)
    BY <2>1, <2>4 DEF RollsBack, TypeOK
  <2> QED BY <1>1, <2>2, <2>3, <2>4
<1>6. Grows
  BY <1>3, <1>5 DEF Grows, storeVars, bounds
<1>7. TypeOK'
  <2>1. report' \in [Nodes -> Results \cup {None}]
    BY <1>4 DEF TypeOK, Results
  <2>2. last' \in [Nodes -> Nat] /\ executed' \subseteq Requests
    BY <1>1, <1>2 DEF TypeOK, Commands
  <2> QED BY <1>2, <1>3, <1>5, <2>1, <2>2 DEF TypeOK, handlerVars, storeVars, bounds
<1>8. HandlersSound' /\ TablesSound' /\ PointerIsOtherInPostgres'
  BY <1>3, <1>6, TablesStay
<1>9. CommandsSound'
  BY <1>2, <1>6, CommandsStay
<1>10. ReportsSound'
  <2>1. ReportSound(n)'
    <3>1. /\ report'[n].id = d /\ report'[n].status = s /\ runner'[n] = "unsent"
          /\ report'[n] \in Results
      BY <1>3, <1>4 DEF TypeOK, Results
    <3>2. report'[n] # None
      BY <3>1, RolloutAssumption
    <3>3. d \in pointed'
      BY <1>3, <1>4 DEF CommandsSound, CommandSound, storeVars
    <3>4. s = "Succeeded" => Somewhere(d)'
      BY <1>4 DEF ApplySucceeds, Somewhere, TypeOK
    <3> QED BY <3>1, <3>2, <3>3, <3>4 DEF ReportSound, Somewhere
  <2>2. ASSUME NEW m \in Nodes \ {n} PROVE ReportSound(m)'
    <3>1. report'[m] = report[m] /\ runner'[m] = runner[m] /\ store' = store
      BY <1>3, <1>4 DEF TypeOK, storeVars
    <3> QED BY <1>6, <3>1, ReportStays DEF ReportsSound
  <2> QED BY <2>1, <2>2 DEF ReportsSound
<1>11. SettledHasSnapshot'
  <2>1. ASSUME NEW m \in Nodes, runner[m] = "snapshot"
        PROVE  runner'[m] = "snapshot" /\ report'[m] = report[m]
    BY <1>3, <1>4, <2>1 DEF TypeOK
  <2> QED BY <1>3, <2>1 DEF SettledHasSnapshot, storeVars, bounds
<1> QED BY <1>7, <1>8, <1>9, <1>10, <1>11

\* A poll that leaves nothing to deliver.
LEMMA DropStaleStep ==
    ASSUME RecordsInv, NEW n \in Nodes, DropStale(n)
    PROVE  RecordsInv'
<1> USE DEF RecordsInv
<1>1. /\ queue' = [queue EXCEPT ![n] = <<>>] /\ rows' = [rows EXCEPT ![n] = {}]
      /\ UNCHANGED <<nodeSequences, responses, enqueued>>
      /\ UNCHANGED handlerVars /\ UNCHANGED storeVars /\ UNCHANGED nodeVars
      /\ UNCHANGED bounds
  BY DEF DropStale
<1>2. Grows
  BY <1>1 DEF Grows, storeVars, nodeVars, bounds
<1>3. TypeOK'
  BY <1>1 DEF TypeOK, handlerVars, storeVars, nodeVars, bounds
<1>4. \A m \in Nodes : Undelivered(m)' \subseteq Undelivered(m)
  BY <1>1 DEF Undelivered, Elements, TypeOK
<1>5. HandlersSound' /\ TablesSound' /\ PointerIsOtherInPostgres'
  BY <1>1, <1>2, TablesStay
<1>6. CommandsSound' /\ ReportsSound'
  BY <1>1, <1>2, <1>4, CommandsStay, ReportStays DEF ReportsSound, storeVars, nodeVars
<1>7. SettledHasSnapshot'
  BY <1>1 DEF SettledHasSnapshot, storeVars, nodeVars, bounds
<1> QED BY <1>3, <1>5, <1>6, <1>7

\* A runner ends; a result that Postgres has recorded in part stays so.
LEMMA EndRunnerStep ==
    ASSUME RecordsInv, NEW n \in Nodes, EndRunner(n)
    PROVE  RecordsInv'
<1> USE DEF RecordsInv
<1>1. /\ ends' = ends + 1 /\ runner' = [runner EXCEPT ![n] = "ended"]
      /\ UNCHANGED <<nodeSequences, responses, enqueued, last, executed, installed, active,
                     report, plans, samples, interruptions>>
      /\ UNCHANGED handlerVars /\ UNCHANGED storeVars
  BY DEF EndRunner
<1>2. /\ queue' \in [Nodes -> Seq(Commands)] /\ rows' \in [Nodes -> SUBSET Commands]
      /\ \A m \in Nodes : Undelivered(m)' \subseteq Undelivered(m)
  <2>1. CASE \E c \in Undelivered(n) : Pops(n, c)
    BY <2>1, HandsOutShrinks DEF Pops
  <2>2. CASE UNCHANGED <<queue, rows>>
    BY <2>2 DEF TypeOK, Undelivered, Elements
  <2> QED BY <2>1, <2>2 DEF EndRunner
<1>3. Grows
  BY <1>1 DEF Grows, storeVars
<1>4. TypeOK'
  <2>1. /\ {plans, samples, ends, interruptions}' \subseteq Nat
        /\ runner' \in [Nodes -> {"polling", "unsent", "snapshot", "health", "ended"}]
    BY <1>1 DEF TypeOK
  <2> QED BY <1>1, <1>2, <2>1 DEF TypeOK, handlerVars, storeVars
<1>5. HandlersSound' /\ TablesSound' /\ PointerIsOtherInPostgres'
  BY <1>1, <1>3, TablesStay
<1>6. CommandsSound'
  BY <1>2, <1>3, CommandsStay
<1>7. ReportsSound'
  <2>1. ReportSound(n)'
    BY <1>1 DEF TypeOK, ReportsSound, ReportSound, Somewhere, storeVars
  <2>2. ASSUME NEW m \in Nodes \ {n} PROVE ReportSound(m)'
    <3>1. report'[m] = report[m] /\ runner'[m] = runner[m] /\ store' = store
      BY <1>1 DEF TypeOK, storeVars
    <3> QED BY <1>3, <3>1, ReportStays DEF ReportsSound
  <2> QED BY <2>1, <2>2 DEF ReportsSound
<1>8. SettledHasSnapshot'
  <2>1. ends' > 0
    BY <1>1 DEF TypeOK
  <2>2. ASSUME NEW m \in Nodes, runner[m] = "snapshot" PROVE store = "postgres"
    BY <2>2 DEF ReportsSound, ReportSound
  <2> QED BY <1>1, <2>1, <2>2 DEF SettledHasSnapshot, storeVars
<1> QED BY <1>4, <1>5, <1>6, <1>7, <1>8

\* A command is interrupted; from then on nothing is said about releases.
LEMMA InterruptStep ==
    ASSUME RecordsInv, NEW n \in Nodes, Interrupt(n)
    PROVE  RecordsInv'
<1> USE DEF RecordsInv
<1>1. PICK c \in Undelivered(n) :
          /\ Pops(n, c)
          /\ last' = [last EXCEPT ![n] = c.sequence]
          /\ executed' = executed \cup {c.nonce}
          /\ \E S \in {installed[n], installed[n] \cup {IF c.kind = "apply" THEN c.id ELSE c.to},
                        installed[n] \ {IF c.kind = "apply" THEN c.id ELSE c.to}} :
                 /\ c.kind = "rollback" => S = installed[n]
                 /\ installed' = [installed EXCEPT ![n] = S]
          /\ \E a \in {active[n], None, IF c.kind = "apply" THEN c.id ELSE c.to} :
                 active' = [active EXCEPT ![n] = a]
  BY DEF Interrupt
<1>2. /\ c \in Commands
      /\ queue' \in [Nodes -> Seq(Commands)] /\ rows' \in [Nodes -> SUBSET Commands]
      /\ \A m \in Nodes : Undelivered(m)' \subseteq Undelivered(m)
  BY <1>1, HandsOutShrinks DEF Pops
<1>3. /\ interruptions' = interruptions + 1
      /\ report' = [report EXCEPT ![n] = None] /\ runner' = [runner EXCEPT ![n] = "ended"]
      /\ runner[n] = "polling"
      /\ UNCHANGED <<nodeSequences, responses, enqueued, plans, samples, ends>>
      /\ UNCHANGED handlerVars /\ UNCHANGED storeVars
  BY <1>1 DEF Interrupt, Pops
<1>4. interruptions' # 0
  BY <1>3 DEF TypeOK
<1>5. Grows
  BY <1>3, <1>4 DEF Grows, storeVars
<1>6. TypeOK'
  <2>1. PICK d \in Ids \cup {None} :
            /\ d = IF c.kind = "apply" THEN c.id ELSE c.to
            /\ c.kind # "rollback" => d \in Ids
    BY <1>2 DEF Commands
  <2>2. installed' \in [Nodes -> SUBSET Ids] /\ active' \in [Nodes -> Ids \cup {None}]
    BY <1>1, <2>1 DEF TypeOK
  <2>3. last' \in [Nodes -> Nat] /\ executed' \subseteq Requests
    BY <1>1, <1>2 DEF TypeOK, Commands
  <2>4. /\ {plans, samples, ends, interruptions}' \subseteq Nat
        /\ runner' \in [Nodes -> {"polling", "unsent", "snapshot", "health", "ended"}]
        /\ report' \in [Nodes -> Results \cup {None}]
    BY <1>3 DEF TypeOK
  <2> QED BY <1>2, <1>3, <2>2, <2>3, <2>4 DEF TypeOK, handlerVars, storeVars
<1>7. HandlersSound' /\ TablesSound' /\ PointerIsOtherInPostgres'
  BY <1>3, <1>5, TablesStay
<1>8. CommandsSound'
  BY <1>2, <1>5, CommandsStay
<1>9. ReportsSound'
  <2>1. ReportSound(n)'
    BY <1>3 DEF TypeOK, ReportSound
  <2>2. ASSUME NEW m \in Nodes \ {n} PROVE ReportSound(m)'
    <3>1. report'[m] = report[m] /\ runner'[m] = runner[m] /\ store' = store
      BY <1>3 DEF TypeOK, storeVars
    <3> QED BY <1>5, <3>1, ReportStays DEF ReportsSound
  <2> QED BY <2>1, <2>2 DEF ReportsSound
<1>10. SettledHasSnapshot'
  <2>1. ASSUME NEW m \in Nodes, runner[m] = "snapshot"
        PROVE  runner'[m] = "snapshot" /\ report'[m] = report[m]
    BY <1>3, <2>1 DEF TypeOK
  <2> QED BY <1>3, <2>1 DEF SettledHasSnapshot, storeVars
<1> QED BY <1>6, <1>7, <1>8, <1>9, <1>10

\* The runner is started again.
LEMMA RestartStep ==
    ASSUME RecordsInv, NEW n \in Nodes, Restart(n)
    PROVE  RecordsInv'
<1> USE DEF RecordsInv
<1>1. /\ runner' = [runner EXCEPT ![n] = "polling"] /\ runner[n] = "ended"
      /\ last' = [last EXCEPT ![n] = 0]
      /\ UNCHANGED <<nodeSequences, responses, queue, rows, enqueued, executed, installed,
                     active, report>>
      /\ UNCHANGED handlerVars /\ UNCHANGED storeVars /\ UNCHANGED bounds
  BY DEF Restart
<1>2. Grows
  BY <1>1 DEF Grows, storeVars, bounds
<1>3. TypeOK'
  BY <1>1 DEF TypeOK, handlerVars, storeVars, bounds
<1>4. HandlersSound' /\ TablesSound' /\ PointerIsOtherInPostgres'
  BY <1>1, <1>2, TablesStay
<1>5. CommandsSound'
  BY <1>1, <1>2, CommandsStay DEF Undelivered, Elements
<1>6. ReportsSound'
  <2>1. ReportSound(n)'
    BY <1>1 DEF TypeOK, ReportsSound, ReportSound, Somewhere, storeVars, bounds
  <2>2. ASSUME NEW m \in Nodes \ {n} PROVE ReportSound(m)'
    <3>1. report'[m] = report[m] /\ runner'[m] = runner[m] /\ store' = store
      BY <1>1 DEF TypeOK, storeVars
    <3> QED BY <1>2, <3>1, ReportStays DEF ReportsSound
  <2> QED BY <2>1, <2>2 DEF ReportsSound
<1>7. SettledHasSnapshot'
  <2>1. ASSUME NEW m \in Nodes, runner[m] = "snapshot" PROVE runner'[m] = "snapshot"
    BY <1>1, <2>1 DEF TypeOK
  <2> QED BY <1>1, <2>1 DEF SettledHasSnapshot, storeVars, bounds
<1> QED BY <1>3, <1>4, <1>5, <1>6, <1>7

-----------------------------------------------------------------------------
(* Results and health samples.                                             *)

\* The result that a node holds.
LEMMA ReportFields ==
    ASSUME RecordsInv, NEW n \in Nodes, runner[n] \in {"unsent", "snapshot", "health"}
    PROVE  /\ report[n] \in Results /\ report[n].id \in Ids /\ report[n].id \in pointed
           /\ report[n].status \in Statuses \ {"Pending"}
           /\ HealthOf(report[n].status) \in {"healthy", "unhealthy"}
           /\ interruptions = 0 /\ report[n].status = "Succeeded" => Somewhere(report[n].id)
<1>1. report[n] # None /\ report[n] \in Results
  BY DEF RecordsInv, TypeOK, ReportsSound, ReportSound
<1> QED BY <1>1 DEF RecordsInv, ReportsSound, ReportSound, Results, HealthOf

\* The health sample of a result.
LEMMA SampledType ==
    ASSUME RecordsInv, NEW n \in Nodes, runner[n] \in {"unsent", "snapshot", "health"}
    PROVE  Sampled(n) \in [Ids -> Seq({"healthy", "unhealthy"})]
<1>1. PICK d \in Ids, s \in {"healthy", "unhealthy"} :
          d = report[n].id /\ s = HealthOf(report[n].status)
  BY ReportFields
<1>2. health \in [Ids -> Seq({"healthy", "unhealthy"})]
  BY DEF RecordsInv, TypeOK
<1>3. Append(health[d], s) \in Seq({"healthy", "unhealthy"})
  BY <1>2
<1> QED BY <1>1, <1>2, <1>3 DEF Sampled

\* The snapshot of a result: it is under the plan's node.
LEMMA SnapshottedType ==
    ASSUME RecordsInv, NEW n \in Nodes, runner[n] \in {"unsent", "snapshot"},
           plan[report[n].id] # None
    PROVE  /\ Snapshotted(n) \in [Ids -> [node : Nodes, status : Statuses] \cup {None}]
           /\ Snapshotted(n)[report[n].id] # None
           /\ \A d \in Ids : snapshot[d] # None => Snapshotted(n)[d] # None
<1>1. PICK d \in Ids, s \in Statuses, m \in Nodes :
          d = report[n].id /\ s = report[n].status /\ m = plan[d]
  BY ReportFields DEF RecordsInv, TypeOK
<1>2. PICK v \in [node : Nodes, status : Statuses] : v = [node |-> m, status |-> s]
  OBVIOUS
<1>3. Snapshotted(n) = [snapshot EXCEPT ![d] = v]
  BY <1>1, <1>2 DEF Snapshotted, Snapshot
<1>4. v # None
  BY RolloutAssumption
<1> QED BY <1>1, <1>3, <1>4 DEF RecordsInv, TypeOK

\* What a recorded result leaves to show: the tables have it, and the runner goes on.
LEMMA ResultRecorded ==
    ASSUME RecordsInv, NEW n \in Nodes,
           runner[n] \in {"unsent", "snapshot", "health"},
           \/ runner' = [runner EXCEPT ![n] = "polling"]
           \/ /\ runner' = [runner EXCEPT ![n] = "snapshot"]
                 \/ runner' = [runner EXCEPT ![n] = "health"]
              /\ store = "postgres",
           plan[report[n].id] # None,
           status' = status \/
               status' = [status EXCEPT ![report[n].id] = report[n].status],
           UNCHANGED <<store, nodeSequences, artifact, plan, created, pointed, previous,
                       responses, queue, rows, enqueued, last, executed, installed, active,
                       report>>,
           UNCHANGED handlerVars, UNCHANGED bounds
    PROVE  /\ HandlersSound' /\ TablesSound' /\ CommandsSound' /\ ReportsSound'
           /\ PointerIsOtherInPostgres'
           /\ status' \in [Ids -> Statuses \cup {None}]
           /\ runner' \in [Nodes -> {"polling", "unsent", "snapshot", "health", "ended"}]
<1> USE DEF RecordsInv, bounds
<1>1. PICK d \in Ids, v \in Statuses \ {"Pending"} : d = report[n].id /\ v = report[n].status
  BY ReportFields
<1>2. d \in pointed /\ (interruptions = 0 /\ v = "Succeeded" => Somewhere(d))
  BY <1>1, ReportFields
<1>3. Grows
  BY DEF Grows
<1>4. HandlersSound'
  BY DEF HandlersSound, Shape, Backed, Somewhere, handlerVars
<1>5. /\ status' \in [Ids -> Statuses \cup {None}]
      /\ \A x \in Ids : status'[x] = status[x] \/ (x = d /\ status'[x] = v)
  BY <1>1 DEF TypeOK
<1>6. TablesSound'
  <2>1. ASSUME NEW x \in Ids
        PROVE  /\ status'[x] # None => plan'[x] # None
               /\ status'[x] \in Statuses \ {"Pending"} => x \in pointed'
               /\ interruptions' = 0 /\ status'[x] = "Succeeded" => Somewhere(x)
    BY <1>1, <1>2, <1>5 DEF TablesSound
  <2> QED BY <2>1 DEF TablesSound, Somewhere, handlerVars
<1>7. CommandsSound'
  BY <1>3, CommandsStay DEF Undelivered, Elements
<1>8. ReportsSound'
  <2>1. ReportSound(n)'
    BY DEF TypeOK, ReportsSound, ReportSound, Somewhere
  <2>2. ASSUME NEW m \in Nodes \ {n} PROVE ReportSound(m)'
    <3>1. report'[m] = report[m] /\ runner'[m] = runner[m] /\ store' = store
      BY DEF TypeOK
    <3> QED BY <1>3, <3>1, ReportStays DEF ReportsSound
  <2> QED BY <2>1, <2>2 DEF ReportsSound
<1>9. runner' \in [Nodes -> {"polling", "unsent", "snapshot", "health", "ended"}]
  BY DEF TypeOK
<1> QED BY <1>4, <1>5, <1>6, <1>7, <1>8, <1>9 DEF PointerIsOtherInPostgres

\* record_deployment_result in memory: status, snapshot and sample at once.
LEMMA SubmitResultStep ==
    ASSUME RecordsInv, NEW n \in Nodes, SubmitResult(n)
    PROVE  RecordsInv'
<1>1. /\ runner[n] = "unsent" /\ plan[report[n].id] # None
      /\ status' = [status EXCEPT ![report[n].id] = report[n].status]
      /\ snapshot' = Snapshotted(n) /\ health' = Sampled(n)
      /\ runner' = [runner EXCEPT ![n] = "polling"]
      /\ UNCHANGED <<store, nodeSequences, artifact, plan, created, finished, pointed,
                     previous, responses, queue, rows, enqueued, last, executed, installed,
                     active, report>>
      /\ UNCHANGED handlerVars /\ UNCHANGED bounds
  BY DEF SubmitResult
<1>2. /\ HandlersSound' /\ TablesSound' /\ CommandsSound' /\ ReportsSound'
      /\ PointerIsOtherInPostgres'
      /\ status' \in [Ids -> Statuses \cup {None}]
      /\ runner' \in [Nodes -> {"polling", "unsent", "snapshot", "health", "ended"}]
  BY <1>1, ResultRecorded
<1>3. /\ snapshot' \in [Ids -> [node : Nodes, status : Statuses] \cup {None}]
      /\ snapshot'[report[n].id] # None
      /\ \A d \in Ids : snapshot[d] # None => snapshot'[d] # None
      /\ health' \in [Ids -> Seq({"healthy", "unhealthy"})]
  BY <1>1, SnapshottedType, SampledType
<1>4. TypeOK'
  BY <1>1, <1>2, <1>3 DEF RecordsInv, TypeOK, handlerVars, bounds
<1>5. SettledHasSnapshot'
  <2>1. ASSUME NEW d \in Ids, status'[d] \in Statuses \ {"Pending"}
        PROVE  \/ snapshot'[d] # None
               \/ store' = "postgres" /\ ends' > 0
               \/ \E m \in Nodes : runner'[m] = "snapshot" /\ report'[m].id = d
    <3>1. CASE d = report[n].id
      BY <1>3, <3>1
    <3>2. CASE d # report[n].id
      <4>1. status[d] \in Statuses \ {"Pending"}
        BY <1>1, <2>1, <3>2 DEF RecordsInv, TypeOK
      <4>2. ASSUME NEW m \in Nodes, runner[m] = "snapshot" PROVE runner'[m] = "snapshot"
        BY <1>1, <4>2 DEF RecordsInv, TypeOK
      <4> QED BY <1>1, <1>3, <4>1, <4>2 DEF RecordsInv, SettledHasSnapshot, bounds
    <3> QED BY <3>1, <3>2
  <2> QED BY <2>1 DEF SettledHasSnapshot
<1> QED BY <1>2, <1>4, <1>5 DEF RecordsInv

\* Postgres has the status and not yet the snapshot: its runner is still waiting.
LEMMA UpdateStatusStep ==
    ASSUME RecordsInv, NEW n \in Nodes, UpdateStatus(n)
    PROVE  RecordsInv'
<1>1. /\ store = "postgres" /\ runner[n] = "unsent" /\ plan[report[n].id] # None
      /\ status' = [status EXCEPT ![report[n].id] = report[n].status]
      /\ finished' = [finished EXCEPT ![report[n].id] =
                         IF @ # 0 THEN @
                         ELSE 1 + Cardinality({e \in Ids : finished[e] # 0})]
      /\ runner' = [runner EXCEPT ![n] = "snapshot"]
      /\ UNCHANGED <<store, nodeSequences, artifact, plan, created, pointed, previous,
                     snapshot, health, responses, queue, rows, enqueued, last, executed,
                     installed, active, report>>
      /\ UNCHANGED handlerVars /\ UNCHANGED bounds
  BY DEF UpdateStatus
<1>2. /\ HandlersSound' /\ TablesSound' /\ CommandsSound' /\ ReportsSound'
      /\ PointerIsOtherInPostgres'
      /\ status' \in [Ids -> Statuses \cup {None}]
      /\ runner' \in [Nodes -> {"polling", "unsent", "snapshot", "health", "ended"}]
  BY <1>1, ResultRecorded
<1>3. finished' \in [Ids -> Nat]
  <2>1. IsFiniteSet({e \in Ids : finished[e] # 0})
    BY RolloutAssumption, FS_Subset
  <2>2. PICK k \in Nat : k = Cardinality({e \in Ids : finished[e] # 0})
    BY <2>1, FS_CardinalityType
  <2>3. PICK i \in Nat : i = finished[report[n].id]
    BY <1>1, ReportFields DEF RecordsInv, TypeOK
  <2>4. PICK j \in Nat : j = IF i # 0 THEN i ELSE 1 + k
    OBVIOUS
  <2>5. finished' = [finished EXCEPT ![report[n].id] = j]
    BY <1>1, <2>2, <2>3, <2>4
  <2> QED BY <2>5 DEF RecordsInv, TypeOK
<1>4. TypeOK'
  BY <1>1, <1>2, <1>3 DEF RecordsInv, TypeOK, handlerVars, bounds
<1>5. SettledHasSnapshot'
  <2>1. ASSUME NEW d \in Ids, status'[d] \in Statuses \ {"Pending"}
        PROVE  \/ snapshot'[d] # None
               \/ store' = "postgres" /\ ends' > 0
               \/ \E m \in Nodes : runner'[m] = "snapshot" /\ report'[m].id = d
    <3>1. CASE d = report[n].id
      BY <1>1, <3>1 DEF RecordsInv, TypeOK
    <3>2. CASE d # report[n].id
      <4>1. status[d] \in Statuses \ {"Pending"}
        BY <1>1, <2>1, <3>2 DEF RecordsInv, TypeOK
      <4>2. ASSUME NEW m \in Nodes, runner[m] = "snapshot" PROVE runner'[m] = "snapshot"
        BY <1>1, <4>2 DEF RecordsInv, TypeOK
      <4> QED BY <1>1, <4>1, <4>2 DEF RecordsInv, SettledHasSnapshot, bounds
    <3> QED BY <3>1, <3>2
  <2> QED BY <2>1 DEF SettledHasSnapshot
<1> QED BY <1>2, <1>4, <1>5 DEF RecordsInv

\* Postgres has the snapshot.
LEMMA UpsertSnapshotStep ==
    ASSUME RecordsInv, NEW n \in Nodes, UpsertSnapshot(n)
    PROVE  RecordsInv'
<1>1. /\ runner[n] = "snapshot" /\ snapshot' = Snapshotted(n)
      /\ runner' = [runner EXCEPT ![n] = "health"]
      /\ UNCHANGED <<store, nodeSequences, artifact, plan, created, finished, status, pointed,
                     previous, health, responses, queue, rows, enqueued, last, executed,
                     installed, active, report>>
      /\ UNCHANGED handlerVars /\ UNCHANGED bounds
  BY DEF UpsertSnapshot
<1>2. store = "postgres" /\ plan[report[n].id] # None
  BY <1>1 DEF RecordsInv, ReportsSound, ReportSound
<1>3. /\ HandlersSound' /\ TablesSound' /\ CommandsSound' /\ ReportsSound'
      /\ PointerIsOtherInPostgres'
      /\ status' \in [Ids -> Statuses \cup {None}]
      /\ runner' \in [Nodes -> {"polling", "unsent", "snapshot", "health", "ended"}]
  BY <1>1, <1>2, ResultRecorded
<1>4. /\ snapshot' \in [Ids -> [node : Nodes, status : Statuses] \cup {None}]
      /\ snapshot'[report[n].id] # None
      /\ \A d \in Ids : snapshot[d] # None => snapshot'[d] # None
  BY <1>1, <1>2, SnapshottedType
<1>5. TypeOK'
  BY <1>1, <1>3, <1>4 DEF RecordsInv, TypeOK, handlerVars, bounds
<1>6. SettledHasSnapshot'
  <2>1. ASSUME NEW m \in Nodes, runner[m] = "snapshot", m # n PROVE runner'[m] = "snapshot"
    BY <1>1, <2>1 DEF RecordsInv, TypeOK
  <2> QED BY <1>1, <1>4, <2>1 DEF RecordsInv, SettledHasSnapshot, bounds
<1> QED BY <1>3, <1>5, <1>6 DEF RecordsInv

\* Postgres has the health sample, and the runner its answer.
LEMMA InsertHealthStep ==
    ASSUME RecordsInv, NEW n \in Nodes, InsertHealth(n)
    PROVE  RecordsInv'
<1>1. /\ runner[n] = "health" /\ health' = Sampled(n)
      /\ runner' = [runner EXCEPT ![n] = "polling"]
      /\ UNCHANGED <<store, nodeSequences, artifact, plan, created, finished, status, pointed,
                     previous, snapshot, responses, queue, rows, enqueued, last, executed,
                     installed, active, report>>
      /\ UNCHANGED handlerVars /\ UNCHANGED bounds
  BY DEF InsertHealth
<1>2. plan[report[n].id] # None
  BY <1>1 DEF RecordsInv, ReportsSound, ReportSound
<1>3. /\ HandlersSound' /\ TablesSound' /\ CommandsSound' /\ ReportsSound'
      /\ PointerIsOtherInPostgres'
      /\ status' \in [Ids -> Statuses \cup {None}]
      /\ runner' \in [Nodes -> {"polling", "unsent", "snapshot", "health", "ended"}]
  BY <1>1, <1>2, ResultRecorded
<1>4. health' \in [Ids -> Seq({"healthy", "unhealthy"})]
  BY <1>1, SampledType
<1>5. TypeOK'
  BY <1>1, <1>3, <1>4 DEF RecordsInv, TypeOK, handlerVars, bounds
<1>6. SettledHasSnapshot'
  <2>1. ASSUME NEW m \in Nodes, runner[m] = "snapshot" PROVE runner'[m] = "snapshot"
    BY <1>1, <2>1 DEF RecordsInv, TypeOK
  <2> QED BY <1>1, <2>1 DEF RecordsInv, SettledHasSnapshot, bounds
<1> QED BY <1>3, <1>5, <1>6 DEF RecordsInv

\* A node posts a health sample.
LEMMA PostHealthStep ==
    ASSUME RecordsInv, NEW n \in Nodes, NEW d \in Ids, NEW s \in {"healthy", "unhealthy"},
           PostHealth(n, d, s)
    PROVE  RecordsInv'
<1>1. /\ samples' = samples + 1 /\ health' = [health EXCEPT ![d] = Append(@, s)]
      /\ UNCHANGED <<store, nodeSequences, artifact, plan, created, finished, status, pointed,
                     previous, snapshot, responses, queue, rows, enqueued, plans, ends,
                     interruptions>>
      /\ UNCHANGED handlerVars /\ UNCHANGED nodeVars
  BY DEF PostHealth
<1>2. health' \in [Ids -> Seq({"healthy", "unhealthy"})]
  <2>1. health \in [Ids -> Seq({"healthy", "unhealthy"})]
    BY DEF RecordsInv, TypeOK
  <2>2. Append(health[d], s) \in Seq({"healthy", "unhealthy"})
    BY <2>1
  <2> QED BY <1>1, <2>1, <2>2
<1>3. {plans, samples, ends, interruptions}' \subseteq Nat
  BY <1>1 DEF RecordsInv, TypeOK
<1>4. TypeOK'
  BY <1>1, <1>2, <1>3 DEF RecordsInv, TypeOK, handlerVars, nodeVars
<1>5. /\ HandlersSound' /\ TablesSound'
  BY <1>1 DEF RecordsInv, HandlersSound, Shape, Backed, TablesSound, Somewhere, handlerVars,
              nodeVars
<1>6. Grows
  BY <1>1 DEF Grows, nodeVars
<1>7. CommandsSound' /\ ReportsSound'
  BY <1>1, <1>6, NodesStay DEF RecordsInv, nodeVars
<1>8. PointerIsOtherInPostgres' /\ SettledHasSnapshot'
  BY <1>1 DEF RecordsInv, PointerIsOtherInPostgres, SettledHasSnapshot, nodeVars
<1> QED BY <1>4, <1>5, <1>7, <1>8 DEF RecordsInv

-----------------------------------------------------------------------------
(* The invariant is inductive.                                             *)

\* A control plane without deployments, and nodes without releases.
LEMMA RecordsInitially == Init => RecordsInv
<1> SUFFICES ASSUME Init PROVE RecordsInv
  OBVIOUS
<1>1. NewHandler \in Handlers
  BY DEF NewHandler, Handlers
<1>2. TypeOK
  BY <1>1 DEF Init, TypeOK
<1>3. HandlersSound
  BY RolloutAssumption DEF Init, HandlersSound, Shape, Backed, NewHandler, Statuses, Replies
<1>4. TablesSound
  BY RolloutAssumption DEF Init, TablesSound, Statuses
<1>5. CommandsSound /\ ReportsSound
  BY DEF Init, CommandsSound, ReportsSound, ReportSound, Undelivered, Elements
<1>6. PointerIsOtherInPostgres /\ SettledHasSnapshot
  BY RolloutAssumption DEF Init, PointerIsOtherInPostgres, SettledHasSnapshot, Statuses
<1> QED BY <1>2, <1>3, <1>4, <1>5, <1>6 DEF RecordsInv

\* A step of something else.
LEMMA RecordsStutter ==
    ASSUME RecordsInv, UNCHANGED vars
    PROVE  RecordsInv'
<1> USE DEF RecordsInv, vars
<1>1. TypeOK' /\ HandlersSound' /\ TablesSound'
  BY DEF TypeOK, HandlersSound, Shape, Backed, TablesSound, Somewhere
<1>2. CommandsSound' /\ ReportsSound'
  BY DEF CommandsSound, CommandSound, ReportsSound, ReportSound, Undelivered, Elements,
         Somewhere
<1> QED BY <1>1, <1>2 DEF PointerIsOtherInPostgres, SettledHasSnapshot

\* Every step of a handler, of a runner and of a result keeps the records sound.
LEMMA RecordsPreserved == RecordsInv /\ [Next]_vars => RecordsInv'
<1> SUFFICES ASSUME RecordsInv, [Next]_vars PROVE RecordsInv'
  OBVIOUS
<1>1. CASE \E r \in Requests, n \in Nodes, d \in Ids, k \in Keys \cup {None} :
               StartCompile(r, n, d, k)
  BY <1>1, StartCompileStep
<1>2. CASE \E r \in Requests, d \in Ids : StartRollback(r, d)
  BY <1>2, StartRollbackStep
<1>3. CASE \E r \in Requests, d \in Ids : StartAdvance(r, d)
  BY <1>3, StartAdvanceStep
<1>4. CASE \E r \in Requests : RecordPlan(r)
  BY <1>4, RecordPlanStep
<1>5. CASE \E r \in Requests : StoreArtifact(r)
  BY <1>5, StoreArtifactStep
<1>6. CASE \E r \in Requests : LookUpPrevious(r)
  BY <1>6, LookUpPreviousStep
<1>7. CASE \E r \in Requests : Refused(r) \/ Abort(r)
  BY <1>7, RefusedStep
<1>8. CASE \E r \in Requests : InsertPlan(r)
  BY <1>8, InsertPlanStep
<1>9. CASE \E r \in Requests : InsertPointer(r)
  BY <1>9, InsertPointerStep
<1>10. CASE \E r \in Requests : Sign(r)
  BY <1>10, SignStep
<1>11. CASE \E r \in Requests : Enqueue(r)
  BY <1>11, EnqueueStep
<1>12. CASE \E r \in Requests : RecordResponse(r)
  BY <1>12, RecordResponseStep
<1>13. CASE \E r \in Requests : ReadHealth(r)
  BY <1>13, ReadHealthStep
<1>14. CASE \E r \in Requests : ReadPointer(r)
  BY <1>14, ReadPointerStep
<1>15. CASE \E r \in Requests : ReadSnapshot(r)
  BY <1>15, ReadSnapshotStep
<1>16. CASE \E n \in Nodes : Execute(n)
  BY <1>16, ExecuteStep
<1>17. CASE \E n \in Nodes : DropStale(n)
  BY <1>17, DropStaleStep
<1>18. CASE \E n \in Nodes : EndRunner(n)
  BY <1>18, EndRunnerStep
<1>19. CASE \E n \in Nodes : Interrupt(n)
  BY <1>19, InterruptStep
<1>20. CASE \E n \in Nodes : Restart(n)
  BY <1>20, RestartStep
<1>21. CASE \E n \in Nodes : SubmitResult(n)
  BY <1>21, SubmitResultStep
<1>22. CASE \E n \in Nodes : UpdateStatus(n)
  BY <1>22, UpdateStatusStep
<1>23. CASE \E n \in Nodes : UpsertSnapshot(n)
  BY <1>23, UpsertSnapshotStep
<1>24. CASE \E n \in Nodes : InsertHealth(n)
  BY <1>24, InsertHealthStep
<1>25. CASE \E n \in Nodes, d \in Ids, s \in {"healthy", "unhealthy"} : PostHealth(n, d, s)
  BY <1>25, PostHealthStep
<1>26. CASE UNCHANGED vars
  BY <1>26, RecordsStutter
<1> QED BY <1>1, <1>2, <1>3, <1>4, <1>5, <1>6, <1>7, <1>8, <1>9, <1>10, <1>11, <1>12,
           <1>13, <1>14, <1>15, <1>16, <1>17, <1>18, <1>19, <1>20, <1>21, <1>22, <1>23,
           <1>24, <1>25, <1>26 DEF Next

\* The records of deployments, commands and results fit together at all times.
LEMMA RecordsAlways == Spec => []RecordsInv
  BY RecordsInitially, RecordsPreserved, PTL DEF Spec

\* Handlers, tables, queues and nodes keep their types, whatever is interleaved,
\* dropped or interrupted.
THEOREM RolloutTypeCorrect == Spec => []TypeOK
<1>1. RecordsInv => TypeOK
  BY DEF RecordsInv
<1> QED BY <1>1, RecordsAlways, PTL

\* In Postgres no deployment is its own rollback target (record_deployment_plan):
\* a handler that found the deployment itself Succeeded found its pointer, too.
THEOREM PointerIsOtherInPostgresHolds == Spec => []PointerIsOtherInPostgres
<1>1. RecordsInv => PointerIsOtherInPostgres
  BY DEF RecordsInv
<1> QED BY <1>1, RecordsAlways, PTL

\* A deployment with a result has the snapshot that queue_rollback needs, unless
\* Postgres is between the two statements of record_deployment_result or was
\* dropped there.
THEOREM SettledHasSnapshotHolds == Spec => []SettledHasSnapshot
<1>1. RecordsInv => SettledHasSnapshot
  BY DEF RecordsInv
<1> QED BY <1>1, RecordsAlways, PTL

\* With one node, a rollback command on its way names a release that is installed
\* on it (enqueue_rollback_command).
THEOREM RollbackTargetInstalledHolds ==
    ASSUME NEW n, Nodes = {n}
    PROVE  Spec => []RollbackTargetInstalled
<1>1. RecordsInv => RollbackTargetInstalled
  BY DEF RecordsInv, CommandsSound, CommandSound, Somewhere, RollbackTargetInstalled
<1> QED BY <1>1, RecordsAlways, PTL

\* With one node, a Succeeded deployment has its release on the node of its plan,
\* whichever results were lost and whichever plans were made again.
THEOREM SucceededIsInstalledHolds ==
    ASSUME NEW n, Nodes = {n}
    PROVE  Spec => []SucceededIsInstalled
<1>1. RecordsInv => SucceededIsInstalled
  BY RolloutAssumption DEF RecordsInv, TypeOK, TablesSound, Somewhere,
                           SucceededIsInstalled, Statuses
<1> QED BY <1>1, RecordsAlways, PTL

\* With one node, a deployment that advance_deployment_rollout promoted is installed
\* on the node of its plan, although it was read in two steps.
THEOREM PromotedIsInstalledHolds ==
    ASSUME NEW n, Nodes = {n}
    PROVE  Spec => []PromotedIsInstalled
<1>1. ASSUME RecordsInv, interruptions = 0, NEW r \in Requests, reply[r] = "promoted"
      PROVE  handler[r].id \in installed[plan[handler[r].id]]
  <2>1. PICK h \in Handlers : h = handler[r] /\ Shape(h, "promoted") /\ Backed(h, "promoted")
    BY <1>1 DEF RecordsInv, TypeOK, HandlersSound
  <2>2. h.id \in Ids /\ plan[h.id] # None /\ Somewhere(h.id)
    BY <1>1, <2>1 DEF Shape, Backed
  <2> QED BY <1>1, <2>1, <2>2 DEF RecordsInv, TypeOK, Somewhere
<1>2. RecordsInv => PromotedIsInstalled
  BY <1>1 DEF PromotedIsInstalled
<1> QED BY <1>2, RecordsAlways, PTL

\* A release that is installed somewhere is all that is known with several nodes.
KnownSomewhere ==
    interruptions = 0 =>
        /\ \A n \in Nodes : \A c \in Undelivered(n) : c.kind = "rollback" => Somewhere(c.to)
        /\ \A d \in Ids : status[d] = "Succeeded" => Somewhere(d)
        /\ \A r \in Requests : reply[r] = "promoted" => Somewhere(handler[r].id)

\* With any number of nodes, what is rolled back to, has Succeeded or was promoted is
\* installed on some node (two plans of one id may name two, see rollout_two_nodes).
THEOREM ReleasesAreSomewhere == Spec => []KnownSomewhere
<1>1. ASSUME RecordsInv, interruptions = 0, NEW r \in Requests, reply[r] = "promoted"
      PROVE  Somewhere(handler[r].id)
  BY <1>1 DEF RecordsInv, HandlersSound, Backed
<1>2. RecordsInv => KnownSomewhere
  BY <1>1 DEF RecordsInv, CommandsSound, CommandSound, TablesSound, KnownSomewhere
<1> QED BY <1>2, RecordsAlways, PTL

-----------------------------------------------------------------------------
(* Refused compiles.                                                       *)

\* The only error that a compile answers with is a refused statement, and what the
\* answered compile of the same config left behind would have let it pass.
LEMMA RefusedIsFirst ==
    ASSUME RecordsInv, NEW r \in Requests, Refused(r)
    PROVE  artifact[handler[r].id] # r /\ reply[artifact[handler[r].id]] # "compiled"
<1>1. PICK h \in Handlers :
          /\ h = handler[r] /\ h.step \in {"insert", "link"} /\ h.id \in Ids
          /\ Backed(h, None)
  BY AtAwait DEF Refused
<1>2. PICK q \in Requests : q = artifact[h.id]
  BY <1>1 DEF Backed, RecordsInv, TypeOK
<1>3. q # r
  BY <1>1, <1>2 DEF Refused, Insertable
<1>4. ASSUME reply[q] = "compiled" PROVE FALSE
  <2>1. handler[q].id = h.id
    BY <1>1, <1>2, RolloutAssumption DEF RecordsInv, TablesSound
  <2>2. Backed(handler[q], "compiled")
    BY <1>4 DEF RecordsInv, HandlersSound
  <2>3. h.id \in pointed /\ plan[h.id] # None
    BY <2>1, <2>2 DEF Backed
  <2> QED BY <1>1, <2>3 DEF Refused, Insertable
<1> QED BY <1>1, <1>2, <1>3, <1>4

\* A handler of a compile gets an error only from a refused statement.
LEMMA ErrorIsRefused ==
    ASSUME RecordsInv, [Next]_vars, NEW x \in Requests,
           handler[x].op = "compile", reply[x] = None, reply'[x] = "error"
    PROVE  Refused(x)
<1>1. None # "error" /\ None # "compile" /\ reply \in [Requests -> Replies \cup {None}]
  BY RolloutAssumption DEF Replies, RecordsInv, TypeOK
<1>2. ASSUME NEW r \in Requests, NEW h, NEW text, Answer(r, h, text)
      PROVE  x = r /\ text = "error"
  BY <1>1, <1>2 DEF Answer
<1>3. reply' # reply
  BY <1>1
<1>4. CASE \E r \in Requests, n \in Nodes, d \in Ids, k \in Keys \cup {None} :
               StartCompile(r, n, d, k)
  BY <1>2, <1>3, <1>4 DEF StartCompile, GoTo
<1>5. CASE \E r \in Requests, d \in Ids : StartAdvance(r, d)
  <2>1. PICK r \in Requests, d \in Ids : StartAdvance(r, d)
    BY <1>5
  <2>2. x = r /\ handler[r].step = "new"
    BY <1>2, <1>3, <2>1 DEF StartAdvance, MayStart, GoTo
  <2> QED BY <1>1, <2>2 DEF RecordsInv, HandlersSound, Shape
<1>6. CASE \E r \in Requests : Refused(r)
  BY <1>2, <1>6 DEF Refused
<1>7. CASE \E r \in Requests : Abort(r)
  BY <1>1, <1>2, <1>7 DEF Abort
<1>8. CASE \E r \in Requests : Enqueue(r)
  BY <1>2, <1>3, <1>8 DEF Enqueue, GoTo
<1>9. CASE \E r \in Requests : RecordResponse(r)
  BY <1>2, <1>9 DEF RecordResponse
<1>10. CASE \E r \in Requests : ReadHealth(r)
  BY <1>2, <1>3, <1>10 DEF ReadHealth, GoTo
<1>11. CASE \E r \in Requests : ReadPointer(r) \/ ReadSnapshot(r)
  <2>1. PICK r \in Requests : ReadPointer(r) \/ ReadSnapshot(r)
    BY <1>11
  <2>2. x = r /\ handler[r].step \in {"pointer", "snapshot"}
    BY <1>2, <1>3, <2>1 DEF ReadPointer, ReadSnapshot, GoTo
  <2> QED BY <2>2 DEF RecordsInv, HandlersSound, Shape
<1>12. CASE UNCHANGED reply
  BY <1>3, <1>12
<1> QED BY <1>4, <1>5, <1>6, <1>7, <1>8, <1>9, <1>10, <1>11, <1>12 DEF Next, vars,
       handlerVars, GoTo, StartRollback, RecordPlan, StoreArtifact, LookUpPrevious,
       InsertPlan, InsertPointer, Sign, Execute, DropStale, EndRunner, Interrupt, Restart,
       SubmitResult, UpdateStatus, UpsertSnapshot, InsertHealth, PostHealth

\* A config whose compile was answered with its deployment is never refused later by
\* the foreign keys of record_deployment_plan.
THEOREM DeployedCompilesAgainHolds == Spec => DeployedCompilesAgain
<1>1. RecordsInv /\ [Next]_vars =>
          [\A r \in Requests :
               LET q == artifact[handler[r].id] IN
               handler[r].op = "compile" /\ reply[r] = None /\ reply'[r] = "error"
                   => q # r /\ reply[q] # "compiled"]_vars
  BY ErrorIsRefused, RefusedIsFirst
<1> QED BY <1>1, RecordsAlways, PTL DEF Spec, DeployedCompilesAgain

-----------------------------------------------------------------------------
(* The nodes are NodeRelease's.                                            *)

\* A runner that executes a command takes one of the abstract node's steps.
LEMMA ExecuteIsRelease ==
    ASSUME RecordsInv, NEW n \in Nodes, Execute(n)
    PROVE  Release(n)!Next
<1>1. PICK c \in Undelivered(n) :
          /\ HandsOut(n, c)
          /\ ApplySucceeds(n, c) \/ ApplyFails(n, c) \/ RollsBack(n, c)
  BY DEF Execute, Pops
<1>2. c \in Commands /\ CommandSound(c)
  BY <1>1, HandsOutShrinks DEF RecordsInv, CommandsSound
<1>3. PICK d \in Ids : d = c.id
  BY <1>2 DEF Commands
<1>4. /\ installed \in [Nodes -> SUBSET Ids] /\ active \in [Nodes -> Ids \cup {None}]
      /\ report \in [Nodes -> Results \cup {None}]
  BY DEF RecordsInv, TypeOK
<1>5. CASE ApplySucceeds(n, c)
  <2>1. Release(n)!ApplySucceeds(d)
    BY <1>3, <1>4, <1>5 DEF ApplySucceeds, Reports, Release!ApplySucceeds, Release!Result
  <2> QED BY <2>1 DEF Release!Next
<1>6. CASE ApplyFails(n, c)
  <2>1. Release(n)!ApplyFails(d)
    BY <1>3, <1>4, <1>6 DEF ApplyFails, Reports, Release!ApplyFails, Release!Result
  <2> QED BY <2>1 DEF Release!Next
<1>7. CASE RollsBack(n, c)
  <2>1. PICK t \in Ids : t = c.to
    BY <1>2, <1>7 DEF RollsBack, CommandSound
  <2>2. Release(n)!RollsBack(d, t) \/ Release(n)!RollbackTargetMissing(d, t)
    BY <1>3, <1>4, <1>7, <2>1
       DEF RollsBack, Reports, Release!RollsBack, Release!RollbackTargetMissing,
           Release!Result
  <2> QED BY <2>2 DEF Release!Next
<1> QED BY <1>1, <1>5, <1>6, <1>7

\* So does one that is interrupted.
LEMMA InterruptIsRelease ==
    ASSUME RecordsInv, NEW n \in Nodes, Interrupt(n)
    PROVE  Release(n)!Next
<1>1. PICK c, d :
          /\ c \in Undelivered(n)
          /\ HandsOut(n, c) /\ d = IF c.kind = "apply" THEN c.id ELSE c.to
          /\ \E S \in {installed[n], installed[n] \cup {d}, installed[n] \ {d}} :
                 installed' = [installed EXCEPT ![n] = S]
          /\ \E a \in {active[n], None, d} : active' = [active EXCEPT ![n] = a]
          /\ report' = [report EXCEPT ![n] = None]
  BY DEF Interrupt, Pops
<1>2. c \in Commands /\ CommandSound(c)
  BY <1>1, HandsOutShrinks DEF RecordsInv, CommandsSound
<1>3. d \in Ids
  BY <1>1, <1>2 DEF Commands, CommandSound
<1>4. Release(n)!Interrupted(d)
  BY <1>1 DEF Release!Interrupted, RecordsInv, TypeOK
<1> QED BY <1>3, <1>4 DEF Release!Next

\* Every other step leaves the node's releases alone.
LEMMA StepOfRelease ==
    ASSUME RecordsInv, [Next]_vars, NEW n \in Nodes
    PROVE  [Release(n)!Next]_(Release(n)!vars)
<1>1. CASE \E m \in Nodes : Execute(m) \/ Interrupt(m)
  <2>1. PICK m \in Nodes : Execute(m) \/ Interrupt(m)
    BY <1>1
  <2>2. CASE m = n
    BY <2>1, <2>2, ExecuteIsRelease, InterruptIsRelease
  <2>3. CASE m # n
    <3>1. \E S : installed' = [installed EXCEPT ![m] = S]
      BY <2>1 DEF Execute, Interrupt, ApplySucceeds, ApplyFails, RollsBack, RecordsInv,
                  TypeOK
    <3>2. \E a : active' = [active EXCEPT ![m] = a]
      BY <2>1 DEF Execute, Interrupt, ApplySucceeds, ApplyFails, RollsBack, RecordsInv,
                  TypeOK
    <3>3. \E v : report' = [report EXCEPT ![m] = v]
      BY <2>1 DEF Execute, Interrupt, ApplySucceeds, ApplyFails, RollsBack, Reports
    <3> QED BY <2>3, <3>1, <3>2, <3>3 DEF Release!vars, RecordsInv, TypeOK
  <2> QED BY <2>2, <2>3
<1>2. CASE UNCHANGED <<installed, active, report>>
  BY <1>2 DEF Release!vars
<1> QED BY <1>1, <1>2 DEF Next, vars, nodeVars, StartCompile, StartRollback, StartAdvance,
       RecordPlan, StoreArtifact, LookUpPrevious, Refused, InsertPlan, InsertPointer, Sign,
       Enqueue, RecordResponse, ReadHealth, ReadPointer, ReadSnapshot, Abort, DropStale,
       EndRunner, Restart, SubmitResult, UpdateStatus, UpsertSnapshot, InsertHealth,
       PostHealth

\* Every node takes only the steps of NodeRelease, which LocalRunner implements.
THEOREM NodesImplementHolds == Spec => NodesImplement
<1>1. Init => \A n \in Nodes : Release(n)!Init
  BY DEF Init, Release!Init
<1>2. RecordsInv /\ [Next]_vars =>
          [\A n \in Nodes : [Release(n)!Next]_(Release(n)!vars)]_vars
  BY StepOfRelease
<1> QED BY <1>1, <1>2, RecordsAlways, PTL DEF Spec, NodesImplement

-----------------------------------------------------------------------------
(* Commands: what a handler's steps do to the command it is making.        *)

\* A handler starts; with a key, it has found no response.
Starts(r) ==
    \/ \E n \in Nodes, d \in Ids, k \in Keys \cup {None} : StartCompile(r, n, d, k)
    \/ \E d \in Ids : StartRollback(r, d) \/ StartAdvance(r, d)

\* A handler that has not signed its command goes on.
Onward(r) ==
    \/ RecordPlan(r) \/ StoreArtifact(r) \/ LookUpPrevious(r) \/ Refused(r)
    \/ InsertPlan(r) \/ InsertPointer(r)
    \/ ReadHealth(r) \/ ReadPointer(r) \/ ReadSnapshot(r)

\* The store, the commands to deliver and the runners stay as they are.
NothingMoves == UNCHANGED <<store, queue, rows, last, executed>>

\* A handler that starts has no sequence, and with a key it has found no response.
LEMMA StartsFresh ==
    ASSUME RecordsInv, NEW r \in Requests, Starts(r)
    PROVE  /\ NothingMoves /\ UNCHANGED <<responses, enqueued>>
           /\ handler[r].step = "new" /\ Cardinality(Busy) < MaxHandlers
           /\ \E g \in Handlers :
                  /\ handler' = [handler EXCEPT ![r] = g]
                  /\ g.step \notin {"new", "signed", "queued"} /\ g.sequence = 0
                  /\ g.step # "done" /\ g.key # None => responses[g.key] = None
<1>1. ASSUME NEW n \in Nodes, NEW d \in Ids, NEW k \in Keys \cup {None},
             StartCompile(r, n, d, k)
      PROVE  \E g \in Handlers :
                 /\ handler' = [handler EXCEPT ![r] = g]
                 /\ g.step \notin {"new", "signed", "queued"} /\ g.sequence = 0
                 /\ g.step # "done" /\ g.key # None => responses[g.key] = None
  <2> DEFINE h == [NewHandler EXCEPT !.step = "compile", !.op = "compile", !.node = n,
                                     !.id = d, !.key = k]
  <2>1. "compile" \in Operations
    BY <1>1, NotStarted DEF StartCompile
  <2>2. h \in Handlers /\ h.step = "compile" /\ h.key = k /\ h.sequence = 0
    BY <2>1 DEF NewHandler, Handlers
  <2>3. (~Cached(k) /\ GoTo(r, h)) \/ Answer(r, h, "replayed")
    BY <1>1 DEF StartCompile
  <2> HIDE DEF h
  <2> QED BY <2>2, <2>3, Answers DEF GoTo, Cached, RecordsInv
<1>2. ASSUME NEW d \in Ids, StartRollback(r, d)
      PROVE  \E g \in Handlers :
                 /\ handler' = [handler EXCEPT ![r] = g]
                 /\ g.step = "pointer" /\ g.sequence = 0 /\ g.key = None
  <2> DEFINE h == [NewHandler EXCEPT !.step = "pointer", !.op = "rollback", !.id = d]
  <2>1. "rollback" \in Operations
    BY <1>2, NotStarted DEF StartRollback
  <2>2. h \in Handlers /\ h.step = "pointer" /\ h.key = None /\ h.sequence = 0
    BY <2>1 DEF NewHandler, Handlers
  <2>3. GoTo(r, h)
    BY <1>2 DEF StartRollback
  <2> HIDE DEF h
  <2> QED BY <2>2, <2>3 DEF GoTo
<1>3. ASSUME NEW d \in Ids, StartAdvance(r, d)
      PROVE  \E g \in Handlers :
                 /\ handler' = [handler EXCEPT ![r] = g]
                 /\ g.step \in {"status", "done"} /\ g.sequence = 0 /\ g.key = None
  <2> DEFINE h == [NewHandler EXCEPT !.step = "status", !.op = "advance", !.id = d,
                                     !.observed = status[d]]
  <2>1. "advance" \in Operations /\ status[d] \in Statuses \cup {None}
    BY <1>3, NotStarted DEF StartAdvance, RecordsInv, TypeOK
  <2>2. h \in Handlers /\ h.step = "status" /\ h.key = None /\ h.sequence = 0
    BY <2>1 DEF NewHandler, Handlers
  <2>3. GoTo(r, h) \/ Answer(r, h, "error")
    BY <1>3 DEF StartAdvance
  <2> HIDE DEF h
  <2> QED BY <2>2, <2>3, Answers DEF GoTo, RecordsInv
<1>4. NothingMoves /\ UNCHANGED <<responses, enqueued>>
  BY DEF Starts, StartCompile, StartRollback, StartAdvance, NothingMoves, storeVars,
         nodeVars
<1>5. handler[r].step = "new" /\ Cardinality(Busy) < MaxHandlers
  BY DEF Starts, StartCompile, StartRollback, StartAdvance, MayStart
<1> QED BY <1>1, <1>2, <1>3, <1>4, <1>5 DEF Starts

\* A handler that is moved on at one of these awaits has no sequence yet and keeps
\* its key.
LEMMA OnwardKeeps ==
    ASSUME RecordsInv, NEW r \in Requests, Onward(r)
    PROVE  /\ NothingMoves /\ UNCHANGED <<responses, enqueued>>
           /\ handler[r].step \notin {"new", "signed", "queued", "done"}
           /\ handler[r].sequence = 0
           /\ \E g \in Handlers :
                  /\ handler' = [handler EXCEPT ![r] = g]
                  /\ g.step \notin {"new", "signed", "queued"} /\ g.sequence = 0
                  /\ g.key = handler[r].key
<1>1. handler[r].step \notin {"new", "signed", "queued", "done"}
  BY DEF Onward, RecordPlan, StoreArtifact, LookUpPrevious, Refused, InsertPlan,
         InsertPointer, ReadHealth, ReadPointer, ReadSnapshot
<1>2. NothingMoves /\ UNCHANGED <<responses, enqueued>>
  BY DEF Onward, RecordPlan, StoreArtifact, LookUpPrevious, Refused, InsertPlan,
         InsertPointer, ReadHealth, ReadPointer, ReadSnapshot, NothingMoves, storeVars,
         nodeVars
<1>3. PICK h \in Handlers : h = handler[r] /\ h.sequence = 0 /\ h.id \in Ids
  BY <1>1, AtAwait DEF Shape
<1>4. CASE \E text : Answer(r, h, text)
  BY <1>1, <1>2, <1>3, <1>4, Answers DEF RecordsInv
<1>5. CASE \E s \in {"ready", "stored", "link", "pointer"} : GoTo(r, [h EXCEPT !.step = s])
  <2>1. PICK s \in {"ready", "stored", "link", "pointer"} : GoTo(r, [h EXCEPT !.step = s])
    BY <1>5
  <2> DEFINE g == [h EXCEPT !.step = s]
  <2>2. g \in Handlers /\ g.step = s /\ g.sequence = h.sequence /\ g.key = h.key
    BY DEF Handlers
  <2>3. handler' = [handler EXCEPT ![r] = g]
    BY <2>1 DEF GoTo
  <2> HIDE DEF g
  <2> QED BY <1>1, <1>2, <1>3, <2>2, <2>3
<1>6. CASE \E s \in {"insert", "ready", "snapshot"}, e \in Ids \cup {None} :
               GoTo(r, [h EXCEPT !.step = s, !.to = e])
  <2>1. PICK s \in {"insert", "ready", "snapshot"}, e \in Ids \cup {None} :
            GoTo(r, [h EXCEPT !.step = s, !.to = e])
    BY <1>6
  <2> DEFINE g == [h EXCEPT !.step = s, !.to = e]
  <2>2. g \in Handlers /\ g.step = s /\ g.sequence = h.sequence /\ g.key = h.key
    BY DEF Handlers
  <2>3. handler' = [handler EXCEPT ![r] = g]
    BY <2>1 DEF GoTo
  <2> HIDE DEF g
  <2> QED BY <1>1, <1>2, <1>3, <2>2, <2>3
<1>7. CASE \E m \in Nodes : GoTo(r, [h EXCEPT !.step = "ready", !.node = m])
  <2>1. PICK m \in Nodes : GoTo(r, [h EXCEPT !.step = "ready", !.node = m])
    BY <1>7
  <2> DEFINE g == [h EXCEPT !.step = "ready", !.node = m]
  <2>2. g \in Handlers /\ g.step = "ready" /\ g.sequence = h.sequence /\ g.key = h.key
    BY DEF Handlers
  <2>3. handler' = [handler EXCEPT ![r] = g]
    BY <2>1 DEF GoTo
  <2> HIDE DEF g
  <2> QED BY <1>1, <1>2, <1>3, <2>2, <2>3
<1>8. CASE RecordPlan(r) \/ StoreArtifact(r) \/ InsertPlan(r) \/ Refused(r) \/ ReadHealth(r)
  BY <1>3, <1>4, <1>5, <1>8 DEF RecordPlan, StoreArtifact, InsertPlan, Refused, ReadHealth
<1>9. CASE LookUpPrevious(r)
  <2>1. h.node \in Nodes
    BY <1>3, <1>9, AtAwait DEF Shape, LookUpPrevious
  <2> QED BY <1>3, <1>6, <1>9, <2>1, LatestSucceededLemma DEF LookUpPrevious
<1>10. CASE InsertPointer(r)
  BY <1>3, <1>6, <1>10 DEF InsertPointer
<1>11. CASE ReadPointer(r)
  <2>1. previous[h.id] \in Ids \cup {None}
    BY <1>3 DEF RecordsInv, TypeOK
  <2> QED BY <1>3, <1>4, <1>6, <1>11, <2>1 DEF ReadPointer
<1>12. CASE ReadSnapshot(r)
  <2>1. snapshot[h.id] # None => snapshot[h.id].node \in Nodes
    BY <1>3 DEF RecordsInv, TypeOK
  <2> QED BY <1>3, <1>4, <1>7, <1>12, <2>1 DEF ReadSnapshot
<1> QED BY <1>8, <1>9, <1>10, <1>11, <1>12 DEF Onward

\* The other steps of a handler: it signs, queues, records its response, is dropped.
LEMMA SignKeeps ==
    ASSUME RecordsInv, NEW r \in Requests, Sign(r)
    PROVE  /\ NothingMoves /\ UNCHANGED <<responses, enqueued>>
           /\ handler[r].step = "ready" /\ handler[r].sequence = 0 /\ handler[r].node \in Nodes
           /\ \E g \in Handlers :
                  /\ handler' = [handler EXCEPT ![r] = g]
                  /\ g.step = "signed" /\ g.sequence > 0
                  /\ g.node = handler[r].node /\ g.key = handler[r].key
<1>1. PICK h \in Handlers :
          h = handler[r] /\ h.step = "ready" /\ h.node \in Nodes /\ h.sequence = 0
  BY AtAwait DEF Sign, Shape
<1>2. PICK s \in Nat : s = nodeSequences[h.node] + 1 /\ s > 0
  BY <1>1 DEF RecordsInv, TypeOK
<1> DEFINE g == [h EXCEPT !.step = "signed", !.sequence = s]
<1>3. /\ g \in Handlers /\ g.step = "signed" /\ g.sequence = s
      /\ g.node = h.node /\ g.key = h.key
  BY DEF Handlers
<1>4. handler' = [handler EXCEPT ![r] = g]
  BY <1>1, <1>2, <1>3 DEF Sign, GoTo
<1>5. NothingMoves /\ UNCHANGED <<responses, enqueued>>
  BY DEF Sign, NothingMoves, storeVars, nodeVars
<1> HIDE DEF g
<1> QED BY <1>1, <1>2, <1>3, <1>4, <1>5

\* A handler that queues its command keeps its sequence, its node and its key.
LEMMA EnqueueKeeps ==
    ASSUME RecordsInv, NEW r \in Requests, Enqueue(r)
    PROVE  /\ UNCHANGED <<store, last, executed, responses>> /\ enqueued' = enqueued \cup {r}
           /\ handler[r].step = "signed" /\ handler[r].sequence > 0
           /\ \E g \in Handlers :
                  /\ handler' = [handler EXCEPT ![r] = g]
                  /\ g.step = IF handler[r].key = None THEN "done" ELSE "queued"
                  /\ g.sequence = handler[r].sequence
                  /\ g.node = handler[r].node /\ g.key = handler[r].key
<1>1. PICK h \in Handlers : h = handler[r] /\ h.step = "signed" /\ h.sequence > 0
  BY AtAwait DEF Enqueue, Shape
<1> DEFINE g == [h EXCEPT !.step = "queued"]
<1>2. /\ g \in Handlers /\ g.step = "queued" /\ g.sequence = h.sequence
      /\ g.node = h.node /\ g.key = h.key
  BY DEF Handlers
<1>3. \/ h.key # None /\ GoTo(r, g)
      \/ h.key = None /\ \E text : Answer(r, h, text)
  BY <1>1, <1>2 DEF Enqueue
<1>4. /\ UNCHANGED <<store, last, executed, responses>> /\ enqueued' = enqueued \cup {r}
  BY DEF Enqueue, storeVars, nodeVars
<1> HIDE DEF g
<1> QED BY <1>1, <1>2, <1>3, <1>4, Answers DEF GoTo, RecordsInv

\* So does one that stores its response, and one that is dropped.
LEMMA EndKeeps ==
    ASSUME RecordsInv, NEW r \in Requests, RecordResponse(r) \/ Abort(r)
    PROVE  /\ NothingMoves /\ UNCHANGED enqueued
           /\ handler[r].step \notin {"new", "done"}
           /\ \E g \in Handlers :
                  /\ handler' = [handler EXCEPT ![r] = g]
                  /\ g.step = "done" /\ g.sequence = handler[r].sequence
                  /\ g.node = handler[r].node /\ g.key = handler[r].key
<1>1. PICK h \in Handlers : h = handler[r] /\ h.step \notin {"new", "done"}
  BY DEF RecordResponse, Abort, Busy, RecordsInv, TypeOK
<1>2. \E text : Answer(r, h, text)
  BY <1>1 DEF RecordResponse, Abort
<1>3. NothingMoves /\ UNCHANGED enqueued
  BY DEF RecordResponse, Abort, NothingMoves, storeVars, nodeVars
<1> QED BY <1>1, <1>2, <1>3, Answers DEF RecordsInv

-----------------------------------------------------------------------------
(* A command is delivered once.                                            *)

\* What the invariant says of a command to deliver.
LEMMA CommandToDeliver ==
    ASSUME RecordsInv, DeliveredOnce, NEW n \in Nodes, NEW c \in Undelivered(n)
    PROVE  /\ c \in Commands /\ c.nonce \in Requests /\ c.sequence \in Nat /\ c.sequence > 0
           /\ handler[c.nonce].node = n /\ handler[c.nonce].sequence = c.sequence
           /\ handler[c.nonce].step \in {"queued", "done"} /\ c.nonce \notin executed
<1>1. c \in Commands
  BY DEF RecordsInv, TypeOK, Undelivered, Elements
<1> QED BY <1>1 DEF DeliveredOnce, Commands

\* A handler moves and no command does.
LEMMA HandlerMoves ==
    ASSUME RecordsInv, DeliveredOnce, NothingMoves, NEW r \in Requests, NEW g \in Handlers,
           handler' = [handler EXCEPT ![r] = g],
           handler[r].sequence > 0 => g.sequence = handler[r].sequence
                                      /\ g.node = handler[r].node,
           handler[r].step \in {"queued", "done"} => g.step = "done"
    PROVE  DeliveredOnce'
<1>1. \A x \in Requests : handler'[x] = IF x = r THEN g ELSE handler[x]
  BY DEF RecordsInv, TypeOK
<1>2. ASSUME NEW x \in Requests, handler[x].sequence > 0,
             handler[x].step \in {"queued", "done"}
      PROVE  /\ handler'[x].sequence = handler[x].sequence
             /\ handler'[x].node = handler[x].node
             /\ handler'[x].step \in {"queued", "done"}
  BY <1>1, <1>2
<1>3. \A n \in Nodes : Undelivered(n)' = Undelivered(n)
  BY DEF NothingMoves, Undelivered, Elements
<1>4. ASSUME NEW x \in executed'
      PROVE  handler'[x].sequence > 0 /\ handler'[x].step \in {"queued", "done"}
  BY <1>2 DEF NothingMoves, DeliveredOnce, RecordsInv, TypeOK
<1>5. ASSUME NEW n \in Nodes, NEW c \in Undelivered(n)'
      PROVE  /\ handler'[c.nonce].node = n
             /\ c.sequence > 0 /\ handler'[c.nonce].sequence = c.sequence
             /\ handler'[c.nonce].step \in {"queued", "done"}
             /\ c.nonce \notin executed'
  BY <1>2, <1>3, CommandToDeliver DEF NothingMoves
<1> QED BY <1>4, <1>5 DEF NothingMoves, DeliveredOnce

\* The command that is queued is the only one of its request.
LEMMA EnqueueOnce ==
    ASSUME RecordsInv, DeliveredOnce, NEW r \in Requests, Enqueue(r)
    PROVE  DeliveredOnce'
<1>1. PICK g \in Handlers :
          /\ handler' = [handler EXCEPT ![r] = g] /\ g.step \in {"queued", "done"}
          /\ g.sequence = handler[r].sequence /\ g.node = handler[r].node
  BY EnqueueKeeps
<1>2. /\ handler[r].step = "signed" /\ handler[r].sequence > 0
      /\ UNCHANGED <<store, last, executed>>
  BY EnqueueKeeps
<1>3. \A x \in Requests : handler'[x] = IF x = r THEN g ELSE handler[x]
  BY <1>1 DEF RecordsInv, TypeOK
<1>4. PICK m \in Nodes, c \in Commands :
          /\ m = handler[r].node /\ c = CommandOf(r)
          /\ c.nonce = r /\ c.sequence = handler[r].sequence
  BY <1>2, CommandOfType, AtAwait DEF Shape
<1>5. /\ \A n \in Nodes : Undelivered(n)' = Undelivered(n) \cup (IF n = m THEN {c} ELSE {})
      /\ \A n \in Nodes : \A e \in Undelivered(n) : e.nonce # r
  <2>1. ASSUME NEW n \in Nodes, NEW e \in Undelivered(n) PROVE e.nonce # r
    BY <1>2, CommandToDeliver
  <2> QED BY <1>4, <2>1, EnqueueAdds
<1>6. ASSUME NEW x \in executed'
      PROVE  handler'[x].sequence > 0 /\ handler'[x].step \in {"queued", "done"}
  BY <1>1, <1>2, <1>3 DEF DeliveredOnce, RecordsInv, TypeOK
<1>7. ASSUME NEW n \in Nodes, NEW e \in Undelivered(n)'
      PROVE  /\ handler'[e.nonce].node = n
             /\ e.sequence > 0 /\ handler'[e.nonce].sequence = e.sequence
             /\ handler'[e.nonce].step \in {"queued", "done"}
             /\ e.nonce \notin executed'
  <2>1. CASE e \in Undelivered(n)
    BY <1>2, <1>3, <1>5, <2>1, CommandToDeliver
  <2>2. CASE e = c /\ n = m
    BY <1>1, <1>2, <1>3, <1>4, <2>2 DEF DeliveredOnce
  <2> QED BY <1>5, <2>1, <2>2
<1>8. queue \in [Nodes -> Seq(Commands)] /\ rows \in [Nodes -> SUBSET Commands]
  BY DEF RecordsInv, TypeOK
<1>9. \/ store = "memory" /\ queue' = [queue EXCEPT ![m] = Append(@, c)] /\ rows' = rows
      \/ store = "postgres" /\ rows' = [rows EXCEPT ![m] = @ \cup {c}] /\ queue' = queue
  BY <1>4 DEF Enqueue
<1>10. ASSUME NEW n \in Nodes
       PROVE  /\ store' = "memory" => rows'[n] = {}
              /\ store' = "postgres" => queue'[n] = <<>>
  BY <1>2, <1>8, <1>9 DEF DeliveredOnce
<1>11. ASSUME NEW n \in Nodes, NEW i \in DOMAIN queue'[n], NEW j \in DOMAIN queue'[n],
              queue'[n][i].nonce = queue'[n][j].nonce
       PROVE  i = j
  <2>1. CASE queue'[n] = queue[n]
    BY <1>11, <2>1 DEF DeliveredOnce
  <2>2. CASE queue'[n] = Append(queue[n], c)
    <3>1. PICK q \in Seq(Commands) : q = queue[n]
      BY <1>8
    <3>2. /\ DOMAIN Append(q, c) = 1 .. (Len(q) + 1) /\ DOMAIN q = 1 .. Len(q)
          /\ \A k \in 1 .. Len(q) : Append(q, c)[k] = q[k]
          /\ Append(q, c)[Len(q) + 1] = c /\ Len(q) \in Nat
      OBVIOUS
    <3>3. ASSUME NEW k \in 1 .. Len(q) PROVE q[k].nonce # r
      BY <1>5, <3>1, <3>2 DEF Undelivered, Elements
    <3>4. i \in 1 .. (Len(q) + 1) /\ j \in 1 .. (Len(q) + 1)
      BY <1>11, <2>2, <3>1, <3>2
    <3>5. CASE i = Len(q) + 1 \/ j = Len(q) + 1
      BY <1>4, <1>11, <2>2, <3>1, <3>2, <3>3, <3>4, <3>5
    <3>6. CASE i \in 1 .. Len(q) /\ j \in 1 .. Len(q)
      BY <1>11, <2>2, <3>1, <3>2, <3>6 DEF DeliveredOnce
    <3> QED BY <3>2, <3>4, <3>5, <3>6
  <2> QED BY <1>8, <1>9, <2>1, <2>2
<1>12. ASSUME NEW n \in Nodes, NEW e \in rows'[n], NEW d \in rows'[n], e.nonce = d.nonce
       PROVE  e = d
  <2>1. \A x \in rows[n] : x.nonce # r
    BY <1>5 DEF Undelivered
  <2>2. rows'[n] \subseteq rows[n] \cup {c}
    BY <1>8, <1>9
  <2> QED BY <1>4, <1>12, <2>1, <2>2 DEF DeliveredOnce
<1> QED BY <1>6, <1>7, <1>10, <1>11, <1>12 DEF DeliveredOnce

\* A command that is handed out is not left anywhere.
LEMMA HandedOutOnce ==
    ASSUME RecordsInv, DeliveredOnce, NEW n \in Nodes, NEW c \in Undelivered(n),
           HandsOut(n, c), store' = store, NEW m \in Nodes
    PROVE  /\ store = "memory" => rows'[m] = {}
           /\ store = "postgres" => queue'[m] = <<>>
           /\ \A e \in Undelivered(m)' : e \in Undelivered(m) /\ e.nonce # c.nonce
           /\ \A i, j \in DOMAIN queue'[m] : queue'[m][i].nonce = queue'[m][j].nonce => i = j
           /\ \A e, d \in rows'[m] : e.nonce = d.nonce => e = d
<1>1. queue \in [Nodes -> Seq(Commands)] /\ rows \in [Nodes -> SUBSET Commands]
  BY DEF RecordsInv, TypeOK
<1>2. Undelivered(m)' \subseteq Undelivered(m)
  BY HandsOutShrinks DEF RecordsInv
<1>3. CASE store = "memory"
  <2>1. PICK i \in DOMAIN queue[n] :
            /\ c = queue[n][i] /\ queue' = [queue EXCEPT ![n] = Rest(@, i)] /\ rows' = rows
    BY <1>3 DEF HandsOut
  <2>2. PICK q \in Seq(Commands) : q = queue[n] /\ i \in DOMAIN q
    BY <1>1
  <2>3. \A j \in DOMAIN Rest(q, i) : i + j \in DOMAIN q /\ Rest(q, i)[j] = q[i + j]
    BY <2>2, RestIsSuffix
  <2>4. rows'[m] = {} /\ Undelivered(m)' = Elements(queue'[m])
    BY <1>3, <2>1 DEF DeliveredOnce, Undelivered, Elements
  <2>5. CASE m = n
    <3>1. queue'[n] = Rest(q, i)
      BY <1>1, <2>1, <2>2
    <3>2. i \in Nat /\ \A j \in DOMAIN Rest(q, i) : j \in Nat /\ j >= 1
      BY <2>2, RestIsSuffix
    <3>3. ASSUME NEW j \in DOMAIN Rest(q, i) PROVE Rest(q, i)[j].nonce # c.nonce
      <4>1. i + j \in DOMAIN q /\ i + j # i /\ Rest(q, i)[j] = q[i + j]
        BY <2>3, <3>2
      <4> QED BY <2>1, <2>2, <4>1 DEF DeliveredOnce
    <3>4. \A e \in Undelivered(m)' : e.nonce # c.nonce
      BY <2>4, <2>5, <3>1, <3>3 DEF Elements
    <3>5. ASSUME NEW j \in DOMAIN Rest(q, i), NEW k \in DOMAIN Rest(q, i),
                 Rest(q, i)[j].nonce = Rest(q, i)[k].nonce
          PROVE  j = k
      <4>1. i + j = i + k
        BY <2>2, <2>3, <3>5 DEF DeliveredOnce
      <4> QED BY <3>2, <4>1
    <3> QED BY <1>2, <1>3, <2>4, <2>5, <3>1, <3>4, <3>5
  <2>6. CASE m # n
    <3>1. queue'[m] = queue[m]
      BY <1>1, <2>1, <2>6
    <3>2. \A e \in Undelivered(m)' : e.nonce # c.nonce
      BY <1>2, <2>6, CommandToDeliver
    <3> QED BY <1>2, <1>3, <2>4, <3>1, <3>2 DEF DeliveredOnce
  <2> QED BY <2>5, <2>6
<1>4. CASE store = "postgres"
  <2>1. /\ rows' = [rows EXCEPT ![n] = {d \in @ \ {c} : d.sequence > last[n]}]
        /\ queue' = queue /\ queue[n] = <<>> /\ queue[m] = <<>>
    BY <1>4 DEF HandsOut, DeliveredOnce
  <2>2. c \in rows[n] /\ Undelivered(m)' = rows'[m] /\ rows'[m] \subseteq rows[m]
    BY <1>1, <2>1 DEF Undelivered, Elements
  <2>3. \A e \in Undelivered(m)' : e.nonce # c.nonce
    <3>1. CASE m = n
      BY <1>1, <2>1, <2>2, <3>1 DEF DeliveredOnce
    <3>2. CASE m # n
      BY <1>2, <3>2, CommandToDeliver
    <3> QED BY <3>1, <3>2
  <2> QED BY <1>2, <1>4, <2>1, <2>2, <2>3 DEF DeliveredOnce
<1> QED BY <1>3, <1>4, RolloutAssumption DEF RecordsInv, TypeOK

\* It may be executed then, once, or lost.
LEMMA PopKeepsOnce ==
    ASSUME RecordsInv, DeliveredOnce, NEW n \in Nodes, NEW c \in Undelivered(n),
           HandsOut(n, c), UNCHANGED handlerVars, UNCHANGED storeVars,
           executed' \in {executed, executed \cup {c.nonce}}
    PROVE  DeliveredOnce'
<1>1. store' = store /\ handler' = handler
  BY DEF handlerVars, storeVars
<1>2. ASSUME NEW x \in executed'
      PROVE  handler'[x].sequence > 0 /\ handler'[x].step \in {"queued", "done"}
  BY <1>1, CommandToDeliver DEF DeliveredOnce
<1>3. ASSUME NEW m \in Nodes
      PROVE  /\ store' = "memory" => rows'[m] = {}
             /\ store' = "postgres" => queue'[m] = <<>>
             /\ \A i, j \in DOMAIN queue'[m] : queue'[m][i].nonce = queue'[m][j].nonce => i = j
             /\ \A e, d \in rows'[m] : e.nonce = d.nonce => e = d
  BY <1>1, HandedOutOnce
<1>4. ASSUME NEW m \in Nodes, NEW e \in Undelivered(m)'
      PROVE  /\ handler'[e.nonce].node = m
             /\ e.sequence > 0 /\ handler'[e.nonce].sequence = e.sequence
             /\ handler'[e.nonce].step \in {"queued", "done"}
             /\ e.nonce \notin executed'
  <2>1. e \in Undelivered(m) /\ e.nonce # c.nonce
    BY <1>1, HandedOutOnce
  <2> QED BY <1>1, <2>1, CommandToDeliver
<1> QED BY <1>2, <1>3, <1>4 DEF DeliveredOnce

\* Other steps of the nodes leave handlers, commands and executions alone.
LEMMA OnceStays ==
    ASSUME DeliveredOnce, UNCHANGED <<store, handler, queue, rows, executed>>
    PROVE  DeliveredOnce'
<1>1. \A n \in Nodes : Undelivered(n)' = Undelivered(n)
  BY DEF Undelivered, Elements
<1> QED BY <1>1 DEF DeliveredOnce

\* Steps that move neither a handler nor a command nor a runner's sequence.
RecordsResult ==
    \/ \E n \in Nodes : \/ SubmitResult(n) \/ UpdateStatus(n)
                        \/ UpsertSnapshot(n) \/ InsertHealth(n)
    \/ \E n \in Nodes, d \in Ids, s \in {"healthy", "unhealthy"} : PostHealth(n, d, s)
    \/ UNCHANGED vars

\* Results and samples concern no command.
LEMMA RecordsResultLeaves ==
    ASSUME RecordsResult
    PROVE  UNCHANGED <<handler, responses, enqueued>> /\ NothingMoves
  BY DEF RecordsResult, SubmitResult, UpdateStatus, UpsertSnapshot, InsertHealth,
         PostHealth, vars, handlerVars, nodeVars, NothingMoves

\* The steps of the program, by what they do to a command.
LEMMA StepKinds ==
    ASSUME [Next]_vars
    PROVE  \/ \E r \in Requests : \/ Starts(r) \/ Onward(r) \/ Sign(r) \/ Enqueue(r)
                                  \/ RecordResponse(r) \/ Abort(r)
           \/ \E n \in Nodes : \/ Execute(n) \/ Interrupt(n) \/ EndRunner(n)
                               \/ DropStale(n) \/ Restart(n)
           \/ RecordsResult
  BY DEF Next, Starts, Onward, RecordsResult

\* No step delivers a command twice.
LEMMA OncePreserved == RecordsInv /\ DeliveredOnce /\ [Next]_vars => DeliveredOnce'
<1> SUFFICES ASSUME RecordsInv, DeliveredOnce, [Next]_vars PROVE DeliveredOnce'
  OBVIOUS
<1>1. ASSUME NEW r \in Requests, Starts(r) PROVE DeliveredOnce'
  <2>1. handler[r].sequence = 0
    BY <1>1, StartsFresh DEF RecordsInv, HandlersSound, Shape
  <2>2. PICK g \in Handlers : handler' = [handler EXCEPT ![r] = g]
    BY <1>1, StartsFresh
  <2>3. NothingMoves /\ handler[r].step = "new"
    BY <1>1, StartsFresh
  <2>4. /\ handler[r].sequence > 0 => g.sequence = handler[r].sequence
                                      /\ g.node = handler[r].node
        /\ handler[r].step \in {"queued", "done"} => g.step = "done"
    BY <2>1, <2>3
  <2> QED BY <2>2, <2>3, <2>4, HandlerMoves
<1>2. ASSUME NEW r \in Requests, Onward(r) PROVE DeliveredOnce'
  <2>1. PICK g \in Handlers : handler' = [handler EXCEPT ![r] = g]
    BY <1>2, OnwardKeeps
  <2>2. /\ NothingMoves /\ handler[r].sequence = 0
        /\ handler[r].step \notin {"queued", "done"}
    BY <1>2, OnwardKeeps
  <2>3. /\ handler[r].sequence > 0 => g.sequence = handler[r].sequence
                                      /\ g.node = handler[r].node
        /\ handler[r].step \in {"queued", "done"} => g.step = "done"
    BY <2>2
  <2> QED BY <2>1, <2>2, <2>3, HandlerMoves
<1>3. ASSUME NEW r \in Requests, Sign(r) PROVE DeliveredOnce'
  <2>1. PICK g \in Handlers : handler' = [handler EXCEPT ![r] = g]
    BY <1>3, SignKeeps
  <2>2. NothingMoves /\ handler[r].sequence = 0 /\ handler[r].step = "ready"
    BY <1>3, SignKeeps
  <2>3. /\ handler[r].sequence > 0 => g.sequence = handler[r].sequence
                                      /\ g.node = handler[r].node
        /\ handler[r].step \in {"queued", "done"} => g.step = "done"
    BY <2>2
  <2> QED BY <2>1, <2>2, <2>3, HandlerMoves
<1>4. ASSUME NEW r \in Requests, RecordResponse(r) \/ Abort(r) PROVE DeliveredOnce'
  <2>1. PICK g \in Handlers :
            /\ handler' = [handler EXCEPT ![r] = g] /\ g.step = "done"
            /\ g.sequence = handler[r].sequence /\ g.node = handler[r].node
    BY <1>4, EndKeeps
  <2>2. NothingMoves
    BY <1>4, EndKeeps
  <2> QED BY <2>1, <2>2, HandlerMoves
<1>5. ASSUME NEW n \in Nodes, Execute(n) \/ Interrupt(n) PROVE DeliveredOnce'
  <2>1. PICK c \in Undelivered(n) : HandsOut(n, c) /\ executed' = executed \cup {c.nonce}
    BY <1>5 DEF Execute, Interrupt, Pops
  <2>2. UNCHANGED handlerVars /\ UNCHANGED storeVars
    BY <1>5 DEF Execute, Interrupt
  <2> QED BY <2>1, <2>2, PopKeepsOnce
<1>6. ASSUME NEW n \in Nodes, EndRunner(n) PROVE DeliveredOnce'
  <2>1. UNCHANGED handlerVars /\ UNCHANGED storeVars /\ executed' = executed
    BY <1>6 DEF EndRunner
  <2>2. CASE \E c \in Undelivered(n) : HandsOut(n, c)
    BY <2>1, <2>2, PopKeepsOnce
  <2>3. CASE UNCHANGED <<queue, rows>>
    BY <2>1, <2>3, OnceStays DEF handlerVars, storeVars
  <2> QED BY <1>6, <2>2, <2>3 DEF EndRunner, Pops
<1>7. ASSUME NEW n \in Nodes, DropStale(n) PROVE DeliveredOnce'
  <2>1. /\ queue' = [queue EXCEPT ![n] = <<>>] /\ rows' = [rows EXCEPT ![n] = {}]
        /\ UNCHANGED <<store, handler, executed>>
    BY <1>7 DEF DropStale, handlerVars, storeVars, nodeVars
  <2>2. ASSUME NEW m \in Nodes
        PROVE  /\ rows'[m] \in {rows[m], {}} /\ queue'[m] \in {queue[m], <<>>}
               /\ Undelivered(m)' \subseteq Undelivered(m)
    BY <2>1 DEF RecordsInv, TypeOK, Undelivered, Elements
  <2>3. ASSUME NEW m \in Nodes
        PROVE  /\ \A i, j \in DOMAIN queue'[m] :
                      queue'[m][i].nonce = queue'[m][j].nonce => i = j
               /\ store' = "memory" => rows'[m] = {}
               /\ store' = "postgres" => queue'[m] = <<>>
               /\ \A e, d \in rows'[m] : e.nonce = d.nonce => e = d
    BY <2>1, <2>2 DEF DeliveredOnce
  <2>4. ASSUME NEW m \in Nodes, NEW c \in Undelivered(m)'
        PROVE  /\ handler'[c.nonce].node = m
               /\ c.sequence > 0 /\ handler'[c.nonce].sequence = c.sequence
               /\ handler'[c.nonce].step \in {"queued", "done"}
               /\ c.nonce \notin executed'
    BY <2>1, <2>2 DEF DeliveredOnce
  <2> QED BY <2>1, <2>3, <2>4 DEF DeliveredOnce
<1>8. ASSUME NEW n \in Nodes, Restart(n) PROVE DeliveredOnce'
  BY <1>8, OnceStays DEF Restart, handlerVars, storeVars
<1>9. ASSUME RecordsResult PROVE DeliveredOnce'
  BY <1>9, RecordsResultLeaves, OnceStays DEF NothingMoves
<1> QED BY <1>1, <1>2, <1>3, <1>4, <1>5, <1>6, <1>7, <1>8, <1>9, EnqueueOnce, StepKinds

\* Nothing is queued and nothing executed.
LEMMA OnceInitially == Init => DeliveredOnce
  BY DEF Init, DeliveredOnce, Undelivered, Elements

\* Each command is to be delivered once, or has been executed, at all times.
LEMMA OnceAlways == Spec => []DeliveredOnce
  BY OnceInitially, OncePreserved, RecordsAlways, PTL DEF Spec

-----------------------------------------------------------------------------
(* The channel.                                                            *)

\* The requests that have a command.
Signed == {r \in Requests : handler[r].sequence > 0}

\* A step that changes no command's sequence, no execution and no runner's memory.
LEMMA ChannelStutters ==
    ASSUME RecordsInv, DeliveredOnce, UNCHANGED <<executed, last>>,
           \A x \in Requests :
               /\ handler'[x].sequence = handler[x].sequence
               /\ handler[x].sequence > 0 => handler'[x].node = handler[x].node
    PROVE  UNCHANGED Channel!vars
<1>1. Signed' = Signed /\ executed \subseteq Signed
  BY DEF Signed, DeliveredOnce, RecordsInv, TypeOK
<1>2. ASSUME NEW S \in SUBSET Signed
      PROVE  {[nonce |-> r, node |-> handler'[r].node,
               sequence |-> handler'[r].sequence] : r \in S} = Issued(S)
  BY DEF Issued, Signed
<1>3. Issued(Signed)' = Issued(Signed) /\ Issued(executed)' = Issued(executed)
  BY <1>1, <1>2 DEF Issued
<1> QED BY <1>3 DEF Channel!vars, Signed

\* next_sequence and the signature issue the one command of a request.
LEMMA SignIssues ==
    ASSUME RecordsInv, DeliveredOnce, NEW r \in Requests, Sign(r)
    PROVE  Channel!Next
<1>1. PICK g \in Handlers :
          /\ handler' = [handler EXCEPT ![r] = g] /\ g.step = "signed"
          /\ g.sequence > 0 /\ g.node = handler[r].node
  BY SignKeeps
<1>2. NothingMoves /\ handler[r].sequence = 0 /\ handler[r].node \in Nodes
      /\ handler[r].step = "ready"
  BY SignKeeps
<1>3. \A x \in Requests : handler'[x] = IF x = r THEN g ELSE handler[x]
  BY <1>1 DEF RecordsInv, TypeOK
<1>4. Signed' = Signed \cup {r} /\ r \notin Signed /\ r \notin executed
  BY <1>1, <1>2, <1>3 DEF Signed, DeliveredOnce
<1>5. PICK c : c = [nonce |-> r, node |-> g.node, sequence |-> g.sequence]
  OBVIOUS
<1>6. c \in Channel!Command /\ c.nonce = r
  BY <1>1, <1>2, <1>5, HandlerFields DEF Channel!Command
<1>7. Issued(Signed)' = Issued(Signed) \cup {c} /\ \A d \in Issued(Signed) : d.nonce # r
  BY <1>3, <1>4, <1>5 DEF Issued, Signed
<1>8. Issued(executed)' = Issued(executed) /\ last' = last
  <2>1. executed' = executed /\ last' = last /\ executed \subseteq Requests
    BY <1>2 DEF NothingMoves, RecordsInv, TypeOK
  <2>2. \A x \in executed : handler'[x] = handler[x]
    BY <1>3, <1>4, <2>1
  <2> QED BY <2>1, <2>2 DEF Issued
<1>9. Channel!IssueCommand(c) /\ c \in Issued(Signed)' \ Issued(Signed)
  BY <1>6, <1>7, <1>8 DEF Channel!IssueCommand, Signed
<1> QED BY <1>9 DEF Channel!Issue, Channel!Next, Signed

\* A runner executes a command that was issued, and nobody has executed.
LEMMA ExecuteInChannel ==
    ASSUME RecordsInv, DeliveredOnce, NEW n \in Nodes, Execute(n) \/ Interrupt(n)
    PROVE  Channel!Next
<1>1. PICK c \in Undelivered(n) :
          /\ HandsOut(n, c) /\ executed' = executed \cup {c.nonce}
          /\ last' = [last EXCEPT ![n] = c.sequence]
  BY DEF Execute, Interrupt, Pops
<1>2. handler' = handler
  BY DEF Execute, Interrupt, handlerVars
<1>3. c.sequence > last[n]
  BY <1>1, HandsOutShrinks DEF RecordsInv
<1>4. PICK r \in Requests : r = c.nonce
  BY CommandToDeliver
<1>5. /\ handler[r].node = n /\ handler[r].sequence = c.sequence
      /\ handler[r].sequence > 0 /\ r \notin executed
  BY <1>4, CommandToDeliver
<1>6. PICK d : d = [nonce |-> r, node |-> n, sequence |-> c.sequence]
  OBVIOUS
<1>7. d \in Issued(Signed) /\ d \notin Issued(executed)
  BY <1>5, <1>6 DEF Issued, Signed
<1>8. /\ Issued(Signed)' = Issued(Signed)
      /\ Issued(executed)' = Issued(executed) \cup {d}
  BY <1>1, <1>2, <1>4, <1>5, <1>6 DEF Issued, Signed
<1>9. Channel!Execute(d)
  BY <1>1, <1>3, <1>6, <1>7, <1>8 DEF Channel!Execute, Signed
<1> QED BY <1>7, <1>9 DEF Channel!Next, Signed

\* A runner that is started again has forgotten the sequence.
LEMMA RestartForgets ==
    ASSUME RecordsInv, NEW n \in Nodes, Restart(n)
    PROVE  Channel!Next
<1>1. /\ last' = [last EXCEPT ![n] = 0] /\ UNCHANGED <<handler, executed>>
  BY DEF Restart, handlerVars
<1>2. last' = [m \in Nodes |-> IF m \in {n} THEN 0 ELSE last[m]]
  BY <1>1 DEF RecordsInv, TypeOK
<1>3. Issued(Signed)' = Issued(Signed) /\ Issued(executed)' = Issued(executed)
  BY <1>1 DEF Issued, Signed
<1>4. Channel!Forget({n})
  BY <1>2, <1>3 DEF Channel!Forget, Signed
<1> QED BY <1>4 DEF Channel!Next

\* Every step is one of the channel's, or none.
LEMMA StepOfChannel ==
    RecordsInv /\ DeliveredOnce /\ [Next]_vars => [Channel!Next]_(Channel!vars)
<1> SUFFICES ASSUME RecordsInv, DeliveredOnce, [Next]_vars
             PROVE  Channel!Next \/ UNCHANGED Channel!vars
  OBVIOUS
<1>1. ASSUME NEW r \in Requests, NEW g,
             handler' = [handler EXCEPT ![r] = g], UNCHANGED <<executed, last>>,
             g.sequence = handler[r].sequence,
             handler[r].sequence = 0 \/ g.node = handler[r].node
      PROVE  UNCHANGED Channel!vars
  <2>1. \A x \in Requests : handler'[x] = IF x = r THEN g ELSE handler[x]
    BY <1>1 DEF RecordsInv, TypeOK
  <2>2. \A x \in Requests :
            /\ handler'[x].sequence = handler[x].sequence
            /\ handler[x].sequence > 0 => handler'[x].node = handler[x].node
    BY <1>1, <2>1
  <2> QED BY <1>1, <2>2, ChannelStutters
<1>2. ASSUME NEW r \in Requests, Starts(r) PROVE UNCHANGED Channel!vars
  <2>1. handler[r].sequence = 0
    BY <1>2, StartsFresh DEF RecordsInv, HandlersSound, Shape
  <2>2. PICK g \in Handlers : handler' = [handler EXCEPT ![r] = g] /\ g.sequence = 0
    BY <1>2, StartsFresh
  <2>3. UNCHANGED <<executed, last>>
    BY <1>2, StartsFresh DEF NothingMoves
  <2> QED BY <1>1, <2>1, <2>2, <2>3
<1>3. ASSUME NEW r \in Requests, Onward(r) PROVE UNCHANGED Channel!vars
  <2>1. PICK g \in Handlers : handler' = [handler EXCEPT ![r] = g] /\ g.sequence = 0
    BY <1>3, OnwardKeeps
  <2>2. UNCHANGED <<executed, last>> /\ handler[r].sequence = 0
    BY <1>3, OnwardKeeps DEF NothingMoves
  <2> QED BY <1>1, <2>1, <2>2
<1>4. ASSUME NEW r \in Requests, Enqueue(r) PROVE UNCHANGED Channel!vars
  BY <1>1, <1>4, EnqueueKeeps
<1>5. ASSUME NEW r \in Requests, RecordResponse(r) \/ Abort(r)
      PROVE  UNCHANGED Channel!vars
  BY <1>1, <1>5, EndKeeps DEF NothingMoves
<1>6. ASSUME UNCHANGED <<handler, executed, last>> PROVE UNCHANGED Channel!vars
  BY <1>6, ChannelStutters
<1>7. ASSUME NEW n \in Nodes, EndRunner(n) \/ DropStale(n) PROVE UNCHANGED Channel!vars
  BY <1>6, <1>7 DEF EndRunner, DropStale, handlerVars, nodeVars
<1>8. ASSUME RecordsResult PROVE UNCHANGED Channel!vars
  BY <1>6, <1>8, RecordsResultLeaves DEF NothingMoves
<1> QED BY <1>2, <1>3, <1>4, <1>5, <1>7, <1>8, SignIssues, ExecuteInChannel, RestartForgets,
           StepKinds

\* The rollout's handlers, queue and runners keep the promise of CommandChannel: a
\* command is executed at most once, by its node, in the order of the sequences, on
\* both stores and whatever is dropped, lost or restarted.
THEOREM RolloutImplementsChannel == Spec => ImplementsChannel
<1>1. Init => Channel!Init
  <2>1. Init => Issued(Signed) = {} /\ Issued(executed) = {}
    BY DEF Init, NewHandler, Issued, Signed
  <2> QED BY <2>1 DEF Init, Channel!Init, Signed
<1> QED
  BY <1>1, StepOfChannel, RecordsAlways, OnceAlways, PTL
  DEF Spec, ImplementsChannel, Channel!Spec

-----------------------------------------------------------------------------
(* Idempotency keys, when handlers run one after the other.                *)

\* At most one handler is running; what a key has queued is answered for, or about
\* to be by that handler, and one that has not queued yet has found no answer.
KeysInv ==
    /\ \A q, r \in Busy : q = r
    /\ \A r \in enqueued :
           /\ handler[r].step \in {"queued", "done"}
           /\ handler[r].key # None =>
                  handler[r].step = "queued" \/ responses[handler[r].key] # None
    /\ \A r \in Busy :
           handler[r].step # "queued" /\ handler[r].key # None =>
               responses[handler[r].key] = None
    /\ OneCommandPerKey

\* A handler that is not queueing its command moves.
LEMMA KeysMove ==
    ASSUME RecordsInv, KeysInv, NEW r \in Requests, NEW g \in Handlers,
           handler' = [handler EXCEPT ![r] = g], UNCHANGED <<responses, enqueued>>,
           Busy \subseteq {r}, handler[r].step \notin {"queued", "done"},
           g.step \notin {"new", "queued"},
           g.step # "done" /\ g.key # None => responses[g.key] = None
    PROVE  KeysInv'
<1>1. \A x \in Requests : handler'[x] = IF x = r THEN g ELSE handler[x]
  BY DEF RecordsInv, TypeOK
<1>2. Busy' \subseteq {r}
  BY <1>1 DEF Busy
<1>3. r \notin enqueued /\ enqueued \subseteq Requests
  BY DEF KeysInv, RecordsInv, TypeOK
<1>4. \A x \in enqueued : handler'[x] = handler[x]
  BY <1>1, <1>3
<1>5. ASSUME NEW x \in Busy', handler'[x].step # "queued", handler'[x].key # None
      PROVE  responses'[handler'[x].key] = None
  BY <1>1, <1>2, <1>5 DEF Busy
<1> QED BY <1>2, <1>4, <1>5 DEF KeysInv, OneCommandPerKey

\* The command of a key is queued: no other request with the key has queued one.
LEMMA EnqueueKeepsKeys ==
    ASSUME RecordsInv, KeysInv, NEW r \in Requests, Enqueue(r)
    PROVE  KeysInv'
<1>1. PICK g \in Handlers :
          /\ handler' = [handler EXCEPT ![r] = g] /\ g.key = handler[r].key
          /\ g.step = IF handler[r].key = None THEN "done" ELSE "queued"
  BY EnqueueKeeps
<1>2. /\ responses' = responses /\ enqueued' = enqueued \cup {r}
      /\ handler[r].step = "signed"
  BY EnqueueKeeps
<1>3. \A x \in Requests : handler'[x] = IF x = r THEN g ELSE handler[x]
  BY <1>1 DEF RecordsInv, TypeOK
<1>4. Busy = {r} /\ Busy' \subseteq {r} /\ enqueued \subseteq Requests /\ r \notin enqueued
  <2>1. r \in Busy /\ enqueued \subseteq Requests /\ r \notin enqueued
    BY <1>2 DEF Busy, KeysInv, RecordsInv, TypeOK
  <2>2. Busy = {r}
    BY <2>1 DEF KeysInv
  <2>3. Busy' \subseteq {r}
    BY <1>3, <2>2 DEF Busy
  <2> QED BY <2>1, <2>2, <2>3
<1>5. ASSUME NEW x \in enqueued, handler[x].key # None PROVE handler[x].key # handler[r].key
  <2>1. handler[x].step # "queued"
    BY <1>4 DEF Busy
  <2>2. responses[handler[x].key] # None
    BY <1>5, <2>1 DEF KeysInv
  <2>3. handler[r].key # None => responses[handler[r].key] = None
    BY <1>2, <1>4 DEF KeysInv
  <2> QED BY <1>5, <2>2, <2>3
<1>6. OneCommandPerKey'
  BY <1>1, <1>2, <1>3, <1>4, <1>5 DEF KeysInv, OneCommandPerKey
<1>7. ASSUME NEW x \in enqueued'
      PROVE  /\ handler'[x].step \in {"queued", "done"}
             /\ handler'[x].key # None =>
                    handler'[x].step = "queued" \/ responses'[handler'[x].key] # None
  BY <1>1, <1>2, <1>3, <1>4 DEF KeysInv
<1>8. ASSUME NEW x \in Busy', handler'[x].step # "queued", handler'[x].key # None
      PROVE  responses'[handler'[x].key] = None
  BY <1>1, <1>3, <1>4, <1>8 DEF Busy
<1> QED BY <1>4, <1>6, <1>7, <1>8 DEF KeysInv

\* The response of the key is stored, and the handler is done.
LEMMA ResponseKeepsKeys ==
    ASSUME RecordsInv, KeysInv, NEW r \in Requests, RecordResponse(r)
    PROVE  KeysInv'
<1>1. PICK g \in Handlers :
          /\ handler' = [handler EXCEPT ![r] = g] /\ g.key = handler[r].key
          /\ g.step = "done"
  BY EndKeeps
<1>2. enqueued' = enqueued /\ handler[r].step = "queued"
  BY EndKeeps DEF RecordResponse
<1>3. \A x \in Requests : handler'[x] = IF x = r THEN g ELSE handler[x]
  BY <1>1 DEF RecordsInv, TypeOK
<1>4. PICK k \in Keys : k = handler[r].key
  BY <1>2, AtAwait DEF Shape
<1>5. /\ responses' = [responses EXCEPT ![k] = IF @ = None THEN r ELSE @]
      /\ responses \in [Keys -> Requests \cup {None}]
  BY <1>4 DEF RecordResponse, RecordsInv, TypeOK
<1>6. responses'[k] # None /\ \A j \in Keys : responses[j] # None => responses'[j] # None
  BY <1>5, RolloutAssumption
<1>7. Busy = {r} /\ Busy' = {} /\ enqueued \subseteq Requests
  BY <1>1, <1>2, <1>3 DEF Busy, KeysInv, RecordsInv, TypeOK
<1>8. ASSUME NEW x \in enqueued
      PROVE  /\ handler'[x].step \in {"queued", "done"} /\ handler'[x].key = handler[x].key
             /\ handler'[x].key # None =>
                    handler'[x].step = "queued" \/ responses'[handler'[x].key] # None
  <2>1. x \in Requests /\ handler[x].key \in Keys \cup {None}
    BY <1>7, HandlerFields DEF RecordsInv, TypeOK
  <2>2. CASE x = r
    BY <1>1, <1>3, <1>4, <1>6, <2>1, <2>2
  <2>3. CASE x # r
    BY <1>3, <1>6, <2>1, <2>3 DEF KeysInv
  <2> QED BY <2>2, <2>3
<1>9. OneCommandPerKey'
  BY <1>2, <1>8 DEF KeysInv, OneCommandPerKey
<1> QED BY <1>2, <1>7, <1>8, <1>9 DEF KeysInv

\* Nothing that concerns keys changes.
LEMMA KeysStay ==
    ASSUME KeysInv, UNCHANGED <<handler, responses, enqueued>>
    PROVE  KeysInv'
  BY DEF KeysInv, Busy, OneCommandPerKey

\* One handler at a time, and none is dropped: no step breaks what keys promise.
LEMMA KeysPreserved ==
    ASSUME MaxHandlers = 1, MayAbort = FALSE
    PROVE  RecordsInv /\ KeysInv /\ [Next]_vars => KeysInv'
<1> SUFFICES ASSUME RecordsInv, KeysInv, [Next]_vars PROVE KeysInv'
  OBVIOUS
<1>1. ASSUME NEW r \in Requests, Starts(r) PROVE KeysInv'
  <2>1. Busy = {}
    <3>1. IsFiniteSet(Busy)
      BY RolloutAssumption, FS_Subset DEF Busy
    <3>2. Cardinality(Busy) \in Nat /\ Cardinality(Busy) < 1
      BY <1>1, <3>1, StartsFresh, FS_CardinalityType
    <3> QED BY <3>1, <3>2, FS_EmptySet
  <2>2. PICK g \in Handlers :
            /\ handler' = [handler EXCEPT ![r] = g]
            /\ g.step \notin {"new", "queued"}
            /\ g.step # "done" /\ g.key # None => responses[g.key] = None
    BY <1>1, StartsFresh
  <2>3. handler[r].step = "new" /\ UNCHANGED <<responses, enqueued>>
    BY <1>1, StartsFresh
  <2> QED BY <2>1, <2>2, <2>3, KeysMove
<1>2. ASSUME NEW r \in Requests, Onward(r) \/ Sign(r) PROVE KeysInv'
  <2>1. PICK g \in Handlers :
            /\ handler' = [handler EXCEPT ![r] = g]
            /\ g.step \notin {"new", "queued"} /\ g.key = handler[r].key
    BY <1>2, OnwardKeeps, SignKeeps
  <2>2. /\ handler[r].step \notin {"new", "queued", "done"}
        /\ UNCHANGED <<responses, enqueued>>
    BY <1>2, OnwardKeeps, SignKeeps
  <2>3. r \in Busy /\ Busy \subseteq {r}
    BY <2>2 DEF Busy, KeysInv
  <2>4. g.key # None => responses[g.key] = None
    BY <2>1, <2>2, <2>3 DEF KeysInv
  <2> QED BY <2>1, <2>2, <2>3, <2>4, KeysMove
<1>3. ASSUME NEW r \in Requests, Abort(r) PROVE KeysInv'
  BY <1>3 DEF Abort
<1>4. ASSUME NEW n \in Nodes,
             \/ Execute(n) \/ Interrupt(n) \/ EndRunner(n) \/ DropStale(n) \/ Restart(n)
      PROVE  KeysInv'
  BY <1>4, KeysStay DEF Execute, Interrupt, EndRunner, DropStale, Restart, handlerVars
<1>5. ASSUME RecordsResult PROVE KeysInv'
  BY <1>5, RecordsResultLeaves, KeysStay
<1> QED BY <1>1, <1>2, <1>3, <1>4, <1>5, EnqueueKeepsKeys, ResponseKeepsKeys, StepKinds

\* When handlers run one after the other and no client disconnects, requests with one
\* idempotency key queue one command at most (compile_deployment), on both stores.
THEOREM OneCommandPerKeyHolds ==
    ASSUME MaxHandlers = 1, MayAbort = FALSE
    PROVE  Spec => []OneCommandPerKey
<1>1. Init => KeysInv
  BY DEF Init, KeysInv, Busy, OneCommandPerKey, NewHandler
<1>2. RecordsInv /\ KeysInv /\ [Next]_vars => KeysInv'
  BY KeysPreserved
<1>3. KeysInv => OneCommandPerKey
  BY DEF KeysInv
<1> QED BY <1>1, <1>2, <1>3, RecordsAlways, PTL DEF Spec
=============================================================================
