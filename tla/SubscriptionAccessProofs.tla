---------------------- MODULE SubscriptionAccessProofs ----------------------
(***************************************************************************)
(* Theorems about SubscriptionAccess for both stores, any sets of          *)
(* profiles, credentials and requests, any quotas and samples, negative    *)
(* ones included, any times and bucket lengths, any number of handlers at  *)
(* once and any disconnects.                                               *)
(*                                                                         *)
(* Three invariants, each resting on the ones before it: AccessInv (types, *)
(* what a handler's step says of its answer, and that the tokens a         *)
(* rotation found stay rotated), LedgerInv (the rollups lie between the    *)
(* least and the most that a credential can have used) and FetchInv (what  *)
(* a fetch knows of the clients it has decided on, between its awaits).    *)
(***************************************************************************)
EXTENDS SubscriptionAccess, FiniteSetTheorems, TLAPS

-----------------------------------------------------------------------------
(* The inductive invariant: what is known of a handler and its answer.     *)

\* A handler that has not ended has not answered.
Unanswered(h, a) == h.step # "done" => a = None

\* A handler that is about to look at a client's limits has a client.
ClientInHand(h) == h.step \in {"quota", "usage", "expiry"} => h.client \in Credentials

\* A fetch with a token goes on, or has answered with a subscription, only when the
\* token was good as it began.
TokenWasGood(h, a) ==
    h.op = "fetch" /\ h.token # None /\ (h.step # "done" \/ a = "ok") => h.barred = FALSE

\* create_client sets the limits that were asked for, and in this order.
LimitsSet(h, a) ==
    h.op = "create" =>
        /\ h.step = "quota" => h.quota # None
        /\ h.step = "expiry" => h.expiry # None
        /\ (h.step = "expiry" \/ a = "created") /\ h.quota # None => quota[h.client] # None
        /\ a = "created" /\ h.expiry # None => expiry[h.client] # None

Sound(h, a) == Unanswered(h, a) /\ ClientInHand(h) /\ TokenWasGood(h, a) /\ LimitsSet(h, a)

AllSound == \A r \in Requests : Sound(handler[r], reply[r])

\* The tokens a rotation found are rotated, and a handler that has still to insert
\* its token has none.
Retires(r, h) ==
    /\ h.op = "token" => \A t \in h.seen : tokens[t] # None /\ tokens[t].status = "rotated"
    /\ h.op = "none" \/ (h.op = "token" /\ h.step = "insert") => tokens[r] = None

AllRetire == \A r \in Requests : Retires(r, handler[r])

AccessInv == TypeOK /\ AllSound /\ AllRetire

-----------------------------------------------------------------------------
(* Handlers.                                                               *)

\* No answer is not an answer.
LEMMA NoneIsNoText == None # "ok" /\ None # "created"
  BY AccessAssumption DEF Texts

\* The operation tells which handler it is.
LEMMA HandlerByOp ==
    ASSUME NEW h \in Handlers
    PROVE  /\ h.op = "create" => h \in Creates
           /\ h.op = "report" => h \in Reports
           /\ h.op = "token" => h \in Rotations
           /\ h.op = "fetch" => h \in Fetches
           /\ h.step \notin {"new", "done"} => h.op # "none"
  BY DEF Handlers, New, Creates, Reports, Rotations, Fetches

\* A handler that ends is still one, and only its step has changed.
LEMMA DoneTypes ==
    ASSUME NEW h \in Handlers, h.op # "none"
    PROVE  [h EXCEPT !.step = "done"] \in Handlers
<1>1. CASE h \in Creates
  BY <1>1 DEF Handlers, Creates
<1>2. CASE h \in Reports
  BY <1>2 DEF Handlers, Reports
<1>3. CASE h \in Rotations
  BY <1>3 DEF Handlers, Rotations
<1>4. CASE h \in Fetches
  BY <1>4 DEF Handlers, Fetches
<1> QED BY <1>1, <1>2, <1>3, <1>4 DEF Handlers, New

\* A handler that goes on to another await keeps the types of the handlers.
LEMMA GoToTypes ==
    ASSUME TypeOK, NEW r \in Requests, NEW h \in Handlers, GoTo(r, h)
    PROVE  handler' \in [Requests -> Handlers] /\ reply' \in [Requests -> Replies]
  BY DEF TypeOK, GoTo

\* An answer keeps the types of the handlers and of the replies.
LEMMA AnswerTypes ==
    ASSUME TypeOK, NEW r \in Requests, NEW h \in Handlers, h.op # "none",
           NEW text \in Replies, Answer(r, h, text)
    PROVE  handler' \in [Requests -> Handlers] /\ reply' \in [Requests -> Replies]
<1>1. [h EXCEPT !.step = "done"] \in Handlers
  BY DoneTypes
<1> QED BY <1>1 DEF TypeOK, Answer

\* A change of limits takes nothing from the other handlers but what fetches knew
\* of the client.
LEMMA LimitingTypes ==
    ASSUME TypeOK, NEW r \in Requests, NEW c, NEW h \in Handlers
    PROVE  Limiting(r, c, h) \in [Requests -> Handlers]
<1> SUFFICES ASSUME NEW x \in Requests PROVE Limiting(r, c, h)[x] \in Handlers
  BY DEF Limiting
<1>1. handler[x] \in Handlers
  BY DEF TypeOK
<1>2. CASE x # r /\ handler[x].op = "fetch" /\ handler[x].step # "done"
  <2>1. handler[x] \in Fetches
    BY <1>1, <1>2, HandlerByOp
  <2>2. [handler[x] EXCEPT !.over = @ \ {c}, !.present = @ \ {c}] \in Fetches
    BY <2>1 DEF Fetches
  <2> QED BY <1>2, <2>2 DEF Limiting, Handlers
<1> QED BY <1>1, <1>2 DEF Limiting

\* The handlers once a report has gone on.
LEMMA ReportedTypes ==
    ASSUME TypeOK, NEW r \in Requests, NEW c, NEW b, NEW h \in Handlers
    PROVE  /\ Reported(r, c, b, h) \in [Requests -> Handlers]
           /\ [handler EXCEPT ![r] = h] \in [Requests -> Handlers]
<1>1. Limiting(r, c, h) \in [Requests -> Handlers]
  BY LimitingTypes
<1>2. [handler EXCEPT ![r] = h] \in [Requests -> Handlers]
  BY DEF TypeOK
<1> QED BY <1>1, <1>2 DEF Reported

-----------------------------------------------------------------------------
(* Type correctness.                                                       *)

\* The handlers once create_client has added its credential.
LEMMA LimitsTypes ==
    ASSUME TypeOK, NEW r \in Requests, NEW h \in Creates, GoOnWithLimits(r, h)
    PROVE  handler' \in [Requests -> Handlers] /\ reply' \in [Requests -> Replies]
<1>1. CASE GoTo(r, [h EXCEPT !.step = "quota"])
  <2>1. [h EXCEPT !.step = "quota"] \in Creates
    BY DEF Creates
  <2> QED BY <1>1, <2>1, GoToTypes DEF Handlers
<1>2. CASE GoTo(r, [h EXCEPT !.step = "expiry"])
  <2>1. [h EXCEPT !.step = "expiry"] \in Creates
    BY DEF Creates
  <2> QED BY <1>2, <2>1, GoToTypes DEF Handlers
<1>3. CASE Answer(r, h, "created")
  BY <1>3, AnswerTypes DEF Handlers, Creates, Replies, Texts
<1> QED BY <1>1, <1>2, <1>3 DEF GoOnWithLimits

\* The handlers once the loop over the credentials has gone on.
LEMMA LoopTypes ==
    ASSUME TypeOK, NEW r \in Requests, NEW h \in Fetches, Loop(r, h)
    PROVE  handler' \in [Requests -> Handlers] /\ reply' \in [Requests -> Replies]
<1>1. CASE Answer(r, [h EXCEPT !.client = None, !.limit = None], "ok")
  <2>1. [h EXCEPT !.client = None, !.limit = None] \in Fetches
    BY DEF Fetches
  <2>2. [h EXCEPT !.client = None, !.limit = None].op # "none"
    BY <2>1 DEF Fetches
  <2> QED BY <1>1, <2>1, <2>2, AnswerTypes DEF Handlers, Replies, Texts
<1>2. ASSUME NEW c \in h.todo,
             GoTo(r, [h EXCEPT !.step = "quota", !.todo = @ \ {c}, !.client = c,
                               !.limit = None])
      PROVE  handler' \in [Requests -> Handlers] /\ reply' \in [Requests -> Replies]
  <2>1. [h EXCEPT !.step = "quota", !.todo = @ \ {c}, !.client = c, !.limit = None]
            \in Fetches
    BY DEF Fetches
  <2> QED BY <1>2, <2>1, GoToTypes DEF Handlers
<1> QED BY <1>1, <1>2 DEF Loop

\* The rollups with a sample added.
LEMMA AddedTypes ==
    ASSUME TypeOK, NEW B, NEW c \in Credentials, NEW b \in Int, NEW t
    PROVE  Added(B, c, b, t) \in [Credentials -> [Starts -> Int]]
  BY DEF TypeOK, Added

\* The token table after a rotation.
LEMMA RetiredTypes ==
    ASSUME TypeOK, NEW p \in Profiles
    PROVE  Retired(p) \in [Requests -> TokenRows \cup {None}]
  BY DEF TypeOK, TokenRows, Retired, Active, TokensOf

\* The bounds of a usage after an amount is added to them.
LEMMA BoundTypes ==
    ASSUME TypeOK, NEW c \in Credentials, NEW b \in Int
    PROVE  /\ Sent(c, b) \/ Counted(c, b) =>
                  least' \in [Credentials -> Int] /\ most' \in [Credentials -> Int]
           /\ [least EXCEPT ![c] = @ + b] \in [Credentials -> Int]
           /\ [most EXCEPT ![c] = @ + b] \in [Credentials -> Int]
<1>1. Up(b) \in Int /\ Down(b) \in Int
  BY DEF Up, Down
<1> QED BY <1>1 DEF TypeOK, Sent, Counted

\* Every step keeps the types, given that a handler has the client it works on.
LEMMA TypeStep == AccessInv /\ [Next]_vars => TypeOK'
<1> SUFFICES ASSUME AccessInv, [Next]_vars PROVE TypeOK'
  OBVIOUS
<1>0. TypeOK /\ \A r \in Requests : handler[r] \in Handlers /\ ClientInHand(handler[r])
  BY DEF AccessInv, AllSound, Sound, TypeOK
<1>1. ASSUME NEW r \in Requests, NEW p \in Profiles, NEW c \in Credentials,
             NEW q \in Quotas \cup {None}, NEW e \in Instants \cup {None},
             StartCreate(r, p, c, q, e)
      PROVE  TypeOK'
  <2> DEFINE h == [op |-> "create", step |-> "join", profile |-> p, client |-> c,
                   quota |-> q, expiry |-> e]
  <2>1. h \in Creates
    BY DEF Creates
  <2>2. handler' \in [Requests -> Handlers] /\ reply' \in [Requests -> Replies]
    <3>1. CASE GoOnWithLimits(r, h)
      BY <1>0, <2>1, <3>1, LimitsTypes
    <3>2. CASE GoTo(r, h)
      BY <1>0, <2>1, <3>2, GoToTypes DEF Handlers
    <3> QED BY <1>1, <3>1, <3>2 DEF StartCreate
  <2>3. clients' \in [Profiles -> SUBSET Credentials]
    BY <1>0, <1>1 DEF StartCreate, TypeOK
  <2> QED BY <1>0, <1>1, <2>2, <2>3 DEF StartCreate, TypeOK, usageVars
<1>2. ASSUME NEW r \in Requests, JoinProfile(r) PROVE TypeOK'
  <2>1. handler[r] \in Creates
    BY <1>0, <1>2, HandlerByOp DEF JoinProfile
  <2>2. handler' \in [Requests -> Handlers] /\ reply' \in [Requests -> Replies]
    BY <1>0, <1>2, <2>1, LimitsTypes DEF JoinProfile
  <2>3. clients' \in [Profiles -> SUBSET Credentials]
    BY <1>0, <1>2, <2>1 DEF JoinProfile, Creates, TypeOK
  <2> QED BY <1>0, <1>2, <2>2, <2>3 DEF JoinProfile, TypeOK, usageVars
<1>3. ASSUME NEW r \in Requests, SetQuota(r) PROVE TypeOK'
  <2>1. handler[r] \in Creates
    BY <1>0, <1>3, HandlerByOp DEF SetQuota
  <2>2. PICK s \in {"done", "expiry"} :
            handler' = Limiting(r, handler[r].client, [handler[r] EXCEPT !.step = s])
    BY <1>3 DEF SetQuota
  <2>3. [handler[r] EXCEPT !.step = s] \in Handlers
    BY <2>1 DEF Creates, Handlers
  <2>4. handler' \in [Requests -> Handlers]
    BY <1>0, <2>2, <2>3, LimitingTypes
  <2>5. quota' \in [Credentials -> Int \cup {None}] /\ reply' \in [Requests -> Replies]
    BY <1>0, <1>3, <2>1, AccessAssumption DEF SetQuota, Creates, TypeOK, Replies, Texts
  <2> QED BY <1>0, <1>3, <2>4, <2>5 DEF SetQuota, TypeOK, usageVars
<1>4. ASSUME NEW r \in Requests, SetExpiry(r) PROVE TypeOK'
  <2>1. handler[r] \in Creates
    BY <1>0, <1>4, HandlerByOp DEF SetExpiry
  <2>2. [handler[r] EXCEPT !.step = "done"] \in Handlers
    BY <2>1 DEF Creates, Handlers
  <2>3. handler' \in [Requests -> Handlers]
    BY <1>0, <1>4, <2>2, LimitingTypes DEF SetExpiry
  <2>4. expiry' \in [Credentials -> Instants \cup {None}] /\ reply' \in [Requests -> Replies]
    BY <1>0, <1>4, <2>1 DEF SetExpiry, Creates, TypeOK, Replies, Texts
  <2> QED BY <1>0, <1>4, <2>3, <2>4 DEF SetExpiry, TypeOK, usageVars
<1>5. ASSUME NEW r \in Requests, NEW c \in Credentials, NEW b \in Samples,
             NEW t \in Instants, StartReport(r, c, b, t)
      PROVE  TypeOK'
  <2> DEFINE h == [op |-> "report", step |-> "hour", client |-> c, at |-> t, bytes |-> b]
  <2>1. h \in Handlers /\ [h EXCEPT !.step = "done"] \in Handlers /\ b \in Int
    BY AccessAssumption DEF Reports, Handlers
  <2>2. handler' \in [Requests -> Handlers] /\ reply' \in [Requests -> Replies]
    <3>1. PICK g \in {h, [h EXCEPT !.step = "done"]} :
              handler' \in {Reported(r, c, b, g), [handler EXCEPT ![r] = g]}
      BY <1>5 DEF StartReport, Answer
    <3>2. g \in Handlers
      BY <2>1, <3>1
    <3> HIDE DEF h
    <3>3. handler' \in [Requests -> Handlers]
      BY <1>0, <3>1, <3>2, ReportedTypes
    <3>4. reply' = reply \/ \E text \in Texts : reply' = [reply EXCEPT ![r] = text]
      BY <1>5 DEF StartReport, Answer, Texts
    <3> QED BY <1>0, <3>3, <3>4 DEF TypeOK, Replies
  <2>3. rollups' \in [Credentials -> [Starts -> Int]]
    <3>1. rollups' = Added({"hour", "day", "month"}, c, b, t) \/ rollups' = rollups
      BY <1>5 DEF StartReport, usageVars
    <3>2. Added({"hour", "day", "month"}, c, b, t) \in [Credentials -> [Starts -> Int]]
      BY <1>0, <2>1, AddedTypes
    <3> QED BY <1>0, <3>1, <3>2 DEF TypeOK
  <2>4. least' \in [Credentials -> Int] /\ most' \in [Credentials -> Int]
    <3>1. \/ /\ least' = [least EXCEPT ![c] = @ + b]
             /\ most' = [most EXCEPT ![c] = @ + b]
          \/ Sent(c, b)
          \/ UNCHANGED <<least, most>>
      BY <1>5 DEF StartReport, usageVars
    <3>2. CASE UNCHANGED <<least, most>>
      BY <1>0, <3>2 DEF TypeOK
    <3> QED BY <1>0, <2>1, <3>1, <3>2, BoundTypes
  <2> QED BY <1>0, <1>5, <2>2, <2>3, <2>4 DEF StartReport, TypeOK
<1>6. ASSUME NEW r \in Requests, UpsertRollup(r) PROVE TypeOK'
  <2> DEFINE f == handler[r]
  <2>1. /\ f \in Reports /\ f \in Handlers /\ f.client \in Credentials /\ f.bytes \in Int
        /\ \A s \in {"day", "month", "done"} : [f EXCEPT !.step = s] \in Handlers
    <3>1. f \in Reports
      BY <1>0, <1>6, HandlerByOp DEF UpsertRollup
    <3> QED BY <3>1, AccessAssumption DEF Reports, Handlers
  <2>2. handler' \in [Requests -> Handlers] /\ reply' \in [Requests -> Replies]
    <3>1. PICK s \in {"day", "month", "done"} :
              handler' \in {Reported(r, f.client, f.bytes, [f EXCEPT !.step = s]),
                            [handler EXCEPT ![r] = [f EXCEPT !.step = s]]}
      BY <1>6 DEF UpsertRollup, GoTo
    <3> DEFINE g == [f EXCEPT !.step = s]
    <3>2. handler' \in [Requests -> Handlers]
      <4>1. g \in Handlers
        BY <2>1
      <4>2. handler' \in {Reported(r, f.client, f.bytes, g), [handler EXCEPT ![r] = g]}
        BY <3>1
      <4> HIDE DEF f, g
      <4> QED BY <1>0, <4>1, <4>2, ReportedTypes
    <3>3. reply' = reply \/ reply' = [reply EXCEPT ![r] = "accepted"]
      BY <1>6 DEF UpsertRollup, GoTo
    <3> QED BY <1>0, <3>2, <3>3 DEF TypeOK, Replies, Texts
  <2>3. rollups' \in [Credentials -> [Starts -> Int]]
    BY <1>0, <1>6, <2>1, AddedTypes DEF UpsertRollup
  <2>4. least' \in [Credentials -> Int] /\ most' \in [Credentials -> Int]
    <3>1. Counted(f.client, f.bytes) \/ UNCHANGED <<least, most>>
      BY <1>6 DEF UpsertRollup
    <3>2. CASE UNCHANGED <<least, most>>
      BY <1>0, <3>2 DEF TypeOK
    <3> QED BY <1>0, <2>1, <3>1, <3>2, BoundTypes
  <2> QED BY <1>0, <1>6, <2>2, <2>3, <2>4 DEF UpsertRollup, TypeOK
<1>7. ASSUME NEW r \in Requests, NEW p \in Profiles, IssueToken(r, p) PROVE TypeOK'
  <2> DEFINE h == [op |-> "token", step |-> "insert", profile |-> p, seen |-> {}]
  <2>1. h \in Handlers /\ h.op # "none"
    BY DEF Rotations, Handlers
  <2>2. handler' \in [Requests -> Handlers] /\ reply' \in [Requests -> Replies]
    BY <1>0, <1>7, <2>1, AnswerTypes DEF IssueToken, Replies, Texts
  <2>3. tokens' \in [Requests -> TokenRows \cup {None}]
    BY <1>0, <1>7 DEF IssueToken, Fresh, TypeOK, TokenRows
  <2> QED BY <1>0, <1>7, <2>2, <2>3 DEF IssueToken, TypeOK, usageVars
<1>8. ASSUME NEW r \in Requests, NEW p \in Profiles, StartRotate(r, p) PROVE TypeOK'
  <2> DEFINE h == [op |-> "token", step |-> "insert", profile |-> p, seen |-> TokensOf(p)]
  <2>1. h \in Handlers /\ h.op # "none"
    BY DEF Rotations, Handlers, TokensOf
  <2>2. handler' \in [Requests -> Handlers] /\ reply' \in [Requests -> Replies]
    BY <1>0, <1>8, <2>1, AnswerTypes, GoToTypes DEF StartRotate, Replies, Texts
  <2>3. tokens' \in [Requests -> TokenRows \cup {None}]
    BY <1>0, <1>8, RetiredTypes DEF StartRotate, Fresh, TokenRows
  <2> QED BY <1>0, <1>8, <2>2, <2>3 DEF StartRotate, TypeOK, usageVars
<1>9. ASSUME NEW r \in Requests, InsertRotated(r) PROVE TypeOK'
  <2>1. handler[r] \in Rotations /\ handler[r] \in Handlers /\ handler[r].op # "none"
    BY <1>0, <1>9, HandlerByOp DEF InsertRotated
  <2>2. handler' \in [Requests -> Handlers] /\ reply' \in [Requests -> Replies]
    BY <1>0, <1>9, <2>1, AnswerTypes DEF InsertRotated, Replies, Texts
  <2>3. tokens' \in [Requests -> TokenRows \cup {None}]
    BY <1>0, <1>9, <2>1 DEF InsertRotated, Fresh, Rotations, TypeOK, TokenRows
  <2> QED BY <1>0, <1>9, <2>2, <2>3 DEF InsertRotated, TypeOK, usageVars
<1>10. ASSUME NEW r \in Requests, NEW p \in Profiles, NEW t \in Requests \cup {None},
              StartFetch(r, p, t)
       PROVE  TypeOK'
  <2>1. PICK h \in Fetches : \/ GoTo(r, [h EXCEPT !.step = "log"])
                             \/ GoTo(r, h)
                             \/ Answer(r, h, "unauthorized")
    <3> DEFINE b == IF t # None THEN t \in Revoked ELSE TokensOf(p) # {}
               h == [op |-> "fetch", step |-> "read", profile |-> p, token |-> t,
                     todo |-> {}, client |-> None, limit |-> None, shown |-> {},
                     over |-> Denied, present |-> clients[p], barred |-> b]
    <3>1. b \in BOOLEAN
      <4>1. CASE t # None
        BY <4>1
      <4>2. CASE t = None
        BY <4>2
      <4> QED BY <4>1, <4>2
    <3>2. Denied \subseteq Credentials /\ clients[p] \subseteq Credentials
      BY <1>0 DEF Denied, TypeOK
    <3> HIDE DEF b
    <3>3. h \in Fetches
      BY <3>1, <3>2 DEF Fetches
    <3>4. \/ GoTo(r, [h EXCEPT !.step = "log"])
          \/ GoTo(r, h)
          \/ Answer(r, h, "unauthorized")
      BY <1>10 DEF StartFetch, b
    <3> QED BY <3>3, <3>4
  <2>2. [h EXCEPT !.step = "log"] \in Handlers /\ h \in Handlers /\ h.op # "none"
    BY DEF Fetches, Handlers
  <2>3. handler' \in [Requests -> Handlers] /\ reply' \in [Requests -> Replies]
    BY <1>0, <2>1, <2>2, GoToTypes, AnswerTypes DEF Replies, Texts
  <2> QED BY <1>0, <1>10, <2>3 DEF StartFetch, TypeOK, usageVars
<1>11. ASSUME NEW r \in Requests, RecordAccess(r) PROVE TypeOK'
  <2>1. handler[r] \in Fetches
    BY <1>0, <1>11, HandlerByOp DEF RecordAccess
  <2>2. [handler[r] EXCEPT !.step = "read"] \in Handlers
    BY <2>1 DEF Fetches, Handlers
  <2>3. handler' \in [Requests -> Handlers] /\ reply' \in [Requests -> Replies]
    BY <1>0, <1>11, <2>2, GoToTypes DEF RecordAccess
  <2> QED BY <1>0, <1>11, <2>3 DEF RecordAccess, TypeOK, usageVars
<1>12. ASSUME NEW r \in Requests, ReadInMemory(r) PROVE TypeOK'
  <2>1. handler[r] \in Fetches
    BY <1>0, <1>12, HandlerByOp DEF ReadInMemory
  <2>2. PICK S \in SUBSET Credentials : Answer(r, [handler[r] EXCEPT !.shown = S], "ok")
    BY <1>0, <1>12, <2>1 DEF ReadInMemory, Fetches, TypeOK
  <2>3. /\ [handler[r] EXCEPT !.shown = S] \in Handlers
        /\ [handler[r] EXCEPT !.shown = S].op # "none"
    BY <2>1 DEF Fetches, Handlers
  <2>4. handler' \in [Requests -> Handlers] /\ reply' \in [Requests -> Replies]
    BY <1>0, <2>2, <2>3, AnswerTypes DEF Replies, Texts
  <2> QED BY <1>0, <1>12, <2>4 DEF ReadInMemory, TypeOK, usageVars
<1>13. ASSUME NEW r \in Requests, ListCredentials(r) PROVE TypeOK'
  <2>1. handler[r] \in Fetches
    BY <1>0, <1>13, HandlerByOp DEF ListCredentials
  <2>2. [handler[r] EXCEPT !.todo = clients[handler[r].profile]] \in Fetches
    BY <1>0, <2>1 DEF Fetches, TypeOK
  <2>3. handler' \in [Requests -> Handlers] /\ reply' \in [Requests -> Replies]
    BY <1>0, <1>13, <2>2, LoopTypes DEF ListCredentials
  <2> QED BY <1>0, <1>13, <2>3 DEF ListCredentials, TypeOK, usageVars
<1>14. ASSUME NEW r \in Requests, ReadQuota(r) PROVE TypeOK'
  <2>1. handler[r] \in Fetches /\ handler[r].client \in Credentials
    BY <1>0, <1>14, HandlerByOp DEF ReadQuota, ClientInHand
  <2>2. PICK s \in {"expiry", "usage"} :
            GoTo(r, [handler[r] EXCEPT !.limit = quota[handler[r].client], !.step = s])
    BY <1>14 DEF ReadQuota
  <2>3. [handler[r] EXCEPT !.limit = quota[handler[r].client], !.step = s] \in Handlers
    BY <1>0, <2>1 DEF Fetches, Handlers, TypeOK
  <2>4. handler' \in [Requests -> Handlers] /\ reply' \in [Requests -> Replies]
    BY <1>0, <2>2, <2>3, GoToTypes
  <2> QED BY <1>0, <1>14, <2>4 DEF ReadQuota, TypeOK, usageVars
<1>15. ASSUME NEW r \in Requests, ReadUsage(r) PROVE TypeOK'
  <2>1. handler[r] \in Fetches
    BY <1>0, <1>15, HandlerByOp DEF ReadUsage
  <2>2. [handler[r] EXCEPT !.step = "expiry"] \in Handlers
    BY <2>1 DEF Fetches, Handlers
  <2>3. handler' \in [Requests -> Handlers] /\ reply' \in [Requests -> Replies]
    BY <1>0, <1>15, <2>1, <2>2, GoToTypes, LoopTypes DEF ReadUsage
  <2> QED BY <1>0, <1>15, <2>3 DEF ReadUsage, TypeOK, usageVars
<1>16. ASSUME NEW r \in Requests, ReadExpiry(r) PROVE TypeOK'
  <2>1. handler[r] \in Fetches /\ handler[r].client \in Credentials
    BY <1>0, <1>16, HandlerByOp DEF ReadExpiry, ClientInHand
  <2>2. PICK S \in {handler[r].shown, handler[r].shown \cup {handler[r].client}} :
            Loop(r, [handler[r] EXCEPT !.shown = S])
    BY <1>16 DEF ReadExpiry
  <2>3. [handler[r] EXCEPT !.shown = S] \in Fetches
    BY <2>1 DEF Fetches
  <2>4. handler' \in [Requests -> Handlers] /\ reply' \in [Requests -> Replies]
    BY <1>0, <2>2, <2>3, LoopTypes
  <2> QED BY <1>0, <1>16, <2>4 DEF ReadExpiry, TypeOK, usageVars
<1>17. ASSUME NEW r \in Requests, Abort(r) PROVE TypeOK'
  <2>1. handler[r] \in Handlers /\ handler[r].op # "none"
    BY <1>0, <1>17, HandlerByOp DEF Abort, Busy
  <2>2. handler' \in [Requests -> Handlers] /\ reply' \in [Requests -> Replies]
    BY <1>0, <1>17, <2>1, AnswerTypes DEF Abort, Replies, Texts
  <2> QED BY <1>0, <1>17, <2>2 DEF Abort, TypeOK, usageVars
<1>18. CASE Tick
  BY <1>0, <1>18, AccessAssumption DEF Tick, TypeOK, usageVars, Instants
<1>19. CASE UNCHANGED vars
  BY <1>0, <1>19 DEF vars, TypeOK
<1> QED BY <1>1, <1>2, <1>3, <1>4, <1>5, <1>6, <1>7, <1>8, <1>9, <1>10, <1>11, <1>12,
           <1>13, <1>14, <1>15, <1>16, <1>17, <1>18, <1>19 DEF Next

-----------------------------------------------------------------------------
(* What a step makes of a handler, and what it leaves of the others.       *)

\* A handler goes on or answers while no limit changes.
LEMMA OneMoves ==
    ASSUME AccessInv, NEW r \in Requests, NEW h, NEW a,
           handler' = [handler EXCEPT ![r] = h], reply' = [reply EXCEPT ![r] = a],
           UNCHANGED <<quota, expiry>>, Sound(h, a)
    PROVE  AllSound'
<1> SUFFICES ASSUME NEW x \in Requests PROVE Sound(handler[x], reply[x])'
  BY DEF AllSound
<1>1. \A g, b : Sound(g, b)' <=> Sound(g, b)
  BY DEF Sound, LimitsSet, Unanswered, ClientInHand, TokenWasGood
<1>2. CASE x = r
  BY <1>1, <1>2
  DEF AccessInv, TypeOK, Sound, LimitsSet, Unanswered, ClientInHand, TokenWasGood
<1>3. CASE x # r
  BY <1>1, <1>3
  DEF AccessInv, AllSound, TypeOK, Sound, LimitsSet, Unanswered, ClientInHand,
      TokenWasGood
<1> QED BY <1>2, <1>3

\* Going on to another await keeps every handler sound, if the one that moves is.
LEMMA GoToSound ==
    ASSUME AccessInv, NEW r \in Requests, NEW h, GoTo(r, h),
           UNCHANGED <<quota, expiry>>, Sound(h, reply[r])
    PROVE  AllSound'
<1>1. reply' = [reply EXCEPT ![r] = reply[r]]
  BY DEF GoTo, AccessInv, TypeOK
<1> QED BY <1>1, OneMoves DEF GoTo

\* Answering keeps every handler sound, if the one that answers is.
LEMMA AnswerSound ==
    ASSUME AccessInv, NEW r \in Requests, NEW h, NEW a, Answer(r, h, a),
           UNCHANGED <<quota, expiry>>, Sound([h EXCEPT !.step = "done"], a)
    PROVE  AllSound'
  BY OneMoves DEF Answer

\* create_client sets a limit of its client: no limit is ever taken back, and a
\* fetch keeps its token and its place.
LEMMA LimitSound ==
    ASSUME AccessInv, NEW r \in Requests, NEW c, NEW h,
           handler' = Limiting(r, c, h),
           \A x \in Requests \ {r} : reply'[x] = reply[x],
           \A d \in Credentials : /\ quota[d] # None => quota'[d] # None
                                  /\ expiry[d] # None => expiry'[d] # None,
           Sound(handler[r], reply[r])'
    PROVE  AllSound'
<1> SUFFICES ASSUME NEW x \in Requests, x # r PROVE Sound(handler[x], reply[x])'
  BY DEF AllSound
<1>1. handler[x] \in Handlers /\ Sound(handler[x], reply[x])
  BY DEF AccessInv, AllSound, TypeOK
<1>2. CASE handler[x].op = "fetch" /\ handler[x].step # "done"
  <2>1. handler[x] \in Fetches
    BY <1>1, <1>2, HandlerByOp
  <2>2. handler'[x] = [handler[x] EXCEPT !.over = @ \ {c}, !.present = @ \ {c}]
    BY <1>2 DEF Limiting
  <2>3. /\ handler'[x].op = "fetch"
        /\ handler'[x].step = handler[x].step
        /\ handler'[x].client = handler[x].client
        /\ handler'[x].token = handler[x].token
        /\ handler'[x].barred = handler[x].barred
    BY <2>1, <2>2 DEF Fetches
  <2> QED BY <1>1, <1>2, <2>3
          DEF Sound, Unanswered, ClientInHand, TokenWasGood, LimitsSet
<1>3. CASE ~(handler[x].op = "fetch" /\ handler[x].step # "done")
  <2>1. handler'[x] = handler[x]
    BY <1>3 DEF Limiting
  <2>2. handler[x].op = "create" => handler[x].client \in Credentials
    BY <1>1, HandlerByOp DEF Creates
  <2> QED BY <1>1, <2>1, <2>2
          DEF Sound, Unanswered, ClientInHand, TokenWasGood, LimitsSet
<1> QED BY <1>2, <1>3

\* A report goes on or answers.
LEMMA ReportSound ==
    ASSUME AccessInv, NEW r \in Requests, NEW c, NEW b, NEW h, NEW a, Sound(h, a),
           handler' = Reported(r, c, b, h), reply' = [reply EXCEPT ![r] = a],
           h.op = "report", UNCHANGED <<quota, expiry>>
    PROVE  AllSound'
<1>1. CASE b < 0
  <2>1. handler' = Limiting(r, c, h)
    BY <1>1 DEF Reported
  <2>2. handler'[r] = h /\ reply'[r] = a /\ \A x \in Requests \ {r} : reply'[x] = reply[x]
    BY <2>1 DEF Limiting, AccessInv, TypeOK
  <2>3. Sound(handler[r], reply[r])'
    BY <2>2 DEF Sound, Unanswered, ClientInHand, TokenWasGood, LimitsSet
  <2> QED BY <2>1, <2>2, <2>3, LimitSound
<1>2. CASE ~(b < 0)
  <2>1. handler' = [handler EXCEPT ![r] = h]
    BY <1>2 DEF Reported
  <2> QED BY <2>1, OneMoves
<1> QED BY <1>1, <1>2

\* After add_credential create_client goes on to the limits that were asked for.
LEMMA GoOnSound ==
    ASSUME AccessInv, NEW r \in Requests, NEW h \in Creates, h.step = "join",
           reply[r] = None, GoOnWithLimits(r, h), UNCHANGED <<quota, expiry>>
    PROVE  AllSound'
<1> USE DEF Creates, Sound, Unanswered, ClientInHand, TokenWasGood, LimitsSet
<1>1. CASE h.quota # None /\ GoTo(r, [h EXCEPT !.step = "quota"])
  <2>1. Sound([h EXCEPT !.step = "quota"], reply[r])
    BY <1>1, NoneIsNoText
  <2> QED BY <1>1, <2>1, GoToSound
<1>2. CASE h.quota = None /\ h.expiry # None /\ GoTo(r, [h EXCEPT !.step = "expiry"])
  <2>1. Sound([h EXCEPT !.step = "expiry"], reply[r])
    BY <1>2, NoneIsNoText
  <2> QED BY <1>2, <2>1, GoToSound
<1>3. CASE h.quota = None /\ h.expiry = None /\ Answer(r, h, "created")
  <2>1. Sound([h EXCEPT !.step = "done"], "created")
    BY <1>3
  <2> QED BY <1>3, <2>1, AnswerSound
<1> QED BY <1>1, <1>2, <1>3 DEF GoOnWithLimits

\* The loop of a fetch keeps what the gate has decided.
LEMMA LoopSound ==
    ASSUME AccessInv, NEW r \in Requests, NEW h \in Fetches, Loop(r, h),
           h.token # None => h.barred = FALSE, reply[r] = None,
           UNCHANGED <<quota, expiry>>
    PROVE  AllSound'
<1> USE DEF Fetches, Sound, Unanswered, ClientInHand, TokenWasGood, LimitsSet
<1>1. CASE Answer(r, [h EXCEPT !.client = None, !.limit = None], "ok")
  <2>1. Sound([[h EXCEPT !.client = None, !.limit = None] EXCEPT !.step = "done"], "ok")
    OBVIOUS
  <2> QED BY <1>1, <2>1, AnswerSound
<1>2. ASSUME NEW c \in h.todo,
             GoTo(r, [h EXCEPT !.step = "quota", !.todo = @ \ {c}, !.client = c,
                               !.limit = None])
      PROVE  AllSound'
  <2>1. Sound([h EXCEPT !.step = "quota", !.todo = @ \ {c}, !.client = c, !.limit = None],
              reply[r])
    OBVIOUS
  <2> QED BY <1>2, <2>1, GoToSound
<1> QED BY <1>1, <1>2 DEF Loop

\* Every step keeps every handler sound.
LEMMA SoundStep == AccessInv /\ [Next]_vars => AllSound'
<1> SUFFICES ASSUME AccessInv, [Next]_vars PROVE AllSound'
  OBVIOUS
<1>0. \A r \in Requests : handler[r] \in Handlers /\ Sound(handler[r], reply[r])
  BY DEF AccessInv, AllSound, TypeOK
<1>a. \A r \in Requests : handler[r] = New => reply[r] = None
  BY <1>0 DEF Sound, Unanswered, New
<1>b. \A r \in Requests : handler[r].step # "done" => reply[r] = None
  BY <1>0 DEF Sound, Unanswered
<1> USE DEF Sound, Unanswered, ClientInHand, TokenWasGood, LimitsSet
<1>1. ASSUME NEW r \in Requests, NEW p \in Profiles, NEW c \in Credentials,
             NEW q \in Quotas \cup {None}, NEW e \in Instants \cup {None},
             StartCreate(r, p, c, q, e)
      PROVE  AllSound'
  <2> DEFINE h == [op |-> "create", step |-> "join", profile |-> p, client |-> c,
                   quota |-> q, expiry |-> e]
  <2>1. h \in Creates /\ reply[r] = None
    BY <1>1, <1>a DEF Creates, StartCreate, MayStart
  <2>2. CASE GoOnWithLimits(r, h)
    BY <1>1, <2>1, <2>2, GoOnSound DEF StartCreate
  <2>3. CASE GoTo(r, h)
    <3>1. Sound(h, reply[r])
      BY <2>1, NoneIsNoText
    <3> QED BY <1>1, <2>3, <3>1, GoToSound DEF StartCreate
  <2> QED BY <1>1, <2>2, <2>3 DEF StartCreate
<1>2. ASSUME NEW r \in Requests, JoinProfile(r) PROVE AllSound'
  <2>1. handler[r] \in Creates
    BY <1>0, <1>2, HandlerByOp DEF JoinProfile
  <2> QED BY <1>2, <1>b, <2>1, GoOnSound DEF JoinProfile
<1>3. ASSUME NEW r \in Requests, SetQuota(r) PROVE AllSound'
  <2>1. handler[r] \in Creates /\ handler[r].quota # None
    BY <1>0, <1>3, HandlerByOp DEF SetQuota
  <2>2. PICK h \in {[handler[r] EXCEPT !.step = "done"],
                    [handler[r] EXCEPT !.step = "expiry"]} :
            handler' = Limiting(r, handler[r].client, h)
    BY <1>3 DEF SetQuota
  <2>3. \A d \in Credentials : /\ quota[d] # None => quota'[d] # None
                               /\ expiry[d] # None => expiry'[d] # None
    BY <1>3, <2>1 DEF SetQuota, AccessInv, TypeOK
  <2>4. quota'[handler[r].client] # None
    BY <1>3, <2>1 DEF SetQuota, AccessInv, TypeOK, Creates
  <2>5. handler'[r] = [handler[r] EXCEPT !.step = IF handler[r].expiry = None THEN "done"
                                                  ELSE "expiry"]
    BY <1>3 DEF SetQuota, Limiting
  <2>6. reply'[r] = IF handler[r].expiry = None THEN "created" ELSE reply[r]
    BY <1>3 DEF SetQuota, AccessInv, TypeOK
  <2>7. Sound(handler[r], reply[r])'
    BY <1>3, <1>b, <2>1, <2>4, <2>5, <2>6, NoneIsNoText DEF SetQuota, Creates
  <2>8. \A x \in Requests \ {r} : reply'[x] = reply[x]
    BY <1>3 DEF SetQuota, AccessInv, TypeOK
  <2> QED BY <2>2, <2>3, <2>7, <2>8, LimitSound
<1>4. ASSUME NEW r \in Requests, SetExpiry(r) PROVE AllSound'
  <2>1. /\ handler[r] \in Creates
        /\ handler[r].expiry # None
        /\ handler[r].quota # None => quota[handler[r].client] # None
    BY <1>0, <1>4, HandlerByOp DEF SetExpiry
  <2>2. \A d \in Credentials : /\ quota[d] # None => quota'[d] # None
                               /\ expiry[d] # None => expiry'[d] # None
    BY <1>4, <2>1 DEF SetExpiry, AccessInv, TypeOK
  <2>3. expiry'[handler[r].client] # None
    BY <1>4, <2>1 DEF SetExpiry, AccessInv, TypeOK, Creates
  <2>4. handler'[r] = [handler[r] EXCEPT !.step = "done"] /\ reply'[r] = "created"
    BY <1>4 DEF SetExpiry, Limiting, AccessInv, TypeOK
  <2>5. Sound(handler[r], reply[r])'
    BY <1>4, <2>1, <2>3, <2>4 DEF SetExpiry, Creates
  <2>6. \A x \in Requests \ {r} : reply'[x] = reply[x]
    BY <1>4 DEF SetExpiry, AccessInv, TypeOK
  <2> QED BY <1>4, <2>2, <2>5, <2>6, LimitSound DEF SetExpiry
<1>5. ASSUME NEW r \in Requests, NEW c \in Credentials, NEW b \in Samples,
             NEW t \in Instants, StartReport(r, c, b, t)
      PROVE  AllSound'
  <2> DEFINE h == [op |-> "report", step |-> "hour", client |-> c, at |-> t, bytes |-> b]
             g == [h EXCEPT !.step = "done"]
  <2>1. UNCHANGED <<quota, expiry>> /\ reply[r] = None
    BY <1>5, <1>a DEF StartReport, MayStart
  <2>2. Sound(h, reply[r]) /\ h.op = "report" /\ g.op = "report" /\ \A a : Sound(g, a)
    BY <2>1
  <2>3. \/ handler' = Reported(r, c, b, g) /\ reply' = [reply EXCEPT ![r] = "accepted"]
        \/ handler' = Reported(r, c, b, h) /\ UNCHANGED reply
        \/ Answer(r, h, "error")
    BY <1>5 DEF StartReport
  <2>4. reply = [reply EXCEPT ![r] = reply[r]]
    BY DEF AccessInv, TypeOK
  <2>5. Answer(r, h, "error") => AllSound'
    BY <2>1, <2>2, AnswerSound
  <2> HIDE DEF g, h, Sound
  <2> QED BY <2>1, <2>2, <2>3, <2>4, <2>5, ReportSound
<1>6. ASSUME NEW r \in Requests, UpsertRollup(r) PROVE AllSound'
  <2> DEFINE f == handler[r]
             g == [f EXCEPT !.step = "done"]
  <2>1. f \in Reports /\ UNCHANGED <<quota, expiry>>
    BY <1>0, <1>6, HandlerByOp DEF UpsertRollup
  <2>2. ASSUME NEW s \in {"day", "month"}, GoTo(r, [f EXCEPT !.step = s]) PROVE AllSound'
    <3>1. Sound([f EXCEPT !.step = s], reply[r])
      BY <1>6, <1>b, <2>1 DEF Reports, UpsertRollup
    <3> QED BY <2>1, <2>2, <3>1, GoToSound
  <2>3. Sound(g, "accepted") /\ g.op = "report"
    BY <2>1 DEF Reports
  <2>4. \/ \E s \in {"day", "month"} : GoTo(r, [f EXCEPT !.step = s])
        \/ /\ handler' = Reported(r, f.client, f.bytes, g)
           /\ reply' = [reply EXCEPT ![r] = "accepted"]
    BY <1>6 DEF UpsertRollup
  <2> HIDE DEF f, g, Sound
  <2> QED BY <2>1, <2>2, <2>3, <2>4, ReportSound
<1>7. ASSUME NEW r \in Requests, NEW p \in Profiles, IssueToken(r, p) PROVE AllSound'
  <2>1. Sound([[op |-> "token", step |-> "insert", profile |-> p, seen |-> {}]
                  EXCEPT !.step = "done"], "created")
    OBVIOUS
  <2> QED BY <1>7, <2>1, AnswerSound DEF IssueToken
<1>8. ASSUME NEW r \in Requests, NEW p \in Profiles, StartRotate(r, p) PROVE AllSound'
  <2> DEFINE h == [op |-> "token", step |-> "insert", profile |-> p, seen |-> TokensOf(p)]
  <2>1. Sound([h EXCEPT !.step = "done"], "created")
    OBVIOUS
  <2>2. Sound(h, reply[r])
    BY <1>8, <1>a DEF StartRotate, MayStart
  <2> QED BY <1>8, <2>1, <2>2, AnswerSound, GoToSound DEF StartRotate
<1>9. ASSUME NEW r \in Requests, InsertRotated(r) PROVE AllSound'
  <2>1. handler[r] \in Rotations
    BY <1>0, <1>9, HandlerByOp DEF InsertRotated
  <2>2. Sound([handler[r] EXCEPT !.step = "done"], "created")
    BY <2>1 DEF Rotations
  <2> QED BY <1>9, <2>2, AnswerSound DEF InsertRotated
<1>10. ASSUME NEW r \in Requests, NEW p \in Profiles, NEW t \in Requests \cup {None},
              StartFetch(r, p, t)
       PROVE  AllSound'
  <2> DEFINE b == IF t # None THEN t \in Revoked ELSE TokensOf(p) # {}
             h == [op |-> "fetch", step |-> "read", profile |-> p, token |-> t,
                   todo |-> {}, client |-> None, limit |-> None, shown |-> {},
                   over |-> Denied, present |-> clients[p], barred |-> b]
  <2>1. reply[r] = None
    BY <1>10, <1>a DEF StartFetch, MayStart
  <2>2. CASE t # None /\ Verifies(p, t) /\ GoTo(r, [h EXCEPT !.step = "log"])
    <3>1. tokens[t].status = "active"
      BY <2>2 DEF Verifies, Active
    <3>2. t \notin Revoked
      BY <3>1 DEF Revoked, AccessInv, AllRetire, Retires
    <3>3. b = FALSE
      BY <2>2, <3>2
    <3>4. Sound([h EXCEPT !.step = "log"], reply[r])
      BY <2>1, <3>3
    <3> QED BY <1>10, <2>2, <3>4, GoToSound DEF StartFetch
  <2>3. CASE Answer(r, h, "unauthorized")
    <3>1. Sound([h EXCEPT !.step = "done"], "unauthorized")
      OBVIOUS
    <3> QED BY <1>10, <2>3, <3>1, AnswerSound DEF StartFetch
  <2>4. CASE t = None /\ GoTo(r, h)
    <3>1. Sound(h, reply[r])
      BY <2>1, <2>4
    <3> QED BY <1>10, <2>4, <3>1, GoToSound DEF StartFetch
  <2> QED BY <1>10, <2>2, <2>3, <2>4 DEF StartFetch
<1>11. ASSUME NEW r \in Requests, RecordAccess(r) PROVE AllSound'
  <2>1. handler[r] \in Fetches
    BY <1>0, <1>11, HandlerByOp DEF RecordAccess
  <2>2. Sound([handler[r] EXCEPT !.step = "read"], reply[r])
    BY <1>0, <1>11, <2>1 DEF RecordAccess, Fetches
  <2> QED BY <1>11, <2>2, GoToSound DEF RecordAccess
<1>12. ASSUME NEW r \in Requests, ReadInMemory(r) PROVE AllSound'
  <2>1. handler[r] \in Fetches
    BY <1>0, <1>12, HandlerByOp DEF ReadInMemory
  <2>2. PICK S : Answer(r, [handler[r] EXCEPT !.shown = S], "ok")
    BY <1>12 DEF ReadInMemory
  <2>3. Sound([[handler[r] EXCEPT !.shown = S] EXCEPT !.step = "done"], "ok")
    BY <1>0, <1>12, <2>1 DEF ReadInMemory, Fetches
  <2> QED BY <1>12, <2>2, <2>3, AnswerSound DEF ReadInMemory
<1>13. ASSUME NEW r \in Requests, ListCredentials(r) PROVE AllSound'
  <2>1. handler[r] \in Fetches /\ (handler[r].token # None => handler[r].barred = FALSE)
    BY <1>0, <1>13, HandlerByOp DEF ListCredentials
  <2> DEFINE h == [handler[r] EXCEPT !.todo = clients[handler[r].profile]]
  <2>2. h \in Fetches /\ (h.token # None => h.barred = FALSE)
    BY <2>1 DEF Fetches, AccessInv, TypeOK
  <2> QED BY <1>13, <1>b, <2>2, LoopSound DEF ListCredentials
<1>14. ASSUME NEW r \in Requests, ReadQuota(r) PROVE AllSound'
  <2>1. handler[r] \in Fetches
    BY <1>0, <1>14, HandlerByOp DEF ReadQuota
  <2>2. PICK s \in {"expiry", "usage"} :
            GoTo(r, [handler[r] EXCEPT !.limit = quota[handler[r].client], !.step = s])
    BY <1>14 DEF ReadQuota
  <2>3. Sound([handler[r] EXCEPT !.limit = quota[handler[r].client], !.step = s], reply[r])
    BY <1>0, <1>14, <2>1 DEF ReadQuota, Fetches
  <2> QED BY <1>14, <2>2, <2>3, GoToSound DEF ReadQuota
<1>15. ASSUME NEW r \in Requests, ReadUsage(r) PROVE AllSound'
  <2>1. handler[r] \in Fetches /\ (handler[r].token # None => handler[r].barred = FALSE)
    BY <1>0, <1>15, HandlerByOp DEF ReadUsage
  <2>2. Sound([handler[r] EXCEPT !.step = "expiry"], reply[r])
    BY <1>0, <1>15, <2>1 DEF ReadUsage, Fetches
  <2> QED BY <1>15, <1>b, <2>1, <2>2, GoToSound, LoopSound DEF ReadUsage
<1>16. ASSUME NEW r \in Requests, ReadExpiry(r) PROVE AllSound'
  <2>1. /\ handler[r] \in Fetches
        /\ handler[r].client \in Credentials
        /\ handler[r].token # None => handler[r].barred = FALSE
    BY <1>0, <1>16, HandlerByOp DEF ReadExpiry
  <2>2. PICK S \in {handler[r].shown, handler[r].shown \cup {handler[r].client}} :
            Loop(r, [handler[r] EXCEPT !.shown = S])
    BY <1>16 DEF ReadExpiry
  <2>3. /\ [handler[r] EXCEPT !.shown = S] \in Fetches
        /\ [handler[r] EXCEPT !.shown = S].token # None =>
               [handler[r] EXCEPT !.shown = S].barred = FALSE
    BY <2>1 DEF Fetches
  <2> QED BY <1>16, <1>b, <2>2, <2>3, LoopSound DEF ReadExpiry
<1>17. ASSUME NEW r \in Requests, Abort(r) PROVE AllSound'
  <2>1. handler[r] \in Creates \cup Reports \cup Rotations \cup Fetches
    BY <1>0, <1>17 DEF Abort, Busy, Handlers, New
  <2>2. Sound([handler[r] EXCEPT !.step = "done"], None)
    <3>1. [handler[r] EXCEPT !.step = "done"].step = "done"
      BY <2>1 DEF Creates, Reports, Rotations, Fetches
    <3> QED BY <3>1, NoneIsNoText
  <2> QED BY <1>17, <2>2, AnswerSound DEF Abort
<1>18. CASE UNCHANGED <<handler, reply, quota, expiry>>
  BY <1>18 DEF AccessInv, AllSound
<1> QED BY <1>1, <1>2, <1>3, <1>4, <1>5, <1>6, <1>7, <1>8, <1>9, <1>10, <1>11, <1>12,
           <1>13, <1>14, <1>15, <1>16, <1>17, <1>18 DEF Next, Tick, vars

-----------------------------------------------------------------------------
(* Whose handler a step moves.                                             *)

\* A step of r leaves the others as they are, but for what fetches know.
Moves(r) == \A x \in Requests \ {r} : handler'[x] = handler[x] \/ handler'[x].op = "fetch"

\* Going on to another await.
LEMMA MovesGoTo ==
    ASSUME TypeOK, NEW r \in Requests, NEW h, GoTo(r, h)
    PROVE  Moves(r) /\ handler'[r] = h
  BY DEF TypeOK, GoTo, Moves

\* Answering.
LEMMA MovesAnswer ==
    ASSUME TypeOK, NEW r \in Requests, NEW text, NEW h \in Handlers, h.op # "none",
           Answer(r, h, text)
    PROVE  /\ Moves(r) /\ handler'[r].op = h.op /\ handler'[r].step = "done"
           /\ h.op = "token" => handler'[r].seen = h.seen
<1>1. handler'[r] = [h EXCEPT !.step = "done"] /\ Moves(r)
  BY DEF TypeOK, Answer, Moves
<1>2. h \in Creates \cup Reports \cup Rotations \cup Fetches
  BY DEF Handlers, New
<1> DEFINE g == [h EXCEPT !.step = "done"]
<1>3. g.op = h.op /\ g.step = "done" /\ (h.op = "token" => g.seen = h.seen)
  BY <1>2 DEF Creates, Reports, Rotations, Fetches
<1> QED BY <1>1, <1>3

\* A limit changes, or a usage falls.
LEMMA MovesLimiting ==
    ASSUME TypeOK, NEW r \in Requests, NEW c, NEW h, handler' = Limiting(r, c, h)
    PROVE  Moves(r) /\ handler'[r] = h
<1>1. handler'[r] = h
  BY DEF Limiting
<1>2. ASSUME NEW x \in Requests \ {r}
      PROVE  handler'[x] = handler[x] \/ handler'[x].op = "fetch"
  <2>1. CASE handler[x].op = "fetch" /\ handler[x].step # "done"
    <3>1. handler[x] \in Fetches
      BY <2>1, HandlerByOp DEF TypeOK
    <3>2. handler'[x].op = "fetch"
      BY <2>1, <3>1 DEF Limiting, Fetches
    <3> QED BY <3>2
  <2> QED BY <2>1 DEF Limiting
<1> QED BY <1>1, <1>2 DEF Moves

\* A report goes on or answers.
LEMMA MovesReported ==
    ASSUME TypeOK, NEW r \in Requests, NEW c, NEW b, NEW h, handler' = Reported(r, c, b, h)
    PROVE  Moves(r) /\ handler'[r] = h
<1>1. CASE b < 0
  BY <1>1, MovesLimiting DEF Reported
<1>2. CASE ~(b < 0)
  BY <1>2 DEF Reported, TypeOK, Moves
<1> QED BY <1>1, <1>2

\* create_client goes on to its limits.
LEMMA MovesLimits ==
    ASSUME TypeOK, NEW r \in Requests, NEW h \in Creates, GoOnWithLimits(r, h)
    PROVE  Moves(r) /\ handler'[r].op = "create"
<1>1. h \in Handlers /\ h.op = "create" /\ \A s : [h EXCEPT !.step = s].op = "create"
  BY DEF Handlers, Creates
<1>2. ASSUME NEW s, GoTo(r, [h EXCEPT !.step = s])
      PROVE  Moves(r) /\ handler'[r].op = "create"
  BY <1>1, <1>2, MovesGoTo
<1>3. CASE Answer(r, h, "created")
  BY <1>1, <1>3, MovesAnswer
<1> QED BY <1>2, <1>3 DEF GoOnWithLimits

\* The loop of a fetch goes on, or ends.
LEMMA MovesLoop ==
    ASSUME TypeOK, NEW r \in Requests, NEW h \in Fetches, Loop(r, h)
    PROVE  Moves(r) /\ handler'[r].op = "fetch"
<1>1. CASE Answer(r, [h EXCEPT !.client = None, !.limit = None], "ok")
  <2> DEFINE g == [h EXCEPT !.client = None, !.limit = None]
  <2>1. g \in Handlers /\ g.op = "fetch"
    BY DEF Fetches, Handlers
  <2> HIDE DEF g
  <2> QED BY <1>1, <2>1, MovesAnswer DEF g
<1>2. ASSUME NEW c, GoTo(r, [h EXCEPT !.step = "quota", !.todo = @ \ {c}, !.client = c,
                                      !.limit = None])
      PROVE  Moves(r) /\ handler'[r].op = "fetch"
  <2>1. [h EXCEPT !.step = "quota", !.todo = @ \ {c}, !.client = c, !.limit = None].op = "fetch"
    BY DEF Fetches
  <2> QED BY <1>2, <2>1, MovesGoTo
<1> QED BY <1>1, <1>2 DEF Loop

\* No handler begins, or goes on with, a report or a token; some are cut off.
Resting ==
    \A x \in Requests :
        handler'[x].op \in {"none", "report", "token"} =>
            \/ handler'[x] = handler[x]
            \/ /\ handler[x].op = handler'[x].op /\ handler[x].op # "none"
               /\ handler'[x].step = "done"
               /\ handler[x].op = "token" => handler'[x].seen = handler[x].seen

\* A step of create_client or of a fetch.
LEMMA RestingMoves ==
    ASSUME NEW r \in Requests, Moves(r), handler'[r].op \in {"create", "fetch"}
    PROVE  Resting
<1> SUFFICES ASSUME NEW x \in Requests, handler'[x].op \in {"none", "report", "token"}
             PROVE  handler'[x] = handler[x]
  BY DEF Resting
<1> QED BY DEF Moves

\* A step that is neither a report's nor a token's, but for those that are cut off.
NoReport ==
    /\ ~\E r \in Requests : UpsertRollup(r)
    /\ ~\E r \in Requests, c \in Credentials, b \in Samples, t \in Instants :
           StartReport(r, c, b, t)
NoToken ==
    /\ ~\E r \in Requests : InsertRotated(r)
    /\ ~\E r \in Requests, p \in Profiles : IssueToken(r, p) \/ StartRotate(r, p)

\* Every such step leaves reports, tokens and rollups alone.
LEMMA RestingStep ==
    ASSUME AccessInv, Next, NoReport, NoToken
    PROVE  Resting /\ UNCHANGED usageVars /\ UNCHANGED <<store, tokens>>
<1>0. TypeOK /\ \A r \in Requests : handler[r] \in Handlers
  BY DEF AccessInv, TypeOK
<1>1. ASSUME NEW r \in Requests, NEW p \in Profiles, NEW c \in Credentials,
             NEW q \in Quotas \cup {None}, NEW e \in Instants \cup {None},
             StartCreate(r, p, c, q, e)
      PROVE  Resting
  <2> DEFINE h == [op |-> "create", step |-> "join", profile |-> p, client |-> c,
                   quota |-> q, expiry |-> e]
  <2>1. h \in Creates /\ h.op = "create"
    BY DEF Creates
  <2>2. GoOnWithLimits(r, h) \/ GoTo(r, h)
    BY <1>1 DEF StartCreate
  <2> HIDE DEF h
  <2> QED BY <1>0, <2>1, <2>2, MovesLimits, MovesGoTo, RestingMoves
<1>2. ASSUME NEW r \in Requests, JoinProfile(r) PROVE Resting
  BY <1>0, <1>2, HandlerByOp, MovesLimits, RestingMoves DEF JoinProfile
<1>3. ASSUME NEW r \in Requests, SetQuota(r) PROVE Resting
  <2>1. handler[r] \in Creates
    BY <1>0, <1>3, HandlerByOp DEF SetQuota
  <2>2. PICK s : handler' = Limiting(r, handler[r].client, [handler[r] EXCEPT !.step = s])
    BY <1>3 DEF SetQuota
  <2>3. [handler[r] EXCEPT !.step = s].op = "create"
    BY <2>1 DEF Creates
  <2> QED BY <1>0, <2>2, <2>3, MovesLimiting, RestingMoves
<1>4. ASSUME NEW r \in Requests, SetExpiry(r) PROVE Resting
  <2>1. handler[r] \in Creates
    BY <1>0, <1>4, HandlerByOp DEF SetExpiry
  <2>2. [handler[r] EXCEPT !.step = "done"].op = "create"
    BY <2>1 DEF Creates
  <2> QED BY <1>0, <1>4, <2>2, MovesLimiting, RestingMoves DEF SetExpiry
<1>5. ASSUME NEW r \in Requests, NEW p \in Profiles, NEW t \in Requests \cup {None},
             StartFetch(r, p, t)
      PROVE  Resting
  <2> DEFINE b == IF t # None THEN t \in Revoked ELSE TokensOf(p) # {}
             h == [op |-> "fetch", step |-> "read", profile |-> p, token |-> t,
                   todo |-> {}, client |-> None, limit |-> None, shown |-> {},
                   over |-> Denied, present |-> clients[p], barred |-> b]
             g == [h EXCEPT !.step = "log"]
             d == [h EXCEPT !.step = "done"]
  <2>1. h.op = "fetch" /\ g.op = "fetch" /\ d.op = "fetch"
    OBVIOUS
  <2>2. handler' = [handler EXCEPT ![r] = g] \/ handler' = [handler EXCEPT ![r] = h]
            \/ handler' = [handler EXCEPT ![r] = d]
    BY <1>5 DEF StartFetch, GoTo, Answer
  <2> HIDE DEF h, g, d
  <2>3. Moves(r) /\ handler'[r].op = "fetch"
    BY <1>0, <2>1, <2>2 DEF Moves, TypeOK
  <2> QED BY <2>3, RestingMoves
<1>6. ASSUME NEW r \in Requests, RecordAccess(r) PROVE Resting
  <2>1. handler[r] \in Fetches
    BY <1>0, <1>6, HandlerByOp DEF RecordAccess
  <2>2. [handler[r] EXCEPT !.step = "read"].op = "fetch"
    BY <2>1 DEF Fetches
  <2> QED BY <1>0, <1>6, <2>2, MovesGoTo, RestingMoves DEF RecordAccess
<1>7. ASSUME NEW r \in Requests, ReadInMemory(r) PROVE Resting
  <2>1. handler[r] \in Fetches
    BY <1>0, <1>7, HandlerByOp DEF ReadInMemory
  <2>2. PICK S \in SUBSET Credentials : Answer(r, [handler[r] EXCEPT !.shown = S], "ok")
    <3>1. {c \in clients[handler[r].profile] : ~ExceededInMemory(c) /\ ~Expired(c)}
              \in SUBSET Credentials
      BY <1>0, <2>1 DEF Fetches, TypeOK
    <3> QED BY <1>7, <3>1 DEF ReadInMemory
  <2> DEFINE g == [handler[r] EXCEPT !.shown = S]
  <2>3. g \in Handlers /\ g.op = "fetch"
    BY <2>1 DEF Fetches, Handlers
  <2> HIDE DEF g
  <2> QED BY <1>0, <2>2, <2>3, MovesAnswer, RestingMoves DEF g
<1>8. ASSUME NEW r \in Requests, ListCredentials(r) PROVE Resting
  <2>1. handler[r] \in Fetches
    BY <1>0, <1>8, HandlerByOp DEF ListCredentials
  <2>2. [handler[r] EXCEPT !.todo = clients[handler[r].profile]] \in Fetches
    BY <1>0, <2>1 DEF Fetches, TypeOK
  <2> QED BY <1>0, <1>8, <2>2, MovesLoop, RestingMoves DEF ListCredentials
<1>9. ASSUME NEW r \in Requests, ReadQuota(r) PROVE Resting
  <2>1. handler[r] \in Fetches
    BY <1>0, <1>9, HandlerByOp DEF ReadQuota
  <2>2. PICK s : GoTo(r, [handler[r] EXCEPT !.limit = quota[handler[r].client], !.step = s])
    BY <1>9 DEF ReadQuota
  <2>3. [handler[r] EXCEPT !.limit = quota[handler[r].client], !.step = s].op = "fetch"
    BY <2>1 DEF Fetches
  <2> QED BY <1>0, <2>2, <2>3, MovesGoTo, RestingMoves
<1>10. ASSUME NEW r \in Requests, ReadUsage(r) PROVE Resting
  <2>1. handler[r] \in Fetches
    BY <1>0, <1>10, HandlerByOp DEF ReadUsage
  <2>2. [handler[r] EXCEPT !.step = "expiry"].op = "fetch"
    BY <2>1 DEF Fetches
  <2>3. GoTo(r, [handler[r] EXCEPT !.step = "expiry"]) \/ Loop(r, handler[r])
    BY <1>10 DEF ReadUsage
  <2> QED BY <1>0, <2>1, <2>2, <2>3, MovesGoTo, MovesLoop, RestingMoves
<1>11. ASSUME NEW r \in Requests, ReadExpiry(r) PROVE Resting
  <2>1. handler[r] \in Fetches /\ handler[r].client \in Credentials
    BY <1>0, <1>11, HandlerByOp DEF ReadExpiry, AccessInv, AllSound, Sound, ClientInHand
  <2>2. PICK S \in {handler[r].shown, handler[r].shown \cup {handler[r].client}} :
            Loop(r, [handler[r] EXCEPT !.shown = S])
    BY <1>11 DEF ReadExpiry
  <2>3. [handler[r] EXCEPT !.shown = S] \in Fetches
    BY <2>1 DEF Fetches
  <2> QED BY <1>0, <2>2, <2>3, MovesLoop, RestingMoves
<1>12. ASSUME NEW r \in Requests, Abort(r) PROVE Resting
  <2>1. handler[r] \in Handlers /\ handler[r].op # "none" /\ Answer(r, handler[r], None)
    BY <1>0, <1>12, HandlerByOp DEF Abort, Busy
  <2>2. /\ Moves(r) /\ handler'[r].op = handler[r].op /\ handler'[r].step = "done"
        /\ handler[r].op = "token" => handler'[r].seen = handler[r].seen
    BY <1>0, <2>1, MovesAnswer
  <2> SUFFICES ASSUME NEW x \in Requests, handler'[x].op \in {"none", "report", "token"}
               PROVE  \/ handler'[x] = handler[x]
                      \/ /\ handler[x].op = handler'[x].op /\ handler[x].op # "none"
                         /\ handler'[x].step = "done"
                         /\ handler[x].op = "token" => handler'[x].seen = handler[x].seen
    BY DEF Resting
  <2>3. CASE x = r
    BY <2>1, <2>2, <2>3
  <2>4. CASE x # r
    BY <2>2, <2>4 DEF Moves
  <2> QED BY <2>3, <2>4
<1>13. CASE Tick
  BY <1>13 DEF Tick, Resting
<1>14. UNCHANGED usageVars /\ UNCHANGED <<store, tokens>>
  BY DEF Next, NoReport, NoToken, StartCreate, JoinProfile, SetQuota, SetExpiry, StartFetch,
         RecordAccess, ReadInMemory, ListCredentials, ReadQuota, ReadUsage, ReadExpiry,
         Abort, Tick
<1> QED BY <1>1, <1>2, <1>3, <1>4, <1>5, <1>6, <1>7, <1>8, <1>9, <1>10, <1>11, <1>12,
           <1>13, <1>14 DEF Next, NoReport, NoToken

\* A report moves its own handler, and no token.
LEMMA ReportMoves ==
    ASSUME AccessInv, Next, ~NoReport
    PROVE  UNCHANGED tokens /\ \E r \in Requests : Moves(r) /\ handler'[r].op = "report"
<1>0. TypeOK /\ \A r \in Requests : handler[r] \in Handlers
  BY DEF AccessInv, TypeOK
<1>1. ASSUME NEW r \in Requests, NEW c \in Credentials, NEW b \in Samples,
             NEW t \in Instants, StartReport(r, c, b, t)
      PROVE  UNCHANGED tokens /\ Moves(r) /\ handler'[r].op = "report"
  <2> DEFINE h == [op |-> "report", step |-> "hour", client |-> c, at |-> t, bytes |-> b]
             g == [h EXCEPT !.step = "done"]
  <2>1. h.op = "report" /\ g.op = "report"
    OBVIOUS
  <2>2. \/ handler' = Reported(r, c, b, g)
        \/ handler' = Reported(r, c, b, h)
        \/ handler' = [handler EXCEPT ![r] = g]
    BY <1>1 DEF StartReport, Answer
  <2> HIDE DEF h, g
  <2>3. Moves(r) /\ handler'[r].op = "report"
    <3>1. CASE handler' = [handler EXCEPT ![r] = g]
      BY <1>0, <2>1, <3>1 DEF Moves, TypeOK
    <3> QED BY <1>0, <2>1, <2>2, <3>1, MovesReported
  <2> QED BY <1>1, <2>3 DEF StartReport
<1>2. ASSUME NEW r \in Requests, UpsertRollup(r)
      PROVE  UNCHANGED tokens /\ Moves(r) /\ handler'[r].op = "report"
  <2> DEFINE f == handler[r]
  <2>1. \A s : [f EXCEPT !.step = s].op = "report"
    BY <1>0, <1>2, HandlerByOp DEF UpsertRollup, Reports
  <2>2. PICK s : \/ handler' = Reported(r, f.client, f.bytes, [f EXCEPT !.step = s])
                 \/ GoTo(r, [f EXCEPT !.step = s])
    BY <1>2 DEF UpsertRollup
  <2> DEFINE g == [f EXCEPT !.step = s]
  <2>3. g.op = "report" /\ (handler' = Reported(r, f.client, f.bytes, g) \/ GoTo(r, g))
    BY <2>1, <2>2
  <2> HIDE DEF f, g
  <2>4. Moves(r) /\ handler'[r].op = "report"
    BY <1>0, <2>3, MovesGoTo, MovesReported
  <2> QED BY <1>2, <2>4 DEF UpsertRollup
<1> QED BY <1>1, <1>2 DEF NoReport

\* A token moves its own handler.
LEMMA TokenMoves ==
    ASSUME AccessInv, Next, ~NoToken
    PROVE  /\ UNCHANGED usageVars /\ store' = store
           /\ \E r \in Requests : Moves(r) /\ handler'[r].op = "token"
<1>0. TypeOK /\ \A r \in Requests : handler[r] \in Handlers
  BY DEF AccessInv, TypeOK
<1>1. ASSUME NEW r \in Requests, NEW p \in Profiles, IssueToken(r, p) \/ StartRotate(r, p)
      PROVE  UNCHANGED usageVars /\ store' = store /\ Moves(r) /\ handler'[r].op = "token"
  <2>1. PICK S : LET h == [op |-> "token", step |-> "insert", profile |-> p, seen |-> S] IN
                 \/ handler' = [handler EXCEPT ![r] = h]
                 \/ handler' = [handler EXCEPT ![r] = [h EXCEPT !.step = "done"]]
    BY <1>1 DEF IssueToken, StartRotate, GoTo, Answer
  <2>2. Moves(r) /\ handler'[r].op = "token"
    BY <1>0, <2>1 DEF Moves, TypeOK
  <2> QED BY <1>1, <2>2 DEF IssueToken, StartRotate
<1>2. ASSUME NEW r \in Requests, InsertRotated(r)
      PROVE  UNCHANGED usageVars /\ store' = store /\ Moves(r) /\ handler'[r].op = "token"
  <2>1. handler[r].op = "token" /\ Answer(r, handler[r], "created")
    BY <1>2 DEF InsertRotated
  <2>2. Moves(r) /\ handler'[r].op = "token"
    BY <1>0, <2>1, MovesAnswer
  <2> QED BY <1>2, <2>2 DEF InsertRotated
<1> QED BY <1>1, <1>2 DEF NoToken

\* The tokens that rotations found stay rotated while the table is left alone.
LEMMA RetireStays ==
    ASSUME AllRetire, UNCHANGED tokens,
           \A x \in Requests :
               handler'[x].op \in {"none", "token"} =>
                   /\ handler[x].op = handler'[x].op
                   /\ handler[x].op = "token" => handler'[x].seen = handler[x].seen
                   /\ handler'[x].step = "insert" => handler[x].step = "insert"
    PROVE  AllRetire'
<1> SUFFICES ASSUME NEW x \in Requests PROVE Retires(x, handler[x])'
  BY DEF AllRetire
<1>1. Retires(x, handler[x])
  BY DEF AllRetire
<1> QED BY <1>1 DEF Retires

\* A token step: each token a rotation found is rotated and not r's own, and r has one.
LEMMA RetireMoves ==
    ASSUME AllRetire, NEW r \in Requests, Moves(r), handler'[r].op = "token",
           \A t \in Requests \ {r} : /\ tokens[t] = None => tokens'[t] = None
                                     /\ tokens[t] # None /\ tokens[t].status = "rotated" =>
                                            tokens'[t] # None /\ tokens'[t].status = "rotated",
           tokens[r] = None,
           \A x \in Requests : handler[x].op = "token" => handler[x].seen \subseteq Requests,
           Retires(r, handler[r])'
    PROVE  AllRetire'
<1> SUFFICES ASSUME NEW x \in Requests, x # r PROVE Retires(x, handler[x])'
  BY DEF AllRetire
<1>1. Retires(x, handler[x]) /\ (handler'[x] = handler[x] \/ handler'[x].op = "fetch")
  BY DEF AllRetire, Moves
<1> QED BY <1>1 DEF Retires

\* Every step keeps the tokens that rotations found rotated.
LEMMA RetireStep == AccessInv /\ [Next]_vars => AllRetire'
<1> SUFFICES ASSUME AccessInv, [Next]_vars PROVE AllRetire'
  OBVIOUS
<1>0. /\ TypeOK /\ AllRetire
      /\ \A r \in Requests : handler[r] \in Handlers /\ Retires(r, handler[r])
  BY DEF AccessInv, AllRetire, TypeOK
<1>a. \A x \in Requests : handler[x].op = "token" => handler[x].seen \subseteq Requests
  BY <1>0, HandlerByOp DEF Rotations
<1>b. tokens \in [Requests -> TokenRows \cup {None}]
  BY <1>0 DEF TypeOK
<1>1. CASE Next /\ NoReport /\ NoToken
  <2>1. Resting /\ UNCHANGED tokens
    BY <1>1, RestingStep
  <2> QED BY <1>0, <2>1, RetireStays DEF Resting
<1>2. CASE Next /\ ~NoReport
  <2>1. PICK r \in Requests : UNCHANGED tokens /\ Moves(r) /\ handler'[r].op = "report"
    BY <1>2, ReportMoves
  <2> QED BY <1>0, <2>1, RetireStays DEF Moves
<1>3. ASSUME NEW r \in Requests, NEW p \in Profiles, IssueToken(r, p) PROVE AllRetire'
  <2> DEFINE h == [op |-> "token", step |-> "insert", profile |-> p, seen |-> {}]
             g == [h EXCEPT !.step = "done"]
  <2>1. handler' = [handler EXCEPT ![r] = g] /\ tokens' = [tokens EXCEPT ![r] = Fresh(p)]
    BY <1>3 DEF IssueToken, Answer
  <2>2. tokens[r] = None
    BY <1>0, <1>3 DEF IssueToken, MayStart, New, Retires
  <2>3. g.op = "token" /\ g.seen = {} /\ g.step = "done"
    OBVIOUS
  <2> HIDE DEF h, g
  <2>4. Moves(r) /\ handler'[r] = g
    BY <1>0, <2>1 DEF Moves, TypeOK
  <2>5. Retires(r, handler[r])'
    BY <2>3, <2>4 DEF Retires
  <2>6. \A t \in Requests \ {r} : tokens'[t] = tokens[t]
    BY <1>b, <2>1
  <2> QED BY <1>0, <1>a, <2>2, <2>3, <2>4, <2>5, <2>6, RetireMoves
<1>4. ASSUME NEW r \in Requests, NEW p \in Profiles, StartRotate(r, p) PROVE AllRetire'
  <2> DEFINE h == [op |-> "token", step |-> "insert", profile |-> p, seen |-> TokensOf(p)]
             g == [h EXCEPT !.step = "done"]
  <2>1. \/ handler' = [handler EXCEPT ![r] = h] /\ tokens' = Retired(p)
        \/ /\ handler' = [handler EXCEPT ![r] = g]
           /\ tokens' = [Retired(p) EXCEPT ![r] = Fresh(p)]
    BY <1>4 DEF StartRotate, GoTo, Answer
  <2>2. tokens[r] = None
    BY <1>0, <1>4 DEF StartRotate, MayStart, New, Retires
  <2>3. /\ h.op = "token" /\ h.seen = TokensOf(p) /\ h.step = "insert"
        /\ g.op = "token" /\ g.seen = TokensOf(p) /\ g.step = "done"
    OBVIOUS
  <2> HIDE DEF h, g
  <2>4. ASSUME NEW t \in Requests
        PROVE  /\ tokens[t] = None => Retired(p)[t] = None
               /\ tokens[t] # None /\ tokens[t].status = "rotated" => Retired(p)[t] = tokens[t]
               /\ t \in TokensOf(p) => Retired(p)[t] # None /\ Retired(p)[t].status = "rotated"
    <3>1. CASE t \in Active(p)
      <4>1. /\ Retired(p)[t] = [tokens[t] EXCEPT !.status = "rotated"]
            /\ tokens[t] # None /\ tokens[t].status = "active"
        BY <3>1 DEF Retired, Active, TokensOf
      <4>2. tokens[t] \in TokenRows
        BY <1>b, <4>1
      <4>3. [tokens[t] EXCEPT !.status = "rotated"].status = "rotated"
        BY <4>2 DEF TokenRows
      <4>4. [tokens[t] EXCEPT !.status = "rotated"] # None
        <5>1. [tokens[t] EXCEPT !.status = "rotated"] \in TokenRows
          BY <4>2 DEF TokenRows
        <5> QED BY <5>1, AccessAssumption
      <4> QED BY <4>1, <4>3, <4>4
    <3>2. CASE t \notin Active(p)
      <4>1. Retired(p)[t] = tokens[t]
        BY <3>2 DEF Retired
      <4>2. t \in TokensOf(p) => tokens[t] # None /\ tokens[t].status = "rotated"
        BY <1>b, <3>2 DEF Active, TokensOf, TokenRows
      <4> QED BY <4>1, <4>2
    <3> QED BY <3>1, <3>2
  <2>5. r \notin TokensOf(p) /\ TokensOf(p) \subseteq Requests
    BY <2>2 DEF TokensOf
  <2>6. Retired(p) \in [Requests -> TokenRows \cup {None}]
    BY <1>0, RetiredTypes
  <2>7. \A t \in Requests \ {r} : tokens'[t] = Retired(p)[t]
    BY <2>1, <2>6
  <2>8. Moves(r) /\ handler'[r] \in {h, g} /\ (handler'[r] = h => tokens'[r] = None)
    BY <1>0, <2>1, <2>2, <2>3, <2>4 DEF Moves, TypeOK
  <2>9. Retires(r, handler[r])'
    BY <2>3, <2>4, <2>5, <2>7, <2>8 DEF Retires
  <2> QED BY <1>0, <1>a, <2>2, <2>3, <2>4, <2>7, <2>8, <2>9, RetireMoves
<1>5. ASSUME NEW r \in Requests, InsertRotated(r) PROVE AllRetire'
  <2>1. /\ handler[r].op = "token" /\ handler[r].step = "insert"
        /\ Answer(r, handler[r], "created")
        /\ tokens' = [tokens EXCEPT ![r] = Fresh(handler[r].profile)]
    BY <1>5 DEF InsertRotated
  <2>2. /\ tokens[r] = None
        /\ \A t \in handler[r].seen : tokens[t] # None /\ tokens[t].status = "rotated"
    BY <1>0, <2>1 DEF Retires
  <2>3. /\ Moves(r) /\ handler'[r].op = "token" /\ handler'[r].step = "done"
        /\ handler'[r].seen = handler[r].seen
    BY <1>0, <2>1, MovesAnswer
  <2>4. \A t \in Requests \ {r} : tokens'[t] = tokens[t]
    BY <1>b, <2>1
  <2>5. Retires(r, handler[r])'
    BY <1>a, <2>1, <2>2, <2>3, <2>4 DEF Retires
  <2> QED BY <1>0, <1>a, <2>2, <2>3, <2>4, <2>5, RetireMoves
<1>6. CASE UNCHANGED vars
  BY <1>0, <1>6, RetireStays DEF vars
<1> QED BY <1>1, <1>2, <1>3, <1>4, <1>5, <1>6 DEF NoToken

\* The invariant holds in every reachable state of the store and its handlers.
LEMMA AlwaysAccessInv == Spec => []AccessInv
<1>1. Init => AccessInv
  <2> SUFFICES ASSUME Init PROVE AccessInv
    OBVIOUS
  <2>1. TypeOK
    BY AccessAssumption DEF Init, TypeOK, Handlers, New, Replies, Texts, Instants
  <2>2. AllSound
    BY DEF Init, AllSound, Sound, Unanswered, ClientInHand, TokenWasGood, LimitsSet, New
  <2>3. AllRetire
    BY DEF Init, AllRetire, Retires, New
  <2> QED BY <2>1, <2>2, <2>3 DEF AccessInv
<1>2. AccessInv /\ [Next]_vars => AccessInv'
  BY TypeStep, SoundStep, RetireStep DEF AccessInv
<1> QED BY <1>1, <1>2, PTL DEF Spec

-----------------------------------------------------------------------------
(* Sums: MapThenSumSet is a fold, and FoldFacts says what it computes.     *)

Plus(x, y) == x + y
Some(S) == CHOOSE x \in S : TRUE

Sums == INSTANCE FoldFacts WITH Op <- Plus, Base <- 0, Choose <- Some

\* The sum of the values of f on S.
Sum(f, S) == Sums!Iteration(f, S)[S]

\* What a fold of a sum is: the chosen element's value and the rest's.
Adding(f, S, fold) ==
    /\ fold[{}] = 0
    /\ \A s \in SUBSET S :
           s # {} => Some(s) \in s /\ fold[s] = f[Some(s)] + fold[s \ {Some(s)}]

\* A sum is made of its parts.
LEMMA SumFold ==
    ASSUME NEW f, NEW S, IsFiniteSet(S)
    PROVE  Sums!Foldable(S) /\ Adding(f, S, Sums!Iteration(f, S))
<1> DEFINE fold == Sums!Iteration(f, S)
<1>1. Sums!Foldable(S)
  BY DEF Sums!Foldable, Sums!IsFiniteSet, IsFiniteSet, Some
<1>2. Sums!IsFold(f, S, fold)
  BY <1>1, Sums!FoldDef
<1> HIDE DEF fold
<1>3. Adding(f, S, fold)
  BY <1>2 DEF Sums!IsFold, Plus, Adding
<1> QED BY <1>1, <1>3 DEF fold

\* A sum of integers is one.
LEMMA SumInt ==
    ASSUME NEW S, IsFiniteSet(S), NEW f, \A s \in S : f[s] \in Int
    PROVE  Sum(f, S) \in Int
<1> DEFINE fold == Sums!Iteration(f, S)
           P == {s \in SUBSET S : fold[s] \in Int}
<1>0. Sums!Foldable(S) /\ Adding(f, S, fold)
  BY SumFold
<1> HIDE DEF fold
<1>1. {} \in P
  BY <1>0 DEF Adding
<1>2. ASSUME NEW s \in SUBSET S, s # {}, s \ {Some(s)} \in P PROVE s \in P
  BY <1>0, <1>2 DEF Adding
<1>3. S \in P
  <2> HIDE DEF P
  <2>1. Sums!Inductive(P, S)
    BY <1>1, <1>2 DEF Sums!Inductive
  <2> QED BY <1>0, <2>1, Sums!SubsetInduction
<1> QED BY <1>3 DEF Sum, fold

\* Sums of functions that agree on a set, folded over it or over a larger one.
LEMMA SumLocal ==
    ASSUME NEW S, IsFiniteSet(S), NEW T \in SUBSET S, NEW f, NEW g, \A s \in T : f[s] = g[s]
    PROVE  Sums!Iteration(f, S)[T] = Sum(g, T)
<1> DEFINE F == Sums!Iteration(f, S)
           G == Sums!Iteration(g, T)
           P == {s \in SUBSET T : F[s] = G[s]}
<1>0. IsFiniteSet(T)
  BY FS_Subset
<1>1. Sums!Foldable(T) /\ Adding(f, S, F) /\ Adding(g, T, G)
  BY <1>0, SumFold
<1> HIDE DEF F, G
<1>2. {} \in P
  BY <1>1 DEF Adding
<1>3. ASSUME NEW s \in SUBSET T, s # {}, s \ {Some(s)} \in P PROVE s \in P
  <2>1. Some(s) \in s /\ F[s] = f[Some(s)] + F[s \ {Some(s)}]
    BY <1>1, <1>3 DEF Adding
  <2>2. G[s] = g[Some(s)] + G[s \ {Some(s)}]
    BY <1>1, <1>3 DEF Adding
  <2>3. f[Some(s)] = g[Some(s)] /\ F[s \ {Some(s)}] = G[s \ {Some(s)}]
    BY <1>3, <2>1
  <2> QED BY <2>1, <2>2, <2>3
<1>4. T \in P
  <2> HIDE DEF P
  <2>1. Sums!Inductive(P, T)
    BY <1>2, <1>3 DEF Sums!Inductive
  <2> QED BY <1>1, <2>1, Sums!SubsetInduction
<1> QED BY <1>4 DEF Sum, F, G

\* A sum depends on the values on its set alone.
LEMMA SumSame ==
    ASSUME NEW S, IsFiniteSet(S), NEW f, NEW g, \A s \in S : f[s] = g[s]
    PROVE  Sum(f, S) = Sum(g, S)
  BY SumLocal DEF Sum

\* Any element can be taken out of a sum.
LEMMA SumRemove ==
    ASSUME NEW S, IsFiniteSet(S), NEW f, \A s \in S : f[s] \in Int, NEW x \in S
    PROVE  Sum(f, S) = f[x] + Sum(f, S \ {x})
<1> DEFINE F == Sums!Iteration(f, S)
           P == {s \in SUBSET S : \A y \in s : F[s] = f[y] + F[s \ {y}]}
<1>1. Adding(f, S, F)
  BY SumFold
<1>2. ASSUME NEW T \in SUBSET S PROVE F[T] = Sum(f, T) /\ F[T] \in Int
  <2>1. F[T] = Sum(f, T)
    BY SumLocal
  <2>2. Sum(f, T) \in Int
    BY FS_Subset, SumInt
  <2> QED BY <2>1, <2>2
<1> HIDE DEF F
<1>3. ASSUME NEW s \in SUBSET S, s # {}, \A y \in s : s \ {y} \in P PROVE s \in P
  <2> SUFFICES ASSUME NEW y \in s PROVE F[s] = f[y] + F[s \ {y}]
    OBVIOUS
  <2> DEFINE z == Some(s)
  <2>1. z \in s /\ F[s] = f[z] + F[s \ {z}]
    BY <1>1, <1>3 DEF Adding
  <2> HIDE DEF z
  <2>2. CASE y = z
    BY <2>1, <2>2
  <2>3. CASE y # z
    <3> DEFINE both == (s \ {y}) \ {z}
    <3>1. s \ {z} \in P /\ y \in s \ {z}
      BY <1>3, <2>1, <2>3
    <3>2. (s \ {z}) \ {y} = both /\ both \in SUBSET S
      OBVIOUS
    <3>3. F[s \ {z}] = f[y] + F[both]
      BY <3>1, <3>2
    <3>4. s \ {y} \in P /\ z \in s \ {y}
      BY <1>3, <2>1, <2>3
    <3>5. F[s \ {y}] = f[z] + F[both]
      BY <3>4
    <3>6. F[both] \in Int /\ f[y] \in Int /\ f[z] \in Int
      BY <1>2, <2>1, <3>2
    <3>7. \A k, m, n \in Int : m + (k + n) = k + (m + n)
      OBVIOUS
    <3> HIDE DEF both
    <3> QED BY <2>1, <3>3, <3>5, <3>6, <3>7
  <2> QED BY <2>2, <2>3
<1>4. S \in P
  <2>1. {} \in P
    OBVIOUS
  <2> HIDE DEF P
  <2>2. Sums!Removing(P, S)
    BY <1>3, <2>1 DEF Sums!Removing
  <2>3. Sums!IsFiniteSet(S)
    BY DEF Sums!IsFiniteSet, IsFiniteSet
  <2> QED BY <2>2, <2>3, Sums!RemovalInduction
<1>5. F[S] = f[x] + F[S \ {x}]
  BY <1>4
<1>6. F[S] = Sum(f, S) /\ F[S \ {x}] = Sum(f, S \ {x})
  BY <1>2
<1> QED BY <1>5, <1>6

\* The sum of sums.
LEMMA SumAdds ==
    ASSUME NEW S, IsFiniteSet(S), NEW f, NEW d, NEW g,
           \A s \in S : f[s] \in Int /\ d[s] \in Int /\ g[s] = f[s] + d[s]
    PROVE  Sum(g, S) = Sum(f, S) + Sum(d, S)
<1> DEFINE F == Sums!Iteration(f, S)
           D == Sums!Iteration(d, S)
           G == Sums!Iteration(g, S)
           P == {s \in SUBSET S : F[s] \in Int /\ D[s] \in Int /\ G[s] = F[s] + D[s]}
<1>0. Sums!Foldable(S) /\ Adding(f, S, F) /\ Adding(d, S, D) /\ Adding(g, S, G)
  BY SumFold
<1> HIDE DEF F, D, G
<1>1. {} \in P
  BY <1>0 DEF Adding
<1>2. ASSUME NEW s \in SUBSET S, s # {}, s \ {Some(s)} \in P PROVE s \in P
  <2> DEFINE x == Some(s)
             rest == s \ {x}
  <2>1. x \in S /\ f[x] \in Int /\ d[x] \in Int /\ g[x] = f[x] + d[x]
    BY <1>0, <1>2 DEF Adding
  <2>2. F[s] = f[x] + F[rest] /\ D[s] = d[x] + D[rest] /\ G[s] = g[x] + G[rest]
    BY <1>0, <1>2 DEF Adding
  <2>3. F[rest] \in Int /\ D[rest] \in Int /\ G[rest] = F[rest] + D[rest]
    BY <1>2
  <2> HIDE DEF x, rest
  <2>4. F[s] \in Int /\ D[s] \in Int /\ G[s] = F[s] + D[s]
    BY <2>1, <2>2, <2>3
  <2> QED BY <2>4
<1>3. S \in P
  <2> HIDE DEF P
  <2>1. Sums!Inductive(P, S)
    BY <1>1, <1>2 DEF Sums!Inductive
  <2> QED BY <1>0, <2>1, Sums!SubsetInduction
<1> QED BY <1>3 DEF Sum, F, D, G

\* A sum of zeros.
LEMMA SumZero ==
    ASSUME NEW S, IsFiniteSet(S), NEW d, \A s \in S : d[s] = 0
    PROVE  Sum(d, S) = 0
<1>1. Sum(d, S) \in Int
  BY SumInt
<1>2. Sum(d, S) = Sum(d, S) + Sum(d, S)
  BY SumAdds
<1>3. \A n \in Int : n = n + n => n = 0
  OBVIOUS
<1> QED BY <1>1, <1>2, <1>3

\* An element whose value is 0 when it is not there can be taken out as well.
LEMMA SumWithout ==
    ASSUME NEW S, IsFiniteSet(S), NEW f, NEW x, \A s \in S \cup {x} : f[s] \in Int,
           x \notin S => f[x] = 0
    PROVE  Sum(f, S) = f[x] + Sum(f, S \ {x}) /\ Sum(f, S \ {x}) \in Int
<1>1. IsFiniteSet(S \ {x})
  BY FS_Subset
<1>2. Sum(f, S \ {x}) \in Int
  BY <1>1, SumInt
<1>3. CASE x \in S
  BY <1>2, <1>3, SumRemove
<1>4. CASE x \notin S
  <2>1. S \ {x} = S /\ f[x] = 0
    BY <1>4
  <2>2. \A n \in Int : n = 0 + n
    OBVIOUS
  <2> QED BY <1>2, <2>1, <2>2
<1> QED BY <1>3, <1>4

\* A part of a sum of natural numbers is no larger.
LEMMA SumShrinks ==
    ASSUME NEW S, IsFiniteSet(S), NEW f, \A s \in S : f[s] \in Nat, NEW T \in SUBSET S
    PROVE  Sum(f, T) \in Nat /\ Sum(f, S) \in Nat /\ Sum(f, T) <= Sum(f, S)
<1> DEFINE P == {s \in SUBSET S : /\ Sum(f, s \cap T) \in Nat /\ Sum(f, s) \in Nat
                                  /\ Sum(f, s \cap T) <= Sum(f, s)}
<1>1. {} \in P
  <2>1. Sum(f, {}) = 0
    BY SumZero, FS_EmptySet
  <2>2. {} \cap T = {}
    OBVIOUS
  <2> QED BY <2>1, <2>2
<1>2. ASSUME NEW s \in SUBSET S, s # {}, \A x \in s : s \ {x} \in P PROVE s \in P
  <2>1. PICK x \in s : TRUE
    BY <1>2
  <2> DEFINE rest == s \ {x}
  <2>2. IsFiniteSet(s) /\ IsFiniteSet(s \cap T) /\ f[x] \in Nat
    BY <2>1, FS_Subset
  <2>3. Sum(f, s) = f[x] + Sum(f, rest)
    BY <2>2, SumRemove
  <2>4. /\ Sum(f, rest \cap T) \in Nat /\ Sum(f, rest) \in Nat
        /\ Sum(f, rest \cap T) <= Sum(f, rest)
    BY <1>2, <2>1
  <2>5. CASE x \in T
    <3>1. (s \cap T) \ {x} = rest \cap T /\ x \in s \cap T
      BY <2>1, <2>5
    <3>2. Sum(f, s \cap T) = f[x] + Sum(f, (s \cap T) \ {x})
      BY <2>2, <3>1, SumRemove
    <3> HIDE DEF rest
    <3> QED BY <2>2, <2>3, <2>4, <3>1, <3>2
  <2>6. CASE x \notin T
    <3>1. s \cap T = rest \cap T
      BY <2>6
    <3> HIDE DEF rest
    <3> QED BY <2>2, <2>3, <2>4, <3>1
  <2> QED BY <2>5, <2>6
<1>3. S \in P
  <2> HIDE DEF P
  <2>1. Sums!Removing(P, S)
    BY <1>1, <1>2 DEF Sums!Removing
  <2>2. Sums!IsFiniteSet(S)
    BY DEF Sums!IsFiniteSet, IsFiniteSet
  <2> QED BY <2>1, <2>2, Sums!RemovalInduction
<1>4. S \cap T = T
  OBVIOUS
<1> QED BY <1>3, <1>4

\* When one value changes, or one element comes, and others go, a sum of natural
\* numbers grows by that change at most.
LEMMA SumDrops ==
    ASSUME NEW S, IsFiniteSet(S), NEW T, IsFiniteSet(T), NEW x, T \ {x} \subseteq S \ {x},
           NEW f, \A s \in S \cup {x} : f[s] \in Nat, x \notin S => f[x] = 0,
           NEW g, \A s \in T \cup {x} : g[s] \in Nat, x \notin T => g[x] = 0,
           \A s \in T \ {x} : f[s] = g[s]
    PROVE  /\ Sum(f, S) \in Int /\ Sum(g, T) \in Int
           /\ Sum(g, T) <= Sum(f, S) + (g[x] - f[x])
<1>0. IsFiniteSet(S \ {x}) /\ IsFiniteSet(T \ {x})
  BY FS_Subset
<1>1. Sum(f, S) = f[x] + Sum(f, S \ {x})
  BY SumWithout
<1>2. Sum(g, T) = g[x] + Sum(g, T \ {x})
  BY SumWithout
<1>3. Sum(g, T \ {x}) = Sum(f, T \ {x})
  BY <1>0, SumSame
<1>4. /\ Sum(f, T \ {x}) \in Nat /\ Sum(f, S \ {x}) \in Nat
      /\ Sum(f, T \ {x}) <= Sum(f, S \ {x})
  BY <1>0, SumShrinks
<1>5. f[x] \in Nat /\ g[x] \in Nat
  OBVIOUS
<1> QED BY <1>1, <1>2, <1>3, <1>4, <1>5

-----------------------------------------------------------------------------
(* The rollups: what a report adds to the hours, the days and the months.  *)

\* The buckets of usage_rollups.
Buckets == {"hour", "day", "month"}

\* The rollups of the buckets in B.
StartsOf(B) == {s \in Starts : s[1] \in B}

\* There are finitely many buckets of each kind.
LEMMA StartsFinite == ASSUME NEW B PROVE IsFiniteSet(StartsOf(B))
<1>1. IsFiniteSet(Instants)
  BY AccessAssumption, FS_Interval DEF Instants
<1>2. IsFiniteSet({"hour", "day", "month"})
  <2>1. IsFiniteSet({"hour"})
    BY FS_Singleton
  <2>2. /\ IsFiniteSet({"hour"} \cup {"day"})
        /\ IsFiniteSet(({"hour"} \cup {"day"}) \cup {"month"})
    BY <2>1, FS_AddElement
  <2>3. ({"hour"} \cup {"day"}) \cup {"month"} = {"hour", "day", "month"}
    OBVIOUS
  <2> QED BY <2>2, <2>3
<1>3. IsFiniteSet(Starts)
  BY <1>1, <1>2, FS_Product DEF Starts
<1> QED BY <1>3, FS_Subset DEF StartsOf

\* used_bytes is a sum.
LEMMA UsedIsSum ==
    ASSUME NEW c, NEW B
    PROVE  /\ Used(c, B) = Sum(rollups[c], StartsOf(B))
           /\ Used(c, B)' = Sum(rollups'[c], StartsOf(B))
  BY DEF Used, MapThenSumSet, MapThenFoldSet, Sum, Sums!Iteration, Sums!Step, Plus, Some,
         StartsOf

\* A bucket starts at an instant.
LEMMA StartIsInstant ==
    ASSUME NEW b \in Buckets, NEW t \in Instants
    PROVE  BucketStart(b, t) \in Instants /\ <<b, BucketStart(b, t)>> \in Starts
<1>1. ASSUME NEW length \in Nat \ {0} PROVE t - (t % length) \in Instants
  BY AccessAssumption DEF Instants
<1> QED BY <1>1, AccessAssumption DEF BucketStart, Buckets, Starts

\* used_bytes is a number of bytes.
LEMMA UsedTypes ==
    ASSUME TypeOK, NEW c \in Credentials, NEW B
    PROVE  Used(c, B) \in Int
<1>1. \A s \in StartsOf(B) : rollups[c][s] \in Int
  BY DEF TypeOK, StartsOf
<1> QED BY <1>1, StartsFinite, SumInt, UsedIsSum

\* A step adds n bytes to the buckets B of c.
Adds(c, B, n) == Used(c, B)' = Used(c, B) + n

\* A sample adds its bytes to each of its buckets once, and to no other credential.
LEMMA AddedUsed ==
    ASSUME TypeOK, NEW B \in SUBSET Buckets, NEW c \in Credentials, NEW n \in Int,
           NEW t \in Instants, rollups' = Added(B, c, n, t), NEW d \in Credentials,
           NEW b \in Buckets
    PROVE  /\ d = c /\ b \in B => Adds(d, {b}, n)
           /\ d # c \/ b \notin B => Adds(d, {b}, 0)
           /\ d = c /\ B = Buckets => Adds(d, Buckets, 3 * n)
           /\ d # c => Adds(d, Buckets, 0)
<1>1. /\ rollups'[d] = IF d = c THEN [s \in Starts |->
                              IF s[1] \in B /\ s[2] = BucketStart(s[1], t)
                              THEN rollups[d][s] + n ELSE rollups[d][s]]
                       ELSE rollups[d]
      /\ rollups[d] \in [Starts -> Int]
  BY DEF Added, TypeOK
<1>2. \A A : /\ Used(d, A)' = Sum(rollups'[d], StartsOf(A))
             /\ Used(d, A) = Sum(rollups[d], StartsOf(A))
  BY UsedIsSum
<1>3. CASE d # c
  <2>1. \A A : Used(d, A)' = Used(d, A)
    BY <1>1, <1>2, <1>3
  <2>2. Used(d, {b}) \in Int /\ Used(d, Buckets) \in Int
    BY UsedTypes
  <2>3. \A m \in Int : m + 0 = m
    OBVIOUS
  <2> QED BY <1>3, <2>1, <2>2, <2>3 DEF Adds
<1>4. CASE d = c
  <2> DEFINE x(bucket) == <<bucket, BucketStart(bucket, t)>>
             more == [s \in Starts |->
                         IF s[1] \in B /\ s[2] = BucketStart(s[1], t) THEN n ELSE 0]
  <2>1. \A s \in Starts : more[s] \in Int /\ rollups[d][s] \in Int
                             /\ rollups'[d][s] = rollups[d][s] + more[s]
    BY <1>1, <1>4
  <2>2. ASSUME NEW A
        PROVE  /\ Used(d, A)' = Used(d, A) + Sum(more, StartsOf(A))
               /\ \A s \in StartsOf(A) : more[s] \in Int
    <3>1. \A s \in StartsOf(A) : s \in Starts
      BY DEF StartsOf
    <3> HIDE DEF more
    <3>2. Sum(rollups'[d], StartsOf(A)) = Sum(rollups[d], StartsOf(A)) + Sum(more, StartsOf(A))
      BY <2>1, <3>1, StartsFinite, SumAdds
    <3> QED BY <1>2, <2>1, <3>1, <3>2
  <2>3. ASSUME NEW a \in B
        PROVE  more[x(a)] = n /\ x(a) \in Starts /\ x(a)[1] = a
    BY <2>3, StartIsInstant
  <2>4. ASSUME NEW s \in Starts, s[1] \notin B \/ s # x(s[1]) PROVE more[s] = 0
    <3>1. s = <<s[1], s[2]>>
      BY DEF Starts
    <3> QED BY <2>4, <3>1
  <2>5. ASSUME b \in B PROVE Sum(more, StartsOf({b})) = n
    <3>1. x(b) \in StartsOf({b}) /\ more[x(b)] = n
      BY <2>3, <2>5 DEF StartsOf
    <3>2. \A s \in StartsOf({b}) \ {x(b)} : more[s] = 0
      BY <2>4 DEF StartsOf
    <3> HIDE DEF more, x
    <3>3. Sum(more, StartsOf({b})) = more[x(b)] + Sum(more, StartsOf({b}) \ {x(b)})
      BY <2>2, <3>1, StartsFinite, SumRemove
    <3>4. Sum(more, StartsOf({b}) \ {x(b)}) = 0
      BY <3>2, StartsFinite, FS_Subset, SumZero
    <3> QED BY <3>1, <3>3, <3>4
  <2>6. ASSUME b \notin B PROVE Sum(more, StartsOf({b})) = 0
    <3>1. \A s \in StartsOf({b}) : more[s] = 0
      BY <2>4, <2>6 DEF StartsOf
    <3> HIDE DEF more
    <3> QED BY <3>1, StartsFinite, SumZero
  <2>7. ASSUME B = Buckets PROVE Sum(more, StartsOf(Buckets)) = 3 * n
    <3> DEFINE S == StartsOf(Buckets)
               S1 == S \ {x("hour")}
               S2 == S1 \ {x("day")}
               S3 == S2 \ {x("month")}
    <3>1. /\ x("hour") \in S /\ x("day") \in S1 /\ x("month") \in S2
          /\ more[x("hour")] = n /\ more[x("day")] = n /\ more[x("month")] = n
      BY <2>3, <2>7 DEF StartsOf, Buckets
    <3>2. \A s \in S3 : more[s] = 0
      BY <2>4 DEF StartsOf, Buckets
    <3>3. \A s \in S : more[s] \in Int
      BY <2>2
    <3>4. /\ IsFiniteSet(S) /\ IsFiniteSet(S1) /\ IsFiniteSet(S2) /\ IsFiniteSet(S3)
          /\ S1 \subseteq S /\ S2 \subseteq S /\ S3 \subseteq S
      BY StartsFinite, FS_Subset
    <3> HIDE DEF more, x
    <3>5. Sum(more, S) = more[x("hour")] + Sum(more, S1)
      BY <3>1, <3>3, <3>4, SumRemove
    <3>6. Sum(more, S1) = more[x("day")] + Sum(more, S2)
      BY <3>1, <3>3, <3>4, SumRemove
    <3>7. Sum(more, S2) = more[x("month")] + Sum(more, S3)
      BY <3>1, <3>3, <3>4, SumRemove
    <3>8. Sum(more, S3) = 0
      BY <3>2, <3>4, SumZero
    <3> HIDE DEF S, S1, S2, S3
    <3>9. Sum(more, S) = 3 * n
      BY <3>1, <3>5, <3>6, <3>7, <3>8
    <3> QED BY <3>9 DEF S
  <2>8. Used(d, {b}) \in Int
    BY UsedTypes
  <2> HIDE DEF more, x
  <2>9. \A m \in Int : m + 0 = m
    OBVIOUS
  <2> QED BY <1>4, <2>2, <2>5, <2>6, <2>7, <2>8, <2>9 DEF Adds
<1> QED BY <1>3, <1>4

-----------------------------------------------------------------------------
(* The second invariant: the rollups against what was sent and accepted.   *)

Reporting == {r \in Requests : handler[r].op = "report" /\ handler[r].step # "done"}

\* Whether a report at a step has written its sample to bucket b.
HasWritten(step, b) ==
    \/ b = "hour" /\ step \in {"day", "month"}
    \/ b = "day" /\ step = "month"

\* How far a report h of c under way keeps bucket b above the least usage of c, and
\* how far below the most.
Above(h, c, b) ==
    IF h.op = "report" /\ h.step # "done" /\ h.client = c
    THEN IF HasWritten(h.step, b) THEN Up(h.bytes) ELSE -Down(h.bytes)
    ELSE 0
Below(h, c, b) ==
    IF h.op = "report" /\ h.step # "done" /\ h.client = c
    THEN IF HasWritten(h.step, b) THEN -Down(h.bytes) ELSE Up(h.bytes)
    ELSE 0

AllAbove(c, b) == Sum([r \in Requests |-> Above(handler[r], c, b)], Reporting)
AllBelow(c, b) == Sum([r \in Requests |-> Below(handler[r], c, b)], Reporting)

\* A bucket lies between the least and the most usage, as far from each as the
\* reports under way keep it; one that is cut off leaves it there.
BucketHolds(c, b) ==
    /\ Used(c, {b}) >= least[c] + AllAbove(c, b)
    /\ most[c] >= Used(c, {b}) + AllBelow(c, b)

LedgerInv ==
    /\ IsFiniteSet(Reporting)
    /\ \A c \in Credentials, b \in Buckets : BucketHolds(c, b)
    /\ store = "memory" =>
           Reporting = {} /\ \A c \in Credentials : Used(c, Buckets) = 3 * least[c]

\* What a report keeps free is never negative.
LEMMA AboveTypes ==
    ASSUME NEW h \in Handlers, NEW c, NEW b
    PROVE  /\ Above(h, c, b) \in Nat /\ Below(h, c, b) \in Nat
           /\ ~(h.op = "report" /\ h.step # "done") => Above(h, c, b) = 0 /\ Below(h, c, b) = 0
<1>1. ASSUME h.op = "report" PROVE Up(h.bytes) \in Nat /\ -Down(h.bytes) \in Nat
  <2>1. h.bytes \in Int
    BY <1>1, HandlerByOp, AccessAssumption DEF Reports
  <2> QED BY <2>1 DEF Up, Down
<1> QED BY <1>1 DEF Above, Below

\* The sums in the state after a step.
LEMMA AllAboveNext ==
    ASSUME NEW c, NEW b
    PROVE  /\ AllAbove(c, b)' = Sum([r \in Requests |-> Above(handler'[r], c, b)], Reporting')
           /\ AllBelow(c, b)' = Sum([r \in Requests |-> Below(handler'[r], c, b)], Reporting')
  BY DEF AllAbove, AllBelow, Sum, Sums!Iteration, Sums!Step, Plus, Some, Above, Below,
         HasWritten, Up, Down

\* What the invariant says of one bucket, with its types.
LEMMA BucketFacts ==
    ASSUME TypeOK, LedgerInv, NEW c \in Credentials, NEW b \in Buckets
    PROVE  /\ least[c] \in Int /\ most[c] \in Int /\ Used(c, {b}) \in Int
           /\ AllAbove(c, b) \in Nat /\ AllBelow(c, b) \in Nat
           /\ Used(c, {b}) >= least[c] + AllAbove(c, b)
           /\ most[c] >= Used(c, {b}) + AllBelow(c, b)
<1>1. least[c] \in Int /\ most[c] \in Int /\ Used(c, {b}) \in Int
  BY UsedTypes DEF TypeOK
<1> DEFINE f == [r \in Requests |-> Above(handler[r], c, b)]
           g == [r \in Requests |-> Below(handler[r], c, b)]
<1>2. \A r \in Reporting : f[r] \in Nat /\ g[r] \in Nat
  BY AboveTypes DEF Reporting, TypeOK
<1>3. IsFiniteSet(Reporting) /\ Reporting \in SUBSET Reporting
  BY DEF LedgerInv
<1> HIDE DEF f, g
<1>4. Sum(f, Reporting) \in Nat /\ Sum(g, Reporting) \in Nat
  BY <1>2, <1>3, SumShrinks
<1> QED BY <1>1, <1>4 DEF LedgerInv, BucketHolds, AllAbove, AllBelow, f, g

\* Without a step on the rollups the buckets stay as they are.
LEMMA SameUsed ==
    ASSUME UNCHANGED rollups, NEW c, NEW B
    PROVE  Used(c, B)' = Used(c, B)
  BY UsedIsSum

\* A step of r, judged by what it does to a bucket, to the least and to the most.
LEMMA BucketMoves ==
    ASSUME TypeOK, TypeOK', LedgerInv, NEW r \in Requests, Moves(r),
           NEW c \in Credentials, NEW b \in Buckets,
           NEW u \in Int, Used(c, {b})' = Used(c, {b}) + u,
           NEW l \in Int, least'[c] = least[c] + l,
           NEW m \in Int, most'[c] = most[c] + m,
           u >= l + (Above(handler'[r], c, b) - Above(handler[r], c, b)),
           m >= u + (Below(handler'[r], c, b) - Below(handler[r], c, b))
    PROVE  BucketHolds(c, b)' /\ IsFiniteSet(Reporting')
<1> DEFINE A == [x \in Requests |-> Above(handler[x], c, b)]
           B == [x \in Requests |-> Below(handler[x], c, b)]
           An == [x \in Requests |-> Above(handler'[x], c, b)]
           Bn == [x \in Requests |-> Below(handler'[x], c, b)]
<1>1. \A x \in Requests : handler[x] \in Handlers /\ handler'[x] \in Handlers
  BY DEF TypeOK
<1>2. \A x \in Requests :
          /\ A[x] \in Nat /\ B[x] \in Nat /\ An[x] \in Nat /\ Bn[x] \in Nat
          /\ x \notin Reporting => A[x] = 0 /\ B[x] = 0
          /\ x \notin Reporting' => An[x] = 0 /\ Bn[x] = 0
  BY <1>1, AboveTypes DEF Reporting
<1>3. /\ Reporting' \ {r} \subseteq Reporting \ {r}
      /\ \A x \in Reporting' \ {r} : A[x] = An[x] /\ B[x] = Bn[x]
  BY DEF Reporting, Moves
<1>4. IsFiniteSet(Reporting) /\ IsFiniteSet(Reporting')
  <2>1. IsFiniteSet(Reporting \cup {r})
    BY FS_AddElement DEF LedgerInv
  <2>2. Reporting' \subseteq Reporting \cup {r}
    BY <1>3
  <2> QED BY <2>1, <2>2, FS_Subset DEF LedgerInv
<1>5. Reporting \subseteq Requests /\ Reporting' \subseteq Requests
  BY DEF Reporting
<1>6. /\ A[r] = Above(handler[r], c, b) /\ An[r] = Above(handler'[r], c, b)
      /\ B[r] = Below(handler[r], c, b) /\ Bn[r] = Below(handler'[r], c, b)
  OBVIOUS
<1>7. /\ AllAbove(c, b) = Sum(A, Reporting) /\ AllAbove(c, b)' = Sum(An, Reporting')
      /\ AllBelow(c, b) = Sum(B, Reporting) /\ AllBelow(c, b)' = Sum(Bn, Reporting')
  BY AllAboveNext DEF AllAbove, AllBelow
<1> HIDE DEF A, B, An, Bn
<1>8. /\ Sum(A, Reporting) \in Int /\ Sum(An, Reporting') \in Int
      /\ Sum(An, Reporting') <= Sum(A, Reporting) + (An[r] - A[r])
  BY <1>2, <1>3, <1>4, <1>5, SumDrops
<1>9. /\ Sum(B, Reporting) \in Int /\ Sum(Bn, Reporting') \in Int
      /\ Sum(Bn, Reporting') <= Sum(B, Reporting) + (Bn[r] - B[r])
  BY <1>2, <1>3, <1>4, <1>5, SumDrops
<1>10. /\ least[c] \in Int /\ most[c] \in Int /\ Used(c, {b}) \in Int
       /\ Used(c, {b}) >= least[c] + Sum(A, Reporting)
       /\ most[c] >= Used(c, {b}) + Sum(B, Reporting)
  BY <1>7, BucketFacts
<1>11. A[r] \in Nat /\ B[r] \in Nat /\ An[r] \in Nat /\ Bn[r] \in Nat
  BY <1>2
<1>12. u >= l + (An[r] - A[r]) /\ m >= u + (Bn[r] - B[r])
  BY <1>6
<1>13. Used(c, {b})' >= least'[c] + Sum(An, Reporting')
  BY <1>8, <1>10, <1>11, <1>12
<1>14. most'[c] >= Used(c, {b})' + Sum(Bn, Reporting')
  BY <1>9, <1>10, <1>11, <1>12
<1> QED BY <1>4, <1>7, <1>13, <1>14 DEF BucketHolds

\* Steps of other handlers, and reports that are cut off.
LEMMA LedgerQuiet ==
    ASSUME TypeOK, LedgerInv, UNCHANGED <<store, rollups, least, most>>,
           \A x \in Requests :
               handler'[x].op = "report" /\ handler'[x].step # "done" =>
                   handler'[x] = handler[x]
    PROVE  LedgerInv'
<1>1. Reporting' \subseteq Reporting /\ \A x \in Reporting' : handler'[x] = handler[x]
  BY DEF Reporting
<1>2. IsFiniteSet(Reporting') /\ IsFiniteSet(Reporting) /\ Reporting \subseteq Requests
  BY <1>1, FS_Subset DEF LedgerInv, Reporting
<1>3. ASSUME NEW c \in Credentials, NEW b \in Buckets PROVE BucketHolds(c, b)'
  <2> DEFINE A == [x \in Requests |-> Above(handler[x], c, b)]
             B == [x \in Requests |-> Below(handler[x], c, b)]
             An == [x \in Requests |-> Above(handler'[x], c, b)]
             Bn == [x \in Requests |-> Below(handler'[x], c, b)]
  <2>1. \A x \in Reporting' : A[x] = An[x] /\ B[x] = Bn[x]
    BY <1>1, <1>2
  <2>2. \A x \in Reporting : A[x] \in Nat /\ B[x] \in Nat
    BY <1>2, AboveTypes DEF TypeOK
  <2>3. /\ AllAbove(c, b) = Sum(A, Reporting) /\ AllAbove(c, b)' = Sum(An, Reporting')
        /\ AllBelow(c, b) = Sum(B, Reporting) /\ AllBelow(c, b)' = Sum(Bn, Reporting')
    BY AllAboveNext DEF AllAbove, AllBelow
  <2> HIDE DEF A, B, An, Bn
  <2>4. /\ Sum(A, Reporting') \in Nat /\ Sum(A, Reporting) \in Nat
        /\ Sum(A, Reporting') <= Sum(A, Reporting)
    BY <1>1, <1>2, <2>2, SumShrinks
  <2>5. /\ Sum(B, Reporting') \in Nat /\ Sum(B, Reporting) \in Nat
        /\ Sum(B, Reporting') <= Sum(B, Reporting)
    BY <1>1, <1>2, <2>2, SumShrinks
  <2>6. Sum(A, Reporting') = Sum(An, Reporting') /\ Sum(B, Reporting') = Sum(Bn, Reporting')
    BY <1>2, <2>1, SumSame
  <2>7. Used(c, {b})' = Used(c, {b})
    BY SameUsed
  <2>8. /\ least[c] \in Int /\ most[c] \in Int /\ Used(c, {b}) \in Int
        /\ Used(c, {b}) >= least[c] + Sum(A, Reporting)
        /\ most[c] >= Used(c, {b}) + Sum(B, Reporting)
    BY <2>3, BucketFacts
  <2>9. /\ Used(c, {b})' >= least'[c] + Sum(An, Reporting')
        /\ most'[c] >= Used(c, {b})' + Sum(Bn, Reporting')
    BY <2>4, <2>5, <2>6, <2>7, <2>8
  <2> QED BY <2>3, <2>9 DEF BucketHolds
<1>4. store' = "memory" =>
          Reporting' = {} /\ \A c \in Credentials : Used(c, Buckets)' = 3 * least'[c]
  BY <1>1, SameUsed DEF LedgerInv
<1> QED BY <1>2, <1>3, <1>4 DEF LedgerInv

\* A report in memory: every bucket, the least and the most move by the sample.
LEMMA LedgerInMemory ==
    ASSUME TypeOK, TypeOK', LedgerInv, store = "memory", store' = store,
           NEW r \in Requests, NEW c \in Credentials, NEW n \in Int, NEW t \in Instants,
           Moves(r), handler[r] = New, handler'[r].step = "done",
           rollups' = Added({"hour", "day", "month"}, c, n, t),
           least' = [least EXCEPT ![c] = @ + n], most' = [most EXCEPT ![c] = @ + n]
    PROVE  LedgerInv'
<1>1. /\ rollups' = Added(Buckets, c, n, t)
      /\ Buckets \in SUBSET Buckets /\ "hour" \in Buckets
      /\ handler'[r] \in Handlers /\ handler[r] \in Handlers /\ handler[r].op # "report"
  BY DEF Buckets, TypeOK, New
<1>2. ASSUME NEW d \in Credentials
      PROVE  /\ least[d] \in Int /\ most[d] \in Int
             /\ d = c => least'[d] = least[d] + n /\ most'[d] = most[d] + n
             /\ d # c => least'[d] = least[d] /\ most'[d] = most[d]
  BY DEF TypeOK
<1>3. ASSUME NEW d \in Credentials, NEW b \in Buckets
      PROVE  BucketHolds(d, b)' /\ IsFiniteSet(Reporting')
  <2> DEFINE u == IF d = c THEN n ELSE 0
  <2>1. /\ Above(handler'[r], d, b) = 0 /\ Above(handler[r], d, b) = 0
        /\ Below(handler'[r], d, b) = 0 /\ Below(handler[r], d, b) = 0
    BY <1>1, AboveTypes
  <2>2. Used(d, {b})' = Used(d, {b}) + u
    <3>1. (d = c => Adds(d, {b}, n)) /\ (d # c => Adds(d, {b}, 0))
      BY <1>1, AddedUsed
    <3> QED BY <3>1 DEF Adds
  <2>3. least'[d] = least[d] + u /\ most'[d] = most[d] + u /\ u \in Int
    BY <1>2
  <2>4. u >= u + (0 - 0)
    BY <2>3
  <2> HIDE DEF u
  <2> QED BY <2>1, <2>2, <2>3, <2>4, BucketMoves
<1>4. Reporting' = {}
  BY DEF LedgerInv, Reporting, Moves
<1>5. ASSUME NEW d \in Credentials PROVE Used(d, Buckets)' = 3 * least'[d]
  <2>1. Used(d, Buckets) = 3 * least[d]
    BY DEF LedgerInv
  <2>2. (d = c => Adds(d, Buckets, 3 * n)) /\ (d # c => Adds(d, Buckets, 0))
    BY <1>1, AddedUsed
  <2>3. \A k \in Int : 3 * k + 3 * n = 3 * (k + n) /\ 3 * k + 0 = 3 * k
    OBVIOUS
  <2> QED BY <1>2, <2>1, <2>2, <2>3 DEF Adds
<1>6. IsFiniteSet(Reporting')
  BY <1>4, FS_EmptySet
<1> QED BY <1>3, <1>4, <1>5, <1>6 DEF LedgerInv

\* A report to Postgres begins: its sample may be counted, or not.
LEMMA LedgerSent ==
    ASSUME TypeOK, TypeOK', LedgerInv, store = "postgres", store' = store,
           NEW r \in Requests, NEW c \in Credentials, NEW n \in Int,
           Moves(r), handler[r] = New, UNCHANGED rollups, Sent(c, n),
           handler'[r].op = "report", handler'[r].step = "hour",
           handler'[r].client = c, handler'[r].bytes = n
    PROVE  LedgerInv'
<1>1. handler[r] \in Handlers /\ handler[r].op # "report"
  BY DEF TypeOK, New
<1>2. Up(n) \in Int /\ Down(n) \in Int
  BY DEF Up, Down
<1>3. ASSUME NEW d \in Credentials, NEW b \in Buckets
      PROVE  BucketHolds(d, b)' /\ IsFiniteSet(Reporting')
  <2> DEFINE l == IF d = c THEN Down(n) ELSE 0
             m == IF d = c THEN Up(n) ELSE 0
  <2>1. Above(handler[r], d, b) = 0 /\ Below(handler[r], d, b) = 0
    BY <1>1, AboveTypes
  <2>2. Above(handler'[r], d, b) = -l /\ Below(handler'[r], d, b) = m
    BY DEF Above, Below, HasWritten
  <2>3. Used(d, {b})' = Used(d, {b}) + 0
    <3>1. Used(d, {b})' = Used(d, {b}) /\ Used(d, {b}) \in Int
      BY SameUsed, UsedTypes
    <3> QED BY <3>1
  <2>4. least'[d] = least[d] + l /\ most'[d] = most[d] + m /\ l \in Int /\ m \in Int
    BY <1>2 DEF Sent, TypeOK
  <2>5. 0 >= l + (-l - 0) /\ m >= 0 + (m - 0)
    BY <2>4
  <2> HIDE DEF l, m
  <2> QED BY <2>1, <2>2, <2>3, <2>4, <2>5, BucketMoves
<1>4. IsFiniteSet(Reporting')
  <2>1. IsFiniteSet(Reporting \cup {r})
    BY FS_AddElement DEF LedgerInv
  <2>2. Reporting' \subseteq Reporting \cup {r}
    BY DEF Reporting, Moves
  <2> QED BY <2>1, <2>2, FS_Subset
<1> QED BY <1>3, <1>4 DEF LedgerInv

\* runner_usage.
LEMMA LedgerStart ==
    ASSUME TypeOK, TypeOK', LedgerInv, NEW r \in Requests, NEW c \in Credentials,
           NEW b \in Samples, NEW t \in Instants, StartReport(r, c, b, t)
    PROVE  LedgerInv'
<1> DEFINE h == [op |-> "report", step |-> "hour", client |-> c, at |-> t, bytes |-> b]
           g == [h EXCEPT !.step = "done"]
<1>0. handler[r] = New /\ store' = store /\ b \in Int
  BY AccessAssumption DEF StartReport, MayStart
<1>1. /\ h.op = "report" /\ h.step = "hour" /\ h.client = c /\ h.bytes = b
      /\ g.op = "report" /\ g.step = "done"
  OBVIOUS
<1>2. \/ /\ store = "memory"
         /\ rollups' = Added({"hour", "day", "month"}, c, b, t)
         /\ least' = [least EXCEPT ![c] = @ + b]
         /\ most' = [most EXCEPT ![c] = @ + b]
         /\ handler' = Reported(r, c, b, g)
      \/ /\ store = "postgres"
         /\ Sent(c, b)
         /\ handler' = Reported(r, c, b, h)
         /\ UNCHANGED rollups
      \/ handler' = [handler EXCEPT ![r] = g] /\ UNCHANGED usageVars
  BY DEF StartReport, Answer
<1> HIDE DEF h, g
<1>3. CASE /\ store = "memory"
           /\ rollups' = Added({"hour", "day", "month"}, c, b, t)
           /\ least' = [least EXCEPT ![c] = @ + b]
           /\ most' = [most EXCEPT ![c] = @ + b]
           /\ handler' = Reported(r, c, b, g)
  <2>1. Moves(r) /\ handler'[r] = g
    BY <1>3, MovesReported
  <2> QED BY <1>0, <1>1, <1>3, <2>1, LedgerInMemory
<1>4. CASE store = "postgres" /\ Sent(c, b) /\ handler' = Reported(r, c, b, h)
               /\ UNCHANGED rollups
  <2>1. Moves(r) /\ handler'[r] = h
    BY <1>4, MovesReported
  <2> QED BY <1>0, <1>1, <1>4, <2>1, LedgerSent
<1>5. CASE handler' = [handler EXCEPT ![r] = g] /\ UNCHANGED usageVars
  <2>1. \A x \in Requests :
            handler'[x].op = "report" /\ handler'[x].step # "done" => handler'[x] = handler[x]
    BY <1>1, <1>5 DEF TypeOK
  <2> QED BY <1>0, <1>5, <2>1, LedgerQuiet DEF usageVars
<1> QED BY <1>2, <1>3, <1>4, <1>5

\* runner_usage writes to its next bucket, and after the last one answers.
LEMMA LedgerUpsert ==
    ASSUME TypeOK, TypeOK', LedgerInv, NEW r \in Requests, UpsertRollup(r),
           handler[r] \in Reports
    PROVE  LedgerInv'
<1> DEFINE h == handler[r]
           c == h.client
           n == h.bytes
           t == h.at
           step == h.step
           next == IF step = "hour" THEN "day" ELSE IF step = "day" THEN "month" ELSE "done"
           g == [h EXCEPT !.step = next]
<1>1. /\ c \in Credentials /\ step \in Buckets /\ t \in Instants /\ n \in Int
      /\ h.op = "report" /\ step # "done" /\ r \in Reporting
  BY AccessAssumption DEF UpsertRollup, Reports, Reporting, Buckets
<1>2. g.op = "report" /\ g.step = next /\ g.client = c /\ g.bytes = n
  BY DEF Reports
<1>3. /\ rollups' = Added({step}, c, n, t) /\ store' = store
      /\ step # "month" => handler' = [handler EXCEPT ![r] = g] /\ UNCHANGED <<least, most>>
      /\ step = "month" => handler' = Reported(r, c, n, g) /\ Counted(c, n)
  BY DEF UpsertRollup, GoTo
<1> HIDE DEF g
<1>4. Moves(r) /\ handler'[r] = g
  <2>1. CASE step = "month"
    BY <1>3, <2>1, MovesReported
  <2>2. CASE step # "month"
    BY <1>3, <2>2 DEF Moves, TypeOK
  <2> QED BY <2>1, <2>2
<1> HIDE DEF h, c, n, t, step
<1>5. /\ Up(n) \in Int /\ Down(n) \in Int /\ n = Up(n) + Down(n)
      /\ next = "done" <=> step = "month"
  BY <1>1 DEF Up, Down, Buckets
<1>6. ASSUME NEW d \in Credentials, NEW b \in Buckets
      PROVE  BucketHolds(d, b)' /\ IsFiniteSet(Reporting')
  <2> DEFINE u == IF d = c /\ b = step THEN n ELSE 0
             l == IF d = c /\ step = "month" THEN Up(n) ELSE 0
             m == IF d = c /\ step = "month" THEN Down(n) ELSE 0
  <2>1. Used(d, {b})' = Used(d, {b}) + u /\ u \in Int
    <3> DEFINE B == {step}
    <3>1. B \in SUBSET Buckets /\ rollups' = Added(B, c, n, t) /\ (b \in B <=> b = step)
      BY <1>1, <1>3
    <3> HIDE DEF B
    <3>2. /\ d = c /\ b \in B => Adds(d, {b}, n)
          /\ d # c \/ b \notin B => Adds(d, {b}, 0)
      BY <1>1, <3>1, AddedUsed
    <3> QED BY <1>1, <3>1, <3>2 DEF Adds
  <2>2. least'[d] = least[d] + l /\ most'[d] = most[d] + m /\ l \in Int /\ m \in Int
    <3>1. least \in [Credentials -> Int] /\ most \in [Credentials -> Int]
      BY DEF TypeOK
    <3>2. CASE step = "month"
      BY <1>1, <1>3, <1>5, <3>1, <3>2 DEF Counted
    <3>3. CASE step # "month"
      BY <1>1, <1>3, <1>5, <3>1, <3>3
    <3> QED BY <3>2, <3>3
  <2>3. Above(handler[r], d, b) = IF d # c THEN 0
                                  ELSE IF HasWritten(step, b) THEN Up(n) ELSE -Down(n)
    BY <1>1 DEF Above, h, c, n, step
  <2>4. Below(handler[r], d, b) = IF d # c THEN 0
                                  ELSE IF HasWritten(step, b) THEN -Down(n) ELSE Up(n)
    BY <1>1 DEF Below, h, c, n, step
  <2>5. Above(handler'[r], d, b) = IF d # c \/ next = "done" THEN 0
                                   ELSE IF HasWritten(next, b) THEN Up(n) ELSE -Down(n)
    BY <1>2, <1>4 DEF Above
  <2>6. Below(handler'[r], d, b) = IF d # c \/ next = "done" THEN 0
                                   ELSE IF HasWritten(next, b) THEN -Down(n) ELSE Up(n)
    BY <1>2, <1>4 DEF Below
  <2>7. /\ next # "done" => (HasWritten(next, b) <=> (HasWritten(step, b) \/ b = step))
        /\ b = step => ~HasWritten(step, b)
        /\ next = "done" /\ b # step => HasWritten(step, b)
    BY <1>1 DEF HasWritten, Buckets
  <2> HIDE DEF next
  <2>8. /\ u >= l + (Above(handler'[r], d, b) - Above(handler[r], d, b))
        /\ m >= u + (Below(handler'[r], d, b) - Below(handler[r], d, b))
    <3> DEFINE w == HasWritten(step, b)
               v == HasWritten(next, b)
               i == Up(n)
               j == Down(n)
    <3>1. i \in Int /\ j \in Int /\ n = i + j
      BY <1>5
    <3> HIDE DEF w, v, i, j
    <3>2. CASE d # c
      BY <2>3, <2>4, <2>5, <2>6, <3>2
    <3>3. CASE d = c /\ next = "done" /\ b = step
      BY <1>5, <2>3, <2>4, <2>5, <2>6, <2>7, <3>1, <3>3 DEF w, v, i, j
    <3>4. CASE d = c /\ next = "done" /\ b # step
      BY <1>5, <2>3, <2>4, <2>5, <2>6, <2>7, <3>1, <3>4 DEF w, v, i, j
    <3>5. CASE d = c /\ next # "done" /\ b = step
      BY <1>5, <2>3, <2>4, <2>5, <2>6, <2>7, <3>1, <3>5 DEF w, v, i, j
    <3>6. CASE d = c /\ next # "done" /\ b # step
      BY <1>5, <2>3, <2>4, <2>5, <2>6, <2>7, <3>1, <3>6 DEF w, v, i, j
    <3> QED BY <3>2, <3>3, <3>4, <3>5, <3>6
  <2> HIDE DEF u, l, m
  <2> QED BY <1>4, <2>1, <2>2, <2>8, BucketMoves
<1>7. IsFiniteSet(Reporting')
  <2>1. Reporting' \subseteq Reporting
    BY <1>1, <1>4 DEF Reporting, Moves
  <2> QED BY <2>1, FS_Subset DEF LedgerInv
<1>8. store' # "memory"
  BY <1>1, <1>3 DEF LedgerInv
<1> QED BY <1>6, <1>7, <1>8 DEF LedgerInv

\* Every step keeps the rollups between the least and the most.
LEMMA LedgerStep == AccessInv /\ LedgerInv /\ [Next]_vars => LedgerInv'
<1> SUFFICES ASSUME AccessInv, LedgerInv, [Next]_vars PROVE LedgerInv'
  OBVIOUS
<1>0. TypeOK /\ TypeOK'
  BY TypeStep DEF AccessInv
<1>1. ASSUME NEW r \in Requests, NEW c \in Credentials, NEW b \in Samples,
             NEW t \in Instants, StartReport(r, c, b, t)
      PROVE  LedgerInv'
  BY <1>0, <1>1, LedgerStart
<1>2. ASSUME NEW r \in Requests, UpsertRollup(r) PROVE LedgerInv'
  <2>1. handler[r] \in Reports
    BY <1>0, <1>2, HandlerByOp DEF UpsertRollup, TypeOK
  <2> QED BY <1>0, <1>2, <2>1, LedgerUpsert
<1>3. CASE Next /\ ~NoToken
  <2>1. UNCHANGED <<store, rollups, least, most>>
    BY <1>3, TokenMoves DEF usageVars
  <2>2. PICK r \in Requests : Moves(r) /\ handler'[r].op = "token"
    BY <1>3, TokenMoves
  <2> QED BY <1>0, <2>1, <2>2, LedgerQuiet DEF Moves
<1>4. CASE Next /\ NoReport /\ NoToken
  <2>1. Resting /\ UNCHANGED <<store, rollups, least, most>>
    BY <1>4, RestingStep DEF usageVars
  <2> QED BY <1>0, <2>1, LedgerQuiet DEF Resting
<1>5. CASE UNCHANGED vars
  BY <1>0, <1>5, LedgerQuiet DEF vars
<1> QED BY <1>1, <1>2, <1>3, <1>4, <1>5 DEF NoReport

\* The rollups are always between the least and the most.
LEMMA AlwaysLedgerInv == Spec => []LedgerInv
<1>1. Init => LedgerInv
  <2> SUFFICES ASSUME Init PROVE LedgerInv
    OBVIOUS
  <2>1. Reporting = {} /\ IsFiniteSet(Reporting)
    BY FS_EmptySet DEF Init, Reporting, New
  <2>2. ASSUME NEW c \in Credentials, NEW B PROVE Used(c, B) = 0
    <3>1. \A s \in StartsOf(B) : rollups[c][s] = 0
      BY DEF Init, StartsOf
    <3> QED BY <3>1, StartsFinite, SumZero, UsedIsSum
  <2>3. ASSUME NEW c \in Credentials, NEW b \in Buckets PROVE BucketHolds(c, b)
    <3>1. AllAbove(c, b) = 0 /\ AllBelow(c, b) = 0
      BY <2>1, SumZero DEF AllAbove, AllBelow
    <3>2. least[c] = 0 /\ most[c] = 0
      BY DEF Init
    <3> QED BY <2>2, <3>1, <3>2 DEF BucketHolds
  <2>4. \A c \in Credentials : Used(c, Buckets) = 3 * least[c]
    BY <2>2 DEF Init
  <2> QED BY <2>1, <2>3, <2>4 DEF LedgerInv
<1> QED BY <1>1, LedgerStep, AlwaysAccessInv, PTL DEF Spec

-----------------------------------------------------------------------------
(* The third invariant: what a fetch knows of the clients it has decided   *)
(* on, and of the one it is at.                                            *)

\* What was denied as the fetch began is denied still, and none of it is shown.
HidesDenied(h) ==
    /\ h.over \subseteq Denied
    /\ h.step = "usage" /\ h.client \in h.over => h.limit = quota[h.client]
    /\ h.step = "expiry" /\ h.client \in h.over => Expired(h.client)

\* A client that was there as the fetch began is still to come, or at hand, or shown,
\* or its limits do not allow it any more.
ShowsEntitled(h) ==
    /\ h.present \subseteq clients[h.profile]
    /\ h.step = "usage" => h.limit \in Int
    /\ h.step = "usage" /\ h.client \in h.present => h.limit = quota[h.client]
    /\ h.step \in {"quota", "usage", "expiry"} =>
           h.present \cap Entitled \subseteq h.todo \cup {h.client} \cup h.shown

FetchOK(h) ==
    h.op = "fetch" =>
        /\ h.shown \cap h.over = {}
        /\ h.step # "done" => HidesDenied(h) /\ ShowsEntitled(h)

FetchInv == \A r \in Requests : FetchOK(handler[r])

-----------------------------------------------------------------------------
(* What a step does to the fetches, judged by the state it starts from.    *)

\* What the fetches know after the step is true of the state before it, one that
\* has ended stays as it is, and a fetch of Postgres that is served shows the
\* clients entitled to it.
FetchesDecide ==
    \A x \in Requests :
        /\ FetchOK(handler'[x])
        /\ handler[x].step = "done" => handler'[x] = handler[x]
        /\ store = "postgres" /\ reply'[x] = "ok" /\ reply[x] # "ok" =>
               handler[x].present \cap Entitled \subseteq handler'[x].shown

\* A fetch that may go on with its loop, or end it.
LoopReady(h) ==
    /\ h \in Fetches
    /\ h.shown \cap h.over = {}
    /\ h.over \subseteq Denied
    /\ h.present \subseteq clients[h.profile]
    /\ h.present \cap Entitled \subseteq h.todo \cup h.shown

\* A handler goes on to another await.
LEMMA DecideGoTo ==
    ASSUME TypeOK, FetchInv, NEW r \in Requests, NEW h, FetchOK(h), GoTo(r, h),
           handler[r].step # "done"
    PROVE  FetchesDecide
<1> SUFFICES ASSUME NEW x \in Requests
             PROVE  /\ FetchOK(handler'[x])
                    /\ handler[x].step = "done" => handler'[x] = handler[x]
                    /\ reply'[x] = reply[x]
  BY DEF FetchesDecide
<1>1. handler'[x] = IF x = r THEN h ELSE handler[x]
  BY DEF GoTo, TypeOK
<1>2. FetchOK(handler[x])
  BY DEF FetchInv
<1>3. reply'[x] = reply[x]
  BY DEF GoTo
<1>4. CASE x = r
  <2>1. handler'[x] = h
    BY <1>1, <1>4
  <2> QED BY <1>3, <1>4, <2>1
<1>5. CASE x # r
  <2>1. handler'[x] = handler[x]
    BY <1>1, <1>5
  <2> QED BY <1>2, <1>3, <2>1
<1> QED BY <1>4, <1>5

\* A handler answers, with a subscription only if it shows who is entitled to it.
LEMMA DecideAnswer ==
    ASSUME TypeOK, FetchInv, NEW r \in Requests, NEW text,
           NEW h \in Creates \cup Reports \cup Rotations \cup Fetches, Answer(r, h, text),
           h.op = "fetch" => h.shown \cap h.over = {},
           store = "postgres" /\ text = "ok" =>
               h \in Fetches /\ handler[r].present \cap Entitled \subseteq h.shown,
           handler[r].step # "done"
    PROVE  FetchesDecide
<1> DEFINE g == [h EXCEPT !.step = "done"]
<1>1. /\ g.step = "done" /\ g.op = h.op
      /\ h \in Fetches => g.shown = h.shown
      /\ h.op = "fetch" => g.shown \cap g.over = {}
  BY DEF Creates, Reports, Rotations, Fetches
<1>2. handler' = [handler EXCEPT ![r] = g] /\ reply' = [reply EXCEPT ![r] = text]
  BY DEF Answer
<1> HIDE DEF g
<1>3. FetchOK(g)
  BY <1>1 DEF FetchOK
<1> SUFFICES ASSUME NEW x \in Requests
             PROVE  /\ FetchOK(handler'[x])
                    /\ handler[x].step = "done" => handler'[x] = handler[x]
                    /\ store = "postgres" /\ reply'[x] = "ok" /\ reply[x] # "ok" =>
                           handler[x].present \cap Entitled \subseteq handler'[x].shown
  BY DEF FetchesDecide
<1>4. CASE x = r
  <2>1. handler'[x] = g /\ reply'[x] = text
    BY <1>2, <1>4 DEF TypeOK
  <2> QED BY <1>1, <1>3, <1>4, <2>1
<1>5. CASE x # r
  <2>1. handler'[x] = handler[x] /\ reply'[x] = reply[x]
    BY <1>2, <1>5 DEF TypeOK
  <2> QED BY <2>1 DEF FetchInv
<1> QED BY <1>4, <1>5

\* create_client goes on after add_credential.
LEMMA DecideLimits ==
    ASSUME TypeOK, FetchInv, NEW r \in Requests, NEW h \in Creates, GoOnWithLimits(r, h),
           handler[r].step # "done"
    PROVE  FetchesDecide
<1>1. ASSUME NEW s, GoTo(r, [h EXCEPT !.step = s]) PROVE FetchesDecide
  <2>1. [h EXCEPT !.step = s].op # "fetch"
    BY DEF Creates
  <2>2. FetchOK([h EXCEPT !.step = s])
    BY <2>1 DEF FetchOK
  <2> QED BY <1>1, <2>2, DecideGoTo
<1>2. CASE Answer(r, h, "created")
  <2>1. h.op # "fetch"
    BY DEF Creates
  <2> QED BY <1>2, <2>1, DecideAnswer
<1> QED BY <1>1, <1>2 DEF GoOnWithLimits

\* The loop goes on, or ends with a subscription.
LEMMA DecideLoop ==
    ASSUME TypeOK, FetchInv, NEW r \in Requests, NEW h, LoopReady(h), Loop(r, h),
           h.present = handler[r].present, handler[r].step # "done"
    PROVE  FetchesDecide
<1>0. h \in Fetches
  BY DEF LoopReady
<1>1. CASE h.todo = {} /\ Answer(r, [h EXCEPT !.client = None, !.limit = None], "ok")
  <2> DEFINE g == [h EXCEPT !.client = None, !.limit = None]
  <2>1. g \in Fetches /\ g.shown = h.shown /\ g.over = h.over
    BY <1>0 DEF Fetches
  <2> HIDE DEF g
  <2>2. g.shown \cap g.over = {} /\ handler[r].present \cap Entitled \subseteq g.shown
    BY <1>1, <2>1 DEF LoopReady
  <2>3. Answer(r, g, "ok")
    BY <1>1 DEF g
  <2> QED BY <2>1, <2>2, <2>3, DecideAnswer
<1>2. ASSUME NEW c \in h.todo,
             GoTo(r, [h EXCEPT !.step = "quota", !.todo = @ \ {c}, !.client = c,
                               !.limit = None])
      PROVE  FetchesDecide
  <2> DEFINE g == [h EXCEPT !.step = "quota", !.todo = @ \ {c}, !.client = c,
                            !.limit = None]
  <2>1. /\ g.step = "quota" /\ g.todo = h.todo \ {c} /\ g.client = c
        /\ g.shown = h.shown /\ g.over = h.over /\ g.present = h.present
        /\ g.profile = h.profile
    BY <1>0 DEF Fetches
  <2>2. GoTo(r, g)
    BY <1>2
  <2> HIDE DEF g
  <2>3. HidesDenied(g) /\ ShowsEntitled(g)
    BY <2>1 DEF LoopReady, HidesDenied, ShowsEntitled
  <2>4. FetchOK(g)
    BY <2>1, <2>3 DEF LoopReady, FetchOK
  <2> QED BY <2>2, <2>4, DecideGoTo
<1> QED BY <1>1, <1>2 DEF Loop

\* A limit of c changes, and the fetches forget what they knew of c.
LEMMA DecideLimiting ==
    ASSUME TypeOK, FetchInv, NEW r \in Requests, NEW c, NEW h, h.op # "fetch",
           handler' = Limiting(r, c, h), handler[r].step # "done",
           \A x \in Requests : reply'[x] = "ok" => reply[x] = "ok"
    PROVE  /\ FetchesDecide
           /\ \A x \in Requests :
                  handler'[x].op = "fetch" /\ handler'[x].step # "done" =>
                      c \notin handler'[x].over \cup handler'[x].present
<1> SUFFICES ASSUME NEW x \in Requests
             PROVE  /\ FetchOK(handler'[x])
                    /\ handler[x].step = "done" => handler'[x] = handler[x]
                    /\ handler'[x].op = "fetch" /\ handler'[x].step # "done" =>
                           c \notin handler'[x].over \cup handler'[x].present
  BY DEF FetchesDecide
<1>1. CASE x = r
  <2>1. handler'[x] = h
    BY <1>1 DEF Limiting
  <2> QED BY <1>1, <2>1 DEF FetchOK
<1>2. CASE x # r /\ handler[x].op = "fetch" /\ handler[x].step # "done"
  <2> DEFINE g == [handler[x] EXCEPT !.over = @ \ {c}, !.present = @ \ {c}]
             f == handler[x]
  <2>1. f \in Fetches
    BY <1>2, HandlerByOp DEF TypeOK
  <2>2. handler'[x] = g
    BY <1>2 DEF Limiting
  <2>3. /\ g.op = "fetch" /\ g.step = f.step /\ g.todo = f.todo /\ g.client = f.client
        /\ g.shown = f.shown /\ g.over = f.over \ {c} /\ g.present = f.present \ {c}
        /\ g.profile = f.profile /\ g.limit = f.limit
    BY <1>2, <2>1 DEF Fetches
  <2>4. f.shown \cap f.over = {} /\ HidesDenied(f) /\ ShowsEntitled(f)
    BY <1>2 DEF FetchInv, FetchOK
  <2> HIDE DEF f, g
  <2>5. HidesDenied(g)
    BY <2>3, <2>4 DEF HidesDenied
  <2>6. ShowsEntitled(g)
    BY <2>3, <2>4 DEF ShowsEntitled
  <2>7. FetchOK(g) /\ c \notin g.over \cup g.present
    BY <2>3, <2>4, <2>5, <2>6 DEF FetchOK
  <2> QED BY <1>2, <2>2, <2>7
<1>3. CASE x # r /\ ~(handler[x].op = "fetch" /\ handler[x].step # "done")
  <2>1. handler'[x] = handler[x]
    BY <1>3 DEF Limiting
  <2> QED BY <1>3, <2>1 DEF FetchInv
<1> QED BY <1>1, <1>2, <1>3

\* A report of n bytes of c goes on or answers.
LEMMA DecideReported ==
    ASSUME TypeOK, FetchInv, NEW r \in Requests, NEW c, NEW n, NEW h, h.op = "report",
           handler' = Reported(r, c, n, h), handler[r].step # "done",
           \A x \in Requests : reply'[x] = "ok" => reply[x] = "ok"
    PROVE  /\ FetchesDecide
           /\ \A x \in Requests :
                  n < 0 /\ handler'[x].op = "fetch" /\ handler'[x].step # "done" =>
                      c \notin handler'[x].over \cup handler'[x].present
<1>1. CASE n < 0
  <2>1. handler' = Limiting(r, c, h) /\ h.op # "fetch"
    BY <1>1 DEF Reported
  <2>2. /\ FetchesDecide
        /\ \A x \in Requests :
               handler'[x].op = "fetch" /\ handler'[x].step # "done" =>
                   c \notin handler'[x].over \cup handler'[x].present
    BY <2>1, DecideLimiting
  <2> QED BY <1>1, <2>2
<1>2. CASE ~(n < 0)
  <2> SUFFICES ASSUME NEW x \in Requests
               PROVE  /\ FetchOK(handler'[x])
                      /\ handler[x].step = "done" => handler'[x] = handler[x]
    BY <1>2 DEF FetchesDecide
  <2>1. handler'[x] = IF x = r THEN h ELSE handler[x]
    BY <1>2 DEF Reported, TypeOK
  <2>2. FetchOK(handler[x]) /\ FetchOK(h)
    BY DEF FetchInv, FetchOK
  <2>3. CASE x = r
    BY <2>1, <2>2, <2>3
  <2>4. CASE x # r
    BY <2>1, <2>2, <2>4
  <2> QED BY <2>3, <2>4
<1> QED BY <1>1, <1>2

\* The handler of a fetch that is not done, and what it knows.
LEMMA FetchAt ==
    ASSUME AccessInv, FetchInv, NEW r \in Requests, handler[r].op = "fetch",
           handler[r].step # "done"
    PROVE  /\ handler[r] \in Fetches
           /\ handler[r].shown \cap handler[r].over = {}
           /\ HidesDenied(handler[r]) /\ ShowsEntitled(handler[r])
           /\ handler[r].step \in {"quota", "usage", "expiry"} =>
                  handler[r].client \in Credentials
  BY HandlerByOp DEF AccessInv, TypeOK, AllSound, Sound, ClientInHand, FetchInv, FetchOK

\* get_subscription begins: nobody is shown, and Denied and clients are read.
LEMMA DecideStart ==
    ASSUME AccessInv, FetchInv, NEW r \in Requests, NEW p \in Profiles,
           NEW t \in Requests \cup {None}, StartFetch(r, p, t)
    PROVE  FetchesDecide
<1> DEFINE b == IF t # None THEN t \in Revoked ELSE TokensOf(p) # {}
           h == [op |-> "fetch", step |-> "read", profile |-> p, token |-> t,
                 todo |-> {}, client |-> None, limit |-> None, shown |-> {},
                 over |-> Denied, present |-> clients[p], barred |-> b]
           g == [h EXCEPT !.step = "log"]
<1>0. TypeOK
  BY DEF AccessInv
<1>1. b \in BOOLEAN /\ Denied \subseteq Credentials /\ clients[p] \subseteq Credentials
  <2>1. Denied \subseteq Credentials /\ clients[p] \subseteq Credentials
    BY <1>0 DEF Denied, TypeOK
  <2>2. CASE t # None
    BY <2>1, <2>2
  <2>3. CASE t = None
    BY <2>1, <2>3
  <2> QED BY <2>2, <2>3
<1>2. GoTo(r, g) \/ GoTo(r, h) \/ Answer(r, h, "unauthorized")
  BY DEF StartFetch
<1> HIDE DEF b
<1>3. h \in Fetches
  BY <1>1 DEF Fetches
<1>4. /\ h.op = "fetch" /\ h.step = "read" /\ h.profile = p /\ h.shown = {}
      /\ h.over = Denied /\ h.present = clients[p]
      /\ g.op = "fetch" /\ g.step = "log" /\ g.profile = p /\ g.shown = {}
      /\ g.over = Denied /\ g.present = clients[p]
  OBVIOUS
<1> HIDE DEF h, g
<1>5. FetchOK(h) /\ FetchOK(g)
  BY <1>4 DEF FetchOK, HidesDenied, ShowsEntitled
<1>6. handler[r].step # "done"
  BY DEF StartFetch, MayStart, New
<1> QED BY <1>0, <1>2, <1>3, <1>4, <1>5, <1>6, DecideGoTo, DecideAnswer

\* record_subscription_access.
LEMMA DecideRecord ==
    ASSUME AccessInv, FetchInv, NEW r \in Requests, RecordAccess(r)
    PROVE  FetchesDecide
<1> DEFINE f == handler[r]
           g == [f EXCEPT !.step = "read"]
<1>1. f.op = "fetch" /\ f.step = "log" /\ GoTo(r, g)
  BY DEF RecordAccess
<1>2. f \in Fetches /\ f.shown \cap f.over = {} /\ HidesDenied(f) /\ ShowsEntitled(f)
  BY <1>1, FetchAt
<1>3. /\ g.step = "read" /\ g.shown = f.shown /\ g.over = f.over /\ g.present = f.present
      /\ g.profile = f.profile
  BY <1>2 DEF Fetches
<1> HIDE DEF g
<1>4. FetchOK(g)
  BY <1>2, <1>3 DEF FetchOK, HidesDenied, ShowsEntitled
<1> QED BY <1>1, <1>4, DecideGoTo DEF AccessInv

\* The in-memory store counts every bucket: nobody above the quota is shown.
LEMMA DecideInMemory ==
    ASSUME AccessInv, LedgerInv, FetchInv, NEW r \in Requests, ReadInMemory(r)
    PROVE  FetchesDecide
<1> DEFINE f == handler[r]
           S == {c \in clients[f.profile] : ~ExceededInMemory(c) /\ ~Expired(c)}
           g == [f EXCEPT !.shown = S]
<1>0. TypeOK
  BY DEF AccessInv
<1>1. store = "memory" /\ f.op = "fetch" /\ f.step = "read" /\ Answer(r, g, "ok")
  BY DEF ReadInMemory
<1>2. f \in Fetches /\ HidesDenied(f)
  BY <1>1, FetchAt
<1>3. S \subseteq Credentials /\ clients[f.profile] \subseteq Credentials
  BY <1>0, <1>2 DEF Fetches, TypeOK
<1>4. ASSUME NEW c \in Denied, c \in S PROVE FALSE
  <2>1. c \in Credentials /\ ~ExceededInMemory(c) /\ ~Expired(c)
    BY <1>3, <1>4
  <2>2. quota[c] # None /\ quota[c] >= 0 /\ least[c] > quota[c]
    BY <1>1, <1>4, <2>1 DEF Denied
  <2>3. quota[c] \in Int /\ least[c] \in Int
    BY <1>0, <2>1, <2>2 DEF TypeOK
  <2>4. Used(c, Buckets) = 3 * least[c]
    BY <1>1, <2>1 DEF LedgerInv
  <2>5. Used(c, Buckets) <= quota[c]
    BY <2>1, <2>2 DEF ExceededInMemory, Allowed, Buckets
  <2> QED BY <2>2, <2>3, <2>4, <2>5
<1> HIDE DEF S
<1>5. g \in Fetches /\ g.shown = S /\ g.over = f.over
  BY <1>2, <1>3 DEF Fetches
<1> HIDE DEF g
<1>6. g.shown \cap g.over = {}
  BY <1>2, <1>4, <1>5 DEF HidesDenied
<1> QED BY <1>0, <1>1, <1>5, <1>6, DecideAnswer

\* credentials_for_profile: everybody listed is still to come.
LEMMA DecideList ==
    ASSUME AccessInv, FetchInv, NEW r \in Requests, ListCredentials(r)
    PROVE  FetchesDecide
<1> DEFINE f == handler[r]
           g == [f EXCEPT !.todo = clients[f.profile]]
<1>1. f.op = "fetch" /\ f.step = "read" /\ Loop(r, g)
  BY DEF ListCredentials
<1>2. f \in Fetches /\ f.shown \cap f.over = {} /\ HidesDenied(f) /\ ShowsEntitled(f)
  BY <1>1, FetchAt
<1>3. /\ g \in Fetches /\ g.todo = clients[f.profile] /\ g.shown = f.shown
      /\ g.over = f.over /\ g.present = f.present /\ g.profile = f.profile
  BY <1>2 DEF Fetches, AccessInv, TypeOK
<1> HIDE DEF g
<1>4. LoopReady(g)
  BY <1>2, <1>3 DEF LoopReady, HidesDenied, ShowsEntitled
<1> QED BY <1>1, <1>3, <1>4, DecideLoop DEF AccessInv

\* credential_quota_decision, first query.
LEMMA DecideQuota ==
    ASSUME AccessInv, FetchInv, NEW r \in Requests, ReadQuota(r)
    PROVE  FetchesDecide
<1> DEFINE f == handler[r]
           q == quota[f.client]
           s == IF q = None THEN "expiry" ELSE "usage"
           g == [f EXCEPT !.limit = q, !.step = s]
<1>1. f.op = "fetch" /\ f.step = "quota" /\ GoTo(r, g)
  BY DEF ReadQuota
<1>2. /\ f \in Fetches /\ f.shown \cap f.over = {} /\ HidesDenied(f) /\ ShowsEntitled(f)
      /\ f.client \in Credentials
  BY <1>1, FetchAt
<1>3. /\ g.step = s /\ g.limit = q /\ g.shown = f.shown /\ g.over = f.over
      /\ g.present = f.present /\ g.profile = f.profile /\ g.client = f.client
      /\ g.todo = f.todo
  BY <1>2 DEF Fetches
<1> HIDE DEF g
<1>4. q # None => q \in Int
  BY <1>2 DEF AccessInv, TypeOK
<1>5. q = None /\ f.client \in f.over => Expired(f.client)
  BY <1>2 DEF HidesDenied, Denied
<1>6. HidesDenied(g)
  BY <1>2, <1>3, <1>5 DEF HidesDenied
<1>7. ShowsEntitled(g)
  BY <1>1, <1>2, <1>3, <1>4 DEF ShowsEntitled
<1>8. FetchOK(g)
  BY <1>2, <1>3, <1>6, <1>7 DEF FetchOK
<1> QED BY <1>1, <1>8, DecideGoTo DEF AccessInv

\* credential_quota_decision, second query: the hours lie between the least and the
\* most.
LEMMA DecideUsage ==
    ASSUME AccessInv, LedgerInv, FetchInv, NEW r \in Requests, ReadUsage(r)
    PROVE  FetchesDecide
<1> DEFINE f == handler[r]
           c == f.client
           g == [f EXCEPT !.step = "expiry"]
<1>1. f.op = "fetch" /\ f.step = "usage"
  BY DEF ReadUsage
<1>2. /\ f \in Fetches /\ f.shown \cap f.over = {} /\ HidesDenied(f) /\ ShowsEntitled(f)
      /\ c \in Credentials /\ f.limit \in Int /\ f.limit # None
  BY <1>1, FetchAt, AccessAssumption DEF ShowsEntitled
<1>3. /\ least[c] \in Int /\ most[c] \in Int /\ UsedBytes(c) \in Int
      /\ UsedBytes(c) >= least[c] /\ most[c] >= UsedBytes(c)
  <2>1. "hour" \in Buckets /\ TypeOK
    BY DEF Buckets, AccessInv
  <2> HIDE DEF c, f
  <2>2. c \in Credentials
    BY <1>2
  <2>3. /\ least[c] \in Int /\ most[c] \in Int /\ Used(c, {"hour"}) \in Int
        /\ AllAbove(c, "hour") \in Nat /\ AllBelow(c, "hour") \in Nat
        /\ Used(c, {"hour"}) >= least[c] + AllAbove(c, "hour")
        /\ most[c] >= Used(c, {"hour"}) + AllBelow(c, "hour")
    BY <2>1, <2>2, BucketFacts
  <2> QED BY <2>3 DEF UsedBytes
<1>4. CASE Allowed(UsedBytes(c), f.limit) /\ GoTo(r, g)
  <2>1. /\ g.step = "expiry" /\ g.shown = f.shown /\ g.over = f.over
        /\ g.present = f.present /\ g.profile = f.profile /\ g.client = f.client
        /\ g.todo = f.todo
    BY <1>2 DEF Fetches
  <2> HIDE DEF g
  <2>2. ASSUME c \in f.over PROVE Expired(c)
    <3>1. f.limit = quota[c] /\ c \in Denied
      BY <1>1, <1>2, <2>2 DEF HidesDenied
    <3>2. ~(least[c] > f.limit)
      BY <1>2, <1>3, <1>4 DEF Allowed
    <3> QED BY <3>1, <3>2 DEF Denied
  <2>3. HidesDenied(g)
    BY <1>2, <2>1, <2>2 DEF HidesDenied
  <2>4. ShowsEntitled(g)
    BY <1>1, <1>2, <2>1 DEF ShowsEntitled
  <2>5. FetchOK(g)
    BY <1>2, <2>1, <2>3, <2>4 DEF FetchOK
  <2> QED BY <1>1, <1>4, <2>5, DecideGoTo DEF AccessInv
<1>5. CASE ~Allowed(UsedBytes(c), f.limit) /\ Loop(r, f)
  <2>1. ASSUME c \in f.present PROVE c \notin Entitled
    <3>1. f.limit = quota[c]
      BY <1>1, <1>2, <2>1 DEF ShowsEntitled
    <3>2. ~(most[c] <= f.limit)
      BY <1>2, <1>3, <1>5 DEF Allowed
    <3> QED BY <1>2, <3>1, <3>2 DEF Entitled
  <2>2. LoopReady(f)
    BY <1>1, <1>2, <2>1 DEF LoopReady, HidesDenied, ShowsEntitled
  <2> QED BY <1>1, <1>5, <2>2, DecideLoop DEF AccessInv
<1> QED BY <1>4, <1>5 DEF ReadUsage

\* credential_expiry_decision.
LEMMA DecideExpiry ==
    ASSUME AccessInv, FetchInv, NEW r \in Requests, ReadExpiry(r)
    PROVE  FetchesDecide
<1> DEFINE f == handler[r]
           c == f.client
           S == IF Expired(c) THEN f.shown ELSE f.shown \cup {c}
           g == [f EXCEPT !.shown = S]
<1>1. f.op = "fetch" /\ f.step = "expiry" /\ Loop(r, g)
  BY DEF ReadExpiry
<1>2. /\ f \in Fetches /\ f.shown \cap f.over = {} /\ HidesDenied(f) /\ ShowsEntitled(f)
      /\ c \in Credentials
  BY <1>1, FetchAt
<1>3. S \subseteq Credentials
  BY <1>2 DEF Fetches
<1>4. S \cap f.over = {}
  BY <1>1, <1>2 DEF HidesDenied
<1>5. f.present \cap Entitled \subseteq f.todo \cup S
  BY <1>1, <1>2 DEF ShowsEntitled, Entitled
<1> HIDE DEF S
<1>6. /\ g \in Fetches /\ g.todo = f.todo /\ g.shown = S
      /\ g.over = f.over /\ g.present = f.present /\ g.profile = f.profile
  BY <1>2, <1>3 DEF Fetches
<1> HIDE DEF g
<1>7. LoopReady(g)
  BY <1>2, <1>4, <1>5, <1>6 DEF LoopReady, HidesDenied, ShowsEntitled
<1> QED BY <1>1, <1>6, <1>7, DecideLoop DEF AccessInv

-----------------------------------------------------------------------------
(* What the fetches know stays true: time grows, no client leaves a        *)
(* profile, and a client whose limits change or whose usage falls is known *)
(* no more.                                                                *)

Growing ==
    /\ store' = store /\ now' >= now
    /\ \A p \in Profiles : clients[p] \subseteq clients'[p]

\* The limits of c stay as they are and its usage does not fall.
Kept(c) ==
    /\ quota'[c] = quota[c] /\ expiry'[c] = expiry[c]
    /\ least'[c] >= least[c] /\ most'[c] >= most[c]

KnownKept ==
    \A x \in Requests :
        handler'[x].op = "fetch" /\ handler'[x].step # "done" =>
            \A c \in Credentials : c \in handler'[x].over \cup handler'[x].present => Kept(c)

\* No step takes back time or a client.
LEMMA AllGrows == ASSUME AccessInv, Next PROVE Growing
<1>0. TypeOK
  BY DEF AccessInv
<1>1. store' = store /\ now' >= now
  <2>1. now \in Nat
    BY <1>0 DEF TypeOK, Instants
  <2>2. ASSUME NEW r \in Requests,
               \/ JoinProfile(r) \/ SetQuota(r) \/ SetExpiry(r) \/ UpsertRollup(r)
               \/ InsertRotated(r) \/ RecordAccess(r) \/ ReadInMemory(r)
               \/ ListCredentials(r) \/ ReadQuota(r) \/ ReadUsage(r) \/ ReadExpiry(r)
               \/ Abort(r)
        PROVE  UNCHANGED <<store, now>>
    BY <2>2 DEF JoinProfile, SetQuota, SetExpiry, UpsertRollup, InsertRotated, RecordAccess,
                ReadInMemory, ListCredentials, ReadQuota, ReadUsage, ReadExpiry, Abort
  <2>3. ASSUME NEW r \in Requests, NEW p, NEW c, NEW b, NEW t,
               \/ StartCreate(r, p, c, b, t) \/ StartReport(r, c, b, t)
               \/ IssueToken(r, p) \/ StartRotate(r, p) \/ StartFetch(r, p, t)
        PROVE  UNCHANGED <<store, now>>
    BY <2>3 DEF StartCreate, StartReport, IssueToken, StartRotate, StartFetch
  <2>4. CASE Tick
    BY <2>1, <2>4 DEF Tick
  <2>5. CASE UNCHANGED <<store, now>>
    BY <2>1, <2>5
  <2> QED BY <2>2, <2>3, <2>4, <2>5 DEF Next
<1>2. \A p \in Profiles : clients[p] \subseteq clients'[p]
  <2>1. \/ UNCHANGED clients
        \/ \E p, c : clients' = [clients EXCEPT ![p] = @ \cup {c}]
    <3>1. ASSUME NEW r \in Requests, NEW p \in Profiles, NEW c \in Credentials,
                 NEW q \in Quotas \cup {None}, NEW e \in Instants \cup {None},
                 StartCreate(r, p, c, q, e)
          PROVE  UNCHANGED clients \/ clients' = [clients EXCEPT ![p] = @ \cup {c}]
      BY <3>1 DEF StartCreate
    <3>2. ASSUME NEW r \in Requests, JoinProfile(r)
          PROVE  \E p, c : clients' = [clients EXCEPT ![p] = @ \cup {c}]
      BY <3>2 DEF JoinProfile
    <3>3. ASSUME NEW r \in Requests,
                 \/ SetQuota(r) \/ SetExpiry(r) \/ UpsertRollup(r) \/ InsertRotated(r)
                 \/ RecordAccess(r) \/ ReadInMemory(r) \/ ListCredentials(r) \/ ReadQuota(r)
                 \/ ReadUsage(r) \/ ReadExpiry(r) \/ Abort(r)
          PROVE  UNCHANGED clients
      BY <3>3 DEF SetQuota, SetExpiry, UpsertRollup, InsertRotated, RecordAccess,
                  ReadInMemory, ListCredentials, ReadQuota, ReadUsage, ReadExpiry, Abort
    <3>4. ASSUME NEW r \in Requests, NEW p, NEW b, NEW t,
                 \/ IssueToken(r, p) \/ StartRotate(r, p) \/ StartReport(r, p, b, t)
                 \/ StartFetch(r, p, t) \/ Tick
          PROVE  UNCHANGED clients
      BY <3>4 DEF IssueToken, StartRotate, StartReport, StartFetch, Tick
    <3> QED BY <3>1, <3>2, <3>3, <3>4 DEF Next, Tick
  <2>2. clients \in [Profiles -> SUBSET Credentials]
    BY <1>0 DEF TypeOK
  <2> QED BY <2>1, <2>2
<1> QED BY <1>1, <1>2 DEF Growing

\* What was true of the fetches before the step is true after it.
LEMMA FetchStays ==
    ASSUME TypeOK, TypeOK', Growing, KnownKept, FetchesDecide
    PROVE  FetchInv'
<1> SUFFICES ASSUME NEW x \in Requests, handler'[x].op = "fetch" PROVE FetchOK(handler[x])'
  BY DEF FetchInv, FetchOK
<1> DEFINE f == handler'[x]
<1>1. f \in Fetches
  <2>1. f \in Handlers
    BY DEF TypeOK
  <2> QED BY <2>1, HandlerByOp
<1>2. f.shown \cap f.over = {} /\ (f.step # "done" => HidesDenied(f) /\ ShowsEntitled(f))
  BY DEF FetchesDecide, FetchOK
<1>3. CASE f.step = "done"
  BY <1>2, <1>3 DEF FetchOK
<1>4. CASE f.step # "done"
  <2>1. /\ f.over \subseteq Credentials /\ f.present \subseteq Credentials
        /\ f.profile \in Profiles
    BY <1>1 DEF Fetches
  <2>2. \A c \in f.over \cup f.present : /\ quota'[c] = quota[c] /\ expiry'[c] = expiry[c]
                                        /\ least'[c] >= least[c] /\ most'[c] >= most[c]
    BY <1>4, <2>1 DEF KnownKept, Kept
  <2>3. HidesDenied(f) /\ ShowsEntitled(f)
    BY <1>2, <1>4
  <2> HIDE DEF f
  <2>4. ASSUME NEW c \in f.over \cup f.present, Expired(c)
        PROVE  expiry'[c] # None /\ expiry'[c] <= now'
    <3>1. /\ expiry[c] \in Nat /\ now \in Nat /\ now' \in Nat
          /\ expiry[c] <= now /\ expiry[c] # None
      BY <2>1, <2>4 DEF TypeOK, Instants, Expired
    <3>2. now' >= now /\ expiry'[c] = expiry[c]
      BY <2>2 DEF Growing
    <3> QED BY <3>1, <3>2
  <2>5. ASSUME NEW c \in f.over, c \in Denied PROVE c \in Denied'
    <3>1. c \in Credentials
      BY <2>1
    <3>2. CASE Expired(c)
      BY <2>4, <3>1, <3>2 DEF Denied, Expired
    <3>3. CASE /\ quota[c] # None /\ least[c] > quota[c]
               /\ store = "memory" => quota[c] >= 0
      <4>1. /\ quota[c] \in Int /\ least[c] \in Int /\ least'[c] \in Int
            /\ least'[c] >= least[c] /\ quota'[c] = quota[c] /\ store' = store
        BY <2>2, <3>1, <3>3 DEF TypeOK, Growing
      <4>2. /\ quota'[c] # None /\ least'[c] > quota'[c]
            /\ store' = "memory" => quota'[c] >= 0
        BY <3>3, <4>1
      <4> QED BY <3>1, <4>2 DEF Denied
    <3> QED BY <2>5, <3>2, <3>3 DEF Denied
  <2>6. ASSUME NEW c \in f.present, c \in Entitled' PROVE c \in Entitled
    <3>1. c \in Credentials /\ ~Expired(c)
      BY <2>1, <2>4, <2>6 DEF Entitled, Expired
    <3>2. ASSUME quota[c] # None PROVE most[c] <= quota[c]
      <4>1. quota'[c] = quota[c] /\ most'[c] <= quota'[c]
        BY <2>2, <2>6, <3>2 DEF Entitled
      <4>2. /\ quota[c] \in Int /\ most[c] \in Int /\ most'[c] \in Int
            /\ most'[c] >= most[c]
        BY <2>2, <3>1, <3>2 DEF TypeOK
      <4> QED BY <4>1, <4>2
    <3> QED BY <3>1, <3>2 DEF Entitled
  <2>7. HidesDenied(handler[x])'
    <3>1. f.over \subseteq Denied'
      BY <2>3, <2>5 DEF HidesDenied
    <3>2. f.step = "usage" /\ f.client \in f.over => f.limit = quota'[f.client]
      BY <2>2, <2>3 DEF HidesDenied
    <3>3. f.step = "expiry" /\ f.client \in f.over =>
              expiry'[f.client] # None /\ expiry'[f.client] <= now'
      BY <2>3, <2>4 DEF HidesDenied
    <3> QED BY <3>1, <3>2, <3>3 DEF HidesDenied, f, Expired
  <2>8. ShowsEntitled(handler[x])'
    <3>1. f.present \subseteq clients'[f.profile]
      BY <2>1, <2>3 DEF ShowsEntitled, Growing
    <3>2. /\ f.step = "usage" => f.limit \in Int
          /\ f.step = "usage" /\ f.client \in f.present => f.limit = quota'[f.client]
      BY <2>2, <2>3 DEF ShowsEntitled
    <3>3. f.step \in {"quota", "usage", "expiry"} =>
              f.present \cap Entitled' \subseteq f.todo \cup {f.client} \cup f.shown
      BY <2>3, <2>6 DEF ShowsEntitled
    <3> QED BY <3>1, <3>2, <3>3 DEF ShowsEntitled, f
  <2> QED BY <1>2, <2>7, <2>8 DEF FetchOK, f
<1> QED BY <1>3, <1>4

\* A report moves the least and the most of c, and when they may fall the fetches
\* forget what they knew of c.
LEMMA DecideReport ==
    ASSUME TypeOK, FetchInv, NEW r \in Requests, NEW c \in Credentials, NEW n, NEW h,
           h.op = "report", handler' = Reported(r, c, n, h), handler[r].step # "done",
           UNCHANGED <<quota, expiry>>, NEW text, text # "ok",
           reply' = reply \/ reply' = [reply EXCEPT ![r] = text],
           NEW l \in Int, least' = [least EXCEPT ![c] = @ + l], n < 0 \/ l >= 0,
           NEW m \in Int, most' = [most EXCEPT ![c] = @ + m], n < 0 \/ m >= 0
    PROVE  FetchesDecide /\ KnownKept
<1>1. \A x \in Requests : reply'[x] = "ok" => reply[x] = "ok"
  BY DEF TypeOK
<1>2. /\ FetchesDecide
      /\ \A x \in Requests :
             n < 0 /\ handler'[x].op = "fetch" /\ handler'[x].step # "done" =>
                 c \notin handler'[x].over \cup handler'[x].present
  BY <1>1, DecideReported
<1>3. ASSUME NEW d \in Credentials, d # c \/ ~(n < 0) PROVE Kept(d)
  <2>1. /\ least[d] \in Int /\ least'[d] = IF d = c THEN least[d] + l ELSE least[d]
        /\ most[d] \in Int /\ most'[d] = IF d = c THEN most[d] + m ELSE most[d]
    BY DEF TypeOK
  <2>2. least'[d] >= least[d] /\ most'[d] >= most[d]
    BY <1>3, <2>1
  <2> QED BY <2>2 DEF Kept
<1>4. KnownKept
  BY <1>2, <1>3 DEF KnownKept
<1> QED BY <1>2, <1>4

\* Every step decides on the fetches as the state before it demands, and no client
\* that a fetch still knows of gets other limits or a lower usage.
LEMMA DecideStep ==
    ASSUME AccessInv, LedgerInv, FetchInv, Next
    PROVE  FetchesDecide /\ KnownKept
<1>0. TypeOK /\ \A r \in Requests : handler[r] \in Handlers
  BY DEF AccessInv, TypeOK
<1>a. New.step # "done"
  BY DEF New
<1>b. \A n \in Int : n >= n
  OBVIOUS
<1>c. UNCHANGED <<quota, expiry>> /\ UNCHANGED usageVars => KnownKept
  BY <1>0, <1>b DEF KnownKept, Kept, usageVars, TypeOK
<1>1. ASSUME NEW r \in Requests, NEW p \in Profiles, NEW c \in Credentials,
             NEW q \in Quotas \cup {None}, NEW e \in Instants \cup {None},
             StartCreate(r, p, c, q, e)
      PROVE  FetchesDecide /\ KnownKept
  <2> DEFINE h == [op |-> "create", step |-> "join", profile |-> p, client |-> c,
                   quota |-> q, expiry |-> e]
  <2>1. h \in Creates /\ FetchOK(h)
    BY DEF Creates, FetchOK
  <2>2. handler[r].step # "done" /\ UNCHANGED <<quota, expiry>> /\ UNCHANGED usageVars
    BY <1>1, <1>a DEF StartCreate, MayStart
  <2>3. GoOnWithLimits(r, h) \/ GoTo(r, h)
    BY <1>1 DEF StartCreate
  <2> HIDE DEF h
  <2> QED BY <1>0, <1>c, <2>1, <2>2, <2>3, DecideLimits, DecideGoTo
<1>2. ASSUME NEW r \in Requests, JoinProfile(r) PROVE FetchesDecide /\ KnownKept
  <2>1. handler[r] \in Creates /\ handler[r].step # "done"
    BY <1>0, <1>2, HandlerByOp DEF JoinProfile
  <2>2. GoOnWithLimits(r, handler[r]) /\ UNCHANGED <<quota, expiry>> /\ UNCHANGED usageVars
    BY <1>2 DEF JoinProfile
  <2> QED BY <1>0, <1>c, <2>1, <2>2, DecideLimits
<1>3. ASSUME NEW r \in Requests, SetQuota(r) PROVE FetchesDecide /\ KnownKept
  <2> DEFINE c == handler[r].client
  <2>1. handler[r] \in Creates /\ handler[r].step # "done"
    BY <1>0, <1>3, HandlerByOp DEF SetQuota
  <2>2. PICK s : handler' = Limiting(r, c, [handler[r] EXCEPT !.step = s])
    BY <1>3 DEF SetQuota
  <2>3. [handler[r] EXCEPT !.step = s].op # "fetch" /\ c \in Credentials
    BY <2>1 DEF Creates
  <2>4. \A x \in Requests : reply'[x] = "ok" => reply[x] = "ok"
    BY <1>0, <1>3 DEF SetQuota, TypeOK
  <2>5. /\ expiry' = expiry /\ UNCHANGED usageVars
        /\ \A d \in Credentials : d # c => quota'[d] = quota[d]
    BY <1>0, <1>3, <2>3 DEF SetQuota, TypeOK
  <2> HIDE DEF c
  <2>6. /\ FetchesDecide
        /\ \A x \in Requests :
               handler'[x].op = "fetch" /\ handler'[x].step # "done" =>
                   c \notin handler'[x].over \cup handler'[x].present
    BY <1>0, <2>1, <2>2, <2>3, <2>4, DecideLimiting
  <2>7. \A d \in Credentials : d # c => Kept(d)
    BY <1>0, <1>b, <2>5 DEF Kept, usageVars, TypeOK
  <2> QED BY <2>6, <2>7 DEF KnownKept
<1>4. ASSUME NEW r \in Requests, SetExpiry(r) PROVE FetchesDecide /\ KnownKept
  <2> DEFINE c == handler[r].client
  <2>1. handler[r] \in Creates /\ handler[r].step # "done"
    BY <1>0, <1>4, HandlerByOp DEF SetExpiry
  <2>2. handler' = Limiting(r, c, [handler[r] EXCEPT !.step = "done"])
    BY <1>4 DEF SetExpiry
  <2>3. [handler[r] EXCEPT !.step = "done"].op # "fetch" /\ c \in Credentials
    BY <2>1 DEF Creates
  <2>4. \A x \in Requests : reply'[x] = "ok" => reply[x] = "ok"
    BY <1>0, <1>4 DEF SetExpiry, TypeOK
  <2>5. /\ quota' = quota /\ UNCHANGED usageVars
        /\ \A d \in Credentials : d # c => expiry'[d] = expiry[d]
    BY <1>0, <1>4, <2>3 DEF SetExpiry, TypeOK
  <2> HIDE DEF c
  <2>6. /\ FetchesDecide
        /\ \A x \in Requests :
               handler'[x].op = "fetch" /\ handler'[x].step # "done" =>
                   c \notin handler'[x].over \cup handler'[x].present
    BY <1>0, <2>1, <2>2, <2>3, <2>4, DecideLimiting
  <2>7. \A d \in Credentials : d # c => Kept(d)
    BY <1>0, <1>b, <2>5 DEF Kept, usageVars, TypeOK
  <2> QED BY <2>6, <2>7 DEF KnownKept
<1>5. ASSUME NEW r \in Requests, NEW c \in Credentials, NEW b \in Samples,
             NEW t \in Instants, StartReport(r, c, b, t)
      PROVE  FetchesDecide /\ KnownKept
  <2> DEFINE h == [op |-> "report", step |-> "hour", client |-> c, at |-> t, bytes |-> b]
             g == [h EXCEPT !.step = "done"]
  <2>1. h \in Reports /\ h.op = "report" /\ g.op = "report"
    BY DEF Reports
  <2>2. handler[r].step # "done" /\ UNCHANGED <<quota, expiry>>
    BY <1>5, <1>a DEF StartReport, MayStart
  <2>3. \/ /\ least' = [least EXCEPT ![c] = @ + b] /\ most' = [most EXCEPT ![c] = @ + b]
           /\ handler' = Reported(r, c, b, g)
           /\ reply' = [reply EXCEPT ![r] = "accepted"]
        \/ Sent(c, b) /\ handler' = Reported(r, c, b, h) /\ UNCHANGED reply
        \/ Answer(r, h, "error") /\ UNCHANGED usageVars
    BY <1>5 DEF StartReport
  <2> HIDE DEF h, g
  <2>4. b \in Int /\ (b < 0 \/ b >= 0)
    BY AccessAssumption
  <2>5. CASE /\ least' = [least EXCEPT ![c] = @ + b] /\ most' = [most EXCEPT ![c] = @ + b]
             /\ handler' = Reported(r, c, b, g)
             /\ reply' = [reply EXCEPT ![r] = "accepted"]
    BY <1>0, <2>1, <2>2, <2>4, <2>5, DecideReport
  <2>6. CASE Sent(c, b) /\ handler' = Reported(r, c, b, h) /\ UNCHANGED reply
    <3>1. Up(b) \in Int /\ Down(b) \in Int /\ (b < 0 \/ Down(b) >= 0) /\ (b < 0 \/ Up(b) >= 0)
      BY <2>4 DEF Up, Down
    <3> QED BY <1>0, <2>1, <2>2, <2>6, <3>1, DecideReport DEF Sent
  <2>7. CASE Answer(r, h, "error") /\ UNCHANGED usageVars
    BY <1>0, <1>c, <2>1, <2>2, <2>7, DecideAnswer
  <2> QED BY <2>3, <2>5, <2>6, <2>7
<1>6. ASSUME NEW r \in Requests, UpsertRollup(r) PROVE FetchesDecide /\ KnownKept
  <2> DEFINE f == handler[r]
             n == f.bytes
             c == f.client
  <2>1. /\ f \in Reports /\ f.step # "done" /\ f.op # "fetch"
        /\ c \in Credentials /\ n \in Int /\ \A s : [f EXCEPT !.step = s].op = "report"
    BY <1>0, <1>6, HandlerByOp, AccessAssumption DEF UpsertRollup, Reports
  <2>2. UNCHANGED <<quota, expiry>>
    BY <1>6 DEF UpsertRollup
  <2>3. \/ /\ Counted(c, n) /\ reply' = [reply EXCEPT ![r] = "accepted"]
           /\ \E s : handler' = Reported(r, c, n, [f EXCEPT !.step = s])
        \/ (\E s : GoTo(r, [f EXCEPT !.step = s])) /\ UNCHANGED <<least, most>>
    BY <1>6 DEF UpsertRollup
  <2> HIDE DEF f, n, c
  <2>4. CASE /\ Counted(c, n) /\ reply' = [reply EXCEPT ![r] = "accepted"]
             /\ \E s : handler' = Reported(r, c, n, [f EXCEPT !.step = s])
    <3>1. Up(n) \in Int /\ Down(n) \in Int /\ (n < 0 \/ Down(n) >= 0) /\ (n < 0 \/ Up(n) >= 0)
      BY <2>1 DEF Up, Down
    <3>2. PICK g : g.op = "report" /\ handler' = Reported(r, c, n, g)
      BY <2>1, <2>4
    <3>3. /\ least' = [least EXCEPT ![c] = @ + Up(n)]
          /\ most' = [most EXCEPT ![c] = @ + Down(n)]
          /\ reply' = [reply EXCEPT ![r] = "accepted"] /\ handler[r].step # "done"
      BY <2>1, <2>4 DEF Counted, f
    <3> QED BY <1>0, <2>1, <2>2, <3>1, <3>2, <3>3, DecideReport
  <2>5. CASE (\E s : GoTo(r, [f EXCEPT !.step = s])) /\ UNCHANGED <<least, most>>
    <3>1. PICK g : g.op = "report" /\ GoTo(r, g)
      BY <2>1, <2>5
    <3>2. FetchOK(g) /\ handler[r].step # "done"
      BY <2>1, <3>1 DEF FetchOK, f
    <3>3. KnownKept
      BY <1>0, <1>b, <2>2, <2>5 DEF KnownKept, Kept, TypeOK
    <3> QED BY <1>0, <3>1, <3>2, <3>3, DecideGoTo
  <2> QED BY <2>3, <2>4, <2>5
<1>7. ASSUME NEW r \in Requests, NEW p \in Profiles, IssueToken(r, p) \/ StartRotate(r, p)
      PROVE  FetchesDecide /\ KnownKept
  <2>1. PICK S \in SUBSET Requests :
            LET h == [op |-> "token", step |-> "insert", profile |-> p, seen |-> S] IN
            GoTo(r, h) \/ Answer(r, h, "created")
    <3>1. TokensOf(p) \in SUBSET Requests /\ {} \in SUBSET Requests
      BY DEF TokensOf
    <3> QED BY <1>7, <3>1 DEF IssueToken, StartRotate
  <2> DEFINE h == [op |-> "token", step |-> "insert", profile |-> p, seen |-> S]
  <2>2. h \in Rotations /\ h.op # "fetch" /\ FetchOK(h)
    BY DEF Rotations, FetchOK
  <2>3. handler[r].step # "done" /\ UNCHANGED <<quota, expiry>> /\ UNCHANGED usageVars
    BY <1>7, <1>a DEF IssueToken, StartRotate, MayStart
  <2>4. GoTo(r, h) \/ Answer(r, h, "created")
    BY <2>1
  <2> HIDE DEF h
  <2> QED BY <1>0, <1>c, <2>2, <2>3, <2>4, DecideGoTo, DecideAnswer
<1>8. ASSUME NEW r \in Requests, InsertRotated(r) PROVE FetchesDecide /\ KnownKept
  <2>1. handler[r] \in Rotations /\ handler[r].step # "done" /\ handler[r].op # "fetch"
    BY <1>0, <1>8, HandlerByOp DEF InsertRotated
  <2>2. Answer(r, handler[r], "created") /\ UNCHANGED <<quota, expiry>> /\ UNCHANGED usageVars
    BY <1>8 DEF InsertRotated
  <2> QED BY <1>0, <1>c, <2>1, <2>2, DecideAnswer
<1>9. ASSUME NEW r \in Requests, NEW p \in Profiles, NEW t \in Requests \cup {None},
             StartFetch(r, p, t)
      PROVE  FetchesDecide /\ KnownKept
  BY <1>9, <1>c, DecideStart DEF StartFetch
<1>10. ASSUME NEW r \in Requests,
              \/ RecordAccess(r) \/ ReadInMemory(r) \/ ListCredentials(r)
              \/ ReadQuota(r) \/ ReadUsage(r) \/ ReadExpiry(r)
       PROVE  FetchesDecide /\ KnownKept
  <2>1. UNCHANGED <<quota, expiry>> /\ UNCHANGED usageVars
    BY <1>10 DEF RecordAccess, ReadInMemory, ListCredentials, ReadQuota, ReadUsage, ReadExpiry
  <2> QED BY <1>10, <1>c, <2>1, DecideRecord, DecideInMemory, DecideList, DecideQuota,
             DecideUsage, DecideExpiry
<1>11. ASSUME NEW r \in Requests, Abort(r) PROVE FetchesDecide /\ KnownKept
  <2>1. /\ handler[r] \in Creates \cup Reports \cup Rotations \cup Fetches
        /\ handler[r].step # "done"
    BY <1>0, <1>11 DEF Abort, Busy, Handlers, New
  <2>2. Answer(r, handler[r], None) /\ UNCHANGED <<quota, expiry>> /\ UNCHANGED usageVars
    BY <1>11 DEF Abort
  <2>3. handler[r].op = "fetch" => handler[r].shown \cap handler[r].over = {}
    BY DEF FetchInv, FetchOK
  <2> QED BY <1>0, <1>c, <2>1, <2>2, <2>3, NoneIsNoText, DecideAnswer
<1>12. CASE Tick
  <2>1. UNCHANGED <<quota, expiry, handler, reply>> /\ UNCHANGED usageVars
    BY <1>12 DEF Tick
  <2>2. FetchesDecide
    BY <2>1 DEF FetchesDecide, FetchInv
  <2> QED BY <1>c, <2>1, <2>2
<1> QED BY <1>1, <1>2, <1>3, <1>4, <1>5, <1>6, <1>7, <1>8, <1>9, <1>10, <1>11, <1>12
        DEF Next

\* Every step keeps what the fetches know.
LEMMA FetchStep == AccessInv /\ LedgerInv /\ FetchInv /\ [Next]_vars => FetchInv'
<1> SUFFICES ASSUME AccessInv, LedgerInv, FetchInv, [Next]_vars PROVE FetchInv'
  OBVIOUS
<1>1. TypeOK /\ TypeOK'
  BY TypeStep DEF AccessInv
<1>2. CASE Next
  BY <1>1, <1>2, AllGrows, DecideStep, FetchStays
<1>3. CASE UNCHANGED vars
  BY <1>3 DEF vars, FetchInv, FetchOK, HidesDenied, ShowsEntitled, Denied, Entitled, Expired
<1> QED BY <1>2, <1>3

\* What a fetch knows is always true.
LEMMA AlwaysFetchInv == Spec => []FetchInv
<1>1. Init => FetchInv
  BY DEF Init, FetchInv, FetchOK, New
<1> QED BY <1>1, FetchStep, AlwaysAccessInv, AlwaysLedgerInv, PTL DEF Spec

-----------------------------------------------------------------------------
(* The theorems.                                                           *)

\* The store, the handlers and their answers keep their types.
THEOREM AccessTypeCorrect == Spec => []TypeOK
  BY AlwaysAccessInv, PTL DEF AccessInv

\* No request with a token that the profile had when a rotation began is served a
\* subscription if it came in after that rotation was answered: what a rotation's
\* UPDATE retires is never active again, whatever is issued, rotated or cut off
\* between it and the INSERT and afterwards, and verify_subscription_token stands
\* before every await of the fetch.
THEOREM RotatedRefusedHolds == Spec => []RotatedRefused
<1>1. AccessInv => RotatedRefused
  <2> SUFFICES ASSUME AccessInv, NEW r \in Requests, Served(r), handler[r].token # None
               PROVE  ~handler[r].barred
    BY DEF RotatedRefused
  <2>1. handler[r].barred = FALSE
    BY DEF AccessInv, AllSound, Sound, TokenWasGood, Served
  <2> QED BY <2>1
<1> QED BY <1>1, AlwaysAccessInv, PTL

\* A client whose creation was answered 201 has the quota and the expiry that were
\* asked for: create_client answers after the last of its three awaits, and no
\* other handler takes a limit back.
THEOREM CreatedHasLimitsHolds == Spec => []CreatedHasLimits
<1>1. AccessInv => CreatedHasLimits
  BY DEF AccessInv, AllSound, Sound, LimitsSet, CreatedHasLimits
<1> QED BY <1>1, AlwaysAccessInv, PTL

\* Unless a report of it to Postgres is under way or was cut off, a credential's hours,
\* days and months add up to the bytes accepted for it, whatever the samples' times
\* and signs: each upsert of record_usage adds to exactly one bucket of its kind.
THEOREM BucketsAgreeHolds == Spec => []BucketsAgree
<1>1. AccessInv /\ LedgerInv => BucketsAgree
  <2> SUFFICES ASSUME AccessInv, LedgerInv, NEW c \in Credentials, NEW b \in Buckets,
                      least[c] = most[c]
               PROVE  Used(c, {b}) = least[c]
    BY DEF BucketsAgree, Buckets
  <2>1. TypeOK
    BY DEF AccessInv
  <2>2. /\ least[c] \in Int /\ Used(c, {b}) \in Int
        /\ AllAbove(c, b) \in Nat /\ AllBelow(c, b) \in Nat
        /\ Used(c, {b}) >= least[c] + AllAbove(c, b)
        /\ least[c] >= Used(c, {b}) + AllBelow(c, b)
    BY <2>1, BucketFacts
  <2> QED BY <2>2
<1> QED BY <1>1, AlwaysAccessInv, AlwaysLedgerInv, PTL

\* A credential that was above its quota, or had expired, when the request came in is
\* not in the subscription that answers it, in either store, whatever other samples are
\* sent, answered or cut off between the awaits of the loop, unless its own limits
\* changed or a negative sample of it was sent or answered there.  Samples and quotas
\* are any integers; a negative quota counts in Postgres only.
THEOREM OverLimitHiddenHolds == Spec => []OverLimitHidden
<1>1. FetchInv => OverLimitHidden
  BY DEF FetchInv, FetchOK, OverLimitHidden, Served
<1> QED BY <1>1, AlwaysFetchInv, PTL

\* A client of the profile since the request came in, whose limits allow it to the
\* end even counting the samples still under way, is in the subscription that
\* Postgres answers with: the loop drops it neither for a quota nor for an expiry.
THEOREM EntitledShownByPostgresHolds == Spec => EntitledShownByPostgres
<1> DEFINE Shows ==
        \A r \in Requests :
            store = "postgres" /\ Served(r)' /\ ~Served(r) =>
                handler[r].present \cap Entitled \subseteq handler'[r].shown
<1>1. AccessInv /\ LedgerInv /\ FetchInv /\ [Next]_vars => [Shows]_vars
  <2> SUFFICES ASSUME AccessInv, LedgerInv, FetchInv, Next, NEW r \in Requests,
                      store = "postgres", Served(r)', ~Served(r)
               PROVE  handler[r].present \cap Entitled \subseteq handler'[r].shown
    OBVIOUS
  <2>1. FetchesDecide
    BY DecideStep
  <2>2. CASE reply[r] # "ok"
    BY <2>1, <2>2 DEF FetchesDecide, Served
  <2>3. CASE reply[r] = "ok"
    <3>1. handler[r].step = "done"
      BY <2>3, NoneIsNoText DEF AccessInv, AllSound, Sound, Unanswered
    <3>2. handler'[r] = handler[r]
      BY <2>1, <3>1 DEF FetchesDecide
    <3> QED BY <2>3, <3>2 DEF Served
  <2> QED BY <2>2, <2>3
<1>2. Spec => [][Shows]_vars
  BY <1>1, AlwaysAccessInv, AlwaysLedgerInv, AlwaysFetchInv, PTL DEF Spec
<1> QED BY <1>2 DEF EntitledShownByPostgres
=============================================================================
