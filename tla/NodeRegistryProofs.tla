------------------------- MODULE NodeRegistryProofs -------------------------
(***************************************************************************)
(* Theorems about NodeRegistry for any sets of nodes, tokens, keys and     *)
(* requests, any number of exits and of key rotations.                     *)
(***************************************************************************)
EXTENDS NodeRegistry, TLAPS

-----------------------------------------------------------------------------
(* The inductive invariant.                                                *)

\* Whoever is about to present or to store a token has one.
TokenInHand ==
    /\ \A n \in Nodes : process[n] = "registering" => envToken[n] \in Tokens
    /\ \A r \in Requests : issue[r].step = "create" => issue[r].token \in Tokens

\* A token that has registered a node is used, and stays what it is.
UsedTokens ==
    \A t \in Tokens :
        /\ uses[t] = 0 \/ (uses[t] = 1 /\ status[t] = "used")
        /\ \A x \in registrations :
               x.token = t => status[t] = "used" /\ usedBy[t] = x.node

\* While a result is on its way, during has the key the record has now, and the
\* one a result that was verified is signed with.
KeysDuring ==
    \A n \in Nodes :
        /\ process[n] \in {"sending", "committing"} => key[n] \in during[n] \cup {None}
        /\ process[n] = "committing" => runnerKey[n] \in during[n]

RegistryInv ==
    /\ TypeOK
    /\ TokenInHand
    /\ UsedTokens
    /\ KeysDuring

-----------------------------------------------------------------------------
(* The operators on tokens.                                                *)

\* issue_registration_token has looked its token up, or refused it.
LEMMA LookedUp ==
    ASSUME TypeOK, NEW r \in Requests, NEW t \in Tokens, IssueLookup(r, t)
    PROVE  \E i \in [step : {"create", "done"}, token : Tokens,
                     reply : {None, "created", "conflict"}] :
               issue' = [issue EXCEPT ![r] = i]
<1> DEFINE i == [issue[r] EXCEPT !.step = "create", !.token = t]
<1>1. i \in [step : {"create", "done"}, token : Tokens,
            reply : {None, "created", "conflict"}]
  BY DEF TypeOK
<1>2. CASE issue' = [issue EXCEPT ![r] = i]
  BY <1>1, <1>2
<1>3. CASE issue' = [issue EXCEPT ![r] = [step |-> "done", token |-> t,
                                         reply |-> "conflict"]]
  BY <1>3
<1> QED BY <1>2, <1>3 DEF IssueLookup

\* Making sure that a token exists keeps the types, and a token that has been
\* used stays used.
LEMMA CreatedLemma ==
    ASSUME NEW s \in [Tokens -> {"absent", "active", "used"}], NEW t \in Tokens
    PROVE  /\ Created(s, t) \in [Tokens -> {"absent", "active", "used"}]
           /\ \A u \in Tokens : Created(s, t)[u] = "used" <=> s[u] = "used"
  BY DEF Created

\* So does the call every token handler begins with.
LEMMA EnsuredLemma ==
    ASSUME TypeOK
    PROVE  /\ Ensured \in [Tokens -> {"absent", "active", "used"}]
           /\ \A u \in Tokens : Ensured[u] = "used" <=> status[u] = "used"
  BY CreatedLemma, RegistryAssumption DEF Ensured, TypeOK

\* Registering keeps the types of what it writes.
LEMMA RegisterTypes ==
    ASSUME TypeOK, NEW n \in Nodes, NEW t \in Tokens, NEW k \in Keys, Register(n, t, k)
    PROVE  /\ status' \in [Tokens -> {"absent", "active", "used"}]
           /\ usedBy' \in [Tokens -> Nodes \cup {None}]
           /\ key' \in [Nodes -> Keys \cup {None}]
           /\ during' \in [Nodes -> SUBSET Keys]
           /\ registrations' \subseteq [token : Tokens, node : Nodes]
           /\ uses' \in [Tokens -> Nat]
<1> USE DEF TypeOK, Register
<1>1. status' \in [Tokens -> {"absent", "active", "used"}]
  BY EnsuredLemma DEF MarkUsed
<1>2. /\ usedBy' \in [Tokens -> Nodes \cup {None}]
      /\ registrations' \subseteq [token : Tokens, node : Nodes]
      /\ uses' \in [Tokens -> Nat]
  OBVIOUS
<1>3. key' \in [Nodes -> Keys \cup {None}] /\ during' \in [Nodes -> SUBSET Keys]
  BY DEF SetKey
<1> QED BY <1>1, <1>2, <1>3

-----------------------------------------------------------------------------
(* Type correctness.                                                       *)

\* Every step keeps the types of the registry and of the runner processes.
LEMMA TypeStep == TypeOK /\ TokenInHand /\ [Next]_vars => TypeOK'
<1> SUFFICES ASSUME TypeOK, TokenInHand, [Next]_vars PROVE TypeOK'
  OBVIOUS
<1> USE DEF TypeOK, processVars, tokenVars, bounds
<1>1. CASE ListTokens
  BY <1>1, EnsuredLemma DEF ListTokens
<1>2. ASSUME NEW r \in Requests, NEW t \in Tokens, IssueLookup(r, t) PROVE TypeOK'
  <2>1. issue' \in [Requests -> [step : {"new", "create", "done"},
                                 token : Tokens \cup {None},
                                 reply : {None, "created", "conflict"}]]
    BY <1>2, LookedUp
  <2> QED BY <1>2, <2>1, EnsuredLemma DEF IssueLookup
<1>3. ASSUME NEW r \in Requests, IssueCreate(r) PROVE TypeOK'
  <2>1. issue[r].token \in Tokens
    BY <1>3 DEF IssueCreate, TokenInHand
  <2>2. issue' \in [Requests -> [step : {"new", "create", "done"},
                                 token : Tokens \cup {None},
                                 reply : {None, "created", "conflict"}]]
    BY <1>3 DEF IssueCreate
  <2> QED BY <1>3, <2>1, <2>2, CreatedLemma DEF IssueCreate
<1>4. ASSUME NEW n \in Nodes, NEW t \in Tokens, NEW k \in Keys, AdminRegister(n, t, k)
      PROVE  TypeOK'
  BY <1>4, RegisterTypes DEF AdminRegister
<1>5. ASSUME NEW n \in Nodes, NEW k \in Keys, RotateKey(n, k) PROVE TypeOK'
  BY <1>5 DEF RotateKey, SetKey
<1>6. ASSUME NEW n \in Nodes, Start(n) PROVE TypeOK'
  BY <1>6 DEF Start, GoTo
<1>7. ASSUME NEW n \in Nodes, SelfRegister(n) PROVE TypeOK'
  <2>1. envToken[n] \in Tokens
    BY <1>7 DEF SelfRegister, TokenInHand
  <2> QED BY <1>7, <2>1, EnsuredLemma, RegisterTypes DEF SelfRegister, GoTo
<1>8. ASSUME NEW n \in Nodes, Heartbeat(n) PROVE TypeOK'
  BY <1>8 DEF Heartbeat, GoTo
<1>9. ASSUME NEW n \in Nodes, ResultReady(n) PROVE TypeOK'
  BY <1>9 DEF ResultReady, GoTo
<1>10. ASSUME NEW n \in Nodes, VerifyResult(n) PROVE TypeOK'
  BY <1>10 DEF VerifyResult, GoTo
<1>11. ASSUME NEW n \in Nodes, CommitResult(n) PROVE TypeOK'
  BY <1>11 DEF CommitResult, GoTo
<1>12. ASSUME NEW n \in Nodes, Exit(n) PROVE TypeOK'
  BY <1>12 DEF Exit, GoTo
<1>13. ASSUME NEW n \in Nodes, NEW k \in Keys, ChangeRunnerKey(n, k) PROVE TypeOK'
  BY <1>13 DEF ChangeRunnerKey
<1>14. CASE UNCHANGED vars
  BY <1>14 DEF vars
<1> QED BY <1>1, <1>2, <1>3, <1>4, <1>5, <1>6, <1>7, <1>8, <1>9, <1>10, <1>11, <1>12,
           <1>13, <1>14 DEF Next

-----------------------------------------------------------------------------
(* The other parts of the invariant.                                       *)

\* A runner is sent to register only with a token in its environment, and a
\* token that was looked up stays with its request.
LEMMA TokenInHandStep == TypeOK /\ TokenInHand /\ [Next]_vars => TokenInHand'
<1> SUFFICES ASSUME TypeOK, TokenInHand, [Next]_vars PROVE TokenInHand'
  OBVIOUS
<1> USE DEF TypeOK, TokenInHand, processVars
<1>1. CASE ListTokens
  BY <1>1 DEF ListTokens
<1>2. ASSUME NEW r \in Requests, NEW t \in Tokens, IssueLookup(r, t) PROVE TokenInHand'
  <2>1. PICK i \in [step : {"create", "done"}, token : Tokens,
                    reply : {None, "created", "conflict"}] :
            issue' = [issue EXCEPT ![r] = i]
    BY <1>2, LookedUp
  <2> QED BY <1>2, <2>1 DEF IssueLookup
<1>3. ASSUME NEW r \in Requests, IssueCreate(r) PROVE TokenInHand'
  BY <1>3 DEF IssueCreate
<1>4. ASSUME NEW n \in Nodes, NEW t \in Tokens, NEW k \in Keys, AdminRegister(n, t, k)
      PROVE  TokenInHand'
  BY <1>4 DEF AdminRegister
<1>5. ASSUME NEW n \in Nodes, NEW k \in Keys, RotateKey(n, k) PROVE TokenInHand'
  BY <1>5 DEF RotateKey
<1>6. ASSUME NEW n \in Nodes, Start(n) PROVE TokenInHand'
  BY <1>6 DEF Start, GoTo
<1>7. ASSUME NEW n \in Nodes, SelfRegister(n) PROVE TokenInHand'
  BY <1>7 DEF SelfRegister, GoTo
<1>8. ASSUME NEW n \in Nodes, Heartbeat(n) PROVE TokenInHand'
  BY <1>8 DEF Heartbeat, GoTo
<1>9. ASSUME NEW n \in Nodes, ResultReady(n) PROVE TokenInHand'
  BY <1>9 DEF ResultReady, GoTo
<1>10. ASSUME NEW n \in Nodes, VerifyResult(n) PROVE TokenInHand'
  BY <1>10 DEF VerifyResult, GoTo
<1>11. ASSUME NEW n \in Nodes, CommitResult(n) PROVE TokenInHand'
  BY <1>11 DEF CommitResult, GoTo
<1>12. ASSUME NEW n \in Nodes, Exit(n) PROVE TokenInHand'
  BY <1>12 DEF Exit, GoTo
<1>13. ASSUME NEW n \in Nodes, NEW k \in Keys, ChangeRunnerKey(n, k) PROVE TokenInHand'
  BY <1>13 DEF ChangeRunnerKey
<1>14. CASE UNCHANGED vars
  BY <1>14 DEF vars
<1> QED BY <1>1, <1>2, <1>3, <1>4, <1>5, <1>6, <1>7, <1>8, <1>9, <1>10, <1>11, <1>12,
           <1>13, <1>14 DEF Next

\* Only a token that has not been used is consumed.
LEMMA RegisterUsed ==
    ASSUME TypeOK, UsedTokens, NEW n \in Nodes, NEW t \in Tokens, NEW k \in Keys,
           Register(n, t, k)
    PROVE  UsedTokens'
<1>1. status[t] # "used" /\ uses[t] = 0
  BY EnsuredLemma DEF Register, Consumable, UsedTokens
<1>2. \A u \in Tokens : status'[u] = IF u = t THEN "used" ELSE Ensured[u]
  BY EnsuredLemma DEF Register, MarkUsed
<1>3. \A u \in Tokens : status[u] = "used" => status'[u] = "used"
  BY <1>2, EnsuredLemma
<1>4. \A x \in registrations' : x = [token |-> t, node |-> n]
                                 \/ (x \in registrations /\ x.token # t)
  BY <1>1 DEF Register, UsedTokens
<1>5. ASSUME NEW u \in Tokens
      PROVE  uses'[u] = 0 \/ (uses'[u] = 1 /\ status'[u] = "used")
  BY <1>1, <1>2, <1>3 DEF Register, UsedTokens, TypeOK
<1>6. ASSUME NEW u \in Tokens, NEW x \in registrations', x.token = u
      PROVE  status'[u] = "used" /\ usedBy'[u] = x.node
  BY <1>2, <1>3, <1>4, <1>6 DEF Register, UsedTokens, TypeOK
<1> QED BY <1>5, <1>6 DEF UsedTokens

\* Every other step leaves a used token used.
LEMMA KeepUsed ==
    ASSUME UsedTokens, UNCHANGED <<usedBy, registrations, uses>>,
           \A u \in Tokens : status[u] = "used" => status'[u] = "used"
    PROVE  UsedTokens'
  BY DEF UsedTokens

\* A used token stays used and keeps the one node it was used for.
LEMMA UsedStep == TypeOK /\ TokenInHand /\ UsedTokens /\ [Next]_vars => UsedTokens'
<1> SUFFICES ASSUME TypeOK, TokenInHand, UsedTokens, [Next]_vars PROVE UsedTokens'
  OBVIOUS
<1>1. CASE ListTokens
  BY <1>1, EnsuredLemma, KeepUsed DEF ListTokens
<1>2. ASSUME NEW r \in Requests, NEW t \in Tokens, IssueLookup(r, t) PROVE UsedTokens'
  BY <1>2, EnsuredLemma, KeepUsed DEF IssueLookup
<1>3. ASSUME NEW r \in Requests, IssueCreate(r) PROVE UsedTokens'
  <2>1. issue[r].token \in Tokens
    BY <1>3 DEF IssueCreate, TokenInHand
  <2> QED BY <1>3, <2>1, CreatedLemma, KeepUsed DEF IssueCreate, TypeOK
<1>4. ASSUME NEW n \in Nodes, NEW t \in Tokens, NEW k \in Keys, AdminRegister(n, t, k)
      PROVE  UsedTokens'
  BY <1>4, RegisterUsed DEF AdminRegister
<1>5. ASSUME NEW n \in Nodes, SelfRegister(n) PROVE UsedTokens'
  <2>1. envToken[n] \in Tokens /\ runnerKey[n] \in Keys
    BY <1>5 DEF SelfRegister, TokenInHand, TypeOK
  <2>2. CASE Register(n, envToken[n], runnerKey[n])
    BY <2>1, <2>2, RegisterUsed
  <2>3. CASE status' = Ensured /\ UNCHANGED <<usedBy, registrations, uses>>
    BY <2>3, EnsuredLemma, KeepUsed
  <2> QED BY <1>5, <2>2, <2>3 DEF SelfRegister
<1>6. CASE UNCHANGED tokenVars
  BY <1>6 DEF tokenVars, UsedTokens
<1> QED BY <1>1, <1>2, <1>3, <1>4, <1>5, <1>6 DEF Next, vars, tokenVars, RotateKey, Start,
           Heartbeat, ResultReady, VerifyResult, CommitResult, Exit, ChangeRunnerKey

\* Whoever sets the key of a record sets it for the result on its way as well.
LEMMA SetKeyDuring ==
    ASSUME TypeOK, KeysDuring, NEW n \in Nodes, NEW k \in Keys, SetKey(n, k),
           UNCHANGED runnerKey,
           \A m \in Nodes : process'[m] \in {"sending", "committing"} =>
                                process'[m] = process[m]
    PROVE  KeysDuring'
  BY DEF SetKey, KeysDuring, TypeOK

\* A record gets no key, while a result is on its way, that during does not have.
LEMMA KeysStep == TypeOK /\ TokenInHand /\ KeysDuring /\ [Next]_vars => KeysDuring'
<1> SUFFICES ASSUME TypeOK, TokenInHand, KeysDuring, [Next]_vars PROVE KeysDuring'
  OBVIOUS
<1>1. CASE UNCHANGED <<key, process, runnerKey, during>>
  BY <1>1 DEF KeysDuring
<1>2. ASSUME NEW n \in Nodes, NEW t \in Tokens, NEW k \in Keys, AdminRegister(n, t, k)
      PROVE  KeysDuring'
  BY <1>2, SetKeyDuring DEF AdminRegister, Register, processVars
<1>3. ASSUME NEW n \in Nodes, NEW k \in Keys, RotateKey(n, k) PROVE KeysDuring'
  BY <1>3, SetKeyDuring DEF RotateKey, processVars
<1>4. ASSUME NEW n \in Nodes, Start(n) PROVE KeysDuring'
  BY <1>4 DEF Start, GoTo, KeysDuring, TypeOK
<1>5. ASSUME NEW n \in Nodes, SelfRegister(n) PROVE KeysDuring'
  <2>1. CASE UNCHANGED <<key, during>>
    BY <1>5, <2>1 DEF SelfRegister, GoTo, KeysDuring, TypeOK
  <2>2. CASE Register(n, envToken[n], runnerKey[n])
    <3>1. SetKey(n, runnerKey[n]) /\ runnerKey[n] \in Keys
      BY <2>2 DEF Register, TypeOK
    <3>2. UNCHANGED runnerKey /\ \A m \in Nodes :
              process'[m] \in {"sending", "committing"} => process'[m] = process[m]
      BY <1>5 DEF SelfRegister, GoTo, TypeOK
    <3> QED BY <3>1, <3>2, SetKeyDuring
  <2> QED BY <1>5, <2>1, <2>2 DEF SelfRegister
<1>6. ASSUME NEW n \in Nodes, Heartbeat(n) PROVE KeysDuring'
  BY <1>6 DEF Heartbeat, GoTo, KeysDuring, TypeOK
<1>7. ASSUME NEW n \in Nodes, ResultReady(n) PROVE KeysDuring'
  BY <1>7 DEF ResultReady, GoTo, KeysDuring, TypeOK
<1>8. ASSUME NEW n \in Nodes, VerifyResult(n) PROVE KeysDuring'
  <2>1. CASE Verifies(n) /\ GoTo(n, "committing")
    <3>1. key[n] = runnerKey[n] /\ runnerKey[n] \in Keys /\ None \notin Keys
      BY <2>1, RegistryAssumption DEF Verifies, TypeOK
    <3> QED BY <1>8, <2>1, <3>1 DEF VerifyResult, GoTo, KeysDuring, TypeOK
  <2>2. CASE GoTo(n, "down")
    BY <1>8, <2>2 DEF VerifyResult, GoTo, KeysDuring, TypeOK
  <2> QED BY <1>8, <2>1, <2>2 DEF VerifyResult
<1>9. ASSUME NEW n \in Nodes, CommitResult(n) PROVE KeysDuring'
  BY <1>9 DEF CommitResult, GoTo, KeysDuring, TypeOK
<1>10. ASSUME NEW n \in Nodes, Exit(n) PROVE KeysDuring'
  BY <1>10 DEF Exit, GoTo, KeysDuring, TypeOK
<1>11. ASSUME NEW n \in Nodes, NEW k \in Keys, ChangeRunnerKey(n, k) PROVE KeysDuring'
  BY <1>11 DEF ChangeRunnerKey, KeysDuring, TypeOK
<1> QED BY <1>1, <1>2, <1>3, <1>4, <1>5, <1>6, <1>7, <1>8, <1>9, <1>10, <1>11
        DEF Next, vars, processVars, ListTokens, IssueLookup, IssueCreate

\* The invariant holds in every reachable state of the registry.
LEMMA AlwaysRegistryInv == Spec => []RegistryInv
<1>1. Init => RegistryInv
  BY DEF Init, RegistryInv, TypeOK, TokenInHand, UsedTokens, KeysDuring
<1>2. RegistryInv /\ [Next]_vars => RegistryInv'
  BY TypeStep, TokenInHandStep, UsedStep, KeysStep DEF RegistryInv
<1> QED BY <1>1, <1>2, PTL DEF Spec

-----------------------------------------------------------------------------
(* The theorems.                                                           *)

\* The variables of the registry keep their types.
THEOREM RegistryTypeCorrect == Spec => []TypeOK
  BY AlwaysRegistryInv, PTL DEF RegistryInv

\* A registration token registers at most one node, at most once: whichever
\* handlers issue, list and consume it in whatever order.
THEOREM OneNodePerTokenHolds == Spec => []OneNodePerToken
<1>1. RegistryInv => OneNodePerToken
  BY DEF RegistryInv, UsedTokens, OneNodePerToken
<1> QED BY <1>1, AlwaysRegistryInv, PTL

\* A result that submit_runner_result goes on to record was signed with a key the
\* node's own record has had since the result was ready to be sent.
THEOREM AcceptedWasRegisteredHolds == Spec => []AcceptedWasRegistered
<1>1. RegistryInv => AcceptedWasRegistered
  BY DEF RegistryInv, KeysDuring, AcceptedWasRegistered
<1> QED BY <1>1, AlwaysRegistryInv, PTL
=============================================================================
