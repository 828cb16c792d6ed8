------------------------ MODULE ProfileCompileProofs ------------------------
(***************************************************************************)
(* Proofs about ProfileCompile: what the awaits of compile_deployment may  *)
(* not mix up, and who a config admits.  The loops over the credentials    *)
(* are folds; FoldFacts says what a fold computes, and what each loop has  *)
(* after its rounds is shown by induction.                                 *)
(***************************************************************************)
EXTENDS ProfileCompile, TLAPS

-----------------------------------------------------------------------------
(* The inductive invariant.                                                *)

\* The profiles table, and what a waiting handler holds at each of its awaits.
ProfileShape == profile \in [Profiles -> Protocols \cup {None}]

HandlerShape ==
    handler \in [Workers -> [op : Stages \cup {None}, profile : Profiles \cup {None},
                             held : Protocols \cup Clients \cup {None}]]

HoldsForStage ==
    \A w \in Workers :
        /\ handler[w].op # None => handler[w].profile \in Profiles
        /\ handler[w].op \in {"version", "compile"} => handler[w].held \in Protocols

\* In Postgres the first version of a profile stays: what compile_deployment read
\* before its awaits is still there after them.
HeldIsStored ==
    store = "postgres" =>
        \A w \in Workers :
            handler[w].op = "compile" => handler[w].held = profile[handler[w].profile]

\* A config is of a protocol and for the version of a node, and a vless config has
\* passed supports_reality.
ConfigShape ==
    /\ compiled = [p \in Profiles |-> compiled[p]]
    /\ \A p \in Deployed :
           /\ compiled[p].protocol \in Protocols
           /\ compiled[p].version \in Versions
           /\ compiled[p].protocol = "vless" => SupportsReality(compiled[p].version)

CompileInv ==
    /\ ProfileShape
    /\ HandlerShape
    /\ HoldsForStage
    /\ HeldIsStored
    /\ ConfigShape
    /\ ConfigMatchesProfileInPostgres

-----------------------------------------------------------------------------
(* supports_reality and compile_profile_to_xray.                           *)

\* On a version in numbers, parts.next() is the part at the next place.
LEMMA NextOfNumbers ==
    ASSUME NEW version \in Seq(Int), WellFormed(version)
    PROVE  NextNumber(version, 0) = 1 /\ NextNumber(version, 1) = 2
<1>1. 1 \in DOMAIN version /\ 2 \in DOMAIN version
  BY DEF WellFormed
<1>2. ASSUME NEW place \in {0, 1}
      PROVE  NextNumber(version, place) = place + 1
  <2> DEFINE numbers == {i \in DOMAIN version : i > place /\ version[i] # Unparsed}
  <2>1. place + 1 \in numbers /\ \A j \in numbers : place + 1 <= j
    BY <1>1 DEF WellFormed
  <2>2. \A i \in numbers : (\A j \in numbers : i <= j) => i = place + 1
    BY <2>1
  <2> QED
    BY <2>1, <2>2 DEF NextNumber
<1> QED
  BY <1>2

\* supports_reality is right about every version written in numbers.
LEMMA SupportsRealityIsAtLeast18 ==
    ASSUME NEW version \in Seq(Int), WellFormed(version)
    PROVE  SupportsReality(version) <=> AtLeast18(version)
<1>1. {1, 2} \subseteq DOMAIN version /\ version[1] \in Int /\ version[2] \in Int
  BY DEF WellFormed
<1> QED
  BY <1>1, NextOfNumbers DEF SupportsReality, NumberAt, AtLeast18

\* compile_profile_to_xray answers with a config of the profile's protocol or with
\* an error, and with a vless config only when supports_reality says so.
LEMMA CompileKeepsProtocol ==
    ASSUME NEW protocol \in Protocols, NEW materials, NEW version
    PROVE  LET config == Compile(protocol, materials, version) IN
           /\ config.protocol \in {protocol} \cup Refusals
           /\ config.protocol = "vless" => SupportsReality(version)
<1>1. CASE protocol = "vless"
  BY <1>1 DEF Compile, CompileVless, Config, Refused, Refusals
<1>2. CASE protocol = "shadowsocks"
  <2> DEFINE config == CompileShadowsocks(materials)
  <2>1. Compile(protocol, materials, version) = config
    BY <1>2 DEF Compile
  <2>2. config.protocol \in {"shadowsocks"} \cup Refusals
    BY DEF CompileShadowsocks, Config, Refused, Refusals
  <2> QED
    BY <1>2, <2>1, <2>2 DEF Refusals
<1>3. CASE protocol = "trojan"
  BY <1>3 DEF Compile, CompileTrojan, Config, Refused, Refusals
<1> QED
  BY <1>1, <1>2, <1>3 DEF Protocols

-----------------------------------------------------------------------------
(* The invariant.                                                          *)

\* Before the first request there is no profile, no handler and no config.
LEMMA InitCompileInv == Init => CompileInv
  BY ProfileAssumption
  DEF Init, Idle, CompileInv, ProfileShape, HandlerShape, HoldsForStage, HeldIsStored,
      ConfigShape, ConfigMatchesProfileInPostgres, Deployed, Stages

\* A handler that goes on to its next await, or ends there, leaves the others alone.
LEMMA HandlerMoves ==
    ASSUME CompileInv, NEW w \in Workers, UNCHANGED <<store, profile>>,
           \/ Ends(w)
           \/ \E stage \in Stages, p \in Profiles, held \in Protocols \cup Clients :
                  /\ stage \in {"version", "compile"} => held \in Protocols
                  /\ stage = "compile" => held = profile[p]
                  /\ Waits(w, stage, p, held)
    PROVE  ProfileShape' /\ HandlerShape' /\ HoldsForStage' /\ HeldIsStored'
<1> USE DEF CompileInv, ProfileShape, HandlerShape, HoldsForStage, HeldIsStored, Stages
<1>1. CASE Ends(w)
  BY <1>1, ProfileAssumption DEF Ends, Idle
<1>2. ASSUME NEW stage \in Stages, NEW p \in Profiles, NEW held \in Protocols \cup Clients,
             stage \in {"version", "compile"} => held \in Protocols,
             stage = "compile" => held = profile[p],
             Waits(w, stage, p, held)
      PROVE  ProfileShape' /\ HandlerShape' /\ HoldsForStage' /\ HeldIsStored'
  BY <1>2 DEF Waits
<1> QED
  BY <1>1, <1>2

\* Configs that are not written, in a store whose profiles have not changed.
LEMMA ConfigsStay ==
    ASSUME CompileInv, UNCHANGED <<store, profile, compiled>>
    PROVE  ConfigShape' /\ ConfigMatchesProfileInPostgres'
  BY DEF CompileInv, ConfigShape, ConfigMatchesProfileInPostgres, Deployed

\* Each handler step keeps what is held, what is stored and what was compiled
\* in agreement.
LEMMA NextCompileInv == CompileInv /\ [Next]_vars => CompileInv'
<1> SUFFICES ASSUME CompileInv, [Next]_vars
             PROVE  CompileInv'
  OBVIOUS
<1> USE DEF CompileInv
<1>1. ASSUME NEW p \in Profiles, NEW k \in Protocols, CreateProfile(p, k)
      PROVE  CompileInv'
  BY <1>1 DEF CreateProfile, ProfileShape, HandlerShape, HoldsForStage, HeldIsStored,
              ConfigShape, ConfigMatchesProfileInPostgres, Deployed
<1>2. ASSUME NEW w \in Workers, NEW p \in Profiles, NEW k \in Protocols,
             NameProfile(w, p, k)
      PROVE  CompileInv'
  BY <1>2, HandlerMoves, ConfigsStay DEF NameProfile, Stages
<1>3. ASSUME NEW w \in Workers, InsertVersion(w)
      PROVE  CompileInv'
  <2> DEFINE p == handler[w].profile
             k == handler[w].held
  <2>1. p \in Profiles /\ k \in Protocols /\ k # None
    BY <1>3, ProfileAssumption DEF InsertVersion, HoldsForStage, Stages
  <2>2. /\ profile' \in [Profiles -> Protocols \cup {None}]
        /\ \A q \in Profiles : profile[q] # None => profile'[q] = profile[q]
    BY <1>3, <2>1 DEF InsertVersion, FirstVersion, ProfileShape
  <2>3. HandlerShape' /\ HoldsForStage'
    BY <1>3, ProfileAssumption
    DEF InsertVersion, Ends, Idle, HandlerShape, HoldsForStage, Stages
  <2>4. HeldIsStored'
    <3> SUFFICES ASSUME store = "postgres", NEW v \in Workers, handler'[v].op = "compile"
                 PROVE  handler'[v].held = profile'[handler'[v].profile]
      BY <1>3 DEF InsertVersion, HeldIsStored
    <3>1. v # w /\ handler'[v] = handler[v]
      BY <1>3, ProfileAssumption DEF InsertVersion, Ends, Idle, HandlerShape, Stages
    <3>2. handler[v].profile \in Profiles /\ handler[v].held # None
      BY <3>1, ProfileAssumption DEF HoldsForStage, Stages
    <3> QED
      BY <2>2, <3>1, <3>2 DEF HeldIsStored
  <2>5. ConfigShape'
    BY <1>3 DEF InsertVersion, ConfigShape, Deployed
  <2>6. ConfigMatchesProfileInPostgres'
    BY <1>3, <2>2, ProfileAssumption
    DEF InsertVersion, ConfigShape, ConfigMatchesProfileInPostgres, Deployed
  <2> QED
    BY <2>2, <2>3, <2>4, <2>5, <2>6 DEF ProfileShape
<1>4. ASSUME NEW p \in Profiles, NEW c \in Clients, NEW m \in Materials,
             AddCredential(p, c, m)
      PROVE  CompileInv'
  BY <1>4 DEF AddCredential, ProfileShape, HandlerShape, HoldsForStage, HeldIsStored,
              ConfigShape, ConfigMatchesProfileInPostgres, Deployed
<1>5. ASSUME NEW w \in Workers, NEW p \in Profiles, NEW c \in Clients, NEW m \in Materials,
             UpsertSecret(w, p, c, m)
      PROVE  CompileInv'
  BY <1>5, HandlerMoves, ConfigsStay DEF UpsertSecret, Stages
<1>6. ASSUME NEW w \in Workers, JoinProfile(w)
      PROVE  CompileInv'
  BY <1>6, HandlerMoves, ConfigsStay DEF JoinProfile
<1>7. ASSUME NEW w \in Workers, NEW p \in Profiles, ReadProfile(w, p)
      PROVE  CompileInv'
  <2>1. profile[p] \in Protocols
    BY <1>7 DEF ReadProfile, ProfileShape
  <2> QED
    BY <1>7, <2>1, HandlerMoves, ConfigsStay DEF ReadProfile, tableVars, Stages
<1>8. ASSUME NEW w \in Workers, NEW v \in Versions, CompileProfile(w, v)
      PROVE  CompileInv'
  <2> DEFINE p == handler[w].profile
             k == handler[w].held
             config == Compile(k, MaterialsOf(p), v)
             result == [protocol |-> config.protocol, accepts |-> config.accepts,
                        from |-> MaterialsOf(p), version |-> v]
  <2>1. p \in Profiles /\ k \in Protocols
    BY <1>8, ProfileAssumption DEF CompileProfile, HoldsForStage, Stages
  <2>2. UNCHANGED <<store, profile>> /\ Ends(w)
    BY <1>8 DEF CompileProfile, tableVars
  <2>3. ProfileShape' /\ HandlerShape' /\ HoldsForStage' /\ HeldIsStored'
    BY <2>2, HandlerMoves
  <2>4. CASE UNCHANGED compiled
    BY <2>2, <2>3, <2>4, ConfigsStay
  <2>5. CASE /\ config.protocol \notin Refusals
             /\ compiled' = [compiled EXCEPT ![p] = result]
    <3>1. config.protocol = k /\ (k = "vless" => SupportsReality(v))
      BY <2>1, <2>5, CompileKeepsProtocol
    <3>2. store = "postgres" => k = profile[p]
      BY <1>8 DEF CompileProfile, HeldIsStored
    <3> HIDE DEF p, k, config
    <3>3. compiled' = [q \in Profiles |-> IF q = p THEN result ELSE compiled[q]]
      BY <2>1, <2>5 DEF ConfigShape
    <3>4. ConfigShape'
      BY <2>1, <3>1, <3>3 DEF ConfigShape, Deployed
    <3>5. ConfigMatchesProfileInPostgres'
      BY <2>1, <2>2, <3>1, <3>2, <3>3 DEF ConfigMatchesProfileInPostgres, Deployed
    <3> QED
      BY <2>3, <3>4, <3>5
  <2> QED
    BY <1>8, <2>4, <2>5 DEF CompileProfile
<1>9. ASSUME NEW w \in Workers, Abort(w)
      PROVE  CompileInv'
  BY <1>9, HandlerMoves, ConfigsStay DEF Abort, tableVars
<1>10. CASE UNCHANGED vars
  BY <1>10 DEF vars, ProfileShape, HandlerShape, HoldsForStage, HeldIsStored,
               ConfigShape, ConfigMatchesProfileInPostgres, Deployed
<1> QED
  BY <1>1, <1>2, <1>3, <1>4, <1>5, <1>6, <1>7, <1>8, <1>9, <1>10 DEF Next

\* The invariant holds in every reachable state.
LEMMA AlwaysCompileInv == Spec => []CompileInv
  BY InitCompileInv, NextCompileInv, PTL DEF Spec

-----------------------------------------------------------------------------
(* The loops as folds: FoldLeft takes the last element apart first, with   *)
(* the arguments of a round swapped.                                       *)

Highest(S) == Max(S)
UuidPushed(m, pushed) == PushUuid(pushed, m)
PasswordPushed(m, pushed) == PushPassword(pushed, m)
Selected(m, selected) == Select(selected, m)
RowJoined(row, found) == JoinRow(found, row)

Uuids == INSTANCE FoldFacts WITH Op <- UuidPushed, Base <- {}, Choose <- Highest
Passwords == INSTANCE FoldFacts WITH Op <- PasswordPushed, Base <- {}, Choose <- Highest
Selection == INSTANCE FoldFacts WITH Op <- Selected, Base <- <<>>, Choose <- Highest
Join == INSTANCE FoldFacts WITH Op <- RowJoined, Base <- <<>>, Choose <- Highest

\* FoldLeft's choice, the maximum, is the highest index.
LEMMA HighestIsMax ==
    ASSUME NEW n \in Nat
    PROVE  \A s \in SUBSET (1 .. n) :
               s # {} => Highest(s) \in s /\ \A y \in s : Highest(s) >= y
  BY Uuids!HighestIndex DEF Highest, Max

\* clients.push of compile_vless: after a round, what the round makes of the one before.
LEMMA UuidLoop ==
    ASSUME NEW seq, NEW n \in Nat, DOMAIN seq = 1 .. n
    PROVE  \E after : /\ after[0] = {}
                      /\ \A i \in 1 .. n : after[i] = PushUuid(after[i - 1], seq[i])
                      /\ FoldLeft(PushUuid, {}, seq) = after[n]
<1>1. FoldLeft(PushUuid, {}, seq) = Uuids!Iteration(seq, DOMAIN seq)[DOMAIN seq]
  BY DEF FoldLeft, MapThenFoldSet, Uuids!Iteration, Uuids!Step, UuidPushed, Highest
<1>2. Uuids!TakesHighest(n)
  BY HighestIsMax DEF Uuids!TakesHighest
<1>3. Uuids!LoopGives(seq, n, Uuids!Iteration(seq, 1 .. n)[1 .. n])
  BY <1>2, Uuids!LoopDef
<1> QED BY <1>1, <1>3 DEF Uuids!LoopGives, UuidPushed

\* The same for the passwords of trojan.
LEMMA PasswordLoop ==
    ASSUME NEW seq, NEW n \in Nat, DOMAIN seq = 1 .. n
    PROVE  \E after : /\ after[0] = {}
                      /\ \A i \in 1 .. n : after[i] = PushPassword(after[i - 1], seq[i])
                      /\ FoldLeft(PushPassword, {}, seq) = after[n]
<1>1. FoldLeft(PushPassword, {}, seq) = Passwords!Iteration(seq, DOMAIN seq)[DOMAIN seq]
  BY DEF FoldLeft, MapThenFoldSet, Passwords!Iteration, Passwords!Step, PasswordPushed, Highest
<1>2. Passwords!TakesHighest(n)
  BY HighestIsMax DEF Passwords!TakesHighest
<1>3. Passwords!LoopGives(seq, n, Passwords!Iteration(seq, 1 .. n)[1 .. n])
  BY <1>2, Passwords!LoopDef
<1> QED BY <1>1, <1>3 DEF Passwords!LoopGives, PasswordPushed

\* The same for the selection of a shadowsocks password.
LEMMA SelectLoop ==
    ASSUME NEW seq, NEW n \in Nat, DOMAIN seq = 1 .. n
    PROVE  \E after : /\ after[0] = <<>>
                      /\ \A i \in 1 .. n : after[i] = Select(after[i - 1], seq[i])
                      /\ FoldLeft(Select, <<>>, seq) = after[n]
<1>1. FoldLeft(Select, <<>>, seq) = Selection!Iteration(seq, DOMAIN seq)[DOMAIN seq]
  BY DEF FoldLeft, MapThenFoldSet, Selection!Iteration, Selection!Step, Selected, Highest
<1>2. Selection!TakesHighest(n)
  BY HighestIsMax DEF Selection!TakesHighest
<1>3. Selection!LoopGives(seq, n, Selection!Iteration(seq, 1 .. n)[1 .. n])
  BY <1>2, Selection!LoopDef
<1> QED BY <1>1, <1>3 DEF Selection!LoopGives, Selected

\* The same for the rows of credentials_for_profile.
LEMMA JoinLoop ==
    ASSUME NEW seq, NEW n \in Nat, DOMAIN seq = 1 .. n
    PROVE  \E after : /\ after[0] = <<>>
                      /\ \A i \in 1 .. n : after[i] = JoinRow(after[i - 1], seq[i])
                      /\ FoldLeft(JoinRow, <<>>, seq) = after[n]
<1>1. FoldLeft(JoinRow, <<>>, seq) = Join!Iteration(seq, DOMAIN seq)[DOMAIN seq]
  BY DEF FoldLeft, MapThenFoldSet, Join!Iteration, Join!Step, RowJoined, Highest
<1>2. Join!TakesHighest(n)
  BY HighestIsMax DEF Join!TakesHighest
<1>3. Join!LoopGives(seq, n, Join!Iteration(seq, 1 .. n)[1 .. n])
  BY <1>2, Join!LoopDef
<1> QED BY <1>1, <1>3 DEF Join!LoopGives, RowJoined

\* Appending to a sequence adds to its elements.
LEMMA ToSetOfAppend ==
    ASSUME NEW S, NEW seq \in Seq(S), NEW m \in S
    PROVE  Append(seq, m) \in Seq(S) /\ ToSet(Append(seq, m)) = ToSet(seq) \cup {m}
<1>1. /\ Append(seq, m) \in Seq(S) /\ Len(seq) \in Nat
      /\ DOMAIN seq = 1 .. Len(seq) /\ DOMAIN Append(seq, m) = 1 .. Len(seq) + 1
      /\ \A i \in 1 .. Len(seq) : Append(seq, m)[i] = seq[i]
      /\ Append(seq, m)[Len(seq) + 1] = m
  OBVIOUS
<1>2. 1 .. Len(seq) + 1 = (1 .. Len(seq)) \cup {Len(seq) + 1}
  BY <1>1
<1> QED BY <1>1, <1>2 DEF ToSet

-----------------------------------------------------------------------------
(* What the loops compute, by induction on their rounds.                   *)

\* The indices of the first i materials that are of a kind.
OfKindUpTo(materials, kind, i) == {j \in 1 .. i : materials[j].kind = kind}

\* The vless loop pushes every uuid of the group and nothing else.
LEMMA UuidsPushed ==
    ASSUME NEW materials, NEW n \in Nat, DOMAIN materials = 1 .. n
    PROVE  FoldLeft(PushUuid, {}, materials) = {m \in ToSet(materials) : m.kind = "vless"}
<1>1. PICK after : /\ after[0] = {}
                   /\ \A i \in 1 .. n : after[i] = PushUuid(after[i - 1], materials[i])
                   /\ FoldLeft(PushUuid, {}, materials) = after[n]
  BY UuidLoop
<1> DEFINE PushedBy(i) == {materials[j] : j \in OfKindUpTo(materials, "vless", i)}
           T == {i \in Nat : i <= n => after[i] = PushedBy(i)}
<1>2. 0 \in T
  BY <1>1 DEF OfKindUpTo
<1>3. ASSUME NEW i \in Nat, i \in T PROVE i + 1 \in T
  <2> SUFFICES ASSUME i + 1 <= n PROVE after[i + 1] = PushedBy(i + 1)
    OBVIOUS
  <2>1. i + 1 \in 1 .. n /\ after[i] = PushedBy(i)
    BY <1>3
  <2>2. after[i + 1] = PushUuid(after[i], materials[i + 1])
    BY <1>1
  <2>3. 1 .. i + 1 = (1 .. i) \cup {i + 1}
    OBVIOUS
  <2> QED
    BY <2>1, <2>2, <2>3 DEF PushUuid, OfKindUpTo
<1>4. \A i \in Nat : i \in T
  <2> HIDE DEF T
  <2> QED BY <1>2, <1>3, Uuids!Induction
<1> QED
  BY <1>1, <1>4 DEF OfKindUpTo, ToSet

\* The trojan loop pushes every password of its kind.
LEMMA PasswordsPushed ==
    ASSUME NEW materials, NEW n \in Nat, DOMAIN materials = 1 .. n
    PROVE  FoldLeft(PushPassword, {}, materials) = {m \in ToSet(materials) : m.kind = "trojan"}
<1>1. PICK after : /\ after[0] = {}
                   /\ \A i \in 1 .. n : after[i] = PushPassword(after[i - 1], materials[i])
                   /\ FoldLeft(PushPassword, {}, materials) = after[n]
  BY PasswordLoop
<1> DEFINE PushedBy(i) == {materials[j] : j \in OfKindUpTo(materials, "trojan", i)}
           T == {i \in Nat : i <= n => after[i] = PushedBy(i)}
<1>2. 0 \in T
  BY <1>1 DEF OfKindUpTo
<1>3. ASSUME NEW i \in Nat, i \in T PROVE i + 1 \in T
  <2> SUFFICES ASSUME i + 1 <= n PROVE after[i + 1] = PushedBy(i + 1)
    OBVIOUS
  <2>1. i + 1 \in 1 .. n /\ after[i] = PushedBy(i)
    BY <1>3
  <2>2. after[i + 1] = PushPassword(after[i], materials[i + 1])
    BY <1>1
  <2>3. 1 .. i + 1 = (1 .. i) \cup {i + 1}
    OBVIOUS
  <2> QED
    BY <2>1, <2>2, <2>3 DEF PushPassword, OfKindUpTo
<1>4. \A i \in Nat : i \in T
  <2> HIDE DEF T
  <2> QED BY <1>2, <1>3, Passwords!Induction
<1> QED
  BY <1>1, <1>4 DEF OfKindUpTo, ToSet

\* What the shadowsocks loop has selected after i rounds: nothing while there was no
\* password, the first one while all had its method, two of them once one had not.
SelectedNone(selected, materials, i) ==
    selected = <<>> /\ OfKindUpTo(materials, "shadowsocks", i) = {}

SelectedFirst(selected, materials, i) ==
    \E j \in OfKindUpTo(materials, "shadowsocks", i) :
        /\ selected = <<materials[j]>>
        /\ \A k \in OfKindUpTo(materials, "shadowsocks", i) :
               k >= j /\ materials[k].method = materials[j].method

SelectedTwo(selected, materials, i) ==
    \E j, k \in OfKindUpTo(materials, "shadowsocks", i) :
        selected = <<materials[j], materials[k]>>

\* One round of the loop.
LEMMA SelectRound ==
    ASSUME NEW materials, NEW i \in Nat, NEW selected,
           \/ SelectedNone(selected, materials, i)
           \/ SelectedFirst(selected, materials, i)
           \/ SelectedTwo(selected, materials, i)
    PROVE  LET next == Select(selected, materials[i + 1]) IN
           \/ SelectedNone(next, materials, i + 1)
           \/ SelectedFirst(next, materials, i + 1)
           \/ SelectedTwo(next, materials, i + 1)
<1> DEFINE m == materials[i + 1]
           next == Select(selected, m)
           Ss(k) == OfKindUpTo(materials, "shadowsocks", k)
<1>1. /\ \A k \in Ss(i) : k \in Ss(i + 1) /\ k \in 1 .. i
      /\ m.kind = "shadowsocks" => Ss(i + 1) = Ss(i) \cup {i + 1}
      /\ m.kind # "shadowsocks" => Ss(i + 1) = Ss(i)
  <2>1. 1 .. i + 1 = (1 .. i) \cup {i + 1}
    OBVIOUS
  <2> QED BY <2>1 DEF OfKindUpTo
<1>2. CASE m.kind # "shadowsocks"
  <2>1. next = selected
    BY <1>2 DEF Select
  <2> QED
    BY <1>1, <1>2, <2>1 DEF SelectedNone, SelectedFirst, SelectedTwo
<1>3. CASE m.kind = "shadowsocks" /\ SelectedNone(selected, materials, i)
  <2>1. next = <<m>> /\ Ss(i + 1) = {i + 1}
    BY <1>1, <1>3 DEF Select, SelectedNone
  <2>2. SelectedFirst(next, materials, i + 1)
    BY <2>1 DEF SelectedFirst
  <2> QED BY <2>2
<1>4. CASE m.kind = "shadowsocks" /\ SelectedFirst(selected, materials, i)
  <2>1. PICK j \in Ss(i) :
            /\ selected = <<materials[j]>>
            /\ \A k \in Ss(i) : k >= j /\ materials[k].method = materials[j].method
    BY <1>4 DEF SelectedFirst
  <2>2. selected # <<>> /\ Len(selected) = 1 /\ selected[1] = materials[j]
    BY <2>1
  <2>3. CASE m.method = materials[j].method
    <3>1. next = selected
      BY <2>2, <2>3 DEF Select
    <3>2. SelectedFirst(next, materials, i + 1)
      BY <1>1, <1>4, <2>1, <2>3, <3>1 DEF SelectedFirst
    <3> QED BY <3>2
  <2>4. CASE m.method # materials[j].method
    <3>1. next = Append(selected, m)
      BY <1>4, <2>2, <2>4 DEF Select
    <3>2. next = <<materials[j], m>>
      BY <2>1, <3>1
    <3>3. SelectedTwo(next, materials, i + 1)
      BY <1>1, <1>4, <3>2 DEF SelectedTwo
    <3> QED BY <3>3
  <2> QED BY <2>3, <2>4
<1>5. CASE m.kind = "shadowsocks" /\ SelectedTwo(selected, materials, i)
  <2>1. PICK j \in Ss(i), k \in Ss(i) : selected = <<materials[j], materials[k]>>
    BY <1>5 DEF SelectedTwo
  <2>2. selected # <<>> /\ Len(selected) = 2
    BY <2>1
  <2>3. next = selected
    BY <2>2 DEF Select
  <2>4. SelectedTwo(next, materials, i + 1)
    BY <1>1, <2>1, <2>3 DEF SelectedTwo
  <2> QED BY <2>4
<1> QED
  BY <1>2, <1>3, <1>4, <1>5

\* What the shadowsocks loop ends with.
LEMMA SelectedAtEnd ==
    ASSUME NEW materials, NEW n \in Nat, DOMAIN materials = 1 .. n
    PROVE  LET selected == FoldLeft(Select, <<>>, materials) IN
           \/ SelectedNone(selected, materials, n)
           \/ SelectedFirst(selected, materials, n)
           \/ SelectedTwo(selected, materials, n)
<1>1. PICK after : /\ after[0] = <<>>
                   /\ \A i \in 1 .. n : after[i] = Select(after[i - 1], materials[i])
                   /\ FoldLeft(Select, <<>>, materials) = after[n]
  BY SelectLoop
<1> DEFINE T == {i \in Nat : i <= n => \/ SelectedNone(after[i], materials, i)
                                       \/ SelectedFirst(after[i], materials, i)
                                       \/ SelectedTwo(after[i], materials, i)}
<1>2. 0 \in T
  BY <1>1 DEF SelectedNone, OfKindUpTo
<1>3. ASSUME NEW i \in Nat, i \in T PROVE i + 1 \in T
  <2> SUFFICES ASSUME i + 1 <= n
               PROVE  \/ SelectedNone(after[i + 1], materials, i + 1)
                      \/ SelectedFirst(after[i + 1], materials, i + 1)
                      \/ SelectedTwo(after[i + 1], materials, i + 1)
    OBVIOUS
  <2>1. i + 1 \in 1 .. n /\ after[i + 1] = Select(after[i], materials[i + 1])
    BY <1>1
  <2>2. \/ SelectedNone(after[i], materials, i)
        \/ SelectedFirst(after[i], materials, i)
        \/ SelectedTwo(after[i], materials, i)
    BY <1>3
  <2> QED
    BY <2>1, <2>2, SelectRound
<1>4. \A i \in Nat : i \in T
  <2> HIDE DEF T
  <2> QED BY <1>2, <1>3, Selection!Induction
<1> QED
  BY <1>1, <1>4

\* The materials of the first n rows that are joined.
JoinedMaterials(found, n) == {found[j].material : j \in {k \in 1 .. n : found[k].joined}}

\* credentials_for_profile of Postgres finds the materials of the rows that are joined.
LEMMA JoinedRows ==
    ASSUME NEW S, NEW found, NEW n \in Nat, DOMAIN found = 1 .. n,
           \A j \in 1 .. n : found[j].joined => found[j].material \in S
    PROVE  /\ FoldLeft(JoinRow, <<>>, found) \in Seq(S)
           /\ ToSet(FoldLeft(JoinRow, <<>>, found)) = JoinedMaterials(found, n)
<1>1. PICK after : /\ after[0] = <<>>
                   /\ \A i \in 1 .. n : after[i] = JoinRow(after[i - 1], found[i])
                   /\ FoldLeft(JoinRow, <<>>, found) = after[n]
  BY JoinLoop
<1> DEFINE Joined(i) == JoinedMaterials(found, i)
           T == {i \in Nat : i <= n => after[i] \in Seq(S) /\ ToSet(after[i]) = Joined(i)}
<1>2. 0 \in T
  <2>1. after[0] \in Seq(S) /\ DOMAIN after[0] = {} /\ 1 .. 0 = {}
    BY <1>1
  <2>2. ToSet(after[0]) = {} /\ Joined(0) = {}
    BY <2>1 DEF ToSet, JoinedMaterials
  <2> QED BY <2>1, <2>2
<1>3. ASSUME NEW i \in Nat, i \in T PROVE i + 1 \in T
  <2> SUFFICES ASSUME i + 1 <= n
               PROVE  after[i + 1] \in Seq(S) /\ ToSet(after[i + 1]) = Joined(i + 1)
    OBVIOUS
  <2>1. i + 1 \in 1 .. n /\ after[i] \in Seq(S) /\ ToSet(after[i]) = Joined(i)
    BY <1>3
  <2>2. after[i + 1] = JoinRow(after[i], found[i + 1])
    BY <1>1, <2>1
  <2>3. 1 .. i + 1 = (1 .. i) \cup {i + 1}
    OBVIOUS
  <2>4. CASE found[i + 1].joined
    <3> DEFINE m == found[i + 1].material
    <3>1. m \in S /\ after[i + 1] = Append(after[i], m)
      BY <2>1, <2>2, <2>4 DEF JoinRow
    <3>2. Joined(i + 1) = Joined(i) \cup {m}
      BY <2>3, <2>4 DEF JoinedMaterials
    <3>3. after[i + 1] \in Seq(S) /\ ToSet(after[i + 1]) = ToSet(after[i]) \cup {m}
      BY <2>1, <3>1, ToSetOfAppend
    <3> QED BY <2>1, <3>2, <3>3
  <2>5. CASE ~found[i + 1].joined
    <3>1. after[i + 1] = after[i]
      BY <2>2, <2>5 DEF JoinRow
    <3>2. Joined(i + 1) = Joined(i)
      BY <2>3, <2>5 DEF JoinedMaterials
    <3> QED BY <2>1, <3>1, <3>2
  <2> QED BY <2>4, <2>5
<1>4. \A i \in Nat : i \in T
  <2> HIDE DEF T
  <2> QED BY <1>2, <1>3, Join!Induction
<1>5. after[n] \in Seq(S) /\ ToSet(after[n]) = Joined(n)
  <2>1. n \in T
    <3> HIDE DEF T
    <3> QED BY <1>4
  <2> HIDE DEF Joined
  <2> QED BY <2>1
<1> QED
  BY <1>1, <1>5

-----------------------------------------------------------------------------
(* compile_profile_to_xray: who a config admits.                           *)

\* A shadowsocks config, if there is one, holds the first password; all have its
\* method, and it fits the method.
LEMMA ShadowsocksIsEntitled ==
    ASSUME NEW S, NEW materials \in Seq(S),
           CompileShadowsocks(materials).protocol \notin Refusals
    PROVE  LET accepts == CompileShadowsocks(materials).accepts IN
           /\ accepts = FirstOf(materials, "shadowsocks") /\ accepts # {}
           /\ OneMethod(materials) /\ \A m \in accepts : ValidPsk(m)
<1> DEFINE n == Len(materials)
           selected == FoldLeft(Select, <<>>, materials)
           Ss == OfKindUpTo(materials, "shadowsocks", n)
<1>1. n \in Nat /\ DOMAIN materials = 1 .. n
  OBVIOUS
<1>2. \/ SelectedNone(selected, materials, n)
      \/ SelectedFirst(selected, materials, n)
      \/ SelectedTwo(selected, materials, n)
  BY <1>1, SelectedAtEnd
<1>3. CompileShadowsocks(materials) =
          CASE Len(selected) = 0 -> Refused("MissingCredential")
            [] Len(selected) = 2 -> Refused("MixedShadowsocksMethods")
            [] Len(selected) = 1 /\ ~ValidPsk(selected[1]) -> Refused("InvalidShadowsocks2022Psk")
            [] OTHER -> Config("shadowsocks", {selected[1]})
  BY DEF CompileShadowsocks
<1> HIDE DEF selected, n
<1>4. ~SelectedNone(selected, materials, n)
  <2> SUFFICES ASSUME Len(selected) = 0 PROVE FALSE
    BY DEF SelectedNone
  <2> QED BY <1>3 DEF Refused, Refusals
<1>5. ~SelectedTwo(selected, materials, n)
  <2> SUFFICES ASSUME Len(selected) = 2 PROVE FALSE
    BY DEF SelectedTwo
  <2> QED BY <1>3 DEF Refused, Refusals
<1>6. PICK j \in Ss :
          /\ selected = <<materials[j]>>
          /\ \A k \in Ss : k >= j /\ materials[k].method = materials[j].method
  BY <1>2, <1>4, <1>5 DEF SelectedFirst
<1>7. Len(selected) = 1 /\ selected[1] = materials[j]
  BY <1>6
<1>8. ValidPsk(materials[j])
  <2> SUFFICES ASSUME ~ValidPsk(materials[j]) PROVE FALSE
    OBVIOUS
  <2>1. CompileShadowsocks(materials) = Refused("InvalidShadowsocks2022Psk")
    BY <1>3, <1>7
  <2> QED BY <2>1 DEF Refused, Refusals
<1>9. CompileShadowsocks(materials).accepts = {materials[j]}
  BY <1>3, <1>7, <1>8 DEF Config
<1>10. FirstOf(materials, "shadowsocks") = {materials[j]}
  <2>1. j \in 1 .. n /\ materials[j].kind = "shadowsocks"
    BY DEF OfKindUpTo
  <2>2. \A k \in 1 .. j - 1 : materials[k].kind # "shadowsocks"
    BY <1>1, <1>6, <2>1 DEF OfKindUpTo
  <2>3. ASSUME NEW k \in DOMAIN materials, materials[k].kind = "shadowsocks",
               \A i \in 1 .. k - 1 : materials[i].kind # "shadowsocks"
        PROVE  k = j
    <3>1. k \in Ss /\ k >= j
      BY <1>1, <1>6, <2>3 DEF OfKindUpTo
    <3>2. j \notin 1 .. k - 1
      BY <2>1, <2>3
    <3> QED BY <1>1, <2>1, <3>1, <3>2
  <2> QED BY <1>1, <2>1, <2>2, <2>3 DEF FirstOf
<1>11. OneMethod(materials)
  <2>1. ASSUME NEW m \in ToSet(materials), m.kind = "shadowsocks"
        PROVE  m.method = materials[j].method
    <3>1. PICK k \in DOMAIN materials : m = materials[k]
      BY DEF ToSet
    <3> QED BY <1>1, <1>6, <2>1, <3>1 DEF OfKindUpTo
  <2> QED BY <2>1 DEF OneMethod
<1> QED
  BY <1>8, <1>9, <1>10, <1>11

\* What compile_profile_to_xray puts into a config that it does not refuse.
LEMMA CompileIsEntitled ==
    ASSUME NEW protocol \in Protocols, NEW S, NEW materials \in Seq(S), NEW version,
           Compile(protocol, materials, version).protocol \notin Refusals
    PROVE  LET accepts == Compile(protocol, materials, version).accepts IN
           /\ accepts = Entitled(protocol, materials)
           /\ protocol # "vless" => accepts # {}
           /\ protocol = "shadowsocks" => OneMethod(materials) /\ \A m \in accepts : ValidPsk(m)
<1>1. Len(materials) \in Nat /\ DOMAIN materials = 1 .. Len(materials)
  OBVIOUS
<1>2. CASE protocol = "vless"
  <2>1. Compile(protocol, materials, version).accepts = FoldLeft(PushUuid, {}, materials)
    BY <1>2 DEF Compile, CompileVless, Config, Refused, Refusals
  <2>2. FoldLeft(PushUuid, {}, materials) = {m \in ToSet(materials) : m.kind = "vless"}
    BY <1>1, UuidsPushed
  <2> QED BY <1>2, <2>1, <2>2 DEF Entitled
<1>3. CASE protocol = "shadowsocks"
  <2>1. Compile(protocol, materials, version) = CompileShadowsocks(materials)
    BY <1>3 DEF Compile
  <2> QED BY <1>3, <2>1, ShadowsocksIsEntitled DEF Entitled
<1>4. CASE protocol = "trojan"
  <2> DEFINE pushed == FoldLeft(PushPassword, {}, materials)
  <2>1. Compile(protocol, materials, version) =
            IF pushed = {} THEN Refused("MissingCredential") ELSE Config("trojan", pushed)
    BY <1>4 DEF Compile, CompileTrojan
  <2>2. pushed = {m \in ToSet(materials) : m.kind = "trojan"}
    BY <1>1, PasswordsPushed
  <2> HIDE DEF pushed
  <2>3. pushed # {} /\ Compile(protocol, materials, version).accepts = pushed
    BY <2>1 DEF Config, Refused, Refusals
  <2> QED BY <1>4, <2>2, <2>3 DEF Entitled
<1> QED
  BY <1>2, <1>3, <1>4 DEF Protocols

\* A config admits nobody who is not in the group.
LEMMA EntitledInGroup ==
    ASSUME NEW protocol, NEW materials
    PROVE  Entitled(protocol, materials) \subseteq ToSet(materials)
  BY DEF Entitled, FirstOf, ToSet

-----------------------------------------------------------------------------
(* The second invariant: the tables, and what the configs were made from.  *)

TableShape ==
    /\ store \in Stores
    /\ named \subseteq Profiles
    /\ list \in [Profiles -> Seq(Credential)]
    /\ rows \in Seq(Clients)
    /\ secret \in [Clients -> Materials \cup {None}]
    /\ joined \in [Profiles -> SUBSET Clients]
    /\ replaced \subseteq Materials
    /\ {creates, clients} \subseteq Nat

JoinHoldsClient ==
    \A w \in Workers : handler[w].op = "join" => handler[w].held \in Clients

\* Postgres writes a client's secret before its credentials row.
RowsHaveSecrets == \A i \in DOMAIN rows : secret[rows[i]] # None

ConfigRecords ==
    compiled \in [Profiles -> [protocol : Protocols, accepts : SUBSET Materials,
                               from : Seq(Materials), version : Versions] \cup {None}]

\* The materials that credentials_for_profile returns, said without the join.
Linked(p) ==
    IF store = "memory" THEN {list[p][i].material : i \in DOMAIN list[p]}
    ELSE {secret[rows[i]] : i \in {j \in DOMAIN rows : rows[j] \in joined[p]}}

\* No material a config was compiled from is lost to the profile's subscription,
\* unless its secret has been overwritten.
FromIsLinked ==
    \A p \in Deployed : ToSet(compiled[p].from) \subseteq Linked(p) \cup replaced

LinkInv ==
    /\ TableShape
    /\ JoinHoldsClient
    /\ RowsHaveSecrets
    /\ ConfigRecords
    /\ ConfigIsEntitled
    /\ FromIsLinked

-----------------------------------------------------------------------------
(* Lemmas about the second invariant.                                      *)

\* credentials_for_profile returns the materials that are linked to the profile.
LEMMA MaterialsOfIsLinked ==
    ASSUME TableShape, RowsHaveSecrets, NEW p \in Profiles
    PROVE  MaterialsOf(p) \in Seq(Materials) /\ ToSet(MaterialsOf(p)) = Linked(p)
<1>1. CASE store = "memory"
  <2> DEFINE credentials == list[p]
             materials == [i \in DOMAIN credentials |-> credentials[i].material]
  <2>1. credentials \in Seq(Credential)
    BY DEF TableShape
  <2>2. Len(credentials) \in Nat /\ DOMAIN credentials = 1 .. Len(credentials)
    BY <2>1
  <2>3. \A i \in DOMAIN credentials : credentials[i].material \in Materials
    <3>1. \A i \in DOMAIN credentials : credentials[i] \in Credential
      BY <2>1
    <3> QED BY <3>1 DEF Credential
  <2>4. materials \in Seq(Materials)
    BY <2>2, <2>3
  <2>5. ToSet(materials) = {credentials[i].material : i \in DOMAIN credentials}
    BY DEF ToSet
  <2> QED BY <1>1, <2>4, <2>5 DEF MaterialsOf, Linked
<1>2. CASE store # "memory"
  <2> DEFINE found == [i \in DOMAIN rows |->
                         [joined |-> rows[i] \in joined[p], material |-> secret[rows[i]]]]
             n == Len(rows)
  <2>1. n \in Nat /\ DOMAIN rows = 1 .. n /\ DOMAIN found = 1 .. n
    BY DEF TableShape
  <2>2. \A i \in 1 .. n : rows[i] \in Clients /\ secret[rows[i]] \in Materials
    BY <2>1 DEF TableShape, RowsHaveSecrets
  <2>3. /\ \A j \in 1 .. n : found[j].joined <=> rows[j] \in joined[p]
        /\ \A j \in 1 .. n : found[j].material = secret[rows[j]]
    BY <2>1
  <2>4. MaterialsOf(p) = FoldLeft(JoinRow, <<>>, found)
    BY <1>2 DEF MaterialsOf
  <2> HIDE DEF found, n
  <2>5. \A j \in 1 .. n : found[j].joined => found[j].material \in Materials
    BY <2>2, <2>3
  <2>6. /\ FoldLeft(JoinRow, <<>>, found) \in Seq(Materials)
        /\ ToSet(FoldLeft(JoinRow, <<>>, found)) = JoinedMaterials(found, n)
    BY <2>1, <2>5, JoinedRows
  <2>7. JoinedMaterials(found, n) = Linked(p)
    BY <1>2, <2>1, <2>3 DEF Linked, JoinedMaterials
  <2> QED BY <2>4, <2>6, <2>7
<1> QED
  BY <1>1, <1>2

\* Configs that are not written stay what their materials entitle to.
LEMMA ConfigsKept ==
    ASSUME LinkInv, UNCHANGED compiled
    PROVE  ConfigRecords' /\ ConfigIsEntitled'
  BY DEF LinkInv, ConfigRecords, ConfigIsEntitled, Deployed

\* Configs stay linked while no link is lost that is not in replaced.
LEMMA LinksKept ==
    ASSUME LinkInv, UNCHANGED compiled, replaced \subseteq replaced',
           \A p \in Profiles : Linked(p) \subseteq Linked(p)' \cup replaced'
    PROVE  FromIsLinked'
<1> SUFFICES ASSUME NEW p \in Profiles, p \in Deployed
             PROVE  ToSet(compiled[p].from) \subseteq Linked(p)' \cup replaced'
  BY DEF FromIsLinked, Deployed
<1> QED BY DEF LinkInv, FromIsLinked

\* A step that leaves the tables alone leaves the links alone.
LEMMA SameLinks ==
    ASSUME UNCHANGED <<store, list, rows, secret, joined>>, NEW p \in Profiles
    PROVE  Linked(p)' = Linked(p)
  BY DEF Linked

\* It holds of the empty tables.
LEMMA InitLinkInv == Init => LinkInv
<1> SUFFICES ASSUME Init PROVE LinkInv
  OBVIOUS
<1>1. TableShape
  BY DEF Init, TableShape
<1>2. JoinHoldsClient
  BY ProfileAssumption DEF Init, Idle, JoinHoldsClient, Stages
<1>3. RowsHaveSecrets
  BY DEF Init, RowsHaveSecrets
<1>4. ConfigRecords /\ Deployed = {}
  BY DEF Init, ConfigRecords, Deployed
<1> QED BY <1>1, <1>2, <1>3, <1>4 DEF LinkInv, ConfigIsEntitled, FromIsLinked

\* A step of a handler that writes only the tables of profiles, or none.
LEMMA HandlerOnly ==
    ASSUME CompileInv, LinkInv, NEW w \in Workers,
           UNCHANGED <<store, list, rows, secret, joined, compiled, replaced, clients>>,
           named' \subseteq Profiles, creates' \in Nat,
           \/ Ends(w)
           \/ \E stage \in {"version", "compile"}, p \in Profiles, held \in Protocols :
                  Waits(w, stage, p, held)
    PROVE  LinkInv'
<1>1. TableShape'
  BY DEF LinkInv, TableShape
<1>2. JoinHoldsClient'
  <2>1. \A v \in Workers : v # w => handler'[v] = handler[v]
    BY DEF CompileInv, HandlerShape, Ends, Waits
  <2>2. handler'[w].op # "join"
    BY ProfileAssumption DEF CompileInv, HandlerShape, Ends, Waits, Idle, Stages
  <2> QED BY <2>1, <2>2 DEF LinkInv, JoinHoldsClient
<1>3. RowsHaveSecrets'
  BY DEF LinkInv, RowsHaveSecrets
<1>4. ConfigRecords' /\ ConfigIsEntitled'
  BY ConfigsKept
<1>5. FromIsLinked'
  BY SameLinks, LinksKept
<1> QED BY <1>1, <1>2, <1>3, <1>4, <1>5 DEF LinkInv

\* No step loses a link that it does not record as replaced.
LEMMA NextLinkInv == CompileInv /\ LinkInv /\ [Next]_vars => LinkInv'
<1> SUFFICES ASSUME CompileInv, LinkInv, [Next]_vars
             PROVE  LinkInv'
  OBVIOUS
<1> USE DEF LinkInv
<1>1. ASSUME NEW p \in Profiles, NEW k \in Protocols, CreateProfile(p, k)
      PROVE  LinkInv'
  <2>1. TableShape' /\ JoinHoldsClient' /\ RowsHaveSecrets'
    BY <1>1 DEF CreateProfile, TableShape, JoinHoldsClient, RowsHaveSecrets
  <2>2. FromIsLinked'
    BY <1>1, SameLinks, LinksKept DEF CreateProfile
  <2> QED BY <1>1, <2>1, <2>2, ConfigsKept DEF CreateProfile
<1>2. ASSUME NEW w \in Workers, NEW p \in Profiles, NEW k \in Protocols,
             NameProfile(w, p, k)
      PROVE  LinkInv'
  BY <1>2, HandlerOnly DEF NameProfile, TableShape
<1>3. ASSUME NEW w \in Workers, InsertVersion(w)
      PROVE  LinkInv'
  BY <1>3, HandlerOnly DEF InsertVersion, TableShape
<1>4. ASSUME NEW p \in Profiles, NEW c \in Clients, NEW m \in Materials,
             AddCredential(p, c, m)
      PROVE  LinkInv'
  <2> DEFINE credential == [id |-> c, material |-> m]
  <2>1. credential \in Credential
    BY DEF Credential
  <2>2. /\ list' = [list EXCEPT ![p] = Append(list[p], credential)]
        /\ UNCHANGED <<store, named, rows, secret, joined, handler, compiled, replaced, creates>>
        /\ clients' = clients + 1 /\ store = "memory"
    BY <1>4 DEF AddCredential, Pushed
  <2> HIDE DEF credential
  <2>3. list' \in [Profiles -> Seq(Credential)]
    BY <2>1, <2>2 DEF TableShape
  <2>4. TableShape' /\ JoinHoldsClient' /\ RowsHaveSecrets'
    BY <2>2, <2>3 DEF TableShape, JoinHoldsClient, RowsHaveSecrets
  <2>5. ASSUME NEW q \in Profiles PROVE Linked(q) \subseteq Linked(q)'
    <3>1. /\ Linked(q) = {list[q][i].material : i \in DOMAIN list[q]}
          /\ Linked(q)' = {list'[q][i].material : i \in DOMAIN list'[q]}
      BY <2>2 DEF Linked
    <3>2. \A i \in DOMAIN list[q] : i \in DOMAIN list'[q] /\ list'[q][i] = list[q][i]
      <4>1. CASE q # p
        BY <2>2, <4>1 DEF TableShape
      <4>2. CASE q = p
        <5>1. list[p] \in Seq(Credential) /\ list'[p] = Append(list[p], credential)
          BY <2>2 DEF TableShape
        <5> QED BY <2>1, <4>2, <5>1
      <4> QED BY <4>1, <4>2
    <3> QED BY <3>1, <3>2
  <2>6. FromIsLinked'
    BY <2>2, <2>5, LinksKept
  <2> QED BY <2>2, <2>4, <2>6, ConfigsKept
<1>5. ASSUME NEW w \in Workers, NEW p \in Profiles, NEW c \in Clients, NEW m \in Materials,
             UpsertSecret(w, p, c, m)
      PROVE  LinkInv'
  <2>1. /\ store = "postgres" /\ Waits(w, "join", p, c) /\ clients' = clients + 1
        /\ secret' = [secret EXCEPT ![c] = m]
        /\ replaced' = replaced \cup ({secret[c]} \ {None, m})
        /\ rows' = IF c \in ToSet(rows) THEN rows ELSE Append(rows, c)
        /\ UNCHANGED <<store, named, list, joined, compiled, creates>>
    BY <1>5 DEF UpsertSecret
  <2>2. m # None
    BY ProfileAssumption
  <2>3. /\ rows' \in Seq(Clients)
        /\ \A i \in DOMAIN rows : i \in DOMAIN rows' /\ rows'[i] = rows[i]
        /\ \A i \in DOMAIN rows' : i \in DOMAIN rows \/ rows'[i] = c
    <3>1. rows \in Seq(Clients)
      BY DEF TableShape
    <3>2. CASE c \in ToSet(rows)
      BY <2>1, <3>1, <3>2
    <3>3. CASE c \notin ToSet(rows)
      <4>1. rows' = Append(rows, c)
        BY <2>1, <3>3
      <4> QED BY <3>1, <4>1
    <3> QED BY <3>2, <3>3
  <2>4. secret' \in [Clients -> Materials \cup {None}] /\ secret'[c] = m
        /\ \A d \in Clients : d # c => secret'[d] = secret[d]
    BY <2>1 DEF TableShape
  <2>5. TableShape'
    <3>1. replaced' \subseteq Materials
      BY <2>1 DEF TableShape
    <3> QED BY <2>1, <2>3, <2>4, <3>1 DEF TableShape
  <2>6. JoinHoldsClient'
    BY <2>1 DEF Waits, JoinHoldsClient, CompileInv, HandlerShape
  <2>7. RowsHaveSecrets'
    <3> SUFFICES ASSUME NEW i \in DOMAIN rows' PROVE secret'[rows'[i]] # None
      BY DEF RowsHaveSecrets
    <3>1. rows'[i] \in Clients
      BY <2>3
    <3>2. CASE rows'[i] = c
      BY <2>2, <2>4, <3>2
    <3>3. CASE rows'[i] # c
      BY <2>3, <2>4, <3>1, <3>3 DEF RowsHaveSecrets
    <3> QED BY <3>2, <3>3
  <2>8. ASSUME NEW q \in Profiles PROVE Linked(q) \subseteq Linked(q)' \cup replaced'
    <3>1. /\ Linked(q) = {secret[rows[i]] : i \in {j \in DOMAIN rows : rows[j] \in joined[q]}}
          /\ Linked(q)' = {secret'[rows'[i]] : i \in {j \in DOMAIN rows' : rows'[j] \in joined[q]}}
      BY <2>1 DEF Linked
    <3>2. ASSUME NEW i \in DOMAIN rows, rows[i] \in joined[q]
          PROVE  secret[rows[i]] \in Linked(q)' \cup replaced'
      <4>1. /\ i \in DOMAIN rows' /\ rows'[i] = rows[i] /\ rows[i] \in Clients
            /\ secret'[rows[i]] \in Linked(q)' /\ secret[rows[i]] # None
        BY <2>3, <3>1, <3>2 DEF TableShape, RowsHaveSecrets
      <4>2. CASE rows[i] = c
        BY <2>1, <2>4, <4>1, <4>2
      <4>3. CASE rows[i] # c
        BY <2>4, <4>1, <4>3
      <4> QED BY <4>2, <4>3
    <3> QED BY <3>1, <3>2
  <2>9. FromIsLinked'
    BY <2>1, <2>8, LinksKept
  <2> QED BY <2>1, <2>5, <2>6, <2>7, <2>9, ConfigsKept
<1>6. ASSUME NEW w \in Workers, JoinProfile(w)
      PROVE  LinkInv'
  <2> DEFINE p == handler[w].profile
             c == handler[w].held
  <2>1. /\ joined' = [joined EXCEPT ![p] = joined[p] \cup {c}] /\ Ends(w)
        /\ UNCHANGED <<store, named, list, rows, secret, compiled, replaced, creates, clients>>
    BY <1>6 DEF JoinProfile
  <2>2. p \in Profiles /\ c \in Clients
    BY <1>6, ProfileAssumption DEF JoinProfile, JoinHoldsClient, CompileInv, HoldsForStage, Stages
  <2> HIDE DEF p, c
  <2>3. /\ joined' \in [Profiles -> SUBSET Clients]
        /\ \A q \in Profiles : joined[q] \subseteq joined'[q]
    BY <2>1, <2>2 DEF TableShape
  <2>4. TableShape' /\ RowsHaveSecrets'
    BY <2>1, <2>3 DEF TableShape, RowsHaveSecrets
  <2>5. JoinHoldsClient'
    BY <2>1, ProfileAssumption
    DEF Ends, Idle, JoinHoldsClient, CompileInv, HandlerShape, Stages
  <2>6. \A q \in Profiles : Linked(q) \subseteq Linked(q)'
    BY <2>1, <2>3 DEF Linked
  <2>7. FromIsLinked'
    BY <2>1, <2>6, LinksKept
  <2> QED BY <2>1, <2>4, <2>5, <2>7, ConfigsKept
<1>7. ASSUME NEW w \in Workers, NEW p \in Profiles, ReadProfile(w, p)
      PROVE  LinkInv'
  <2>1. profile[p] \in Protocols
    BY <1>7 DEF ReadProfile, CompileInv, ProfileShape
  <2> QED
    BY <1>7, <2>1, HandlerOnly DEF ReadProfile, tableVars, TableShape
<1>8. ASSUME NEW w \in Workers, NEW v \in Versions, CompileProfile(w, v)
      PROVE  LinkInv'
  <2> DEFINE p == handler[w].profile
             k == handler[w].held
             materials == MaterialsOf(p)
             config == Compile(k, materials, v)
             result == [protocol |-> config.protocol, accepts |-> config.accepts,
                        from |-> materials, version |-> v]
  <2>1. p \in Profiles /\ k \in Protocols
    BY <1>8, ProfileAssumption DEF CompileProfile, CompileInv, HoldsForStage, Stages
  <2>2. /\ Ends(w)
        /\ UNCHANGED <<store, profile, named, list, rows, secret, joined, replaced,
                       creates, clients>>
    BY <1>8 DEF CompileProfile, tableVars
  <2>3. CASE UNCHANGED compiled
    BY <2>2, <2>3, HandlerOnly DEF TableShape
  <2>4. CASE /\ config.protocol \notin Refusals
             /\ compiled' = [compiled EXCEPT ![p] = result]
    <3>1. materials \in Seq(Materials) /\ ToSet(materials) = Linked(p)
      BY <2>1, MaterialsOfIsLinked
    <3>2. config.protocol = k
      BY <2>1, <2>4, CompileKeepsProtocol
    <3> HIDE DEF materials
    <3>3. /\ config.accepts = Entitled(k, materials)
          /\ k # "vless" => config.accepts # {}
          /\ k = "shadowsocks" => OneMethod(materials) /\ \A m \in config.accepts : ValidPsk(m)
      BY <2>1, <2>4, <3>1, CompileIsEntitled
    <3>4. config.accepts \subseteq Materials
      <4>1. ToSet(materials) \subseteq Materials
        BY <3>1 DEF ToSet
      <4> QED BY <3>3, <4>1, EntitledInGroup
    <3> HIDE DEF p, k, config
    <3>5. result \in [protocol : Protocols, accepts : SUBSET Materials,
                      from : Seq(Materials), version : Versions]
      BY <2>1, <3>1, <3>2, <3>4
    <3>6. /\ result.accepts = Entitled(result.protocol, result.from)
          /\ result.protocol # "vless" => result.accepts # {}
          /\ result.protocol = "shadowsocks" =>
                 OneMethod(result.from) /\ \A m \in result.accepts : ValidPsk(m)
      BY <3>2, <3>3
    <3>7. ToSet(result.from) = Linked(p)
      BY <3>1
    <3> HIDE DEF result
    <3>8. /\ compiled'[p] = result
          /\ \A q \in Profiles : q # p => compiled'[q] = compiled[q]
      BY <2>1, <2>4 DEF ConfigRecords
    <3>9. ConfigRecords'
      BY <2>4, <3>5 DEF ConfigRecords
    <3>10. ConfigIsEntitled'
      BY <3>6, <3>8 DEF ConfigIsEntitled, Deployed
    <3>11. FromIsLinked'
      <4> SUFFICES ASSUME NEW q \in Profiles, compiled'[q] # None
                   PROVE  ToSet(compiled'[q].from) \subseteq Linked(q)' \cup replaced'
        BY DEF FromIsLinked, Deployed
      <4>1. Linked(q)' = Linked(q)
        BY <2>2, SameLinks
      <4>2. CASE q = p
        BY <3>7, <3>8, <4>1, <4>2
      <4>3. CASE q # p
        BY <2>2, <3>8, <4>1, <4>3 DEF FromIsLinked, Deployed
      <4> QED BY <4>2, <4>3
    <3>12. TableShape' /\ RowsHaveSecrets'
      BY <2>2 DEF TableShape, RowsHaveSecrets
    <3>13. JoinHoldsClient'
      BY <2>2, ProfileAssumption
      DEF Ends, Idle, JoinHoldsClient, CompileInv, HandlerShape, Stages
    <3> QED BY <3>9, <3>10, <3>11, <3>12, <3>13
  <2> QED
    BY <1>8, <2>3, <2>4 DEF CompileProfile
<1>9. ASSUME NEW w \in Workers, Abort(w)
      PROVE  LinkInv'
  BY <1>9, HandlerOnly DEF Abort, tableVars, TableShape
<1>10. CASE UNCHANGED vars
  <2>1. TableShape' /\ JoinHoldsClient' /\ RowsHaveSecrets'
    BY <1>10 DEF vars, TableShape, JoinHoldsClient, RowsHaveSecrets
  <2>2. FromIsLinked'
    BY <1>10, SameLinks, LinksKept DEF vars
  <2> QED BY <1>10, <2>1, <2>2, ConfigsKept DEF vars
<1> QED
  BY <1>1, <1>2, <1>3, <1>4, <1>5, <1>6, <1>7, <1>8, <1>9, <1>10 DEF Next

\* The second invariant holds in every reachable state.
LEMMA AlwaysLinkInv == Spec => []LinkInv
  BY InitLinkInv, NextLinkInv, AlwaysCompileInv, PTL DEF Spec

-----------------------------------------------------------------------------
(* The theorems.                                                           *)

\* In Postgres compile_deployment deploys a config of the profile's own protocol,
\* whatever create_profile calls run between its awaits and after it.
THEOREM ConfigMatchesProfileInPostgresHolds == Spec => []ConfigMatchesProfileInPostgres
<1>1. CompileInv => ConfigMatchesProfileInPostgres
  BY DEF CompileInv
<1> QED
  BY <1>1, AlwaysCompileInv, PTL

\* supports_reality keeps REALITY from every node whose version, written in
\* numbers, is below 1.8, for versions of any length.
THEOREM RealityHasVersionHolds == Spec => []RealityHasVersion
<1>1. CompileInv => RealityHasVersion
  BY ProfileAssumption, SupportsRealityIsAtLeast18
  DEF CompileInv, ConfigShape, RealityHasVersion, Unparsed
<1> QED
  BY <1>1, AlwaysCompileInv, PTL

\* Every variable keeps its type: a config is a record of the profile's protocol, made
\* from credentials that the store returned.
THEOREM ProfileTypeCorrect == Spec => []TypeOK
<1>1. CompileInv /\ LinkInv => TypeOK
  BY DEF CompileInv, ProfileShape, HandlerShape, LinkInv, TableShape, ConfigRecords, TypeOK
<1> QED
  BY <1>1, AlwaysCompileInv, AlwaysLinkInv, PTL

\* compile_profile_to_xray admits exactly the clients of the profile's protocol,
\* and the first shadowsocks key only when all agree on its method, however many
\* credentials there are and in whichever order.
THEOREM ConfigIsEntitledHolds == Spec => []ConfigIsEntitled
<1>1. LinkInv => ConfigIsEntitled
  BY DEF LinkInv
<1> QED
  BY <1>1, AlwaysLinkInv, PTL

\* Whoever a config admits keeps the link in the profile's subscription, for both
\* stores, unless add_credential of Postgres has overwritten the secret.
THEOREM AdmittedHasLinkHolds == Spec => []AdmittedHasLink
<1>1. LinkInv => AdmittedHasLink
  <2> SUFFICES ASSUME LinkInv, NEW p \in Deployed
               PROVE  compiled[p].accepts \subseteq Links(MaterialsOf(p)) \cup replaced
    BY DEF AdmittedHasLink
  <2>1. compiled[p].accepts \subseteq ToSet(compiled[p].from)
    BY EntitledInGroup DEF LinkInv, ConfigIsEntitled
  <2>2. ToSet(MaterialsOf(p)) = Linked(p)
    BY MaterialsOfIsLinked DEF LinkInv, Deployed
  <2> QED
    BY <2>1, <2>2 DEF LinkInv, FromIsLinked, Links
<1> QED
  BY <1>1, AlwaysLinkInv, PTL
=============================================================================
