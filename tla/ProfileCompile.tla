--------------------------- MODULE ProfileCompile ---------------------------
(***************************************************************************)
(* Profiles and their clients being created while they are compiled, on    *)
(* both stores.  In memory a profile is overwritten and a client appended, *)
(* each under one lock.  In Postgres the first version of a profile stays, *)
(* a client's id is one row however many profiles it is in, and both are   *)
(* written in several statements without a transaction.                    *)
(*                                                                         *)
(* compile_deployment reads the profile and the credentials in different   *)
(* awaits.  The node's version, which NodeRegistry records, is an input.   *)
(* Nothing revokes a credential; quota and expiry are SubscriptionAccess.  *)
(***************************************************************************)
EXTENDS Naturals, Sequences, FiniteSets, SequencesExt, XrayCompiler

CONSTANTS
    Profiles,       \* profile ids
    Clients,        \* client ids, which are the credential ids
    Materials,      \* what clients are created with
    Versions,       \* xray versions nodes register with
    Workers,        \* bound: handlers waiting at once
    Stores,         \* which of "memory", "postgres"
    None,
    MaxCreates,     \* bound: create profile calls
    MaxClients      \* bound: create_client calls

\* What a waiting handler is about to do.
Stages == {"version", "join", "compile"}

ASSUME ProfileAssumption ==
    /\ None \notin Profiles \cup Clients \cup Protocols \cup Stages
    /\ None \notin Materials
    /\ Versions \subseteq Seq(Nat \cup {Unparsed})
    /\ Stores \subseteq {"memory", "postgres"}
    /\ {MaxCreates, MaxClients} \subseteq Nat

VARIABLES
    store,      \* the store the control plane was started with
    profile,    \* profiles with an IR (in Postgres: a profile_versions row)
    named,      \* ids in the Postgres profiles table
    list,       \* MemoryState.credentials_by_profile
    rows,       \* Postgres credentials, by created_at
    secret,     \* Postgres secrets: the client's material
    joined,     \* Postgres profile_credentials
    handler,    \* what a waiting handler holds
    compiled,   \* per profile: the last config, and what it was compiled from
    replaced,   \* history: materials a later create_client has overwritten
    creates, clients

tableVars == <<profile, named, list, rows, secret, joined>>
vars == <<store, profile, named, list, rows, secret, joined, handler, compiled,
          replaced, creates, clients>>

Credential == [id : Clients, material : Materials]

TypeOK ==
    /\ store \in Stores
    /\ profile \in [Profiles -> Protocols \cup {None}]
    /\ named \subseteq Profiles
    /\ list \in [Profiles -> Seq(Credential)]
    /\ rows \in Seq(Clients)
    /\ secret \in [Clients -> Materials \cup {None}]
    /\ joined \in [Profiles -> SUBSET Clients]
    /\ handler \in [Workers -> [op : Stages \cup {None},
                                profile : Profiles \cup {None},
                                held : Protocols \cup Clients \cup {None}]]
    /\ compiled \in [Profiles ->
           [protocol : Protocols, accepts : SUBSET Materials,
            from : Seq(Materials), version : Versions] \cup {None}]
    /\ replaced \subseteq Materials
    /\ {creates, clients} \subseteq Nat

Idle == [op |-> None, profile |-> None, held |-> None]

Init ==
    /\ store \in Stores
    /\ profile = [p \in Profiles |-> None]
    /\ named = {}
    /\ list = [p \in Profiles |-> <<>>]
    /\ rows = <<>>
    /\ secret = [c \in Clients |-> None]
    /\ joined = [p \in Profiles |-> {}]
    /\ handler = [w \in Workers |-> Idle]
    /\ compiled = [p \in Profiles |-> None]
    /\ replaced = {}
    /\ creates = 0
    /\ clients = 0

Waits(w, op, p, held) ==
    handler' = [handler EXCEPT ![w] = [op |-> op, profile |-> p, held |-> held]]

Ends(w) == handler' = [handler EXCEPT ![w] = Idle]

-----------------------------------------------------------------------------
(* create_vless_reality_profile, create_shadowsocks_profile and            *)
(* create_trojan_profile.                                                  *)

\* MemoryStore::create_profile inserts over what there is.
CreateProfile(p, protocol) ==
    /\ store = "memory"
    /\ creates < MaxCreates
    /\ creates' = creates + 1
    /\ profile' = [profile EXCEPT ![p] = protocol]
    /\ UNCHANGED <<store, named, list, rows, secret, joined, handler, compiled,
                   replaced, clients>>

\* PostgresStore::create_profile: the profiles row, ...
NameProfile(w, p, protocol) ==
    /\ store = "postgres"
    /\ handler[w] = Idle
    /\ creates < MaxCreates
    /\ creates' = creates + 1
    /\ named' = named \cup {p}
    /\ Waits(w, "version", p, protocol)
    /\ UNCHANGED <<store, profile, list, rows, secret, joined, compiled, replaced,
                   clients>>

\* Mutant: the version is updated on conflict.
MutantFirstVersionUpserts(p, protocol) == [profile EXCEPT ![p] = protocol]

\* ON CONFLICT (profile_id, version) DO NOTHING, and the version is always 1.
FirstVersion(p, protocol) ==
    [profile EXCEPT ![p] = IF @ = None THEN protocol ELSE @]

\* ... then its version.
InsertVersion(w) ==
    /\ handler[w].op = "version"
    /\ profile' = FirstVersion(handler[w].profile, handler[w].held)
    /\ Ends(w)
    /\ UNCHANGED <<store, named, list, rows, secret, joined, compiled, replaced,
                   creates, clients>>

-----------------------------------------------------------------------------
(* create_client up to add_credential.                                     *)

\* Mutant: a client of a known id takes the place of the old one.
MutantPushedReplaces(p, credential) ==
    [list EXCEPT ![p] =
        Append(SelectSeq(@, LAMBDA d : d.id # credential.id), credential)]

Pushed(p, credential) == [list EXCEPT ![p] = Append(@, credential)]

\* MemoryStore::add_credential: a known id is appended once more.
AddCredential(p, c, m) ==
    /\ store = "memory"
    /\ clients < MaxClients
    /\ clients' = clients + 1
    /\ profile[p] # None
    /\ list' = Pushed(p, [id |-> c, material |-> m])
    /\ UNCHANGED <<store, profile, named, rows, secret, joined, handler, compiled,
                   replaced, creates>>

\* PostgresStore::add_credential: the profile is looked up, the client's secret
\* is inserted or overwritten, its credentials row inserted if it is new, ...
UpsertSecret(w, p, c, m) ==
    /\ store = "postgres"
    /\ handler[w] = Idle
    /\ clients < MaxClients
    /\ clients' = clients + 1
    /\ p \in named
    /\ secret' = [secret EXCEPT ![c] = m]
    /\ replaced' = replaced \cup ({secret[c]} \ {None, m})
    /\ rows' = IF c \in ToSet(rows) THEN rows ELSE Append(rows, c)
    /\ Waits(w, "join", p, c)
    /\ UNCHANGED <<store, profile, named, list, joined, compiled, creates>>

\* ... and it is joined to the profile.
JoinProfile(w) ==
    /\ handler[w].op = "join"
    /\ joined' = [joined EXCEPT ![handler[w].profile] = @ \cup {handler[w].held}]
    /\ Ends(w)
    /\ UNCHANGED <<store, profile, named, list, rows, secret, compiled, replaced,
                   creates, clients>>

\* The JOIN of credentials_for_profile on one row of credentials.
JoinRow(found, row) == IF row.joined THEN Append(found, row.material) ELSE found

\* credentials_for_profile: in memory in the order they came, in Postgres by the
\* created_at of the client.
MaterialsOf(p) ==
    IF store = "memory"
    THEN [i \in DOMAIN list[p] |-> list[p][i].material]
    ELSE FoldLeft(JoinRow, <<>>,
                  [i \in DOMAIN rows |->
                      [joined |-> rows[i] \in joined[p], material |-> secret[rows[i]]]])

-----------------------------------------------------------------------------
(* compile_deployment up to the compiled config.                           *)

ReadProfile(w, p) ==
    /\ handler[w] = Idle
    /\ profile[p] # None
    /\ Waits(w, "compile", p, profile[p])
    /\ UNCHANGED <<store, compiled, replaced, creates, clients>>
    /\ UNCHANGED tableVars

\* The node and the credentials are read and the config compiled; an error of
\* the compiler is a 400.
CompileProfile(w, version) ==
    LET p == handler[w].profile
        materials == MaterialsOf(p)
        config == Compile(handler[w].held, materials, version) IN
    /\ handler[w].op = "compile"
    /\ \/ config.protocol \in Refusals /\ UNCHANGED compiled
       \/ /\ config.protocol \notin Refusals
          /\ compiled' = [compiled EXCEPT ![p] =
                 [protocol |-> config.protocol, accepts |-> config.accepts,
                  from |-> materials, version |-> version]]
    /\ Ends(w)
    /\ UNCHANGED <<store, replaced, creates, clients>>
    /\ UNCHANGED tableVars

\* The client disconnects: the handler is dropped at its await.
Abort(w) ==
    /\ handler[w] # Idle
    /\ Ends(w)
    /\ UNCHANGED <<store, compiled, replaced, creates, clients>>
    /\ UNCHANGED tableVars

Next ==
    \/ \E p \in Profiles, k \in Protocols : CreateProfile(p, k)
    \/ \E w \in Workers, p \in Profiles, k \in Protocols : NameProfile(w, p, k)
    \/ \E w \in Workers : InsertVersion(w)
    \/ \E p \in Profiles, c \in Clients, m \in Materials : AddCredential(p, c, m)
    \/ \E w \in Workers, p \in Profiles, c \in Clients, m \in Materials :
           UpsertSecret(w, p, c, m)
    \/ \E w \in Workers : JoinProfile(w)
    \/ \E w \in Workers, p \in Profiles : ReadProfile(w, p)
    \/ \E w \in Workers, v \in Versions : CompileProfile(w, v)
    \/ \E w \in Workers : Abort(w)

Spec == Init /\ [][Next]_vars

-----------------------------------------------------------------------------
(* What profiles, configs and subscriptions have to do with each other.    *)

Deployed == {p \in Profiles : compiled[p] # None}

\* A config admits exactly the clients of the profile's protocol; a shadowsocks
\* config the first of them, and then all have its method and its key fits
\* the method; neither it nor a trojan config admits nobody (compile_profile_to_xray).
ConfigIsEntitled ==
    \A p \in Deployed :
        LET k == compiled[p] IN
        /\ k.accepts = Entitled(k.protocol, k.from)
        /\ k.protocol # "vless" => k.accepts # {}
        /\ k.protocol = "shadowsocks" =>
               OneMethod(k.from) /\ \A m \in k.accepts : ValidPsk(m)

\* No REALITY config is compiled for a node whose version, written in numbers,
\* is below 1.8 (supports_reality).
RealityHasVersion ==
    \A p \in Deployed :
        compiled[p].protocol = "vless" /\ WellFormed(compiled[p].version)
            => AtLeast18(compiled[p].version)

\* Whoever a config admits still has a link in the profile's subscription, however
\* the profile and its clients have changed since, unless Postgres has overwritten
\* the secret for a client created again (also in another profile).
AdmittedHasLink ==
    \A p \in Deployed :
        compiled[p].accepts \subseteq Links(MaterialsOf(p)) \cup replaced

\* In Postgres the config of a profile is of the profile's protocol, although the
\* profile is read before the credentials and may be created again in between.
ConfigMatchesProfileInPostgres ==
    store = "postgres" => \A p \in Deployed : compiled[p].protocol = profile[p]

=============================================================================
