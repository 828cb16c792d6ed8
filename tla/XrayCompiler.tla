---------------------------- MODULE XrayCompiler ----------------------------
(***************************************************************************)
(* compile_profile_to_xray and generate_subscription_artifact as           *)
(* operators.  A profile is the one inbound the API creates: its protocol, *)
(* with REALITY for vless, TLS for trojan and no transport security for    *)
(* shadowsocks, and the one client group that every client is in.  A       *)
(* config is reduced to what decides who may connect.                      *)
(***************************************************************************)
EXTENDS Integers, Sequences, SequencesExt

CONSTANT
    PskBytes    \* per password: the bytes it decodes to, 0 when it is not base64

Protocols == {"vless", "shadowsocks", "trojan"}

\* CredentialMaterial; the method is that of Shadowsocks.
Material(kind, method, secret) == [kind |-> kind, method |-> method, secret |-> secret]

\* A part of a version that parse::<u64> refuses.
Unparsed == -1

\* parts.next(): the place of the first number after the given place, just past
\* the end when there is none (filter_map drops the parts that are not numbers).
NextNumber(version, place) ==
    LET numbers == {i \in DOMAIN version : i > place /\ version[i] # Unparsed} IN
    IF numbers = {} THEN Len(version) + 1
    ELSE CHOOSE i \in numbers : \A j \in numbers : i <= j

\* unwrap_or(0)
NumberAt(version, place) == IF place \in DOMAIN version THEN version[place] ELSE 0

\* Mutant: any version 1 will do.
MutantSupportsRealityMajorOnly(version) == NumberAt(version, NextNumber(version, 0)) >= 1

\* supports_reality: the first two numbers are taken for major and minor.
SupportsReality(version) ==
    LET first == NextNumber(version, 0)
        major == NumberAt(version, first)
        minor == NumberAt(version, NextNumber(version, first)) IN
    major > 1 \/ (major = 1 /\ minor >= 8)

\* validate_shadowsocks_method_password
ValidPsk(m) ==
    CASE m.method = "2022-blake3-aes-128-gcm" -> PskBytes[m.secret] = 16
      [] m.method = "2022-blake3-aes-256-gcm" -> PskBytes[m.secret] = 32
      [] OTHER -> TRUE

Config(protocol, accepts) == [protocol |-> protocol, accepts |-> accepts]
Refused(reason) == [protocol |-> reason, accepts |-> {}]
Refusals == {"UnsupportedReality", "MissingCredential", "MixedShadowsocksMethods",
             "InvalidShadowsocks2022Psk"}

\* One round of the loop over the credentials: clients.push for a uuid.
PushUuid(clients, m) == IF m.kind = "vless" THEN clients \cup {m} ELSE clients

\* All uuids of the group, none if there are none; REALITY needs the version.
CompileVless(materials, version) ==
    IF SupportsReality(version)
    THEN Config("vless", FoldLeft(PushUuid, {}, materials))
    ELSE Refused("UnsupportedReality")

\* Mutant: the methods are not compared.
MutantSelectAny(selected, m) ==
    IF m.kind = "shadowsocks" /\ selected = <<>> THEN <<m>> ELSE selected

\* One round of the loop: the first password is selected, and a later one of another
\* method ends the loop (two elements stand for that error).
Select(selected, m) ==
    CASE m.kind = "shadowsocks" /\ selected = <<>> -> <<m>>
      [] /\ m.kind = "shadowsocks"
         /\ Len(selected) = 1 /\ selected[1].method # m.method -> Append(selected, m)
      [] OTHER -> selected

\* An inbound has one method and one password: the first one is in the config.
CompileShadowsocks(materials) ==
    LET selected == FoldLeft(Select, <<>>, materials) IN
    CASE Len(selected) = 0 -> Refused("MissingCredential")
      [] Len(selected) = 2 -> Refused("MixedShadowsocksMethods")
      [] Len(selected) = 1 /\ ~ValidPsk(selected[1]) -> Refused("InvalidShadowsocks2022Psk")
      [] OTHER -> Config("shadowsocks", {selected[1]})

\* One round of the loop: clients.push for a password.
PushPassword(clients, m) == IF m.kind = "trojan" THEN clients \cup {m} ELSE clients

CompileTrojan(materials) ==
    LET clients == FoldLeft(PushPassword, {}, materials) IN
    IF clients = {} THEN Refused("MissingCredential") ELSE Config("trojan", clients)

Compile(protocol, materials, version) ==
    CASE protocol = "vless" -> CompileVless(materials, version)
      [] protocol = "shadowsocks" -> CompileShadowsocks(materials)
      [] protocol = "trojan" -> CompileTrojan(materials)

\* generate_subscription_artifact: one link per credential, of the credential's
\* own kind whatever the profile's protocol.
Links(materials) == ToSet(materials)

-----------------------------------------------------------------------------
(* What a config and a version mean, said without the loops.               *)

\* The first material of the protocol is preceded by none.
FirstOf(materials, kind) ==
    {materials[i] : i \in {j \in DOMAIN materials :
        materials[j].kind = kind /\ \A k \in 1 .. j - 1 : materials[k].kind # kind}}

OneMethod(materials) ==
    \A m, n \in {x \in ToSet(materials) : x.kind = "shadowsocks"} : m.method = n.method

\* The secrets a config for the protocol has to hold.
Entitled(protocol, materials) ==
    IF protocol = "shadowsocks" THEN FirstOf(materials, protocol)
    ELSE {m \in ToSet(materials) : m.kind = protocol}

\* A version written as numbers only, with a major and a minor.
WellFormed(version) == Len(version) >= 2 /\ \A i \in DOMAIN version : version[i] # Unparsed

\* "REALITY requires xray-core >= 1.8.0", in the order of versions.
AtLeast18(version) == version[1] > 1 \/ (version[1] = 1 /\ version[2] > 7)
=============================================================================
