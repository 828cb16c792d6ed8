------------------------- MODULE SubscriptionAccess -------------------------
(***************************************************************************)
(* Who sees what in a subscription: clients with a quota and an expiry,    *)
(* the usage that runners report, subscription tokens, and the handler     *)
(* that serves a subscription.  Both stores are modelled: a call of the    *)
(* in-memory store is one step, a call of the Postgres store one step per  *)
(* statement that writes or decides, since its statements are not in a     *)
(* transaction.  A handler may be dropped at any await.                    *)
(*                                                                         *)
(* The profiles and a node are there from the start.  Credentials are      *)
(* active: nothing in the code revokes one.  Uplink and downlink bytes are *)
(* one amount.  The code takes any i64 for a sample and for a quota, below *)
(* zero too, so both are integers; the model's sums do not overflow.       *)
(***************************************************************************)
EXTENDS Integers, Sequences, FiniteSets, FiniteSetsExt

CONSTANTS
    Stores,         \* which of "memory" and "postgres" may be behind the trait
    Profiles,
    Credentials,    \* client ids, which are their credentials' ids
    Requests,       \* handler invocations; an issued token is named by its request
    None,
    Operations,     \* which of "create", "report", "token", "fetch" are called
    Quotas,         \* values of quota_bytes
    Samples,        \* bytes of a usage sample, which may be negative
    Hour, Day, Month,   \* lengths of the buckets
    MaxTime,        \* bound: instants are 0 .. MaxTime
    MaxHandlers,    \* bound: handlers running at once
    MayAbort        \* whether clients may disconnect

\* What a caller may be told.
Texts == {"created", "accepted", "ok", "unauthorized", "error"}

\* A row of subscription_tokens.
TokenRows == [profile : Profiles, status : {"active", "rotated"}]

ASSUME AccessAssumption ==
    /\ Stores \subseteq {"memory", "postgres"}
    /\ None \notin Profiles \cup Credentials \cup Requests \cup Int \cup Texts
    /\ None \notin TokenRows
    /\ Quotas \subseteq Int /\ Samples \subseteq Int
    /\ {Hour, Day, Month} \subseteq Nat \ {0}
    /\ Day % Hour = 0 /\ Month % Day = 0
    /\ MaxTime \in Nat /\ MaxHandlers \in Nat /\ MayAbort \in BOOLEAN

VARIABLES
    store,      \* ProxyStore::kind
    now,        \* Utc::now
    credentials,  \* ids of the credentials there are
    clients,    \* per profile: credentials_by_profile / profile_credentials
    quota,      \* credential_quotas
    expiry,     \* credential_expirations / credentials.expires_at
    rollups,    \* usage_rollups: bytes per credential, bucket and bucket start
    tokens,     \* subscription_tokens: profile and status
    handler,    \* per request: its operation, inputs and step
    reply,      \* per request: what its caller was told
    least,      \* history: the least a credential can have used, and
    most        \* the most, by what was sent and what was answered 202

usageVars == <<rollups, least, most>>
vars == <<store, now, credentials, clients, quota, expiry, rollups, tokens, handler,
          reply, least, most>>

Instants == 0 .. MaxTime
Starts == {"hour", "day", "month"} \X Instants

New == [op |-> "none", step |-> "new"]

\* create_client, runner_usage and the token handlers.
Creates ==
    [op : {"create"}, step : {"join", "quota", "expiry", "done"},
     profile : Profiles, client : Credentials, quota : Quotas \cup {None},
     expiry : Instants \cup {None}]
Reports ==
    [op : {"report"}, step : {"hour", "day", "month", "done"},
     client : Credentials, at : Instants, bytes : Samples]
\* History: seen, the tokens the profile had when its rotation began.
Rotations == [op : {"token"}, step : {"insert", "done"}, profile : Profiles,
              seen : SUBSET Requests]

\* get_subscription.  todo: credentials the loop has still to decide on, client and
\* limit the one it is at and its quota, shown the ones it lets through.  History:
\* over and present, the credentials denied and listed when the fetch began and
\* not disturbed since, and barred, whether it had to be refused then.
Fetches ==
    [op : {"fetch"}, profile : Profiles, token : Requests \cup {None},
     step : {"log", "read", "quota", "usage", "expiry", "done"},
     todo : SUBSET Credentials, client : Credentials \cup {None},
     limit : Int \cup {None}, shown : SUBSET Credentials,
     over : SUBSET Credentials, present : SUBSET Credentials, barred : BOOLEAN]

Handlers == {New} \cup Creates \cup Reports \cup Rotations \cup Fetches

Replies == Texts \cup {None}

TypeOK ==
    /\ store \in {"memory", "postgres"}
    /\ now \in Instants
    /\ credentials \subseteq Credentials
    /\ clients \in [Profiles -> SUBSET Credentials]
    /\ quota \in [Credentials -> Int \cup {None}]
    /\ expiry \in [Credentials -> Instants \cup {None}]
    /\ rollups \in [Credentials -> [Starts -> Int]]
    /\ tokens \in [Requests -> TokenRows \cup {None}]
    /\ handler \in [Requests -> Handlers]
    /\ reply \in [Requests -> Replies]
    /\ least \in [Credentials -> Int]
    /\ most \in [Credentials -> Int]

Init ==
    /\ store \in Stores
    /\ now = 0
    /\ credentials = {}
    /\ clients = [p \in Profiles |-> {}]
    /\ quota = [c \in Credentials |-> None]
    /\ expiry = [c \in Credentials |-> None]
    /\ rollups = [c \in Credentials |-> [s \in Starts |-> 0]]
    /\ tokens = [r \in Requests |-> None]
    /\ handler = [r \in Requests |-> New]
    /\ reply = [r \in Requests |-> None]
    /\ least = [c \in Credentials |-> 0]
    /\ most = [c \in Credentials |-> 0]

-----------------------------------------------------------------------------
Busy == {r \in Requests : handler[r].step \notin {"new", "done"}}

MayStart(r, op) ==
    /\ op \in Operations
    /\ handler[r] = New
    /\ Cardinality(Busy) < MaxHandlers

GoTo(r, h) ==
    /\ handler' = [handler EXCEPT ![r] = h]
    /\ UNCHANGED reply

Answer(r, h, text) ==
    /\ handler' = [handler EXCEPT ![r] = [h EXCEPT !.step = "done"]]
    /\ reply' = [reply EXCEPT ![r] = text]

\* The handlers once r has gone on to h: fetches under way forget what they knew
\* of client c, whose limits change or whose usage falls.
Limiting(r, c, h) ==
    [x \in Requests |->
        IF x = r THEN h
        ELSE IF handler[x].op = "fetch" /\ handler[x].step # "done"
             THEN [handler[x] EXCEPT !.over = @ \ {c}, !.present = @ \ {c}]
             ELSE handler[x]]

Tick ==
    /\ now < MaxTime
    /\ now' = now + 1
    /\ UNCHANGED <<store, credentials, clients, quota, expiry, tokens, handler, reply>>
    /\ UNCHANGED usageVars

-----------------------------------------------------------------------------
(* create_client: the credential, its quota and its expiry in three awaits. *)

\* The handler of h has added the credential.
GoOnWithLimits(r, h) ==
    \/ h.quota # None /\ GoTo(r, [h EXCEPT !.step = "quota"])
    \/ h.quota = None /\ h.expiry # None /\ GoTo(r, [h EXCEPT !.step = "expiry"])
    \/ h.quota = None /\ h.expiry = None /\ Answer(r, h, "created")

\* add_credential: one step in memory, in Postgres the credential comes before
\* its place in the profile.
StartCreate(r, p, c, q, e) ==
    LET h == [op |-> "create", step |-> "join", profile |-> p, client |-> c,
              quota |-> q, expiry |-> e] IN
    /\ MayStart(r, "create")
    /\ credentials' = credentials \cup {c}
    /\ \/ /\ store = "memory"
          /\ clients' = [clients EXCEPT ![p] = @ \cup {c}]
          /\ GoOnWithLimits(r, h)
       \/ /\ store = "postgres"
          /\ GoTo(r, h)
          /\ UNCHANGED clients
    /\ UNCHANGED <<store, now, quota, expiry, tokens>>
    /\ UNCHANGED usageVars

JoinProfile(r) ==
    LET h == handler[r] IN
    /\ h.op = "create" /\ h.step = "join"
    /\ clients' = [clients EXCEPT ![h.profile] = @ \cup {h.client}]
    /\ GoOnWithLimits(r, h)
    /\ UNCHANGED <<store, now, credentials, quota, expiry, tokens>>
    /\ UNCHANGED usageVars

\* Mutant: the handler answers once the quota is set.
MutantSetQuotaAnswers(r) ==
    LET h == handler[r] IN
    /\ h.op = "create" /\ h.step = "quota"
    /\ quota' = [quota EXCEPT ![h.client] = h.quota]
    /\ handler' = Limiting(r, h.client, [h EXCEPT !.step = "done"])
    /\ reply' = [reply EXCEPT ![r] = "created"]
    /\ UNCHANGED <<store, now, credentials, clients, expiry, tokens>>
    /\ UNCHANGED usageVars

SetQuota(r) ==
    LET h == handler[r]
        last == h.expiry = None IN
    /\ h.op = "create" /\ h.step = "quota"
    /\ quota' = [quota EXCEPT ![h.client] = h.quota]
    /\ handler' = Limiting(r, h.client,
                           [h EXCEPT !.step = IF last THEN "done" ELSE "expiry"])
    /\ reply' = [reply EXCEPT ![r] = IF last THEN "created" ELSE @]
    /\ UNCHANGED <<store, now, credentials, clients, expiry, tokens>>
    /\ UNCHANGED usageVars

SetExpiry(r) ==
    LET h == handler[r] IN
    /\ h.op = "create" /\ h.step = "expiry"
    /\ expiry' = [expiry EXCEPT ![h.client] = h.expiry]
    /\ handler' = Limiting(r, h.client, [h EXCEPT !.step = "done"])
    /\ reply' = [reply EXCEPT ![r] = "created"]
    /\ UNCHANGED <<store, now, credentials, clients, quota, tokens>>
    /\ UNCHANGED usageVars

-----------------------------------------------------------------------------
(* runner_usage: a sample goes into its hour, its day and its month.       *)

BucketStart(bucket, t) ==
    CASE bucket = "hour"  -> t - (t % Hour)
      [] bucket = "day"   -> t - (t % Day)
      [] bucket = "month" -> t - (t % Month)

\* Mutant: a sample replaces what the bucket has.
MutantAddedReplaces(B, c, b, t) ==
    [rollups EXCEPT ![c] = [s \in Starts |->
        IF s[1] \in B /\ s[2] = BucketStart(s[1], t) THEN b ELSE @[s]]]

\* The rollups once a sample of b bytes of c at t is added to the buckets in B.
Added(B, c, b, t) ==
    [rollups EXCEPT ![c] = [s \in Starts |->
        IF s[1] \in B /\ s[2] = BucketStart(s[1], t) THEN @[s] + b ELSE @[s]]]

\* Postgres references credentials(id); the in-memory store takes any id.
Known(c) == c \in credentials

\* History: what b bytes add to a usage, and what they take from it.
Up(b) == IF b > 0 THEN b ELSE 0
Down(b) == IF b < 0 THEN b ELSE 0

\* A sample of b bytes of c is sent: it may be counted, or not yet.
Sent(c, b) ==
    /\ least' = [least EXCEPT ![c] = @ + Down(b)]
    /\ most' = [most EXCEPT ![c] = @ + Up(b)]

\* It is answered 202: it is counted.
Counted(c, b) ==
    /\ least' = [least EXCEPT ![c] = @ + Up(b)]
    /\ most' = [most EXCEPT ![c] = @ + Down(b)]

\* The handlers once the report r of b bytes of c has gone on to h.
Reported(r, c, b, h) ==
    IF b < 0 THEN Limiting(r, c, h) ELSE [handler EXCEPT ![r] = h]

StartReport(r, c, b, t) ==
    LET h == [op |-> "report", step |-> "hour", client |-> c, at |-> t, bytes |-> b] IN
    /\ MayStart(r, "report")
    /\ \/ /\ store = "memory"
          /\ rollups' = Added({"hour", "day", "month"}, c, b, t)
          /\ least' = [least EXCEPT ![c] = @ + b]
          /\ most' = [most EXCEPT ![c] = @ + b]
          /\ handler' = Reported(r, c, b, [h EXCEPT !.step = "done"])
          /\ reply' = [reply EXCEPT ![r] = "accepted"]
       \/ /\ store = "postgres" /\ Known(c)
          /\ Sent(c, b)
          /\ handler' = Reported(r, c, b, h)
          /\ UNCHANGED <<rollups, reply>>
       \/ /\ store = "postgres" /\ ~Known(c)
          /\ Answer(r, h, "error")
          /\ UNCHANGED usageVars
    /\ UNCHANGED <<store, now, credentials, clients, quota, expiry, tokens>>

\* Postgres: one upsert per bucket.
UpsertRollup(r) ==
    LET h == handler[r] IN
    /\ h.op = "report" /\ h.step \in {"hour", "day", "month"}
    /\ rollups' = Added({h.step}, h.client, h.bytes, h.at)
    /\ \/ /\ h.step # "month"
          /\ GoTo(r, [h EXCEPT !.step = IF @ = "hour" THEN "day" ELSE "month"])
          /\ UNCHANGED <<least, most>>
       \/ /\ h.step = "month"
          /\ Counted(h.client, h.bytes)
          /\ handler' = Reported(r, h.client, h.bytes, [h EXCEPT !.step = "done"])
          /\ reply' = [reply EXCEPT ![r] = "accepted"]
    /\ UNCHANGED <<store, now, credentials, clients, quota, expiry, tokens>>

-----------------------------------------------------------------------------
(* Subscription tokens.                                                    *)

TokensOf(p) == {t \in Requests : tokens[t] # None /\ tokens[t].profile = p}

Active(p) == {t \in TokensOf(p) : tokens[t].status = "active"}

\* Mutant: the last active token stays active.
MutantRetiredKeepsLast(p) ==
    [t \in Requests |-> IF t \in Active(p) /\ Active(p) # {t}
                        THEN [tokens[t] EXCEPT !.status = "rotated"]
                        ELSE tokens[t]]

\* Every active token of p is rotated.
Retired(p) ==
    [t \in Requests |-> IF t \in Active(p) THEN [tokens[t] EXCEPT !.status = "rotated"]
                        ELSE tokens[t]]

Fresh(p) == [profile |-> p, status |-> "active"]

\* issue_subscription_token.
IssueToken(r, p) ==
    /\ MayStart(r, "token")
    /\ tokens' = [tokens EXCEPT ![r] = Fresh(p)]
    /\ Answer(r, [op |-> "token", step |-> "insert", profile |-> p, seen |-> {}], "created")
    /\ UNCHANGED <<store, now, credentials, clients, quota, expiry>>
    /\ UNCHANGED usageVars

\* rotate_subscription_token: under one lock in memory, an UPDATE and an INSERT
\* in Postgres.
StartRotate(r, p) ==
    LET h == [op |-> "token", step |-> "insert", profile |-> p, seen |-> TokensOf(p)] IN
    /\ MayStart(r, "token")
    /\ \/ /\ store = "memory"
          /\ tokens' = [Retired(p) EXCEPT ![r] = Fresh(p)]
          /\ Answer(r, h, "created")
       \/ /\ store = "postgres"
          /\ tokens' = Retired(p)
          /\ GoTo(r, h)
    /\ UNCHANGED <<store, now, credentials, clients, quota, expiry>>
    /\ UNCHANGED usageVars

InsertRotated(r) ==
    LET h == handler[r] IN
    /\ h.op = "token" /\ h.step = "insert"
    /\ tokens' = [tokens EXCEPT ![r] = Fresh(h.profile)]
    /\ Answer(r, h, "created")
    /\ UNCHANGED <<store, now, credentials, clients, quota, expiry>>
    /\ UNCHANGED usageVars

-----------------------------------------------------------------------------
(* get_subscription.                                                       *)

\* Bytes of c in the buckets B.
Used(c, B) == MapThenSumSet(LAMBDA s : rollups[c][s], {s \in Starts : s[1] \in B})

\* used_bytes of credential_quota_decision.
UsedBytes(c) == Used(c, {"hour"})

\* Mutant: the quota itself is over the quota.
MutantAllowedBelow(used, limit) == used < limit

\* quota_decision.
Allowed(used, limit) == used <= limit

\* credential_quota_exceeded_in_memory.
ExceededInMemory(c) ==
    quota[c] # None /\ ~Allowed(Used(c, {"hour", "day", "month"}), quota[c])

\* expiry_decision.
Expired(c) == expiry[c] # None /\ expiry[c] <= now

\* verify_subscription_token.
Verifies(p, t) == t \in Active(p)

\* Credentials that have used more than their quota, whatever becomes of the
\* samples under way, or that expired.  Not those with a negative quota in memory:
\* that store counts a usage three times, and three times a negative one is less.
Denied == {c \in Credentials : \/ /\ quota[c] # None
                                  /\ store = "memory" => quota[c] >= 0
                                  /\ least[c] > quota[c]
                               \/ Expired(c)}

\* Credentials that no sample sent so far brings above their quota, and that
\* have not expired.
Entitled == {c \in Credentials : /\ quota[c] # None => most[c] <= quota[c]
                                 /\ ~Expired(c)}

\* History: tokens that a rotation found which was answered.
Revoked == UNION {handler[r].seen : r \in {x \in Requests : handler[x].op = "token"
                                                            /\ reply[x] = "created"}}

\* The gate: with a token verify_subscription_token, without one
\* subscription_token_required.
StartFetch(r, p, t) ==
    LET h == [op |-> "fetch", step |-> "read", profile |-> p, token |-> t,
              todo |-> {}, client |-> None, limit |-> None, shown |-> {},
              over |-> Denied, present |-> clients[p],
              barred |-> IF t # None THEN t \in Revoked ELSE TokensOf(p) # {}] IN
    /\ MayStart(r, "fetch")
    /\ \/ t # None /\ Verifies(p, t) /\ GoTo(r, [h EXCEPT !.step = "log"])
       \/ t # None /\ ~Verifies(p, t) /\ Answer(r, h, "unauthorized")
       \/ t = None /\ Active(p) = {} /\ GoTo(r, h)
       \/ t = None /\ Active(p) # {} /\ Answer(r, h, "unauthorized")
    /\ UNCHANGED <<store, now, credentials, clients, quota, expiry, tokens>>
    /\ UNCHANGED usageVars

\* record_subscription_access.
RecordAccess(r) ==
    /\ handler[r].op = "fetch" /\ handler[r].step = "log"
    /\ GoTo(r, [handler[r] EXCEPT !.step = "read"])
    /\ UNCHANGED <<store, now, credentials, clients, quota, expiry, tokens>>
    /\ UNCHANGED usageVars

\* In memory deployed_profile_for_subscription decides under one lock.
ReadInMemory(r) ==
    LET h == handler[r] IN
    /\ store = "memory"
    /\ h.op = "fetch" /\ h.step = "read"
    /\ Answer(r, [h EXCEPT !.shown = {c \in clients[h.profile] :
                                          ~ExceededInMemory(c) /\ ~Expired(c)}], "ok")
    /\ UNCHANGED <<store, now, credentials, clients, quota, expiry, tokens>>
    /\ UNCHANGED usageVars

\* Postgres: the loop goes on with the credentials that are left.
Loop(r, h) ==
    \/ h.todo = {} /\ Answer(r, [h EXCEPT !.client = None, !.limit = None], "ok")
    \/ \E c \in h.todo :
           GoTo(r, [h EXCEPT !.step = "quota", !.todo = @ \ {c}, !.client = c,
                             !.limit = None])

\* Postgres: credentials_for_profile.
ListCredentials(r) ==
    LET h == handler[r] IN
    /\ store = "postgres"
    /\ h.op = "fetch" /\ h.step = "read"
    /\ Loop(r, [h EXCEPT !.todo = clients[h.profile]])
    /\ UNCHANGED <<store, now, credentials, clients, quota, expiry, tokens>>
    /\ UNCHANGED usageVars

\* Mutant: a quota of zero or less is no quota.
MutantReadQuotaUnlimited(r) ==
    LET h == handler[r]
        q == quota[h.client] IN
    /\ h.op = "fetch" /\ h.step = "quota"
    /\ GoTo(r, [h EXCEPT !.limit = q,
                         !.step = IF q = None \/ q <= 0 THEN "expiry" ELSE "usage"])
    /\ UNCHANGED <<store, now, credentials, clients, quota, expiry, tokens>>
    /\ UNCHANGED usageVars

\* credential_quota_decision: its first query ends it when there is no quota.
ReadQuota(r) ==
    LET h == handler[r] IN
    /\ h.op = "fetch" /\ h.step = "quota"
    /\ GoTo(r, [h EXCEPT !.limit = quota[h.client],
                         !.step = IF quota[h.client] = None THEN "expiry" ELSE "usage"])
    /\ UNCHANGED <<store, now, credentials, clients, quota, expiry, tokens>>
    /\ UNCHANGED usageVars

ReadUsage(r) ==
    LET h == handler[r] IN
    /\ h.op = "fetch" /\ h.step = "usage"
    /\ \/ /\ Allowed(UsedBytes(h.client), h.limit)
          /\ GoTo(r, [h EXCEPT !.step = "expiry"])
       \/ /\ ~Allowed(UsedBytes(h.client), h.limit)
          /\ Loop(r, h)
    /\ UNCHANGED <<store, now, credentials, clients, quota, expiry, tokens>>
    /\ UNCHANGED usageVars

\* credential_expiry_decision.
ReadExpiry(r) ==
    LET h == handler[r] IN
    /\ h.op = "fetch" /\ h.step = "expiry"
    /\ Loop(r, [h EXCEPT !.shown = IF Expired(h.client) THEN @ ELSE @ \cup {h.client}])
    /\ UNCHANGED <<store, now, credentials, clients, quota, expiry, tokens>>
    /\ UNCHANGED usageVars

\* The caller disconnects, or the control plane ends.
Abort(r) ==
    /\ MayAbort
    /\ r \in Busy
    /\ Answer(r, handler[r], None)
    /\ UNCHANGED <<store, now, credentials, clients, quota, expiry, tokens>>
    /\ UNCHANGED usageVars

-----------------------------------------------------------------------------
Next ==
    \/ \E r \in Requests, p \in Profiles, c \in Credentials,
          q \in Quotas \cup {None}, e \in Instants \cup {None} : StartCreate(r, p, c, q, e)
    \/ \E r \in Requests : JoinProfile(r)
    \/ \E r \in Requests : SetQuota(r)
    \/ \E r \in Requests : SetExpiry(r)
    \/ \E r \in Requests, c \in Credentials, b \in Samples, t \in Instants :
           StartReport(r, c, b, t)
    \/ \E r \in Requests : UpsertRollup(r)
    \/ \E r \in Requests, p \in Profiles : IssueToken(r, p)
    \/ \E r \in Requests, p \in Profiles : StartRotate(r, p)
    \/ \E r \in Requests : InsertRotated(r)
    \/ \E r \in Requests, p \in Profiles, t \in Requests \cup {None} : StartFetch(r, p, t)
    \/ \E r \in Requests : RecordAccess(r)
    \/ \E r \in Requests : ReadInMemory(r)
    \/ \E r \in Requests : ListCredentials(r)
    \/ \E r \in Requests : ReadQuota(r)
    \/ \E r \in Requests : ReadUsage(r)
    \/ \E r \in Requests : ReadExpiry(r)
    \/ \E r \in Requests : Abort(r)
    \/ Tick

Spec == Init /\ [][Next]_vars

-----------------------------------------------------------------------------
(* What a subscription guarantees.                                         *)

Served(r) == handler[r].op = "fetch" /\ reply[r] = "ok"

\* A credential that had used more than its quota, or had expired, when the request
\* came in is not in the answer, unless its limits were changed, or a negative sample
\* of it was sent or answered, meanwhile: for both stores, whatever else is reported
\* or dropped in between.
OverLimitHidden ==
    \A r \in Requests : Served(r) => handler[r].shown \cap handler[r].over = {}

\* "In-quota credentials remain visible": a client of the profile since the
\* request came in whose limits allow it to the end is in the answer, unless they
\* were changed, or a negative sample of it was sent or answered, meanwhile.
EntitledShown ==
    [][\A r \in Requests :
           Served(r)' /\ ~Served(r) =>
               handler[r].present \cap Entitled \subseteq handler'[r].shown]_vars

\* The same, of Postgres only: it counts the hours.
EntitledShownByPostgres ==
    [][\A r \in Requests :
           store = "postgres" /\ Served(r)' /\ ~Served(r) =>
               handler[r].present \cap Entitled \subseteq handler'[r].shown]_vars

\* A token that the profile had when a rotation began is refused to every request
\* that comes in after that rotation was answered, whatever other tokens were
\* issued and rotated meanwhile.
RotatedRefused ==
    \A r \in Requests : Served(r) /\ handler[r].token # None => ~handler[r].barred

\* The endpoint without a token is there "before any token has been issued for a
\* profile" and not after, rotations under way included.
TokenlessRefused ==
    \A r \in Requests : Served(r) /\ handler[r].token = None => ~handler[r].barred

\* A client whose creation was answered 201 has the kinds of limits that were
\* asked for.
CreatedHasLimits ==
    \A r \in Requests :
        LET h == handler[r] IN
        h.op = "create" /\ reply[r] = "created" =>
            /\ h.quota # None => quota[h.client] # None
            /\ h.expiry # None => expiry[h.client] # None

\* Unless a sample of it is under way or was cut off, in Postgres, the hours, the
\* days and the months of a credential add up to the bytes accepted for it.
BucketsAgree ==
    \A c \in Credentials, b \in {"hour", "day", "month"} :
        least[c] = most[c] => Used(c, {b}) = least[c]
=============================================================================
