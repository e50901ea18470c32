--------------------------- MODULE DownstreamAuth ---------------------------
(***************************************************************************)
(* The credentials the gateway holds for one downstream server             *)
(* (registry/auth/manager.ts, repositories/downstreamAuth) and the HTTP    *)
(* requests that use them (registry/transport/http.ts).  Servers share     *)
(* nothing here.                                                           *)
(*                                                                         *)
(* An operation is a tool call, a fetch of tools, a health probe, or one   *)
(* of the two halves of an OAuth login.  It is interrupted where it awaits *)
(* the downstream server or the authorization server; nothing makes two    *)
(* operations wait for each other.                                         *)
(*                                                                         *)
(* The authorization server is external: the refresh tokens it issues are  *)
(* numbered, and 0 is none.  Either it rotates them, so that a refresh     *)
(* uses up the token it was asked with and brings another, or the old one  *)
(* stays good and a refresh may bring none.  It may refuse any request.    *)
(***************************************************************************)
EXTENDS Integers, FiniteSets

CONSTANTS
    Ops, Flows,
    Configs,      \* what the configuration may say of the server's auth
    Posts,        \* requests of one tool call: initialize, initialized, the call
    MaxGrants,    \* bound on the grants of the authorization server
    NoOp, NoState, NoTokens

(* "open": no auth and no Authorization header; "legacy": such a header;   *)
(* "bearer": a token from the configuration or the environment; "unset":   *)
(* the same, but empty; "secret": a managed token; "absent": no server.    *)
Modes == {"absent", "open", "none", "legacy", "bearer", "unset", "secret", "oauth"}

Statuses == {"None", "Configured", "Authorized", "AuthRequired", "RefreshFailed",
             "Misconfigured"}

ASSUME ConfigsAssumption == Configs \subseteq Modes
ASSUME BoundsAssumption == Posts \in Nat \ {0} /\ MaxGrants \in Nat

VARIABLES
    conf,       \* the server's entry in the applied configuration
    managed,    \* SQLite and DOWNSTREAM_AUTH_ENCRYPTION_KEY
    state,      \* what the manager says of the server
    secret,     \* is a managed bearer token stored?
    tokens,     \* the stored OAuth tokens
    flow,       \* flow[f]: an OAuth login, by its state parameter
    op,         \* the operations that wait for I/O
    rotating,   \* external: does a refresh use up the refresh token?
    newest,     \* external: the last refresh token issued
    spent,      \* external: those that are used up
    exchanges,  \* history: how often the code of a login was sent
    clean,      \* history: state was last written by an up-to-date operation
    lost        \* history: those that were used up by a refresh whose answer got lost

credentials == <<secret, tokens>>
server == <<conf, managed, rotating>>
grants == <<newest, spent>>
vars == <<server, state, credentials, flow, op, grants, exchanges, clean, lost>>

Tokens == [refresh : 0..MaxGrants, fresh : BOOLEAN]

Op == [kind : {"call", "probe", "begin", "complete"},
       at : {"posting", "refreshing", "refreshed",
             "discovering", "exchanging", "exchanged"},
       conf : Modes,           \* the configuration it began with
       left : 1..Posts,        \* requests still to be made
       sent : 0..MaxGrants,    \* the refresh token it asks or asked with
       got : 0..MaxGrants,     \* the one it is going to store
       overtaken : BOOLEAN]    \* history: something else changed since

State == [status : Statuses, as : BOOLEAN]

ASSUME NoneAssumption == NoOp \notin Op /\ NoState \notin State /\ NoTokens \notin Tokens

DefaultState(c) == [status |-> IF c = "open" THEN "None" ELSE "Configured", as |-> FALSE]

Current(c) == IF state = NoState THEN DefaultState(c) ELSE state

Stored == IF managed THEN tokens ELSE NoTokens

Said(c, status) == [Current(c) EXCEPT !.status = status]

Authorized == IF state = NoState THEN state ELSE Said(conf, "Authorized")

\* The operations when something they may have read is changed.
Overtaken == [o \in Ops |-> IF op[o] = NoOp THEN NoOp
                            ELSE [op[o] EXCEPT !.overtaken = TRUE]]

Pruned == [f \in Flows |-> IF flow[f] = "expired" THEN "gone" ELSE flow[f]]

Init ==
    /\ conf \in Configs
    /\ managed \in BOOLEAN
    /\ state = IF conf = "absent" THEN NoState ELSE DefaultState(conf)
    /\ secret = FALSE
    /\ tokens = NoTokens
    /\ flow = [f \in Flows |-> "unused"]
    /\ op = [o \in Ops |-> NoOp]
    /\ rotating \in BOOLEAN
    /\ newest = 0 /\ spent = {}
    /\ exchanges = [f \in Flows |-> 0]
    /\ clean = TRUE
    /\ lost = {}

-----------------------------------------------------------------------------
(* Headers for the next request of operation o, which becomes x.           *)

Send(o, x) == op' = [op EXCEPT ![o] = [x EXCEPT !.at = "posting", !.sent = 0, !.got = 0]]

Leave(o) == op' = [op EXCEPT ![o] = NoOp]

Report(x, status) ==
    /\ state' = Said(x.conf, status)
    /\ clean' = ~x.overtaken

Silent == UNCHANGED <<state, clean>>

\* An Authorization header of the configuration counts as authorized.
Announce(x) == IF x.conf = "legacy" THEN Report(x, "Authorized") ELSE Silent

EnsureFresh(o, x) ==
    /\ Stored # NoTokens
    /\ \/ Stored.fresh /\ Send(o, x) /\ Announce(x)
       \/ ~Stored.fresh /\ Stored.refresh = 0 /\ Leave(o) /\ Report(x, "AuthRequired")
       \/ /\ ~Stored.fresh /\ Stored.refresh # 0
          /\ op' = [op EXCEPT ![o] = [x EXCEPT !.at = "refreshing", !.sent = Stored.refresh]]
          /\ Announce(x)

ResolveBearer(o, x) ==
    \/ x.conf = "bearer" /\ Send(o, x) /\ Report(x, "Configured")
    \/ x.conf = "unset" /\ Leave(o) /\ Report(x, "Misconfigured")
    \/ x.conf = "secret" /\ ~managed /\ Leave(o) /\ Report(x, "Misconfigured")
    \/ x.conf = "secret" /\ managed /\ ~secret /\ Leave(o) /\ Report(x, "AuthRequired")
    \/ x.conf = "secret" /\ managed /\ secret /\ Send(o, x) /\ Report(x, "Configured")

ResolveAuthHeaders(o, x) ==
    \/ x.conf \in {"open", "none", "legacy", "oauth"} /\ EnsureFresh(o, x)
    \/ x.conf \in {"open", "none", "legacy"} /\ Stored = NoTokens
         /\ Send(o, x) /\ Announce(x)
    \/ x.conf = "oauth" /\ Stored = NoTokens /\ Leave(o) /\ Report(x, "AuthRequired")
    \/ ResolveBearer(o, x)

Idle(o) == op[o] = NoOp

At(o, place) == op[o] # NoOp /\ op[o].at = place

(* A tool call or fetch of tools, or a probe of the health monitor.        *)
BeginUse(o, kind) ==
    /\ Idle(o)
    /\ conf # "absent"
    /\ ResolveAuthHeaders(o, [kind |-> kind, at |-> "posting", conf |-> conf, sent |-> 0, got |-> 0,
                              left |-> IF kind = "call" THEN Posts ELSE 1,
                              overtaken |-> FALSE])
    /\ UNCHANGED <<server, credentials, flow, grants, exchanges, lost>>

PostAnswered(o) ==
    /\ At(o, "posting")
    /\ \/ op[o].left > 1 /\ ResolveAuthHeaders(o, [op[o] EXCEPT !.left = @ - 1])
       \/ /\ op[o].left = 1 /\ op[o].kind = "call"
          /\ Leave(o)
          /\ state' = Authorized
          /\ clean' = IF state = NoState THEN clean ELSE ~op[o].overtaken
       \/ op[o].left = 1 /\ op[o].kind = "probe" /\ Leave(o) /\ Silent
    /\ UNCHANGED <<server, credentials, flow, grants, exchanges, lost>>

\* 401, with a challenge that names an authorization server or not.
HandleUnauthorized(o) ==
    /\ At(o, "posting")
    /\ Leave(o)
    /\ \/ conf = "absent" /\ Silent
       \/ /\ conf # "absent"
          /\ \E named \in BOOLEAN : state' = [status |-> "AuthRequired", as |-> named]
          /\ clean' = ~op[o].overtaken
    /\ UNCHANGED <<server, credentials, flow, grants, exchanges, lost>>

\* Any other failure of a request, or its timeout.
PostFailed(o) ==
    /\ At(o, "posting")
    /\ Leave(o)
    /\ UNCHANGED <<server, state, credentials, flow, grants, exchanges, clean, lost>>

-----------------------------------------------------------------------------
(* The refresh of a token that is about to expire.                         *)

\* External: the authorization server grants the refresh.
GrantRefresh(o) ==
    /\ At(o, "refreshing")
    /\ op[o].sent \notin spent
    /\ \/ /\ newest < MaxGrants
          /\ newest' = newest + 1
          /\ op' = [op EXCEPT ![o].at = "refreshed", ![o].got = newest']
          /\ spent' = IF rotating THEN spent \cup {op[o].sent} ELSE spent
       \/ /\ ~rotating
          /\ op' = [op EXCEPT ![o].at = "refreshed", ![o].got = op[o].sent]
          /\ UNCHANGED grants
    /\ UNCHANGED <<server, state, credentials, flow, exchanges, clean, lost>>

Store(o, fresh) ==
    /\ tokens' = [refresh |-> op[o].got, fresh |-> fresh]
    /\ state' = Authorized
    /\ clean' = IF state = NoState THEN clean ELSE ~op[o].overtaken
    /\ UNCHANGED <<secret, lost>>

\* Mutant: the new tokens are used but not stored.
RefreshUnsaved(o) ==
    /\ At(o, "refreshed")
    /\ op' = [op EXCEPT ![o] = [op[o] EXCEPT !.at = "posting", !.sent = 0, !.got = 0]]
    /\ state' = Authorized
    /\ UNCHANGED <<server, credentials, flow, grants, exchanges, clean, lost>>

(* The tokens stay about to expire when the answer does not say how long   *)
(* they last.                                                              *)
Refreshed(o) ==
    /\ At(o, "refreshed")
    /\ \E fresh \in BOOLEAN : Store(o, fresh)
    /\ op' = [Overtaken EXCEPT ![o] = [op[o] EXCEPT !.at = "posting", !.sent = 0, !.got = 0]]
    /\ UNCHANGED <<server, flow, grants, exchanges>>

\* The refresh tokens that operations O give up after they have been used up.
Unanswered(O) == lost \cup (spent \cap {op[o].sent : o \in {p \in O : At(p, "refreshed")}})

\* The refresh is refused, or its answer is lost.
RefreshFailed(o) ==
    /\ At(o, "refreshing") \/ At(o, "refreshed")
    /\ Leave(o)
    /\ Report(op[o], "RefreshFailed")
    /\ lost' = Unanswered({o})
    /\ UNCHANGED <<server, credentials, flow, grants, exchanges>>

-----------------------------------------------------------------------------
(* The OAuth login: the admin starts it, the browser comes back with a     *)
(* code.                                                                   *)

KnowsAuthorizationServer ==
    \/ conf = "oauth"
    \/ conf \in {"open", "none", "legacy"}
         /\ (Stored # NoTokens \/ (state # NoState /\ state.as))

BeginOAuth(o) ==
    /\ Idle(o)
    /\ managed /\ conf # "absent" /\ KnowsAuthorizationServer
    /\ flow' = Pruned
    /\ op' = [op EXCEPT ![o] = [kind |-> "begin", at |-> "discovering", conf |-> conf,
                                left |-> 1, sent |-> 0, got |-> 0, overtaken |-> FALSE]]
    /\ UNCHANGED <<server, state, credentials, grants, exchanges, clean, lost>>

\* Discovery and, where needed, the registration of a client succeeded.
BegunOAuth(o, f) ==
    /\ At(o, "discovering")
    /\ flow[f] = "unused"
    /\ flow' = [flow EXCEPT ![f] = "pending"]
    /\ state' = [Current(op[o].conf) EXCEPT !.status = "Configured", !.as = TRUE]
    /\ clean' = ~op[o].overtaken
    /\ Leave(o)
    /\ UNCHANGED <<server, credentials, grants, exchanges, lost>>

\* Mutant: the state parameter stays valid until it expires.
RedeemKept(o, f) ==
    /\ Idle(o)
    /\ flow[f] = "pending" /\ conf # "absent" /\ KnowsAuthorizationServer
    /\ flow' = Pruned
    /\ op' = [op EXCEPT ![o] = [kind |-> "complete", at |-> "exchanging", conf |-> conf,
                                left |-> 1, sent |-> 0, got |-> 0, overtaken |-> FALSE]]
    /\ exchanges' = [exchanges EXCEPT ![f] = @ + 1]
    /\ UNCHANGED <<server, state, credentials, grants, clean, lost>>

\* The callback; the state parameter is spent whatever comes of it.
CompleteOAuth(o, f) ==
    /\ Idle(o)
    /\ flow[f] = "pending"
    /\ flow' = [Pruned EXCEPT ![f] = "gone"]
    /\ \/ /\ conf # "absent" /\ KnowsAuthorizationServer
          /\ op' = [op EXCEPT ![o] = [kind |-> "complete", at |-> "exchanging",
                                      conf |-> conf, left |-> 1, sent |-> 0, got |-> 0,
                                      overtaken |-> FALSE]]
          /\ exchanges' = [exchanges EXCEPT ![f] = @ + 1]
       \/ /\ conf = "absent" \/ ~KnowsAuthorizationServer
          /\ UNCHANGED <<op, exchanges>>
    /\ UNCHANGED <<server, state, credentials, grants, clean, lost>>

\* External: the code is exchanged, with or without a refresh token.
GrantExchange(o) ==
    /\ At(o, "exchanging")
    /\ \/ /\ newest < MaxGrants
          /\ newest' = newest + 1
          /\ op' = [op EXCEPT ![o].at = "exchanged", ![o].got = newest']
       \/ /\ op' = [op EXCEPT ![o].at = "exchanged", ![o].got = 0]
          /\ UNCHANGED newest
    /\ UNCHANGED <<server, state, credentials, flow, spent, exchanges, clean, lost>>

CompletedOAuth(o) ==
    /\ At(o, "exchanged")
    /\ Store(o, TRUE)
    /\ op' = [Overtaken EXCEPT ![o] = NoOp]
    /\ UNCHANGED <<server, flow, grants, exchanges>>

LoginFailed(o) ==
    /\ At(o, "discovering") \/ At(o, "exchanging") \/ At(o, "exchanged")
    /\ Leave(o)
    /\ UNCHANGED <<server, state, credentials, flow, grants, exchanges, clean, lost>>

-----------------------------------------------------------------------------
(* The administrator, the configuration, time and restarts.                *)

SaveManagedBearer ==
    /\ conf = "secret" /\ managed
    /\ secret' = TRUE
    /\ state' = Said(conf, "Configured")
    /\ clean' = TRUE
    /\ op' = Overtaken
    /\ UNCHANGED <<server, tokens, flow, grants, exchanges, lost>>

\* Mutant: the status is left as it was.
DisconnectKeepsStatus ==
    /\ conf # "absent"
    /\ tokens' = IF managed THEN NoTokens ELSE tokens
    /\ secret' = IF managed THEN FALSE ELSE secret
    /\ clean' = TRUE
    /\ op' = Overtaken
    /\ UNCHANGED <<server, state, flow, grants, exchanges, lost>>

Disconnect ==
    /\ conf # "absent"
    /\ tokens' = IF managed THEN NoTokens ELSE tokens
    /\ secret' = IF managed THEN FALSE ELSE secret
    /\ state' = DefaultState(conf)
    /\ clean' = TRUE
    /\ op' = Overtaken
    /\ UNCHANGED <<server, flow, grants, exchanges, lost>>

SyncServers(c) ==
    /\ c # conf
    /\ conf' = c
    /\ state' = IF c = "absent" THEN NoState ELSE Current(c)
    /\ clean' = (state = NoState)
    /\ op' = Overtaken
    /\ UNCHANGED <<managed, rotating, credentials, flow, grants, exchanges, lost>>

TokensExpire ==
    /\ tokens # NoTokens /\ tokens.fresh
    /\ tokens' = [tokens EXCEPT !.fresh = FALSE]
    /\ UNCHANGED <<server, state, secret, flow, op, grants, exchanges, clean, lost>>

FlowExpires(f) ==
    /\ flow[f] = "pending"
    /\ flow' = [flow EXCEPT ![f] = "expired"]
    /\ UNCHANGED <<server, state, credentials, op, grants, exchanges, clean, lost>>

Restart ==
    /\ state' = IF conf = "absent" THEN NoState ELSE DefaultState(conf)
    /\ flow' = [f \in Flows |-> IF flow[f] = "unused" THEN "unused" ELSE "gone"]
    /\ op' = [o \in Ops |-> NoOp]
    /\ clean' = TRUE
    /\ lost' = Unanswered(Ops)
    /\ UNCHANGED <<server, credentials, grants, exchanges>>

-----------------------------------------------------------------------------
Use(o) ==
    \/ \E kind \in {"call", "probe"} : BeginUse(o, kind)
    \/ PostAnswered(o) \/ HandleUnauthorized(o) \/ PostFailed(o)
    \/ GrantRefresh(o) \/ Refreshed(o) \/ RefreshFailed(o)

Login(o) ==
    \/ BeginOAuth(o) \/ GrantExchange(o) \/ CompletedOAuth(o) \/ LoginFailed(o)
    \/ \E f \in Flows : BegunOAuth(o, f) \/ CompleteOAuth(o, f)

Next ==
    \/ \E o \in Ops : Use(o) \/ Login(o)
    \/ SaveManagedBearer \/ Disconnect \/ Restart \/ TokensExpire
    \/ \E c \in Configs : SyncServers(c)
    \/ \E f \in Flows : FlowExpires(f)

Spec == Init /\ [][Next]_vars

-----------------------------------------------------------------------------
TypeOK ==
    /\ conf \in Configs /\ managed \in BOOLEAN
    /\ state \in State \cup {NoState}
    /\ secret \in BOOLEAN
    /\ tokens \in Tokens \cup {NoTokens}
    /\ flow \in [Flows -> {"unused", "pending", "expired", "gone"}]
    /\ op \in [Ops -> Op \cup {NoOp}]
    /\ rotating \in BOOLEAN
    /\ newest \in 0..MaxGrants /\ spent \subseteq 1..newest
    /\ exchanges \in [Flows -> Nat]
    /\ clean \in BOOLEAN /\ lost \subseteq 0..MaxGrants

(* The code of a login is sent to the authorization server at most once,   *)
(* however often and however late the browser comes back with it, and      *)
(* whatever the first exchange waits for (manager.ts:645-650).             *)
ExchangedOnce == \A f \in Flows : exchanges[f] <= 1

(* The gateway does not lock itself out: however refreshes of one token,   *)
(* logins and disconnections overlap, and in whichever order their answers *)
(* are stored, the refresh token it keeps is one that can be used again,   *)
(* except while the answer that replaces it is on its way, or when that    *)
(* answer was lost (manager.ts:859-892, 690-707).                          *)
KeptInStep ==
    tokens # NoTokens /\ tokens.refresh \in spent =>
        \/ tokens.refresh \in lost
        \/ \E o \in Ops : At(o, "refreshed") /\ op[o].sent = tokens.refresh

(* What the admin is told of an OAuth server is true of what is stored,    *)
(* unless an operation wrote it that had been overtaken: it is authorized  *)
(* only with tokens, and a refresh has failed only for tokens that need    *)
(* one.                                                                    *)
StatusTruthful ==
    (clean /\ managed /\ conf = "oauth" /\ state # NoState) =>
        /\ state.status = "Authorized" => tokens # NoTokens
        /\ state.status = "RefreshFailed" => tokens # NoTokens /\ ~tokens.fresh
=============================================================================
