----------------------------- MODULE MCMcpAccess -----------------------------
(***************************************************************************)
(* An instance of McpAccess for TLC: a browser and a client that is none,  *)
(* one static key that changes hands, one token of the embedded server and *)
(* one of an external issuer, and four configurations.                     *)
(***************************************************************************)
EXTENDS McpAccess, FiniteSets, TLC

CONSTANTS n, ann, bob, role, read, key, idp, h, web, browser, agent

Policy(roles) == [allowedRoles |-> roles, allowedModes |-> {read}]
Cfg(mode, provider, base, servers, required, namespaces, user) ==
    [mode |-> mode, provider |-> provider, base |-> base, servers |-> servers,
     required |-> required, sites |-> IF provider = "external" THEN {web} ELSE {}, key |-> TRUE,
     keys |-> (key :> [sub |-> user, roles |-> {role}]),
     namespaces |-> namespaces,
     roles |-> (role :> [allowNamespaces |-> {n}, denyModes |-> {}])]

Open == n :> Policy({role})

Server(where) == <<[issuer |-> idp, audience |-> None, jwks |-> where]>>

Saved ==
    {Cfg("static_key", None, None, << >>, None, Open, ann),
     Cfg("hybrid", "embedded", None, << >>, {n}, Open, bob),
     Cfg("hybrid", None, h, << >>, None, Open, ann),
     Cfg("oauth", None, h, Server("found out"), {}, Open, ann)}

Token(iss, user) == [iss |-> iss, aud |-> {<<h, n>>}, sub |-> user, roles |-> {role}]
SiteOfClient == (browser :> web) @@ (agent :> None)
Issued == {Token(h, ann), Token(idp, bob)}
HeldBy == (browser :> {key} \cup Issued) @@ (agent :> {Token(idp, bob)})

\* No more than two configurations matter at a time: the one in effect, and
\* those that sessions and requests remember.
InUse ==
    LET remembered == {sessions[s] : s \in SessionIds} \cup {asked[c] : c \in Clients}
                        \cup {asked[c].session : c \in {d \in Clients : asked[d] # None}}
    IN  {conf} \cup {x.conf : x \in remembered \ {None}}

TwoConfigurations == Cardinality(InUse) <= 2
=============================================================================
