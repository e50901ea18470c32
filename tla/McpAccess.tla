------------------------------ MODULE McpAccess ------------------------------
(***************************************************************************)
(* Who may open and use an MCP session: the routes of /mcp/:namespace      *)
(* (gateway/routes/mcp.ts), the identity behind a credential               *)
(* (auth/mcp-identity.ts, auth/oauth-config.ts, auth/oauth-validator.ts),  *)
(* the policy (policy/resolver.ts), and the documents that tell a client   *)
(* which was refused where to log in (gateway/routes/oauth-metadata.ts).   *)
(*                                                                         *)
(* Validating an access token awaits the discovery of the issuer's key set *)
(* and the keys themselves.  Meanwhile configurations are saved, tokens    *)
(* expire, sessions end and the issuer comes and goes; the request goes on *)
(* with the configuration and the session it read before.                  *)
(*                                                                         *)
(* Tokens are genuine: issued by the server they name.  Demo mode, where   *)
(* everybody is anonymous, and the claim roles are read from are left out. *)
(***************************************************************************)
EXTENDS Naturals, Sequences

CONSTANTS
    Namespaces, Roles, Users, Modes,
    Keys,          \* the static keys clients hold
    Tokens,        \* the access tokens they hold: issuer, audience, user, roles
    Issuers,       \* external authorization servers
    Conventional,  \* those whose key set is at /.well-known/jwks.json
    Hosts,         \* the origins the gateway is reached at
    Loopback,      \* the browser origins on the local machine
    DefaultSites,  \* DEFAULT_EMBEDDED_BROWSER_ORIGINS
    Configs,       \* the configurations administrators save
    Kinds,         \* the documents of an issuer that are proxied, an OpenID one included
    Clients,
    Held,          \* Held[c]: the credentials of client c
    SiteOf,        \* SiteOf[c]: the browser origin that c runs under, or None
    SessionIds,
    None           \* the absence of a credential, host, site, setting ...

VARIABLES
    conf,       \* getConfig()
    sessions,   \* the session store
    asked,      \* asked[c]: the request of c that is being handled
    answer,     \* the answer given in this step, if one is
    jwks,       \* resolvedJwksUri, by issuer
    documents,  \* the issuer metadata cached, by document and issuer
    down,       \* the issuers that cannot be reached
    expired     \* the tokens that have expired

accessVars == <<conf, sessions, asked, answer, jwks, documents, down, expired>>

ASSUME NamesAssumption ==
    /\ None \notin Namespaces \cup Keys \cup SessionIds
    /\ \A c \in Clients : Held[c] \subseteq Keys \cup Tokens
    /\ "anybody" \notin Users    \* see Follows
ASSUME ConfigsAssumption ==
    \A cfg \in Configs :
        /\ cfg.provider \in {None, "embedded", "external"}
        /\ DOMAIN cfg.keys \subseteq Keys
        /\ \A key \in DOMAIN cfg.keys : cfg.keys[key].sub \in Users
ASSUME ConventionalAssumption == Conventional \subseteq Issuers
ASSUME TokensAssumption ==
    \A t \in Tokens :
        /\ t.iss \in Issuers \cup Hosts
        /\ t.sub \in Users /\ t.roles \subseteq Roles

-----------------------------------------------------------------------------
(* Configurations (auth/oauth-config.ts).                                  *)

Provider(cfg) ==
    IF cfg.provider # None THEN cfg.provider
    ELSE IF cfg.servers # << >> THEN "external" ELSE "embedded"

Base(cfg, host) == IF cfg.base # None THEN cfg.base ELSE host

\* normalizeExternalIssuers()
NamedServers(cfg) == SelectSeq(cfg.servers, LAMBDA s : s.issuer # None)

\* getInboundOAuth(): what is asked for at this host, or None.
Inbound(cfg, host) ==
    LET base == Base(cfg, host)
        oauth(servers, sites) ==
            [provider |-> Provider(cfg), base |-> base, servers |-> servers,
             required |-> cfg.required, sites |-> sites, key |-> cfg.key]
    IN  IF cfg.mode = "static_key" \/ base = None THEN None
        ELSE IF Provider(cfg) = "embedded"
        THEN oauth(<<[issuer |-> base, audience |-> None, jwks |-> "given"]>>,
                   cfg.sites \cup DefaultSites)
        ELSE IF NamedServers(cfg) = << >> THEN None
        ELSE oauth(NamedServers(cfg), cfg.sites)

StaticKeys(cfg) == IF cfg.mode = "oauth" THEN << >> ELSE cfg.keys

Configured(cfg) == DOMAIN cfg.namespaces

\* oauthAppliesToNamespace()
Applies(cfg, oauth, ns) ==
    /\ ns \in Configured(cfg)
    /\ oauth.required \notin {None, {}} => ns \in oauth.required

Asks(cfg, host, ns) ==
    Inbound(cfg, host) # None /\ Applies(cfg, Inbound(cfg, host), ns)

Resource(oauth, ns) == <<oauth.base, ns>>

-----------------------------------------------------------------------------
(* Identities (auth/service.ts, auth/oauth-validator.ts).                  *)

Anonymous == [sub |-> "anonymous", roles |-> {}]

ASSUME AnonymousAssumption == Anonymous # None

\* resolveStaticKeyFromMap()
KeyIdentity(cfg, cred) ==
    IF cred \in DOMAIN StaticKeys(cfg) THEN StaticKeys(cfg)[cred] ELSE None

\* issuerConfigForTokenIss(), and whether there is one.
Knows(oauth, token) ==
    /\ oauth.provider = "external"
    /\ \E i \in DOMAIN oauth.servers : oauth.servers[i].issuer = token.iss

ServerOf(oauth, token) == SelectSeq(oauth.servers, LAMBDA s : s.issuer = token.iss)[1]

\* jwtVerify(), and audienceMatches()
JwtVerifies(token, issuer, audience) ==
    /\ token.iss = issuer
    /\ audience \in token.aud
    /\ token \notin expired

Claims(token) == [sub |-> token.sub, roles |-> token.roles]

\* validateEmbedded(), with the public key that the configuration holds
AcceptsEmbedded(oauth, token, ns) ==
    oauth.key /\ JwtVerifies(token, oauth.base, Resource(oauth, ns))

ValidEmbedded(oauth, token, ns) ==
    IF AcceptsEmbedded(oauth, token, ns) THEN Claims(token) ELSE None

\* Mutant: a token for the gateway at large is asked for.
AudienceAtLarge(oauth, server, ns) ==
    IF server.audience # None THEN server.audience ELSE <<oauth.base, None>>

Audience(oauth, server, ns) ==
    IF server.audience # None THEN server.audience ELSE Resource(oauth, ns)

(* validate() against an external issuer whose key set was found at url.   *)
(* While it cannot be reached its keys may be held from before.            *)
ValidExternal(oauth, token, ns, url) ==
    LET server == ServerOf(oauth, token)
    IN  IF \/ ~Knows(oauth, token)
           \/ url = "fallback" /\ token.iss \notin Conventional
           \/ ~JwtVerifies(token, token.iss, Audience(oauth, server, ns))
        THEN {None}
        ELSE {Claims(token)} \cup (IF token.iss \in down THEN {None} ELSE {})

\* The identities that validate() may give for this token.
Validated(oauth, token, ns, url) ==
    IF token \notin Tokens THEN {None}
    ELSE IF oauth.provider = "embedded" THEN {ValidEmbedded(oauth, token, ns)}
    ELSE ValidExternal(oauth, token, ns, url)

-----------------------------------------------------------------------------
(* What a request comes to (auth/mcp-identity.ts), given the identity that *)
(* validating its token gave.                                              *)

\* Is the token validated, or is the matter settled before?
Validates(r) ==
    /\ Asks(r.conf, r.host, r.ns)
    /\ r.cred # None
    /\ KeyIdentity(r.conf, r.cred) = None

\* resolveMcpIdentityForInitialize()
Resolved(r, jwt) ==
    IF KeyIdentity(r.conf, r.cred) # None THEN KeyIdentity(r.conf, r.cred)
    ELSE IF ~Asks(r.conf, r.host, r.ns) THEN Anonymous
    ELSE jwt

\* Mutant: a session may be used by whoever has a valid credential.
AnyBearer(r, jwt) ==
    \/ ~Asks(r.conf, r.host, r.ns)
    \/ KeyIdentity(r.conf, r.cred) # None
    \/ jwt # None

\* Mutant: only access tokens count where OAuth applies.
TokensOnly(r, jwt) ==
    \/ ~Asks(r.conf, r.host, r.ns)
    \/ jwt # None /\ jwt.sub = r.session.user

\* assertMcpSessionOAuthBearer() = 'ok'
MatchesSession(r, jwt) ==
    \/ ~Asks(r.conf, r.host, r.ns)
    \/ LET id == IF KeyIdentity(r.conf, r.cred) # None THEN KeyIdentity(r.conf, r.cred) ELSE jwt
       IN  id # None /\ id.sub = r.session.user

\* resolvePolicy()
Allowed(cfg, id, ns, mode) ==
    /\ ns \in Configured(cfg)
    /\ id.roles \cap cfg.namespaces[ns].allowedRoles # {}
    /\ \E role \in id.roles \cap DOMAIN cfg.roles : ns \in cfg.roles[role].allowNamespaces
    /\ mode \in cfg.namespaces[ns].allowedModes
    /\ \A role \in id.roles \cap DOMAIN cfg.roles : mode \notin cfg.roles[role].denyModes

-----------------------------------------------------------------------------
(* Browsers (gateway/cors.ts).                                             *)

SitesOf(cfg, host) == IF Inbound(cfg, host) = None THEN {} ELSE Inbound(cfg, host).sites

\* isBrowserOriginAllowed(), and whether setMcpCorsHeaders() lets it read.
SiteAllowed(cfg, host, site) == site = None \/ site \in Loopback \cup SitesOf(cfg, host)

-----------------------------------------------------------------------------
(* The documents (gateway/routes/oauth-metadata.ts).                       *)

\* protectedResourceBody(), and whether there is one.
Described(cfg, host, ns) == Inbound(cfg, host) # None /\ ns \in Configured(cfg)

ProtectedResource(cfg, host, ns) ==
    LET oauth == Inbound(cfg, host)
    IN  [resource |-> Resource(oauth, ns),
         servers |-> {oauth.servers[i].issuer : i \in DOMAIN oauth.servers}]

\* metadataContext(): ns is None for the documents of no namespace.
HasMetadata(cfg, host, ns) ==
    LET oauth == Inbound(cfg, host)
    IN  /\ oauth # None
        /\ IF ns # None THEN Applies(cfg, oauth, ns)
           ELSE cfg.mode = "hybrid" /\ oauth.required # None =>
                  oauth.required \cap Configured(cfg) # {}

MetadataIssuer(oauth) == oauth.servers[1].issuer

\* embeddedAuthorizationServerDocument()
EmbeddedDocument(oauth) == [issuer |-> oauth.base]

\* The document found at the issuer and kept by the gateway, or not found.
ExternalDocument(kind, issuer) ==
    IF documents[<<kind, issuer>>] = "found" THEN [issuer |-> issuer] ELSE None

ServerDocument(cfg, host, ns, kind) ==
    LET oauth == Inbound(cfg, host)
    IN  IF ~HasMetadata(cfg, host, ns) THEN None
        ELSE IF oauth.provider = "embedded" THEN EmbeddedDocument(oauth)
        ELSE ExternalDocument(kind, MetadataIssuer(oauth))

-----------------------------------------------------------------------------
Session == [user : Users, ns : Namespaces, opener : Keys \cup Tokens,
            host : Hosts, conf : Configs]

NoAnswer == [kind |-> "none"]

\* buildOAuthChallenge(), or what is said when OAuth is off by now
Challenge(r, cfg) ==
    IF Inbound(cfg, r.host) = None
    THEN [kind |-> "internal error", request |-> r]
    ELSE [kind |-> "challenge", request |-> r, conf |-> cfg,
          base |-> Inbound(cfg, r.host).base]

Refused(r) == [kind |-> "refused", request |-> r]

AccessInit ==
    /\ conf \in Configs
    /\ sessions = [s \in SessionIds |-> None]
    /\ asked = [c \in Clients |-> None]
    /\ answer = NoAnswer
    /\ jwks = [i \in Issuers |-> "unknown"]
    /\ documents = [d \in Kinds \X Issuers |-> "unknown"]
    /\ down = {}
    /\ expired = {}

-----------------------------------------------------------------------------
(* handleInitialize() after its await: everything by the configuration     *)
(* that was read before it.                                                *)
AnswerInitialize(r, jwt) ==
    LET id == Resolved(r, jwt)
    IN  \/ /\ id = None
           /\ answer' = Challenge(r, r.conf)
           /\ UNCHANGED sessions
        \/ /\ id # None /\ ~Allowed(r.conf, id, r.ns, r.mode)
           /\ answer' = Refused(r)
           /\ UNCHANGED sessions
        \/ /\ id # None /\ Allowed(r.conf, id, r.ns, r.mode)
           /\ \E s \in SessionIds :
                /\ sessions[s] = None
                /\ \A d \in Clients : asked[d] # None => asked[d].id # s
                /\ sessions' = [sessions EXCEPT ![s] =
                                  [user |-> id.sub, ns |-> r.ns, opener |-> r.cred,
                                   host |-> r.host, conf |-> r.conf]]
                /\ answer' = [kind |-> "opened", id |-> s, request |-> r]

(* handleToolsList() and handleToolsCall() after theirs: the session read  *)
(* before is written back, unless the request names another version of the *)
(* protocol than the session's; and a challenge is built from the          *)
(* configuration of the moment.                                            *)
AnswerUse(r, jwt) ==
    \/ /\ MatchesSession(r, jwt)
       /\ sessions' = [sessions EXCEPT ![r.id] = r.session]
       /\ answer' = [kind |-> "served", request |-> r]
    \/ /\ MatchesSession(r, jwt)
       /\ answer' = Refused(r)
       /\ UNCHANGED sessions
    \/ /\ ~MatchesSession(r, jwt)
       /\ answer' = Challenge(r, conf)
       /\ UNCHANGED sessions

(* GET /mcp/:namespace: a stream is opened for any identity.               *)
AnswerStream(r, jwt) ==
    /\ answer' = IF Resolved(r, jwt) = None
                 THEN Challenge(r, r.conf)
                 ELSE [kind |-> "stream", request |-> r]
    /\ UNCHANGED sessions

Answer(r, jwt) ==
    \/ r.op = "initialize" /\ AnswerInitialize(r, jwt)
    \/ r.op = "use" /\ AnswerUse(r, jwt)
    \/ r.op = "stream" /\ AnswerStream(r, jwt)

\* Where the keys for this request's token are, if they are asked for.
Url(r) ==
    LET oauth == Inbound(r.conf, r.host)
        server == ServerOf(oauth, r.cred)
    IN  IF r.cred \notin Tokens \/ ~Knows(oauth, r.cred) \/ server.jwks = "given" THEN "given"
        ELSE jwks[server.issuer]

\* The request is answered at once, unless its token must be validated.
Handle(c, r) ==
    /\ IF Validates(r)
       THEN /\ asked' = [asked EXCEPT ![c] = [r EXCEPT !.url = Url(r)]]
            /\ answer' = NoAnswer
            /\ UNCHANGED sessions
       ELSE /\ Answer(r, None)
            /\ UNCHANGED asked
    /\ UNCHANGED <<conf, jwks, documents, down, expired>>

Request(op, ns, cred, mode, host, site, id) ==
    [op |-> op, ns |-> ns, cred |-> cred, mode |-> mode, host |-> host, site |-> site,
     id |-> id, session |-> IF id = None THEN None ELSE sessions[id],
     conf |-> conf, url |-> "given"]

(* GET and POST /mcp/:namespace, from a client at its site.  A browser at  *)
(* a site that is not allowed, and a request that names no live session of *)
(* its namespace, are turned away before anything else.                    *)
HttpRequest(c) ==
    /\ asked[c] = None
    /\ \E ns \in Namespaces, cred \in Held[c] \cup {None}, host \in Hosts :
        /\ SiteAllowed(conf, host, SiteOf[c])
        /\ \/ \E mode \in Modes :
                Handle(c, Request("initialize", ns, cred, mode, host, SiteOf[c], None))
           \/ Handle(c, Request("stream", ns, cred, None, host, SiteOf[c], None))
           \/ \E s \in SessionIds :
                /\ sessions[s] # None
                /\ sessions[s].ns = ns
                /\ Handle(c, Request("use", ns, cred, None, host, SiteOf[c], s))

(* discoverJwksUri() ends: what it came to is kept, a guess included.      *)
Discovered(c) ==
    /\ asked[c] # None /\ asked[c].url = "unknown"
    /\ LET issuer == asked[c].cred.iss
           url == IF issuer \in down THEN "fallback" ELSE "right"
       IN  /\ asked' = [asked EXCEPT ![c].url = url]
           /\ jwks' = [jwks EXCEPT ![issuer] = url]
    /\ answer' = NoAnswer
    /\ UNCHANGED <<conf, sessions, documents, down, expired>>

(* jwtVerify() ends, and the request is answered.                          *)
Verified(c) ==
    /\ asked[c] # None /\ asked[c].url # "unknown"
    /\ LET r == asked[c]
       IN  \E jwt \in Validated(Inbound(r.conf, r.host), r.cred, r.ns, r.url) : Answer(r, jwt)
    /\ asked' = [asked EXCEPT ![c] = None]
    /\ UNCHANGED <<conf, jwks, documents, down, expired>>

(* One of the routes that proxy the issuer's metadata is asked for it.     *)
(* What the first request for a document came to is kept, nothing included. *)
GetDocument(kind) ==
    /\ \E ns \in Namespaces \cup {None}, host \in Hosts :
        LET oauth == Inbound(conf, host)
            issuer == MetadataIssuer(oauth)
        IN  /\ HasMetadata(conf, host, ns)
            /\ oauth.provider = "external"
            /\ documents[<<kind, issuer>>] = "unknown"
            /\ documents' = [documents EXCEPT ![<<kind, issuer>>] =
                               IF issuer \in down THEN "missing" ELSE "found"]
    /\ answer' = NoAnswer
    /\ UNCHANGED <<conf, sessions, asked, jwks, down, expired>>

-----------------------------------------------------------------------------
SaveConfig ==
    /\ conf' \in Configs \ {conf}
    /\ answer' = NoAnswer
    /\ UNCHANGED <<sessions, asked, jwks, documents, down, expired>>

\* A session is revoked, or expires.
EndSession(s) ==
    /\ sessions[s] # None
    /\ sessions' = [sessions EXCEPT ![s] = None]
    /\ answer' = NoAnswer
    /\ UNCHANGED <<conf, asked, jwks, documents, down, expired>>

TokenExpires(t) ==
    /\ t \notin expired
    /\ expired' = expired \cup {t}
    /\ answer' = NoAnswer
    /\ UNCHANGED <<conf, sessions, asked, jwks, documents, down>>

\* An issuer goes down, or comes back.
IssuerToggles(i) ==
    /\ down' = IF i \in down THEN down \ {i} ELSE down \cup {i}
    /\ answer' = NoAnswer
    /\ UNCHANGED <<conf, sessions, asked, jwks, documents, expired>>

\* The gateway is restarted: the caches and the requests are gone, and the
\* sessions unless they are stored.
GatewayRestarts ==
    /\ asked' = [c \in Clients |-> None]
    /\ jwks' = [i \in Issuers |-> "unknown"]
    /\ documents' = [d \in Kinds \X Issuers |-> "unknown"]
    /\ sessions' \in {sessions, [s \in SessionIds |-> None]}
    /\ answer' = NoAnswer
    /\ UNCHANGED <<conf, down, expired>>

AccessNext ==
    \/ \E c \in Clients : HttpRequest(c) \/ Discovered(c) \/ Verified(c)
    \/ \E kind \in Kinds : GetDocument(kind)
    \/ SaveConfig
    \/ \E s \in SessionIds : EndSession(s)
    \/ \E t \in Tokens : TokenExpires(t)
    \/ \E i \in Issuers : IssuerToggles(i)
    \/ GatewayRestarts

AccessSpec == AccessInit /\ [][AccessNext]_accessVars

-----------------------------------------------------------------------------
(* Whom a credential stands for by a configuration, when nothing fails.    *)
StandsFor(cfg, host, ns, cred) ==
    IF KeyIdentity(cfg, cred) # None THEN KeyIdentity(cfg, cred).sub
    ELSE IF cred \in Tokens THEN cred.sub
    ELSE None

(* Where OAuth applies, a session serves nobody but the user who opened    *)
(* it, whatever was saved since, keys that changed hands included          *)
(* (auth/mcp-identity.ts:62-99).                                           *)
OwnersOnly ==
    answer.kind = "served" =>
        LET r == answer.request
            s == r.session
        IN  Asks(r.conf, r.host, r.ns) =>
              StandsFor(r.conf, r.host, r.ns, r.cred) = StandsFor(s.conf, s.host, s.ns, s.opener)

(* The credential that opened a session goes on serving it under the same  *)
(* configuration, until it expires, its issuer cannot be reached, or its   *)
(* keys are looked for at a guessed address (mcp.ts:278-296).              *)
StaysOpen ==
    answer.kind \in {"challenge", "internal error"} /\ answer.request.op = "use" =>
        LET r == answer.request
            s == r.session
        IN  \/ <<r.cred, r.host, r.conf>> # <<s.opener, s.host, s.conf>>
            \/ r.cred \in expired
            \/ r.cred \in Tokens /\ r.cred.iss \in down
            \/ r.url = "fallback"

(* A challenge can be followed under the configuration it was made by: its *)
(* browser can read the protected-resource document and, of the gateway's  *)
(* own server, that server's document, and a token that a listed server    *)
(* issues for the resource is one this request would be served with        *)
(* (oauth-challenge.ts:11-26, oauth-metadata.ts:12-28, 57-80).  Left out   *)
(* are a custom audience, a signing key that is not there, and an empty    *)
(* requireForNamespaces in hybrid mode, which protects every namespace and *)
(* hides the root document.                                                *)
Follows(cfg, base, r) ==
    LET body == ProtectedResource(cfg, base, r.ns)
        oauth == Inbound(cfg, r.host)
        kind == "oauth-authorization-server"
    IN  /\ Described(cfg, base, r.ns)
        /\ SiteAllowed(cfg, base, r.site)
        /\ \A server \in body.servers :
             LET token == [iss |-> server, aud |-> {body.resource}, sub |-> "anybody", roles |-> {}]
             IN  IF oauth.provider = "embedded"
                 THEN /\ cfg.required # {} =>
                           ServerDocument(cfg, server, None, kind) = [issuer |-> server]
                      /\ cfg.key => AcceptsEmbedded(oauth, token, r.ns)
                 ELSE ServerOf(oauth, token).audience = None =>
                        Claims(token) \in ValidExternal(oauth, token, r.ns, "right")
        /\ \A i \in Issuers :
             documents[<<kind, i>>] = "found" /\ MetadataIssuer(oauth) = i =>
               ServerDocument(cfg, base, r.ns, kind) = [issuer |-> i]

ChallengeFollowable ==
    answer.kind = "challenge" /\ answer.conf = answer.request.conf =>
        Follows(answer.conf, answer.base, answer.request)

AccessTypeOK ==
    /\ conf \in Configs
    /\ \A s \in SessionIds : sessions[s] # None => sessions[s] \in Session
    /\ \A c \in Clients : asked[c] # None => asked[c].cred \in Keys \cup Tokens
    /\ jwks \in [Issuers -> {"unknown", "right", "fallback"}]
    /\ documents \in [Kinds \X Issuers -> {"unknown", "found", "missing"}]
    /\ down \subseteq Issuers /\ expired \subseteq Tokens
=============================================================================
