---------------------------- MODULE InboundOAuth ----------------------------
(***************************************************************************)
(* The OAuth server the gateway embeds (gateway/routes/embedded-oauth.ts), *)
(* from the login of an administrator (gateway/admin-auth-session.ts) over *)
(* the registration of a client, its authorisation and the exchange of its *)
(* code to the check of the token it gets (auth/oauth-validator.ts), while *)
(* the configuration changes and the gateway restarts.                     *)
(*                                                                         *)
(* Clients, admin sessions and codes live in memory; the signing keys are  *)
(* part of the configuration.  Identifiers are never given out twice.      *)
(***************************************************************************)
EXTENDS Naturals, FiniteSets

CONSTANTS
    Logins,      \* admin sessions, in the order of their creation
    Registrations,  \* of clients
    Codes,       \* authorisation codes
    Resources,   \* namespaces, for each of which a token may be
    KeyPairs,    \* pairs of signing keys
    NoKeys,
    Password,    \* is an administrator's password configured?
    LoginTTL, CodeTTL, TokenTTL,
    MaxSaves     \* bound on the changes of the configuration

ASSUME TTLAssumption == LoginTTL \in Nat /\ CodeTTL \in Nat /\ TokenTTL \in Nat
ASSUME SavesAssumption == MaxSaves \in Nat
ASSUME PasswordAssumption == Password \in BOOLEAN

New == [at |-> "new"]      \* not given out so far
Gone == [at |-> "gone"]    \* deleted, or lost in a restart

VARIABLES
    auth,        \* the auth section of the effective configuration
    login,       \* adminSessions
    client,      \* registeredClients
    code,        \* authorizationCodes
    signing,     \* exchanges that await the signature
    token,       \* the tokens clients have got for each code
    exchanged,   \* history: how often each code was exchanged, up to twice
    sinceLogin,  \* history: time since somebody logged in with the password
    held,        \* history: keys that have been part of a configuration
    saves        \* history: the number of saves

vars == <<auth, login, client, code, signing, token, exchanged, sinceLogin, held, saves>>

Auth == [provider : {"none", "embedded", "external"}, keys : KeyPairs \cup {NoKeys}]

CodeRecord == [at : {"live"}, client : Registrations, namespace : Resources,
               pkce : BOOLEAN, age : 0..CodeTTL + 1]

Token == [code : Codes, client : Registrations, namespace : Resources, keys : KeyPairs,
          age : 0..TokenTTL + 1]

\* No login is remembered for longer than a token can matter.
Forever == LoginTTL + CodeTTL + TokenTTL + 1

\* The gateway listens: what a start does about the keys is done.
Init ==
    /\ auth \in [provider : {"embedded"}, keys : KeyPairs]
               \cup [provider : {"none", "external"}, keys : {NoKeys}]
    /\ login = [l \in Logins |-> New]
    /\ client = [c \in Registrations |-> "new"]
    /\ code = [k \in Codes |-> New]
    /\ signing = {}
    /\ token = [k \in Codes |-> {}]
    /\ exchanged = [k \in Codes |-> 0]
    /\ sinceLogin = Forever
    /\ held = {auth.keys} \ {NoKeys}
    /\ saves = 0

-----------------------------------------------------------------------------
(* Administrators.                                                         *)

\* Mutant: a session never expires.
ValidForever(l) == login[l].at = "live"

\* isValidAdminSession()
ValidLogin(l) == login[l].at = "live" /\ login[l].age <= LoginTTL

\* The password was right: POST /admin/auth/login or POST /oauth/authorize.
LogIn(l) ==
    /\ Password
    /\ login[l] = New
    /\ login' = [login EXCEPT ![l] = [at |-> "live", age |-> 0]]
    /\ sinceLogin' = 0
    /\ UNCHANGED <<auth, client, code, signing, token, exchanged, held, saves>>

LogOut(l) ==
    /\ ValidLogin(l)
    /\ login' = [login EXCEPT ![l] = Gone]
    /\ UNCHANGED <<auth, client, code, signing, token, exchanged, sinceLogin, held, saves>>

-----------------------------------------------------------------------------
(* Clients.                                                                *)

Register(c) ==
    /\ auth.provider = "embedded"
    /\ client[c] = "new"
    /\ client' = [client EXCEPT ![c] = "registered"]
    /\ UNCHANGED <<auth, login, code, signing, token, exchanged, sinceLogin, held, saves>>

\* oauthIdentityFromRequest(): somebody is logged in, or need not be.
Identified == ~Password \/ \E l \in Logins : ValidLogin(l)

\* GET /oauth/authorize, from the browser of an administrator.
Authorize(c, k, n, pkce) ==
    /\ auth.provider = "embedded"
    /\ client[c] = "registered" /\ code[k] = New
    /\ Identified
    /\ code' = [code EXCEPT ![k] = [at |-> "live", client |-> c, namespace |-> n,
                                    pkce |-> pkce, age |-> 0]]
    /\ UNCHANGED <<auth, login, client, signing, token, exchanged, sinceLogin, held, saves>>

Fresh(k) == code[k].at = "live" /\ code[k].age <= CodeTTL

\* Does the request of c prove that c was given the code?  A code without
\* a challenge asks for no verifier.
Proves(c, k, verifier) ==
    /\ client[c] = "registered" /\ code[k].client = c
    /\ code[k].pkce => verifier

\* Mutant: the code is deleted after the signature, not before.
BeginLeavingCode(c, k, verifier) ==
    /\ auth.provider = "embedded"
    /\ Fresh(k) /\ Proves(c, k, verifier)
    /\ code' = code
    /\ signing' = signing \cup {[code |-> k, client |-> c, namespace |-> code[k].namespace,
                                 keys |-> auth.keys, age |-> 0]}
    /\ UNCHANGED <<auth, login, client, token, exchanged, sinceLogin, held, saves>>

\* POST /oauth/token up to the signature, which is awaited.  Without keys it
\* fails; the code is gone then, too.
BeginExchange(c, k, verifier) ==
    /\ auth.provider = "embedded"
    /\ Fresh(k) /\ Proves(c, k, verifier)
    /\ code' = [code EXCEPT ![k] = Gone]
    /\ signing' = IF auth.keys = NoKeys THEN signing
                  ELSE signing \cup {[code |-> k, client |-> c, namespace |-> code[k].namespace,
                                      keys |-> auth.keys, age |-> 0]}
    /\ UNCHANGED <<auth, login, client, token, exchanged, sinceLogin, held, saves>>

\* Mutant: whatever the reason for the refusal, the code is deleted.
RefuseAndDelete(c, k, verifier) ==
    /\ auth.provider = "embedded"
    /\ client[c] = "registered" /\ code[k].at = "live"
    /\ ~(Fresh(k) /\ Proves(c, k, verifier))
    /\ code' = [code EXCEPT ![k] = Gone]
    /\ UNCHANGED <<auth, login, client, signing, token, exchanged, sinceLogin, held, saves>>

\* The request is refused; a code that is out of date is deleted.
RefuseExchange(c, k, verifier) ==
    /\ auth.provider = "embedded"
    /\ client[c] = "registered" /\ code[k].at = "live"
    /\ ~(Fresh(k) /\ Proves(c, k, verifier))
    /\ code' = IF Fresh(k) THEN code ELSE [code EXCEPT ![k] = Gone]
    /\ UNCHANGED <<auth, login, client, signing, token, exchanged, sinceLogin, held, saves>>

\* The token is signed with the keys of the configuration the exchange found,
\* and dates from then.
EndExchange(x) ==
    /\ signing' = signing \ {x}
    /\ token' = [token EXCEPT ![x.code] = @ \cup {x}]
    /\ exchanged' = [exchanged EXCEPT ![x.code] = IF @ < 2 THEN @ + 1 ELSE @]
    /\ UNCHANGED <<auth, login, client, code, sinceLogin, held, saves>>

(* OAuthJwtValidator.validateEmbedded(): the token may be used for n.      *)
Accepted(t, n) ==
    /\ auth.provider = "embedded"
    /\ auth.keys = t.keys
    /\ t.namespace = n
    /\ t.age <= TokenTTL

-----------------------------------------------------------------------------
(* The configuration.  A save takes the auth section as the request has it:*)
(* its keys are those of a page that was loaded at some time, of a version *)
(* that is rolled back to, or none.  Without OAuth no keys are kept.       *)

SaveAuth(provider, keys) ==
    /\ saves < MaxSaves
    /\ keys \in held \cup {NoKeys}
    /\ provider = "none" => keys = NoKeys
    /\ auth' = [provider |-> provider, keys |-> keys]
    /\ saves' = saves + 1
    /\ UNCHANGED <<login, client, code, signing, token, exchanged, sinceLogin, held>>

\* ensureEmbeddedKeys(): the keys after a start.
EnsureKeys(keys) ==
    IF auth.provider = "embedded" /\ auth.keys = NoKeys
    THEN keys \in KeyPairs \ held
    ELSE keys = auth.keys

(* The gateway stops, or dies, and starts: memory is empty.  Clients keep  *)
(* the tokens they have got.                                               *)
Restart ==
    \E keys \in KeyPairs \cup {NoKeys} :
        /\ EnsureKeys(keys)
        /\ auth' = [auth EXCEPT !.keys = keys]
        /\ held' = held \cup ({keys} \ {NoKeys})
        /\ login' = [l \in Logins |-> IF login[l] = New THEN New ELSE Gone]
        /\ client' = [c \in Registrations |-> IF client[c] = "new" THEN "new" ELSE "lost"]
        /\ code' = [k \in Codes |-> IF code[k] = New THEN New ELSE Gone]
        /\ signing' = {}
        /\ UNCHANGED <<token, exchanged, sinceLogin, saves>>

Older(x, ttl) == IF x.at = "live" /\ x.age <= ttl THEN [x EXCEPT !.age = @ + 1] ELSE x

AgedToken(t) == IF t.age <= TokenTTL THEN [t EXCEPT !.age = @ + 1] ELSE t

Aged(T) == {AgedToken(t) : t \in T}

Tick ==
    /\ login' = [l \in Logins |-> Older(login[l], LoginTTL)]
    /\ code' = [k \in Codes |-> Older(code[k], CodeTTL)]
    /\ token' = [k \in Codes |-> Aged(token[k])]
    /\ signing' = Aged(signing)
    /\ sinceLogin' = IF sinceLogin < Forever THEN sinceLogin + 1 ELSE sinceLogin
    /\ UNCHANGED <<auth, client, exchanged, held, saves>>

Next ==
    \/ \E l \in Logins : LogIn(l) \/ LogOut(l)
    \/ \E c \in Registrations : Register(c)
    \/ \E c \in Registrations, k \in Codes, n \in Resources, pkce \in BOOLEAN :
          Authorize(c, k, n, pkce)
    \/ \E c \in Registrations, k \in Codes, verifier \in BOOLEAN :
          BeginExchange(c, k, verifier) \/ RefuseExchange(c, k, verifier)
    \/ \E x \in signing : EndExchange(x)
    \/ \E provider \in {"none", "embedded", "external"}, keys \in KeyPairs \cup {NoKeys} :
          SaveAuth(provider, keys)
    \/ Restart
    \/ Tick

Spec == Init /\ [][Next]_vars

-----------------------------------------------------------------------------
TypeOK ==
    /\ auth \in Auth
    /\ login \in [Logins -> {New, Gone} \cup [at : {"live"}, age : 0..LoginTTL + 1]]
    /\ client \in [Registrations -> {"new", "registered", "lost"}]
    /\ code \in [Codes -> {New, Gone} \cup CodeRecord]
    /\ signing \subseteq Token
    /\ token \in [Codes -> SUBSET Token]
    /\ exchanged \in [Codes -> 0..2]
    /\ sinceLogin \in 0..Forever
    /\ held \subseteq KeyPairs
    /\ saves \in 0..MaxSaves

(* A code is exchanged once, whoever else presents it while the token is   *)
(* being signed (embedded-oauth.ts:363-364).                               *)
CodeOnce == \A k \in Codes : exchanged[k] <= 1

(* With a password, nobody holds a token that counts unless somebody has   *)
(* logged in not longer ago than an admin session, a code and a token      *)
(* together last, whoever logged out and whatever was configured since.    *)
TokensBacked ==
    Password =>
        \A k \in Codes : \A t \in token[k], n \in Resources :
            Accepted(t, n) => sinceLogin <= LoginTTL + CodeTTL + t.age

(* A code goes when its own client exchanges it, when it is out of date or *)
(* in a restart: a request of somebody else does not cost the client its   *)
(* code (embedded-oauth.ts:348-358).                                       *)
CodeKept ==
    [][\A k \in Codes :
          Fresh(k) /\ code'[k] = Gone =>
             \/ Restart
             \/ \E verifier \in BOOLEAN : BeginExchange(code[k].client, k, verifier)]_vars
=============================================================================
