--------------------------- MODULE InboundProofs ----------------------------
(***************************************************************************)
(* Theorems about the two models of how clients get in.                    *)
(*                                                                         *)
(* InboundOAuth, for any logins, clients, codes, keys and lifetimes.  A    *)
(* code is exchanged once because it is deleted before the signature is    *)
(* awaited: a code that may still be used has no exchange behind it, and   *)
(* no two exchanges under way are of one code.  A token is backed by a     *)
(* login because each step from a login over a code and an exchange to a   *)
(* token adds at most one lifetime.                                        *)
(*                                                                         *)
(* In the second half McpAccess, for any configurations, hosts, clients,   *)
(* tokens and issuers.  A session and its opener stand for one user        *)
(* because only what was accepted opens one (Opened); that the opener was  *)
(* accepted is what makes it acceptable again.  Of a challenge, that the   *)
(* origin it names is resolved to itself, and so leads to the documents of *)
(* the very configuration it was made by.                                  *)
(***************************************************************************)
EXTENDS InboundOAuth, McpAccess, TLAPS

Usable(k) == code[k].at \in {"new", "live"}

(* Exchanges under way are of codes that are gone, and of different ones.  *)
Spent ==
    /\ \A k \in Codes : Usable(k) => exchanged[k] = 0 /\ \A x \in signing : x.code # k
    /\ \A x \in signing : exchanged[x.code] = 0
    /\ \A x, y \in signing : x.code = y.code => x = y

(* What a login is behind: sessions, codes, exchanges and tokens that are  *)
(* not out of date.                                                        *)
BackedLogin(l) ==
    login[l].at = "live" /\ login[l].age <= LoginTTL => sinceLogin <= login[l].age

BackedCode(k) ==
    code[k].at = "live" /\ code[k].age <= CodeTTL => sinceLogin <= LoginTTL + code[k].age

BackedSet(T) ==
    \A t \in T : t.age <= TokenTTL => sinceLogin <= LoginTTL + CodeTTL + t.age

Backed ==
    Password =>
        /\ \A l \in Logins : BackedLogin(l)
        /\ \A k \in Codes : BackedCode(k) /\ BackedSet(token[k])
        /\ BackedSet(signing)

IInv == TypeOK /\ Spent /\ CodeOnce /\ Backed

-----------------------------------------------------------------------------
(* Ages and lifetimes are numbers.                                         *)
LEMMA Lifetimes ==
  /\ LoginTTL \in Nat /\ CodeTTL \in Nat /\ TokenTTL \in Nat /\ MaxSaves \in Nat
  /\ Forever \in Nat /\ Forever > LoginTTL + CodeTTL + TokenTTL
BY TTLAssumption, SavesAssumption DEF Forever

(* What a code that may be used, and what an exchange, are made of.        *)
LEMMA MarkerKinds ==
  ASSUME TypeOK
  PROVE  /\ \A k \in Codes : code[k].at = "live" => code[k] \in CodeRecord
         /\ \A k \in Codes : code[k] \in CodeRecord => code[k] # New /\ code[k] # Gone
         /\ \A l \in Logins : login[l].at = "live" =>
               login[l] \in [at : {"live"}, age : 0..LoginTTL + 1]
BY DEF TypeOK, New, Gone, CodeRecord

LEMMA InitEstablishes == ASSUME Init PROVE IInv
<1>1. TypeOK
  BY Lifetimes DEF Init, TypeOK, Auth, New, Gone
<1>2. Spent /\ CodeOnce
  BY DEF Init, Spent, CodeOnce
<1>3. Backed
  BY DEF Init, Backed, BackedLogin, BackedCode, BackedSet, New
<1>4. QED BY <1>1, <1>2, <1>3 DEF IInv

-----------------------------------------------------------------------------
(* Time: what is backed stays backed, as everything ages at one pace.      *)
LEMMA AgedOne ==
  ASSUME NEW u \in Token
  PROVE  /\ AgedToken(u) \in Token /\ AgedToken(u).code = u.code
         /\ AgedToken(u).age <= TokenTTL =>
               u.age <= TokenTTL /\ AgedToken(u).age = u.age + 1
BY Lifetimes DEF AgedToken, Token

LEMMA AgedTokens ==
  ASSUME NEW T \in SUBSET Token
  PROVE  /\ Aged(T) \in SUBSET Token
         /\ sinceLogin' <= sinceLogin + 1 /\ sinceLogin \in Nat /\ sinceLogin' \in Nat
              /\ BackedSet(T)
            => \A t \in Aged(T) :
                  t.age <= TokenTTL => sinceLogin' <= LoginTTL + CodeTTL + t.age
<1>1. \A t \in Aged(T) : \E u \in T : t = AgedToken(u)
  BY DEF Aged
<1>2. \A u \in Token : u.age \in Nat
  BY Lifetimes DEF Token
<1>3. QED BY <1>1, <1>2, AgedOne, Lifetimes DEF BackedSet

LEMMA TickKeeps == ASSUME IInv, Tick PROVE IInv'
<1>1. sinceLogin \in 0..Forever /\ sinceLogin' \in 0..Forever /\ sinceLogin' <= sinceLogin + 1
      /\ sinceLogin' = (IF sinceLogin < Forever THEN sinceLogin + 1 ELSE sinceLogin)
  <2>1. /\ sinceLogin \in 0..Forever
        /\ sinceLogin' = (IF sinceLogin < Forever THEN sinceLogin + 1 ELSE sinceLogin)
    BY DEF IInv, TypeOK, Tick
  <2>2. QED BY <2>1, Lifetimes
<1>2. \A l \in Logins :
        /\ login'[l] \in {New, Gone} \cup [at : {"live"}, age : 0..LoginTTL + 1]
        /\ Password => BackedLogin(l)'
  <2>1. SUFFICES ASSUME NEW l \in Logins
                 PROVE  /\ login'[l] \in {New, Gone} \cup [at : {"live"}, age : 0..LoginTTL + 1]
                        /\ Password => BackedLogin(l)'
    OBVIOUS
  <2>2. login'[l] = Older(login[l], LoginTTL)
    BY DEF Tick
  <2>3. CASE login[l].at = "live"
    <3>1. login[l] \in [at : {"live"}, age : 0..LoginTTL + 1]
      BY <2>3, MarkerKinds DEF IInv
    <3>2. login'[l] \in [at : {"live"}, age : 0..LoginTTL + 1]
          /\ (login'[l].age <= LoginTTL => login'[l].age = login[l].age + 1)
      BY <2>2, <3>1, Lifetimes DEF Older
    <3>3. Password => BackedLogin(l)'
      BY <1>1, <3>1, <3>2, Lifetimes DEF IInv, Backed, BackedLogin
    <3>4. QED BY <3>2, <3>3
  <2>4. CASE login[l].at # "live"
    BY <2>2, <2>4 DEF IInv, TypeOK, Older, BackedLogin
  <2>5. QED BY <2>3, <2>4
<1>3. \A k \in Codes :
        /\ code'[k] \in {New, Gone} \cup CodeRecord
        /\ Usable(k)' <=> Usable(k)
        /\ Password => BackedCode(k)'
  <2>1. SUFFICES ASSUME NEW k \in Codes
                 PROVE  /\ code'[k] \in {New, Gone} \cup CodeRecord
                        /\ Usable(k)' <=> Usable(k)
                        /\ Password => BackedCode(k)'
    OBVIOUS
  <2>2. code'[k] = Older(code[k], CodeTTL)
    BY DEF Tick
  <2>3. CASE code[k].at = "live"
    <3>1. code[k] \in CodeRecord
      BY <2>3, MarkerKinds DEF IInv
    <3>2. /\ code'[k] \in CodeRecord /\ code'[k].at = "live"
          /\ (code'[k].age <= CodeTTL => code'[k].age = code[k].age + 1)
      BY <2>2, <3>1, Lifetimes DEF Older, CodeRecord
    <3>3. Password => BackedCode(k)'
      BY <1>1, <3>1, <3>2, Lifetimes DEF IInv, Backed, BackedCode, CodeRecord
    <3>4. QED BY <2>3, <3>2, <3>3 DEF Usable
  <2>4. CASE code[k].at # "live"
    BY <2>2, <2>4 DEF IInv, TypeOK, Older, BackedCode, Usable
  <2>5. QED BY <2>3, <2>4
<1>4. /\ signing' \in SUBSET Token
      /\ \A x \in signing' : \E y \in signing : x.code = y.code
      /\ \A x, y \in signing' : x.code = y.code => x = y
      /\ Password => BackedSet(signing)'
  <2>1. signing \in SUBSET Token /\ signing' = Aged(signing)
    BY DEF IInv, TypeOK, Tick
  <2>2. \A x \in signing' : \E u \in signing : x = AgedToken(u)
    BY <2>1 DEF Aged
  <2>3. \A x \in signing' : \E u \in signing : x = AgedToken(u) /\ x.code = u.code
    BY <2>1, <2>2, AgedOne
  <2>4. \A x, y \in signing' : x.code = y.code => x = y
    BY <2>3 DEF IInv, Spent
  <2>5. signing' \in SUBSET Token /\ (Password => BackedSet(signing)')
    BY <1>1, <2>1, AgedTokens, Lifetimes DEF IInv, Backed, BackedSet
  <2>6. QED BY <2>3, <2>4, <2>5
<1>5. \A k \in Codes : token'[k] \in SUBSET Token /\ (Password => BackedSet(token[k])')
  <2>1. SUFFICES ASSUME NEW k \in Codes
                 PROVE  token'[k] \in SUBSET Token /\ (Password => BackedSet(token[k])')
    OBVIOUS
  <2>2. token[k] \in SUBSET Token /\ token'[k] = Aged(token[k])
    BY DEF IInv, TypeOK, Tick
  <2>3. QED BY <1>1, <2>2, AgedTokens, Lifetimes DEF IInv, Backed, BackedSet
<1>6. TypeOK'
  BY <1>1, <1>2, <1>3, <1>4, <1>5 DEF IInv, TypeOK, Tick
<1>7. Spent' /\ CodeOnce'
  BY <1>3, <1>4 DEF IInv, Spent, CodeOnce, Tick, TypeOK, Token
<1>8. Backed'
  BY <1>2, <1>3, <1>4, <1>5 DEF Backed
<1>9. QED BY <1>6, <1>7, <1>8 DEF IInv

-----------------------------------------------------------------------------
(* The other actions.                                                      *)
LEMMA LogInKeeps == ASSUME IInv, NEW l \in Logins, LogIn(l) PROVE IInv'
<1>1. /\ login' = [login EXCEPT ![l] = [at |-> "live", age |-> 0]] /\ sinceLogin' = 0
      /\ UNCHANGED <<auth, client, code, signing, token, exchanged, held, saves>>
  BY DEF LogIn
<1>2. TypeOK'
  BY <1>1, Lifetimes DEF IInv, TypeOK
<1>3. Spent' /\ CodeOnce'
  BY <1>1 DEF IInv, Spent, CodeOnce, Usable
<1>4. Backed'
  <2>1. SUFFICES ASSUME Password PROVE Backed'
    BY DEF Backed
  <2>2. \A m \in Logins : BackedLogin(m)'
    BY <1>1, Lifetimes, MarkerKinds DEF IInv, TypeOK, BackedLogin
  <2>3. \A k \in Codes : BackedCode(k)' /\ BackedSet(token[k])'
    BY <1>1, Lifetimes, MarkerKinds DEF IInv, TypeOK, BackedCode, BackedSet, Token, CodeRecord
  <2>4. BackedSet(signing)'
    BY <1>1, Lifetimes DEF IInv, TypeOK, BackedSet, Token
  <2>5. QED BY <2>2, <2>3, <2>4 DEF Backed
<1>5. QED BY <1>2, <1>3, <1>4 DEF IInv

LEMMA LogOutKeeps == ASSUME IInv, NEW l \in Logins, LogOut(l) PROVE IInv'
<1>1. /\ login' = [login EXCEPT ![l] = Gone]
      /\ UNCHANGED <<auth, client, code, signing, token, exchanged, sinceLogin, held, saves>>
  BY DEF LogOut
<1>2. TypeOK'
  BY <1>1 DEF IInv, TypeOK
<1>3. Spent' /\ CodeOnce'
  BY <1>1 DEF IInv, Spent, CodeOnce, Usable
<1>4. Backed'
  BY <1>1 DEF IInv, TypeOK, Backed, BackedLogin, BackedCode, BackedSet, Gone
<1>5. QED BY <1>2, <1>3, <1>4 DEF IInv

(* Neither a registration nor a save touches logins, codes or tokens.      *)
LEMMA OtherKeeps ==
  ASSUME IInv,
         \/ \E c \in Registrations : Register(c)
         \/ \E provider \in {"none", "embedded", "external"}, keys \in KeyPairs \cup {NoKeys} :
                SaveAuth(provider, keys)
         \/ UNCHANGED vars
  PROVE  IInv'
<1>1. UNCHANGED <<login, code, signing, token, exchanged, sinceLogin>>
  BY DEF Register, SaveAuth, vars
<1>2. /\ auth' \in Auth /\ client' \in [Registrations -> {"new", "registered", "lost"}]
      /\ held' = held /\ saves' \in 0..MaxSaves
  BY Lifetimes DEF IInv, TypeOK, Register, SaveAuth, vars, Auth
<1>3. TypeOK'
  BY <1>1, <1>2 DEF IInv, TypeOK
<1>4. QED
  BY <1>1, <1>3 DEF IInv, Spent, CodeOnce, Usable, Backed, BackedLogin, BackedCode, BackedSet

LEMMA AuthorizeKeeps ==
  ASSUME IInv, NEW c \in Registrations, NEW k \in Codes, NEW n \in Resources, NEW pkce \in BOOLEAN,
         Authorize(c, k, n, pkce)
  PROVE  IInv'
<1>1. /\ code[k] = New
      /\ code' = [code EXCEPT ![k] = [at |-> "live", client |-> c, namespace |-> n,
                                      pkce |-> pkce, age |-> 0]]
      /\ UNCHANGED <<auth, login, client, signing, token, exchanged, sinceLogin, held, saves>>
  BY DEF Authorize
<1>2. code'[k] \in CodeRecord /\ code'[k].age = 0
  BY <1>1, Lifetimes DEF IInv, TypeOK, CodeRecord
<1>3. TypeOK'
  BY <1>1, <1>2 DEF IInv, TypeOK
<1>4. Spent' /\ CodeOnce'
  BY <1>1 DEF IInv, Spent, CodeOnce, Usable, New
<1>5. Backed'
  <2>1. SUFFICES ASSUME Password PROVE Backed'
    BY DEF Backed
  <2>2. sinceLogin <= LoginTTL
    <3>1. PICK l \in Logins : ValidLogin(l)
      BY <2>1 DEF Authorize, Identified
    <3>2. login[l] \in [at : {"live"}, age : 0..LoginTTL + 1]
      BY <3>1, MarkerKinds DEF IInv, ValidLogin
    <3>3. sinceLogin <= login[l].age /\ login[l].age <= LoginTTL
      BY <2>1, <3>1 DEF IInv, Backed, BackedLogin, ValidLogin
    <3>4. QED BY <3>2, <3>3, Lifetimes DEF IInv, TypeOK
  <2>3. \A j \in Codes : BackedCode(j)'
    BY <1>1, <1>2, <2>1, <2>2, Lifetimes DEF IInv, TypeOK, Backed, BackedCode
  <2>4. QED BY <1>1, <2>1, <2>3 DEF IInv, Backed, BackedLogin, BackedSet
<1>6. QED BY <1>3, <1>4, <1>5 DEF IInv

LEMMA BeginExchangeKeeps ==
  ASSUME IInv, NEW c \in Registrations, NEW k \in Codes, NEW verifier \in BOOLEAN,
         BeginExchange(c, k, verifier)
  PROVE  IInv'
<1> DEFINE x == [code |-> k, client |-> c, namespace |-> code[k].namespace,
                 keys |-> auth.keys, age |-> 0]
<1>1. /\ code' = [code EXCEPT ![k] = Gone] /\ code[k].at = "live" /\ code[k].age <= CodeTTL
      /\ signing' = IF auth.keys = NoKeys THEN signing ELSE signing \cup {x}
      /\ UNCHANGED <<auth, login, client, token, exchanged, sinceLogin, held, saves>>
  BY DEF BeginExchange, Fresh
<1>2. code[k] \in CodeRecord
  BY <1>1, MarkerKinds DEF IInv
<1>3. x.code = k /\ x.age = 0 /\ (auth.keys # NoKeys => x \in Token)
  BY <1>2, Lifetimes DEF IInv, TypeOK, Auth, CodeRecord, Token
<1>4. TypeOK'
  BY <1>1, <1>3 DEF IInv, TypeOK
<1>5. Spent' /\ CodeOnce'
  <2>1. exchanged[k] = 0 /\ \A y \in signing : y.code # k
    BY <1>1 DEF IInv, Spent, Usable
  <2>2. \A y \in signing' : y = x \/ y \in signing
    BY <1>1
  <2>3. \A j \in Codes : Usable(j)' => Usable(j) /\ j # k
    BY <1>1 DEF Usable, IInv, TypeOK, Gone
  <2>4. QED BY <1>1, <1>3, <2>1, <2>2, <2>3 DEF IInv, Spent, CodeOnce
<1>6. Backed'
  <2>1. SUFFICES ASSUME Password PROVE Backed'
    BY DEF Backed
  <2>2. sinceLogin <= LoginTTL + CodeTTL
    BY <1>1, <1>2, <2>1, Lifetimes DEF IInv, TypeOK, Backed, BackedCode, CodeRecord
  <2>3. BackedSet(signing)'
    BY <1>1, <1>3, <2>1, <2>2, Lifetimes DEF IInv, TypeOK, Backed, BackedSet
  <2>4. \A j \in Codes : BackedCode(j)'
    BY <1>1, <2>1 DEF IInv, TypeOK, Backed, BackedCode, Gone
  <2>5. QED BY <1>1, <2>1, <2>3, <2>4 DEF IInv, Backed, BackedLogin, BackedSet
<1>7. QED BY <1>4, <1>5, <1>6 DEF IInv

LEMMA RefuseExchangeKeeps ==
  ASSUME IInv, NEW c \in Registrations, NEW k \in Codes, NEW verifier \in BOOLEAN,
         RefuseExchange(c, k, verifier)
  PROVE  IInv'
<1>1. /\ code' \in {code, [code EXCEPT ![k] = Gone]}
      /\ UNCHANGED <<auth, login, client, signing, token, exchanged, sinceLogin, held, saves>>
  BY DEF RefuseExchange
<1>2. \A j \in Codes : code'[j] = code[j] \/ code'[j] = Gone
  BY <1>1 DEF IInv, TypeOK
<1>3. TypeOK'
  BY <1>1 DEF IInv, TypeOK
<1>4. Spent' /\ CodeOnce'
  BY <1>1, <1>2 DEF IInv, Spent, CodeOnce, Usable, Gone
<1>5. Backed'
  BY <1>1, <1>2 DEF IInv, Backed, BackedLogin, BackedCode, BackedSet, Gone
<1>6. QED BY <1>3, <1>4, <1>5 DEF IInv

LEMMA EndExchangeKeeps == ASSUME IInv, NEW x \in signing, EndExchange(x) PROVE IInv'
<1>1. x \in Token /\ x.code \in Codes /\ exchanged[x.code] = 0
  BY DEF IInv, TypeOK, Spent, Token
<1>2. /\ signing' = signing \ {x}
      /\ token' = [token EXCEPT ![x.code] = @ \cup {x}]
      /\ exchanged' = [exchanged EXCEPT ![x.code] = 1]
  BY <1>1 DEF IInv, TypeOK, EndExchange
<1>3. UNCHANGED <<auth, login, client, code, sinceLogin, held, saves>>
  BY DEF EndExchange, IInv
<1>4. TypeOK'
  BY <1>1, <1>2, <1>3 DEF IInv, TypeOK
<1>5. Spent' /\ CodeOnce'
  BY <1>1, <1>2, <1>3 DEF IInv, TypeOK, Spent, CodeOnce, Usable, Token
<1>6. Backed'
  BY <1>1, <1>2, <1>3 DEF IInv, TypeOK, Backed, BackedLogin, BackedCode, BackedSet
<1>7. QED BY <1>4, <1>5, <1>6 DEF IInv

LEMMA RestartKeeps == ASSUME IInv, Restart PROVE IInv'
<1>1. PICK keys \in KeyPairs \cup {NoKeys} :
        auth' = [auth EXCEPT !.keys = keys] /\ held' = held \cup ({keys} \ {NoKeys})
  BY DEF Restart
<1>2. /\ login' = [l \in Logins |-> IF login[l] = New THEN New ELSE Gone]
      /\ client' = [c \in Registrations |-> IF client[c] = "new" THEN "new" ELSE "lost"]
      /\ code' = [k \in Codes |-> IF code[k] = New THEN New ELSE Gone]
      /\ signing' = {}
      /\ UNCHANGED <<token, exchanged, sinceLogin, saves>>
  BY DEF Restart
<1>3. auth' \in Auth /\ held' \subseteq KeyPairs
  BY <1>1 DEF IInv, TypeOK, Auth
<1>4. TypeOK'
  BY <1>2, <1>3 DEF IInv, TypeOK
<1>5. Spent' /\ CodeOnce'
  BY <1>2 DEF IInv, TypeOK, Spent, CodeOnce, Usable, New, Gone
<1>6. Backed'
  BY <1>2 DEF IInv, Backed, BackedLogin, BackedCode, BackedSet, New, Gone
<1>7. QED BY <1>4, <1>5, <1>6 DEF IInv

LEMMA StepKeeps == ASSUME IInv, [Next]_vars PROVE IInv'
BY LogInKeeps, LogOutKeeps, OtherKeeps, AuthorizeKeeps, BeginExchangeKeeps, RefuseExchangeKeeps,
   EndExchangeKeeps, RestartKeeps, TickKeeps DEF Next

-----------------------------------------------------------------------------
(* The inductive invariant holds in every reachable state.                 *)
THEOREM OAuthInvariant == Spec => []IInv
<1>1. Init => IInv
  BY InitEstablishes
<1>2. IInv /\ [Next]_vars => IInv'
  BY StepKeeps
<1>3. QED BY <1>1, <1>2, PTL DEF Spec

(* Clients, codes, tokens and ages keep their types                        *)
(* (embedded-oauth.ts:28-56).                                              *)
THEOREM OAuthTypeCorrect == Spec => []TypeOK
<1>1. IInv => TypeOK
  BY DEF IInv
<1>2. QED BY <1>1, OAuthInvariant, PTL

(* No code is exchanged twice, for any number of clients that present it   *)
(* while the first exchange awaits its signature                           *)
(* (embedded-oauth.ts:363-371).                                            *)
THEOREM ExchangedAtMostOnce == Spec => []CodeOnce
<1>1. IInv => CodeOnce
  BY DEF IInv
<1>2. QED BY <1>1, OAuthInvariant, PTL

(* With a password, a token that counts has a login behind it that is not  *)
(* older than a session, a code and the token's own age                    *)
(* (embedded-oauth.ts:115-125, 184-204).                                   *)
THEOREM TokensHaveLogins == Spec => []TokensBacked
<1>1. IInv => TokensBacked
  BY DEF IInv, Backed, BackedSet, TokensBacked, Accepted
<1>2. QED BY <1>1, OAuthInvariant, PTL

(* Only its own client, its age or a restart takes a code away             *)
(* (embedded-oauth.ts:348-363).                                            *)
THEOREM CodesKept == Spec => CodeKept
<1>1. ASSUME IInv, [Next]_vars, NEW k \in Codes, Fresh(k), code'[k] = Gone
      PROVE  \/ Restart
             \/ \E verifier \in BOOLEAN : BeginExchange(code[k].client, k, verifier)
  <2>1. /\ code[k] \in CodeRecord /\ code[k] # Gone /\ code[k] # New
        /\ code[k].client \in Registrations
    BY <1>1, MarkerKinds DEF Fresh, IInv, CodeRecord
  <2>2. ASSUME NEW c \in Registrations, NEW j \in Codes, NEW verifier \in BOOLEAN,
               BeginExchange(c, j, verifier)
        PROVE  BeginExchange(code[k].client, k, verifier)
    <3>1. j = k
      BY <1>1, <2>1, <2>2 DEF BeginExchange, IInv, TypeOK
    <3>2. code[k].client = c
      BY <2>2, <3>1 DEF BeginExchange, Proves
    <3>3. QED BY <2>2, <3>1, <3>2
  <2>3. ASSUME NEW c \in Registrations, NEW j \in Codes, NEW verifier \in BOOLEAN,
               RefuseExchange(c, j, verifier)
        PROVE  FALSE
    BY <1>1, <2>1, <2>3 DEF RefuseExchange, IInv, TypeOK
  <2>4. ASSUME NEW c \in Registrations, NEW j \in Codes, NEW n \in Resources, NEW pkce \in BOOLEAN,
               Authorize(c, j, n, pkce)
        PROVE  FALSE
    BY <1>1, <2>1, <2>4 DEF Authorize, IInv, TypeOK
  <2>5. ASSUME Tick PROVE FALSE
    <3>1. code'[k] = Older(code[k], CodeTTL)
      BY <2>5 DEF Tick
    <3>2. Older(code[k], CodeTTL).at = "live"
      BY <2>1, Lifetimes DEF Older, CodeRecord
    <3>3. QED BY <1>1, <3>1, <3>2 DEF Gone
  <2>6. ASSUME UNCHANGED code PROVE FALSE
    BY <1>1, <2>1, <2>6
  <2>7. QED
    BY <1>1, <2>2, <2>3, <2>4, <2>5, <2>6
       DEF Next, LogIn, LogOut, Register, EndExchange, SaveAuth, vars
<1>2. ASSUME IInv, [Next]_vars
      PROVE  \A k \in Codes : Fresh(k) /\ code'[k] = Gone =>
                \/ Restart
                \/ \E verifier \in BOOLEAN : BeginExchange(code[k].client, k, verifier)
  BY <1>1, <1>2
<1>3. QED BY <1>2, OAuthInvariant, PTL DEF Spec, CodeKept

-----------------------------------------------------------------------------
(* What an accepted token must have said, whenever it was accepted.        *)
Certifies(oauth, t, ns) ==
    IF oauth.provider = "embedded"
    THEN oauth.key /\ t.iss = oauth.base /\ Resource(oauth, ns) \in t.aud
    ELSE Knows(oauth, t) /\ Audience(oauth, ServerOf(oauth, t), ns) \in t.aud

(* A session stands for the user that its opener stands for: a static key, *)
(* or a token that the configuration of then accepts.                      *)
Opened(s) ==
    /\ s \in Session
    /\ s.user = StandsFor(s.conf, s.host, s.ns, s.opener)
    /\ KeyIdentity(s.conf, s.opener) = None =>
          /\ s.opener \in Tokens /\ s.opener # None /\ Claims(s.opener) # None
          /\ Certifies(Inbound(s.conf, s.host), s.opener, s.ns)

IsRequest(r) ==
    r = [op |-> r.op, ns |-> r.ns, cred |-> r.cred, mode |-> r.mode, host |-> r.host,
         site |-> r.site, id |-> r.id, session |-> r.session, conf |-> r.conf, url |-> r.url]

(* What a request has been found to be when it is handled.                 *)
Admitted(r) ==
    /\ IsRequest(r)
    /\ r.conf \in Configs /\ r.ns \in Namespaces /\ r.host \in Hosts
    /\ r.cred \in Keys \cup Tokens \cup {None}
    /\ SiteAllowed(r.conf, r.host, r.site)
    /\ r.op \in {"initialize", "use", "stream"}
    /\ r.op = "use" => r.id \in SessionIds /\ Opened(r.session) /\ r.session.ns = r.ns

SessionsOpened ==
    /\ sessions = [s \in SessionIds |-> sessions[s]]
    /\ \A s \in SessionIds : sessions[s] # None => Opened(sessions[s])

RequestsAdmitted ==
    /\ asked = [c \in Clients |-> asked[c]]
    /\ \A c \in Clients : asked[c] # None => Admitted(asked[c]) /\ Validates(asked[c])

AccessInv ==
    /\ AccessTypeOK /\ SessionsOpened /\ RequestsAdmitted
    /\ OwnersOnly /\ StaysOpen /\ ChallengeFollowable

-----------------------------------------------------------------------------
(* Identities.                                                             *)
LEMMA KeyFacts ==
  ASSUME NEW cfg \in Configs, NEW cred, KeyIdentity(cfg, cred) # None
  PROVE  cred \in Keys /\ KeyIdentity(cfg, cred).sub \in Users
<1>1. cred \in DOMAIN StaticKeys(cfg) /\ KeyIdentity(cfg, cred) = StaticKeys(cfg)[cred]
  BY DEF KeyIdentity
<1>2. CASE cfg.mode = "oauth"
  <2>1. StaticKeys(cfg) = << >>
    BY <1>2 DEF StaticKeys
  <2>2. QED BY <1>1, <2>1
<1>3. CASE cfg.mode # "oauth"
  <2>1. StaticKeys(cfg) = cfg.keys
    BY <1>3 DEF StaticKeys
  <2>2. QED BY <1>1, <2>1, ConfigsAssumption
<1>4. QED BY <1>2, <1>3

(* A token that is accepted says whom it is of, and certifies it.          *)
LEMMA AcceptedFacts ==
  ASSUME NEW oauth, NEW t, NEW ns, NEW url, NEW jwt \in Validated(oauth, t, ns, url), jwt # None
  PROVE  t \in Tokens /\ jwt = Claims(t) /\ Certifies(oauth, t, ns)
<1>1. t \in Tokens
  BY DEF Validated
<1>2. CASE oauth.provider = "embedded"
  BY <1>1, <1>2 DEF Validated, ValidEmbedded, AcceptsEmbedded, JwtVerifies, Certifies
<1>3. CASE oauth.provider # "embedded"
  BY <1>1, <1>3 DEF Validated, ValidExternal, JwtVerifies, Certifies
<1>4. QED BY <1>1, <1>2, <1>3

(* It is accepted again, unless something is in the way.                   *)
LEMMA AcceptedAgain ==
  ASSUME NEW oauth, NEW t \in Tokens, NEW ns, NEW url, Certifies(oauth, t, ns),
         t \notin expired, t.iss \notin down, url # "fallback"
  PROVE  Validated(oauth, t, ns, url) = {Claims(t)}
<1>1. CASE oauth.provider = "embedded"
  BY <1>1 DEF Validated, ValidEmbedded, AcceptsEmbedded, JwtVerifies, Certifies
<1>2. CASE oauth.provider # "embedded"
  BY <1>2 DEF Validated, ValidExternal, JwtVerifies, Certifies
<1>3. QED BY <1>1, <1>2

(* What the request's token came to, if it was validated.                  *)
Outcome(r, jwt) ==
    IF Validates(r) THEN jwt \in Validated(Inbound(r.conf, r.host), r.cred, r.ns, r.url)
    ELSE jwt = None

LEMMA OutcomeFacts ==
  ASSUME NEW r, NEW jwt, Outcome(r, jwt), jwt # None
  PROVE  /\ Validates(r) /\ r.cred \in Tokens /\ jwt = Claims(r.cred) /\ r.cred # None
         /\ Certifies(Inbound(r.conf, r.host), r.cred, r.ns)
<1>1. Validates(r) /\ jwt \in Validated(Inbound(r.conf, r.host), r.cred, r.ns, r.url)
  BY DEF Outcome
<1>2. QED BY <1>1, AcceptedFacts DEF Validates

-----------------------------------------------------------------------------
(* Configurations.                                                         *)
LEMMA InboundFacts ==
  ASSUME NEW cfg \in Configs, NEW host, Inbound(cfg, host) # None
  PROVE  LET oauth == Inbound(cfg, host)
         IN  /\ oauth.base # None /\ oauth.required = cfg.required /\ oauth.key = cfg.key
             /\ Inbound(cfg, oauth.base) = oauth
             /\ oauth.provider \in {"embedded", "external"}
             /\ oauth.provider = "embedded" =>
                  oauth.servers = <<[issuer |-> oauth.base, audience |-> None, jwks |-> "given"]>>
<1> DEFINE base == Base(cfg, host)
           oauth(servers, sites) ==
              [provider |-> Provider(cfg), base |-> base, servers |-> servers,
               required |-> cfg.required, sites |-> sites, key |-> cfg.key]
<1>1. base # None /\ cfg.mode # "static_key"
  BY DEF Inbound
<1>2. Base(cfg, base) = base
  BY <1>1 DEF Base
<1>3. \/ /\ Provider(cfg) = "embedded"
         /\ Inbound(cfg, host) = oauth(<<[issuer |-> base, audience |-> None, jwks |-> "given"]>>,
                                       cfg.sites \cup DefaultSites)
      \/ /\ Provider(cfg) # "embedded"
         /\ Inbound(cfg, host) = oauth(NamedServers(cfg), cfg.sites)
  BY DEF Inbound
<1>4. Inbound(cfg, base) = Inbound(cfg, host)
  BY <1>1, <1>2 DEF Inbound
<1>5. Provider(cfg) \in {"embedded", "external"}
  BY ConfigsAssumption DEF Provider
<1>6. QED BY <1>1, <1>3, <1>4, <1>5

(* A challenge that is made where OAuth applies can be followed.           *)
LEMMA FollowsFacts ==
  ASSUME NEW cfg \in Configs, NEW r, r.ns \in Namespaces, expired \subseteq Tokens,
         Asks(cfg, r.host, r.ns), SiteAllowed(cfg, r.host, r.site)
  PROVE  Follows(cfg, Inbound(cfg, r.host).base, r)
<1> DEFINE oauth == Inbound(cfg, r.host)
           base == oauth.base
           body == ProtectedResource(cfg, base, r.ns)
           kind == "oauth-authorization-server"
<1>1. /\ oauth # None /\ Applies(cfg, oauth, r.ns)
      /\ base # None /\ oauth.required = cfg.required /\ oauth.key = cfg.key
      /\ Inbound(cfg, base) = oauth /\ oauth.provider \in {"embedded", "external"}
      /\ oauth.provider = "embedded" =>
           oauth.servers = <<[issuer |-> base, audience |-> None, jwks |-> "given"]>>
  BY InboundFacts DEF Asks
<1>2. Described(cfg, base, r.ns)
  BY <1>1 DEF Described, Applies
<1>3. SiteAllowed(cfg, base, r.site)
  BY <1>1 DEF SiteAllowed, SitesOf
<1>4. body = [resource |-> Resource(oauth, r.ns),
              servers |-> {oauth.servers[i].issuer : i \in DOMAIN oauth.servers}]
  BY <1>1 DEF ProtectedResource
<1>5. HasMetadata(cfg, base, r.ns)
  BY <1>1, NamesAssumption DEF HasMetadata
<1>6. cfg.required # {} => HasMetadata(cfg, base, None)
  BY <1>1 DEF HasMetadata, Applies
<1> DEFINE tok(server) ==
        [iss |-> server, aud |-> {body.resource}, sub |-> "anybody", roles |-> {}]
<1>7. \A server : tok(server) \notin expired
  BY TokensAssumption, NamesAssumption
<1>8. ASSUME NEW server \in body.servers, oauth.provider = "embedded"
      PROVE  /\ cfg.required # {} => ServerDocument(cfg, server, None, kind) = [issuer |-> server]
             /\ cfg.key => AcceptsEmbedded(oauth, tok(server), r.ns)
  <2>1. server = base
    BY <1>1, <1>4, <1>8
  <2>2. JwtVerifies(tok(server), base, Resource(oauth, r.ns))
    BY <1>4, <1>7, <2>1 DEF JwtVerifies
  <2>3. QED BY <1>1, <1>6, <1>8, <2>1, <2>2 DEF ServerDocument, EmbeddedDocument, AcceptsEmbedded
<1>9. ASSUME NEW server \in body.servers, oauth.provider # "embedded",
             ServerOf(oauth, tok(server)).audience = None
      PROVE  Claims(tok(server)) \in ValidExternal(oauth, tok(server), r.ns, "right")
  <2>1. Knows(oauth, tok(server))
    BY <1>1, <1>4, <1>9 DEF Knows
  <2>2. Audience(oauth, ServerOf(oauth, tok(server)), r.ns) = Resource(oauth, r.ns)
    BY <1>9 DEF Audience
  <2>3. JwtVerifies(tok(server), tok(server).iss,
                    Audience(oauth, ServerOf(oauth, tok(server)), r.ns))
    BY <1>4, <1>7, <2>2 DEF JwtVerifies
  <2>4. QED BY <2>1, <2>3 DEF ValidExternal
<1>10. ASSUME NEW i \in Issuers, documents[<<kind, i>>] = "found", MetadataIssuer(oauth) = i
       PROVE  ServerDocument(cfg, base, r.ns, kind) = [issuer |-> i]
  BY <1>1, <1>5, <1>10 DEF ServerDocument, EmbeddedDocument, ExternalDocument, MetadataIssuer
<1>11. QED BY <1>2, <1>3, <1>8, <1>9, <1>10 DEF Follows

-----------------------------------------------------------------------------
(* Answers.                                                                *)

ChallengeMade(a, r, cfg) ==
    /\ a.kind \in {"challenge", "internal error"} /\ a.request = r
    /\ a.kind = "challenge" => a.conf = cfg /\ a.base = Inbound(cfg, r.host).base

LEMMA ChallengeRecords ==
  ASSUME NEW r, NEW cfg
  PROVE  ChallengeMade(Challenge(r, cfg), r, cfg)
<1> DEFINE b == Inbound(cfg, r.host).base
           a == Challenge(r, cfg)
<1> HIDE DEF b, a
<1>1. \/ a = [kind |-> "internal error", request |-> r]
      \/ a = [kind |-> "challenge", request |-> r, conf |-> cfg, base |-> b]
  BY DEF Challenge, b, a
<1>2. CASE a = [kind |-> "internal error", request |-> r]
  <2>1. a.kind = "internal error" /\ a.request = r
    BY <1>2
  <2>2. QED BY <2>1 DEF ChallengeMade, a
<1>3. CASE a = [kind |-> "challenge", request |-> r, conf |-> cfg, base |-> b]
  <2>1. a.kind = "challenge" /\ a.request = r /\ a.conf = cfg /\ a.base = b
    BY <1>3
  <2>2. QED BY <2>1 DEF ChallengeMade, a, b
<1>4. QED BY <1>1, <1>2, <1>3

LEMMA ChallengeFacts ==
  ASSUME NEW cfg \in Configs, NEW r, r.ns \in Namespaces, expired \subseteq Tokens,
         answer' = Challenge(r, cfg),
         cfg = r.conf => Asks(cfg, r.host, r.ns) /\ SiteAllowed(cfg, r.host, r.site),
         UNCHANGED <<documents, down, expired>>
  PROVE  /\ ChallengeFollowable' /\ OwnersOnly'
         /\ answer'.kind \in {"challenge", "internal error"} /\ answer'.request = r
<1>1. ChallengeMade(answer', r, cfg)
  BY ChallengeRecords
<1>2. answer'.kind \in {"challenge", "internal error"} /\ answer'.request = r
  BY <1>1 DEF ChallengeMade
<1>3. OwnersOnly'
  BY <1>2 DEF OwnersOnly
<1>4. ASSUME answer'.kind = "challenge", answer'.conf = answer'.request.conf
      PROVE  Follows(answer.conf, answer.base, answer.request)'
  <2>1. /\ answer'.conf = cfg /\ answer'.base = Inbound(cfg, r.host).base
        /\ answer'.request = r /\ cfg = r.conf
    BY <1>1, <1>4 DEF ChallengeMade
  <2>2. Follows(cfg, Inbound(cfg, r.host).base, r)
    BY <2>1, FollowsFacts
  <2> DEFINE base == Inbound(cfg, r.host).base
  <2> HIDE DEF base
  <2>3. Follows(cfg, base, r) /\ answer'.base = base
    BY <2>1, <2>2 DEF base
  <2>4. documents' = documents /\ down' = down /\ expired' = expired
    OBVIOUS
  <2>5. QED
    BY <2>1, <2>3, <2>4 DEF Follows, ServerDocument, ExternalDocument, AcceptsEmbedded,
          JwtVerifies, ValidExternal
<1>5. QED BY <1>2, <1>3, <1>4 DEF ChallengeFollowable

(* A session's opener goes on serving it.                                  *)
LEMMA OpenerServes ==
  ASSUME NEW r, NEW jwt, Admitted(r), r.op = "use", Outcome(r, jwt),
         r.cred = r.session.opener, r.host = r.session.host, r.conf = r.session.conf,
         r.cred \notin expired, r.cred \in Tokens => r.cred.iss \notin down, r.url # "fallback"
  PROVE  MatchesSession(r, jwt)
<1> DEFINE s == r.session
           id == IF KeyIdentity(r.conf, r.cred) # None THEN KeyIdentity(r.conf, r.cred) ELSE jwt
<1> SUFFICES ASSUME Asks(r.conf, r.host, r.ns)
             PROVE  id # None /\ id.sub = s.user
  BY DEF MatchesSession
<1>1. Opened(s) /\ s.ns = r.ns
  BY DEF Admitted
<1>2. CASE KeyIdentity(r.conf, r.cred) # None
  BY <1>1, <1>2 DEF Opened, StandsFor
<1>3. CASE KeyIdentity(r.conf, r.cred) = None
  <2>1. /\ r.cred \in Tokens /\ r.cred # None /\ Claims(r.cred) # None
        /\ Certifies(Inbound(r.conf, r.host), r.cred, r.ns)
        /\ s.user = r.cred.sub
    BY <1>1, <1>3 DEF Opened, StandsFor
  <2>2. Validates(r)
    BY <1>3, <2>1 DEF Validates
  <2>3. Validated(Inbound(r.conf, r.host), r.cred, r.ns, r.url) = {Claims(r.cred)}
    BY <2>1, AcceptedAgain
  <2>4. jwt = Claims(r.cred)
    BY <2>2, <2>3 DEF Outcome
  <2>5. QED BY <1>3, <2>1, <2>4 DEF Claims
<1>4. QED BY <1>2, <1>3

(* Whom a session serves, its opener stands for.                           *)
LEMMA ServedFacts ==
  ASSUME NEW r, NEW jwt, Admitted(r), r.op = "use", Outcome(r, jwt), MatchesSession(r, jwt),
         Asks(r.conf, r.host, r.ns)
  PROVE  LET s == r.session
         IN  StandsFor(r.conf, r.host, r.ns, r.cred) = StandsFor(s.conf, s.host, s.ns, s.opener)
<1> DEFINE s == r.session
           id == IF KeyIdentity(r.conf, r.cred) # None THEN KeyIdentity(r.conf, r.cred) ELSE jwt
<1>1. id # None /\ id.sub = s.user
  BY DEF MatchesSession
<1>2. s.user = StandsFor(s.conf, s.host, s.ns, s.opener)
  BY DEF Admitted, Opened
<1>3. CASE KeyIdentity(r.conf, r.cred) # None
  BY <1>1, <1>2, <1>3 DEF StandsFor
<1>4. CASE KeyIdentity(r.conf, r.cred) = None
  <2>1. jwt # None /\ jwt.sub = s.user
    BY <1>1, <1>4
  <2>2. r.cred \in Tokens /\ jwt = Claims(r.cred)
    BY <2>1, OutcomeFacts
  <2>3. StandsFor(r.conf, r.host, r.ns, r.cred) = jwt.sub
    BY <1>4, <2>2 DEF StandsFor, Claims
  <2>4. QED BY <1>2, <2>1, <2>3
<1>5. QED BY <1>3, <1>4

(* What an answer leaves.                                                  *)
Answered == SessionsOpened /\ OwnersOnly /\ StaysOpen /\ ChallengeFollowable

Meanwhile == UNCHANGED <<conf, documents, down, expired>>

LEMMA AnswerUseFacts ==
  ASSUME AccessInv, NEW r, NEW jwt, Admitted(r), r.op = "use", Outcome(r, jwt),
         AnswerUse(r, jwt), Meanwhile
  PROVE  Answered'
<1>1. Opened(r.session) /\ r.id \in SessionIds /\ r.ns \in Namespaces /\ r.conf \in Configs
  BY DEF Admitted
<1>2. conf \in Configs /\ expired \subseteq Tokens /\ SessionsOpened
  BY DEF AccessInv, AccessTypeOK
<1>3. CASE /\ MatchesSession(r, jwt)
           /\ sessions' = [sessions EXCEPT ![r.id] = r.session]
           /\ answer' = [kind |-> "served", request |-> r]
  <2>1. answer'.kind = "served" /\ answer'.request = r
    BY <1>3
  <2>2. SessionsOpened'
    BY <1>1, <1>2, <1>3 DEF SessionsOpened
  <2>3. OwnersOnly'
    <3>1. Asks(r.conf, r.host, r.ns) =>
            StandsFor(r.conf, r.host, r.ns, r.cred) =
              StandsFor(r.session.conf, r.session.host, r.session.ns, r.session.opener)
      BY <1>3, ServedFacts
    <3>2. QED BY <2>1, <3>1 DEF OwnersOnly
  <2>4. StaysOpen' /\ ChallengeFollowable'
    BY <2>1 DEF StaysOpen, ChallengeFollowable
  <2>5. QED BY <2>2, <2>3, <2>4 DEF Answered
<1>4. CASE /\ ~MatchesSession(r, jwt)
           /\ answer' = Challenge(r, conf)
           /\ UNCHANGED sessions
  <2>1. Asks(r.conf, r.host, r.ns) /\ SiteAllowed(r.conf, r.host, r.site)
    BY <1>4 DEF MatchesSession, Admitted
  <2>2. /\ ChallengeFollowable' /\ OwnersOnly' /\ answer'.request = r
    BY <1>1, <1>2, <1>4, <2>1, ChallengeFacts DEF Meanwhile
  <2>3. StaysOpen'
    <3>1. \/ <<r.cred, r.host, r.conf>> # <<r.session.opener, r.session.host, r.session.conf>>
          \/ r.cred \in expired
          \/ r.cred \in Tokens /\ r.cred.iss \in down
          \/ r.url = "fallback"
      BY <1>4, OpenerServes
    <3>2. QED BY <2>2, <3>1 DEF StaysOpen, Meanwhile
  <2>4. SessionsOpened'
    BY <1>2, <1>4 DEF SessionsOpened
  <2>5. QED BY <2>2, <2>3, <2>4 DEF Answered
<1>5. CASE answer' = Refused(r) /\ UNCHANGED sessions
  <2>1. answer'.kind = "refused" /\ SessionsOpened'
    BY <1>2, <1>5 DEF Refused, SessionsOpened
  <2>2. QED BY <2>1 DEF Answered, OwnersOnly, StaysOpen, ChallengeFollowable
<1>6. QED BY <1>3, <1>4, <1>5 DEF AnswerUse

(* A session that is opened is its opener's.                               *)
LEMMA OpenedFacts ==
  ASSUME NEW r, NEW jwt, Admitted(r), Outcome(r, jwt),
         LET id == Resolved(r, jwt) IN id # None /\ Allowed(r.conf, id, r.ns, r.mode)
  PROVE  Opened([user |-> Resolved(r, jwt).sub, ns |-> r.ns, opener |-> r.cred,
                 host |-> r.host, conf |-> r.conf])
<1> DEFINE id == Resolved(r, jwt)
           s == [user |-> id.sub, ns |-> r.ns, opener |-> r.cred, host |-> r.host, conf |-> r.conf]
<1>1. /\ r.conf \in Configs /\ r.ns \in Namespaces /\ r.host \in Hosts
      /\ r.cred \in Keys \cup Tokens \cup {None}
  BY DEF Admitted
<1>2. id # None /\ id.roles # {}
  BY DEF Allowed
<1>3. id # Anonymous
  BY <1>2 DEF Anonymous
<1>4. CASE KeyIdentity(r.conf, r.cred) # None
  <2>1. id = KeyIdentity(r.conf, r.cred)
    BY <1>4 DEF Resolved
  <2>2. r.cred \in Keys /\ id.sub \in Users
    BY <1>1, <1>4, <2>1, KeyFacts
  <2>3. id.sub = StandsFor(r.conf, r.host, r.ns, r.cred)
    BY <1>4, <2>1 DEF StandsFor
  <2> HIDE DEF id
  <2>4. s \in Session
    BY <1>1, <2>2 DEF Session
  <2>5. QED BY <1>4, <2>3, <2>4 DEF Opened, id
<1>5. CASE KeyIdentity(r.conf, r.cred) = None
  <2>1. id = jwt
    BY <1>3, <1>5 DEF Resolved
  <2>2. /\ r.cred \in Tokens /\ r.cred # None /\ jwt = Claims(r.cred)
        /\ Certifies(Inbound(r.conf, r.host), r.cred, r.ns)
    BY <1>2, <2>1, OutcomeFacts
  <2>3. id.sub = r.cred.sub /\ id.sub \in Users /\ Claims(r.cred) # None
    BY <1>2, <2>1, <2>2, TokensAssumption DEF Claims
  <2>4. id.sub = StandsFor(r.conf, r.host, r.ns, r.cred)
    BY <1>5, <2>2, <2>3 DEF StandsFor
  <2> HIDE DEF id
  <2>5. s \in Session
    BY <1>1, <2>2, <2>3 DEF Session
  <2>6. QED BY <2>2, <2>3, <2>4, <2>5 DEF Opened, id
<1>6. QED BY <1>4, <1>5

(* Requests that are not about a session that there was.                   *)
LEMMA OtherAnswers ==
  ASSUME AccessInv, NEW r, Admitted(r), r.op # "use", SessionsOpened', Meanwhile,
         \/ answer' = Challenge(r, r.conf) /\ Asks(r.conf, r.host, r.ns)
         \/ answer'.kind \in {"refused", "opened", "stream"}
  PROVE  Answered'
<1>1. CASE answer'.kind \in {"refused", "opened", "stream"}
  BY <1>1 DEF Answered, OwnersOnly, StaysOpen, ChallengeFollowable
<1>2. CASE answer' = Challenge(r, r.conf) /\ Asks(r.conf, r.host, r.ns)
  <2>1. /\ r.conf \in Configs /\ r.ns \in Namespaces /\ SiteAllowed(r.conf, r.host, r.site)
        /\ expired \subseteq Tokens
    BY DEF Admitted, AccessInv, AccessTypeOK
  <2>2. ChallengeFollowable' /\ OwnersOnly' /\ answer'.request = r
    BY <1>2, <2>1, ChallengeFacts DEF Meanwhile
  <2>3. StaysOpen'
    BY <2>2 DEF StaysOpen
  <2>4. QED BY <2>2, <2>3 DEF Answered
<1>3. QED BY <1>1, <1>2

LEMMA UnresolvedFacts ==
  ASSUME NEW r, NEW jwt, Resolved(r, jwt) = None
  PROVE  Asks(r.conf, r.host, r.ns)
BY AnonymousAssumption DEF Resolved

LEMMA AnswerFacts ==
  ASSUME AccessInv, NEW r, NEW jwt, Admitted(r), Outcome(r, jwt),
         Answer(r, jwt), Meanwhile
  PROVE  Answered'
<1>1. SessionsOpened
  BY DEF AccessInv, AccessTypeOK
<1>2. CASE r.op = "use" /\ AnswerUse(r, jwt)
  BY <1>1, <1>2, AnswerUseFacts DEF AnswerUse
<1>3. CASE r.op = "stream" /\ AnswerStream(r, jwt)
  <2>1. SessionsOpened'
    BY <1>1, <1>3 DEF AnswerStream, SessionsOpened
  <2>2. \/ answer' = Challenge(r, r.conf) /\ Asks(r.conf, r.host, r.ns)
        \/ answer'.kind = "stream"
    BY <1>3, UnresolvedFacts DEF AnswerStream
  <2>3. Answered'
    BY <1>3, <2>1, <2>2, OtherAnswers
  <2>4. QED BY <1>1, <1>3, <2>3 DEF AnswerStream
<1>4. CASE r.op = "initialize" /\ AnswerInitialize(r, jwt)
  <2> DEFINE id == Resolved(r, jwt)
  <2>1. CASE id = None /\ answer' = Challenge(r, r.conf) /\ UNCHANGED sessions
    <3>1. SessionsOpened' /\ Asks(r.conf, r.host, r.ns)
      BY <1>1, <2>1, UnresolvedFacts DEF SessionsOpened
    <3>2. QED BY <1>1, <1>4, <2>1, <3>1, OtherAnswers
  <2>2. CASE answer' = Refused(r) /\ UNCHANGED sessions
    <3>1. SessionsOpened' /\ answer'.kind = "refused"
      BY <1>1, <2>2 DEF SessionsOpened, Refused
    <3>2. QED BY <1>1, <1>4, <2>2, <3>1, OtherAnswers
  <2>3. ASSUME id # None /\ Allowed(r.conf, id, r.ns, r.mode),
               NEW s \in SessionIds,
               sessions' = [sessions EXCEPT ![s] =
                              [user |-> id.sub, ns |-> r.ns, opener |-> r.cred,
                               host |-> r.host, conf |-> r.conf]],
               answer' = [kind |-> "opened", id |-> s, request |-> r]
        PROVE  Answered'
    <3> DEFINE x == [user |-> id.sub, ns |-> r.ns, opener |-> r.cred,
                     host |-> r.host, conf |-> r.conf]
    <3>1. Opened(x)
      BY <2>3, OpenedFacts
    <3> HIDE DEF x
    <3>2. sessions' = [sessions EXCEPT ![s] = x]
      BY <2>3 DEF x
    <3>3. SessionsOpened'
      BY <1>1, <3>1, <3>2 DEF SessionsOpened
    <3>4. answer'.kind = "opened"
      BY <2>3
    <3>5. QED BY <1>1, <1>4, <2>3, <3>3, <3>4, OtherAnswers
  <2>4. QED BY <1>4, <2>1, <2>2, <2>3 DEF AnswerInitialize
<1>5. QED BY <1>2, <1>3, <1>4 DEF Answer

-----------------------------------------------------------------------------
(* Requests.                                                               *)
LEMMA RequestFacts ==
  ASSUME NEW op, NEW ns, NEW cred, NEW mode, NEW host, NEW site, NEW id
  PROVE  LET r == Request(op, ns, cred, mode, host, site, id)
         IN  /\ IsRequest(r)
             /\ r.op = op /\ r.ns = ns /\ r.cred = cred /\ r.host = host /\ r.site = site
             /\ r.id = id /\ r.conf = conf /\ (id # None => r.session = sessions[id])
<1> DEFINE session == IF id = None THEN None ELSE sessions[id]
           r == Request(op, ns, cred, mode, host, site, id)
<1>1. id # None => session = sessions[id]
  OBVIOUS
<1> HIDE DEF session
<1>2. r = [op |-> op, ns |-> ns, cred |-> cred, mode |-> mode, host |-> host, site |-> site,
           id |-> id, session |-> session, conf |-> conf, url |-> "given"]
  BY DEF Request, session
<1> HIDE DEF r
<1>3. QED BY <1>1, <1>2 DEF IsRequest, r

LEMMA HandleFacts ==
  ASSUME AccessInv, NEW c \in Clients, NEW r, Admitted(r), Handle(c, r)
  PROVE  AccessInv'
<1>1. AccessTypeOK /\ SessionsOpened /\ RequestsAdmitted
  BY DEF AccessInv
<1>2. Meanwhile /\ UNCHANGED jwks
  BY DEF Handle, Meanwhile
<1>3. CASE Validates(r)
  <2>1. /\ asked' = [asked EXCEPT ![c] = [r EXCEPT !.url = Url(r)]]
        /\ answer' = NoAnswer /\ UNCHANGED sessions
    BY <1>3 DEF Handle
  <2> DEFINE q == [r EXCEPT !.url = Url(r)]
             u == Url(r)
  <2> HIDE DEF u
  <2>2. /\ q = [op |-> r.op, ns |-> r.ns, cred |-> r.cred, mode |-> r.mode, host |-> r.host,
                site |-> r.site, id |-> r.id, session |-> r.session, conf |-> r.conf, url |-> u]
    BY DEF Admitted, IsRequest, u
  <2> HIDE DEF q
  <2>3. Admitted(q) /\ Validates(q)
    <3>1. /\ q.op = r.op /\ q.ns = r.ns /\ q.cred = r.cred /\ q.mode = r.mode
          /\ q.host = r.host /\ q.site = r.site /\ q.id = r.id /\ q.session = r.session
          /\ q.conf = r.conf /\ IsRequest(q)
      BY <2>2 DEF IsRequest
    <3>2. Validates(q)
      BY <1>3, <3>1 DEF Validates
    <3>3. QED BY <3>1, <3>2 DEF Admitted
  <2>4. asked' = [asked EXCEPT ![c] = q]
    BY <2>1 DEF q
  <2>5. RequestsAdmitted'
    BY <1>1, <2>3, <2>4 DEF RequestsAdmitted
  <2>6. q.cred \in Keys \cup Tokens
    BY <2>3 DEF Admitted, Validates
  <2>7. AccessTypeOK'
    BY <1>1, <1>2, <2>1, <2>4, <2>6 DEF AccessTypeOK, RequestsAdmitted, Meanwhile
  <2>8. SessionsOpened'
    BY <1>1, <2>1 DEF SessionsOpened
  <2>9. answer'.kind = "none"
    BY <2>1 DEF NoAnswer
  <2>10. OwnersOnly' /\ StaysOpen' /\ ChallengeFollowable'
    BY <2>9 DEF OwnersOnly, StaysOpen, ChallengeFollowable
  <2>11. QED BY <2>5, <2>7, <2>8, <2>10 DEF AccessInv
<1>4. CASE ~Validates(r)
  <2>1. Answer(r, None) /\ UNCHANGED asked
    BY <1>4 DEF Handle
  <2>2. Answered'
    BY <1>2, <1>4, <2>1, AnswerFacts DEF Outcome
  <2>3. RequestsAdmitted'
    BY <1>1, <2>1 DEF RequestsAdmitted
  <2>4. AccessTypeOK'
    BY <1>1, <1>2, <2>1, <2>2 DEF AccessTypeOK, Meanwhile, Answered, SessionsOpened, Opened
  <2>5. QED BY <2>2, <2>3, <2>4 DEF AccessInv, Answered
<1>5. QED BY <1>3, <1>4

LEMMA HttpRequestStep ==
  ASSUME AccessInv, NEW c \in Clients, HttpRequest(c)
  PROVE  AccessInv'
<1>1. PICK ns \in Namespaces, cred \in Held[c] \cup {None}, host \in Hosts :
        /\ SiteAllowed(conf, host, SiteOf[c])
        /\ \/ \E mode \in Modes :
                Handle(c, Request("initialize", ns, cred, mode, host, SiteOf[c], None))
           \/ Handle(c, Request("stream", ns, cred, None, host, SiteOf[c], None))
           \/ \E s \in SessionIds :
                /\ sessions[s] # None
                /\ sessions[s].ns = ns
                /\ Handle(c, Request("use", ns, cred, None, host, SiteOf[c], s))
  BY DEF HttpRequest
<1>2. conf \in Configs /\ SessionsOpened /\ cred \in Keys \cup Tokens \cup {None}
  BY <1>1, NamesAssumption DEF AccessInv, AccessTypeOK
<1>3. CASE \E mode \in Modes :
             Handle(c, Request("initialize", ns, cred, mode, host, SiteOf[c], None))
  <2>1. PICK mode \in Modes :
          Handle(c, Request("initialize", ns, cred, mode, host, SiteOf[c], None))
    BY <1>3
  <2>2. Admitted(Request("initialize", ns, cred, mode, host, SiteOf[c], None))
    BY <1>1, <1>2, RequestFacts DEF Admitted
  <2>3. QED BY <2>1, <2>2, HandleFacts
<1>4. CASE Handle(c, Request("stream", ns, cred, None, host, SiteOf[c], None))
  <2>1. Admitted(Request("stream", ns, cred, None, host, SiteOf[c], None))
    BY <1>1, <1>2, RequestFacts DEF Admitted
  <2>2. QED BY <1>4, <2>1, HandleFacts
<1>5. ASSUME NEW s \in SessionIds, sessions[s] # None, sessions[s].ns = ns,
             Handle(c, Request("use", ns, cred, None, host, SiteOf[c], s))
      PROVE  AccessInv'
  <2>1. s # None /\ Opened(sessions[s])
    BY <1>2, <1>5, NamesAssumption DEF SessionsOpened
  <2>2. Admitted(Request("use", ns, cred, None, host, SiteOf[c], s))
    BY <1>1, <1>2, <1>5, <2>1, RequestFacts DEF Admitted
  <2>3. QED BY <1>5, <2>2, HandleFacts
<1>6. QED BY <1>1, <1>3, <1>4, <1>5

-----------------------------------------------------------------------------
(* The other steps.                                                        *)

(* Whatever answers nothing, and leaves no session and no request that     *)
(* there was not.                                                          *)
LEMMA SilentStep ==
  ASSUME AccessInv, answer' = NoAnswer, AccessTypeOK',
         sessions' = [s \in SessionIds |-> sessions'[s]],
         \A s \in SessionIds : sessions'[s] = None \/ sessions'[s] = sessions[s],
         RequestsAdmitted'
  PROVE  AccessInv'
<1>1. answer'.kind = "none"
  BY DEF NoAnswer
<1>2. SessionsOpened'
  BY DEF AccessInv, SessionsOpened
<1>3. QED BY <1>1, <1>2 DEF AccessInv, OwnersOnly, StaysOpen, ChallengeFollowable

LEMMA DiscoveredStep ==
  ASSUME AccessInv, NEW c \in Clients, Discovered(c)
  PROVE  AccessInv'
<1> DEFINE url == IF asked[c].cred.iss \in down THEN "fallback" ELSE "right"
           r == asked[c]
           q == [r EXCEPT !.url = url]
<1>1. /\ AccessTypeOK /\ SessionsOpened /\ RequestsAdmitted
      /\ Admitted(r) /\ Validates(r) /\ answer' = NoAnswer
      /\ UNCHANGED <<conf, sessions, documents, down, expired>>
  BY DEF AccessInv, RequestsAdmitted, Discovered
<1>2. asked' = [asked EXCEPT ![c] = q] /\ jwks' = [jwks EXCEPT ![asked[c].cred.iss] = url]
  BY DEF Discovered
<1>3. url \in {"right", "fallback"}
  OBVIOUS
<1> HIDE DEF url
<1>4. q = [op |-> r.op, ns |-> r.ns, cred |-> r.cred, mode |-> r.mode, host |-> r.host,
           site |-> r.site, id |-> r.id, session |-> r.session, conf |-> r.conf, url |-> url]
  BY <1>1 DEF Admitted, IsRequest
<1> HIDE DEF q, r
<1>5. Admitted(q) /\ Validates(q)
  <2>1. /\ q.op = r.op /\ q.ns = r.ns /\ q.cred = r.cred /\ q.mode = r.mode
        /\ q.host = r.host /\ q.site = r.site /\ q.id = r.id /\ q.session = r.session
        /\ q.conf = r.conf /\ IsRequest(q)
    BY <1>4 DEF IsRequest
  <2>2. Validates(q)
    BY <1>1, <2>1 DEF Validates
  <2>3. QED BY <1>1, <2>1, <2>2 DEF Admitted
<1>6. RequestsAdmitted'
  BY <1>1, <1>2, <1>5 DEF RequestsAdmitted
<1>7. q.cred \in Keys \cup Tokens
  BY <1>5 DEF Admitted, Validates
<1>8. AccessTypeOK'
  BY <1>1, <1>2, <1>3, <1>7 DEF AccessTypeOK, RequestsAdmitted
<1>9. QED BY <1>1, <1>6, <1>8, SilentStep DEF SessionsOpened

LEMMA VerifiedStep ==
  ASSUME AccessInv, NEW c \in Clients, Verified(c)
  PROVE  AccessInv'
<1> DEFINE r == asked[c]
<1>1. /\ AccessTypeOK /\ SessionsOpened /\ RequestsAdmitted
      /\ Admitted(r) /\ Validates(r) /\ Meanwhile /\ UNCHANGED jwks
      /\ asked' = [asked EXCEPT ![c] = None]
  BY DEF AccessInv, RequestsAdmitted, Verified, Meanwhile
<1>2. PICK jwt \in Validated(Inbound(r.conf, r.host), r.cred, r.ns, r.url) : Answer(r, jwt)
  BY DEF Verified
<1>3. Outcome(r, jwt)
  BY <1>1 DEF Outcome
<1>4. Answered'
  BY <1>1, <1>2, <1>3, AnswerFacts
<1>5. RequestsAdmitted'
  BY <1>1 DEF RequestsAdmitted
<1>6. AccessTypeOK'
  BY <1>1, <1>4 DEF AccessTypeOK, Meanwhile, Answered, SessionsOpened, Opened, RequestsAdmitted
<1>7. QED BY <1>4, <1>5, <1>6 DEF AccessInv, Answered

LEMMA OutsideStep ==
  ASSUME AccessInv,
         \/ \E kind \in Kinds : GetDocument(kind)
         \/ SaveConfig
         \/ \E s \in SessionIds : EndSession(s)
         \/ \E t \in Tokens : TokenExpires(t)
         \/ \E i \in Issuers : IssuerToggles(i)
  PROVE  AccessInv'
<1>1. AccessTypeOK /\ SessionsOpened /\ RequestsAdmitted
  BY DEF AccessInv
<1>2. answer' = NoAnswer /\ UNCHANGED <<asked, jwks>>
  BY DEF GetDocument, SaveConfig, EndSession, TokenExpires, IssuerToggles
<1>3. /\ sessions' = [s \in SessionIds |-> sessions'[s]]
      /\ \A s \in SessionIds : sessions'[s] = None \/ sessions'[s] = sessions[s]
  BY <1>1 DEF SessionsOpened, GetDocument, SaveConfig, EndSession, TokenExpires, IssuerToggles
<1>4. conf' \in Configs /\ down' \subseteq Issuers /\ expired' \subseteq Tokens
  BY <1>1 DEF AccessTypeOK, GetDocument, SaveConfig, EndSession, TokenExpires, IssuerToggles
<1>5. documents' \in [Kinds \X Issuers -> {"unknown", "found", "missing"}]
  <2>1. CASE \E kind \in Kinds : GetDocument(kind)
    <3>1. PICK k, i : documents' = [documents EXCEPT ![<<k, i>>] =
                                      IF i \in down THEN "missing" ELSE "found"]
      BY <2>1 DEF GetDocument
    <3>2. QED BY <1>1, <3>1 DEF AccessTypeOK
  <2>2. CASE UNCHANGED documents
    BY <1>1, <2>2 DEF AccessTypeOK
  <2>3. QED BY <2>1, <2>2 DEF SaveConfig, EndSession, TokenExpires, IssuerToggles
<1>6. AccessTypeOK'
  BY <1>1, <1>2, <1>3, <1>4, <1>5 DEF AccessTypeOK
<1>7. RequestsAdmitted'
  BY <1>1, <1>2 DEF RequestsAdmitted
<1>8. QED BY <1>2, <1>3, <1>6, <1>7, SilentStep

LEMMA RestartStep ==
  ASSUME AccessInv, GatewayRestarts
  PROVE  AccessInv'
<1>1. AccessTypeOK /\ SessionsOpened
  BY DEF AccessInv
<1>2. /\ sessions' = [s \in SessionIds |-> sessions'[s]]
      /\ \A s \in SessionIds : sessions'[s] = None \/ sessions'[s] = sessions[s]
  BY <1>1 DEF GatewayRestarts, SessionsOpened
<1>3. RequestsAdmitted'
  BY DEF GatewayRestarts, RequestsAdmitted
<1>4. AccessTypeOK'
  BY <1>1, <1>2 DEF GatewayRestarts, AccessTypeOK
<1>5. answer' = NoAnswer
  BY DEF GatewayRestarts
<1>6. QED BY <1>2, <1>3, <1>4, <1>5, SilentStep

LEMMA AccessInitially ==
  ASSUME AccessInit
  PROVE  AccessInv
<1>1. AccessTypeOK
  BY DEF AccessInit, AccessTypeOK
<1>2. SessionsOpened /\ RequestsAdmitted
  BY DEF AccessInit, SessionsOpened, RequestsAdmitted
<1>3. answer.kind = "none"
  BY DEF AccessInit, NoAnswer
<1>4. QED BY <1>1, <1>2, <1>3 DEF AccessInv, OwnersOnly, StaysOpen, ChallengeFollowable

LEMMA AccessStep ==
  ASSUME AccessInv, [AccessNext]_accessVars
  PROVE  AccessInv'
<1>1. CASE AccessNext
  <2>1. CASE \E c \in Clients : HttpRequest(c) \/ Discovered(c) \/ Verified(c)
    BY <2>1, HttpRequestStep, DiscoveredStep, VerifiedStep
  <2>2. CASE \/ \E kind \in Kinds : GetDocument(kind)
             \/ SaveConfig
             \/ \E s \in SessionIds : EndSession(s)
             \/ \E t \in Tokens : TokenExpires(t)
             \/ \E i \in Issuers : IssuerToggles(i)
    BY <2>2, OutsideStep
  <2>3. CASE GatewayRestarts
    BY <2>3, RestartStep
  <2>4. QED BY <1>1, <2>1, <2>2, <2>3 DEF AccessNext
<1>2. CASE UNCHANGED accessVars
  <2>1. UNCHANGED <<conf, sessions, asked, answer, jwks, documents, down, expired>>
    BY <1>2 DEF accessVars
  <2>2. AccessTypeOK' /\ SessionsOpened' /\ RequestsAdmitted' /\ OwnersOnly' /\ StaysOpen'
    BY <2>1 DEF AccessInv, AccessTypeOK, SessionsOpened, RequestsAdmitted, OwnersOnly, StaysOpen
  <2>3. ChallengeFollowable'
    BY <2>1 DEF AccessInv, ChallengeFollowable, Follows, ServerDocument, ExternalDocument,
          AcceptsEmbedded, JwtVerifies, ValidExternal
  <2>4. QED BY <2>2, <2>3 DEF AccessInv
<1>3. QED BY <1>1, <1>2

-----------------------------------------------------------------------------
(* The type invariant, with what sessions, and requests under way, stand   *)
(* for.                                                                    *)
THEOREM AccessInvariant == AccessSpec => []AccessInv
BY AccessInitially, AccessStep, PTL DEF AccessSpec

(* Sessions, requests and caches are what McpAccess says they are.         *)
THEOREM AccessTypeCorrect == AccessSpec => []AccessTypeOK
<1>1. AccessInv => AccessTypeOK
  BY DEF AccessInv
<1>2. QED BY <1>1, AccessInvariant, PTL

(* Where OAuth applies, a session serves nobody but the user who opened it *)
(* (assertMcpSessionOAuthBearer()), for any configurations, tokens and     *)
(* issuers, and whatever is saved while a token is validated.              *)
THEOREM SessionsServeOwners == AccessSpec => []OwnersOnly
<1>1. AccessInv => OwnersOnly
  BY DEF AccessInv
<1>2. QED BY <1>1, AccessInvariant, PTL

(* What opened a session goes on serving it under the same configuration,  *)
(* unless the token expires, its issuer is down or its keys are looked for *)
(* at the guessed address: MCP routes ask for nothing more than            *)
(* handleInitialize() did (mcp.ts:278-296).                                *)
THEOREM SessionsStayOpen == AccessSpec => []StaysOpen
<1>1. AccessInv => StaysOpen
  BY DEF AccessInv
<1>2. QED BY <1>1, AccessInvariant, PTL

(* The documents that a challenge leads to are there, can be read from the *)
(* browser that got it, and lead to a token that is accepted               *)
(* (oauth-challenge.ts, oauth-metadata.ts), whichever host the gateway is  *)
(* reached at and whichever servers are configured.                        *)
THEOREM ChallengesCanBeFollowed == AccessSpec => []ChallengeFollowable
<1>1. AccessInv => ChallengeFollowable
  BY DEF AccessInv
<1>2. QED BY <1>1, AccessInvariant, PTL
=============================================================================
