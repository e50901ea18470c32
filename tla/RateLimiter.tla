---------------------------- MODULE RateLimiter ----------------------------
(***************************************************************************)
(* The gateway's rate limiter (src/resilience/rateLimiter.ts) with the two *)
(* places that use it: the admission of a tools/call by the execution      *)
(* router, and the configuration manager that hands it a new configuration *)
(* on every save.                                                          *)
(*                                                                         *)
(* A sliding window keeps the time stamps of the requests it let through.  *)
(* A stamp is a record here, its number standing for its position in the   *)
(* array, so that a window is a set.  Time is counted in the unit of the   *)
(* windows and never goes back.  A call is one execution of a downstream   *)
(* tool: a code-mode request may make several.                             *)
(***************************************************************************)
EXTENDS Integers, FiniteSets

CONSTANTS
    Sessions, Users,
    UserOf,        \* UserOf[s]: the user a session belongs to
    Servers, Calls,
    NoServer,      \* not a server: the call holds no slot
    Configs,       \* the resilience.rateLimit sections an administrator may save
    MaxTime,       \* bound on the clock
    MaxRequests    \* bound on the number of tools/call requests

Limit == [max : Nat \ {0}, window : Nat \ {0}]

ASSUME UsersAssumption == UserOf \in [Sessions -> Users]
ASSUME CallsAssumption == IsFiniteSet(Calls)
ASSUME ServersAssumption == NoServer \notin Servers
ASSUME ConfigsAssumption ==
    /\ Configs # {}
    /\ Configs \subseteq [session : Limit, user : Limit, cap : Nat \ {0}]
ASSUME BoundsAssumption == MaxTime \in Nat /\ MaxRequests \in Nat

VARIABLES
    config,         \* this.config
    sessionWindow,  \* this.sessionWindows
    userWindow,     \* this.userWindows
    concurrency,    \* this.downstreamConcurrency, 0 where the map has no entry
    slot,           \* slot[c]: the server whose release closure call c holds
    refused,        \* the calls whose last acquireDownstream returned null
    now,            \* Date.now()
    requests,       \* how many requests have asked for admission
    verdict,        \* what the last of them was told
    passed,         \* history: requests checkSession accepted since the last save
    admitted,       \* history: those that checkUser accepted as well
    carried         \* history: calls in flight per server at the last save

windowVars == <<sessionWindow, userWindow, requests, verdict, passed, admitted>>
slotVars == <<concurrency, slot, refused>>
vars == <<config, now, carried, windowVars, slotVars>>

Verdicts == {"none", "admitted", "sessionLimit", "userLimit"}
Stamp == [n : Nat, at : Nat, session : Sessions]

InFlight(s) == {c \in Calls : slot[c] = s}

-----------------------------------------------------------------------------
(* checkWindow: the stamps still inside the window, and the decision.      *)

\* Mutants of the two below: a stamp dropped a unit too late, one request too
\* many.
PrunedLate(window, limit) == {r \in window : r.at >= now - limit.window}
Live(window, limit) == {r \in window : r.at > now - limit.window}
OneTooMany(window, limit) == Cardinality(Live(window, limit)) > limit.max
Full(window, limit) == Cardinality(Live(window, limit)) >= limit.max

NewStamp(s) == [n |-> requests, at |-> now, session |-> s]
Push(window, limit, s) == Live(window, limit) \cup {NewStamp(s)}

Init ==
    /\ config \in Configs
    /\ sessionWindow = [s \in Sessions |-> {}]
    /\ userWindow = [u \in Users |-> {}]
    /\ concurrency = [s \in Servers |-> 0]
    /\ slot = [c \in Calls |-> NoServer]
    /\ refused = {}
    /\ now = 0
    /\ requests = 0
    /\ verdict = "none"
    /\ passed = {}
    /\ admitted = {}
    /\ carried = [s \in Servers |-> 0]

(* The router asks checkSession first; a refusal ends the request.         *)
RefuseSession(s) ==
    /\ Full(sessionWindow[s], config.session)
    /\ sessionWindow' = [sessionWindow EXCEPT ![s] = Live(@, config.session)]
    /\ verdict' = "sessionLimit"
    /\ UNCHANGED <<userWindow, passed, admitted>>

(* The session's window has taken the request when checkUser refuses it.   *)
RefuseUser(s) ==
    /\ ~Full(sessionWindow[s], config.session)
    /\ Full(userWindow[UserOf[s]], config.user)
    /\ sessionWindow' = [sessionWindow EXCEPT ![s] = Push(@, config.session, s)]
    /\ userWindow' = [userWindow EXCEPT ![UserOf[s]] = Live(@, config.user)]
    /\ verdict' = "userLimit"
    /\ passed' = passed \cup {NewStamp(s)}
    /\ UNCHANGED admitted

Admit(s) ==
    /\ ~Full(sessionWindow[s], config.session)
    /\ ~Full(userWindow[UserOf[s]], config.user)
    /\ sessionWindow' = [sessionWindow EXCEPT ![s] = Push(@, config.session, s)]
    /\ userWindow' = [userWindow EXCEPT ![UserOf[s]] = Push(@, config.user, s)]
    /\ verdict' = "admitted"
    /\ passed' = passed \cup {NewStamp(s)}
    /\ admitted' = admitted \cup {NewStamp(s)}

(* One tools/call reaching the limiter in ExecutionRouter.route.           *)
Request(s) ==
    /\ requests < MaxRequests
    /\ RefuseSession(s) \/ RefuseUser(s) \/ Admit(s)
    /\ requests' = requests + 1
    /\ UNCHANGED <<config, now, carried, slotVars>>

-----------------------------------------------------------------------------
\* Mutant: the comparison with the cap is off by one.
AcquireAtCap(c, s) ==
    /\ slot[c] = NoServer
    /\ concurrency[s] <= config.cap
    /\ concurrency' = [concurrency EXCEPT ![s] = @ + 1]
    /\ slot' = [slot EXCEPT ![c] = s]
    /\ refused' = refused \ {c}
    /\ UNCHANGED <<config, now, carried, windowVars>>

(* acquireDownstream hands out a release closure, or null at the cap.      *)
Acquire(c, s) ==
    /\ slot[c] = NoServer
    /\ concurrency[s] < config.cap
    /\ concurrency' = [concurrency EXCEPT ![s] = @ + 1]
    /\ slot' = [slot EXCEPT ![c] = s]
    /\ refused' = refused \ {c}
    /\ UNCHANGED <<config, now, carried, windowVars>>

AcquireRefused(c, s) ==
    /\ slot[c] = NoServer
    /\ concurrency[s] >= config.cap
    /\ refused' = refused \cup {c}
    /\ UNCHANGED <<config, now, carried, windowVars, concurrency, slot>>

(* The closure, called once from the finally block of executeDownstream:   *)
(* a count the map no longer has is taken as 1, and none goes below 0.     *)
AfterRelease(count) == IF count > 0 THEN count - 1 ELSE 0

Release(c) ==
    /\ slot[c] # NoServer
    /\ concurrency' = [concurrency EXCEPT ![slot[c]] = AfterRelease(@)]
    /\ slot' = [slot EXCEPT ![c] = NoServer]
    /\ UNCHANGED <<config, now, carried, windowVars, refused>>

(* applyResolvedConfig calls this on every save and every rollback, with   *)
(* calls in flight or not: all three maps are emptied.                     *)
UpdateConfig(cfg) ==
    /\ config' = cfg
    /\ sessionWindow' = [s \in Sessions |-> {}]
    /\ userWindow' = [u \in Users |-> {}]
    /\ concurrency' = [s \in Servers |-> 0]
    /\ passed' = {}
    /\ admitted' = {}
    /\ carried' = [s \in Servers |-> Cardinality(InFlight(s))]
    /\ UNCHANGED <<slot, refused, now, requests, verdict>>

Tick ==
    /\ now < MaxTime
    /\ now' = now + 1
    /\ UNCHANGED <<config, carried, windowVars, slotVars>>

-----------------------------------------------------------------------------
Serve ==
    \/ \E s \in Sessions : Request(s)
    \/ \E c \in Calls, s \in Servers : Acquire(c, s) \/ AcquireRefused(c, s)
    \/ \E c \in Calls : Release(c)
    \/ Tick

Next == Serve \/ \E cfg \in Configs : UpdateConfig(cfg)

Spec == Init /\ [][Next]_vars

(* The limiter while no administrator saves a configuration.               *)
SteadySpec == Init /\ [][Serve]_vars

-----------------------------------------------------------------------------
TypeOK ==
    /\ config \in Configs
    /\ sessionWindow \in [Sessions -> SUBSET Stamp]
    /\ userWindow \in [Users -> SUBSET Stamp]
    /\ concurrency \in [Servers -> Nat]
    /\ slot \in [Calls -> Servers \cup {NoServer}]
    /\ refused \subseteq Calls
    /\ now \in Nat
    /\ requests \in Nat
    /\ verdict \in Verdicts
    /\ passed \subseteq Stamp
    /\ admitted \subseteq Stamp
    /\ carried \in [Servers -> Nat]

(* The requests of a history whose stamp lies in the window ending at t.   *)
EndingAt(history, t, limit) ==
    {r \in history : r.at > t - limit.window /\ r.at <= t}

OfSession(history, s) == {r \in history : r.session = s}
OfUser(history, u) == {r \in history : UserOf[r.session] = u}

(* Wherever a window is placed on the history since the last save, a       *)
(* session got no more requests past checkSession than its limit: pruning  *)
(* the array to the live stamps loses none that a later check needs        *)
(* (rateLimiter.ts:49-69).                                                 *)
SessionLimitHolds ==
    \A s \in Sessions, t \in 0..now :
        Cardinality(EndingAt(OfSession(passed, s), t, config.session))
            <= config.session.max

(* The same for a user, over all the sessions the user has open: admission *)
(* through one session counts against the others.                          *)
UserLimitHolds ==
    \A u \in Users, t \in 0..now :
        Cardinality(EndingAt(OfUser(admitted, u), t, config.user))
            <= config.user.max

RefusalJustified ==
    \A s \in Sessions :
        Request(s) =>
            /\ verdict' = "sessionLimit" =>
                  Cardinality(EndingAt(OfSession(passed, s), now, config.session))
                      >= config.session.max
            /\ verdict' = "userLimit" =>
                  Cardinality(EndingAt(OfUser(admitted, UserOf[s]), now, config.user))
                      >= config.user.max

(* A request is refused only when the window really is used up: a session  *)
(* by requests checkSession accepted, a user by requests that were         *)
(* admitted (router.ts:160-182).                                           *)
RefusedOnlyAtLimit == [][RefusalJustified]_vars

(* The limiter never counts a slot that no call holds, whatever saves come *)
(* between an acquire and its release: a slot is never leaked, and a       *)
(* server with nothing in flight counts 0 (rateLimiter.ts:33-47).          *)
NoSlotLeaked ==
    \A s \in Servers : concurrency[s] <= Cardinality(InFlight(s))

(* How far a save can take a server over its cap: by the calls that were   *)
(* in flight when it was made, and no further however their releases and   *)
(* new calls interleave (rateLimiter.ts:18-23 and 41-45).                  *)
OvershootBounded ==
    \A s \in Servers : Cardinality(InFlight(s)) <= config.cap + carried[s]

(* docs/ARCHITECTURE.md:89: "Concurrency limits - per-downstream server    *)
(* cap on simultaneous in-flight tool calls".                              *)
CapHolds ==
    \A s \in Servers : Cardinality(InFlight(s)) <= config.cap

(* The limiter is a pool of cap places per server: it grants, refuses and  *)
(* takes back as SlotPool does, and a save is the choice of a new cap      *)
(* (rateLimiter.ts:18-47, router.ts:844-870 and 918-920).                  *)
Pool == INSTANCE SlotPool WITH
    cap <- config.cap,
    over <- carried,
    held <- [s \in Servers |-> InFlight(s)]

PoolSpec == Pool!Spec
=============================================================================
