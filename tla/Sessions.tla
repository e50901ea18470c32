------------------------------ MODULE Sessions ------------------------------
(***************************************************************************)
(* MCP sessions: the store (session/store.ts, repositories/sessions), the  *)
(* handlers of initialize, tools/list and tools/call                       *)
(* (gateway/dispatch), the outcomes the router records (router.ts) and the *)
(* window refreshes of the trigger engine (trigger/engine.ts).             *)
(*                                                                         *)
(* The program runs on one event loop, so a handler is interrupted only    *)
(* where it awaits I/O: at the check of an OAuth token, where OAuth        *)
(* applies, and at the call of the downstream server.  What runs between   *)
(* two such points is one step.                                            *)
(*                                                                         *)
(* Times are kept as ages that stop once they make no more difference.     *)
(***************************************************************************)
EXTENDS Integers, Sequences, FiniteSets

CONSTANTS
    Sessions, Requests, Tools,
    Results,       \* the outcome classes of calls
    ServerOf,      \* ServerOf[t]: the server, or domain, of tool t
    Catalogs,      \* the sets of tools a namespace may come to publish
    Settings,      \* what the gateway may be started with
    Ttl,           \* session.ttlSeconds, 0 for none
    MaxRecent,     \* MAX_RECENT_OUTCOMES
    MaxCalls,      \* bound on the outcomes of a session
    MaxRefreshes,  \* bound on the refreshes after which no call is made
    NoSession, NoRequest, NoWindow

ASSUME ResultsAssumption == Results \subseteq {"success", "error", "timeout", "auth"}
ASSUME CatalogsAssumption == Catalogs \subseteq SUBSET Tools
ASSUME SettingsAssumption ==
    Settings \subseteq [durable : BOOLEAN,    \* SQLite, or SESSION_BACKEND=memory
                        oauth : BOOLEAN,      \* auth.mode: may a check await I/O?
                        cooldown : Nat,       \* triggers.cooldownSeconds
                        triggers : SUBSET {"success", "error", "timeout"}]
ASSUME NumbersAssumption ==
    /\ Ttl \in Nat /\ MaxRecent \in Nat \ {0}
    /\ MaxCalls \in Nat /\ MaxRefreshes \in Nat

VARIABLES
    settings,      \* chosen at the start; triggers.refreshOn... and the like
    store,         \* the session store
    request,       \* the requests that are waiting for I/O
    catalog,       \* the tools the namespace publishes now
    told,          \* the window a client was last sent by tools/list, unless
                   \* another request of its session was being checked then
    done,          \* history: the outcomes of a session's calls, in order
    ended,         \* history: sessions revoked, expired or lost in a crash
    floor          \* history: a session when last no check of it was under way

vars == <<settings, store, request, catalog, told, done, ended, floor>>

Cooldown == settings.cooldown
Triggers == settings.triggers

Outcome == [server : {ServerOf[t] : t \in Tools}, result : Results]

Recent == UNION {[1..n -> Outcome] : n \in 0..MaxRecent}

Session == [status : {"active", "revoked"},
            window : Catalogs,
            pending : BOOLEAN,           \* pendingToolListChange
            outcomes : Recent,           \* recentOutcomes
            refreshes : Nat,             \* refreshCount
            cooled : Nat,                \* age of the last refresh, if any
            idle : 0..(Ttl + 1)]         \* age of lastActiveAt

Request == [at : {"list"}, session : Sessions, seen : Session]
             \cup [at : {"call"}, session : Sessions, tool : Tools, seen : Session]
             \cup [at : {"downstream"}, session : Sessions, tool : Tools]

Floor == [open : BOOLEAN, refreshes : Nat, outcomes : Recent, calls : Nat]

ASSUME NoneAssumption == NoSession \notin Session /\ NoRequest \notin Request
ASSUME NoFloorAssumption == NoSession \notin Floor

Checking ==
    {r \in Requests : request[r] # NoRequest /\ request[r].at \in {"list", "call"}}

Downstream == {r \in Requests : request[r] # NoRequest /\ request[r].at = "downstream"}

\* The sessions of which a request is being checked.
Busy == {request[r].session : r \in Checking}

-----------------------------------------------------------------------------
(* The store.                                                              *)

\* Mutant: a revoked session never expires.
ExpiredActive(x) == Ttl > 0 /\ x.idle > Ttl /\ x.status = "active"

Expired(x) == Ttl > 0 /\ x.idle > Ttl

\* What store.get returns; an expired entry is deleted on the way.
Get(s) == IF store[s] # NoSession /\ Expired(store[s]) THEN NoSession ELSE store[s]

Usable(s) == Get(s) # NoSession /\ store[s].status = "active"

Put(s, x) == [store EXCEPT ![s] = x]

-----------------------------------------------------------------------------
(* What the handlers make of a session.                                    *)

LastOf(seq, n) == SubSeq(seq, IF Len(seq) > n THEN Len(seq) - n + 1 ELSE 1, Len(seq))

Listed(x) == [x EXCEPT !.pending = FALSE]
Touched(x) == [x EXCEPT !.idle = 0]

\* Mutants: the oldest outcomes are kept; the session is revived.
RecordedOldest(x, o) ==
    [x EXCEPT !.outcomes = IF Len(@) < MaxRecent THEN Append(@, o) ELSE @]
RecordedActive(x, o) ==
    [x EXCEPT !.outcomes = LastOf(Append(@, o), MaxRecent), !.status = "active"]

\* Mutant: the session is built anew.
RecordedAnew(x, o) ==
    [x EXCEPT !.outcomes = LastOf(Append(@, o), MaxRecent), !.refreshes = 0]

Recorded(x, o) == [x EXCEPT !.outcomes = LastOf(Append(@, o), MaxRecent)]

\* Mutant: the change is not announced.
RefreshedSilently(x) ==
    [x EXCEPT !.window = catalog, !.refreshes = @ + 1, !.cooled = 0]

Refreshed(x) ==
    [x EXCEPT !.window = catalog, !.refreshes = @ + 1, !.cooled = 0, !.pending = TRUE]

\* The outcome itself may already be among those recorded.
FirstInDomain(x, o) ==
    Cardinality({i \in DOMAIN x.outcomes : x.outcomes[i] = o}) <= 1

Triggered(x, o) ==
    /\ x.cooled >= Cooldown
    /\ o.result \in Triggers
    /\ o.result = "success" => FirstInDomain(x, o)

\* evaluate() on what the store holds of s by now, which becomes x.
Evaluate(s, x, o) ==
    IF x # NoSession /\ Triggered(x, o)
    THEN store' = Put(s, Refreshed(x))
    ELSE store' = Put(s, x)

Init ==
    /\ settings \in Settings
    /\ store = [s \in Sessions |-> NoSession]
    /\ request = [r \in Requests |-> NoRequest]
    /\ catalog \in Catalogs
    /\ told = [s \in Sessions |-> NoWindow]
    /\ done = [s \in Sessions |-> << >>]
    /\ ended = {}
    /\ floor = [s \in Sessions |-> NoSession]

-----------------------------------------------------------------------------
(* initialize: session ids are fresh.                                      *)
Initialize(s) ==
    /\ store[s] = NoSession
    /\ s \notin ended
    /\ store' = Put(s, [status |-> "active", window |-> catalog, pending |-> FALSE,
                        outcomes |-> << >>, refreshes |-> 0,
                        cooled |-> Cooldown, idle |-> 0])
    /\ UNCHANGED <<request, catalog, told, done, ended>>

(* tools/list and tools/call read the session before the OAuth check.  It  *)
(* is kept as they will write it, with lastActiveAt renewed ...            *)
BeginList(r, s) ==
    /\ request[r] = NoRequest
    /\ Usable(s)
    /\ request' = [request EXCEPT ![r] = [at |-> "list", session |-> s, seen |-> Touched(store[s])]]
    /\ UNCHANGED <<store, catalog, told, done, ended>>

BeginCall(r, s, t) ==
    /\ request[r] = NoRequest
    /\ Usable(s)
    /\ Len(done[s]) + Cardinality(Downstream) < MaxCalls
    /\ store[s].refreshes < MaxRefreshes
    /\ request' = [request EXCEPT ![r] =
                      [at |-> "call", session |-> s, tool |-> t, seen |-> Touched(store[s])]]
    /\ UNCHANGED <<store, catalog, told, done, ended>>

Reject(r) ==
    /\ r \in Checking
    /\ request' = [request EXCEPT ![r] = NoRequest]
    /\ UNCHANGED <<store, catalog, told, done, ended>>

(* ... and write what they read back after it.                             *)
FinishList(r) ==
    /\ r \in Checking
    /\ request[r].at = "list"
    /\ LET s == request[r].session
       IN  /\ store' = Put(s, Listed(request[r].seen))
           /\ told' = [told EXCEPT ![s] =
                          IF \A q \in Checking \ {r} : request[q].session # s
                          THEN request[r].seen.window ELSE NoWindow]
    /\ request' = [request EXCEPT ![r] = NoRequest]
    /\ UNCHANGED <<catalog, done, ended>>

\* A call past its OAuth check; route() finds what the handler has just
\* written, so the session is neither expired nor revoked.
Checked(r) == request[r].seen

Visible(r) == request[r].tool \in request[r].seen.window

Outcomes(r) == {[server |-> ServerOf[request[r].tool], result |-> res] : res \in Results}

Leave(r) == request' = [request EXCEPT ![r] = NoRequest]

(* Bad arguments, a rate limit, a tool that is not visible or is disabled: *)
(* the outcome names no server, is not recorded and triggers nothing.      *)
Deny(r) ==
    /\ r \in Checking /\ request[r].at = "call"
    /\ store' = Put(request[r].session, Checked(r))
    /\ Leave(r)
    /\ UNCHANGED <<catalog, told, done, ended>>

(* No server, a disabled one, or one at its cap: the failure may trigger a *)
(* refresh but is not recorded.                                            *)
Unavailable(r) ==
    /\ r \in Checking /\ request[r].at = "call" /\ Visible(r)
    /\ \E o \in Outcomes(r) :
          o.result = "error" /\ Evaluate(request[r].session, Checked(r), o)
    /\ Leave(r)
    /\ UNCHANGED <<catalog, told, done, ended>>

(* A server the health monitor holds offline: refused without a call, but  *)
(* recorded like the failure of one.                                       *)
Offline(r) ==
    /\ r \in Checking /\ request[r].at = "call" /\ Visible(r)
    /\ LET s == request[r].session
       IN  \E o \in Outcomes(r) :
              /\ o.result = "error"
              /\ Evaluate(s, Recorded(Checked(r), o), o)
              /\ done' = [done EXCEPT ![s] = Append(@, o)]
    /\ Leave(r)
    /\ UNCHANGED <<catalog, told, ended>>

Dispatch(r) ==
    /\ r \in Checking /\ request[r].at = "call" /\ Visible(r)
    /\ store' = Put(request[r].session, Checked(r))
    /\ request' = [request EXCEPT ![r] =
                      [at |-> "downstream", session |-> request[r].session,
                       tool |-> request[r].tool]]
    /\ UNCHANGED <<catalog, told, done, ended>>

(* The downstream call settles: persistOutcome() reads the session anew.   *)
Complete(r) ==
    /\ r \in Downstream
    /\ LET s == request[r].session
       IN  \E o \in Outcomes(r) :
              /\ Evaluate(s, IF Get(s) = NoSession THEN NoSession
                             ELSE Recorded(Get(s), o), o)
              /\ done' = [done EXCEPT ![s] = Append(@, o)]
    /\ Leave(r)
    /\ UNCHANGED <<catalog, told, ended>>

-----------------------------------------------------------------------------
(* DELETE /admin/sessions/:id.                                             *)
Revoke(s) ==
    /\ Get(s) # NoSession
    /\ store' = Put(s, [store[s] EXCEPT !.status = "revoked"])
    /\ ended' = ended \cup {s}
    /\ UNCHANGED <<request, catalog, told, done>>

(* The cleanup timer, or a request that comes too late.                    *)
Expire(s) ==
    /\ store[s] # NoSession /\ Expired(store[s])
    /\ store' = Put(s, NoSession)
    /\ UNCHANGED <<request, catalog, told, done, ended>>

(* The registry's caches or the configuration changed what is published.   *)
Publish(c) ==
    /\ catalog' = c
    /\ UNCHANGED <<store, request, told, done, ended>>

(* The process dies and is started again.                                  *)
Crash ==
    /\ request' = [r \in Requests |-> NoRequest]
    /\ store' = IF settings.durable THEN store ELSE [s \in Sessions |-> NoSession]
    /\ ended' = IF settings.durable THEN ended ELSE ended \cup {s \in Sessions : store[s] # NoSession}
    /\ UNCHANGED <<catalog, told, done>>

Older(age, limit) == IF age < limit THEN age + 1 ELSE limit

Aged(x) ==
    IF x = NoSession THEN x
    ELSE [x EXCEPT !.idle = Older(@, Ttl + 1), !.cooled = Older(@, Cooldown)]

Tick ==
    /\ store' = [s \in Sessions |-> Aged(store[s])]
    /\ request' = [r \in Requests |-> IF r \in Checking
                                      THEN [request[r] EXCEPT !.seen = Touched(Aged(@))]
                                      ELSE request[r]]
    /\ ended' = ended \cup {s \in Sessions : store'[s] # NoSession /\ Expired(store'[s])}
    /\ UNCHANGED <<catalog, told, done>>

-----------------------------------------------------------------------------
Resume ==
    \E r \in Requests :
        Reject(r) \/ FinishList(r) \/ Deny(r) \/ Unavailable(r) \/ Offline(r) \/ Dispatch(r)

Begin(s) ==
    \E r \in Requests : BeginList(r, s) \/ \E t \in Tools : BeginCall(r, s, t)

Step ==
    \/ \E s \in Sessions : Initialize(s) \/ Begin(s) \/ Revoke(s) \/ Expire(s)
    \/ \E r \in Requests : Complete(r)
    \/ \E c \in Catalogs : Publish(c)
    \/ Crash
    \/ Tick

\* The history follows a session as long as none of its requests is checked.
Standing(s) ==
    IF store[s] = NoSession THEN NoSession
    ELSE [open |-> Usable(s), refreshes |-> store[s].refreshes,
          outcomes |-> store[s].outcomes, calls |-> Len(done[s])]

Observe ==
    /\ floor' = [s \in Sessions |-> IF s \in Busy' THEN floor[s] ELSE Standing(s)']
    /\ UNCHANGED settings

\* A check that awaits nothing goes on before anything else runs.
Next ==
    /\ Resume \/ ((settings.oauth \/ Checking = {}) /\ Step)
    /\ Observe

(* Token checks and downstream calls settle or time out, the cleanup timer *)
(* fires and time passes.                                                  *)
Fairness ==
    /\ WF_vars(Resume /\ Observe)
    /\ \A r \in Requests : WF_vars(Complete(r) /\ Observe)
    /\ \A s \in Sessions : WF_vars(Expire(s) /\ Observe)
    /\ WF_vars(Tick /\ Observe)

Spec == Init /\ [][Next]_vars
FairSpec == Spec /\ Fairness

-----------------------------------------------------------------------------
TypeOK ==
    /\ settings \in Settings
    /\ store \in [Sessions -> Session \cup {NoSession}]
    /\ request \in [Requests -> Request \cup {NoRequest}]
    /\ catalog \in Catalogs
    /\ told \in [Sessions -> Catalogs \cup {NoWindow}]
    /\ done \in [Sessions -> Seq(Outcome)]
    /\ ended \subseteq Sessions
    /\ floor \in [Sessions -> Floor \cup {NoSession}]

(* A session whose window is no longer the one its client listed is marked *)
(* as changed until the client lists again, whatever is refreshed or       *)
(* written back meanwhile (tools-list.ts:73-85, engine.ts:145-176).  Not   *)
(* so for a client that has another request checked while its listing is   *)
(* answered.                                                               *)
ChangeAnnounced ==
    \A s \in Sessions :
        (store[s] # NoSession /\ told[s] # NoWindow /\ told[s] # store[s].window)
            => store[s].pending

(* The next three say how far the copy that a handler writes back after    *)
(* the check of a token (tools-list.ts:74, tools-call.ts:286) can set a    *)
(* session back: what was so when no check of the session was under way    *)
(* stays so, however many checks and calls overlap afterwards.             *)

Open(x) == x # NoSession /\ x.open

(* A session that had ended by then never serves again.                    *)
EndStands == [][\A s \in ended : ~Open(floor[s]) => ~Usable(s)']_vars

(* No write undoes a refresh made by then.                                 *)
RefreshesStand ==
    [][\A s \in Sessions :
          floor[s] # NoSession /\ store'[s] # NoSession =>
              store'[s].refreshes >= floor[s].refreshes]_vars

Increasing(k, range) ==
    {f \in [1..k -> range] : \A i, j \in 1..k : i < j => f[i] < f[j]}

\* recent: the last of what floor x has and of some of the calls since, in order.
Extends(recent, x, calls) ==
    \E k \in 0..(Len(calls) - x.calls) :
        \E f \in Increasing(k, (x.calls + 1)..Len(calls)) :
            recent = LastOf(x.outcomes \o [i \in 1..k |-> calls[f[i]]], MaxRecent)

\* All that settled since the session had the outcomes of x.
All(x, calls) == LastOf(x.outcomes \o SubSeq(calls, x.calls + 1, Len(calls)), MaxRecent)

(* The outcomes recorded by then are there, up to MaxRecent; of those that *)
(* settled since some may be lost, but none is out of order, recorded      *)
(* twice or made up.  One that settles while no request of the session is  *)
(* being checked is not lost (router.ts:966-976).                          *)
OutcomesStand ==
    [][\A s \in Sessions :
          floor[s] # NoSession /\ store'[s] # NoSession =>
              /\ Extends(store'[s].outcomes, floor[s], done'[s])
              /\ s \notin Busy => store'[s].outcomes = All(floor[s], done'[s])]_vars

(* A session that no request comes for is removed from the store in the    *)
(* end, revoked or not (store.ts:61-67).                                   *)
IdleRemoved ==
    \A s \in Sessions : <>[][~Begin(s)]_vars => <>[](store[s] = NoSession)

(* What the program does not keep where a check awaits I/O.                *)
(* docs/reference/HTTP-API.md:98: "DELETE /admin/sessions/:id | Revoke     *)
(* session".  A session that was revoked or has expired never serves again. *)
EndedStaysEnded == \A s \in ended : ~Usable(s)
=============================================================================
