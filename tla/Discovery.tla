------------------------------ MODULE Discovery ------------------------------
(***************************************************************************)
(* One session of a namespace looks for tools and calls them: the window   *)
(* it was given (dispatch/initialize.ts, trigger/engine.ts), the gateway's *)
(* own tools (gateway/discovery.ts, router/router.ts) and the handles of   *)
(* code mode (runtime/catalog-api.ts, handle-registry.ts, mcp-api.ts).     *)
(* The operator disables tools and servers, and servers come and go,       *)
(* between any two steps.                                                  *)
(*                                                                         *)
(* Session expiry, rate limits and refresh triggers are modules Sessions   *)
(* and RateLimiter; a code execution's deadline is module CodeRuntime.     *)
(***************************************************************************)
EXTENDS Selection

CONSTANTS
    Modes,        \* gateway modes the namespace may have
    Recent,       \* outcomes a session keeps (MAX_RECENT_OUTCOMES)
    Ttl,          \* life of a handle
    RunLength,    \* executionTimeoutMs
    Reserves, WindowSizes, Windows,   \* arguments of publishWindow to try
    MayDisable,   \* keys the operator may disable
    MayWithhold,  \* tools the operator may quarantine
    Suspicious,   \* tools whose description looks like an attack (detectSuspicious)
    Lifetime, MaxHandles, MaxChanges  \* bounds: clock, handles, outside changes

ASSUME PublishingAssumption ==
    Reserves \subseteq Nat /\ WindowSizes \subseteq Nat /\ Windows \subseteq Seq(Tools)

ASSUME TimesAssumption == Recent \in Nat /\ Ttl \in Nat /\ RunLength \in Nat /\ Lifetime \in Nat

VARIABLES
    mode,       \* of the namespace when the session began
    disabled,   \* the namespace's disabledTools, each with when it was added
    withheld,   \* tools with a toolOverride that quarantines them
    enabled,    \* servers that are enabled
    health,     \* the health monitor's view of each server
    window,     \* session.toolWindow: keys of downstream tools
    outcomes,   \* session.recentOutcomes
    ranked,     \* the pool as ranked at the last refresh
    registry,   \* the handle registry of the latest code execution
    hung,       \* is it on the stored session?
    run,        \* the code execution, NoRun if none
    now,
    changes     \* bound: how often the operator or a server changed something

config == <<mode, disabled, withheld, enabled, health, changes>>
code == <<registry, hung, run>>
discoveryVars == <<config, window, outcomes, ranked, code, now>>

Servers == {Card[t].server : t \in Tools}
Keys == {Key(t) : t \in Tools}
RawKeys == {<<Card[t].server, Card[t].raw>> : t \in Tools}

NoRun == [since |-> -1]

Empty == [k \in {} |-> 0]

\* A HandleRegistry: byHandle, byTargetKey and expiresAt, and (history) the
\* handles that ran out in the middle of a resolve.
NewRegistry == [next |-> 1, target |-> Empty, handle |-> Empty, expires |-> Empty, slipped |-> {}]

-----------------------------------------------------------------------------
(* What the session may see.                                               *)

\* getToolsByNamespace lists enabled servers only.
Listed == {t \in Tools : Card[t].server \in enabled}

Off == DOMAIN disabled

\* generateToolcard.
Quarantined == Suspicious \cup withheld

\* buildVisibleToolCatalog, and the filters of executeGatewaySearch and of
\* CatalogRuntimeApi.loadToolcards.
Catalog == {t \in Listed \ Quarantined : Key(t) \notin Off}

\* In compat and code mode the window holds the gateway's own tools only.
WindowNow == IF mode = "default" THEN {Key(t) : t \in Catalog} ELSE {}

\* handleInitialize, once the policy has let the session in.
DiscoveryInit ==
    /\ mode \in Modes
    /\ disabled \in {[key \in off |-> 0] : off \in SUBSET MayDisable}
    /\ withheld \in SUBSET MayWithhold
    /\ enabled = Servers
    /\ health = [s \in Servers |-> "unknown"]
    /\ window = WindowNow
    /\ outcomes = <<>>
    /\ ranked = <<>>
    /\ registry = NewRegistry
    /\ hung = FALSE
    /\ run = NoRun
    /\ now = 0
    /\ changes = 0

\* TriggerEngine.refresh, which no call of gateway_run_code causes; module
\* Sessions has when it runs and what it keeps of the session.
Refresh ==
    /\ mode # "code"
    /\ ranked = <<>>
    /\ window' = WindowNow
    /\ IF mode = "default" THEN ranked' = <<>>
       ELSE \E order \in SetToSeqs(HardFiltered(Listed, Quarantined, health, Off)), signal \in BOOLEAN :
                ranked' = Reranked(Pool(order), signal, health, outcomes)
    /\ UNCHANGED <<config, outcomes, code, now>>

-----------------------------------------------------------------------------
(* Calls (router/router.ts).                                               *)

Refuses(s) ==
    \/ health[s] = "offline"
    \/ health[s] = "degraded" /\ SessionMode \in {"write", "admin"}

\* executeDownstream for a call that holds its slot: the health check, the
\* call, and persistOutcome.  A server fails a call of a name it does not list.
Executed(key) ==
    \E ok \in {b \in BOOLEAN : b => key \in RawKeys /\ ~Refuses(key[1])} :
        outcomes' = LastOf(Append(outcomes, [key |-> key, ok |-> ok]), Recent)

\* route, for a name that is not one of the gateway's.
CallVisible(name) ==
    /\ mode = "default"
    /\ \E key \in window :
          /\ key[2] = name
          /\ \A other \in window : other[2] = name => other = key
          /\ key \notin Off
          /\ key[1] \in enabled
          /\ Executed(key)
    /\ ranked' = <<>>
    /\ UNCHANGED <<config, window, code, now>>

\* handleGatewayCall, for any name the client may have met.
GatewayCall(key) ==
    /\ mode = "compat"
    /\ key \notin Off
    /\ key[1] \in enabled
    /\ Executed(key)
    /\ ranked' = <<>>
    /\ UNCHANGED <<config, window, code, now>>

\* executeGatewaySearch on one server; ranking and limit leave any of these.
Searched(s) == {t \in Catalog : Card[t].server = s}

\* handleGatewaySearchAndCall, whichever match the query and matchIndex pick.
SearchAndCall ==
    /\ mode = "compat"
    /\ \E s \in Servers : \E t \in Searched(s) : Executed(Key(t))
    /\ ranked' = <<>>
    /\ UNCHANGED <<config, window, code, now>>

-----------------------------------------------------------------------------
(* HandleRegistry.                                                         *)

Without(f, dropped) == [x \in DOMAIN f \ dropped |-> f[x]]

Assigned(f, x, v) == [y \in DOMAIN f \cup {x} |-> IF y = x THEN v ELSE f[y]]

\* Mutant: the map by target is forgotten.
CleanedUpHalf(r, t) ==
    LET late == {h \in DOMAIN r.expires : t > r.expires[h]}
    IN  [r EXCEPT !.target = Without(@, late), !.expires = Without(@, late)]

\* cleanupExpired at time t.
CleanedUp(r, t) ==
    LET late == {h \in DOMAIN r.expires : t > r.expires[h]}
    IN  [r EXCEPT !.handle = Without(@, {r.target[h] : h \in late \cap DOMAIN r.target}),
                  !.target = Without(@, late),
                  !.expires = Without(@, late)]

\* Mutant: handles are numbered by how many there are.
RegisteredByCount(r, key, t, u) ==
    LET c == CleanedUp(r, t)
        h == IF key \in DOMAIN c.handle THEN c.handle[key]
             ELSE Cardinality(DOMAIN c.target) + 1
    IN  [handle |-> h,
         registry |-> [c EXCEPT !.target = Assigned(@, h, key),
                                !.handle = Assigned(@, key, h),
                                !.expires = Assigned(@, h, u + Ttl)]]

\* register(key): the handle, and the registry after it.  It cleans up at time
\* t, and the handle lives from time u.
Registered(r, key, t, u) ==
    LET c == CleanedUp(r, t)
        h == IF key \in DOMAIN c.handle THEN c.handle[key] ELSE c.next
    IN  [handle |-> h,
         registry |->
            IF key \in DOMAIN c.handle
            THEN [c EXCEPT !.expires = Assigned(@, h, u + Ttl)]
            ELSE [c EXCEPT !.next = @ + 1,
                           !.target = Assigned(@, h, key),
                           !.handle = Assigned(@, key, h),
                           !.expires = Assigned(@, h, u + Ttl)]]

\* Mutant: a handle that is used lives on.
ResolvedRenewing(r, h, t, u) ==
    LET c == CleanedUp(r, t)
    IN  IF h \in DOMAIN c.target THEN [c EXCEPT !.expires = Assigned(@, h, u + Ttl)] ELSE c

\* resolve(h): it reads the clock twice, at t and at u.  A handle that runs out
\* in between leaves the two maps by handle, but not the one by target.
Resolved(r, h, t, u) ==
    LET c == CleanedUp(r, t)
    IN  IF h \in DOMAIN c.expires /\ u > c.expires[h]
        THEN [c EXCEPT !.target = Without(@, {h}), !.expires = Without(@, {h}),
                           !.slipped = @ \cup {h}]
        ELSE c

-----------------------------------------------------------------------------
(* Code mode (runtime/index.ts).                                           *)

\* handleGatewayRunCode up to the sandbox: the registry on the session, or a
\* new one that is hung on it, and the catalogue as it is now.
StartRun ==
    /\ mode = "code" /\ run = NoRun
    /\ registry' = IF hung THEN registry ELSE NewRegistry
    /\ hung' = TRUE
    /\ run' = [cards |-> Catalog, since |-> now, issued |-> {}]
    /\ ranked' = <<>>
    /\ UNCHANGED <<config, window, outcomes, now>>

\* catalog.search, list and describe give a handle for each tool they show.
Show(t) ==
    /\ run # NoRun
    /\ t \in run.cards
    /\ \E later \in {now, now + 1} :
          /\ later <= Min({Lifetime, run.since + RunLength})
          /\ now' = later
          /\ LET r == Registered(registry, Key(t), now, later)
             IN  /\ r.handle <= MaxHandles
                 /\ registry' = r.registry
                 /\ run' = [run EXCEPT !.issued = @ \cup {<<r.handle, Key(t)>>}]
    /\ UNCHANGED <<config, window, outcomes, ranked, hung>>

\* mcp.call and mcp.batch: a handle from this execution or from anywhere else.
CodeCall(h) ==
    /\ run # NoRun
    /\ \E later \in {now, now + 1} :
          /\ later <= Min({Lifetime, run.since + RunLength})
          /\ now' = later
          /\ LET r == Resolved(registry, h, now, later)
             IN  /\ registry' = r
                 /\ IF h \in DOMAIN r.target /\ r.target[h][1] \in enabled
                    THEN Executed(r.target[h])
                    ELSE UNCHANGED outcomes
    /\ ranked' = <<>>
    /\ UNCHANGED <<config, window, hung, run>>

EndRun ==
    /\ run # NoRun
    /\ run' = NoRun
    /\ UNCHANGED <<config, window, outcomes, ranked, registry, hung, now>>

\* Another call of the session stores the copy of it that it read earlier
\* (handleToolsCall, persistOutcome), from before a registry was hung on it.
StaleCopyStored ==
    /\ hung
    /\ hung' = FALSE
    /\ UNCHANGED <<config, window, outcomes, ranked, registry, run, now>>

-----------------------------------------------------------------------------
(* The operator, the servers and the clock.                                *)

Changed == changes < MaxChanges /\ changes' = changes + 1

Disable(key) ==
    /\ Changed
    /\ key \notin Off
    /\ disabled' = Assigned(disabled, key, now)
    /\ ranked' = <<>>
    /\ UNCHANGED <<mode, withheld, enabled, health, window, outcomes, code, now>>

Reenable(key) ==
    /\ Changed
    /\ key \in Off
    /\ disabled' = Without(disabled, {key})
    /\ ranked' = <<>>
    /\ UNCHANGED <<mode, withheld, enabled, health, window, outcomes, code, now>>

\* A toolOverride; of what it may say, whether the tool is quarantined.
Withhold(t) ==
    /\ Changed
    /\ withheld' = withheld \cup {t}
    /\ ranked' = <<>>
    /\ UNCHANGED <<mode, disabled, enabled, health, window, outcomes, code, now>>

RemoveOverride(t) ==
    /\ Changed
    /\ t \in withheld
    /\ withheld' = withheld \ {t}
    /\ ranked' = <<>>
    /\ UNCHANGED <<mode, disabled, enabled, health, window, outcomes, code, now>>

SwitchServer(s) ==
    /\ Changed
    /\ enabled' = IF s \in enabled THEN enabled \ {s} ELSE enabled \cup {s}
    /\ ranked' = <<>>
    /\ UNCHANGED <<mode, disabled, withheld, health, window, outcomes, code, now>>

\* Module HealthMonitor.
HealthChanges(s) ==
    /\ Changed
    /\ \E to \in {"healthy", "degraded", "offline"} \ {health[s]} :
           health' = [health EXCEPT ![s] = to]
    /\ ranked' = <<>>
    /\ UNCHANGED <<mode, disabled, withheld, enabled, window, outcomes, code, now>>

\* A code execution is stopped in time.
Tick ==
    /\ now < Lifetime
    /\ run # NoRun => now < run.since + RunLength
    /\ now' = now + 1
    /\ UNCHANGED <<config, window, outcomes, ranked, code>>

DiscoveryNext ==
    \/ Refresh
    \/ \E key \in Keys : CallVisible(key[2])
    \/ \E key \in Keys \cup RawKeys : GatewayCall(key)
    \/ SearchAndCall
    \/ StartRun
    \/ \E t \in Tools : Show(t)
    \/ \E h \in 1..MaxHandles : CodeCall(h)
    \/ EndRun
    \/ StaleCopyStored
    \/ \E key \in MayDisable : Disable(key) \/ Reenable(key)
    \/ \E t \in MayWithhold : Withhold(t) \/ RemoveOverride(t)
    \/ \E s \in Servers : SwitchServer(s) \/ HealthChanges(s)
    \/ Tick

DiscoverySpec == DiscoveryInit /\ [][DiscoveryNext]_discoveryVars

-----------------------------------------------------------------------------
(* Properties.                                                             *)

\* The variables have values of these kinds.
DiscoveryTypeOK ==
    /\ mode \in Modes
    /\ Off \subseteq MayDisable /\ \A key \in Off : disabled[key] \in 0..Lifetime
    /\ withheld \subseteq MayWithhold
    /\ enabled \subseteq Servers
    /\ health \in [Servers -> {"unknown", "healthy", "degraded", "offline"}]
    /\ window \subseteq Keys
    /\ Len(outcomes) <= Recent
    /\ hung \in BOOLEAN
    /\ run # NoRun => run.cards \subseteq Tools
    /\ now \in 0..Lifetime

\* While code runs, a handle it was given leads to the tool it was given for,
\* or nowhere: however handles run out, are refreshed and are made anew
\* (discovery.ts:187, "handles from this execution").
HandleMeansOne ==
    run # NoRun =>
        \A given \in run.issued :
            given[1] \in DOMAIN registry.target => registry.target[given[1]] = given[2]

\* A handle that the registry would give out again for a tool leads to that
\* tool, unless a resolve caught it running out between its clock reads: two
\* tools never share one, and what is cleaned up goes from both maps.
MapsAgree ==
    \A key \in DOMAIN registry.handle :
        LET h == registry.handle[key]
        IN  h \notin registry.slipped =>
                h \in DOMAIN registry.target /\ registry.target[h] = key

\* A tool the operator disabled can be called through a handle for as long as
\* an execution and the handle's life last, and no longer.
DisabledRunsOut ==
    \A h \in DOMAIN registry.target :
        registry.target[h] \in Off /\ now <= registry.expires[h] =>
            now - disabled[registry.target[h]] <= RunLength + Ttl

\* Whatever its size and the window before it, a window published from the
\* ranking has every place filled once; and a ranked tool of the window before
\* gives way only to others that are all better by the threshold, or that the
\* window before had too.
WindowKept ==
    \A size \in WindowSizes, current \in Windows :
        LET chosen == Selected(ranked, size, current)
        IN  /\ Len(chosen) = Min({size, Len(ranked)})
            /\ Cardinality(ToSet(chosen)) = Len(chosen)
            /\ \A t \in (ToSet(current) \cap RankedTools(ranked)) \ ToSet(chosen),
                  u \in ToSet(chosen) \ ToSet(current) :
                    ScoreOf(ranked, u) - ScoreOf(ranked, t) >= StabilityThreshold

\* A window larger than the reserve keeps that many places for tools outside
\* the session's focus, as far as the ranking has them, and loses none of its
\* places to it.
ReserveHonoured ==
    LET dominant == Dominant(outcomes)
        away == {e \in ToSet(ranked) : Card[e.tool].capability # dominant}
    IN  dominant # NoCapability =>
          \A size \in WindowSizes, current \in Windows, reserve \in Reserves :
            LET w == PublishedWindow(ranked, size, current, reserve, dominant)
            IN  /\ Cardinality(ToSet(w)) = Min({size, Len(ranked)})
                /\ Len(w) > reserve =>
                      Cardinality(OutsideFocus(w, dominant)) >= Min({reserve, Cardinality(away)})
=============================================================================
