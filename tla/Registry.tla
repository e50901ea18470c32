------------------------------ MODULE Registry ------------------------------
(***************************************************************************)
(* The downstream registry (src/registry/registry.ts) under the            *)
(* configurations that src/config/runtime.ts applies to it.  start()       *)
(* fetches the tools of every enabled server, awaits them all, and only    *)
(* then starts the health monitor and the refresh timers; another          *)
(* configuration may be applied while it waits.  RuntimeConfig puts these  *)
(* actions together with what applies the configurations.                  *)
(*                                                                         *)
(* Applied configurations are numbered.  What a server publishes is        *)
(* identified by the number of the configuration whose description of the  *)
(* server (its URL, its credentials) the fetch was made with; 0 is none.   *)
(***************************************************************************)
EXTENDS Naturals

CONSTANTS
    Servers,
    Configs,     \* what can be applied: which servers exist, are enabled, refreshed
    MaxApplied   \* bound on the configurations applied

Config == [servers : SUBSET Servers,     \* all that are described
           enabled : SUBSET Servers,     \* those fetched by start()
           refreshed : SUBSET Servers,   \* those with a refresh interval
           auth : {"static_key", "oauth", "hybrid"}]   \* who may use the gateway

Numbers == 1..MaxApplied

VARIABLES
    applied,    \* how many configurations have been applied
    config,     \* config[n]: the one with number n
    cache,      \* this.toolCache
    waiting,    \* the start() calls that await their fetches
    fetching,   \* fetching[n]: the servers start() number n still waits for
    refreshing, \* the refreshTools() calls in flight besides those of start()
    timers,     \* the live interval timers, <<number, server>>
    held,       \* this.refreshTimers: the number of each server's timer, or 0
    watched     \* the number last given to healthMonitor.start(), 0 if stopped

vars == <<applied, config, cache, waiting, fetching, refreshing, timers, held, watched>>

Current == config[applied]

-----------------------------------------------------------------------------
(* RuntimeConfigManager.applyResolvedConfig: registry.stop(), then start() *)
(* up to its await.  Only timers the map knows of are cleared.             *)

Held == {<<held[s], s>> : s \in {t \in Servers : held[t] # 0}}

\* Mutants: the timers are not cleared, or the map of them is not.
BegunWithTimers(n, cfg) ==
    /\ applied' = n
    /\ config' = [config EXCEPT ![n] = cfg]
    /\ cache' = [s \in Servers |-> 0]
    /\ waiting' = waiting \cup {n}
    /\ fetching' = [fetching EXCEPT ![n] = cfg.enabled]
    /\ held' = [s \in Servers |-> 0]
    /\ watched' = 0
    /\ UNCHANGED <<refreshing, timers>>

BegunWithHeld(n, cfg) ==
    /\ applied' = n
    /\ config' = [config EXCEPT ![n] = cfg]
    /\ cache' = [s \in Servers |-> 0]
    /\ waiting' = waiting \cup {n}
    /\ fetching' = [fetching EXCEPT ![n] = cfg.enabled]
    /\ timers' = timers \ Held
    /\ watched' = 0
    /\ UNCHANGED <<refreshing, held>>

Begun(n, cfg) ==
    /\ applied' = n
    /\ config' = [config EXCEPT ![n] = cfg]
    /\ cache' = [s \in Servers |-> 0]
    /\ waiting' = waiting \cup {n}
    /\ fetching' = [fetching EXCEPT ![n] = cfg.enabled]
    /\ timers' = timers \ Held
    /\ held' = [s \in Servers |-> 0]
    /\ watched' = 0
    /\ UNCHANGED refreshing

Apply(cfg) ==
    /\ applied < MaxApplied
    /\ Begun(applied + 1, cfg)

(* One fetch of start() is answered: its tools are cached, whatever        *)
(* configuration is current by now.  A failure is only logged.             *)
Fetched(n, s) ==
    /\ s \in fetching[n]
    /\ cache' = [cache EXCEPT ![s] = n]
    /\ fetching' = [fetching EXCEPT ![n] = @ \ {s}]
    /\ UNCHANGED <<applied, config, waiting, refreshing, timers, held, watched>>

FetchFailed(n, s) ==
    /\ s \in fetching[n]
    /\ fetching' = [fetching EXCEPT ![n] = @ \ {s}]
    /\ UNCHANGED <<applied, config, cache, waiting, refreshing, timers, held, watched>>

\* Mutant: a server whose first fetch failed gets no timer.
StartedFetched(n) ==
    /\ n \in waiting
    /\ fetching[n] = {}
    /\ waiting' = waiting \ {n}
    /\ watched' = n
    /\ LET fetched == {s \in config[n].refreshed : cache[s] = n}
       IN  /\ timers' = timers \cup {<<n, s>> : s \in fetched}
           /\ held' = [s \in Servers |-> IF s \in fetched THEN n ELSE held[s]]
    /\ UNCHANGED <<applied, config, cache, fetching, refreshing>>

(* The rest of start(), for the servers it was called with.                *)
Started(n) ==
    /\ n \in waiting
    /\ fetching[n] = {}
    /\ waiting' = waiting \ {n}
    /\ watched' = n
    /\ timers' = timers \cup {<<n, s>> : s \in config[n].refreshed}
    /\ held' = [s \in Servers |-> IF s \in config[n].refreshed THEN n ELSE held[s]]
    /\ UNCHANGED <<applied, config, cache, fetching, refreshing>>

(* refreshTools(id), for a timer and for an administrator: the server is   *)
(* looked up among those of the current configuration.                     *)
Refresh(s) ==
    /\ s \in Current.servers
    /\ refreshing' = refreshing \cup {<<applied, s>>}
    /\ UNCHANGED <<applied, config, cache, waiting, fetching, timers, held, watched>>

TimerFires(t) == t \in timers /\ Refresh(t[2])

Refreshed(f) ==
    /\ f \in refreshing
    /\ cache' = [cache EXCEPT ![f[2]] = f[1]]
    /\ refreshing' = refreshing \ {f}
    /\ UNCHANGED <<applied, config, waiting, fetching, timers, held, watched>>

RefreshFailed(f) ==
    /\ f \in refreshing
    /\ refreshing' = refreshing \ {f}
    /\ UNCHANGED <<applied, config, cache, waiting, fetching, timers, held, watched>>

-----------------------------------------------------------------------------
Timed == Numbers \X Servers

Fetch(n, s) == Fetched(n, s) \/ FetchFailed(n, s)

Answer(f) == Refreshed(f) \/ RefreshFailed(f)

Serve ==
    \/ \E n \in Numbers, s \in Servers : Fetch(n, s)
    \/ \E n \in Numbers : Started(n)
    \/ \E s \in Servers : Refresh(s)
    \/ \E t \in Timed : TimerFires(t)
    \/ \E f \in Timed : Answer(f)

-----------------------------------------------------------------------------
TypeOK ==
    /\ applied \in Numbers
    /\ config \in [Numbers -> Configs]
    /\ cache \in [Servers -> 0..MaxApplied]
    /\ waiting \subseteq Numbers
    /\ fetching \in [Numbers -> SUBSET Servers]
    /\ \A f \in refreshing : f \in Timed /\ f[2] \in config[f[1]].servers
    /\ timers \subseteq Timed
    /\ held \in [Servers -> 0..MaxApplied]
    /\ watched \in 0..MaxApplied
=============================================================================
