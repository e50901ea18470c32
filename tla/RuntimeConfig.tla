--------------------------- MODULE RuntimeConfig ----------------------------
(***************************************************************************)
(* The configuration manager (src/config/runtime.ts) with the store it     *)
(* keeps its versions in (ConfigVersions) and the registry it applies them *)
(* to (Registry): what is fetched, refreshed and watched is to be what is  *)
(* stored, over saves, rollbacks, their failures, crashes and restarts.    *)
(***************************************************************************)
EXTENDS ConfigVersions

CONSTANTS
    Servers,
    MaxApplied   \* bound on the configurations applied between two restarts

VARIABLES applied, config, cache, waiting, fetching, refreshing, timers, held, watched

VARIABLES
    since,    \* history: the last configuration applied while no start() waited
    crowded   \* history: the start() calls of this process that overlapped another

Registry == INSTANCE Registry

store == <<hasRepo, vars>>
registry == <<applied, config, cache, waiting, fetching, refreshing, timers, held, watched>>
overlaps == <<since, crowded>>
allVars == <<store, registry, overlaps>>

ASSUME ConfigsAssumption ==
    \A cfg \in Configs :
        /\ cfg \in Registry!Config
        /\ cfg.refreshed \subseteq cfg.enabled
        /\ cfg.enabled \subseteq cfg.servers
ASSUME AppliedAssumption == MaxApplied \in Nat \ {0}

Numbers == 1..MaxApplied

-----------------------------------------------------------------------------
(* The registry of a process that is not running.                          *)
Down ==
    /\ applied = 1
    /\ config = [n \in Numbers |-> effective]
    /\ cache = [s \in Servers |-> 0]
    /\ waiting = {} /\ fetching = [n \in Numbers |-> {}] /\ refreshing = {}
    /\ timers = {} /\ held = [s \in Servers |-> 0] /\ watched = 0
    /\ since = 1 /\ crowded = {}

\* A new process, of which the registry awaits the fetches of start(), if any.
Process(starts, fetched) ==
    /\ applied' = 1
    /\ config' = [n \in Numbers |-> effective']
    /\ cache' = [s \in Servers |-> 0]
    /\ waiting' = starts
    /\ fetching' = [n \in Numbers |-> IF n = 1 THEN fetched ELSE {}]
    /\ refreshing' = {}
    /\ timers' = {} /\ held' = [s \in Servers |-> 0] /\ watched' = 0
    /\ since' = 1 /\ crowded' = {}

GatewayInit == Init /\ Down

(* initialize(), for which the gateway waits before it listens.            *)
Start == Boot /\ Process({1}, effective'.enabled)

Listening == running /\ 1 \notin waiting

(* Nothing keeps an administrator from saving while start() still awaits   *)
(* the fetches of an earlier save.                                         *)
Edit ==
    /\ Listening /\ applied < MaxApplied
    /\ \/ \E c \in Configs : BeginSave(c)
       \/ \E v \in 1..MaxVersions : BeginRollback(v)
    /\ UNCHANGED <<registry, overlaps>>

\* Nothing is applied when the second half of a change fails.
EditFailed == Fail /\ UNCHANGED <<registry, overlaps>>

(* applyResolvedConfig(): what is now in effect is applied to the registry. *)
ApplyResolvedConfig ==
    /\ EndSave \/ EndRollback
    /\ Registry!Apply(effective')
    /\ IF waiting = {}
       THEN since' = applied' /\ UNCHANGED crowded
       ELSE crowded' = crowded \cup waiting' /\ UNCHANGED since

Die == Crash /\ Process({}, {})

EditFileOffline == (\E c \in Configs : EditFile(c)) /\ UNCHANGED <<registry, overlaps>>

(* Answers and timers do not wait for a change that is under way: in the   *)
(* code nothing runs between its halves, but they touch only the store.    *)
Serving(A) == running /\ A /\ UNCHANGED <<vars, overlaps>>

Serve == Serving(Registry!Serve)

GatewayNext ==
    /\ Start \/ Edit \/ EditFailed \/ ApplyResolvedConfig \/ Die \/ EditFileOffline \/ Serve
    /\ UNCHANGED hasRepo

(* Fetches are answered or time out, and timers fire.                      *)
Fairness ==
    LET serving(A) == Serving(A) /\ UNCHANGED hasRepo
    IN  /\ \A n \in Numbers, s \in Servers : WF_allVars(serving(Registry!Fetch(n, s)))
        /\ \A n \in Numbers : WF_allVars(serving(Registry!Started(n)))
        /\ \A t \in Registry!Timed : WF_allVars(serving(Registry!TimerFires(t)))
        /\ \A f \in Registry!Timed : WF_allVars(serving(Registry!Answer(f)))

GatewaySpec == GatewayInit /\ [][GatewayNext]_allVars /\ Fairness

-----------------------------------------------------------------------------
RegistryTypeOK == Registry!TypeOK

(* A timer that stop() does not know of was set by a start() that          *)
(* overlapped another: it is the map of timers, which remembers one per    *)
(* server, that loses it, and nothing else (registry.ts:159-188).  Saves   *)
(* that do not overlap leave no timer behind, whatever fails or crashes.   *)
TimersAccounted == \A t \in timers \ Registry!Held : t[1] \in crowded

(* Once every start() has come to its end, what is watched and refreshed   *)
(* is not older than the last configuration that was applied while no      *)
(* start() waited, every server that the configuration in effect refreshes *)
(* has a timer that stop() knows of, and the store holds no other          *)
(* configuration (runtime.ts:116-128, registry.ts:159-175).  When the last *)
(* save was made in peace, "since" is "applied", and the registry does     *)
(* exactly what that configuration says.                                   *)
SettledOnStored ==
    Listening /\ waiting = {} /\ change = NoChange =>
        /\ Stored \subseteq {config[applied]}
        /\ watched \in since..applied
        /\ \A s \in config[applied].refreshed : <<held[s], s>> \in timers
        /\ \A t \in Registry!Held : t[1] \in since..applied /\ t[2] \in config[t[1]].refreshed

(* When the gateway stays up and fetches stop failing, a server with a     *)
(* refresh interval is in the end published as the configuration in effect *)
(* describes it, even if a late answer to an older fetch had overwritten   *)
(* its tools.                                                              *)
Calm(s) ==
    /\ <>[]running
    /\ <>[][\A n \in Numbers : /\ ~Registry!FetchFailed(n, s)
                               /\ ~Registry!RefreshFailed(<<n, s>>)]_allVars
CatchesUp ==
    \A s \in Servers :
        Calm(s) => <>[](s \in effective.refreshed => cache[s] = applied)
=============================================================================
