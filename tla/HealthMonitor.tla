--------------------------- MODULE HealthMonitor ---------------------------
(***************************************************************************)
(* The health monitor (src/health/monitor.ts): a circuit breaker per       *)
(* downstream server, fed by probes that a timer or an administrator       *)
(* starts.  A probe reads the stored state, awaits the server's answer and *)
(* then writes a state computed from what it had read.  Probes of one      *)
(* server may overlap, and a restart of the monitor does not cancel them.  *)
(*                                                                         *)
(* Times are kept as ages that stop at MaxAge: "that long ago, or never".  *)
(***************************************************************************)
EXTENDS Integers, Functions

CONSTANTS
    Servers, Stdio,
    Probes,        \* names for the probes in flight: how many may overlap
    NoProbe, NoState,
    Answers,       \* what a probe may come back with
    Configs,       \* the configurations start() may be given
    MaxAge,        \* bound on ages
    MaxFailures    \* bound on failure counts

Config == [servers : SUBSET Servers,   \* enabled, with healthcheck.enabled
           degradedAfter : Nat \ {0}, offlineAfter : Nat \ {0}, reset : Nat \ {0}]

Status == {"unknown", "healthy", "degraded", "offline"}

ASSUME StdioAssumption == Stdio \subseteq Servers
ASSUME AnswersAssumption == Answers \subseteq {"ok", "auth", "fail"}
ASSUME NoneAssumption ==
    /\ NoState \notin [status : Status, failures : Nat, age : Nat]
    /\ NoProbe \notin [server : Servers, seen : [status : Status, failures : Nat, age : Nat]]
ASSUME BoundsAssumption ==
    /\ MaxAge \in Nat /\ MaxFailures \in Nat
    /\ Configs \subseteq Config
    /\ \A cfg \in Configs :
          cfg.reset <= MaxAge /\ cfg.degradedAfter <= MaxFailures
                              /\ cfg.offlineAfter <= MaxFailures

VARIABLES
    config,      \* this.config, and with it the servers last given to start()
    monitored,   \* the keys of this.servers, each with a timer
    state,       \* this.states
    probe,       \* the calls of check() that are waiting for an answer
    failed,      \* history: failing answers of each server, never reset
    late         \* history: servers probed while start() or stop() cleared the maps

vars == <<config, monitored, state, probe, failed, late>>

State == [status : Status, failures : 0..MaxFailures, age : 0..MaxAge]

Fresh == [status |-> "unknown", failures |-> 0, age |-> MaxAge]
Healthy == [status |-> "healthy", failures |-> 0, age |-> MaxAge]

Older(age) == IF age < MaxAge THEN age + 1 ELSE MaxAge
OneMore(count) == IF count < MaxFailures THEN count + 1 ELSE MaxFailures

Flying == {p \in Probes : probe[p] # NoProbe}
Probed == {probe[p].server : p \in Flying}

-----------------------------------------------------------------------------
(* The state an answer leads to, from the state `seen' when the probe was  *)
(* started and the configuration of the moment the answer arrives.         *)

\* Mutant: the reset time forgotten.
KeptForever(seen) == seen.status \in {"offline", "degraded"}

KeptUnhealthy(seen) ==
    /\ seen.status \in {"offline", "degraded"}
    /\ seen.age < config.reset

AfterOk(seen) == IF KeptUnhealthy(seen) THEN seen ELSE Healthy

\* Mutant: a demand for credentials counts as a failure.
AuthCounted(seen) ==
    [seen EXCEPT !.status = "healthy", !.failures = OneMore(@)]

\* A server that asks for credentials is up; its count and age stay.
AfterAuth(seen) == [seen EXCEPT !.status = "healthy"]

\* Mutant: failures are not added up.
FailureForgotten(seen) ==
    [status |-> IF 1 >= config.offlineAfter THEN "offline"
                ELSE IF 1 >= config.degradedAfter THEN "degraded"
                ELSE seen.status,
     failures |-> 1,
     age |-> 0]

AfterFailure(seen) ==
    LET n == OneMore(seen.failures)
    IN  [status |-> IF n >= config.offlineAfter THEN "offline"
                    ELSE IF n >= config.degradedAfter THEN "degraded"
                    ELSE seen.status,
         failures |-> n,
         age |-> 0]

After(answer, seen) ==
    CASE answer = "ok"   -> AfterOk(seen)
      [] answer = "auth" -> AfterAuth(seen)
      [] answer = "fail" -> AfterFailure(seen)

-----------------------------------------------------------------------------
Started(cfg) ==
    [s \in Servers |-> IF s \notin cfg.servers THEN NoState
                       ELSE IF s \in Stdio THEN Healthy ELSE Fresh]

(* start() probes every server at once; a stdio server answers on the spot. *)
Launches(cfg, probes) ==
    {[p \in Probes |-> IF p \in Range(first)
                       THEN [server |-> AntiFunction(first)[p], seen |-> Fresh]
                       ELSE probes[p]] :
        first \in Injection(cfg.servers \ Stdio, {p \in Probes : probes[p] = NoProbe})}

Init ==
    /\ config \in Configs
    /\ monitored = config.servers
    /\ state = Started(config)
    /\ probe \in Launches(config, [p \in Probes |-> NoProbe])
    /\ failed = [s \in Servers |-> 0]
    /\ late = {}

Start(cfg) ==
    /\ config' = cfg
    /\ monitored' = cfg.servers
    /\ state' = Started(cfg)
    /\ probe' \in Launches(cfg, probe)
    /\ late' = Probed
    /\ UNCHANGED failed

Stop ==
    /\ monitored' = {}
    /\ state' = [s \in Servers |-> NoState]
    /\ late' = Probed
    /\ UNCHANGED <<config, probe, failed>>

(* check() up to its await, for the timer and for an administrator alike.  *)
Check(p, s) ==
    /\ s \in monitored \ Stdio
    /\ probe[p] = NoProbe
    /\ probe' = [probe EXCEPT ![p] =
                    [server |-> s,
                     seen |-> IF state[s] = NoState THEN Fresh ELSE state[s]]]
    /\ UNCHANGED <<config, monitored, state, failed, late>>

CheckStdio(s) ==
    /\ s \in monitored \cap Stdio
    /\ state' = [state EXCEPT ![s] = Healthy]
    /\ UNCHANGED <<config, monitored, probe, failed, late>>

(* check() after its await: the write does not look at what is stored now. *)
Answer(p, answer) ==
    /\ probe[p] # NoProbe
    /\ LET s == probe[p].server
       IN  /\ state' = [state EXCEPT ![s] = After(answer, probe[p].seen)]
           /\ failed' = IF answer = "fail"
                        THEN [failed EXCEPT ![s] = OneMore(@)] ELSE failed
    /\ probe' = [probe EXCEPT ![p] = NoProbe]
    /\ UNCHANGED <<config, monitored, late>>

Aged(st) == IF st = NoState THEN NoState ELSE [st EXCEPT !.age = Older(@)]

Tick ==
    /\ state' = [s \in Servers |-> Aged(state[s])]
    /\ probe' = [p \in Probes |->
                    IF probe[p] = NoProbe THEN NoProbe
                    ELSE [probe[p] EXCEPT !.seen = Aged(@)]]
    /\ UNCHANGED <<config, monitored, failed, late>>

-----------------------------------------------------------------------------
Watch ==
    \/ \E p \in Probes, s \in Servers : Check(p, s)
    \/ \E s \in Servers : CheckStdio(s)
    \/ \E p \in Probes, answer \in Answers : Answer(p, answer)
    \/ Tick

Restart == Stop \/ \E cfg \in Configs : Start(cfg)

Spec == Init /\ [][Watch \/ Restart]_vars

(* The timers fire, every probe is answered or times out, and time passes. *)
Fairness ==
    /\ \A s \in Servers : WF_vars(\E p \in Probes : Check(p, s))
    /\ \A p \in Probes : WF_vars(\E answer \in Answers : Answer(p, answer))
    /\ WF_vars(Tick)

FairSpec == Spec /\ Fairness

-----------------------------------------------------------------------------
TypeOK ==
    /\ config \in Configs
    /\ monitored \subseteq Servers
    /\ state \in [Servers -> State \cup {NoState}]
    /\ probe \in [Probes -> [server : Servers \ Stdio, seen : State] \cup {NoProbe}]
    /\ failed \in [Servers -> 0..MaxFailures]
    /\ late \subseteq Servers

(* A count of failures never outruns the failing answers there were, with  *)
(* any overlap of probes and any restart: no server is degraded or put     *)
(* offline by failures counted twice, or by an answer that asks for        *)
(* credentials (monitor.ts:169-204).                                       *)
NoFalseAlarm ==
    \A s \in Servers : state[s] # NoState => state[s].failures <= failed[s]

(* A status that outlives its server's monitoring can only come from a     *)
(* probe that was in flight when the monitor was stopped or restarted      *)
(* (monitor.ts:73-80 and 178, 208).                                        *)
OrphansAreLate ==
    \A s \in Servers : state[s] # NoState => s \in monitored \cup late

Is(s, status) == state[s] # NoState /\ state[s].status = status

(* From some point on s gives no failing answer (or no good one).          *)
StopsFailing(s) ==
    <>[][\A p \in Probes : probe[p] # NoProbe /\ probe[p].server = s =>
            ~Answer(p, "fail")]_vars
OnlyFails(s) ==
    <>[][\A p \in Probes : probe[p] # NoProbe /\ probe[p].server = s =>
            ~Answer(p, "ok") /\ ~Answer(p, "auth")]_vars

StaysMonitored(s) == <>[][~Restart]_vars /\ <>[](s \in monitored)

(* A server that stops failing is in the end healthy for good, whatever    *)
(* stale probes were still to be written when it recovered, and whatever   *)
(* restarts there were before (monitor.ts:146-164).                        *)
Recovers ==
    \A s \in Servers :
        StaysMonitored(s) /\ StopsFailing(s) => <>[]Is(s, "healthy")

(* A server that fails every probe is in the end offline for good, though  *)
(* overlapping probes may keep overwriting the count with older ones       *)
(* (monitor.ts:182-204).                                                   *)
OutageDetected ==
    \A s \in Servers \ Stdio :
        StaysMonitored(s) /\ OnlyFails(s) => <>[]Is(s, "offline")
=============================================================================
