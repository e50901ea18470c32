------------------------ MODULE HealthMonitorProofs ------------------------
(***************************************************************************)
(* Theorems about HealthMonitor, for any servers, thresholds and number of *)
(* overlapping probes: its types, that no failure is counted twice, and    *)
(* where the states of servers that are no longer monitored come from.     *)
(***************************************************************************)
EXTENDS HealthMonitor, TLAPS

Probe == [server : Servers \ Stdio, seen : State]

LEMMA NoneFacts == NoState \notin State /\ NoProbe \notin Probe
<1>1. \A x \in State : x \in [status : Status, failures : Nat, age : Nat]
  <2>1. 0..MaxFailures \subseteq Nat /\ 0..MaxAge \subseteq Nat
    BY BoundsAssumption
  <2>2. QED BY <2>1 DEF State
<1>2. QED BY <1>1, NoneAssumption DEF Probe

LEMMA StateFacts ==
  /\ Fresh \in State /\ Fresh.failures = 0
  /\ Healthy \in State /\ Healthy.failures = 0
BY BoundsAssumption DEF Fresh, Healthy, State, Status

LEMMA ConfigFacts ==
  ASSUME NEW cfg \in Configs
  PROVE  cfg.servers \subseteq Servers /\ cfg.degradedAfter \in Nat /\ cfg.offlineAfter \in Nat
BY BoundsAssumption DEF Config

(* Counting one more keeps the order of two counts, at the bound too.      *)
LEMMA OneMoreFacts ==
  ASSUME NEW m \in 0..MaxFailures, NEW n \in 0..MaxFailures
  PROVE  OneMore(m) \in 0..MaxFailures /\ n <= OneMore(n) /\ (m <= n => OneMore(m) <= OneMore(n))
BY BoundsAssumption DEF OneMore

(* A probe started with start() has read nothing yet.                      *)
LEMMA Launched ==
  ASSUME NEW cfg, NEW probes, NEW next \in Launches(cfg, probes)
  PROVE  /\ next = [p \in Probes |-> next[p]]
         /\ \A p \in Probes :
              \/ next[p] = probes[p]
              \/ \E s \in cfg.servers \ Stdio : next[p] = [server |-> s, seen |-> Fresh]
<1>1. PICK first \in Injection(cfg.servers \ Stdio, {p \in Probes : probes[p] = NoProbe}) :
        next = [p \in Probes |-> IF p \in Range(first)
                                 THEN [server |-> AntiFunction(first)[p], seen |-> Fresh]
                                 ELSE probes[p]]
  BY DEF Launches
<1>2. DOMAIN first = cfg.servers \ Stdio
  BY DEF Injection
<1>3. \A p \in Range(first) : AntiFunction(first)[p] \in DOMAIN first
  BY DEF AntiFunction, Inverse, Range
<1>4. QED BY <1>1, <1>2, <1>3

-----------------------------------------------------------------------------
(* The types.                                                              *)

LEMMA AfterType ==
  ASSUME TypeOK, NEW seen \in State, NEW answer \in Answers
  PROVE  After(answer, seen) \in State
<1>1. AfterOk(seen) \in State
  BY StateFacts DEF AfterOk
<1>2. AfterAuth(seen) \in State
  BY DEF AfterAuth, State, Status
<1>3. AfterFailure(seen) \in State
  <2>1. seen.failures \in 0..MaxFailures /\ seen.status \in Status
    BY DEF State
  <2>2. OneMore(seen.failures) \in 0..MaxFailures
    BY <2>1, OneMoreFacts
  <2>3. 0 \in 0..MaxAge
    BY BoundsAssumption
  <2>4. QED BY <2>1, <2>2, <2>3 DEF AfterFailure, State, Status
<1>4. answer \in {"ok", "auth", "fail"}
  BY AnswersAssumption
<1>5. QED BY <1>1, <1>2, <1>3, <1>4 DEF After

LEMMA StartedType == ASSUME NEW cfg PROVE Started(cfg) \in [Servers -> State \cup {NoState}]
BY StateFacts DEF Started

LEMMA LaunchedType ==
  ASSUME NEW cfg \in Configs, NEW probes \in [Probes -> Probe \cup {NoProbe}],
         NEW next \in Launches(cfg, probes)
  PROVE  next \in [Probes -> Probe \cup {NoProbe}]
<1>1. \A p \in Probes : next[p] \in Probe \cup {NoProbe}
  <2>1. \A s \in cfg.servers \ Stdio : [server |-> s, seen |-> Fresh] \in Probe
    BY ConfigFacts, StateFacts DEF Probe
  <2>2. SUFFICES ASSUME NEW p \in Probes PROVE next[p] \in Probe \cup {NoProbe}
    OBVIOUS
  <2>3. next[p] = probes[p] \/ \E s \in cfg.servers \ Stdio : next[p] = [server |-> s, seen |-> Fresh]
    BY Launched
  <2>4. QED BY <2>1, <2>3
<1>2. QED BY <1>1, Launched

LEMMA AgedType ==
  ASSUME NEW st \in State \cup {NoState}
  PROVE  /\ Aged(st) \in State \cup {NoState}
         /\ st \in State => Aged(st) \in State /\ Aged(st).failures = st.failures
         /\ Aged(st) # NoState => st # NoState
<1>1. ASSUME st \in State PROVE Aged(st) \in State /\ Aged(st).failures = st.failures
  <2>1. Older(st.age) \in 0..MaxAge
    BY <1>1, BoundsAssumption DEF Older, State
  <2>2. Aged(st) = [st EXCEPT !.age = Older(st.age)]
    BY <1>1, NoneFacts DEF Aged
  <2>3. \A r \in State, a \in 0..MaxAge :
          [r EXCEPT !.age = a] \in State /\ [r EXCEPT !.age = a].failures = r.failures
    BY DEF State
  <2>4. QED BY <1>1, <2>1, <2>2, <2>3
<1>2. QED BY <1>1 DEF Aged

LEMMA ProbeTyped ==
  ASSUME TypeOK, NEW p \in Probes, probe[p] # NoProbe
  PROVE  probe[p] \in Probe /\ probe[p].server \in Servers /\ probe[p].seen \in State
BY DEF TypeOK, Probe

LEMMA TypeStep == ASSUME TypeOK, [Watch \/ Restart]_vars PROVE TypeOK'
<1> USE DEF TypeOK
<1>1. ASSUME NEW p \in Probes, NEW s \in Servers, Check(p, s) PROVE TypeOK'
  <2>1. [server |-> s, seen |-> IF state[s] = NoState THEN Fresh ELSE state[s]] \in Probe
    BY <1>1, StateFacts DEF Check, Probe
  <2>2. QED BY <1>1, <2>1 DEF Check, Probe
<1>2. ASSUME NEW s \in Servers, CheckStdio(s) PROVE TypeOK'
  BY <1>2, StateFacts DEF CheckStdio
<1>3. ASSUME NEW p \in Probes, NEW answer \in Answers, Answer(p, answer) PROVE TypeOK'
  <2>1. probe[p].server \in Servers /\ probe[p].seen \in State
    BY <1>3, ProbeTyped DEF Answer
  <2>2. After(answer, probe[p].seen) \in State
    BY <2>1, AfterType
  <2>3. failed' \in [Servers -> 0..MaxFailures]
    BY <1>3, <2>1, OneMoreFacts DEF Answer
  <2>4. QED BY <1>3, <2>1, <2>2, <2>3 DEF Answer
<1>4. ASSUME Tick PROVE TypeOK'
  <2>1. state' \in [Servers -> State \cup {NoState}]
    BY <1>4, AgedType DEF Tick
  <2>2. \A p \in Probes : probe'[p] \in Probe \cup {NoProbe}
    <3>1. ASSUME NEW p \in Probes, probe[p] # NoProbe
          PROVE  [probe[p] EXCEPT !.seen = Aged(probe[p].seen)] \in Probe
      BY <3>1, ProbeTyped, AgedType DEF Probe
    <3>2. QED BY <1>4, <3>1 DEF Tick
  <2>3. QED BY <1>4, <2>1, <2>2 DEF Tick, Probe
<1>5. ASSUME Stop PROVE TypeOK'
  BY <1>5 DEF Stop, Probed, Flying, Probe
<1>6. ASSUME NEW cfg \in Configs, Start(cfg) PROVE TypeOK'
  <2>1. probe' \in [Probes -> Probe \cup {NoProbe}]
    BY <1>6, LaunchedType DEF Start, Probe
  <2>2. Probed \subseteq Servers
    BY ProbeTyped DEF Probed, Flying
  <2>3. QED BY <1>6, <2>1, <2>2, StartedType, ConfigFacts DEF Start, Probe
<1>7. CASE UNCHANGED vars
  BY <1>7 DEF vars
<1>8. QED BY <1>1, <1>2, <1>3, <1>4, <1>5, <1>6, <1>7 DEF Watch, Restart

LEMMA TypeInit == ASSUME Init PROVE TypeOK
<1>1. probe \in [Probes -> Probe \cup {NoProbe}]
  BY LaunchedType DEF Init
<1>2. QED
  BY <1>1, StartedType, ConfigFacts, BoundsAssumption DEF Init, TypeOK, Probe

(* The types are kept.                                                     *)
THEOREM MonitorTypeCorrect == Spec => []TypeOK
<1>1. Init => TypeOK
  BY TypeInit
<1>2. TypeOK /\ [Watch \/ Restart]_vars => TypeOK'
  BY TypeStep
<1>3. QED BY <1>1, <1>2, PTL DEF Spec

-----------------------------------------------------------------------------
(* Failures are not counted twice: neither by the state of a server nor by *)
(* what a probe in flight has read of it.                                  *)
Accounted ==
    \A p \in Probes : probe[p] # NoProbe => probe[p].seen.failures <= failed[probe[p].server]

CountInv == TypeOK /\ NoFalseAlarm /\ Accounted

LEMMA StartedCounts ==
  ASSUME NEW cfg, NEW s \in Servers, Started(cfg)[s] # NoState
  PROVE  Started(cfg)[s].failures = 0
BY StateFacts DEF Started

LEMMA LaunchedCounts ==
  ASSUME NEW cfg \in Configs, NEW probes \in [Probes -> Probe \cup {NoProbe}],
         NEW next \in Launches(cfg, probes), NEW count \in [Servers -> 0..MaxFailures],
         \A p \in Probes : probes[p] # NoProbe => probes[p].seen.failures <= count[probes[p].server]
  PROVE  \A p \in Probes : next[p] # NoProbe => next[p].seen.failures <= count[next[p].server]
<1>1. \A s \in cfg.servers : s \in Servers /\ count[s] \in 0..MaxFailures
  BY ConfigFacts
<1>2. SUFFICES ASSUME NEW p \in Probes, next[p] # NoProbe
               PROVE  next[p].seen.failures <= count[next[p].server]
  OBVIOUS
<1>3. CASE next[p] = probes[p]
  BY <1>2, <1>3
<1>4. ASSUME NEW s \in cfg.servers \ Stdio, next[p] = [server |-> s, seen |-> Fresh]
      PROVE  next[p].seen.failures <= count[next[p].server]
  <2>1. count[s] \in 0..MaxFailures /\ next[p].server = s /\ next[p].seen.failures = 0
    BY <1>1, <1>4, StateFacts
  <2>2. QED BY <2>1, BoundsAssumption
<1>5. next[p] = probes[p] \/ \E s \in cfg.servers \ Stdio : next[p] = [server |-> s, seen |-> Fresh]
  BY Launched
<1>6. QED BY <1>3, <1>4, <1>5

LEMMA AfterCounts ==
  ASSUME NEW seen \in State, NEW answer \in Answers, NEW n \in 0..MaxFailures,
         seen.failures <= n
  PROVE  After(answer, seen).failures <= IF answer = "fail" THEN OneMore(n) ELSE n
<1>1. seen.failures \in 0..MaxFailures
  BY DEF State
<1>2. AfterOk(seen).failures <= n
  BY <1>1, StateFacts, BoundsAssumption DEF AfterOk
<1>3. AfterAuth(seen).failures <= n
  BY DEF AfterAuth, State
<1>4. AfterFailure(seen).failures <= OneMore(n)
  BY <1>1, OneMoreFacts DEF AfterFailure
<1>5. answer \in {"ok", "auth", "fail"}
  BY AnswersAssumption
<1>6. QED BY <1>2, <1>3, <1>4, <1>5 DEF After

LEMMA CountInit == ASSUME Init PROVE CountInv
<1>1. TypeOK
  BY TypeInit
<1>2. NoFalseAlarm
  BY StartedCounts, BoundsAssumption DEF Init, NoFalseAlarm
<1>3. Accounted
  BY LaunchedCounts, BoundsAssumption DEF Init, Accounted
<1>4. QED BY <1>1, <1>2, <1>3 DEF CountInv

LEMMA AnswerCounts ==
  ASSUME CountInv, NEW p \in Probes, NEW answer \in Answers, Answer(p, answer)
  PROVE  NoFalseAlarm' /\ Accounted'
<1> DEFINE s == probe[p].server
           n == IF answer = "fail" THEN OneMore(failed[s]) ELSE failed[s]
<1>1. /\ probe[p] # NoProbe /\ s \in Servers /\ probe[p].seen \in State
      /\ failed[s] \in 0..MaxFailures /\ probe[p].seen.failures <= failed[s]
      /\ failed \in [Servers -> 0..MaxFailures] /\ state \in [Servers -> State \cup {NoState}]
  BY ProbeTyped DEF Answer, CountInv, Accounted, TypeOK
<1>2. failed' = [failed EXCEPT ![s] = n] /\ failed[s] <= n /\ n \in 0..MaxFailures
  <2>1. failed' = [failed EXCEPT ![s] = n]
    BY <1>1 DEF Answer, TypeOK
  <2>2. failed[s] <= OneMore(failed[s]) /\ OneMore(failed[s]) \in 0..MaxFailures
    BY <1>1, OneMoreFacts
  <2>3. failed[s] <= failed[s]
    BY <1>1, BoundsAssumption
  <2>4. QED BY <1>1, <2>1, <2>2, <2>3
<1>3. state' = [state EXCEPT ![s] = After(answer, probe[p].seen)]
  BY DEF Answer
<1>4. After(answer, probe[p].seen).failures <= n
  BY <1>1, AfterCounts
<1>5. NoFalseAlarm'
  BY <1>1, <1>2, <1>3, <1>4 DEF CountInv, NoFalseAlarm
<1>6. Accounted'
  <2> SUFFICES ASSUME NEW q \in Probes, probe'[q] # NoProbe
               PROVE  probe'[q].seen.failures <= failed'[probe'[q].server]
    BY DEF Accounted
  <2>1. q # p /\ probe'[q] = probe[q]
    BY DEF Answer, CountInv, TypeOK
  <2>2. /\ probe[q].server \in Servers /\ probe[q].seen.failures \in 0..MaxFailures
        /\ probe[q].seen.failures <= failed[probe[q].server]
    BY <2>1, ProbeTyped DEF CountInv, Accounted, State
  <2>3. /\ failed[probe[q].server] \in 0..MaxFailures /\ n \in 0..MaxFailures
        /\ failed[probe[q].server] <= failed'[probe[q].server]
    BY <1>1, <1>2, <2>2, OneMoreFacts
  <2>4. failed'[probe[q].server] \in 0..MaxFailures
    BY <1>1, <1>2, <2>2, <2>3
  <2>5. QED BY <2>1, <2>2, <2>3, <2>4
<1>7. QED BY <1>5, <1>6

LEMMA CountStep == ASSUME CountInv, [Watch \/ Restart]_vars PROVE CountInv'
<1> USE DEF CountInv
<1>0. TypeOK'
  BY TypeStep
<1>1. ASSUME NEW p \in Probes, NEW s \in Servers, Check(p, s) PROVE NoFalseAlarm' /\ Accounted'
  <2> DEFINE seen == IF state[s] = NoState THEN Fresh ELSE state[s]
  <2>1. seen.failures <= failed[s]
    BY StateFacts, BoundsAssumption DEF TypeOK, NoFalseAlarm
  <2>2. probe' = [probe EXCEPT ![p] = [server |-> s, seen |-> seen]]
        /\ UNCHANGED <<state, failed>> /\ probe \in [Probes -> Probe \cup {NoProbe}]
    BY <1>1 DEF Check, TypeOK, Probe
  <2>3. QED BY <2>1, <2>2 DEF NoFalseAlarm, Accounted
<1>2. ASSUME NEW s \in Servers, CheckStdio(s) PROVE NoFalseAlarm' /\ Accounted'
  <2>1. failed[s] \in 0..MaxFailures
    BY DEF TypeOK
  <2>2. NoFalseAlarm'
    BY <1>2, <2>1, StateFacts, BoundsAssumption DEF CheckStdio, NoFalseAlarm, TypeOK
  <2>3. QED BY <1>2, <2>2 DEF CheckStdio, Accounted
<1>3. ASSUME NEW p \in Probes, NEW answer \in Answers, Answer(p, answer)
      PROVE  NoFalseAlarm' /\ Accounted'
  BY <1>3, AnswerCounts
<1>4. ASSUME Tick PROVE NoFalseAlarm' /\ Accounted'
  <2>1. NoFalseAlarm'
    BY <1>4, AgedType DEF Tick, NoFalseAlarm, TypeOK
  <2>2. Accounted'
    <3> SUFFICES ASSUME NEW p \in Probes, probe'[p] # NoProbe
                 PROVE  probe'[p].seen.failures <= failed'[probe'[p].server]
      BY DEF Accounted
    <3>1. probe[p] # NoProbe /\ probe'[p] = [probe[p] EXCEPT !.seen = Aged(probe[p].seen)]
      BY <1>4 DEF Tick
    <3>2. /\ probe'[p].server = probe[p].server
          /\ probe'[p].seen.failures = probe[p].seen.failures
      BY <3>1, ProbeTyped, AgedType DEF Probe
    <3>3. QED BY <1>4, <3>1, <3>2 DEF Tick, Accounted
  <2>3. QED BY <2>1, <2>2
<1>5. ASSUME Stop PROVE NoFalseAlarm' /\ Accounted'
  BY <1>5 DEF Stop, NoFalseAlarm, Accounted
<1>6. ASSUME NEW cfg \in Configs, Start(cfg) PROVE NoFalseAlarm' /\ Accounted'
  <2>1. NoFalseAlarm'
    BY <1>6, StartedCounts, BoundsAssumption DEF Start, NoFalseAlarm, TypeOK
  <2>2. probe \in [Probes -> Probe \cup {NoProbe}] /\ failed \in [Servers -> 0..MaxFailures]
    BY DEF TypeOK, Probe
  <2>3. probe' \in Launches(cfg, probe) /\ failed' = failed
    BY <1>6 DEF Start
  <2>4. Accounted'
    BY <2>2, <2>3, LaunchedCounts DEF Accounted
  <2>5. QED BY <2>1, <2>4
<1>7. CASE UNCHANGED vars
  <2>1. UNCHANGED <<state, probe, failed>>
    BY <1>7 DEF vars
  <2>2. QED BY <1>0, <2>1 DEF NoFalseAlarm, Accounted
<1>8. QED BY <1>0, <1>1, <1>2, <1>3, <1>4, <1>5, <1>6, <1>7 DEF Watch, Restart

(* A count of failures never outruns the failing answers there were, with  *)
(* any overlap of probes and any restart.                                  *)
THEOREM NeverAFalseAlarm == Spec => []NoFalseAlarm
<1>1. Init => CountInv
  BY CountInit
<1>2. CountInv /\ [Watch \/ Restart]_vars => CountInv'
  BY CountStep
<1>3. CountInv => NoFalseAlarm
  BY DEF CountInv
<1>4. QED BY <1>1, <1>2, <1>3, PTL DEF Spec

-----------------------------------------------------------------------------
(* A probe in flight is of a server that is monitored, or was when the     *)
(* monitor was last stopped or started.                                    *)
ProbesKnown == Probed \subseteq monitored \cup late

OrphanInv == TypeOK /\ OrphansAreLate /\ ProbesKnown

LEMMA LaunchedServers ==
  ASSUME NEW cfg, probe' \in Launches(cfg, probe), monitored' = cfg.servers, late' = Probed
  PROVE  ProbesKnown'
<1> SUFFICES ASSUME NEW p \in Probes, probe'[p] # NoProbe
             PROVE  probe'[p].server \in monitored' \cup late'
  BY DEF ProbesKnown, Probed, Flying
<1>1. CASE probe'[p] = probe[p]
  BY <1>1 DEF Probed, Flying
<1>2. CASE \E s \in cfg.servers \ Stdio : probe'[p] = [server |-> s, seen |-> Fresh]
  BY <1>2
<1>3. QED BY <1>1, <1>2, Launched

LEMMA OrphanStep == ASSUME OrphanInv, [Watch \/ Restart]_vars PROVE OrphanInv'
<1> USE DEF OrphanInv
<1>0. TypeOK'
  BY TypeStep
<1>1. ASSUME NEW p \in Probes, NEW s \in Servers, Check(p, s)
      PROVE  OrphansAreLate' /\ ProbesKnown'
  <2>1. \A q \in Probes : q # p => probe'[q] = probe[q]
    BY <1>1 DEF Check, TypeOK
  <2>2. probe'[p].server = s /\ s \in monitored
    BY <1>1 DEF Check, TypeOK
  <2>3. QED BY <1>1, <2>1, <2>2 DEF Check, OrphansAreLate, ProbesKnown, Probed, Flying
<1>2. ASSUME NEW s \in Servers, CheckStdio(s) PROVE OrphansAreLate' /\ ProbesKnown'
  BY <1>2 DEF CheckStdio, OrphansAreLate, ProbesKnown, Probed, Flying, TypeOK
<1>3. ASSUME NEW p \in Probes, NEW answer \in Answers, Answer(p, answer)
      PROVE  OrphansAreLate' /\ ProbesKnown'
  <2>1. probe[p].server \in monitored \cup late
    BY <1>3 DEF Answer, ProbesKnown, Probed, Flying
  <2>2. OrphansAreLate'
    BY <1>3, <2>1 DEF Answer, OrphansAreLate, TypeOK
  <2>3. \A q \in Probes : probe'[q] # NoProbe => probe'[q] = probe[q]
    BY <1>3 DEF Answer, TypeOK
  <2>4. QED BY <1>3, <2>2, <2>3 DEF Answer, ProbesKnown, Probed, Flying
<1>4. ASSUME Tick PROVE OrphansAreLate' /\ ProbesKnown'
  <2>1. OrphansAreLate'
    BY <1>4, AgedType DEF Tick, OrphansAreLate, TypeOK
  <2>2. \A p \in Probes : probe'[p] # NoProbe =>
          probe[p] # NoProbe /\ probe'[p].server = probe[p].server
    BY <1>4, ProbeTyped DEF Tick, Probe
  <2>3. QED BY <1>4, <2>1, <2>2 DEF Tick, ProbesKnown, Probed, Flying
<1>5. ASSUME Stop PROVE OrphansAreLate' /\ ProbesKnown'
  BY <1>5 DEF Stop, OrphansAreLate, ProbesKnown, Probed, Flying
<1>6. ASSUME NEW cfg \in Configs, Start(cfg) PROVE OrphansAreLate' /\ ProbesKnown'
  <2>1. OrphansAreLate'
    BY <1>6 DEF Start, Started, OrphansAreLate
  <2>2. QED BY <1>6, <2>1, LaunchedServers DEF Start
<1>7. CASE UNCHANGED vars
  <2>1. UNCHANGED <<state, probe, monitored, late>>
    BY <1>7 DEF vars
  <2>2. QED BY <1>0, <2>1 DEF OrphansAreLate, ProbesKnown, Probed, Flying
<1>8. QED BY <1>0, <1>1, <1>2, <1>3, <1>4, <1>5, <1>6, <1>7 DEF Watch, Restart

LEMMA OrphanInit == ASSUME Init PROVE OrphanInv
<1>1. OrphansAreLate
  BY DEF Init, Started, OrphansAreLate
<1>2. ProbesKnown
  <2> SUFFICES ASSUME NEW p \in Probes, probe[p] # NoProbe
               PROVE  probe[p].server \in monitored
    BY DEF ProbesKnown, Probed, Flying
  <2>1. \E s \in config.servers \ Stdio : probe[p] = [server |-> s, seen |-> Fresh]
    BY Launched DEF Init
  <2>2. QED BY <2>1 DEF Init
<1>3. QED BY <1>1, <1>2, TypeInit DEF OrphanInv

(* A status that outlives its server's monitoring comes from a probe that  *)
(* was in flight when the monitor was stopped or restarted, and from       *)
(* nothing else.                                                           *)
THEOREM OrphansOnlyFromLateProbes == Spec => []OrphansAreLate
<1>1. Init => OrphanInv
  BY OrphanInit
<1>2. OrphanInv /\ [Watch \/ Restart]_vars => OrphanInv'
  BY OrphanStep
<1>3. OrphanInv => OrphansAreLate
  BY DEF OrphanInv
<1>4. QED BY <1>1, <1>2, <1>3, PTL DEF Spec
=============================================================================
