-------------------------- MODULE RateLimiterProofs --------------------------
(***************************************************************************)
(* Proofs about RateLimiter for every value of its constants: types, the   *)
(* accounting of slots across configuration saves, the cap between saves,  *)
(* and the sliding windows.                                                *)
(***************************************************************************)
EXTENDS RateLimiter, FiniteSetTheorems, TLAPS

(***************************************************************************)
(* Types.                                                                  *)
(***************************************************************************)

LEMMA ConfigType ==
    ASSUME NEW cfg \in Configs
    PROVE  /\ cfg.session \in Limit
           /\ cfg.user \in Limit
           /\ cfg.cap \in Nat \ {0}
  BY ConfigsAssumption

LEMMA InFlightFinite ==
    ASSUME NEW s
    PROVE  /\ IsFiniteSet(InFlight(s))
           /\ Cardinality(InFlight(s)) \in Nat
  <1>1. InFlight(s) \in SUBSET Calls
    BY DEF InFlight
  <1>2. IsFiniteSet(InFlight(s))
    BY <1>1, CallsAssumption, FS_Subset
  <1> QED
    BY <1>2, FS_CardinalityType

LEMMA InFlightFiniteAfter ==
    ASSUME NEW s
    PROVE  /\ IsFiniteSet(InFlight(s)')
           /\ Cardinality(InFlight(s)') \in Nat
  <1>1. InFlight(s)' \in SUBSET Calls
    BY DEF InFlight
  <1>2. IsFiniteSet(InFlight(s)')
    BY <1>1, CallsAssumption, FS_Subset
  <1> QED
    BY <1>2, FS_CardinalityType

LEMMA StampType ==
    ASSUME TypeOK, NEW s \in Sessions
    PROVE  NewStamp(s) \in Stamp
  BY DEF TypeOK, NewStamp, Stamp

\* Pruning a window and pushing the current stamp on it yield windows.
LEMMA PushType ==
    ASSUME TypeOK, NEW s \in Sessions, NEW w \in SUBSET Stamp, NEW limit
    PROVE  /\ Live(w, limit) \in SUBSET Stamp
           /\ Push(w, limit, s) \in SUBSET Stamp
  BY StampType DEF Live, Push

LEMMA InitType == Init => TypeOK
  BY ServersAssumption DEF Init, TypeOK, Verdicts

LEMMA RequestType ==
    ASSUME TypeOK, NEW s \in Sessions, Request(s)
    PROVE  TypeOK'
  <1>1. UserOf[s] \in Users
    BY UsersAssumption
  <1>2. NewStamp(s) \in Stamp
    BY StampType
  <1>3. \A limit : /\ Live(sessionWindow[s], limit) \in SUBSET Stamp
                   /\ Push(sessionWindow[s], limit, s) \in SUBSET Stamp
    BY PushType DEF TypeOK
  <1>4. \A limit : /\ Live(userWindow[UserOf[s]], limit) \in SUBSET Stamp
                   /\ Push(userWindow[UserOf[s]], limit, s) \in SUBSET Stamp
    BY PushType, <1>1 DEF TypeOK
  <1>5. CASE RefuseSession(s)
    BY <1>3, <1>5 DEF TypeOK, Request, RefuseSession, slotVars, Verdicts
  <1>6. CASE RefuseUser(s)
    <2>1. sessionWindow' \in [Sessions -> SUBSET Stamp]
      BY <1>3, <1>6 DEF TypeOK, RefuseUser
    <2>2. userWindow' \in [Users -> SUBSET Stamp]
      BY <1>1, <1>4, <1>6 DEF TypeOK, RefuseUser
    <2>3. passed' \subseteq Stamp /\ admitted' \subseteq Stamp
      BY <1>2, <1>6 DEF TypeOK, RefuseUser
    <2> QED
      BY <1>6, <2>1, <2>2, <2>3 DEF TypeOK, Request, RefuseUser, slotVars, Verdicts
  <1>7. CASE Admit(s)
    <2>1. sessionWindow' \in [Sessions -> SUBSET Stamp]
      BY <1>3, <1>7 DEF TypeOK, Admit
    <2>2. userWindow' \in [Users -> SUBSET Stamp]
      BY <1>1, <1>4, <1>7 DEF TypeOK, Admit
    <2>3. passed' \subseteq Stamp /\ admitted' \subseteq Stamp
      BY <1>2, <1>7 DEF TypeOK, Admit
    <2> QED
      BY <1>7, <2>1, <2>2, <2>3 DEF TypeOK, Request, Admit, slotVars, Verdicts
  <1> QED
    BY <1>5, <1>6, <1>7 DEF Request

LEMMA NextType == TypeOK /\ [Next]_vars => TypeOK'
  <1> SUFFICES ASSUME TypeOK, [Next]_vars
               PROVE  TypeOK'
    OBVIOUS
  <1>1. ASSUME NEW s \in Sessions, Request(s)
        PROVE  TypeOK'
    BY <1>1, RequestType
  <1>2. ASSUME NEW c \in Calls, NEW s \in Servers, Acquire(c, s)
        PROVE  TypeOK'
    BY <1>2 DEF TypeOK, Acquire, windowVars
  <1>3. ASSUME NEW c \in Calls, NEW s \in Servers, AcquireRefused(c, s)
        PROVE  TypeOK'
    BY <1>3 DEF TypeOK, AcquireRefused, windowVars
  <1>4. ASSUME NEW c \in Calls, Release(c)
        PROVE  TypeOK'
    BY <1>4 DEF TypeOK, Release, AfterRelease, windowVars
  <1>5. CASE Tick
    BY <1>5 DEF TypeOK, Tick, windowVars, slotVars
  <1>6. ASSUME NEW cfg \in Configs, UpdateConfig(cfg)
        PROVE  TypeOK'
    <2>1. carried' \in [Servers -> Nat]
      BY <1>6, InFlightFinite DEF UpdateConfig
    <2> QED
      BY <1>6, <2>1 DEF TypeOK, UpdateConfig
  <1>7. CASE UNCHANGED vars
    BY <1>7 DEF TypeOK, vars, windowVars, slotVars
  <1> QED
    BY <1>1, <1>2, <1>3, <1>4, <1>5, <1>6, <1>7 DEF Next, Serve

\* Every variable of the limiter keeps its type; a count never goes below 0,
\* although a save resets it under calls that still hold their closures.
THEOREM TypeCorrect == Spec => []TypeOK
  BY InitType, NextType, PTL DEF Spec

(***************************************************************************)
(* Slots.  Count is what the code tracks, InFlight what is true.           *)
(***************************************************************************)

LEMMA AcquireInFlight ==
    ASSUME TypeOK, NEW c \in Calls, NEW s \in Servers, NEW t \in Servers,
           Acquire(c, s)
    PROVE  Cardinality(InFlight(t)') =
             IF t = s THEN Cardinality(InFlight(t)) + 1 ELSE Cardinality(InFlight(t))
  <1>1. s # NoServer /\ t # NoServer
    BY ServersAssumption
  <1>2. CASE t = s
    <2>1. InFlight(t)' = InFlight(t) \cup {c}
      BY <1>2 DEF InFlight, Acquire, TypeOK
    <2>2. c \notin InFlight(t)
      BY <1>1 DEF InFlight, Acquire
    <2> QED
      BY <1>2, <2>1, <2>2, InFlightFinite, FS_AddElement
  <1>3. CASE t # s
    <2>1. InFlight(t)' = InFlight(t)
      BY <1>1, <1>3 DEF InFlight, Acquire, TypeOK
    <2> QED
      BY <1>3, <2>1
  <1> QED
    BY <1>2, <1>3

LEMMA ReleaseInFlight ==
    ASSUME TypeOK, NEW c \in Calls, NEW t \in Servers, Release(c)
    PROVE  /\ slot[c] \in Servers
           /\ Cardinality(InFlight(t)') =
               IF t = slot[c] THEN Cardinality(InFlight(t)) - 1
                              ELSE Cardinality(InFlight(t))
           /\ t = slot[c] => Cardinality(InFlight(t)) > 0
  <1>1. slot[c] \in Servers /\ t # NoServer
    BY ServersAssumption DEF Release, TypeOK
  <1>2. CASE t = slot[c]
    <2>1. InFlight(t)' = InFlight(t) \ {c}
      BY <1>1, <1>2 DEF InFlight, Release, TypeOK
    <2>2. c \in InFlight(t)
      BY <1>2 DEF InFlight
    <2>3. Cardinality(InFlight(t)) # 0
      BY <2>2, InFlightFinite, FS_EmptySet
    <2>4. Cardinality(InFlight(t) \ {c}) = Cardinality(InFlight(t)) - 1
      BY <2>2, InFlightFinite, FS_RemoveElement
    <2>5. Cardinality(InFlight(t)) \in Nat
      BY InFlightFinite
    <2> QED
      BY <1>1, <1>2, <2>1, <2>3, <2>4, <2>5
  <1>3. CASE t # slot[c]
    <2>1. InFlight(t)' = InFlight(t)
      BY <1>1, <1>3 DEF InFlight, Release, TypeOK
    <2> QED
      BY <1>1, <1>3, <2>1
  <1> QED
    BY <1>2, <1>3

(***************************************************************************)
(* The inductive invariant: the count is below the truth, above it by at   *)
(* most what the last save forgot, and never over the cap.                 *)
(***************************************************************************)
SlotInv ==
    \A s \in Servers :
        /\ concurrency[s] <= Cardinality(InFlight(s))
        /\ Cardinality(InFlight(s)) <= concurrency[s] + carried[s]
        /\ concurrency[s] <= config.cap

LEMMA InitSlotInv == Init => SlotInv
  <1> SUFFICES ASSUME Init, NEW s \in Servers
               PROVE  /\ concurrency[s] = 0
                      /\ carried[s] = 0
                      /\ Cardinality(InFlight(s)) = 0
                      /\ config.cap \in Nat
    BY DEF SlotInv
  <1>1. InFlight(s) = {}
    BY ServersAssumption DEF Init, InFlight
  <1> QED
    BY <1>1, ConfigType, FS_EmptySet DEF Init

LEMMA NextSlotInv == TypeOK /\ SlotInv /\ [Next]_vars => SlotInv'
  <1> SUFFICES ASSUME TypeOK, SlotInv, [Next]_vars
               PROVE  SlotInv'
    OBVIOUS
  <1>0. \A t \in Servers : /\ Cardinality(InFlight(t)) \in Nat
                           /\ concurrency[t] \in Nat
                           /\ carried[t] \in Nat
                           /\ config.cap \in Nat
    BY InFlightFinite, ConfigType DEF TypeOK
  <1>1. ASSUME UNCHANGED <<concurrency, slot, carried, config>>
        PROVE  SlotInv'
    BY <1>1 DEF SlotInv, InFlight
  <1>2. ASSUME NEW s \in Sessions, Request(s)
        PROVE  SlotInv'
    BY <1>1, <1>2 DEF Request, slotVars
  <1>3. ASSUME NEW c \in Calls, NEW s \in Servers, Acquire(c, s)
        PROVE  SlotInv'
    <2> SUFFICES ASSUME NEW t \in Servers
                 PROVE  /\ concurrency'[t] <= Cardinality(InFlight(t)')
                        /\ Cardinality(InFlight(t)') <= concurrency'[t] + carried'[t]
                        /\ concurrency'[t] <= config'.cap
      BY DEF SlotInv
    <2>1. Cardinality(InFlight(t)') =
            IF t = s THEN Cardinality(InFlight(t)) + 1 ELSE Cardinality(InFlight(t))
      BY <1>3, AcquireInFlight
    <2>2. concurrency'[t] = IF t = s THEN concurrency[t] + 1 ELSE concurrency[t]
      BY <1>3 DEF Acquire, TypeOK
    <2>3. /\ carried' = carried
          /\ config' = config
          /\ concurrency[s] < config.cap
      BY <1>3 DEF Acquire
    <2> QED
      BY <1>0, <2>1, <2>2, <2>3 DEF SlotInv
  <1>4. ASSUME NEW c \in Calls, NEW s \in Servers, AcquireRefused(c, s)
        PROVE  SlotInv'
    BY <1>1, <1>4 DEF AcquireRefused
  <1>5. ASSUME NEW c \in Calls, Release(c)
        PROVE  SlotInv'
    <2> SUFFICES ASSUME NEW t \in Servers
                 PROVE  /\ concurrency'[t] <= Cardinality(InFlight(t)')
                        /\ Cardinality(InFlight(t)') <= concurrency'[t] + carried'[t]
                        /\ concurrency'[t] <= config'.cap
      BY DEF SlotInv
    <2>1. /\ Cardinality(InFlight(t)') =
              IF t = slot[c] THEN Cardinality(InFlight(t)) - 1
                             ELSE Cardinality(InFlight(t))
          /\ t = slot[c] => Cardinality(InFlight(t)) > 0
      BY <1>5, ReleaseInFlight
    <2>2. concurrency'[t] = IF t = slot[c] THEN AfterRelease(concurrency[t])
                                           ELSE concurrency[t]
      BY <1>5 DEF Release, TypeOK
    <2>3. carried' = carried /\ config' = config
      BY <1>5 DEF Release
    <2> QED
      BY <1>0, <2>1, <2>2, <2>3 DEF SlotInv, AfterRelease
  <1>6. CASE Tick
    BY <1>1, <1>6 DEF Tick, slotVars
  <1>7. ASSUME NEW cfg \in Configs, UpdateConfig(cfg)
        PROVE  SlotInv'
    <2> SUFFICES ASSUME NEW t \in Servers
                 PROVE  /\ concurrency'[t] = 0
                        /\ carried'[t] = Cardinality(InFlight(t))
                        /\ InFlight(t)' = InFlight(t)
                        /\ config'.cap \in Nat
      BY <1>0 DEF SlotInv
    <2> QED
      BY <1>7, ConfigType DEF UpdateConfig, InFlight
  <1>8. CASE UNCHANGED vars
    BY <1>1, <1>8 DEF vars, slotVars
  <1> QED
    BY <1>2, <1>3, <1>4, <1>5, <1>6, <1>7, <1>8 DEF Next, Serve

NothingCarried == \A s \in Servers : carried[s] = 0

THEOREM SlotAccounting == Spec => []SlotInv
  BY InitSlotInv, NextSlotInv, TypeCorrect, PTL DEF Spec

\* No interleaving of acquires, releases and saves makes the limiter count a
\* slot that no call holds: refusals always have calls in flight behind them.
THEOREM NoLeak == Spec => []NoSlotLeaked
  <1>1. SlotInv => NoSlotLeaked
    BY DEF SlotInv, NoSlotLeaked
  <1> QED
    BY <1>1, SlotAccounting, PTL

\* A save overshoots the cap by at most the calls it found in flight.
THEOREM OvershootTheorem == Spec => []OvershootBounded
  <1>1. TypeOK /\ SlotInv => OvershootBounded
    <2> SUFFICES ASSUME TypeOK, SlotInv, NEW s \in Servers
                 PROVE  Cardinality(InFlight(s)) <= config.cap + carried[s]
      BY DEF OvershootBounded
    <2>1. /\ concurrency[s] \in Nat
          /\ carried[s] \in Nat
          /\ config.cap \in Nat
          /\ Cardinality(InFlight(s)) \in Nat
      BY InFlightFinite, ConfigType DEF TypeOK
    <2> QED
      BY <2>1 DEF SlotInv
  <1> QED
    BY <1>1, SlotAccounting, TypeCorrect, PTL

\* Between saves nothing is carried over, so the cap itself holds.
THEOREM CapTheorem == SteadySpec => []CapHolds
  <1>1. SteadySpec => Spec
    BY PTL DEF SteadySpec, Spec, Next
  <1>2. Init => NothingCarried
    BY DEF Init, NothingCarried
  <1>3. NothingCarried /\ [Serve]_vars => NothingCarried'
    BY DEF NothingCarried, Serve, Request, Acquire, AcquireRefused, Release, Tick, vars
  <1>4. SteadySpec => []NothingCarried
    BY <1>2, <1>3, PTL DEF SteadySpec
  <1>5. TypeOK /\ NothingCarried /\ OvershootBounded => CapHolds
    <2> SUFFICES ASSUME TypeOK, NothingCarried, OvershootBounded, NEW s \in Servers
                 PROVE  Cardinality(InFlight(s)) <= config.cap
      BY DEF CapHolds
    <2>1. config.cap \in Nat
      BY ConfigType DEF TypeOK
    <2> QED
      BY <2>1 DEF OvershootBounded, NothingCarried
  <1> QED
    BY <1>1, <1>4, <1>5, OvershootTheorem, TypeCorrect, PTL

(***************************************************************************)
(* The limiter is a SlotPool.                                              *)
(***************************************************************************)

\* The pool counts with the same operator.
LEMMA PoolCardinality == \A S : Pool!Cardinality(S) = Cardinality(S)
  BY DEF Pool!Cardinality, Cardinality

HeldBy == [s \in Servers |-> InFlight(s)]

\* A call occupies a place of the pool exactly while it holds a closure.
LEMMA OccupiedIsHolding ==
    ASSUME TypeOK, NEW c \in Calls
    PROVE  c \in Pool!Occupied <=> slot[c] # NoServer
  BY ServersAssumption DEF Pool!Occupied, InFlight, TypeOK

\* The count is off the truth by what the last save forgot, at most.
LEMMA CountNearTruth ==
    ASSUME TypeOK, SlotInv, NEW s \in Servers
    PROVE  /\ concurrency[s] < config.cap =>
                Cardinality(InFlight(s)) < config.cap + carried[s]
           /\ concurrency[s] >= config.cap =>
                Cardinality(InFlight(s)) >= config.cap
  <1>1. /\ concurrency[s] \in Nat
        /\ carried[s] \in Nat
        /\ config.cap \in Nat
        /\ Cardinality(InFlight(s)) \in Nat
    BY InFlightFinite, ConfigType DEF TypeOK
  <1> QED
    BY <1>1 DEF SlotInv

LEMMA AcquireIsGrant ==
    ASSUME TypeOK, SlotInv,
           NEW c \in Calls, NEW s \in Servers, Acquire(c, s)
    PROVE  Pool!Grant(c, s)
  <1>1. c \notin Pool!Occupied
    BY OccupiedIsHolding DEF Acquire
  <1>2. Cardinality(HeldBy[s]) < config.cap + carried[s]
    BY CountNearTruth DEF Acquire, HeldBy
  <1>3. HeldBy' = [HeldBy EXCEPT ![s] = @ \cup {c}]
    BY ServersAssumption DEF HeldBy, InFlight, Acquire, TypeOK
  <1> QED
    BY <1>1, <1>2, <1>3, PoolCardinality DEF Pool!Grant, HeldBy, Acquire

LEMMA RefusalIsRefuse ==
    ASSUME TypeOK, SlotInv,
           NEW c \in Calls, NEW s \in Servers, AcquireRefused(c, s)
    PROVE  Pool!Refuse(c, s)
  <1>1. c \notin Pool!Occupied
    BY OccupiedIsHolding DEF AcquireRefused
  <1>2. Cardinality(HeldBy[s]) >= config.cap
    BY CountNearTruth DEF AcquireRefused, HeldBy
  <1>3. HeldBy' = HeldBy
    BY DEF HeldBy, InFlight, AcquireRefused
  <1> QED
    BY <1>1, <1>2, <1>3, PoolCardinality DEF Pool!Refuse, HeldBy, AcquireRefused

LEMMA ReleaseIsGiveBack ==
    ASSUME TypeOK, NEW c \in Calls, Release(c)
    PROVE  slot[c] \in Servers /\ Pool!GiveBack(c, slot[c])
  <1>1. slot[c] \in Servers
    BY DEF Release, TypeOK
  <1>2. c \in HeldBy[slot[c]]
    BY <1>1 DEF HeldBy, InFlight
  <1>3. HeldBy' = [HeldBy EXCEPT ![slot[c]] = @ \ {c}]
    BY <1>1, ServersAssumption DEF HeldBy, InFlight, Release, TypeOK
  <1> QED
    BY <1>1, <1>2, <1>3 DEF Pool!GiveBack, HeldBy, Release

LEMMA SaveIsChooseCap ==
    ASSUME NEW cfg \in Configs, UpdateConfig(cfg)
    PROVE  Pool!ChooseCap
  <1>1. config'.cap \in Nat \ {0}
    BY ConfigType DEF UpdateConfig
  <1>2. carried' = [s \in Servers |-> Cardinality(HeldBy[s])]
    BY DEF UpdateConfig, HeldBy
  <1>3. HeldBy' = HeldBy /\ refused' = refused
    BY DEF UpdateConfig, HeldBy, InFlight
  <1> QED
    BY <1>1, <1>2, <1>3, PoolCardinality DEF Pool!ChooseCap, HeldBy

LEMMA StepsArePoolSteps ==
    TypeOK /\ SlotInv /\ [Next]_vars => [Pool!Next]_Pool!vars
  <1> SUFFICES ASSUME TypeOK, SlotInv, [Next]_vars
               PROVE  [Pool!Next]_Pool!vars
    OBVIOUS
  <1>1. ASSUME UNCHANGED <<config, carried, slot, refused>>
        PROVE  UNCHANGED Pool!vars
    BY <1>1 DEF Pool!vars, InFlight
  <1>2. ASSUME NEW s \in Sessions, Request(s)
        PROVE  UNCHANGED Pool!vars
    BY <1>1, <1>2 DEF Request, slotVars
  <1>3. CASE Tick \/ UNCHANGED vars
    BY <1>1, <1>3 DEF Tick, slotVars, vars
  <1>4. ASSUME NEW c \in Calls, NEW s \in Servers,
               Acquire(c, s) \/ AcquireRefused(c, s)
        PROVE  Pool!Next
    BY <1>4, AcquireIsGrant, RefusalIsRefuse DEF Pool!Next
  <1>5. ASSUME NEW c \in Calls, Release(c)
        PROVE  Pool!Next
    BY <1>5, ReleaseIsGiveBack DEF Pool!Next
  <1>6. ASSUME NEW cfg \in Configs, UpdateConfig(cfg)
        PROVE  Pool!Next
    BY <1>6, SaveIsChooseCap DEF Pool!Next
  <1> QED
    BY <1>1, <1>2, <1>3, <1>4, <1>5, <1>6 DEF Next, Serve

\* The limiter implements the pool of slots, with saves at any moment: it
\* turns a call away only when cap calls are in flight on its server, and
\* exceeds the cap only by the calls that were in flight at the last save.
THEOREM PoolRefinement == Spec => PoolSpec
  <1>1. Init => Pool!Init
    BY ServersAssumption, ConfigType DEF Init, Pool!Init, InFlight
  <1> QED
    BY <1>1, StepsArePoolSteps, TypeCorrect, SlotAccounting, PTL
       DEF Spec, PoolSpec, Pool!Spec

(***************************************************************************)
(* Windows.  A window may hold stamps that are already dead, and has lost  *)
(* stamps that died earlier; what it has of the live ones is exact.        *)
(***************************************************************************)

HistoryInv ==
    /\ IsFiniteSet(passed)
    /\ admitted \subseteq passed
    /\ \A r \in passed : r.at <= now

WindowInv ==
    /\ \A s \in Sessions :
          Live(sessionWindow[s], config.session)
              = EndingAt(OfSession(passed, s), now, config.session)
    /\ \A u \in Users :
          Live(userWindow[u], config.user)
              = EndingAt(OfUser(admitted, u), now, config.user)

LimitInv == HistoryInv /\ WindowInv /\ SessionLimitHolds /\ UserLimitHolds

Within(h, limit) ==
    \A t \in 0..now : Cardinality(EndingAt(h, t, limit)) <= limit.max

LEMMA EndingFinite ==
    ASSUME NEW h, IsFiniteSet(h), NEW t, NEW limit
    PROVE  /\ IsFiniteSet(EndingAt(h, t, limit))
           /\ Cardinality(EndingAt(h, t, limit)) \in Nat
  <1>1. EndingAt(h, t, limit) \in SUBSET h
    BY DEF EndingAt
  <1> QED
    BY <1>1, FS_Subset, FS_CardinalityType

LEMMA AddOne ==
    ASSUME NEW S, IsFiniteSet(S), NEW x, NEW m \in Nat, Cardinality(S) < m
    PROVE  Cardinality(S \cup {x}) <= m
  <1>1. Cardinality(S) \in Nat
    BY FS_CardinalityType
  <1>2. CASE x \in S
    <2>1. S \cup {x} = S
      BY <1>2
    <2> QED
      BY <1>1, <2>1
  <1>3. CASE x \notin S
    <2>1. Cardinality(S \cup {x}) = Cardinality(S) + 1
      BY <1>3, FS_AddElement
    <2> QED
      BY <1>1, <2>1
  <1> QED
    BY <1>2, <1>3

\* Accepting a request below the limit: the window stays exact, and every
\* window placed on the longer history is still within the limit.
LEMMA PushKeepsLimit ==
    ASSUME TypeOK, NEW s \in Sessions,
           NEW h \in SUBSET Stamp, IsFiniteSet(h), \A r \in h : r.at <= now,
           NEW w, NEW limit \in Limit,
           Live(w, limit) = EndingAt(h, now, limit),
           ~Full(w, limit),
           Within(h, limit)
    PROVE  /\ Live(Push(w, limit, s), limit)
                 = EndingAt(h \cup {NewStamp(s)}, now, limit)
           /\ Within(h \cup {NewStamp(s)}, limit)
  <1> DEFINE st == NewStamp(s)
  <1>0. now \in Nat /\ limit.max \in Nat /\ limit.window \in Nat \ {0}
    BY DEF TypeOK, Limit
  <1>1. st.at = now /\ st \in Stamp
    BY StampType DEF NewStamp
  <1>2. Live(Push(w, limit, s), limit) = Live(w, limit) \cup {st}
    BY <1>0, <1>1 DEF Live, Push
  <1>3. EndingAt(h \cup {st}, now, limit) = EndingAt(h, now, limit) \cup {st}
    BY <1>0, <1>1 DEF EndingAt
  <1>4. ASSUME NEW t \in 0..now
        PROVE  Cardinality(EndingAt(h \cup {st}, t, limit)) <= limit.max
    <2>1. CASE t = now
      <3>1. Cardinality(EndingAt(h, now, limit)) < limit.max
        BY <1>0, EndingFinite DEF Full
      <3>2. Cardinality(EndingAt(h, now, limit) \cup {st}) <= limit.max
        BY <1>0, <3>1, EndingFinite, AddOne
      <3> QED
        BY <1>3, <2>1, <3>2
    <2>2. CASE t # now
      <3>1. EndingAt(h \cup {st}, t, limit) = EndingAt(h, t, limit)
        BY <1>0, <1>1, <2>2 DEF EndingAt
      <3> QED
        BY <3>1 DEF Within
    <2> QED
      BY <2>1, <2>2
  <1> QED
    BY <1>2, <1>3, <1>4 DEF Within

\* A second moves the windows on: the last one only loses stamps.
LEMMA TickKeepsLimit ==
    ASSUME TypeOK, now' = now + 1,
           NEW h \in SUBSET Stamp, IsFiniteSet(h), \A r \in h : r.at <= now,
           NEW w \in SUBSET Stamp, NEW limit \in Limit,
           Live(w, limit) = EndingAt(h, now, limit),
           Within(h, limit)
    PROVE  /\ {r \in w : r.at > now' - limit.window} = EndingAt(h, now', limit)
           /\ \A t \in 0..now' : Cardinality(EndingAt(h, t, limit)) <= limit.max
  <1>0. /\ now \in Nat
        /\ limit.max \in Nat
        /\ limit.window \in Nat \ {0}
        /\ \A r \in h \cup w : r.at \in Nat
    BY DEF TypeOK, Limit, Stamp
  <1>1. {r \in w : r.at > now' - limit.window}
          = {r \in Live(w, limit) : r.at > now' - limit.window}
    BY <1>0 DEF Live
  <1>2. EndingAt(h, now', limit)
          = {r \in EndingAt(h, now, limit) : r.at > now' - limit.window}
    BY <1>0 DEF EndingAt
  <1>3. Cardinality(EndingAt(h, now', limit)) <= limit.max
    <2>1. EndingAt(h, now', limit) \in SUBSET EndingAt(h, now, limit)
      BY <1>2
    <2>2. Cardinality(EndingAt(h, now', limit)) <= Cardinality(EndingAt(h, now, limit))
      BY <2>1, EndingFinite, FS_Subset
    <2>3. Cardinality(EndingAt(h, now, limit)) <= limit.max
      BY <1>0 DEF Within
    <2> QED
      BY <1>0, <2>2, <2>3, EndingFinite
  <1>4. ASSUME NEW t \in 0..now'
        PROVE  Cardinality(EndingAt(h, t, limit)) <= limit.max
    <2>1. t = now' \/ t \in 0..now
      BY <1>0
    <2> QED
      BY <1>3, <2>1 DEF Within
  <1> QED
    BY <1>1, <1>2, <1>4

\* What LimitInv says of one session and of one user.
SessionOK(s) ==
    /\ Live(sessionWindow[s], config.session)
         = EndingAt(OfSession(passed, s), now, config.session)
    /\ Within(OfSession(passed, s), config.session)

UserOK(u) ==
    /\ Live(userWindow[u], config.user)
         = EndingAt(OfUser(admitted, u), now, config.user)
    /\ Within(OfUser(admitted, u), config.user)

LEMMA LimitInvParts ==
    LimitInv <=> /\ HistoryInv
                 /\ \A s \in Sessions : SessionOK(s)
                 /\ \A u \in Users : UserOK(u)
  BY DEF LimitInv, WindowInv, SessionLimitHolds, UserLimitHolds, SessionOK, UserOK, Within

\* The histories the limits are stated on are finite sets of past stamps.
LEMMA HistoryParts ==
    ASSUME TypeOK, HistoryInv, NEW s, NEW u
    PROVE  /\ OfSession(passed, s) \in SUBSET Stamp
           /\ IsFiniteSet(OfSession(passed, s))
           /\ \A r \in OfSession(passed, s) : r.at <= now
           /\ OfUser(admitted, u) \in SUBSET Stamp
           /\ IsFiniteSet(OfUser(admitted, u))
           /\ \A r \in OfUser(admitted, u) : r.at <= now
  <1>1. OfSession(passed, s) \in SUBSET passed /\ OfUser(admitted, u) \in SUBSET passed
    BY DEF OfSession, OfUser, HistoryInv
  <1>2. IsFiniteSet(OfSession(passed, s)) /\ IsFiniteSet(OfUser(admitted, u))
    BY <1>1, FS_Subset DEF HistoryInv
  <1> QED
    BY <1>1, <1>2 DEF TypeOK, HistoryInv

LEMMA InitLimitInv == Init => LimitInv
  <1> SUFFICES ASSUME Init
               PROVE  /\ HistoryInv
                      /\ \A s \in Sessions : SessionOK(s)
                      /\ \A u \in Users : UserOK(u)
    BY LimitInvParts
  <1>1. config.session.max \in Nat /\ config.user.max \in Nat
    BY ConfigType DEF Init, Limit
  <1>2. \A t, limit : EndingAt({}, t, limit) = {}
    BY DEF EndingAt
  <1>3. \A t, limit : Cardinality(EndingAt({}, t, limit)) = 0
    BY <1>2, FS_EmptySet
  <1>4. HistoryInv
    BY FS_EmptySet DEF Init, HistoryInv
  <1>5. ASSUME NEW s \in Sessions
        PROVE  SessionOK(s)
    <2>1. OfSession(passed, s) = {} /\ sessionWindow[s] = {}
      BY DEF Init, OfSession
    <2> QED
      BY <1>1, <1>2, <1>3, <2>1 DEF SessionOK, Within, Live
  <1>6. ASSUME NEW u \in Users
        PROVE  UserOK(u)
    <2>1. OfUser(admitted, u) = {} /\ userWindow[u] = {}
      BY DEF Init, OfUser
    <2> QED
      BY <1>1, <1>2, <1>3, <2>1 DEF UserOK, Within, Live
  <1> QED
    BY <1>4, <1>5, <1>6

\* checkSession accepts: the session's own window and history grow together,
\* and those of the other sessions are left alone.
LEMMA SessionAccepts ==
    ASSUME TypeOK, HistoryInv, NEW s \in Sessions, SessionOK(s),
           ~Full(sessionWindow[s], config.session),
           sessionWindow' = [sessionWindow EXCEPT ![s] = Push(@, config.session, s)],
           passed' = passed \cup {NewStamp(s)},
           config' = config, now' = now,
           NEW t \in Sessions, SessionOK(t)
    PROVE  SessionOK(t)'
  <1>1. CASE t = s
    <2>1. OfSession(passed', s) = OfSession(passed, s) \cup {NewStamp(s)}
      BY DEF OfSession, NewStamp
    <2>2. sessionWindow'[s] = Push(sessionWindow[s], config.session, s)
      BY DEF TypeOK
    <2>3. config.session \in Limit
      BY ConfigType DEF TypeOK
    <2>4. /\ Live(Push(sessionWindow[s], config.session, s), config.session)
               = EndingAt(OfSession(passed, s) \cup {NewStamp(s)}, now, config.session)
          /\ Within(OfSession(passed, s) \cup {NewStamp(s)}, config.session)
      BY <2>3, PushKeepsLimit, HistoryParts DEF SessionOK
    <2> QED
      BY <1>1, <2>1, <2>2, <2>4 DEF SessionOK, Within, Live
  <1>2. CASE t # s
    <2>1. OfSession(passed', t) = OfSession(passed, t)
      BY <1>2 DEF OfSession, NewStamp
    <2>2. sessionWindow'[t] = sessionWindow[t]
      BY <1>2 DEF TypeOK
    <2> QED
      BY <2>1, <2>2 DEF SessionOK, Within, Live
  <1> QED
    BY <1>1, <1>2

\* The same for checkUser, for the user the session belongs to.
LEMMA UserAccepts ==
    ASSUME TypeOK, HistoryInv, NEW s \in Sessions, UserOK(UserOf[s]),
           ~Full(userWindow[UserOf[s]], config.user),
           userWindow' = [userWindow EXCEPT ![UserOf[s]] = Push(@, config.user, s)],
           admitted' = admitted \cup {NewStamp(s)},
           config' = config, now' = now,
           NEW u \in Users, UserOK(u)
    PROVE  UserOK(u)'
  <1>0. UserOf[s] \in Users
    BY UsersAssumption
  <1>1. CASE u = UserOf[s]
    <2>1. OfUser(admitted', u) = OfUser(admitted, u) \cup {NewStamp(s)}
      BY <1>1 DEF OfUser, NewStamp
    <2>2. userWindow'[u] = Push(userWindow[u], config.user, s)
      BY <1>1 DEF TypeOK
    <2>3. config.user \in Limit
      BY ConfigType DEF TypeOK
    <2>4. /\ Live(Push(userWindow[u], config.user, s), config.user)
               = EndingAt(OfUser(admitted, u) \cup {NewStamp(s)}, now, config.user)
          /\ Within(OfUser(admitted, u) \cup {NewStamp(s)}, config.user)
      BY <1>1, <2>3, PushKeepsLimit, HistoryParts DEF UserOK
    <2> QED
      BY <2>1, <2>2, <2>4 DEF UserOK, Within, Live
  <1>2. CASE u # UserOf[s]
    <2>1. OfUser(admitted', u) = OfUser(admitted, u)
      BY <1>2 DEF OfUser, NewStamp
    <2>2. userWindow'[u] = userWindow[u]
      BY <1>2 DEF TypeOK
    <2> QED
      BY <2>1, <2>2 DEF UserOK, Within, Live
  <1> QED
    BY <1>1, <1>2

LEMMA RequestLimitInv ==
    ASSUME TypeOK, LimitInv, NEW s \in Sessions, Request(s)
    PROVE  LimitInv'
  <1>0. /\ HistoryInv
        /\ \A t \in Sessions : SessionOK(t)
        /\ \A u \in Users : UserOK(u)
    BY LimitInvParts
  <1>1. config' = config /\ now' = now
    BY DEF Request
  <1>2. SUFFICES /\ HistoryInv'
                 /\ \A t \in Sessions : SessionOK(t)'
                 /\ \A u \in Users : UserOK(u)'
    BY DEF LimitInv, WindowInv, SessionLimitHolds, UserLimitHolds,
           SessionOK, UserOK, Within
  <1>3. NewStamp(s).at = now /\ now \in Nat
    BY DEF NewStamp, TypeOK
  <1>4. /\ IsFiniteSet(passed \cup {NewStamp(s)})
        /\ \A r \in passed \cup {NewStamp(s)} : r.at <= now
    BY <1>0, <1>3, FS_AddElement DEF HistoryInv
  <1>5. CASE RefuseSession(s)
    <2>1. HistoryInv'
      BY <1>0, <1>1, <1>5 DEF RefuseSession, HistoryInv
    <2>2. ASSUME NEW t \in Sessions
          PROVE  SessionOK(t)'
      <3>1. sessionWindow'[t] = IF t = s THEN Live(sessionWindow[s], config.session)
                                         ELSE sessionWindow[t]
        BY <1>5 DEF RefuseSession, TypeOK
      <3>2. Live(sessionWindow'[t], config.session) = Live(sessionWindow[t], config.session)
        BY <3>1 DEF Live
      <3> QED
        BY <1>0, <1>1, <1>5, <3>2 DEF SessionOK, Within, Live, RefuseSession
    <2>3. ASSUME NEW u \in Users
          PROVE  UserOK(u)'
      BY <1>0, <1>1, <1>5 DEF UserOK, Within, Live, RefuseSession
    <2> QED
      BY <2>1, <2>2, <2>3
  <1>6. CASE RefuseUser(s)
    <2>1. HistoryInv'
      BY <1>0, <1>1, <1>4, <1>6 DEF RefuseUser, HistoryInv
    <2>2. ASSUME NEW t \in Sessions
          PROVE  SessionOK(t)'
      BY <1>0, <1>1, <1>6, SessionAccepts DEF RefuseUser
    <2>3. ASSUME NEW u \in Users
          PROVE  UserOK(u)'
      <3>1. userWindow'[u] = IF u = UserOf[s] THEN Live(userWindow[u], config.user)
                                              ELSE userWindow[u]
        BY <1>6 DEF RefuseUser, TypeOK
      <3>2. Live(userWindow'[u], config.user) = Live(userWindow[u], config.user)
        BY <3>1 DEF Live
      <3> QED
        BY <1>0, <1>1, <1>6, <3>2 DEF UserOK, Within, Live, RefuseUser
    <2> QED
      BY <2>1, <2>2, <2>3
  <1>7. CASE Admit(s)
    <2>1. HistoryInv'
      BY <1>0, <1>1, <1>4, <1>7 DEF Admit, HistoryInv
    <2>2. ASSUME NEW t \in Sessions
          PROVE  SessionOK(t)'
      BY <1>0, <1>1, <1>7, SessionAccepts DEF Admit
    <2>3. ASSUME NEW u \in Users
          PROVE  UserOK(u)'
      BY <1>0, <1>1, <1>7, UserAccepts, UsersAssumption DEF Admit
    <2> QED
      BY <2>1, <2>2, <2>3
  <1> QED
    BY <1>5, <1>6, <1>7 DEF Request

LEMMA TickLimitInv ==
    ASSUME TypeOK, LimitInv, Tick
    PROVE  LimitInv'
  <1>0. /\ HistoryInv
        /\ \A t \in Sessions : SessionOK(t)
        /\ \A u \in Users : UserOK(u)
    BY LimitInvParts
  <1>1. /\ now' = now + 1
        /\ now \in Nat
        /\ config' = config
        /\ passed' = passed
        /\ admitted' = admitted
        /\ sessionWindow' = sessionWindow
        /\ userWindow' = userWindow
    BY DEF Tick, windowVars, TypeOK
  <1>2. config.session \in Limit /\ config.user \in Limit
    BY ConfigType DEF TypeOK
  <1>3. HistoryInv'
    <2>1. \A r \in passed : r.at \in Nat
      BY DEF TypeOK, Stamp
    <2> QED
      BY <1>0, <1>1, <2>1 DEF HistoryInv
  <1>4. ASSUME NEW t \in Sessions
        PROVE  SessionOK(t)'
    <2>1. sessionWindow[t] \in SUBSET Stamp
      BY DEF TypeOK
    <2>2. /\ {r \in sessionWindow[t] : r.at > now' - config.session.window}
               = EndingAt(OfSession(passed, t), now', config.session)
          /\ \A k \in 0..now' :
                Cardinality(EndingAt(OfSession(passed, t), k, config.session))
                    <= config.session.max
      BY <1>0, <1>1, <1>2, <2>1, HistoryParts, TickKeepsLimit DEF SessionOK
    <2> QED
      BY <1>1, <2>2 DEF SessionOK, Within, Live
  <1>5. ASSUME NEW u \in Users
        PROVE  UserOK(u)'
    <2>1. userWindow[u] \in SUBSET Stamp
      BY DEF TypeOK
    <2>2. /\ {r \in userWindow[u] : r.at > now' - config.user.window}
               = EndingAt(OfUser(admitted, u), now', config.user)
          /\ \A k \in 0..now' :
                Cardinality(EndingAt(OfUser(admitted, u), k, config.user))
                    <= config.user.max
      BY <1>0, <1>1, <1>2, <2>1, HistoryParts, TickKeepsLimit DEF UserOK
    <2> QED
      BY <1>1, <2>2 DEF UserOK, Within, Live
  <1> QED
    BY <1>3, <1>4, <1>5 DEF LimitInv, WindowInv, SessionLimitHolds,
           UserLimitHolds, SessionOK, UserOK, Within

\* A save empties windows and histories together.
LEMMA SaveLimitInv ==
    ASSUME TypeOK, NEW cfg \in Configs, UpdateConfig(cfg)
    PROVE  LimitInv'
  <1>1. cfg.session.max \in Nat /\ cfg.user.max \in Nat /\ now \in Nat
    BY ConfigType DEF Limit, TypeOK
  <1>2. \A t, limit : EndingAt({}, t, limit) = {}
    BY DEF EndingAt
  <1>3. \A t, limit : Cardinality(EndingAt({}, t, limit)) = 0
    BY <1>2, FS_EmptySet
  <1>4. HistoryInv'
    BY FS_EmptySet DEF UpdateConfig, HistoryInv
  <1>5. ASSUME NEW s \in Sessions
        PROVE  SessionOK(s)'
    <2>1. /\ OfSession(passed', s) = {}
          /\ sessionWindow'[s] = {}
          /\ config' = cfg
          /\ now' = now
      BY DEF UpdateConfig, OfSession
    <2> QED
      BY <1>1, <1>2, <1>3, <2>1 DEF SessionOK, Within, Live
  <1>6. ASSUME NEW u \in Users
        PROVE  UserOK(u)'
    <2>1. /\ OfUser(admitted', u) = {}
          /\ userWindow'[u] = {}
          /\ config' = cfg
          /\ now' = now
      BY DEF UpdateConfig, OfUser
    <2> QED
      BY <1>1, <1>2, <1>3, <2>1 DEF UserOK, Within, Live
  <1> QED
    BY <1>4, <1>5, <1>6 DEF LimitInv, WindowInv, SessionLimitHolds,
           UserLimitHolds, SessionOK, UserOK, Within

LEMMA NextLimitInv == TypeOK /\ LimitInv /\ [Next]_vars => LimitInv'
  <1> SUFFICES ASSUME TypeOK, LimitInv, [Next]_vars
               PROVE  LimitInv'
    OBVIOUS
  <1>1. ASSUME UNCHANGED <<config, now, windowVars>>
        PROVE  LimitInv'
    BY <1>1 DEF windowVars, LimitInv, HistoryInv, WindowInv, Live,
                SessionLimitHolds, UserLimitHolds
  <1>2. ASSUME NEW c \in Calls, NEW s \in Servers,
               Acquire(c, s) \/ AcquireRefused(c, s)
        PROVE  LimitInv'
    BY <1>1, <1>2 DEF Acquire, AcquireRefused
  <1>3. ASSUME NEW c \in Calls, Release(c)
        PROVE  LimitInv'
    BY <1>1, <1>3 DEF Release
  <1>4. CASE UNCHANGED vars
    BY <1>1, <1>4 DEF vars
  <1> QED
    BY <1>2, <1>3, <1>4, RequestLimitInv, TickLimitInv, SaveLimitInv DEF Next, Serve

\* Between two saves no placement of a window finds more requests of a session
\* or of a user than the limit allows, for any limits, windows and clocks.
THEOREM LimitsHold == Spec => [](SessionLimitHolds /\ UserLimitHolds)
  <1>1. Spec => []LimitInv
    BY InitLimitInv, NextLimitInv, TypeCorrect, PTL DEF Spec
  <1>2. LimitInv => SessionLimitHolds /\ UserLimitHolds
    BY DEF LimitInv
  <1> QED
    BY <1>1, <1>2, PTL

LEMMA LimitInvJustifies ==
    ASSUME TypeOK, LimitInv
    PROVE  RefusalJustified
  <1> SUFFICES ASSUME NEW s \in Sessions, Request(s)
               PROVE  /\ verdict' = "sessionLimit" =>
                            Cardinality(EndingAt(OfSession(passed, s), now, config.session))
                                >= config.session.max
                      /\ verdict' = "userLimit" =>
                            Cardinality(EndingAt(OfUser(admitted, UserOf[s]), now, config.user))
                                >= config.user.max
    BY DEF RefusalJustified
  <1>1. /\ Live(sessionWindow[s], config.session)
             = EndingAt(OfSession(passed, s), now, config.session)
        /\ Live(userWindow[UserOf[s]], config.user)
             = EndingAt(OfUser(admitted, UserOf[s]), now, config.user)
    BY UsersAssumption DEF LimitInv, WindowInv
  <1>2. verdict' = "sessionLimit" => Full(sessionWindow[s], config.session)
    BY DEF Request, RefuseSession, RefuseUser, Admit
  <1>3. verdict' = "userLimit" => Full(userWindow[UserOf[s]], config.user)
    BY DEF Request, RefuseSession, RefuseUser, Admit
  <1> QED
    BY <1>1, <1>2, <1>3 DEF Full

\* A refusal always has a full window of accepted requests behind it.
THEOREM RefusalsJustified == Spec => RefusedOnlyAtLimit
  <1>1. Spec => []LimitInv
    BY InitLimitInv, NextLimitInv, TypeCorrect, PTL DEF Spec
  <1>2. TypeOK /\ LimitInv => [RefusalJustified]_vars
    BY LimitInvJustifies
  <1> QED
    BY <1>1, <1>2, TypeCorrect, PTL DEF RefusedOnlyAtLimit
=============================================================================
