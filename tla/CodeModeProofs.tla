--------------------------- MODULE CodeModeProofs ---------------------------
(***************************************************************************)
(* Theorems about the two models of code mode.                             *)
(*                                                                         *)
(* CodeRuntime, for any limits, sizes of batches and number of operations: *)
(* an execution makes no more tool calls than it may, and a batch that     *)
(* begins alone and resolves has made each of its calls once.              *)
(*                                                                         *)
(* In the second half Discovery, for any tools, servers, gateway modes and *)
(* times: the maps of a handle registry agree, a handle means one tool     *)
(* while code runs, and a disabled tool runs out.  Last, for any ranking   *)
(* that Selection makes of the tools, what the published window keeps and  *)
(* reserves.                                                               *)
(***************************************************************************)
EXTENDS CodeRuntime, Discovery, SequenceTheorems, FiniteSetTheorems,
        WellFoundedInduction, TLAPS

LEMMA WorkersFacts == Workers \subseteq Nat \ {0} /\ 1 \in Workers
BY LimitsAssumption DEF Workers

LEMMA OperationFacts ==
  ASSUME NEW o \in Operations
  PROVE  /\ o \in Op(o.size) /\ o.size \in Nat \ {0} /\ o.size \in Sizes \cup {1}
         /\ o.worker \in [Workers -> 0..o.size] /\ o.times \in [1..o.size -> Nat]
         /\ o.alone \in BOOLEAN /\ o.base \in {"running", "resolved", "rejected"}
<1>1. PICK n \in Sizes \cup {1} : o \in Op(n)
  BY DEF Operations
<1>2. n \in Nat \ {0}
  BY SizesAssumption
<1>3. QED BY <1>1, <1>2 DEF Op

(* The workers that a batch of n calls starts with.                        *)
First(n) == IF n < MaxConcurrent THEN 1..n ELSE Workers

LEMMA FirstFacts ==
  ASSUME NEW n \in Nat \ {0}
  PROVE  /\ First(n) \subseteq 1..n /\ First(n) \subseteq Workers /\ First(n) # {}
         /\ Cardinality(First(n)) \in Nat \ {0} /\ Cardinality(First(n)) <= n
         /\ \A i \in 1..n : i \in First(n) <=> i <= Cardinality(First(n))
<1>1. MaxConcurrent \in Nat \ {0}
  BY LimitsAssumption
<1>2. PICK m \in Nat \ {0} : First(n) = 1..m /\ m <= n /\ m <= MaxConcurrent
  BY <1>1 DEF First, Workers
<1>3. Cardinality(First(n)) = m
  BY <1>2, FS_Interval
<1>4. First(n) \subseteq 1..n /\ First(n) \subseteq Workers /\ 1 \in First(n)
  BY <1>1, <1>2 DEF Workers
<1>5. \A i \in 1..n : i \in First(n) <=> i <= m
  BY <1>2
<1>6. QED BY <1>2, <1>3, <1>4, <1>5

LEMMA PartOfFirst ==
  ASSUME NEW n \in Nat \ {0}, NEW busy, busy \subseteq First(n)
  PROVE  Cardinality(busy) \in Nat /\ Cardinality(busy) <= n
<1>1. IsFiniteSet(First(n))
  BY FS_Interval, LimitsAssumption DEF First, Workers
<1>2. Cardinality(busy) \in Nat /\ Cardinality(busy) <= Cardinality(First(n))
  BY <1>1, FS_Subset, FS_CardinalityType
<1>3. Cardinality(First(n)) \in Nat /\ Cardinality(First(n)) <= n
  BY FirstFacts
<1>4. QED BY <1>2, <1>3

-----------------------------------------------------------------------------
(* What an operation is after each of the steps of its workers.            *)

Stopped(o, w, failed) ==
    LET idle == [o EXCEPT !.worker[w] = Idle]
    IN  [idle EXCEPT !.base = BaseAfter(idle, failed)]

LEMMA NewOpFacts ==
  ASSUME NEW kind \in {"call", "batch"}, NEW n \in Sizes \cup {1}, NEW busy \in SUBSET First(n),
         NEW base \in {"running", "rejected"}
  PROVE  /\ NewOp(kind, n, busy) \in Operations
         /\ [NewOp(kind, n, busy) EXCEPT !.base = base] \in Operations
<1>1. n \in Nat \ {0}
  BY SizesAssumption
<1>2. First(n) \subseteq 1..n
  BY <1>1, FirstFacts
<1>3. [w \in Workers |-> IF w \in busy THEN w ELSE Idle] \in [Workers -> 0..n]
  BY <1>1, <1>2 DEF Idle
<1>4. [i \in 1..n |-> IF i \in busy THEN 1 ELSE 0] \in [1..n -> Nat]
  OBVIOUS
<1>5. (InFlight = {}) \in BOOLEAN
  OBVIOUS
<1>6. NewOp(kind, n, busy) \in Op(n)
  BY <1>3, <1>4, <1>5 DEF NewOp, Op
<1>7. [NewOp(kind, n, busy) EXCEPT !.base = base] \in Op(n)
  BY <1>6 DEF Op
<1>8. QED BY <1>6, <1>7 DEF Operations

LEMMA StoppedFacts ==
  ASSUME NEW o \in Operations, NEW w \in Workers, NEW failed \in BOOLEAN
  PROVE  /\ Stopped(o, w, failed) \in Operations
         /\ Stopped(o, w, failed).size = o.size /\ Stopped(o, w, failed).kind = o.kind
         /\ Stopped(o, w, failed).times = o.times /\ Stopped(o, w, failed).alone = o.alone
         /\ Stopped(o, w, failed).worker = [o.worker EXCEPT ![w] = Idle]
         /\ Stopped(o, w, failed).base = "resolved" =>
              o.base = "resolved" \/ (o.base = "running" /\ ~failed)
         /\ Stopped(o, w, failed).base = "resolved" /\ o.base = "running" =>
              Busy(Stopped(o, w, failed)) = {}
         /\ o.base = "rejected" => Stopped(o, w, failed).base = "rejected"
<1> DEFINE idle == [o EXCEPT !.worker[w] = Idle]
           base == BaseAfter(idle, failed)
           s == [idle EXCEPT !.base = base]
<1>1. o \in Op(o.size) /\ o.size \in Sizes \cup {1}
  BY OperationFacts
<1>2. idle = [o EXCEPT !.worker = [o.worker EXCEPT ![w] = Idle]]
  BY <1>1 DEF Op
<1>3. [o.worker EXCEPT ![w] = Idle] \in [Workers -> 0..o.size]
  BY OperationFacts DEF Idle
<1>4. idle \in Op(o.size) /\ idle.base = o.base
  BY <1>1, <1>2, <1>3 DEF Op
<1>5. base \in {"running", "resolved", "rejected"}
  BY <1>4 DEF BaseAfter, Op
<1>6. s \in Op(o.size)
  BY <1>4, <1>5 DEF Op
<1>7. /\ s.size = o.size /\ s.kind = o.kind /\ s.times = o.times /\ s.alone = o.alone
      /\ s.worker = [o.worker EXCEPT ![w] = Idle] /\ s.base = base
  BY <1>1, <1>2, <1>3 DEF Op
<1>8. Busy(s) = Busy(idle)
  BY <1>7, <1>1, <1>2 DEF Busy, Op
<1>9. /\ base = "resolved" => o.base = "resolved" \/ (o.base = "running" /\ ~failed)
      /\ base = "resolved" /\ o.base = "running" => Busy(idle) = {}
      /\ o.base = "rejected" => base = "rejected"
  BY <1>4, OperationFacts DEF BaseAfter
<1>10. Stopped(o, w, failed) = s
  BY DEF Stopped
<1> HIDE DEF s, base, idle
<1>11. s \in Operations
  BY <1>1, <1>6 DEF Operations
<1>12. QED BY <1>7, <1>8, <1>9, <1>10, <1>11

LEMMA MakesFacts ==
  ASSUME NEW o \in Operations, NEW w \in Workers, index \in 1..o.size
  PROVE  /\ Makes(o, w) \in Operations
         /\ Makes(o, w).size = o.size /\ Makes(o, w).kind = o.kind
         /\ Makes(o, w).alone = o.alone /\ Makes(o, w).base = o.base
         /\ Makes(o, w).times = [o.times EXCEPT ![index] = @ + 1]
<1>1. o \in Op(o.size) /\ o.size \in Sizes \cup {1}
  BY OperationFacts
<1>2. [o.worker EXCEPT ![w] = index] \in [Workers -> 0..o.size]
  BY OperationFacts
<1>3. [o.times EXCEPT ![index] = @ + 1] \in [1..o.size -> Nat]
  BY OperationFacts
<1>4. Makes(o, w) = [o EXCEPT !.worker = [o.worker EXCEPT ![w] = index],
                              !.times = [o.times EXCEPT ![index] = @ + 1]]
  BY <1>1 DEF Makes, Op
<1>5. Makes(o, w) \in Op(o.size)
  BY <1>1, <1>2, <1>3, <1>4 DEF Op
<1>6. QED BY <1>1, <1>4, <1>5 DEF Operations, Op

-----------------------------------------------------------------------------
(* The tool calls that went downstream have all been counted, and the last *)
(* operation, if it began alone, is the only one that still runs: the      *)
(* counter they share is its own.                                          *)
Counted == started <= count /\ started <= MaxCalls

Sound(o, next) ==
    /\ \A i \in 1..o.size : o.times[i] = IF o.kind = "call" \/ i < next THEN 1 ELSE 0
    /\ o.base = "resolved" =>
         /\ Busy(o) = {}
         /\ \A i \in 1..o.size : o.times[i] = 1

Newest == op[Len(op)]

OwnCounter ==
    op # << >> /\ Newest.alone =>
        /\ \A k \in 1..Len(op) : k # Len(op) => Busy(op[k]) = {}
        /\ Newest.base # "rejected" => Sound(Newest, index)

RuntimeInv == TypeOK /\ Counted /\ OwnCounter

LEMMA TypeFacts ==
  ASSUME TypeOK
  PROVE  /\ op \in Seq(Operations) /\ Len(op) \in Nat
         /\ \A k \in 1..Len(op) : op[k] \in Operations
         /\ op # << >> => Len(op) \in 1..Len(op)
         /\ index \in Nat \ {0} /\ count \in Nat /\ started \in Nat
<1>1. op \in Seq(Operations)
  BY DEF TypeOK
<1>2. QED BY <1>1, LenProperties, EmptySeq, ElementOfSeq, LimitsAssumption DEF TypeOK

LEMMA RuntimeInit == ASSUME Init PROVE RuntimeInv
<1>1. op = << >> /\ << >> \in Seq(Operations)
  BY EmptySeq DEF Init
<1>2. TypeOK
  <2>1. 0 \in 0..(MaxCalls + 1)
    BY LimitsAssumption
  <2>2. index \in Nat \ {0} /\ started \in Nat /\ count \in 0..(MaxCalls + 1)
    BY <2>1 DEF Init
  <2>3. pending \in BOOLEAN /\ guest \in Guest
    BY DEF Init, Guest
  <2>4. QED BY <1>1, <2>2, <2>3 DEF TypeOK
<1>3. Counted /\ OwnCounter
  BY LimitsAssumption DEF Init, Counted, OwnCounter
<1>4. QED BY <1>2, <1>3 DEF RuntimeInv

(* A step that touches neither the operations nor their counter.           *)
LEMMA GuestKeeps ==
  ASSUME RuntimeInv, UNCHANGED <<op, index, started>>, count' \in 0..(MaxCalls + 1),
         count <= count', pending' \in BOOLEAN, guest' \in Guest
  PROVE  RuntimeInv'
<1>1. TypeOK'
  BY DEF RuntimeInv, TypeOK
<1>2. Counted'
  BY TypeFacts, LimitsAssumption DEF RuntimeInv, Counted
<1>3. OwnCounter'
  BY DEF RuntimeInv, OwnCounter, Newest, Sound
<1>4. QED BY <1>1, <1>2, <1>3 DEF RuntimeInv

(* An operation is appended; when nothing was in flight, it is alone.      *)
LEMMA AppendKeeps ==
  ASSUME TypeOK, OwnCounter, NEW o \in Operations, op' = Append(op, o),
         o.alone => InFlight = {},
         o.alone /\ o.base # "rejected" => Sound(o, index')
  PROVE  op' \in Seq(Operations) /\ OwnCounter'
<1>1. /\ op' \in Seq(Operations) /\ Len(op') = Len(op) + 1 /\ op'[Len(op) + 1] = o
      /\ \A k \in 1..Len(op) : op'[k] = op[k]
  BY TypeFacts, AppendProperties
<1>2. Newest' = o
  BY <1>1 DEF Newest
<1>3. InFlight = {} => \A k \in 1..Len(op) : Busy(op[k]) = {}
  <2>1. ASSUME NEW k \in 1..Len(op), NEW w \in Workers, op[k].worker[w] # Idle
        PROVE  <<k, w>> \in InFlight
    BY <2>1 DEF InFlight
  <2>2. QED BY <2>1 DEF Busy
<1>4. o.alone => \A k \in 1..Len(op') : k # Len(op') => Busy(op'[k]) = {}
  <2>1. \A k \in 1..Len(op') : k # Len(op') => k \in 1..Len(op)
    BY <1>1, TypeFacts
  <2>2. QED BY <1>1, <1>3, <2>1 DEF Busy
<1>5. QED BY <1>1, <1>2, <1>4 DEF OwnCounter

LEMMA BatchKeeps ==
  ASSUME RuntimeInv, NEW n \in Sizes, NEW unknown \in SUBSET Workers, BeginBatch(n, unknown)
  PROVE  RuntimeInv'
<1> DEFINE busy == First(n) \ unknown
           o == NewOp("batch", n, busy)
           new == IF unknown = {} THEN o ELSE [o EXCEPT !.base = "rejected"]
<1>1. n \in Nat \ {0}
  BY SizesAssumption
<1>2. /\ count + n <= MaxCalls
      /\ index' = Cardinality(First(n)) + 1
      /\ count' = count + Cardinality(busy) /\ started' = started + Cardinality(busy)
      /\ op' = Append(op, new)
      /\ pending' \in BOOLEAN /\ guest' \in Guest
  BY DEF BeginBatch, First, Guest
<1>3. Cardinality(busy) \in Nat /\ Cardinality(busy) <= n
  BY <1>1, PartOfFirst
<1>4. Cardinality(First(n)) \in Nat \ {0}
  BY <1>1, FirstFacts
<1>5. Counted'
  BY <1>1, <1>2, <1>3, TypeFacts, LimitsAssumption DEF RuntimeInv, Counted
<1>6. new \in Operations
  BY NewOpFacts
<1>7. new.alone => InFlight = {}
  BY DEF NewOp
<1>8. ASSUME new.base # "rejected" PROVE Sound(new, index')
  <2>1. unknown = {} /\ new = o /\ busy = First(n)
    BY <1>8 DEF NewOp
  <2>2. o.base # "resolved" /\ o.size = n /\ o.kind = "batch"
        /\ o.times = [i \in 1..n |-> IF i \in busy THEN 1 ELSE 0]
    BY DEF NewOp
  <2>3. \A i \in 1..n : i \in First(n) <=> i < index'
    <3>1. PICK m \in Nat : m = Cardinality(First(n))
      BY <1>4
    <3>2. \A i \in 1..n : i \in First(n) <=> i <= m
      BY <1>1, <3>1, FirstFacts
    <3>3. index' = m + 1
      BY <1>2, <3>1
    <3>4. \A i \in 1..n : i <= m <=> i < m + 1
      BY <1>1, <3>1
    <3>5. QED BY <3>2, <3>3, <3>4
  <2>4. QED BY <2>1, <2>2, <2>3 DEF Sound
<1>9. op' \in Seq(Operations) /\ OwnCounter'
  BY <1>2, <1>6, <1>7, <1>8, AppendKeeps DEF RuntimeInv
<1>10. TypeOK'
  <2>1. count' \in 0..(MaxCalls + 1) /\ started' \in Nat /\ index' \in Nat \ {0}
    <3>1. PICK m \in Nat : m = Cardinality(busy) /\ m <= n
      BY <1>3
    <3>2. count' \in 0..(MaxCalls + 1) /\ started' \in Nat
      <4>1. /\ count \in Nat /\ started \in Nat /\ MaxCalls \in Nat
            /\ count' = count + m /\ started' = started + m /\ count + n <= MaxCalls
        BY <1>2, <3>1, TypeFacts, LimitsAssumption DEF RuntimeInv
      <4>2. QED BY <1>1, <3>1, <4>1
    <3>3. QED BY <1>2, <1>4, <3>2
  <2>2. QED BY <1>2, <1>9, <2>1 DEF TypeOK
<1>11. QED BY <1>5, <1>9, <1>10 DEF RuntimeInv

LEMMA CallKeeps == ASSUME RuntimeInv, BeginCall PROVE RuntimeInv'
<1> DEFINE o == NewOp("call", 1, {1})
<1>1. /\ count < MaxCalls /\ count' = count + 1 /\ started' = started + 1 /\ index' = index
      /\ op' = Append(op, o) /\ pending' \in BOOLEAN /\ guest' \in Guest
  BY DEF BeginCall, Guest
<1>2. Counted'
  BY <1>1, TypeFacts, LimitsAssumption DEF RuntimeInv, Counted
<1>3. o \in Operations
  <2>1. {1} \in SUBSET First(1)
    BY WorkersFacts DEF First
  <2>2. QED BY <2>1, NewOpFacts
<1>4. o.alone => InFlight = {}
  BY DEF NewOp
<1>5. Sound(o, index')
  BY DEF Sound, NewOp
<1>6. op' \in Seq(Operations) /\ OwnCounter'
  BY <1>1, <1>3, <1>4, <1>5, AppendKeeps DEF RuntimeInv
<1>7. TypeOK'
  <2>1. count' \in 0..(MaxCalls + 1) /\ started' \in Nat
    BY <1>1, TypeFacts, LimitsAssumption DEF RuntimeInv
  <2>2. QED BY <1>1, <1>6, <2>1 DEF TypeOK, RuntimeInv
<1>8. QED BY <1>2, <1>6, <1>7 DEF RuntimeInv

-----------------------------------------------------------------------------
(* A step of a worker of operation k makes it x.  When the last operation  *)
(* began alone, k is the last one.                                         *)
LEMMA WorkerKeeps ==
  ASSUME TypeOK, OwnCounter, NEW k \in 1..Len(op), NEW w \in Workers, op[k].worker[w] # Idle,
         NEW x \in Operations, op' = [op EXCEPT ![k] = x], x.alone = op[k].alone,
         k = Len(op) /\ x.alone /\ x.base # "rejected" => op[k].base # "rejected" /\ Sound(x, index')
  PROVE  op' \in Seq(Operations) /\ OwnCounter'
<1>1. /\ op' \in Seq(Operations) /\ Len(op') = Len(op)
      /\ \A j \in 1..Len(op) : op'[j] = IF j = k THEN x ELSE op[j]
  BY TypeFacts, ExceptSeq
<1>2. Busy(op[k]) # {}
  BY DEF Busy
<1>3. op # << >>
  BY EmptySeq
<1>4. SUFFICES ASSUME Newest'.alone
               PROVE  /\ \A j \in 1..Len(op) : j # Len(op) => Busy(op'[j]) = {}
                      /\ Newest'.base # "rejected" => Sound(Newest', index')
  BY <1>1 DEF OwnCounter, Busy
<1>5. Newest' = IF Len(op) = k THEN x ELSE Newest
  BY <1>1, <1>3, TypeFacts DEF Newest
<1>6. Newest.alone
  BY <1>4, <1>5 DEF Newest
<1>7. k = Len(op)
  BY <1>2, <1>3, <1>6 DEF OwnCounter
<1>8. \A j \in 1..Len(op) : j # Len(op) => Busy(op'[j]) = {}
  BY <1>1, <1>3, <1>6, <1>7 DEF OwnCounter
<1>9. Newest' = x
  BY <1>5, <1>7
<1>10. QED BY <1>4, <1>7, <1>8, <1>9 DEF Sound, Busy

(* The steps of the workers leave the types and the count as they should.  *)
LEMMA SettlesTypes ==
  ASSUME RuntimeInv, NEW k \in 1..Len(op), NEW w \in Workers, Settles(k, w),
         op' \in Seq(Operations)
  PROVE  TypeOK' /\ Counted'
<1>1. /\ count \in 0..(MaxCalls + 1) /\ started \in Nat /\ index \in Nat \ {0}
      /\ pending \in BOOLEAN /\ guest \in Guest /\ Counted
  BY DEF RuntimeInv, TypeOK
<1>2. ASSUME NEW failed \in BOOLEAN, Stops(k, w, failed)
      PROVE  pending' \in BOOLEAN /\ guest' \in Guest
  BY <1>1, <1>2 DEF Stops, Answered, Guest
<1>3. TakesNumber(k) => index' \in Nat \ {0}
  BY <1>1 DEF TakesNumber
<1>4. ASSUME count' = count \/ (count >= MaxCalls /\ count' = Overrun)
      PROVE  count' \in 0..(MaxCalls + 1) /\ (started' = started => Counted')
  <2>1. count' \in 0..(MaxCalls + 1) /\ count <= count'
    BY <1>1, <1>4, LimitsAssumption DEF Overrun
  <2>2. QED BY <1>1, <2>1, LimitsAssumption DEF Counted
<1>5. CASE CallFails(k, w)
  BY <1>1, <1>2, <1>4, <1>5 DEF CallFails, TypeOK
<1>6. CASE LastCallDone(k, w)
  BY <1>1, <1>2, <1>3, <1>4, <1>6 DEF LastCallDone, TypeOK
<1>7. CASE NextRefused(k, w)
  BY <1>1, <1>2, <1>3, <1>4, <1>7 DEF NextRefused, TypeOK
<1>8. CASE NextCall(k, w)
  <2>1. count' \in 0..(MaxCalls + 1) /\ started' \in Nat /\ Counted'
    BY <1>1, <1>8, LimitsAssumption DEF NextCall, Counted
  <2>2. QED BY <1>1, <1>3, <1>8, <2>1 DEF NextCall, TypeOK
<1>9. QED BY <1>5, <1>6, <1>7, <1>8 DEF Settles

LEMMA StopsIsStopped ==
  ASSUME NEW k \in 1..Len(op), NEW w \in Workers, NEW failed \in BOOLEAN, Stops(k, w, failed)
  PROVE  op' = [op EXCEPT ![k] = Stopped(op[k], w, failed)]
BY DEF Stops, Stopped

LEMMA SettlesKeeps ==
  ASSUME RuntimeInv, NEW k \in 1..MaxOps, NEW w \in Workers, Settles(k, w)
  PROVE  RuntimeInv'
<1> DEFINE o == op[k]
<1>1. k \in 1..Len(op) /\ o.worker[w] # Idle
  BY DEF Settles, CallFails, LastCallDone, NextRefused, NextCall
<1>2. o \in Operations /\ TypeOK /\ OwnCounter /\ index \in Nat \ {0}
  BY <1>1, TypeFacts DEF RuntimeInv
<1>3. /\ o.size \in Nat \ {0} /\ o.times \in [1..o.size -> Nat] /\ Busy(o) # {}
      /\ o.base \in {"running", "resolved", "rejected"}
  BY <1>1, <1>2, OperationFacts DEF Busy
<1>4. k = Len(op) /\ o.alone /\ o.base # "rejected" => Sound(o, index) /\ o.base = "running"
  <2>1. op # << >>
    BY <1>1, EmptySeq
  <2>2. QED BY <1>2, <1>3, <2>1 DEF OwnCounter, Newest, Sound
<1>5. op' \in Seq(Operations) /\ OwnCounter'
  <2>1. CASE CallFails(k, w) \/ NextRefused(k, w)
    <3> DEFINE x == Stopped(o, w, TRUE)
    <3>1. op' = [op EXCEPT ![k] = x]
      BY <1>1, <2>1, StopsIsStopped DEF CallFails, NextRefused
    <3>2. x \in Operations /\ x.alone = o.alone /\ (x.base = "resolved" => o.base = "resolved")
      BY <1>2, StoppedFacts
    <3>3. x.base \in {"rejected", "resolved"}
      BY <1>2, <1>3 DEF Stopped, BaseAfter, Operations, Op
    <3> HIDE DEF x
    <3>4. ~(k = Len(op) /\ x.alone /\ x.base # "rejected")
      BY <1>3, <1>4, <3>2, <3>3
    <3>5. QED BY <1>1, <1>2, <3>1, <3>2, <3>4, WorkerKeeps
  <2>2. CASE LastCallDone(k, w)
    <3> DEFINE x == Stopped(o, w, FALSE)
    <3>1. op' = [op EXCEPT ![k] = x]
      BY <1>1, <2>2, StopsIsStopped DEF LastCallDone
    <3>2. /\ o.kind = "batch" => index > o.size /\ index' = index + 1
          /\ o.kind # "batch" => index' = index
      BY <2>2 DEF LastCallDone, TakesNumber
    <3>3. /\ x \in Operations /\ x.size = o.size /\ x.kind = o.kind /\ x.times = o.times
          /\ x.alone = o.alone /\ (o.base = "rejected" => x.base = "rejected")
          /\ x.base = "resolved" /\ o.base = "running" => Busy(x) = {}
      <4>1. x \in Operations /\ x.size = o.size /\ x.kind = o.kind /\ x.times = o.times
        BY <1>2, StoppedFacts
      <4>2. x.alone = o.alone
        BY <1>2, StoppedFacts
      <4>3. o.base = "rejected" => x.base = "rejected"
        BY <1>2 DEF Stopped, BaseAfter, Operations, Op
      <4>4. x.base = "resolved" /\ o.base = "running" => Busy(x) = {}
        BY <1>2, StoppedFacts
      <4>5. QED BY <4>1, <4>2, <4>3, <4>4
    <3>4. o.kind \in {"call", "batch"}
      BY <1>2, OperationFacts DEF Op
    <3> HIDE DEF x
    <3>5. ASSUME k = Len(op), x.alone, x.base # "rejected"
          PROVE  o.base # "rejected" /\ Sound(x, index')
      <4>1. Sound(o, index) /\ o.base = "running"
        BY <1>4, <3>3, <3>5
      <4>2. \A i \in 1..o.size : o.times[i] = 1
        BY <1>2, <1>3, <3>2, <3>4, <4>1 DEF Sound
      <4>3. \A i \in 1..o.size : o.kind = "call" \/ i < index'
        BY <1>2, <1>3, <3>2, <3>4
      <4>4. QED BY <3>3, <4>1, <4>2, <4>3 DEF Sound
    <3>6. QED BY <1>1, <1>2, <3>1, <3>3, <3>5, WorkerKeeps
  <2>3. CASE NextCall(k, w)
    <3> DEFINE x == Makes(o, w)
    <3>1. /\ op' = [op EXCEPT ![k] = x] /\ o.kind = "batch"
          /\ index <= o.size /\ index' = index + 1
      BY <2>3 DEF NextCall, TakesNumber
    <3>2. index \in 1..o.size
      BY <1>2, <1>3, <3>1
    <3>3. /\ x \in Operations /\ x.size = o.size /\ x.kind = o.kind /\ x.alone = o.alone
          /\ x.base = o.base /\ x.times = [o.times EXCEPT ![index] = @ + 1]
      BY <1>2, <3>2, MakesFacts
    <3> HIDE DEF x
    <3>4. ASSUME k = Len(op), x.alone, x.base # "rejected"
          PROVE  o.base # "rejected" /\ Sound(x, index')
      <4>1. Sound(o, index) /\ o.base = "running"
        BY <1>4, <3>3, <3>4
      <4>2. \A i \in 1..o.size : x.times[i] = IF i < index' THEN 1 ELSE 0
        BY <1>2, <1>3, <3>1, <3>2, <3>3, <4>1 DEF Sound
      <4>3. QED BY <3>1, <3>3, <4>1, <4>2 DEF Sound
    <3>5. QED BY <1>1, <1>2, <3>1, <3>3, <3>4, WorkerKeeps
  <2>4. QED BY <2>1, <2>2, <2>3 DEF Settles
<1>6. QED BY <1>1, <1>5, SettlesTypes DEF RuntimeInv

LEMMA RuntimeStep == ASSUME RuntimeInv, [Next]_vars PROVE RuntimeInv'
<1>1. CASE Refused
  <2>1. count' \in 0..(MaxCalls + 1) /\ count <= count'
    BY <1>1, LimitsAssumption DEF Refused, Overrun, RuntimeInv, TypeOK
  <2>2. UNCHANGED <<op, index, started>> /\ pending' \in BOOLEAN /\ guest' \in Guest
    BY <1>1 DEF Refused, RuntimeInv, TypeOK, Guest
  <2>3. QED BY <2>1, <2>2, GuestKeeps
<1>2. CASE End \/ Dispose \/ TimesOut \/ UNCHANGED vars
  <2>1. UNCHANGED <<op, index, started, count>> /\ pending' \in BOOLEAN /\ guest' \in Guest
    BY <1>2 DEF End, Dispose, TimesOut, Answered, vars, RuntimeInv, TypeOK, Guest
  <2>2. count' \in 0..(MaxCalls + 1) /\ count <= count'
    BY <2>1, LimitsAssumption DEF RuntimeInv, TypeOK
  <2>3. QED BY <2>1, <2>2, GuestKeeps
<1>3. QED BY <1>1, <1>2, BatchKeeps, CallKeeps, SettlesKeeps DEF Next

(* The types, the count and the shared counter, over every interleaving of *)
(* the guest, the workers of its batches and their timeouts.               *)
THEOREM RuntimeInvariant == Spec => []RuntimeInv
<1>1. Init => RuntimeInv
  BY RuntimeInit
<1>2. RuntimeInv /\ [Next]_vars => RuntimeInv'
  BY RuntimeStep
<1>3. QED BY <1>1, <1>2, PTL DEF Spec

(* The types are kept.                                                     *)
THEOREM RuntimeTypeCorrect == Spec => []TypeOK
BY RuntimeInvariant, PTL DEF RuntimeInv

(* No more tool calls go downstream than the limit of one execution,       *)
(* though batch() reserves nothing when it compares its size with it.      *)
THEOREM CallLimitKept == Spec => []LimitKept
<1>1. RuntimeInv => LimitKept
  BY DEF RuntimeInv, Counted, LimitKept
<1>2. QED BY <1>1, RuntimeInvariant, PTL

(* A batch that begins when nothing else is in flight, and resolves, has   *)
(* made each of its calls, and each once.                                  *)
THEOREM BatchWhole == Spec => []BatchWholeAlone
<1>1. RuntimeInv => BatchWholeAlone
  BY DEF RuntimeInv, OwnCounter, Sound, Newest, BatchWholeAlone, Alone, Whole
<1>2. QED BY <1>1, RuntimeInvariant, PTL

-----------------------------------------------------------------------------
(* What the maps of a registry say of one another, at time t.              *)

IsRegistry(r) ==
    /\ r = [next |-> r.next, target |-> r.target, handle |-> r.handle,
            expires |-> r.expires, slipped |-> r.slipped]
    /\ r.next \in Nat
    /\ \A h \in DOMAIN r.target : r.target[h] \in Keys
    /\ \A h \in DOMAIN r.expires : r.expires[h] \in Nat

(* Handles are numbered in turn, and each that leads somewhere has a time. *)
Numbered(r) ==
    /\ \A h \in DOMAIN r.target : h \in Nat /\ h < r.next /\ h \in DOMAIN r.expires
    /\ \A key \in DOMAIN r.handle : r.handle[key] \in Nat /\ r.handle[key] < r.next

Agreeing(r) ==
    \A key \in DOMAIN r.handle :
        /\ r.handle[key] \in DOMAIN r.target => r.target[r.handle[key]] = key
        /\ r.handle[key] \notin r.slipped => r.handle[key] \in DOMAIN r.target

NotBeyond(r, t) == \A h \in DOMAIN r.expires : r.expires[h] <= t + Ttl

RegistryOK(r, t) == IsRegistry(r) /\ Numbered(r) /\ Agreeing(r) /\ NotBeyond(r, t)

LEMMA NewRegistryFacts ==
  ASSUME NEW t
  PROVE  RegistryOK(NewRegistry, t) /\ DOMAIN NewRegistry.target = {}
BY DEF RegistryOK, IsRegistry, Numbered, Agreeing, NotBeyond, NewRegistry, Empty

(* A handle of s leads where it did in r and runs out when it did.         *)
NoMore(s, r) ==
    /\ s.next = r.next
    /\ \A h \in DOMAIN s.target : /\ h \in DOMAIN r.target /\ s.target[h] = r.target[h]
                                  /\ s.expires[h] = r.expires[h]

LEMMA CleanedUpFacts ==
  ASSUME NEW r, NEW t \in Nat, RegistryOK(r, t)
  PROVE  RegistryOK(CleanedUp(r, t), t) /\ NoMore(CleanedUp(r, t), r)
<1> DEFINE late == {h \in DOMAIN r.expires : t > r.expires[h]}
           gone == {r.target[h] : h \in late \cap DOMAIN r.target}
           c == CleanedUp(r, t)
<1>1. /\ c = [next |-> r.next, target |-> Without(r.target, late),
              handle |-> Without(r.handle, gone), expires |-> Without(r.expires, late),
              slipped |-> r.slipped]
  <2>1. c = [r EXCEPT !.handle = Without(r.handle, gone), !.target = Without(r.target, late),
                      !.expires = Without(r.expires, late)]
    BY DEF CleanedUp
  <2> HIDE DEF c, late, gone
  <2>2. QED BY <2>1 DEF RegistryOK, IsRegistry
<1>2. /\ c.next = r.next /\ c.slipped = r.slipped
      /\ DOMAIN c.target = DOMAIN r.target \ late
      /\ \A h \in DOMAIN c.target : c.target[h] = r.target[h]
      /\ DOMAIN c.handle = DOMAIN r.handle \ gone
      /\ \A key \in DOMAIN c.handle : c.handle[key] = r.handle[key]
      /\ DOMAIN c.expires = DOMAIN r.expires \ late
      /\ \A h \in DOMAIN c.expires : c.expires[h] = r.expires[h]
  <2>1. /\ c.next = r.next /\ c.slipped = r.slipped
        /\ c.target = Without(r.target, late) /\ c.handle = Without(r.handle, gone)
        /\ c.expires = Without(r.expires, late)
    BY <1>1
  <2> HIDE DEF c, late, gone
  <2>2. QED BY <2>1 DEF Without
<1> HIDE DEF c
<1>3. IsRegistry(c)
  BY <1>1, <1>2 DEF IsRegistry, RegistryOK
<1>4. Numbered(c) /\ NotBeyond(c, t)
  BY <1>2 DEF Numbered, NotBeyond, RegistryOK
<1>5. Agreeing(c)
  <2> SUFFICES ASSUME NEW key \in DOMAIN c.handle
               PROVE  /\ c.handle[key] \in DOMAIN c.target => c.target[c.handle[key]] = key
                      /\ c.handle[key] \notin c.slipped => c.handle[key] \in DOMAIN c.target
    BY DEF Agreeing
  <2> DEFINE h == c.handle[key]
  <2>1. key \in DOMAIN r.handle /\ h = r.handle[key] /\ key \notin gone
    BY <1>2
  <2>2. /\ h \in DOMAIN r.target => r.target[h] = key
        /\ h \notin r.slipped => h \in DOMAIN r.target
    BY <2>1 DEF Agreeing, RegistryOK
  <2>3. h \in DOMAIN r.target => h \notin late
    BY <2>1, <2>2
  <2>4. QED BY <1>2, <2>2, <2>3
<1>6. NoMore(c, r)
  BY <1>2, <1>4 DEF NoMore, Numbered
<1>7. QED BY <1>3, <1>4, <1>5, <1>6 DEF RegistryOK, c

(* What is given out leads to the tool it was asked for, or nowhere; what  *)
(* was given out before stays as it was.                                   *)
LEMMA RegisteredFacts ==
  ASSUME NEW r, NEW t \in Nat, NEW u \in Nat, t <= u, RegistryOK(r, t), NEW key \in Keys
  PROVE  LET h == Registered(r, key, t, u).handle
             s == Registered(r, key, t, u).registry
         IN  /\ RegistryOK(s, u)
             /\ h \in Nat /\ h < s.next /\ r.next <= s.next
             /\ h \in DOMAIN s.target => s.target[h] = key /\ s.expires[h] = u + Ttl
             /\ \A g \in DOMAIN s.target \ {h} : /\ g \in DOMAIN r.target
                                                 /\ s.target[g] = r.target[g]
                                                 /\ s.expires[g] = r.expires[g]
             /\ h < r.next /\ h \in DOMAIN s.target => h \in DOMAIN r.target /\ r.target[h] = key
<1> DEFINE c == CleanedUp(r, t)
           h == Registered(r, key, t, u).handle
           s == Registered(r, key, t, u).registry
<1>0. RegistryOK(c, t) /\ NoMore(c, r)
  BY CleanedUpFacts
<1>1. RegistryOK(c, u) /\ NoMore(c, r) /\ c.next = r.next /\ c.next \in Nat
  BY <1>0, TimesAssumption DEF NoMore, RegistryOK, NotBeyond, IsRegistry
<1>2. CASE key \in DOMAIN c.handle
  <2>1. h = c.handle[key] /\ s = [c EXCEPT !.expires = Assigned(c.expires, h, u + Ttl)]
    BY <1>2 DEF Registered
  <2> HIDE DEF c, h, s
  <2>2. /\ s = [next |-> c.next, target |-> c.target, handle |-> c.handle,
                expires |-> Assigned(c.expires, h, u + Ttl), slipped |-> c.slipped]
    BY <1>1, <2>1 DEF RegistryOK, IsRegistry
  <2>3. /\ s.next = c.next /\ s.target = c.target /\ s.handle = c.handle
        /\ s.slipped = c.slipped
        /\ DOMAIN s.expires = DOMAIN c.expires \cup {h}
        /\ s.expires[h] = u + Ttl
        /\ \A g \in DOMAIN c.expires \ {h} : s.expires[g] = c.expires[g]
    <3>1. /\ s.next = c.next /\ s.target = c.target /\ s.handle = c.handle
          /\ s.slipped = c.slipped /\ s.expires = Assigned(c.expires, h, u + Ttl)
      BY <2>2
    <3>2. QED BY <3>1 DEF Assigned
  <2>4. h \in Nat /\ h < c.next /\ (h \in DOMAIN c.target => c.target[h] = key)
    BY <1>1, <1>2, <2>1 DEF RegistryOK, Numbered, Agreeing
  <2>5. u + Ttl \in Nat
    BY TimesAssumption
  <2>6. IsRegistry(s)
    BY <1>1, <2>2, <2>3, <2>5 DEF RegistryOK, IsRegistry
  <2>7. Numbered(s) /\ Agreeing(s)
    BY <1>1, <2>3 DEF RegistryOK, Numbered, Agreeing
  <2>8. NotBeyond(s, u)
    BY <1>1, <2>3, <2>5 DEF RegistryOK, NotBeyond
  <2>9. \A g \in DOMAIN s.target \ {h} : /\ g \in DOMAIN r.target
                                         /\ s.target[g] = r.target[g]
                                         /\ s.expires[g] = r.expires[g]
    BY <1>1, <2>3 DEF NoMore, RegistryOK, Numbered
  <2>10. h \in DOMAIN s.target => h \in DOMAIN r.target /\ r.target[h] = key
    BY <1>1, <2>3, <2>4 DEF NoMore
  <2>11. QED BY <1>1, <2>3, <2>4, <2>6, <2>7, <2>8, <2>9, <2>10 DEF RegistryOK, h, s
<1>3. CASE key \notin DOMAIN c.handle
  <2>1. /\ h = c.next
        /\ s = [c EXCEPT !.next = c.next + 1,
                         !.target = Assigned(c.target, h, key),
                         !.handle = Assigned(c.handle, key, h),
                         !.expires = Assigned(c.expires, h, u + Ttl)]
    BY <1>3 DEF Registered
  <2> HIDE DEF c, h, s
  <2>2. /\ s = [next |-> c.next + 1, target |-> Assigned(c.target, h, key),
                handle |-> Assigned(c.handle, key, h),
                expires |-> Assigned(c.expires, h, u + Ttl), slipped |-> c.slipped]
    BY <1>1, <2>1 DEF RegistryOK, IsRegistry
  <2>3. /\ s.next = c.next + 1 /\ s.slipped = c.slipped
        /\ DOMAIN s.target = DOMAIN c.target \cup {h} /\ s.target[h] = key
        /\ \A g \in DOMAIN c.target \ {h} : s.target[g] = c.target[g]
        /\ DOMAIN s.handle = DOMAIN c.handle \cup {key} /\ s.handle[key] = h
        /\ \A k \in DOMAIN c.handle \ {key} : s.handle[k] = c.handle[k]
        /\ DOMAIN s.expires = DOMAIN c.expires \cup {h}
        /\ s.expires[h] = u + Ttl
        /\ \A g \in DOMAIN c.expires \ {h} : s.expires[g] = c.expires[g]
    <3>1. /\ s.next = c.next + 1 /\ s.slipped = c.slipped
          /\ s.target = Assigned(c.target, h, key) /\ s.handle = Assigned(c.handle, key, h)
          /\ s.expires = Assigned(c.expires, h, u + Ttl)
      BY <2>2
    <3>2. QED BY <3>1 DEF Assigned
  <2>4. h \notin DOMAIN c.target /\ h \in Nat /\ (\A k \in DOMAIN c.handle : c.handle[k] # h)
    BY <1>1, <2>1 DEF RegistryOK, Numbered
  <2>5. u + Ttl \in Nat
    BY TimesAssumption
  <2>6. IsRegistry(s)
    <3>1. s.next \in Nat
      BY <1>1, <2>3
    <3>2. \A g \in DOMAIN s.target : s.target[g] \in Keys
      BY <1>1, <2>3 DEF RegistryOK, IsRegistry
    <3>3. \A g \in DOMAIN s.expires : s.expires[g] \in Nat
      BY <1>1, <2>3, <2>5 DEF RegistryOK, IsRegistry
    <3>4. QED BY <2>2, <3>1, <3>2, <3>3 DEF IsRegistry
  <2>7. Numbered(s)
    <3>1. \A g \in DOMAIN s.target : g \in Nat /\ g < s.next /\ g \in DOMAIN s.expires
      BY <1>1, <2>1, <2>3, <2>4 DEF RegistryOK, Numbered
    <3>2. \A k \in DOMAIN s.handle : s.handle[k] \in Nat /\ s.handle[k] < s.next
      BY <1>1, <2>1, <2>3, <2>4 DEF RegistryOK, Numbered
    <3>3. QED BY <3>1, <3>2 DEF Numbered
  <2>8. Agreeing(s)
    <3> SUFFICES ASSUME NEW k \in DOMAIN s.handle
                 PROVE  /\ s.handle[k] \in DOMAIN s.target => s.target[s.handle[k]] = k
                        /\ s.handle[k] \notin s.slipped => s.handle[k] \in DOMAIN s.target
      BY DEF Agreeing
    <3>1. CASE k = key
      BY <2>3, <3>1
    <3>2. CASE k # key
      <4>1. k \in DOMAIN c.handle /\ s.handle[k] = c.handle[k] /\ c.handle[k] # h
        BY <2>3, <2>4, <3>2
      <4>2. /\ c.handle[k] \in DOMAIN c.target => c.target[c.handle[k]] = k
            /\ c.handle[k] \notin c.slipped => c.handle[k] \in DOMAIN c.target
        BY <1>1, <4>1 DEF RegistryOK, Agreeing
      <4>3. QED BY <2>3, <4>1, <4>2
    <3>3. QED BY <3>1, <3>2
  <2>9. NotBeyond(s, u)
    BY <1>1, <2>3, <2>5 DEF RegistryOK, NotBeyond
  <2>10. \A g \in DOMAIN s.target \ {h} : /\ g \in DOMAIN r.target
                                          /\ s.target[g] = r.target[g]
                                          /\ s.expires[g] = r.expires[g]
    BY <1>1, <2>3 DEF NoMore, RegistryOK, Numbered
  <2>11. h < s.next /\ r.next <= s.next /\ ~(h < r.next)
    BY <1>1, <2>1, <2>3
  <2>12. QED BY <2>3, <2>4, <2>6, <2>7, <2>8, <2>9, <2>10, <2>11 DEF RegistryOK, h, s
<1>4. QED BY <1>2, <1>3

LEMMA ResolvedFacts ==
  ASSUME NEW r, NEW t \in Nat, NEW u \in Nat, t <= u, RegistryOK(r, t), NEW h
  PROVE  RegistryOK(Resolved(r, h, t, u), u) /\ NoMore(Resolved(r, h, t, u), r)
<1> DEFINE c == CleanedUp(r, t)
           s == Resolved(r, h, t, u)
<1>1. RegistryOK(c, t) /\ NoMore(c, r)
  BY CleanedUpFacts
<1>2. RegistryOK(c, u)
  BY <1>1, TimesAssumption DEF RegistryOK, NotBeyond, IsRegistry
<1>3. CASE h \in DOMAIN c.expires /\ u > c.expires[h]
  <2>1. s = [c EXCEPT !.target = Without(c.target, {h}), !.expires = Without(c.expires, {h}),
                      !.slipped = c.slipped \cup {h}]
    BY <1>3 DEF Resolved
  <2> HIDE DEF c, s
  <2>2. s = [next |-> c.next, target |-> Without(c.target, {h}), handle |-> c.handle,
             expires |-> Without(c.expires, {h}), slipped |-> c.slipped \cup {h}]
    BY <1>1, <2>1 DEF RegistryOK, IsRegistry
  <2>3. /\ s.next = c.next /\ s.handle = c.handle /\ s.slipped = c.slipped \cup {h}
        /\ DOMAIN s.target = DOMAIN c.target \ {h}
        /\ \A g \in DOMAIN s.target : s.target[g] = c.target[g]
        /\ DOMAIN s.expires = DOMAIN c.expires \ {h}
        /\ \A g \in DOMAIN s.expires : s.expires[g] = c.expires[g]
    <3>1. /\ s.next = c.next /\ s.handle = c.handle /\ s.slipped = c.slipped \cup {h}
          /\ s.target = Without(c.target, {h}) /\ s.expires = Without(c.expires, {h})
      BY <2>2
    <3>2. QED BY <3>1 DEF Without
  <2>4. IsRegistry(s)
    BY <1>2, <2>2, <2>3 DEF RegistryOK, IsRegistry
  <2>5. Numbered(s) /\ Agreeing(s) /\ NotBeyond(s, u)
    BY <1>2, <2>3 DEF RegistryOK, Numbered, Agreeing, NotBeyond
  <2>6. NoMore(s, r)
    BY <1>1, <2>3, <2>5 DEF NoMore, Numbered
  <2>7. QED BY <2>4, <2>5, <2>6 DEF RegistryOK, s
<1>4. CASE ~(h \in DOMAIN c.expires /\ u > c.expires[h])
  <2>1. s = c
    BY <1>4 DEF Resolved
  <2>2. QED BY <1>1, <1>2, <2>1
<1>5. QED BY <1>3, <1>4

-----------------------------------------------------------------------------
(* Types.                                                                  *)

Outcomes == [key : Keys \cup RawKeys, ok : BOOLEAN]

Executions == [cards : SUBSET Tools, since : Nat, issued : SUBSET (Nat \X Keys)]

DiscoveryTypes ==
    /\ DiscoveryTypeOK
    /\ outcomes \in Seq(Outcomes)
    /\ run # NoRun => run \in Executions

(* What code was given is of the registry there is now; it ends in time;   *)
(* and its tools were disabled, if they are, after it began.               *)
RunInTime ==
    run # NoRun =>
        /\ run.since <= now /\ now <= run.since + RunLength
        /\ \A t \in run.cards : Key(t) \in Off => run.since <= disabled[Key(t)]

IssuedAgrees ==
    run # NoRun =>
        \A given \in run.issued :
            /\ given[1] < registry.next
            /\ given[1] \in DOMAIN registry.target => registry.target[given[1]] = given[2]

(* Handles to a disabled tool end with what was running, and a handle's    *)
(* life, when it was disabled.                                             *)
DisabledEnds ==
    \A h \in DOMAIN registry.target :
        registry.target[h] \in Off =>
            registry.expires[h] <= disabled[registry.target[h]] + RunLength + Ttl

DiscoveryInv ==
    DiscoveryTypes /\ RegistryOK(registry, now) /\ RunInTime /\ IssuedAgrees /\ DisabledEnds

(* The last n of a sequence are no more than n.                            *)
LEMMA LastOfFacts ==
  ASSUME NEW S, NEW s \in Seq(S), NEW n \in Nat
  PROVE  LastOf(s, n) \in Seq(S) /\ Len(LastOf(s, n)) <= n
<1> DEFINE later == Len(s) - n + 1
           first == Max({1, later})
<1>1. Len(s) \in Nat /\ later \in Int
  BY LenProperties
<1>2. LastOf(s, n) = SubSeq(s, first, Len(s)) /\ Len(s) < n + later
  BY <1>1 DEF LastOf
<1> HIDE DEF later
<1>3. first \in Int /\ 1 <= first /\ later <= first
  <2>1. \E x \in {1, later} : \A y \in {1, later} : x >= y
    BY <1>1
  <2>2. first \in {1, later} /\ \A y \in {1, later} : first >= y
    BY <2>1 DEF Max
  <2>3. QED BY <1>1, <2>2
<1> HIDE DEF first
<1>4. \A i \in first..Len(s) : s[i] \in S
  BY <1>1, <1>3, ElementOfSeq
<1>5. /\ SubSeq(s, first, Len(s)) \in Seq(S)
      /\ Len(SubSeq(s, first, Len(s))) = IF first <= Len(s) THEN Len(s) - first + 1 ELSE 0
  BY <1>1, <1>3, <1>4, SubSeqProperties
<1>6. (IF first <= Len(s) THEN Len(s) - first + 1 ELSE 0) <= n
  BY <1>1, <1>2, <1>3
<1>7. QED BY <1>2, <1>5, <1>6

LEMMA ExecutedFacts ==
  ASSUME outcomes \in Seq(Outcomes), NEW key \in Keys \cup RawKeys, Executed(key)
  PROVE  outcomes' \in Seq(Outcomes) /\ Len(outcomes') <= Recent
<1>1. PICK ok \in BOOLEAN :
        outcomes' = LastOf(Append(outcomes, [key |-> key, ok |-> ok]), Recent)
  BY DEF Executed
<1>2. Append(outcomes, [key |-> key, ok |-> ok]) \in Seq(Outcomes)
  BY AppendProperties DEF Outcomes
<1>3. QED BY <1>1, <1>2, LastOfFacts, TimesAssumption

LEMMA CatalogFacts ==
  /\ Catalog \subseteq Tools /\ WindowNow \subseteq Keys
  /\ \A t \in Tools : Key(t) \in Keys /\ Key(t)[1] \in Servers
  /\ \A t \in Catalog : Key(t) \notin Off
BY DEF Catalog, Listed, WindowNow, Keys, Servers, Key

LEMMA DiscoveryInitially ==
  ASSUME DiscoveryInit
  PROVE  DiscoveryInv
<1>1. DiscoveryTypes
  <2>1. PICK off \in SUBSET MayDisable : disabled = [key \in off |-> 0]
    BY DEF DiscoveryInit
  <2>2. Off = off /\ \A key \in Off : disabled[key] = 0
    BY <2>1 DEF Off
  <2>3. /\ outcomes \in Seq(Outcomes) /\ Len(outcomes) = 0 /\ run = NoRun /\ now = 0
        /\ mode \in Modes /\ withheld \subseteq MayWithhold /\ enabled = Servers
        /\ health = [s \in Servers |-> "unknown"] /\ window = WindowNow /\ hung \in BOOLEAN
    BY EmptySeq DEF DiscoveryInit
  <2>4. window \subseteq Keys
    BY <2>3, CatalogFacts
  <2>5. QED BY <2>1, <2>2, <2>3, <2>4, TimesAssumption DEF DiscoveryTypes, DiscoveryTypeOK
<1>2. RegistryOK(registry, now) /\ DisabledEnds
  BY NewRegistryFacts DEF DiscoveryInit, DisabledEnds
<1>3. QED BY <1>1, <1>2 DEF DiscoveryInit, DiscoveryInv, RunInTime, IssuedAgrees

-----------------------------------------------------------------------------
(* The types.                                                              *)
LEMMA DisabledChanges ==
  ASSUME DiscoveryTypes, NEW key \in MayDisable, Disable(key) \/ Reenable(key)
  PROVE  /\ DOMAIN disabled' \subseteq MayDisable
         /\ \A k \in DOMAIN disabled' : disabled'[k] \in 0..Lifetime
         /\ \A k \in DOMAIN disabled' : \/ k \in DOMAIN disabled /\ disabled'[k] = disabled[k]
                                        \/ disabled'[k] = now
<1>1. /\ DOMAIN disabled \subseteq MayDisable /\ now \in 0..Lifetime
      /\ \A k \in DOMAIN disabled : disabled[k] \in 0..Lifetime
  BY DEF DiscoveryTypes, DiscoveryTypeOK, Off
<1>2. CASE Disable(key)
  <2>1. disabled' = [k \in DOMAIN disabled \cup {key} |-> IF k = key THEN now ELSE disabled[k]]
    BY <1>2 DEF Disable, Assigned
  <2>2. QED BY <1>1, <2>1
<1>3. CASE Reenable(key)
  <2>1. disabled' = [k \in DOMAIN disabled \ {key} |-> disabled[k]]
    BY <1>3 DEF Reenable, Without
  <2>2. QED BY <1>1, <2>1
<1>4. QED BY <1>2, <1>3

(* What a step may do to the clock, and what the clock is read for.        *)
LEMMA CodeCallFacts ==
  ASSUME DiscoveryInv, NEW h, CodeCall(h)
  PROVE  /\ run # NoRun /\ now' \in Nat /\ now <= now' /\ now' <= Lifetime
         /\ now' <= run.since + RunLength
         /\ registry' = Resolved(registry, h, now, now')
         /\ RegistryOK(registry', now') /\ NoMore(registry', registry)
<1>1. now \in Nat /\ run # NoRun /\ run \in Executions
  BY DEF DiscoveryInv, DiscoveryTypes, DiscoveryTypeOK, CodeCall
<1> DEFINE end == run.since + RunLength
<1>2. PICK later \in {now, now + 1} :
        /\ later <= Min({Lifetime, end})
        /\ now' = later
        /\ registry' = Resolved(registry, h, now, later)
  BY DEF CodeCall
<1>3. Lifetime \in Int /\ end \in Int
  BY <1>1, TimesAssumption DEF Executions
<1> HIDE DEF end
<1>4. \E x \in {Lifetime, end} : \A y \in {Lifetime, end} : x =< y
  BY <1>3
<1>5. Min({Lifetime, end}) \in {Lifetime, end} /\ \A y \in {Lifetime, end} : Min({Lifetime, end}) =< y
  BY <1>4 DEF Min
<1>6. later <= Lifetime /\ later <= end /\ later \in Nat /\ now <= later
  BY <1>1, <1>2, <1>3, <1>5
<1>7. RegistryOK(registry', later) /\ NoMore(registry', registry)
  BY <1>1, <1>2, <1>6, ResolvedFacts DEF DiscoveryInv
<1>8. QED BY <1>1, <1>2, <1>6, <1>7 DEF end

LEMMA CalledFacts ==
  ASSUME DiscoveryInv, NEW h, CodeCall(h)
  PROVE  outcomes' \in Seq(Outcomes) /\ Len(outcomes') <= Recent
<1>1. outcomes \in Seq(Outcomes) /\ Len(outcomes) <= Recent
  BY DEF DiscoveryInv, DiscoveryTypes, DiscoveryTypeOK
<1>2. IsRegistry(registry') /\ registry' = Resolved(registry, h, now, now')
  BY CodeCallFacts DEF RegistryOK
<1>3. (\E g \in DOMAIN registry'.target : Executed(registry'.target[g])) \/ UNCHANGED outcomes
  BY <1>2 DEF CodeCall
<1>4. CASE UNCHANGED outcomes
  BY <1>1, <1>4
<1>5. CASE \E g \in DOMAIN registry'.target : Executed(registry'.target[g])
  <2>1. PICK g \in DOMAIN registry'.target : Executed(registry'.target[g])
    BY <1>5
  <2>2. registry'.target[g] \in Keys \cup RawKeys
    BY <1>2 DEF IsRegistry
  <2>3. QED BY <1>1, <2>1, <2>2, ExecutedFacts
<1>6. QED BY <1>3, <1>4, <1>5

LEMMA ShowFacts ==
  ASSUME DiscoveryInv, NEW t \in Tools, Show(t)
  PROVE  LET h == Registered(registry, Key(t), now, now').handle
         IN  /\ run # NoRun /\ run \in Executions /\ t \in run.cards
             /\ now' \in Nat /\ now <= now' /\ now' <= Lifetime
             /\ now' <= run.since + RunLength
             /\ run' = [cards |-> run.cards, since |-> run.since,
                        issued |-> run.issued \cup {<<h, Key(t)>>}]
             /\ registry' = Registered(registry, Key(t), now, now').registry
             /\ h \in Nat /\ Key(t) \in Keys
<1> DEFINE h == Registered(registry, Key(t), now, now').handle
           end == run.since + RunLength
<1>1. run # NoRun /\ run \in Executions /\ t \in run.cards /\ now \in Nat
  BY DEF Show, DiscoveryInv, DiscoveryTypes, DiscoveryTypeOK
<1>2. PICK later \in {now, now + 1} :
        /\ later <= Min({Lifetime, end})
        /\ now' = later
        /\ registry' = Registered(registry, Key(t), now, later).registry
        /\ run' = [run EXCEPT !.issued =
                     run.issued \cup {<<Registered(registry, Key(t), now, later).handle, Key(t)>>}]
  BY DEF Show
<1>3. Lifetime \in Int /\ end \in Int
  BY <1>1, TimesAssumption DEF Executions
<1> HIDE DEF end
<1>4. \E x \in {Lifetime, end} : \A y \in {Lifetime, end} : x =< y
  BY <1>3
<1>5. Min({Lifetime, end}) \in {Lifetime, end} /\ \A y \in {Lifetime, end} : Min({Lifetime, end}) =< y
  BY <1>4 DEF Min
<1>6. now' \in Nat /\ now <= now' /\ now' <= Lifetime /\ now' <= end
  BY <1>1, <1>2, <1>3, <1>5
<1>7. h \in Nat /\ Key(t) \in Keys
  BY <1>1, <1>6, RegisteredFacts, CatalogFacts DEF DiscoveryInv
<1>8. /\ run' = [run EXCEPT !.issued = run.issued \cup {<<h, Key(t)>>}]
      /\ registry' = Registered(registry, Key(t), now, now').registry
  BY <1>2
<1> HIDE DEF h
<1>9. run' = [cards |-> run.cards, since |-> run.since,
              issued |-> run.issued \cup {<<h, Key(t)>>}]
  BY <1>1, <1>8 DEF Executions
<1>10. QED BY <1>1, <1>6, <1>7, <1>8, <1>9 DEF h, end

LEMMA TypesStep ==
  ASSUME DiscoveryInv, DiscoveryNext
  PROVE  DiscoveryTypes'
<1>0. DiscoveryTypes
  BY DEF DiscoveryInv
<1> USE <1>0
<1>1. CASE Refresh
  BY <1>1, CatalogFacts DEF Refresh, DiscoveryTypes, DiscoveryTypeOK, config, code, Off
<1>2. CASE \E key \in Keys : CallVisible(key[2])
  <2>1. PICK key \in window : Executed(key)
    BY <1>2 DEF CallVisible
  <2>2. outcomes' \in Seq(Outcomes) /\ Len(outcomes') <= Recent
    BY <2>1, ExecutedFacts DEF DiscoveryTypes, DiscoveryTypeOK
  <2>3. QED BY <1>2, <2>2 DEF CallVisible, DiscoveryTypes, DiscoveryTypeOK, config, code, Off
<1>3. CASE \E key \in Keys \cup RawKeys : GatewayCall(key)
  <2>1. outcomes' \in Seq(Outcomes) /\ Len(outcomes') <= Recent
    BY <1>3, ExecutedFacts DEF GatewayCall, DiscoveryTypes, DiscoveryTypeOK
  <2>2. QED BY <1>3, <2>1 DEF GatewayCall, DiscoveryTypes, DiscoveryTypeOK, config, code, Off
<1>4. CASE SearchAndCall
  <2>1. PICK t \in Catalog : Executed(Key(t))
    BY <1>4 DEF SearchAndCall, Searched
  <2>2. outcomes' \in Seq(Outcomes) /\ Len(outcomes') <= Recent
    BY <2>1, ExecutedFacts, CatalogFacts DEF DiscoveryTypes
  <2>3. QED BY <1>4, <2>2 DEF SearchAndCall, DiscoveryTypes, DiscoveryTypeOK, config, code, Off
<1>5. CASE StartRun
  <2>1. run' = [cards |-> Catalog, since |-> now, issued |-> {}] /\ now \in Nat
    BY <1>5 DEF StartRun, DiscoveryTypes, DiscoveryTypeOK
  <2>2. run' \in Executions
    BY <2>1, CatalogFacts DEF Executions
  <2>3. QED BY <1>5, <2>2 DEF StartRun, DiscoveryTypes, DiscoveryTypeOK, config, Off, Executions
<1>6. CASE \E t \in Tools : Show(t)
  <2>1. PICK t \in Tools : Show(t)
    BY <1>6
  <2>2. run' \in Executions
    BY <2>1, ShowFacts DEF Executions
  <2>3. now' \in 0..Lifetime
    BY <2>1, ShowFacts, TimesAssumption
  <2>4. QED BY <2>1, <2>2, <2>3 DEF Show, DiscoveryTypes, DiscoveryTypeOK, config, Off, Executions
<1>7. CASE \E h \in 1..MaxHandles : CodeCall(h)
  <2>1. PICK h \in 1..MaxHandles : CodeCall(h)
    BY <1>7
  <2>2. now' \in 0..Lifetime
    BY <2>1, CodeCallFacts, TimesAssumption
  <2>3. outcomes' \in Seq(Outcomes) /\ Len(outcomes') <= Recent
    BY <2>1, CalledFacts
  <2>4. QED BY <2>1, <2>2, <2>3 DEF CodeCall, DiscoveryTypes, DiscoveryTypeOK, config, Off
<1>8. CASE EndRun
  BY <1>8 DEF EndRun, DiscoveryTypes, DiscoveryTypeOK, config, Off
<1>9. CASE StaleCopyStored
  BY <1>9 DEF StaleCopyStored, DiscoveryTypes, DiscoveryTypeOK, config, Off
<1>10. CASE \E key \in MayDisable : Disable(key) \/ Reenable(key)
  <2>1. PICK key \in MayDisable : Disable(key) \/ Reenable(key)
    BY <1>10
  <2>2. /\ DOMAIN disabled' \subseteq MayDisable
        /\ \A k \in DOMAIN disabled' : disabled'[k] \in 0..Lifetime
    BY <2>1, DisabledChanges
  <2>3. QED BY <2>1, <2>2 DEF Disable, Reenable, DiscoveryTypes, DiscoveryTypeOK, code, Off
<1>11. CASE \E t \in MayWithhold : Withhold(t) \/ RemoveOverride(t)
  BY <1>11 DEF Withhold, RemoveOverride, DiscoveryTypes, DiscoveryTypeOK, code, Off
<1>12. CASE \E s \in Servers : SwitchServer(s) \/ HealthChanges(s)
  BY <1>12 DEF SwitchServer, HealthChanges, DiscoveryTypes, DiscoveryTypeOK, code, Off
<1>13. CASE Tick
  <2>1. now' \in 0..Lifetime
    BY <1>13, TimesAssumption DEF Tick, DiscoveryTypes, DiscoveryTypeOK
  <2>2. QED BY <1>13, <2>1 DEF Tick, DiscoveryTypes, DiscoveryTypeOK, config, code, Off
<1>14. QED
  BY <1>1, <1>2, <1>3, <1>4, <1>5, <1>6, <1>7, <1>8, <1>9, <1>10, <1>11, <1>12, <1>13
     DEF DiscoveryNext

-----------------------------------------------------------------------------
(* What no step undoes.                                                    *)
Rest == RegistryOK(registry, now) /\ RunInTime /\ IssuedAgrees /\ DisabledEnds

LEMMA QuietSteps ==
  ASSUME DiscoveryInv, registry' = registry, now' = now, disabled' = disabled,
         run' = run \/ run' = NoRun
  PROVE  Rest'
BY DEF DiscoveryInv, Rest, RunInTime, IssuedAgrees, DisabledEnds, Off

LEMMA StartRunKeeps ==
  ASSUME DiscoveryInv, StartRun
  PROVE  Rest'
<1>1. /\ run' = [cards |-> Catalog, since |-> now, issued |-> {}] /\ run' # NoRun
      /\ now' = now /\ now \in Nat /\ disabled' = disabled
      /\ registry' = registry \/ registry' = NewRegistry
  BY DEF StartRun, DiscoveryInv, DiscoveryTypes, DiscoveryTypeOK, config, NoRun
<1>2. RunInTime'
  BY <1>1, CatalogFacts, TimesAssumption DEF RunInTime, Off
<1>3. IssuedAgrees'
  BY <1>1 DEF IssuedAgrees
<1>4. RegistryOK(registry', now') /\ DisabledEnds'
  BY <1>1, NewRegistryFacts DEF DiscoveryInv, DisabledEnds, Off
<1>5. QED BY <1>2, <1>3, <1>4 DEF Rest

LEMMA ShowKeeps ==
  ASSUME DiscoveryInv, NEW t \in Tools, Show(t)
  PROVE  Rest'
<1> DEFINE h == Registered(registry, Key(t), now, now').handle
           s == Registered(registry, Key(t), now, now').registry
<1>1. /\ run # NoRun /\ run \in Executions /\ t \in run.cards /\ run' # NoRun
      /\ run' = [cards |-> run.cards, since |-> run.since,
                 issued |-> run.issued \cup {<<h, Key(t)>>}]
      /\ registry' = s /\ h \in Nat /\ Key(t) \in Keys
      /\ now' \in Nat /\ now <= now' /\ now' <= run.since + RunLength
  BY ShowFacts DEF NoRun
<1>2. /\ now \in Nat /\ disabled' = disabled
      /\ \A key \in Off : disabled[key] \in Nat
  BY DEF Show, DiscoveryInv, DiscoveryTypes, DiscoveryTypeOK, config
<1>3. /\ RegistryOK(registry, now) /\ registry.next \in Nat
      /\ RunInTime /\ IssuedAgrees /\ DisabledEnds
  BY DEF DiscoveryInv, RegistryOK, IsRegistry
<1>4. /\ RegistryOK(s, now')
      /\ h < s.next /\ registry.next <= s.next
      /\ h \in DOMAIN s.target => s.target[h] = Key(t) /\ s.expires[h] = now' + Ttl
      /\ \A g \in DOMAIN s.target \ {h} : /\ g \in DOMAIN registry.target
                                          /\ s.target[g] = registry.target[g]
                                          /\ s.expires[g] = registry.expires[g]
      /\ h < registry.next /\ h \in DOMAIN s.target =>
            h \in DOMAIN registry.target /\ registry.target[h] = Key(t)
  BY <1>1, <1>2, <1>3, RegisteredFacts
<1> HIDE DEF h, s
<1>5. s.next \in Nat
  BY <1>4 DEF RegistryOK, IsRegistry
<1>6. RegistryOK(registry', now')
  BY <1>1, <1>2, <1>4
<1>7. RunInTime'
  <2>1. run'.cards = run.cards /\ run'.since = run.since
    BY <1>1
  <2>2. QED BY <1>1, <1>2, <1>3, <2>1 DEF RunInTime, Off, Executions
<1>8. IssuedAgrees'
  <2> SUFFICES ASSUME NEW given \in run'.issued
               PROVE  /\ given[1] < registry'.next
                      /\ given[1] \in DOMAIN registry'.target =>
                            registry'.target[given[1]] = given[2]
    BY DEF IssuedAgrees
  <2>1. CASE given = <<h, Key(t)>>
    BY <1>1, <1>4, <2>1
  <2>2. CASE given \in run.issued
    <3>1. /\ given[1] \in Nat /\ given[1] < registry.next
          /\ given[1] \in DOMAIN registry.target => registry.target[given[1]] = given[2]
      BY <1>1, <1>3, <2>2 DEF IssuedAgrees, Executions
    <3>2. given[1] < s.next
      BY <1>3, <1>4, <1>5, <3>1
    <3>3. CASE given[1] = h
      BY <1>1, <1>4, <3>1, <3>2, <3>3
    <3>4. CASE given[1] # h
      BY <1>1, <1>4, <3>1, <3>2, <3>4
    <3>5. QED BY <3>3, <3>4
  <2>3. QED BY <1>1, <2>1, <2>2
<1>9. DisabledEnds'
  <2> SUFFICES ASSUME NEW g \in DOMAIN s.target, s.target[g] \in Off
               PROVE  s.expires[g] <= disabled[s.target[g]] + RunLength + Ttl
    BY <1>1, <1>2 DEF DisabledEnds, Off
  <2>1. CASE g = h
    <3>1. s.target[g] = Key(t) /\ s.expires[g] = now' + Ttl /\ Key(t) \in Off
      BY <1>4, <2>1
    <3>2. run.since <= disabled[Key(t)] /\ now' <= run.since + RunLength
      BY <1>1, <1>3, <3>1 DEF RunInTime
    <3>3. run.since \in Nat /\ disabled[Key(t)] \in Nat
      BY <1>1, <1>2, <3>1 DEF Executions
    <3>4. QED BY <1>1, <3>1, <3>2, <3>3, TimesAssumption
  <2>2. CASE g # h
    BY <1>3, <1>4, <2>2 DEF DisabledEnds
  <2>3. QED BY <2>1, <2>2
<1>10. QED BY <1>6, <1>7, <1>8, <1>9 DEF Rest

LEMMA CodeCallKeeps ==
  ASSUME DiscoveryInv, NEW h, CodeCall(h)
  PROVE  Rest'
<1>1. /\ run # NoRun /\ now' \in Nat /\ now <= now' /\ now' <= run.since + RunLength
      /\ RegistryOK(registry', now') /\ NoMore(registry', registry)
  BY CodeCallFacts
<1>2. run' = run /\ disabled' = disabled /\ now \in Nat /\ run \in Executions
  BY <1>1 DEF CodeCall, config, DiscoveryInv, DiscoveryTypes, DiscoveryTypeOK
<1>3. RunInTime'
  BY <1>1, <1>2 DEF DiscoveryInv, RunInTime, Off, Executions
<1>4. IssuedAgrees' /\ DisabledEnds'
  BY <1>1, <1>2 DEF DiscoveryInv, IssuedAgrees, DisabledEnds, NoMore, Off
<1>5. QED BY <1>1, <1>3, <1>4 DEF Rest

LEMMA DisabledKeeps ==
  ASSUME DiscoveryInv, NEW key \in MayDisable, Disable(key) \/ Reenable(key)
  PROVE  Rest'
<1>1. registry' = registry /\ now' = now /\ run' = run /\ now \in Nat
  BY DEF Disable, Reenable, code, DiscoveryInv, DiscoveryTypes, DiscoveryTypeOK
<1>2. \A k \in DOMAIN disabled' : \/ k \in DOMAIN disabled /\ disabled'[k] = disabled[k]
                                  \/ disabled'[k] = now
  BY DisabledChanges DEF DiscoveryInv
<1>3. RunInTime'
  BY <1>1, <1>2 DEF DiscoveryInv, RunInTime, Off
<1>4. RegistryOK(registry, now) /\ DisabledEnds
  BY DEF DiscoveryInv
<1>5. DisabledEnds'
  <2> SUFFICES ASSUME NEW h \in DOMAIN registry.target, registry.target[h] \in DOMAIN disabled'
               PROVE  registry.expires[h] <= disabled'[registry.target[h]] + RunLength + Ttl
    BY <1>1 DEF DisabledEnds, Off
  <2>1. registry.expires[h] \in Nat /\ registry.expires[h] <= now + Ttl
    BY <1>4 DEF RegistryOK, IsRegistry, Numbered, NotBeyond
  <2>2. CASE disabled'[registry.target[h]] = now
    BY <1>1, <2>1, <2>2, TimesAssumption
  <2>3. CASE /\ registry.target[h] \in DOMAIN disabled
             /\ disabled'[registry.target[h]] = disabled[registry.target[h]]
    BY <1>4, <2>3 DEF DisabledEnds, Off
  <2>4. QED BY <1>2, <2>2, <2>3
<1>6. QED BY <1>1, <1>3, <1>4, <1>5 DEF Rest, DiscoveryInv, IssuedAgrees

LEMMA TickKeeps ==
  ASSUME DiscoveryInv, Tick
  PROVE  Rest'
<1>1. /\ registry' = registry /\ now' = now + 1 /\ run' = run /\ disabled' = disabled
      /\ now \in Nat /\ (run # NoRun => run \in Executions /\ now < run.since + RunLength)
  BY DEF Tick, code, config, DiscoveryInv, DiscoveryTypes, DiscoveryTypeOK
<1>2. RunInTime'
  BY <1>1, TimesAssumption DEF DiscoveryInv, RunInTime, Off, Executions
<1>3. RegistryOK(registry', now')
  BY <1>1, TimesAssumption DEF DiscoveryInv, RegistryOK, IsRegistry, NotBeyond
<1>4. QED BY <1>1, <1>2, <1>3 DEF Rest, DiscoveryInv, IssuedAgrees, DisabledEnds, Off

LEMMA DiscoveryStep ==
  ASSUME DiscoveryInv, [DiscoveryNext]_discoveryVars
  PROVE  DiscoveryInv'
<1>1. CASE DiscoveryNext
  <2>1. Rest'
    <3>1. CASE \/ Refresh \/ SearchAndCall \/ EndRun \/ StaleCopyStored
               \/ \E key \in Keys : CallVisible(key[2])
               \/ \E key \in Keys \cup RawKeys : GatewayCall(key)
      BY <3>1, QuietSteps DEF Refresh, SearchAndCall, EndRun, StaleCopyStored, CallVisible,
            GatewayCall, config, code
    <3>2. CASE \/ \E t \in MayWithhold : Withhold(t) \/ RemoveOverride(t)
               \/ \E s \in Servers : SwitchServer(s) \/ HealthChanges(s)
      BY <3>2, QuietSteps DEF Withhold, RemoveOverride, SwitchServer, HealthChanges, code
    <3>3. CASE StartRun
      BY <3>3, StartRunKeeps
    <3>4. CASE \E t \in Tools : Show(t)
      BY <3>4, ShowKeeps
    <3>5. CASE \E h \in 1..MaxHandles : CodeCall(h)
      BY <3>5, CodeCallKeeps
    <3>6. CASE \E key \in MayDisable : Disable(key) \/ Reenable(key)
      BY <3>6, DisabledKeeps
    <3>7. CASE Tick
      BY <3>7, TickKeeps
    <3>8. QED
      BY <1>1, <3>1, <3>2, <3>3, <3>4, <3>5, <3>6, <3>7 DEF DiscoveryNext
  <2>2. QED BY <1>1, <2>1, TypesStep DEF Rest, DiscoveryInv
<1>2. CASE UNCHANGED discoveryVars
  BY <1>2 DEF discoveryVars, config, code, DiscoveryInv, DiscoveryTypes, DiscoveryTypeOK,
        RunInTime, IssuedAgrees, DisabledEnds, Off
<1>3. QED BY <1>1, <1>2

-----------------------------------------------------------------------------
(* The type invariant, with what the maps of a registry say of one another *)
(* and of the handles that code was given.                                 *)
THEOREM DiscoveryInvariant == DiscoverySpec => []DiscoveryInv
BY DiscoveryInitially, DiscoveryStep, PTL DEF DiscoverySpec

(* The session, its window and its handles are what Discovery says they    *)
(* are.                                                                    *)
THEOREM DiscoveryTypeCorrect == DiscoverySpec => []DiscoveryTypeOK
<1>1. DiscoveryInv => DiscoveryTypeOK
  BY DEF DiscoveryInv, DiscoveryTypes
<1>2. QED BY <1>1, DiscoveryInvariant, PTL

(* While code runs, a handle it was given leads to the tool it was given   *)
(* for, or nowhere (handle-registry.ts), for any life of handles and       *)
(* however often register(), resolve() and cleanupExpired() run in between.*)
THEOREM HandlesMeanOne == DiscoverySpec => []HandleMeansOne
<1>1. DiscoveryInv => HandleMeansOne
  BY DEF DiscoveryInv, IssuedAgrees, HandleMeansOne
<1>2. QED BY <1>1, DiscoveryInvariant, PTL

(* What register() would give out again for a tool leads to that tool,     *)
(* unless resolve() caught it running out between its two clock reads: the *)
(* three maps of HandleRegistry never come apart in another way.           *)
THEOREM MapsAlwaysAgree == DiscoverySpec => []MapsAgree
<1>1. DiscoveryInv => MapsAgree
  BY DEF DiscoveryInv, RegistryOK, Agreeing, MapsAgree
<1>2. QED BY <1>1, DiscoveryInvariant, PTL

(* A disabled tool can be called through a handle no longer than an        *)
(* execution and a handle last together, although mcp-api.ts does not ask  *)
(* disabledTools again: a catalogue is read when the execution begins, and *)
(* nothing after it makes a new handle.                                    *)
THEOREM DisabledToolsRunOut == DiscoverySpec => []DisabledRunsOut
<1>1. ASSUME DiscoveryInv
      PROVE  DisabledRunsOut
  <2> SUFFICES ASSUME NEW h \in DOMAIN registry.target, registry.target[h] \in Off,
                      now <= registry.expires[h]
               PROVE  now - disabled[registry.target[h]] <= RunLength + Ttl
    BY DEF DisabledRunsOut
  <2>1. registry.expires[h] <= disabled[registry.target[h]] + RunLength + Ttl
    BY <1>1 DEF DiscoveryInv, DisabledEnds
  <2>2. /\ disabled[registry.target[h]] \in Nat /\ now \in Nat
        /\ registry.expires[h] \in Nat
    BY <1>1 DEF DiscoveryInv, DiscoveryTypes, DiscoveryTypeOK, RegistryOK, IsRegistry, Numbered
  <2>3. QED BY <2>1, <2>2, TimesAssumption
<1>2. QED BY <1>1, DiscoveryInvariant, PTL-----------------------------------------------------------------------------
(* Places in an order, for the ranking and for the places of a window.     *)

LEMMA SmallestOfTwo ==
  ASSUME NEW a \in Int, NEW b \in Int
  PROVE  Min({a, b}) = IF a <= b THEN a ELSE b
<1>1. \E x \in {a, b} : \A y \in {a, b} : x <= y
  OBVIOUS
<1>2. Min({a, b}) \in {a, b} /\ \A y \in {a, b} : Min({a, b}) <= y
  BY <1>1 DEF Min
<1>3. QED BY <1>2

(* A non-empty set of numbers has a least one, by the order of the         *)
(* intervals 1..y under inclusion.                                         *)
LEMMA LeastExists ==
  ASSUME NEW S, S \subseteq Nat, S # {}
  PROVE  Min(S) \in S /\ \A y \in S : Min(S) <= y
<1> DEFINE intervals == {1..y : y \in S}
<1>1. intervals \subseteq FiniteSubsetsOf(Nat)
  <2>1. \A y \in S : IsFiniteSet(1..y) /\ 1..y \in SUBSET Nat
    BY FS_Interval
  <2>2. QED BY <2>1 DEF FiniteSubsetsOf
<1>2. intervals # {}
  OBVIOUS
<1> HIDE DEF intervals
<1>3. PICK i \in intervals : \A j \in intervals : ~ (<<j, i>> \in StrictSubsetOrdering(Nat))
  BY <1>1, <1>2, FS_StrictSubsetOrderingWellFounded, WFMin
<1>4. PICK x \in S : i = 1..x
  BY DEF intervals
<1>5. ASSUME NEW y \in S, y < x
      PROVE  FALSE
  <2>1. 1..y \subseteq 1..x /\ 1..y # 1..x
    <3>1. x \in 1..x /\ x \notin 1..y
      BY <1>5
    <3>2. QED BY <3>1, <1>5
  <2>2. 1..y \in SUBSET Nat /\ 1..x \in SUBSET Nat
    OBVIOUS
  <2>3. <<1..y, 1..x>> \in StrictSubsetOrdering(Nat)
    BY <2>1, <2>2 DEF StrictSubsetOrdering
  <2>4. QED BY <1>3, <1>4, <2>3 DEF intervals
<1>6. \A y \in S : x <= y
  BY <1>5
<1>7. QED BY <1>6 DEF Min

(* In a finite set with a strict total order each place, counted by how    *)
(* many members precede it, is taken by exactly one member.                *)
LEMMA PlacesFilled ==
  ASSUME NEW S, IsFiniteSet(S), NEW R,
         \A x \in S : <<x, x>> \notin R,
         \A x, y, z \in S : <<x, y>> \in R /\ <<y, z>> \in R => <<x, z>> \in R,
         \A x, y \in S : x # y => <<x, y>> \in R \/ <<y, x>> \in R
  PROVE  /\ \A x \in S : Cardinality(SetLessThan(x, R, S)) \in 0..(Cardinality(S) - 1)
         /\ \A x, y \in S :
               Cardinality(SetLessThan(x, R, S)) = Cardinality(SetLessThan(y, R, S)) => x = y
         /\ \A k \in 0..(Cardinality(S) - 1) :
               \E x \in S : Cardinality(SetLessThan(x, R, S)) = k
<1> DEFINE before(x) == SetLessThan(x, R, S)
           n == Cardinality(S)
           place == [x \in S |-> Cardinality(before(x))]
<1>1. n \in Nat
  BY FS_CardinalityType
<1>2. ASSUME NEW x \in S
      PROVE  IsFiniteSet(before(x)) /\ Cardinality(before(x)) \in 0..(n - 1)
  <2>1. before(x) \in SUBSET S /\ before(x) # S
    BY DEF SetLessThan
  <2>2. IsFiniteSet(before(x)) /\ Cardinality(before(x)) <= n /\ Cardinality(before(x)) # n
    BY <2>1, FS_Subset
  <2>3. QED BY <2>2, <1>1, FS_CardinalityType
<1>3. ASSUME NEW x \in S, NEW y \in S, <<x, y>> \in R
      PROVE  Cardinality(before(x)) < Cardinality(before(y))
  <2>1. before(x) \in SUBSET before(y) /\ before(x) # before(y)
    BY <1>3 DEF SetLessThan
  <2>2. IsFiniteSet(before(y)) /\ IsFiniteSet(before(x))
    BY <1>2
  <2>3. Cardinality(before(x)) <= Cardinality(before(y))
        /\ Cardinality(before(x)) # Cardinality(before(y))
    BY <2>1, <2>2, FS_Subset
  <2>4. QED BY <2>2, <2>3, FS_CardinalityType
<1>4. ASSUME NEW x \in S, NEW y \in S, Cardinality(before(x)) = Cardinality(before(y))
      PROVE  x = y
  <2> SUFFICES ASSUME x # y PROVE FALSE
    OBVIOUS
  <2>1. <<x, y>> \in R \/ <<y, x>> \in R
    OBVIOUS
  <2>2. Cardinality(before(x)) \in 0..(n - 1) /\ Cardinality(before(y)) \in 0..(n - 1)
    BY <1>2
  <2> HIDE DEF before, n
  <2>3. QED BY <1>1, <1>3, <1>4, <2>1, <2>2
<1> HIDE DEF before, n
<1>5. place \in Injection(S, 0..(n - 1))
  BY <1>2, <1>4 DEF Injection, IsInjective
<1>6. IsFiniteSet(0..(n - 1)) /\ Cardinality(0..(n - 1)) = n
  <2> HIDE DEF n
  <2>1. n - 1 \in Int /\ 0 \in Int /\ (0 > n - 1 => n = 0)
    BY <1>1
  <2>2. QED BY <2>1, <1>1, FS_Interval
<1>7. place \in Surjection(S, 0..(n - 1))
  <2> HIDE DEF place
  <2>1. QED BY <1>5, <1>6, FS_Injection DEF n
<1>8. \A k \in 0..(n - 1) : \E x \in S : place[x] = k
  BY <1>7 DEF Surjection
<1>9. QED BY <1>2, <1>4, <1>8 DEF before, n

-----------------------------------------------------------------------------
(* Rankings.                                                               *)

Entries == [tool : Tools, pos : Nat, score : Int]

(* Entries of different tools.                                             *)
IsRanking(r) ==
    /\ r \in Seq(Entries)
    /\ \A i, j \in DOMAIN r : r[i].tool = r[j].tool => i = j

(* Entries at different places of the retrieval order are put in a         *)
(* sequence that has each of them once.                                    *)
LEMMA SortedFacts ==
  ASSUME NEW S, IsFiniteSet(S), S \subseteq Entries,
         \A a, b \in S : a.pos = b.pos => a = b
  PROVE  Sorted(S) \in [1..Cardinality(S) -> S] /\ IsInjective(Sorted(S))
<1> DEFINE R == {p \in S \X S : Before(p[1], p[2])}
           n == Cardinality(S)
<1>1. \A a, b \in S : <<a, b>> \in R <=> Before(a, b)
  OBVIOUS
<1>2. \A a \in S : /\ a.score \in Int /\ a.pos \in Nat /\ Card[a.tool].ord \in Nat
  BY SelectionAssumption DEF Entries
<1>3. \A a \in S : ~Before(a, a)
  BY <1>2 DEF Before
<1>4. \A a, b, c \in S : Before(a, b) /\ Before(b, c) => Before(a, c)
  BY <1>2 DEF Before
<1>5. \A a, b \in S : a # b => Before(a, b) \/ Before(b, a)
  BY <1>2 DEF Before
<1> HIDE DEF R
<1>6. \A k \in 0..(n - 1) : \E x \in S : Cardinality(SetLessThan(x, R, S)) = k
  <2>1. /\ \A x \in S : <<x, x>> \notin R
        /\ \A x, y, z \in S : <<x, y>> \in R /\ <<y, z>> \in R => <<x, z>> \in R
        /\ \A x, y \in S : x # y => <<x, y>> \in R \/ <<y, x>> \in R
    BY <1>1, <1>3, <1>4, <1>5
  <2>2. QED BY <2>1, PlacesFilled
<1>7. \A x \in S : SetLessThan(x, R, S) = {y \in S : Before(y, x)}
  BY <1>1 DEF SetLessThan
<1>8. n \in Nat
  BY FS_CardinalityType
<1> DEFINE place(x) == Cardinality({d \in S : Before(d, x)})
           at(i) == CHOOSE e \in S : place(e) = i - 1
<1>9. Sorted(S) = [i \in 1..n |-> at(i)]
  BY DEF Sorted
<1>10. \A k \in 0..(n - 1) : \E x \in S : place(x) = k
  BY <1>6, <1>7
<1> HIDE DEF place, n
<1>11. ASSUME NEW i \in 1..n
       PROVE  at(i) \in S /\ place(at(i)) = i - 1
  <2>1. i - 1 \in 0..(n - 1)
    BY <1>8
  <2>2. \E e \in S : place(e) = i - 1
    BY <2>1, <1>10
  <2>3. QED BY <2>2
<1> HIDE DEF at
<1>12. ASSUME NEW i \in 1..n, NEW j \in 1..n, at(i) = at(j)
       PROVE  i = j
  <2>1. i - 1 = j - 1
    BY <1>11, <1>12
  <2>2. QED BY <2>1, <1>8
<1>13. Sorted(S) \in [1..n -> S] /\ IsInjective(Sorted(S))
  BY <1>9, <1>11, <1>12 DEF IsInjective
<1>14. QED BY <1>13 DEF n

(* The score of a tool in the pool is a number.                            *)
LEMMA ScoresAreNumbers ==
  ASSUME NEW t, NEW hs, NEW os, IsFiniteSet(DOMAIN os), NEW dominant
  PROVE  /\ TrustBonus(t) \in Int /\ HealthPenalty(t, hs) \in Int
         /\ FailurePenalty(t, os) \in Int /\ ModePenalty(t) \in Int
         /\ FocusBonus(t, dominant) \in Int
<1>1. FailurePenalty(t, os) \in Int
  <2> DEFINE failed == {i \in DOMAIN os : os[i].key = Key(t) /\ ~os[i].ok}
  <2>1. Cardinality(failed) \in Nat
    <3>1. failed \in SUBSET DOMAIN os
      OBVIOUS
    <3>2. QED BY <3>1, FS_Subset, FS_CardinalityType
  <2>2. FailurePenalty(t, os) = Min({24, 8 * Cardinality(failed)})
    BY DEF FailurePenalty
  <2> HIDE DEF failed
  <2>3. QED BY <2>1, <2>2, SmallestOfTwo
<1>2. QED BY <1>1, SelectionAssumption DEF TrustBonus, HealthPenalty, ModePenalty, FocusBonus

(* As many entries as places, if each place has an entry of its own.       *)
LEMMA EntriesOf ==
  ASSUME NEW n \in Nat, NEW f, f \in [1..n -> Entries], \A i \in 1..n : f[i].pos = i
  PROVE  LET S == {f[i] : i \in 1..n}
         IN  /\ IsFiniteSet(S) /\ Cardinality(S) = n /\ S \subseteq Entries
             /\ \A a, b \in S : a.pos = b.pos => a = b
<1> DEFINE S == {f[i] : i \in 1..n}
<1>1. \A i, j \in 1..n : f[i] = f[j] => i = j
  OBVIOUS
<1>2. f \in Bijection(1..n, S)
  BY <1>1 DEF Bijection, Injection, Surjection, IsInjective
<1>3. IsFiniteSet(1..n) /\ Cardinality(1..n) = n
  BY FS_Interval
<1>4. ExistsBijection(1..n, S)
  BY <1>2 DEF ExistsBijection
<1>5. IsFiniteSet(S) /\ Cardinality(S) = n
  <2> HIDE DEF S
  <2>1. QED BY <1>3, <1>4, FS_Bijection
<1>6. QED BY <1>5

(* A reranked pool is a ranking.                                           *)
LEMMA RerankedFacts ==
  ASSUME NEW pool \in Seq(Tools), IsInjective(pool), NEW signal \in BOOLEAN, NEW hs,
         NEW os, IsFiniteSet(DOMAIN os)
  PROVE  IsRanking(Reranked(pool, signal, hs, os))
<1> DEFINE n == Len(pool)
           dominant == Dominant(os)
           score(i) == (IF signal THEN 4 * (n - i + 1) ELSE 0)
                       + TrustBonus(pool[i]) - HealthPenalty(pool[i], hs)
                       - FailurePenalty(pool[i], os) - ModePenalty(pool[i])
                       + FocusBonus(pool[i], dominant)
           f == [i \in 1..n |-> [tool |-> pool[i], pos |-> i, score |-> score(i)]]
           scored == {[tool |-> pool[i], pos |-> i, score |-> score(i)] : i \in 1..n}
           first == Sorted(scored)
           redundant(i) == \E j \in 1..(i - 1) :
                              Card[first[j].tool].family = Card[first[i].tool].family
           g == [i \in 1..n |-> [tool |-> first[i].tool, pos |-> i,
                                 score |-> first[i].score - (IF redundant(i) THEN 4 ELSE 0)]]
           again == {[tool |-> first[i].tool, pos |-> i,
                      score |-> first[i].score - (IF redundant(i) THEN 4 ELSE 0)] : i \in 1..n}
<1>1. n \in Nat /\ pool \in [1..n -> Tools] /\ \A i, j \in 1..n : pool[i] = pool[j] => i = j
  BY DEF IsInjective
<1>2. \A i \in 1..n : score(i) \in Int
  BY <1>1, ScoresAreNumbers
<1>3. Reranked(pool, signal, hs, os) = Sorted(again)
  BY DEF Reranked
<1> HIDE DEF score
<1>4. f \in [1..n -> Entries] /\ \A i \in 1..n : f[i].pos = i /\ f[i].tool = pool[i]
  BY <1>1, <1>2 DEF Entries
<1>scored. scored = {f[i] : i \in 1..n}
  OBVIOUS
<1> HIDE DEF f
<1>5. first \in [1..n -> scored] /\ IsInjective(first)
  <2> HIDE DEF n
  <2>1. /\ IsFiniteSet(scored) /\ Cardinality(scored) = n /\ scored \subseteq Entries
        /\ \A a, b \in scored : a.pos = b.pos => a = b
    <3> HIDE DEF scored
    <3>1. QED BY <1>1, <1>4, <1>scored, EntriesOf
  <2> HIDE DEF scored
  <2>2. QED BY <2>1, SortedFacts
<1>6. /\ \A i \in 1..n : first[i] \in Entries
      /\ \A i, j \in 1..n : first[i].tool = first[j].tool => i = j
  <2> HIDE DEF scored, first
  <2>1. \A a \in scored : a \in Entries
    BY <1>4, <1>scored
  <2>2. \A a, b \in scored : a.tool = b.tool => a = b
    BY <1>1, <1>4, <1>scored
  <2>3. QED BY <1>5, <2>1, <2>2 DEF IsInjective
<1> HIDE DEF first, redundant
<1>again. again = {g[i] : i \in 1..n}
  OBVIOUS
<1>7. g \in [1..n -> Entries] /\ \A i \in 1..n : g[i].pos = i /\ g[i].tool = first[i].tool
  BY <1>6 DEF Entries
<1> HIDE DEF g
<1>8. Sorted(again) \in [1..n -> again] /\ IsInjective(Sorted(again))
  <2> HIDE DEF n
  <2>1. /\ IsFiniteSet(again) /\ Cardinality(again) = n /\ again \subseteq Entries
        /\ \A a, b \in again : a.pos = b.pos => a = b
    <3> HIDE DEF again
    <3>1. QED BY <1>1, <1>7, <1>again, EntriesOf
  <2> HIDE DEF again
  <2>2. QED BY <2>1, SortedFacts
<1> DEFINE r == Sorted(again)
<1> HIDE DEF again
<1>9. \A a, b \in again : a.tool = b.tool => a = b
  BY <1>6, <1>7, <1>again
<1>10. \A a \in again : a \in Entries
  BY <1>7, <1>again
<1>11. r \in Seq(Entries) /\ DOMAIN r = 1..n
  <2>1. r \in [1..n -> Entries]
    BY <1>8, <1>10
  <2> HIDE DEF r, n
  <2>2. QED BY <1>1, <2>1
<1>12. \A i, j \in DOMAIN r : r[i].tool = r[j].tool => i = j
  <2> HIDE DEF n
  <2>1. QED BY <1>8, <1>9 DEF IsInjective
<1>13. QED BY <1>3, <1>11, <1>12 DEF IsRanking

-----------------------------------------------------------------------------
(* The published window.                                                   *)

LEMMA ScoreFacts ==
  ASSUME NEW r, IsRanking(r), NEW i \in DOMAIN r
  PROVE  ScoreOf(r, r[i].tool) = r[i].score /\ r[i].score \in Int /\ r[i].tool \in Tools
<1>1. r \in [1..Len(r) -> Entries]
  BY DEF IsRanking
<1>2. \A e \in ToSet(r) : e.tool = r[i].tool => e = r[i]
  BY DEF ToSet, IsRanking
<1>3. r[i] \in ToSet(r) /\ r[i].tool = r[i].tool
  BY DEF ToSet
<1>4. (CHOOSE e \in ToSet(r) : e.tool = r[i].tool) = r[i]
  BY <1>2, <1>3
<1>5. QED BY <1>1, <1>4 DEF ScoreOf, Entries

LEMMA RankedToolsFacts ==
  ASSUME NEW r, IsRanking(r)
  PROVE  \A t : t \in RankedTools(r) <=> \E i \in DOMAIN r : r[i].tool = t
BY DEF RankedTools, ToSet

(* A place goes to the tool ranked there, if it is in the window already   *)
(* or clearly better than all it could displace, or to a displaced one     *)
(* that has no place yet.                                                  *)
LEMMA ChoiceFacts ==
  ASSUME NEW r, NEW n, NEW current \in Seq(Tools), NEW chosen, NEW i
  PROVE  \/ /\ Choice(r, n, current, chosen, i) = r[i].tool
            /\ \/ r[i].tool \in ToSet(current)
               \/ \A k \in Displaced(r, n, current) :
                     \/ current[k] \in ToSet(chosen)
                     \/ ~(r[i].score - ScoreOf(r, current[k]) < StabilityThreshold)
         \/ /\ r[i].tool \notin ToSet(current)
            /\ \E k \in Displaced(r, n, current) :
                  /\ Choice(r, n, current, chosen, i) = current[k]
                  /\ current[k] \notin ToSet(chosen)
<1> DEFINE keeps == {k \in Displaced(r, n, current) :
                       /\ current[k] \notin ToSet(chosen)
                       /\ r[i].score - ScoreOf(r, current[k]) < StabilityThreshold}
<1>1. Choice(r, n, current, chosen, i)
        = IF r[i].tool \in ToSet(current) \/ keeps = {} THEN r[i].tool ELSE current[Min(keeps)]
  BY DEF Choice
<1>2. keeps \subseteq Nat
  BY DEF Displaced
<1>3. CASE r[i].tool \in ToSet(current)
  BY <1>1, <1>3
<1>4. CASE keeps = {}
  <2>1. Choice(r, n, current, chosen, i) = r[i].tool
    BY <1>1, <1>4
  <2>2. \A k \in Displaced(r, n, current) :
           \/ current[k] \in ToSet(chosen)
           \/ ~(r[i].score - ScoreOf(r, current[k]) < StabilityThreshold)
    BY <1>4
  <2>3. QED BY <2>1, <2>2
<1>5. CASE r[i].tool \notin ToSet(current) /\ keeps # {}
  <2>1. Choice(r, n, current, chosen, i) = current[Min(keeps)]
    BY <1>1, <1>5
  <2>2. Min(keeps) \in keeps
    <3> HIDE DEF keeps
    <3>1. QED BY <1>2, <1>5, LeastExists
  <2>3. QED BY <1>5, <2>1, <2>2
<1>6. QED BY <1>3, <1>4, <1>5

(* The recursive function of Selected exists, and its value is a sequence  *)
(* of choices, each made knowing those before it.                          *)
Begun(c, i) == [j \in 1..i |-> c[j]]

Recursion(r, n, current, f, m) ==
    f = [i \in 0..m |-> IF i = 0 THEN <<>>
                        ELSE Append(f[i - 1], Choice(r, n, current, f[i - 1], i))]

Picks(r, n, current, f) == [i \in 1..n |-> Choice(r, n, current, f[i - 1], i)]

LEMMA RecursionExists ==
  ASSUME NEW r, NEW n \in Nat, NEW current
  PROVE  \A m \in Nat : \E f : Recursion(r, n, current, f, m)
<1> DEFINE Bad == {m \in Nat : ~ \E f : Recursion(r, n, current, f, m)}
<1> SUFFICES ASSUME Bad # {} PROVE FALSE
  OBVIOUS
<1>1. Bad \subseteq Nat
  OBVIOUS
<1> DEFINE m == Min(Bad)
<1>2. m \in Bad /\ \A k \in Bad : m <= k
  <2> HIDE DEF Bad
  <2>1. QED BY <1>1, LeastExists
<1>3. m \in Nat /\ ~ \E f : Recursion(r, n, current, f, m)
  BY <1>2
<1>4. \A k \in Nat : k < m => \E f : Recursion(r, n, current, f, k)
  BY <1>2, <1>3
<1> HIDE DEF m, Bad
<1>5. CASE m = 0
  <2> DEFINE f == [i \in 0..0 |-> <<>>]
  <2>1. Recursion(r, n, current, f, 0)
    BY DEF Recursion
  <2>2. QED BY <1>3, <1>5, <2>1
<1>6. CASE m # 0
  <2>1. m - 1 \in Nat /\ m - 1 < m
    BY <1>3, <1>6
  <2>2. PICK f : Recursion(r, n, current, f, m - 1)
    BY <1>4, <2>1
  <2> DEFINE g == [i \in 0..m |-> IF i < m THEN f[i]
                                  ELSE Append(f[m - 1], Choice(r, n, current, f[m - 1], m))]
             h == [i \in 0..m |-> IF i = 0 THEN <<>>
                                  ELSE Append(g[i - 1], Choice(r, n, current, g[i - 1], i))]
  <2>3. ASSUME NEW i \in 0..m
        PROVE  g[i] = h[i]
    <3>1. CASE i = 0
      <4>1. 0 \in 0..(m - 1) /\ 0 < m /\ 0 \in 0..m
        BY <1>3, <1>6
      <4>2. f[0] = <<>>
        BY <2>2, <4>1 DEF Recursion
      <4>3. g[0] = f[0] /\ h[0] = <<>>
        BY <4>1
      <4>4. QED BY <3>1, <4>2, <4>3
    <3>2. CASE i # 0
      <4>1. i - 1 \in 0..m /\ i - 1 < m /\ i - 1 \in 0..(m - 1)
        BY <3>2, <1>3
      <4>2. g[i - 1] = f[i - 1]
        BY <4>1
      <4>3. h[i] = Append(f[i - 1], Choice(r, n, current, f[i - 1], i))
        BY <3>2, <4>2
      <4>4. CASE i = m
        BY <4>3, <4>4
      <4>5. CASE i # m
        <5>1. i \in 0..(m - 1) /\ i < m
          BY <4>5, <1>3
        <5>2. f[i] = Append(f[i - 1], Choice(r, n, current, f[i - 1], i))
          BY <2>2, <3>2, <5>1 DEF Recursion
        <5>3. QED BY <4>3, <5>1, <5>2
      <4>6. QED BY <4>4, <4>5
    <3>3. QED BY <3>1, <3>2
  <2>4. g = h
    BY <2>3
  <2>5. Recursion(r, n, current, g, m)
    BY <2>4 DEF Recursion
  <2>6. QED BY <1>3, <2>5
<1>7. QED BY <1>5, <1>6

LEMMA RecursionUnrolled ==
  ASSUME NEW r, NEW n \in Nat, NEW current, NEW f, Recursion(r, n, current, f, n)
  PROVE  \A i \in 0..n : f[i] = Begun(Picks(r, n, current, f), i)
<1> DEFINE c == Picks(r, n, current, f)
           Bad == {i \in 0..n : f[i] # Begun(c, i)}
<1> SUFFICES ASSUME Bad # {} PROVE FALSE
  OBVIOUS
<1>1. Bad \subseteq Nat
  OBVIOUS
<1> DEFINE m == Min(Bad)
<1>2. m \in Bad /\ \A k \in Bad : m <= k
  <2> HIDE DEF Bad
  <2>1. QED BY <1>1, LeastExists
<1>3. m \in 0..n /\ f[m] # Begun(c, m)
  BY <1>2
<1> HIDE DEF m
<1>4. \A k \in 0..n : k < m => f[k] = Begun(c, k)
  BY <1>2, <1>3
<1> HIDE DEF Bad
<1>5. CASE m = 0
  BY <1>3, <1>5 DEF Recursion, Begun
<1>6. CASE m # 0
  <2>1. m - 1 \in 0..n /\ m - 1 < m /\ m \in 1..n /\ m \in Nat
    BY <1>3, <1>6
  <2>2. f[m - 1] = Begun(c, m - 1)
    BY <1>4, <2>1
  <2>3. f[m] = Append(f[m - 1], c[m])
    BY <1>3, <1>6, <2>1 DEF Recursion, Picks
  <2>4. Append(Begun(c, m - 1), c[m]) = Begun(c, m)
    BY <2>1 DEF Begun
  <2>5. QED BY <1>3, <2>2, <2>3, <2>4
<1>7. QED BY <1>5, <1>6

(* Each choice knows those before it.                                      *)
InTurn(r, n, current, c) ==
    c = [i \in 1..n |-> Choice(r, n, current, Begun(c, i - 1), i)]

LEMMA SelectedFacts ==
  ASSUME NEW r, IsRanking(r), NEW size \in Nat, NEW current \in Seq(Tools)
  PROVE  InTurn(r, Min({size, Len(r)}), current, Selected(r, size, current))
<1> DEFINE n == Min({size, Len(r)})
<1>1. n \in Nat
  <2>1. Len(r) \in Nat
    BY DEF IsRanking
  <2>2. n = IF size <= Len(r) THEN size ELSE Len(r)
    BY <2>1, SmallestOfTwo
  <2>3. QED BY <2>1, <2>2
<1> HIDE DEF n
<1> DEFINE f == CHOOSE f : Recursion(r, n, current, f, n)
           c == Picks(r, n, current, f)
<1>2. Recursion(r, n, current, f, n)
  BY <1>1, RecursionExists
<1>3. Selected(r, size, current) = f[n]
  BY DEF Selected, Recursion, n
<1> HIDE DEF f
<1>4. \A i \in 0..n : f[i] = Begun(c, i)
  BY <1>1, <1>2, RecursionUnrolled
<1>5. Begun(c, n) = c
  BY DEF Begun, Picks
<1>6. \A i \in 1..n : i - 1 \in 0..n
  BY <1>1
<1>7. c = [i \in 1..n |-> Choice(r, n, current, Begun(c, i - 1), i)]
  <2>1. \A i \in 1..n : f[i - 1] = Begun(c, i - 1)
    BY <1>4, <1>6
  <2> DEFINE d == [i \in 1..n |-> Choice(r, n, current, Begun(c, i - 1), i)]
  <2>2. \A i \in 1..n : c[i] = d[i]
    BY <2>1 DEF Picks
  <2>3. c = d
    BY <2>2 DEF Picks
  <2>4. QED BY <2>3
<1>8. Selected(r, size, current) = c
  BY <1>1, <1>3, <1>4, <1>5
<1>9. QED BY <1>7, <1>8 DEF InTurn, n

(* The chosen tools are ranked, as many as there is room for, all          *)
(* different; and what of the current window was left out is clearly worse *)
(* than what is new.                                                       *)
LEMMA SelectionKeepsWindow ==
  ASSUME NEW r, IsRanking(r), NEW size \in Nat, NEW current \in Seq(Tools)
  PROVE  LET chosen == Selected(r, size, current)
         IN  /\ chosen \in Seq(Tools) /\ IsInjective(chosen)
             /\ Len(chosen) = Min({size, Len(r)})
             /\ ToSet(chosen) \subseteq RankedTools(r)
             /\ \A t \in (ToSet(current) \cap RankedTools(r)) \ ToSet(chosen),
                   u \in ToSet(chosen) \ ToSet(current) :
                     ScoreOf(r, u) - ScoreOf(r, t) >= StabilityThreshold
<1> DEFINE n == Min({size, Len(r)})
           D == Displaced(r, n, current)
<1>1. n \in Nat /\ n <= Len(r) /\ DOMAIN r = 1..Len(r) /\ Len(r) \in Nat
  <2>1. Len(r) \in Nat /\ DOMAIN r = 1..Len(r)
    BY DEF IsRanking
  <2>2. n = IF size <= Len(r) THEN size ELSE Len(r)
    BY <2>1, SmallestOfTwo
  <2>3. QED BY <2>1, <2>2
<1> HIDE DEF n
<1> DEFINE c == Selected(r, size, current)
<1> HIDE DEF c
<1>2. c = [i \in 1..n |-> Choice(r, n, current, Begun(c, i - 1), i)]
  BY SelectedFacts DEF InTurn, c, n
<1>3. DOMAIN c = 1..n /\ \A i \in 1..n : i \in DOMAIN r
  BY <1>1, <1>2
<1>4. \A k \in D : /\ k \in DOMAIN current /\ current[k] \in RankedTools(r)
                   /\ \A i \in 1..n : r[i].tool # current[k]
  BY DEF Displaced
<1>5. ASSUME NEW i \in 1..n
      PROVE  ToSet(Begun(c, i - 1)) = {c[j] : j \in 1..(i - 1)}
  BY DEF ToSet, Begun
<1>6. ASSUME NEW i \in 1..n
      PROVE  \/ /\ c[i] = r[i].tool
                /\ \/ r[i].tool \in ToSet(current)
                   \/ \A k \in D :
                         \/ current[k] \in {c[j] : j \in 1..(i - 1)}
                         \/ ~(r[i].score - ScoreOf(r, current[k]) < StabilityThreshold)
             \/ /\ r[i].tool \notin ToSet(current)
                /\ \E k \in D : /\ c[i] = current[k]
                                /\ current[k] \notin {c[j] : j \in 1..(i - 1)}
  <2>1. c[i] = Choice(r, n, current, Begun(c, i - 1), i)
    BY <1>2
  <2> DEFINE b == Begun(c, i - 1)
  <2> HIDE DEF b
  <2>2. \/ /\ Choice(r, n, current, b, i) = r[i].tool
           /\ \/ r[i].tool \in ToSet(current)
              \/ \A k \in D :
                    \/ current[k] \in ToSet(b)
                    \/ ~(r[i].score - ScoreOf(r, current[k]) < StabilityThreshold)
        \/ /\ r[i].tool \notin ToSet(current)
           /\ \E k \in D :
                 /\ Choice(r, n, current, b, i) = current[k]
                 /\ current[k] \notin ToSet(b)
    BY ChoiceFacts
  <2>3. ToSet(b) = {c[j] : j \in 1..(i - 1)} /\ c[i] = Choice(r, n, current, b, i)
    BY <1>5, <2>1 DEF b
  <2> HIDE DEF D
  <2>4. QED BY <2>2, <2>3
<1> HIDE DEF D
<1>7. \A k \in DOMAIN current : current[k] \in Tools /\ current[k] \in ToSet(current)
  BY DEF ToSet
<1>8. \A i \in 1..n : c[i] \in Tools /\ c[i] \in RankedTools(r)
  <2>1. \A i \in 1..n : r[i].tool \in Tools /\ r[i].tool \in RankedTools(r)
    BY <1>3, ScoreFacts, RankedToolsFacts
  <2>2. \A i \in 1..n : c[i] = r[i].tool \/ \E k \in D : c[i] = current[k]
    BY <1>6
  <2>3. QED BY <1>4, <1>7, <2>1, <2>2
<1>9. ASSUME NEW i \in 1..n, NEW j \in 1..n, j < i, c[i] = c[j]
      PROVE  FALSE
  <2>1. c[j] \in {c[l] : l \in 1..(i - 1)}
    BY <1>9
  <2>2. c[i] = r[i].tool
    BY <1>6, <1>9, <2>1
  <2>3. c[j] # r[j].tool
    BY <1>3, <1>9, <2>2 DEF IsRanking
  <2>4. PICK k \in D : c[j] = current[k]
    BY <1>6, <2>3
  <2>5. QED BY <1>4, <1>9, <2>2, <2>4
<1>10. \A i, j \in 1..n : c[i] = c[j] => i = j
  BY <1>1, <1>9
<1>11. c \in Seq(Tools) /\ Len(c) = n /\ IsInjective(c)
  <2>1. c \in [1..n -> Tools]
    BY <1>2, <1>8
  <2>2. QED BY <1>1, <1>3, <1>10, <2>1 DEF IsInjective
<1>12. \A u : u \in ToSet(c) <=> \E i \in 1..n : c[i] = u
  BY <1>3 DEF ToSet
<1>13. ASSUME NEW t \in (ToSet(current) \cap RankedTools(r)) \ ToSet(c),
              NEW u \in ToSet(c) \ ToSet(current)
       PROVE  ScoreOf(r, u) - ScoreOf(r, t) >= StabilityThreshold
  <2>1. PICK i \in 1..n : c[i] = u
    BY <1>12
  <2>2. \A k \in D : c[i] # current[k]
    BY <1>4, <1>7, <2>1
  <2>3. /\ u = r[i].tool /\ r[i].tool \notin ToSet(current)
        /\ \A k \in D :
              \/ current[k] \in {c[j] : j \in 1..(i - 1)}
              \/ ~(r[i].score - ScoreOf(r, current[k]) < StabilityThreshold)
    BY <1>6, <2>1, <2>2
  <2>4. PICK k \in DOMAIN current : current[k] = t
    BY DEF ToSet
  <2>5. ASSUME NEW j \in 1..n
        PROVE  r[j].tool # t
    <3> SUFFICES ASSUME r[j].tool = t PROVE FALSE
      OBVIOUS
    <3>1. c[j] = t
      BY <1>6
    <3>2. QED BY <1>12, <3>1
  <2>6. k \in D
    BY <2>4, <2>5 DEF D, Displaced
  <2>7. t \notin {c[j] : j \in 1..(i - 1)}
    BY <1>1, <1>12
  <2>8. ~(r[i].score - ScoreOf(r, t) < StabilityThreshold)
    BY <2>3, <2>4, <2>6, <2>7
  <2>9. ScoreOf(r, u) = r[i].score /\ r[i].score \in Int
    BY <1>3, <2>3, ScoreFacts
  <2>10. ScoreOf(r, t) \in Int
    <3>1. PICK j \in DOMAIN r : r[j].tool = t
      BY RankedToolsFacts
    <3>2. QED BY <3>1, ScoreFacts
  <2>11. QED BY <2>8, <2>9, <2>10 DEF StabilityThreshold
<1>14. ToSet(c) \subseteq RankedTools(r)
  BY <1>8, <1>12
<1>15. QED BY <1>11, <1>13, <1>14 DEF c, n

-----------------------------------------------------------------------------
(* The reserve.                                                            *)

LEMMA PlacesFromFront ==
  ASSUME NEW P, P \subseteq Nat, IsFiniteSet(P)
  PROVE  /\ \A x \in P : Cardinality({y \in P : y < x}) \in 0..(Cardinality(P) - 1)
         /\ \A x \in P, z \in P :
               Cardinality({y \in P : y < x}) = Cardinality({y \in P : y < z}) => x = z
         /\ \A k \in 0..(Cardinality(P) - 1) :
               \E x \in P : Cardinality({y \in P : y < x}) = k
<1> DEFINE R == {p \in P \X P : p[1] < p[2]}
<1>1. \A x \in P, y \in P : <<x, y>> \in R <=> x < y
  OBVIOUS
<1> HIDE DEF R
<1> DEFINE place(x) == Cardinality({y \in P : y < x})
<1>2. \A x \in P : Cardinality(SetLessThan(x, R, P)) = place(x)
  <2>1. \A x \in P : SetLessThan(x, R, P) = {y \in P : y < x}
    BY <1>1 DEF SetLessThan
  <2>2. QED BY <2>1
<1> HIDE DEF place
<1>3. /\ \A x \in P : <<x, x>> \notin R
      /\ \A x, y, z \in P : <<x, y>> \in R /\ <<y, z>> \in R => <<x, z>> \in R
      /\ \A x, y \in P : x # y => <<x, y>> \in R \/ <<y, x>> \in R
  BY <1>1
<1>4. /\ \A x \in P : Cardinality(SetLessThan(x, R, P)) \in 0..(Cardinality(P) - 1)
      /\ \A x, y \in P :
            Cardinality(SetLessThan(x, R, P)) = Cardinality(SetLessThan(y, R, P)) => x = y
      /\ \A k \in 0..(Cardinality(P) - 1) : \E x \in P : Cardinality(SetLessThan(x, R, P)) = k
  BY <1>3, PlacesFilled
<1>5. /\ \A x \in P : place(x) \in 0..(Cardinality(P) - 1)
      /\ \A x, z \in P : place(x) = place(z) => x = z
      /\ \A k \in 0..(Cardinality(P) - 1) : \E x \in P : place(x) = k
  BY <1>2, <1>4
<1>6. QED BY <1>5 DEF place

LEMMA PlacesFromBack ==
  ASSUME NEW P, P \subseteq Nat, IsFiniteSet(P)
  PROVE  /\ \A x \in P : Cardinality({y \in P : y > x}) \in 0..(Cardinality(P) - 1)
         /\ \A x \in P, z \in P :
               Cardinality({y \in P : y > x}) = Cardinality({y \in P : y > z}) => x = z
         /\ \A k \in 0..(Cardinality(P) - 1) :
               \E x \in P : Cardinality({y \in P : y > x}) = k
<1> DEFINE R == {p \in P \X P : p[1] > p[2]}
<1>1. \A x \in P, y \in P : <<x, y>> \in R <=> x > y
  OBVIOUS
<1> HIDE DEF R
<1> DEFINE place(x) == Cardinality({y \in P : y > x})
<1>2. \A x \in P : Cardinality(SetLessThan(x, R, P)) = place(x)
  <2>1. \A x \in P : SetLessThan(x, R, P) = {y \in P : y > x}
    BY <1>1 DEF SetLessThan
  <2>2. QED BY <2>1
<1> HIDE DEF place
<1>3. /\ \A x \in P : <<x, x>> \notin R
      /\ \A x, y, z \in P : <<x, y>> \in R /\ <<y, z>> \in R => <<x, z>> \in R
      /\ \A x, y \in P : x # y => <<x, y>> \in R \/ <<y, x>> \in R
  BY <1>1
<1>4. /\ \A x \in P : Cardinality(SetLessThan(x, R, P)) \in 0..(Cardinality(P) - 1)
      /\ \A x, y \in P :
            Cardinality(SetLessThan(x, R, P)) = Cardinality(SetLessThan(y, R, P)) => x = y
      /\ \A k \in 0..(Cardinality(P) - 1) : \E x \in P : Cardinality(SetLessThan(x, R, P)) = k
  BY <1>3, PlacesFilled
<1>5. /\ \A x \in P : place(x) \in 0..(Cardinality(P) - 1)
      /\ \A x, z \in P : place(x) = place(z) => x = z
      /\ \A k \in 0..(Cardinality(P) - 1) : \E x \in P : place(x) = k
  BY <1>2, <1>4
<1>6. QED BY <1>5 DEF place

(* The last m of more than m numbers are m.                                *)
LEMMA LastOnes ==
  ASSUME NEW P, P \subseteq Nat, IsFiniteSet(P), NEW m \in Nat, m <= Cardinality(P)
  PROVE  Cardinality({x \in P : Cardinality({y \in P : y > x}) < m}) = m
<1> DEFINE behind(x) == Cardinality({y \in P : y > x})
           X == {x \in P : behind(x) < m}
           f == [x \in X |-> behind(x)]
           n == Cardinality(P)
<1>1. n \in Nat
  BY FS_CardinalityType
<1>2. /\ \A x \in P : behind(x) \in 0..(n - 1)
      /\ \A x \in P, z \in P : behind(x) = behind(z) => x = z
      /\ \A k \in 0..(n - 1) : \E x \in P : behind(x) = k
  BY PlacesFromBack
<1> HIDE DEF behind, n
<1>3. f \in Bijection(X, 0..(m - 1))
  <2>0. \A x \in X : x \in P /\ behind(x) \in 0..(m - 1) /\ f[x] = behind(x)
    BY <1>1, <1>2
  <2>1. f \in [X -> 0..(m - 1)] /\ \A x, z \in X : f[x] = f[z] => x = z
    <3> HIDE DEF X
    <3>1. \A x, z \in X : f[x] = f[z] => x = z
      BY <1>2, <2>0
    <3>2. QED BY <2>0, <3>1
  <2>2. ASSUME NEW k \in 0..(m - 1)
        PROVE  \E x \in X : f[x] = k
    <3>1. k \in 0..(n - 1) /\ k < m
      BY <1>1 DEF n
    <3>2. PICK x \in P : behind(x) = k
      BY <1>2, <3>1
    <3>3. QED BY <3>1, <3>2
  <2> HIDE DEF X
  <2>3. QED BY <2>1, <2>2 DEF Bijection, Injection, Surjection, IsInjective
<1>4. IsFiniteSet(X)
  <2>1. X \in SUBSET P
    OBVIOUS
  <2>2. QED BY <2>1, FS_Subset
<1>5. Cardinality(0..(m - 1)) = m
  <2>1. 0 \in Int /\ m - 1 \in Int /\ (0 > m - 1 => m = 0)
    OBVIOUS
  <2>2. QED BY <2>1, FS_Interval
<1>6. ExistsBijection(X, 0..(m - 1))
  <2> HIDE DEF X, f
  <2>1. QED BY <1>3 DEF ExistsBijection
<1>7. Cardinality(X) = m
  <2> HIDE DEF X
  <2>1. QED BY <1>4, <1>5, <1>6, FS_Bijection
<1>8. QED BY <1>7 DEF behind

(* Ranked tools outside the focus are spare, or chosen.                    *)
LEMMA AwayBound ==
  ASSUME NEW r, IsRanking(r), NEW chosen \in Seq(Tools), NEW dominant
  PROVE  LET away == {e \in ToSet(r) : Card[e.tool].capability # dominant}
         IN  /\ Cardinality(away) \in Nat
             /\ Cardinality(away) <= Cardinality(OutsideFocus(chosen, dominant))
                                     + Cardinality(Spare(r, chosen, dominant))
<1> DEFINE away == {e \in ToSet(r) : Card[e.tool].capability # dominant}
           O == OutsideFocus(chosen, dominant)
           S == Spare(r, chosen, dominant)
           taken == {e \in away : e.tool \in ToSet(chosen)}
           rest == away \ taken
<1>1. IsFiniteSet(O) /\ IsFiniteSet(S)
  <2>1. O \in SUBSET (1..Len(chosen)) /\ S \in SUBSET (1..Len(r))
    BY DEF OutsideFocus, Spare, IsRanking
  <2>2. IsFiniteSet(1..Len(chosen)) /\ IsFiniteSet(1..Len(r))
    <3>1. Len(chosen) \in Int /\ Len(r) \in Int /\ 1 \in Int
      BY DEF IsRanking
    <3>2. QED BY <3>1, FS_Interval
  <2> HIDE DEF O, S
  <2>3. QED BY <2>1, <2>2, FS_Subset
<1>2. \A e, d \in ToSet(r) : e.tool = d.tool => e = d
  BY DEF ToSet, IsRanking
<1>3. IsFiniteSet(taken) /\ Cardinality(taken) <= Cardinality(O)
  <2> DEFINE f == [e \in taken |-> CHOOSE i \in O : chosen[i] = e.tool]
  <2>1. ASSUME NEW e \in taken
        PROVE  f[e] \in O /\ chosen[f[e]] = e.tool
    <3>1. \E i \in O : chosen[i] = e.tool
      BY DEF OutsideFocus, ToSet
    <3>2. QED BY <3>1
  <2>2. \A e \in taken : e \in ToSet(r)
    OBVIOUS
  <2>3. DOMAIN f = taken
    OBVIOUS
  <2>4. f \in [taken -> O]
    BY <2>1
  <2> HIDE DEF f, taken, O
  <2>5. f \in Injection(taken, O)
    BY <1>2, <2>1, <2>2, <2>3, <2>4 DEF Injection, IsInjective
  <2>6. QED BY <1>1, <2>5, FS_Injection
<1>4. IsFiniteSet(rest) /\ Cardinality(rest) <= Cardinality(S)
  <2> DEFINE f == [e \in rest |-> CHOOSE k \in S : r[k] = e]
  <2>1. ASSUME NEW e \in rest
        PROVE  f[e] \in S /\ r[f[e]] = e
    <3>1. \E k \in S : r[k] = e
      BY DEF Spare, ToSet
    <3>2. QED BY <3>1
  <2>2. f \in [rest -> S] /\ DOMAIN f = rest
    BY <2>1
  <2> HIDE DEF f, rest, S
  <2>3. f \in Injection(rest, S)
    BY <2>1, <2>2 DEF Injection, IsInjective
  <2>4. QED BY <1>1, <2>3, FS_Injection
<1>5. away = taken \cup rest /\ taken \cap rest = {}
  OBVIOUS
<1>6. Cardinality(away) = Cardinality(taken) + Cardinality(rest)
  <2> HIDE DEF away, taken, rest
  <2>1. Cardinality({}) = 0
    BY FS_EmptySet
  <2>2. Cardinality(taken \cup rest)
          = Cardinality(taken) + Cardinality(rest) - Cardinality(taken \cap rest)
    BY <1>3, <1>4, FS_Union
  <2>3. Cardinality(taken) \in Nat /\ Cardinality(rest) \in Nat
    BY <1>3, <1>4, FS_CardinalityType
  <2>4. /\ Cardinality(away) = Cardinality(taken \cup rest)
        /\ Cardinality(taken \cap rest) = Cardinality({})
    BY <1>5, Zenon
  <2>5. QED BY <2>1, <2>2, <2>3, <2>4
<1>7. /\ Cardinality(taken) \in Nat /\ Cardinality(rest) \in Nat
      /\ Cardinality(O) \in Nat /\ Cardinality(S) \in Nat
  BY <1>1, <1>3, <1>4, FS_CardinalityType
<1> HIDE DEF taken, rest, O, S
<1>8. /\ Cardinality(away) \in Nat
      /\ Cardinality(away) <= Cardinality(O) + Cardinality(S)
  BY <1>3, <1>4, <1>6, <1>7
<1>9. QED BY <1>8 DEF O, S

(* The reserve moves no tool twice, and does not stop before it is filled  *)
(* or there is nothing left to fill it with.                               *)
LEMMA ReserveFilled ==
  ASSUME NEW r, IsRanking(r), NEW chosen \in Seq(Tools), IsInjective(chosen),
         NEW reserve \in Nat, NEW dominant
  PROVE  LET w == WithReserve(chosen, r, reserve, dominant)
             away == {e \in ToSet(r) : Card[e.tool].capability # dominant}
         IN  /\ Len(w) = Len(chosen) /\ w \in Seq(Tools) /\ IsInjective(w)
             /\ dominant # NoCapability /\ Len(w) > reserve
                  => Cardinality(OutsideFocus(w, dominant))
                       >= Min({reserve, Cardinality(away)})
<1> DEFINE w == WithReserve(chosen, r, reserve, dominant)
           away == Cardinality({e \in ToSet(r) : Card[e.tool].capability # dominant})
           O == OutsideFocus(chosen, dominant)
           F == DOMAIN chosen \ O
           S == Spare(r, chosen, dominant)
           L == Lacking(chosen, reserve, dominant)
           behind(i) == Cardinality({j \in F : j > i})
           ahead(k) == Cardinality({l \in S : l < k})
           heir(i) == {k \in S : ahead(k) = behind(i)}
           n == Len(chosen)
           reserved == /\ dominant # NoCapability /\ reserve > 0 /\ n > reserve /\ L > 0
<1>1. /\ n \in Nat /\ DOMAIN chosen = 1..n /\ chosen \in [1..n -> Tools]
      /\ \A i, j \in 1..n : chosen[i] = chosen[j] => i = j
  BY DEF IsInjective
<1>2. /\ O \subseteq 1..n /\ F \subseteq 1..n /\ O \cap F = {} /\ O \cup F = 1..n
      /\ IsFiniteSet(O) /\ IsFiniteSet(F)
      /\ Cardinality(O) \in Nat /\ Cardinality(F) \in Nat
      /\ Cardinality(O) + Cardinality(F) = n
  <2>1. O \in SUBSET (1..n) /\ F \in SUBSET (1..n) /\ O \cap F = {} /\ O \cup F = 1..n
    BY <1>1 DEF OutsideFocus
  <2>2. IsFiniteSet(1..n) /\ Cardinality(1..n) = n
    BY <1>1, FS_Interval
  <2> HIDE DEF O, F, n
  <2>3. IsFiniteSet(O) /\ IsFiniteSet(F)
    BY <2>1, <2>2, FS_Subset
  <2>4. Cardinality(O) \in Nat /\ Cardinality(F) \in Nat /\ Cardinality({}) = 0
    BY <2>3, FS_CardinalityType, FS_EmptySet
  <2>5. Cardinality(O \cup F) = Cardinality(O) + Cardinality(F) - Cardinality(O \cap F)
    BY <2>3, FS_Union
  <2>6. Cardinality(O \cup F) = Cardinality(1..n) /\ Cardinality(O \cap F) = Cardinality({})
    BY <2>1, Zenon
  <2>7. QED BY <2>1, <2>2, <2>3, <2>4, <2>5, <2>6
<1>3. /\ S \subseteq 1..Len(r) /\ Len(r) \in Nat /\ S \subseteq Nat
      /\ IsFiniteSet(S) /\ Cardinality(S) \in Nat
      /\ \A k \in S : /\ r[k].tool \in Tools /\ r[k].tool \notin ToSet(chosen)
                      /\ Card[r[k].tool].capability # dominant
      /\ \A k, l \in S : r[k].tool = r[l].tool => k = l
  <2>1. Len(r) \in Nat /\ DOMAIN r = 1..Len(r)
    BY DEF IsRanking
  <2>2. S \in SUBSET (1..Len(r)) /\ S \subseteq Nat /\ \A k \in S : k \in DOMAIN r
    BY <2>1 DEF Spare
  <2>3. \A k \in S : /\ r[k].tool \in Tools /\ r[k].tool \notin ToSet(chosen)
                     /\ Card[r[k].tool].capability # dominant
    BY <2>2, ScoreFacts DEF Spare
  <2>4. \A k, l \in S : r[k].tool = r[l].tool => k = l
    BY <2>2 DEF IsRanking
  <2>5. IsFiniteSet(1..Len(r))
    BY <2>1, FS_Interval
  <2> HIDE DEF S
  <2>6. IsFiniteSet(S)
    BY <2>2, <2>5, FS_Subset
  <2>7. QED BY <2>1, <2>2, <2>3, <2>4, <2>6, FS_CardinalityType
<1>4. L = reserve - Cardinality(O)
  BY DEF Lacking
<1>5. away \in Nat /\ away <= Cardinality(O) + Cardinality(S)
  BY AwayBound
<1>6. w = IF ~reserved THEN chosen
          ELSE [i \in DOMAIN chosen |->
                  IF i \in F /\ behind(i) < L /\ heir(i) # {}
                  THEN r[CHOOSE k \in heir(i) : TRUE].tool ELSE chosen[i]]
  <2>1. ~reserved <=> \/ dominant = NoCapability \/ reserve <= 0 \/ Len(chosen) <= reserve
                      \/ L <= 0
    <3> HIDE DEF L, O
    <3>1. L \in Int
      BY <1>2, <1>4
    <3>2. QED BY <1>1, <3>1
  <2>2. QED BY <2>1 DEF WithReserve
<1>7. Min({reserve, away}) <= reserve /\ Min({reserve, away}) <= away
  BY <1>5, SmallestOfTwo
<1> HIDE DEF away, L, O, S, n, w
<1>8. CASE ~reserved
  <2>1. w = chosen
    BY <1>6, <1>8
  <2>2. dominant # NoCapability /\ Len(w) > reserve => Cardinality(O) >= reserve
    BY <1>1, <1>2, <1>4, <1>8, <2>1 DEF n
  <2>3. Min({reserve, away}) \in Int
    BY <1>5, SmallestOfTwo
  <2>4. dominant # NoCapability /\ Len(w) > reserve => Cardinality(O) >= Min({reserve, away})
    BY <1>2, <1>7, <2>2, <2>3
  <2>5. QED BY <2>1, <2>4 DEF w, away, O
<1>9. CASE reserved
  <2> DEFINE m == IF L <= Cardinality(S) THEN L ELSE Cardinality(S)
             X == {i \in F : behind(i) < m}
             h(i) == CHOOSE k \in heir(i) : TRUE
  <2>1. /\ \A i \in F : behind(i) \in 0..(Cardinality(F) - 1)
        /\ \A i \in F, j \in F : behind(i) = behind(j) => i = j
    <3>1. F \subseteq Nat /\ IsFiniteSet(F)
      BY <1>2
    <3> HIDE DEF F
    <3>2. QED BY <3>1, PlacesFromBack
  <2>2. /\ \A k \in S : ahead(k) \in 0..(Cardinality(S) - 1)
        /\ \A p \in 0..(Cardinality(S) - 1) : \E k \in S : ahead(k) = p
    BY <1>3, PlacesFromFront
  <2>3. m \in Nat /\ m <= Cardinality(F) /\ L \in Nat
    BY <1>1, <1>2, <1>3, <1>4, <1>9
  <2>4. Cardinality(X) = m
    <3>1. F \subseteq Nat /\ IsFiniteSet(F)
      BY <1>2
    <3> HIDE DEF F, m
    <3>2. QED BY <2>3, <3>1, LastOnes
  <2> HIDE DEF behind, ahead
  <2>5. ASSUME NEW i \in F
        PROVE  i \in X <=> behind(i) < L /\ heir(i) # {}
    <3>1. heir(i) # {} <=> behind(i) < Cardinality(S)
      <4>1. behind(i) \in Nat /\ Cardinality(S) \in Nat
        BY <1>3, <2>1
      <4>2. ASSUME NEW k \in heir(i) PROVE behind(i) < Cardinality(S)
        <5>1. k \in S /\ ahead(k) = behind(i)
          OBVIOUS
        <5>2. QED BY <2>2, <4>1, <5>1
      <4>3. ASSUME behind(i) < Cardinality(S) PROVE heir(i) # {}
        <5>1. behind(i) \in 0..(Cardinality(S) - 1)
          BY <4>1, <4>3
        <5>2. PICK k \in S : ahead(k) = behind(i)
          BY <2>2, <5>1
        <5>3. QED BY <5>2
      <4> HIDE DEF heir
      <4>4. QED BY <4>2, <4>3
    <3> HIDE DEF heir
    <3>2. QED BY <1>3, <2>1, <2>3, <3>1
  <2>6. ASSUME NEW i \in X
        PROVE  h(i) \in S /\ ahead(h(i)) = behind(i)
    <3>1. i \in F /\ heir(i) # {}
      BY <2>5
    <3>2. h(i) \in heir(i)
      BY <3>1
    <3>3. QED BY <3>2
  <2>7. X \subseteq F /\ X \subseteq 1..n
    BY <1>2
  <2>8. w = [i \in 1..n |-> IF i \in X THEN r[h(i)].tool ELSE chosen[i]]
    <3>1. w = [i \in DOMAIN chosen |-> IF i \in F /\ behind(i) < L /\ heir(i) # {}
                                       THEN r[h(i)].tool ELSE chosen[i]]
      BY <1>6, <1>9
    <3> HIDE DEF X, heir, h, F
    <3>2. QED BY <1>1, <2>5, <2>7, <3>1
  <2> HIDE DEF X, heir, h, F
  <2>9. ASSUME NEW i \in X
        PROVE  /\ w[i] = r[h(i)].tool /\ w[i] \in Tools /\ w[i] \notin ToSet(chosen)
               /\ Card[w[i]].capability # dominant
    BY <1>3, <2>6, <2>7, <2>8
  <2>10. \A i \in (1..n) \ X : w[i] = chosen[i] /\ w[i] \in Tools /\ w[i] \in ToSet(chosen)
    BY <1>1, <2>8 DEF ToSet
  <2>11. ASSUME NEW i \in 1..n, NEW j \in 1..n, w[i] = w[j]
         PROVE  i = j
    <3>1. CASE i \in X /\ j \in X
      <4>1. h(i) = h(j)
        BY <1>3, <2>6, <2>9, <2>11, <3>1
      <4>2. QED BY <2>1, <2>6, <2>7, <3>1, <4>1
    <3>2. CASE i \notin X /\ j \notin X
      BY <1>1, <2>10, <2>11, <3>2
    <3>3. CASE i \in X /\ j \notin X
      BY <2>9, <2>10, <2>11, <3>3
    <3>4. CASE i \notin X /\ j \in X
      BY <2>9, <2>10, <2>11, <3>4
    <3>5. QED BY <3>1, <3>2, <3>3, <3>4
  <2>12. w \in Seq(Tools) /\ Len(w) = n /\ IsInjective(w)
    <3>1. DOMAIN w = 1..n /\ w \in [1..n -> Tools]
      BY <2>8, <2>9, <2>10
    <3>2. QED BY <1>1, <2>11, <3>1 DEF IsInjective
  <2>13. OutsideFocus(w, dominant) = O \cup X /\ O \cap X = {}
    <3>1. OutsideFocus(w, dominant) = {i \in 1..n : Card[w[i]].capability # dominant}
      BY <2>8 DEF OutsideFocus
    <3>2. O = {i \in 1..n : Card[chosen[i]].capability # dominant}
      BY <1>1 DEF O, OutsideFocus
    <3>3. O \cap X = {}
      BY <1>2, <2>7
    <3>4. QED BY <2>7, <2>9, <2>10, <3>1, <3>2, <3>3
  <2>14. IsFiniteSet(X)
    <3>1. X \in SUBSET F
      BY <2>7
    <3>2. QED BY <1>2, <3>1, FS_Subset
  <2>15. Cardinality(OutsideFocus(w, dominant)) = Cardinality(O) + m
    <3>1. Cardinality(O \cup X) = Cardinality(O) + Cardinality(X) - Cardinality(O \cap X)
      BY <1>2, <2>14, FS_Union
    <3>2. Cardinality({}) = 0
      BY FS_EmptySet
    <3>3. /\ Cardinality(OutsideFocus(w, dominant)) = Cardinality(O \cup X)
          /\ Cardinality(O \cap X) = Cardinality({})
      BY <2>13, Zenon
    <3>4. QED BY <1>2, <2>3, <2>4, <3>1, <3>2, <3>3
  <2>16. Cardinality(O) + m >= Min({reserve, away})
    <3>1. Min({reserve, away}) \in Int
      BY <1>5, SmallestOfTwo
    <3>2. CASE L <= Cardinality(S)
      BY <1>2, <1>3, <1>4, <1>7, <2>3, <3>1, <3>2
    <3>3. CASE ~(L <= Cardinality(S))
      BY <1>2, <1>3, <1>5, <1>7, <3>1, <3>3
    <3>4. QED BY <3>2, <3>3
  <2>17. QED BY <2>12, <2>15, <2>16 DEF w, away, n
<1>10. QED BY <1>8, <1>9

-----------------------------------------------------------------------------
(* What is ranked, and what is published of it.                            *)

RankedInv == DiscoveryTypes /\ IsRanking(ranked)

LEMMA RefreshRanks ==
  ASSUME DiscoveryTypes, Refresh
  PROVE  IsRanking(ranked')
<1> DEFINE S == HardFiltered(Listed, Quarantined, health, Off)
<1>1. CASE mode = "default"
  BY <1>1 DEF Refresh, IsRanking
<1>2. CASE mode # "default"
  <2>1. PICK order \in SetToSeqs(S), signal \in BOOLEAN :
                ranked' = Reranked(Pool(order), signal, health, outcomes)
    BY <1>2 DEF Refresh
  <2>2. S \subseteq Tools
    BY DEF HardFiltered, Listed
  <2> HIDE DEF S
  <2>3. Cardinality(S) \in Nat
    <3>1. S \in SUBSET Tools
      BY <2>2
    <3>2. QED BY <3>1, SelectionAssumption, FS_Subset, FS_CardinalityType
  <2> DEFINE n == Cardinality(S)
             m == Min({PoolSize, Len(order)})
  <2>4. order \in [1..n -> Tools] /\ \A i, j \in 1..n : order[i] = order[j] => i = j
    BY <2>2 DEF SetToSeqs
  <2>5. Len(order) = n /\ order \in Seq(Tools)
    <3> HIDE DEF n
    <3>1. n \in Nat
      BY <2>3 DEF n
    <3>2. QED BY <2>4, <3>1
  <2>6. m \in Nat /\ m <= n
    <3>1. m = IF PoolSize <= n THEN PoolSize ELSE n
      BY <2>3, <2>5, SelectionAssumption, SmallestOfTwo
    <3>2. QED BY <2>3, <3>1, SelectionAssumption
  <2> HIDE DEF n, m
  <2>7. Pool(order) = [i \in 1..m |-> order[i]]
    <3>1. Pool(order) = SubSeq(order, 1, m)
      BY DEF Pool, m
    <3>2. SubSeq(order, 1, m) = [i \in 1..m |-> order[i]]
      BY <2>5, <2>6 DEF n
    <3>3. QED BY <3>1, <3>2
  <2>8. Pool(order) \in Seq(Tools) /\ IsInjective(Pool(order))
    <3>1. \A i \in 1..m : i \in 1..n
      BY <2>3, <2>6 DEF n
    <3>2. Pool(order) \in [1..m -> Tools]
      BY <2>4, <2>7, <3>1
    <3>3. QED BY <2>4, <2>6, <2>7, <3>1, <3>2 DEF IsInjective
  <2>9. IsFiniteSet(DOMAIN outcomes)
    <3>1. DOMAIN outcomes = 1..Len(outcomes) /\ Len(outcomes) \in Nat
      BY DEF DiscoveryTypes
    <3>2. QED BY <3>1, FS_Interval
  <2>10. QED BY <2>1, <2>8, <2>9, RerankedFacts
<1>3. QED BY <1>1, <1>2

LEMMA RankedStep ==
  ASSUME RankedInv, [DiscoveryNext]_discoveryVars
  PROVE  IsRanking(ranked)'
<1> SUFFICES IsRanking(ranked')
  OBVIOUS
<1>1. IsRanking(<<>>)
  BY DEF IsRanking
<1>2. ranked' = <<>> \/ ranked' = ranked \/ Refresh
  BY DEF DiscoveryNext, CallVisible, GatewayCall, SearchAndCall, StartRun, Show, CodeCall,
         EndRun, StaleCopyStored, Disable, Reenable, Withhold, RemoveOverride, SwitchServer,
         HealthChanges, Tick, discoveryVars
<1>3. QED BY <1>1, <1>2, RefreshRanks DEF RankedInv

LEMMA RankedAlways == DiscoverySpec => []RankedInv
<1>1. DiscoveryInit => IsRanking(ranked)
  BY DEF DiscoveryInit, IsRanking
<1>2. DiscoveryInv => DiscoveryTypes
  BY DEF DiscoveryInv
<1>3. DiscoveryTypes /\ IsRanking(ranked) /\ [DiscoveryNext]_discoveryVars => IsRanking(ranked)'
  BY RankedStep DEF RankedInv
<1>4. QED BY <1>1, <1>2, <1>3, DiscoveryInvariant, PTL DEF DiscoverySpec, RankedInv

(* A window has as many tools as places.                                   *)
LEMMA WindowSize ==
  ASSUME NEW s \in Seq(Tools), IsInjective(s)
  PROVE  Cardinality(ToSet(s)) = Len(s)
<1>1. Len(s) \in Nat /\ DOMAIN s = 1..Len(s)
  OBVIOUS
<1>2. s \in Bijection(1..Len(s), ToSet(s))
  BY <1>1 DEF Bijection, Injection, Surjection, IsInjective, ToSet
<1>3. IsFiniteSet(1..Len(s)) /\ Cardinality(1..Len(s)) = Len(s)
  BY <1>1, FS_Interval
<1>4. ExistsBijection(1..Len(s), ToSet(s))
  BY <1>2 DEF ExistsBijection
<1>5. QED BY <1>3, <1>4, FS_Bijection

(* publishWindow fills every place it may with different tools; and a tool *)
(* of the window before that is still ranked but lost its place is worse   *)
(* than each newcomer by the stability threshold: whatever the ranking,    *)
(* the size and the window before.                                         *)
THEOREM WindowsKept == DiscoverySpec => []WindowKept
<1>1. ASSUME RankedInv
      PROVE  WindowKept
  <2> SUFFICES ASSUME NEW size \in WindowSizes, NEW current \in Windows
               PROVE  LET chosen == Selected(ranked, size, current)
                      IN  /\ Len(chosen) = Min({size, Len(ranked)})
                          /\ Cardinality(ToSet(chosen)) = Len(chosen)
                          /\ \A t \in (ToSet(current) \cap RankedTools(ranked)) \ ToSet(chosen),
                                u \in ToSet(chosen) \ ToSet(current) :
                                  ScoreOf(ranked, u) - ScoreOf(ranked, t) >= StabilityThreshold
    BY DEF WindowKept
  <2>1. size \in Nat /\ current \in Seq(Tools) /\ IsRanking(ranked)
    BY <1>1, PublishingAssumption DEF RankedInv
  <2>2. QED BY <2>1, SelectionKeepsWindow, WindowSize
<1>2. QED BY <1>1, RankedAlways, PTL

(* With a dominant capability a window larger than the reserve has the     *)
(* reserved places filled with tools outside it, as far as the ranking has *)
(* any, and is not smaller for it (applyFocusReserve): whatever the        *)
(* ranking, the size, the window before and the reserve.                   *)
THEOREM ReservesHonoured == DiscoverySpec => []ReserveHonoured
<1>1. ASSUME RankedInv
      PROVE  ReserveHonoured
  <2> DEFINE dominant == Dominant(outcomes)
             away == {e \in ToSet(ranked) : Card[e.tool].capability # dominant}
  <2>1. ASSUME dominant # NoCapability,
               NEW size \in WindowSizes, NEW current \in Windows, NEW reserve \in Reserves
        PROVE  LET w == PublishedWindow(ranked, size, current, reserve, dominant)
               IN  /\ Cardinality(ToSet(w)) = Min({size, Len(ranked)})
                   /\ Len(w) > reserve
                        => Cardinality(OutsideFocus(w, dominant))
                             >= Min({reserve, Cardinality(away)})
    <3> DEFINE chosen == Selected(ranked, size, current)
               w == WithReserve(chosen, ranked, reserve, dominant)
    <3>1. size \in Nat /\ current \in Seq(Tools) /\ reserve \in Nat /\ IsRanking(ranked)
      BY <1>1, PublishingAssumption DEF RankedInv
    <3>2. /\ chosen \in Seq(Tools) /\ IsInjective(chosen)
          /\ Len(chosen) = Min({size, Len(ranked)})
      BY <3>1, SelectionKeepsWindow
    <3>3. PublishedWindow(ranked, size, current, reserve, dominant) = w
      BY DEF PublishedWindow
    <3> HIDE DEF chosen, dominant
    <3>4. /\ Len(w) = Len(chosen) /\ w \in Seq(Tools) /\ IsInjective(w)
          /\ dominant # NoCapability /\ Len(w) > reserve
               => Cardinality(OutsideFocus(w, dominant)) >= Min({reserve, Cardinality(away)})
      BY <3>1, <3>2, ReserveFilled
    <3> HIDE DEF w, away
    <3>5. QED BY <2>1, <3>2, <3>3, <3>4, WindowSize
  <2>2. QED BY <2>1 DEF ReserveHonoured
<1>2. QED BY <1>1, RankedAlways, PTL
=============================================================================
