---------------------------- MODULE CodeRuntime ----------------------------
(***************************************************************************)
(* One execution of gateway_run_code: the guest program in its isolate     *)
(* (src/runtime/sandbox.ts) and the tool calls it makes through            *)
(* mcp.call() and mcp.batch() (src/runtime/mcp-api.ts).                    *)
(*                                                                         *)
(* The guest is blocked while an operation of its own is pending, so its   *)
(* operations follow one another.  The host side of an operation may       *)
(* outlive it: an operation that fails or times out leaves the workers of  *)
(* its batch running, and all batches take the number of their next call   *)
(* from the one counter of the execution.                                  *)
(***************************************************************************)
EXTENDS Naturals, Sequences, FiniteSets

CONSTANTS
    Sizes,          \* how many calls a batch may have; an empty one does nothing
    MaxConcurrent,  \* codeMode.maxConcurrentToolCalls
    MaxCalls,       \* codeMode.maxToolCallsPerExecution
    MaxOps          \* bound on the operations of the guest

ASSUME SizesAssumption == Sizes \subseteq Nat \ {0}
ASSUME LimitsAssumption ==
    MaxConcurrent \in Nat \ {0} /\ MaxCalls \in Nat \ {0} /\ MaxOps \in Nat

VARIABLES
    count,    \* toolCallCount
    index,    \* currentIndex, here from 1
    op,       \* the operations so far, with what runs on the host for each
    pending,  \* is the last of them in pendingBridged?
    guest,    \* the guest program and its isolate
    started   \* history: the tool calls that went downstream

vars == <<count, index, op, pending, guest, started>>

Workers == 1..MaxConcurrent
Idle == 0

(* An operation: how many calls it has, the call each worker waits for,    *)
(* its promise, and two histories: how often each of its calls was made,   *)
(* and whether nothing else was in flight when it began.                   *)
Op(n) == [kind : {"call", "batch"},
          size : {n},
          worker : [Workers -> 0..n],
          times : [1..n -> Nat],
          base : {"running", "resolved", "rejected"},
          alone : BOOLEAN]

Operations == UNION {Op(n) : n \in Sizes \cup {1}}

Guest == {"running", "blocked", "thrown", "ended", "disposed"}

InFlight == {kw \in (1..Len(op)) \X Workers : op[kw[1]].worker[kw[2]] # Idle}

Busy(o) == {w \in Workers : o.worker[w] # Idle}

Init ==
    /\ count = 0
    /\ index = 1
    /\ op = << >>
    /\ pending = FALSE
    /\ guest = "running"
    /\ started = 0

-----------------------------------------------------------------------------
(* The guest.                                                              *)

\* It goes on after an error, if it catches it.
Runs == guest \in {"running", "thrown"}

(* toolCallCount after call() refused a call for the limit.  The counts     *)
(* beyond MaxCalls all mean the same and are one here.                     *)
Overrun == IF count > MaxCalls THEN count ELSE count + 1

NewOp(kind, n, busy) ==
    [kind |-> kind, size |-> n,
     worker |-> [w \in Workers |-> IF w \in busy THEN w ELSE Idle],
     times |-> [i \in 1..n |-> IF i \in busy THEN 1 ELSE 0],
     base |-> IF busy = {} THEN "rejected" ELSE "running",
     alone |-> InFlight = {}]

(* batch() up to its first await: each worker takes a call.  The workers   *)
(* whose handle is unknown fail at once, and with them the batch.          *)
BeginBatch(n, unknown) ==
    LET first == IF n < MaxConcurrent THEN 1..n ELSE Workers
        busy == first \ unknown
        o == NewOp("batch", n, busy)
    IN  /\ Runs /\ Len(op) < MaxOps
        /\ unknown \subseteq first
        /\ count + n <= MaxCalls
        /\ index' = Cardinality(first) + 1
        /\ count' = count + Cardinality(busy)
        /\ started' = started + Cardinality(busy)
        /\ op' = Append(op, IF unknown = {} THEN o ELSE [o EXCEPT !.base = "rejected"])
        /\ pending' = (unknown = {})
        /\ guest' = IF unknown = {} THEN "blocked" ELSE "thrown"

BeginCall ==
    /\ Runs /\ Len(op) < MaxOps
    /\ count < MaxCalls
    /\ count' = count + 1
    /\ started' = started + 1
    /\ op' = Append(op, NewOp("call", 1, {1}))
    /\ pending' = TRUE
    /\ guest' = "blocked"
    /\ UNCHANGED index

(* An unknown handle, or the limit on tool calls: call() counts the call   *)
(* that it refuses, batch() counts nothing.                                *)
Refused ==
    /\ Runs /\ Len(op) < MaxOps
    /\ \/ count' = count
       \/ count >= MaxCalls /\ count' = Overrun
    /\ guest' = "thrown"
    /\ UNCHANGED <<index, op, pending, started>>

(* The program returns, lets an error through, or exceeds its time, which  *)
(* may happen while an operation is pending.                               *)
End ==
    /\ guest \in {"running", "blocked", "thrown"}
    /\ guest' = "ended"
    /\ UNCHANGED <<count, index, op, pending, started>>

(* waitForPendingBridged(), then the isolate is disposed.                  *)
Dispose ==
    /\ guest = "ended" /\ ~pending
    /\ guest' = "disposed"
    /\ UNCHANGED <<count, index, op, pending, started>>

-----------------------------------------------------------------------------
(* The host.                                                               *)

\* Mutant: only an operation that succeeds is taken from pendingBridged.
AnsweredIfResolved(k, outcome) ==
    IF pending /\ k = Len(op) /\ outcome = "resolved"
    THEN /\ pending' = FALSE
         /\ guest' = IF guest = "blocked" THEN "running" ELSE guest
    ELSE UNCHANGED <<pending, guest>>

\* Operation k is settled for the guest, if it still waits for that one.
Answered(k, outcome) ==
    IF pending /\ k = Len(op) /\ outcome # "running"
    THEN /\ pending' = FALSE
         /\ guest' = IF guest # "blocked" THEN guest
                     ELSE IF outcome = "resolved" THEN "running" ELSE "thrown"
    ELSE UNCHANGED <<pending, guest>>

\* Mutant: Promise.allSettled() in place of Promise.all().
BaseAllSettled(o, failed) ==
    IF o.base # "running" THEN o.base
    ELSE IF Busy(o) = {} THEN "resolved" ELSE "running"

\* What a step of a worker makes of the promise of its operation.
BaseAfter(o, failed) ==
    IF o.base # "running" THEN o.base
    ELSE IF failed THEN "rejected"
    ELSE IF Busy(o) = {} THEN "resolved" ELSE "running"

Stops(k, w, failed) ==
    LET o == [op[k] EXCEPT !.worker[w] = Idle]
        base == BaseAfter(o, failed)
    IN  /\ op' = [op EXCEPT ![k] = [o EXCEPT !.base = base]]
        /\ Answered(k, base)

(* A tool call fails, and its worker with it.                              *)
CallFails(k, w) ==
    /\ k \in 1..Len(op) /\ op[k].worker[w] # Idle
    /\ Stops(k, w, TRUE)
    /\ UNCHANGED <<count, index, started>>

(* A tool call succeeds; the worker of a batch takes the next number ...   *)
TakesNumber(k) == index' = IF op[k].kind = "batch" THEN index + 1 ELSE index

\* ... which is beyond the end of its batch ...
LastCallDone(k, w) ==
    /\ k \in 1..Len(op) /\ op[k].worker[w] # Idle
    /\ op[k].kind = "batch" => index > op[k].size
    /\ TakesNumber(k)
    /\ Stops(k, w, FALSE)
    /\ UNCHANGED <<count, started>>

\* ... or is refused ...
NextRefused(k, w) ==
    /\ k \in 1..Len(op) /\ op[k].worker[w] # Idle
    /\ op[k].kind = "batch" /\ index <= op[k].size
    /\ TakesNumber(k)
    /\ Stops(k, w, TRUE)
    /\ \/ count' = count
       \/ count >= MaxCalls /\ count' = Overrun
    /\ UNCHANGED started

Makes(o, w) == [o EXCEPT !.worker[w] = index, !.times[index] = @ + 1]

\* Mutant of the call below: it is not counted against the limit.
NextCallUnlimited(k, w) ==
    /\ k \in 1..Len(op) /\ op[k].worker[w] # Idle
    /\ op[k].kind = "batch" /\ index <= op[k].size
    /\ TakesNumber(k)
    /\ count' = Overrun
    /\ started' = started + 1
    /\ op' = [op EXCEPT ![k] = Makes(op[k], w)]
    /\ UNCHANGED <<pending, guest>>

\* ... or is the number of the call that it makes.
NextCall(k, w) ==
    /\ k \in 1..Len(op) /\ op[k].worker[w] # Idle
    /\ op[k].kind = "batch" /\ index <= op[k].size
    /\ count < MaxCalls
    /\ TakesNumber(k)
    /\ count' = count + 1
    /\ started' = started + 1
    /\ op' = [op EXCEPT ![k] = Makes(op[k], w)]
    /\ UNCHANGED <<pending, guest>>

(* operationTimeoutMs: the guest stops waiting, the host does not.         *)
TimesOut ==
    /\ pending
    /\ Answered(Len(op), "timedOut")
    /\ UNCHANGED <<count, index, op, started>>

-----------------------------------------------------------------------------
Settles(k, w) ==
    CallFails(k, w) \/ LastCallDone(k, w) \/ NextRefused(k, w) \/ NextCall(k, w)

Next ==
    \/ \E n \in Sizes, unknown \in SUBSET Workers : BeginBatch(n, unknown)
    \/ BeginCall
    \/ Refused
    \/ End
    \/ Dispose
    \/ \E k \in 1..MaxOps, w \in Workers : Settles(k, w)
    \/ TimesOut

(* Tool calls are answered or time out, operations time out, and a program *)
(* runs out of time.                                                       *)
Fairness ==
    /\ \A k \in 1..MaxOps, w \in Workers : WF_vars(Settles(k, w))
    /\ WF_vars(TimesOut)
    /\ WF_vars(End)
    /\ WF_vars(Dispose)

Spec == Init /\ [][Next]_vars /\ Fairness

-----------------------------------------------------------------------------
TypeOK ==
    /\ count \in 0..(MaxCalls + 1)
    /\ index \in Nat \ {0}
    /\ op \in Seq(Operations)
    /\ pending \in BOOLEAN
    /\ guest \in Guest
    /\ started \in Nat

(* An execution makes no more tool calls than it may, whatever batches     *)
(* fail, time out and overlap: batch() reserves nothing when it compares   *)
(* its size with the limit (mcp-api.ts:54-57 and 87-89).                   *)
LimitKept == started <= MaxCalls

Whole(o) ==
    o.base = "resolved" => \A i \in 1..o.size : o.times[i] = 1

Alone == op = << >> \/ op[Len(op)].alone

(* test/unit/runtime/batch-parallel.test.ts:16: "executes all calls in     *)
(* parallel": a batch that begins when nothing of an earlier operation is  *)
(* in flight, and whose promise resolves, has made each of its calls, and  *)
(* each once: the workers share the counter without losing one             *)
(* (mcp-api.ts:91-110).                                                    *)
BatchWholeAlone == Alone => op = << >> \/ Whole(op[Len(op)])

(* Every execution comes to its end: the isolate is disposed, and the      *)
(* workers that outlive it run out of calls although they share the        *)
(* counter.                                                                *)
ComesToRest == <>[](guest = "disposed" /\ InFlight = {})
=============================================================================
