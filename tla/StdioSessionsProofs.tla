------------------------- MODULE StdioSessionsProofs -------------------------
(***************************************************************************)
(* Theorems about StdioSessions, for any set of processes.  The four state *)
(* properties are inductive together: that a settled process has been told *)
(* to end needs nothing else, but that a login is active exactly while its *)
(* process is awaited speaks of processes and of the record at once, and   *)
(* that a ready login has its tools rests on it.                           *)
(***************************************************************************)
EXTENDS StdioSessions, TLAPS

(* The process an active session waits for was started for a login.        *)
OwnLogin == IsActive => proc[record.proc].use = "login"

IInv == TypeOK /\ NobodyLeftRunning /\ LoginAccounted /\ OwnLogin /\ ReadyHasTools

Hows == {"answered", "failed", "timedOut"}

(* What a settled promise leaves of the record is a record, and one that   *)
(* is no longer active (stdio-interactive-auth.ts:127-165).                *)
LEMMA RecordAfterEnds ==
  ASSUME TypeOK, record # NoRecord, NEW how \in Hows,
         record.active, record.status \in {"starting", "pending"}
  PROVE  /\ RecordAfter(how) \in Record
         /\ ~RecordAfter(how).active
         /\ RecordAfter(how).status \in {"ready", "failed", "expired"}
         /\ RecordAfter(how).status = "ready" => how = "answered"
BY NoRecordAssumption DEF TypeOK, RecordAfter, Record, Hows

(* Whatever settles the promise of a process keeps the invariant, if it    *)
(* leaves the process told to end, or gone.                                *)
LEMMA SettleKeeps ==
  ASSUME IInv, NEW p \in Procs, Alive(p), NEW how \in Hows,
         NEW x \in Proc \cup {NoProc},
         x # NoProc => x.settled /\ x.os = "signalled" /\ x.use = proc[p].use,
         Settle(p, how, x)
  PROVE  IInv'
<1>1. /\ proc \in [Procs -> Proc \cup {NoProc}] /\ record \in Record \cup {NoRecord}
      /\ proc' = [proc EXCEPT ![p] = x] /\ config' = config
      /\ proc[p] \in Proc
  BY DEF IInv, TypeOK, Settle, Alive
<1>2. CASE Unsettled(p) /\ proc[p].use = "login"
  <2>1. /\ record # NoRecord /\ record.active /\ record.status \in {"starting", "pending"}
        /\ record.proc = p
    BY <1>2 DEF IInv, LoginAccounted, IsActive
  <2>2. record' = RecordAfter(how) /\ cached' = CachedAfter(p, how)
    BY <1>2 DEF Settle
  <2>3. /\ record' \in Record /\ ~record'.active
        /\ record'.status \in {"ready", "failed", "expired"}
        /\ record'.status = "ready" => how = "answered"
    BY <2>1, <2>2, RecordAfterEnds DEF IInv
  <2>4. TypeOK'
    BY <1>1, <2>2, <2>3 DEF IInv, TypeOK, CachedAfter
  <2>5. NobodyLeftRunning'
    BY <1>1, <1>2 DEF IInv, NobodyLeftRunning, Alive
  <2>6. LoginAccounted'
    <3>1. ~IsActive'
      BY <2>3 DEF IsActive
    <3>2. \A q \in Procs : ~(Unsettled(q)' /\ proc'[q].use = "login")
      <4>1. TAKE q \in Procs
      <4>2. CASE q = p
        BY <1>1, <4>2 DEF Unsettled, Alive
      <4>3. CASE q # p
        BY <1>1, <2>1, <4>3 DEF IInv, LoginAccounted, Unsettled, Alive
      <4>4. QED BY <4>2, <4>3
    <3>3. QED BY <2>3, <3>1, <3>2 DEF LoginAccounted
  <2>7. OwnLogin' /\ ReadyHasTools'
    BY <1>2, <2>1, <2>2, <2>3 DEF OwnLogin, IsActive, ReadyHasTools, CachedAfter
  <2>8. QED BY <2>4, <2>5, <2>6, <2>7 DEF IInv
<1>3. CASE ~(Unsettled(p) /\ proc[p].use = "login")
  <2>1. record' = record
    BY <1>3 DEF Settle
  <2>2. cached => cached'
    BY DEF Settle, CachedAfter
  <2>3. cached' \in BOOLEAN
    BY DEF IInv, TypeOK, Settle, CachedAfter
  <2>4. TypeOK'
    BY <1>1, <2>1, <2>3 DEF IInv, TypeOK
  <2>5. NobodyLeftRunning'
    BY <1>1 DEF IInv, NobodyLeftRunning, Alive
  <2>6. LoginAccounted'
    <3>1. IsActive' <=> IsActive
      BY <2>1 DEF IsActive
    <3>2. \A q \in Procs : Unsettled(q)' /\ proc'[q].use = "login"
                             <=> Unsettled(q) /\ proc[q].use = "login"
      <4>1. TAKE q \in Procs
      <4>2. CASE q = p
        BY <1>1, <1>3, <4>2 DEF Unsettled, Alive
      <4>3. CASE q # p
        BY <1>1, <4>3 DEF Unsettled, Alive
      <4>4. QED BY <4>2, <4>3
    <3>3. IsActive => record.proc \in Procs /\ Unsettled(record.proc)'
      BY <1>1, <1>3, <2>1, <3>2 DEF IInv, OwnLogin, LoginAccounted, IsActive, Record, Unsettled, Alive
    <3>4. QED BY <2>1, <3>1, <3>2, <3>3 DEF IInv, LoginAccounted
  <2>7. OwnLogin' /\ ReadyHasTools'
    <3>1. IsActive => record.proc \in Procs \ {p} \/ x = proc[p] \/ x.use = proc[p].use
      BY <1>1, <1>3 DEF IInv, OwnLogin, LoginAccounted, IsActive, Record, Unsettled, Alive
    <3>2. QED BY <1>1, <1>3, <2>1, <2>2, <3>1 DEF IInv, OwnLogin, ReadyHasTools, LoginAccounted, IsActive, Record, Unsettled, Alive
  <2>8. QED BY <2>4, <2>5, <2>6, <2>7 DEF IInv
<1>4. QED BY <1>2, <1>3

-----------------------------------------------------------------------------
(* A new process is a process, running and not settled.                    *)
LEMMA SpawnedProc ==
  ASSUME NEW use \in {"fetch", "call", "login"}
  PROVE  /\ Spawned(use) \in Proc /\ Spawned(use) # NoProc
         /\ Spawned(use).use = use /\ ~Spawned(use).settled
<1>1. /\ Spawned(use) \in Proc
      /\ Spawned(use).use = use /\ ~Spawned(use).settled
  BY DEF Spawned, Proc
<1>2. QED BY <1>1, NoProcAssumption

(* A process that is started anew and not for a login: nothing that the    *)
(* invariant speaks of changes.                                            *)
LEMMA SpawnKeeps ==
  ASSUME IInv, NEW p \in Procs, Free(p), NEW use \in {"fetch", "call"},
         Spawn(p, use), UNCHANGED <<record, config, cached>>
  PROVE  IInv'
<1>1. /\ proc \in [Procs -> Proc \cup {NoProc}] /\ proc[p] = NoProc
      /\ proc' = [proc EXCEPT ![p] = Spawned(use)]
      /\ Spawned(use) \in Proc /\ ~Spawned(use).settled /\ Spawned(use).use = use
      /\ Spawned(use) # NoProc
  BY SpawnedProc DEF IInv, TypeOK, Spawn, Free, Alive
<1>2. IsActive' <=> IsActive
  BY DEF IsActive
<1>3. \A q \in Procs : q # p => proc'[q] = proc[q]
  BY <1>1
<1>4. IsActive => record.proc \in Procs \ {p}
  BY <1>1 DEF IInv, LoginAccounted, IsActive, TypeOK, Record, Unsettled, Alive
<1>5. TypeOK' /\ NobodyLeftRunning' /\ ReadyHasTools'
  BY <1>1 DEF IInv, TypeOK, NobodyLeftRunning, ReadyHasTools, Alive
<1>6. LoginAccounted'
  BY <1>1, <1>2, <1>3, <1>4 DEF IInv, LoginAccounted, Unsettled, Alive
<1>7. OwnLogin'
  BY <1>2, <1>3, <1>4 DEF IInv, OwnLogin
<1>8. QED BY <1>5, <1>6, <1>7 DEF IInv

(* A cancellation leaves no login that is waited for.                      *)
LEMMA CancelledProcs ==
  ASSUME IInv
  PROVE  /\ ProcsCancelled \in [Procs -> Proc \cup {NoProc}]
         /\ \A q \in Procs :
               /\ ProcsCancelled[q] = NoProc <=> proc[q] = NoProc
               /\ ProcsCancelled[q] # NoProc =>
                     /\ ProcsCancelled[q].settled => ProcsCancelled[q].os = "signalled"
                     /\ ~ProcsCancelled[q].settled => ProcsCancelled[q].use # "login"
<1>1. CASE record # NoRecord /\ Unsettled(record.proc)
  <2>1. /\ record.proc \in Procs /\ proc[record.proc] \in Proc
        /\ ProcsCancelled = [proc EXCEPT ![record.proc] = Killed(Settled(proc[record.proc]))]
    BY <1>1 DEF IInv, TypeOK, Record, Unsettled, Alive, ProcsCancelled
  <2>2. /\ Killed(Settled(proc[record.proc])) \in Proc
        /\ Killed(Settled(proc[record.proc])).os = "signalled"
        /\ Killed(Settled(proc[record.proc])).settled
    BY <2>1 DEF Killed, Settled, Proc
  <2>3. QED
    BY <1>1, <2>1, <2>2, NoProcAssumption
       DEF IInv, TypeOK, NobodyLeftRunning, LoginAccounted, Unsettled, Alive, Proc
<1>2. CASE ~(record # NoRecord /\ Unsettled(record.proc))
  <2>1. ProcsCancelled = proc /\ ~IsActive
    BY <1>2 DEF ProcsCancelled, IInv, LoginAccounted, IsActive
  <2>2. QED
    BY <2>1, NoProcAssumption
       DEF IInv, TypeOK, NobodyLeftRunning, LoginAccounted, Unsettled, Alive, Proc
<1>3. QED BY <1>1, <1>2

LEMMA InitEstablishes == ASSUME Init PROVE IInv
BY NoProcAssumption, NoRecordAssumption
   DEF Init, IInv, TypeOK, NobodyLeftRunning, LoginAccounted, OwnLogin, ReadyHasTools,
       IsActive, Unsettled, Alive

LEMMA EventKeeps ==
  ASSUME IInv, NEW p \in Procs, Event(p)
  PROVE  IInv'
<1>1. Alive(p) => proc[p] \in Proc
  BY DEF IInv, TypeOK, Alive
<1>2. Alive(p) => /\ Killed(Settled(proc[p])) \in Proc
                  /\ Killed(Settled(proc[p])).settled
                  /\ Killed(Settled(proc[p])).os = "signalled"
                  /\ Killed(Settled(proc[p])).use = proc[p].use
  BY <1>1 DEF Killed, Settled, Proc
<1>3. CASE Initialized(p)
  <2>1. /\ proc' = [proc EXCEPT ![p] = [proc[p] EXCEPT !.stage = "request"]]
        /\ proc[p] \in Proc
        /\ UNCHANGED <<record, config, cached>>
    BY <1>1, <1>3 DEF Initialized
  <2>2. /\ proc' \in [Procs -> Proc \cup {NoProc}]
        /\ \A q \in Procs :
              /\ proc'[q] = NoProc <=> proc[q] = NoProc
              /\ proc[q] # NoProc => /\ proc'[q].settled = proc[q].settled
                                     /\ proc'[q].os = proc[q].os
                                     /\ proc'[q].use = proc[q].use
    BY <2>1, NoProcAssumption DEF IInv, TypeOK, Proc
  <2>3. /\ IsActive' <=> IsActive
        /\ IsActive => record.proc \in Procs /\ proc[record.proc] # NoProc
    BY <2>1 DEF IsActive, IInv, TypeOK, LoginAccounted, Record, Unsettled, Alive
  <2>4. TypeOK' /\ NobodyLeftRunning' /\ ReadyHasTools' /\ OwnLogin'
    BY <2>1, <2>2, <2>3 DEF IInv, TypeOK, NobodyLeftRunning, ReadyHasTools, OwnLogin, Alive
  <2>5. LoginAccounted'
    BY <2>1, <2>2, <2>3 DEF IInv, LoginAccounted, Unsettled, Alive
  <2>6. QED BY <2>4, <2>5 DEF IInv
<1>4. CASE Answered(p)
  BY <1>2, <1>4, SettleKeeps DEF Answered, Hows
<1>5. CASE Failed(p)
  BY <1>2, <1>5, SettleKeeps DEF Failed, Hows
<1>6. CASE TimesOut(p)
  BY <1>2, <1>6, SettleKeeps DEF TimesOut, Unsettled, Hows
<1>7. CASE Closes(p)
  BY <1>7, SettleKeeps DEF Closes, Hows
<1>8. CASE Update(p)
  <2>1. record \in Record /\ record.active /\ UNCHANGED <<proc, config, cached>>
    BY <1>8 DEF Update, IInv, TypeOK
  <2>2. PICK status \in {"starting", "pending"} :
          record' = [record EXCEPT !.status = status, !.heard = p]
    BY <1>8 DEF Update
  <2>3. /\ record' \in Record /\ record'.active /\ record'.status = status
        /\ record'.proc = record.proc
    BY <2>1, <2>2 DEF Record
  <2>4. IsActive /\ IsActive'
    BY <2>1, <2>3, NoRecordAssumption DEF IsActive, IInv, LoginAccounted
  <2>5. TypeOK' /\ NobodyLeftRunning'
    BY <2>1, <2>3 DEF IInv, TypeOK, NobodyLeftRunning, Alive
  <2>6. LoginAccounted'
    BY <2>1, <2>3, <2>4, NoRecordAssumption DEF IInv, LoginAccounted, Unsettled, Alive
  <2>7. OwnLogin' /\ ReadyHasTools'
    BY <2>1, <2>3, <2>4 DEF IInv, OwnLogin, ReadyHasTools
  <2>8. QED BY <2>5, <2>6, <2>7 DEF IInv
<1>9. QED BY <1>3, <1>4, <1>5, <1>6, <1>7, <1>8 DEF Event

LEMMA StartLoginKeeps ==
  ASSUME IInv, NEW p \in Procs, StartLogin(p)
  PROVE  IInv'
<1>1. /\ proc[p] = NoProc /\ ~IsActive
      /\ proc' = [proc EXCEPT ![p] = Spawned("login")]
      /\ record' = [proc |-> p, active |-> TRUE, status |-> "starting", heard |-> p]
      /\ UNCHANGED <<config, cached>>
  BY DEF StartLogin, Spawn, Free, Alive
<1>2. /\ Spawned("login") \in Proc /\ ~Spawned("login").settled
      /\ Spawned("login").use = "login" /\ Spawned("login") # NoProc
  BY SpawnedProc
<1>3. /\ proc' \in [Procs -> Proc \cup {NoProc}]
      /\ proc'[p] = Spawned("login")
      /\ \A q \in Procs : q # p => proc'[q] = proc[q]
      /\ record' \in Record /\ record' # NoRecord /\ IsActive'
  <2>1. record' \in Record
    BY <1>1 DEF Record
  <2>2. record' # NoRecord
    BY <2>1, NoRecordAssumption
  <2>3. QED BY <1>1, <1>2, <2>1, <2>2 DEF IInv, TypeOK, IsActive
<1>4. TypeOK' /\ NobodyLeftRunning' /\ OwnLogin' /\ ReadyHasTools'
  BY <1>1, <1>2, <1>3 DEF IInv, TypeOK, NobodyLeftRunning, OwnLogin, ReadyHasTools, Alive
<1>5. LoginAccounted'
  BY <1>1, <1>2, <1>3 DEF IInv, LoginAccounted, Unsettled, Alive
<1>6. QED BY <1>4, <1>5 DEF IInv

LEMMA CancelLoginKeeps ==
  ASSUME IInv, CancelLogin
  PROVE  IInv'
<1>1. /\ proc' = ProcsCancelled /\ record \in Record /\ UNCHANGED <<config, cached>>
      /\ record' = [record EXCEPT !.active = FALSE, !.status = "cancelled"]
  BY DEF CancelLogin, IInv, TypeOK
<1>2. /\ record' \in Record /\ ~record'.active /\ record'.status = "cancelled" /\ ~IsActive'
  BY <1>1 DEF Record, IsActive
<1>3. TypeOK' /\ NobodyLeftRunning' /\ LoginAccounted'
  BY <1>1, <1>2, CancelledProcs
     DEF IInv, TypeOK, NobodyLeftRunning, LoginAccounted, Unsettled, Alive
<1>4. OwnLogin' /\ ReadyHasTools'
  BY <1>2 DEF OwnLogin, ReadyHasTools
<1>5. QED BY <1>3, <1>4 DEF IInv

LEMMA ApplyConfigKeeps ==
  ASSUME IInv, NEW to \in {"absent", "disabled", "enabled"}, NEW p \in Procs, ApplyConfig(to, p)
  PROVE  IInv'
<1>1. record' = NoRecord /\ cached' = FALSE /\ config' = to /\ ~IsActive'
  BY DEF ApplyConfig, IsActive
<1>2. /\ Spawned("fetch") \in Proc /\ ~Spawned("fetch").settled
      /\ Spawned("fetch").use = "fetch" /\ Spawned("fetch") # NoProc
  BY SpawnedProc
<1>3. /\ proc' \in [Procs -> Proc \cup {NoProc}]
      /\ \A q \in Procs : proc'[q] # NoProc =>
            /\ proc'[q].settled => proc'[q].os = "signalled"
            /\ ~proc'[q].settled => proc'[q].use # "login"
  <2>1. CASE to = "enabled"
    <3>1. proc' = [ProcsCancelled EXCEPT ![p] = Spawned("fetch")]
      BY <2>1 DEF ApplyConfig
    <3>2. QED BY <1>2, <3>1, CancelledProcs
  <2>2. CASE to # "enabled"
    BY <2>2, CancelledProcs DEF ApplyConfig
  <2>3. QED BY <2>1, <2>2
<1>4. QED
  BY <1>1, <1>3 DEF IInv, TypeOK, NobodyLeftRunning, LoginAccounted, OwnLogin, ReadyHasTools,
                    Unsettled, Alive

LEMMA StepKeeps == ASSUME IInv, [Next]_vars PROVE IInv'
<1>1. CASE Next
  <2>1. ASSUME NEW p \in Procs, RefreshTools(p) PROVE IInv'
    BY <2>1, SpawnKeeps DEF RefreshTools
  <2>2. ASSUME NEW p \in Procs, CallTool(p) PROVE IInv'
    BY <2>2, SpawnKeeps DEF CallTool
  <2>3. QED
    BY <1>1, <2>1, <2>2, EventKeeps, StartLoginKeeps, CancelLoginKeeps, ApplyConfigKeeps DEF Next
<1>2. CASE UNCHANGED vars
  BY <1>2 DEF vars, IInv, TypeOK, NobodyLeftRunning, LoginAccounted, OwnLogin, ReadyHasTools,
              IsActive, Unsettled, Alive
<1>3. QED BY <1>1, <1>2

(* The inductive invariant holds in every reachable state.                 *)
THEOREM StdioInvariant == Spec => []IInv
<1>1. Init => IInv
  BY InitEstablishes
<1>2. IInv /\ [Next]_vars => IInv'
  BY StepKeeps
<1>3. QED BY <1>1, <1>2, PTL DEF Spec

(* The variables keep their types (stdio.ts:93-105,                        *)
(* stdio-interactive-auth.ts:12-29).                                       *)
THEOREM StdioTypeCorrect == Spec => []TypeOK
<1>1. IInv => TypeOK
  BY DEF IInv
<1>2. QED BY <1>1, StdioInvariant, PTL

(* No process whose promise is settled goes on unasked (stdio.ts:123-127,  *)
(* 227-232, 243-249, 331-335).                                             *)
THEOREM NobodyLeft == Spec => []NobodyLeftRunning
<1>1. IInv => NobodyLeftRunning
  BY DEF IInv
<1>2. QED BY <1>1, StdioInvariant, PTL

(* A login session is active exactly while its own process is awaited, and *)
(* no other login is (registry.ts:66-71).                                  *)
THEOREM LoginsAccounted == Spec => []LoginAccounted
<1>1. IInv => LoginAccounted
  BY DEF IInv
<1>2. QED BY <1>1, StdioInvariant, PTL

(* A login that reports itself ready has its tools in the registry         *)
(* (stdio-interactive-auth.ts:130-143).                                    *)
THEOREM ReadyMeansTools == Spec => []ReadyHasTools
<1>1. IInv => ReadyHasTools
  BY DEF IInv
<1>2. QED BY <1>1, StdioInvariant, PTL

(* What a session reports was said by its own process, or by one that is   *)
(* on its way out (stdio-interactive-auth.ts:102-126).                     *)
THEOREM HeardInTime == Spec => HeardOwnOrEnding
<1>1. ASSUME IInv, [Next]_vars
      PROVE  \A p \in Procs :
                record' # NoRecord /\ record # NoRecord /\ record'.proc = record.proc
                  /\ record'.heard = p /\ record.heard # p /\ p # record.proc
                => proc[p].os = "signalled" /\ proc[p].settled
  <2>1. SUFFICES ASSUME NEW p \in Procs,
                        record' # NoRecord, record # NoRecord, record'.proc = record.proc,
                        record'.heard = p, record.heard # p, p # record.proc
                 PROVE  proc[p].os = "signalled" /\ proc[p].settled
    OBVIOUS
  <2>2. record \in Record
    BY <1>1, <2>1 DEF IInv, TypeOK
  <2>3. ASSUME NEW q \in Procs, Update(q) PROVE proc[p].os = "signalled" /\ proc[p].settled
    <3>1. q = p
      BY <2>1, <2>2, <2>3 DEF Update, Record
    <3>2. proc[p] \in Proc /\ Alive(p) /\ proc[p].use = "login"
      BY <1>1, <2>3, <3>1 DEF Update, IInv, TypeOK, Alive
    <3>3. proc[p].settled
      BY <1>1, <2>1, <3>2 DEF IInv, LoginAccounted, Unsettled, Proc
    <3>4. QED BY <1>1, <3>2, <3>3 DEF IInv, NobodyLeftRunning
  <2>4. ASSUME NEW q \in Procs,
               \/ Initialized(q) \/ Answered(q) \/ Failed(q) \/ TimesOut(q) \/ Closes(q)
               \/ RefreshTools(q) \/ CallTool(q)
        PROVE  FALSE
    <3>1. record' = record \/ \E how \in Hows : record' = RecordAfter(how)
      BY <2>4 DEF Initialized, Answered, Failed, TimesOut, Closes, RefreshTools, CallTool, Settle, Hows
    <3>2. record'.heard = record.heard
      BY <2>2, <3>1, NoRecordAssumption DEF RecordAfter, Record
    <3>3. QED BY <2>1, <3>2
  <2>5. ASSUME NEW q \in Procs, StartLogin(q) PROVE FALSE
    BY <2>1, <2>5 DEF StartLogin
  <2>6. ASSUME CancelLogin PROVE FALSE
    BY <2>1, <2>2, <2>6 DEF CancelLogin, Record
  <2>7. ASSUME NEW q \in Procs, NEW to \in {"absent", "disabled", "enabled"}, ApplyConfig(to, q)
        PROVE  FALSE
    BY <2>1, <2>7 DEF ApplyConfig
  <2>8. ASSUME UNCHANGED vars PROVE FALSE
    BY <2>1, <2>8 DEF vars
  <2>9. QED BY <1>1, <2>3, <2>4, <2>5, <2>6, <2>7, <2>8 DEF Next, Event
<1>2. QED BY <1>1, StdioInvariant, PTL DEF Spec, HeardOwnOrEnding
=============================================================================
