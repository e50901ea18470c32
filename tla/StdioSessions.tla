---------------------------- MODULE StdioSessions ----------------------------
(***************************************************************************)
(* The child processes of one stdio server: registry/transport/stdio.ts    *)
(* starts one for every fetch of tools and every tool call;                *)
(* registry/stdio-interactive-auth.ts starts one that waits until somebody *)
(* has logged in.  The registry (registry/registry.ts) keeps the tools.    *)
(*                                                                         *)
(* Each process has a promise of its own, which an answer, its timeout,    *)
(* its exit, a write error or a cancellation settles; what follows in the  *)
(* login manager runs before anything else does.  A process that was told  *)
(* to end (SIGTERM) may go on for a while, and be heard.                   *)
(***************************************************************************)
EXTENDS Naturals, FiniteSets

CONSTANTS Procs, NoProc, NoRecord

VARIABLES
    proc,     \* the processes, with the state of their promise
    record,   \* the entry of StdioInteractiveAuthManager.sessions
    config,   \* is the interactive server in the configuration, and enabled?
    cached    \* does the registry hold tools of the server?

vars == <<proc, record, config, cached>>

Proc == [use : {"fetch", "call", "login"},
         stage : {"initialize", "request"},   \* the response it waits for
         settled : BOOLEAN,                   \* its promise
         os : {"running", "signalled"}]

Record == [proc : Procs,
           active : BOOLEAN,
           status : {"starting", "pending", "ready", "failed", "expired", "cancelled"},
           heard : Procs]     \* history: whose stderr it last reported

ASSUME NoProcAssumption == NoProc \notin Proc
ASSUME NoRecordAssumption == NoRecord \notin Record

Spawned(use) == [use |-> use, stage |-> "initialize", settled |-> FALSE, os |-> "running"]

\* A process that is gone has NoProc for its state.
Alive(p) == proc[p] # NoProc

Unsettled(p) == Alive(p) /\ ~proc[p].settled

\* p may stand for a new process.
Free(p) == ~Alive(p) /\ (record # NoRecord => p \notin {record.proc, record.heard})

IsActive == record # NoRecord /\ record.status \in {"starting", "pending"}

Init ==
    /\ proc = [p \in Procs |-> NoProc]
    /\ record = NoRecord
    /\ config = "enabled"
    /\ cached = FALSE

-----------------------------------------------------------------------------
(* The promise of a process.                                               *)

Killed(x) == [x EXCEPT !.os = "signalled"]

Settled(x) == [x EXCEPT !.settled = TRUE]

\* What the login manager does when the promise of a login is settled.
\* Mutant: a failure leaves the session active.
RecordAfterActive(how) ==
    CASE record = NoRecord -> record
      [] how = "answered" ->
            IF record.active THEN [record EXCEPT !.active = FALSE, !.status = "ready"]
            ELSE record
      [] OTHER -> record

RecordAfter(how) ==
    CASE record = NoRecord -> record
      [] how = "answered" ->
            IF record.active THEN [record EXCEPT !.active = FALSE, !.status = "ready"]
            ELSE record
      [] how # "answered" /\ record.status = "cancelled" -> record
      [] OTHER ->
            [record EXCEPT !.active = FALSE,
                           !.status = IF how = "timedOut" /\ @ = "pending"
                                      THEN "expired" ELSE "failed"]

\* Fetched tools are cached, whatever the configuration is by now; those of
\* a login only while its session is active.
CachedAfter(p, how) ==
    \/ cached
    \/ /\ how = "answered"
       /\ \/ proc[p].use = "fetch"
          \/ proc[p].use = "login" /\ record # NoRecord /\ record.active

\* Mutant: what follows a promise that was settled before runs again.
SettleAgain(p, how, x) ==
    /\ proc' = [proc EXCEPT ![p] = x]
    /\ record' = IF proc[p].use = "login" THEN RecordAfter(how) ELSE record
    /\ cached' = CachedAfter(p, how)
    /\ UNCHANGED config

\* The event settles p's promise unless something else did before; the
\* process becomes x.
Settle(p, how, x) ==
    /\ proc' = [proc EXCEPT ![p] = x]
    /\ record' = IF Unsettled(p) /\ proc[p].use = "login" THEN RecordAfter(how) ELSE record
    /\ cached' = IF Unsettled(p) THEN CachedAfter(p, how) ELSE cached
    /\ UNCHANGED config

\* The answer to initialize: the notification and the request are written.
Initialized(p) ==
    /\ Alive(p) /\ proc[p].stage = "initialize"
    /\ proc' = [proc EXCEPT ![p].stage = "request"]
    /\ UNCHANGED <<record, config, cached>>

\* Mutant: the process is left running after its answer.
AnsweredAlive(p) ==
    /\ Alive(p) /\ proc[p].stage = "request"
    /\ Settle(p, "answered", Settled(proc[p]))

Answered(p) ==
    /\ Alive(p) /\ proc[p].stage = "request"
    /\ Settle(p, "answered", Killed(Settled(proc[p])))

\* An error for an answer, an answer without tools, or a failed write.
Failed(p) ==
    /\ Alive(p)
    /\ Settle(p, "failed", Killed(Settled(proc[p])))

TimesOut(p) ==
    /\ Unsettled(p)
    /\ Settle(p, "timedOut", Killed(Settled(proc[p])))

\* The process is gone, or could not be started; its output was read before.
Closes(p) ==
    /\ Alive(p)
    /\ Settle(p, "failed", NoProc)

-----------------------------------------------------------------------------
(* The registry.                                                           *)

Spawn(p, use) == proc' = [proc EXCEPT ![p] = Spawned(use)]

RefreshTools(p) ==
    /\ Free(p) /\ config # "absent" /\ ~IsActive
    /\ Spawn(p, "fetch")
    /\ UNCHANGED <<record, config, cached>>

CallTool(p) ==
    /\ Free(p) /\ config # "absent"
    /\ Spawn(p, "call")
    /\ UNCHANGED <<record, config, cached>>

-----------------------------------------------------------------------------
(* The login manager.                                                      *)

StartLogin(p) ==
    /\ Free(p) /\ config # "absent"
    /\ ~IsActive
    /\ Spawn(p, "login")
    /\ record' = [proc |-> p, active |-> TRUE, status |-> "starting", heard |-> p]
    /\ UNCHANGED <<config, cached>>

\* stderr of a login process: a prompt to log in, or something else.  The
\* session it is reported to is the one the server has by now.
Update(p) ==
    /\ Alive(p) /\ proc[p].use = "login"
    /\ record # NoRecord /\ record.active
    /\ \E status \in {"starting", "pending"} :
          record' = [record EXCEPT !.status = status, !.heard = p]
    /\ UNCHANGED <<proc, config, cached>>

\* Cancelling a process whose promise is settled does nothing.
ProcsCancelled ==
    IF record # NoRecord /\ Unsettled(record.proc)
    THEN [proc EXCEPT ![record.proc] = Killed(Settled(@))]
    ELSE proc

CancelLogin ==
    /\ record # NoRecord
    /\ proc' = ProcsCancelled
    /\ record' = [record EXCEPT !.active = FALSE, !.status = "cancelled"]
    /\ UNCHANGED <<config, cached>>

(* Every save of the configuration stops the registry, which cancels the   *)
(* login, and starts it again, which fetches the tools of the server if it *)
(* is there and enabled.  One that is there and disabled can still be asked*)
(* for its tools or for a login.                                           *)
ApplyConfig(to, p) ==
    /\ Free(p)
    /\ record' = NoRecord
    /\ cached' = FALSE
    /\ config' = to
    /\ proc' = IF to = "enabled" THEN [ProcsCancelled EXCEPT ![p] = Spawned("fetch")] ELSE ProcsCancelled

-----------------------------------------------------------------------------
Event(p) ==
    \/ Initialized(p) \/ Answered(p) \/ Failed(p)
    \/ TimesOut(p) \/ Closes(p) \/ Update(p)

Next ==
    \/ \E p \in Procs : Event(p) \/ RefreshTools(p) \/ CallTool(p) \/ StartLogin(p)
    \/ CancelLogin
    \/ \E to \in {"absent", "disabled", "enabled"}, p \in Procs : ApplyConfig(to, p)

Spec == Init /\ [][Next]_vars

(* setTimeout fires.                                                       *)
FairSpec == Spec /\ \A p \in Procs : WF_vars(TimesOut(p))

-----------------------------------------------------------------------------
TypeOK ==
    /\ proc \in [Procs -> Proc \cup {NoProc}]
    /\ record \in Record \cup {NoRecord}
    /\ config \in {"absent", "disabled", "enabled"} /\ cached \in BOOLEAN

(* Whatever settles a promise, the process behind it has been told to end  *)
(* or is gone: no fetch, call or login leaves a process running that       *)
(* nobody waits for (stdio.ts:123-127, 227-232, 243-249, 331-335).         *)
NobodyLeftRunning ==
    \A p \in Procs : Alive(p) /\ proc[p].settled => proc[p].os = "signalled"

(* The session of the login manager is active exactly while it waits for   *)
(* its own process, and no other login is waited for.  A session that was  *)
(* left active would keep the tools of the server from being refreshed for *)
(* good (registry.ts:66-71).                                               *)
LoginAccounted ==
    /\ IsActive <=> record # NoRecord /\ record.active
    /\ IsActive => Unsettled(record.proc)
    /\ \A p \in Procs :
          Unsettled(p) /\ proc[p].use = "login" => IsActive /\ record.proc = p

(* A login that is ready has its tools in the registry                     *)
(* (stdio-interactive-auth.ts:130-143).                                    *)
ReadyHasTools == record # NoRecord /\ record.status = "ready" => cached

(* What a session reports was said by its own process, or by one that has  *)
(* been told to end and has not got there yet.                             *)
HeardOwnOrEnding ==
    [][\A p \in Procs :
          record' # NoRecord /\ record # NoRecord /\ record'.proc = record.proc
            /\ record'.heard = p /\ record.heard # p /\ p # record.proc
          => proc[p].os = "signalled" /\ proc[p].settled]_vars

(* No login stays active for ever, whatever its process does and whoever   *)
(* comes and goes.                                                         *)
LoginEnds ==
    \A p \in Procs : (IsActive /\ record.proc = p) ~> ~(IsActive /\ record.proc = p)
=============================================================================
