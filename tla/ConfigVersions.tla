--------------------------- MODULE ConfigVersions ---------------------------
(***************************************************************************)
(* The configuration an administrator saves, and what is left of it after  *)
(* a restart: RuntimeConfigManager (config/runtime.ts) over the versions   *)
(* in SQLite (repositories/config/sqlite.ts), or over bootstrap.json when  *)
(* the gateway runs without a repository.                                  *)
(*                                                                         *)
(* A save clears the active version and then inserts the new one, a        *)
(* rollback clears it and then marks an older one: two statements, each    *)
(* committed on its own.  The process may die between them, and the second *)
(* may fail.  Nothing else runs between them.                              *)
(*                                                                         *)
(* Demo mode, which refuses every save, is left out.                       *)
(***************************************************************************)
EXTENDS Naturals, Sequences

CONSTANTS
    Configs,      \* the configurations that pass validation
    MaxVersions,  \* bound on the versions stored
    NoChange

ASSUME BoundAssumption == MaxVersions \in Nat
ASSUME NoChangeAssumption ==
    NoChange \notin [op : {"save"}, config : Configs] \cup [op : {"rollback"}, version : Nat]

VARIABLES
    hasRepo,    \* is there a config repository (not SESSION_BACKEND=memory)?
    rows,       \* the table config_versions: row v holds version v
    file,       \* bootstrap.json
    running,
    effective,  \* this.effective, while running
    change,     \* the save or rollback whose first half is done
    cut,        \* history: was the last change cut short after its first half?
    last        \* history: the configuration last committed

vars == <<hasRepo, rows, file, running, effective, change, cut, last>>

Versions == 1..Len(rows)
Active == {v \in Versions : rows[v].active}

Row(c) == [config |-> c, active |-> TRUE]

Cleared == [v \in Versions |-> [rows[v] EXCEPT !.active = FALSE]]

Init ==
    /\ hasRepo \in BOOLEAN
    /\ rows = << >>
    /\ file \in Configs
    /\ running = FALSE
    /\ effective = file
    /\ change = NoChange
    /\ cut = FALSE
    /\ last = file

-----------------------------------------------------------------------------
\* Mutant: the file is what counts whenever there is one.
BootFromFile ==
    /\ ~running
    /\ running' = TRUE
    /\ effective' = file
    /\ UNCHANGED <<rows, cut, last>>
    /\ UNCHANGED <<file, change>>

(* initialize(): the active version if there is one, whatever the file     *)
(* holds.  Otherwise the file seeds the repository: there is nothing to    *)
(* clear then, and a seed that fails leaves the gateway down.              *)
Boot ==
    /\ ~running
    /\ running' = TRUE
    /\ IF hasRepo /\ Active # {}
       THEN /\ effective' \in {rows[v].config : v \in Active}
            /\ UNCHANGED <<rows, cut, last>>
       ELSE /\ hasRepo => Len(rows) < MaxVersions
            /\ effective' = file
            /\ rows' = IF hasRepo THEN Append(rows, Row(file)) ELSE rows
            /\ cut' = FALSE
            /\ last' = file
    /\ UNCHANGED <<file, change>>

(* saveAdminConfig() with a repository, up to the INSERT; without one, up  *)
(* to the renaming of the temporary file.                                  *)
BeginSave(c) ==
    /\ running /\ change = NoChange
    /\ hasRepo => Len(rows) < MaxVersions
    /\ rows' = Cleared
    /\ change' = [op |-> "save", config |-> c]
    /\ UNCHANGED <<file, running, effective, cut, last>>

(* rollback(version), up to its second UPDATE.  Refused without a          *)
(* repository, or when the version does not exist.                         *)
BeginRollback(v) ==
    /\ running /\ change = NoChange
    /\ hasRepo /\ v \in Versions
    /\ rows' = Cleared
    /\ change' = [op |-> "rollback", version |-> v]
    /\ UNCHANGED <<file, running, effective, cut, last>>

(* The second half commits, and the configuration is applied.              *)
Commit(c) ==
    /\ effective' = c
    /\ last' = c
    /\ cut' = FALSE
    /\ change' = NoChange
    /\ UNCHANGED running

EndSave ==
    /\ change # NoChange /\ change.op = "save"
    /\ rows' = IF hasRepo THEN Append(rows, Row(change.config)) ELSE rows
    /\ file' = IF hasRepo THEN file ELSE change.config
    /\ Commit(change.config)

\* Mutant: the version rolled back to is marked but not applied.
EndRollbackUnapplied ==
    /\ change # NoChange /\ change.op = "rollback"
    /\ rows' = [rows EXCEPT ![change.version].active = TRUE]
    /\ change' = NoChange
    /\ cut' = FALSE
    /\ last' = rows[change.version].config
    /\ UNCHANGED <<file, running, effective>>

EndRollback ==
    /\ change # NoChange /\ change.op = "rollback"
    /\ rows' = [rows EXCEPT ![change.version].active = TRUE]
    /\ Commit(rows[change.version].config)
    /\ UNCHANGED file

(* The second half throws: the request fails, the gateway goes on.         *)
Fail ==
    /\ change # NoChange
    /\ change' = NoChange
    /\ cut' = hasRepo
    /\ UNCHANGED <<rows, file, running, effective, last>>

Crash ==
    /\ running
    /\ running' = FALSE
    /\ change' = NoChange
    /\ cut' = (cut \/ (hasRepo /\ change # NoChange))
    /\ UNCHANGED <<rows, file, effective, last>>

(* Somebody edits bootstrap.json while the gateway is down.                *)
EditFile(c) ==
    /\ ~running
    /\ file' = c
    /\ last' = IF hasRepo /\ rows # << >> THEN last ELSE c
    /\ UNCHANGED <<rows, running, effective, change, cut>>

-----------------------------------------------------------------------------
Next ==
    /\ \/ Boot
       \/ \E c \in Configs : BeginSave(c) \/ EditFile(c)
       \/ \E v \in 1..MaxVersions : BeginRollback(v)
       \/ EndSave
       \/ EndRollback
       \/ Fail
       \/ Crash
    /\ UNCHANGED hasRepo

Spec == Init /\ [][Next]_vars

-----------------------------------------------------------------------------
TypeOK ==
    /\ hasRepo \in BOOLEAN
    /\ rows \in Seq([config : Configs, active : BOOLEAN])
    /\ file \in Configs
    /\ running \in BOOLEAN
    /\ effective \in Configs
    /\ change \in [op : {"save"}, config : Configs]
                    \cup [op : {"rollback"}, version : Versions]
                    \cup {NoChange}
    /\ cut \in BOOLEAN
    /\ last \in Configs

(* getActive() takes any row marked active: there is never a choice, after *)
(* any sequence of saves, rollbacks, failures and crashes                  *)
(* (repositories/config/sqlite.ts:10-17).                                  *)
AtMostOneActive == \A v, w \in Active : v = w

Stored == IF hasRepo THEN {rows[v].config : v \in Active} ELSE {file}

(* The store never holds another configuration than the gateway runs with, *)
(* and holds one unless the last change was cut short: then no version is  *)
(* active, until the next change that goes through (runtime.ts:77-114,     *)
(* repositories/config/sqlite.ts:42).                                      *)
EffectiveIsStored ==
    running /\ change = NoChange =>
        /\ Stored \subseteq {effective}
        /\ Stored = {} => cut

(* A restart brings back the whole configuration committed last, "auth"    *)
(* included, whatever was done to bootstrap.json since.  When a change was *)
(* cut short it brings back the file instead (runtime.ts:53-75).           *)
RestartRestores ==
    [][~running /\ running' => effective' = IF cut THEN file ELSE last]_vars
=============================================================================
