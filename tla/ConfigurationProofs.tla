------------------------ MODULE ConfigurationProofs -------------------------
(***************************************************************************)
(* Theorems about ConfigVersions and about RuntimeConfig, which puts it    *)
(* together with the registry, for any configurations, servers and bounds; *)
(* and, in the second half, about ConfigEditing.                           *)
(*                                                                         *)
(* Of the store: exactly one version is active and holds the configuration *)
(* committed last, unless a change is under way or was cut short, and then *)
(* none is.  Of the gateway: its store behaves as ConfigVersions says, and *)
(* however many starts of the registry overlap, every timer that stop()    *)
(* does not know of is one of theirs, and what is held when they have all  *)
(* ended is no older than the last start that overlapped no other.         *)
(***************************************************************************)
EXTENDS RuntimeConfig, ConfigEditing, SequenceTheorems, FiniteSetTheorems, TLAPS

(* The store.                                                              *)
Restarted == ~running => change = NoChange

InRepository == change # NoChange /\ change.op = "rollback" => hasRepo

NoneActive == hasRepo /\ (cut \/ change # NoChange) => Active = {}

InFile == ~hasRepo \/ rows = << >> => ~cut /\ file = last /\ Active = {}

OneActive ==
    hasRepo /\ rows # << >> /\ ~cut /\ change = NoChange =>
        \E v \in Versions : Active = {v} /\ rows[v].config = last

Runs == running => effective = last /\ (hasRepo => rows # << >>)

StoreInv ==
    TypeOK /\ Restarted /\ InRepository /\ NoneActive /\ InFile /\ OneActive /\ Runs

RowSet == [config : Configs, active : BOOLEAN]

-----------------------------------------------------------------------------
(* What the first half of a change leaves of the rows.                     *)
LEMMA ClearedRows ==
  ASSUME rows \in Seq(RowSet)
  PROVE  /\ Cleared \in Seq(RowSet) /\ Len(Cleared) = Len(rows)
         /\ \A v \in 1..Len(rows) : Cleared[v].active = FALSE /\ Cleared[v].config = rows[v].config
<1>1. \A v \in 1..Len(rows) :
        /\ [rows[v] EXCEPT !.active = FALSE] \in RowSet
        /\ [rows[v] EXCEPT !.active = FALSE].active = FALSE
        /\ [rows[v] EXCEPT !.active = FALSE].config = rows[v].config
  <2>1. \A r \in RowSet :
          /\ [r EXCEPT !.active = FALSE] \in RowSet
          /\ [r EXCEPT !.active = FALSE].active = FALSE
          /\ [r EXCEPT !.active = FALSE].config = r.config
    BY DEF RowSet
  <2>2. \A v \in 1..Len(rows) : rows[v] \in RowSet
    BY ElementOfSeq
  <2>3. QED BY <2>1, <2>2
<1>2. Len(rows) \in Nat
  BY LenProperties
<1>3. Cleared = [v \in 1..Len(rows) |-> [rows[v] EXCEPT !.active = FALSE]]
  BY DEF Cleared, Versions
<1>4. Cleared \in Seq(RowSet) /\ Len(Cleared) = Len(rows)
  BY <1>1, <1>2, <1>3, IsASeq, LenProperties
<1>5. QED BY <1>1, <1>3, <1>4

(* A row appended to rows of which none is active is the active one.       *)
LEMMA AppendedRow ==
  ASSUME rows \in Seq(RowSet), Active = {}, NEW c \in Configs,
         rows' = Append(rows, Row(c))
  PROVE  /\ rows' \in Seq(RowSet) /\ rows' # << >> /\ Len(rows') = Len(rows) + 1
         /\ Len(rows') \in Versions' /\ Active' = {Len(rows')} /\ rows'[Len(rows')].config = c
<1>1. Row(c) \in RowSet /\ Row(c).active = TRUE /\ Row(c).config = c
  BY DEF Row, RowSet
<1>2. /\ rows' \in Seq(RowSet) /\ Len(rows') = Len(rows) + 1 /\ Len(rows) \in Nat
      /\ rows'[Len(rows) + 1] = Row(c)
      /\ \A v \in 1..Len(rows) : rows'[v] = rows[v]
  BY <1>1, AppendProperties, LenProperties
<1>3. \A v \in 1..Len(rows) : ~rows[v].active
  BY DEF Active, Versions
<1>4. Active' = {Len(rows) + 1}
  BY <1>1, <1>2, <1>3 DEF Active, Versions
<1>5. QED BY <1>1, <1>2, <1>4, EmptySeq DEF Versions

LEMMA NoVersions == ASSUME rows = << >> PROVE Active = {}
BY EmptySeq DEF Active, Versions

-----------------------------------------------------------------------------
LEMMA StoreInit == ASSUME Init PROVE StoreInv
<1>1. Active = {}
  BY NoVersions DEF Init
<1>2. rows \in Seq(RowSet)
  BY EmptySeq DEF Init
<1>3. QED
  BY <1>1, <1>2 DEF Init, StoreInv, TypeOK, Restarted, InRepository, NoneActive, InFile,
                    OneActive, Runs, RowSet

LEMMA BootKeeps == ASSUME StoreInv, Boot, hasRepo' = hasRepo PROVE StoreInv'
<1>1. /\ rows \in Seq(RowSet) /\ change = NoChange /\ change' = NoChange /\ file' = file
      /\ running' = TRUE /\ file \in Configs
  BY DEF StoreInv, TypeOK, Restarted, Boot, RowSet
<1>2. CASE hasRepo /\ Active # {}
  <2>1. ~cut /\ rows # << >> /\ UNCHANGED <<rows, cut, last>>
    BY <1>2, NoVersions DEF Boot, StoreInv, NoneActive
  <2>2. PICK v \in Versions : Active = {v} /\ rows[v].config = last
    BY <1>1, <1>2, <2>1 DEF StoreInv, OneActive
  <2>3. effective' = last
    BY <1>2, <2>2 DEF Boot
  <2>4. QED
    BY <1>1, <1>2, <2>1, <2>2, <2>3
       DEF StoreInv, TypeOK, Restarted, InRepository, NoneActive, InFile, OneActive, Runs,
           Active, Versions
<1>3. CASE ~(hasRepo /\ Active # {})
  <2>1. /\ effective' = file /\ last' = file /\ cut' = FALSE
        /\ rows' = IF hasRepo THEN Append(rows, Row(file)) ELSE rows
    BY <1>3 DEF Boot
  <2>2. CASE hasRepo
    <3>1. Active = {} /\ rows' = Append(rows, Row(file))
      BY <1>3, <2>1, <2>2
    <3>2. /\ rows' \in Seq(RowSet) /\ rows' # << >>
          /\ Len(rows') \in Versions' /\ Active' = {Len(rows')} /\ rows'[Len(rows')].config = file
      BY <1>1, <3>1, AppendedRow
    <3>3. QED
      BY <1>1, <2>1, <2>2, <3>2
         DEF StoreInv, TypeOK, Restarted, InRepository, NoneActive, InFile, OneActive, Runs, RowSet
  <2>3. CASE ~hasRepo
    BY <1>1, <2>1, <2>3
       DEF StoreInv, TypeOK, Restarted, InRepository, NoneActive, InFile, OneActive, Runs,
           Active, Versions
  <2>4. QED BY <2>2, <2>3
<1>4. QED BY <1>2, <1>3

LEMMA BeginKeeps ==
  ASSUME StoreInv, hasRepo' = hasRepo,
         \/ \E c \in Configs : BeginSave(c)
         \/ \E v \in 1..MaxVersions : BeginRollback(v)
  PROVE  StoreInv'
<1>1. /\ rows \in Seq(RowSet) /\ rows' = Cleared /\ running /\ change = NoChange
      /\ UNCHANGED <<file, running, effective, cut, last>>
  BY DEF BeginSave, BeginRollback, StoreInv, TypeOK, RowSet
<1>2. /\ rows' \in Seq(RowSet) /\ Len(rows') = Len(rows) /\ Len(rows) \in Nat
      /\ \A v \in 1..Len(rows) : ~rows'[v].active
  BY <1>1, ClearedRows, LenProperties
<1>3. Active' = {} /\ Versions' = Versions
  BY <1>2 DEF Active, Versions
<1>4. rows' = << >> <=> rows = << >>
  BY <1>1, <1>2, EmptySeq
<1>5. /\ change' \in [op : {"save"}, config : Configs] \cup [op : {"rollback"}, version : Versions']
      /\ change' # NoChange
      /\ change'.op = "rollback" => hasRepo
  <2>1. CASE \E c \in Configs : BeginSave(c)
    <3>1. PICK c \in Configs : change' = [op |-> "save", config |-> c]
      BY <2>1 DEF BeginSave
    <3>2. change' \in [op : {"save"}, config : Configs] /\ change'.op = "save"
      BY <3>1
    <3>3. QED BY <3>2, NoChangeAssumption
  <2>2. CASE \E v \in 1..MaxVersions : BeginRollback(v)
    <3>1. PICK v \in 1..MaxVersions :
            change' = [op |-> "rollback", version |-> v] /\ v \in Versions /\ hasRepo
      BY <2>2 DEF BeginRollback
    <3>2. v \in Nat
      BY <3>1, BoundAssumption
    <3>3. /\ change' \in [op : {"rollback"}, version : Versions']
          /\ change' \in [op : {"rollback"}, version : Nat]
      BY <1>3, <3>1, <3>2
    <3>4. QED BY <3>1, <3>3, NoChangeAssumption
  <2>3. QED BY <2>1, <2>2
<1>6. QED
  BY <1>1, <1>2, <1>3, <1>4, <1>5
     DEF StoreInv, TypeOK, Restarted, InRepository, NoneActive, InFile, OneActive, Runs, RowSet

LEMMA EndSaveKeeps == ASSUME StoreInv, EndSave, hasRepo' = hasRepo PROVE StoreInv'
<1>1. /\ rows \in Seq(RowSet) /\ change # NoChange /\ running /\ file \in Configs
      /\ change.config \in Configs
      /\ rows' = IF hasRepo THEN Append(rows, Row(change.config)) ELSE rows
      /\ file' = IF hasRepo THEN file ELSE change.config
      /\ effective' = change.config /\ last' = change.config /\ cut' = FALSE
      /\ change' = NoChange /\ running' = running
  BY DEF EndSave, Commit, StoreInv, TypeOK, Restarted, RowSet
<1>2. CASE hasRepo
  <2>1. Active = {} /\ rows' = Append(rows, Row(change.config))
    BY <1>1, <1>2 DEF StoreInv, NoneActive
  <2>2. /\ rows' \in Seq(RowSet) /\ rows' # << >>
        /\ Len(rows') \in Versions' /\ Active' = {Len(rows')}
        /\ rows'[Len(rows')].config = change.config
    BY <1>1, <2>1, AppendedRow
  <2>3. QED
    BY <1>1, <1>2, <2>2
       DEF StoreInv, TypeOK, Restarted, InRepository, NoneActive, InFile, OneActive, Runs, RowSet
<1>3. CASE ~hasRepo
  BY <1>1, <1>3
     DEF StoreInv, TypeOK, Restarted, InRepository, NoneActive, InFile, OneActive, Runs, RowSet,
         Active, Versions
<1>4. QED BY <1>2, <1>3

LEMMA EndRollbackKeeps == ASSUME StoreInv, EndRollback, hasRepo' = hasRepo PROVE StoreInv'
<1>1. /\ rows \in Seq(RowSet) /\ change # NoChange /\ running /\ hasRepo
      /\ change.version \in Versions /\ Active = {}
      /\ rows' = [rows EXCEPT ![change.version] = [rows[change.version] EXCEPT !.active = TRUE]]
      /\ effective' = rows[change.version].config /\ last' = rows[change.version].config
      /\ cut' = FALSE /\ change' = NoChange /\ running' = running /\ file' = file
  BY DEF EndRollback, Commit, StoreInv, TypeOK, Restarted, InRepository, NoneActive, RowSet
<1> DEFINE v == change.version
           row == [rows[v] EXCEPT !.active = TRUE]
<1>2. v \in 1..Len(rows) /\ Len(rows) \in Nat /\ rows # << >> /\ rows[v] \in RowSet
  BY <1>1, LenProperties, EmptySeq, ElementOfSeq DEF Versions
<1>3. row \in RowSet /\ row.active = TRUE /\ row.config = rows[v].config
  BY <1>2 DEF RowSet
<1>4. /\ rows' \in Seq(RowSet) /\ Len(rows') = Len(rows)
      /\ \A w \in 1..Len(rows) : rows'[w] = IF w = v THEN row ELSE rows[w]
  BY <1>1, <1>2, <1>3, ExceptSeq
<1>5. /\ Versions' = Versions /\ Active' = {v} /\ rows'[v].config = rows[v].config
      /\ rows' # << >>
  <2>1. \A w \in 1..Len(rows) : ~rows[w].active
    BY <1>1 DEF Active, Versions
  <2>2. rows' # << >>
    BY <1>2, <1>4, EmptySeq
  <2>3. rows'[v].active /\ \A w \in 1..Len(rows) : w # v => ~rows'[w].active
    BY <1>2, <1>3, <1>4, <2>1
  <2>4. Versions' = Versions /\ Versions = 1..Len(rows)
    BY <1>4 DEF Versions
  <2>5. Active' = {v}
    BY <1>2, <2>3, <2>4 DEF Active
  <2>6. QED BY <1>2, <1>3, <1>4, <2>2, <2>4, <2>5
<1>6. rows[v].config \in Configs
  BY <1>2 DEF RowSet
<1>7. QED
  BY <1>1, <1>4, <1>5, <1>6
     DEF StoreInv, TypeOK, Restarted, InRepository, NoneActive, InFile, OneActive, Runs, RowSet

LEMMA EditFileKeeps ==
  ASSUME StoreInv, NEW c \in Configs, EditFile(c), hasRepo' = hasRepo
  PROVE  StoreInv'
<1>1. /\ ~running /\ file' = c /\ last' = IF hasRepo /\ rows # << >> THEN last ELSE c
      /\ UNCHANGED <<rows, running, effective, change, cut>>
  BY DEF EditFile
<1>2. QED
  BY <1>1 DEF StoreInv, TypeOK, Restarted, InRepository, NoneActive, InFile, OneActive, Runs,
              Active, Versions

(* A change that is cut short leaves no version active, with a repository; *)
(* without one it leaves the file as it was.                               *)
LEMMA CutKeeps ==
  ASSUME StoreInv, Fail \/ Crash \/ UNCHANGED vars, hasRepo' = hasRepo
  PROVE  StoreInv'
<1>1. UNCHANGED <<rows, file, effective, last>> /\ Active' = Active /\ Versions' = Versions
  BY DEF Fail, Crash, vars, Active, Versions
<1>2. /\ running' \in BOOLEAN /\ (running' => running) /\ cut' \in BOOLEAN
      /\ change' \in {NoChange, change} /\ (~running' => change' = NoChange)
      /\ hasRepo /\ cut' => cut \/ change # NoChange
      /\ ~hasRepo => (cut' => cut)
      /\ hasRepo /\ ~cut' /\ change' = NoChange => ~cut /\ change = NoChange
  <2> hasRepo \in BOOLEAN /\ running \in BOOLEAN /\ cut \in BOOLEAN /\ (~running => change = NoChange)
    BY DEF StoreInv, TypeOK, Restarted
  <2>1. CASE Fail
    BY <2>1, Zenon DEF Fail
  <2>2. CASE Crash
    BY <2>2, Zenon DEF Crash
  <2>3. CASE UNCHANGED vars
    BY <2>3, Zenon DEF vars
  <2>4. QED BY <2>1, <2>2, <2>3
<1>3. TypeOK'
  BY <1>1, <1>2 DEF StoreInv, TypeOK
<1>4. Restarted' /\ InRepository' /\ NoneActive' /\ InFile'
  BY <1>1, <1>2 DEF StoreInv, Restarted, InRepository, NoneActive, InFile, Runs
<1>5. OneActive' /\ Runs'
  BY <1>1, <1>2 DEF StoreInv, OneActive, Runs
<1>6. QED BY <1>3, <1>4, <1>5 DEF StoreInv

LEMMA StoreStep == ASSUME StoreInv, [Next]_vars PROVE StoreInv'
<1>1. hasRepo' = hasRepo
  BY DEF Next, vars
<1>2. QED
  BY <1>1, BootKeeps, BeginKeeps, EndSaveKeeps, EndRollbackKeeps, EditFileKeeps, CutKeeps DEF Next

(* The invariant of the store, over any sequence of saves, rollbacks,      *)
(* failures, crashes and restarts.                                         *)
THEOREM StoreInvariant == Spec => []StoreInv
<1>1. Init => StoreInv
  BY StoreInit
<1>2. StoreInv /\ [Next]_vars => StoreInv'
  BY StoreStep
<1>3. QED BY <1>1, <1>2, PTL DEF Spec

(* The types of the store are kept.                                        *)
THEOREM StoreTypeCorrect == Spec => []TypeOK
BY StoreInvariant, PTL DEF StoreInv

LEMMA StoreInvFacts ==
  ASSUME StoreInv PROVE AtMostOneActive /\ EffectiveIsStored
<1>1. AtMostOneActive
  <2>1. CASE Active = {}
    BY <2>1 DEF AtMostOneActive
  <2>2. CASE Active # {}
    <3>1. hasRepo /\ rows # << >> /\ ~cut /\ change = NoChange
      BY <2>2, NoVersions DEF StoreInv, InFile, NoneActive, TypeOK
    <3>2. PICK v \in Versions : Active = {v}
      BY <3>1 DEF StoreInv, OneActive
    <3>3. QED BY <3>2 DEF AtMostOneActive
  <2>3. QED BY <2>1, <2>2
<1>2. EffectiveIsStored
  <2> SUFFICES ASSUME running, change = NoChange
               PROVE  Stored \subseteq {effective} /\ (Stored = {} => cut)
    BY DEF EffectiveIsStored
  <2>1. effective = last
    BY DEF StoreInv, Runs
  <2>2. CASE hasRepo /\ ~cut
    <3>1. PICK v \in Versions : Active = {v} /\ rows[v].config = last
      BY <2>2 DEF StoreInv, Runs, OneActive
    <3>2. QED BY <2>1, <2>2, <3>1 DEF Stored
  <2>3. CASE hasRepo /\ cut
    BY <2>3 DEF Stored, StoreInv, NoneActive
  <2>4. CASE ~hasRepo
    BY <2>1, <2>4 DEF Stored, StoreInv, InFile
  <2>5. QED BY <2>2, <2>3, <2>4
<1>3. QED BY <1>1, <1>2

(* getActive() never has a choice between rows, though clearing the old    *)
(* version and marking the new one are two statements.                     *)
THEOREM OneVersionActive == Spec => []AtMostOneActive
BY StoreInvariant, StoreInvFacts, PTL

LEMMA RestartStep ==
  ASSUME StoreInv, [Next]_vars, ~running, running'
  PROVE  effective' = IF cut THEN file ELSE last
<1>1. Boot /\ change = NoChange
  BY DEF Next, vars, StoreInv, Restarted, BeginSave, BeginRollback, EndSave, EndRollback,
         Commit, Fail, Crash, EditFile
<1>2. CASE hasRepo /\ Active # {}
  <2>1. rows # << >> /\ ~cut
    BY <1>2, NoVersions DEF StoreInv, NoneActive
  <2>2. PICK v \in Versions : Active = {v} /\ rows[v].config = last
    BY <1>1, <1>2, <2>1 DEF StoreInv, OneActive
  <2>3. QED BY <1>1, <1>2, <2>1, <2>2 DEF Boot
<1>3. CASE ~(hasRepo /\ Active # {})
  <2>1. effective' = file
    BY <1>1, <1>3 DEF Boot
  <2>2. hasRepo /\ rows # << >> /\ ~cut => Active # {}
    BY <1>1 DEF StoreInv, OneActive
  <2>3. QED BY <1>3, <2>1, <2>2 DEF StoreInv, InFile
<1>4. QED BY <1>2, <1>3

-----------------------------------------------------------------------------
(* The gateway's store is that of ConfigVersions: what the registry does   *)
(* changes nothing of it.                                                  *)
THEOREM GatewayRefinesStore == GatewaySpec => Spec
<1>1. GatewayInit => Init
  BY DEF GatewayInit
<1>2. [GatewayNext]_allVars => [Next]_vars
  <2>1. CASE GatewayNext
    BY <2>1 DEF GatewayNext, Start, Edit, EditFailed, ApplyResolvedConfig, Die,
                EditFileOffline, Serve, Serving, Next
  <2>2. CASE UNCHANGED allVars
    BY <2>2 DEF allVars, store, vars
  <2>3. QED BY <2>1, <2>2
<1>3. QED BY <1>1, <1>2, PTL DEF GatewaySpec, Spec

(* The store holds no other configuration than the one in effect, and      *)
(* holds that one unless the last change was cut short.                    *)
THEOREM EffectiveStored == GatewaySpec => []EffectiveIsStored
BY GatewayRefinesStore, StoreInvariant, StoreInvFacts, PTL

(* A restart brings back the configuration committed last, whatever was    *)
(* done to bootstrap.json since; and the file, when a change was cut short. *)
THEOREM RestartsRestore == GatewaySpec => RestartRestores
<1>1. ASSUME StoreInv, [Next]_vars
      PROVE  [~running /\ running' => effective' = IF cut THEN file ELSE last]_vars
  BY <1>1, RestartStep
<1>2. Spec => RestartRestores
  BY <1>1, StoreInvariant, PTL DEF Spec, RestartRestores
<1>3. QED BY <1>2, GatewayRefinesStore, PTL

-----------------------------------------------------------------------------
(* The registry, under saves that are made whenever an administrator likes. *)
Typed ==
    /\ applied \in Numbers
    /\ config \in [Numbers -> Configs]
    /\ held \in [Servers -> Nat]
    /\ since \in 1..applied

\* What waits was applied in peace or later, and what overlaps is crowded.
Overlapping ==
    /\ waiting \subseteq since..applied
    /\ ~running => waiting = {}
    /\ \A m, n \in waiting : m # n => m \in crowded

Holds ==
    \A s \in Servers : held[s] # 0 =>
        /\ <<held[s], s>> \in timers
        /\ held[s] \in since..applied
        /\ s \in config[held[s]].refreshed
        /\ waiting # {} => held[s] \in crowded

Accounted ==
    \A t \in timers :
        /\ t \in Numbers \X Servers
        /\ t[1] \in crowded \/ held[t[2]] = t[1]

Running ==
    running =>
        /\ config[applied] = effective
        /\ applied \notin waiting => \A s \in config[applied].refreshed : held[s] # 0
        /\ waiting = {} => watched # 0

Watching == watched \in {0} \cup since..applied

RegistryInv == Typed /\ Overlapping /\ Holds /\ Accounted /\ Running /\ Watching

GatewayInv == StoreInv /\ RegistryInv

LEMMA NumbersFacts == Numbers \subseteq Nat \ {0} /\ 1 \in Numbers
BY AppliedAssumption DEF Numbers

LEMMA ConfigFacts == ASSUME NEW cfg \in Configs PROVE cfg.refreshed \subseteq Servers
BY ConfigsAssumption DEF Registry!Config

LEMMA HeldIn ==
  ASSUME NEW t PROVE t \in Registry!Held <=> \E s \in Servers : held[s] # 0 /\ t = <<held[s], s>>
BY DEF Registry!Held

-----------------------------------------------------------------------------
LEMMA ProcessBegins ==
  ASSUME StoreInv', NEW S, NEW F, Process(S, F), S \subseteq {1}, ~running' => S = {},
         running' => S # {}
  PROVE  RegistryInv'
<1>1. applied' = 1 /\ 1 \in Numbers /\ since' = 1 /\ watched' = 0 /\ crowded' = {}
  BY NumbersFacts DEF Process
<1>2. effective' \in Configs
  BY DEF StoreInv, TypeOK
<1>3. config' \in [Numbers -> Configs] /\ config'[1] = effective'
  BY <1>1, <1>2 DEF Process
<1>4. waiting' = S /\ timers' = {} /\ held' = [s \in Servers |-> 0]
  BY DEF Process
<1>5. Typed'
  BY <1>1, <1>3, <1>4 DEF Typed, Numbers
<1>6. Overlapping'
  BY <1>1, <1>4 DEF Overlapping
<1>7. Holds' /\ Accounted'
  BY <1>4 DEF Holds, Accounted
<1>8. Running' /\ Watching'
  BY <1>1, <1>3, <1>4 DEF Running, Watching
<1>9. QED BY <1>5, <1>6, <1>7, <1>8 DEF RegistryInv

LEMMA GatewayInitially == ASSUME GatewayInit PROVE GatewayInv
<1>1. StoreInv
  BY StoreInit DEF GatewayInit
<1>2. /\ applied = 1 /\ 1 \in Numbers /\ since = 1 /\ watched = 0 /\ waiting = {} /\ timers = {}
      /\ held = [s \in Servers |-> 0] /\ ~running
  BY NumbersFacts DEF GatewayInit, Init, Down
<1>3. config \in [Numbers -> Configs]
  BY <1>1 DEF GatewayInit, Down, StoreInv, TypeOK
<1>4. Typed /\ Overlapping
  BY <1>2, <1>3 DEF Typed, Overlapping, Numbers
<1>5. Holds /\ Accounted /\ Running /\ Watching
  BY <1>2 DEF Holds, Accounted, Running, Watching
<1>6. QED BY <1>1, <1>4, <1>5 DEF GatewayInv, RegistryInv

(* Applying a configuration clears the timers the map knows of: those left *)
(* were left by starts that overlapped.                                    *)
LEMMA ApplyKeeps ==
  ASSUME GatewayInv, StoreInv', ApplyResolvedConfig PROVE RegistryInv'
<1> DEFINE n == applied + 1
<1>1. /\ applied < MaxApplied /\ applied' = n
      /\ config' = [config EXCEPT ![n] = effective']
      /\ waiting' = waiting \cup {n}
      /\ timers' = timers \ Registry!Held
      /\ held' = [s \in Servers |-> 0]
      /\ watched' = 0
  BY DEF ApplyResolvedConfig, Registry!Apply, Registry!Begun
<1>2. running' = running /\ running
  BY DEF ApplyResolvedConfig, EndSave, EndRollback, Commit, GatewayInv, StoreInv, Restarted
<1>3. /\ waiting = {} => since' = n /\ crowded' = crowded
      /\ waiting # {} => since' = since /\ crowded' = crowded \cup waiting'
  BY <1>1 DEF ApplyResolvedConfig
<1>4. applied \in Nat \ {0} /\ since \in 1..applied /\ waiting \subseteq since..applied
  BY NumbersFacts DEF GatewayInv, RegistryInv, Typed, Overlapping
<1>5. n \in Numbers
  BY <1>1, <1>4, AppliedAssumption DEF Numbers
<1>6. Typed'
  <2>1. config' \in [Numbers -> Configs]
    BY <1>1, <1>5 DEF GatewayInv, RegistryInv, Typed, StoreInv, TypeOK
  <2>2. since' \in 1..n
    BY <1>3, <1>4
  <2>3. QED BY <1>1, <1>5, <2>1, <2>2 DEF Typed
<1>7. Overlapping'
  <2>1. waiting' \subseteq since'..n
    BY <1>1, <1>3, <1>4
  <2>2. \A l, m \in waiting' : l # m => l \in crowded'
    BY <1>1, <1>3
  <2>3. QED BY <1>1, <1>2, <2>1, <2>2 DEF Overlapping
<1>8. Holds'
  BY <1>1 DEF Holds
<1>9. Accounted'
  <2> SUFFICES ASSUME NEW t \in timers, t \notin Registry!Held
               PROVE  t \in Numbers \X Servers /\ t[1] \in crowded'
    BY <1>1 DEF Accounted
  <2>1. t \in Numbers \X Servers /\ (t[1] \in crowded \/ held[t[2]] = t[1])
    BY DEF GatewayInv, RegistryInv, Accounted
  <2>2. t[1] # 0 /\ t[2] \in Servers /\ t = <<t[1], t[2]>>
    BY <2>1, NumbersFacts
  <2>3. held[t[2]] # t[1]
    BY <2>2, HeldIn
  <2>4. QED BY <1>3, <2>1, <2>3
<1>10. Running' /\ Watching'
  <2>1. config'[n] = effective'
    BY <1>1, <1>5 DEF GatewayInv, RegistryInv, Typed
  <2>2. QED BY <1>1, <2>1 DEF Running, Watching
<1>11. QED BY <1>6, <1>7, <1>8, <1>9, <1>10 DEF RegistryInv

(* A timer is forgotten only when another start() sets one for its server. *)
LEMMA StartedKeeps ==
  ASSUME GatewayInv, NEW n \in Numbers, running, Registry!Started(n), UNCHANGED <<vars, overlaps>>
  PROVE  RegistryInv'
<1> DEFINE R == config[n].refreshed
<1>1. /\ n \in waiting /\ waiting' = waiting \ {n} /\ watched' = n
      /\ UNCHANGED <<applied, config, running, effective, since, crowded>>
      /\ timers' = timers \cup {<<n, s>> : s \in R}
      /\ held' = [s \in Servers |-> IF s \in R THEN n ELSE held[s]]
  BY DEF Registry!Started, vars, overlaps
<1>2. /\ Typed /\ Overlapping /\ Holds /\ Accounted /\ Running
  BY DEF GatewayInv, RegistryInv
<1>3. /\ n \in since..applied /\ n # 0 /\ n \in Nat /\ R \subseteq Servers
  <2>1. config[n] \in Configs
    BY <1>2 DEF Typed
  <2>2. QED BY <1>1, <1>2, <2>1, ConfigFacts, NumbersFacts DEF Overlapping
<1>4. waiting' # {} => n \in crowded
  BY <1>1, <1>2 DEF Overlapping
<1>5. \A s \in Servers : held'[s] = IF s \in R THEN n ELSE held[s]
  BY <1>1
<1>6. Typed'
  <2>1. held' \in [Servers -> Nat]
    BY <1>1, <1>2, <1>3 DEF Typed
  <2>2. QED BY <1>1, <1>2, <2>1 DEF Typed
<1>7. Overlapping'
  BY <1>1, <1>2 DEF Overlapping
<1>8. Holds'
  <2> SUFFICES ASSUME NEW s \in Servers, held'[s] # 0
               PROVE  /\ <<held'[s], s>> \in timers'
                      /\ held'[s] \in since..applied
                      /\ s \in config[held'[s]].refreshed
                      /\ waiting' # {} => held'[s] \in crowded
    BY <1>1 DEF Holds
  <2>1. CASE s \in R
    BY <1>1, <1>3, <1>4, <1>5, <2>1
  <2>2. CASE s \notin R
    <3>1. held'[s] = held[s]
      BY <1>5, <2>2
    <3>2. /\ <<held[s], s>> \in timers /\ held[s] \in since..applied
          /\ s \in config[held[s]].refreshed
          /\ waiting # {} => held[s] \in crowded
      BY <1>2, <3>1 DEF Holds
    <3>3. QED BY <1>1, <3>1, <3>2
  <2>3. QED BY <2>1, <2>2
<1>9. Accounted'
  <2> SUFFICES ASSUME NEW t \in timers'
               PROVE  t \in Numbers \X Servers /\ (t[1] \in crowded \/ held'[t[2]] = t[1])
    BY <1>1 DEF Accounted
  <2>1. CASE t \in {<<n, s>> : s \in R}
    BY <1>3, <1>5, <2>1
  <2>2. CASE t \in timers
    <3>1. t \in Numbers \X Servers /\ (t[1] \in crowded \/ held[t[2]] = t[1])
      BY <1>2, <2>2 DEF Accounted
    <3>2. t[2] \in Servers /\ t[1] # 0
      BY <3>1, NumbersFacts
    <3>3. held[t[2]] # 0 => held[t[2]] \in crowded
      BY <1>1, <1>2, <3>2 DEF Holds
    <3>4. QED BY <3>1, <3>2, <3>3
  <2>3. QED BY <1>1, <2>1, <2>2
<1>10. Running'
  <2> SUFFICES /\ config[applied] = effective
               /\ applied \notin waiting' => \A s \in config[applied].refreshed : held'[s] # 0
               /\ watched' # 0
    BY <1>1 DEF Running
  <2>1. config[applied] = effective /\ watched' # 0
    BY <1>1, <1>2, <1>3 DEF Running
  <2>2. ASSUME applied \notin waiting', NEW s \in config[applied].refreshed PROVE held'[s] # 0
    <3>1. s \in Servers
      BY <1>2, ConfigFacts DEF Typed
    <3>2. CASE n = applied
      BY <1>3, <1>5, <3>1, <3>2
    <3>3. CASE n # applied
      BY <1>1, <1>2, <1>3, <1>5, <2>2, <3>1, <3>3 DEF Running
    <3>4. QED BY <3>2, <3>3
  <2>3. QED BY <2>1, <2>2
<1>11. Watching'
  BY <1>1, <1>3 DEF Watching
<1>12. QED BY <1>6, <1>7, <1>8, <1>9, <1>10, <1>11 DEF RegistryInv

(* Steps that leave alone what the invariant is about.                     *)
LEMMA SameRegistry ==
  ASSUME RegistryInv,
         UNCHANGED <<applied, config, waiting, timers, held, watched, since, crowded, running, effective>>
  PROVE  RegistryInv'
BY DEF RegistryInv, Typed, Overlapping, Holds, Accounted, Running, Watching

LEMMA ServeKeeps == ASSUME GatewayInv, Serve PROVE RegistryInv'
<1>1. CASE \E n \in Numbers : Registry!Started(n)
  BY <1>1, StartedKeeps DEF Serve, Serving
<1>2. CASE ~(\E n \in Numbers : Registry!Started(n))
  <2>1. UNCHANGED <<applied, config, waiting, timers, held, watched>>
    BY <1>2 DEF Serve, Serving, Registry!Serve, Registry!Fetch, Registry!Fetched,
                Registry!FetchFailed, Registry!TimerFires, Registry!Refresh, Registry!Answer,
                Registry!Refreshed, Registry!RefreshFailed, Registry!Numbers, Numbers
  <2>2. UNCHANGED <<running, effective, since, crowded>>
    BY DEF Serve, Serving, vars, overlaps
  <2>3. QED BY <2>1, <2>2, SameRegistry DEF GatewayInv
<1>3. QED BY <1>1, <1>2

LEMMA GatewayStep ==
  ASSUME GatewayInv, [GatewayNext]_allVars PROVE GatewayInv'
<1>1. [Next]_vars
  BY DEF GatewayNext, Start, Edit, EditFailed, ApplyResolvedConfig, Die,
         EditFileOffline, Serve, Serving, Next, allVars, store, vars
<1>2. StoreInv'
  BY <1>1, StoreStep DEF GatewayInv
<1>3. RegistryInv'
  <2>1. CASE Start
    <3>1. running'
      BY <2>1 DEF Start, Boot
    <3>2. QED BY <1>2, <2>1, <3>1, ProcessBegins DEF Start
  <2>2. CASE Edit
    <3>1. UNCHANGED <<running, effective>>
      BY <2>2 DEF Edit, BeginSave, BeginRollback
    <3>2. UNCHANGED <<applied, config, waiting, timers, held, watched, since, crowded>>
      BY <2>2 DEF Edit, registry, overlaps
    <3>3. QED BY <3>1, <3>2, SameRegistry DEF GatewayInv
  <2>3. CASE EditFailed
    <3>1. UNCHANGED <<running, effective>>
      BY <2>3 DEF EditFailed, Fail
    <3>2. UNCHANGED <<applied, config, waiting, timers, held, watched, since, crowded>>
      BY <2>3 DEF EditFailed, registry, overlaps
    <3>3. QED BY <3>1, <3>2, SameRegistry DEF GatewayInv
  <2>4. CASE ApplyResolvedConfig
    BY <1>2, <2>4, ApplyKeeps
  <2>5. CASE Die
    <3>1. ~running'
      BY <2>5 DEF Die, Crash
    <3>2. QED BY <1>2, <2>5, <3>1, ProcessBegins DEF Die
  <2>6. CASE EditFileOffline
    <3>1. UNCHANGED <<running, effective>>
      BY <2>6 DEF EditFileOffline, EditFile
    <3>2. UNCHANGED <<applied, config, waiting, timers, held, watched, since, crowded>>
      BY <2>6 DEF EditFileOffline, registry, overlaps
    <3>3. QED BY <3>1, <3>2, SameRegistry DEF GatewayInv
  <2>7. CASE Serve
    BY <2>7, ServeKeeps
  <2>8. CASE UNCHANGED allVars
    <3>1. UNCHANGED <<running, effective, applied, config, waiting, timers, held, watched, since, crowded>>
      BY <2>8 DEF allVars, store, registry, overlaps, vars
    <3>2. QED BY <3>1, SameRegistry DEF GatewayInv
  <2>9. QED BY <2>1, <2>2, <2>3, <2>4, <2>5, <2>6, <2>7, <2>8 DEF GatewayNext
<1>4. QED BY <1>2, <1>3 DEF GatewayInv

(* The invariant of the store and the registry together, over saves made   *)
(* at any time, their failures, crashes and restarts.                      *)
THEOREM GatewayInvariant == GatewaySpec => []GatewayInv
<1>1. GatewayInit => GatewayInv
  BY GatewayInitially
<1>2. GatewayInv /\ [GatewayNext]_allVars => GatewayInv'
  BY GatewayStep
<1>3. QED BY <1>1, <1>2, PTL DEF GatewaySpec

LEMMA GatewayInvFacts == ASSUME GatewayInv PROVE TimersAccounted /\ SettledOnStored
<1>1. TimersAccounted
  <2> SUFFICES ASSUME NEW t \in timers, t \notin Registry!Held PROVE t[1] \in crowded
    BY DEF TimersAccounted
  <2>1. t \in Numbers \X Servers /\ (t[1] \in crowded \/ held[t[2]] = t[1])
    BY DEF GatewayInv, RegistryInv, Accounted
  <2>2. t[1] # 0 /\ t[2] \in Servers /\ t = <<t[1], t[2]>>
    BY <2>1, NumbersFacts
  <2>3. QED BY <2>1, <2>2, HeldIn
<1>2. SettledOnStored
  <2> SUFFICES ASSUME Listening, waiting = {}, change = NoChange
               PROVE  /\ Stored \subseteq {config[applied]}
                      /\ watched \in since..applied
                      /\ \A s \in config[applied].refreshed : <<held[s], s>> \in timers
                      /\ \A t \in Registry!Held :
                            t[1] \in since..applied /\ t[2] \in config[t[1]].refreshed
    BY DEF SettledOnStored
  <2>1. running /\ Typed /\ Holds /\ Running /\ Watching
    BY DEF GatewayInv, RegistryInv, Listening
  <2>2. Stored \subseteq {config[applied]}
    BY <2>1, StoreInvFacts DEF GatewayInv, EffectiveIsStored, Running
  <2>3. watched \in since..applied
    BY <2>1 DEF Running, Watching
  <2>4. ASSUME NEW s \in config[applied].refreshed PROVE <<held[s], s>> \in timers
    <3>1. s \in Servers
      BY <2>1, ConfigFacts DEF Typed
    <3>2. QED BY <2>1, <3>1 DEF Running, Holds
  <2>5. ASSUME NEW t \in Registry!Held
        PROVE  t[1] \in since..applied /\ t[2] \in config[t[1]].refreshed
    BY <2>1, HeldIn DEF Holds
  <2>6. QED BY <2>2, <2>3, <2>4, <2>5
<1>3. QED BY <1>1, <1>2

(* A timer that stop() does not know of was set by a start() that          *)
(* overlapped another: no other sequence of saves, failures and restarts   *)
(* leaves one behind.                                                      *)
THEOREM TimersAccountedFor == GatewaySpec => []TimersAccounted
BY GatewayInvariant, GatewayInvFacts, PTL

(* Once every start() has come to its end, what is watched and refreshed   *)
(* is no older than the last configuration applied in peace, all that the  *)
(* configuration in effect refreshes is refreshed, and a restart would     *)
(* find no other configuration in the store.                               *)
THEOREM SettlesOnStored == GatewaySpec => []SettledOnStored
BY GatewayInvariant, GatewayInvFacts, PTL

-----------------------------------------------------------------------------
(***************************************************************************)
(* Configurations edited: theorems about ConfigEditing, for any servers,   *)
(* namespaces, roles, tokens, tabs and bounds.                             *)
(*                                                                         *)
(* Every step of the system is a save of one of four kinds, or none, and   *)
(* moves at most one tab (StepFacts).  What an edit, a token route or a    *)
(* page sends is normalised and validated, and then in order               *)
(* (NormalizedResolved); what is restored was the configuration once.      *)
(* That roles name no namespace that is gone (Live) is not looked at when  *)
(* something is saved: it holds of what a tab shows, and of what it has    *)
(* got so far of what it has asked for, and every edit of it keeps it.     *)
(***************************************************************************)

LEMMA PartialFacts ==
  ASSUME NEW S, NEW T
  PROVE  /\ \A f \in Partial(S, T) :
              /\ DOMAIN f \subseteq S /\ f = [x \in DOMAIN f |-> f[x]]
              /\ \A x \in DOMAIN f : f[x] \in T
         /\ \A f : /\ DOMAIN f \subseteq S /\ f = [x \in DOMAIN f |-> f[x]]
                   /\ \A x \in DOMAIN f : f[x] \in T
                   => f \in Partial(S, T)
<1>1. ASSUME NEW f \in Partial(S, T)
      PROVE  /\ DOMAIN f \subseteq S /\ f = [x \in DOMAIN f |-> f[x]]
             /\ \A x \in DOMAIN f : f[x] \in T
  <2>1. PICK D \in SUBSET S : f \in [D -> T]
    BY DEF Partial
  <2>2. QED BY <2>1
<1>2. ASSUME NEW f, DOMAIN f \subseteq S, f = [x \in DOMAIN f |-> f[x]],
             \A x \in DOMAIN f : f[x] \in T
      PROVE  f \in Partial(S, T)
  <2>1. f \in [DOMAIN f -> T]
    BY <1>2
  <2>2. QED BY <1>2, <2>1 DEF Partial
<1>3. QED BY <1>1, <1>2

LEMMA FunctionFacts ==
  ASSUME NEW S, NEW T, NEW D \in SUBSET S, NEW f \in [D -> T]
  PROVE  f \in Partial(S, T)
BY DEF Partial

LEMMA WithValues ==
  ASSUME NEW f, NEW x, NEW v
  PROVE  /\ DOMAIN With(f, x, v) = DOMAIN f \cup {x}
         /\ With(f, x, v)[x] = v
         /\ \A y \in DOMAIN f \ {x} : With(f, x, v)[y] = f[y]
BY DEF With

LEMMA WithFacts ==
  ASSUME NEW S, NEW T, NEW f \in Partial(S, T), NEW x \in S, NEW v \in T
  PROVE  With(f, x, v) \in Partial(S, T)
<1>1. DOMAIN f \subseteq S /\ \A y \in DOMAIN f : f[y] \in T
  BY PartialFacts
<1>2. With(f, x, v) \in [DOMAIN f \cup {x} -> T]
  BY <1>1 DEF With
<1>3. DOMAIN f \cup {x} \subseteq S
  BY <1>1
<1>4. QED BY <1>2, <1>3, FunctionFacts

LEMMA WithoutFacts ==
  ASSUME NEW S, NEW T, NEW f \in Partial(S, T), NEW x
  PROVE  /\ Without(f, x) \in Partial(S, T)
         /\ DOMAIN Without(f, x) = DOMAIN f \ {x}
         /\ \A y \in DOMAIN f \ {x} : Without(f, x)[y] = f[y]
<1>1. DOMAIN f \subseteq S /\ \A y \in DOMAIN f : f[y] \in T
  BY PartialFacts
<1>2. Without(f, x) \in [DOMAIN f \ {x} -> T]
  BY <1>1 DEF Without
<1>3. QED BY <1>1, <1>2 DEF Without, Partial

-----------------------------------------------------------------------------
(* Configurations, and the policies that pages show.                       *)

ServerMaps == Partial(ServerIds, SUBSET Namespaces)
NamespaceMaps == Partial(Namespaces, SUBSET Roles)
RoleMaps == Partial(Roles, SUBSET Namespaces)
TokenMaps == Partial(Tokens, SUBSET Roles)
Ways == {"static_key", "oauth", "hybrid"}

LEMMA ConfFacts ==
  /\ \A c \in Conf :
       /\ c.servers \in ServerMaps /\ c.namespaces \in NamespaceMaps /\ c.roles \in RoleMaps
       /\ c.packs \subseteq Namespaces /\ c.required \subseteq Namespaces
       /\ c.mode \in Ways /\ c.tokens \in TokenMaps
  /\ \A c \in Conf :
       /\ \A f \in ServerMaps : [c EXCEPT !.servers = f] \in Conf
       /\ \A f \in NamespaceMaps : [c EXCEPT !.namespaces = f] \in Conf
       /\ \A f \in RoleMaps : [c EXCEPT !.roles = f] \in Conf
       /\ \A f \in TokenMaps : [c EXCEPT !.tokens = f] \in Conf
BY DEF Conf, ServerMaps, NamespaceMaps, RoleMaps, TokenMaps, Ways

LEMMA MissingFacts ==
  ASSUME NEW c \in Conf
  PROVE  /\ Missing(c) \subseteq Namespaces
         /\ Missing(c) \cap DOMAIN c.namespaces = {}
         /\ \A s \in DOMAIN c.servers : c.servers[s] \subseteq DOMAIN c.namespaces \cup Missing(c)
<1>1. c.servers \in ServerMaps
  BY ConfFacts
<1>2. \A s \in DOMAIN c.servers : c.servers[s] \subseteq Namespaces
  BY <1>1, PartialFacts DEF ServerMaps
<1>3. QED BY <1>2 DEF Missing

LEMMA NormalizedFacts ==
  ASSUME NEW c \in Conf
  PROVE  /\ Normalized(c) \in Conf
         /\ Normalized(c).servers = c.servers
         /\ Normalized(c).packs = c.packs
         /\ Normalized(c).required = c.required
         /\ DOMAIN Normalized(c).namespaces = DOMAIN c.namespaces \cup Missing(c)
         /\ \A n \in DOMAIN c.namespaces :
               Normalized(c).namespaces[n] = c.namespaces[n] \cap DOMAIN c.roles
         /\ \A n \in Missing(c) : Normalized(c).namespaces[n] = DOMAIN c.roles
         /\ DOMAIN Normalized(c).roles = DOMAIN c.roles
         /\ \A r \in DOMAIN c.roles : Normalized(c).roles[r] = c.roles[r] \cup Missing(c)
         /\ DOMAIN Normalized(c).tokens = DOMAIN c.tokens
         /\ \A t \in DOMAIN c.tokens :
               Normalized(c).tokens[t] = c.tokens[t] \cap DOMAIN c.roles
<1> DEFINE namespaces == [n \in DOMAIN c.namespaces \cup Missing(c) |->
                            IF n \in Missing(c) THEN DOMAIN c.roles
                            ELSE c.namespaces[n] \cap DOMAIN c.roles]
           roles == [r \in DOMAIN c.roles |-> c.roles[r] \cup Missing(c)]
           tokens == [t \in DOMAIN c.tokens |-> c.tokens[t] \cap DOMAIN c.roles]
<1>1. /\ c.namespaces \in NamespaceMaps /\ c.roles \in RoleMaps /\ c.tokens \in TokenMaps
  BY ConfFacts
<1>2. /\ DOMAIN c.namespaces \subseteq Namespaces
      /\ DOMAIN c.roles \subseteq Roles /\ \A r \in DOMAIN c.roles : c.roles[r] \subseteq Namespaces
      /\ DOMAIN c.tokens \subseteq Tokens
  BY <1>1, PartialFacts DEF NamespaceMaps, RoleMaps, TokenMaps
<1>3. Missing(c) \subseteq Namespaces /\ Missing(c) \cap DOMAIN c.namespaces = {}
  BY MissingFacts
<1>4. /\ namespaces \in [DOMAIN c.namespaces \cup Missing(c) -> SUBSET Roles]
      /\ roles \in [DOMAIN c.roles -> SUBSET Namespaces]
      /\ tokens \in [DOMAIN c.tokens -> SUBSET Roles]
  BY <1>2, <1>3
<1>5. namespaces \in NamespaceMaps /\ roles \in RoleMaps /\ tokens \in TokenMaps
  BY <1>2, <1>3, <1>4, FunctionFacts DEF NamespaceMaps, RoleMaps, TokenMaps
<1>6. Normalized(c) = [c EXCEPT !.namespaces = namespaces, !.roles = roles, !.tokens = tokens]
  BY DEF Normalized
<1> HIDE DEF namespaces, roles, tokens
<1>7. /\ Normalized(c) \in Conf
      /\ Normalized(c).servers = c.servers
      /\ Normalized(c).packs = c.packs /\ Normalized(c).required = c.required
      /\ Normalized(c).namespaces = namespaces
      /\ Normalized(c).roles = roles
      /\ Normalized(c).tokens = tokens
  BY <1>5, <1>6 DEF Conf, NamespaceMaps, RoleMaps, TokenMaps
<1>8. QED BY <1>3, <1>7 DEF namespaces, roles, tokens

(* No role may enter a namespace that is not there. *)
Live(c) == \A r \in DOMAIN c.roles : c.roles[r] \subseteq DOMAIN c.namespaces

LEMMA NormalizedResolved ==
  ASSUME NEW c \in Conf, Valid(Normalized(c))
  PROVE  /\ Resolved(Normalized(c))
         /\ Live(c) => Live(Normalized(c))
<1>1. /\ \A n \in DOMAIN Normalized(c).namespaces :
              Normalized(c).namespaces[n] \subseteq DOMAIN Normalized(c).roles
      /\ \A t \in DOMAIN Normalized(c).tokens :
              Normalized(c).tokens[t] \subseteq DOMAIN Normalized(c).roles
  BY NormalizedFacts
<1>2. Resolved(Normalized(c))
  BY <1>1 DEF Resolved, Valid
<1>3. Live(c) => Live(Normalized(c))
  BY NormalizedFacts DEF Live
<1>4. QED BY <1>2, <1>3

-----------------------------------------------------------------------------
(* What is open in a tab: what it shows and what it has got so far are     *)
(* parts of configurations.                                                *)

MemberMaps == Partial(Namespaces, SUBSET ServerIds)

Shown == [servers : {<< >>}, namespaces : NamespaceMaps, roles : RoleMaps,
          packs : SUBSET Namespaces, required : SUBSET Namespaces, mode : Ways,
          tokens : TokenMaps]

Names == {"policies", "servers", "members"}

Values == Shown \cup ServerMaps \cup MemberMaps

Copies == {f \in Partial(Names, Values) :
              /\ "policies" \in DOMAIN f => f["policies"] \in Shown
              /\ "servers" \in DOMAIN f => f["servers"] \in ServerMaps
              /\ "members" \in DOMAIN f => f["members"] \in MemberMaps}

PageRecord == [kind : Kinds, copy : Copies, asked : SUBSET Names, got : Copies,
               series : Puts, puts : Puts]

PageOK(s) ==
    /\ s \in PageRecord
    /\ s.asked \subseteq Parts[s.kind]
    /\ DOMAIN s.copy \in {{}, Parts[s.kind]}
    /\ DOMAIN s.got = IF s.asked = {} THEN {} ELSE Parts[s.kind] \ s.asked
    /\ s.puts # {} => s.asked = {}

EditingInv ==
    /\ conf \in Conf
    /\ stored \subseteq Conf
    /\ page \in [Pages -> PageRecord] /\ \A p \in Pages : PageOK(page[p])
    /\ saves \in 0..MaxSaves

(* A page whose policies are as live as the configuration was.             *)
LivePage(s) ==
    /\ "policies" \in DOMAIN s.copy => Live(s.copy["policies"])
    /\ "policies" \in DOMAIN s.got => Live(s.got["policies"])

LEMMA PartsFacts ==
  /\ Kinds = {"none", "config", "access", "servers", "namespaces"}
  /\ \A k \in Kinds : Parts[k] \subseteq Names
  /\ Parts["none"] = {}
  /\ "policies" \in Parts["config"] \cap Parts["access"] \cap Parts["servers"] \cap Parts["namespaces"]
  /\ "servers" \in Parts["access"] \cap Parts["servers"] \cap Parts["namespaces"]
  /\ "members" \in Parts["namespaces"]
BY DEF Kinds, Parts, Names

LEMMA EmptyCopy == << >> \in Copies /\ DOMAIN << >> = {}
<1>1. DOMAIN << >> = {} /\ << >> = [x \in DOMAIN << >> |-> << >>[x]]
  OBVIOUS
<1>2. << >> \in Partial(Names, Values)
  BY <1>1, PartialFacts
<1>3. QED BY <1>1, <1>2 DEF Copies

LEMMA OpenedFacts ==
  ASSUME NEW k \in Kinds
  PROVE  PageOK(Opened(k)) /\ LivePage(Opened(k))
<1>1. Parts[k] \subseteq Names
  BY PartsFacts
<1>2. {} \in Puts
  BY DEF Puts
<1>3. Opened(k) \in PageRecord
  BY <1>1, <1>2, EmptyCopy DEF Opened, PageRecord
<1>4. QED BY <1>3, EmptyCopy DEF PageOK, LivePage, Opened

LEMMA AnswerFacts ==
  ASSUME conf \in Conf
  PROVE  /\ Answer("policies") \in Shown /\ (Live(conf) => Live(Answer("policies")))
         /\ Answer("servers") \in ServerMaps
         /\ Answer("members") \in MemberMaps
<1>1. /\ conf.servers \in ServerMaps /\ conf.namespaces \in NamespaceMaps
  BY ConfFacts
<1>2. ListPolicies(conf) \in Shown /\ (Live(conf) => Live(ListPolicies(conf)))
  BY DEF Shown, ListPolicies, Conf, Live, NamespaceMaps, RoleMaps, TokenMaps, Ways
<1>3. ListServers(conf) \in ServerMaps
  BY <1>1 DEF ListServers
<1>4. ListNamespaces(conf) \in MemberMaps
  <2>1. DOMAIN conf.namespaces \subseteq Namespaces /\ DOMAIN conf.servers \subseteq ServerIds
    BY <1>1, PartialFacts DEF ServerMaps, NamespaceMaps
  <2>2. ListNamespaces(conf) \in [DOMAIN conf.namespaces -> SUBSET ServerIds]
    BY <2>1 DEF ListNamespaces
  <2>3. QED BY <2>1, <2>2, FunctionFacts DEF MemberMaps
<1>5. QED BY <1>2, <1>3, <1>4 DEF Answer

LEMMA GotFacts ==
  ASSUME conf \in Conf, NEW f \in Copies, NEW x \in Names
  PROVE  /\ With(f, x, Answer(x)) \in Copies
         /\ DOMAIN With(f, x, Answer(x)) = DOMAIN f \cup {x}
         /\ \A y \in DOMAIN f \ {x} : With(f, x, Answer(x))[y] = f[y]
         /\ With(f, x, Answer(x))[x] = Answer(x)
<1>1. Answer(x) \in Values
  BY AnswerFacts DEF Names, Values
<1>2. f \in Partial(Names, Values)
  BY DEF Copies
<1> DEFINE v == Answer(x)
<1> HIDE DEF v
<1>3. /\ DOMAIN With(f, x, v) = DOMAIN f \cup {x}
      /\ With(f, x, v)[x] = v
      /\ \A y \in DOMAIN f \ {x} : With(f, x, v)[y] = f[y]
  BY DEF With
<1>4. With(f, x, v) \in Partial(Names, Values)
  BY <1>1, <1>2, WithFacts DEF v
<1>5. With(f, x, v) \in Copies
  BY <1>3, <1>4, AnswerFacts DEF Copies, Names, v
<1>6. QED BY <1>3, <1>5 DEF v

(* What the steps of a page leave in its tab.                              *)
PageMoves(p) ==
    \E s : /\ page' = [page EXCEPT ![p] = s]
           /\ PageOK(s)
           /\ Live(conf) /\ LivePage(page[p]) => LivePage(s)

LEMMA PageStays ==
  ASSUME EditingInv, NEW p \in Pages, UNCHANGED page
  PROVE  PageMoves(p)
<1>1. page' = [page EXCEPT ![p] = page[p]]
  BY DEF EditingInv
<1>2. QED BY <1>1 DEF EditingInv, PageMoves

LEMMA OpenMoves ==
  ASSUME EditingInv, NEW p \in Pages, NEW k \in Kinds, Open(p, k)
  PROVE  PageMoves(p)
BY OpenedFacts DEF Open, PageMoves

LEMMA LoadMoves ==
  ASSUME EditingInv, NEW p \in Pages, Load(p)
  PROVE  PageMoves(p)
<1> DEFINE old == page[p]
<1>1. PageOK(old) /\ old \in PageRecord /\ conf \in Conf
  BY DEF EditingInv
<1>2. PICK x \in old.asked : page' = [page EXCEPT ![p] = Loaded(old, x)]
  BY DEF Load
<1> DEFINE rest == old.asked \ {x}
           got == With(old.got, x, Answer(x))
           new == Loaded(old, x)
<1>3. new = [old EXCEPT !.asked = rest,
                        !.got = IF rest = {} THEN << >> ELSE got,
                        !.copy = IF rest = {} THEN got ELSE old.copy]
  BY DEF Loaded
<1>4. x \in Names /\ old.got \in Copies
  BY <1>1 DEF PageRecord
<1>5. /\ got \in Copies
      /\ DOMAIN got = DOMAIN old.got \cup {x}
      /\ \A y \in DOMAIN old.got \ {x} : got[y] = old.got[y]
      /\ got[x] = Answer(x)
  BY <1>1, <1>4, GotFacts
<1>6. Live(conf) /\ LivePage(old) => ("policies" \in DOMAIN got => Live(got["policies"]))
  BY <1>1, <1>5, AnswerFacts DEF LivePage
<1> HIDE DEF got, new
<1>7. /\ new \in PageRecord /\ new.kind = old.kind /\ new.asked = rest
      /\ new.puts = old.puts
      /\ new.got = (IF rest = {} THEN << >> ELSE got)
      /\ new.copy = (IF rest = {} THEN got ELSE old.copy)
  BY <1>1, <1>3, <1>5, EmptyCopy DEF PageRecord
<1>8. DOMAIN got = Parts[old.kind] \ rest
  BY <1>1, <1>5 DEF PageOK
<1>9. PageOK(new)
  BY <1>1, <1>7, <1>8, EmptyCopy DEF PageOK
<1>10. Live(conf) /\ LivePage(old) => LivePage(new)
  BY <1>6, <1>7, EmptyCopy DEF LivePage
<1>11. QED BY <1>2, <1>9, <1>10 DEF PageMoves, new

LEMMA LoadFailsMoves ==
  ASSUME EditingInv, NEW p \in Pages, LoadFails(p)
  PROVE  PageMoves(p)
<1> DEFINE old == page[p]
           new == [old EXCEPT !.asked = {}, !.got = << >>]
<1>1. page' = [page EXCEPT ![p] = new] /\ PageOK(old) /\ old \in PageRecord
  BY DEF LoadFails, EditingInv
<1>2. /\ new \in PageRecord /\ new.kind = old.kind /\ new.copy = old.copy
      /\ new.asked = {} /\ new.got = << >> /\ new.puts = old.puts
  BY <1>1, EmptyCopy DEF PageRecord
<1>3. PageOK(new) /\ (LivePage(old) => LivePage(new))
  BY <1>1, <1>2, EmptyCopy DEF PageOK, LivePage
<1>4. QED BY <1>1, <1>3 DEF PageMoves

LEMMA ThenLoadsMoves ==
  ASSUME EditingInv, NEW p \in Pages, page[p].asked = {}, page[p].puts = {}, ThenLoads(p)
  PROVE  PageMoves(p)
<1> DEFINE old == page[p]
           new == [old EXCEPT !.asked = Parts[old.kind]]
<1>1. CASE UNCHANGED page
  BY <1>1, PageStays
<1>2. CASE page' = [page EXCEPT ![p] = new]
  <2>1. PageOK(old) /\ old \in PageRecord /\ Parts[old.kind] \subseteq Names
    BY PartsFacts DEF EditingInv, PageRecord
  <2>2. /\ new \in PageRecord /\ new.kind = old.kind /\ new.copy = old.copy
        /\ new.asked = Parts[old.kind] /\ new.got = old.got /\ new.puts = {}
    BY <2>1 DEF PageRecord
  <2>3. PageOK(new) /\ (LivePage(old) => LivePage(new))
    BY <2>1, <2>2 DEF PageOK, LivePage
  <2>4. QED BY <1>2, <2>3 DEF PageMoves
<1>3. page' = [page EXCEPT ![p].asked = Parts[page[p].kind]] =>
          page' = [page EXCEPT ![p] = new]
  OBVIOUS
<1>4. QED BY <1>1, <1>2, <1>3 DEF ThenLoads

LEMMA SendsMoves ==
  ASSUME EditingInv, NEW p \in Pages, page[p].asked = {}, NEW puts \in Puts, Sends(p, puts)
  PROVE  PageMoves(p)
<1> DEFINE old == page[p]
           series == IF old.kind = "access" THEN puts ELSE {}
           new == [old EXCEPT !.puts = puts, !.series = series]
<1>1. page' = [page EXCEPT ![p] = new] /\ PageOK(old) /\ old \in PageRecord
  BY DEF Sends, EditingInv
<1>2. series \in Puts
  BY DEF Puts
<1>3. /\ new \in PageRecord /\ new.kind = old.kind /\ new.copy = old.copy
      /\ new.asked = old.asked /\ new.got = old.got
  BY <1>1, <1>2 DEF PageRecord
<1>4. PageOK(new) /\ (LivePage(old) => LivePage(new))
  BY <1>1, <1>3 DEF PageOK, LivePage
<1>5. QED BY <1>1, <1>4 DEF PageMoves
(* A page that shows something and is not busy has all it loads.           *)
LEMMA ReadyFacts ==
  ASSUME EditingInv, NEW p \in Pages, NEW k \in Kinds, Ready(p, k)
  PROVE  /\ PageOK(page[p]) /\ page[p] \in PageRecord /\ page[p].kind = k
         /\ page[p].asked = {} /\ DOMAIN page[p].copy = Parts[k]
         /\ "policies" \in Parts[k] => PoliciesOf(p) \in Shown
         /\ "servers" \in Parts[k] => ServersOf(p) \in ServerMaps
         /\ "members" \in Parts[k] => MembersOf(p) \in MemberMaps
         /\ "policies" \in Parts[k] /\ LivePage(page[p]) => Live(PoliciesOf(p))
<1>1. /\ PageOK(page[p]) /\ page[p] \in PageRecord /\ page[p].kind = k
      /\ page[p].asked = {} /\ DOMAIN page[p].copy = Parts[k]
  BY DEF EditingInv, Ready, PageOK
<1>2. page[p].copy \in Copies
  BY <1>1 DEF PageRecord
<1>3. QED BY <1>1, <1>2 DEF Copies, PoliciesOf, ServersOf, MembersOf, LivePage

LEMMA AllSentFacts ==
  ASSUME EditingInv, NEW p \in Pages, page[p].asked = {}
  PROVE  PageOK(AllSent(p)) /\ (LivePage(page[p]) => LivePage(AllSent(p)))
<1> DEFINE old == page[p]
<1>1. PageOK(old) /\ old \in PageRecord /\ old.copy \in Copies /\ {} \in Puts
  BY DEF EditingInv, PageRecord, Puts
<1>2. CASE old.kind = "access"
  <2> DEFINE noted(s) == LET new == {u \in old.series : u[1] = s}
                         IN  IF new = {} THEN old.copy["servers"][s] ELSE (CHOOSE u \in new : TRUE)[2]
             servers == [s \in DOMAIN old.copy["servers"] |-> noted(s)]
             copy == [old.copy EXCEPT !["servers"] = servers]
             new == [old EXCEPT !.copy = copy, !.puts = {}, !.series = {}]
  <2>1. AllSent(p) = new
    BY <1>2 DEF AllSent
  <2>2. "servers" \in DOMAIN old.copy => servers \in ServerMaps
    <3> SUFFICES ASSUME "servers" \in DOMAIN old.copy PROVE servers \in ServerMaps
      OBVIOUS
    <3>1. old.copy["servers"] \in ServerMaps
      BY <1>1 DEF Copies
    <3>2. /\ DOMAIN old.copy["servers"] \subseteq ServerIds
          /\ \A s \in DOMAIN old.copy["servers"] : old.copy["servers"][s] \in SUBSET Namespaces
      BY <3>1, PartialFacts DEF ServerMaps
    <3>3. \A u \in old.series : u[2] \in SUBSET Namespaces
      BY <1>1 DEF PageRecord, Puts
    <3>4. \A s \in DOMAIN old.copy["servers"] : noted(s) \in SUBSET Namespaces
      BY <3>2, <3>3
    <3> HIDE DEF noted
    <3>5. servers \in [DOMAIN old.copy["servers"] -> SUBSET Namespaces]
      BY <3>4
    <3>6. QED BY <3>2, <3>5, FunctionFacts DEF ServerMaps
  <2> HIDE DEF servers
  <2>3. /\ DOMAIN copy = DOMAIN old.copy
        /\ \A x \in DOMAIN copy : copy[x] = IF x = "servers" THEN servers ELSE old.copy[x]
    OBVIOUS
  <2>4. copy \in Copies
    <3>1. DOMAIN old.copy \subseteq Names /\ \A x \in DOMAIN old.copy : old.copy[x] \in Values
      BY <1>1, PartialFacts DEF Copies
    <3>2. copy \in [DOMAIN old.copy -> Values]
      BY <2>2, <3>1 DEF Values
    <3>3. copy \in Partial(Names, Values)
      BY <3>1, <3>2, FunctionFacts
    <3>4. QED BY <1>1, <2>2, <2>3, <3>3 DEF Copies
  <2> HIDE DEF copy
  <2>5. /\ new \in PageRecord /\ new.kind = old.kind /\ new.copy = copy
        /\ new.asked = old.asked /\ new.got = old.got /\ new.puts = {}
    BY <1>1, <2>4 DEF PageRecord
  <2>6. QED BY <1>1, <2>1, <2>3, <2>5 DEF PageOK, LivePage
<1>3. CASE old.kind # "access"
  <2> DEFINE new == [old EXCEPT !.asked = Parts[old.kind], !.puts = {}, !.series = {}]
  <2>1. AllSent(p) = new
    BY <1>3 DEF AllSent
  <2>2. Parts[old.kind] \subseteq Names
    BY <1>1, PartsFacts DEF PageRecord
  <2>3. /\ new \in PageRecord /\ new.kind = old.kind /\ new.copy = old.copy
        /\ new.asked = Parts[old.kind] /\ new.got = old.got /\ new.puts = {}
    BY <1>1, <2>2 DEF PageRecord
  <2>4. QED BY <1>1, <2>1, <2>3 DEF PageOK, LivePage
<1>4. QED BY <1>2, <1>3

LEMMA SendPutMoves ==
  ASSUME EditingInv, NEW p \in Pages, SendPut(p)
  PROVE  PageMoves(p)
<1> DEFINE old == page[p]
<1>1. PageOK(old) /\ old \in PageRecord
  BY DEF EditingInv
<1>2. PICK u \in old.puts :
        page' = [page EXCEPT ![p] = IF old.puts = {u} THEN AllSent(p)
                                    ELSE [old EXCEPT !.puts = old.puts \ {u}]]
  BY DEF SendPut
<1>3. old.asked = {}
  BY <1>1, <1>2 DEF PageOK
<1>4. CASE old.puts = {u}
  BY <1>2, <1>3, <1>4, AllSentFacts DEF PageMoves
<1>5. CASE old.puts # {u}
  <2> DEFINE new == [old EXCEPT !.puts = old.puts \ {u}]
  <2>1. old.puts \ {u} \in Puts
    BY <1>1 DEF PageRecord, Puts
  <2>2. /\ new \in PageRecord /\ new.kind = old.kind /\ new.copy = old.copy
        /\ new.asked = old.asked /\ new.got = old.got
    BY <1>1, <2>1 DEF PageRecord
  <2>3. PageOK(new) /\ (LivePage(old) => LivePage(new))
    BY <1>1, <1>3, <2>2 DEF PageOK, LivePage
  <2>4. page' = [page EXCEPT ![p] = new]
    BY <1>2, <1>5
  <2>5. QED BY <2>3, <2>4 DEF PageMoves
<1>6. QED BY <1>4, <1>5

LEMMA PutFailsMoves ==
  ASSUME EditingInv, NEW p \in Pages, PutFails(p)
  PROVE  PageMoves(p)
<1> DEFINE old == page[p]
           new == [old EXCEPT !.puts = {}, !.series = {}]
<1>1. page' = [page EXCEPT ![p] = new] /\ PageOK(old) /\ old \in PageRecord /\ {} \in Puts
  BY DEF PutFails, EditingInv, Puts
<1>2. /\ new \in PageRecord /\ new.kind = old.kind /\ new.copy = old.copy
      /\ new.asked = old.asked /\ new.got = old.got /\ new.puts = {}
  BY <1>1 DEF PageRecord
<1>3. PageOK(new) /\ (LivePage(old) => LivePage(new))
  BY <1>1, <1>2 DEF PageOK, LivePage
<1>4. QED BY <1>1, <1>3 DEF PageMoves

-----------------------------------------------------------------------------
(* What a step does to the configuration: one of four kinds of save, or    *)
(* nothing.                                                                *)

(* c differs from the configuration in servers, and in namespaces that are *)
(* new or gone.                                                            *)
Edited(c) ==
    /\ c.tokens = conf.tokens
    /\ DOMAIN c.roles = DOMAIN conf.roles
    /\ \A n \in DOMAIN conf.namespaces :
          \/ n \notin DOMAIN c.namespaces \cup Missing(c)
          \/ /\ n \in DOMAIN c.namespaces
             /\ c.namespaces[n] = conf.namespaces[n]
             /\ \A r \in DOMAIN conf.roles : n \in c.roles[r] <=> n \in conf.roles[r]
    /\ Live(conf) => Live(c)

AllPagesLive == \A p \in Pages : LivePage(page[p])

EditStep == \E c \in Conf : Edited(c) /\ Save(c, Other)
TokenStep == \E f \in TokenMaps : Save([conf EXCEPT !.tokens = f], Token)
PolicyStep == \E q \in Shown : (AllPagesLive => Live(q)) /\ PutPolicies(q)
RestoreStep == \E c \in stored : \/ \E f \in TokenMaps : Save([c EXCEPT !.tokens = f], Restore)
                                 \/ Rollback(c)

AdminStep == EditStep \/ TokenStep \/ PolicyStep \/ RestoreStep \/ UNCHANGED admin

LEMMA ServersEdit ==
  ASSUME EditingInv, NEW f \in ServerMaps, Save([conf EXCEPT !.servers = f], Other)
  PROVE  EditStep
<1> DEFINE c == [conf EXCEPT !.servers = f]
<1>1. conf \in Conf
  BY DEF EditingInv
<1>2. c \in Conf
  BY <1>1, ConfFacts
<1>3. c.tokens = conf.tokens /\ c.roles = conf.roles /\ c.namespaces = conf.namespaces
  BY <1>1 DEF Conf
<1>4. Edited(c)
  BY <1>3 DEF Edited, Live
<1>5. QED BY <1>2, <1>4 DEF EditStep

LEMMA CreateServerEdit ==
  ASSUME EditingInv, NEW s \in ServerIds, NEW ns \in SUBSET Namespaces, CreateServer(s, ns)
  PROVE  EditStep
<1>1. conf.servers \in ServerMaps
  BY ConfFacts DEF EditingInv
<1>2. With(conf.servers, s, ns) \in ServerMaps
  BY <1>1, WithFacts DEF ServerMaps
<1>3. QED BY <1>2, ServersEdit DEF CreateServer

LEMMA UpdateServerEdit ==
  ASSUME EditingInv, NEW s \in ServerIds, NEW ns \in SUBSET Namespaces, UpdateServer(s, ns)
  PROVE  EditStep
<1> DEFINE f == [conf.servers EXCEPT ![s] = ns]
<1>1. conf.servers \in ServerMaps /\ s \in DOMAIN conf.servers
  BY ConfFacts DEF EditingInv, UpdateServer
<1>2. /\ DOMAIN conf.servers \subseteq ServerIds
      /\ \A x \in DOMAIN conf.servers : conf.servers[x] \in SUBSET Namespaces
  BY <1>1, PartialFacts DEF ServerMaps
<1>3. f \in [DOMAIN conf.servers -> SUBSET Namespaces]
  BY <1>2
<1>4. f \in ServerMaps
  BY <1>2, <1>3, FunctionFacts DEF ServerMaps
<1>5. Save([conf EXCEPT !.servers = f], Other)
  BY DEF UpdateServer
<1>6. QED BY <1>4, <1>5, ServersEdit

LEMMA DeleteServerEdit ==
  ASSUME EditingInv, NEW s \in ServerIds, DeleteServer(s)
  PROVE  EditStep
<1>1. conf.servers \in ServerMaps
  BY ConfFacts DEF EditingInv
<1>2. Without(conf.servers, s) \in ServerMaps
  BY <1>1, WithoutFacts DEF ServerMaps
<1>3. QED BY <1>2, ServersEdit DEF DeleteServer

(* What is pasted names servers, each with namespaces.                     *)
LEMMA PreviewFacts ==
  ASSUME NEW t \in Paste
  PROVE  Preview(t) \in ServerMaps
<1>1. t.entries \in Partial(ServerIds, Entry) /\ t.default \in SUBSET Namespaces
  BY DEF Paste
<1>2. /\ DOMAIN t.entries \subseteq ServerIds
      /\ \A s \in DOMAIN t.entries : t.entries[s].own \in SUBSET Namespaces
  <2>1. DOMAIN t.entries \subseteq ServerIds /\ \A s \in DOMAIN t.entries : t.entries[s] \in Entry
    BY <1>1, PartialFacts
  <2>2. QED BY <2>1 DEF Entry
<1>3. /\ DOMAIN Found(t) \subseteq DOMAIN t.entries
      /\ \A s \in DOMAIN Found(t) : Found(t)[s] = t.entries[s]
  BY DEF Found, Inferred
<1>4. Preview(t) \in [DOMAIN Found(t) -> SUBSET Namespaces]
  BY <1>1, <1>2, <1>3 DEF Preview, ImportedNamespaces
<1>5. QED BY <1>2, <1>3, <1>4, FunctionFacts DEF ServerMaps

LEMMA ImportServersEdit ==
  ASSUME EditingInv, NEW new \in ServerMaps, ImportServers(new)
  PROVE  EditStep
<1> DEFINE f == [s \in DOMAIN conf.servers \cup DOMAIN new |->
                   IF s \in DOMAIN new THEN new[s] ELSE conf.servers[s]]
<1>1. conf.servers \in ServerMaps
  BY ConfFacts DEF EditingInv
<1>2. /\ DOMAIN conf.servers \subseteq ServerIds
      /\ \A x \in DOMAIN conf.servers : conf.servers[x] \in SUBSET Namespaces
      /\ DOMAIN new \subseteq ServerIds
      /\ \A x \in DOMAIN new : new[x] \in SUBSET Namespaces
  BY <1>1, PartialFacts DEF ServerMaps
<1>3. f \in [DOMAIN conf.servers \cup DOMAIN new -> SUBSET Namespaces]
  BY <1>2
<1>4. f \in ServerMaps
  BY <1>2, <1>3, FunctionFacts DEF ServerMaps
<1>5. Save([conf EXCEPT !.servers = f], Other)
  BY DEF ImportServers
<1>6. QED BY <1>4, <1>5, ServersEdit

LEMMA CreateNamespaceEdit ==
  ASSUME EditingInv, NEW n \in Namespaces, CreateNamespace(n)
  PROVE  EditStep
<1> DEFINE namespaces == With(conf.namespaces, n, DOMAIN conf.roles)
           roles == [r \in DOMAIN conf.roles |-> conf.roles[r] \cup {n}]
           c == WithNamespace(conf, n)
<1>1. conf \in Conf /\ conf.namespaces \in NamespaceMaps /\ conf.roles \in RoleMaps
  BY ConfFacts DEF EditingInv
<1>2. /\ DOMAIN conf.roles \subseteq Roles
      /\ \A r \in DOMAIN conf.roles : conf.roles[r] \in SUBSET Namespaces
  BY <1>1, PartialFacts DEF RoleMaps
<1>3. namespaces \in NamespaceMaps
  BY <1>1, <1>2, WithFacts DEF NamespaceMaps
<1>4. roles \in RoleMaps
  <2>1. roles \in [DOMAIN conf.roles -> SUBSET Namespaces]
    BY <1>2
  <2>2. QED BY <1>2, <2>1, FunctionFacts DEF RoleMaps
<1>5. /\ DOMAIN namespaces = DOMAIN conf.namespaces \cup {n}
      /\ \A m \in DOMAIN conf.namespaces \ {n} : namespaces[m] = conf.namespaces[m]
  BY DEF With
<1>6. c = [conf EXCEPT !.namespaces = namespaces, !.roles = roles]
  BY DEF WithNamespace
<1> HIDE DEF namespaces
<1>7. /\ c \in Conf /\ c.tokens = conf.tokens
      /\ c.namespaces = namespaces /\ c.roles = roles
  BY <1>1, <1>3, <1>4, <1>6 DEF Conf, NamespaceMaps, RoleMaps
<1>8. n \notin DOMAIN conf.namespaces
  BY DEF CreateNamespace
<1>9. Edited(c)
  BY <1>5, <1>7, <1>8 DEF Edited, Live
<1>10. QED BY <1>7, <1>9 DEF EditStep, CreateNamespace

LEMMA DeleteNamespaceEdit ==
  ASSUME EditingInv, NEW n \in Namespaces, DeleteNamespace(n)
  PROVE  EditStep
<1> DEFINE servers == [s \in DOMAIN conf.servers |-> conf.servers[s] \ {n}]
           namespaces == Without(conf.namespaces, n)
           roles == [r \in DOMAIN conf.roles |-> conf.roles[r] \ {n}]
           packs == conf.packs \ {n}
           c == WithoutNamespace(conf, n)
<1>1. /\ conf \in Conf /\ conf.namespaces \in NamespaceMaps /\ conf.roles \in RoleMaps
      /\ conf.servers \in ServerMaps
  BY ConfFacts DEF EditingInv
<1>2. /\ DOMAIN conf.roles \subseteq Roles
      /\ \A r \in DOMAIN conf.roles : conf.roles[r] \in SUBSET Namespaces
      /\ DOMAIN conf.servers \subseteq ServerIds
      /\ \A s \in DOMAIN conf.servers : conf.servers[s] \in SUBSET Namespaces
  BY <1>1, PartialFacts DEF RoleMaps, ServerMaps
<1>3. namespaces \in NamespaceMaps
  BY <1>1, WithoutFacts DEF NamespaceMaps
<1>4. roles \in RoleMaps /\ servers \in ServerMaps
  <2>1. /\ roles \in [DOMAIN conf.roles -> SUBSET Namespaces]
        /\ servers \in [DOMAIN conf.servers -> SUBSET Namespaces]
    BY <1>2
  <2>2. QED BY <1>2, <2>1, FunctionFacts DEF RoleMaps, ServerMaps
<1>5. /\ DOMAIN namespaces = DOMAIN conf.namespaces \ {n}
      /\ \A m \in DOMAIN conf.namespaces \ {n} : namespaces[m] = conf.namespaces[m]
  BY DEF Without
<1>6. c = [conf EXCEPT !.namespaces = namespaces, !.packs = packs, !.servers = servers,
                       !.roles = roles]
  BY DEF WithoutNamespace
<1> HIDE DEF namespaces
<1>7. packs \subseteq Namespaces
  BY <1>1 DEF Conf
<1> HIDE DEF packs
<1>8. /\ c \in Conf /\ c.tokens = conf.tokens
      /\ c.namespaces = namespaces /\ c.roles = roles /\ c.servers = servers
  BY <1>1, <1>3, <1>4, <1>6, <1>7 DEF Conf, NamespaceMaps, RoleMaps, ServerMaps
<1>9. n \notin Missing(c)
  BY <1>8 DEF Missing
<1>10. Edited(c)
  BY <1>5, <1>8, <1>9 DEF Edited, Live
<1>11. QED BY <1>8, <1>10 DEF EditStep, DeleteNamespace

(* Policies that were shown and edited.                                    *)
LEMMA ShownFacts ==
  ASSUME NEW q \in Shown
  PROVE  /\ q.namespaces \in NamespaceMaps /\ q.roles \in RoleMaps /\ q.tokens \in TokenMaps
         /\ DOMAIN q.namespaces \subseteq Namespaces
         /\ \A n \in DOMAIN q.namespaces : q.namespaces[n] \subseteq Roles
         /\ DOMAIN q.roles \subseteq Roles
         /\ \A r \in DOMAIN q.roles : q.roles[r] \subseteq Namespaces
         /\ \A f \in NamespaceMaps, g \in RoleMaps :
               [q EXCEPT !.namespaces = f, !.roles = g] \in Shown
<1>1. q.namespaces \in NamespaceMaps /\ q.roles \in RoleMaps /\ q.tokens \in TokenMaps
  BY DEF Shown
<1>2. \A f \in NamespaceMaps, g \in RoleMaps : [q EXCEPT !.namespaces = f, !.roles = g] \in Shown
  BY DEF Shown
<1>3. /\ DOMAIN q.namespaces \subseteq Namespaces
      /\ \A n \in DOMAIN q.namespaces : q.namespaces[n] \in SUBSET Roles
  BY <1>1, PartialFacts DEF NamespaceMaps
<1>4. /\ DOMAIN q.roles \subseteq Roles
      /\ \A r \in DOMAIN q.roles : q.roles[r] \in SUBSET Namespaces
  BY <1>1, PartialFacts DEF RoleMaps
<1>5. QED BY <1>1, <1>2, <1>3, <1>4

(* An edit of the tables, given what it makes of namespaces and of roles.  *)
LEMMA TablesFacts ==
  ASSUME NEW q \in Shown,
         NEW D \in SUBSET Namespaces, NEW f \in [D -> SUBSET Roles],
         NEW R \in SUBSET Roles, NEW g \in [R -> SUBSET Namespaces]
  PROVE  [q EXCEPT !.namespaces = f, !.roles = g] \in Shown
<1>1. f \in NamespaceMaps /\ g \in RoleMaps
  BY FunctionFacts DEF NamespaceMaps, RoleMaps
<1>2. QED BY <1>1, ShownFacts

LEMMA AccessEditsFacts ==
  ASSUME NEW q \in Shown, NEW new \in AccessEdits(q)
  PROVE  new \in Shown
<1> DEFINE D == DOMAIN q.namespaces
           R == DOMAIN q.roles
<1>1. /\ D \in SUBSET Namespaces /\ R \in SUBSET Roles
      /\ \A n \in D : q.namespaces[n] \in SUBSET Roles
      /\ \A r \in R : q.roles[r] \in SUBSET Namespaces
      /\ q.namespaces \in NamespaceMaps /\ q.roles \in RoleMaps
  BY ShownFacts
<1>2. q.namespaces \in [D -> SUBSET Roles] /\ q.roles \in [R -> SUBSET Namespaces]
  <2>1. q.namespaces = [n \in D |-> q.namespaces[n]] /\ q.roles = [r \in R |-> q.roles[r]]
    BY <1>1, PartialFacts DEF NamespaceMaps, RoleMaps
  <2>2. QED BY <1>1, <2>1
<1>3. CASE \E r \in R, n \in D, on \in BOOLEAN : new = Membership(q, r, n, on)
  <2>1. PICK r \in R, n \in D, on \in BOOLEAN : new = Membership(q, r, n, on)
    BY <1>3
  <2> DEFINE f == [q.namespaces EXCEPT ![n] = IF on THEN @ \cup {r} ELSE @ \ {r}]
             g == [q.roles EXCEPT ![r] = IF on THEN @ \cup {n} ELSE @ \ {n}]
  <2>2. new = [q EXCEPT !.namespaces = f, !.roles = g]
    BY <2>1 DEF Membership, Shown
  <2>3. f \in [D -> SUBSET Roles] /\ g \in [R -> SUBSET Namespaces]
    BY <1>1, <1>2
  <2> HIDE DEF f, g
  <2>4. QED BY <1>1, <2>2, <2>3, TablesFacts
<1>4. CASE \E r \in R : new = RemoveRole(q, r)
  <2>1. PICK r \in R : new = RemoveRole(q, r)
    BY <1>4
  <2> DEFINE f == [n \in D |-> q.namespaces[n] \ {r}]
             g == Without(q.roles, r)
  <2>2. new = [q EXCEPT !.namespaces = f, !.roles = g]
    BY <2>1 DEF RemoveRole, Shown
  <2>3. f \in [D -> SUBSET Roles] /\ g \in [R \ {r} -> SUBSET Namespaces]
    BY <1>1 DEF Without
  <2> HIDE DEF f, g
  <2>4. QED BY <1>1, <2>2, <2>3, TablesFacts
<1>5. CASE \E r \in R, to \in Roles \ R : new = RenameRole(q, r, to)
  <2>1. PICK r \in R, to \in Roles \ R : new = RenameRole(q, r, to)
    BY <1>5
  <2> DEFINE f == [n \in D |-> RenamedSet(q.namespaces[n], r, to)]
             g == With(Without(q.roles, r), to, q.roles[r])
  <2>2. new = [q EXCEPT !.namespaces = f, !.roles = g]
    BY <2>1 DEF RenameRole, Shown
  <2>3. f \in [D -> SUBSET Roles] /\ g \in [(R \ {r}) \cup {to} -> SUBSET Namespaces]
    BY <1>1 DEF With, Without, RenamedSet
  <2> HIDE DEF f, g
  <2>4. QED BY <1>1, <2>2, <2>3, TablesFacts
<1>6. CASE \E r \in Roles \ R : new = AddRole(q, r)
  <2>1. PICK r \in Roles \ R : new = AddRole(q, r)
    BY <1>6
  <2> DEFINE g == With(q.roles, r, {})
  <2>2. new = [q EXCEPT !.namespaces = q.namespaces, !.roles = g]
    BY <2>1 DEF AddRole, Shown
  <2>3. g \in [R \cup {r} -> SUBSET Namespaces]
    BY <1>1 DEF With
  <2> HIDE DEF g
  <2>4. QED BY <1>1, <1>2, <2>2, <2>3, TablesFacts
<1>7. CASE \E n \in D : new = RemoveNamespace(q, n)
  <2>1. PICK n \in D : new = RemoveNamespace(q, n)
    BY <1>7
  <2> DEFINE f == Without(q.namespaces, n)
             g == [r \in R |-> q.roles[r] \ {n}]
  <2>2. new = [q EXCEPT !.namespaces = f, !.roles = g]
    BY <2>1 DEF RemoveNamespace, Shown
  <2>3. f \in [D \ {n} -> SUBSET Roles] /\ g \in [R -> SUBSET Namespaces]
    BY <1>1 DEF Without
  <2> HIDE DEF f, g
  <2>4. QED BY <1>1, <2>2, <2>3, TablesFacts
<1>8. CASE \E n \in D, to \in Namespaces \ D : new = RenameNamespace(q, n, to)
  <2>1. PICK n \in D, to \in Namespaces \ D : new = RenameNamespace(q, n, to)
    BY <1>8
  <2> DEFINE f == With(Without(q.namespaces, n), to, q.namespaces[n])
             g == [r \in R |-> RenamedSet(q.roles[r], n, to)]
  <2>2. new = [q EXCEPT !.namespaces = f, !.roles = g]
    BY <2>1 DEF RenameNamespace, Shown
  <2>3. f \in [(D \ {n}) \cup {to} -> SUBSET Roles] /\ g \in [R -> SUBSET Namespaces]
    BY <1>1 DEF With, Without, RenamedSet
  <2> HIDE DEF f, g
  <2>4. QED BY <1>1, <2>2, <2>3, TablesFacts
<1>9. CASE \E r \in R, n \in Namespaces \ D : new = AddNamespace(q, r, n)
  <2>1. PICK r \in R, n \in Namespaces \ D : new = AddNamespace(q, r, n)
    BY <1>9
  <2> DEFINE f == With(q.namespaces, n, {r})
             g == [q.roles EXCEPT ![r] = @ \cup {n}]
  <2>2. new = [q EXCEPT !.namespaces = f, !.roles = g]
    BY <2>1 DEF AddNamespace, Shown
  <2>3. f \in [D \cup {n} -> SUBSET Roles] /\ g \in [R -> SUBSET Namespaces]
    BY <1>1, <1>2 DEF With
  <2> HIDE DEF f, g
  <2>4. QED BY <1>1, <2>2, <2>3, TablesFacts
<1>10. QED BY <1>3, <1>4, <1>5, <1>6, <1>7, <1>8, <1>9 DEF AccessEdits

LEMMA CleanedFacts ==
  ASSUME NEW q \in Shown
  PROVE  Cleaned(q) \in Shown /\ Live(Cleaned(q))
<1> DEFINE D == DOMAIN q.namespaces
           R == DOMAIN q.roles
           f == [n \in D |-> q.namespaces[n] \cap R]
           g == [r \in R |-> q.roles[r] \cap D]
<1>1. Cleaned(q) = [q EXCEPT !.namespaces = f, !.roles = g]
  BY DEF Cleaned, Shown
<1>2. D \in SUBSET Namespaces /\ R \in SUBSET Roles
  BY ShownFacts
<1>3. f \in [D -> SUBSET Roles] /\ g \in [R -> SUBSET Namespaces]
  BY <1>2
<1> HIDE DEF f, g
<1>4. Cleaned(q) \in Shown
  <2>1. [q EXCEPT !.namespaces = f, !.roles = g] \in Shown
    BY <1>2, <1>3, TablesFacts
  <2>2. QED BY <1>1, <2>1
<1>5. Cleaned(q).namespaces = f /\ Cleaned(q).roles = g
  BY <1>1 DEF Shown
<1>6. QED BY <1>4, <1>5 DEF Live, f, g

LEMMA ConfigEditsFacts ==
  ASSUME NEW q \in Shown, NEW new \in ConfigEdits(q)
  PROVE  new \in Shown /\ (Live(q) => Live(new))
<1>1. CASE \E S \in SUBSET Namespaces : new = [q EXCEPT !.packs = S]
  BY <1>1 DEF Shown, Live
<1>2. CASE \E mode \in Ways :
             new = [q EXCEPT !.mode = mode,
                             !.required = IF "static_key" \in {mode, q.mode} THEN {} ELSE @]
  BY <1>2 DEF Shown, Live
<1>3. CASE \E S \in IF q.mode = "static_key" THEN {} ELSE SUBSET Namespaces :
             new = [q EXCEPT !.required = S]
  BY <1>3 DEF Shown, Live
<1>4. QED BY <1>1, <1>2, <1>3 DEF ConfigEdits, Ways

LEMMA MergedFacts ==
  ASSUME EditingInv, NEW q \in Shown
  PROVE  /\ Merged(q) \in Conf
         /\ Merged(q).tokens = conf.tokens
         /\ Merged(q).namespaces = q.namespaces
         /\ Merged(q).roles = q.roles
BY DEF Merged, EditingInv, Shown, Conf, NamespaceMaps, RoleMaps, TokenMaps, ServerMaps, Ways

LEMMA TokenSteps ==
  ASSUME EditingInv, NEW t \in Tokens
  PROVE  /\ \A rs \in SUBSET Roles : CreateToken(t, rs) \/ UpdateToken(t, rs) => TokenStep
         /\ DeleteToken(t) => TokenStep
<1>1. conf.tokens \in TokenMaps
  BY ConfFacts DEF EditingInv
<1>2. /\ DOMAIN conf.tokens \subseteq Tokens
      /\ \A x \in DOMAIN conf.tokens : conf.tokens[x] \in SUBSET Roles
  BY <1>1, PartialFacts DEF TokenMaps
<1>3. ASSUME NEW rs \in SUBSET Roles, CreateToken(t, rs)
      PROVE  TokenStep
  <2>1. With(conf.tokens, t, rs) \in TokenMaps
    BY <1>1, WithFacts DEF TokenMaps
  <2>2. QED BY <1>3, <2>1 DEF CreateToken, TokenStep
<1>4. ASSUME NEW rs \in SUBSET Roles, UpdateToken(t, rs)
      PROVE  TokenStep
  <2> DEFINE f == [conf.tokens EXCEPT ![t] = rs]
  <2>1. f \in [DOMAIN conf.tokens -> SUBSET Roles]
    BY <1>2
  <2>2. f \in TokenMaps
    BY <1>2, <2>1, FunctionFacts DEF TokenMaps
  <2>3. Save([conf EXCEPT !.tokens = f], Token)
    BY <1>4 DEF UpdateToken
  <2>4. QED BY <2>2, <2>3 DEF TokenStep
<1>5. ASSUME DeleteToken(t)
      PROVE  TokenStep
  <2>1. Without(conf.tokens, t) \in TokenMaps
    BY <1>1, WithoutFacts DEF TokenMaps
  <2>2. QED BY <1>5, <2>1 DEF DeleteToken, TokenStep
<1>6. QED BY <1>3, <1>4, <1>5

LEMMA RestoreSteps ==
  ASSUME EditingInv, NEW c \in stored, ImportConfig(c) \/ Rollback(c)
  PROVE  RestoreStep
<1>1. CASE Rollback(c)
  BY <1>1 DEF RestoreStep
<1>2. CASE ImportConfig(c)
  <2>1. PICK tokens \in ImportedTokens(c) : Save([c EXCEPT !.tokens = tokens], Restore)
    BY <1>2 DEF ImportConfig
  <2>2. tokens \in TokenMaps
    BY ConfFacts DEF EditingInv, ImportedTokens
  <2>3. QED BY <2>1, <2>2 DEF RestoreStep
<1>3. QED BY <1>1, <1>2

LEMMA ApiSteps ==
  ASSUME EditingInv, ByApi
  PROVE  AdminStep
<1>1. CASE \E s \in ServerIds : DeleteServer(s)
  BY <1>1, DeleteServerEdit DEF AdminStep
<1>2. CASE \E s \in ServerIds, ns \in SUBSET Namespaces : CreateServer(s, ns) \/ UpdateServer(s, ns)
  BY <1>2, CreateServerEdit, UpdateServerEdit DEF AdminStep
<1>3. CASE \E new \in Previews : ImportServers(new)
  <2>1. PICK new \in Previews : ImportServers(new)
    BY <1>3
  <2>2. new \in ServerMaps
    BY PreviewFacts DEF Previews, Pastes
  <2>3. QED BY <2>1, <2>2, ImportServersEdit DEF AdminStep
<1>4. CASE \E n \in Namespaces : CreateNamespace(n) \/ DeleteNamespace(n)
  BY <1>4, CreateNamespaceEdit, DeleteNamespaceEdit DEF AdminStep
<1>5. CASE \E t \in Tokens : DeleteToken(t)
  BY <1>5, TokenSteps DEF AdminStep
<1>6. CASE \E t \in Tokens, rs \in SUBSET Roles : CreateToken(t, rs) \/ UpdateToken(t, rs)
  BY <1>6, TokenSteps DEF AdminStep
<1>7. CASE \E c \in stored : ImportConfig(c) \/ Rollback(c)
  BY <1>7, RestoreSteps DEF AdminStep
<1>8. QED BY <1>1, <1>2, <1>3, <1>4, <1>5, <1>6, <1>7 DEF ByApi

(* The saves of pages.                                                     *)
LEMMA AccessSaveStep ==
  ASSUME EditingInv, NEW p \in Pages, AccessSave(p)
  PROVE  PolicyStep /\ PageMoves(p)
<1>1. Ready(p, "access") /\ ThenLoads(p)
  BY DEF AccessSave
<1>2. PoliciesOf(p) \in Shown /\ page[p].asked = {} /\ page[p].puts = {}
  BY <1>1, ReadyFacts, PartsFacts DEF Ready
<1>3. PICK q \in AccessEdits(PoliciesOf(p)) : PutPolicies(Cleaned(q))
  BY DEF AccessSave
<1>4. Cleaned(q) \in Shown /\ Live(Cleaned(q))
  BY <1>2, AccessEditsFacts, CleanedFacts
<1>5. QED BY <1>1, <1>2, <1>3, <1>4, ThenLoadsMoves DEF PolicyStep

LEMMA ConfigSaveStep ==
  ASSUME EditingInv, NEW p \in Pages, ConfigSave(p)
  PROVE  PolicyStep /\ PageMoves(p)
<1>1. Ready(p, "config") /\ ThenLoads(p)
  BY DEF ConfigSave
<1>2. /\ PoliciesOf(p) \in Shown /\ page[p].asked = {} /\ page[p].puts = {}
      /\ AllPagesLive => Live(PoliciesOf(p))
  BY <1>1, ReadyFacts, PartsFacts DEF Ready, AllPagesLive
<1>3. PICK q \in ConfigEdits(PoliciesOf(p)) : PutPolicies(q)
  BY DEF ConfigSave
<1>4. q \in Shown /\ (AllPagesLive => Live(q))
  BY <1>2, ConfigEditsFacts
<1>5. QED BY <1>1, <1>2, <1>3, <1>4, ThenLoadsMoves DEF PolicyStep

LEMMA NamespaceSaveStep ==
  ASSUME EditingInv, NEW p \in Pages, NEW n \in Namespaces, NamespaceSave(p, n)
  PROVE  PolicyStep /\ PageMoves(p)
<1>1. Ready(p, "namespaces") /\ PutPolicies(PoliciesOf(p))
  BY DEF NamespaceSave
<1>2. /\ PoliciesOf(p) \in Shown /\ ServersOf(p) \in ServerMaps
      /\ page[p].asked = {} /\ page[p].puts = {}
      /\ AllPagesLive => Live(PoliciesOf(p))
  BY <1>1, ReadyFacts, PartsFacts DEF Ready, AllPagesLive
<1>3. PolicyStep
  BY <1>1, <1>2 DEF PolicyStep
<1>4. CASE ThenLoads(p)
  BY <1>2, <1>3, <1>4, ThenLoadsMoves
<1>5. CASE \E chosen \in SUBSET ServerIds :
             Sends(p, {<<s, Assigned(p, s, n, s \in chosen)>> : s \in ChangedServers(p, n, chosen)})
  <2>1. PICK chosen \in SUBSET ServerIds :
             Sends(p, {<<s, Assigned(p, s, n, s \in chosen)>> : s \in ChangedServers(p, n, chosen)})
    BY <1>5
  <2> DEFINE puts == {<<s, Assigned(p, s, n, s \in chosen)>> : s \in ChangedServers(p, n, chosen)}
  <2>2. /\ DOMAIN ServersOf(p) \subseteq ServerIds
        /\ \A s \in DOMAIN ServersOf(p) : ServersOf(p)[s] \in SUBSET Namespaces
    BY <1>2, PartialFacts DEF ServerMaps
  <2>3. ASSUME NEW s \in ChangedServers(p, n, chosen)
        PROVE  s \in ServerIds /\ Assigned(p, s, n, s \in chosen) \in SUBSET Namespaces
    BY <2>2, DefaultAssumption DEF ChangedServers, Assigned
  <2>4. puts \in Puts
    BY <2>3 DEF Puts
  <2> HIDE DEF puts
  <2>5. Sends(p, puts)
    BY <2>1 DEF puts
  <2>6. QED BY <1>2, <1>3, <2>4, <2>5, SendsMoves
<1>6. QED BY <1>4, <1>5 DEF NamespaceSave


LEMMA MovesStep ==
  ASSUME EditingInv, NEW p \in Pages, NEW k \in Kinds, Ready(p, k), "servers" \in Parts[k],
         NEW n \in Namespaces, NEW chosen \in SUBSET DOMAIN ServersOf(p),
         Sends(p, {<<s, ServersOf(p)[s] \cup {n}>> : s \in chosen})
  PROVE  PageMoves(p)
<1> DEFINE puts == {<<s, ServersOf(p)[s] \cup {n}>> : s \in chosen}
<1>1. ServersOf(p) \in ServerMaps /\ page[p].asked = {}
  BY ReadyFacts
<1>2. /\ DOMAIN ServersOf(p) \subseteq ServerIds
      /\ \A s \in DOMAIN ServersOf(p) : ServersOf(p)[s] \in SUBSET Namespaces
  BY <1>1, PartialFacts DEF ServerMaps
<1>3. \A s \in chosen : s \in ServerIds /\ ServersOf(p)[s] \cup {n} \in SUBSET Namespaces
  BY <1>2
<1>4. puts \in Puts
  BY <1>3 DEF Puts
<1> HIDE DEF puts
<1>5. Sends(p, puts)
  BY DEF puts
<1>6. QED BY <1>1, <1>4, <1>5, SendsMoves

LEMMA PageSteps ==
  ASSUME EditingInv, NEW p \in Pages, OnPage(p)
  PROVE  AdminStep /\ PageMoves(p)
<1>1. CASE \E k \in Kinds : Open(p, k)
  BY <1>1, OpenMoves DEF Open, AdminStep
<1>2. CASE Load(p)
  BY <1>2, LoadMoves DEF Load, AdminStep
<1>3. CASE LoadFails(p)
  BY <1>3, LoadFailsMoves DEF LoadFails, AdminStep
<1>4. CASE SendPut(p)
  <2>1. PICK u \in page[p].puts : UpdateServer(u[1], u[2])
    BY <1>4 DEF SendPut
  <2>2. u[1] \in ServerIds /\ u[2] \in SUBSET Namespaces
    BY DEF EditingInv, PageRecord, Puts
  <2>3. QED BY <1>4, <2>1, <2>2, UpdateServerEdit, SendPutMoves DEF AdminStep
<1>5. CASE PutFails(p)
  <2>1. PICK u \in page[p].puts : UpdateServer(u[1], u[2]) \/ UNCHANGED admin
    BY <1>5 DEF PutFails
  <2>2. u[1] \in ServerIds /\ u[2] \in SUBSET Namespaces
    BY DEF EditingInv, PageRecord, Puts
  <2>3. QED BY <1>5, <2>1, <2>2, UpdateServerEdit, PutFailsMoves DEF AdminStep
<1>6. CASE AccessSave(p)
  BY <1>6, AccessSaveStep DEF AdminStep
<1>7. CASE AssignServers(p)
  <2>1. Ready(p, "access") /\ "servers" \in Parts["access"] /\ "access" \in Kinds
    BY <1>7, PartsFacts DEF AssignServers
  <2>2. PICK n \in Namespaces, chosen \in SUBSET DOMAIN ServersOf(p) :
           Sends(p, {<<s, ServersOf(p)[s] \cup {n}>> : s \in chosen})
    BY <1>7 DEF AssignServers
  <2>3. PageMoves(p)
    BY <2>1, <2>2, MovesStep
  <2>4. QED BY <1>7, <2>3 DEF AssignServers, AdminStep
<1>8. CASE \E t \in Tokens : RevokeToken(p, t)
  BY <1>8, TokenSteps, PageStays DEF RevokeToken, AdminStep
<1>9. CASE \E t \in Tokens, rs \in SUBSET Roles : GrantToken(p, t, rs) \/ ChangeToken(p, t, rs)
  BY <1>9, TokenSteps, PageStays DEF GrantToken, ChangeToken, AdminStep
<1>10. CASE ConfigSave(p)
  BY <1>10, ConfigSaveStep DEF AdminStep
<1>11. CASE \E c \in stored : HandleRollback(p, c)
  BY <1>11, RestoreSteps, ThenLoadsMoves DEF HandleRollback, Ready, AdminStep
<1>12. CASE \E n \in Namespaces : NamespaceSave(p, n)
  BY <1>12, NamespaceSaveStep DEF AdminStep
<1>13. CASE \E n \in Namespaces : ConfirmCreateNamespace(p, n)
  BY <1>13, CreateNamespaceEdit, ThenLoadsMoves DEF ConfirmCreateNamespace, Ready, AdminStep
<1>14. CASE \E n \in Namespaces : ConfirmDeleteNamespace(p, n)
  BY <1>14, DeleteNamespaceEdit, ThenLoadsMoves DEF ConfirmDeleteNamespace, Ready, AdminStep
<1>15. CASE \E s \in ServerIds, ns \in SUBSET Namespaces : SaveServer(p, s, ns)
  <2>1. PICK s \in ServerIds, ns \in SUBSET Namespaces : SaveServer(p, s, ns)
    BY <1>15
  <2>2. CreateServer(s, ns) \/ UpdateServer(s, ns)
    BY <2>1 DEF SaveServer
  <2>3. EditStep
    BY <2>2, CreateServerEdit, UpdateServerEdit
  <2>4. QED BY <2>1, <2>3, ThenLoadsMoves DEF SaveServer, Ready, AdminStep
<1>16. CASE \E s \in ServerIds : ConfirmDelete(p, s)
  BY <1>16, DeleteServerEdit, ThenLoadsMoves DEF ConfirmDelete, Ready, AdminStep
<1>17. CASE RunImport(p)
  <2>1. \E default \in SUBSET Namespaces : \E new \in PreviewsWith(default) : ImportServers(new)
    <3>1. Ready(p, "servers") /\ "policies" \in Parts["servers"] /\ "servers" \in Kinds
      BY <1>17, PartsFacts DEF RunImport
    <3>2. DOMAIN PoliciesOf(p).namespaces \subseteq Namespaces
      BY <3>1, ReadyFacts, ShownFacts
    <3>3. PICK chosen \in SUBSET DOMAIN PoliciesOf(p).namespaces :
             \E default \in IF chosen = {} THEN SUBSET Namespaces ELSE {chosen} :
                \E new \in PreviewsWith(default) : ImportServers(new)
      BY <1>17 DEF RunImport
    <3>4. QED BY <3>2, <3>3
  <2>2. PICK default \in SUBSET Namespaces : \E new \in PreviewsWith(default) : ImportServers(new)
    BY <2>1
  <2>6. PICK new \in PreviewsWith(default) : ImportServers(new)
    BY <2>2
  <2>3. new \in ServerMaps
    BY PreviewFacts DEF PreviewsWith, Pastes
  <2>4. EditStep
    BY <2>6, <2>3, ImportServersEdit
  <2>5. QED BY <1>17, <2>4, ThenLoadsMoves DEF RunImport, Ready, AdminStep
<1>18. CASE MoveServers(p)
  <2>1. Ready(p, "servers") /\ {"servers", "policies"} \subseteq Parts["servers"] /\ "servers" \in Kinds
    BY <1>18, PartsFacts DEF MoveServers
  <2>2. PICK n \in DOMAIN PoliciesOf(p).namespaces, chosen \in SUBSET DOMAIN ServersOf(p) :
           Sends(p, {<<s, ServersOf(p)[s] \cup {n}>> : s \in chosen})
    BY <1>18 DEF MoveServers
  <2>3. n \in Namespaces
    BY <2>1, ReadyFacts, ShownFacts
  <2>4. PageMoves(p)
    BY <2>1, <2>2, <2>3, MovesStep
  <2>5. QED BY <1>18, <2>4 DEF MoveServers, AdminStep
<1>19. QED
  BY <1>1, <1>2, <1>3, <1>4, <1>5, <1>6, <1>7, <1>8, <1>9, <1>10, <1>11, <1>12, <1>13, <1>14,
     <1>15, <1>16, <1>17, <1>18 DEF OnPage

-----------------------------------------------------------------------------
(* What the four kinds of save make of a configuration that is in order.   *)

LEMMA ApplyFacts ==
  ASSUME NEW c, NEW what, Apply(c, what)
  PROVE  conf' = c /\ op' = what /\ stored' \subseteq stored \cup {c} /\ saves' = saves + 1
         /\ saves < MaxSaves
BY DEF Apply

LEMMA SaveFacts ==
  ASSUME NEW c \in Conf, NEW what, Save(c, what)
  PROVE  /\ conf' = Normalized(c) /\ conf' \in Conf /\ op' = what
         /\ Resolved(conf')
         /\ Live(c) => Live(conf')
BY ApplyFacts, NormalizedFacts, NormalizedResolved DEF Save

-----------------------------------------------------------------------------
(* The step, and the invariants.                                           *)

(* The configuration, and what one can go back to, is in order.            *)
ResolvedInv == Resolved(conf) /\ \A c \in stored : Resolved(c)

(* No role, saved or shown, may enter a namespace that is not there.       *)
LiveInv == Live(conf) /\ (\A c \in stored : Live(c)) /\ AllPagesLive

LEMMA InitFacts ==
  ASSUME EditingInit
  PROVE  EditingInv /\ AllPagesLive
<1>1. conf \in Conf /\ stored = {conf}
  BY OnDiskAssumption DEF EditingInit
<1>2. PageOK(Opened("none")) /\ LivePage(Opened("none"))
  BY OpenedFacts, PartsFacts
<1>3. \A p \in Pages : page[p] = Opened("none")
  BY DEF EditingInit
<1>4. page \in [Pages -> PageRecord]
  BY <1>2 DEF EditingInit, PageOK
<1>5. saves \in 0..MaxSaves
  BY BoundsAssumption DEF EditingInit
<1>6. QED BY <1>1, <1>2, <1>3, <1>4, <1>5 DEF EditingInv, AllPagesLive

(* Every step is a save of one of four kinds, or none, and moves at most   *)
(* one page.                                                               *)
LEMMA StepFacts ==
  ASSUME EditingInv, [EditingNext]_editingVars
  PROVE  AdminStep /\ (UNCHANGED page \/ \E p \in Pages : PageMoves(p))
<1>1. CASE ByApi
  BY <1>1, ApiSteps DEF ByApi
<1>2. CASE \E p \in Pages : OnPage(p)
  BY <1>2, PageSteps
<1>3. CASE UNCHANGED editingVars
  BY <1>3 DEF editingVars, admin, AdminStep
<1>4. QED BY <1>1, <1>2, <1>3 DEF EditingNext

(* What is saved is a configuration that is in order, unless it has been   *)
(* the configuration before; what is kept to go back to is.                *)
LEMMA AdminFacts ==
  ASSUME EditingInv, AdminStep
  PROVE  /\ conf' \in Conf /\ saves' \in 0..MaxSaves
         /\ stored' \subseteq stored \cup {conf'}
         /\ Resolved(conf') \/ conf' \in stored \/ UNCHANGED conf
         /\ LiveInv => Live(conf')
<1>1. CASE EditStep
  <2>1. PICK c \in Conf : Edited(c) /\ Save(c, Other)
    BY <1>1 DEF EditStep
  <2>2. Apply(Normalized(c), Other)
    BY <2>1 DEF Save
  <2>3. LiveInv => Live(c)
    BY <2>1 DEF Edited, LiveInv
  <2>4. QED BY <2>1, <2>2, <2>3, SaveFacts, ApplyFacts, BoundsAssumption DEF EditingInv
<1>2. CASE TokenStep
  <2>1. PICK f \in TokenMaps : Save([conf EXCEPT !.tokens = f], Token)
    BY <1>2 DEF TokenStep
  <2> DEFINE c == [conf EXCEPT !.tokens = f]
  <2>2. c \in Conf /\ c.roles = conf.roles /\ c.namespaces = conf.namespaces
    BY ConfFacts DEF EditingInv, Conf
  <2>3. Apply(Normalized(c), Token)
    BY <2>1 DEF Save
  <2>4. LiveInv => Live(c)
    BY <2>2 DEF Live, LiveInv
  <2> HIDE DEF c
  <2>5. Save(c, Token)
    BY <2>1 DEF c
  <2>6. QED BY <2>2, <2>3, <2>4, <2>5, SaveFacts, ApplyFacts, BoundsAssumption DEF EditingInv
<1>3. CASE PolicyStep
  <2>1. PICK q \in Shown : (AllPagesLive => Live(q)) /\ PutPolicies(q)
    BY <1>3 DEF PolicyStep
  <2> DEFINE c == Merged(q)
  <2>2. c \in Conf /\ Save(c, Policies(q))
    BY <2>1, MergedFacts DEF PutPolicies
  <2>3. Apply(Normalized(c), Policies(q))
    BY <2>2 DEF Save
  <2>4. LiveInv => Live(c)
    BY <2>1, MergedFacts DEF Live, LiveInv
  <2> HIDE DEF c
  <2>5. QED BY <2>2, <2>3, <2>4, SaveFacts, ApplyFacts, BoundsAssumption DEF EditingInv
<1>4. CASE RestoreStep
  <2>1. PICK b \in stored : \/ \E f \in TokenMaps : Save([b EXCEPT !.tokens = f], Restore)
                            \/ Rollback(b)
    BY <1>4 DEF RestoreStep
  <2>2. b \in Conf /\ (LiveInv => Live(b))
    BY DEF EditingInv, LiveInv
  <2>3. CASE Rollback(b)
    BY <2>2, <2>3, ApplyFacts, BoundsAssumption DEF Rollback, EditingInv
  <2>4. CASE \E f \in TokenMaps : Save([b EXCEPT !.tokens = f], Restore)
    <3>1. PICK f \in TokenMaps : Save([b EXCEPT !.tokens = f], Restore)
      BY <2>4
    <3> DEFINE c == [b EXCEPT !.tokens = f]
    <3>2. c \in Conf /\ c.roles = b.roles /\ c.namespaces = b.namespaces
      BY <2>2, ConfFacts DEF Conf
    <3>3. Apply(Normalized(c), Restore)
      BY <3>1 DEF Save
    <3>4. LiveInv => Live(c)
      BY <2>2, <3>2 DEF Live
    <3> HIDE DEF c
    <3>5. Save(c, Restore)
      BY <3>1 DEF c
    <3>6. QED BY <3>2, <3>3, <3>4, <3>5, SaveFacts, ApplyFacts, BoundsAssumption DEF EditingInv
  <2>5. QED BY <2>1, <2>3, <2>4
<1>5. CASE UNCHANGED admin
  BY <1>5 DEF admin, EditingInv, LiveInv
<1>6. QED BY <1>1, <1>2, <1>3, <1>4, <1>5 DEF AdminStep

LEMMA TypeStep ==
  ASSUME EditingInv, [EditingNext]_editingVars
  PROVE  EditingInv'
<1>1. conf' \in Conf /\ saves' \in 0..MaxSaves /\ stored' \subseteq Conf
  BY StepFacts, AdminFacts DEF EditingInv
<1>2. page' \in [Pages -> PageRecord] /\ \A p \in Pages : PageOK(page'[p])
  <2>1. CASE UNCHANGED page
    BY <2>1 DEF EditingInv
  <2>2. CASE \E p \in Pages : PageMoves(p)
    <3>1. PICK p \in Pages : PageMoves(p)
      BY <2>2
    <3>2. PICK s : page' = [page EXCEPT ![p] = s] /\ PageOK(s)
      BY <3>1 DEF PageMoves
    <3>3. s \in PageRecord
      BY <3>2 DEF PageOK
    <3>4. QED BY <3>2, <3>3 DEF EditingInv
  <2>3. QED BY <2>1, <2>2, StepFacts
<1>3. QED BY <1>1, <1>2 DEF EditingInv

LEMMA ResolvedStep ==
  ASSUME EditingInv, ResolvedInv, [EditingNext]_editingVars
  PROVE  ResolvedInv'
<1>1. Resolved(conf')
  BY StepFacts, AdminFacts DEF ResolvedInv
<1>2. \A c \in stored' : Resolved(c)
  BY <1>1, StepFacts, AdminFacts DEF ResolvedInv
<1>3. QED BY <1>1, <1>2 DEF ResolvedInv

LEMMA LiveStep ==
  ASSUME EditingInv, LiveInv, [EditingNext]_editingVars
  PROVE  LiveInv'
<1>1. Live(conf') /\ \A c \in stored' : Live(c)
  BY StepFacts, AdminFacts DEF LiveInv
<1>2. \A p \in Pages : LivePage(page'[p])
  <2>1. CASE UNCHANGED page
    BY <2>1 DEF LiveInv, AllPagesLive
  <2>2. CASE \E p \in Pages : PageMoves(p)
    <3>1. PICK p \in Pages : PageMoves(p)
      BY <2>2
    <3>2. PICK s : /\ page' = [page EXCEPT ![p] = s]
                   /\ Live(conf) /\ LivePage(page[p]) => LivePage(s)
      BY <3>1 DEF PageMoves
    <3>3. LivePage(s)
      BY <3>2 DEF LiveInv, AllPagesLive
    <3>4. QED BY <3>2, <3>3 DEF EditingInv, LiveInv, AllPagesLive
  <2>3. QED BY <2>1, <2>2, StepFacts
<1>3. QED BY <1>1, <1>2 DEF LiveInv, AllPagesLive, Live, LivePage

LEMMA TokensStep ==
  ASSUME EditingInv, Resolved(conf), [EditingNext]_editingVars, op'.kind \notin {"token", "restore"}
  PROVE  /\ DOMAIN conf'.tokens = DOMAIN conf.tokens
         /\ \A t \in DOMAIN conf.tokens : conf'.tokens[t] = conf.tokens[t] \cap DOMAIN conf'.roles
<1>1. CASE EditStep
  <2>1. PICK c \in Conf : Edited(c) /\ Save(c, Other)
    BY <1>1 DEF EditStep
  <2>2. conf' = Normalized(c) /\ c.tokens = conf.tokens
    BY <2>1, SaveFacts DEF Edited
  <2>3. QED BY <2>2, NormalizedFacts
<1>2. CASE TokenStep
  <2>1. PICK f \in TokenMaps : Save([conf EXCEPT !.tokens = f], Token)
    BY <1>2 DEF TokenStep
  <2>2. op' = Token
    BY <2>1 DEF Save, Apply
  <2>3. QED BY <2>2 DEF Token
<1>3. CASE PolicyStep
  <2>1. PICK q \in Shown : PutPolicies(q)
    BY <1>3 DEF PolicyStep
  <2> DEFINE c == Merged(q)
  <2>2. c \in Conf /\ Save(c, Policies(q)) /\ c.tokens = conf.tokens
    BY <2>1, MergedFacts DEF PutPolicies
  <2> HIDE DEF c
  <2>3. conf' = Normalized(c)
    BY <2>2, SaveFacts
  <2>4. QED BY <2>2, <2>3, NormalizedFacts
<1>4. CASE RestoreStep
  <2>1. op' = Restore
    BY <1>4 DEF RestoreStep, Rollback, Save, Apply
  <2>2. QED BY <2>1 DEF Restore
<1>5. CASE UNCHANGED admin
  BY <1>5 DEF admin, Resolved
<1>6. QED BY <1>1, <1>2, <1>3, <1>4, <1>5, StepFacts DEF AdminStep

LEMMA GrantStep ==
  ASSUME EditingInv, [EditingNext]_editingVars,
         NEW t \in DOMAIN conf.tokens \cap DOMAIN conf'.tokens, NEW n \in Namespaces,
         MayEnter(conf', t, n), ~MayEnter(conf, t, n)
  PROVE  \/ op'.kind \in {"token", "restore"}
         \/ n \notin DOMAIN conf.namespaces
         \/ /\ op'.kind = "policies"
            /\ n \in op'.left \/ \E r \in conf.tokens[t] : <<r, n>> \in op'.granted
<1>1. CASE EditStep
  <2>1. PICK c \in Conf : Edited(c) /\ Save(c, Other)
    BY <1>1 DEF EditStep
  <2>2. conf' = Normalized(c) /\ c.tokens = conf.tokens /\ DOMAIN c.roles = DOMAIN conf.roles
    BY <2>1, SaveFacts DEF Edited
  <2> SUFFICES ASSUME n \in DOMAIN conf.namespaces PROVE FALSE
    OBVIOUS
  <2>3. n \in DOMAIN c.namespaces \cup Missing(c)
    BY <2>2, NormalizedFacts DEF MayEnter
  <2>4. /\ n \in DOMAIN c.namespaces
        /\ c.namespaces[n] = conf.namespaces[n]
        /\ \A r \in DOMAIN conf.roles : n \in c.roles[r] <=> n \in conf.roles[r]
    BY <2>1, <2>3 DEF Edited
  <2>5. n \notin Missing(c)
    BY <2>4, MissingFacts
  <2>6. /\ conf'.namespaces[n] \subseteq conf.namespaces[n]
        /\ conf'.tokens[t] \subseteq conf.tokens[t]
        /\ DOMAIN conf'.roles = DOMAIN conf.roles
        /\ \A r \in DOMAIN conf.roles : n \in conf'.roles[r] => n \in conf.roles[r]
    BY <2>2, <2>4, <2>5, NormalizedFacts
  <2>7. QED BY <2>6 DEF MayEnter
<1>2. CASE TokenStep
  <2>1. op' = Token
    BY <1>2 DEF TokenStep, Save, Apply
  <2>2. QED BY <2>1 DEF Token
<1>3. CASE PolicyStep
  <2>1. PICK q \in Shown : PutPolicies(q)
    BY <1>3 DEF PolicyStep
  <2> DEFINE c == Merged(q)
  <2>2. /\ c \in Conf /\ Save(c, Policies(q)) /\ c.tokens = conf.tokens
        /\ c.namespaces = q.namespaces /\ c.roles = q.roles
    BY <2>1, MergedFacts DEF PutPolicies
  <2> HIDE DEF c
  <2>3. conf' = Normalized(c) /\ op' = Policies(q)
    BY <2>2, SaveFacts
  <2>4. op'.kind = "policies"
    BY <2>3 DEF Policies
  <2>5. CASE n \notin DOMAIN q.namespaces
    BY <2>3, <2>4, <2>5 DEF Policies
  <2>6. CASE n \in DOMAIN q.namespaces
    <3>1. PICK r \in conf'.tokens[t] \cap DOMAIN conf'.roles : n \in conf'.roles[r]
      BY DEF MayEnter
    <3>2. n \notin Missing(c)
      BY <2>2, <2>6, MissingFacts
    <3>3. r \in DOMAIN q.roles /\ n \in q.roles[r] /\ r \in conf.tokens[t]
      BY <2>2, <2>3, <3>1, <3>2, NormalizedFacts
    <3>4. <<r, n>> \in Policies(q).granted
      BY <2>6, <3>3 DEF Policies
    <3>5. QED BY <2>3, <2>4, <3>3, <3>4
  <2>7. QED BY <2>5, <2>6
<1>4. CASE RestoreStep
  <2>1. op' = Restore
    BY <1>4 DEF RestoreStep, Rollback, Save, Apply
  <2>2. QED BY <2>1 DEF Restore
<1>5. CASE UNCHANGED admin
  BY <1>5 DEF admin
<1>6. QED BY <1>1, <1>2, <1>3, <1>4, <1>5, StepFacts DEF AdminStep

(* The type invariant, with what a tab may show and wait for.              *)
THEOREM EditingInvariant == EditingSpec => []EditingInv
<1>1. EditingInit => EditingInv
  BY InitFacts
<1>2. EditingInv /\ [EditingNext]_editingVars => EditingInv'
  BY TypeStep
<1>3. QED BY <1>1, <1>2, PTL DEF EditingSpec

(* The configuration, what one can go back to and what the tabs show are   *)
(* what ConfigEditing says they are.                                       *)
THEOREM EditingTypeCorrect == EditingSpec => []EditingTypeOK
<1>1. EditingInv => EditingTypeOK
  BY DEF EditingInv, PageOK, PageRecord, EditingTypeOK, PageState, Names
<1>2. QED BY <1>1, EditingInvariant, PTL

(* Whatever is saved, from however old a page and in whatever order, refers *)
(* to nothing that is not there, and neither does what one can go back to  *)
(* (buildValidatedAdminConfig(), validateGatewayConfig()), as long as the  *)
(* files the gateway is started with do not: of an undefined role in a     *)
(* file, loadConfig only warns.                                            *)
THEOREM ConfigurationConsistent ==
  ASSUME \A c \in OnDisk : Resolved(c)
  PROVE  EditingSpec => []Consistent
<1>1. EditingInit => ResolvedInv
  BY DEF EditingInit, ResolvedInv
<1>2. EditingInv /\ ResolvedInv /\ [EditingNext]_editingVars => ResolvedInv'
  BY ResolvedStep
<1>3. ResolvedInv => Consistent
  BY DEF ResolvedInv, Consistent
<1>4. QED BY <1>1, <1>2, <1>3, EditingInvariant, PTL DEF EditingSpec

(* No role may enter a namespace that is not there, although nothing in    *)
(* admin.ts checks it: every route and every page keeps roles and          *)
(* namespaces together, and so do the policies a tab has loaded by parts   *)
(* and kept for however long.  It is enough that the files do.             *)
THEOREM NoDeadGrants ==
  ASSUME \A c \in OnDisk : Live(c)
  PROVE  EditingSpec => []GrantsAreLive
<1>1. EditingInit => LiveInv
  BY InitFacts DEF EditingInit, LiveInv
<1>2. EditingInv /\ LiveInv /\ [EditingNext]_editingVars => LiveInv'
  BY LiveStep
<1>3. LiveInv => GrantsAreLive
  BY DEF LiveInv, Live, GrantsAreLive
<1>4. QED BY <1>1, <1>2, <1>3, EditingInvariant, PTL DEF EditingSpec

(* No save but those of the token routes, an import and a rollback adds a  *)
(* token, removes one or gives one a role (admin.ts:433-477), however old  *)
(* the page that sends it; and all of them take from tokens the roles that *)
(* are gone.                                                               *)
THEOREM TokensOnlyByHand ==
  ASSUME \A c \in OnDisk : Resolved(c)
  PROVE  EditingSpec => TokensByHand
<1>1. EditingInv /\ Consistent /\ [EditingNext]_editingVars =>
         [op'.kind \notin {"token", "restore"} =>
            /\ DOMAIN conf'.tokens = DOMAIN conf.tokens
            /\ \A t \in DOMAIN conf.tokens :
                  conf'.tokens[t] = conf.tokens[t] \cap DOMAIN conf'.roles]_editingVars
  BY TokensStep DEF Consistent
<1>2. QED BY <1>1, EditingInvariant, ConfigurationConsistent, PTL DEF EditingSpec, TokensByHand

(* A token may enter a namespace it could not enter before only where      *)
(* somebody asked for it: by a token route, an import or a rollback, in a  *)
(* namespace that is new, by policies that name the grant, or by policies  *)
(* that leave out a namespace servers are still in (admin.ts:213-250).     *)
THEOREM GrantsOnlyAsAsked == EditingSpec => NoSilentGrant
<1>1. EditingInv /\ [EditingNext]_editingVars =>
         [\A t \in DOMAIN conf.tokens \cap DOMAIN conf'.tokens, n \in Namespaces :
             MayEnter(conf', t, n) /\ ~MayEnter(conf, t, n) =>
                \/ op'.kind \in {"token", "restore"}
                \/ n \notin DOMAIN conf.namespaces
                \/ /\ op'.kind = "policies"
                   /\ n \in op'.left \/ \E r \in conf.tokens[t] : <<r, n>> \in op'.granted]_editingVars
  BY GrantStep
<1>2. QED BY <1>1, EditingInvariant, PTL DEF EditingSpec, NoSilentGrant

(* The configuration the gateway writes when it finds none is one the      *)
(* theorems allow it to be started with.                                   *)
LEMMA DefaultConfFacts ==
  /\ DefaultConf \in Conf /\ Valid(DefaultConf)
  /\ Resolved(DefaultConf) /\ Live(DefaultConf)
<1>1. << >> \in ServerMaps /\ << >> \in TokenMaps /\ DOMAIN << >> = {}
  <2>1. DOMAIN << >> = {} /\ << >> = [x \in DOMAIN << >> |-> << >>[x]]
    OBVIOUS
  <2>2. QED BY <2>1, PartialFacts DEF ServerMaps, TokenMaps
<1>2. [n \in {Default} |-> Roles] \in NamespaceMaps
  BY FunctionFacts, DefaultAssumption DEF NamespaceMaps
<1>3. [r \in Roles |-> {Default}] \in RoleMaps
  BY FunctionFacts, DefaultAssumption DEF RoleMaps
<1>4. DefaultConf \in Conf
  BY <1>1, <1>2, <1>3
     DEF Conf, DefaultConf, ServerMaps, NamespaceMaps, RoleMaps, TokenMaps
<1>5. QED BY <1>1, <1>4 DEF DefaultConf, Valid, Resolved, Live
=============================================================================
