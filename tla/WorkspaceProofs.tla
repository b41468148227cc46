--------------------------- MODULE WorkspaceProofs ---------------------------
(***************************************************************************)
(* Proofs about Workspace, for any sets of actors, pids, runtimes and      *)
(* versions, any number of faults, and with or without a state.json.       *)
(***************************************************************************)
EXTENDS WorkspaceRefinement, TLAPS

USE DEF Actors, Targets, Parents, StartLocs, StopLocs, UseLocs, VerLocs, LockedLocs,
        HalfLocs, Home, At, Idle

-----------------------------------------------------------------------------
(* Types of the tables that the operating system helpers compute.           *)

LEMMA ProcessTablesTyped ==
  ASSUME TypeOK, NEW h \in Parents
  PROVE  /\ Free(h) \in Process
         /\ Reaped(h) \in [Pids -> Process]
         /\ \A table \in [Pids -> Process] : Inherited(h, table) \in [Pids -> Process]
<1>1. Free(h) \in Process /\ Free(InitProcess) \in Process
  BY DEF Free, Process
<1>2. \A entry \in Process : [entry EXCEPT !.parent = InitProcess] \in Process
  BY DEF Process
<1>3. Reaped(h) \in [Pids -> Process]
  BY <1>1 DEF Reaped, TypeOK
<1>4. ASSUME NEW table \in [Pids -> Process]
      PROVE  Inherited(h, table) \in [Pids -> Process]
  BY <1>1, <1>2 DEF Inherited
<1>5. QED BY <1>1, <1>3, <1>4

LEMMA ActorTablesTyped ==
  ASSUME TypeOK, NEW a \in Actors
  PROVE  /\ Home(a) \in Parents
         /\ Reaped(Home(a)) \in [Pids -> Process]
         /\ Inspected(a) \in [Pids -> Process]
         /\ Settled(a, proc) \in [Pids -> Process]
         /\ Settled(a, Inspected(a)) \in [Pids -> Process]
<1>1. Home(a) \in Parents /\ InitProcess \in Parents
  OBVIOUS
<1>2. Inspected(a) \in [Pids -> Process]
  BY <1>1, ProcessTablesTyped DEF Inspected, TypeOK
<1>3. ASSUME NEW table \in [Pids -> Process]
      PROVE  Settled(a, table) \in [Pids -> Process]
  <2>1. [p \in Pids |-> IF p = pid[a] /\ table[p].st = "zombie" THEN Free(InitProcess) ELSE table[p]]
          \in [Pids -> Process]
    BY <1>1, ProcessTablesTyped
  <2>2. a \in Cli => Inherited(a, table) \in [Pids -> Process]
    BY ProcessTablesTyped
  <2>3. QED BY <2>1, <2>2 DEF Settled
<1>4. proc \in [Pids -> Process]
  BY DEF TypeOK
<1>5. QED BY <1>1, <1>2, <1>3, <1>4, ProcessTablesTyped

LEMMA StatusChangeTyped ==
  ASSUME TypeOK, NEW p \in Pids, NEW s \in {"free", "live", "term", "zombie", "foreign"}
  PROVE  [proc EXCEPT ![p].st = s] \in [Pids -> Process]
BY DEF TypeOK, Process

LEMMA InitTyped == Init => TypeOK
<1> SUFFICES ASSUME Init PROVE TypeOK
  OBVIOUS
<1>1. EmptyState(TRUE) \in State /\ EmptyState(FALSE) \in State
  BY DEF EmptyState, State
<1>2. QED
  BY <1>1, DataAssumption DEF Init, TypeOK, Selection, NoSelection, Process, Free, Meta, NoMeta

LEMMA RequestTyped ==
  ASSUME TypeOK, NEW a \in Actors, Request(a)
  PROVE  TypeOK'
<1> USE ActorTablesTyped DEF TypeOK, Enter, Goto, locals, os, files, links, ghosts
<1>1. CASE ReadStatus(a)
  BY <1>1 DEF ReadStatus
<1>2. CASE StartRejected(a)
  BY <1>2 DEF StartRejected, Rejected
<1>3. CASE StartAlreadyRunning(a)
  BY <1>3 DEF StartAlreadyRunning
<1>4. CASE Start(a)
  BY <1>4 DEF Start
<1>5. CASE StopRejected(a)
  BY <1>5 DEF StopRejected, Rejected
<1>6. CASE Stop(a)
  BY <1>6 DEF Stop
<1>7. CASE InitWorkspace(a)
  BY <1>7 DEF InitWorkspace
<1>8. CASE UseRejected(a)
  BY <1>8 DEF UseRejected, Rejected
<1>13. CASE PrepareEnvFails(a)
  BY <1>13 DEF PrepareEnvFails, Rejected
<1>9. ASSUME NEW t \in Runtimes, UseRuntime(a, t) PROVE TypeOK'
  BY <1>9 DEF UseRuntime, Selection
<1>10. ASSUME NEW t \in Versions, UseVersion(a, t) PROVE TypeOK'
  BY <1>10 DEF UseVersion
<1>11. CASE LinkModels(a)
  BY <1>11 DEF LinkModels
<1>12. QED
  BY <1>1, <1>2, <1>3, <1>4, <1>5, <1>6, <1>7, <1>8, <1>9, <1>10, <1>11, <1>13 DEF Request

LEMMA SwitchTyped ==
  ASSUME TypeOK, NEW a \in Actors, UseRuntimeStep(a) \/ UseVersionStep(a)
  PROVE  TypeOK'
<1> USE DEF TypeOK, Goto, locals, os, files, links, ghosts
<1>1. ASSUME NEW from \in LockedLocs, NEW to \in LockedLocs, ReplaceCurrent(a, from, to)
      PROVE  TypeOK'
  BY <1>1 DEF ReplaceCurrent
<1>2. ASSUME NEW from \in LockedLocs, NEW to \in LockedLocs, ReplaceEnv(a, from, to)
      PROVE  TypeOK'
  BY <1>2 DEF ReplaceEnv
<1>3. ASSUME NEW from \in LockedLocs, NEW to \in LockedLocs, LinkCurrentModels(a, from, to)
      PROVE  TypeOK'
  BY <1>3 DEF LinkCurrentModels
<1>4. ASSUME NEW from \in LockedLocs, NEW merged \in State, MergeState(a, from, merged)
      PROVE  TypeOK'
  <2>1. [merged EXCEPT !.path = target[a], !.env = target[a]] \in State
    BY DEF State
  <2>2. QED BY <1>4, <2>1 DEF MergeState, Leave, NoSelection, Selection
<1>5. /\ [state EXCEPT !.runtime = target[a]] \in State
      /\ [state EXCEPT !.version = target[a]] \in State
  BY DEF State
<1>6. QED BY <1>1, <1>2, <1>3, <1>4, <1>5 DEF UseRuntimeStep, UseVersionStep

LEMMA AdvanceTyped ==
  ASSUME TypeOK, NEW a \in Actors, Advance(a)
  PROVE  TypeOK'
<1> USE ProcessTablesTyped, ActorTablesTyped, DataAssumption
    DEF TypeOK, Goto, Leave, NoSelection, Selection, locals, os, files, links, ghosts
<1>1. CASE StartSpawn(a)
  BY <1>1 DEF StartSpawn, Process
<1>2. CASE StartSpawnFails(a)
  BY <1>2 DEF StartSpawnFails
<1>3. CASE StartWritePid(a)
  BY <1>3 DEF StartWritePid
<1>4. CASE StartWriteMeta(a)
  BY <1>4 DEF StartWriteMeta, Meta
<1>5. CASE StartReturn(a)
  BY <1>5 DEF StartReturn, Status
<1>6. CASE StopSignal(a)
  <2>1. proc' \in [Pids -> Process]
    <3>1. PICK s \in {"free", "live", "term", "zombie", "foreign"} :
            proc' = [proc EXCEPT ![pid[a]].st = s] /\ pid[a] \in Pids
      BY <1>6 DEF StopSignal, PidRunning, Process
    <3>2. QED BY <3>1, StatusChangeTyped
  <2>2. QED BY <1>6, <2>1 DEF StopSignal
<1>7. CASE StopSignalFails(a)
  BY <1>7 DEF StopSignalFails
<1>8. CASE StopGone(a)
  BY <1>8 DEF StopGone
<1>9. CASE StopTimeout(a)
  BY <1>9 DEF StopTimeout
<1>10. CASE StopUnlinkPid(a)
  BY <1>10 DEF StopUnlinkPid
<1>11. CASE StopUnlinkMeta(a)
  BY <1>11 DEF StopUnlinkMeta, Meta, NoMeta, Status
<1>12. CASE InitWriteState(a)
  BY <1>12 DEF InitWriteState, State, EmptyState
<1>13. CASE UseRuntimeStep(a) \/ UseVersionStep(a)
  BY <1>13, SwitchTyped
<1>15. CASE LinkModelsFails(a)
  <2>1. CASE UseRuntimeRaises(a)
    BY <1>15, <2>1 DEF LinkModelsFails, UseRuntimeRaises
  <2>2. CASE UseVersionRaises(a)
    BY <1>15, <2>2 DEF LinkModelsFails, UseVersionRaises
  <2>3. QED BY <1>15, <2>1, <2>2 DEF LinkModelsFails
<1>16. CASE RestoreCurrent(a)
  BY <1>16 DEF RestoreCurrent
<1>17. CASE RestoreEnv(a)
  BY <1>17 DEF RestoreEnv
<1>18. QED
  BY <1>1, <1>2, <1>3, <1>4, <1>5, <1>6, <1>7, <1>8, <1>9, <1>10, <1>11, <1>12, <1>13,
     <1>15, <1>16, <1>17 DEF Advance

LEMMA EnvironmentTyped ==
  ASSUME TypeOK
  PROVE  /\ \A a \in Actors : WriteFails(a) => TypeOK'
         /\ \A h \in Cli \cup {ApiProcess} : Kill(h) => TypeOK'
         /\ \A p \in Pids : System(p) => TypeOK'
<1> USE ProcessTablesTyped, ActorTablesTyped, DataAssumption
    DEF TypeOK, locals, os, files, links, ghosts
<1>1. ASSUME NEW a \in Actors, WriteFails(a) PROVE TypeOK'
  <2> USE DEF Goto, Leave, NoSelection, Selection
  <2>1. CASE StartWriteFails(a)
    <3>1. TornMeta \in Meta
      BY DEF Meta, TornMeta
    <3>2. proc' \in [Pids -> Process]
      <4>1. proc' = Settled(a, proc)
        BY <2>1 DEF StartWriteFails
      <4>2. QED BY <4>1, ActorTablesTyped
    <3>3. QED BY <2>1, <3>1, <3>2 DEF StartWriteFails, Torn
  <2>2. CASE SwitchWriteFails(a)
    <3>1. CASE UseRuntimeRaises(a)
      BY <2>2, <3>1 DEF SwitchWriteFails, UseRuntimeRaises
    <3>2. CASE UseVersionRaises(a)
      BY <2>2, <3>2 DEF SwitchWriteFails, UseVersionRaises
    <3>3. QED BY <2>2, <3>1, <3>2 DEF SwitchWriteFails
  <2>3. CASE RestoreFails(a)
    BY <2>3 DEF RestoreFails
  <2>4. QED BY <1>1, <2>1, <2>2, <2>3 DEF WriteFails
<1>2. ASSUME NEW h \in Cli \cup {ApiProcess}, Kill(h) PROVE TypeOK'
  <2>2. orphans' \subseteq Pids
    BY <1>2 DEF Kill
  <2>3. proc' \in [Pids -> Process]
    <3>1. h \in Parents /\ proc' = Inherited(h, proc)
      BY <1>2 DEF Kill
    <3>2. QED BY <3>1, ProcessTablesTyped
  <2>4. pidFile' \in Pids \cup {NoPid} /\ meta' \in Meta
    <3>1. (pidFile' = pidFile /\ meta' = meta) \/ \E a \in Actors : Torn(a)
      BY <1>2 DEF Kill
    <3>2. TornMeta \in Meta
      BY DEF TornMeta, Meta
    <3>3. QED BY <3>1, <3>2 DEF Torn
  <2>5. QED BY <1>2, <2>2, <2>3, <2>4 DEF Kill, NoSelection, Selection
<1>3. ASSUME NEW p \in Pids, System(p) PROVE TypeOK'
  <2>1. CASE Bind(p)
    BY <2>1 DEF Bind
  <2>2. CASE Exit(p)
    <3>1. [Free(proc[p].parent) EXCEPT !.st = "zombie"] \in Process /\ Free(InitProcess) \in Process
      BY DEF Free, Process
    <3>2. QED BY <2>2, <3>1 DEF Exit
  <2>3. CASE Recycle(p)
    <3>1. proc' \in [Pids -> Process]
      BY <2>3, StatusChangeTyped DEF Recycle
    <3>2. QED BY <2>3, <3>1 DEF Recycle
  <2>4. CASE ForeignExit(p)
    BY <2>4 DEF ForeignExit, Process, Free
  <2>5. QED BY <1>3, <2>1, <2>2, <2>3, <2>4 DEF System
<1>4. QED BY <1>1, <1>2, <1>3

(* Every reachable state is well typed.                                     *)
THEOREM Typed == Spec => []TypeOK
<1>1. TypeOK /\ [Next]_vars => TypeOK'
  <2>1. TypeOK /\ UNCHANGED vars => TypeOK'
    BY DEF TypeOK, vars, locals, os, files, links, ghosts
  <2>2. QED BY <2>1, RequestTyped, AdvanceTyped, EnvironmentTyped DEF Next
<1>2. QED BY <1>1, InitTyped, PTL DEF Spec

-----------------------------------------------------------------------------
(* Mutual exclusion of the locked sections.                                 *)

\* What a step of a may do to its position and to the lock.
LockStep(a) ==
  \/ pc' = pc /\ lock' = lock
  \/ \E l \in LockedLocs :
       /\ pc' = [pc EXCEPT ![a] = l] /\ lock' = a
       /\ lock = NoActor \/ (pc[a] \in LockedLocs /\ lock = a)
  \/ pc[a] \in LockedLocs /\ pc' = [pc EXCEPT ![a] = "idle"] /\ lock' = NoActor
  \/ \E l \in {"idle", "init_write"} :
       pc[a] \in {"idle", "init_write"} /\ pc' = [pc EXCEPT ![a] = l] /\ lock' = lock

LEMMA RequestLockStep ==
  ASSUME TypeOK, LockExclusion, NEW a \in Actors, Request(a)
  PROVE  LockStep(a)
<1> USE DEF Goto, LockStep
<1>0. ASSUME NEW l \in LockedLocs, Enter(a, l), lock = NoActor PROVE LockStep(a)
  BY <1>0 DEF Enter
<1>1. CASE ReadStatus(a) \/ LinkModels(a)
  BY <1>1 DEF ReadStatus, LinkModels
<1>2. CASE \/ StartRejected(a) \/ StopRejected(a) \/ UseRejected(a) \/ PrepareEnvFails(a)
           \/ StartAlreadyRunning(a)
  BY <1>2 DEF StartRejected, StopRejected, UseRejected, PrepareEnvFails, Rejected, StartAlreadyRunning
<1>3. CASE Start(a)
  BY <1>0, <1>3 DEF Start
<1>4. CASE Stop(a)
  BY <1>0, <1>4 DEF Stop
<1>5. CASE InitWorkspace(a)
  BY <1>5 DEF InitWorkspace
<1>6. ASSUME NEW t \in Runtimes, UseRuntime(a, t) PROVE LockStep(a)
  BY <1>0, <1>6 DEF UseRuntime
<1>7. ASSUME NEW t \in Versions, UseVersion(a, t) PROVE LockStep(a)
  BY <1>0, <1>7 DEF UseVersion
<1>8. QED BY <1>1, <1>2, <1>3, <1>4, <1>5, <1>6, <1>7 DEF Request

LEMMA AdvanceLockStep ==
  ASSUME TypeOK, LockExclusion, NEW a \in Actors, Advance(a) \/ WriteFails(a)
  PROVE  LockStep(a)
<1> USE DEF Goto, Leave, LockStep, LockExclusion
<1>1. CASE StartSpawn(a) \/ StartSpawnFails(a) \/ StartWritePid(a) \/ StartWriteMeta(a)
  BY <1>1 DEF StartSpawn, StartSpawnFails, StartWritePid, StartWriteMeta
<1>2. CASE StartReturn(a)
  BY <1>2 DEF StartReturn
<1>3. CASE StopSignal(a) \/ StopSignalFails(a) \/ StopGone(a) \/ StopTimeout(a)
  BY <1>3 DEF StopSignal, StopSignalFails, StopGone, StopTimeout
<1>4. CASE StopUnlinkPid(a) \/ StopUnlinkMeta(a)
  BY <1>4 DEF StopUnlinkPid, StopUnlinkMeta
<1>5. CASE InitWriteState(a)
  BY <1>5 DEF InitWriteState
<1>6. CASE UseRuntimeStep(a) \/ UseVersionStep(a)
  BY <1>6 DEF UseRuntimeStep, UseVersionStep, ReplaceCurrent, ReplaceEnv, LinkCurrentModels, MergeState
<1>7. CASE UseRuntimeRaises(a) \/ UseVersionRaises(a)
  BY <1>7 DEF UseRuntimeRaises, UseVersionRaises
<1>8. CASE RestoreCurrent(a) \/ RestoreEnv(a) \/ RestoreFails(a)
  BY <1>8 DEF RestoreCurrent, RestoreEnv, RestoreFails
<1>9. CASE StartWriteFails(a)
  BY <1>9 DEF StartWriteFails
<1>10. QED
  BY <1>1, <1>2, <1>3, <1>4, <1>5, <1>6, <1>7, <1>8, <1>9
     DEF Advance, WriteFails, LinkModelsFails, SwitchWriteFails

LEMMA LockExclusionKept ==
  ASSUME TypeOK, LockExclusion, [Next]_vars
  PROVE  LockExclusion'
<1> USE ActorsAssumption DEF LockExclusion
<1>1. ASSUME NEW a \in Actors, LockStep(a) PROVE LockExclusion'
  BY <1>1 DEF LockStep, TypeOK
<1>2. ASSUME NEW h \in Cli \cup {ApiProcess}, Kill(h) PROVE LockExclusion'
  BY <1>2 DEF Kill, TypeOK
<1>3. ASSUME NEW p \in Pids, System(p) PROVE LockExclusion'
  BY <1>3 DEF System, Bind, Exit, Recycle, ForeignExit
<1>4. CASE UNCHANGED vars
  BY <1>4 DEF vars
<1>5. QED BY <1>1, <1>2, <1>3, <1>4, RequestLockStep, AdvanceLockStep DEF Next

(* At most one actor is in a locked section of start, stop or a switch, and  *)
(* it is the one that holds workspace.lock.                                  *)
THEOREM Exclusion == Spec => []LockExclusion
<1>1. Init => LockExclusion
  BY ActorsAssumption DEF Init, LockExclusion
<1>2. QED BY <1>1, LockExclusionKept, Typed, PTL DEF Spec

-----------------------------------------------------------------------------
(* The services.  All steps but StartSpawn leave the set of services as it  *)
(* is or make it smaller, and none changes what a service executes.         *)

Runs == {"live", "term"}

KeepsServices(table) ==
  \A p \in Pids : table[p].st \in Runs =>
    proc[p].st \in Runs /\ table[p].app = proc[p].app /\ table[p].env = proc[p].env

NoNewService ==
  \A p \in Services' :
    p \in Services /\ proc'[p].app = proc[p].app /\ proc'[p].env = proc[p].env

LEMMA TablesKeepServices ==
  ASSUME TypeOK
  PROVE  /\ KeepsServices(proc)
         /\ \A h \in Parents : KeepsServices(Reaped(h)) /\ KeepsServices(Inherited(h, proc))
         /\ \A a \in Actors : /\ KeepsServices(Inspected(a)) /\ KeepsServices(Settled(a, proc))
                             /\ KeepsServices(Settled(a, Inspected(a)))
<1> USE DEF TypeOK, KeepsServices, Runs, Process
<1>1. KeepsServices(proc)
  OBVIOUS
<1>2. ASSUME NEW h \in Parents PROVE KeepsServices(Reaped(h))
  BY DEF Reaped, Free
<1>3. ASSUME NEW h \in Parents, NEW table \in [Pids -> Process], KeepsServices(table)
      PROVE  KeepsServices(Inherited(h, table))
  BY <1>3 DEF Inherited, Free
<1>4. ASSUME NEW a \in Actors PROVE KeepsServices(Inspected(a))
  BY <1>1, <1>2 DEF Inspected
<1>5. ASSUME NEW a \in Actors, NEW table \in [Pids -> Process], KeepsServices(table)
      PROVE  KeepsServices(Settled(a, table))
  BY <1>3, <1>5 DEF Settled, Free
<1>6. \A a \in Actors : Inspected(a) \in [Pids -> Process]
  BY ActorTablesTyped
<1>7. \A a \in Actors : KeepsServices(Settled(a, proc)) /\ KeepsServices(Settled(a, Inspected(a)))
  <2> HIDE DEF KeepsServices
  <2>1. QED BY <1>1, <1>4, <1>5, <1>6
<1>8. \A h \in Parents : KeepsServices(Inherited(h, proc))
  <2> HIDE DEF KeepsServices
  <2>1. QED BY <1>1, <1>3
<1>9. QED
  <2> HIDE DEF KeepsServices
  <2>1. QED BY <1>1, <1>2, <1>4, <1>7, <1>8

LEMMA KeptTable ==
  ASSUME KeepsServices(proc'), orphans \subseteq orphans'
  PROVE  NoNewService
BY DEF KeepsServices, NoNewService, Services, IsComfy, Runs

\* ServiceInvariant, for the actor that has the lock or may take it, at loc.
InvariantAt(a, loc) ==
  /\ loc \in {"start_spawn", "stop_clear", "stop_clear_meta"} \cup UseLocs \cup VerLocs
       => Services = {}
  /\ loc \in {"start_pid", "start_meta"} => Services \subseteq {pid[a]}
  /\ loc = "start_meta" => pidFile = pid[a]
  /\ loc \in {"stop_kill", "stop_wait"} => pid[a] = pidFile
  /\ loc \notin {"start_pid", "start_meta"} => \A p \in Services : Recorded(p)
  /\ ServiceRunsSelection

LEMMA ToLocal ==
  ASSUME TypeOK, LockExclusion, ServiceInvariant, NEW a \in Actors, lock \in {NoActor, a}
  PROVE  InvariantAt(a, pc[a])
<1>1. \A b \in Actors \ {a} : pc[b] \notin LockedLocs
  BY ActorsAssumption DEF LockExclusion
<1>2. QED BY <1>1 DEF ServiceInvariant, InvariantAt

LEMMA FromLocal ==
  ASSUME TypeOK, LockExclusion, NEW a \in Actors, lock \in {NoActor, a},
         NEW loc, pc' = [pc EXCEPT ![a] = loc], InvariantAt(a, loc)'
  PROVE  ServiceInvariant'
<1>1. \A b \in Actors \ {a} : pc'[b] \notin LockedLocs
  BY ActorsAssumption DEF LockExclusion, TypeOK
<1>2. pc'[a] = loc
  BY DEF TypeOK
<1>3. QED BY <1>1, <1>2 DEF ServiceInvariant, InvariantAt

LEMMA QuietStep ==
  ASSUME NoNewService, UNCHANGED <<pidFile, meta, current, currentEnv>>
  PROVE  /\ Services = {} => Services' = {}
         /\ (\A p \in Services : Recorded(p)) => \A p \in Services' : Recorded(p)'
         /\ ServiceRunsSelection => ServiceRunsSelection'
<1>1. Services = {} => Services' = {}
  BY DEF NoNewService
<1>2. QED BY <1>1 DEF NoNewService, Recorded, ServiceRunsSelection

LEMMA UnmovedStep ==
  ASSUME TypeOK, ServiceInvariant, NoNewService,
         UNCHANGED <<pc, pid, pidFile, meta, current, currentEnv>>
  PROVE  ServiceInvariant'
<1>1. Services' \subseteq Services
  BY DEF NoNewService
<1>2. QED BY <1>1, QuietStep DEF ServiceInvariant

\* What may run when a handler that found is_running false goes on.
LEMMA NotRunning ==
  ASSUME TypeOK, LockExclusion, ServiceInvariant, lock = NoActor, ~IsRunning
  PROVE  Services = {}
<1>1. \A a \in Actors : pc[a] \notin LockedLocs
  BY ActorsAssumption DEF LockExclusion
<1>2. \A p \in Services : Recorded(p)
  BY <1>1 DEF ServiceInvariant
<1>3. ASSUME NEW p \in Services PROVE IsRunning
  <2>1. p \in Pids /\ IsComfy(p) /\ p # NoPid /\ p = pidFile
    BY <1>2, DataAssumption DEF Services, Recorded
  <2>2. QED BY <1>2, <2>1 DEF Recorded, IsRunning, PidRunning, ProcessOwned, IsComfy
<1>4. QED BY <1>3

LEMMA RequestKeeps ==
  ASSUME TypeOK, LockExclusion, ServiceInvariant, NEW a \in Actors, Request(a)
  PROVE  ServiceInvariant'
<1> USE DEF files, links, ghosts, locals
<1>1. Inspected(a) = proc' \/ Reaped(Home(a)) = proc' => KeepsServices(proc')
  BY TablesKeepServices, ActorTablesTyped
<1>2. CASE \/ ReadStatus(a) \/ StartRejected(a) \/ StartAlreadyRunning(a)
           \/ StopRejected(a) \/ UseRejected(a) \/ PrepareEnvFails(a)
  <2>1. NoNewService
    BY <1>1, <1>2, KeptTable
       DEF ReadStatus, StartRejected, StartAlreadyRunning, StopRejected, UseRejected,
           PrepareEnvFails, Rejected
  <2>2. UNCHANGED <<pc, pid, pidFile, meta, current, currentEnv>>
    BY <1>2 DEF ReadStatus, StartRejected, StartAlreadyRunning, StopRejected, UseRejected,
           PrepareEnvFails, Rejected
  <2>3. QED BY <2>1, <2>2, UnmovedStep
<1>3. CASE LinkModels(a)
  <2>1. NoNewService
    BY <1>3, KeptTable, TablesKeepServices DEF LinkModels, os
  <2>2. QED BY <1>3, <2>1, UnmovedStep DEF LinkModels
<1>4. CASE InitWorkspace(a)
  <2>1. NoNewService /\ Services' = Services
    BY <1>4, KeptTable, TablesKeepServices DEF InitWorkspace, os, Services, IsComfy
  <2>2. \A b \in Actors : pc'[b] # pc[b] => b = a /\ pc[a] = "idle" /\ pc'[a] = "init_write"
    BY <1>4 DEF InitWorkspace, Goto, TypeOK
  <2>3. QED BY <1>4, <2>1, <2>2, QuietStep DEF InitWorkspace, ServiceInvariant
<1>5. ASSUME NEW loc, Enter(a, loc), lock = NoActor, NoNewService, Services = {},
             UNCHANGED <<pidFile, meta, current, currentEnv>>,
             loc \notin {"start_pid", "start_meta", "stop_kill", "stop_wait"}
      PROVE  ServiceInvariant'
  <2>1. Services' = {}
    BY <1>5 DEF NoNewService
  <2>2. InvariantAt(a, loc)'
    BY <1>5, <2>1 DEF InvariantAt, ServiceRunsSelection
  <2>3. QED BY <1>5, <2>2, FromLocal DEF Enter
<1>6. CASE Start(a)
  <2>1. NoNewService
    BY <1>1, <1>6, KeptTable DEF Start
  <2>2. QED BY <1>5, <1>6, <2>1, NotRunning DEF Start
<1>7. CASE Stop(a)
  <2>1. NoNewService
    BY <1>1, <1>7, KeptTable DEF Stop
  <2>2. CASE ~IsRunning
    BY <1>5, <1>7, <2>1, <2>2, NotRunning DEF Stop
  <2>3. CASE IsRunning
    <3>1. InvariantAt(a, "idle")
      BY <1>7, ToLocal DEF Stop
    <3>2. pid'[a] = pidFile'
      BY <1>7 DEF Stop, TypeOK
    <3>3. InvariantAt(a, "stop_kill")'
      BY <1>7, <2>1, <3>1, <3>2, QuietStep DEF Stop, InvariantAt
    <3>4. QED BY <1>7, <2>3, <3>3, FromLocal DEF Stop, Enter
  <2>4. QED BY <2>2, <2>3
<1>8. ASSUME NEW t \in Runtimes, UseRuntime(a, t) PROVE ServiceInvariant'
  <2>1. NoNewService
    BY <1>1, <1>8, KeptTable DEF UseRuntime
  <2>2. QED BY <1>5, <1>8, <2>1, NotRunning DEF UseRuntime
<1>9. ASSUME NEW t \in Versions, UseVersion(a, t) PROVE ServiceInvariant'
  <2>1. NoNewService
    BY <1>1, <1>9, KeptTable DEF UseVersion
  <2>2. QED BY <1>5, <1>9, <2>1, NotRunning DEF UseVersion
<1>10. QED BY <1>2, <1>3, <1>4, <1>6, <1>7, <1>8, <1>9 DEF Request

\* A step of the handler that has the lock: it is enough that what the next
\* location relies on holds.
LEMMA HandlerStep ==
  ASSUME TypeOK, LockExclusion, NEW a \in Actors, pc[a] \in LockedLocs,
         NEW loc, Goto(a, loc) \/ pc' = [pc EXCEPT ![a] = loc], InvariantAt(a, loc)'
  PROVE  ServiceInvariant'
<1>1. lock = a
  BY DEF LockExclusion
<1>2. QED BY <1>1, FromLocal DEF Goto

LEMMA StartKeeps ==
  ASSUME TypeOK, LockExclusion, ServiceInvariant, NEW a \in Actors,
         StartSpawn(a) \/ StartSpawnFails(a) \/ StartWritePid(a) \/ StartWriteMeta(a)
           \/ StartReturn(a) \/ StartWriteFails(a)
  PROVE  ServiceInvariant'
<1> USE DEF files, links, ghosts, locals
<1>1. pc[a] \in LockedLocs /\ InvariantAt(a, pc[a])
  <2>1. pc[a] \in LockedLocs
    BY DEF StartSpawn, StartSpawnFails, StartWritePid, StartWriteMeta, StartReturn, StartWriteFails
  <2>2. QED BY <2>1, ToLocal DEF LockExclusion
<1>2. /\ KeepsServices(Reaped(Home(a))) /\ KeepsServices(proc)
      /\ KeepsServices(Settled(a, proc)) /\ KeepsServices(Settled(a, Inspected(a)))
  BY TablesKeepServices, ActorTablesTyped
<1>3. CASE StartSpawn(a)
  <2>1. PICK p \in Pids :
          /\ proc' = [Reaped(Home(a)) EXCEPT ![p] = [st |-> "live", app |-> current,
                                                     env |-> currentEnv, parent |-> Home(a)]]
          /\ pid' = [pid EXCEPT ![a] = p]
    BY <1>3 DEF StartSpawn
  <2>2. pid'[a] = p
    BY <2>1 DEF TypeOK
  <2>3. Services = {}
    BY <1>1, <1>3 DEF InvariantAt, StartSpawn
  <2>4. \A q \in Pids : q # p => proc'[q] = Reaped(Home(a))[q]
    BY <2>1, ActorTablesTyped
  <2>5. proc'[p].app = current /\ proc'[p].env = currentEnv
    BY <2>1, ActorTablesTyped
  <2>6. Services' \subseteq {p}
    BY <1>2, <1>3, <2>3, <2>4 DEF KeepsServices, Services, IsComfy, Runs, StartSpawn
  <2>7. InvariantAt(a, "start_pid")'
    BY <1>3, <2>2, <2>5, <2>6 DEF InvariantAt, StartSpawn, ServiceRunsSelection
  <2>8. QED BY <1>1, <1>3, <2>7, HandlerStep DEF StartSpawn
<1>4. CASE StartSpawnFails(a)
  <2>1. NoNewService
    BY <1>2, <1>4, KeptTable DEF StartSpawnFails
  <2>2. Services' = {}
    BY <1>1, <1>4, <2>1 DEF InvariantAt, StartSpawnFails, NoNewService
  <2>3. InvariantAt(a, "idle")'
    BY <2>2 DEF InvariantAt, ServiceRunsSelection
  <2>4. QED BY <1>1, <1>4, <2>3, HandlerStep DEF StartSpawnFails, Leave
<1>5. CASE StartWritePid(a)
  <2>1. Services' = Services
    BY <1>5 DEF StartWritePid, os, Services, IsComfy
  <2>2. InvariantAt(a, "start_meta")'
    BY <1>1, <1>5, <2>1 DEF InvariantAt, StartWritePid, os, ServiceRunsSelection
  <2>3. QED BY <1>1, <1>5, <2>2, HandlerStep DEF StartWritePid
<1>6. CASE StartWriteMeta(a)
  <2>1. Services' = Services
    BY <1>6 DEF StartWriteMeta, os, Services, IsComfy
  <2>2. ServiceRunsSelection'
    BY <1>1, <1>6, <2>1 DEF InvariantAt, StartWriteMeta, os, ServiceRunsSelection
  <2>3. \A p \in Services' : Recorded(p)'
    BY <1>1, <1>6, <2>1 DEF InvariantAt, StartWriteMeta, os, ServiceRunsSelection, Recorded
  <2>4. InvariantAt(a, "start_wait")'
    BY <2>2, <2>3 DEF InvariantAt
  <2>5. QED BY <1>1, <1>6, <2>4, HandlerStep DEF StartWriteMeta
<1>7. CASE StartReturn(a)
  <2>1. NoNewService
    BY <1>2, <1>7, KeptTable DEF StartReturn
  <2>2. InvariantAt(a, "idle")'
    BY <1>1, <1>7, <2>1, QuietStep DEF InvariantAt, StartReturn
  <2>3. QED BY <1>1, <1>7, <2>2, HandlerStep DEF StartReturn, Leave
<1>8. CASE StartWriteFails(a)
  <2>1. NoNewService
    BY <1>2, <1>8, KeptTable DEF StartWriteFails
  <2>2. pid[a] \notin Services'
    BY <1>8, <2>1 DEF StartWriteFails, NoNewService, Services
  <2>3. Services' = {}
    BY <1>1, <1>8, <2>1, <2>2 DEF InvariantAt, StartWriteFails, NoNewService
  <2>4. InvariantAt(a, "idle")'
    BY <2>3 DEF InvariantAt, ServiceRunsSelection
  <2>5. QED BY <1>1, <1>8, <2>4, HandlerStep DEF StartWriteFails, Leave
<1>9. QED BY <1>3, <1>4, <1>5, <1>6, <1>7, <1>8

LEMMA StopKeeps ==
  ASSUME TypeOK, LockExclusion, ServiceInvariant, NEW a \in Actors,
         StopSignal(a) \/ StopSignalFails(a) \/ StopGone(a) \/ StopTimeout(a)
           \/ StopUnlinkPid(a) \/ StopUnlinkMeta(a)
  PROVE  ServiceInvariant'
<1> USE DEF files, links, ghosts, locals
<1>1. pc[a] \in LockedLocs /\ InvariantAt(a, pc[a])
  <2>1. pc[a] \in LockedLocs
    BY DEF StopSignal, StopSignalFails, StopGone, StopTimeout, StopUnlinkPid, StopUnlinkMeta
  <2>2. QED BY <2>1, ToLocal DEF LockExclusion
<1>2. CASE StopSignal(a)
  <2>1. KeepsServices(proc')
    BY <1>2 DEF StopSignal, KeepsServices, Runs, TypeOK, Process
  <2>2. NoNewService
    BY <1>2, <2>1, KeptTable DEF StopSignal
  <2>3. InvariantAt(a, "stop_wait")'
    BY <1>1, <1>2, <2>2, QuietStep DEF InvariantAt, StopSignal
  <2>4. QED BY <1>1, <1>2, <2>3, HandlerStep DEF StopSignal
<1>3. CASE StopSignalFails(a) \/ StopGone(a) \/ StopTimeout(a)
           \/ StopUnlinkPid(a) \/ StopUnlinkMeta(a)
  <2>1. proc' = proc /\ orphans' = orphans
    BY <1>3 DEF StopSignalFails, StopGone, StopTimeout, StopUnlinkPid, StopUnlinkMeta, os
  <2>2. NoNewService
    BY <2>1, KeptTable, TablesKeepServices
  <2>3. CASE StopSignalFails(a) \/ StopTimeout(a)
    <3>1. InvariantAt(a, "idle")'
      BY <1>1, <2>2, <2>3, QuietStep DEF InvariantAt, StopSignalFails, StopTimeout
    <3>2. QED BY <1>1, <2>3, <3>1, HandlerStep DEF StopSignalFails, StopTimeout, Leave
  <2>4. CASE StopGone(a)
    <3>1. \A p \in Services : p = pid[a] /\ PidRunning(p)
      BY <1>1, <2>4, DataAssumption
         DEF StopGone, InvariantAt, Recorded, Services, PidRunning, IsComfy
    <3>2. Services = {}
      BY <2>4, <3>1 DEF StopGone
    <3>3. InvariantAt(a, "stop_clear")'
      BY <2>2, <3>2 DEF NoNewService, InvariantAt, ServiceRunsSelection
    <3>4. QED BY <1>1, <2>4, <3>3, HandlerStep DEF StopGone
  <2>5. CASE StopUnlinkPid(a) \/ StopUnlinkMeta(a)
    <3>1. Services' = {}
      BY <1>1, <2>2, <2>5 DEF StopUnlinkPid, StopUnlinkMeta, InvariantAt, NoNewService
    <3>2. InvariantAt(a, "stop_clear_meta")' /\ InvariantAt(a, "idle")'
      BY <3>1 DEF InvariantAt, ServiceRunsSelection
    <3>3. QED BY <1>1, <2>5, <3>2, HandlerStep DEF StopUnlinkPid, StopUnlinkMeta, Leave
  <2>6. QED BY <1>3, <2>3, <2>4, <2>5
<1>4. QED BY <1>2, <1>3

LEMMA SwitchKeeps ==
  ASSUME TypeOK, LockExclusion, ServiceInvariant, NEW a \in Actors,
         \/ UseRuntimeStep(a) \/ UseVersionStep(a) \/ LinkModelsFails(a)
         \/ RestoreCurrent(a) \/ RestoreEnv(a) \/ SwitchWriteFails(a) \/ RestoreFails(a)
  PROVE  ServiceInvariant'
<1>1. /\ pc[a] \in UseLocs \cup VerLocs
      /\ UNCHANGED <<proc, orphans>>
      /\ \E loc \in UseLocs \cup VerLocs \cup {"idle"} : pc' = [pc EXCEPT ![a] = loc]
  <2> USE DEF Goto, Leave, os, ghosts
  <2>1. CASE UseRuntimeStep(a) \/ UseVersionStep(a)
    BY <2>1 DEF UseRuntimeStep, UseVersionStep, ReplaceCurrent, ReplaceEnv, LinkCurrentModels, MergeState
  <2>2. CASE LinkModelsFails(a) \/ SwitchWriteFails(a)
    BY <2>2 DEF LinkModelsFails, SwitchWriteFails, UseRuntimeRaises, UseVersionRaises
  <2>3. CASE RestoreCurrent(a) \/ RestoreEnv(a) \/ RestoreFails(a)
    BY <2>3 DEF RestoreCurrent, RestoreEnv, RestoreFails
  <2>4. QED BY <2>1, <2>2, <2>3
<1>2. lock = a /\ pc[a] \in LockedLocs
  BY <1>1 DEF LockExclusion
<1>3. Services' = {}
  <2>1. Services = {}
    BY <1>1, <1>2, ToLocal DEF InvariantAt
  <2>2. QED BY <1>1, <2>1 DEF Services, IsComfy
<1>4. PICK loc \in UseLocs \cup VerLocs \cup {"idle"} : pc' = [pc EXCEPT ![a] = loc]
  BY <1>1
<1>5. InvariantAt(a, loc)'
  BY <1>3 DEF InvariantAt, ServiceRunsSelection
<1>6. QED BY <1>2, <1>4, <1>5, HandlerStep

LEMMA InitWriteKeeps ==
  ASSUME TypeOK, ServiceInvariant, NEW a \in Actors, InitWriteState(a)
  PROVE  ServiceInvariant'
<1>1. NoNewService /\ Services' = Services
  BY KeptTable, TablesKeepServices DEF InitWriteState, os, ghosts, Services, IsComfy
<1>2. \A b \in Actors : pc'[b] # pc[b] => pc[b] = "init_write" /\ pc'[b] = "idle"
  BY DEF InitWriteState, Goto, TypeOK
<1>3. QED
  BY <1>1, <1>2, QuietStep DEF InitWriteState, ServiceInvariant, locals, files, links

LEMMA KillKeeps ==
  ASSUME TypeOK, LockExclusion, ServiceInvariant, NEW h \in Cli \cup {ApiProcess}, Kill(h)
  PROVE  ServiceInvariant'
<1>1. NoNewService
  <2>1. KeepsServices(proc')
    BY TablesKeepServices DEF Kill
  <2>2. QED BY <2>1, KeptTable DEF Kill
<1>2. \A b \in Actors : \/ pc'[b] = "idle" /\ Home(b) = h
                        \/ pc'[b] = pc[b] /\ pid'[b] = pid[b]
  BY DEF Kill
<1>3. ASSUME NEW b \in Actors, Home(b) = h, pc[b] \in {"start_pid", "start_meta"}
      PROVE  Services' = {}
  <2>1. Services \subseteq {pid[b]}
    BY <1>3 DEF ServiceInvariant
  <2>2. pid[b] \notin Services'
    BY <1>1, <1>3 DEF Kill, NoNewService, Services
  <2>3. QED BY <1>1, <2>1, <2>2 DEF NoNewService
<1>4. CASE \E b \in Actors : Home(b) = h /\ pc[b] \in {"start_pid", "start_meta"}
  <2>1. PICK b \in Actors : Home(b) = h /\ pc[b] \in {"start_pid", "start_meta"}
    BY <1>4
  <2>2. \A a \in Actors : pc'[a] \notin LockedLocs
    <3>1. \A a \in Actors \ {b} : pc[a] \notin LockedLocs
      BY <2>1, ActorsAssumption DEF LockExclusion
    <3>2. pc'[b] = "idle"
      BY <2>1 DEF Kill
    <3>3. QED BY <1>2, <3>1, <3>2
  <2>3. Services' = {}
    BY <1>3, <2>1
  <2>4. QED BY <2>2, <2>3 DEF ServiceInvariant, ServiceRunsSelection
<1>5. CASE \A b \in Actors : Home(b) = h => pc[b] \notin {"start_pid", "start_meta"}
  <2>1. \A b \in Actors : Home(b) = h => pc[b] \notin {"start_pid", "start_meta"}
    BY <1>5
  <2>2. UNCHANGED <<pidFile, meta, current, currentEnv>>
    BY <2>1 DEF Kill, Torn, files, links
  <2>3. Services' \subseteq Services
    BY <1>1 DEF NoNewService
  <2>4. (\A a \in Actors : pc'[a] \notin {"start_pid", "start_meta"})
           => \A a \in Actors : pc[a] \notin {"start_pid", "start_meta"}
    BY <1>2, <2>1
  <2>5. QED BY <1>1, <1>2, <2>2, <2>3, <2>4, QuietStep DEF ServiceInvariant
<1>6. QED BY <1>4, <1>5

LEMMA SystemKeeps ==
  ASSUME TypeOK, ServiceInvariant, NEW p \in Pids, System(p)
  PROVE  ServiceInvariant'
<1> USE DEF locals, files, links, ghosts
<1>1. NoNewService
  <2>1. CASE Bind(p)
    BY <2>1, KeptTable, TablesKeepServices DEF Bind
  <2>2. CASE Exit(p)
    <3>1. ~IsComfy(p)'
      BY <2>2 DEF Exit, IsComfy, Free, TypeOK
    <3>2. \A q \in Pids \ {p} : proc'[q] = proc[q]
      BY <2>2 DEF Exit, TypeOK
    <3>3. QED BY <2>2, <3>1, <3>2 DEF Exit, NoNewService, Services, IsComfy
  <2>3. CASE Recycle(p)
    <3>1. KeepsServices(proc')
      BY <2>3 DEF Recycle, KeepsServices, Runs, TypeOK, Process
    <3>2. QED BY <2>3, <3>1, KeptTable DEF Recycle
  <2>4. CASE ForeignExit(p)
    <3>1. KeepsServices(proc')
      BY <2>4 DEF ForeignExit, KeepsServices, Runs, TypeOK, Process, Free
    <3>2. QED BY <2>4, <3>1, KeptTable DEF ForeignExit
  <2>5. QED BY <2>1, <2>2, <2>3, <2>4 DEF System
<1>2. UNCHANGED <<pc, pid, pidFile, meta, current, currentEnv>>
  BY DEF System, Bind, Exit, Recycle, ForeignExit
<1>3. QED BY <1>1, <1>2, UnmovedStep

LEMMA ServiceInvariantKept ==
  ASSUME TypeOK, LockExclusion, ServiceInvariant, [Next]_vars
  PROVE  ServiceInvariant'
<1>1. CASE UNCHANGED vars
  <2>1. NoNewService
    BY <1>1, KeptTable, TablesKeepServices DEF vars, os, ghosts
  <2>2. QED BY <1>1, <2>1, UnmovedStep DEF vars, locals, files, links
<1>2. ASSUME NEW a \in Actors, Advance(a) \/ WriteFails(a) PROVE ServiceInvariant'
  BY <1>2, StartKeeps, StopKeeps, SwitchKeeps, InitWriteKeeps DEF Advance, WriteFails
<1>3. QED BY <1>1, <1>2, RequestKeeps, KillKeeps, SystemKeeps DEF Next

(* The strengthening that makes the two theorems below inductive.           *)
THEOREM Inductive == Spec => []ServiceInvariant
<1>1. Init => ServiceInvariant
  BY DEF Init, ServiceInvariant, ServiceRunsSelection, Services, IsComfy, Free
<1>2. QED BY <1>1, ServiceInvariantKept, Typed, Exclusion, PTL DEF Spec

(* A ComfyUI that no crash orphaned runs the code and the interpreter that   *)
(* the two symlinks name, at every moment, whatever the actors do.           *)
THEOREM RunsSelection == Spec => []ServiceRunsSelection
<1>1. ServiceInvariant => ServiceRunsSelection
  BY DEF ServiceInvariant
<1>2. QED BY <1>1, Inductive, PTL

(* While the lock is free, it is recorded in comfyui.pid and comfyui.meta,   *)
(* so is_running sees it: the check before every start and switch is sound.  *)
THEOREM IsRecorded == Spec => []ServiceIsRecorded
<1>1. LockExclusion /\ ServiceInvariant => ServiceIsRecorded
  BY ActorsAssumption DEF LockExclusion, ServiceInvariant, ServiceIsRecorded
<1>2. QED BY <1>1, Inductive, Exclusion, PTL

(* The files that record a running ComfyUI are not removed: comfyui.pid goes *)
(* with stop after the process has, or it never named a recorded service.    *)
THEOREM Remembered == Spec => NeverForgotten
<1> DEFINE Kept == \A p \in Services : pidFile = p => pidFile' = p \/ p \notin Services'
<1>1. ASSUME TypeOK, LockExclusion, ServiceInvariant, [Next]_vars
      PROVE  [Kept]_vars
  <2> USE DEF files
  <2>1. CASE pidFile' = pidFile
    BY <2>1
  <2>2. ASSUME NEW a \in Actors, StartWritePid(a) PROVE Kept
    BY <1>1, <2>2 DEF StartWritePid, ServiceInvariant
  <2>3. ASSUME NEW a \in Actors, StopUnlinkPid(a) PROVE Kept
    BY <1>1, <2>3 DEF StopUnlinkPid, ServiceInvariant
  <2>4. ASSUME NEW a \in Actors, StartWriteFails(a) PROVE Kept
    <3>1. Services \subseteq {pid[a]}
      BY <1>1, <2>4 DEF StartWriteFails, ServiceInvariant
    <3>2. pid[a] \in Services => pid[a] \in orphans'
      BY <2>4 DEF StartWriteFails, Services
    <3>3. QED BY <3>1, <3>2 DEF Services
  <2>5. ASSUME NEW a \in Actors, Request(a) \/ Advance(a) \/ WriteFails(a), pidFile' # pidFile
        PROVE  StartWritePid(a) \/ StopUnlinkPid(a) \/ StartWriteFails(a)
    <3>1. ~Request(a)
      BY <2>5 DEF Request, ReadStatus, StartRejected, StopRejected, UseRejected, PrepareEnvFails, Rejected,
         StartAlreadyRunning, Start, Stop, InitWorkspace, UseRuntime, UseVersion, LinkModels
    <3>2. ~SwitchWriteFails(a) /\ ~RestoreFails(a)
      BY <2>5 DEF SwitchWriteFails, RestoreFails
    <3>3. CASE Advance(a)
      <4>1. ~UseRuntimeStep(a) /\ ~UseVersionStep(a)
        BY <2>5 DEF UseRuntimeStep, UseVersionStep, ReplaceCurrent, ReplaceEnv,
           LinkCurrentModels, MergeState
      <4>2. QED
        BY <2>5, <3>3, <4>1 DEF Advance, StartSpawn, StartSpawnFails, StartWriteMeta,
           StartReturn, StopSignal, StopSignalFails, StopGone, StopTimeout, StopUnlinkMeta,
           InitWriteState, LinkModelsFails, RestoreCurrent, RestoreEnv
    <3>4. QED BY <2>5, <3>1, <3>2, <3>3 DEF WriteFails
  <2>6. CASE pidFile' # pidFile
    <3>1. ASSUME NEW h \in Cli \cup {ApiProcess}, Kill(h) PROVE Kept
      <4>1. PICK a \in Actors : Home(a) = h /\ At(a, "start_pid")
        BY <2>6, <3>1 DEF Kill, Torn
      <4>2. Services \subseteq {pid[a]}
        BY <1>1, <4>1 DEF ServiceInvariant
      <4>3. pid[a] \in Services => pid[a] \in orphans'
        BY <3>1, <4>1 DEF Kill, Services
      <4>4. QED BY <4>2, <4>3 DEF Services
    <3>2. \A p \in Pids : ~System(p)
      BY <2>6 DEF System, Bind, Exit, Recycle, ForeignExit
    <3>3. CASE \E a \in Actors : Request(a) \/ Advance(a) \/ WriteFails(a)
      BY <2>2, <2>3, <2>4, <2>5, <2>6, <3>3
    <3>4. QED BY <1>1, <2>6, <3>1, <3>2, <3>3 DEF Next, vars
  <2>7. QED BY <2>1, <2>6
<1>2. QED BY <1>1, Typed, Exclusion, Inductive, PTL DEF Spec, NeverForgotten

-----------------------------------------------------------------------------
(* What stop signals.                                                       *)

\* Between its inspection and the kill the pid of a stop is of no stranger.
VictimIsOurs ==
  \A a \in Actors : pc[a] = "stop_kill" => pid[a] \in Pids /\ proc[pid[a]].st # "foreign"

NoNewStranger == \A p \in Pids : proc'[p].st = "foreign" => proc[p].st = "foreign"

LEMMA TablesBringNoStranger ==
  ASSUME TypeOK, NEW table \in {proc} \cup {Reaped(h) : h \in Parents}
                   \cup {Inherited(h, proc) : h \in Parents} \cup {Inspected(a) : a \in Actors}
                   \cup {Settled(a, proc) : a \in Actors}
                   \cup {Settled(a, Inspected(a)) : a \in Actors},
         proc' = table
  PROVE  NoNewStranger
<1> DEFINE Brings(t) == \E p \in Pids : t[p].st = "foreign" /\ proc[p].st # "foreign"
<1> USE DEF TypeOK, Process
<1>1. ~Brings(proc)
  OBVIOUS
<1>2. ASSUME NEW h \in Parents PROVE ~Brings(Reaped(h))
  BY DEF Reaped, Free
<1>3. ASSUME NEW h \in Parents, NEW t \in [Pids -> Process], ~Brings(t)
      PROVE  ~Brings(Inherited(h, t))
  BY <1>3 DEF Inherited, Free
<1>4. ASSUME NEW a \in Actors PROVE ~Brings(Inspected(a))
  BY <1>1, <1>2 DEF Inspected
<1>5. ASSUME NEW a \in Actors, NEW t \in [Pids -> Process], ~Brings(t)
      PROVE  ~Brings(Settled(a, t))
  BY <1>3, <1>5 DEF Settled, Free
<1>6. \A a \in Actors : Inspected(a) \in [Pids -> Process]
  BY ActorTablesTyped
<1>7. ~Brings(table)
  <2> HIDE DEF Brings
  <2>1. \A a \in Actors : ~Brings(Settled(a, proc)) /\ ~Brings(Settled(a, Inspected(a)))
    BY <1>1, <1>4, <1>5, <1>6
  <2>2. \A h \in Parents : ~Brings(Inherited(h, proc))
    BY <1>1, <1>3
  <2>3. QED BY <1>1, <1>2, <1>4, <2>1, <2>2
<1>8. QED BY <1>7 DEF NoNewStranger

LEMMA ActorBringsNoStranger ==
  ASSUME TypeOK, NEW a \in Actors, Request(a) \/ Advance(a) \/ WriteFails(a)
  PROVE  NoNewStranger
<1> USE TablesBringNoStranger DEF os
<1>0. Home(a) \in Parents
  BY ActorTablesTyped
<1>1. CASE Request(a)
  BY <1>0, <1>1 DEF Request, ReadStatus, StartRejected, StopRejected, UseRejected, PrepareEnvFails, Rejected,
     StartAlreadyRunning, Start, Stop, InitWorkspace, UseRuntime, UseVersion, LinkModels
<1>2. CASE WriteFails(a)
  BY <1>2 DEF WriteFails, StartWriteFails, SwitchWriteFails, RestoreFails
<1>3. CASE StartSpawn(a)
  BY <1>0, <1>3, ActorTablesTyped DEF StartSpawn, NoNewStranger, Reaped, Free
<1>4. CASE StopSignal(a)
  BY <1>4 DEF StopSignal, NoNewStranger, TypeOK, Process
<1>5. CASE UseRuntimeStep(a) \/ UseVersionStep(a)
  BY <1>5 DEF UseRuntimeStep, UseVersionStep, ReplaceCurrent, ReplaceEnv, LinkCurrentModels, MergeState
<1>6. CASE Advance(a) /\ ~StartSpawn(a) /\ ~StopSignal(a) /\ ~UseRuntimeStep(a) /\ ~UseVersionStep(a)
  BY <1>0, <1>6 DEF Advance, StartSpawnFails, StartWritePid, StartWriteMeta, StartReturn,
     StopSignalFails, StopGone, StopTimeout, StopUnlinkPid, StopUnlinkMeta, InitWriteState,
     LinkModelsFails, RestoreCurrent, RestoreEnv
<1>7. QED BY <1>1, <1>2, <1>3, <1>4, <1>5, <1>6

\* Only Stop goes to stop_kill, and with the pid of a ComfyUI.
LEMMA ActorReachesKill ==
  ASSUME TypeOK, LockExclusion, NEW a \in Actors, Request(a) \/ Advance(a) \/ WriteFails(a),
         NEW b \in Actors, pc'[b] = "stop_kill"
  PROVE  \/ pc[b] = "stop_kill" /\ pid'[b] = pid[b]
         \/ Stop(b) /\ IsRunning /\ pid'[b] = pidFile
<1> USE DEF Goto, Enter, Leave, locals, TypeOK
<1>1. CASE Stop(a)
  BY <1>1, ActorsAssumption DEF Stop, LockExclusion
<1>2. CASE Request(a) /\ ~Stop(a)
  BY <1>2 DEF Request, ReadStatus, StartRejected, StopRejected, UseRejected, PrepareEnvFails, Rejected,
     StartAlreadyRunning, Start, InitWorkspace, UseRuntime, UseVersion, LinkModels
<1>3. CASE WriteFails(a)
  BY <1>3 DEF WriteFails, StartWriteFails, SwitchWriteFails, RestoreFails,
     UseRuntimeRaises, UseVersionRaises
<1>4. CASE UseRuntimeStep(a) \/ UseVersionStep(a)
  BY <1>4 DEF UseRuntimeStep, UseVersionStep, ReplaceCurrent, ReplaceEnv, LinkCurrentModels, MergeState
<1>5. CASE StartSpawn(a) \/ StartSpawnFails(a) \/ StartWritePid(a) \/ StartWriteMeta(a)
  BY <1>5 DEF StartSpawn, StartSpawnFails, StartWritePid, StartWriteMeta
<1>6. CASE StartReturn(a) \/ InitWriteState(a) \/ LinkModelsFails(a) \/ RestoreCurrent(a) \/ RestoreEnv(a)
  BY <1>6 DEF StartReturn, InitWriteState, LinkModelsFails, RestoreCurrent, RestoreEnv,
     UseRuntimeRaises, UseVersionRaises
<1>7. CASE \/ StopSignal(a) \/ StopSignalFails(a) \/ StopGone(a) \/ StopTimeout(a)
           \/ StopUnlinkPid(a) \/ StopUnlinkMeta(a)
  BY <1>7 DEF StopSignal, StopSignalFails, StopGone, StopTimeout, StopUnlinkPid, StopUnlinkMeta
<1>8. QED BY <1>1, <1>2, <1>3, <1>4, <1>5, <1>6, <1>7 DEF Advance

LEMMA VictimKept ==
  ASSUME TypeOK, LockExclusion, VictimIsOurs, [Next]_vars
  PROVE  VictimIsOurs'
<1>1. ASSUME NEW a \in Actors, Request(a) \/ Advance(a) \/ WriteFails(a) PROVE VictimIsOurs'
  <2> SUFFICES ASSUME NEW b \in Actors, pc'[b] = "stop_kill"
               PROVE  pid'[b] \in Pids /\ proc'[pid'[b]].st # "foreign"
    BY DEF VictimIsOurs
  <2>1. NoNewStranger
    BY <1>1, ActorBringsNoStranger
  <2>2. CASE pc[b] = "stop_kill" /\ pid'[b] = pid[b]
    BY <2>1, <2>2 DEF VictimIsOurs, NoNewStranger
  <2>3. CASE IsRunning /\ pid'[b] = pidFile
    BY <2>1, <2>3 DEF IsRunning, PidRunning, ProcessOwned, IsComfy, NoNewStranger, TypeOK
  <2>4. QED BY <1>1, <2>2, <2>3, ActorReachesKill
<1>2. ASSUME NEW h \in Cli \cup {ApiProcess}, Kill(h) PROVE VictimIsOurs'
  <2>1. NoNewStranger
    BY <1>2, TablesBringNoStranger DEF Kill
  <2>2. \A b \in Actors : pc'[b] = "stop_kill" => pc[b] = "stop_kill" /\ pid'[b] = pid[b]
    BY <1>2 DEF Kill
  <2>3. QED BY <2>1, <2>2 DEF VictimIsOurs, NoNewStranger
<1>3. ASSUME NEW p \in Pids, System(p) PROVE VictimIsOurs'
  <2>1. UNCHANGED <<pc, pid>>
    BY <1>3 DEF System, Bind, Exit, Recycle, ForeignExit, locals
  <2>2. \A q \in Pids :
          proc'[q].st = "foreign" => proc[q].st = "foreign" \/ (Recycle(p) /\ q = p)
    <3> USE DEF TypeOK, Process
    <3>1. CASE Bind(p)
      BY <3>1 DEF Bind
    <3>2. CASE Exit(p)
      <4>1. proc'[p].st # "foreign" /\ \A q \in Pids \ {p} : proc'[q] = proc[q]
        BY <3>2 DEF Exit, Free
      <4>2. QED BY <4>1
    <3>3. CASE Recycle(p)
      <4>1. \A q \in Pids \ {p} : proc'[q] = proc[q]
        BY <3>3 DEF Recycle
      <4>2. QED BY <3>3, <4>1
    <3>4. CASE ForeignExit(p)
      BY <3>4 DEF ForeignExit, Free
    <3>5. QED BY <1>3, <3>1, <3>2, <3>3, <3>4 DEF System
  <2>3. QED BY <2>1, <2>2 DEF VictimIsOurs, Recycle
<1>4. CASE UNCHANGED vars
  BY <1>4 DEF vars, locals, os, VictimIsOurs
<1>5. QED BY <1>1, <1>2, <1>3, <1>4 DEF Next

(* stop never signals a foreign process, however stale comfyui.pid is and    *)
(* whoever has its pid by now.                                              *)
THEOREM SparesStrangers == Spec => SignalsOnlyComfy
<1>1. Init => VictimIsOurs
  BY DEF Init, VictimIsOurs
<1>2. Spec => []VictimIsOurs
  BY <1>1, VictimKept, Typed, Exclusion, PTL DEF Spec
<1>3. VictimIsOurs => [\A a \in Actors, p \in Pids :
                         StopSignal(a) /\ pid[a] = p => proc[p].st # "foreign"]_vars
  BY DEF VictimIsOurs, StopSignal
<1>4. QED BY <1>2, <1>3, PTL DEF SignalsOnlyComfy

-----------------------------------------------------------------------------
(***************************************************************************)
(* What use_runtime and use_version leave of the selection, and that the   *)
(* workspace implements ServiceControl.                                    *)
(***************************************************************************)
\* Both links name one target, whose models/ is the shared one; and state.json
\* agrees, unless init_workspace may still write it over.
Whole(app, env) ==
  /\ app = env
  /\ app # NoTarget => app \in linked
  /\ ~FreshWorkspace => state.path = app /\ state.env = env

\* What a handler relies on at loc.
SwitchAt(a, loc) ==
  /\ loc \in UseLocs => target[a] \in Runtimes
  /\ loc \in VerLocs => target[a] \in Versions
  /\ loc \in UseLocs /\ switchLeft = "whole" => Whole(old[a].current, old[a].env)
  /\ loc = "use_current" => old[a].current = current /\ old[a].env = currentEnv
  /\ loc \in {"use_env", "use_link", "use_merge", "ver_link", "ver_env", "ver_merge"}
       => current = target[a]
  /\ loc \in {"use_link", "use_merge", "ver_merge"} => currentEnv = target[a]
  /\ loc \in {"use_merge", "ver_env", "ver_merge"} => target[a] \in linked
  /\ loc = "roll_current" => current \in {target[a], old[a].current}
  /\ loc = "roll_env" => current = old[a].current
  /\ loc = "start_spawn" => current # NoTarget

(* Why a switch that fails leaves the selection as it was: a handler keeps   *)
(* what it found, replaces the parts in order, and restores both links.      *)
SwitchInvariant ==
  /\ \A a \in Actors : SwitchAt(a, pc[a])
  /\ (\A a \in Actors : pc[a] \notin HalfLocs) /\ switchLeft = "whole" => Whole(current, currentEnv)
  /\ ~FreshWorkspace => state.exists /\ \A a \in Actors : pc[a] # "init_write"

-----------------------------------------------------------------------------
\* A step that touches nothing of the selection.
SelectionKept == UNCHANGED <<target, old, current, currentEnv, linked, state, switchLeft>>

LEMMA SwitchUnmoved ==
  ASSUME TypeOK, SwitchInvariant, UNCHANGED <<pc>>, SelectionKept
  PROVE  SwitchInvariant'
BY DEF SwitchInvariant, SwitchAt, SelectionKept, Whole

\* A step of the actor that has the lock, or takes it: the others rely on nothing.
LEMMA SwitchStep ==
  ASSUME TypeOK, LockExclusion, NEW a \in Actors, lock \in {NoActor, a},
         NEW loc, pc' = [pc EXCEPT ![a] = loc], SwitchAt(a, loc)',
         loc \notin HalfLocs /\ switchLeft' = "whole" => Whole(current, currentEnv)',
         ~FreshWorkspace => state.exists' /\ loc # "init_write" /\ \A b \in Actors : pc[b] # "init_write"
  PROVE  SwitchInvariant'
<1>1. \A b \in Actors \ {a} : pc[b] \notin LockedLocs
  BY ActorsAssumption DEF LockExclusion
<1>2. pc'[a] = loc /\ \A b \in Actors \ {a} : pc'[b] = pc[b]
  BY DEF TypeOK
<1>3. \A b \in Actors : SwitchAt(b, pc[b])'
  <2>1. ASSUME NEW b \in Actors \ {a} PROVE SwitchAt(b, pc[b])'
    <3>1. pc'[b] \notin LockedLocs
      BY <1>1, <1>2
    <3>2. QED BY <3>1 DEF SwitchAt
  <2>2. SwitchAt(a, pc[a])'
    BY <1>2 DEF SwitchAt
  <2>3. QED BY <2>1, <2>2
<1>4. (\A b \in Actors : pc'[b] \notin HalfLocs) /\ switchLeft' = "whole" => Whole(current, currentEnv)'
  BY <1>2
<1>5. ~FreshWorkspace => state.exists' /\ \A b \in Actors : pc'[b] # "init_write"
  BY <1>2
<1>6. QED BY <1>3, <1>4, <1>5 DEF SwitchInvariant

\* The same for a step to a location where nothing but the links matters.
LEMMA SwitchPlainStep ==
  ASSUME TypeOK, LockExclusion, SwitchInvariant, NEW a \in Actors, lock \in {NoActor, a},
         NEW loc \in LockedLocs \cup {"idle"}, pc' = [pc EXCEPT ![a] = loc],
         loc \notin UseLocs \cup VerLocs, pc[a] \notin HalfLocs,
         UNCHANGED <<current, currentEnv, linked, state, switchLeft>>,
         loc = "start_spawn" => current # NoTarget
  PROVE  SwitchInvariant'
<1>1. \A b \in Actors : pc[b] \notin HalfLocs
  BY ActorsAssumption DEF LockExclusion
<1>2. switchLeft = "whole" => Whole(current, currentEnv)
  BY <1>1 DEF SwitchInvariant
<1>3. SwitchAt(a, loc)'
  BY DEF SwitchAt
<1>4. switchLeft' = "whole" => Whole(current, currentEnv)'
  BY <1>2 DEF Whole
<1>5. ~FreshWorkspace => state.exists' /\ loc # "init_write" /\ \A b \in Actors : pc[b] # "init_write"
  BY DEF SwitchInvariant
<1>6. QED BY <1>3, <1>4, <1>5, SwitchStep

LEMMA SwitchRequest ==
  ASSUME TypeOK, LockExclusion, SwitchInvariant, NEW a \in Actors, Request(a)
  PROVE  SwitchInvariant'
<1> USE DEF locals, links, ghosts
<1>1. CASE \/ ReadStatus(a) \/ StartRejected(a) \/ StartAlreadyRunning(a)
           \/ StopRejected(a) \/ UseRejected(a) \/ PrepareEnvFails(a)
  <2>1. UNCHANGED <<pc>> /\ SelectionKept
    BY <1>1 DEF ReadStatus, StartRejected, StartAlreadyRunning, StopRejected, UseRejected,
       PrepareEnvFails, Rejected, SelectionKept
  <2>2. QED BY <2>1, SwitchUnmoved
<1>2. CASE LinkModels(a)
  <2>1. \A b \in Actors : pc[b] \notin LockedLocs
    BY <1>2, ActorsAssumption DEF LinkModels, LockExclusion
  <2>2. \A b \in Actors : SwitchAt(b, pc[b])'
    BY <1>2, <2>1 DEF LinkModels, SwitchAt
  <2>3. QED BY <1>2, <2>1, <2>2 DEF LinkModels, SwitchInvariant, Whole
<1>3. CASE InitWorkspace(a)
  <2>1. pc[a] = "idle" /\ pc' = [pc EXCEPT ![a] = "init_write"] /\ FreshWorkspace
    BY <1>3, DataAssumption DEF InitWorkspace, Goto, SwitchInvariant
  <2>2. SelectionKept
    BY <1>3 DEF InitWorkspace, SelectionKept
  <2>3. \A b \in Actors : SwitchAt(b, pc[b])'
    BY <2>1, <2>2 DEF SwitchInvariant, SwitchAt, SelectionKept, Whole, TypeOK
  <2>4. \A b \in Actors : pc'[b] \notin HalfLocs => pc[b] \notin HalfLocs
    BY <2>1 DEF TypeOK
  <2>5. QED BY <2>1, <2>2, <2>3, <2>4 DEF SwitchInvariant, SelectionKept, Whole
<1>4. CASE Start(a)
  BY <1>4, SwitchPlainStep DEF Start, Enter
<1>5. CASE Stop(a)
  BY <1>5, SwitchPlainStep DEF Stop, Enter
<1>6. ASSUME NEW t \in Targets, NEW loc \in {"use_current", "ver_current"}, Idle(a), Enter(a, loc),
             IF loc = "use_current" THEN t \in Runtimes ELSE t \in Versions,
             target' = [target EXCEPT ![a] = t],
             loc = "use_current" => old' = [old EXCEPT ![a] = [current |-> current, env |-> currentEnv]],
             UNCHANGED <<current, currentEnv, linked, state, switchLeft>>
      PROVE  SwitchInvariant'
  <2>1. \A b \in Actors : pc[b] \notin HalfLocs
    BY <1>6, ActorsAssumption DEF LockExclusion
  <2>2. switchLeft' = "whole" => Whole(current, currentEnv)'
    BY <1>6, <2>1 DEF SwitchInvariant, Whole
  <2>3. target'[a] = t
    BY <1>6 DEF TypeOK
  <2>4. loc = "use_current" => old'[a].current = current /\ old'[a].env = currentEnv
    BY <1>6 DEF TypeOK
  <2>5. SwitchAt(a, loc)'
    BY <1>6, <2>2, <2>3, <2>4 DEF SwitchAt, Whole
  <2>6. QED BY <1>6, <2>2, <2>5, SwitchStep DEF Enter, SwitchInvariant
<1>7. ASSUME NEW t \in Runtimes, UseRuntime(a, t) PROVE SwitchInvariant'
  BY <1>6, <1>7 DEF UseRuntime
<1>8. ASSUME NEW t \in Versions, UseVersion(a, t) PROVE SwitchInvariant'
  BY <1>6, <1>8 DEF UseVersion
<1>9. QED BY <1>1, <1>2, <1>3, <1>4, <1>5, <1>7, <1>8 DEF Request

LEMMA SwitchHandler ==
  ASSUME TypeOK, LockExclusion, SwitchInvariant, NEW a \in Actors, Advance(a) \/ WriteFails(a),
         pc[a] \in LockedLocs, pc[a] \notin UseLocs \cup VerLocs
  PROVE  SwitchInvariant'
<1> USE DEF locals, links, ghosts, Goto, Leave
<1>1. /\ UNCHANGED <<current, currentEnv, linked, state, switchLeft>>
      /\ \E loc \in LockedLocs \cup {"idle"} :
           loc \notin UseLocs \cup VerLocs \cup {"start_spawn"} /\ pc' = [pc EXCEPT ![a] = loc]
  <2>1. CASE \/ StartSpawn(a) \/ StartSpawnFails(a) \/ StartWritePid(a) \/ StartWriteMeta(a)
             \/ StartReturn(a) \/ StartWriteFails(a)
    BY <2>1 DEF StartSpawn, StartSpawnFails, StartWritePid, StartWriteMeta, StartReturn, StartWriteFails
  <2>2. CASE \/ StopSignal(a) \/ StopSignalFails(a) \/ StopGone(a) \/ StopTimeout(a)
             \/ StopUnlinkPid(a) \/ StopUnlinkMeta(a)
    BY <2>2 DEF StopSignal, StopSignalFails, StopGone, StopTimeout, StopUnlinkPid, StopUnlinkMeta
  <2>3. /\ ~InitWriteState(a) /\ ~UseRuntimeStep(a) /\ ~UseVersionStep(a) /\ ~LinkModelsFails(a)
        /\ ~RestoreCurrent(a) /\ ~RestoreEnv(a) /\ ~SwitchWriteFails(a) /\ ~RestoreFails(a)
    BY DEF InitWriteState, UseRuntimeStep, UseVersionStep, ReplaceCurrent, ReplaceEnv,
       LinkCurrentModels, MergeState, LinkModelsFails, RestoreCurrent, RestoreEnv,
       SwitchWriteFails, RestoreFails, UseRuntimeRaises, UseVersionRaises
  <2>4. QED BY <2>1, <2>2, <2>3 DEF Advance, WriteFails
<1>2. lock = a
  BY DEF LockExclusion
<1>3. QED BY <1>1, <1>2, SwitchPlainStep

LEMMA SwitchForward ==
  ASSUME TypeOK, LockExclusion, SwitchInvariant, NEW a \in Actors,
         UseRuntimeStep(a) \/ UseVersionStep(a)
  PROVE  SwitchInvariant'
<1> USE DEF locals, links, ghosts, Goto, SwitchAt
<1>1. lock = a /\ SwitchAt(a, pc[a])
  BY DEF LockExclusion, SwitchInvariant, UseRuntimeStep, UseVersionStep, ReplaceCurrent, ReplaceEnv,
     LinkCurrentModels, MergeState
<1>2. ~FreshWorkspace => state.exists /\ \A b \in Actors : pc[b] # "init_write"
  BY DEF SwitchInvariant
<1>3. ASSUME NEW from, NEW to \in HalfLocs, pc[a] = from, pc' = [pc EXCEPT ![a] = to],
             UNCHANGED <<state, target, old, switchLeft>>, SwitchAt(a, to)'
      PROVE  SwitchInvariant'
  BY <1>1, <1>2, <1>3, SwitchStep
<1>4. CASE \/ ReplaceCurrent(a, "use_current", "use_env")
           \/ ReplaceCurrent(a, "ver_current", "ver_link")
  <2>1. Whole(old[a].current, old[a].env) => Whole(old[a].current, old[a].env)'
    BY <1>4 DEF ReplaceCurrent, Whole
  <2>2. QED BY <1>1, <1>3, <1>4, <2>1 DEF ReplaceCurrent
<1>5. CASE \/ ReplaceEnv(a, "use_env", "use_link") \/ ReplaceEnv(a, "ver_env", "ver_merge")
  <2>1. Whole(old[a].current, old[a].env) => Whole(old[a].current, old[a].env)'
    BY <1>5 DEF ReplaceEnv, Whole
  <2>2. QED BY <1>1, <1>3, <1>5, <2>1 DEF ReplaceEnv
<1>6. CASE \/ LinkCurrentModels(a, "use_link", "use_merge")
           \/ LinkCurrentModels(a, "ver_link", "ver_env")
  <2>1. Whole(old[a].current, old[a].env) => Whole(old[a].current, old[a].env)'
    BY <1>6 DEF LinkCurrentModels, Whole
  <2>2. QED BY <1>1, <1>3, <1>6, <2>1 DEF LinkCurrentModels
<1>7. ASSUME NEW from \in {"use_merge", "ver_merge"}, NEW merged \in State,
             merged.exists = state.exists, MergeState(a, from, merged)
      PROVE  SwitchInvariant'
  <2>1. state'.path = target[a] /\ state'.env = target[a] /\ state'.exists = state.exists
    BY <1>7 DEF MergeState, State
  <2>2. Whole(current, currentEnv)'
    BY <1>1, <1>7, <2>1 DEF MergeState, Whole
  <2>3. pc' = [pc EXCEPT ![a] = "idle"]
    BY <1>7 DEF MergeState, Leave
  <2>4. SwitchAt(a, "idle")'
    OBVIOUS
  <2>5. QED BY <1>1, <1>2, <2>1, <2>2, <2>3, <2>4, SwitchStep
<1>8. /\ [state EXCEPT !.runtime = target[a]] \in State
      /\ [state EXCEPT !.version = target[a]] \in State
      /\ [state EXCEPT !.runtime = target[a]].exists = state.exists
      /\ [state EXCEPT !.version = target[a]].exists = state.exists
  BY DEF State, TypeOK
<1>9. QED BY <1>4, <1>5, <1>6, <1>7, <1>8 DEF UseRuntimeStep, UseVersionStep

\* A step of a switch that raises, and the restoring of the links.
LEMMA SwitchBackward ==
  ASSUME TypeOK, LockExclusion, SwitchInvariant, NEW a \in Actors,
         \/ LinkModelsFails(a) \/ SwitchWriteFails(a)
         \/ RestoreCurrent(a) \/ RestoreEnv(a) \/ RestoreFails(a)
  PROVE  SwitchInvariant'
<1> USE DEF locals, links, ghosts
<1>1. lock = a /\ SwitchAt(a, pc[a]) /\ UNCHANGED <<linked, state>>
  BY DEF LockExclusion, SwitchInvariant, LinkModelsFails, SwitchWriteFails, RestoreCurrent,
     RestoreEnv, RestoreFails, UseRuntimeRaises, UseVersionRaises
<1>2. ~FreshWorkspace => state.exists /\ \A b \in Actors : pc[b] # "init_write"
  BY DEF SwitchInvariant
<1>3. ASSUME NEW loc, pc' = [pc EXCEPT ![a] = loc], loc \in {"roll_current", "roll_env", "idle"},
             SwitchAt(a, loc)',
             loc = "idle" /\ switchLeft' = "whole" => Whole(current, currentEnv)'
      PROVE  SwitchInvariant'
  BY <1>1, <1>2, <1>3, SwitchStep
<1>4. SwitchAt(a, "idle")'
  BY DEF SwitchAt
<1>5. CASE UseRuntimeRaises(a) /\ UNCHANGED links
  <2>1. SwitchAt(a, "roll_current")'
    BY <1>1, <1>5 DEF UseRuntimeRaises, SwitchAt, Whole
  <2>2. QED BY <1>3, <1>5, <2>1 DEF UseRuntimeRaises, Goto
<1>6. CASE UseVersionRaises(a) /\ UNCHANGED links
  <2>1. switchLeft' = "whole" => Whole(current, currentEnv)'
    <3>1. SUFFICES ASSUME switchLeft' = "whole" PROVE Whole(current, currentEnv)'
      OBVIOUS
    <3>2. pc[a] = "ver_current" /\ switchLeft = "whole"
      BY <1>6, <3>1 DEF UseVersionRaises
    <3>3. \A b \in Actors : pc[b] \notin HalfLocs
      BY <1>1, <3>2, ActorsAssumption DEF LockExclusion
    <3>4. Whole(current, currentEnv)
      BY <3>2, <3>3 DEF SwitchInvariant
    <3>5. QED BY <1>1, <1>6, <3>4 DEF Whole
  <2>2. QED BY <1>3, <1>4, <1>6, <2>1 DEF UseVersionRaises, Leave
<1>7. CASE RestoreCurrent(a)
  <2>1. SwitchAt(a, "roll_env")'
    BY <1>1, <1>7 DEF RestoreCurrent, SwitchAt, Whole
  <2>2. QED BY <1>3, <1>7, <2>1 DEF RestoreCurrent, Goto
<1>8. CASE RestoreEnv(a)
  <2>1. switchLeft' = "whole" => Whole(current, currentEnv)'
    BY <1>1, <1>8 DEF RestoreEnv, SwitchAt, Whole
  <2>2. QED BY <1>3, <1>4, <1>8, <2>1 DEF RestoreEnv, Leave
<1>9. CASE RestoreFails(a)
  BY <1>3, <1>4, <1>9 DEF RestoreFails, Leave
<1>10. QED BY <1>5, <1>6, <1>7, <1>8, <1>9 DEF LinkModelsFails, SwitchWriteFails

LEMMA SwitchKill ==
  ASSUME TypeOK, LockExclusion, SwitchInvariant, NEW h \in Cli \cup {ApiProcess}, Kill(h)
  PROVE  SwitchInvariant'
<1>1. \A b \in Actors : \/ pc'[b] = "idle" /\ Home(b) = h
                        \/ pc'[b] = pc[b] /\ target'[b] = target[b] /\ old'[b] = old[b]
  BY DEF Kill
<1>2. UNCHANGED <<current, currentEnv, linked, state>> /\ (switchLeft' = "whole" => switchLeft = "whole")
  BY DEF Kill, links
<1>3. \A b \in Actors : SwitchAt(b, pc[b])'
  <2>1. ASSUME NEW b \in Actors PROVE SwitchAt(b, pc[b])'
    <3>1. SwitchAt(b, pc[b])
      BY DEF SwitchInvariant
    <3>2. CASE pc'[b] = "idle"
      BY <3>2 DEF SwitchAt
    <3>3. CASE pc'[b] = pc[b] /\ target'[b] = target[b] /\ old'[b] = old[b]
      BY <1>2, <3>1, <3>3 DEF SwitchAt, Whole
    <3>4. QED BY <1>1, <3>2, <3>3
  <2>2. QED BY <2>1
<1>4. ASSUME \A b \in Actors : pc'[b] \notin HalfLocs, switchLeft' = "whole"
      PROVE  Whole(current, currentEnv)'
  <2>1. \A b \in Actors : Home(b) = h => pc[b] \notin HalfLocs
    BY <1>4 DEF Kill
  <2>2. \A b \in Actors : Home(b) # h => pc'[b] = pc[b]
    BY DEF Kill
  <2>3. \A b \in Actors : pc[b] \notin HalfLocs
    BY <1>4, <2>1, <2>2
  <2>4. QED BY <1>2, <1>4, <2>3 DEF SwitchInvariant, Whole
<1>5. QED BY <1>1, <1>2, <1>3, <1>4 DEF SwitchInvariant

LEMMA SwitchInvariantKept ==
  ASSUME TypeOK, LockExclusion, SwitchInvariant, [Next]_vars
  PROVE  SwitchInvariant'
<1>1. CASE UNCHANGED vars
  BY <1>1, SwitchUnmoved DEF vars, locals, links, ghosts, SelectionKept
<1>2. ASSUME NEW p \in Pids, System(p) PROVE SwitchInvariant'
  <2>1. UNCHANGED <<pc>> /\ SelectionKept
    BY <1>2 DEF System, Bind, Exit, Recycle, ForeignExit, locals, links, ghosts, SelectionKept
  <2>2. QED BY <2>1, SwitchUnmoved
<1>3. ASSUME NEW a \in Actors, InitWriteState(a) PROVE SwitchInvariant'
  <2>1. FreshWorkspace /\ pc[a] = "init_write" /\ pc' = [pc EXCEPT ![a] = "idle"]
    BY <1>3, DataAssumption DEF InitWriteState, Goto, SwitchInvariant
  <2>2. UNCHANGED <<target, old, current, currentEnv, linked, switchLeft>>
    BY <1>3 DEF InitWriteState, locals, links, ghosts
  <2>3. \A b \in Actors : SwitchAt(b, pc[b])'
    BY <2>1, <2>2 DEF SwitchInvariant, SwitchAt, Whole, TypeOK
  <2>4. \A b \in Actors : pc'[b] \notin HalfLocs => pc[b] \notin HalfLocs
    BY <2>1 DEF TypeOK
  <2>5. QED BY <2>1, <2>2, <2>3, <2>4 DEF SwitchInvariant, Whole
<1>4. ASSUME NEW a \in Actors, Advance(a) \/ WriteFails(a), ~InitWriteState(a) PROVE SwitchInvariant'
  <2>1. pc[a] \in LockedLocs
    BY <1>4 DEF Advance, WriteFails, StartSpawn, StartSpawnFails, StartWritePid, StartWriteMeta,
       StartReturn, StopSignal, StopSignalFails, StopGone, StopTimeout, StopUnlinkPid, StopUnlinkMeta,
       UseRuntimeStep, UseVersionStep, ReplaceCurrent, ReplaceEnv, LinkCurrentModels, MergeState,
       LinkModelsFails, RestoreCurrent, RestoreEnv, StartWriteFails, SwitchWriteFails, RestoreFails,
       UseRuntimeRaises, UseVersionRaises
  <2>2. CASE pc[a] \in UseLocs \cup VerLocs
    <3>1. /\ ~StartSpawn(a) /\ ~StartSpawnFails(a) /\ ~StartWritePid(a) /\ ~StartWriteMeta(a)
          /\ ~StartReturn(a) /\ ~StartWriteFails(a)
          /\ ~StopSignal(a) /\ ~StopSignalFails(a) /\ ~StopGone(a) /\ ~StopTimeout(a)
          /\ ~StopUnlinkPid(a) /\ ~StopUnlinkMeta(a)
      BY <2>2 DEF StartSpawn, StartSpawnFails, StartWritePid, StartWriteMeta, StartReturn,
         StartWriteFails, StopSignal, StopSignalFails, StopGone, StopTimeout, StopUnlinkPid,
         StopUnlinkMeta
    <3>2. QED BY <1>4, <3>1, SwitchForward, SwitchBackward DEF Advance, WriteFails
  <2>3. QED BY <1>4, <2>1, <2>2, SwitchHandler
<1>5. QED BY <1>1, <1>2, <1>3, <1>4, SwitchRequest, SwitchKill DEF Next

(* The strengthening of SelectionIsWhole that the steps of a switch keep.    *)
THEOREM SwitchesAreWhole == Spec => []SwitchInvariant
<1>1. Init => SwitchInvariant
  BY DEF Init, SwitchInvariant, SwitchAt, Whole, EmptyState
<1>2. QED BY <1>1, SwitchInvariantKept, Typed, Exclusion, PTL DEF Spec

(* Outside the lock current and current-env name one target, its models/ is  *)
(* the shared one, and state.json agrees, unless a switch was cut short; in   *)
(* a workspace whose state.json exists from the beginning.                   *)
THEOREM SelectionWhole ==
  ASSUME ~FreshWorkspace
  PROVE  Spec => []SelectionIsWhole
<1>1. LockExclusion /\ SwitchInvariant => SelectionIsWhole
  <2> SUFFICES ASSUME LockExclusion, SwitchInvariant, lock = NoActor, switchLeft = "whole"
               PROVE  Whole(current, currentEnv)
    BY DEF SelectionIsWhole, Whole
  <2>1. \A b \in Actors : pc[b] \notin HalfLocs
    BY ActorsAssumption DEF LockExclusion
  <2>2. QED BY <2>1 DEF SwitchInvariant
<1>2. QED BY <1>1, SwitchesAreWhole, Exclusion, PTL

-----------------------------------------------------------------------------
(* The refinement of ServiceControl.                                        *)

SelectedIsRight ==
  /\ (\A a \in Actors : ~Switching(a)) => Selected = current
  /\ \A a \in Actors : Switching(a) => Selected = old[a].current

LEMMA SelectedIs ==
  /\ TypeOK /\ LockExclusion => SelectedIsRight
  /\ TypeOK' /\ LockExclusion' => SelectedIsRight'
<1>1. TypeOK /\ LockExclusion => SelectedIsRight
  <2> SUFFICES ASSUME TypeOK, LockExclusion PROVE SelectedIsRight
    OBVIOUS
  <2>1. \A a, b \in Actors : Switching(a) /\ Switching(b) => a = b
    BY ActorsAssumption DEF LockExclusion, Switching
  <2>2. QED BY <2>1 DEF Selected, SelectedIsRight
<1>2. QED BY <1>1, PTL

ServingIsRight == Serving = IF Services = {} THEN NoTarget ELSE current

LEMMA ServingIs ==
  /\ ServiceRunsSelection => ServingIsRight
  /\ ServiceRunsSelection' => ServingIsRight'
<1>1. ServiceRunsSelection => ServingIsRight
  BY DEF ServiceRunsSelection, Serving, ServingIsRight
<1>2. QED BY <1>1, PTL

\* A step after which the same target is selected.
LEMMA SelectedKept ==
  ASSUME TypeOK, LockExclusion, TypeOK', LockExclusion', current' = current,
         \A a \in Actors : Switching(a)' <=> Switching(a),
         \A a \in Actors : Switching(a) => old'[a] = old[a]
  PROVE  Selected' = Selected
BY SelectedIs DEF SelectedIsRight

\* A step that brings no service and changes no selection ends the service or answers.
LEMMA ControlEnds ==
  ASSUME ServiceRunsSelection, ServiceRunsSelection', NoNewService, Selected' = Selected,
         switchLeft' = switchLeft
  PROVE  [Control!Next]_(Control!vars)
<1>1. CASE Services' = {}
  <2>1. Serving' = NoTarget
    BY <1>1, ServingIs DEF ServingIsRight
  <2>2. QED BY <2>1 DEF Control!Next, Control!End, Control!Answer
<1>2. CASE Services' # {}
  <2>1. PICK p \in Services' : TRUE
    BY <1>2
  <2>2. p \in Services /\ proc'[p].app = proc[p].app
    BY <2>1 DEF NoNewService
  <2>3. current' = current
    BY <2>1, <2>2 DEF ServiceRunsSelection
  <2>4. Serving' = Serving
    BY <1>2, <2>2, <2>3, ServingIs DEF ServingIsRight
  <2>5. QED BY <2>4 DEF Control!Next, Control!Answer
<1>3. QED BY <1>1, <1>2

\* How a switch may change the selection, or not.
SelectionStep ==
  \/ Selected' = Selected /\ switchLeft' = switchLeft
  \/ Selected' \in Runtimes \cup {Selected} /\ reply' = "ok" /\ switchLeft' = "whole"
  \/ Selected' \in Versions /\ reply' = reply /\ switchLeft' = switchLeft
  \/ Selected' \in Targets \cup {NoTarget} /\ reply' # "ok" /\ switchLeft' = "half"

\* While nothing is served each of these is a step of the promise.
LEMMA ControlSelects ==
  ASSUME ServiceRunsSelection, ServiceRunsSelection', Services = {}, Services' = {}, SelectionStep
  PROVE  [Control!Next]_(Control!vars)
<1>1. Serving = NoTarget /\ Serving' = NoTarget
  BY ServingIs DEF ServingIsRight
<1>2. CASE Selected' = Selected /\ switchLeft' = switchLeft
  BY <1>1, <1>2 DEF Control!Next, Control!Answer
<1>3. CASE Selected' \in Runtimes \cup {Selected} /\ reply' = "ok" /\ switchLeft' = "whole"
  BY <1>1, <1>3 DEF Control!Next, Control!Complete
<1>4. CASE Selected' \in Versions /\ reply' = reply /\ switchLeft' = switchLeft
  BY <1>1, <1>4 DEF Control!Next, Control!Move
<1>5. CASE Selected' \in Targets \cup {NoTarget} /\ reply' # "ok" /\ switchLeft' = "half"
  BY <1>1, <1>5 DEF Control!Next, Control!Cut
<1>6. QED BY <1>2, <1>3, <1>4, <1>5 DEF SelectionStep

LEMMA ControlSwitch ==
  ASSUME TypeOK, LockExclusion, ServiceInvariant, SwitchInvariant,
         TypeOK', LockExclusion', ServiceInvariant',
         NEW a \in Actors,
         \/ UseRuntimeStep(a) \/ UseVersionStep(a) \/ LinkModelsFails(a)
         \/ RestoreCurrent(a) \/ RestoreEnv(a) \/ SwitchWriteFails(a) \/ RestoreFails(a)
  PROVE  [Control!Next]_(Control!vars)
<1>1. /\ pc[a] \in UseLocs \cup VerLocs
      /\ UNCHANGED <<proc, orphans>>
      /\ \E loc \in UseLocs \cup VerLocs \cup {"idle"} : pc' = [pc EXCEPT ![a] = loc]
  <2> USE DEF Goto, Leave, os, ghosts
  <2>1. CASE UseRuntimeStep(a) \/ UseVersionStep(a)
    BY <2>1 DEF UseRuntimeStep, UseVersionStep, ReplaceCurrent, ReplaceEnv, LinkCurrentModels, MergeState
  <2>2. CASE LinkModelsFails(a) \/ SwitchWriteFails(a)
    BY <2>2 DEF LinkModelsFails, SwitchWriteFails, UseRuntimeRaises, UseVersionRaises
  <2>3. CASE RestoreCurrent(a) \/ RestoreEnv(a) \/ RestoreFails(a)
    BY <2>3 DEF RestoreCurrent, RestoreEnv, RestoreFails
  <2>4. QED BY <2>1, <2>2, <2>3
<1>2. lock = a /\ \A b \in Actors \ {a} : pc[b] \notin LockedLocs /\ pc'[b] = pc[b]
  BY <1>1, ActorsAssumption DEF LockExclusion, TypeOK
<1>3. Services = {} /\ Services' = {}
  <2>1. Services = {}
    BY <1>1 DEF ServiceInvariant
  <2>2. QED BY <1>1, <2>1 DEF Services, IsComfy
<1>4. SwitchAt(a, pc[a])
  BY DEF SwitchInvariant
<1>5. Selected = IF Switching(a) THEN old[a].current ELSE current
  <2>1. \A b \in Actors \ {a} : ~Switching(b)
    BY <1>2 DEF Switching
  <2>2. QED BY <2>1, SelectedIs DEF SelectedIsRight
<1>6. Selected' = IF Switching(a)' THEN old'[a].current ELSE current'
  <2>1. \A b \in Actors \ {a} : ~Switching(b)'
    BY <1>2 DEF Switching
  <2>2. QED BY <2>1, SelectedIs DEF SelectedIsRight
<1>7. SelectionStep
  <2> USE <1>4, <1>5, <1>6 DEF locals, links, ghosts, Goto, Leave, TypeOK, SwitchAt, Switching,
      SelectionStep, HalfLocs
  <2>1. CASE UseRuntimeStep(a)
    BY <2>1 DEF UseRuntimeStep, ReplaceCurrent, ReplaceEnv, LinkCurrentModels, MergeState
  <2>2. CASE UseVersionStep(a)
    BY <2>2 DEF UseVersionStep, ReplaceCurrent, ReplaceEnv, LinkCurrentModels, MergeState
  <2>3. CASE LinkModelsFails(a) \/ SwitchWriteFails(a)
    BY <2>3 DEF LinkModelsFails, SwitchWriteFails, UseRuntimeRaises, UseVersionRaises
  <2>4. CASE RestoreCurrent(a) \/ RestoreEnv(a) \/ RestoreFails(a)
    BY <2>4 DEF RestoreCurrent, RestoreEnv, RestoreFails
  <2>5. QED BY <2>1, <2>2, <2>3, <2>4
<1>8. QED BY <1>3, <1>7, ControlSelects DEF ServiceInvariant

LEMMA ControlKill ==
  ASSUME TypeOK, LockExclusion, ServiceInvariant, SwitchInvariant,
         TypeOK', LockExclusion', ServiceInvariant',
         NEW h \in Cli \cup {ApiProcess}, Kill(h)
  PROVE  [Control!Next]_(Control!vars)
<1>0. /\ reply' # "ok" /\ switchLeft' \in {switchLeft, "half"}
      /\ (\E b \in Actors : Home(b) = h /\ pc[b] \in HalfLocs) => switchLeft' = "half"
      /\ (\A b \in Actors : Home(b) = h => pc[b] \notin HalfLocs) => switchLeft' = switchLeft
  BY DEF Kill
<1>1. NoNewService
  BY TablesKeepServices, KeptTable DEF Kill
<1>2. current' = current
  BY DEF Kill, links
<1>3. \A b \in Actors : IF Home(b) = h THEN pc'[b] = "idle" ELSE pc'[b] = pc[b] /\ old'[b] = old[b]
  BY DEF Kill
<1>4. CASE \A b \in Actors : Home(b) = h => ~Switching(b)
  <2>1. \A b \in Actors : Switching(b)' <=> Switching(b)
    BY <1>3, <1>4 DEF Switching
  <2>2. \A b \in Actors : Switching(b) => old'[b] = old[b]
    BY <1>3, <1>4
  <2>3. Selected' = Selected
    BY <1>2, <2>1, <2>2, SelectedKept
  <2>4. CASE switchLeft' = switchLeft
    BY <1>1, <2>3, <2>4, ControlEnds DEF ServiceInvariant
  <2>5. CASE switchLeft' # switchLeft
    <3>1. PICK b \in Actors : Home(b) = h /\ pc[b] \in HalfLocs
      BY <1>0, <2>5
    <3>2. Services = {} /\ Services' = {}
      BY <1>1, <3>1 DEF ServiceInvariant, HalfLocs, NoNewService
    <3>3. SelectionStep
      <4>1. Selected \in Targets \cup {NoTarget}
        BY SelectedIs DEF SelectedIsRight, TypeOK, Selection
      <4>2. QED BY <1>0, <2>3, <2>5, <4>1 DEF SelectionStep
    <3>4. QED BY <3>2, <3>3, ControlSelects DEF ServiceInvariant
  <2>6. QED BY <2>4, <2>5
<1>5. CASE \E b \in Actors : Home(b) = h /\ Switching(b)
  <2>1. PICK b \in Actors : Home(b) = h /\ Switching(b)
    BY <1>5
  <2>2. Services = {} /\ Services' = {}
    BY <1>1, <2>1 DEF ServiceInvariant, Switching, NoNewService
  <2>3. \A c \in Actors : ~Switching(c)'
    BY <1>3, <2>1, ActorsAssumption DEF LockExclusion, Switching
  <2>4. Selected' = current /\ Selected = old[b].current
    BY <1>2, <2>1, <2>3, SelectedIs DEF SelectedIsRight
  <2>5. SelectionStep
    BY <1>0, <2>1, <2>4 DEF SelectionStep, TypeOK, Switching, HalfLocs
  <2>6. QED BY <2>2, <2>5, ControlSelects DEF ServiceInvariant
<1>6. QED BY <1>4, <1>5

\* The steps that leave the current link alone, but for the one that spawns.
LEMMA ControlHandler ==
  ASSUME TypeOK, LockExclusion, ServiceInvariant, TypeOK', LockExclusion', ServiceInvariant',
         NEW a \in Actors, Request(a) \/ Advance(a) \/ WriteFails(a), ~StartSpawn(a),
         pc[a] \notin UseLocs \cup VerLocs
  PROVE  [Control!Next]_(Control!vars)
<1> USE DEF locals, links, ghosts, os, Goto, Leave, Enter
<1>0. /\ KeepsServices(proc) /\ KeepsServices(Reaped(Home(a))) /\ KeepsServices(Inspected(a))
      /\ KeepsServices(Settled(a, proc)) /\ KeepsServices(Settled(a, Inspected(a)))
  BY TablesKeepServices, ActorTablesTyped
<1>1. /\ ~UseRuntimeStep(a) /\ ~UseVersionStep(a) /\ ~LinkModelsFails(a)
      /\ ~RestoreCurrent(a) /\ ~RestoreEnv(a) /\ ~SwitchWriteFails(a) /\ ~RestoreFails(a)
  BY DEF UseRuntimeStep, UseVersionStep, ReplaceCurrent, ReplaceEnv, LinkCurrentModels,
     MergeState, LinkModelsFails, RestoreCurrent, RestoreEnv, SwitchWriteFails, RestoreFails,
     UseRuntimeRaises, UseVersionRaises
<1>2. ASSUME KeepsServices(proc'), orphans \subseteq orphans', current' = current,
             switchLeft' = switchLeft,
             \E loc : pc' = [pc EXCEPT ![a] = loc] /\ loc \notin UseLocs \ {"use_current"},
             \A b \in Actors \ {a} : old'[b] = old[b]
      PROVE  [Control!Next]_(Control!vars)
  <2>1. NoNewService
    BY <1>2, KeptTable
  <2>2. \A b \in Actors : Switching(b)' <=> Switching(b)
    BY <1>2 DEF Switching, TypeOK
  <2>3. \A b \in Actors : Switching(b) => b # a
    BY DEF Switching
  <2>4. Selected' = Selected
    BY <1>2, <2>2, <2>3, SelectedKept
  <2>5. QED BY <1>2, <2>1, <2>4, ControlEnds DEF ServiceInvariant
<1>3. pc' = pc => \E loc : pc' = [pc EXCEPT ![a] = loc] /\ loc \notin UseLocs \ {"use_current"}
  <2>1. pc = [pc EXCEPT ![a] = pc[a]]
    BY DEF TypeOK
  <2>2. QED BY <2>1
<1>4. CASE \/ ReadStatus(a) \/ StartRejected(a) \/ StartAlreadyRunning(a) \/ StopRejected(a)
           \/ UseRejected(a) \/ PrepareEnvFails(a) \/ LinkModels(a)
  BY <1>0, <1>2, <1>3, <1>4 DEF ReadStatus, StartRejected, StartAlreadyRunning, StopRejected,
     UseRejected, PrepareEnvFails, Rejected, LinkModels
<1>5. CASE Start(a) \/ Stop(a) \/ InitWorkspace(a) \/ InitWriteState(a)
  BY <1>0, <1>2, <1>5 DEF Start, Stop, InitWorkspace, InitWriteState
<1>6. ASSUME NEW t \in Runtimes, UseRuntime(a, t) PROVE [Control!Next]_(Control!vars)
  <2>1. \A b \in Actors \ {a} : old'[b] = old[b]
    BY <1>6 DEF UseRuntime, TypeOK
  <2>2. QED BY <1>0, <1>2, <1>6, <2>1 DEF UseRuntime
<1>7. ASSUME NEW t \in Versions, UseVersion(a, t) PROVE [Control!Next]_(Control!vars)
  <2>1. pc' = [pc EXCEPT ![a] = "ver_current"] /\ "ver_current" \notin UseLocs \ {"use_current"}
    BY <1>7 DEF UseVersion
  <2>2. UNCHANGED <<old, current, orphans, switchLeft>> /\ KeepsServices(proc')
    BY <1>0, <1>7 DEF UseVersion
  <2>3. QED BY <1>2, <2>1, <2>2
<1>8. CASE \/ StartSpawnFails(a) \/ StartWritePid(a) \/ StartWriteMeta(a) \/ StartReturn(a)
           \/ StartWriteFails(a)
  <2>1. \A b \in Actors \ {a} : old'[b] = old[b]
    BY <1>8 DEF StartSpawnFails, StartWritePid, StartWriteMeta, StartReturn, StartWriteFails, TypeOK
  <2>2. QED
    BY <1>0, <1>2, <1>8, <2>1
       DEF StartSpawnFails, StartWritePid, StartWriteMeta, StartReturn, StartWriteFails
<1>9. CASE \/ StopSignal(a) \/ StopSignalFails(a) \/ StopGone(a) \/ StopTimeout(a)
           \/ StopUnlinkPid(a) \/ StopUnlinkMeta(a)
  <2>1. \A b \in Actors \ {a} : old'[b] = old[b]
    BY <1>9 DEF StopSignal, StopSignalFails, StopGone, StopTimeout, StopUnlinkPid, StopUnlinkMeta,
       TypeOK
  <2>2. KeepsServices(proc')
    BY <1>0, <1>9 DEF StopSignal, StopSignalFails, StopGone, StopTimeout, StopUnlinkPid,
       StopUnlinkMeta, KeepsServices, Runs, TypeOK, Process
  <2>3. QED
    BY <1>2, <1>9, <2>1, <2>2
       DEF StopSignal, StopSignalFails, StopGone, StopTimeout, StopUnlinkPid, StopUnlinkMeta
<1>10. QED
  BY <1>1, <1>4, <1>5, <1>6, <1>7, <1>8, <1>9 DEF Request, Advance, WriteFails

LEMMA ControlSpawn ==
  ASSUME TypeOK, LockExclusion, ServiceInvariant, SwitchInvariant,
         TypeOK', LockExclusion', ServiceInvariant',
         NEW a \in Actors, StartSpawn(a)
  PROVE  [Control!Next]_(Control!vars)
<1>1. Services = {} /\ current # NoTarget /\ current' = current /\ At(a, "start_spawn")
  BY DEF StartSpawn, ServiceInvariant, SwitchInvariant, SwitchAt, links
<1>2. Selected = current /\ Selected' = current
  <2>1. \A b \in Actors : ~Switching(b) /\ ~Switching(b)'
    BY <1>1, ActorsAssumption DEF LockExclusion, StartSpawn, Goto, Switching, TypeOK
  <2>2. QED BY <1>1, <2>1, SelectedIs DEF SelectedIsRight
<1>3. Serving = NoTarget /\ Serving' \in {NoTarget, current}
  BY <1>1, ServingIs DEF ServingIsRight, ServiceInvariant
<1>4. UNCHANGED <<reply, switchLeft>>
  BY DEF StartSpawn, Goto, ghosts
<1>5. QED BY <1>1, <1>2, <1>3, <1>4 DEF Control!Next, Control!Serve, Control!Answer

LEMMA ControlSystem ==
  ASSUME TypeOK, LockExclusion, ServiceInvariant, TypeOK', LockExclusion', ServiceInvariant',
         (\E p \in Pids : System(p)) \/ UNCHANGED vars
  PROVE  [Control!Next]_(Control!vars)
<1>1. UNCHANGED <<pc, old, current, switchLeft>>
  BY DEF System, Bind, Exit, Recycle, ForeignExit, vars, locals, links, ghosts
<1>2. Selected' = Selected
  BY <1>1, SelectedKept DEF Switching
<1>3. Services' \subseteq Services
  <2>1. CASE UNCHANGED vars
    BY <2>1 DEF vars, os, ghosts, Services, IsComfy
  <2>2. ASSUME NEW p \in Pids, System(p) PROVE Services' \subseteq Services
    <3>1. CASE Bind(p)
      BY <3>1 DEF Bind, ghosts, Services, IsComfy
    <3>2. CASE Exit(p)
      <4>1. ~IsComfy(p)'
        BY <3>2 DEF Exit, IsComfy, Free, TypeOK
      <4>2. \A q \in Pids \ {p} : proc'[q] = proc[q]
        BY <3>2 DEF Exit, TypeOK
      <4>3. QED BY <3>2, <4>1, <4>2 DEF Exit, Services, IsComfy
    <3>3. CASE Recycle(p) \/ ForeignExit(p)
      BY <3>3 DEF Recycle, ForeignExit, ghosts, Services, IsComfy, TypeOK, Process, Free
    <3>4. QED BY <2>2, <3>1, <3>2, <3>3 DEF System
  <2>3. QED BY <2>1, <2>2
<1>4. CASE Services' = {}
  BY <1>1, <1>2, <1>4, ServingIs
     DEF ServingIsRight, Control!Next, Control!End, Control!Answer, ServiceInvariant
<1>5. CASE Services' # {}
  BY <1>1, <1>2, <1>3, <1>5, ServingIs
     DEF ServingIsRight, Control!Next, Control!Answer, ServiceInvariant
<1>6. QED BY <1>4, <1>5

(* The workspace keeps the promise of ServiceControl, whatever crashes and    *)
(* failed writes happen: what is served was selected, a selection takes       *)
(* effect only while nothing is served, and a use_runtime that has not        *)
(* answered "ok" has none, unless it was killed or its restore failed, and    *)
(* switchLeft then says so until a switch completes.                          *)
THEOREM Implements == Spec => ImplementsServiceControl
<1>1. Init => Control!Init
  <2> SUFFICES ASSUME Init PROVE Control!Init
    OBVIOUS
  <2>1. Services = {} /\ \A a \in Actors : ~Switching(a)
    BY DEF Init, Services, IsComfy, Free, Switching
  <2>2. QED BY <2>1 DEF Init, Selected, Serving, Control!Init
<1>2. ASSUME TypeOK, LockExclusion, ServiceInvariant, SwitchInvariant,
             TypeOK', LockExclusion', ServiceInvariant', [Next]_vars
      PROVE  [Control!Next]_(Control!vars)
  <2>1. ASSUME NEW a \in Actors, Request(a) \/ Advance(a) \/ WriteFails(a),
               pc[a] \in UseLocs \cup VerLocs
        PROVE  \/ UseRuntimeStep(a) \/ UseVersionStep(a) \/ LinkModelsFails(a)
               \/ RestoreCurrent(a) \/ RestoreEnv(a) \/ SwitchWriteFails(a) \/ RestoreFails(a)
    <3>1. ~Request(a)
      BY <2>1 DEF Request, ReadStatus, StartRejected, StartAlreadyRunning, Start, StopRejected,
         Stop, InitWorkspace, UseRejected, PrepareEnvFails, UseRuntime, UseVersion, LinkModels
    <3>2. QED
      BY <2>1, <3>1 DEF Advance, WriteFails, StartSpawn, StartSpawnFails, StartWritePid,
         StartWriteMeta, StartReturn, StartWriteFails, StopSignal, StopSignalFails, StopGone,
         StopTimeout, StopUnlinkPid, StopUnlinkMeta, InitWriteState
  <2>2. ASSUME NEW a \in Actors, Request(a) \/ Advance(a) \/ WriteFails(a)
        PROVE  [Control!Next]_(Control!vars)
    <3>1. CASE pc[a] \in UseLocs \cup VerLocs
      BY <1>2, <2>1, <2>2, <3>1, ControlSwitch
    <3>2. CASE StartSpawn(a)
      BY <1>2, <3>2, ControlSpawn
    <3>3. CASE pc[a] \notin UseLocs \cup VerLocs /\ ~StartSpawn(a)
      BY <1>2, <2>2, <3>3, ControlHandler
    <3>4. QED BY <3>1, <3>2, <3>3
  <2>3. QED BY <1>2, <2>2, ControlKill, ControlSystem DEF Next
<1>3. QED
  BY <1>1, <1>2, Typed, Exclusion, Inductive, SwitchesAreWhole, PTL
     DEF Spec, ImplementsServiceControl, Control!Spec

=============================================================================
