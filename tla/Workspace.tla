------------------------------ MODULE Workspace ------------------------------
(***************************************************************************)
(* The ComfyUI workspace as its two kinds of callers see it.  The threads  *)
(* of the control-plane API (sync FastAPI routes run in a thread pool) and *)
(* the comfyctl command lines act on the same directory: the symlinks      *)
(* current and current-env, the files comfyui.pid, comfyui.meta and        *)
(* state.json, and the ComfyUI process itself.  All but init_workspace and *)
(* status hold the workspace lock, a non-blocking flock.                   *)
(*                                                                         *)
(* A handler is cut into steps where another actor, the operating system,  *)
(* a full disk or a crash can come between: between two file operations,   *)
(* and around the creation and the signalling of a process.                *)
(***************************************************************************)
EXTENDS Naturals, FiniteSets

CONSTANTS
  Api,            \* threads of the API process
  Cli,            \* comfyctl processes
  ApiProcess,     \* the one process all the API threads run in
  InitProcess,    \* pid 1, the parent of every process whose own has ended
  Pids,           \* the process ids ComfyUI and foreign processes may have
  Runtimes,       \* runtimes of runtimes.json that pass validate_runtime_paths
  Versions,       \* directories of versions/ (the low-level path)
  NoActor, NoPid, NoTarget,
  FreshWorkspace, \* state.json does not exist yet
  MaxFaults       \* bound on crashes and failed writes in a behaviour

Actors  == Api \cup Cli
Targets == Runtimes \cup Versions
Parents == Cli \cup {ApiProcess, InitProcess}

ASSUME ActorsAssumption ==
  /\ Api \cap Cli = {} /\ NoActor \notin Actors
  /\ ApiProcess \notin Cli /\ InitProcess \notin Cli /\ ApiProcess # InitProcess
ASSUME DataAssumption ==
  /\ NoPid \notin Pids /\ NoTarget \notin Targets /\ Runtimes \cap Versions = {}
  /\ FreshWorkspace \in BOOLEAN /\ MaxFaults \in Nat

VARIABLES
  pc, pid, target, old, \* each actor's position and local variables
  lock,                 \* the actor that holds run/workspace.lock
  proc, listener,       \* the process table; who listens on the ComfyUI port
  pidFile, meta,        \* run/comfyui.pid and run/comfyui.meta
  current, currentEnv,  \* the two symlinks; an env is named by its target
  linked,               \* targets whose models/ is a symlink to the shared one
  state,                \* state.json
  reply,                \* what the last locked handler told its caller
  orphans, switchLeft,  \* history: what a handler that was cut short left
  faults                \* crashes and failed writes so far

locals == <<pid, target, old>>
os     == <<proc, listener>>
files  == <<pidFile, meta>>
links  == <<current, currentEnv>>
ghosts == <<orphans, switchLeft>>
vars   == <<pc, locals, lock, os, files, links, linked, state, reply, ghosts, faults>>

StartLocs == {"start_pid", "start_meta", "start_wait"}
StopLocs  == {"stop_kill", "stop_wait", "stop_clear", "stop_clear_meta"}
UseLocs   == {"use_current", "use_env", "use_link", "use_merge", "roll_current", "roll_env"}
VerLocs   == {"ver_current", "ver_link", "ver_env", "ver_merge"}
LockedLocs == {"start_spawn"} \cup StartLocs \cup StopLocs \cup UseLocs \cup VerLocs

\* The selection (links, models link and state.json together) is half changed.
HalfLocs == (UseLocs \cup VerLocs) \ {"use_current", "ver_current"}

Selection == [current : Targets \cup {NoTarget}, env : Targets \cup {NoTarget}]
Process == [st : {"free", "live", "term", "zombie", "foreign"},
            app : Targets \cup {NoTarget}, env : Targets \cup {NoTarget}, parent : Parents]
Meta  == [pid : Pids \cup {NoPid}, cwd : Targets \cup {NoTarget}, readable : BOOLEAN]
State == [exists : BOOLEAN, runtime : Targets \cup {NoTarget}, version : Targets \cup {NoTarget},
          path : Targets \cup {NoTarget}, env : Targets \cup {NoTarget}]

NoSelection == [current |-> NoTarget, env |-> NoTarget]
Free(parent) == [st |-> "free", app |-> NoTarget, env |-> NoTarget, parent |-> parent]
NoMeta   == [pid |-> NoPid, cwd |-> NoTarget, readable |-> TRUE]
TornMeta == [pid |-> NoPid, cwd |-> NoTarget, readable |-> FALSE]
EmptyState(exists) == [exists |-> exists, runtime |-> NoTarget, version |-> NoTarget,
                       path |-> NoTarget, env |-> NoTarget]

Init ==
  /\ pc = [a \in Actors |-> "idle"]
  /\ pid = [a \in Actors |-> NoPid]
  /\ target = [a \in Actors |-> NoTarget]
  /\ old = [a \in Actors |-> NoSelection]
  /\ lock = NoActor
  /\ proc = [p \in Pids |-> Free(InitProcess)] /\ listener = NoPid
  /\ pidFile = NoPid /\ meta = NoMeta
  /\ current = NoTarget /\ currentEnv = NoTarget /\ linked = {}
  /\ state = IF FreshWorkspace THEN EmptyState(FALSE) ELSE EmptyState(TRUE)
  /\ reply = "none"
  /\ orphans = {} /\ switchLeft = "whole" /\ faults = 0

-----------------------------------------------------------------------------
(* Processes.  A ComfyUI is live, or term once it has been sent SIGTERM.    *)

Home(a) == IF a \in Cli THEN a ELSE ApiProcess
IsComfy(p) == proc[p].st \in {"live", "term"}

\* os.kill(pid, 0): true of a zombie, and of whoever has the pid now.
PidRunning(p) == p # NoPid /\ proc[p].st # "free"

\* Mutant: neither the command nor the cwd is looked at.
OwnedByPid(p) == meta.pid = p

\* ps shows main.py only for a ComfyUI, and its cwd is the code it was started in.
ProcessOwned(p) == meta.pid = p /\ IsComfy(p) /\ proc[p].app = meta.cwd
IsRunning == PidRunning(pidFile) /\ ProcessOwned(pidFile)
Stale     == pidFile # NoPid /\ ~IsRunning
Status    == IF IsRunning THEN "running" ELSE IF Stale THEN "stale" ELSE "stopped"

\* process_owned raises on a meta file that is not JSON; a dead pid short-circuits it.
MetaRaises == PidRunning(pidFile) /\ ~meta.readable

\* Every Popen first polls the children whose Popen object has been dropped.
\* A start that has not returned still holds its own.
Held(p) == \E b \in Actors : pc[b] \in StartLocs /\ pid[b] = p
Reaped(h) == [p \in Pids |-> IF proc[p].st = "zombie" /\ proc[p].parent = h /\ ~Held(p)
                             THEN Free(InitProcess) ELSE proc[p]]

\* is_running runs ps, a Popen, once the pid is alive and the meta names it.
Inspected(a) == IF PidRunning(pidFile) /\ meta.pid = pidFile THEN Reaped(Home(a)) ELSE proc

\* The children of a process that ends pass to init, which reaps the zombies.
Inherited(h, table) ==
  [p \in Pids |-> IF table[p].parent # h THEN table[p]
                  ELSE IF table[p].st = "zombie" THEN Free(InitProcess)
                  ELSE [table[p] EXCEPT !.parent = InitProcess]]

\* A command line ends with its handler; an API thread drops its Popen object,
\* which is polled once more as it goes.
Settled(a, table) ==
  IF a \in Cli THEN Inherited(a, table)
  ELSE [p \in Pids |-> IF p = pid[a] /\ table[p].st = "zombie" THEN Free(InitProcess)
                       ELSE table[p]]

-----------------------------------------------------------------------------
(* The workspace lock and the control flow of a handler.                    *)

At(a, loc) == pc[a] = loc
Goto(a, loc) == pc' = [pc EXCEPT ![a] = loc] /\ UNCHANGED <<lock, reply>>
\* Mutant: flock is not taken.
IdleUnlocked(a) == pc[a] = "idle"

Idle(a) == pc[a] = "idle" /\ lock = NoActor

Enter(a, loc) == pc' = [pc EXCEPT ![a] = loc] /\ lock' = a /\ UNCHANGED reply

Leave(a, answer) ==
  /\ pc' = [pc EXCEPT ![a] = "idle"]
  /\ pid' = [pid EXCEPT ![a] = NoPid]
  /\ target' = [target EXCEPT ![a] = NoTarget]
  /\ old' = [old EXCEPT ![a] = NoSelection]
  /\ lock' = NoActor /\ reply' = answer

-----------------------------------------------------------------------------
(* process.status, without the lock: only its ps has an effect.             *)
ReadStatus(a) ==
  /\ At(a, "idle") /\ ~MetaRaises
  /\ proc' = Inspected(a)
  /\ UNCHANGED <<pc, locals, lock, listener, files, links, linked, state, reply, ghosts, faults>>

(* A handler that takes the lock, looks, and raises: nothing but the reply  *)
(* and a look at the process table is left of it.                           *)
Rejected(table) ==
  /\ proc' = table /\ reply' = "error"
  /\ UNCHANGED <<pc, locals, lock, listener, files, links, linked, state, ghosts, faults>>

-----------------------------------------------------------------------------
(* process.start                                                            *)

StartRejected(a) ==
  /\ Idle(a) /\ current # NoTarget
  /\ MetaRaises \/ (~IsRunning /\ (listener # NoPid \/ currentEnv = NoTarget))
  /\ Rejected(Inspected(a))

StartAlreadyRunning(a) ==
  /\ Idle(a) /\ current # NoTarget /\ ~MetaRaises /\ IsRunning
  /\ proc' = Inspected(a) /\ reply' = "running"
  /\ UNCHANGED <<pc, locals, lock, listener, files, links, linked, state, ghosts, faults>>

Start(a) ==
  /\ Idle(a) /\ current # NoTarget /\ ~MetaRaises /\ ~IsRunning
  /\ listener = NoPid /\ currentEnv # NoTarget
  /\ proc' = Inspected(a)
  /\ Enter(a, "start_spawn")
  /\ UNCHANGED <<locals, listener, files, links, linked, state, ghosts, faults>>

StartSpawn(a) ==
  /\ At(a, "start_spawn")
  /\ \E p \in Pids :
       /\ proc[p].st = "free"
       /\ proc' = [Reaped(Home(a)) EXCEPT ![p] = [st |-> "live", app |-> current, env |-> currentEnv,
                                                  parent |-> Home(a)]]
       /\ pid' = [pid EXCEPT ![a] = p]
  /\ Goto(a, "start_pid")
  /\ UNCHANGED <<target, old, listener, files, links, linked, state, ghosts, faults>>

\* Popen raises: the interpreter cannot be executed.
StartSpawnFails(a) ==
  /\ At(a, "start_spawn")
  /\ proc' = Reaped(Home(a))
  /\ Leave(a, "error")
  /\ UNCHANGED <<listener, files, links, linked, state, ghosts, faults>>

StartWritePid(a) ==
  /\ At(a, "start_pid")
  /\ pidFile' = pid[a]
  /\ Goto(a, "start_meta")
  /\ UNCHANGED <<locals, os, meta, links, linked, state, ghosts, faults>>

\* Mutant: pid and cwd are swapped.
StartWriteMetaSwapped(a) ==
  /\ At(a, "start_meta")
  /\ meta' = [pid |-> current, cwd |-> pid[a], readable |-> TRUE]
  /\ Goto(a, "start_wait")
  /\ UNCHANGED <<locals, os, pidFile, links, linked, state, ghosts, faults>>

StartWriteMeta(a) ==
  /\ At(a, "start_meta")
  /\ meta' = [pid |-> pid[a], cwd |-> current, readable |-> TRUE]
  /\ Goto(a, "start_wait")
  /\ UNCHANGED <<locals, os, pidFile, links, linked, state, ghosts, faults>>

StartReturn(a) ==
  /\ At(a, "start_wait")
  /\ proc' = Settled(a, Inspected(a))
  /\ Leave(a, IF PidRunning(pid[a]) THEN Status ELSE "unavailable")
  /\ UNCHANGED <<listener, files, links, linked, state, ghosts, faults>>

-----------------------------------------------------------------------------
(* process.stop                                                             *)

StopRejected(a) == Idle(a) /\ MetaRaises /\ Rejected(Inspected(a))

Stop(a) ==
  /\ Idle(a) /\ ~MetaRaises
  /\ proc' = Inspected(a)
  /\ Enter(a, IF IsRunning THEN "stop_kill" ELSE "stop_clear")
  /\ pid' = [pid EXCEPT ![a] = pidFile]
  /\ UNCHANGED <<target, old, listener, files, links, linked, state, ghosts, faults>>

StopSignal(a) ==
  /\ At(a, "stop_kill") /\ PidRunning(pid[a])
  /\ proc' = [proc EXCEPT ![pid[a]].st = IF @ = "live" THEN "term" ELSE @]
  /\ Goto(a, "stop_wait")
  /\ UNCHANGED <<locals, listener, files, links, linked, state, ghosts, faults>>

\* It has gone since it was inspected: os.kill raises ProcessLookupError.
StopSignalFails(a) ==
  /\ At(a, "stop_kill") /\ ~PidRunning(pid[a])
  /\ Leave(a, "error")
  /\ UNCHANGED <<os, files, links, linked, state, ghosts, faults>>

StopGone(a) ==
  /\ At(a, "stop_wait") /\ ~PidRunning(pid[a])
  /\ Goto(a, "stop_clear")
  /\ UNCHANGED <<locals, os, files, links, linked, state, ghosts, faults>>

\* Mutant: the files are removed when the ten seconds are over.
StopTimeoutForgets(a) ==
  /\ At(a, "stop_wait")
  /\ Goto(a, "stop_clear")
  /\ UNCHANGED <<locals, os, files, links, linked, state, ghosts, faults>>

\* Mutant: no deadline.
StopWaitsForever(a) ==
  /\ At(a, "stop_wait") /\ ~PidRunning(pid[a])
  /\ Leave(a, "unavailable")
  /\ UNCHANGED <<os, files, links, linked, state, ghosts, faults>>

StopTimeout(a) ==
  /\ At(a, "stop_wait")
  /\ Leave(a, "unavailable")
  /\ UNCHANGED <<os, files, links, linked, state, ghosts, faults>>

StopUnlinkPid(a) ==
  /\ At(a, "stop_clear")
  /\ pidFile' = NoPid
  /\ Goto(a, "stop_clear_meta")
  /\ UNCHANGED <<locals, os, meta, links, linked, state, ghosts, faults>>

StopUnlinkMeta(a) ==
  /\ At(a, "stop_clear_meta")
  /\ meta' = NoMeta
  /\ Leave(a, Status)
  /\ UNCHANGED <<os, pidFile, links, linked, state, ghosts, faults>>

-----------------------------------------------------------------------------
(* workspace.init_workspace: the first call of every use and link, and      *)
(* outside the lock.  Once state.json exists it has no effect.              *)

InitWorkspace(a) ==
  /\ At(a, "idle") /\ ~state.exists
  /\ Goto(a, "init_write")
  /\ UNCHANGED <<locals, os, files, links, linked, state, ghosts, faults>>

InitWriteState(a) ==
  /\ At(a, "init_write")
  /\ state' = EmptyState(TRUE)
  /\ Goto(a, "idle")
  /\ UNCHANGED <<locals, os, files, links, linked, ghosts, faults>>

-----------------------------------------------------------------------------
(* runtimes.use_runtime and versions.use_version share their steps, in      *)
(* another order and with another end to a step that fails.                 *)

UseRejected(a) ==
  \* comfyui_running, an unknown or broken runtime, a seed model in conflict
  /\ Idle(a) /\ state.exists
  /\ Rejected(Inspected(a))

\* Mutant: is_running is not asked.
UseRuntimeAnyTime(a, t) ==
  /\ Idle(a) /\ state.exists
  /\ Enter(a, "use_current")
  /\ target' = [target EXCEPT ![a] = t]
  /\ old' = [old EXCEPT ![a] = [current |-> current, env |-> currentEnv]]
  /\ UNCHANGED <<pid, os, files, links, linked, state, ghosts, faults>>

UseRuntime(a, t) ==
  /\ Idle(a) /\ state.exists /\ ~MetaRaises /\ ~IsRunning
  /\ proc' = Inspected(a)
  /\ Enter(a, "use_current")
  /\ target' = [target EXCEPT ![a] = t]
  /\ old' = [old EXCEPT ![a] = [current |-> current, env |-> currentEnv]]
  /\ UNCHANGED <<pid, listener, files, links, linked, state, ghosts, faults>>

\* use_version first prepares the env, and that runs uv: one more Popen.
PrepareEnvFails(a) ==
  /\ Idle(a) /\ state.exists /\ ~MetaRaises /\ ~IsRunning
  /\ Rejected(Reaped(Home(a)))

UseVersion(a, t) ==
  /\ Idle(a) /\ state.exists /\ ~MetaRaises /\ ~IsRunning
  /\ proc' = Reaped(Home(a))
  /\ Enter(a, "ver_current")
  /\ target' = [target EXCEPT ![a] = t]
  /\ UNCHANGED <<pid, old, listener, files, links, linked, state, ghosts, faults>>

ReplaceCurrent(a, from, to) ==
  /\ At(a, from)
  /\ current' = target[a]
  /\ Goto(a, to)
  /\ UNCHANGED <<locals, os, files, currentEnv, linked, state, ghosts, faults>>

ReplaceEnv(a, from, to) ==
  /\ At(a, from)
  /\ currentEnv' = target[a]
  /\ Goto(a, to)
  /\ UNCHANGED <<locals, os, files, current, linked, state, ghosts, faults>>

LinkCurrentModels(a, from, to) ==
  /\ At(a, from)
  /\ linked' = linked \cup {current}
  /\ Goto(a, to)
  /\ UNCHANGED <<locals, os, files, links, state, ghosts, faults>>

MergeState(a, from, merged) ==
  /\ At(a, from)
  /\ state' = [merged EXCEPT !.path = target[a], !.env = target[a]]
  /\ switchLeft' = "whole"
  /\ Leave(a, "ok")
  /\ UNCHANGED <<os, files, links, linked, orphans, faults>>

UseRuntimeStep(a) ==
  \/ ReplaceCurrent(a, "use_current", "use_env")
  \/ ReplaceEnv(a, "use_env", "use_link")
  \/ LinkCurrentModels(a, "use_link", "use_merge")
  \/ MergeState(a, "use_merge", [state EXCEPT !.runtime = target[a]])

UseVersionStep(a) ==
  \/ ReplaceCurrent(a, "ver_current", "ver_link")
  \/ LinkCurrentModels(a, "ver_link", "ver_env")
  \/ ReplaceEnv(a, "ver_env", "ver_merge")
  \/ MergeState(a, "ver_merge", [state EXCEPT !.version = target[a]])

\* Mutant: use_runtime without its except clause.
UseRuntimeRaisesAtOnce(a) ==
  /\ pc[a] \in {"use_current", "use_env", "use_link", "use_merge"}
  /\ Leave(a, "error") /\ UNCHANGED switchLeft

\* A step of use_runtime raises: both links will be restored.
UseRuntimeRaises(a) ==
  /\ pc[a] \in {"use_current", "use_env", "use_link", "use_merge"}
  /\ Goto(a, "roll_current")
  /\ UNCHANGED <<locals, switchLeft>>

\* A step of use_version raises: there is no except clause.
UseVersionRaises(a) ==
  /\ pc[a] \in VerLocs
  /\ switchLeft' = IF pc[a] \in HalfLocs THEN "half" ELSE switchLeft
  /\ Leave(a, "error")

\* link_models_unlocked raises: a seed model differs from the shared one.
LinkModelsFails(a) ==
  /\ pc[a] \in {"use_link", "ver_link"} /\ current \notin linked
  /\ UseRuntimeRaises(a) \/ UseVersionRaises(a)
  /\ UNCHANGED <<os, files, links, linked, state, orphans, faults>>

RestoreCurrent(a) ==
  /\ At(a, "roll_current")
  /\ current' = old[a].current
  /\ Goto(a, "roll_env")
  /\ UNCHANGED <<locals, os, files, currentEnv, linked, state, ghosts, faults>>

RestoreEnv(a) ==
  /\ At(a, "roll_env")
  /\ currentEnv' = old[a].env
  /\ Leave(a, "error")
  /\ UNCHANGED <<os, files, current, linked, state, ghosts, faults>>

(* models.link_models: takes the lock, does not ask whether ComfyUI runs.   *)
LinkModels(a) ==
  /\ Idle(a) /\ state.exists /\ current # NoTarget
  /\ linked' = linked \cup {current} /\ reply' = "ok"
  /\ UNCHANGED <<pc, locals, lock, os, files, links, state, ghosts, faults>>

-----------------------------------------------------------------------------
(* A write that fails (the disk is full), or a crash in it.  write_text has  *)
(* then truncated the file; the links and state.json are replaced whole or  *)
(* not at all.                                                              *)

Torn(a) ==
  /\ pidFile' = IF At(a, "start_pid") THEN NoPid ELSE pidFile
  /\ meta' = IF At(a, "start_meta") THEN TornMeta ELSE meta

StartWriteFails(a) ==
  /\ faults < MaxFaults /\ faults' = faults + 1
  /\ pc[a] \in {"start_pid", "start_meta"}
  /\ Torn(a)
  /\ orphans' = orphans \cup {p \in Pids : p = pid[a] /\ IsComfy(p)}
  /\ proc' = Settled(a, proc)
  /\ Leave(a, "error")
  /\ UNCHANGED <<listener, links, linked, state, switchLeft>>

SwitchWriteFails(a) ==
  /\ faults < MaxFaults /\ faults' = faults + 1
  /\ UseRuntimeRaises(a) \/ UseVersionRaises(a)
  /\ UNCHANGED <<os, files, links, linked, state, orphans>>

RestoreFails(a) ==
  /\ faults < MaxFaults /\ faults' = faults + 1
  /\ pc[a] \in {"roll_current", "roll_env"}
  /\ switchLeft' = "half"
  /\ Leave(a, "error")
  /\ UNCHANGED <<os, files, links, linked, state, orphans>>

WriteFails(a) == StartWriteFails(a) \/ SwitchWriteFails(a) \/ RestoreFails(a)

(* A process is killed with whatever its threads were doing; the kernel     *)
(* drops the lock one of them held.  The API is restarted by its operator.  *)
Kill(h) ==
  LET dying == {a \in Actors : Home(a) = h}
      spawned == {p \in Pids : \E a \in dying : pid[a] = p /\ pc[a] \in {"start_pid", "start_meta"}}
  IN /\ faults < MaxFaults /\ faults' = faults + 1
     /\ h = ApiProcess \/ \E a \in dying : pc[a] # "idle"
     /\ pc' = [a \in Actors |-> IF a \in dying THEN "idle" ELSE pc[a]]
     /\ pid' = [a \in Actors |-> IF a \in dying THEN NoPid ELSE pid[a]]
     /\ target' = [a \in Actors |-> IF a \in dying THEN NoTarget ELSE target[a]]
     /\ old' = [a \in Actors |-> IF a \in dying THEN NoSelection ELSE old[a]]
     /\ lock' = IF lock \in dying THEN NoActor ELSE lock
     /\ proc' = Inherited(h, proc)
     /\ UNCHANGED files \/ \E a \in dying : Torn(a)
     /\ orphans' = orphans \cup {p \in spawned : IsComfy(p)}
     /\ switchLeft' = IF \E a \in dying : pc[a] \in HalfLocs THEN "half" ELSE switchLeft
     /\ reply' = "none"
     /\ UNCHANGED <<listener, links, linked, state>>

-----------------------------------------------------------------------------
(* ComfyUI and the operating system.                                        *)

Bind(p) ==
  /\ proc[p].st = "live" /\ listener = NoPid
  /\ listener' = p
  /\ UNCHANGED <<pc, locals, lock, proc, files, links, linked, state, reply, ghosts, faults>>

\* It ends by itself, for want of the port, or because it was told to.
Exit(p) ==
  /\ IsComfy(p)
  /\ proc' = [proc EXCEPT ![p] = IF @.parent = InitProcess THEN Free(InitProcess)
                                 ELSE [Free(@.parent) EXCEPT !.st = "zombie"]]
  /\ listener' = IF listener = p THEN NoPid ELSE listener
  /\ orphans' = orphans \ {p}
  /\ UNCHANGED <<pc, locals, lock, files, links, linked, state, reply, switchLeft, faults>>

\* The kernel hands a free pid to a foreign process.  A pid comes round again
\* only after all the others, so not between an inspection and the kill after it.
Recycle(p) ==
  /\ proc[p].st = "free"
  /\ ~ \E a \in Actors : pc[a] = "stop_kill" /\ pid[a] = p
  /\ proc' = [proc EXCEPT ![p].st = "foreign"]
  /\ UNCHANGED <<pc, locals, lock, listener, files, links, linked, state, reply, ghosts, faults>>

ForeignExit(p) ==
  /\ proc[p].st = "foreign"
  /\ proc' = [proc EXCEPT ![p] = Free(InitProcess)]
  /\ UNCHANGED <<pc, locals, lock, listener, files, links, linked, state, reply, ghosts, faults>>

-----------------------------------------------------------------------------
\* What a caller may ask for.
Request(a) ==
  \/ ReadStatus(a) \/ StartRejected(a) \/ StartAlreadyRunning(a) \/ Start(a)
  \/ StopRejected(a) \/ Stop(a) \/ InitWorkspace(a)
  \/ UseRejected(a) \/ PrepareEnvFails(a)
  \/ \E t \in Runtimes : UseRuntime(a, t)
  \/ \E t \in Versions : UseVersion(a, t)
  \/ LinkModels(a)

\* What a handler does once it has begun.
Advance(a) ==
  \/ StartSpawn(a) \/ StartSpawnFails(a) \/ StartWritePid(a) \/ StartWriteMeta(a) \/ StartReturn(a)
  \/ StopSignal(a) \/ StopSignalFails(a) \/ StopGone(a) \/ StopTimeout(a)
  \/ StopUnlinkPid(a) \/ StopUnlinkMeta(a) \/ InitWriteState(a)
  \/ UseRuntimeStep(a) \/ UseVersionStep(a) \/ LinkModelsFails(a)
  \/ RestoreCurrent(a) \/ RestoreEnv(a)

System(p) == Bind(p) \/ Exit(p) \/ Recycle(p) \/ ForeignExit(p)

Next ==
  \/ \E a \in Actors : Request(a) \/ Advance(a) \/ WriteFails(a)
  \/ \E h \in Cli \cup {ApiProcess} : Kill(h)
  \/ \E p \in Pids : System(p)

Spec == Init /\ [][Next]_vars

\* A handler has no unbounded wait: a sleep of one second, a poll of ten.
FairSpec == Spec /\ \A a \in Actors : WF_vars(Advance(a))

-----------------------------------------------------------------------------
TypeOK ==
  /\ pc \in [Actors -> {"idle", "init_write"} \cup LockedLocs]
  /\ pid \in [Actors -> Pids \cup {NoPid}]
  /\ target \in [Actors -> Targets \cup {NoTarget}]
  /\ old \in [Actors -> Selection]
  /\ lock \in Actors \cup {NoActor}
  /\ proc \in [Pids -> Process] /\ listener \in Pids \cup {NoPid}
  /\ pidFile \in Pids \cup {NoPid} /\ meta \in Meta
  /\ current \in Targets \cup {NoTarget} /\ currentEnv \in Targets \cup {NoTarget}
  /\ linked \subseteq Targets \cup {NoTarget}
  /\ state \in State
  /\ reply \in {"none", "ok", "error", "running", "stale", "stopped", "unavailable"}
  /\ orphans \subseteq Pids /\ switchLeft \in {"whole", "half"} /\ faults \in Nat

\* The ComfyUI processes that no interrupted start has left behind.
Services == {p \in Pids : IsComfy(p) /\ p \notin orphans}

(* At most one actor is inside a locked section, and it is the one the lock  *)
(* names: process.start, stop, use_runtime, use_version all run one at a time.*)
LockExclusion ==
  \A a \in Actors : pc[a] \in LockedLocs <=> lock = a

\* stop and use_runtime can see p: is_running is true of it.
Recorded(p) ==
  pidFile = p /\ meta.pid = p /\ meta.cwd = proc[p].app /\ meta.readable

(* While nobody holds the lock, a running ComfyUI is the one comfyui.pid and *)
(* comfyui.meta record, so that stop and use_runtime can see it; in          *)
(* particular there is at most one.                                          *)
ServiceIsRecorded ==
  lock = NoActor => \A p \in Services : Recorded(p)

(* The running ComfyUI executes the code and the interpreter that current    *)
(* and current-env name, at every moment, also while a handler is at work.   *)
ServiceRunsSelection ==
  \A p \in Services : proc[p].app = current /\ proc[p].env = currentEnv

(* What each step of a handler may rely on, and why the two above hold:      *)
(* nothing runs from the moment is_running was false until start's Popen,    *)
(* while a switch replaces the links and while stop removes the files; what  *)
(* runs is recorded, or is the child of the one start that has yet to record *)
(* it; and stop signals and waits for the process that comfyui.pid names.    *)
ServiceInvariant ==
  /\ \A a \in Actors :
       /\ pc[a] \in {"start_spawn", "stop_clear", "stop_clear_meta"} \cup UseLocs \cup VerLocs
            => Services = {}
       /\ pc[a] \in {"start_pid", "start_meta"} => Services \subseteq {pid[a]}
       /\ At(a, "start_meta") => pidFile = pid[a]
       /\ pc[a] \in {"stop_kill", "stop_wait"} => pid[a] = pidFile
  /\ (\A a \in Actors : pc[a] \notin {"start_pid", "start_meta"}) => \A p \in Services : Recorded(p)
  /\ ServiceRunsSelection

(* Outside the lock, current and current-env name the same target, whose     *)
(* models/ is the link to the shared directory, and state.json agrees;       *)
(* unless a switch was cut short and none has completed since.               *)
SelectionIsWhole ==
  lock = NoActor /\ switchLeft = "whole" =>
    /\ current = currentEnv
    /\ current # NoTarget => current \in linked
    /\ state.path = current /\ state.env = currentEnv

(* stop never sends a signal to a process that is not a ComfyUI of this      *)
(* workspace, whatever a stale pid file names.                               *)
SignalsOnlyComfy ==
  [][\A a \in Actors, p \in Pids :
       StopSignal(a) /\ pid[a] = p => proc[p].st # "foreign"]_vars

(* comfyui.pid is not removed or rewritten while the ComfyUI it records      *)
(* runs.                                                                     *)
NeverForgotten ==
  [][\A p \in Services : pidFile = p => pidFile' = p \/ p \notin Services']_vars

(* A handler that has the lock gives it up, on every path.                   *)
LockIsReleased == lock # NoActor ~> lock = NoActor

-----------------------------------------------------------------------------
(* What the documentation says of the program, and the program does not do.  *)

(* docs/architecture.md, key rules: switching is refused while the service   *)
(* runs.  It is refused while the service is recorded; a start that is cut   *)
(* short after Popen leaves a ComfyUI that runs and is not.                  *)
NoSwitchWhileServiceRuns ==
  [][current' # current => \A p \in Pids : ~IsComfy(p)]_vars

(* docs/architecture.md, key rules: current-env points into the runtime that *)
(* current points into.  A use_version whose link_models raises leaves the   *)
(* env of the target before it; no fault is needed.                          *)
EnvFollowsCurrent ==
  lock = NoActor /\ faults = 0 => current = currentEnv

(* The contract of comfy_service_start has DEPENDENCY_UNAVAILABLE for a      *)
(* ComfyUI that ends at once: the reply is never a 200 with a stale pid.     *)
EarlyExitIsReported ==
  [][\A a \in Actors : StartReturn(a) => reply' # "stale"]_vars

(* stop answers stop_timeout when it still sees a ComfyUI after ten seconds, *)
(* not when what it sees is the zombie of one that has ended.                *)
TimeoutMeansRunning ==
  [][\A a \in Actors, p \in Pids : StopTimeout(a) /\ pid[a] = p => IsComfy(p)]_vars

(* docs/architecture.md, failures: two entries that change the workspace at  *)
(* once are kept apart by the lock.  init_workspace is outside it and can    *)
(* overwrite what a switch has recorded in state.json.                       *)
SwitchIsRemembered ==
  [][state.path # NoTarget => state'.path # NoTarget]_vars
=============================================================================
