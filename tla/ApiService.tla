------------------------------ MODULE ApiService ------------------------------
(***************************************************************************)
(* scripts/dev.sh start, stop and restart api, and deploy.sh up and down   *)
(* compose-full.  They share run/api.pid and run/api.meta and take no      *)
(* lock: every check is made before, and apart from, what it is for.       *)
(***************************************************************************)
EXTENDS Lifecycle

CONSTANTS Commands, MaxCuts \* MaxCuts bounds the commands that are interrupted

ASSUME CommandsAssumption == NoPid \notin Pids /\ Other \notin Pids /\ NoPid # Other /\ MaxCuts \in Nat

VARIABLES
  pc, pid, goal,     \* each command's position, its pid variable, and what it is
  answer,            \* what its last run printed: "ready" for a start that waited
  pidFile, meta,     \* run/api.pid, and the pid in run/api.meta
  compose,           \* whether the compose-full API runs
  overlap, intruded, \* history: two commands at work at once; a foreign listener
  cuts

scripts == <<pc, pid, goal, answer, pidFile, meta, compose, overlap, intruded, cuts>>
files   == <<pidFile, meta>>
marks   == <<overlap, intruded, cuts>>
vars    == <<app, scripts>>

Init ==
  /\ AppInit
  /\ pc = [c \in Commands |-> "idle"] /\ pid = [c \in Commands |-> NoPid]
  /\ goal = [c \in Commands |-> "none"] /\ answer = [c \in Commands |-> "none"]
  /\ pidFile = NoPid /\ meta = NoPid /\ compose = FALSE
  /\ overlap = FALSE /\ intruded = FALSE /\ cuts = 0

\* meta names the pid, and the process is uvicorn in this directory, on this log.
Owned(p)   == meta = p /\ p \in Pids /\ Alive(p)
Running(p) == p \in Pids /\ phase[p] # "free"
ApiRunning == Owned(pidFile)

At(c, loc) == pc[c] = loc

GoOn(c, loc) == pc' = [pc EXCEPT ![c] = loc] /\ UNCHANGED <<goal, answer>>

Return(c, what) ==
  /\ pc' = [pc EXCEPT ![c] = "idle"] /\ pid' = [pid EXCEPT ![c] = NoPid]
  /\ goal' = [goal EXCEPT ![c] = "none"] /\ answer' = [answer EXCEPT ![c] = what]

\* The commands so far came one after the other, and none was interrupted.
Orderly == ~overlap /\ cuts = 0

\* A bound: two commands at once, or one that was interrupted, are the last.
Begin(c) == \E g \in {"start", "stop", "restart", "up", "down"} :
  /\ At(c, "idle") /\ Orderly
  /\ pc' = [pc EXCEPT ![c] = CASE g = "start" -> "start" [] g = "up" -> "up" [] g = "down" -> "down"
                               [] OTHER -> "stop"]
  /\ goal' = [goal EXCEPT ![c] = g] /\ answer' = [answer EXCEPT ![c] = "none"]
  /\ overlap' = (overlap \/ \E d \in Commands : ~At(d, "idle"))
  /\ UNCHANGED <<app, pid, files, compose, intruded, cuts>>

-----------------------------------------------------------------------------
(* start_api                                                                *)

StartLook(c) ==
  /\ At(c, "start")
  /\ IF ApiRunning THEN Return(c, "running")
     ELSE IF compose THEN Return(c, "failed")
     ELSE GoOn(c, "start_port") /\ UNCHANGED pid
  /\ UNCHANGED <<app, files, compose, marks>>

\* The owner of the port as lsof tells it; without lsof there is none.
PortOwner == {port, NoPid}

\* assert_api_port_free
StartPort(c) == \E owner \in PortOwner :
  /\ At(c, "start_port")
  /\ IF owner = NoPid \/ (owner = pidFile /\ Owned(owner))
     THEN GoOn(c, "spawn") /\ UNCHANGED pid ELSE Return(c, "failed")
  /\ UNCHANGED <<app, files, compose, marks>>

Spawn(c) == \E p \in Pids :
  /\ At(c, "spawn") /\ Enter(p, "free", "starting")
  /\ pid' = [pid EXCEPT ![c] = p] /\ GoOn(c, "write_pid")
  /\ UNCHANGED <<started, term, port, faults, files, compose, marks>>

WritePid(c) ==
  /\ At(c, "write_pid") /\ GoOn(c, "write_meta") /\ pidFile' = pid[c]
  /\ UNCHANGED <<app, pid, meta, compose, marks>>

WriteMeta(c) ==
  /\ At(c, "write_meta") /\ GoOn(c, "look") /\ meta' = pid[c]
  /\ UNCHANGED <<app, pid, pidFile, compose, marks>>

RemoveFiles == pidFile' = NoPid /\ meta' = NoPid

\* After a second: is it still there?
Look(c) ==
  /\ At(c, "look")
  /\ IF ApiRunning THEN GoOn(c, "wait") /\ UNCHANGED <<pid, files>>
     ELSE Return(c, "failed") /\ RemoveFiles
  /\ UNCHANGED <<app, compose, marks>>

\* wait_for_api: whoever listens on the port answers /health.  Or 20 s pass.
\* Mutant: a start that times out counts as one that is ready.
WaitAnyway(c) ==
  /\ At(c, "wait") /\ Return(c, "ready")
  /\ UNCHANGED <<app, files, compose, marks>>

Wait(c) ==
  /\ At(c, "wait")
  /\ (port # NoPid /\ Return(c, "ready")) \/ Return(c, "failed")
  /\ UNCHANGED <<app, files, compose, marks>>

-----------------------------------------------------------------------------
(* stop_api; restart goes on with start_api when it returns 0.              *)

Stopped(c) ==
  IF goal[c] = "restart" THEN GoOn(c, "start") /\ pid' = [pid EXCEPT ![c] = NoPid]
  ELSE Return(c, "stopped")

StopLook(c) ==
  /\ At(c, "stop")
  /\ IF ApiRunning
     THEN GoOn(c, "kill") /\ pid' = [pid EXCEPT ![c] = pidFile] /\ UNCHANGED files
     ELSE Stopped(c) /\ RemoveFiles
  /\ UNCHANGED <<app, compose, marks>>

\* Under set -e a kill that finds no process ends the command.
StopKill(c) ==
  /\ At(c, "kill")
  /\ IF Running(pid[c]) THEN GoOn(c, "wait_exit") /\ UNCHANGED pid ELSE Return(c, "failed")
  /\ term' = IF Alive(pid[c]) THEN term \cup {pid[c]} ELSE term
  /\ phase' = IF phase[pid[c]] = "foreign" THEN [phase EXCEPT ![pid[c]] = "free"] ELSE phase
  /\ UNCHANGED <<started, port, faults, files, compose, marks>>

\* wait_for_pid_exit, up to 10 s.
\* Mutant: the files are removed although the process is still there.
WaitExitClears(c) ==
  /\ At(c, "wait_exit") /\ GoOn(c, "wait_port") /\ RemoveFiles
  /\ UNCHANGED <<app, pid, compose, marks>>

WaitExit(c) ==
  /\ At(c, "wait_exit")
  /\ IF Running(pid[c]) THEN Return(c, "failed") /\ UNCHANGED files
     ELSE GoOn(c, "wait_port") /\ RemoveFiles /\ UNCHANGED pid
  /\ UNCHANGED <<app, compose, marks>>

WaitPort(c) == \E owner \in PortOwner :
  /\ At(c, "wait_port")
  /\ IF owner = NoPid THEN Stopped(c) ELSE Return(c, "failed")
  /\ UNCHANGED <<app, files, compose, marks>>

-----------------------------------------------------------------------------
(* up_full and down_full                                                    *)

UpLook(c) ==
  /\ At(c, "up")
  /\ IF ApiRunning THEN Return(c, "failed") ELSE GoOn(c, "compose_up") /\ UNCHANGED pid
  /\ UNCHANGED <<app, files, compose, marks>>

Compose(c) ==
  /\ At(c, "compose_up") \/ At(c, "down")
  /\ compose' = At(c, "compose_up") /\ Return(c, "done")
  /\ UNCHANGED <<app, files, marks>>

Step(c) ==
  \/ StartLook(c) \/ StartPort(c) \/ Spawn(c) \/ WritePid(c) \/ WriteMeta(c) \/ Look(c) \/ Wait(c)
  \/ StopLook(c) \/ StopKill(c) \/ WaitExit(c) \/ WaitPort(c) \/ UpLook(c) \/ Compose(c)

\* Ctrl-C, or a write that fails under set -e: the API has a session of its own
\* and goes on.
Interrupt(c) ==
  /\ ~At(c, "idle") /\ cuts < MaxCuts /\ cuts' = cuts + 1
  /\ Return(c, "none") /\ UNCHANGED <<app, files, compose, overlap, intruded>>

\* Another program listens on API_PORT, or no longer does.
Intrude ==
  /\ \/ port = NoPid /\ port' = Other /\ intruded' = TRUE
     \/ port = Other /\ port' = NoPid /\ UNCHANGED intruded
  /\ UNCHANGED <<phase, started, term, faults, pc, pid, goal, answer, files, compose, overlap, cuts>>

Next ==
  \/ \E c \in Commands : Begin(c) \/ Step(c) \/ Interrupt(c)
  \/ \E p \in Pids : (Lifespan(p) \/ Process(p)) /\ UNCHANGED scripts
  \/ Intrude

Spec == Init /\ [][Next]_vars

-----------------------------------------------------------------------------
TypeOK ==
  /\ phase \in [Pids -> Phases] /\ started \in [Pids -> Seq(Range(Order))]
  /\ term \subseteq {p \in Pids : Alive(p)} /\ port \in Pids \cup {NoPid, Other}
  /\ pidFile \in Pids \cup {NoPid} /\ meta \in Pids \cup {NoPid} /\ compose \in BOOLEAN
  /\ pc \in [Commands -> {"idle", "start", "start_port", "spawn", "write_pid", "write_meta", "look",
                         "wait", "stop", "kill", "wait_exit", "wait_port", "up", "compose_up", "down"}]
  /\ pid \in [Commands -> Pids \cup {NoPid}]
  /\ \A c \in Commands : pc[c] \in {"kill", "wait_exit"} => pid[c] \in Pids
  /\ goal \in [Commands -> {"none", "start", "stop", "restart", "up", "down"}]
  /\ answer \in [Commands -> {"none", "running", "ready", "stopped", "done", "failed"}]
  /\ overlap \in BOOLEAN /\ intruded \in BOOLEAN /\ faults \in Nat /\ cuts \in Nat

Starting(p) == \E c \in Commands : pc[c] \in {"write_pid", "write_meta"} /\ pid[c] = p

(* dev.sh, deploy.sh: "compose-full refuses to run beside the local API".  As *)
(* long as the commands come one by one, an API process that is alive, however *)
(* slow it is to start or to stop, is the one that the files name, so that     *)
(* there is one at most; and the compose-full API does not run beside it.      *)
OneRecordedApi ==
  Orderly => \A p \in Pids :
    Alive(p) => (Starting(p) \/ (pidFile = p /\ meta = p)) /\ ~compose

(* dev.sh, "start succeeded = the process is alive and /health can be reached": *)
(* when nobody else has taken the port, the /health that answered is that of    *)
(* the recorded process, with every provider started.                           *)
ReadyIsServing ==
  [][\A c \in Commands : answer'[c] = "ready" /\ answer[c] # "ready" /\ Orderly /\ ~intruded
       => pidFile = port /\ phase[port] = "serving" /\ started[port] = Order]_vars

\* What an operator sees of the processes.
Live    == IF \E p \in Pids : Alive(p) THEN CHOOSE p \in Pids : Alive(p) ELSE NoPid
Serving == \E p \in Pids : phase[p] = "serving" /\ started[p] = Order

Host == INSTANCE ApiHost WITH live <- Live, serving <- Serving, full <- compose, told <- answer,
                              stranger <- intruded, trouble <- ~Orderly

(* The scripts keep the promise of ApiHost through every failure, crash and   *)
(* reused pid: start says "running" only beside an API, "ready" only of one   *)
(* that serves (or of a stranger), stop and the first half of restart succeed *)
(* only when no API is left, and none begins beside another or beside         *)
(* compose-full.                                                              *)
ImplementsApiHost == Host!Spec
=============================================================================
