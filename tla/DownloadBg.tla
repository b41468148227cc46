----------------------------- MODULE DownloadBg -----------------------------
(***************************************************************************)
(* catalog.sh download-bg: a command checks, under a lock made with mkdir, *)
(* that no background download of the workspace runs, starts a runner with *)
(* nohup and records it; the runner downloads, reports and clears the      *)
(* record.  download-bg-status reads the files without the lock.           *)
(*                                                                         *)
(* A runner is recognised by its pid and its command line.  The child that *)
(* nohup starts has its command line by the time its starter, which forks  *)
(* three more commands first, has given the lock up.                       *)
(***************************************************************************)
EXTENDS Naturals, FiniteSets

CONSTANTS
  Commands,   \* invocations of download-bg
  Downloads,  \* what can be downloaded: a kind and an id
  Pids, NoPid, NoDownload,
  MaxCuts,    \* bound on interrupts and failed writes in a behaviour
  MaxKills,   \* bound on commands and runners killed
  MaxForeign  \* bound on foreign processes that have a pid of Pids

ASSUME DownloadAssumption ==
  /\ NoPid \notin Pids /\ NoDownload \notin Downloads
  /\ MaxCuts \in Nat /\ MaxKills \in Nat /\ MaxForeign \in Nat

VARIABLES
  pc, job, child,  \* each command's position, download and runner
  startLock,       \* does run/catalog-download.active.lock exist
  active,          \* run/catalog-download.active
  pidFile, status, \* the pid and the status file of each download
  proc,            \* the process table: runners and foreign processes
  ended,           \* history: how the last runner of a download ended
  overlap,         \* history: a command took the lock while another was at work
  cutShort,        \* history: downloads whose start was cut short
  cuts, kills

command == <<pc, job, child>>
files   == <<active, pidFile, status>>
history == <<overlap, cutShort>>
bounds  == <<cuts, kills>>
vars    == <<command, startLock, files, proc, ended, history, bounds>>

\* Between mkdir and the release that download_bg calls itself.
Section == {"trap", "check", "check_own", "status", "spawn", "write_pid", "write_active", "release"}
Traps   == {"return_trap", "exit_trap"}

NoActive == [job |-> NoDownload, pid |-> NoPid]
Unused   == [st |-> "free", job |-> NoDownload, rc |-> "none"]

Init ==
  /\ pc = [c \in Commands |-> "new"]
  /\ job \in [Commands -> Downloads]
  /\ child = [c \in Commands |-> NoPid]
  /\ startLock = FALSE
  /\ active = NoActive
  /\ pidFile = [d \in Downloads |-> NoPid]
  /\ status = [d \in Downloads |-> "none"]
  /\ proc = [p \in Pids |-> Unused]
  /\ ended = [d \in Downloads |-> "missing"]
  /\ overlap = FALSE /\ cutShort = {} /\ cuts = 0 /\ kills = 0

-----------------------------------------------------------------------------
\* A runner has not cleared its record; it may live on a little after that.
AtWork(p) == proc[p].st \in {"downloading", "reported", "clearing"}
Alive(p)  == AtWork(p) \/ proc[p].st = "ending"

\* Mutant: any live pid will do.
AnyPid(p, d) == p # NoPid /\ proc[p].st # "free"

\* pid_is_running and pid_matches_runner: the runner's file name has the download in it.
Matches(p, d) == p # NoPid /\ Alive(p) /\ proc[p].job = d

Goto(c, loc) == pc' = [pc EXCEPT ![c] = loc]

(* mkdir: the command ends when the directory is there.                     *)
Busy(c) ==
  /\ pc[c] = "new" /\ startLock
  /\ Goto(c, "done")
  /\ UNCHANGED <<job, child, startLock, files, proc, ended, history, bounds>>

TakeLock(c) ==
  /\ pc[c] = "new" /\ ~startLock
  /\ startLock' = TRUE
  /\ overlap' = (overlap \/ \E b \in Commands : pc[b] \in Section)
  /\ Goto(c, "trap")
  /\ UNCHANGED <<job, child, files, proc, ended, cutShort, bounds>>

SetTraps(c) ==
  /\ pc[c] = "trap"
  /\ Goto(c, "check")
  /\ UNCHANGED <<job, child, startLock, files, proc, ended, history, bounds>>

\* Mutant: only the download's own pid file is looked at.
CheckActiveSkipped(c) ==
  /\ pc[c] = "check"
  /\ Goto(c, "check_own")
  /\ UNCHANGED <<job, child, startLock, files, proc, ended, history, bounds>>

CheckActive(c) ==
  /\ pc[c] = "check"
  /\ Goto(c, IF Matches(active.pid, active.job) THEN "release" ELSE "check_own")
  /\ UNCHANGED <<job, child, startLock, files, proc, ended, history, bounds>>

CheckOwn(c) ==
  /\ pc[c] = "check_own"
  /\ Goto(c, IF Matches(pidFile[job[c]], job[c]) THEN "release" ELSE "status")
  /\ UNCHANGED <<job, child, startLock, files, proc, ended, history, bounds>>

\* write_download_runner and write_download_status
WriteStatus(c) ==
  /\ pc[c] = "status"
  /\ status' = [status EXCEPT ![job[c]] = "running"]
  /\ Goto(c, "spawn")
  /\ UNCHANGED <<job, child, startLock, active, pidFile, proc, ended, history, bounds>>

Spawn(c) ==
  /\ pc[c] = "spawn"
  /\ \E p \in Pids :
       /\ proc[p].st = "free"
       /\ proc' = [proc EXCEPT ![p] = [st |-> "downloading", job |-> job[c], rc |-> "none"]]
       /\ child' = [child EXCEPT ![c] = p]
  /\ Goto(c, "write_pid")
  /\ UNCHANGED <<job, startLock, files, ended, history, bounds>>

WritePid(c) ==
  /\ pc[c] = "write_pid"
  /\ pidFile' = [pidFile EXCEPT ![job[c]] = child[c]]
  /\ Goto(c, "write_active")
  /\ UNCHANGED <<job, child, startLock, active, status, proc, ended, history, bounds>>

\* Mutant: the status is written last.
WriteActiveThenStatus(c) ==
  /\ pc[c] = "write_active"
  /\ active' = [job |-> job[c], pid |-> child[c]]
  /\ status' = [status EXCEPT ![job[c]] = "running"]
  /\ Goto(c, "release")
  /\ UNCHANGED <<job, child, startLock, pidFile, proc, ended, history, bounds>>

WriteActive(c) ==
  /\ pc[c] = "write_active"
  /\ active' = [job |-> job[c], pid |-> child[c]]
  /\ Goto(c, "release")
  /\ UNCHANGED <<job, child, startLock, pidFile, status, proc, ended, history, bounds>>

(* release_download_bg_start_lock runs three times: by the function, on its  *)
(* RETURN, after it has printed, and on EXIT.  It asks not whose lock it is. *)
Release(c, from, to) ==
  /\ pc[c] = from
  /\ startLock' = FALSE
  /\ Goto(c, to)
  /\ UNCHANGED <<job, child, files, proc, ended, history, bounds>>

ReleaseAll(c) ==
  \/ Release(c, "release", "return_trap")
  \/ Release(c, "return_trap", "exit_trap")
  \/ Release(c, "exit_trap", "done")

Step(c) ==
  \/ SetTraps(c) \/ CheckActive(c) \/ CheckOwn(c) \/ WriteStatus(c)
  \/ Spawn(c) \/ WritePid(c) \/ WriteActive(c) \/ ReleaseAll(c)

-----------------------------------------------------------------------------
\* A start ends between its first write and its last.
CutShort(c) ==
  cutShort' = IF pc[c] \in {"spawn", "write_pid", "write_active"}
              THEN cutShort \cup {job[c]} ELSE cutShort

\* Mutant: the lock is released on RETURN, INT and TERM, not on EXIT.
CutWithoutExit(c) ==
  /\ cuts < MaxCuts /\ cuts' = cuts + 1
  /\ pc[c] \in Section \ {"trap"}
  /\ startLock' \in {startLock, FALSE}
  /\ CutShort(c)
  /\ Goto(c, "done")
  /\ UNCHANGED <<job, child, files, proc, ended, overlap, kills>>

\* A command fails (set -e), and only the EXIT trap runs; or INT or TERM comes,
\* and its trap releases the lock before EXIT does.
Cut(c) ==
  /\ cuts < MaxCuts /\ cuts' = cuts + 1
  /\ pc[c] \in Section \ {"trap"}
  /\ startLock' \in {startLock, FALSE}
  /\ CutShort(c)
  /\ Goto(c, "exit_trap")
  /\ UNCHANGED <<job, child, files, proc, ended, overlap, kills>>

\* SIGKILL, or INT or TERM before the traps are set.
KillCommand(c) ==
  /\ kills < MaxKills /\ kills' = kills + 1
  /\ pc[c] \in Section \cup Traps
  /\ CutShort(c)
  /\ Goto(c, "done")
  /\ UNCHANGED <<job, child, startLock, files, proc, ended, overlap, cuts>>

-----------------------------------------------------------------------------
(* The runner.                                                              *)

\* The download ends; the status file is replaced by mv.
Report(p, rc) ==
  /\ proc[p].st = "downloading"
  /\ status' = [status EXCEPT ![proc[p].job] = rc]
  /\ proc' = [proc EXCEPT ![p].st = "reported", ![p].rc = rc]
  /\ UNCHANGED <<command, startLock, active, pidFile, ended, history, bounds>>

\* grep "^pid=$$$" active; rm -f comes after.
FindActive(p) ==
  /\ proc[p].st = "reported" /\ active.pid = p
  /\ proc' = [proc EXCEPT ![p].st = "clearing"]
  /\ UNCHANGED <<command, startLock, files, ended, history, bounds>>

FindNoActive(p) ==
  /\ proc[p].st = "reported" /\ active.pid # p
  /\ proc' = [proc EXCEPT ![p].st = "ending"]
  /\ UNCHANGED <<command, startLock, files, ended, history, bounds>>

ClearActive(p) ==
  /\ proc[p].st = "clearing"
  /\ active' = NoActive
  /\ proc' = [proc EXCEPT ![p].st = "ending"]
  /\ UNCHANGED <<command, startLock, pidFile, status, ended, history, bounds>>

RunnerEnds(p, how) ==
  /\ ended' = [ended EXCEPT ![proc[p].job] = how]
  /\ proc' = [proc EXCEPT ![p] = Unused]

ExitRunner(p) ==
  /\ proc[p].st = "ending"
  /\ RunnerEnds(p, proc[p].rc)
  /\ UNCHANGED <<command, startLock, files, history, bounds>>

KillRunner(p) ==
  /\ kills < MaxKills /\ kills' = kills + 1
  /\ AtWork(p)
  /\ RunnerEnds(p, IF proc[p].st = "downloading" THEN "exited" ELSE proc[p].rc)
  /\ UNCHANGED <<command, startLock, files, history, cuts>>

Run(p) ==
  \/ \E rc \in {"completed", "failed"} : Report(p, rc)
  \/ FindActive(p) \/ FindNoActive(p) \/ ClearActive(p) \/ ExitRunner(p) \/ KillRunner(p)

\* The kernel gives a pid of the files to a foreign process, and takes it back.
Recycle(p) ==
  /\ \/ /\ proc[p].st = "free"
        /\ Cardinality({q \in Pids : proc[q].st = "foreign"}) < MaxForeign
        /\ proc' = [proc EXCEPT ![p].st = "foreign"]
     \/ /\ proc[p].st = "foreign"
        /\ proc' = [proc EXCEPT ![p].st = "free"]
  /\ UNCHANGED <<command, startLock, files, ended, history, bounds>>

-----------------------------------------------------------------------------
Next ==
  \/ \E c \in Commands : Busy(c) \/ TakeLock(c) \/ Step(c) \/ Cut(c) \/ KillCommand(c)
  \/ \E p \in Pids : Run(p) \/ Recycle(p)

Spec == Init /\ [][Next]_vars

-----------------------------------------------------------------------------
TypeOK ==
  /\ pc \in [Commands -> {"new", "done"} \cup Section \cup Traps]
  /\ job \in [Commands -> Downloads] /\ child \in [Commands -> Pids \cup {NoPid}]
  /\ startLock \in BOOLEAN /\ overlap \in BOOLEAN
  /\ active \in [job : Downloads \cup {NoDownload}, pid : Pids \cup {NoPid}]
  /\ pidFile \in [Downloads -> Pids \cup {NoPid}]
  /\ status \in [Downloads -> {"none", "running", "completed", "failed"}]
  /\ proc \in [Pids -> [st : {"free", "foreign", "downloading", "reported", "clearing", "ending"},
                        job : Downloads \cup {NoDownload}, rc : {"none", "completed", "failed"}]]
  /\ ended \in [Downloads -> {"missing", "completed", "failed", "exited"}]
  /\ cutShort \subseteq Downloads /\ cuts \in Nat /\ kills \in Nat

Orderly == ~overlap /\ cutShort = {}
Quiet   == ~overlap /\ \A c \in Commands : pc[c] \notin Section

(* As long as no two commands have been at work at once and no start was cut *)
(* short after its first write, at most one runner has not yet reported and  *)
(* cleared its record: the checks of the active and pid files need nothing   *)
(* but the start lock, however runners end and pids are given anew.          *)
OneRunner ==
  Orderly => Cardinality({p \in Pids : AtWork(p)}) <= 1

(* Between commands the record that the next one checks names the runner     *)
(* that is at work: no runner removes the record of another.                 *)
RunnerIsActive ==
  Quiet /\ cutShort = {} => \A p \in Pids : AtWork(p) => active = [job |-> proc[p].job, pid |-> p]

\* What download-bg-status answers.
Answer(d) ==
  IF pidFile[d] = NoPid THEN "missing"
  ELSE IF Matches(pidFile[d], d) THEN "running"
  ELSE IF status[d] \in {"none", "running"} THEN "exited"
  ELSE status[d]

(* download-bg-status tells what became of a download: that it runs, or how  *)
(* its last runner ended, whoever has its pid now and whichever of starter   *)
(* and runner was the faster to write.                                       *)
AnswerIsTrue ==
  Quiet => \A d \in Downloads \ cutShort :
    Answer(d) = IF \E p \in Pids : Alive(p) /\ proc[p].job = d THEN "running" ELSE ended[d]

(* As long as nothing was killed, a start lock that is there has a command    *)
(* that will still remove it, whatever failed, was interrupted or removed it  *)
(* before: "retry later" is then good advice.                                 *)
StartLockIsHeld ==
  startLock /\ kills = 0 => \E c \in Commands : pc[c] \in Section \cup Traps

-----------------------------------------------------------------------------
(* docs/architecture.md: a workspace has only one background download.  The  *)
(* lock a command removes a second and a third time can be another's, and    *)
(* then two commands start a runner each.                                    *)
OneBackgroundDownload ==
  cuts + kills = 0 => Cardinality({p \in Pids : proc[p].st = "downloading"}) <= 1
=============================================================================
