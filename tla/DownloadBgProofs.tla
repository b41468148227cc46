--------------------------- MODULE DownloadBgProofs ---------------------------
(***************************************************************************)
(* Proofs about DownloadBg, for any sets of commands, downloads and pids,  *)
(* any number of interrupts, kills and foreign processes.                  *)
(***************************************************************************)
EXTENDS DownloadBg, FiniteSetTheorems, TLAPS

USE DEF AtWork, Alive, Section, Traps

\* A runner is of a download and has a result once it has reported; a command
\* knows the pid that it is about to write.
RunnersTyped ==
  /\ \A p \in Pids :
       /\ Alive(p) => proc[p].job \in Downloads
       /\ proc[p].st \in {"reported", "clearing", "ending"} => proc[p].rc \in {"completed", "failed"}
  /\ \A c \in Commands : pc[c] \in {"write_pid", "write_active"} => child[c] \in Pids

\* Unless two have overlapped, one command at most is between mkdir and its release.
SectionIsSingle ==
  ~overlap => \A b, c \in Commands : pc[b] \in Section /\ pc[c] \in Section => b = c

(* Why the check of the active file suffices: from there to Spawn no runner  *)
(* is at work, then only the child of the one start, until it is recorded.   *)
RecordInvariant ==
  Orderly =>
    /\ \A c \in Commands, p \in Pids : AtWork(p) =>
         /\ pc[c] \notin {"check_own", "status", "spawn"}
         /\ pc[c] \in {"write_pid", "write_active"} => p = child[c] /\ proc[p].job = job[c]
    /\ (\A c \in Commands : pc[c] \notin {"write_pid", "write_active"}) =>
         \A p \in Pids : AtWork(p) => active = [job |-> proc[p].job, pid |-> p]

RunnerOf(p, d) == Alive(p) /\ proc[p].job = d
StartingAt(loc, d) == \E c \in Commands : pc[c] = loc /\ job[c] = d

\* How the last runner of d ended is what its status file says of it.
EndIsReported(d) == ended[d] = IF status[d] \in {"none", "running"} THEN "exited" ELSE status[d]

\* The same for the files of one download, which download-bg-status reads.
AnswerAt(d) ==
  /\ \A c \in Commands, p \in Pids : RunnerOf(p, d) /\ job[c] = d =>
       /\ pc[c] \notin {"status", "spawn"}
       /\ pc[c] = "write_pid" => p = child[c]
  /\ ~StartingAt("write_pid", d) => \A p \in Pids : RunnerOf(p, d) => pidFile[d] = p
  /\ \A p \in Pids : RunnerOf(p, d) =>
       status[d] = IF proc[p].st = "downloading" THEN "running" ELSE proc[p].rc
  /\ StartingAt("spawn", d) => status[d] = "running"
  /\ pidFile[d] = NoPid /\ ~StartingAt("write_pid", d) => ended[d] = "missing"
  /\ /\ \A p \in Pids : ~RunnerOf(p, d)
     /\ ~StartingAt("spawn", d)
     /\ pidFile[d] # NoPid \/ StartingAt("write_pid", d)
     => EndIsReported(d)

AnswerInvariant == ~overlap => \A d \in Downloads \ cutShort : AnswerAt(d)

-----------------------------------------------------------------------------
Typed == TypeOK /\ RunnersTyped

LEMMA InitTyped == Init => Typed
<1>1. ASSUME Init PROVE TypeOK
  <2>1. pc \in [Commands -> {"new", "done"} \cup Section \cup Traps]
    BY <1>1 DEF Init
  <2>2. job \in [Commands -> Downloads] /\ child \in [Commands -> Pids \cup {NoPid}]
    BY <1>1 DEF Init
  <2>3. active \in [job : Downloads \cup {NoDownload}, pid : Pids \cup {NoPid}]
    BY <1>1 DEF Init, NoActive
  <2>4. proc \in [Pids -> [st : {"free", "foreign", "downloading", "reported", "clearing", "ending"},
                           job : Downloads \cup {NoDownload}, rc : {"none", "completed", "failed"}]]
    BY <1>1 DEF Init, Unused
  <2>5. QED BY <1>1, <2>1, <2>2, <2>3, <2>4 DEF Init, TypeOK
<1>2. Init => RunnersTyped
  BY DEF Init, RunnersTyped, Unused
<1>3. QED BY <1>1, <1>2 DEF Typed

LEMMA CommandTyped ==
  ASSUME Typed, NEW c \in Commands, Busy(c) \/ TakeLock(c) \/ Step(c) \/ Cut(c) \/ KillCommand(c)
  PROVE  Typed'
<1> USE DEF Typed, TypeOK, RunnersTyped, Goto, command, files, history, bounds
<1>1. CASE Busy(c) \/ TakeLock(c) \/ SetTraps(c)
  BY <1>1 DEF Busy, TakeLock, SetTraps
<1>2. CASE CheckActive(c) \/ CheckOwn(c)
  BY <1>2 DEF CheckActive, CheckOwn
<1>3. CASE WriteStatus(c)
  BY <1>3 DEF WriteStatus
<1>4. CASE Spawn(c)
  <2>1. PICK p \in Pids : proc[p].st = "free"
          /\ proc' = [proc EXCEPT ![p] = [st |-> "downloading", job |-> job[c], rc |-> "none"]]
          /\ child' = [child EXCEPT ![c] = p]
    BY <1>4 DEF Spawn
  <2>2. TypeOK'
    BY <1>4, <2>1 DEF Spawn
  <2>3. RunnersTyped'
    BY <1>4, <2>1 DEF Spawn
  <2>4. QED BY <2>2, <2>3
<1>5. CASE WritePid(c)
  BY <1>5 DEF WritePid
<1>6. CASE WriteActive(c)
  BY <1>6 DEF WriteActive
<1>7. CASE ReleaseAll(c)
  BY <1>7 DEF ReleaseAll, Release
<1>8. CASE Cut(c)
  <2>1. startLock' \in BOOLEAN
    BY <1>8, Zenon DEF Cut
  <2>2. pc' \in [Commands -> {"new", "done"} \cup Section \cup Traps]
    BY <1>8 DEF Cut
  <2>3. UNCHANGED <<job, child, active, pidFile, status, proc, ended, overlap, kills>>
    BY <1>8 DEF Cut
  <2>4. cutShort' \subseteq Downloads /\ cuts' \in Nat
    BY <1>8 DEF Cut, CutShort
  <2>5. TypeOK'
    BY <2>1, <2>2, <2>3, <2>4
  <2>6. RunnersTyped'
    BY <1>8, <2>3 DEF Cut
  <2>7. QED BY <2>5, <2>6
<1>9. CASE KillCommand(c)
  BY <1>9 DEF KillCommand, CutShort
<1>10. QED BY <1>1, <1>2, <1>3, <1>4, <1>5, <1>6, <1>7, <1>8, <1>9 DEF Step

\* A report changes the status of a download and the runner's own record.
LEMMA ReportTyped ==
  ASSUME TypeOK, UNCHANGED <<pc, job, child, startLock, overlap, active, pidFile, ended, cutShort, cuts, kills>>,
         status' \in [Downloads -> {"none", "running", "completed", "failed"}],
         proc' \in [Pids -> [st : {"free", "foreign", "downloading", "reported", "clearing", "ending"},
                            job : Downloads \cup {NoDownload}, rc : {"none", "completed", "failed"}]]
  PROVE  TypeOK'
BY DEF TypeOK

LEMMA RunnerTyped ==
  ASSUME Typed, NEW p \in Pids, Run(p) \/ Recycle(p)
  PROVE  Typed'
<1> USE DEF Typed, TypeOK, RunnersTyped, command, files, history, bounds
<1>1. ASSUME NEW rc \in {"completed", "failed"}, Report(p, rc) PROVE Typed'
  <2>1. /\ proc[p].st = "downloading" /\ proc[p].job \in Downloads
        /\ status' = [status EXCEPT ![proc[p].job] = rc]
        /\ proc' = [proc EXCEPT ![p].st = "reported", ![p].rc = rc]
        /\ UNCHANGED <<command, startLock, active, pidFile, ended, history, bounds>>
    BY <1>1 DEF Report
  <2>2. TypeOK'
    <3>1. status' \in [Downloads -> {"none", "running", "completed", "failed"}]
      BY <2>1
    <3>2. proc' \in [Pids -> [st : {"free", "foreign", "downloading", "reported", "clearing", "ending"},
                             job : Downloads \cup {NoDownload}, rc : {"none", "completed", "failed"}]]
      <4> HIDE DEF Typed, RunnersTyped
      <4>1. proc \in [Pids -> [st : {"free", "foreign", "downloading", "reported", "clearing", "ending"},
                              job : Downloads \cup {NoDownload}, rc : {"none", "completed", "failed"}]]
        BY DEF Typed
      <4> HIDE DEF TypeOK
      <4>2. QED BY <2>1, <4>1
    <3>3. UNCHANGED <<pc, job, child, startLock, overlap, active, pidFile, ended, cutShort, cuts, kills>>
      BY <2>1
    <3> HIDE DEF Typed, TypeOK, RunnersTyped
    <3>4. QED BY <3>1, <3>2, <3>3, ReportTyped DEF Typed
  <2>3. RunnersTyped'
    BY <2>1
  <2>4. QED BY <2>2, <2>3
<1>2. CASE FindActive(p) \/ FindNoActive(p)
  <2>1. PICK st \in {"clearing", "ending"} : proc' = [proc EXCEPT ![p].st = st]
    BY <1>2 DEF FindActive, FindNoActive
  <2>2. proc[p].st = "reported" /\ UNCHANGED <<command, startLock, files, ended, history, bounds>>
    BY <1>2 DEF FindActive, FindNoActive
  <2>3. QED BY <2>1, <2>2
<1>3. CASE ClearActive(p)
  <2>1. active' = NoActive /\ NoActive \in [job : Downloads \cup {NoDownload}, pid : Pids \cup {NoPid}]
    BY <1>3 DEF ClearActive, NoActive
  <2>2. /\ proc[p].st = "clearing" /\ proc' = [proc EXCEPT ![p].st = "ending"]
        /\ UNCHANGED <<command, startLock, pidFile, status, ended, history, bounds>>
    BY <1>3 DEF ClearActive
  <2>3. QED BY <2>1, <2>2
<1>4. CASE ExitRunner(p)
  BY <1>4 DEF ExitRunner, RunnerEnds, Unused
<1>5. CASE KillRunner(p)
  <2>1. proc' = [proc EXCEPT ![p] = Unused] /\ kills' \in Nat
        /\ UNCHANGED <<command, startLock, files, history, cuts>>
    BY <1>5 DEF KillRunner, RunnerEnds
  <2>2. ended' \in [Downloads -> {"missing", "completed", "failed", "exited"}]
    BY <1>5 DEF KillRunner, RunnerEnds
  <2>3. TypeOK'
    BY <2>1, <2>2 DEF Unused
  <2>4. RunnersTyped'
    BY <2>1 DEF Unused
  <2>5. QED BY <2>3, <2>4
<1>6. CASE Recycle(p)
  <2>1. PICK st \in {"free", "foreign"} : proc' = [proc EXCEPT ![p].st = st] /\ ~Alive(p)
    BY <1>6 DEF Recycle
  <2>2. UNCHANGED <<command, startLock, files, ended, history, bounds>>
    BY <1>6 DEF Recycle
  <2>3. QED BY <2>1, <2>2
<1>7. QED BY <1>1, <1>2, <1>3, <1>4, <1>5, <1>6 DEF Run

LEMMA TypedStep ==
  ASSUME Typed, [Next]_vars
  PROVE  Typed'
<1>1. CASE UNCHANGED vars
  BY <1>1 DEF vars, command, files, history, bounds, Typed, TypeOK, RunnersTyped
<1>2. CASE Next
  BY <1>2, CommandTyped, RunnerTyped DEF Next
<1>3. QED BY <1>1, <1>2

(* Every step of commands, runners and pids keeps the types, and that a      *)
(* runner has a download and, once it has reported, a result.                *)
THEOREM TypeCorrect == Spec => [](TypeOK /\ RunnersTyped)
<1> USE DEF Typed
<1>1. QED BY InitTyped, TypedStep, PTL DEF Spec

-----------------------------------------------------------------------------
\* The only way into the section is TakeLock, which notes who is in it.
LEMMA SectionStep ==
  ASSUME Typed, SectionIsSingle, [Next]_vars
  PROVE  SectionIsSingle'
<1> USE DEF Typed, TypeOK, Goto, command, files, history, bounds
<1>1. ASSUME UNCHANGED <<pc, overlap>> PROVE SectionIsSingle'
  BY <1>1 DEF SectionIsSingle
<1>2. ASSUME NEW c \in Commands, NEW loc, pc[c] \in Section \/ loc \notin Section,
             pc' = [pc EXCEPT ![c] = loc], overlap' = overlap
      PROVE  SectionIsSingle'
  BY <1>2 DEF SectionIsSingle
<1>3. ASSUME NEW c \in Commands, TakeLock(c) PROVE SectionIsSingle'
  <2>1. \A b \in Commands \ {c} : pc'[b] = pc[b]
    BY <1>3 DEF TakeLock
  <2>2. ~overlap' => \A b \in Commands : pc[b] \notin Section
    BY <1>3 DEF TakeLock
  <2>3. QED BY <2>1, <2>2 DEF SectionIsSingle
<1>4. ASSUME NEW c \in Commands, Busy(c) \/ Step(c) \/ Cut(c) \/ KillCommand(c)
      PROVE  SectionIsSingle'
  <2>1. CASE Busy(c)
    BY <2>1, <1>2 DEF Busy
  <2>2. CASE SetTraps(c) \/ CheckActive(c) \/ CheckOwn(c)
    BY <2>2, <1>2 DEF SetTraps, CheckActive, CheckOwn
  <2>3. CASE WriteStatus(c) \/ Spawn(c) \/ WritePid(c) \/ WriteActive(c)
    BY <2>3, <1>2 DEF WriteStatus, Spawn, WritePid, WriteActive
  <2>4. CASE ReleaseAll(c)
    BY <2>4, <1>2 DEF ReleaseAll, Release
  <2>5. CASE Cut(c) \/ KillCommand(c)
    BY <2>5, <1>2 DEF Cut, KillCommand
  <2>6. QED BY <1>4, <2>1, <2>2, <2>3, <2>4, <2>5 DEF Step
<1>5. ASSUME NEW p \in Pids, Run(p) \/ Recycle(p) PROVE SectionIsSingle'
  <2>1. UNCHANGED <<pc, overlap>>
    BY <1>5 DEF Run, Report, FindActive, FindNoActive, ClearActive, ExitRunner, KillRunner, Recycle
  <2>2. QED BY <2>1, <1>1
<1>6. CASE UNCHANGED vars
  BY <1>6, <1>1 DEF vars
<1>7. QED BY <1>3, <1>4, <1>5, <1>6 DEF Next

-----------------------------------------------------------------------------
\* What RecordInvariant is for: two that are at work are one.
LEMMA AtWorkIsSingle ==
  ASSUME Typed, SectionIsSingle, RecordInvariant, Orderly,
         NEW p \in Pids, NEW q \in Pids, AtWork(p), AtWork(q)
  PROVE  p = q
<1>1. CASE \E c \in Commands : pc[c] \in {"write_pid", "write_active"}
  BY <1>1 DEF RecordInvariant
<1>2. CASE \A c \in Commands : pc[c] \notin {"write_pid", "write_active"}
  <2>1. active = [job |-> proc[p].job, pid |-> p] /\ active = [job |-> proc[q].job, pid |-> q]
    BY <1>2 DEF RecordInvariant
  <2>2. QED BY <2>1
<1>3. QED BY <1>1, <1>2

\* A step of a command that neither starts a runner nor records it.
LEMMA RecordPlainStep ==
  ASSUME Typed, RecordInvariant, UNCHANGED <<job, child, active, proc>>, Orderly' => Orderly,
         NEW c \in Commands, NEW loc, pc' = [pc EXCEPT ![c] = loc],
         loc \notin {"check_own", "status", "spawn", "write_pid", "write_active"},
         Orderly' => pc[c] \notin {"write_pid", "write_active"}
  PROVE  RecordInvariant'
BY DEF RecordInvariant, Typed, TypeOK

\* The same for the runners' steps that leave none newly at work.
LEMMA RecordRunnerStep ==
  ASSUME Typed, RecordInvariant, UNCHANGED <<command, active, history>>,
         \A q \in Pids : AtWork(q)' => AtWork(q) /\ proc'[q].job = proc[q].job
  PROVE  RecordInvariant'
BY DEF RecordInvariant, Orderly, command, history

LEMMA RecordCommand ==
  ASSUME Typed, SectionIsSingle, RecordInvariant, NEW c \in Commands,
         Busy(c) \/ TakeLock(c) \/ Step(c) \/ Cut(c) \/ KillCommand(c)
  PROVE  RecordInvariant'
<1> USE DEF Goto, command, files, history, bounds
<1>1. Orderly' => Orderly
  BY DEF Busy, TakeLock, Step, SetTraps, CheckActive, CheckOwn, WriteStatus, Spawn, WritePid,
     WriteActive, ReleaseAll, Release, Cut, KillCommand, CutShort, Orderly, Typed, TypeOK
<1>2. Orderly /\ pc[c] \in Section => \A b \in Commands \ {c} : pc[b] \notin Section
  BY DEF SectionIsSingle, Orderly
<1>3. CASE Busy(c) \/ TakeLock(c) \/ SetTraps(c)
  BY <1>1, <1>3, RecordPlainStep DEF Busy, TakeLock, SetTraps
<1>4. CASE CheckActive(c)
  <2>1. CASE Matches(active.pid, active.job)
    BY <1>1, <1>4, <2>1, RecordPlainStep DEF CheckActive
  <2>2. CASE ~Matches(active.pid, active.job)
    <3>1. Orderly => \A p \in Pids : AtWork(p) => active = [job |-> proc[p].job, pid |-> p]
      BY <1>2, <1>4 DEF CheckActive, RecordInvariant
    <3>2. Orderly => \A p \in Pids : ~AtWork(p)
      BY <2>2, <3>1, DownloadAssumption DEF Matches
    <3>3. QED BY <1>1, <1>4, <2>2, <3>2 DEF CheckActive, RecordInvariant
  <2>3. QED BY <2>1, <2>2
<1>5. CASE CheckOwn(c)
  BY <1>1, <1>5 DEF CheckOwn, RecordInvariant, Typed, TypeOK
<1>6. CASE WriteStatus(c)
  BY <1>1, <1>6 DEF WriteStatus, RecordInvariant, Typed, TypeOK
<1>7. CASE Spawn(c)
  <2>1. PICK p \in Pids :
          /\ proc' = [proc EXCEPT ![p] = [st |-> "downloading", job |-> job[c], rc |-> "none"]]
          /\ child' = [child EXCEPT ![c] = p]
    BY <1>7 DEF Spawn
  <2>2. pc[c] = "spawn" /\ pc' = [pc EXCEPT ![c] = "write_pid"] /\ UNCHANGED <<job, active, history>>
    BY <1>7 DEF Spawn
  <2>3. Orderly => \A q \in Pids : AtWork(q)' => q = p /\ proc'[p].job = job[c]
    BY <2>1, <2>2 DEF RecordInvariant, Typed, TypeOK
  <2>4. pc'[c] = "write_pid" /\ child'[c] = p
    BY <2>1, <2>2 DEF Typed, TypeOK
  <2>5. Orderly => \A b \in Commands \ {c} : pc'[b] \notin Section
    BY <1>2, <2>2 DEF Typed, TypeOK
  <2>6. Orderly' => Orderly
    BY <2>2 DEF Orderly
  <2>7. QED BY <2>2, <2>3, <2>4, <2>5, <2>6 DEF RecordInvariant
<1>8. CASE WritePid(c)
  BY <1>1, <1>8 DEF WritePid, RecordInvariant, Typed, TypeOK
<1>9. CASE WriteActive(c)
  <2>1. Orderly => \A p \in Pids : AtWork(p) => p = child[c] /\ proc[p].job = job[c]
    BY <1>9 DEF WriteActive, RecordInvariant
  <2>2. Orderly => \A p \in Pids : AtWork(p) => active' = [job |-> proc[p].job, pid |-> p]
    BY <1>9, <2>1 DEF WriteActive
  <2>3. \A b \in Commands : Orderly => pc'[b] \notin {"check_own", "status", "spawn", "write_pid", "write_active"}
    BY <1>2, <1>9 DEF WriteActive, Typed, TypeOK
  <2>4. QED BY <1>1, <1>9, <2>2, <2>3 DEF WriteActive, RecordInvariant
<1>10. CASE ReleaseAll(c)
  BY <1>1, <1>10, RecordPlainStep DEF ReleaseAll, Release
<1>11. CASE Cut(c) \/ KillCommand(c)
  <2>1. Orderly' => pc[c] \notin {"write_pid", "write_active"}
    BY <1>11 DEF Cut, KillCommand, CutShort, Orderly, Typed, TypeOK
  <2>2. QED BY <1>1, <1>11, <2>1, RecordPlainStep DEF Cut, KillCommand
<1>12. QED
  BY <1>3, <1>4, <1>5, <1>6, <1>7, <1>8, <1>9, <1>10, <1>11 DEF Step

LEMMA RecordRunner ==
  ASSUME Typed, SectionIsSingle, RecordInvariant, NEW p \in Pids, Run(p) \/ Recycle(p)
  PROVE  RecordInvariant'
<1> USE DEF command, files, history, bounds
<1>1. CASE ClearActive(p)
  <2>1. UNCHANGED <<command, history>>
    BY <1>1 DEF ClearActive
  <2>2. Orderly => \A q \in Pids : AtWork(q) => q = p
    BY <1>1, AtWorkIsSingle DEF ClearActive
  <2>3. \A q \in Pids : AtWork(q)' => AtWork(q) /\ q # p
    BY <1>1 DEF ClearActive, Typed, TypeOK
  <2>4. QED BY <2>1, <2>2, <2>3 DEF RecordInvariant, Orderly
<1>2. ASSUME NEW rc \in {"completed", "failed"}, Report(p, rc) PROVE RecordInvariant'
  BY <1>2, RecordRunnerStep DEF Report, Typed, TypeOK
<1>3. CASE FindActive(p) \/ FindNoActive(p)
  BY <1>3, RecordRunnerStep DEF FindActive, FindNoActive, Typed, TypeOK
<1>4. CASE ExitRunner(p) \/ KillRunner(p)
  <2>1. proc' = [proc EXCEPT ![p] = Unused] /\ UNCHANGED <<command, active, history>>
    BY <1>4 DEF ExitRunner, KillRunner, RunnerEnds
  <2>2. \A q \in Pids : AtWork(q)' => AtWork(q) /\ proc'[q].job = proc[q].job
    BY <2>1 DEF Unused, Typed, TypeOK
  <2>3. QED BY <2>1, <2>2, RecordRunnerStep
<1>5. CASE Recycle(p)
  BY <1>5, RecordRunnerStep DEF Recycle, Typed, TypeOK
<1>6. QED BY <1>1, <1>2, <1>3, <1>4, <1>5 DEF Run

LEMMA InitRecord == Init => SectionIsSingle /\ RecordInvariant
BY DEF Init, Unused, SectionIsSingle, RecordInvariant

(* The section is one command's and the record is as the checks rely on.     *)
THEOREM RecordIsKept == Spec => [](SectionIsSingle /\ RecordInvariant)
<1> DEFINE Inv == Typed /\ SectionIsSingle /\ RecordInvariant
<1>1. Init => Inv
  BY InitTyped, InitRecord
<1>2. ASSUME Inv, [Next]_vars PROVE Inv'
  <2>1. Typed'
    BY <1>2, TypedStep
  <2>2. SectionIsSingle'
    BY <1>2, SectionStep
  <2>3. CASE Next
    BY <1>2, <2>1, <2>2, <2>3, RecordCommand, RecordRunner DEF Next
  <2>4. CASE UNCHANGED vars
    BY <1>2, <2>1, <2>2, <2>4 DEF RecordInvariant, Orderly, vars, command, files, history
  <2>5. QED BY <1>2, <2>3, <2>4
<1>3. QED BY <1>1, <1>2, PTL DEF Spec

(* At most one runner is at work, so long as starts neither overlapped nor   *)
(* were cut short: two would both be the child of the one start, or both be  *)
(* what the active file says.                                                *)
THEOREM AtMostOneRunner == Spec => []OneRunner
<1>1. ASSUME Typed, SectionIsSingle, RecordInvariant PROVE OneRunner
  <2> SUFFICES ASSUME Orderly PROVE Cardinality({p \in Pids : AtWork(p)}) <= 1
    BY DEF OneRunner
  <2>1. CASE {p \in Pids : AtWork(p)} = {}
    BY <2>1, FS_EmptySet
  <2>2. ASSUME NEW p \in Pids, AtWork(p) PROVE Cardinality({q \in Pids : AtWork(q)}) <= 1
    <3>1. {q \in Pids : AtWork(q)} = {p}
      BY <1>1, <2>2, AtWorkIsSingle
    <3>2. Cardinality({p}) = 1
      BY FS_Singleton
    <3>3. QED BY <3>1, <3>2
  <2>3. QED BY <2>1, <2>2
<1>2. QED BY TypeCorrect, RecordIsKept, <1>1, PTL DEF Typed

(* Between commands the active file names the runner at work: the second     *)
(* half of RecordInvariant.                                                  *)
THEOREM ActiveIsRunner == Spec => []RunnerIsActive
<1>1. RecordInvariant => RunnerIsActive
  BY DEF RecordInvariant, RunnerIsActive, Quiet, Orderly
<1>2. QED BY RecordIsKept, <1>1, PTL

-----------------------------------------------------------------------------
\* What concerns d is as before, or a command passes by the steps that matter.
AnswerKept(d) ==
  /\ pidFile'[d] = pidFile[d] /\ status'[d] = status[d] /\ ended'[d] = ended[d] /\ job' = job
  /\ \A p \in Pids : /\ RunnerOf(p, d)' <=> RunnerOf(p, d)
                     /\ RunnerOf(p, d) => /\ proc'[p].st = "downloading" <=> proc[p].st = "downloading"
                                          /\ proc'[p].rc = proc[p].rc
  /\ \A b \in Commands : job[b] = d =>
       /\ child'[b] = child[b]
       /\ \/ pc'[b] = pc[b]
          \/ pc[b] \notin {"spawn", "write_pid"} /\ pc'[b] \notin {"status", "spawn", "write_pid"}

LEMMA AnswerKeptStep ==
  ASSUME NEW d \in Downloads, AnswerAt(d), AnswerKept(d)
  PROVE  AnswerAt(d)'
<1>1. StartingAt("write_pid", d)' <=> StartingAt("write_pid", d)
  BY DEF AnswerKept, StartingAt
<1>2. StartingAt("spawn", d)' <=> StartingAt("spawn", d)
  BY DEF AnswerKept, StartingAt
<1>3. EndIsReported(d)' <=> EndIsReported(d)
  BY DEF AnswerKept, EndIsReported
<1>4. (\A c \in Commands, p \in Pids : RunnerOf(p, d) /\ job[c] = d =>
         /\ pc[c] \notin {"status", "spawn"}
         /\ pc[c] = "write_pid" => p = child[c])'
  <2> SUFFICES ASSUME NEW c \in Commands, NEW p \in Pids, RunnerOf(p, d)', job'[c] = d
               PROVE  /\ pc'[c] \notin {"status", "spawn"}
                      /\ pc'[c] = "write_pid" => p = child'[c]
    OBVIOUS
  <2>1. RunnerOf(p, d) /\ job[c] = d
    BY DEF AnswerKept
  <2>2. QED BY <2>1 DEF AnswerAt, AnswerKept
<1>5. QED BY <1>1, <1>2, <1>3, <1>4 DEF AnswerAt, AnswerKept

\* A download has one runner.
LEMMA RunnerIsSingle ==
  ASSUME NEW d \in Downloads, AnswerAt(d), NEW p \in Pids, NEW q \in Pids, RunnerOf(p, d), RunnerOf(q, d)
  PROVE  p = q
BY DEF AnswerAt, StartingAt

LEMMA AnswerCommand ==
  ASSUME Typed, SectionIsSingle, ~overlap, NEW d \in Downloads, d \notin cutShort', AnswerAt(d),
         NEW c \in Commands, Busy(c) \/ TakeLock(c) \/ Step(c) \/ Cut(c) \/ KillCommand(c)
  PROVE  AnswerAt(d)'
<1> USE DEF Goto, command, files, history, bounds
<1>1. pc[c] \in Section => \A b \in Commands \ {c} : pc[b] \notin Section
  BY DEF SectionIsSingle
<1>2. ASSUME NEW loc, pc' = [pc EXCEPT ![c] = loc], UNCHANGED <<job, child, pidFile, status, proc, ended>>,
             job[c] = d => pc[c] \notin {"spawn", "write_pid"} /\ loc \notin {"status", "spawn", "write_pid"}
      PROVE  AnswerAt(d)'
  <2>1. AnswerKept(d)
    BY <1>2 DEF AnswerKept, RunnerOf, Typed, TypeOK
  <2>2. QED BY <2>1, AnswerKeptStep
<1>3. CASE Busy(c) \/ TakeLock(c) \/ SetTraps(c) \/ CheckActive(c) \/ WriteActive(c) \/ ReleaseAll(c)
  BY <1>2, <1>3 DEF Busy, TakeLock, SetTraps, CheckActive, WriteActive, ReleaseAll, Release
<1>4. CASE Cut(c) \/ KillCommand(c)
  <2>1. job[c] = d => pc[c] \notin {"spawn", "write_pid"}
    BY <1>4 DEF Cut, KillCommand, CutShort
  <2>2. QED BY <1>2, <1>4, <2>1 DEF Cut, KillCommand
<1>5. CASE CheckOwn(c)
  <2>1. CASE job[c] # d \/ Matches(pidFile[job[c]], job[c])
    BY <1>2, <1>5, <2>1 DEF CheckOwn
  <2>2. CASE job[c] = d /\ ~Matches(pidFile[d], d)
    <3>1. ~StartingAt("write_pid", d) /\ ~StartingAt("spawn", d)
      BY <1>1, <1>5 DEF CheckOwn, StartingAt
    <3>2. \A p \in Pids : ~RunnerOf(p, d)
      BY <2>2, <3>1, DownloadAssumption DEF AnswerAt, RunnerOf, Matches
    <3>3. ~StartingAt("write_pid", d)' /\ ~StartingAt("spawn", d)'
      BY <1>5, <2>2, <3>1 DEF CheckOwn, StartingAt, Typed, TypeOK
    <3>4. \A p \in Pids : ~RunnerOf(p, d)'
      BY <1>5, <3>2 DEF CheckOwn, RunnerOf
    <3>5. QED BY <1>5, <3>1, <3>2, <3>3, <3>4 DEF CheckOwn, AnswerAt, EndIsReported
  <2>3. QED BY <2>1, <2>2
<1>6. CASE WriteStatus(c) /\ job[c] # d
  <2>1. status'[d] = status[d]
    BY <1>6 DEF WriteStatus, Typed, TypeOK
  <2>2. AnswerKept(d)
    BY <1>6, <2>1 DEF WriteStatus, AnswerKept, RunnerOf, Typed, TypeOK
  <2>3. QED BY <2>2, AnswerKeptStep
<1>7. CASE WriteStatus(c) /\ job[c] = d
  <2>1. \A p \in Pids : ~RunnerOf(p, d)
    BY <1>7 DEF WriteStatus, AnswerAt
  <2>2. \A p \in Pids : ~RunnerOf(p, d)'
    BY <1>7, <2>1 DEF WriteStatus, RunnerOf
  <2>3. status'[d] = "running"
    BY <1>7 DEF WriteStatus, Typed, TypeOK
  <2>4. ~StartingAt("write_pid", d) /\ StartingAt("spawn", d)'
    BY <1>1, <1>7 DEF WriteStatus, StartingAt, Typed, TypeOK
  <2>5. QED BY <1>7, <2>2, <2>3, <2>4 DEF WriteStatus, AnswerAt
<1>8. CASE Spawn(c)
  <2>1. PICK p \in Pids :
          /\ proc[p].st = "free"
          /\ proc' = [proc EXCEPT ![p] = [st |-> "downloading", job |-> job[c], rc |-> "none"]]
          /\ child' = [child EXCEPT ![c] = p]
    BY <1>8 DEF Spawn
  <2>2. pc[c] = "spawn" /\ pc' = [pc EXCEPT ![c] = "write_pid"] /\ UNCHANGED <<job, files, ended>>
    BY <1>8 DEF Spawn
  <2>3. CASE job[c] # d
    <3>1. AnswerKept(d)
      BY <2>1, <2>2, <2>3 DEF AnswerKept, RunnerOf, Typed, TypeOK
    <3>2. QED BY <3>1, AnswerKeptStep
  <2>4. CASE job[c] = d
    <3>1. \A q \in Pids : RunnerOf(q, d)' <=> q = p
      BY <2>1, <2>2, <2>4 DEF AnswerAt, RunnerOf, Typed, TypeOK
    <3>2. status[d] = "running"
      BY <2>2, <2>4 DEF AnswerAt, StartingAt
    <3>3. ~StartingAt("spawn", d)' /\ StartingAt("write_pid", d)'
      BY <1>1, <2>2, <2>4 DEF StartingAt, Typed, TypeOK
    <3>4. proc'[p].st = "downloading" /\ child'[c] = p /\ pc'[c] = "write_pid"
      BY <2>1, <2>2 DEF Typed, TypeOK
    <3>5. \A b \in Commands : b # c => pc'[b] \notin Section
      BY <1>1, <2>2 DEF Typed, TypeOK
    <3>6. QED BY <2>2, <3>1, <3>2, <3>3, <3>4, <3>5 DEF AnswerAt
  <2>5. QED BY <2>3, <2>4
<1>9. CASE WritePid(c) /\ job[c] # d
  <2>1. pidFile'[d] = pidFile[d]
    BY <1>9 DEF WritePid, Typed, TypeOK
  <2>2. AnswerKept(d)
    BY <1>9, <2>1 DEF WritePid, AnswerKept, RunnerOf, Typed, TypeOK
  <2>3. QED BY <2>2, AnswerKeptStep
<1>10. CASE WritePid(c) /\ job[c] = d
  <2>1. pidFile'[d] = child[c] /\ child[c] \in Pids
    BY <1>10 DEF WritePid, Typed, TypeOK, RunnersTyped
  <2>2. \A p \in Pids : RunnerOf(p, d)' <=> RunnerOf(p, d)
    BY <1>10 DEF WritePid, RunnerOf
  <2>3. \A p \in Pids : RunnerOf(p, d) => p = child[c]
    BY <1>10 DEF WritePid, AnswerAt
  <2>4. StartingAt("write_pid", d) /\ ~StartingAt("spawn", d) /\ ~StartingAt("spawn", d)'
    BY <1>1, <1>10 DEF WritePid, StartingAt, Typed, TypeOK
  <2>5. \A b \in Commands : pc'[b] \notin {"status", "spawn", "write_pid"}
    BY <1>1, <1>10 DEF WritePid, Typed, TypeOK
  <2>6. EndIsReported(d)' <=> EndIsReported(d)
    BY <1>10 DEF WritePid, EndIsReported
  <2>7. QED
    BY <1>10, <2>1, <2>2, <2>3, <2>4, <2>5, <2>6, DownloadAssumption DEF WritePid, AnswerAt
<1>11. QED
  BY <1>3, <1>4, <1>5, <1>6, <1>7, <1>8, <1>9, <1>10 DEF Step

LEMMA AnswerRunner ==
  ASSUME Typed, NEW d \in Downloads, AnswerAt(d), NEW p \in Pids, Run(p) \/ Recycle(p)
  PROVE  AnswerAt(d)'
<1> USE DEF command, files, history, bounds
<1>1. CASE Recycle(p) \/ FindActive(p) \/ FindNoActive(p) \/ ClearActive(p)
  <2>1. AnswerKept(d)
    BY <1>1 DEF Recycle, FindActive, FindNoActive, ClearActive, AnswerKept, RunnerOf, Typed, TypeOK
  <2>2. QED BY <2>1, AnswerKeptStep
<1>2. ASSUME NEW rc \in {"completed", "failed"}, Report(p, rc) PROVE AnswerAt(d)'
  <2>1. CASE proc[p].job # d
    <3>1. AnswerKept(d)
      BY <1>2, <2>1 DEF Report, AnswerKept, RunnerOf, Typed, TypeOK
    <3>2. QED BY <3>1, AnswerKeptStep
  <2>2. CASE proc[p].job = d
    <3>1. RunnerOf(p, d) /\ \A q \in Pids : RunnerOf(q, d) => q = p
      BY <1>2, <2>2, RunnerIsSingle DEF Report, RunnerOf
    <3>2. \A q \in Pids : RunnerOf(q, d)' <=> q = p
      BY <1>2, <2>2, <3>1 DEF Report, RunnerOf, Typed, TypeOK
    <3>3. proc'[p].st = "reported" /\ proc'[p].rc = rc /\ status'[d] = rc
      BY <1>2, <2>2 DEF Report, Typed, TypeOK
    <3>4. ~StartingAt("spawn", d) /\ UNCHANGED <<StartingAt("spawn", d), StartingAt("write_pid", d)>>
      BY <1>2, <3>1 DEF AnswerAt, StartingAt, Report
    <3>5. QED BY <1>2, <3>1, <3>2, <3>3, <3>4 DEF Report, AnswerAt
  <2>3. QED BY <2>1, <2>2
<1>3. ASSUME ExitRunner(p) \/ KillRunner(p) PROVE AnswerAt(d)'
  <2>1. /\ Alive(p) /\ proc' = [proc EXCEPT ![p] = Unused] /\ UNCHANGED <<command, files>>
        /\ ended' = [ended EXCEPT ![proc[p].job] =
                       IF proc[p].st = "downloading" THEN "exited" ELSE proc[p].rc]
    BY <1>3 DEF ExitRunner, KillRunner, RunnerEnds
  <2>2. CASE proc[p].job # d
    <3>1. AnswerKept(d)
      BY <2>1, <2>2 DEF AnswerKept, RunnerOf, Unused, Typed, TypeOK
    <3>2. QED BY <3>1, AnswerKeptStep
  <2>3. CASE proc[p].job = d
    <3>1. RunnerOf(p, d) /\ \A q \in Pids : RunnerOf(q, d) => q = p
      BY <2>1, <2>3, RunnerIsSingle DEF RunnerOf
    <3>2. \A q \in Pids : ~RunnerOf(q, d)'
      BY <2>1, <3>1 DEF RunnerOf, Unused, Typed, TypeOK
    <3>3. ~StartingAt("spawn", d) /\ UNCHANGED <<StartingAt("spawn", d), StartingAt("write_pid", d)>>
      BY <2>1, <3>1 DEF AnswerAt, StartingAt
    <3>4. status[d] = IF proc[p].st = "downloading" THEN "running" ELSE proc[p].rc
      BY <3>1 DEF AnswerAt
    <3>5. ended'[d] = IF proc[p].st = "downloading" THEN "exited" ELSE proc[p].rc
      BY <2>1, <2>3 DEF Typed, TypeOK
    <3>6. proc[p].st # "downloading" => proc[p].rc \in {"completed", "failed"}
      BY <2>1 DEF Typed, RunnersTyped
    <3>7. EndIsReported(d)'
      BY <2>1, <3>4, <3>5, <3>6 DEF EndIsReported
    <3>8. ~StartingAt("write_pid", d) => pidFile[d] = p
      BY <3>1 DEF AnswerAt
    <3>9. QED BY <2>1, <3>2, <3>3, <3>7, <3>8, DownloadAssumption DEF AnswerAt
  <2>4. QED BY <2>2, <2>3
<1>4. QED BY <1>1, <1>2, <1>3 DEF Run

\* What the steps do to the two histories that the invariants depend on.
LEMMA HistoryGrows ==
  ASSUME Typed, [Next]_vars
  PROVE  /\ overlap => overlap'
         /\ cutShort \subseteq cutShort'
<1> USE DEF history, bounds
<1>1. ASSUME NEW c \in Commands, Busy(c) \/ TakeLock(c) \/ Step(c) \/ Cut(c) \/ KillCommand(c)
      PROVE  (overlap => overlap') /\ cutShort \subseteq cutShort'
  BY <1>1 DEF Busy, TakeLock, Step, SetTraps, CheckActive, CheckOwn, WriteStatus, Spawn, WritePid,
     WriteActive, ReleaseAll, Release, Cut, KillCommand, CutShort, Typed, TypeOK
<1>2. ASSUME NEW p \in Pids, Run(p) \/ Recycle(p) PROVE UNCHANGED history
  BY <1>2 DEF Run, Report, FindActive, FindNoActive, ClearActive, ExitRunner, KillRunner, Recycle
<1>3. QED BY <1>1, <1>2 DEF Next, vars

LEMMA AnswerStep ==
  ASSUME Typed, SectionIsSingle, AnswerInvariant, [Next]_vars
  PROVE  AnswerInvariant'
<1> SUFFICES ASSUME ~overlap', NEW d \in Downloads, d \notin cutShort' PROVE AnswerAt(d)'
  BY DEF AnswerInvariant
<1>1. ~overlap /\ d \notin cutShort
  BY HistoryGrows
<1>2. AnswerAt(d)
  BY <1>1 DEF AnswerInvariant
<1>3. CASE UNCHANGED vars
  <2>1. AnswerKept(d)
    BY <1>3 DEF AnswerKept, RunnerOf, vars, command, files
  <2>2. QED BY <1>2, <2>1, AnswerKeptStep
<1>4. CASE Next
  BY <1>1, <1>2, <1>4, AnswerCommand, AnswerRunner DEF Next
<1>5. QED BY <1>3, <1>4

(* download-bg-status is right about every download whose start was not cut  *)
(* short: from AnswerInvariant, which says what the files of a download show *)
(* at every step of its starter and of its runner.                           *)
THEOREM StatusTellsTruth == Spec => []AnswerIsTrue
<1>1. Init => AnswerInvariant
  BY DownloadAssumption DEF Init, Unused, AnswerInvariant, AnswerAt, StartingAt, RunnerOf
<1>2. ASSUME Typed, AnswerInvariant PROVE AnswerIsTrue
  <2> SUFFICES ASSUME Quiet, NEW d \in Downloads, d \notin cutShort
               PROVE  Answer(d) = IF \E p \in Pids : RunnerOf(p, d) THEN "running" ELSE ended[d]
    BY DEF AnswerIsTrue, RunnerOf
  <2>1. AnswerAt(d) /\ ~StartingAt("write_pid", d) /\ ~StartingAt("spawn", d)
    BY <1>2 DEF AnswerInvariant, Quiet, StartingAt
  <2>2. pidFile[d] \in Pids \cup {NoPid}
    BY <1>2 DEF Typed, TypeOK
  <2>3. CASE pidFile[d] = NoPid
    BY <2>1, <2>3, DownloadAssumption DEF AnswerAt, Answer
  <2>4. CASE pidFile[d] # NoPid /\ Matches(pidFile[d], d)
    BY <2>2, <2>4 DEF Answer, Matches, RunnerOf
  <2>5. CASE pidFile[d] # NoPid /\ ~Matches(pidFile[d], d)
    <3>1. \A p \in Pids : ~RunnerOf(p, d)
      BY <2>1, <2>5 DEF AnswerAt, Matches, RunnerOf
    <3>2. EndIsReported(d)
      BY <2>1, <2>5, <3>1 DEF AnswerAt
    <3>3. QED BY <2>5, <3>1, <3>2 DEF Answer, EndIsReported
  <2>6. QED BY <2>3, <2>4, <2>5
<1>3. QED BY <1>1, <1>2, AnswerStep, TypeCorrect, RecordIsKept, PTL DEF Spec, Typed

-----------------------------------------------------------------------------
(* Inductive by itself: TakeLock leaves its command in the section, a removal *)
(* leaves no lock, Cut leaves the EXIT trap to run, and a kill ends the claim. *)
THEOREM StartLockHasHolder == Spec => []StartLockIsHeld
<1> USE DEF StartLockIsHeld, Goto, command, files, history, bounds
<1>1. Init => StartLockIsHeld
  BY DEF Init
<1>2. ASSUME Typed, StartLockIsHeld, [Next]_vars PROVE StartLockIsHeld'
  <2>1. CASE UNCHANGED <<pc, startLock, kills>>
    BY <1>2, <2>1
  <2>2. ASSUME NEW c \in Commands, Busy(c) \/ TakeLock(c) PROVE StartLockIsHeld'
    BY <1>2, <2>2 DEF Busy, TakeLock, Typed, TypeOK
  <2>3. ASSUME NEW c \in Commands, ReleaseAll(c) PROVE StartLockIsHeld'
    BY <2>3 DEF ReleaseAll, Release
  <2>4. ASSUME NEW c \in Commands, Step(c), ~ReleaseAll(c) PROVE StartLockIsHeld'
    BY <1>2, <2>4 DEF Step, SetTraps, CheckActive, CheckOwn, WriteStatus, Spawn, WritePid, WriteActive,
       Typed, TypeOK
  <2>5. ASSUME NEW c \in Commands, Cut(c) PROVE StartLockIsHeld'
    BY <1>2, <2>5 DEF Cut, Typed, TypeOK
  <2>6. ASSUME kills' = kills + 1 PROVE StartLockIsHeld'
    BY <1>2, <2>6 DEF Typed, TypeOK
  <2>7. ASSUME NEW p \in Pids, Run(p) \/ Recycle(p) PROVE StartLockIsHeld'
    BY <2>1, <2>6, <2>7 DEF Run, Report, FindActive, FindNoActive, ClearActive, ExitRunner, KillRunner, Recycle
  <2>8. QED
    BY <1>2, <2>1, <2>2, <2>3, <2>4, <2>5, <2>6, <2>7 DEF Next, KillCommand, vars
<1>3. QED BY <1>1, <1>2, TypeCorrect, PTL DEF Spec, Typed

=============================================================================
