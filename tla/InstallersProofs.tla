--------------------------- MODULE InstallersProofs ---------------------------
(***************************************************************************)
(* Proofs about the installing commands: for any sets of commands, names,  *)
(* refs, commits and plugins and any number of failed steps and kills.     *)
(***************************************************************************)
EXTENDS Installers, SequenceTheorems, TLAPS

StageLocs == {"stage_extract", "stage_venv", "stage_register"}

\* The lock is held from TakeLock to End, but not between two plugins.
LockInvariant == \A c \in Commands : pc[c] \notin {"idle", "install"} => lock = c

\* A name is no registered runtime's before Register, and its parts are copied in order.
RuntimeAt(c) ==
  /\ pc[c] \in RuntimeLocs => work[c] \notin registry
  /\ pc[c] \in {"import_venv", "stage_venv"} => tree[work[c]]["comfy"] = "whole"
  /\ pc[c] \in {"import_register", "stage_register"} => tree[work[c]] = Everything

\* A version's directory is there, or not, as fetch_version has seen it.
VersionAt(c) ==
  /\ At(c, "fetch_extract") => version[Id(c)] = NoCommit
  /\ pc[c] \in {"fetch_meta", "fetch_write"} => version[Id(c)] = Commit(c)

\* What the commands know while they hold the lock.
ListedInvariant ==
  /\ \A c \in Commands : RuntimeAt(c) /\ VersionAt(c)
  /\ RegisteredIsWhole /\ MetaIsItsCommit

\* Plugins are changed while ComfyUI does not run.
QuietInvariant == \A c \in Commands : pc[c] \in {"clone", "checkout", "update"} => ~running

\* Who still clears up what is neither registered, described nor pinned.
TreesLeft ==
  \A n \in Names : Exists(n) /\ n \notin registry =>
    n \in left \/ \E c \in Commands : pc[c] \in RuntimeLocs /\ work[c] = n
StagingLeft ==
  \A n \in staging : n \in left \/ \E c \in Commands : pc[c] \in StageLocs /\ work[c] = n
ScratchLeft ==
  \A r \in scratch : r \in left \/
    \E c \in Commands : pc[c] \in {"fetch_download", "fetch_look", "fetch_extract"} /\ Ref(c) = r
VersionsLeft ==
  \A v \in VersionIds : version[v] # NoCommit /\ vmeta[v] \in {"none", "torn"} =>
    v \in left \/ \E c \in Commands : pc[c] \in {"fetch_meta", "fetch_write"} /\ Id(c) = v
LeftInvariant == TreesLeft /\ StagingLeft /\ ScratchLeft /\ VersionsLeft /\ PluginsLeaveNothing

-----------------------------------------------------------------------------
USE DEF RuntimeLocs, LookedLocs, PluginLocs, StageLocs, At, Only, shared, runtimes, versions, plugins

LEMMA QueueProperties ==
  ASSUME NEW S, NEW s \in Seq(S) \ {<<>>}
  PROVE  /\ Head(s) \in S
         /\ Len(s) # 1 => Tail(s) \in Seq(S) \ {<<>>}
<1>1. Head(s) \in S /\ Tail(s) \in Seq(S) /\ Len(Tail(s)) = Len(s) - 1 /\ Len(s) \in Nat
  BY HeadTailProperties, LenProperties
<1>2. Len(s) # 1 => Len(Tail(s)) # 0
  BY <1>1
<1>3. Len(<<>>) = 0
  BY EmptySeq
<1>4. QED BY <1>1, <1>2, <1>3

LEMMA RequestTyped == Requests \subseteq Seq(PluginIds) \ {<<>>}
<1>1. \A p \in PluginIds : <<p>> \in Seq(PluginIds)
  OBVIOUS
<1>2. QED BY <1>1, PluginAssumption DEF Requests

\* A step of c moves c only, and has the lock unless c is idle or between two plugins.
Moves(c) ==
  /\ \E loc \in {"idle", "fetch_download"} \cup RuntimeLocs \cup LookedLocs \cup PluginLocs :
       pc' = [pc EXCEPT ![c] = loc]
  /\ DOMAIN work' = Commands /\ (\A b \in Commands \ {c} : work'[b] = work[b]) /\ WorkTyped(c)'
  /\ lock' \in {lock, c, NoCommand}
  /\ lock' = c <=> pc'[c] \notin {"idle", "install"}
  /\ lock' = c => lock \in {c, NoCommand}
  /\ lock' = NoCommand => lock \in {c, NoCommand}
  /\ orphans' \cup left' \subseteq Names \cup Refs \cup VersionIds \cup PluginIds

LEMMA MovesTyped ==
  ASSUME TypeOK, LockInvariant, NEW c \in Commands, Moves(c),
         RuntimesTypeOK', VersionsTypeOK', PluginsTypeOK'
  PROVE  TypeOK' /\ LockInvariant'
<1>1. PICK loc \in {"idle", "fetch_download"} \cup RuntimeLocs \cup LookedLocs \cup PluginLocs :
        pc' = [pc EXCEPT ![c] = loc]
  BY DEF Moves
<1>2. \A b \in Commands : pc'[b] = IF b = c THEN loc ELSE pc[b]
  BY <1>1 DEF TypeOK
<1>3. pc' \in [Commands -> {"idle", "fetch_download"} \cup RuntimeLocs \cup LookedLocs \cup PluginLocs]
  BY <1>1 DEF TypeOK
<1>4. \A b \in Commands : WorkTyped(b)'
  <2>1. ASSUME NEW b \in Commands \ {c} PROVE WorkTyped(b)'
    <3>1. pc'[b] = pc[b] /\ work'[b] = work[b] /\ WorkTyped(b)
      BY <1>2 DEF Moves, TypeOK
    <3>2. QED BY <3>1 DEF WorkTyped
  <2>2. QED BY <2>1 DEF Moves
<1>5. lock' \in Commands \cup {NoCommand}
  BY DEF Moves, TypeOK
<1>6. lock' # NoCommand => pc'[lock'] \notin {"idle", "install"}
  <2>1. CASE lock' = c
    BY <2>1 DEF Moves
  <2>2. CASE lock' # c /\ lock' # NoCommand
    <3>1. lock' = lock /\ lock \in Commands \ {c}
      BY <2>2 DEF Moves, TypeOK
    <3>2. QED BY <1>2, <3>1 DEF TypeOK
  <2>3. QED BY <2>1, <2>2
<1>7. LockInvariant'
  BY <1>2, CommandAssumption DEF Moves, LockInvariant
<1>8. orphans' \cup left' \subseteq Names \cup Refs \cup VersionIds \cup PluginIds
  BY DEF Moves, TypeOK
<1>9. DOMAIN work' = Commands
  BY DEF Moves
<1>10. QED BY <1>3, <1>4, <1>5, <1>6, <1>7, <1>8, <1>9 DEF TypeOK

\* The ways of moving.
LEMMA GotoMoves ==
  ASSUME TypeOK, LockInvariant, NEW c \in Commands, lock = c,
         NEW loc \in {"fetch_download", "clone", "checkout", "update"} \cup RuntimeLocs \cup LookedLocs,
         pc' = [pc EXCEPT ![c] = loc], DOMAIN work' = Commands,
         \A b \in Commands \ {c} : work'[b] = work[b], WorkTyped(c)', UNCHANGED <<lock, orphans, left>>
  PROVE  Moves(c)
BY CommandAssumption DEF Moves, TypeOK

LEMMA StayMoves ==
  ASSUME TypeOK, LockInvariant, NEW c \in Commands, UNCHANGED shared
  PROVE  Moves(c)
<1>1. pc' = [pc EXCEPT ![c] = pc[c]]
  BY DEF TypeOK
<1>2. lock = c <=> pc[c] \notin {"idle", "install"}
  BY CommandAssumption DEF TypeOK, LockInvariant
<1>3. WorkTyped(c)'
  BY DEF TypeOK, WorkTyped
<1>4. QED BY <1>1, <1>2, <1>3 DEF Moves, TypeOK

LEMMA EndMoves ==
  ASSUME TypeOK, LockInvariant, NEW c \in Commands, End(c),
         orphans' \cup left' \subseteq Names \cup Refs \cup VersionIds \cup PluginIds
  PROVE  Moves(c)
<1>1. pc' = [pc EXCEPT ![c] = "idle"] /\ work' = [work EXCEPT ![c] = NoWork] /\ pc'[c] = "idle"
  BY DEF End, TypeOK
<1>2. WorkTyped(c)'
  BY <1>1 DEF WorkTyped
<1>3. DOMAIN work' = Commands /\ \A b \in Commands \ {c} : work'[b] = work[b]
  BY <1>1 DEF TypeOK
<1>4. lock' = IF lock = c THEN NoCommand ELSE lock
  BY DEF End, Released
<1>5. QED BY <1>1, <1>2, <1>3, <1>4, CommandAssumption DEF Moves, TypeOK

LEMMA FinishMoves ==
  ASSUME TypeOK, LockInvariant, NEW c \in Commands, Finish(c)
  PROVE  Moves(c)
BY EndMoves DEF Finish, TypeOK

LEMMA FailMoves ==
  ASSUME TypeOK, LockInvariant, NEW c \in Commands,
         NEW leaving \in SUBSET (Names \cup Refs \cup VersionIds \cup PluginIds), Fail(c, leaving)
  PROVE  Moves(c)
BY EndMoves DEF Fail, TypeOK

LEMMA TakeMoves ==
  ASSUME TypeOK, LockInvariant, NEW c \in Commands, NEW from, NEW what,
         NEW to \in {"fetch_download", "clone", "update"} \cup RuntimeLocs,
         TakeLock(c, from, to, what), WorkTyped(c)'
  PROVE  Moves(c)
BY CommandAssumption DEF Moves, TakeLock, TypeOK

-----------------------------------------------------------------------------
\* Commands on runtimes.
RuntimeCommand(c) == (\E n \in Names : ImportStart(c, n) \/ StageStart(c, n)) \/ RuntimeStep(c)

LEMMA CopyMoves ==
  ASSUME TypeOK, LockInvariant, NEW c \in Commands, NEW part \in Parts,
         NEW from \in RuntimeLocs, NEW to \in RuntimeLocs, Copy(c, part, from, to)
  PROVE  Moves(c) /\ RuntimesTypeOK'
<1> USE DEF RuntimesTypeOK, Extent
<1>1. pc[c] \in RuntimeLocs /\ lock = c /\ work[c] \in Names
  BY DEF Copy, LockInvariant, TypeOK, WorkTyped
<1>2. CASE UNCHANGED shared
  <2>1. tree' = [tree EXCEPT ![work[c]][part] = "partial"] \/ tree' = [tree EXCEPT ![work[c]][part] = "whole"]
    BY <1>2 DEF Copy
  <2>2. QED BY <1>1, <1>2, <2>1, StayMoves DEF Copy, TypeOK
<1>3. CASE Goto(c, to)
  <2>1. tree' = [tree EXCEPT ![work[c]][part] = "partial"] \/ tree' = [tree EXCEPT ![work[c]][part] = "whole"]
    BY <1>3 DEF Copy
  <2>2. pc' = [pc EXCEPT ![c] = to] /\ UNCHANGED <<work, lock, orphans, left>>
    BY <1>3 DEF Goto
  <2>3. WorkTyped(c)'
    BY <1>1, <2>2 DEF WorkTyped, TypeOK
  <2>4. Moves(c)
    BY <1>1, <2>2, <2>3, GotoMoves DEF TypeOK
  <2>5. QED BY <1>1, <2>1, <2>4 DEF Copy, TypeOK
<1>4. QED BY <1>2, <1>3 DEF Copy

LEMMA RuntimeMoves ==
  ASSUME TypeOK, LockInvariant, NEW c \in Commands, RuntimeCommand(c)
  PROVE  Moves(c) /\ RuntimesTypeOK'
<1> USE DEF RuntimesTypeOK
<1>1. pc[c] \in RuntimeLocs => lock = c /\ work[c] \in Names
  BY DEF LockInvariant, TypeOK, WorkTyped
<1>2. ASSUME NEW n \in Names, ImportStart(c, n) \/ StageStart(c, n) PROVE Moves(c) /\ RuntimesTypeOK'
  <2>1. PICK to \in {"import_comfy", "stage_extract"} : TakeLock(c, "idle", to, n)
    BY <1>2 DEF ImportStart, StageStart, StartOn
  <2>2. WorkTyped(c)'
    BY <2>1 DEF TakeLock, WorkTyped, TypeOK
  <2>3. QED BY <1>2, <2>1, <2>2, TakeMoves DEF ImportStart, StageStart, TypeOK
<1>3. CASE ImportCopies(c) \/ StageCopies(c)
  BY <1>3, CopyMoves DEF ImportCopies, StageCopies, Parts
<1>4. CASE ImportFails(c) \/ StageFails(c)
  <2>1. Fail(c, {}) /\ work[c] \in Names /\ tree' = [tree EXCEPT ![work[c]] = Nothing]
    BY <1>1, <1>4 DEF ImportFails, StageFails, Discard
  <2>2. tree' \in [Names -> [Parts -> Extent]]
    BY <2>1 DEF Nothing, Extent, TypeOK
  <2>3. QED BY <1>4, <2>1, <2>2, FailMoves DEF ImportFails, StageFails, TypeOK
<1>5. CASE ImportFailsLate(c)
  <2>1. Fail(c, {work[c]}) /\ work[c] \in Names /\ UNCHANGED runtimes
    BY <1>1, <1>5 DEF ImportFailsLate
  <2>2. QED BY <2>1, FailMoves DEF TypeOK
<1>6. CASE StageExtract(c)
  <2>1. CASE UNCHANGED <<shared, tree>>
    BY <1>1, <1>6, <2>1, StayMoves DEF StageExtract, TypeOK
  <2>2. CASE Goto(c, "stage_venv") /\ tree' = [tree EXCEPT ![work[c]]["comfy"] = "whole"]
    <3>1. pc' = [pc EXCEPT ![c] = "stage_venv"] /\ UNCHANGED <<work, lock, orphans, left>>
      BY <2>2 DEF Goto
    <3>2. WorkTyped(c)'
      BY <1>1, <1>6, <3>1 DEF WorkTyped, TypeOK, StageExtract
    <3>3. Moves(c)
      BY <1>1, <1>6, <3>1, <3>2, GotoMoves DEF TypeOK, StageExtract
    <3>4. tree' \in [Names -> [Parts -> Extent]]
      BY <1>1, <1>6, <2>2 DEF TypeOK, Parts, Extent, StageExtract
    <3>5. QED BY <1>6, <2>2, <3>3, <3>4 DEF StageExtract, TypeOK
  <2>3. QED BY <1>6, <2>1, <2>2 DEF StageExtract
<1>7. CASE Register(c)
  BY <1>1, <1>7, FinishMoves DEF Register, TypeOK
<1>8. QED BY <1>2, <1>3, <1>4, <1>5, <1>6, <1>7 DEF RuntimeCommand, RuntimeStep

-----------------------------------------------------------------------------
\* Commands on versions.
VersionCommand(c) == (\E r \in Refs : FetchStart(c, r)) \/ VersionStep(c)

LEMMA VersionMoves ==
  ASSUME TypeOK, LockInvariant, NEW c \in Commands, VersionCommand(c)
  PROVE  Moves(c) /\ VersionsTypeOK'
<1> USE DEF VersionsTypeOK, Ref, Commit, Id
<1>1. /\ pc[c] \in LookedLocs \cup {"fetch_download"} => lock = c /\ Ref(c) \in Refs
      /\ pc[c] \in LookedLocs => work[c] \in Refs \X Commits /\ Commit(c) \in Commits /\ Id(c) \in VersionIds
  BY VersionAssumption DEF LockInvariant, TypeOK, WorkTyped
<1>2. ASSUME NEW loc \in LookedLocs, pc[c] \in LookedLocs, Goto(c, loc) PROVE Moves(c)
  <2>1. pc' = [pc EXCEPT ![c] = loc] /\ UNCHANGED <<work, lock, orphans, left>>
    BY <1>2 DEF Goto
  <2>2. WorkTyped(c)'
    BY <1>1, <1>2, <2>1 DEF WorkTyped, TypeOK
  <2>3. QED BY <1>1, <1>2, <2>1, <2>2, GotoMoves DEF TypeOK
<1>3. ASSUME NEW r \in Refs, FetchStart(c, r) PROVE Moves(c) /\ VersionsTypeOK'
  <2>1. TakeLock(c, "idle", "fetch_download", <<r>>)
    BY <1>3 DEF FetchStart
  <2>2. WorkTyped(c)'
    BY <2>1 DEF TakeLock, WorkTyped, TypeOK
  <2>3. QED BY <1>3, <2>1, <2>2, TakeMoves DEF FetchStart, TypeOK
<1>4. CASE FetchDownload(c)
  <2>1. CASE UNCHANGED shared
    BY <1>1, <1>4, <2>1, StayMoves DEF FetchDownload, TypeOK
  <2>2. ASSUME NEW k \in Commits, work' = [work EXCEPT ![c] = <<Ref(c), k>>],
               pc' = [pc EXCEPT ![c] = "fetch_look"],
               UNCHANGED <<lock, orphans, left, scratch, version, vmeta>>
        PROVE  Moves(c) /\ VersionsTypeOK'
    <3>1. WorkTyped(c)'
      BY <1>1, <1>4, <2>2 DEF FetchDownload, WorkTyped, TypeOK
    <3>2. DOMAIN work' = Commands /\ \A b \in Commands \ {c} : work'[b] = work[b]
      BY <2>2 DEF TypeOK
    <3>3. QED BY <1>1, <1>4, <2>2, <3>1, <3>2, GotoMoves DEF FetchDownload, TypeOK
  <2>3. QED BY <1>4, <2>1, <2>2 DEF FetchDownload
<1>5. CASE FetchLook(c)
  BY <1>1, <1>2, <1>5, FinishMoves DEF FetchLook, ClearScratch, TypeOK
<1>6. CASE FetchExtract(c)
  BY <1>1, <1>2, <1>6 DEF FetchExtract, TypeOK
<1>7. CASE FetchFails(c)
  BY <1>7, FailMoves DEF FetchFails, ClearScratch, TypeOK
<1>8. CASE FetchMeta(c)
  BY <1>1, <1>2, <1>8, FinishMoves DEF FetchMeta, TypeOK
<1>9. CASE FetchFailsLate(c)
  BY <1>1, <1>9, FailMoves DEF FetchFailsLate, TypeOK
<1>10. QED
  BY <1>3, <1>4, <1>5, <1>6, <1>7, <1>8, <1>9 DEF VersionCommand, VersionStep

-----------------------------------------------------------------------------
\* Commands on plugins.
PluginCommand(c) == AskInstall(c) \/ UpdateStart(c) \/ StartService(c) \/ PluginStep(c)

LEMMA NextPluginMoves ==
  ASSUME TypeOK, LockInvariant, NEW c \in Commands, NEW loc \in {"install", "update"},
         pc[c] \in PluginLocs, loc = "update" => lock = c, NextPlugin(c, loc)
  PROVE  Moves(c)
<1>1. work[c] \in Seq(PluginIds) \ {<<>>}
  BY DEF TypeOK, WorkTyped
<1>2. CASE Len(work[c]) = 1
  BY <1>2, FinishMoves DEF NextPlugin
<1>3. CASE Len(work[c]) # 1
  <2>1. Tail(work[c]) \in Seq(PluginIds) \ {<<>>}
    BY <1>1, <1>3, QueueProperties
  <2>2. /\ pc' = [pc EXCEPT ![c] = loc] /\ work' = [work EXCEPT ![c] = Tail(work[c])]
        /\ lock' = IF loc = "install" THEN Released(c) ELSE lock
        /\ UNCHANGED <<orphans, left>>
    BY <1>3 DEF NextPlugin
  <2>3. pc'[c] = loc /\ work'[c] = Tail(work[c])
    BY <2>2 DEF TypeOK
  <2>4. WorkTyped(c)'
    BY <2>1, <2>3 DEF WorkTyped
  <2>5. DOMAIN work' = Commands /\ \A b \in Commands \ {c} : work'[b] = work[b]
    BY <2>2 DEF TypeOK
  <2>6. QED BY <2>2, <2>3, <2>4, <2>5, CommandAssumption DEF Moves, Released, TypeOK
<1>4. QED BY <1>2, <1>3

LEMMA PluginMoves ==
  ASSUME TypeOK, LockInvariant, NEW c \in Commands, PluginCommand(c)
  PROVE  Moves(c) /\ PluginsTypeOK'
<1> USE DEF PluginsTypeOK, P
<1>1. /\ pc[c] \in PluginLocs => work[c] \in Seq(PluginIds) \ {<<>>} /\ P(c) \in PluginIds
      /\ pc[c] \in {"clone", "checkout", "update"} => lock = c
  BY QueueProperties DEF LockInvariant, TypeOK, WorkTyped
<1>2. CASE AskInstall(c)
  <2>1. PICK ps \in Requests : work' = [work EXCEPT ![c] = ps]
    BY <1>2 DEF AskInstall
  <2>2. pc' = [pc EXCEPT ![c] = "install"] /\ UNCHANGED <<lock, orphans, left, plugins>> /\ pc[c] = "idle"
    BY <1>2 DEF AskInstall
  <2>3. pc'[c] = "install" /\ work'[c] = ps
    BY <2>1, <2>2 DEF TypeOK
  <2>4. WorkTyped(c)'
    BY <2>3, RequestTyped DEF WorkTyped
  <2>5. DOMAIN work' = Commands /\ \A b \in Commands \ {c} : work'[b] = work[b]
    BY <2>1 DEF TypeOK
  <2>6. lock # c
    BY <2>2, CommandAssumption DEF TypeOK
  <2>7. QED BY <2>2, <2>3, <2>4, <2>5, <2>6, CommandAssumption DEF Moves, TypeOK
<1>3. CASE UpdateStart(c)
  <2>1. PICK ps \in Requests : TakeLock(c, "idle", "update", ps)
    BY <1>3 DEF UpdateStart
  <2>2. pc'[c] = "update" /\ work'[c] = ps
    BY <2>1 DEF TakeLock, TypeOK
  <2>3. WorkTyped(c)'
    BY <2>2, RequestTyped DEF WorkTyped
  <2>4. QED BY <1>3, <2>1, <2>3, TakeMoves DEF UpdateStart, TypeOK
<1>4. CASE StartService(c)
  BY <1>4, StayMoves DEF StartService, TypeOK
<1>5. CASE InstallOne(c)
  <2>1. CASE Finish(c) /\ UNCHANGED plugins
    BY <2>1, FinishMoves DEF TypeOK
  <2>2. CASE NextPlugin(c, "install") /\ UNCHANGED plugins
    BY <1>5, <2>2, NextPluginMoves DEF InstallOne, TypeOK
  <2>3. CASE TakeLock(c, "install", "clone", work[c]) /\ UNCHANGED plugins
    <3>1. pc'[c] = "clone" /\ work'[c] = work[c]
      BY <2>3 DEF TakeLock, TypeOK
    <3>2. WorkTyped(c)'
      BY <1>1, <1>5, <3>1 DEF InstallOne, WorkTyped
    <3>3. QED BY <2>3, <3>2, TakeMoves DEF TypeOK
  <2>4. QED BY <1>5, <2>1, <2>2, <2>3 DEF InstallOne
<1>6. CASE Clone(c)
  <2>1. plugin' \in [PluginIds -> {"absent", "file", "foreign", "partial", "default", "pinned"}]
    BY <1>1, <1>6 DEF Clone, Put, TypeOK
  <2>2. CASE UNCHANGED shared
    BY <1>6, <2>1, <2>2, StayMoves DEF Clone, TypeOK
  <2>3. CASE Goto(c, "checkout")
    <3>1. pc' = [pc EXCEPT ![c] = "checkout"] /\ UNCHANGED <<work, lock, orphans, left>>
      BY <2>3 DEF Goto
    <3>2. pc'[c] = "checkout" /\ work'[c] = work[c]
      BY <3>1 DEF TypeOK
    <3>3. WorkTyped(c)'
      BY <1>1, <1>6, <3>2 DEF Clone, WorkTyped
    <3>4. QED BY <1>1, <1>6, <2>1, <3>1, <3>3, GotoMoves DEF Clone, TypeOK
  <2>4. QED BY <1>6, <2>2, <2>3 DEF Clone
<1>7. CASE Checkout(c)
  <2>1. plugin' \in [PluginIds -> {"absent", "file", "foreign", "partial", "default", "pinned"}]
    BY <1>1, <1>7 DEF Checkout, Put, TypeOK
  <2>2. QED BY <1>7, <2>1, NextPluginMoves DEF Checkout, TypeOK
<1>8. CASE InstallFails(c)
  <2>1. plugin' \in [PluginIds -> {"absent", "file", "foreign", "partial", "default", "pinned"}]
    BY <1>1, <1>8 DEF InstallFails, Put, TypeOK
  <2>2. QED BY <1>8, <2>1, FailMoves DEF InstallFails, TypeOK
<1>9. CASE UpdateOne(c)
  <2>1. plugin' \in [PluginIds -> {"absent", "file", "foreign", "partial", "default", "pinned"}]
    BY <1>1, <1>9 DEF UpdateOne, Put, TypeOK
  <2>2. NextPlugin(c, "update") \/ Finish(c) \/ Fail(c, {})
    BY <1>9 DEF UpdateOne
  <2>3. QED BY <1>1, <1>9, <2>1, <2>2, NextPluginMoves, FinishMoves, FailMoves DEF UpdateOne, TypeOK
<1>10. QED
  BY <1>2, <1>3, <1>4, <1>5, <1>6, <1>7, <1>8, <1>9 DEF PluginCommand, PluginStep

-----------------------------------------------------------------------------
\* The steps of Installers, with what each kind leaves alone.
LEMMA StepKinds ==
  ASSUME Next
  PROVE  \/ \E c \in Commands :
              \/ RuntimeCommand(c) /\ UNCHANGED <<versions, plugins>>
              \/ VersionCommand(c) /\ UNCHANGED <<runtimes, plugins>>
              \/ PluginCommand(c) /\ UNCHANGED <<runtimes, versions>>
              \/ Kill(c)
         \/ \E n \in Names : OrphanCopyEnds(n) /\ UNCHANGED <<versions, plugins>>
         \/ \E p \in PluginIds : OrphanCloneEnds(p) /\ UNCHANGED <<runtimes, versions>>
         \/ ServiceEnds /\ UNCHANGED <<runtimes, versions>>
BY DEF Next, NewCommand, Step, Orphan, RuntimeCommand, VersionCommand, PluginCommand

LEMMA KillMoves ==
  ASSUME TypeOK, LockInvariant, NEW c \in Commands, Kill(c)
  PROVE  Moves(c)
<1>1. UnregisteredTrees \subseteq Names /\ NamelessVersions \subseteq VersionIds \cup Refs /\ Unpinned \subseteq PluginIds
  BY DEF UnregisteredTrees, NamelessVersions, Unpinned, TypeOK, RuntimesTypeOK, VersionsTypeOK
<1>2. Copying(c) \cup Cloning(c) \subseteq Names \cup PluginIds
  BY QueueProperties DEF Copying, Cloning, P, TypeOK, WorkTyped
<1>3. End(c) /\ left' = left \cup (UnregisteredTrees \cup NamelessVersions \cup Unpinned)
  BY DEF Kill, KillCommand
<1>4. PICK alive \in SUBSET (Copying(c) \cup Cloning(c)) : orphans' = orphans \cup alive
  BY DEF Kill, KillCommand
<1>5. orphans' \cup left' \subseteq Names \cup Refs \cup VersionIds \cup PluginIds
  BY <1>1, <1>2, <1>3, <1>4 DEF TypeOK
<1>6. QED BY <1>3, <1>5, EndMoves

LEMMA TypedStep ==
  ASSUME TypeOK, LockInvariant, [Next]_vars
  PROVE  TypeOK' /\ LockInvariant'
<1>1. ASSUME UNCHANGED <<pc, work, lock>>, RuntimesTypeOK', VersionsTypeOK', PluginsTypeOK',
             orphans' \cup left' \subseteq orphans \cup left
      PROVE  TypeOK' /\ LockInvariant'
  <2>1. \A c \in Commands : WorkTyped(c)'
    BY <1>1 DEF TypeOK, WorkTyped
  <2>2. QED BY <1>1, <2>1 DEF TypeOK, LockInvariant
<1>2. ASSUME NEW c \in Commands, RuntimeCommand(c), UNCHANGED <<versions, plugins>>
      PROVE  TypeOK' /\ LockInvariant'
  BY <1>2, RuntimeMoves, MovesTyped DEF TypeOK, VersionsTypeOK, PluginsTypeOK
<1>3. ASSUME NEW c \in Commands, VersionCommand(c), UNCHANGED <<runtimes, plugins>>
      PROVE  TypeOK' /\ LockInvariant'
  BY <1>3, VersionMoves, MovesTyped DEF TypeOK, RuntimesTypeOK, PluginsTypeOK
<1>4. ASSUME NEW c \in Commands, PluginCommand(c), UNCHANGED <<runtimes, versions>>
      PROVE  TypeOK' /\ LockInvariant'
  BY <1>4, PluginMoves, MovesTyped DEF TypeOK, RuntimesTypeOK, VersionsTypeOK
<1>5. ASSUME NEW c \in Commands, Kill(c) PROVE TypeOK' /\ LockInvariant'
  BY <1>5, KillMoves, MovesTyped DEF Kill, TypeOK, RuntimesTypeOK, VersionsTypeOK, PluginsTypeOK
<1>6. ASSUME NEW n \in Names, OrphanCopyEnds(n), UNCHANGED <<versions, plugins>>
      PROVE  TypeOK' /\ LockInvariant'
  <2>1. tree' \in [Names -> [Parts -> Extent]]
    BY <1>6 DEF OrphanCopyEnds, TypeOK, RuntimesTypeOK, Extent
  <2>2. UNCHANGED <<pc, work, lock, left, registry, staging>> /\ orphans' \subseteq orphans
    BY <1>6 DEF OrphanCopyEnds, OrphanEnds
  <2>3. QED BY <1>1, <1>6, <2>1, <2>2 DEF TypeOK, RuntimesTypeOK, VersionsTypeOK, PluginsTypeOK
<1>7. ASSUME NEW p \in PluginIds, OrphanCloneEnds(p), UNCHANGED <<runtimes, versions>>
      PROVE  TypeOK' /\ LockInvariant'
  <2>1. plugin' \in [PluginIds -> {"absent", "file", "foreign", "partial", "default", "pinned"}]
    BY <1>7 DEF OrphanCloneEnds, TypeOK, PluginsTypeOK
  <2>2. UNCHANGED <<pc, work, lock, left, running>> /\ orphans' \subseteq orphans
    BY <1>7 DEF OrphanCloneEnds, OrphanEnds
  <2>3. QED BY <1>1, <1>7, <2>1, <2>2 DEF TypeOK, RuntimesTypeOK, VersionsTypeOK, PluginsTypeOK
<1>8. CASE ServiceEnds /\ UNCHANGED <<runtimes, versions>>
  BY <1>1, <1>8 DEF ServiceEnds, TypeOK, RuntimesTypeOK, VersionsTypeOK, PluginsTypeOK
<1>9. CASE UNCHANGED vars
  BY <1>1, <1>9 DEF vars, TypeOK, RuntimesTypeOK, VersionsTypeOK, PluginsTypeOK
<1>10. QED
  BY <1>2, <1>3, <1>4, <1>5, <1>6, <1>7, <1>8, <1>9, StepKinds

LEMMA InitTyped == Init => TypeOK /\ LockInvariant
<1> SUFFICES ASSUME Init PROVE TypeOK /\ LockInvariant
  OBVIOUS
<1> USE DEF Init
<1>1. pc \in [Commands -> {"idle", "fetch_download"} \cup RuntimeLocs \cup LookedLocs \cup PluginLocs]
  BY DEF SharedInit
<1>2. \A c \in Commands : WorkTyped(c)
  BY DEF SharedInit, WorkTyped
<1>3. RuntimesTypeOK
  <2>1. tree \in [Names -> [Parts -> Extent]]
    BY DEF RuntimesInit, Everything, Nothing, Extent
  <2>2. QED BY <2>1, NamesAssumption DEF RuntimesInit, RuntimesTypeOK
<1>4. VersionsTypeOK
  BY DEF VersionsInit, VersionsTypeOK
<1>5. PluginsTypeOK
  BY DEF PluginsInit, PluginsTypeOK
<1>6. QED BY <1>1, <1>2, <1>3, <1>4, <1>5 DEF SharedInit, TypeOK, LockInvariant

(* The types, and that a command past TakeLock has the lock until it ends.   *)
THEOREM TypeCorrect == Spec => [](TypeOK /\ LockInvariant)
<1>1. QED BY InitTyped, TypedStep, PTL DEF Spec

-----------------------------------------------------------------------------
LEMMA Alone ==
  ASSUME LockInvariant, NEW c \in Commands, lock \in {c, NoCommand}
  PROVE  \A b \in Commands \ {c} : pc[b] \in {"idle", "install"}
BY CommandAssumption DEF LockInvariant

\* Where each kind of command goes.
LEMMA RuntimeGoes ==
  ASSUME TypeOK, LockInvariant, NEW c \in Commands, RuntimeCommand(c)
  PROVE  lock \in {c, NoCommand} /\ pc'[c] \in RuntimeLocs \cup {"idle"}
<1> USE DEF TypeOK, LockInvariant, TakeLock, Goto, Finish, Fail, End
<1>1. ASSUME NEW n \in Names, ImportStart(c, n) \/ StageStart(c, n)
      PROVE  lock \in {c, NoCommand} /\ pc'[c] \in RuntimeLocs \cup {"idle"}
  BY <1>1 DEF ImportStart, StageStart, StartOn
<1>2. CASE ImportCopies(c) \/ StageCopies(c) \/ StageExtract(c)
  BY <1>2 DEF ImportCopies, StageCopies, StageExtract, Copy
<1>3. CASE ImportFails(c) \/ StageFails(c) \/ ImportFailsLate(c) \/ Register(c)
  BY <1>3 DEF ImportFails, StageFails, ImportFailsLate, Register
<1>4. QED BY <1>1, <1>2, <1>3 DEF RuntimeCommand, RuntimeStep

LEMMA VersionGoes ==
  ASSUME TypeOK, LockInvariant, NEW c \in Commands, VersionCommand(c)
  PROVE  lock \in {c, NoCommand} /\ pc'[c] \in LookedLocs \cup {"fetch_download", "idle"}
<1> USE DEF TypeOK, LockInvariant, TakeLock, Goto, Finish, Fail, End
<1>1. ASSUME NEW r \in Refs, FetchStart(c, r)
      PROVE  lock \in {c, NoCommand} /\ pc'[c] \in LookedLocs \cup {"fetch_download", "idle"}
  BY <1>1 DEF FetchStart
<1>2. CASE FetchDownload(c) \/ FetchLook(c) \/ FetchExtract(c)
  BY <1>2 DEF FetchDownload, FetchLook, FetchExtract
<1>3. CASE FetchFails(c) \/ FetchMeta(c) \/ FetchFailsLate(c)
  BY <1>3 DEF FetchFails, FetchMeta, FetchFailsLate
<1>4. QED BY <1>1, <1>2, <1>3 DEF VersionCommand, VersionStep

LEMMA PluginGoes ==
  ASSUME TypeOK, LockInvariant, NEW c \in Commands, PluginCommand(c)
  PROVE  /\ pc'[c] \in PluginLocs \cup {"idle"}
         /\ pc'[c] \in {"clone", "checkout", "update"} => lock \in {c, NoCommand}
<1> USE DEF TypeOK, LockInvariant, TakeLock, Goto, Finish, Fail, End, NextPlugin
<1>1. CASE AskInstall(c) \/ UpdateStart(c) \/ StartService(c)
  BY <1>1 DEF AskInstall, UpdateStart, StartService
<1>2. CASE InstallOne(c)
  BY <1>2 DEF InstallOne
<1>3. CASE Clone(c) \/ Checkout(c) \/ InstallFails(c)
  BY <1>3 DEF Clone, Checkout, InstallFails
<1>4. CASE UpdateOne(c)
  BY <1>4 DEF UpdateOne
<1>5. QED BY <1>1, <1>2, <1>3, <1>4 DEF PluginCommand, PluginStep

-----------------------------------------------------------------------------
(* What is listed.                                                          *)

LEMMA RuntimeListed ==
  ASSUME TypeOK, LockInvariant, RegisteredIsWhole, NEW c \in Commands, RuntimeAt(c), RuntimeCommand(c)
  PROVE  RegisteredIsWhole' /\ RuntimeAt(c)'
<1> USE DEF RegisteredIsWhole, RuntimeAt
<1>1. /\ pc[c] \in RuntimeLocs => work[c] \in Names
      /\ tree \in [Names -> [Parts -> Extent]] /\ registry \subseteq Names
  BY DEF TypeOK, WorkTyped, RuntimesTypeOK
<1>2. ASSUME NEW n \in Names, ImportStart(c, n) \/ StageStart(c, n) PROVE RegisteredIsWhole' /\ RuntimeAt(c)'
  BY <1>2 DEF ImportStart, StageStart, StartOn, TakeLock, TypeOK
<1>3. CASE Copy(c, "comfy", "import_comfy", "import_venv")
  <2>1. work' = work /\ pc' \in {pc, [pc EXCEPT ![c] = "import_venv"]} /\ pc[c] = "import_comfy"
    BY <1>3 DEF Copy, Goto
  <2>2. UNCHANGED registry /\ tree' \in {[tree EXCEPT ![work[c]]["comfy"] = e] : e \in {"partial", "whole"}}
    BY <1>3 DEF Copy
  <2>3. pc'[c] = "import_venv" => tree' = [tree EXCEPT ![work[c]]["comfy"] = "whole"]
    BY <1>3 DEF Copy, Goto
  <2>4. tree'[work[c]]["comfy"] = "whole" \/ pc'[c] = "import_comfy"
    BY <1>1, <2>1, <2>3 DEF TypeOK, Parts
  <2>5. RegisteredIsWhole'
    BY <1>1, <2>1, <2>2
  <2>6. pc'[c] \in {"import_comfy", "import_venv"}
    BY <2>1 DEF TypeOK
  <2>7. QED BY <2>1, <2>2, <2>4, <2>5, <2>6
<1>4. ASSUME NEW from, NEW to, Copy(c, "venv", from, to),
             <<from, to>> \in {<<"import_venv", "import_register">>, <<"stage_venv", "stage_register">>}
      PROVE  RegisteredIsWhole' /\ RuntimeAt(c)'
  <2>1. work' = work /\ pc' \in {pc, [pc EXCEPT ![c] = to]} /\ pc[c] = from /\ pc'[c] \in {from, to}
    BY <1>4 DEF Copy, Goto, TypeOK
  <2>2. UNCHANGED registry /\ tree' \in {[tree EXCEPT ![work[c]]["venv"] = e] : e \in {"partial", "whole"}}
    BY <1>4 DEF Copy
  <2>3. pc'[c] = to => tree' = [tree EXCEPT ![work[c]]["venv"] = "whole"]
    BY <1>4 DEF Copy, Goto
  <2>4. tree[work[c]]["comfy"] = "whole" /\ work[c] \in Names /\ work[c] \notin registry
    BY <1>1, <1>4, <2>1
  <2>5. tree'[work[c]]["comfy"] = "whole"
    BY <1>1, <2>2, <2>4 DEF Parts
  <2>6. pc'[c] = to => tree'[work[c]] = Everything
    BY <1>1, <2>3, <2>4 DEF Parts, Everything
  <2>7. RegisteredIsWhole'
    BY <1>1, <2>2, <2>4
  <2>8. QED BY <1>4, <2>1, <2>2, <2>4, <2>5, <2>6, <2>7
<1>5. CASE ImportFails(c) \/ StageFails(c)
  <2>1. pc'[c] = "idle" /\ UNCHANGED registry /\ tree' = [tree EXCEPT ![work[c]] = Nothing]
        /\ pc[c] \in RuntimeLocs
    BY <1>5 DEF ImportFails, StageFails, Fail, End, Discard, TypeOK
  <2>2. QED BY <1>1, <2>1
<1>6. CASE ImportFailsLate(c)
  BY <1>6 DEF ImportFailsLate, Fail, End, TypeOK
<1>7. CASE StageExtract(c)
  <2>1. CASE UNCHANGED <<shared, tree>>
    BY <1>7, <2>1 DEF StageExtract
  <2>2. CASE Goto(c, "stage_venv") /\ tree' = [tree EXCEPT ![work[c]]["comfy"] = "whole"]
    <3>1. pc'[c] = "stage_venv" /\ work' = work /\ pc[c] = "stage_extract" /\ UNCHANGED registry
      BY <1>7, <2>2 DEF Goto, StageExtract, TypeOK
    <3>2. tree'[work[c]]["comfy"] = "whole"
      BY <1>1, <2>2, <3>1 DEF Parts
    <3>3. QED BY <1>1, <2>2, <3>1, <3>2
  <2>3. QED BY <1>7, <2>1, <2>2 DEF StageExtract
<1>8. CASE Register(c)
  BY <1>1, <1>8 DEF Register, Finish, End, TypeOK
<1>9. QED
  BY <1>2, <1>3, <1>4, <1>5, <1>6, <1>7, <1>8 DEF RuntimeCommand, RuntimeStep, ImportCopies, StageCopies

LEMMA VersionListed ==
  ASSUME TypeOK, LockInvariant, MetaIsItsCommit, NEW c \in Commands, VersionAt(c), VersionCommand(c)
  PROVE  MetaIsItsCommit' /\ VersionAt(c)'
<1> USE DEF MetaIsItsCommit, VersionAt, Id, Commit, Ref
<1>1. /\ pc[c] \in LookedLocs => Commit(c) \in Commits /\ Id(c) \in VersionIds
      /\ version \in [VersionIds -> Commits \cup {NoCommit}]
      /\ vmeta \in [VersionIds -> Commits \cup {"none", "torn"}]
  BY VersionAssumption DEF TypeOK, WorkTyped, VersionsTypeOK
<1>2. ASSUME NEW r \in Refs, FetchStart(c, r) PROVE MetaIsItsCommit' /\ VersionAt(c)'
  BY <1>2 DEF FetchStart, TakeLock, TypeOK
<1>3. CASE FetchDownload(c)
  <2>1. UNCHANGED <<version, vmeta>> /\ pc'[c] \in {"fetch_download", "fetch_look"}
    BY <1>3 DEF FetchDownload, TypeOK
  <2>2. QED BY <2>1
<1>4. CASE FetchLook(c)
  <2>1. UNCHANGED <<version, vmeta>> /\ (work'[c] = work[c] \/ pc'[c] = "idle")
    BY <1>4 DEF FetchLook, ClearScratch, Goto, Finish, End, TypeOK
  <2>2. pc'[c] = "fetch_extract" => version[Id(c)] = NoCommit
    BY <1>4 DEF FetchLook, Goto, Finish, End, TypeOK
  <2>3. pc'[c] = "fetch_meta" => vmeta[Id(c)] = Commit(c)
    BY <1>4 DEF FetchLook, Goto, Finish, End, TypeOK
  <2>4. pc'[c] = "fetch_meta" => version[Id(c)] = Commit(c)
    BY <1>1, <1>4, <2>3, VersionAssumption DEF FetchLook
  <2>5. pc'[c] \in {"fetch_extract", "fetch_meta", "idle"}
    BY <1>4 DEF FetchLook, Goto, Finish, End, TypeOK
  <2>6. QED BY <2>1, <2>2, <2>4, <2>5
<1>5. CASE FetchExtract(c)
  <2>1. pc'[c] = "fetch_meta" /\ work' = work /\ pc[c] = "fetch_extract" /\ UNCHANGED vmeta
        /\ version' = [version EXCEPT ![Id(c)] = Commit(c)]
    BY <1>5 DEF FetchExtract, Goto, TypeOK
  <2>2. vmeta[Id(c)] \in {"none", "torn"}
    BY <1>1, <2>1, VersionAssumption
  <2>3. MetaIsItsCommit'
    BY <1>1, <2>1, <2>2
  <2>4. QED BY <1>1, <2>1, <2>3
<1>6. CASE FetchFails(c) \/ FetchFailsLate(c)
  BY <1>6 DEF FetchFails, FetchFailsLate, ClearScratch, Fail, End, TypeOK
<1>7. CASE FetchMeta(c)
  <2>1. pc[c] \in {"fetch_meta", "fetch_write"} /\ UNCHANGED version
    BY <1>7 DEF FetchMeta
  <2>2. vmeta' \in {[vmeta EXCEPT ![Id(c)] = what] : what \in {"torn", Commit(c)}}
    BY <1>7 DEF FetchMeta
  <2>3. MetaIsItsCommit'
    BY <1>1, <2>1, <2>2
  <2>4. pc'[c] = "idle" \/ (pc'[c] = "fetch_write" /\ work' = work)
    BY <1>7 DEF FetchMeta, Goto, Finish, End, TypeOK
  <2>5. QED BY <2>1, <2>3, <2>4
<1>8. QED BY <1>2, <1>3, <1>4, <1>5, <1>6, <1>7 DEF VersionCommand, VersionStep

LEMMA ListedStep ==
  ASSUME TypeOK, LockInvariant, ListedInvariant, [Next]_vars
  PROVE  ListedInvariant'
<1> USE DEF ListedInvariant
<1>1. ASSUME NEW c \in Commands, Moves(c), UNCHANGED runtimes, pc'[c] \notin RuntimeLocs
      PROVE  RegisteredIsWhole' /\ \A b \in Commands : RuntimeAt(b)'
  BY <1>1 DEF Moves, RuntimeAt, RegisteredIsWhole, TypeOK
<1>2. ASSUME NEW c \in Commands, Moves(c), UNCHANGED versions, pc'[c] \notin LookedLocs
      PROVE  MetaIsItsCommit' /\ \A b \in Commands : VersionAt(b)'
  <2>1. \A b \in Commands : pc'[b] \in LookedLocs => pc'[b] = pc[b] /\ work'[b] = work[b]
    BY <1>2 DEF Moves, TypeOK
  <2>2. \A b \in Commands : VersionAt(b)'
    BY <1>2, <2>1 DEF VersionAt, Id, Ref, Commit
  <2>3. QED BY <1>2, <2>2 DEF MetaIsItsCommit
<1>3. ASSUME NEW c \in Commands, RuntimeCommand(c), UNCHANGED <<versions, plugins>> PROVE ListedInvariant'
  <2>1. Moves(c) /\ pc'[c] \notin LookedLocs
    BY <1>3, RuntimeMoves, RuntimeGoes
  <2>2. \A b \in Commands \ {c} : pc'[b] \in {"idle", "install"}
    BY <1>3, <2>1, RuntimeGoes, Alone DEF Moves, TypeOK
  <2>3. \A b \in Commands \ {c} : RuntimeAt(b)'
    BY <2>2 DEF RuntimeAt
  <2>4. RegisteredIsWhole' /\ RuntimeAt(c)'
    BY <1>3, RuntimeListed
  <2>5. QED BY <1>2, <1>3, <2>1, <2>3, <2>4
<1>4. ASSUME NEW c \in Commands, VersionCommand(c), UNCHANGED <<runtimes, plugins>> PROVE ListedInvariant'
  <2>1. Moves(c) /\ pc'[c] \notin RuntimeLocs
    BY <1>4, VersionMoves, VersionGoes
  <2>2. \A b \in Commands \ {c} : pc'[b] \in {"idle", "install"}
    BY <1>4, <2>1, VersionGoes, Alone DEF Moves, TypeOK
  <2>3. \A b \in Commands \ {c} : VersionAt(b)'
    BY <2>2 DEF VersionAt
  <2>4. MetaIsItsCommit' /\ VersionAt(c)'
    BY <1>4, VersionListed
  <2>5. QED BY <1>1, <1>4, <2>1, <2>3, <2>4
<1>5. ASSUME NEW c \in Commands, PluginCommand(c), UNCHANGED <<runtimes, versions>> PROVE ListedInvariant'
  BY <1>1, <1>2, <1>5, PluginMoves, PluginGoes
<1>6. ASSUME NEW c \in Commands, Kill(c) PROVE ListedInvariant'
  <2>1. pc'[c] = "idle"
    BY <1>6 DEF Kill, KillCommand, End, TypeOK
  <2>2. QED BY <1>1, <1>2, <1>6, <2>1, KillMoves DEF Kill
<1>7. ASSUME NEW n \in Names, OrphanCopyEnds(n), UNCHANGED <<versions, plugins>> PROVE ListedInvariant'
  <2>1. UNCHANGED <<pc, work, registry>>
    BY <1>7 DEF OrphanCopyEnds, OrphanEnds
  <2>2. \A m \in Names, p \in Parts : tree[m][p] = "whole" => tree'[m][p] = "whole"
    BY <1>7 DEF OrphanCopyEnds, TypeOK, RuntimesTypeOK
  <2>3. \A m \in Names : tree[m] = Everything => tree'[m] = Everything
    <3>1. TypeOK'
      BY TypedStep
    <3>2. QED BY <2>2, <3>1 DEF Everything, TypeOK, RuntimesTypeOK
  <2>4. \A b \in Commands : RuntimeAt(b)'
    BY <2>1, <2>2, <2>3 DEF RuntimeAt, TypeOK, WorkTyped, Parts
  <2>5. RegisteredIsWhole'
    BY <2>1, <2>3 DEF RegisteredIsWhole, TypeOK, RuntimesTypeOK
  <2>6. QED BY <1>7, <2>1, <2>4, <2>5 DEF VersionAt, MetaIsItsCommit, Id, Ref, Commit
<1>8. ASSUME UNCHANGED <<pc, work, runtimes, versions>> PROVE ListedInvariant'
  BY <1>8 DEF RuntimeAt, VersionAt, RegisteredIsWhole, MetaIsItsCommit, Id, Ref, Commit
<1>9. ASSUME NEW p \in PluginIds, OrphanCloneEnds(p), UNCHANGED <<runtimes, versions>> PROVE ListedInvariant'
  BY <1>8, <1>9 DEF OrphanCloneEnds, OrphanEnds
<1>10. CASE ServiceEnds /\ UNCHANGED <<runtimes, versions>>
  BY <1>8, <1>10 DEF ServiceEnds
<1>11. CASE UNCHANGED vars
  BY <1>8, <1>11 DEF vars
<1>12. QED BY <1>3, <1>4, <1>5, <1>6, <1>7, <1>9, <1>10, <1>11, StepKinds

(* Runtimes that are registered are whole and metas name their commit: from  *)
(* ListedInvariant, which says what a command has done at each position.     *)
THEOREM ListsAreTrue == Spec => []ListedIsTrue
<1>1. Init => ListedInvariant
  <2>1. Init => RegisteredIsWhole
    BY NamesAssumption DEF Init, RuntimesInit, RegisteredIsWhole
  <2>2. Init => MetaIsItsCommit /\ \A c \in Commands : RuntimeAt(c) /\ VersionAt(c)
    BY DEF Init, SharedInit, VersionsInit, MetaIsItsCommit, RuntimeAt, VersionAt
  <2>3. QED BY <2>1, <2>2 DEF ListedInvariant
<1>2. ListedInvariant => ListedIsTrue
  BY DEF ListedInvariant, ListedIsTrue
<1>3. QED BY <1>1, <1>2, ListedStep, TypeCorrect, PTL DEF Spec

-----------------------------------------------------------------------------
(* A running ComfyUI and its plugins.                                       *)

LEMMA QuietCommand ==
  ASSUME TypeOK, LockInvariant, QuietInvariant, NEW c \in Commands, PluginCommand(c)
  PROVE  /\ QuietInvariant'
         /\ running => UNCHANGED plugin
<1> USE DEF QuietInvariant
<1>1. \A b \in Commands \ {c} : pc'[b] = pc[b]
  BY PluginMoves DEF Moves, TypeOK
<1>2. ASSUME running' => running, pc'[c] \in {"clone", "checkout", "update"} => ~running
      PROVE  QuietInvariant'
  BY <1>1, <1>2, PluginMoves DEF Moves, TypeOK, PluginsTypeOK
<1>3. CASE AskInstall(c)
  BY <1>2, <1>3 DEF AskInstall, TypeOK
<1>4. CASE UpdateStart(c)
  BY <1>2, <1>4 DEF UpdateStart, TakeLock
<1>5. CASE StartService(c)
  <2>1. \A b \in Commands : pc'[b] \notin {"clone", "checkout", "update"}
    BY <1>5, CommandAssumption DEF StartService, LockInvariant
  <2>2. QED BY <1>5, <2>1 DEF StartService
<1>6. CASE InstallOne(c)
  <2>1. UNCHANGED plugins
    BY <1>6 DEF InstallOne
  <2>2. pc'[c] \in {"clone", "checkout", "update"} => ~running
    BY <1>6 DEF InstallOne, Finish, End, NextPlugin, TakeLock, TypeOK
  <2>3. QED BY <1>2, <2>1, <2>2
<1>7. CASE Clone(c) \/ Checkout(c) \/ InstallFails(c) \/ UpdateOne(c)
  <2>1. ~running /\ UNCHANGED running
    BY <1>7 DEF Clone, Checkout, InstallFails, UpdateOne
  <2>2. QED BY <1>2, <2>1
<1>8. QED BY <1>3, <1>4, <1>5, <1>6, <1>7 DEF PluginCommand, PluginStep

LEMMA QuietStep ==
  ASSUME TypeOK, LockInvariant, QuietInvariant, [Next]_vars
  PROVE  /\ QuietInvariant'
         /\ \A p \in PluginIds : running /\ plugin'[p] # plugin[p] => p \in orphans
<1>1. ASSUME NEW c \in Commands, Moves(c), pc'[c] \notin PluginLocs, UNCHANGED plugins
      PROVE  QuietInvariant'
  BY <1>1 DEF QuietInvariant, Moves, TypeOK
<1>2. ASSUME NEW c \in Commands, RuntimeCommand(c), UNCHANGED <<versions, plugins>> PROVE QuietInvariant'
  BY <1>1, <1>2, RuntimeMoves, RuntimeGoes
<1>3. ASSUME NEW c \in Commands, VersionCommand(c), UNCHANGED <<runtimes, plugins>> PROVE QuietInvariant'
  BY <1>1, <1>3, VersionMoves, VersionGoes
<1>4. ASSUME NEW c \in Commands, Kill(c) PROVE QuietInvariant' /\ UNCHANGED plugins
  <2>1. pc'[c] = "idle" /\ UNCHANGED plugins
    BY <1>4 DEF Kill, KillCommand, End, TypeOK
  <2>2. QED BY <1>1, <1>4, <2>1, KillMoves
<1>5. ASSUME NEW n \in Names, OrphanCopyEnds(n), UNCHANGED <<versions, plugins>> PROVE QuietInvariant'
  BY <1>5 DEF OrphanCopyEnds, OrphanEnds, QuietInvariant
<1>6. ASSUME NEW p \in PluginIds, OrphanCloneEnds(p)
      PROVE  QuietInvariant' /\ \A q \in PluginIds : plugin'[q] # plugin[q] => q \in orphans
  BY <1>6 DEF OrphanCloneEnds, OrphanEnds, QuietInvariant, TypeOK, PluginsTypeOK
<1>7. CASE ServiceEnds
  BY <1>7 DEF ServiceEnds, QuietInvariant
<1>8. CASE UNCHANGED vars
  BY <1>8 DEF vars, QuietInvariant
<1>9. QED
  BY <1>2, <1>3, <1>4, <1>5, <1>6, <1>7, <1>8, QuietCommand, StepKinds DEF ServiceEnds

(* No plugin changes under a running ComfyUI, but by a git whose command was *)
(* killed: who changes plugins has the lock that a start needs.              *)
THEOREM PluginsAreQuiet == Spec => QuietPlugins
<1>1. Init => QuietInvariant
  BY DEF Init, SharedInit, QuietInvariant
<1>2. ASSUME TypeOK, LockInvariant, QuietInvariant, [Next]_vars
      PROVE  [\A p \in PluginIds : running /\ plugin'[p] # plugin[p] => p \in orphans]_vars
  BY <1>2, QuietStep
<1>3. QED BY <1>1, <1>2, QuietStep, TypeCorrect, PTL DEF Spec, QuietPlugins

-----------------------------------------------------------------------------
(* What failures and kills leave.                                           *)

\* A command that has neither failed late nor been killed forgets nothing.
LEMMA LeftGrows ==
  ASSUME [Next]_vars
  PROVE  left \subseteq left'
<1> USE DEF TakeLock, Goto, Finish, Fail, NextPlugin
<1>1. ASSUME NEW c \in Commands, RuntimeCommand(c) PROVE left \subseteq left'
  BY <1>1 DEF RuntimeCommand, ImportStart, StageStart, StartOn, RuntimeStep, ImportCopies, StageCopies,
     Copy, ImportFails, StageFails, ImportFailsLate, StageExtract, Register
<1>2. ASSUME NEW c \in Commands, VersionCommand(c) PROVE left \subseteq left'
  BY <1>2 DEF VersionCommand, FetchStart, VersionStep, FetchDownload, FetchLook, FetchExtract,
     FetchFails, FetchMeta, FetchFailsLate
<1>3. ASSUME NEW c \in Commands, PluginCommand(c) PROVE left \subseteq left'
  BY <1>3 DEF PluginCommand, AskInstall, UpdateStart, StartService, PluginStep, InstallOne, Clone,
     Checkout, InstallFails, UpdateOne
<1>4. QED
  BY <1>1, <1>2, <1>3, StepKinds
  DEF Kill, KillCommand, OrphanCopyEnds, OrphanCloneEnds, OrphanEnds, ServiceEnds, vars

LEMMA TreesLeftStep ==
  ASSUME TypeOK, LockInvariant, TreesLeft, StagingLeft, NEW c \in Commands, left \subseteq left', RuntimeCommand(c)
  PROVE  TreesLeft' /\ StagingLeft'
<1> USE DEF Exists
<1>1. /\ pc[c] \in RuntimeLocs => work[c] \in Names
      /\ tree \in [Names -> [Parts -> Extent]] /\ registry \subseteq Names
  BY DEF TypeOK, WorkTyped, RuntimesTypeOK
<1>2. /\ \A b \in Commands \ {c} : pc[b] \in {"idle", "install"} /\ pc'[b] \in {"idle", "install"}
      /\ DOMAIN work = Commands
  BY RuntimeMoves, RuntimeGoes, Alone DEF Moves, TypeOK
<1>3. /\ \A n \in Names \ (left \cup {work[c]}) : Exists(n) => n \in registry
      /\ pc[c] \notin RuntimeLocs => \A n \in Names \ left : Exists(n) => n \in registry
  BY <1>2 DEF TreesLeft
<1>4. /\ \A n \in staging \ (left \cup {work[c]}) : FALSE
      /\ pc[c] \notin StageLocs => staging \subseteq left
  BY <1>2 DEF StagingLeft
<1>5. ASSUME NEW n \in Names, ImportStart(c, n) \/ StageStart(c, n) PROVE TreesLeft' /\ StagingLeft'
  BY <1>3, <1>4, <1>5 DEF ImportStart, StageStart, StartOn, TakeLock, TreesLeft, StagingLeft
<1>6. ASSUME pc[c] \in RuntimeLocs, pc'[c] \in RuntimeLocs, work' = work, UNCHANGED registry,
             \A n \in Names \ {work[c]} : tree'[n] = tree[n]
      PROVE  TreesLeft'
  BY <1>1, <1>3, <1>6 DEF TreesLeft
<1>7. CASE Copy(c, "comfy", "import_comfy", "import_venv") \/ Copy(c, "venv", "import_venv", "import_register")
           \/ StageCopies(c)
  <2>1. \A n \in Names \ {work[c]} : tree'[n] = tree[n]
    BY <1>1, <1>7 DEF Copy, StageCopies
  <2>2. /\ work' = work /\ UNCHANGED <<registry, staging>> /\ pc[c] \in RuntimeLocs /\ pc'[c] \in RuntimeLocs
        /\ pc[c] \in StageLocs <=> pc'[c] \in StageLocs
    BY <1>7 DEF Copy, StageCopies, Goto, TypeOK
  <2>3. QED BY <1>4, <1>6, <2>1, <2>2 DEF StagingLeft
<1>8. CASE ImportFails(c) \/ StageFails(c)
  <2>1. pc[c] \in RuntimeLocs /\ tree' = [tree EXCEPT ![work[c]] = Nothing] /\ UNCHANGED registry
    BY <1>8 DEF ImportFails, StageFails, Discard
  <2>2. (StageFails(c) /\ staging' = staging \ {work[c]}) \/ (pc[c] \notin StageLocs /\ UNCHANGED staging)
    BY <1>8 DEF ImportFails, StageFails
  <2>3. QED BY <1>1, <1>3, <1>4, <2>1, <2>2 DEF TreesLeft, StagingLeft
<1>9. CASE ImportFailsLate(c)
  <2>1. work[c] \in left' /\ pc[c] = "import_register" /\ UNCHANGED runtimes
    BY <1>9 DEF ImportFailsLate, Fail
  <2>2. QED BY <1>3, <1>4, <2>1 DEF TreesLeft, StagingLeft
<1>10. CASE StageExtract(c)
  <2>1. /\ pc[c] = "stage_extract" /\ pc'[c] \in {"stage_extract", "stage_venv"} /\ work' = work
        /\ UNCHANGED registry /\ staging' \subseteq staging \cup {work[c]}
    BY <1>10 DEF StageExtract, Goto, TypeOK
  <2>2. \A n \in Names \ {work[c]} : tree'[n] = tree[n]
    BY <1>1, <1>10 DEF StageExtract
  <2>3. QED BY <1>1, <1>4, <1>6, <2>1, <2>2 DEF StagingLeft
<1>11. CASE Register(c)
  <2>1. /\ pc[c] \in {"import_register", "stage_register"} /\ registry' = registry \cup {work[c]}
        /\ UNCHANGED tree
        /\ staging' = IF pc[c] = "stage_register" THEN staging \ {work[c]} ELSE staging
    BY <1>11 DEF Register
  <2>2. QED BY <1>1, <1>3, <1>4, <2>1 DEF TreesLeft, StagingLeft
<1>12. QED
  BY <1>5, <1>7, <1>8, <1>9, <1>10, <1>11 DEF RuntimeCommand, RuntimeStep, ImportCopies

LEMMA VersionsLeftStep ==
  ASSUME TypeOK, LockInvariant, ScratchLeft, VersionsLeft, NEW c \in Commands, left \subseteq left', VersionCommand(c)
  PROVE  ScratchLeft' /\ VersionsLeft'
<1> DEFINE Early == {"fetch_download", "fetch_look", "fetch_extract"}
<1> DEFINE Late == {"fetch_meta", "fetch_write"}
<1> USE DEF Ref, Id, Commit
<1>1. /\ pc[c] \in LookedLocs => Commit(c) \in Commits /\ Id(c) \in VersionIds
      /\ version \in [VersionIds -> Commits \cup {NoCommit}]
      /\ vmeta \in [VersionIds -> Commits \cup {"none", "torn"}]
  BY VersionAssumption DEF TypeOK, WorkTyped, VersionsTypeOK
<1>2. \A b \in Commands \ {c} : pc[b] \in {"idle", "install"}
  BY VersionGoes, Alone
<1>3. \A r \in scratch \ left : pc[c] \in Early /\ Ref(c) = r
  BY <1>2 DEF ScratchLeft
<1>4. \A v \in VersionIds \ left :
        version[v] # NoCommit /\ vmeta[v] \in {"none", "torn"} => pc[c] \in Late /\ Id(c) = v
  BY <1>2 DEF VersionsLeft
<1>5. ASSUME NEW r \in Refs, FetchStart(c, r) PROVE ScratchLeft' /\ VersionsLeft'
  <2>1. pc[c] = "idle" /\ scratch' \subseteq scratch /\ UNCHANGED <<version, vmeta>>
    BY <1>5 DEF FetchStart, TakeLock
  <2>2. QED BY <1>3, <1>4, <2>1 DEF ScratchLeft, VersionsLeft
<1>6. CASE FetchDownload(c)
  <2>1. /\ pc[c] = "fetch_download" /\ pc'[c] \in Early /\ UNCHANGED <<version, vmeta>>
        /\ scratch' \subseteq scratch \cup {Ref(c)}
    BY <1>6 DEF FetchDownload, TypeOK
  <2>2. Ref(c)' = Ref(c)
    BY <1>6 DEF FetchDownload, TypeOK
  <2>3. QED BY <1>3, <1>4, <2>1, <2>2 DEF ScratchLeft, VersionsLeft
<1>7. CASE FetchLook(c)
  <2>1. pc[c] = "fetch_look" /\ UNCHANGED <<version, vmeta>>
    BY <1>7 DEF FetchLook, ClearScratch
  <2>2. \/ scratch' = scratch /\ pc'[c] = "fetch_extract" /\ work' = work
        \/ scratch' = scratch \ {Ref(c)}
    BY <1>7 DEF FetchLook, ClearScratch, Goto, TypeOK
  <2>3. QED BY <1>3, <1>4, <2>1, <2>2 DEF ScratchLeft, VersionsLeft
<1>8. CASE FetchExtract(c)
  <2>1. /\ pc[c] = "fetch_extract" /\ pc'[c] = "fetch_meta" /\ work' = work /\ UNCHANGED vmeta
        /\ version' = [version EXCEPT ![Id(c)] = Commit(c)] /\ scratch' = scratch \ {Ref(c)}
    BY <1>8 DEF FetchExtract, Goto, TypeOK
  <2>2. QED BY <1>1, <1>3, <1>4, <2>1 DEF ScratchLeft, VersionsLeft
<1>9. CASE FetchFails(c)
  <2>1. pc[c] \in {"fetch_download", "fetch_extract"} /\ UNCHANGED <<version, vmeta>> /\ scratch' = scratch \ {Ref(c)}
    BY <1>9 DEF FetchFails, ClearScratch
  <2>2. QED BY <1>3, <1>4, <2>1 DEF ScratchLeft, VersionsLeft
<1>10. CASE FetchMeta(c)
  <2>1. pc[c] \in Late /\ UNCHANGED <<version, scratch>>
    BY <1>10 DEF FetchMeta
  <2>2. \/ vmeta' = [vmeta EXCEPT ![Id(c)] = "torn"] /\ pc'[c] = "fetch_write" /\ work' = work
        \/ vmeta' = [vmeta EXCEPT ![Id(c)] = Commit(c)]
    BY <1>10 DEF FetchMeta, Goto, TypeOK
  <2>3. ScratchLeft'
    BY <1>3, <2>1 DEF ScratchLeft
  <2>4. VersionsLeft'
    BY <1>1, <1>4, <2>1, <2>2, VersionAssumption DEF VersionsLeft
  <2>5. QED BY <2>3, <2>4
<1>11. CASE FetchFailsLate(c)
  <2>1. pc[c] \in Late /\ Id(c) \in left' /\ UNCHANGED versions
    BY <1>11 DEF FetchFailsLate, Fail
  <2>2. QED BY <1>3, <1>4, <2>1 DEF ScratchLeft, VersionsLeft
<1>12. QED
  BY <1>5, <1>6, <1>7, <1>8, <1>9, <1>10, <1>11 DEF VersionCommand, VersionStep

LEMMA PluginsLeftStep ==
  ASSUME TypeOK, LockInvariant, PluginsLeaveNothing, NEW c \in Commands, left \subseteq left', PluginCommand(c)
  PROVE  PluginsLeaveNothing'
<1> USE DEF PluginsLeaveNothing, Unpinned, P
<1>1. ASSUME UNCHANGED plugin, pc[c] \notin {"clone", "checkout"} PROVE PluginsLeaveNothing'
  BY <1>1, PluginMoves DEF Moves, TypeOK
<1>2. CASE AskInstall(c) \/ UpdateStart(c) \/ StartService(c) \/ InstallOne(c)
  BY <1>1, <1>2 DEF AskInstall, UpdateStart, StartService, InstallOne, TakeLock
<1>3. ASSUME pc[c] \in {"clone", "checkout", "update"}
      PROVE  /\ \A p \in Unpinned \ left : pc[c] \in {"clone", "checkout"} /\ P(c) = p
             /\ P(c) \in PluginIds
  BY <1>3, QueueProperties, Alone DEF LockInvariant, TypeOK, WorkTyped
<1>4. CASE Clone(c)
  <2>1. pc[c] = "clone" /\ pc'[c] \in {"clone", "checkout"} /\ work' = work
    BY <1>4 DEF Clone, Goto, TypeOK
  <2>2. \A p \in PluginIds \ {P(c)} : plugin'[p] = plugin[p]
    BY <1>4 DEF Clone, Put, TypeOK, PluginsTypeOK
  <2>3. QED BY <1>3, <2>1, <2>2
<1>5. CASE Checkout(c) \/ InstallFails(c)
  <2>1. pc[c] \in {"clone", "checkout"} /\ (Put(c, "pinned") \/ Put(c, "absent"))
    BY <1>5 DEF Checkout, InstallFails
  <2>2. \A p \in PluginIds : plugin'[p] = plugin[p] \/ plugin'[p] \in {"pinned", "absent"}
    BY <2>1 DEF Put, TypeOK, PluginsTypeOK
  <2>3. plugin'[P(c)] \in {"pinned", "absent"}
    BY <1>3, <2>1 DEF Put, TypeOK, PluginsTypeOK
  <2>4. QED BY <1>3, <2>1, <2>2, <2>3
<1>6. CASE UpdateOne(c)
  <2>1. pc[c] = "update" /\ (UNCHANGED plugin \/ Put(c, "pinned"))
    BY <1>6 DEF UpdateOne
  <2>2. \A p \in PluginIds : plugin'[p] = plugin[p] \/ plugin'[p] = "pinned"
    BY <2>1 DEF Put, TypeOK, PluginsTypeOK
  <2>3. QED BY <1>3, <2>1, <2>2
<1>7. QED BY <1>2, <1>4, <1>5, <1>6 DEF PluginCommand, PluginStep

LEMMA LeftStep ==
  ASSUME TypeOK, LockInvariant, LeftInvariant, [Next]_vars
  PROVE  LeftInvariant'
<1> USE DEF LeftInvariant
<1>1. left \subseteq left'
  BY LeftGrows
<1>2. ASSUME NEW c \in Commands, Moves(c), UNCHANGED runtimes, pc[c] \notin RuntimeLocs
      PROVE  TreesLeft' /\ StagingLeft'
  BY <1>1, <1>2 DEF Moves, TypeOK, TreesLeft, StagingLeft, Exists
<1>3. ASSUME NEW c \in Commands, Moves(c), UNCHANGED versions, pc[c] \notin LookedLocs \cup {"fetch_download"}
      PROVE  ScratchLeft' /\ VersionsLeft'
  <2>1. \A b \in Commands : pc[b] \in LookedLocs \cup {"fetch_download"} => pc'[b] = pc[b] /\ work'[b] = work[b]
    BY <1>3 DEF Moves, TypeOK
  <2>2. ScratchLeft'
    BY <1>1, <1>3, <2>1 DEF ScratchLeft, Ref
  <2>3. \A b \in Commands : pc[b] \in {"fetch_meta", "fetch_write"} => Id(b)' = Id(b)
    BY <2>1 DEF Id, Ref, Commit
  <2>4. VersionsLeft'
    BY <1>1, <1>3, <2>1, <2>3 DEF VersionsLeft
  <2>5. QED BY <2>2, <2>4
<1>4. ASSUME NEW c \in Commands, Moves(c), UNCHANGED plugins, pc[c] \notin PluginLocs
      PROVE  PluginsLeaveNothing'
  BY <1>1, <1>4 DEF Moves, TypeOK, PluginsLeaveNothing, Unpinned, P
<1>5. ASSUME NEW c \in Commands, RuntimeCommand(c), UNCHANGED <<versions, plugins>> PROVE LeftInvariant'
  <2>1. pc[c] \in RuntimeLocs \cup {"idle"}
    BY <1>5 DEF RuntimeCommand, ImportStart, StageStart, StartOn, TakeLock, RuntimeStep, ImportCopies,
       StageCopies, Copy, ImportFails, StageFails, ImportFailsLate, StageExtract, Register
  <2>2. QED BY <1>1, <1>3, <1>4, <1>5, <2>1, RuntimeMoves, TreesLeftStep
<1>6. ASSUME NEW c \in Commands, VersionCommand(c), UNCHANGED <<runtimes, plugins>> PROVE LeftInvariant'
  <2>1. pc[c] \in LookedLocs \cup {"fetch_download", "idle"}
    BY <1>6 DEF VersionCommand, FetchStart, TakeLock, VersionStep, FetchDownload, FetchLook, FetchExtract,
       FetchFails, FetchMeta, FetchFailsLate
  <2>2. QED BY <1>1, <1>2, <1>4, <1>6, <2>1, VersionMoves, VersionsLeftStep
<1>7. ASSUME NEW c \in Commands, PluginCommand(c), UNCHANGED <<runtimes, versions>> PROVE LeftInvariant'
  <2>1. pc[c] \in PluginLocs \cup {"idle"}
    BY <1>7 DEF PluginCommand, AskInstall, UpdateStart, TakeLock, StartService, PluginStep, InstallOne,
       Clone, Checkout, InstallFails, UpdateOne
  <2>2. QED BY <1>1, <1>2, <1>3, <1>7, <2>1, PluginMoves, PluginsLeftStep
<1>8. ASSUME NEW c \in Commands, Kill(c) PROVE LeftInvariant'
  <2>1. left' = left \cup (UnregisteredTrees \cup NamelessVersions \cup Unpinned)
        /\ UNCHANGED <<runtimes, versions, plugins>>
    BY <1>8 DEF Kill, KillCommand
  <2>2. TreesLeft' /\ StagingLeft'
    BY <2>1 DEF TreesLeft, StagingLeft, UnregisteredTrees, Exists
  <2>3. ScratchLeft' /\ VersionsLeft'
    BY <2>1 DEF ScratchLeft, VersionsLeft, NamelessVersions
  <2>4. PluginsLeaveNothing'
    BY <2>1 DEF PluginsLeaveNothing, Unpinned
  <2>5. QED BY <2>2, <2>3, <2>4
<1>9. ASSUME UNCHANGED <<pc, work, registry, staging, versions>>,
             \A n \in Names : Exists(n)' => Exists(n), Unpinned' \subseteq Unpinned
      PROVE  LeftInvariant'
  BY <1>1, <1>9
  DEF TreesLeft, StagingLeft, ScratchLeft, VersionsLeft, PluginsLeaveNothing, Id, Ref, Commit, P
<1>10. ASSUME NEW n \in Names, OrphanCopyEnds(n), UNCHANGED <<versions, plugins>> PROVE LeftInvariant'
  <2>1. UNCHANGED <<pc, work, registry, staging>>
    BY <1>10 DEF OrphanCopyEnds, OrphanEnds
  <2>2. tree \in [Names -> [Parts -> Extent]]
    BY DEF TypeOK, RuntimesTypeOK
  <2>3. tree' = [tree EXCEPT ![n] = [p \in Parts |-> IF tree[n][p] = "partial" THEN "whole" ELSE tree[n][p]]]
    BY <1>10 DEF OrphanCopyEnds
  <2>4. \A m \in Names : tree[m] = Nothing => tree'[m] = Nothing
    BY <2>2, <2>3 DEF Nothing
  <2>5. QED BY <1>9, <1>10, <2>1, <2>4 DEF Exists, Unpinned
<1>11. ASSUME NEW p \in PluginIds, OrphanCloneEnds(p), UNCHANGED <<runtimes, versions>> PROVE LeftInvariant'
  <2>1. UNCHANGED <<pc, work>> /\ Unpinned' \subseteq Unpinned
    BY <1>11 DEF OrphanCloneEnds, OrphanEnds, Unpinned, TypeOK, PluginsTypeOK
  <2>2. QED BY <1>9, <1>11, <2>1 DEF Exists
<1>12. CASE ServiceEnds /\ UNCHANGED <<runtimes, versions>>
  BY <1>9, <1>12 DEF ServiceEnds, Exists, Unpinned
<1>13. CASE UNCHANGED vars
  BY <1>9, <1>13 DEF vars, Exists, Unpinned
<1>14. QED BY <1>5, <1>6, <1>7, <1>8, <1>10, <1>11, <1>12, <1>13, StepKinds

(* Whatever is neither registered, described nor pinned is being worked on,  *)
(* or a kill or a failure past the clean-up left it: by LeftInvariant, whose *)
(* parts say at which positions a command still clears up after itself.      *)
THEOREM NothingIsLeft == Spec => []FailureLeavesNothing
<1>1. Init => LeftInvariant
  <2>1. Init => TreesLeft /\ StagingLeft
    BY NamesAssumption DEF Init, RuntimesInit, TreesLeft, StagingLeft, Exists
  <2>2. Init => ScratchLeft /\ VersionsLeft
    BY DEF Init, VersionsInit, ScratchLeft, VersionsLeft
  <2>3. Init => PluginsLeaveNothing
    BY DEF Init, PluginsInit, PluginsLeaveNothing, Unpinned
  <2>4. QED BY <2>1, <2>2, <2>3 DEF LeftInvariant
<1>2. LeftInvariant => FailureLeavesNothing
  <2>1. LeftInvariant => RuntimesLeaveNothing
    BY DEF LeftInvariant, TreesLeft, StagingLeft, RuntimesLeaveNothing, UnregisteredTrees
  <2>2. LeftInvariant => VersionsLeaveNothing
    BY DEF LeftInvariant, ScratchLeft, VersionsLeft, VersionsLeaveNothing, NamelessVersions
  <2>3. QED BY <2>1, <2>2 DEF LeftInvariant, FailureLeavesNothing
<1>3. QED BY <1>1, <1>2, LeftStep, TypeCorrect, PTL DEF Spec

=============================================================================
