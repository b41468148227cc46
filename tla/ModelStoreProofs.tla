---------------------------- MODULE ModelStoreProofs ----------------------------
(***************************************************************************)
(* Proofs about ModelStore, for any downloads, merges and models: what is   *)
(* published was verified, what is missing is listed, a merge loses no file *)
(* and moves none that it finds in conflict, and the downloads implement    *)
(* ModelShelf.                                                              *)
(***************************************************************************)
EXTENDS ModelStore, FiniteSetTheorems, SequenceTheorems, TLAPS

USE DEF At, Goto, M, Actors

\* Where a download has its lock, and where it has not.
Inside  == {"recheck", "fetch", "open", "copy", "verify", "replace", "clean",
            "hub_verify", "hub_unlink", "final"}
Outside == {"idle", "check", "found", "lock"}

\* Who is at which place, and what he has locked there.
DownloadHeld(d) ==
  /\ pc[d] \in Inside \cup Outside
  /\ pc[d] # "idle" => queue[d] # <<>>
  /\ pc[d] \in Inside => lock[M(d)] = d
ManualHeld(h) ==
  /\ pc[h] \in {"idle", "manual"}
  /\ pc[h] = "manual" => queue[h] # <<>> /\ lock[M(h)] = h
LinkHeld(l) ==
  /\ pc[l] \in {"idle", "validate", "merge", "unlink", "rename", "link"}
  /\ pc[l] # "idle" => wsLock = l
  /\ pc[l] \in {"unlink", "rename"} => queue[l] # <<>>
HeldInvariant ==
  /\ \A a \in Actors \ cast : pc[a] = "idle" /\ answer[a] = "none"
  /\ \A d \in Downloads : DownloadHeld(d)
  /\ \A h \in Manual : ManualHeld(h)
  /\ \A l \in Links : LinkHeld(l)

\* What a download has verified, and that the temporary file is its own.
VerifiedInvariant ==
  /\ \A d \in Downloads : pc[d] = "replace" => Passes(M(d), tmp[M(d)])
  /\ PublishedIsVerified

TmpInvariant ==
  kills = 0 => \A m \in Models : tmp[m] # "absent" =>
    \E d \in Downloads : pc[d] \in {"copy", "verify", "replace", "clean"} /\ M(d) = m

\* Until it is published, what a download has under its lock is not there, so
\* what a merge has compared with its own file stays until that is unlinked.
Early == {"fetch", "open", "copy", "verify", "replace", "clean"}
SeedInvariant ==
  /\ \A l \in Links : pc[l] \in {"unlink", "rename"} => SeedFile(M(l))
  /\ \A d \in Downloads : pc[d] \in {"hub_verify", "hub_unlink"} => Source[M(d)] = "huggingface"
  /\ \A m \in Models : SeedFile(m) /\ OnlyAdded(m) =>
       /\ \A d \in Downloads : pc[d] \in Early /\ M(d) = m => final[m] = "absent"
       /\ \A l \in Links : pc[l] = "unlink" /\ M(l) = m => final[m] = seed[m]

\* A directory of the seed whose name a file in models/ has.
DirectoryMet == \E m \in Models : seed[m] = "dir" /\ final[m] \notin {"absent", "dir"}

\* A merge that has begun has no conflict of files before it.
Merging == {"merge", "unlink", "rename"}
MergeInvariant ==
  cast \subseteq Links /\ faults = 0 =>
    /\ (\E l \in Links : pc[l] \in Merging) \/ (\E m \in Models : origin[m] \in Links)
         => \A m \in Models : ~Conflicts(m)
    /\ (\E l \in Links : answer[l] = "failed")
         => DirectoryMet \/ \E m \in Models : Conflicts(m)

OwnInvariant ==
  cast \cap Links = {} =>
    \A d \in Downloads : pc[d] \in {"hub_verify", "final"} => origin[M(d)] = d

\* Only the download that has the lock changes the file, and only from nothing.
ShelfInvariant ==
  cast \subseteq Downloads => \A d \in Downloads :
    /\ pc[d] \in Early => final[M(d)] = "absent"
    /\ pc[d] = "hub_unlink" => ~Passes(M(d), final[M(d)])
    /\ pc[d] # "idle" => answer[d] = "none"
    /\ \A m \in asked[d] :
         \/ Passes(m, final[m])
         \/ pc[d] # "idle" /\ \E i \in DOMAIN queue[d] : queue[d][i] = m
         \/ pc[d] = "idle" /\ answer[d] # "ok"

-----------------------------------------------------------------------------
(* What a step of one actor leaves alone.                                   *)

Places  == Inside \cup Outside \cup {"manual", "validate", "merge", "unlink", "rename", "link"}
Answers == {"none", "ok", "failed", "killed"}
BaseInvariant == TypeOK /\ HeldInvariant

\* The commands of the others go on as they were, and so do their locks.
Frame(a) ==
  /\ \A b \in Actors \ {a} :
       pc'[b] = pc[b] /\ queue'[b] = queue[b] /\ asked'[b] = asked[b] /\ answer'[b] = answer[b]
  /\ \A m \in Models : \/ lock'[m] = lock[m]
                       \/ lock[m] = a /\ lock'[m] = NoActor
                       \/ lock[m] = NoActor /\ lock'[m] = a
  /\ UNCHANGED cast

CommandsTyped ==
  /\ pc' \in [Actors -> Places] /\ queue' \in [Actors -> Seq(Models)]
  /\ asked' \in [Actors -> SUBSET Models] /\ answer' \in [Actors -> Answers]
LockTyped == lock' \in [Models -> Actors \cup {NoActor}]

LEMMA ReturnFrames ==
  ASSUME TypeOK, NEW a \in Actors, NEW what \in Answers, Return(a, what), UNCHANGED cast
  PROVE  /\ Frame(a) /\ CommandsTyped /\ LockTyped
         /\ pc'[a] = "idle" /\ answer'[a] = what /\ queue'[a] = <<>> /\ asked'[a] = asked[a]
         /\ \A m \in Models : lock'[m] = IF lock[m] = a THEN NoActor ELSE lock[m]
<1>1. CommandsTyped
  BY EmptySeq DEF Return, TypeOK, CommandsTyped, Places, Inside, Outside, Answers
<1>2. LockTyped /\ \A m \in Models : lock'[m] = IF lock[m] = a THEN NoActor ELSE lock[m]
  BY DEF Return, TypeOK, LockTyped, Released
<1>3. Frame(a)
  BY <1>2 DEF Return, TypeOK, Frame
<1> QED BY <1>1, <1>2, <1>3 DEF Return, TypeOK

LEMMA StepFrames ==
  ASSUME TypeOK, NEW a \in Actors, NEW from, NEW to \in Places, Step(a, from, to), UNCHANGED <<lock, cast>>
  PROVE  /\ Frame(a) /\ CommandsTyped /\ LockTyped
         /\ pc[a] = from /\ pc'[a] = to /\ UNCHANGED <<queue, asked, answer>>
<1>1. CommandsTyped /\ LockTyped
  BY DEF Step, TypeOK, CommandsTyped, LockTyped, Places, Inside, Outside, Answers
<1> QED BY <1>1 DEF Step, TypeOK, Frame

LEMMA ItemDoneFrames ==
  ASSUME TypeOK, NEW a \in Actors, ItemDone(a), queue[a] # <<>>, UNCHANGED cast
  PROVE  /\ Frame(a) /\ CommandsTyped /\ LockTyped /\ asked'[a] = asked[a]
         /\ \A m \in Models : lock'[m] = IF lock[m] = a THEN NoActor ELSE lock[m]
         /\ \/ pc'[a] = "idle" /\ Len(queue[a]) = 1 /\ answer'[a] = "ok" /\ queue'[a] = <<>>
            \/ pc'[a] = "check" /\ queue'[a] = Tail(queue[a]) /\ queue'[a] # <<>> /\ answer'[a] = answer[a]
<1>1. CASE Len(queue[a]) = 1
  BY <1>1, ReturnFrames DEF ItemDone, Answers
<1>2. CASE Len(queue[a]) # 1
  <2>1. queue[a] \in Seq(Models) /\ Tail(queue[a]) \in Seq(Models) /\ Tail(queue[a]) # <<>>
    <3>1. queue[a] \in Seq(Models) /\ Len(queue[a]) \in Nat
      BY LenProperties DEF TypeOK
    <3>2. Tail(queue[a]) \in Seq(Models) /\ Len(Tail(queue[a])) = Len(queue[a]) - 1
      BY <3>1, HeadTailProperties
    <3>3. Len(queue[a]) # 0
      BY <3>1, EmptySeq
    <3>4. Len(Tail(queue[a])) # 0
      BY <1>2, <3>1, <3>2, <3>3
    <3>5. Tail(queue[a]) # <<>>
      BY <3>4, EmptySeq
    <3> QED BY <3>1, <3>2, <3>5
  <2>2. /\ queue' = [queue EXCEPT ![a] = Tail(queue[a])] /\ pc' = [pc EXCEPT ![a] = "check"]
        /\ lock' = Released(a) /\ UNCHANGED <<asked, answer>>
    BY <1>2 DEF ItemDone
  <2>3. CommandsTyped
    BY <2>1, <2>2 DEF TypeOK, CommandsTyped, Places, Inside, Outside, Answers
  <2>4. LockTyped /\ \A m \in Models : lock'[m] = IF lock[m] = a THEN NoActor ELSE lock[m]
    BY <2>2 DEF TypeOK, LockTyped, Released
  <2>5. Frame(a)
    BY <2>2, <2>4 DEF TypeOK, Frame
  <2> QED BY <2>1, <2>2, <2>3, <2>4, <2>5 DEF TypeOK
<1> QED BY <1>1, <1>2

FilesTyped ==
  /\ final' \in [Models -> Contents] /\ tmp' \in [Models -> Contents \ {"dir"}]
  /\ seed' \in [Models -> Contents] /\ link' \in {"dir", "none", "link"}
  /\ origin' \in [Models -> Actors \cup {NoActor}] /\ wsLock' \in Links \cup {NoActor}
  /\ kills' \in 0..MaxKills /\ faults' \in 0..MaxFaults

LEMMA Kinds == /\ \A a \in Actors : a # NoActor
               /\ \A d \in Downloads : d \notin Manual /\ d \notin Links
               /\ \A h \in Manual : h \notin Links
BY ModelStoreAssumption

\* The others keep their places and their locks; it is enough to look at the actor.
LEMMA BaseByFrame ==
  ASSUME BaseInvariant, NEW a \in Actors, a \in cast, Frame(a), CommandsTyped, LockTyped, FilesTyped,
         a \notin Links => UNCHANGED wsLock,
         \A l \in Links : wsLock = l /\ l # a => wsLock' = l,
         a \in Downloads => DownloadHeld(a)', a \in Manual => ManualHeld(a)', a \in Links => LinkHeld(a)'
  PROVE  BaseInvariant'
<1> USE DEF BaseInvariant
<1>1. TypeOK'
  BY DEF TypeOK, Frame, CommandsTyped, LockTyped, FilesTyped, Places, Inside, Outside, Answers
<1>2. ASSUME NEW b \in Actors \ {a}, NEW m \in Models, lock[m] = b PROVE lock'[m] = b
  BY <1>2, Kinds DEF Frame
<1>3. \A b \in Actors : queue[b] # <<>> => M(b) \in Models
  BY HeadTailProperties DEF TypeOK
<1>4. \A b \in Actors \ {a} : pc'[b] = pc[b] /\ queue'[b] = queue[b] /\ M(b)' = M(b) /\ answer'[b] = answer[b]
  BY DEF Frame
<1>5. ASSUME NEW d \in Downloads, d # a PROVE DownloadHeld(d)'
  <2>1. DownloadHeld(d) /\ pc[d] \in Inside => lock'[M(d)] = d
    BY <1>2, <1>3, <1>5 DEF DownloadHeld, HeldInvariant, Inside
  <2>2. DownloadHeld(d)
    BY DEF HeldInvariant
  <2> QED BY <1>4, <1>5, <2>1, <2>2 DEF DownloadHeld
<1>6. ASSUME NEW h \in Manual, h # a PROVE ManualHeld(h)'
  <2>1. ManualHeld(h) /\ pc[h] = "manual" => lock'[M(h)] = h
    BY <1>2, <1>3, <1>6 DEF ManualHeld
  <2>2. ManualHeld(h)
    BY DEF HeldInvariant
  <2> QED BY <1>4, <1>6, <2>1, <2>2 DEF ManualHeld
<1>7. ASSUME NEW l \in Links, l # a PROVE LinkHeld(l)'
  BY <1>4, <1>7 DEF LinkHeld, HeldInvariant
<1>8. \A b \in Actors \ cast' : pc'[b] = "idle" /\ answer'[b] = "none"
  BY <1>4 DEF HeldInvariant, Frame
<1> QED BY <1>1, <1>5, <1>6, <1>7, <1>8 DEF HeldInvariant

-----------------------------------------------------------------------------
(* The steps of a download.                                                 *)

\* Where a step leaves the download, and the only files it can have touched.
Moved(d) ==
  /\ Frame(d) /\ CommandsTyped /\ LockTyped /\ DownloadHeld(d)' /\ FilesTyped
  /\ UNCHANGED <<seed, link, wsLock, cast, kills>>

LEMMA TypedContents ==
  TypeOK => /\ \A m \in Models : final[m] \in Contents /\ tmp[m] \in Contents \ {"dir"}
            /\ \A c \in Served : c # "error" => c \in Contents \ {"dir"}
            /\ \A a \in Actors : queue[a] # <<>> => M(a) \in Models
BY ModelStoreAssumption, HeadTailProperties DEF TypeOK, Contents

LEMMA FilesKept ==
  ASSUME TypeOK, UNCHANGED <<files, seed, link, wsLock, kills, faults>>
  PROVE  FilesTyped
BY DEF TypeOK, FilesTyped, files

LEMMA ReturnMoves ==
  ASSUME BaseInvariant, NEW d \in Downloads, NEW what \in Answers, Return(d, what), FilesTyped,
         UNCHANGED <<seed, link, wsLock, cast, kills>>
  PROVE  Moved(d) /\ pc'[d] = "idle" /\ answer'[d] = what /\ UNCHANGED asked
<1>1. Frame(d) /\ CommandsTyped /\ LockTyped /\ pc'[d] = "idle" /\ answer'[d] = what
  BY ReturnFrames DEF BaseInvariant
<1>2. DownloadHeld(d)'
  BY <1>1 DEF DownloadHeld, Inside, Outside
<1> QED BY <1>1, <1>2 DEF Moved, Return

LEMMA StepMoves ==
  ASSUME BaseInvariant, NEW d \in Downloads, NEW from \in (Inside \cup Outside) \ {"idle"},
         NEW to \in (Inside \cup Outside) \ {"idle"}, Step(d, from, to),
         to \in Inside => from \in Inside, FilesTyped,
         UNCHANGED <<lock, seed, link, wsLock, cast, kills>>
  PROVE  Moved(d) /\ pc[d] = from /\ pc'[d] = to /\ UNCHANGED <<queue, asked, answer>>
<1>1. /\ Frame(d) /\ CommandsTyped /\ LockTyped /\ pc[d] = from /\ pc'[d] = to
      /\ UNCHANGED <<queue, asked, answer>>
  BY StepFrames DEF BaseInvariant, Places
<1>2. DownloadHeld(d)'
  BY <1>1 DEF DownloadHeld, BaseInvariant, HeldInvariant
<1> QED BY <1>1, <1>2 DEF Moved

LEMMA ItemDoneMoves ==
  ASSUME BaseInvariant, NEW d \in Downloads, pc[d] # "idle", ItemDone(d), FilesTyped,
         UNCHANGED <<seed, link, wsLock, cast, kills>>
  PROVE  /\ Moved(d) /\ UNCHANGED asked
         /\ \/ pc'[d] = "idle" /\ Len(queue[d]) = 1 /\ answer'[d] = "ok"
            \/ pc'[d] = "check" /\ queue'[d] = Tail(queue[d]) /\ queue'[d] # <<>> /\ answer'[d] = answer[d]
<1>1. queue[d] # <<>>
  BY DEF BaseInvariant, HeldInvariant, DownloadHeld
<1>2. /\ Frame(d) /\ CommandsTyped /\ LockTyped
      /\ \/ pc'[d] = "idle" /\ Len(queue[d]) = 1 /\ answer'[d] = "ok" /\ queue'[d] = <<>>
         \/ pc'[d] = "check" /\ queue'[d] = Tail(queue[d]) /\ queue'[d] # <<>> /\ answer'[d] = answer[d]
  BY <1>1, ItemDoneFrames DEF BaseInvariant
<1>3. DownloadHeld(d)'
  BY <1>2 DEF DownloadHeld, Inside, Outside
<1>4. UNCHANGED asked
  BY DEF ItemDone, Return
<1> QED BY <1>2, <1>3, <1>4 DEF Moved

LEMMA AskMoves ==
  ASSUME BaseInvariant, NEW d \in Downloads, NEW models \in Seq(Models), Ask(d, models)
  PROVE  /\ Moved(d) /\ UNCHANGED files /\ pc[d] = "idle" /\ pc'[d] = "check" /\ queue'[d] = models
         /\ asked'[d] = Range(models) /\ answer'[d] = "none"
<1> USE DEF BaseInvariant
<1>1. CommandsTyped /\ LockTyped
  <2>1. Range(models) \subseteq Models
    BY LenProperties DEF Range
  <2> QED BY <2>1 DEF Ask, TypeOK, CommandsTyped, LockTyped, Places, Inside, Outside, Answers
<1>2. /\ pc[d] = "idle" /\ pc'[d] = "check" /\ queue'[d] = models
      /\ asked'[d] = Range(models) /\ answer'[d] = "none"
      /\ UNCHANGED <<lock, files, seed, link, wsLock, cast, kills, faults>>
  BY DEF Ask, merge, bounds, TypeOK
<1>3. Frame(d)
  BY DEF Ask, bounds, Frame, TypeOK
<1>4. DownloadHeld(d)'
  BY <1>2 DEF Ask, DownloadHeld, Inside, Outside
<1> QED BY <1>1, <1>2, <1>3, <1>4, FilesKept DEF Moved

\* Every request names models, those that missing listed in the workflow's order.
LEMMA AsksMove ==
  ASSUME BaseInvariant, NEW d \in Downloads, DownloadWorkflow(d) \/ DownloadMissing(d) \/ DownloadModel(d)
  PROVE  \E models \in Seq(Models) : Ask(d, models)
<1>1. CASE DownloadWorkflow(d)
  BY <1>1, ModelStoreAssumption DEF DownloadWorkflow
<1>2. CASE DownloadModel(d)
  <2>1. PICK m \in Models : Ask(d, <<m>>)
    BY <1>2 DEF DownloadModel
  <2>2. <<m>> \in Seq(Models)
    OBVIOUS
  <2> QED BY <2>1, <2>2
<1>3. CASE DownloadMissing(d)
  <2> DEFINE listed == {i \in DOMAIN Workflow : Workflow[i] \in Actionable}
             n == Cardinality(listed)
  <2>1. PICK at \in [1..n -> listed] : Ask(d, [k \in DOMAIN at |-> Workflow[at[k]]])
    BY <1>3 DEF DownloadMissing
  <2>2. n \in Nat
    <3>1. DOMAIN Workflow = 1..Len(Workflow) /\ Len(Workflow) \in Nat
      BY ModelStoreAssumption, LenProperties
    <3>2. IsFiniteSet(1..Len(Workflow))
      BY <3>1, FS_Interval
    <3>3. listed \in SUBSET (1..Len(Workflow))
      BY <3>1
    <3> QED BY <3>2, <3>3, FS_Subset, FS_CardinalityType
  <2>3. \A i \in listed : Workflow[i] \in Models
    BY ModelStoreAssumption, LenProperties
  <2> HIDE DEF listed, n
  <2>4. DOMAIN at = 1..n /\ [k \in DOMAIN at |-> Workflow[at[k]]] \in [1..n -> Models]
    BY <2>1, <2>3
  <2>5. [k \in DOMAIN at |-> Workflow[at[k]]] \in Seq(Models)
    BY <2>2, <2>4, SeqDef
  <2> QED BY <2>1, <2>5
<1> QED BY <1>1, <1>2, <1>3

LEMMA DownloadMoves ==
  ASSUME BaseInvariant, NEW d \in Downloads, Download(d)
  PROVE  Moved(d)
<1> USE DEF BaseInvariant
<1> DEFINE m == M(d)
<1>0. pc[d] # "idle"
  BY DEF Download, Look, VerifyExisting, TakeLock, LocalMissing, ClearTmp, OpenTmp, CopyToTmp, VerifyTmp,
     ReplaceFinal, CleanTmp, HubFetch, HubVerify, HubUnlink, FinalVerify, Step
<1>1. m \in Models /\ final[m] \in Contents /\ tmp[m] \in Contents \ {"dir"} /\ lock \in [Models -> Actors \cup {NoActor}]
  BY <1>0, TypedContents DEF HeldInvariant, DownloadHeld, TypeOK
<1>2. UNCHANGED <<files, merge, bounds>> => FilesTyped /\ UNCHANGED <<seed, link, wsLock, cast, kills>>
  BY FilesKept DEF merge, bounds
<1>3. \A what \in Answers : Return(d, what) /\ UNCHANGED <<files, merge, bounds>> => Moved(d)
  BY <1>2, ReturnMoves
<1>4. Fail(d) => Moved(d)
  BY <1>3 DEF Fail, Answers
<1>5. ASSUME NEW c \in Contents \ {"dir"}, PutTmp(m, c), UNCHANGED <<merge, kills>>, faults' \in 0..MaxFaults
      PROVE  FilesTyped
  BY <1>1, <1>5 DEF PutTmp, merge, TypeOK, FilesTyped
<1>6. \A c \in Served : Serve(d, c) => faults' \in 0..MaxFaults /\ UNCHANGED <<cast, kills>>
  <2>1. MaxFaults \in Nat /\ faults \in 0..MaxFaults
    BY ModelStoreAssumption DEF TypeOK
  <2> QED BY <2>1 DEF Serve
<1>7. CASE Look(d)
  <2>1. UNCHANGED <<lock, files, merge, bounds>>
    BY <1>7 DEF Look
  <2>2. \E from \in {"check", "recheck"}, to \in {"lock", "fetch", "found"} :
          Step(d, from, to) /\ (to \in Inside => from \in Inside)
    BY <1>7 DEF Look, Inside
  <2> QED BY <1>2, <2>1, <2>2, StepMoves DEF Inside, Outside
<1>8. CASE VerifyExisting(d) \/ FinalVerify(d)
  <2>1. CASE ItemDone(d) /\ UNCHANGED <<files, merge, bounds>>
    BY <1>0, <1>2, <2>1, ItemDoneMoves
  <2> QED BY <1>4, <1>8, <2>1 DEF VerifyExisting, FinalVerify
<1>9. CASE TakeLock(d)
  <2>1. CASE lock[m] = NoActor /\ Step(d, "lock", "recheck") /\ lock' = [lock EXCEPT ![m] = d]
             /\ UNCHANGED <<files, merge, bounds>>
    <3> USE <2>1
    <3>1. CommandsTyped /\ LockTyped
      BY <1>1 DEF Step, TypeOK, CommandsTyped, LockTyped, Places, Inside, Outside, Answers
    <3>2. Frame(d)
      BY <1>1 DEF Step, TypeOK, Frame, bounds
    <3>3. DownloadHeld(d)'
      <4>1. pc'[d] = "recheck" /\ queue' = queue /\ lock'[m] = d /\ M(d)' = m
        BY <1>1 DEF Step, TypeOK
      <4>2. queue[d] # <<>>
        BY <1>0 DEF HeldInvariant, DownloadHeld
      <4> QED BY <4>1, <4>2 DEF DownloadHeld, Inside
    <3> QED BY <1>2, <3>1, <3>2, <3>3 DEF Moved
  <2> QED BY <1>4, <1>9, <2>1 DEF TakeLock
<1>10. CASE LocalMissing(d)
  <2>1. Serve(d, "error") /\ "error" \in Served /\ Return(d, "failed") /\ UNCHANGED <<files, merge>>
    BY <1>10 DEF LocalMissing, Serve
  <2>2. FilesTyped /\ UNCHANGED <<seed, link, wsLock, cast, kills>>
    BY <1>6, <2>1 DEF TypeOK, FilesTyped, files, merge
  <2> QED BY <2>1, <2>2, ReturnMoves DEF Answers
<1>11. CASE ClearTmp(d) \/ OpenTmp(d)
  <2>1. /\ Step(d, "fetch", "open") \/ Step(d, "open", "copy")
        /\ \E c \in {"absent", "short"} : PutTmp(m, c)
        /\ UNCHANGED <<lock, merge, bounds>>
    BY <1>11 DEF ClearTmp, OpenTmp
  <2>2. FilesTyped
    BY <1>5, <2>1 DEF Contents, bounds, TypeOK
  <2> QED BY <2>1, <2>2, StepMoves DEF Inside, Outside, merge, bounds
<1>12. CASE CopyToTmp(d)
  <2>1. PICK c \in Served : /\ Serve(d, c) /\ UNCHANGED <<lock, merge>>
                            /\ IF c = "error" THEN Step(d, "copy", "clean") /\ UNCHANGED files
                               ELSE Step(d, "copy", "verify") /\ PutTmp(m, c)
    BY <1>12 DEF CopyToTmp
  <2>2. faults' \in 0..MaxFaults /\ UNCHANGED <<cast, kills>>
    BY <1>6, <2>1
  <2>3. FilesTyped
    <3>1. CASE c = "error"
      BY <2>1, <2>2, <3>1 DEF TypeOK, FilesTyped, files, merge
    <3>2. CASE c # "error"
      BY <1>5, <2>1, <2>2, <3>2, TypedContents
    <3> QED BY <3>1, <3>2
  <2>4. Step(d, "copy", "clean") \/ Step(d, "copy", "verify")
    BY <2>1
  <2> QED BY <2>1, <2>2, <2>3, <2>4, StepMoves DEF Inside, Outside, merge
<1>13. CASE VerifyTmp(d) \/ HubVerify(d)
  <2>1. UNCHANGED <<lock, files, merge, bounds>>
    BY <1>13 DEF VerifyTmp, HubVerify
  <2>2. \E from \in {"verify", "hub_verify"}, to \in {"replace", "clean", "final", "hub_unlink"} : Step(d, from, to)
    BY <1>13 DEF VerifyTmp, HubVerify
  <2> QED BY <1>2, <2>1, <2>2, StepMoves DEF Inside, Outside
<1>14. CASE ReplaceFinal(d)
  <2>0. UNCHANGED <<seed, link, wsLock, cast, kills, faults>>
    BY <1>14 DEF ReplaceFinal, merge, bounds
  <2>1. FilesTyped
    <3>1. CASE UNCHANGED files
      BY <2>0, <3>1, FilesKept
    <3>2. CASE PutFinal(d, tmp[m]) /\ tmp' = [tmp EXCEPT ![m] = "absent"]
      <4>1. /\ final' \in [Models -> Contents] /\ tmp' \in [Models -> Contents \ {"dir"}]
            /\ origin' \in [Models -> Actors \cup {NoActor}]
        BY <1>1, <3>2 DEF PutFinal, TypeOK, Contents
      <4> QED BY <2>0, <4>1 DEF TypeOK, FilesTyped
    <3> QED BY <1>14, <3>1, <3>2 DEF ReplaceFinal
  <2>2. Step(d, "replace", "clean") \/ Step(d, "replace", "final")
    BY <1>14 DEF ReplaceFinal
  <2> QED BY <1>14, <2>1, <2>2, StepMoves DEF ReplaceFinal, Inside, Outside, merge, bounds
<1>15. CASE CleanTmp(d)
  <2>1. FilesTyped
    BY <1>5, <1>15 DEF CleanTmp, Contents, bounds, TypeOK
  <2> QED BY <1>15, <2>1, ReturnMoves DEF CleanTmp, Answers, merge, bounds
<1>16. CASE HubFetch(d)
  <2>1. PICK c \in Served : /\ Serve(d, c) /\ UNCHANGED merge
                            /\ IF c = "error" \/ final[m] = "dir" THEN Return(d, "failed") /\ UNCHANGED files
                               ELSE Step(d, "fetch", "hub_verify") /\ PutFinal(d, c) /\ UNCHANGED <<tmp, lock>>
    BY <1>16 DEF HubFetch
  <2>2. faults' \in 0..MaxFaults /\ UNCHANGED <<cast, kills>>
    BY <1>6, <2>1
  <2>3. CASE c = "error" \/ final[m] = "dir"
    <3>1. FilesTyped
      BY <2>1, <2>2, <2>3 DEF TypeOK, FilesTyped, files, merge
    <3> QED BY <2>1, <2>2, <2>3, <3>1, ReturnMoves DEF Answers, merge
  <2>4. CASE ~(c = "error" \/ final[m] = "dir")
    <3>1. FilesTyped
      BY <1>1, <2>1, <2>2, <2>4, TypedContents DEF PutFinal, TypeOK, FilesTyped, merge
    <3> QED BY <2>1, <2>2, <2>4, <3>1, StepMoves DEF Inside, Outside, merge
  <2> QED BY <2>3, <2>4
<1>17. CASE HubUnlink(d)
  <2>1. FilesTyped
    BY <1>1, <1>17 DEF HubUnlink, TypeOK, FilesTyped, merge, bounds, Contents
  <2> QED BY <1>17, <2>1, ReturnMoves DEF HubUnlink, Answers, merge, bounds
<1> QED BY <1>7, <1>8, <1>9, <1>10, <1>11, <1>12, <1>13, <1>14, <1>15, <1>16, <1>17 DEF Download

-----------------------------------------------------------------------------
(* The steps of the others, and the base of all that follows.               *)

LEMMA ManualBase ==
  ASSUME BaseInvariant, NEW h \in Manual \cap cast, ManualStart(h) \/ ManualFetch(h)
  PROVE  BaseInvariant' /\ Frame(h)
<1> USE DEF BaseInvariant
<1>0. h \in Manual /\ h \in Actors /\ h \notin Links /\ h \notin Downloads /\ h # NoActor
  BY Kinds
<1>1. CASE ManualStart(h)
  <2>1. PICK m \in Models :
          /\ At(h, "idle")
          /\ IF lock[m] = NoActor
             THEN /\ Goto(h, "manual") /\ lock' = [lock EXCEPT ![m] = h]
                  /\ queue' = [queue EXCEPT ![h] = <<m>>] /\ UNCHANGED answer
             ELSE answer' = [answer EXCEPT ![h] = "failed"] /\ UNCHANGED <<pc, queue, lock>>
          /\ UNCHANGED <<asked, files, merge, bounds>>
    BY <1>1 DEF ManualStart
  <2>2. FilesTyped /\ UNCHANGED <<wsLock, cast>>
    BY <2>1, FilesKept DEF merge, bounds
  <2>3. CASE lock[m] = NoActor
    <3>0. <<m>> \in Seq(Models) /\ Head(<<m>>) = m /\ <<m>> # <<>>
      OBVIOUS
    <3>4. /\ pc' = [pc EXCEPT ![h] = "manual"] /\ lock' = [lock EXCEPT ![m] = h]
          /\ queue' = [queue EXCEPT ![h] = <<m>>] /\ UNCHANGED <<asked, answer>>
      BY <2>1, <2>3
    <3>5. CommandsTyped
      BY <1>0, <3>0, <3>4 DEF TypeOK, CommandsTyped, Places, Inside, Outside, Answers
    <3>6. LockTyped
      BY <1>0, <3>4 DEF TypeOK, LockTyped
    <3>1. CommandsTyped /\ LockTyped
      BY <3>5, <3>6
    <3>2. Frame(h)
      BY <1>0, <2>1, <2>2, <2>3 DEF TypeOK, Frame
    <3>3. ManualHeld(h)'
      <4>1. pc'[h] = "manual" /\ queue'[h] = <<m>> /\ lock'[m] = h
        BY <1>0, <2>1, <2>3 DEF TypeOK
      <4> QED BY <4>1, <3>0 DEF ManualHeld
    <3> QED BY <1>0, <2>2, <3>1, <3>2, <3>3, BaseByFrame
  <2>4. CASE lock[m] # NoActor
    <3>4. answer' = [answer EXCEPT ![h] = "failed"] /\ UNCHANGED <<pc, queue, asked, lock>>
      BY <2>1, <2>4
    <3>5. CommandsTyped
      BY <1>0, <3>4 DEF TypeOK, CommandsTyped, Places, Inside, Outside, Answers
    <3>1. CommandsTyped /\ LockTyped
      BY <3>4, <3>5 DEF TypeOK, LockTyped
    <3>2. Frame(h)
      BY <1>0, <2>1, <2>2, <2>4 DEF TypeOK, Frame
    <3>3. ManualHeld(h)'
      BY <2>1, <2>4 DEF ManualHeld, HeldInvariant
    <3> QED BY <1>0, <2>2, <3>1, <3>2, <3>3, BaseByFrame
  <2> QED BY <2>3, <2>4
<1>2. CASE ManualFetch(h)
  <2>1. PICK c \in Served :
          /\ At(h, "manual") /\ Serve(h, c) /\ UNCHANGED merge
          /\ IF c = "error" \/ final[M(h)] = "dir" THEN Return(h, "failed") /\ UNCHANGED files
             ELSE Return(h, "ok") /\ PutFinal(h, c) /\ UNCHANGED tmp
    BY <1>2 DEF ManualFetch
  <2>2. faults' \in 0..MaxFaults /\ UNCHANGED <<cast, kills>>
    <3>1. MaxFaults \in Nat /\ faults \in 0..MaxFaults
      BY ModelStoreAssumption DEF TypeOK
    <3> QED BY <2>1, <3>1 DEF Serve
  <2>3. M(h) \in Models
    BY <1>0, <2>1, TypedContents DEF HeldInvariant, ManualHeld
  <2>4. \E what \in Answers : Return(h, what)
    BY <2>1 DEF Answers
  <2>5. Frame(h) /\ CommandsTyped /\ LockTyped /\ pc'[h] = "idle"
    BY <1>0, <2>2, <2>4, ReturnFrames
  <2>6. FilesTyped
    <3>1. CASE UNCHANGED files
      BY <2>1, <2>2, <3>1 DEF TypeOK, FilesTyped, files, merge
    <3>2. CASE c # "error" /\ PutFinal(h, c) /\ UNCHANGED tmp
      BY <1>0, <2>1, <2>2, <2>3, <3>2, TypedContents DEF TypeOK, FilesTyped, PutFinal, merge
    <3> QED BY <2>1, <3>1, <3>2
  <2>7. ManualHeld(h)' /\ UNCHANGED wsLock
    BY <2>1, <2>5 DEF ManualHeld, merge
  <2> QED BY <1>0, <2>5, <2>6, <2>7, BaseByFrame
<1> QED BY <1>1, <1>2

\* What a merge does to its own place and to the locks.
LEMMA LinkReturnFrames ==
  ASSUME TypeOK, NEW l \in Links, NEW what \in Answers, LinkReturn(l, what), UNCHANGED <<lock, cast>>
  PROVE  /\ Frame(l) /\ CommandsTyped /\ LockTyped /\ pc'[l] = "idle" /\ answer'[l] = what
         /\ wsLock' = NoActor
<1>1. CommandsTyped /\ LockTyped
  BY EmptySeq DEF LinkReturn, TypeOK, CommandsTyped, LockTyped, Places, Inside, Outside, Answers
<1>2. Frame(l)
  BY DEF LinkReturn, TypeOK, Frame
<1> QED BY <1>1, <1>2 DEF LinkReturn, TypeOK

Merges(l) == Link(l) \/ LinkRaises(l)

LEMMA LinkBase ==
  ASSUME BaseInvariant, NEW l \in Links \cap cast, Merges(l)
  PROVE  BaseInvariant' /\ Frame(l) /\ UNCHANGED <<cast, kills>>
<1> USE DEF BaseInvariant
<1>0. l \in Links /\ l \in Actors /\ l \notin Downloads /\ l \notin Manual /\ l # NoActor
  BY Kinds
<1>00. pc[l] # "idle" => wsLock = l
  BY DEF HeldInvariant, LinkHeld
<1>1. ASSUME NEW what \in Answers, LinkReturn(l, what), pc[l] # "idle",
             FilesTyped, UNCHANGED <<lock, cast, kills>>
      PROVE  BaseInvariant' /\ Frame(l)
  <2>1. Frame(l) /\ CommandsTyped /\ LockTyped /\ pc'[l] = "idle"
    BY <1>1, LinkReturnFrames
  <2>2. LinkHeld(l)'
    BY <2>1 DEF LinkHeld
  <2> QED BY <1>0, <1>00, <1>1, <2>1, <2>2, BaseByFrame
<1>2. ASSUME NEW from \in {"validate", "merge", "unlink", "rename", "link"}, NEW to \in {"merge", "link"},
             Step(l, from, to), FilesTyped, UNCHANGED <<lock, wsLock, cast, kills>>
      PROVE  BaseInvariant' /\ Frame(l)
  <2>1. Frame(l) /\ CommandsTyped /\ LockTyped /\ pc[l] = from /\ pc'[l] = to
    BY <1>0, <1>2, StepFrames DEF Places
  <2>2. LinkHeld(l)'
    BY <1>00, <1>2, <2>1 DEF LinkHeld
  <2> QED BY <1>0, <1>2, <2>1, <2>2, BaseByFrame
<1>3. CASE LinkStart(l)
  <2>1. CommandsTyped /\ LockTyped /\ Frame(l) /\ FilesTyped
    <3>1. CommandsTyped /\ LockTyped
      BY <1>0, <1>3 DEF LinkStart, TypeOK, CommandsTyped, LockTyped, Places, Inside, Outside, Answers
    <3>2. Frame(l)
      BY <1>0, <1>3 DEF LinkStart, TypeOK, Frame, bounds
    <3>3. FilesTyped
      BY <1>0, <1>3 DEF LinkStart, TypeOK, FilesTyped, files, bounds
    <3> QED BY <3>1, <3>2, <3>3
  <2>2. LinkHeld(l)'
    BY <1>0, <1>3 DEF LinkStart, LinkHeld, TypeOK
  <2>3. wsLock = NoActor /\ UNCHANGED <<cast, kills>>
    BY <1>3 DEF LinkStart, bounds
  <2> QED BY <1>0, <2>1, <2>2, <2>3, BaseByFrame, Kinds
<1>4. CASE ValidateSeed(l)
  <2>1. UNCHANGED <<lock, files, seed, link, bounds>> /\ pc[l] = "validate" /\ UNCHANGED <<cast, kills>>
    BY <1>4 DEF ValidateSeed, bounds
  <2>2. FilesTyped
    <3>1. wsLock' \in {wsLock, NoActor}
      BY <1>4 DEF ValidateSeed, LinkReturn
    <3> QED BY <2>1, <3>1 DEF TypeOK, FilesTyped, files, bounds
  <2>3. \/ \E what \in Answers : LinkReturn(l, what)
        \/ UNCHANGED wsLock /\ \E to \in {"merge", "link"} : Step(l, "validate", to)
    BY <1>4 DEF ValidateSeed, Answers
  <2> QED BY <1>1, <1>2, <2>1, <2>2, <2>3
<1>5. CASE MergeOne(l)
  <2>1. PICK m \in Models :
          /\ At(l, "merge")
          /\ \/ LinkReturn(l, "failed")
             \/ /\ Goto(l, IF final[m] = "absent" THEN "rename" ELSE "unlink")
                /\ queue' = [queue EXCEPT ![l] = <<m>>] /\ UNCHANGED <<asked, answer, wsLock>>
          /\ UNCHANGED <<lock, files, seed, link, bounds>>
    BY <1>5 DEF MergeOne
  <2>2. CASE LinkReturn(l, "failed")
    <3>1. FilesTyped /\ UNCHANGED <<cast, kills>>
      BY <2>1, <2>2 DEF LinkReturn, TypeOK, FilesTyped, files, bounds
    <3> QED BY <1>1, <2>1, <2>2, <3>1 DEF Answers
  <2>3. CASE /\ Goto(l, IF final[m] = "absent" THEN "rename" ELSE "unlink")
             /\ queue' = [queue EXCEPT ![l] = <<m>>] /\ UNCHANGED <<asked, answer, wsLock>>
    <3>0. <<m>> \in Seq(Models) /\ <<m>> # <<>>
      OBVIOUS
    <3>1. CommandsTyped /\ LockTyped
      BY <1>0, <2>1, <2>3, <3>0 DEF TypeOK, CommandsTyped, LockTyped, Places, Inside, Outside, Answers
    <3>2. Frame(l) /\ UNCHANGED <<cast, kills>>
      BY <1>0, <2>1, <2>3 DEF TypeOK, Frame, bounds
    <3>3. FilesTyped
      BY <2>1, <2>3 DEF TypeOK, FilesTyped, files, bounds
    <3>4. LinkHeld(l)'
      BY <1>0, <1>00, <2>1, <2>3, <3>0 DEF TypeOK, LinkHeld
    <3> QED BY <1>0, <2>3, <3>1, <3>2, <3>3, <3>4, BaseByFrame
  <2> QED BY <2>1, <2>2, <2>3
<1>10. CASE MergeDir(l)
  <2>1. PICK m \in Models :
          /\ At(l, "merge")
          /\ \/ /\ final' = [final EXCEPT ![m] = "dir"] /\ origin' = [origin EXCEPT ![m] = l]
                /\ UNCHANGED <<commands, tmp, wsLock>>
             \/ LinkReturn(l, "failed") /\ UNCHANGED files
          /\ UNCHANGED <<lock, seed, link, bounds>>
    BY <1>10 DEF MergeDir
  <2>2. CASE LinkReturn(l, "failed") /\ UNCHANGED files
    <3>1. FilesTyped /\ UNCHANGED <<cast, kills>>
      BY <2>1, <2>2 DEF LinkReturn, TypeOK, FilesTyped, files, bounds
    <3> QED BY <1>1, <2>1, <2>2, <3>1 DEF Answers
  <2>3. CASE /\ final' = [final EXCEPT ![m] = "dir"] /\ origin' = [origin EXCEPT ![m] = l]
             /\ UNCHANGED <<commands, tmp, wsLock>>
    <3>1. CommandsTyped /\ LockTyped
      BY <2>1, <2>3 DEF commands, TypeOK, CommandsTyped, LockTyped, Places, Inside, Outside, Answers
    <3>2. Frame(l) /\ UNCHANGED <<cast, kills>>
      BY <2>1, <2>3 DEF commands, Frame, bounds
    <3>3. FilesTyped
      BY <1>0, <2>1, <2>3 DEF TypeOK, FilesTyped, bounds, Contents
    <3>4. LinkHeld(l)'
      BY <2>1, <2>3 DEF commands, LinkHeld, HeldInvariant
    <3> QED BY <1>0, <2>3, <3>1, <3>2, <3>3, <3>4, BaseByFrame
  <2> QED BY <2>1, <2>2, <2>3
<1>11. CASE UnlinkSeed(l)
  <2>1. M(l) \in Models
    BY <1>0, <1>11, TypedContents DEF UnlinkSeed, Step, HeldInvariant, LinkHeld
  <2>2. FilesTyped
    BY <1>0, <1>11, <2>1 DEF UnlinkSeed, TypeOK, FilesTyped, files, bounds, Contents
  <2> QED BY <1>2, <1>11, <2>2 DEF UnlinkSeed, bounds
<1>12. CASE LinkRaises(l)
  <2>1. MaxFaults \in Nat /\ faults \in 0..MaxFaults
    BY ModelStoreAssumption DEF TypeOK
  <2>2. FilesTyped
    BY <1>12, <2>1 DEF LinkRaises, LinkReturn, TypeOK, FilesTyped, files
  <2> QED BY <1>1, <1>12, <2>2 DEF LinkRaises, Answers
<1>6. CASE RenameSeed(l)
  <2>1. M(l) \in Models
    BY <1>0, <1>6, TypedContents DEF RenameSeed, Step, HeldInvariant, LinkHeld
  <2>2. FilesTyped
    BY <1>0, <1>6, <2>1 DEF RenameSeed, PutFinal, TypeOK, FilesTyped, bounds, Contents
  <2> QED BY <1>2, <1>6, <2>2 DEF RenameSeed, bounds
<1>7. CASE RemoveSeed(l)
  <2>1. FilesTyped
    BY <1>7 DEF RemoveSeed, TypeOK, FilesTyped, files, bounds, Contents
  <2> QED BY <1>2, <1>7, <2>1 DEF RemoveSeed, bounds
<1>8. CASE MakeLink(l)
  <2>1. FilesTyped
    BY <1>8 DEF MakeLink, LinkReturn, TypeOK, FilesTyped, files, bounds
  <2> QED BY <1>1, <1>8, <2>1 DEF MakeLink, bounds, Answers
<1>9. UNCHANGED <<cast, kills>>
  BY DEF Merges, Link, LinkStart, ValidateSeed, MergeDir, MergeOne, UnlinkSeed, RenameSeed, RemoveSeed,
     MakeLink, LinkRaises, bounds
<1> QED BY <1>3, <1>4, <1>5, <1>6, <1>7, <1>8, <1>9, <1>10, <1>11, <1>12 DEF Merges, Link

LEMMA KillBase ==
  ASSUME BaseInvariant, NEW a \in Actors, Kill(a)
  PROVE  BaseInvariant' /\ Frame(a) /\ a \in cast
<1> USE DEF BaseInvariant
<1>1. a \in cast
  BY DEF Kill, HeldInvariant
<1>2. Frame(a) /\ CommandsTyped /\ LockTyped /\ pc'[a] = "idle"
  BY ReturnFrames DEF Kill, Answers
<1>3. FilesTyped
  <2>1. MaxKills \in Nat /\ kills \in 0..MaxKills /\ kills < MaxKills /\ kills' = kills + 1
    BY ModelStoreAssumption DEF Kill, TypeOK
  <2> QED BY <2>1 DEF Kill, TypeOK, FilesTyped, files
<1>4. /\ a \notin Links => UNCHANGED wsLock
      /\ \A l \in Links : wsLock = l /\ l # a => wsLock' = l
  BY Kinds DEF Kill, TypeOK
<1>5. DownloadHeld(a)' /\ ManualHeld(a)' /\ LinkHeld(a)'
  BY <1>2 DEF DownloadHeld, ManualHeld, LinkHeld, Inside, Outside
<1> QED BY <1>1, <1>2, <1>3, <1>4, <1>5, BaseByFrame

LEMMA BaseInit == Init => BaseInvariant
<1> SUFFICES ASSUME Init PROVE BaseInvariant
  OBVIOUS
<1>1. TypeOK
  <2>1. /\ queue \in [Actors -> Seq(Models)] /\ asked \in [Actors -> SUBSET Models]
        /\ kills \in 0..MaxKills /\ faults \in 0..MaxFaults /\ cast \in Casts
    BY ModelStoreAssumption, EmptySeq DEF Init
  <2>2. /\ final \in [Models -> Contents] /\ tmp \in [Models -> Contents \ {"dir"}]
    BY ModelStoreAssumption DEF Init, Contents
  <2>3. seed \in [Models -> Contents] /\ link \in {"dir", "none", "link"}
    BY ModelStoreAssumption DEF Init, Contents
  <2>4. /\ lock \in [Models -> Actors \cup {NoActor}] /\ wsLock \in Links \cup {NoActor}
        /\ origin \in [Models -> Actors \cup {NoActor}]
    BY DEF Init
  <2>5. answer \in [Actors -> {"none", "ok", "failed", "killed"}]
    BY DEF Init
  <2> QED BY <2>1, <2>2, <2>3, <2>4, <2>5 DEF TypeOK, Init
<1>2. HeldInvariant
  BY DEF Init, HeldInvariant, DownloadHeld, ManualHeld, LinkHeld, Inside, Outside
<1> QED BY <1>1, <1>2 DEF BaseInvariant

Asks(d) == DownloadWorkflow(d) \/ DownloadMissing(d) \/ DownloadModel(d)

LEMMA BaseStep ==
  ASSUME BaseInvariant, Next
  PROVE  /\ BaseInvariant'
         /\ \/ \E d \in Downloads \cap cast : Moved(d) /\ (Asks(d) \/ Download(d))
            \/ \E h \in Manual \cap cast : Frame(h) /\ (ManualStart(h) \/ ManualFetch(h))
            \/ \E l \in Links \cap cast : Frame(l) /\ UNCHANGED <<cast, kills>> /\ Merges(l)
            \/ \E a \in Actors : a \in cast /\ Frame(a) /\ Kill(a)
<1>1. ASSUME NEW d \in Downloads \cap cast, Asks(d) \/ Download(d)
      PROVE  BaseInvariant' /\ Moved(d)
  <2>1. Moved(d)
    BY <1>1, AsksMove, AskMoves, DownloadMoves DEF Asks
  <2>2. d \in Actors /\ d \notin Links /\ d \notin Manual
    BY Kinds
  <2> QED BY <2>1, <2>2, BaseByFrame DEF Moved
<1> QED BY <1>1, ManualBase, LinkBase, KillBase DEF Next, Asks, Merges

LEMMA BaseNext == BaseInvariant /\ [Next]_vars => BaseInvariant'
<1> SUFFICES ASSUME BaseInvariant, [Next]_vars PROVE BaseInvariant'
  OBVIOUS
<1>1. CASE UNCHANGED vars
  <2> USE <1>1 DEF vars, commands, files, merge, bounds, BaseInvariant
  <2>1. TypeOK'
    BY DEF TypeOK
  <2>2. HeldInvariant'
    BY DEF HeldInvariant, DownloadHeld, ManualHeld, LinkHeld
  <2> QED BY <2>1, <2>2
<1> QED BY <1>1, BaseStep

LEMMA BaseAlways == Spec => []BaseInvariant
BY BaseInit, BaseNext, PTL DEF Spec

(* Every file, lock and place stays of its kind; a download is past the test  *)
(* under its lock only while it holds the lock of the model it works on.      *)
THEOREM TypeCorrect == Spec => [](TypeOK /\ HeldInvariant)
BY BaseAlways, PTL DEF BaseInvariant

-----------------------------------------------------------------------------
(* What is published was verified.                                          *)

\* No two actors are inside with the same model.
LEMMA OneInside ==
  ASSUME BaseInvariant, NEW d \in Downloads, pc[d] \in Inside
  PROVE  /\ M(d) \in Models
         /\ \A e \in Downloads \ {d} : pc[e] \in Inside => M(e) # M(d)
         /\ \A h \in Manual : pc[h] = "manual" => M(h) # M(d)
<1>1. M(d) \in Models
  BY TypedContents DEF BaseInvariant, HeldInvariant, DownloadHeld, Inside
<1>2. d \notin Manual
  BY Kinds
<1> QED BY <1>1, <1>2 DEF BaseInvariant, HeldInvariant, DownloadHeld, ManualHeld

\* What a download does to the files, and where it is when it does it.
Touches(d) ==
  \/ UNCHANGED files
  \/ /\ pc[d] = "fetch" /\ pc'[d] = "open" /\ tmp' = [tmp EXCEPT ![M(d)] = "absent"] /\ UNCHANGED <<final, origin>>
  \/ /\ pc[d] = "open" /\ pc'[d] = "copy" /\ tmp' = [tmp EXCEPT ![M(d)] = "short"] /\ UNCHANGED <<final, origin>>
  \/ /\ pc[d] = "copy" /\ pc'[d] = "verify" /\ UNCHANGED <<final, origin>>
     /\ \E c \in Contents : tmp' = [tmp EXCEPT ![M(d)] = c]
  \/ /\ pc[d] = "clean" /\ pc'[d] = "idle" /\ tmp' = [tmp EXCEPT ![M(d)] = "absent"] /\ UNCHANGED <<final, origin>>
  \/ /\ pc[d] = "replace" /\ pc'[d] = "final" /\ tmp' = [tmp EXCEPT ![M(d)] = "absent"]
     /\ final' = [final EXCEPT ![M(d)] = tmp[M(d)]] /\ origin' = [origin EXCEPT ![M(d)] = d]
  \/ /\ pc[d] = "fetch" /\ pc'[d] = "hub_verify" /\ UNCHANGED tmp /\ Source[M(d)] = "huggingface"
     /\ (\E c \in Contents : final' = [final EXCEPT ![M(d)] = c]) /\ origin' = [origin EXCEPT ![M(d)] = d]
  \/ /\ pc[d] = "hub_unlink" /\ pc'[d] = "idle" /\ UNCHANGED tmp
     /\ final' = [final EXCEPT ![M(d)] = "absent"] /\ origin' = [origin EXCEPT ![M(d)] = NoActor]

\* The places it can go to from the inside, and what it has tested on its way.
Goes(d) ==
  LET same == queue'[d] = queue[d] IN
  \/ /\ pc'[d] \in Outside /\ pc[d] \notin {"open", "copy", "verify", "replace"}
     /\ pc[d] = "clean" => tmp'[M(d)] = "absent"
  \/ pc[d] \in Outside /\ pc'[d] = "recheck" /\ same
  \/ pc[d] = "recheck" /\ pc'[d] = "fetch" /\ final[M(d)] = "absent" /\ UNCHANGED files /\ same
  \/ pc[d] = "fetch" /\ pc'[d] = "open" /\ same
  \/ pc[d] = "fetch" /\ pc'[d] = "hub_verify" /\ origin'[M(d)] = d /\ same /\ Source[M(d)] = "huggingface"
  \/ pc[d] = "open" /\ pc'[d] = "copy" /\ same
  \/ pc[d] = "copy" /\ pc'[d] \in {"verify", "clean"} /\ same
  \/ pc[d] = "verify" /\ pc'[d] = "clean" /\ UNCHANGED files /\ same
  \/ pc[d] = "verify" /\ pc'[d] = "replace" /\ Passes(M(d), tmp[M(d)]) /\ UNCHANGED files /\ same
  \/ pc[d] = "replace" /\ pc'[d] = "final" /\ origin'[M(d)] = d /\ tmp'[M(d)] = "absent" /\ same
  \/ pc[d] = "replace" /\ pc'[d] = "clean" /\ UNCHANGED files /\ same
  \/ pc[d] = "hub_verify" /\ pc'[d] = "final" /\ UNCHANGED files /\ same
  \/ pc[d] = "hub_verify" /\ pc'[d] = "hub_unlink" /\ ~Passes(M(d), final[M(d)]) /\ UNCHANGED files /\ same

LEMMA DownloadTouches ==
  ASSUME BaseInvariant, NEW d \in Downloads, Asks(d) \/ Download(d)
  PROVE  Touches(d) /\ Goes(d)
<1> USE DEF BaseInvariant
<1>0. /\ d \in Actors /\ (pc[d] # "idle" => M(d) \in Models)
      /\ tmp \in [Models -> Contents \ {"dir"}] /\ origin \in [Models -> Actors \cup {NoActor}]
  BY TypedContents DEF TypeOK, HeldInvariant, DownloadHeld
<1>1. ASSUME NEW from, NEW to, Step(d, from, to)
      PROVE  pc[d] = from /\ pc'[d] = to /\ queue'[d] = queue[d]
  BY <1>0, <1>1 DEF Step, TypeOK
<1>2. ASSUME NEW what, Return(d, what)
      PROVE  pc'[d] = "idle"
  BY <1>0, <1>2 DEF Return, TypeOK
<1>3. ItemDone(d) => pc'[d] \in {"idle", "check"}
  BY <1>0, <1>2 DEF ItemDone, TypeOK
<1>4. \A c \in Served : c # "error" => c \in Contents
  BY TypedContents
<1>5. CASE Asks(d)
  BY <1>5, AsksMove, AskMoves DEF Asks, Touches, Goes, Outside
<1>6. CASE Look(d)
  BY <1>1, <1>6 DEF Look, Touches, Goes, Outside
<1>7. CASE VerifyExisting(d) \/ FinalVerify(d)
  BY <1>2, <1>3, <1>7 DEF VerifyExisting, FinalVerify, Fail, Touches, Goes, Outside
<1>8. CASE TakeLock(d)
  BY <1>1, <1>2, <1>8 DEF TakeLock, Fail, Touches, Goes, Outside
<1>9. CASE LocalMissing(d)
  BY <1>2, <1>9 DEF LocalMissing, Touches, Goes, Outside
<1>10. CASE ClearTmp(d) \/ OpenTmp(d)
  BY <1>1, <1>10 DEF ClearTmp, OpenTmp, PutTmp, Touches, Goes
<1>11. CASE CopyToTmp(d)
  BY <1>1, <1>4, <1>11 DEF CopyToTmp, PutTmp, Touches, Goes
<1>12. CASE VerifyTmp(d) \/ HubVerify(d)
  BY <1>1, <1>12 DEF VerifyTmp, HubVerify, Touches, Goes
<1>13. CASE ReplaceFinal(d)
  BY <1>0, <1>1, <1>13 DEF ReplaceFinal, PutFinal, Touches, Goes
<1>14. CASE CleanTmp(d)
  BY <1>0, <1>2, <1>14 DEF CleanTmp, PutTmp, Touches, Goes, Outside
<1>15. CASE HubFetch(d)
  BY <1>0, <1>1, <1>2, <1>4, <1>15 DEF HubFetch, PutFinal, Touches, Goes, Outside
<1>16. CASE HubUnlink(d)
  BY <1>2, <1>16 DEF HubUnlink, Touches, Goes, Outside
<1> QED BY <1>5, <1>6, <1>7, <1>8, <1>9, <1>10, <1>11, <1>12, <1>13, <1>14, <1>15, <1>16 DEF Download

LEMMA InsideKept ==
  ASSUME BaseInvariant, NEW d \in Downloads, Moved(d), Touches(d),
         NEW e \in Downloads \ {d}
  PROVE  /\ pc'[e] = pc[e] /\ M(e)' = M(e) /\ queue'[e] = queue[e]
         /\ asked'[e] = asked[e] /\ answer'[e] = answer[e]
         /\ pc[e] \in Inside => final'[M(e)] = final[M(e)] /\ tmp'[M(e)] = tmp[M(e)] /\ origin'[M(e)] = origin[M(e)]
<1>1. pc'[e] = pc[e] /\ queue'[e] = queue[e] /\ asked'[e] = asked[e] /\ answer'[e] = answer[e]
  BY DEF Moved, Frame
<1>2. ASSUME pc[e] \in Inside
      PROVE  final'[M(e)] = final[M(e)] /\ tmp'[M(e)] = tmp[M(e)] /\ origin'[M(e)] = origin[M(e)]
  <2>1. M(e) \in Models /\ (pc[d] \in Inside => M(d) # M(e))
    BY <1>2, OneInside
  <2>2. CASE UNCHANGED files
    BY <2>2 DEF files
  <2>3. CASE pc[d] \in Inside
    BY <2>1, <2>3 DEF Touches, BaseInvariant, TypeOK, files
  <2> QED BY <2>2, <2>3 DEF Touches, Inside
<1> QED BY <1>1, <1>2

\* What anybody else does to the files; only a merge does so without the lock.
LEMMA OthersTouch ==
  ASSUME BaseInvariant, NEW a \in Actors,
         \/ a \in Manual \cap cast /\ (ManualStart(a) \/ ManualFetch(a))
         \/ a \in Links \cap cast /\ Merges(a)
         \/ Kill(a)
  PROVE  /\ UNCHANGED tmp
         /\ \A m \in Models : \/ final'[m] = final[m] /\ origin'[m] = origin[m]
                              \/ origin'[m] = a /\ a \in Links
                              \/ origin'[m] = a /\ a \in Manual /\ m = M(a) /\ pc[a] = "manual"
         /\ a \in Downloads => pc'[a] = "idle" /\ answer'[a] = "killed" /\ UNCHANGED files
<1> USE DEF BaseInvariant
<1>1. CASE a \in Manual \cap cast /\ (ManualStart(a) \/ ManualFetch(a))
  <2>1. a \notin Downloads
    BY <1>1, Kinds
  <2>2. CASE UNCHANGED files
    BY <2>1, <2>2 DEF files
  <2>3. CASE pc[a] = "manual" /\ UNCHANGED tmp /\ \E c \in Served : PutFinal(a, c)
    BY <1>1, <2>1, <2>3 DEF PutFinal, TypeOK
  <2> QED BY <1>1, <2>2, <2>3 DEF ManualStart, ManualFetch
<1>2. CASE a \in Links \cap cast /\ Merges(a)
  <2>1. a \notin Downloads
    BY <1>2, Kinds
  <2>2. CASE RenameSeed(a)
    BY <1>2, <2>1, <2>2 DEF RenameSeed, PutFinal, TypeOK
  <2>3. CASE UNCHANGED files
    BY <2>1, <2>3 DEF files
  <2>4. CASE MergeDir(a)
    BY <1>2, <2>1, <2>4 DEF MergeDir, TypeOK, files
  <2> QED BY <1>2, <2>2, <2>3, <2>4
       DEF Merges, Link, LinkStart, ValidateSeed, MergeOne, UnlinkSeed, RemoveSeed, MakeLink, LinkRaises
<1>3. CASE Kill(a)
  BY <1>3 DEF Kill, Return, TypeOK, files
<1> QED BY <1>1, <1>2, <1>3

\* Splits a step of the system for what follows.
Others(a) ==
  \/ a \in Manual \cap cast /\ (ManualStart(a) \/ ManualFetch(a))
  \/ a \in Links \cap cast /\ Merges(a)
  \/ Kill(a)

LEMMA Split ==
  ASSUME BaseInvariant, [Next]_vars
  PROVE  \/ \E d \in Downloads : d \in cast /\ Moved(d) /\ Touches(d) /\ Goes(d) /\ (Asks(d) \/ Download(d))
         \/ \E a \in Actors : a \in cast /\ Frame(a) /\ Others(a)
         \/ UNCHANGED vars
BY BaseStep, DownloadTouches DEF Others

LEMMA VerifiedNext == BaseInvariant /\ VerifiedInvariant /\ [Next]_vars => VerifiedInvariant'
<1> SUFFICES ASSUME BaseInvariant, VerifiedInvariant, [Next]_vars PROVE VerifiedInvariant'
  OBVIOUS
<1> USE DEF Passes, SizeOK, ShaOK
<1>1. ASSUME NEW d \in Downloads, Moved(d), Touches(d), Goes(d)
      PROVE  VerifiedInvariant'
  <2>0. d \in Actors /\ d # NoActor
    BY Kinds
  <2>1. ASSUME NEW e \in Downloads, pc'[e] = "replace" PROVE Passes(M(e), tmp[M(e)])'
    <3>1. CASE e = d
      <4>1. pc[d] = "verify" /\ Passes(M(d), tmp[M(d)]) /\ UNCHANGED files /\ queue'[d] = queue[d]
        BY <2>1, <3>1, <1>1 DEF Goes, Outside
      <4> QED BY <3>1, <4>1 DEF files
    <3>2. CASE e # d
      <4>1. pc[e] = "replace" /\ M(e)' = M(e) /\ tmp'[M(e)] = tmp[M(e)]
        BY <1>1, <2>1, <3>2, InsideKept DEF Inside
      <4> QED BY <4>1 DEF VerifiedInvariant
    <3> QED BY <3>1, <3>2
  <2>2. ASSUME NEW m \in Models, origin'[m] \in Downloads, Source[m] # "huggingface"
        PROVE  Passes(m, final'[m])
    <3>1. CASE final'[m] = final[m] /\ origin'[m] = origin[m]
      BY <2>2, <3>1 DEF VerifiedInvariant, PublishedIsVerified
    <3>2. CASE pc[d] = "replace" /\ m = M(d) /\ final'[m] = tmp[M(d)]
      BY <3>2 DEF VerifiedInvariant
    <3>3. CASE Source[M(d)] = "huggingface" /\ m = M(d)
      BY <2>2, <3>3
    <3>4. CASE origin'[m] = NoActor
      BY <2>2, <3>4, Kinds
    <3> QED BY <1>1, <3>1, <3>2, <3>3, <3>4 DEF Touches, BaseInvariant, TypeOK, files
  <2> QED BY <2>1, <2>2 DEF VerifiedInvariant, PublishedIsVerified
<1>2. ASSUME NEW a \in Actors, Frame(a), Others(a)
      PROVE  VerifiedInvariant'
  <2>1. /\ UNCHANGED tmp
        /\ \A m \in Models : \/ final'[m] = final[m] /\ origin'[m] = origin[m]
                             \/ origin'[m] = a /\ a \notin Downloads
        /\ a \in Downloads => pc'[a] = "idle"
    BY <1>2, OthersTouch, Kinds DEF Others
  <2>2. \A e \in Downloads : pc'[e] = "replace" => pc[e] = "replace" /\ M(e)' = M(e)
    BY <1>2, <2>1 DEF Frame
  <2> QED BY <2>1, <2>2 DEF VerifiedInvariant, PublishedIsVerified
<1>3. CASE UNCHANGED vars
  BY <1>3 DEF vars, commands, files, VerifiedInvariant, PublishedIsVerified
<1> QED BY <1>1, <1>2, <1>3, Split

(* The bytes a catalogue download put at a destination pass the verification, *)
(* whoever else downloads, merges or dies: from the test of the temporary     *)
(* file to its renaming the lock keeps every other writer of it away.         *)
THEOREM PublishedWasVerified == Spec => []PublishedIsVerified
<1>1. Init => VerifiedInvariant
  BY Kinds DEF Init, VerifiedInvariant, PublishedIsVerified
<1>2. VerifiedInvariant => PublishedIsVerified
  BY DEF VerifiedInvariant
<1> QED BY <1>1, <1>2, VerifiedNext, BaseAlways, PTL DEF Spec

-----------------------------------------------------------------------------
(* What is missing is listed.                                               *)

LEMMA TmpNext == BaseInvariant /\ TmpInvariant /\ [Next]_vars => TmpInvariant'
<1> SUFFICES ASSUME BaseInvariant, TmpInvariant, [Next]_vars PROVE TmpInvariant'
  OBVIOUS
<1> DEFINE Writing == {"copy", "verify", "replace", "clean"}
<1>0. kills \in Nat /\ tmp \in [Models -> Contents \ {"dir"}]
  BY ModelStoreAssumption DEF BaseInvariant, TypeOK
<1>1. ASSUME NEW d \in Downloads, Moved(d), Touches(d), Goes(d)
      PROVE  TmpInvariant'
  <2> SUFFICES ASSUME kills = 0, NEW m \in Models, tmp'[m] # "absent"
               PROVE  \E e \in Downloads : pc'[e] \in Writing /\ M(e)' = m
    BY <1>1 DEF TmpInvariant, Moved
  <2>1. CASE tmp'[m] = tmp[m]
    <3>1. PICK e \in Downloads : pc[e] \in Writing /\ M(e) = m
      BY <2>1 DEF TmpInvariant
    <3>2. CASE e = d
      <4>1. pc'[d] \in Writing /\ queue'[d] = queue[d]
        BY <1>1, <3>1, <3>2 DEF Goes, Outside
      <4> QED BY <3>1, <3>2, <4>1
    <3>3. CASE e # d
      <4>1. pc'[e] = pc[e] /\ M(e)' = M(e)
        BY <1>1, <3>3, InsideKept
      <4> QED BY <3>1, <4>1
    <3> QED BY <3>2, <3>3
  <2>2. CASE tmp'[m] # tmp[m]
    <3>1. m = M(d) /\ pc[d] \in {"open", "copy"} /\ pc'[d] \in {"copy", "verify"}
      BY <1>0, <1>1, <2>2 DEF Touches, files
    <3>2. queue'[d] = queue[d]
      BY <1>1, <3>1 DEF Goes, Outside
    <3> QED BY <3>1, <3>2
  <2> QED BY <2>1, <2>2
<1>2. ASSUME NEW a \in Actors, a \in cast, Frame(a), Others(a)
      PROVE  TmpInvariant'
  <2>1. CASE Kill(a)
    <3>1. kills' # 0
      BY <1>0, <2>1 DEF Kill
    <3> QED BY <3>1 DEF TmpInvariant
  <2>2. CASE ~Kill(a)
    <3>1. a \notin Downloads /\ UNCHANGED <<tmp, kills>>
      BY <1>2, <2>2, OthersTouch, LinkBase, Kinds DEF Others, ManualStart, ManualFetch, Serve, bounds
    <3>2. \A e \in Downloads : pc'[e] = pc[e] /\ M(e)' = M(e)
      BY <3>1, <1>2 DEF Frame
    <3> QED BY <3>1, <3>2 DEF TmpInvariant
  <2> QED BY <2>1, <2>2
<1>3. CASE UNCHANGED vars
  BY <1>3 DEF vars, commands, files, bounds, TmpInvariant
<1> QED BY <1>1, <1>2, <1>3, Split

(* As long as no download has been killed, every model that is not usable is  *)
(* listed by missing or has a download at work: a temporary file hides a      *)
(* model from the list only while its writer is there.                        *)
THEOREM MissingAreListed == Spec => []MissingOrDownloading
<1>1. Init => TmpInvariant
  BY DEF Init, TmpInvariant
<1>2. BaseInvariant /\ TmpInvariant => MissingOrDownloading
  <2> SUFFICES ASSUME BaseInvariant, TmpInvariant, kills = 0, NEW m \in Models, ~Passes(m, final[m]),
                      m \notin Actionable
               PROVE  \E d \in Downloads : queue[d] # <<>> /\ M(d) = m
    BY DEF MissingOrDownloading
  <2>1. final[m] = "absent" /\ tmp[m] # "absent"
    BY DEF Actionable, InspectStatus, Passes
  <2>2. PICK d \in Downloads : pc[d] \in {"copy", "verify", "replace", "clean"} /\ M(d) = m
    BY <2>1 DEF TmpInvariant
  <2>3. queue[d] # <<>>
    BY <2>2 DEF BaseInvariant, HeldInvariant, DownloadHeld
  <2> QED BY <2>2, <2>3
<1> QED BY <1>1, <1>2, TmpNext, BaseAlways, PTL DEF Spec

-----------------------------------------------------------------------------
(* What a merge does.                                                       *)

LEMMA SeedOfOthers ==
  ASSUME BaseInvariant, [Next]_vars, \A l \in Links \cap cast : ~Merges(l)
  PROVE  UNCHANGED <<seed, link>>
<1>1. ASSUME NEW a \in Actors, Others(a) PROVE UNCHANGED <<seed, link>>
  BY <1>1 DEF Others, ManualStart, ManualFetch, Kill, merge
<1> QED BY <1>1, Split DEF Moved, vars, merge

\* A merge changes the files of one name at a time, whose seed it then has done
\* with; what it is about to unlink it has just found in models/.
LEMMA MergeTouches ==
  ASSUME BaseInvariant, NEW l \in Links \cap cast, Merges(l)
  PROVE  /\ \A m \in Models : SeedFile(m)' => seed'[m] = seed[m] /\ final'[m] = final[m]
         /\ \A m \in Models : SeedFile(m) =>
              \/ seed'[m] = seed[m] \/ final'[m] = seed[m]
              \/ pc[l] = "unlink" /\ M(l) = m /\ UNCHANGED final
         /\ pc'[l] \in {"unlink", "rename"} => seed'[M(l)'] \notin {"absent", "dir"}
         /\ pc'[l] = "unlink" => final'[M(l)'] = seed'[M(l)']
<1>0. /\ l \in Actors /\ seed \in [Models -> Contents] /\ final \in [Models -> Contents]
      /\ pc \in [Actors -> Places] /\ queue \in [Actors -> Seq(Models)]
  BY DEF BaseInvariant, TypeOK, Places, Inside, Outside
<1>1. ASSUME UNCHANGED <<seed, final>>, pc'[l] \notin {"unlink", "rename"}
      PROVE  /\ \A m \in Models : SeedFile(m)' => seed'[m] = seed[m] /\ final'[m] = final[m]
             /\ \A m \in Models : SeedFile(m) => seed'[m] = seed[m]
  BY <1>1
<1>2. CASE LinkStart(l) \/ ValidateSeed(l) \/ MakeLink(l) \/ LinkRaises(l)
  <2>1. UNCHANGED <<seed, final>>
    BY <1>2 DEF LinkStart, ValidateSeed, MakeLink, LinkRaises, files
  <2>2. pc'[l] \notin {"unlink", "rename"}
    BY <1>0, <1>2 DEF LinkStart, ValidateSeed, MakeLink, LinkRaises, LinkReturn, Step
  <2> QED BY <1>1, <2>1, <2>2
<1>3. CASE MergeDir(l)
  <2>1. PICK m \in Models : /\ pc[l] = "merge" /\ seed[m] = "dir" /\ UNCHANGED seed
                            /\ \/ final' = [final EXCEPT ![m] = "dir"] /\ UNCHANGED commands
                               \/ LinkReturn(l, "failed") /\ UNCHANGED files
    BY <1>3 DEF MergeDir
  <2>2. pc'[l] \in {"merge", "idle"} /\ \A n \in Models : n # m => final'[n] = final[n]
    BY <1>0, <2>1 DEF commands, LinkReturn, files
  <2> QED BY <2>1, <2>2 DEF SeedFile
<1>4. CASE MergeOne(l)
  <2>1. PICK m \in Models :
          /\ SeedFile(m)
          /\ \/ Conflicts(m) /\ LinkReturn(l, "failed")
             \/ /\ ~Conflicts(m) /\ Goto(l, IF final[m] = "absent" THEN "rename" ELSE "unlink")
                /\ queue' = [queue EXCEPT ![l] = <<m>>]
    BY <1>4 DEF MergeOne
  <2>2. UNCHANGED <<seed, final>>
    BY <1>4 DEF MergeOne, files
  <2>3. CASE LinkReturn(l, "failed")
    BY <1>0, <1>1, <2>2, <2>3 DEF LinkReturn
  <2>4. CASE /\ ~Conflicts(m) /\ Goto(l, IF final[m] = "absent" THEN "rename" ELSE "unlink")
             /\ queue' = [queue EXCEPT ![l] = <<m>>]
    <3>1. M(l)' = m /\ (pc'[l] = "unlink" => final[m] # "absent")
      BY <1>0, <2>4
    <3> QED BY <2>1, <2>2, <2>4, <3>1 DEF SeedFile, Conflicts
  <2> QED BY <2>1, <2>3, <2>4
<1>5. CASE UnlinkSeed(l) \/ RenameSeed(l)
  <2>1. M(l) \in Models
    BY <1>0, <1>5, TypedContents DEF UnlinkSeed, RenameSeed, Step, BaseInvariant, HeldInvariant, LinkHeld
  <2>2. pc'[l] = "merge" /\ \A n \in Models : seed'[n] = IF n = M(l) THEN "absent" ELSE seed[n]
    BY <1>0, <1>5, <2>1 DEF UnlinkSeed, RenameSeed, Step
  <2>3. \/ pc[l] = "unlink" /\ UNCHANGED final
        \/ \A n \in Models : final'[n] = IF n = M(l) THEN seed[M(l)] ELSE final[n]
    BY <1>0, <1>5, <2>1 DEF UnlinkSeed, RenameSeed, PutFinal, Step, files
  <2> QED BY <2>1, <2>2, <2>3 DEF SeedFile
<1>6. CASE RemoveSeed(l)
  BY <1>0, <1>6 DEF RemoveSeed, Step, SeedFile
<1> QED BY <1>2, <1>3, <1>4, <1>5, <1>6 DEF Merges, Link

LEMMA SeedNext == BaseInvariant /\ SeedInvariant /\ [Next]_vars => SeedInvariant'
<1> SUFFICES ASSUME BaseInvariant, SeedInvariant, [Next]_vars PROVE SeedInvariant'
  OBVIOUS
<1>c. UNCHANGED cast /\ \A m \in Models : OnlyAdded(m)' = OnlyAdded(m)
  <2>1. UNCHANGED cast
    BY Split DEF Moved, Frame, vars, bounds
  <2> QED BY <2>1 DEF OnlyAdded
<1>1. ASSUME NEW d \in Downloads, d \in cast, Moved(d), Touches(d), Goes(d)
      PROVE  SeedInvariant'
  <2>0. /\ final \in [Models -> Contents] /\ UNCHANGED seed
        /\ \A l \in Links : pc'[l] = pc[l] /\ M(l)' = M(l)
    BY <1>1, Kinds DEF Moved, Frame, BaseInvariant, TypeOK
  <2>1. \A l \in Links : pc'[l] \in {"unlink", "rename"} => seed'[M(l)'] \notin {"absent", "dir"}
    BY <2>0 DEF SeedInvariant, SeedFile
  <2>2. ASSUME NEW e \in Downloads, pc'[e] \in {"hub_verify", "hub_unlink"}
        PROVE  Source[M(e)'] = "huggingface"
    <3>1. CASE e = d
      BY <1>1, <2>2, <3>1 DEF Goes, Outside, SeedInvariant
    <3>2. CASE e # d
      BY <1>1, <2>2, <3>2, InsideKept DEF SeedInvariant
    <3> QED BY <3>1, <3>2
  <2>3. ASSUME NEW m \in Models, SeedFile(m)', OnlyAdded(m), NEW e \in Downloads, pc'[e] \in Early, M(e)' = m
        PROVE  final'[m] = "absent"
    <3>0. SeedFile(m)
      BY <2>0, <2>3 DEF SeedFile
    <3>1. CASE e = d
      <4>1. queue'[d] = queue[d] /\ UNCHANGED final
        BY <1>1, <2>3, <3>1 DEF Goes, Touches, Early, Outside, files
      <4>2. pc[d] \in Early \/ final[M(d)] = "absent"
        BY <1>1, <2>3, <3>1 DEF Goes, Early, Outside
      <4> QED BY <2>3, <3>0, <3>1, <4>1, <4>2 DEF SeedInvariant
    <3>2. CASE e # d
      BY <1>1, <2>3, <3>0, <3>2, InsideKept DEF SeedInvariant, Inside, Early
    <3> QED BY <3>1, <3>2
  <2>4. ASSUME NEW m \in Models, SeedFile(m)', OnlyAdded(m), NEW l \in Links, pc'[l] = "unlink", M(l)' = m
        PROVE  final'[m] = seed'[m]
    <3>1. SeedFile(m) /\ final[m] = seed[m] /\ final[m] # "absent"
      BY <2>0, <2>4 DEF SeedFile, SeedInvariant
    <3>2. Source[m] # "huggingface"
      BY <1>1, <2>4 DEF OnlyAdded
    <3>3. M(d) = m => pc[d] \notin {"replace", "hub_verify", "hub_unlink"}
      BY <2>4, <3>1, <3>2 DEF SeedInvariant, Early
    <3>4. final'[m] = final[m]
      BY <1>1, <2>0, <3>2, <3>3 DEF Touches, files
    <3> QED BY <2>0, <3>1, <3>4
  <2> QED BY <1>c, <2>1, <2>2, <2>3, <2>4 DEF SeedInvariant, SeedFile
<1>2. ASSUME NEW a \in Links \cap cast, Frame(a), Merges(a)
      PROVE  SeedInvariant'
  <2>0. /\ \A e \in Downloads : pc'[e] = pc[e] /\ M(e)' = M(e)
        /\ \A k \in Links \ {a} : pc'[k] = pc[k] /\ M(k)' = M(k)
    BY <1>2, Kinds DEF Frame
  <2>1. \A m \in Models : SeedFile(m)' => SeedFile(m) /\ seed'[m] = seed[m] /\ final'[m] = final[m]
    BY <1>2, MergeTouches DEF SeedFile
  <2>2. ASSUME NEW k \in Links, pc'[k] \in {"unlink", "rename"}
        PROVE  seed'[M(k)'] \notin {"absent", "dir"}
    <3>1. CASE k = a
      BY <1>2, <2>2, <3>1, MergeTouches
    <3>2. CASE k # a
      <4>1. pc[a] = "idle"
        BY <2>0, <2>2, <3>2, Kinds DEF BaseInvariant, HeldInvariant, LinkHeld
      <4>2. UNCHANGED seed
        BY <1>2, <4>1 DEF Merges, Link, LinkStart, ValidateSeed, MergeDir, MergeOne, UnlinkSeed, RenameSeed,
           RemoveSeed, MakeLink, LinkRaises, Step
      <4> QED BY <2>0, <2>2, <3>2, <4>2 DEF SeedInvariant, SeedFile
    <3> QED BY <3>1, <3>2
  <2>3. ASSUME NEW m \in Models, SeedFile(m)', OnlyAdded(m), NEW k \in Links, pc'[k] = "unlink", M(k)' = m
        PROVE  final'[m] = seed'[m]
    <3>1. CASE k = a
      BY <1>2, <2>3, <3>1, MergeTouches
    <3>2. CASE k # a
      BY <2>0, <2>1, <2>3, <3>2 DEF SeedInvariant
    <3> QED BY <3>1, <3>2
  <2>4. \A e \in Downloads : pc'[e] \in {"hub_verify", "hub_unlink"} => Source[M(e)'] = "huggingface"
    BY <2>0 DEF SeedInvariant
  <2>5. ASSUME NEW m \in Models, SeedFile(m)', OnlyAdded(m), NEW e \in Downloads, pc'[e] \in Early, M(e)' = m
        PROVE  final'[m] = "absent"
    BY <2>0, <2>1, <2>5 DEF SeedInvariant
  <2> QED BY <1>c, <2>2, <2>3, <2>4, <2>5 DEF SeedInvariant, SeedFile
<1>3. ASSUME NEW a \in Actors, Frame(a), Kill(a)
      PROVE  SeedInvariant'
  <2>1. /\ UNCHANGED <<seed, final>>
        /\ \A b \in Actors : pc'[b] # "idle" => pc'[b] = pc[b] /\ M(b)' = M(b)
    BY <1>3 DEF Kill, Return, Frame, files, BaseInvariant, TypeOK
  <2> QED BY <1>c, <2>1 DEF SeedInvariant, SeedFile, Early
<1>4. ASSUME NEW a \in Manual \cap cast, Frame(a), ManualStart(a) \/ ManualFetch(a)
      PROVE  SeedInvariant'
  <2>1. /\ \A m \in Models : ~OnlyAdded(m)
        /\ \A b \in Downloads \cup Links : pc'[b] = pc[b] /\ M(b)' = M(b)
    BY <1>4, Kinds DEF OnlyAdded, Frame
  <2>2. UNCHANGED seed
    BY <1>4 DEF ManualStart, ManualFetch, merge
  <2> QED BY <1>c, <2>1, <2>2 DEF SeedInvariant, SeedFile
<1>5. CASE UNCHANGED vars
  BY <1>c, <1>5 DEF vars, commands, files, merge, SeedInvariant, SeedFile
<1> QED BY <1>1, <1>2, <1>3, <1>4, <1>5, Split DEF Others

LEMMA SeedInit == Init => SeedInvariant
BY DEF Init, SeedInvariant, Early

(* Nothing a runtime brought is lost, wherever a merge fails, raises or dies: *)
(* a file leaves its seed directory only when models/ holds its bytes at that *)
(* step.  Between the comparison and the unlink only a manual or a Hugging    *)
(* Face download could take them away; any other leaves what is there alone.  *)
THEOREM SeedsAreKept == Spec => SeedKept
<1> DEFINE Kept == \A m \in Models : SeedFile(m) /\ OnlyAdded(m) => seed'[m] = seed[m] \/ final'[m] = seed[m]
<1>1. BaseInvariant /\ SeedInvariant /\ [Next]_vars => Kept
  <2> SUFFICES ASSUME BaseInvariant, SeedInvariant, [Next]_vars, NEW l \in Links \cap cast, Merges(l),
                      NEW m \in Models, SeedFile(m), OnlyAdded(m)
               PROVE  seed'[m] = seed[m] \/ final'[m] = seed[m]
    BY SeedOfOthers
  <2>1. CASE pc[l] = "unlink" /\ M(l) = m /\ UNCHANGED final
    BY <2>1 DEF SeedInvariant
  <2> QED BY <2>1, MergeTouches
<1>2. BaseInvariant /\ SeedInvariant /\ [Next]_vars => [Kept]_vars
  BY <1>1
<1> QED BY <1>2, SeedInit, SeedNext, BaseAlways, PTL DEF Spec, SeedKept

-----------------------------------------------------------------------------
(* Where merges and downloads do not run together.                          *)

LEMMA MergeNext == BaseInvariant /\ SeedInvariant /\ MergeInvariant /\ [Next]_vars => MergeInvariant'
<1> SUFFICES ASSUME BaseInvariant, SeedInvariant, MergeInvariant, [Next]_vars PROVE MergeInvariant'
  OBVIOUS
<1>c. UNCHANGED cast
  BY Split DEF Moved, Frame, vars, bounds
<1> SUFFICES ASSUME cast \subseteq Links, faults' = 0 PROVE MergeInvariant'
  BY <1>c DEF MergeInvariant
<1> DEFINE Clear  == \A m \in Models : ~Conflicts(m)
           Busy   == (\E l \in Links : pc[l] \in Merging) \/ (\E m \in Models : origin[m] \in Links)
           Failed == \E l \in Links : answer[l] = "failed"
<1>f. faults = 0 /\ \A l \in Links \cap cast : ~LinkRaises(l)
  <2>1. faults \in Nat
    BY ModelStoreAssumption DEF BaseInvariant, TypeOK
  <2>2. \A l \in Links \cap cast : ~LinkRaises(l)
    BY <2>1 DEF LinkRaises
  <2>3. \A a \in Actors \ Links : a \notin cast
    OBVIOUS
  <2>4. ASSUME NEW l \in Links \cap cast, Link(l) PROVE UNCHANGED faults
    BY <2>4 DEF Link, LinkStart, ValidateSeed, MergeDir, MergeOne, UnlinkSeed, RenameSeed, RemoveSeed, MakeLink, bounds
  <2>5. ASSUME NEW a \in Actors, Kill(a) PROVE UNCHANGED faults
    BY <2>5 DEF Kill
  <2> QED BY <2>2, <2>3, <2>4, <2>5, Kinds DEF Next, vars, bounds
<1>0. /\ seed \in [Models -> Contents] /\ final \in [Models -> Contents]
      /\ origin \in [Models -> Actors \cup {NoActor}]
      /\ Links \subseteq Actors /\ DOMAIN pc = Actors /\ DOMAIN answer = Actors
      /\ (Busy => Clear) /\ (Failed => DirectoryMet \/ ~Clear)
  <2>1. DOMAIN pc = Actors /\ DOMAIN answer = Actors
    BY DEF BaseInvariant, TypeOK
  <2> QED BY <1>f, <2>1 DEF BaseInvariant, TypeOK, MergeInvariant
<1>1. ASSUME UNCHANGED <<seed, final, origin>>,
             \A k \in Links : pc'[k] \in Merging => pc[k] \in Merging \/ Clear,
             \A k \in Links : answer'[k] = "failed" => answer[k] = "failed" \/ DirectoryMet \/ ~Clear
      PROVE  MergeInvariant'
  <2>1. Clear' = Clear /\ DirectoryMet' = DirectoryMet
    BY <1>1 DEF Conflicts, SeedFile, DirectoryMet
  <2>2. Busy' => Clear
    BY <1>0, <1>1
  <2>3. Failed' => DirectoryMet \/ ~Clear
    BY <1>0, <1>1
  <2> HIDE DEF Clear
  <2>4. (Busy' => Clear') /\ (Failed' => DirectoryMet' \/ ~Clear')
    BY <2>1, <2>2, <2>3
  <2> QED BY <2>4 DEF MergeInvariant, Clear
\* A step of a merge that is at work leaves no conflict of files, and whatever
\* directory met a file still does.
<1>2. ASSUME Clear, Clear', UNCHANGED answer, Failed => DirectoryMet'
      PROVE  MergeInvariant'
  BY <1>2 DEF MergeInvariant
<1>3. ASSUME NEW l \in Links \cap cast, Link(l)
      PROVE  MergeInvariant'
  <2>0. l \in Actors /\ \A k \in Links \ {l} : pc'[k] = pc[k] /\ answer'[k] = answer[k]
    <3>1. Frame(l)
      BY <1>3, LinkBase DEF Merges
    <3> QED BY <3>1 DEF Frame
  <2>1. CASE LinkStart(l)
    <3>1. pc'[l] = "validate" /\ answer' = answer /\ UNCHANGED <<seed, final, origin>>
      BY <1>0, <2>1 DEF LinkStart, files
    <3> QED BY <1>1, <2>0, <3>1 DEF Merging
  <2>2. CASE ValidateSeed(l)
    <3>1. /\ UNCHANGED <<seed, final, origin>>
          /\ pc'[l] \in Merging => Clear
          /\ answer'[l] = "failed" => answer[l] = "failed" \/ ~Clear
      BY <1>0, <2>2 DEF ValidateSeed, LinkReturn, Step, files, Merging
    <3> QED BY <1>1, <2>0, <3>1
  <2>m. CASE MergeDir(l) \/ MergeOne(l) \/ UnlinkSeed(l) \/ RenameSeed(l) \/ RemoveSeed(l)
    <3>1. pc[l] \in Merging /\ Clear /\ (Failed => DirectoryMet)
      BY <1>0, <2>m DEF MergeDir, MergeOne, UnlinkSeed, RenameSeed, RemoveSeed, Step, Merging
    <3>2. CASE MergeOne(l)
      <4>1. /\ UNCHANGED <<seed, final, origin, answer>>
            /\ \A k \in Links : pc'[k] \in Merging => pc[k] \in Merging \/ Clear
        BY <3>1, <3>2 DEF MergeOne, files
      <4> QED BY <1>1, <4>1
    <3>3. CASE MergeDir(l)
      <4>1. PICK m \in Models :
              /\ seed[m] = "dir" /\ UNCHANGED seed
              /\ \/ final[m] = "absent" /\ final' = [final EXCEPT ![m] = "dir"] /\ UNCHANGED commands
                 \/ final[m] \notin {"absent", "dir"} /\ LinkReturn(l, "failed") /\ UNCHANGED files
        BY <3>3 DEF MergeDir
      <4>2. CASE final[m] = "absent" /\ final' = [final EXCEPT ![m] = "dir"] /\ UNCHANGED commands
        <5>1. Clear'
          BY <1>0, <3>1, <4>1, <4>2 DEF Conflicts, SeedFile
        <5>2. DirectoryMet => DirectoryMet'
          BY <1>0, <4>1, <4>2 DEF DirectoryMet
        <5> QED BY <1>2, <3>1, <4>2, <5>1, <5>2 DEF commands
      <4>3. CASE final[m] \notin {"absent", "dir"} /\ LinkReturn(l, "failed") /\ UNCHANGED files
        <5>1. DirectoryMet
          BY <4>1, <4>3 DEF DirectoryMet
        <5>2. UNCHANGED <<seed, final, origin>> /\ pc'[l] = "idle"
          BY <1>0, <4>1, <4>3 DEF LinkReturn, files
        <5> QED BY <1>1, <2>0, <5>1, <5>2 DEF Merging
      <4> QED BY <4>1, <4>2, <4>3
    <3>4. CASE UnlinkSeed(l) \/ RenameSeed(l)
      <4>1. M(l) \in Models /\ SeedFile(M(l)) /\ UNCHANGED answer
        <5>1. M(l) \in Models
          BY <3>4, TypedContents DEF UnlinkSeed, RenameSeed, Step, BaseInvariant, HeldInvariant, LinkHeld
        <5> QED BY <3>4, <5>1 DEF UnlinkSeed, RenameSeed, Step, SeedInvariant
      <4>2. \A n \in Models : \/ n = M(l) /\ seed'[n] = "absent"
                              \/ n # M(l) /\ seed'[n] = seed[n] /\ final'[n] = final[n]
        BY <1>0, <3>4, <4>1 DEF UnlinkSeed, RenameSeed, PutFinal, files
      <4>3. Clear'
        BY <3>1, <4>2 DEF Conflicts, SeedFile
      <4>4. DirectoryMet => DirectoryMet'
        BY <4>1, <4>2 DEF DirectoryMet, SeedFile
      <4> QED BY <1>2, <3>1, <4>1, <4>3, <4>4
    <3>5. CASE RemoveSeed(l)
      <4>1. ~DirectoryMet /\ UNCHANGED answer /\ \A m \in Models : seed'[m] = "absent"
        BY <3>5 DEF RemoveSeed, Step, DirectoryMet
      <4>2. Clear' /\ ~Failed
        BY <3>1, <4>1 DEF Conflicts, SeedFile
      <4> QED BY <1>2, <3>1, <4>1, <4>2
    <3> QED BY <2>m, <3>2, <3>3, <3>4, <3>5
  <2>4. CASE MakeLink(l)
    <3>1. UNCHANGED <<seed, final, origin>> /\ pc'[l] = "idle" /\ answer'[l] = "ok"
      BY <1>0, <2>0, <2>4 DEF MakeLink, LinkReturn, files
    <3> QED BY <1>1, <2>0, <3>1 DEF Merging
  <2> QED BY <1>3, <2>1, <2>2, <2>m, <2>4 DEF Link
<1>4. CASE UNCHANGED vars
  BY <1>1, <1>4 DEF vars, commands, files, merge
<1>5. ASSUME NEW a \in Actors, Kill(a)
      PROVE  MergeInvariant'
  <2>1. UNCHANGED <<seed, final, origin>> /\ \A k \in Links : pc'[k] \in {pc[k], "idle"} /\ answer'[k] \in {answer[k], "killed"}
    BY <1>0, <1>5 DEF Kill, Return, files
  <2> QED BY <1>1, <2>1 DEF Merging
<1> QED BY <1>f, <1>3, <1>4, <1>5, Kinds DEF Next

(* Where nobody else writes and no operation raises, a merge that fails has   *)
(* moved nothing: validation finds every conflict of two files before the     *)
(* first one moves, and none can appear after that.  Or else a directory of   *)
(* the seed meets a file, the one conflict validation does not look for.      *)
THEOREM ConflictsMoveNothing == Spec => []ConflictMovesNothing
<1>1. Init => MergeInvariant
  BY Kinds DEF Init, MergeInvariant, Merging
<1>2. MergeInvariant => ConflictMovesNothing
  BY DEF MergeInvariant, ConflictMovesNothing, DirectoryMet
<1> QED BY <1>1, <1>2, SeedInit, SeedNext, MergeNext, BaseAlways, PTL DEF Spec

LEMMA OwnNext == BaseInvariant /\ OwnInvariant /\ [Next]_vars => OwnInvariant'
<1> SUFFICES ASSUME BaseInvariant, OwnInvariant, [Next]_vars PROVE OwnInvariant'
  OBVIOUS
<1>c. UNCHANGED cast
  BY Split DEF Moved, Frame, vars, bounds
<1> SUFFICES ASSUME cast \cap Links = {} PROVE OwnInvariant'
  BY <1>c DEF OwnInvariant
<1>1. ASSUME NEW d \in Downloads, Moved(d), Touches(d), Goes(d)
      PROVE  OwnInvariant'
  <2> SUFFICES ASSUME NEW e \in Downloads, pc'[e] \in {"hub_verify", "final"}
               PROVE  origin'[M(e)'] = e
    BY DEF OwnInvariant
  <2>1. CASE e = d
    <3>1. queue'[d] = queue[d]
      BY <1>1, <2>1 DEF Goes, Outside
    <3>2. \/ origin'[M(d)] = d
          \/ pc[d] = "hub_verify" /\ UNCHANGED files
      BY <1>1, <2>1 DEF Goes, Outside
    <3> QED BY <2>1, <3>1, <3>2 DEF OwnInvariant, files
  <2>2. CASE e # d
    BY <1>1, <2>2, InsideKept DEF OwnInvariant, Inside
  <2> QED BY <2>1, <2>2
<1>2. ASSUME NEW a \in Actors, a \in cast, Frame(a), Others(a)
      PROVE  OwnInvariant'
  <2> SUFFICES ASSUME NEW e \in Downloads, pc'[e] \in {"hub_verify", "final"}
               PROVE  origin'[M(e)'] = e
    BY DEF OwnInvariant
  <2>1. e # a
    BY <1>2, OthersTouch DEF Others
  <2>2. pc[e] = pc'[e] /\ M(e)' = M(e) /\ pc[e] \in Inside
    BY <1>2, <2>1 DEF Frame, Inside
  <2>3. a \notin Links
    BY <1>2
  <2>4. origin'[M(e)] = origin[M(e)]
    BY <1>2, <2>2, <2>3, OthersTouch, OneInside DEF Others
  <2> QED BY <2>2, <2>4 DEF OwnInvariant
<1>3. CASE UNCHANGED vars
  BY <1>3 DEF vars, commands, files, OwnInvariant
<1> QED BY <1>1, <1>2, <1>3, Split

(* Where no merge runs beside it, a download that answers downloaded is about *)
(* the file it has published itself.                                          *)
THEOREM DownloadsAreOwn == Spec => DownloadedIsOwn
<1> DEFINE Own == \A d \in Downloads :
                    cast \cap Links = {} /\ At(d, "final") /\ ~At(d, "final")' /\ answer'[d] \in {"none", "ok"}
                      => origin[M(d)] = d
<1>1. Init => OwnInvariant
  BY DEF Init, OwnInvariant
<1>2. OwnInvariant => [Own]_vars
  BY DEF OwnInvariant
<1> QED BY <1>1, <1>2, OwnNext, BaseAlways, PTL DEF Spec, DownloadedIsOwn

-----------------------------------------------------------------------------
(* The downloads alone implement the shelf.                                 *)

\* What a step of a download tells its caller.
Replies(d) ==
  \/ /\ \E models \in Seq(Models) : queue'[d] = models /\ asked'[d] = Range(models)
     /\ pc'[d] = "check" /\ answer'[d] = "none" /\ UNCHANGED files
  \/ /\ pc[d] # "idle" /\ pc'[d] # "idle"
     /\ queue'[d] = queue[d] /\ asked'[d] = asked[d] /\ answer'[d] = answer[d]
  \/ /\ pc[d] # "idle" /\ pc'[d] = "idle" /\ answer'[d] = "failed" /\ asked'[d] = asked[d]
  \/ /\ pc[d] # "idle" /\ Passes(M(d), final[M(d)]) /\ UNCHANGED files /\ asked'[d] = asked[d]
     /\ \/ pc'[d] = "idle" /\ Len(queue[d]) = 1 /\ answer'[d] = "ok"
        \/ pc'[d] = "check" /\ queue'[d] = Tail(queue[d]) /\ answer'[d] = answer[d]

LEMMA DownloadReplies ==
  ASSUME BaseInvariant, NEW d \in Downloads, Asks(d) \/ Download(d)
  PROVE  Replies(d)
<1> USE DEF BaseInvariant
<1>0. d \in Actors
  OBVIOUS
<1>1. ASSUME NEW from, NEW to, Step(d, from, to), from # "idle", to # "idle"
      PROVE  Replies(d)
  BY <1>0, <1>1 DEF Step, Replies, TypeOK
<1>2. ASSUME pc[d] # "idle", Return(d, "failed")
      PROVE  Replies(d)
  BY <1>0, <1>2 DEF Return, Replies, TypeOK
<1>3. ASSUME pc[d] # "idle", ItemDone(d), Passes(M(d), final[M(d)]), UNCHANGED <<files, merge, bounds>>
      PROVE  Replies(d)
  BY <1>0, <1>3 DEF ItemDone, Return, Replies, TypeOK
<1>4. CASE Asks(d)
  BY <1>4, AsksMove, AskMoves DEF Asks, Replies
<1>5. CASE VerifyExisting(d) \/ FinalVerify(d)
  <2>1. pc[d] # "idle"
    BY <1>5 DEF VerifyExisting, FinalVerify
  <2> QED BY <1>2, <1>3, <1>5, <2>1 DEF VerifyExisting, FinalVerify, Fail
<1>6. CASE LocalMissing(d) \/ CleanTmp(d) \/ HubUnlink(d)
  BY <1>2, <1>6 DEF LocalMissing, CleanTmp, HubUnlink
<1>7. CASE TakeLock(d)
  BY <1>1, <1>2, <1>7 DEF TakeLock, Fail
<1>8. CASE HubFetch(d)
  BY <1>1, <1>2, <1>8 DEF HubFetch
<1>9. CASE \/ Look(d) \/ ClearTmp(d) \/ OpenTmp(d) \/ CopyToTmp(d) \/ VerifyTmp(d)
           \/ ReplaceFinal(d) \/ HubVerify(d)
  BY <1>1, <1>9 DEF Look, ClearTmp, OpenTmp, CopyToTmp, VerifyTmp, ReplaceFinal, HubVerify
<1> QED BY <1>4, <1>5, <1>6, <1>7, <1>8, <1>9 DEF Download

\* Alone, a download only writes a file where there was none that passes.
LEMMA UsableGrows ==
  ASSUME BaseInvariant, ShelfInvariant, cast \subseteq Downloads, NEW d \in Downloads, Touches(d)
  PROVE  /\ \A m \in Models : Passes(m, final[m]) => Passes(m, final'[m])
         /\ \A m \in Models : ~Passes(m, final[m]) /\ Passes(m, final'[m]) => m = M(d) /\ pc'[d] # "idle" /\ ~UNCHANGED files
<1>1. final \in [Models -> Contents]
  BY DEF BaseInvariant, TypeOK
<1>2. ~Passes(M(d), "absent")
  BY DEF Passes
<1>3. CASE UNCHANGED final
  BY <1>3 DEF Passes, SizeOK, ShaOK
<1>4. CASE pc[d] \in {"replace", "fetch"} /\ pc'[d] # "idle" /\ \E c \in Contents : final' = [final EXCEPT ![M(d)] = c]
  <2>1. final[M(d)] = "absent"
    BY <1>4 DEF ShelfInvariant, Early
  <2>2. \A m \in Models : m # M(d) => final'[m] = final[m]
    BY <1>1, <1>4
  <2> QED BY <1>2, <1>4, <2>1, <2>2 DEF Passes, SizeOK, ShaOK, files
<1>5. CASE pc[d] = "hub_unlink" /\ final' = [final EXCEPT ![M(d)] = "absent"]
  <2>1. ~Passes(M(d), final[M(d)])
    BY <1>5 DEF ShelfInvariant
  <2>2. \A m \in Models : final'[m] = IF m = M(d) THEN "absent" ELSE final[m]
    BY <1>1, <1>5
  <2> QED BY <1>2, <2>1, <2>2 DEF Passes, SizeOK, ShaOK
<1>6. pc[d] = "replace" => tmp[M(d)] \in Contents
  BY TypedContents DEF BaseInvariant, HeldInvariant, DownloadHeld
<1> QED BY <1>3, <1>4, <1>5, <1>6 DEF Touches, files

LEMMA QueueRange ==
  ASSUME NEW s \in Seq(Models), NEW m
  PROVE  /\ m \in Range(s) => \E i \in DOMAIN s : s[i] = m
         /\ (\E i \in DOMAIN s : s[i] = m) /\ s # <<>> =>
              m = Head(s) \/ (Len(s) # 1 /\ \E i \in DOMAIN Tail(s) : Tail(s)[i] = m)
<1>1. m \in Range(s) => \E i \in DOMAIN s : s[i] = m
  BY DEF Range
<1>2. ASSUME NEW i \in DOMAIN s, s[i] = m, s # <<>>, m # Head(s)
      PROVE  Len(s) # 1 /\ \E j \in DOMAIN Tail(s) : Tail(s)[j] = m
  <2>1. DOMAIN s = 1..Len(s) /\ Len(s) \in Nat /\ Head(s) = s[1]
    BY LenProperties
  <2>2. i # 1 /\ i - 1 \in 1..(Len(s) - 1) /\ (i - 1) + 1 = i
    BY <1>2, <2>1
  <2>3. /\ Tail(s) \in Seq(Models) /\ Len(Tail(s)) = Len(s) - 1
        /\ \A j \in 1 .. Len(Tail(s)) : Tail(s)[j] = s[j+1]
    BY <1>2, HeadTailProperties
  <2>4. DOMAIN Tail(s) = 1..Len(Tail(s))
    BY <2>3, LenProperties
  <2>5. Tail(s)[i - 1] = m /\ i - 1 \in DOMAIN Tail(s)
    BY <1>2, <2>2, <2>3, <2>4
  <2>6. Len(s) # 1
    BY <2>1, <2>2
  <2> QED BY <2>5, <2>6
<1> QED BY <1>1, <1>2

LEMMA ShelfNext == BaseInvariant /\ ShelfInvariant /\ [Next]_vars => ShelfInvariant'
<1> SUFFICES ASSUME BaseInvariant, ShelfInvariant, [Next]_vars PROVE ShelfInvariant'
  OBVIOUS
<1>c. UNCHANGED cast
  BY Split DEF Moved, Frame, vars, bounds
<1> SUFFICES ASSUME cast \subseteq Downloads PROVE ShelfInvariant'
  BY <1>c DEF ShelfInvariant
<1> DEFINE Pending(e, m) ==
      \/ Passes(m, final[m])
      \/ pc[e] # "idle" /\ \E i \in DOMAIN queue[e] : queue[e][i] = m
      \/ pc[e] = "idle" /\ answer[e] # "ok"
<1>0. \A e \in Downloads : queue[e] \in Seq(Models) /\ asked[e] \subseteq Models /\ (pc[e] # "idle" => queue[e] # <<>>)
  BY DEF BaseInvariant, TypeOK, HeldInvariant, DownloadHeld
<1>1. ASSUME NEW d \in Downloads, Moved(d), Touches(d), Goes(d), Replies(d)
      PROVE  ShelfInvariant'
  <2>0. \A m \in Models : Passes(m, final[m]) => Passes(m, final'[m])
    BY <1>1, UsableGrows
  <2>1. ASSUME NEW e \in Downloads, pc'[e] \in Early PROVE final'[M(e)'] = "absent"
    <3>1. CASE e = d
      <4>1. final[M(d)] = "absent" /\ queue'[d] = queue[d] /\ UNCHANGED final
        BY <1>1, <2>1, <3>1 DEF Goes, Outside, Early, Touches, files, ShelfInvariant
      <4> QED BY <3>1, <4>1
    <3>2. CASE e # d
      BY <1>1, <2>1, <3>2, InsideKept DEF ShelfInvariant, Inside, Early
    <3> QED BY <3>1, <3>2
  <2>2. ASSUME NEW e \in Downloads, pc'[e] = "hub_unlink" PROVE ~Passes(M(e), final[M(e)])'
    <3>1. CASE e = d
      <4>1. ~Passes(M(d), final[M(d)]) /\ queue'[d] = queue[d] /\ UNCHANGED final
        BY <1>1, <2>2, <3>1 DEF Goes, Outside, files
      <4> QED BY <3>1, <4>1 DEF Passes, SizeOK, ShaOK
    <3>2. CASE e # d
      <4>1. pc[e] = "hub_unlink" /\ M(e)' = M(e) /\ final'[M(e)] = final[M(e)]
        BY <1>1, <2>2, <3>2, InsideKept DEF Inside
      <4> QED BY <4>1 DEF ShelfInvariant, Passes, SizeOK, ShaOK
    <3> QED BY <3>1, <3>2
  <2>3. ASSUME NEW e \in Downloads, pc'[e] # "idle" PROVE answer'[e] = "none"
    BY <1>1, <2>3, InsideKept DEF Replies, ShelfInvariant
  <2>4. ASSUME NEW e \in Downloads, NEW m \in asked'[e] PROVE Pending(e, m)'
    <3>1. CASE e # d
      <4>1. pc'[e] = pc[e] /\ queue'[e] = queue[e] /\ answer'[e] = answer[e] /\ asked'[e] = asked[e]
        BY <1>1, <3>1, InsideKept
      <4>2. Pending(e, m) /\ m \in Models
        BY <1>0, <2>4, <4>1 DEF ShelfInvariant
      <4> QED BY <2>0, <4>1, <4>2 DEF Passes, SizeOK, ShaOK
    <3>2. CASE e = d /\ asked'[d] # asked[d]
      <4>1. PICK models \in Seq(Models) : queue'[d] = models /\ asked'[d] = Range(models) /\ pc'[d] = "check"
        BY <1>1, <3>2 DEF Replies
      <4>2. \E i \in DOMAIN models : models[i] = m
        BY <2>4, <3>2, <4>1, QueueRange
      <4> QED BY <3>2, <4>1, <4>2
    <3>3. CASE e = d /\ asked'[d] = asked[d]
      <4>0. Pending(d, m) /\ m \in Models
        BY <1>0, <2>4, <3>3 DEF ShelfInvariant
      <4>1. CASE Passes(m, final[m])
        BY <2>0, <4>0, <4>1 DEF Passes, SizeOK, ShaOK
      <4>2. CASE \E models \in Seq(Models) : queue'[d] = models /\ asked'[d] = Range(models) /\ pc'[d] = "check"
        BY <2>4, <3>3, <4>2, QueueRange
      <4>3. CASE pc[d] # "idle" /\ pc'[d] # "idle" /\ queue'[d] = queue[d]
        BY <2>0, <3>3, <4>0, <4>3 DEF Passes, SizeOK, ShaOK
      <4>4. CASE pc'[d] = "idle" /\ answer'[d] = "failed"
        BY <3>3, <4>4
      <4>5. CASE /\ pc[d] # "idle" /\ Passes(M(d), final[M(d)]) /\ ~Passes(m, final[m])
                 /\ \/ pc'[d] = "idle" /\ Len(queue[d]) = 1 /\ answer'[d] = "ok"
                    \/ pc'[d] = "check" /\ queue'[d] = Tail(queue[d]) /\ answer'[d] = answer[d]
        <5>1. (\E i \in DOMAIN queue[d] : queue[d][i] = m) /\ m # Head(queue[d])
          BY <4>0, <4>5
        <5>2. Len(queue[d]) # 1 /\ \E i \in DOMAIN Tail(queue[d]) : Tail(queue[d])[i] = m
          BY <1>0, <4>5, <5>1, QueueRange
        <5> QED BY <3>3, <4>5, <5>2
      <4> HIDE DEF Pending
      <4> QED BY <1>1, <4>1, <4>2, <4>3, <4>4, <4>5 DEF Replies
    <3> QED BY <3>1, <3>2, <3>3
  <2> QED BY <2>1, <2>2, <2>3, <2>4 DEF ShelfInvariant
<1>2. ASSUME NEW a \in Actors, a \in cast, Frame(a), Others(a)
      PROVE  ShelfInvariant'
  <2>1. a \in Downloads /\ pc'[a] = "idle" /\ answer'[a] = "killed" /\ UNCHANGED files
    BY <1>2, OthersTouch DEF Others
  <2>2. /\ \A e \in Downloads \ {a} : pc'[e] = pc[e] /\ queue'[e] = queue[e] /\ M(e)' = M(e)
                                      /\ asked'[e] = asked[e] /\ answer'[e] = answer[e]
        /\ final' = final
    BY <1>2, <2>1 DEF Frame, files
  <2> QED BY <2>1, <2>2 DEF ShelfInvariant, Early, Passes, SizeOK, ShaOK
<1>3. CASE UNCHANGED vars
  BY <1>3 DEF vars, commands, files, ShelfInvariant, Passes, SizeOK, ShaOK
<1> QED BY <1>1, <1>2, <1>3, Split, DownloadReplies

\* A step of a download either puts one model on the shelf or changes what its
\* own command has been granted.
LEMMA ShelfStep ==
  ASSUME BaseInvariant, ShelfInvariant, ShelfInvariant', cast \subseteq Downloads, NEW d \in Downloads,
         Moved(d), Touches(d), Replies(d)
  PROVE  Shelf!Next
<1> USE DEF Passes, SizeOK, ShaOK
<1>0. UNCHANGED cast /\ asked' \in [Actors -> SUBSET Models] /\ asked \in [Actors -> SUBSET Models]
  BY DEF Moved, Frame, CommandsTyped, BaseInvariant, TypeOK
<1>1. \A e \in Downloads \ {d} : Granted'[e] = Granted[e]
  BY <1>0, InsideKept DEF Granted
<1>2. \A m \in Models : Passes(m, final[m]) => Passes(m, final'[m])
  BY UsableGrows
<1>3. CASE \E m \in Models : ~Passes(m, final[m]) /\ Passes(m, final'[m])
  <2>1. PICK m \in Models : ~Passes(m, final[m]) /\ Passes(m, final'[m])
    BY <1>3
  <2>2. m = M(d) /\ pc'[d] # "idle" /\ ~UNCHANGED files
    BY <2>1, UsableGrows
  <2>3. asked'[d] = asked[d] /\ answer'[d] = answer[d]
    BY <2>2 DEF Replies
  <2>4. \A n \in Models : n # m => (Passes(n, final'[n]) <=> Passes(n, final[n]))
    <3> HIDE DEF Passes
    <3> QED BY <1>2, <2>2, UsableGrows
  <2>5. Usable' = Usable \cup {m}
    <3>1. Usable' = {n \in Models : Passes(n, final'[n])}
      BY <1>0 DEF Usable
    <3>2. Usable = {n \in Models : Passes(n, final[n])}
      BY DEF Usable
    <3> HIDE DEF Passes
    <3> QED BY <1>2, <2>1, <2>4, <3>1, <3>2
  <2>6. \A e \in Downloads : Granted'[e] = Granted[e]
    BY <1>0, <1>1, <2>3 DEF Granted
  <2>7. Granted' = Granted
    BY <2>6 DEF Granted
  <2> QED BY <2>1, <2>5, <2>7 DEF Shelf!Next, Shelf!Add
<1>4. CASE \A m \in Models : Passes(m, final'[m]) => Passes(m, final[m])
  <2>1. Usable' = Usable
    <3>1. Usable' = {n \in Models : Passes(n, final'[n])}
      BY <1>0 DEF Usable
    <3>2. Usable = {n \in Models : Passes(n, final[n])}
      BY DEF Usable
    <3> HIDE DEF Passes
    <3> QED BY <1>2, <1>4, <3>1, <3>2
  <2>2. Granted' = [Granted EXCEPT ![d] = Granted'[d]]
    BY <1>1 DEF Granted
  <2>3. Granted'[d] \subseteq Usable' /\ Granted'[d] \in SUBSET Models
    <3>1. Granted'[d] = IF answer'[d] = "ok" THEN asked'[d] ELSE {}
      BY <1>0 DEF Granted
    <3>2. ASSUME answer'[d] = "ok" PROVE \A m \in asked'[d] : Passes(m, final'[m])
      BY <1>0, <3>2 DEF ShelfInvariant
    <3>3. Usable' = {n \in Models : Passes(n, final'[n])}
      BY <1>0 DEF Usable
    <3> HIDE DEF Passes
    <3> QED BY <1>0, <3>1, <3>2, <3>3
  <2> QED BY <2>1, <2>2, <2>3 DEF Shelf!Next, Shelf!Grant
<1> QED BY <1>3, <1>4

LEMMA ShelfRefines ==
  BaseInvariant /\ ShelfInvariant /\ ShelfInvariant' /\ [Next]_vars => [Shelf!Next]_<<Usable, Granted>>
<1> SUFFICES ASSUME BaseInvariant, ShelfInvariant, ShelfInvariant', [Next]_vars
             PROVE  Shelf!Next \/ UNCHANGED <<Usable, Granted>>
  OBVIOUS
<1>0. UNCHANGED cast
  BY Split DEF Moved, Frame, vars, bounds
<1>1. CASE ~(cast \subseteq Downloads)
  BY <1>0, <1>1 DEF Usable, Granted
<1>2. CASE cast \subseteq Downloads
  <2>1. ASSUME NEW d \in Downloads, Moved(d), Touches(d), Asks(d) \/ Download(d) PROVE Shelf!Next
    BY <1>2, <2>1, DownloadReplies, ShelfStep
  <2>2. ASSUME NEW a \in Actors, a \in cast, Frame(a), Others(a) PROVE Shelf!Next
    <3>1. a \in Downloads /\ answer'[a] = "killed" /\ UNCHANGED files
      BY <1>2, <2>2, OthersTouch DEF Others
    <3>2. Usable' = Usable
      BY <1>0, <3>1 DEF Usable, files, Passes, SizeOK, ShaOK
    <3>3. Granted'[a] = {} /\ \A e \in Downloads \ {a} : Granted'[e] = Granted[e]
      BY <1>0, <2>2, <3>1 DEF Frame, Granted
    <3>4. Granted' = [Granted EXCEPT ![a] = {}]
      BY <3>1, <3>3 DEF Granted
    <3> QED BY <3>1, <3>2, <3>4 DEF Shelf!Next, Shelf!Grant
  <2>3. CASE UNCHANGED vars
    BY <2>3 DEF vars, commands, files, bounds, Usable, Granted, Passes, SizeOK, ShaOK
  <2> QED BY <2>1, <2>2, <2>3, Split
<1> QED BY <1>1, <1>2

\* Catalogue downloads that run alone implement the shelf: whatever a step of
\* one does to the files, its lock and its caller, to a reader of models/ it
\* adds one usable model or answers a command with models that are usable.
THEOREM DownloadsKeepTheShelf == Spec => ImplementsModelShelf
<1>1. Init => ShelfInvariant /\ Shelf!Init
  BY DEF Init, ShelfInvariant, Early, Shelf!Init, Usable, Granted
<1> QED BY <1>1, ShelfNext, ShelfRefines, BaseAlways, PTL DEF Spec, ImplementsModelShelf, Shelf!Spec

=============================================================================
