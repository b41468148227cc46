------------------------------ MODULE ModelStore ------------------------------
(***************************************************************************)
(* The shared models/ directory.  Catalogue downloads, manual Hugging Face *)
(* downloads and the merge of a runtime's own models write the same files: *)
(* the downloads under one lock per file, the merge under the workspace    *)
(* lock.  Any of them may be killed; flock then frees the lock, and the    *)
(* files stay as they are.                                                 *)
(*                                                                         *)
(* A file is good, sized (the declared size but other bytes), short (any   *)
(* other size: truncated, or still being written), a directory, or absent. *)
(* The runtime's own models/ may also bring a directory of a model's name. *)
(***************************************************************************)
EXTENDS FiniteSets, Naturals, SequencesExt

CONSTANTS
  Downloads,    \* catalogue download commands
  Manual,       \* hf_download commands
  Links,        \* link_models calls
  Models,       \* catalogue entries, each with a destination of its own
  Source,       \* entry.source: "url", "local" or "huggingface"
  Declared,     \* which of "size" and "sha" the entry declares
  Workflow,     \* a workflow's models, in order
  InitialFiles, \* what a destination may hold at first
  SeedFiles,    \* what the runtime's own models/ may hold under the same name, a directory too
  Served,       \* what a source may answer; "error" is no answer
  Casts,        \* which actors take part together
  NoActor,
  MaxKills, MaxFaults \* bounds on kills, and on bad answers and raising file operations

Actors   == Downloads \cup Manual \cup Links
Contents == {"good", "sized", "short", "dir", "absent"}

ASSUME ModelStoreAssumption ==
  /\ NoActor \notin Actors
  /\ Downloads \cap Manual = {} /\ Downloads \cap Links = {} /\ Manual \cap Links = {}
  /\ Source \in [Models -> {"url", "local", "huggingface"}]
  /\ Declared \in [Models -> SUBSET {"size", "sha"}]
  /\ InitialFiles \subseteq Contents /\ SeedFiles \subseteq Contents
  /\ Served \subseteq {"good", "sized", "short", "error"}
  /\ Workflow \in Seq(Models)
  /\ Casts \subseteq SUBSET Actors /\ MaxKills \in Nat /\ MaxFaults \in Nat

VARIABLES
  pc, queue, asked,  \* each actor's position; the models it still has to do, and all of them
  answer,            \* what its last command told its caller
  lock,              \* the holder of models/.locks/<model>.lock
  wsLock,            \* the holder of the workspace lock
  final, tmp,        \* each destination, and its .<name>.tmp
  seed, link,        \* the files of current/models, and what that path is
  origin,            \* history: who wrote the final file
  cast,              \* the actors of this behaviour
  kills, faults

commands == <<pc, queue, asked, answer>>
files    == <<final, tmp, origin>>
merge    == <<seed, link, wsLock>>
bounds   == <<cast, kills, faults>>
vars     == <<commands, lock, files, merge, bounds>>

Init ==
  /\ pc = [a \in Actors |-> "idle"]
  /\ queue = [a \in Actors |-> <<>>] /\ asked = [a \in Actors |-> {}]
  /\ answer = [a \in Actors |-> "none"]
  /\ lock = [m \in Models |-> NoActor] /\ wsLock = NoActor
  /\ final \in [Models -> InitialFiles] /\ tmp = [m \in Models |-> "absent"]
  /\ cast \in Casts /\ link = "dir"
  /\ seed \in [Models -> IF cast \cap Links = {} THEN {"absent"} ELSE SeedFiles]
  /\ origin = [m \in Models |-> NoActor]
  /\ kills = 0 /\ faults = 0

-----------------------------------------------------------------------------
(* What the code reads off the files.                                       *)

SizeOK(m, c) == c # "short" \/ "size" \notin Declared[m]
ShaOK(m, c)  == c = "good" \/ "sha" \notin Declared[m]

Passes(m, c) == c \notin {"absent", "dir"} /\ SizeOK(m, c) /\ ShaOK(m, c)

InspectStatus(m) ==
  IF final[m] = "dir" THEN "path_conflict"
  ELSE IF final[m] # "absent"
       THEN IF ~SizeOK(m, final[m]) THEN "size_mismatch"
            ELSE IF ~ShaOK(m, final[m]) THEN "sha_mismatch" ELSE "exists"
       ELSE IF tmp[m] # "absent" THEN "downloading" ELSE "missing"

\* Mutant: missing forgets the models whose digest is wrong.
ActionableSizeOnly == {m \in Models : InspectStatus(m) \in {"missing", "size_mismatch", "path_conflict"}}

Actionable ==
  {m \in Models : InspectStatus(m) \in {"missing", "size_mismatch", "sha_mismatch", "path_conflict"}}

-----------------------------------------------------------------------------
(* Control flow of a command.                                               *)

At(a, loc)   == pc[a] = loc
Goto(a, loc) == pc' = [pc EXCEPT ![a] = loc]
M(a)         == Head(queue[a])

Released(a) == [m \in Models |-> IF lock[m] = a THEN NoActor ELSE lock[m]]

\* Mutant: the lock is a file that only a successful command removes.
ReturnLocked(a, what) ==
  /\ Goto(a, "idle") /\ answer' = [answer EXCEPT ![a] = what]
  /\ queue' = [queue EXCEPT ![a] = <<>>] /\ lock' = IF what = "ok" THEN Released(a) ELSE lock
  /\ UNCHANGED asked

Return(a, what) ==
  /\ Goto(a, "idle") /\ answer' = [answer EXCEPT ![a] = what]
  /\ queue' = [queue EXCEPT ![a] = <<>>] /\ lock' = Released(a)
  /\ UNCHANGED asked

\* The files of a command that raises stay as they are.
Fail(a) == Return(a, "failed") /\ UNCHANGED <<files, merge, bounds>>

\* Mutant: a workflow's first model is its last.
ItemDoneEarly(a) == Return(a, "ok")

ItemDone(a) ==
  IF Len(queue[a]) = 1 THEN Return(a, "ok")
  ELSE /\ queue' = [queue EXCEPT ![a] = Tail(@)]
       /\ Goto(a, "check") /\ lock' = Released(a)
       /\ UNCHANGED <<asked, answer>>

Step(a, from, to) == At(a, from) /\ Goto(a, to) /\ UNCHANGED <<queue, asked, answer>>

-----------------------------------------------------------------------------
(* download_workflow_models, download_model_by_id.                          *)

Ask(d, models) ==
  /\ At(d, "idle") /\ models # <<>>
  /\ Goto(d, "check")
  /\ queue' = [queue EXCEPT ![d] = models] /\ asked' = [asked EXCEPT ![d] = Range(models)]
  /\ answer' = [answer EXCEPT ![d] = "none"]
  /\ UNCHANGED <<lock, files, merge, bounds>>

DownloadWorkflow(d) == Ask(d, Workflow)
\* What missing listed, in the order of the workflow.
DownloadMissing(d) ==
  LET listed == {i \in DOMAIN Workflow : Workflow[i] \in Actionable} IN
  \E at \in [1..Cardinality(listed) -> listed] :
    /\ \A j, k \in DOMAIN at : j < k => at[j] < at[k]
    /\ Ask(d, [k \in DOMAIN at |-> Workflow[at[k]]])
DownloadModel(d) == \E m \in Models : Ask(d, <<m>>)

\* existing_model_download_result, before the lock and again under it.
Look(d) ==
  \/ /\ \/ Step(d, "check", "lock") \/ Step(d, "recheck", "fetch")
     /\ final[M(d)] = "absent"
     /\ UNCHANGED <<lock, files, merge, bounds>>
  \/ /\ \/ Step(d, "check", "found") \/ Step(d, "recheck", "found")
     /\ final[M(d)] # "absent"
     /\ UNCHANGED <<lock, files, merge, bounds>>

\* The file may have gone between the test and the read: that raises too.
VerifyExisting(d) ==
  /\ At(d, "found")
  /\ IF Passes(M(d), final[M(d)]) THEN ItemDone(d) /\ UNCHANGED <<files, merge, bounds>>
     ELSE Fail(d)

\* Mutant: the lock is taken whoever holds it.
TakeAnyLock(d) ==
  /\ Step(d, "lock", "recheck") /\ lock' = [lock EXCEPT ![M(d)] = d]
  /\ UNCHANGED <<files, merge, bounds>>

TakeLock(d) ==
  /\ At(d, "lock")
  /\ \/ /\ lock[M(d)] = NoActor
        /\ Step(d, "lock", "recheck") /\ lock' = [lock EXCEPT ![M(d)] = d]
        /\ UNCHANGED <<files, merge, bounds>>
     \/ lock[M(d)] # NoActor /\ Fail(d)

\* Every source that does not answer well counts against MaxFaults.
Serve(a, c) ==
  /\ c \in Served /\ (c = "good" \/ faults < MaxFaults)
  /\ faults' = IF c = "good" THEN faults ELSE faults + 1
  /\ UNCHANGED <<cast, kills>>

PutTmp(m, c) == tmp' = [tmp EXCEPT ![m] = c] /\ UNCHANGED <<final, origin>>
PutFinal(a, c) ==
  /\ final' = [final EXCEPT ![M(a)] = c]
  /\ origin' = [origin EXCEPT ![M(a)] = a]

\* download_url and copy_local_model: clear, open, copy, verify, replace.
ClearTmp(d) ==
  /\ Step(d, "fetch", "open") /\ Source[M(d)] \in {"url", "local"}
  /\ PutTmp(M(d), "absent") /\ UNCHANGED <<lock, merge, bounds>>

LocalMissing(d) ==
  /\ At(d, "fetch") /\ Source[M(d)] = "local" /\ Serve(d, "error")
  /\ Return(d, "failed") /\ UNCHANGED <<files, merge>>

OpenTmp(d) ==
  /\ Step(d, "open", "copy") /\ PutTmp(M(d), "short") /\ UNCHANGED <<lock, merge, bounds>>

CopyToTmp(d) == \E c \in Served :
  /\ Serve(d, c)
  /\ IF c = "error" THEN Step(d, "copy", "clean") /\ UNCHANGED files
     ELSE Step(d, "copy", "verify") /\ PutTmp(M(d), c)
  /\ UNCHANGED <<lock, merge>>

VerifyTmp(d) ==
  /\ At(d, "verify")
  /\ IF Passes(M(d), tmp[M(d)]) THEN Step(d, "verify", "replace") ELSE Step(d, "verify", "clean")
  /\ UNCHANGED <<lock, files, merge, bounds>>

\* A directory that a merge has made there meanwhile is not replaced.
ReplaceFinal(d) ==
  /\ At(d, "replace") /\ tmp[M(d)] # "absent"
  /\ IF final[M(d)] = "dir" THEN Step(d, "replace", "clean") /\ UNCHANGED files
     ELSE /\ Step(d, "replace", "final")
          /\ PutFinal(d, tmp[M(d)]) /\ tmp' = [tmp EXCEPT ![M(d)] = "absent"]
  /\ UNCHANGED <<lock, merge, bounds>>

CleanTmp(d) ==
  /\ At(d, "clean") /\ Return(d, "failed")
  /\ PutTmp(M(d), "absent") /\ UNCHANGED <<merge, bounds>>

\* download_huggingface: the library moves what it fetched onto the destination.
HubFetch(d) == \E c \in Served :
  /\ At(d, "fetch") /\ Source[M(d)] = "huggingface" /\ Serve(d, c)
  /\ IF c = "error" \/ final[M(d)] = "dir" THEN Return(d, "failed") /\ UNCHANGED files
     ELSE /\ Step(d, "fetch", "hub_verify") /\ PutFinal(d, c) /\ UNCHANGED <<tmp, lock>>
  /\ UNCHANGED merge

HubVerify(d) ==
  /\ At(d, "hub_verify")
  /\ IF Passes(M(d), final[M(d)]) THEN Step(d, "hub_verify", "final")
     ELSE Step(d, "hub_verify", "hub_unlink")
  /\ UNCHANGED <<lock, files, merge, bounds>>

HubUnlink(d) ==
  /\ At(d, "hub_unlink") /\ Return(d, "failed")
  /\ final' = [final EXCEPT ![M(d)] = "absent"] /\ origin' = [origin EXCEPT ![M(d)] = NoActor]
  /\ UNCHANGED <<tmp, merge, bounds>>

\* Both verifications are made again on the destination, under the lock.
FinalVerify(d) ==
  /\ At(d, "final")
  /\ IF Passes(M(d), final[M(d)]) THEN ItemDone(d) /\ UNCHANGED <<files, merge, bounds>>
     ELSE Fail(d)

Download(d) ==
  \/ Look(d) \/ VerifyExisting(d) \/ TakeLock(d)
  \/ LocalMissing(d) \/ ClearTmp(d) \/ OpenTmp(d) \/ CopyToTmp(d) \/ VerifyTmp(d) \/ ReplaceFinal(d) \/ CleanTmp(d)
  \/ HubFetch(d) \/ HubVerify(d) \/ HubUnlink(d) \/ FinalVerify(d)

-----------------------------------------------------------------------------
(* hf_download: the same lock, no verification.                             *)

\* Mutant: the manual download has a lock file of its own.
ManualStartOwnLock(h) == \E m \in Models :
  /\ At(h, "idle") /\ Goto(h, "manual")
  /\ queue' = [queue EXCEPT ![h] = <<m>>]
  /\ UNCHANGED <<lock, answer, asked, files, merge, bounds>>

ManualStart(h) == \E m \in Models :
  /\ At(h, "idle")
  /\ IF lock[m] = NoActor
     THEN /\ Goto(h, "manual") /\ lock' = [lock EXCEPT ![m] = h]
          /\ queue' = [queue EXCEPT ![h] = <<m>>] /\ UNCHANGED answer
     ELSE answer' = [answer EXCEPT ![h] = "failed"] /\ UNCHANGED <<pc, queue, lock>>
  /\ UNCHANGED <<asked, files, merge, bounds>>

ManualFetch(h) == \E c \in Served :
  /\ At(h, "manual") /\ Serve(h, c)
  /\ IF c = "error" \/ final[M(h)] = "dir" THEN Return(h, "failed") /\ UNCHANGED files
     ELSE Return(h, "ok") /\ PutFinal(h, c) /\ UNCHANGED tmp
  /\ UNCHANGED merge

-----------------------------------------------------------------------------
(* link_models: validate the whole seed, merge it file by file, then link.   *)

SeedFile(m) == seed[m] \notin {"absent", "dir"}

\* Mutant: any file that is there counts, one with the same bytes too.
ConflictsWithAny(m) == SeedFile(m) /\ final[m] # "absent"

\* The directories of the seed are not looked at.
Conflicts(m) == SeedFile(m) /\ final[m] \notin {"absent", seed[m]}

LinkReturn(l, what) ==
  /\ Goto(l, "idle") /\ answer' = [answer EXCEPT ![l] = what]
  /\ queue' = [queue EXCEPT ![l] = <<>>] /\ wsLock' = NoActor
  /\ UNCHANGED asked

\* A call that finds the workspace locked is refused and changes nothing.
LinkStart(l) ==
  /\ At(l, "idle") /\ wsLock = NoActor
  /\ wsLock' = l /\ Goto(l, "validate")
  /\ UNCHANGED <<queue, asked, answer, lock, files, seed, link, bounds>>

\* Mutant: the seed is not looked at before it is merged.
ValidateNothing(l) ==
  /\ Step(l, "validate", "merge") /\ link = "dir"
  /\ UNCHANGED <<lock, files, merge, bounds>>

ValidateSeed(l) ==
  /\ At(l, "validate")
  /\ \/ link = "link" /\ LinkReturn(l, "ok")
     \/ link = "dir" /\ (\E m \in Models : Conflicts(m)) /\ LinkReturn(l, "failed")
     \/ /\ link = "dir" /\ (\A m \in Models : ~Conflicts(m)) /\ Step(l, "validate", "merge")
        /\ UNCHANGED wsLock
     \/ link = "none" /\ Step(l, "validate", "link") /\ UNCHANGED wsLock
  /\ UNCHANGED <<lock, files, seed, link, bounds>>

\* mkdir: there is nothing of that name yet, or it raises on a file.
MergeDir(l) == \E m \in Models :
  /\ At(l, "merge") /\ seed[m] = "dir"
  /\ \/ /\ final[m] = "absent" /\ final' = [final EXCEPT ![m] = "dir"]
        /\ origin' = [origin EXCEPT ![m] = l] /\ UNCHANGED <<commands, tmp, wsLock>>
     \/ final[m] \notin {"absent", "dir"} /\ LinkReturn(l, "failed") /\ UNCHANGED files
  /\ UNCHANGED <<lock, seed, link, bounds>>

\* The target is looked at and compared; what is then done is a step of its own.
MergeOne(l) == \E m \in Models :
  /\ At(l, "merge") /\ SeedFile(m)
  /\ \/ Conflicts(m) /\ LinkReturn(l, "failed")
     \/ /\ ~Conflicts(m) /\ Goto(l, IF final[m] = "absent" THEN "rename" ELSE "unlink")
        /\ queue' = [queue EXCEPT ![l] = <<m>>] /\ UNCHANGED <<asked, answer, wsLock>>
  /\ UNCHANGED <<lock, files, seed, link, bounds>>

UnlinkSeed(l) ==
  /\ Step(l, "unlink", "merge")
  /\ seed' = [seed EXCEPT ![M(l)] = "absent"]
  /\ UNCHANGED <<files, lock, link, wsLock, bounds>>

RenameSeed(l) ==
  /\ Step(l, "rename", "merge")
  /\ PutFinal(l, seed[M(l)]) /\ seed' = [seed EXCEPT ![M(l)] = "absent"]
  /\ UNCHANGED <<tmp, lock, link, wsLock, bounds>>

\* Mutant: the directory is removed as soon as one file has been dealt with.
RemoveSeedEarly(l) ==
  /\ Step(l, "merge", "link") /\ seed' = [m \in Models |-> "absent"] /\ link' = "none"
  /\ UNCHANGED <<lock, files, wsLock, bounds>>

\* The directories that are left are in models/ too.
RemoveSeed(l) ==
  /\ \A m \in Models : seed[m] = "absent" \/ (seed[m] = "dir" /\ final[m] = "dir")
  /\ Step(l, "merge", "link") /\ seed' = [m \in Models |-> "absent"] /\ link' = "none"
  /\ UNCHANGED <<lock, files, wsLock, bounds>>

MakeLink(l) ==
  /\ At(l, "link") /\ LinkReturn(l, "ok") /\ link' = "link"
  /\ UNCHANGED <<lock, files, seed, bounds>>

Link(l) ==
  \/ LinkStart(l) \/ ValidateSeed(l) \/ MergeDir(l) \/ MergeOne(l) \/ UnlinkSeed(l) \/ RenameSeed(l)
  \/ RemoveSeed(l) \/ MakeLink(l)

\* An operation on a file raises; what was moved stays moved.
LinkRaises(l) ==
  /\ ~At(l, "idle") /\ faults < MaxFaults /\ faults' = faults + 1
  /\ LinkReturn(l, "failed")
  /\ UNCHANGED <<lock, files, seed, link, cast, kills>>

-----------------------------------------------------------------------------
(* A command, or the API with the threads in it, is killed.                 *)
Kill(a) ==
  /\ ~At(a, "idle") /\ kills < MaxKills
  /\ Return(a, "killed") /\ wsLock' = IF wsLock = a THEN NoActor ELSE wsLock
  /\ kills' = kills + 1
  /\ UNCHANGED <<files, seed, link, cast, faults>>

Next ==
  \/ \E d \in Downloads \cap cast : DownloadWorkflow(d) \/ DownloadMissing(d) \/ DownloadModel(d) \/ Download(d)
  \/ \E h \in Manual \cap cast : ManualStart(h) \/ ManualFetch(h)
  \/ \E l \in Links \cap cast : Link(l) \/ LinkRaises(l)
  \/ \E a \in Actors : Kill(a)

Spec == Init /\ [][Next]_vars

\* A command that has been given goes on; whatever else its operator asks for,
\* he comes back to the workflow, and asks again for a link that was not made.
Fairness ==
  /\ \A d \in Downloads :
       WF_vars(Download(d)) /\ SF_vars(d \in cast /\ DownloadWorkflow(d))
  /\ \A l \in Links : WF_vars(l \in cast /\ Link(l))

FairSpec == Spec /\ Fairness

-----------------------------------------------------------------------------
(* Properties.                                                              *)

TypeOK ==
  /\ pc \in [Actors -> {"idle", "check", "found", "lock", "recheck", "fetch", "open", "copy",
                        "verify", "replace", "clean", "hub_verify", "hub_unlink", "final",
                        "manual", "validate", "merge", "unlink", "rename", "link"}]
  /\ queue \in [Actors -> Seq(Models)] /\ asked \in [Actors -> SUBSET Models]
  /\ answer \in [Actors -> {"none", "ok", "failed", "killed"}]
  /\ lock \in [Models -> Actors \cup {NoActor}] /\ wsLock \in Links \cup {NoActor}
  /\ final \in [Models -> Contents] /\ tmp \in [Models -> Contents \ {"dir"}]
  /\ seed \in [Models -> Contents] /\ link \in {"dir", "none", "link"}
  /\ origin \in [Models -> Actors \cup {NoActor}]
  /\ cast \in Casts /\ kills \in 0..MaxKills /\ faults \in 0..MaxFaults

(* download_url, copy_local_model: the bytes a catalogue download put at the *)
(* destination are the bytes it verified, however the commands interleave    *)
(* and whoever dies: nobody else writes the temporary file in between.       *)
PublishedIsVerified ==
  \A m \in Models :
    origin[m] \in Downloads /\ Source[m] # "huggingface" => Passes(m, final[m])

(* download_model_entry: an answer "downloaded" is about the bytes this very  *)
(* command published; a manual download of the same file waits its turn.      *)
(* A merge beside it does not (NoSilentOverwrite), so no merge is beside it.  *)
DownloadedIsOwn ==
  [][\A d \in Downloads :
       cast \cap Links = {} /\ At(d, "final") /\ ~At(d, "final")' /\ answer'[d] \in {"none", "ok"}
       => origin[M(d)] = d]_vars

(* inspect, missing: as long as no download has been killed, a model that is *)
(* not usable is either listed by missing or being downloaded by somebody.    *)
MissingOrDownloading ==
  kills = 0 => \A m \in Models :
    ~Passes(m, final[m]) =>
      m \in Actionable \/ \E d \in Downloads : queue[d] # <<>> /\ M(d) = m

\* Nobody but merges replaces or removes what is at the destination of m: a
\* manual download replaces it, and a Hugging Face download removes what does
\* not verify, whoever has put it there.
OnlyAdded(m) == cast \cap Manual = {} /\ (Source[m] = "huggingface" => cast \cap Downloads = {})

(* merge_seed_models: a merge that fails, raises or is killed half way loses  *)
(* nothing: every file the runtime brought is still in its place or in        *)
(* models/, also beside a download that publishes the same name between the   *)
(* comparison and the unlink; unless the download is one that replaces or     *)
(* removes files there (OnlyAdded): between the two the only copy may go.     *)
SeedKept ==
  [][\A m \in Models : SeedFile(m) /\ OnlyAdded(m) => seed'[m] = seed[m] \/ final'[m] = seed[m]]_vars

(* validate_seed_models before merge_seed_models: a conflict of two files is  *)
(* found before the first of them moves.  Where nobody else writes and no     *)
(* file operation raises, a call that fails has moved nothing, but for one    *)
(* that meets a directory of the seed with a file of its name in models/:     *)
(* validation skips directories, and mkdir raises after others have moved.    *)
ConflictMovesNothing ==
  cast \subseteq Links /\ faults = 0 /\ (\E l \in Links : answer[l] = "failed")
    => \/ \A m \in Models : origin[m] \notin Links
       \/ \E m \in Models : seed[m] = "dir" /\ final[m] \notin {"absent", "dir"}

\* The seed and models/ agree on every name they share.
Mergeable == \A m \in Models : seed[m] = "absent" \/ final[m] \in {"absent", seed[m]}

(* link_models: a merge that was killed or has raised anywhere, between two   *)
(* renames or after rmtree, is taken up by the next calls, which find what    *)
(* it has moved identical or gone, and in the end the link is made.           *)
MergeCompletes == cast # {} /\ cast \subseteq Links /\ Mergeable ~> link = "link"

(* docs/architecture.md:247, a name with other content is a conflict: no      *)
(* seed file takes the place of a model that is already there.                *)
NoSilentOverwrite ==
  [][\A m \in Models, l \in Links :
       origin'[m] = l /\ origin[m] # l => final[m] \in {"absent", final'[m]}]_vars

\* A file that is there and does not pass is never replaced by a download, and
\* Hugging Face puts files there before they are verified.
Recoverable(m) == Source[m] # "huggingface" /\ (final[m] = "absent" \/ Passes(m, final[m]))

(* A killed download, its temporary file and failing answers never keep a     *)
(* later download of the workflow from getting as far as it could.            *)
RetryCompletes ==
  \A i \in 1..Len(Workflow) :
    cast # {} /\ cast \subseteq Downloads /\ (\A j \in 1..i : Recoverable(Workflow[j]))
      ~> Passes(Workflow[i], final[Workflow[i]])

\* What the shelf shows while only catalogue downloads take part.
Usable  == IF cast \subseteq Downloads THEN {m \in Models : Passes(m, final[m])} ELSE {}
Granted == [d \in Downloads |-> IF cast \subseteq Downloads /\ answer[d] = "ok" THEN asked[d] ELSE {}]

Shelf == INSTANCE ModelShelf WITH usable <- Usable, granted <- Granted

(* Catalogue downloads alone implement the shelf: a model becomes usable once *)
(* and stays so, and a command succeeds only with every model it asked for.   *)
ImplementsModelShelf == Shelf!Spec
=============================================================================
