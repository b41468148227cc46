--------------------------- MODULE RuntimeRegistry ---------------------------
(***************************************************************************)
(* import_runtime and stage_runtime_from_zip.  A runtime is a directory    *)
(* with a ComfyUI tree and a venv, and an entry of runtimes.json; names    *)
(* that are registered or whose directory exists are refused.  Importing   *)
(* cleans up after its two copies only, staging after every step.          *)
(***************************************************************************)
EXTENDS LockedCommand

CONSTANTS
  Names,       \* runtime names
  Registered   \* those in runtimes.json at first

ASSUME NamesAssumption == Registered \subseteq Names

VARIABLES
  tree,     \* how much of each runtime's ComfyUI and .venv is there
  registry, \* runtimes.json, replaced as a whole
  staging   \* the names with a directory staging/.extract-<name>

runtimes == <<tree, registry, staging>>

Parts  == {"comfy", "venv"}
Extent == {"absent", "partial", "whole"}
Nothing    == [p \in Parts |-> "absent"]
Everything == [p \in Parts |-> "whole"]

RuntimesInit ==
  /\ tree = [n \in Names |-> IF n \in Registered THEN Everything ELSE Nothing]
  /\ registry = Registered /\ staging = {}

Exists(n) == tree[n] # Nothing

\* The directories that a killed command may leave: those nobody registered.
UnregisteredTrees == {n \in Names : Exists(n) /\ n \notin registry} \cup staging

StartOn(c, n, loc) ==
  /\ TakeLock(c, "idle", loc, n)
  /\ n \notin registry /\ ~Exists(n)

ImportStart(c, n) == StartOn(c, n, "import_comfy") /\ UNCHANGED <<tree, registry, staging>>

StageStart(c, n) ==
  /\ StartOn(c, n, "stage_extract") /\ \E seed \in registry : tree[seed] = Everything
  /\ staging' = staging \ {n}
  /\ UNCHANGED <<tree, registry>>

Discard(n) == tree' = [tree EXCEPT ![n] = Nothing]

\* rsync makes the directory and fills it.
\* Mutant: rsync's return code is not looked at.
CopyUnchecked(c, part, from, to) == LET n == work[c] IN
  /\ At(c, from)
  /\ \/ tree[n][part] = "absent" /\ tree' = [tree EXCEPT ![n][part] = "partial"] /\ UNCHANGED shared
     \/ /\ tree[n][part] = "partial" /\ Goto(c, to)
        /\ \E extent \in {"partial", "whole"} : tree' = [tree EXCEPT ![n][part] = extent]
  /\ UNCHANGED <<registry, staging>>

Copy(c, part, from, to) == LET n == work[c] IN
  /\ At(c, from)
  /\ \/ tree[n][part] = "absent" /\ tree' = [tree EXCEPT ![n][part] = "partial"] /\ UNCHANGED shared
     \/ tree[n][part] = "partial" /\ tree' = [tree EXCEPT ![n][part] = "whole"] /\ Goto(c, to)
  /\ UNCHANGED <<registry, staging>>

ImportCopies(c) ==
  \/ Copy(c, "comfy", "import_comfy", "import_venv")
  \/ Copy(c, "venv", "import_venv", "import_register")

\* except Exception around the two copies.
ImportFails(c) ==
  /\ pc[c] \in {"import_comfy", "import_venv"}
  /\ Fail(c, {}) /\ Discard(work[c]) /\ UNCHANGED <<registry, staging>>

\* The archive is extracted beside the runtimes and its root renamed into place.
StageExtract(c) ==
  /\ At(c, "stage_extract")
  /\ \/ work[c] \notin staging /\ staging' = staging \cup {work[c]} /\ UNCHANGED <<shared, tree>>
     \/ /\ work[c] \in staging /\ Goto(c, "stage_venv")
        /\ tree' = [tree EXCEPT ![work[c]]["comfy"] = "whole"] /\ UNCHANGED staging
  /\ UNCHANGED registry

StageCopies(c) == Copy(c, "venv", "stage_venv", "stage_register")

\* Mutant: only the extract directory is removed.
StageFailsHalf(c) ==
  /\ pc[c] \in {"stage_extract", "stage_venv", "stage_register"}
  /\ Fail(c, {}) /\ staging' = staging \ {work[c]}
  /\ UNCHANGED <<tree, registry>>

\* except Exception and finally around everything that follows the checks.
StageFails(c) ==
  /\ pc[c] \in {"stage_extract", "stage_venv", "stage_register"}
  /\ Fail(c, {}) /\ Discard(work[c]) /\ staging' = staging \ {work[c]}
  /\ UNCHANGED registry

Register(c) ==
  /\ pc[c] \in {"import_register", "stage_register"} /\ Finish(c)
  /\ registry' = registry \cup {work[c]}
  /\ staging' = IF At(c, "stage_register") THEN staging \ {work[c]} ELSE staging
  /\ UNCHANGED tree

\* The copy does not validate, or its meta or the registry cannot be written.
ImportFailsLate(c) ==
  /\ At(c, "import_register") /\ Fail(c, {work[c]}) /\ UNCHANGED runtimes

\* What a killed rsync would have been writing, and what it does alone.
Copying(c) == {work[c]} \cap {n \in Names : \E p \in Parts : tree[n][p] = "partial"}

OrphanCopyEnds(n) ==
  /\ OrphanEnds(n)
  /\ tree' = [tree EXCEPT ![n] = [p \in Parts |-> IF @[p] = "partial" THEN "whole" ELSE @[p]]]
  /\ UNCHANGED <<registry, staging>>

RuntimeStep(c) ==
  \/ ImportCopies(c) \/ ImportFails(c) \/ ImportFailsLate(c)
  \/ StageExtract(c) \/ StageCopies(c) \/ StageFails(c) \/ Register(c)

-----------------------------------------------------------------------------
RuntimesTypeOK ==
  /\ tree \in [Names -> [Parts -> Extent]] /\ registry \subseteq Names
  /\ staging \subseteq Names

RegisteredIsWhole == \A n \in registry : tree[n] = Everything

\* A directory that no command works on is registered, or was left.
RuntimesLeaveNothing ==
  \A n \in UnregisteredTrees : n \in left \/ \E c \in Commands : work[c] = n /\ ~At(c, "idle")
=============================================================================
