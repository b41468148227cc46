------------------------------ MODULE Installers ------------------------------
(***************************************************************************)
(* The installing commands together: whichever holds the workspace lock    *)
(* works on its own part of the workspace, and the others are refused.     *)
(***************************************************************************)
EXTENDS RuntimeRegistry, VersionStore, Plugins

CONSTANT Shifts \* which commands are given in a behaviour: sets of subcommands

VARIABLE shift

vars == <<shared, runtimes, versions, plugins, shift>>

Init ==
  /\ SharedInit /\ RuntimesInit /\ VersionsInit /\ PluginsInit
  /\ shift \in Shifts /\ ("plugins" \in shift \/ \A p \in PluginIds : plugin[p] = "absent")

Only(action, others) == action /\ UNCHANGED others

NewCommand(c) ==
  \/ Only("runtimes" \in shift /\ \E n \in Names : ImportStart(c, n) \/ StageStart(c, n), <<versions, plugins, shift>>)
  \/ Only("versions" \in shift /\ \E r \in Refs : FetchStart(c, r), <<runtimes, plugins, shift>>)
  \/ Only("plugins" \in shift /\ (AskInstall(c) \/ UpdateStart(c) \/ StartService(c)), <<runtimes, versions, shift>>)

Step(c) ==
  \/ Only(RuntimeStep(c), <<versions, plugins, shift>>)
  \/ Only(VersionStep(c), <<runtimes, plugins, shift>>)
  \/ Only(PluginStep(c), <<runtimes, versions, shift>>)

\* SIGKILL, or an interrupt: except Exception does not catch KeyboardInterrupt.
Kill(c) ==
  /\ KillCommand(c, UnregisteredTrees \cup NamelessVersions \cup Unpinned, Copying(c) \cup Cloning(c))
  /\ UNCHANGED <<runtimes, versions, plugins, shift>>

Orphan ==
  \/ Only(\E n \in Names : OrphanCopyEnds(n), <<versions, plugins, shift>>)
  \/ Only(\E p \in PluginIds : OrphanCloneEnds(p), <<runtimes, versions, shift>>)

Next ==
  \/ \E c \in Commands : NewCommand(c) \/ Step(c) \/ Kill(c)
  \/ Orphan
  \/ Only(ServiceEnds, <<runtimes, versions, shift>>)

Spec == Init /\ [][Next]_vars

\* A command that has been given goes on; an operator asks again for a runtime.
FairSpec ==
  /\ Spec
  /\ \A c \in Commands : WF_vars(Step(c))
  /\ \A n \in Names : SF_vars("runtimes" \in shift /\ \E c \in Commands :
       Only(ImportStart(c, n) \/ StageStart(c, n), <<versions, plugins, shift>>))

-----------------------------------------------------------------------------
RuntimeLocs == {"import_comfy", "import_venv", "import_register",
                "stage_extract", "stage_venv", "stage_register"}
LookedLocs  == {"fetch_look", "fetch_extract", "fetch_meta", "fetch_write"}
PluginLocs  == {"install", "clone", "checkout", "update"}

WorkTyped(c) ==
  /\ pc[c] \in RuntimeLocs => work[c] \in Names
  /\ At(c, "fetch_download") => work[c] \in {<<r>> : r \in Refs}
  /\ pc[c] \in LookedLocs => work[c] \in Refs \X Commits
  /\ pc[c] \in PluginLocs => work[c] \in Seq(PluginIds) \ {<<>>}

TypeOK ==
  /\ pc \in [Commands -> {"idle", "fetch_download"} \cup RuntimeLocs \cup LookedLocs \cup PluginLocs]
  /\ DOMAIN work = Commands /\ \A c \in Commands : WorkTyped(c)
  /\ lock \in Commands \cup {NoCommand}
  /\ lock # NoCommand => pc[lock] \notin {"idle", "install"}
  /\ orphans \cup left \subseteq Names \cup Refs \cup VersionIds \cup PluginIds
  /\ RuntimesTypeOK /\ VersionsTypeOK /\ PluginsTypeOK

(* list_runtimes, list_versions: a runtime that is registered is all there, and *)
(* a version's meta names the commit its directory holds, whatever fails, is   *)
(* killed, or shares its first digits with another commit.                     *)
ListedIsTrue == RegisteredIsWhole /\ MetaIsItsCommit

(* docs/architecture.md:385, "no pretended version directory": a command that  *)
(* fails leaves nothing that a later one would refuse or list, save an import  *)
(* that fails after its copies and a fetch that cannot write its meta.         *)
FailureLeavesNothing == RuntimesLeaveNothing /\ VersionsLeaveNothing /\ PluginsLeaveNothing

(* runtime_exists never stands in the way of a retry: a name that is asked for *)
(* again and again gets registered, unless a kill or a late failure of an      *)
(* import left its directory.                                                  *)
RetrySucceeds == \A n \in Names : "runtimes" \in shift ~> n \in registry \cup left

(* ensure_comfyui_stopped: a running ComfyUI does not see its plugins change,  *)
(* but for a git that outlived its command.                                    *)
QuietPlugins ==
  [][\A p \in PluginIds : running /\ plugin'[p] # plugin[p] => p \in orphans]_vars
=============================================================================
