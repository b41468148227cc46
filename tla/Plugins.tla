------------------------------- MODULE Plugins -------------------------------
(***************************************************************************)
(* Custom nodes of the selected runtime: git clones, at the ref or branch  *)
(* that the catalogue names.  Installing takes the lock once per plugin,   *)
(* updating all of them takes it once; both refuse while ComfyUI runs.     *)
(***************************************************************************)
EXTENDS LockedCommand, SequencesExt

CONSTANT PluginOrder \* the catalogue's plugins, in order

PluginIds == Range(PluginOrder)

ASSUME PluginAssumption == PluginOrder \in Seq(PluginIds)

VARIABLES
  plugin,  \* each destination: absent, a file, a directory that is no clone, part of a
           \* clone, a clone at its default branch, or one at the ref it should have
  running  \* ComfyUI

plugins == <<plugin, running>>

PluginsInit == plugin \in [PluginIds -> {"absent", "file", "foreign"}] /\ running = FALSE

\* A command works on the plugins it still has to install or update.
P(c)         == Head(work[c])
Put(c, what) == plugin' = [plugin EXCEPT ![P(c)] = what]
IsDir(p)     == plugin[p] \notin {"absent", "file"}

Unpinned == {p \in PluginIds : plugin[p] \in {"partial", "default"}}

\* All the catalogue's plugins, if it has any, or one of them.
Requests == ({PluginOrder} \cup {<<p>> : p \in PluginIds}) \ {<<>>}

\* install_plugin_by_id, install_all_plugins
AskInstall(c) ==
  /\ At(c, "idle") /\ pc' = [pc EXCEPT ![c] = "install"]
  /\ \E ps \in Requests : work' = [work EXCEPT ![c] = ps]
  /\ UNCHANGED <<lock, orphans, left, faults, kills, plugins>>

\* This plugin is done and, when installing, the lock released.
NextPlugin(c, loc) ==
  IF Len(work[c]) = 1 THEN Finish(c)
  ELSE /\ pc' = [pc EXCEPT ![c] = loc] /\ work' = [work EXCEPT ![c] = Tail(@)]
       /\ lock' = IF loc = "install" THEN Released(c) ELSE lock
       /\ UNCHANGED <<orphans, left, faults, kills>>

\* Mutant: ComfyUI is not asked whether it runs.
InstallOneAnyTime(c) ==
  /\ At(c, "install")
  /\ \/ lock # NoCommand /\ Finish(c) /\ UNCHANGED plugins
     \/ lock = NoCommand /\ plugin[P(c)] = "file" /\ Finish(c) /\ UNCHANGED plugins
     \/ lock = NoCommand /\ IsDir(P(c)) /\ NextPlugin(c, "install") /\ UNCHANGED plugins
     \/ plugin[P(c)] = "absent" /\ TakeLock(c, "install", "clone", work[c]) /\ UNCHANGED plugins

InstallOne(c) ==
  /\ At(c, "install")
  /\ \/ (lock # NoCommand \/ running \/ plugin[P(c)] = "file") /\ Finish(c) /\ UNCHANGED plugins
     \/ lock = NoCommand /\ ~running /\ IsDir(P(c)) /\ NextPlugin(c, "install") /\ UNCHANGED plugins
     \/ ~running /\ plugin[P(c)] = "absent" /\ TakeLock(c, "install", "clone", work[c]) /\ UNCHANGED plugins

Clone(c) ==
  /\ At(c, "clone")
  /\ \/ plugin[P(c)] = "absent" /\ Put(c, "partial") /\ UNCHANGED shared
     \/ plugin[P(c)] = "partial" /\ Put(c, "default") /\ Goto(c, "checkout")
  /\ UNCHANGED running

Checkout(c) ==
  /\ At(c, "checkout") /\ Put(c, "pinned") /\ NextPlugin(c, "install") /\ UNCHANGED running

\* Mutant: only a failing clone is cleaned up, not a failing checkout.
InstallFailsHalf(c) ==
  /\ pc[c] \in {"clone", "checkout"} /\ Fail(c, {})
  /\ Put(c, IF At(c, "clone") THEN "absent" ELSE plugin[P(c)]) /\ UNCHANGED running

\* rmtree of the destination, whichever git command failed.
InstallFails(c) ==
  /\ pc[c] \in {"clone", "checkout"} /\ Fail(c, {})
  /\ Put(c, "absent") /\ UNCHANGED running

\* update_all_plugins skips what is not there; update_plugin_by_id refuses it.
UpdateStart(c) ==
  /\ ~running /\ \E ps \in Requests : TakeLock(c, "idle", "update", ps)
  /\ UNCHANGED plugins

\* fetch, checkout, pull.  Half a clone may be no git repository yet.
UpdateOne(c) ==
  /\ At(c, "update")
  /\ \/ plugin[P(c)] = "absent" /\ NextPlugin(c, "update") /\ UNCHANGED plugin
     \/ plugin[P(c)] \in {"file", "foreign", "partial"} /\ Finish(c) /\ UNCHANGED plugin
     \/ plugin[P(c)] \in {"partial", "default", "pinned"} /\ Put(c, "pinned") /\ NextPlugin(c, "update")
     \/ plugin[P(c)] \in {"partial", "default", "pinned"} /\ Fail(c, {}) /\ UNCHANGED plugin
  /\ UNCHANGED running

\* service start and stop hold the lock too; ComfyUI may end by itself.
StartService(c) ==
  /\ At(c, "idle") /\ lock = NoCommand /\ running' = TRUE /\ UNCHANGED <<shared, plugin>>
ServiceEnds == running /\ running' = FALSE /\ UNCHANGED <<shared, plugin>>

Cloning(c) == IF At(c, "clone") /\ plugin[P(c)] = "partial" THEN {P(c)} ELSE {}

OrphanCloneEnds(p) ==
  /\ OrphanEnds(p)
  /\ plugin' = [plugin EXCEPT ![p] = IF @ = "partial" THEN "default" ELSE @]
  /\ UNCHANGED running

PluginStep(c) == InstallOne(c) \/ Clone(c) \/ Checkout(c) \/ InstallFails(c) \/ UpdateOne(c)

-----------------------------------------------------------------------------
PluginsTypeOK ==
  /\ plugin \in [PluginIds -> {"absent", "file", "foreign", "partial", "default", "pinned"}]
  /\ running \in BOOLEAN

\* What is listed as installed is at its ref, is being cloned, or was left.
PluginsLeaveNothing ==
  \A p \in Unpinned : p \in left \/ \E c \in Commands : pc[c] \in {"clone", "checkout"} /\ P(c) = p
=============================================================================
