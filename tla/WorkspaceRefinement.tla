-------------------------- MODULE WorkspaceRefinement --------------------------
(***************************************************************************)
(* The workspace implements ServiceControl.  A runtime counts as selected  *)
(* when its use_runtime has returned: until then the selection is the one  *)
(* the handler would restore.  What an orphan runs is not served: it is in *)
(* no file, and NoSwitchWhileServiceRuns shows what comes of it.           *)
(***************************************************************************)
EXTENDS Workspace

Switching(a) == pc[a] \in UseLocs \ {"use_current"}

Selected ==
  IF \E a \in Actors : Switching(a)
  THEN old[CHOOSE a \in Actors : Switching(a)].current
  ELSE current

Serving == IF Services = {} THEN NoTarget ELSE proc[CHOOSE p \in Services : TRUE].app

Control == INSTANCE ServiceControl
             WITH selected <- Selected, serving <- Serving, told <- reply, half <- switchLeft = "half"

(* Whatever crashes and failed writes happen, the recorded services follow   *)
(* the promise: what is served is what was selected, a selection changes     *)
(* only while nothing is served, and a use_runtime that has not answered     *)
(* "ok" has changed none; unless it was killed or its own restore failed,    *)
(* and then switchLeft says so until a switch completes.  use_version, the   *)
(* low-level path, moves the selection before it answers and is not undone.  *)
ImplementsServiceControl == Control!Spec
=============================================================================
