---------------------------- MODULE ServiceControl ----------------------------
(***************************************************************************)
(* What the workspace promises its operator: one target is selected, at    *)
(* most one service runs, it runs what was selected when it began, and the *)
(* selection changes only while nothing runs, and only by a switch that    *)
(* has answered "ok", by the low-level path, or by a switch that was cut   *)
(* short; the last is on record until a switch completes.                  *)
(***************************************************************************)
CONSTANTS Runtimes, Versions, NoTarget

VARIABLES
  selected, serving,
  told,    \* the last answer given to a caller
  half     \* a switch was cut short and none has completed since

vars == <<selected, serving, told, half>>

Init == selected = NoTarget /\ serving = NoTarget /\ told = "none" /\ half = FALSE

\* A runtime becomes the selected one as its caller is told so; a version has
\* become it before.
Complete(t) ==
  /\ serving = NoTarget /\ t \in Runtimes \cup {selected}
  /\ selected' = t /\ told' = "ok" /\ half' = FALSE
  /\ UNCHANGED serving

\* The low-level path takes effect before it answers.
Move(t) ==
  /\ serving = NoTarget
  /\ selected' = t
  /\ UNCHANGED <<serving, told, half>>

\* A switch is killed, its restore fails, or the low-level path raises half way.
Cut(t) ==
  /\ serving = NoTarget
  /\ selected' = t /\ told' # "ok" /\ half' = TRUE
  /\ UNCHANGED serving

Serve ==
  /\ serving = NoTarget /\ selected # NoTarget
  /\ serving' = selected
  /\ UNCHANGED <<selected, told, half>>

\* The service may be lost with the start that failed, whose caller hears of it.
End == serving # NoTarget /\ serving' = NoTarget /\ UNCHANGED <<selected, half>>

\* Everything else, every refused or failed switch among it, only answers.
Answer == UNCHANGED <<selected, serving, half>>

Next ==
  \/ \E t \in Runtimes \cup {selected} : Complete(t)
  \/ \E t \in Versions : Move(t)
  \/ \E t \in Runtimes \cup Versions \cup {NoTarget} : Cut(t)
  \/ Serve \/ End \/ Answer

Spec == Init /\ [][Next]_vars
=============================================================================
