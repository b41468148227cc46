-------------------------------- MODULE ApiHost --------------------------------
(***************************************************************************)
(* What dev.sh and deploy.sh promise an operator who runs one command      *)
(* after the other: there is one API at most, and what a command says of   *)
(* it is so at the moment when it says it.                                 *)
(***************************************************************************)
CONSTANTS Commands, Pids, NoPid

VARIABLES
  live,     \* the API process of this host, NoPid when there is none
  serving,  \* it serves, with every provider started
  full,     \* the compose-full API runs
  told,     \* what each command has last said
  stranger, \* another program has had the port
  trouble   \* two commands have been at work at once, or one was interrupted

host == <<live, serving, full, told, stranger, trouble>>

Init ==
  /\ live = NoPid /\ serving = FALSE /\ full = FALSE
  /\ told = [c \in Commands |-> "none"] /\ stranger = FALSE /\ trouble = FALSE

Launch ==
  /\ live = NoPid /\ ~full
  /\ live' \in Pids /\ UNCHANGED <<serving, full, told, stranger, trouble>>

Serve ==
  /\ live # NoPid /\ serving' = TRUE
  /\ UNCHANGED <<live, full, told, stranger, trouble>>

Withdraw == serving' = FALSE /\ UNCHANGED <<live, full, told, stranger, trouble>>

\* Stopped, or of itself, or because it crashed.
End == live' = NoPid /\ serving' = FALSE /\ UNCHANGED <<full, told, stranger, trouble>>

\* A start that finds an API, one that has waited for it, and a stop; "none" when a command
\* begins.
Say(c, what) ==
  /\ what = "running" => live # NoPid
  /\ what = "ready"   => serving \/ stranger
  /\ what = "stopped" => live = NoPid
  /\ told' = [told EXCEPT ![c] = what] /\ UNCHANGED <<live, serving, full, stranger, trouble>>

\* up and down
Compose(c) ==
  /\ full' = TRUE => live = NoPid
  /\ full' \in BOOLEAN /\ told' = [told EXCEPT ![c] = "done"]
  /\ UNCHANGED <<live, serving, stranger, trouble>>

Meet == stranger' = TRUE /\ UNCHANGED <<live, serving, full, told, trouble>>

\* With several commands at once nothing is promised, from then on.
Trouble == trouble' = TRUE

Next ==
  \/ Launch \/ Serve \/ Withdraw \/ End \/ Meet \/ Trouble
  \/ \E c \in Commands : Compose(c)
  \/ \E c \in Commands, what \in {"none", "running", "ready", "stopped", "failed"} : Say(c, what)

Spec == Init /\ [][Next]_host
=============================================================================
