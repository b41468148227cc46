---------------------------- MODULE LockedCommand ----------------------------
(***************************************************************************)
(* What the commands that install something have in common: they run under *)
(* the workspace lock, call external tools (rsync, git, a download) that   *)
(* may fail, and may be killed.  flock frees the lock of a killed command; *)
(* a tool it has started may go on without it.  A command that finds the   *)
(* lock held, or its arguments refused, answers so and changes nothing.    *)
(***************************************************************************)
EXTENDS Naturals, FiniteSets

CONSTANTS
  Commands,           \* comfyctl processes and threads of the API
  NoCommand, NoWork,
  MaxFaults, MaxKills \* bounds on failed steps and on killed commands

ASSUME CommandAssumption ==
  NoCommand \notin Commands /\ MaxFaults \in Nat /\ MaxKills \in Nat

VARIABLES
  pc, work, \* each command's position, and what it works on
  lock,    \* the command that holds run/workspace.lock
  orphans, \* what a tool whose command was killed still writes
  left,    \* history: what kills, and failures past the clean-up, left behind
  faults, kills

shared == <<pc, work, lock, orphans, left, faults, kills>>

SharedInit ==
  /\ pc = [c \in Commands |-> "idle"] /\ work = [c \in Commands |-> NoWork]
  /\ lock = NoCommand
  /\ orphans = {} /\ left = {} /\ faults = 0 /\ kills = 0

At(c, loc) == pc[c] = loc

Goto(c, loc) ==
  /\ pc' = [pc EXCEPT ![c] = loc]
  /\ UNCHANGED <<work, lock, orphans, left, faults, kills>>

TakeLock(c, from, to, what) ==
  /\ At(c, from) /\ lock = NoCommand
  /\ lock' = c /\ pc' = [pc EXCEPT ![c] = to] /\ work' = [work EXCEPT ![c] = what]
  /\ UNCHANGED <<orphans, left, faults, kills>>

Released(c) == IF lock = c THEN NoCommand ELSE lock

End(c) ==
  /\ pc' = [pc EXCEPT ![c] = "idle"] /\ work' = [work EXCEPT ![c] = NoWork]
  /\ lock' = Released(c)

Finish(c) ==
  /\ End(c)
  /\ UNCHANGED <<orphans, left, faults, kills>>

\* A step of the command raises; what it leaves behind is recorded.
Fail(c, leaving) ==
  /\ faults < MaxFaults /\ faults' = faults + 1
  /\ End(c)
  /\ left' = left \cup leaving
  /\ UNCHANGED <<orphans, kills>>

\* tools: what the command's tool is writing, if anything.
KillCommand(c, leaving, tools) ==
  /\ ~At(c, "idle") /\ kills < MaxKills /\ kills' = kills + 1
  /\ End(c)
  /\ left' = left \cup leaving
  /\ \E alive \in SUBSET tools : orphans' = orphans \cup alive
  /\ UNCHANGED faults

OrphanEnds(thing) ==
  /\ thing \in orphans /\ orphans' = orphans \ {thing}
  /\ UNCHANGED <<pc, work, lock, left, faults, kills>>
=============================================================================
