----------------------------- MODULE MCWorkspace -----------------------------
(* TLC instances of Workspace. *)
EXTENDS WorkspaceRefinement, TLC

\* API threads, command lines, pids and runtimes are interchangeable.
Interchangeable ==
  Permutations(Api) \cup Permutations(Cli) \cup Permutations(Pids) \cup Permutations(Runtimes)
=============================================================================
