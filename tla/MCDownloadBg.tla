---------------------------- MODULE MCDownloadBg ----------------------------
(* TLC instances of DownloadBg. *)
EXTENDS DownloadBg, TLC

Interchangeable ==
  Permutations(Commands) \cup Permutations(Downloads) \cup Permutations(Pids)
=============================================================================
