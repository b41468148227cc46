---------------------------- MODULE MCInstallers ----------------------------
(* TLC instance of Installers: one name is registered and one is free; the  *)
(* two commits have the same first digits under the first ref only.         *)
EXTENDS Installers, TLC

CONSTANTS n0, n1, r1, r2, k1, k2, v1, v2, v3, p1, p2

IdOf  == [x \in Refs \X Commits |-> IF x[1] = r1 THEN v1 ELSE IF x[2] = k1 THEN v2 ELSE v3]
Order == <<p1, p2>>

AllShifts == {{"runtimes"}, {"versions"}, {"plugins"}}
=============================================================================
