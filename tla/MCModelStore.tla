----------------------------- MODULE MCModelStore -----------------------------
(* TLC instances of ModelStore: m1 is a local copy that declares size and      *)
(* digest, m2 has a url and declares its size, m3 is on Hugging Face.         *)
EXTENDS ModelStore, TLC

CONSTANTS d1, d2, h1, l1, l2, m1, m2, m3

Sources  == [m \in Models |-> CASE m = m1 -> "local" [] m = m2 -> "url" [] m = m3 -> "huggingface"]
Declares == [m \in Models |-> IF m = m2 THEN {"size"} ELSE {"size", "sha"}]
InOrder  == SetToSortSeq(Models, LAMBDA a, b : a = m1 \/ b = m3)

AnyAnswer  == {"good", "sized", "short", "error"}
GoodAnswer == {"good"}
AnyFile    == {"absent", "sized", "short", "dir"}
NoFile     == {"absent"}
AnySeed    == {"absent", "good", "sized", "dir"}

\* Two downloads, a download and a manual one, two merges, or a download and a
\* merge at a time.
AllCasts == {{d1, d2}, {d1, h1}, {l1, l2}, {d1, l1}}
RaceCast == {{d1, l1}}
=============================================================================
