------------------------------ MODULE MCItemStore ------------------------------
(* TLC instances of ItemStore. *)
EXTENDS ItemStore, TLC

CONSTANTS a, b

Table(n) == [i \in Rows |-> IF i \in DOMAIN n THEN
               [st |-> "live", name |-> n[i], active |-> TRUE, version |-> 1] ELSE NoRow]

\* Two live items and room for a third.
TwoItems == {Table(<<a, b>>)}
=============================================================================
