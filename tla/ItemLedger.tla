------------------------------ MODULE ItemLedger ------------------------------
(***************************************************************************)
(* What the items resource promises: a change is made in one step, only to *)
(* the version its client had read, and a client that is told "ok" is told *)
(* so in the step that made its change.  A client that is told of a        *)
(* conflict finds its item changed, or its name taken at some time before. *)
(***************************************************************************)
EXTENDS Naturals

CONSTANTS Rows, Requests

VARIABLES items, wants, told

Init ==
  /\ \A i \in Rows : items[i].st = "live" => items[i].version >= 1
  /\ told = [r \in Requests |-> "none"]

Current(r) == items[wants[r].id]

Make(r, change) ==
  /\ IF wants[r].op = "create" THEN Current(r).st = "none"
     ELSE Current(r).st = "live" /\ Current(r).version = wants[r].version
  /\ change.version = Current(r).version + 1
  /\ change.st = IF wants[r].op = "delete" THEN "deleted" ELSE "live"
  /\ items' = [items EXCEPT ![wants[r].id] = change]
  /\ told' \in {told, [told EXCEPT ![r] = "ok"]}
  /\ UNCHANGED wants

Refuse(r) == \E what \in {"name_conflict", "version_conflict", "not_found"} :
  /\ what = "version_conflict" => Current(r).st = "live" /\ Current(r).version > wants[r].version
  /\ what = "not_found" => Current(r).st = "deleted"
  /\ told' = [told EXCEPT ![r] = what]
  /\ UNCHANGED <<items, wants>>

\* A client turns to its next request.
Turn(r) ==
  /\ told' = [told EXCEPT ![r] = "none"]
  /\ \A q \in Requests \ {r} : wants'[q] = wants[q]
  /\ UNCHANGED items

Next == \E r \in Requests : Refuse(r) \/ Turn(r) \/ \E i \in Rows : Make(r, items'[i])

Spec == Init /\ [][Next]_<<items, wants, told>>
=============================================================================
