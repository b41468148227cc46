------------------------------ MODULE ModelShelf ------------------------------
(***************************************************************************)
(* What the catalogue promises about model files: a model becomes usable   *)
(* and stays usable, and a download command that succeeds leaves all that  *)
(* it was asked for on the shelf.                                          *)
(***************************************************************************)
CONSTANTS Models, Downloads

VARIABLES usable, granted

Init == usable \subseteq Models /\ granted = [d \in Downloads |-> {}]

Add(m) == usable' = usable \cup {m} /\ UNCHANGED granted

Grant(d, models) ==
  /\ models \subseteq usable
  /\ granted' = [granted EXCEPT ![d] = models]
  /\ UNCHANGED usable

Next ==
  \/ \E m \in Models : Add(m)
  \/ \E d \in Downloads, models \in SUBSET Models : Grant(d, models)

Spec == Init /\ [][Next]_<<usable, granted>>
=============================================================================
