---------------------------- MODULE ItemStoreProofs ----------------------------
(***************************************************************************)
(* Proofs about ItemStore, for any number of clients, rows and names: names *)
(* stay unique, a change is made once, nobody waits in a circle, the walk   *)
(* through the pages is complete, and the requests implement ItemLedger.    *)
(***************************************************************************)
EXTENDS ItemStore, FiniteSetTheorems, SequenceTheorems, WellFoundedInduction, TLAPS

USE DEF At

Changes(r)   == op[r] \in {"update", "delete"}
Locked(r)    == pc[r] \in {"index", "commit"}
Working(r)   == pc[r] # "idle"

\* The table, and what a request may count on while the table changes.
RowsInvariant == \A i \in Rows :
  IF rows[i].st = "none" THEN rows[i] = NoRow ELSE rows[i].version >= 1

AskedInvariant == \A r \in Requests :
  /\ op[r] = "get" => ~Working(r) /\ answer[r] = "none"
  /\ Changes(r) => /\ rows[id[r]].st # "none"
                   /\ expected[r] <= rows[id[r]].version /\ expected[r] < MaxVersion
  /\ op[r] = "create" /\ Working(r) =>
       /\ rows[id[r]].st = "none" /\ applied[r] = 0 /\ name[r] \in Names
       /\ \A q \in Requests \ {r} : Working(q) => id[q] # id[r]
  /\ Working(r) => answer[r] = "none"
  /\ pc[r] = "reread" => Changes(r) /\ (Live(id[r]) => rows[id[r]].version > expected[r])

\* A request that has written has its row to itself, and wrote what the row still allows.
WriteInvariant ==
  /\ \A r \in Requests : Locked(r) =>
       /\ applied[r] = 0 /\ write[r] = Changed(r)
       /\ op[r] = "create" \/ (Changes(r) /\ Matches(r))
       /\ pc[r] = "index" => op[r] # "delete"
  /\ \A q, r \in Requests : Locked(q) /\ Locked(r) /\ id[q] = id[r] => q = r

OnceInvariant == \A r \in Requests :
  /\ applied[r] \in {0, 1}
  /\ applied[r] = 1 /\ Changes(r) => rows[id[r]].version > expected[r]

\* The unique index: over what is committed and over what is about to be.
NameInvariant ==
  /\ \A i, j \in Rows : Live(i) /\ Live(j) /\ rows[i].name = rows[j].name => i = j
  /\ \A r \in Requests, n \in Names \cup {NoName} : Indexed(r, n) => Taken(n) \subseteq {id[r]}
  /\ \A q, r \in Requests, n \in Names \cup {NoName} : Indexed(q, n) /\ Indexed(r, n) => q = r

\* r would have to wait for q: q may still change a row that has the name r wants.
Past(r)    == pc[r] \in {"write", "reread", "index", "commit"}
Before(q, r) ==
  /\ Past(r) /\ name[r] # NoName
  /\ id[q] \in Taken(name[r]) \ {id[r]}
  /\ Working(q) /\ Changes(q) /\ expected[q] = rows[id[q]].version
OrderInvariant == \A S \in SUBSET Requests :
  S # {} => \E r \in S : \A q \in S : ~Before(q, r)

WalkInvariant ==
  /\ \A i \in stable : Listed(i)
  /\ cursor = 0 => page = <<>>
  /\ cursor > 0 => /\ \A k \in DOMAIN page : page[k] >= cursor
                   /\ \A i \in stable : i < cursor \/ i \in Range(page)
  /\ WalkComplete

-----------------------------------------------------------------------------
(* The steps of a request, each with what it changes.                       *)

Position == {"idle", "precheck", "write", "reread", "index", "commit"}

\* A request that has its row can only write a row.
LEMMA ChangedIsRow ==
  ASSUME TypeOK, RowsInvariant, AskedInvariant, NEW r \in Requests,
         \/ op[r] = "create" /\ Working(r)
         \/ Changes(r) /\ Matches(r)
  PROVE  /\ Changed(r) \in Row /\ Changed(r).version >= 1 /\ Changed(r).st # "none"
         /\ op[r] = "create" => Changed(r).version = 1 /\ Changed(r).st = "live" /\ Changed(r).name = name[r]
         /\ Changes(r) => /\ Changed(r).version = rows[id[r]].version + 1
                          /\ Changed(r).st = IF op[r] = "delete" THEN "deleted" ELSE "live"
         /\ op[r] = "update" => Changed(r).name = IF name[r] # NoName THEN name[r] ELSE rows[id[r]].name
<1> DEFINE row == rows[id[r]]
<1>0. /\ row \in Row /\ id[r] \in Rows /\ name[r] \in Names \cup {NoName} /\ expected[r] \in 0..MaxVersion
      /\ MaxVersion \in Nat \ {0}
  BY ItemStoreAssumption DEF TypeOK
<1>1. CASE op[r] = "create"
  BY <1>0, <1>1 DEF Changed, Row, Changes
<1>2. CASE Changes(r) /\ Matches(r)
  <2>1. row.version = expected[r] /\ expected[r] < MaxVersion /\ row.st = "live" /\ row.version >= 1
    BY <1>0, <1>2 DEF Matches, Live, AskedInvariant, RowsInvariant
  <2>2. /\ row.version \in 0..MaxVersion /\ row.version + 1 \in 0..MaxVersion /\ row.version + 1 >= 1
        /\ row.name \in Names \cup {NoName} /\ row.active \in BOOLEAN
        /\ row = [st |-> row.st, name |-> row.name, active |-> row.active, version |-> row.version]
    BY <1>0, <2>1 DEF Row
  <2>3. CASE op[r] = "delete"
    <3>1. Changed(r) = [row EXCEPT !.st = "deleted", !.version = row.version + 1]
      BY <2>3 DEF Changed
    <3>2. Changed(r) = [st |-> "deleted", name |-> row.name, active |-> row.active, version |-> row.version + 1]
      BY <3>1, <2>2
    <3> QED BY <3>2, <2>2, <2>3 DEF Row, Changes
  <2>4. CASE op[r] = "update" /\ name[r] # NoName
    <3>1. Changed(r) = [row EXCEPT !.name = name[r], !.version = row.version + 1]
      BY <2>4 DEF Changed
    <3>2. Changed(r) = [st |-> row.st, name |-> name[r], active |-> row.active, version |-> row.version + 1]
      BY <3>1, <2>2
    <3> QED BY <3>2, <2>1, <2>2, <2>4, <1>0 DEF Row, Changes
  <2>5. CASE op[r] = "update" /\ name[r] = NoName
    <3>1. Changed(r) = [row EXCEPT !.active = ~row.active, !.version = row.version + 1]
      BY <2>5 DEF Changed
    <3>2. Changed(r) = [st |-> row.st, name |-> row.name, active |-> ~row.active, version |-> row.version + 1]
      BY <3>1, <2>2
    <3>3. (~row.active) \in BOOLEAN
      OBVIOUS
    <3> QED BY <3>2, <3>3, <2>1, <2>2, <2>5 DEF Row, Changes
  <2> QED BY <1>2, <2>3, <2>4, <2>5 DEF Changes
<1> QED BY <1>1, <1>2

-----------------------------------------------------------------------------
(* The inductive invariant, step by step.                                   *)

StoreInvariant ==
  /\ TypeOK /\ RowsInvariant /\ AskedInvariant /\ WriteInvariant
  /\ OnceInvariant /\ NameInvariant

Answers == {"none", "ok", "lost", "name_conflict", "version_conflict", "not_found"}

\* A request that ends without a commit: it is answered, cut short or rolled back.
LEMMA EndKeeps ==
  ASSUME StoreInvariant, NEW r \in Requests, Working(r), NEW what \in Answers,
         pc' = [pc EXCEPT ![r] = "idle"], answer' = [answer EXCEPT ![r] = what],
         write' = [write EXCEPT ![r] = NoRow],
         UNCHANGED <<rows, op, id, name, expected, applied, walk>>
  PROVE  StoreInvariant'
<1> USE DEF StoreInvariant, walk, Working, Changes, Locked
<1>0. NoRow \in Row
  BY ItemStoreAssumption DEF NoRow, Row
<1>1. TypeOK'
  BY <1>0 DEF TypeOK, Answers
<1>2. RowsInvariant'
  BY DEF RowsInvariant
<1>3. AskedInvariant'
  BY DEF AskedInvariant, TypeOK, Live
<1>4. WriteInvariant'
  <2>1. \A q \in Requests : Locked(q)' => Locked(q) /\ q # r
    BY DEF TypeOK
  <2>2. \A q \in Requests \ {r} : /\ pc'[q] = pc[q] /\ op'[q] = op[q] /\ id'[q] = id[q]
                                  /\ write'[q] = write[q] /\ applied'[q] = applied[q]
                                  /\ Changed(q)' = Changed(q) /\ Matches(q)' = Matches(q)
    BY DEF TypeOK, Changed, Matches, Live
  <2> QED BY <2>1, <2>2 DEF WriteInvariant
<1>5. OnceInvariant'
  BY DEF OnceInvariant, TypeOK
<1>6. NameInvariant'
  BY DEF NameInvariant, TypeOK, Live, Taken, Indexed
<1> QED BY <1>1, <1>2, <1>3, <1>4, <1>5, <1>6

\* A request that begins.
LEMMA AskKeeps ==
  ASSUME StoreInvariant, NEW r \in Requests, NEW o, NEW i, NEW n, NEW v,
         Ask(r, o, i, n, v), i \in Rows, n \in Names \cup {NoName},
         \/ /\ o \in {"update", "delete"} /\ Live(i) /\ v = rows[i].version /\ v < MaxVersion
         \/ /\ o = "create" /\ rows[i].st = "none" /\ v = 0 /\ n \in Names
            /\ \A q \in Requests : At(q, "idle") \/ id[q] # i
  PROVE  StoreInvariant'
<1> USE DEF StoreInvariant, Ask, walk, Working, Changes, Locked
<1>0. rows[i].version \in 0..MaxVersion /\ MaxVersion \in Nat \ {0} /\ v \in 0..MaxVersion
  BY ItemStoreAssumption DEF TypeOK, Row
<1>1. TypeOK'
  BY <1>0 DEF TypeOK
<1>2. RowsInvariant'
  BY DEF RowsInvariant
<1>3. AskedInvariant'
  BY <1>0 DEF AskedInvariant, TypeOK, Live
<1>4. WriteInvariant'
  <2>1. \A q \in Requests : Locked(q)' => Locked(q) /\ q # r
    BY DEF TypeOK
  <2>2. \A q \in Requests \ {r} : /\ pc'[q] = pc[q] /\ op'[q] = op[q] /\ id'[q] = id[q]
                                  /\ write'[q] = write[q] /\ applied'[q] = applied[q]
                                  /\ Changed(q)' = Changed(q) /\ Matches(q)' = Matches(q)
    BY DEF TypeOK, Changed, Matches, Live
  <2> QED BY <2>1, <2>2 DEF WriteInvariant
<1>5. OnceInvariant'
  BY DEF OnceInvariant, TypeOK
<1>6. NameInvariant'
  BY DEF NameInvariant, TypeOK, Live, Taken, Indexed
<1> QED BY <1>1, <1>2, <1>3, <1>4, <1>5, <1>6

LEMMA AskAgainKeeps ==
  ASSUME StoreInvariant, NEW r \in Requests, AskAgain(r)
  PROVE  StoreInvariant'
<1> USE DEF StoreInvariant, AskAgain, walk, Working, Changes, Locked
<1>1. TypeOK'
  BY DEF TypeOK
<1>2. RowsInvariant'
  BY DEF RowsInvariant
<1>3. AskedInvariant'
  BY DEF AskedInvariant, TypeOK, Live
<1>4. WriteInvariant'
  <2>1. \A q \in Requests : Locked(q)' => Locked(q) /\ q # r
    BY DEF TypeOK
  <2>2. \A q \in Requests \ {r} : /\ pc'[q] = pc[q] /\ op'[q] = op[q] /\ id'[q] = id[q]
                                  /\ write'[q] = write[q] /\ applied'[q] = applied[q]
                                  /\ Changed(q)' = Changed(q) /\ Matches(q)' = Matches(q)
    BY DEF TypeOK, Changed, Matches, Live
  <2> QED BY <2>1, <2>2 DEF WriteInvariant
<1>5. OnceInvariant'
  BY DEF OnceInvariant, TypeOK
<1>6. NameInvariant'
  BY DEF NameInvariant, TypeOK, Live, Taken, Indexed
<1> QED BY <1>1, <1>2, <1>3, <1>4, <1>5, <1>6

LEMMA PrecheckKeeps ==
  ASSUME StoreInvariant, NEW r \in Requests, Precheck(r)
  PROVE  StoreInvariant'
<1> USE DEF StoreInvariant, walk, Working, Changes, Locked
<1>1. CASE Answer(r, "name_conflict")
  BY <1>1, EndKeeps DEF Answer, Answers, Precheck
<1>2. CASE Step(r, "precheck", "write") /\ UNCHANGED write
  <2> USE <1>2 DEF Step
  <2>1. TypeOK'
    BY DEF TypeOK
  <2>2. RowsInvariant' /\ OnceInvariant'
    BY DEF RowsInvariant, OnceInvariant
  <2>3. AskedInvariant'
    BY DEF AskedInvariant, TypeOK, Live
  <2>9. \A q \in Requests : Changed(q)' = Changed(q) /\ Matches(q)' = Matches(q)
    BY DEF Changed, Matches, Live
  <2>4. WriteInvariant'
    BY <2>9 DEF WriteInvariant, TypeOK
  <2>5. NameInvariant'
    BY DEF NameInvariant, TypeOK, Live, Taken, Indexed
  <2> QED BY <2>1, <2>2, <2>3, <2>4, <2>5
<1> QED BY <1>1, <1>2 DEF Precheck

LEMMA WriteKeeps ==
  ASSUME StoreInvariant, NEW r \in Requests, Write(r)
  PROVE  StoreInvariant'
<1> USE DEF StoreInvariant, walk, Working, Changes, Locked
<1>0. /\ pc[r] = "write" /\ UNCHANGED <<rows, op, id, name, expected, answer, applied, walk>>
      /\ \A q \in Requests : Locked(q) /\ id[q] = id[r] => q = r
      /\ op[r] \in {"create", "update", "delete"}
  BY DEF Write, Step, RowWaits, Holds, AskedInvariant, TypeOK
<1>1. CASE /\ op[r] = "create" \/ Matches(r)
           /\ Step(r, "write", IF op[r] = "delete" THEN "commit" ELSE "index")
           /\ write' = [write EXCEPT ![r] = Changed(r)]
  <2> USE <1>0, <1>1 DEF Step
  <2>0. Changed(r) \in Row /\ applied[r] = 0
    BY ChangedIsRow DEF AskedInvariant, OnceInvariant, Matches, TypeOK, Row
  <2>1. TypeOK'
    BY <2>0 DEF TypeOK
  <2>2. RowsInvariant' /\ OnceInvariant'
    BY DEF RowsInvariant, OnceInvariant
  <2>3. AskedInvariant'
    BY DEF AskedInvariant, TypeOK, Live
  <2>9. \A q \in Requests : Changed(q)' = Changed(q) /\ Matches(q)' = Matches(q)
    BY DEF Changed, Matches, Live
  <2>4. WriteInvariant'
    <3>1. \A q \in Requests : Locked(q)' => (q # r /\ Locked(q) /\ write'[q] = write[q]) \/ (q = r /\ write'[r] = Changed(r))
      BY DEF TypeOK
    <3>2. op[r] = "create" \/ (Changes(r) /\ Matches(r))
      OBVIOUS
    <3>3. \A q \in Requests : pc'[q] = "index" => (q # r /\ pc[q] = "index") \/ (q = r /\ op[r] # "delete")
      BY DEF TypeOK
    <3> QED BY <2>0, <2>9, <3>1, <3>2, <3>3 DEF WriteInvariant
  <2>5. NameInvariant'
    <3>1. \A q \in Requests, n \in Names \cup {NoName} : Indexed(q, n)' => Indexed(q, n) /\ q # r
      BY ChangedIsRow DEF Indexed, TypeOK
    <3> QED BY <3>1 DEF NameInvariant, TypeOK, Live, Taken
  <2> QED BY <2>1, <2>2, <2>3, <2>4, <2>5
<1>2. CASE op[r] # "create" /\ ~Matches(r) /\ Step(r, "write", "reread") /\ UNCHANGED write
  <2> USE <1>0, <1>2 DEF Step
  <2>1. TypeOK'
    BY DEF TypeOK
  <2>2. RowsInvariant' /\ OnceInvariant'
    BY DEF RowsInvariant, OnceInvariant
  <2>3. AskedInvariant'
    <3>1. Live(id[r]) => rows[id[r]].version > expected[r]
      BY DEF AskedInvariant, TypeOK, Live, Matches, Row
    <3> QED BY <3>1 DEF AskedInvariant, TypeOK, Live
  <2>9. \A q \in Requests : Changed(q)' = Changed(q) /\ Matches(q)' = Matches(q)
    BY DEF Changed, Matches, Live
  <2>4. WriteInvariant'
    BY <2>9 DEF WriteInvariant, TypeOK
  <2>5. NameInvariant'
    BY DEF NameInvariant, TypeOK, Live, Taken, Indexed
  <2> QED BY <2>1, <2>2, <2>3, <2>4, <2>5
<1> QED BY <1>1, <1>2 DEF Write

LEMMA IndexKeeps ==
  ASSUME StoreInvariant, NEW r \in Requests, Index(r)
  PROVE  StoreInvariant'
<1> USE DEF StoreInvariant, walk, Working, Changes, Locked
<1>1. CASE Answer(r, "name_conflict")
  BY <1>1, EndKeeps DEF Answer, Answers, Index
<1>2. CASE /\ Taken(write[r].name) \ {id[r]} = {}
           /\ Step(r, "index", "commit") /\ UNCHANGED write
  <2> USE <1>2 DEF Step
  <2>1. TypeOK'
    BY DEF TypeOK
  <2>2. RowsInvariant' /\ OnceInvariant'
    BY DEF RowsInvariant, OnceInvariant
  <2>3. AskedInvariant'
    BY DEF AskedInvariant, TypeOK, Live
  <2>9. \A q \in Requests : Changed(q)' = Changed(q) /\ Matches(q)' = Matches(q)
    BY DEF Changed, Matches, Live
  <2>4. WriteInvariant'
    BY <2>9 DEF WriteInvariant, TypeOK
  <2>5. NameInvariant'
    <3>1. \A q \in Requests : Indexed(q, write[r].name) => q = r
      BY DEF Index, IndexWaits
    <3>2. \A q \in Requests, n \in Names \cup {NoName} :
            Indexed(q, n)' => (q # r /\ Indexed(q, n)) \/ (q = r /\ n = write[r].name)
      BY DEF Indexed, TypeOK
    <3>3. \A n \in Names \cup {NoName} : Taken(n)' = Taken(n)
      BY DEF Taken, Live
    <3>4. \A q \in Requests, n \in Names \cup {NoName} : Indexed(q, n)' => Taken(n)' \subseteq {id[q]}'
      BY <3>2, <3>3 DEF NameInvariant
    <3>5. \A p, q \in Requests, n \in Names \cup {NoName} : Indexed(p, n)' /\ Indexed(q, n)' => p = q
      BY <3>1, <3>2 DEF NameInvariant
    <3> QED BY <3>4, <3>5 DEF NameInvariant, Live
  <2> QED BY <2>1, <2>2, <2>3, <2>4, <2>5
<1> QED BY <1>1, <1>2 DEF Index

LEMMA RereadKeeps ==
  ASSUME StoreInvariant, NEW r \in Requests, Reread(r)
  PROVE  StoreInvariant'
<1> DEFINE what == IF Live(id[r]) THEN "version_conflict" ELSE "not_found"
<1>1. what \in Answers /\ Answer(r, what) /\ Working(r)
  BY DEF Answers, Reread, Working
<1> HIDE DEF what
<1> QED BY <1>1, EndKeeps DEF Answer

\* What a commit puts in the table.
LEMMA CommitPuts ==
  ASSUME StoreInvariant, NEW r \in Requests, At(r, "commit")
  PROVE  /\ id[r] \in Rows /\ write[r] \in Row /\ write[r].st # "none" /\ write[r].version >= 1
         /\ rows[id[r]].version \in Nat /\ write[r].version \in Nat
         /\ write[r].version = rows[id[r]].version + 1
         /\ op[r] = "create" => rows[id[r]].st = "none" /\ write[r].st = "live"
         /\ Changes(r) => /\ rows[id[r]].st = "live" /\ rows[id[r]].version = expected[r]
                          /\ write[r].st = IF op[r] = "delete" THEN "deleted" ELSE "live"
         /\ applied[r] = 0 /\ op[r] \in {"create", "update", "delete"}
         /\ \A q \in Requests : Locked(q) /\ id[q] = id[r] => q = r
         /\ \A q \in Requests \ {r} : op[q] = "create" /\ Working(q) => id[q] # id[r]
         /\ write[r].st = "live" => Taken(write[r].name) \subseteq {id[r]}
<1> USE DEF StoreInvariant, Locked, Working
<1>1. /\ applied[r] = 0 /\ write[r] = Changed(r)
      /\ op[r] = "create" \/ (Changes(r) /\ Matches(r))
      /\ \A q \in Requests : Locked(q) /\ id[q] = id[r] => q = r
  BY DEF WriteInvariant
<1>2. id[r] \in Rows /\ rows[id[r]] \in Row /\ write[r] \in Row /\ rows[id[r]].version \in Nat
      /\ write[r].version \in Nat /\ write[r].name \in Names \cup {NoName}
  BY ItemStoreAssumption DEF TypeOK, Row
<1>3. op[r] = "create" => rows[id[r]].st = "none" /\ rows[id[r]].version = 0
  BY <1>2 DEF AskedInvariant, RowsInvariant, NoRow
<1>4. \A q \in Requests \ {r} : op[q] = "create" /\ Working(q) => id[q] # id[r]
  BY DEF AskedInvariant
<1>5. write[r].st = "live" => Taken(write[r].name) \subseteq {id[r]}
  BY <1>2 DEF NameInvariant, Indexed
<1>6. Changes(r) /\ Matches(r) => rows[id[r]].st = "live" /\ rows[id[r]].version = expected[r]
  BY DEF Matches, Live
<1>7. op[r] \in {"create", "update", "delete"} /\ (op[r] = "create" => ~Changes(r))
  BY <1>1 DEF Changes
<1> QED BY <1>1, <1>2, <1>3, <1>4, <1>5, <1>6, <1>7, ChangedIsRow

LEMMA CommitKeeps ==
  ASSUME StoreInvariant, NEW r \in Requests, Commit(r)
  PROVE  StoreInvariant'
<1> USE DEF StoreInvariant, Commit, Working, Changes, Locked
<1> DEFINE k == id[r]
           new == write[r]
<1>0. /\ k \in Rows /\ new \in Row /\ new.st # "none" /\ new.version >= 1
      /\ rows[k].version \in Nat /\ new.version \in Nat /\ new.version = rows[k].version + 1
      /\ op[r] = "create" => rows[k].st = "none" /\ new.st = "live"
      /\ Changes(r) => rows[k].version = expected[r]
      /\ applied[r] = 0 /\ op[r] \in {"create", "update", "delete"}
      /\ \A q \in Requests : Locked(q) /\ id[q] = k => q = r
      /\ \A q \in Requests \ {r} : op[q] = "create" /\ Working(q) => id[q] # k
      /\ new.st = "live" => Taken(new.name) \subseteq {k}
  BY CommitPuts
<1>00. /\ rows' = [rows EXCEPT ![k] = new] /\ rows'[k] = new
       /\ \A i \in Rows \ {k} : rows'[i] = rows[i]
       /\ pc'[r] = "idle" /\ \A q \in Requests \ {r} : pc'[q] = pc[q] /\ write'[q] = write[q]
                                                       /\ answer'[q] = answer[q] /\ applied'[q] = applied[q]
       /\ applied'[r] = 1
       /\ UNCHANGED <<op, id, name, expected>> /\ k' = k
  BY <1>0 DEF TypeOK
<1>01. NoRow \in Row
  BY ItemStoreAssumption DEF NoRow, Row
<1>1. TypeOK'
  <2>1. rows' \in [Rows -> Row] /\ write' \in [Requests -> Row]
    BY <1>0, <1>01 DEF TypeOK
  <2>2. stable' \subseteq Rows
    BY DEF TypeOK
  <2>3. applied' \in [Requests -> Nat]
    BY DEF TypeOK
  <2> QED BY <2>1, <2>2, <2>3 DEF TypeOK
<1> HIDE DEF k, new, Commit
<1>2. RowsInvariant'
  BY <1>0, <1>00 DEF RowsInvariant
<1>3. AskedInvariant'
  <2> SUFFICES ASSUME NEW q \in Requests
               PROVE  /\ op[q] = "get" => ~Working(q)' /\ answer'[q] = "none"
                      /\ Changes(q) => /\ rows'[id[q]].st # "none"
                                       /\ expected[q] <= rows'[id[q]].version /\ expected[q] < MaxVersion
                      /\ op[q] = "create" /\ Working(q)' =>
                           /\ rows'[id[q]].st = "none" /\ applied'[q] = 0 /\ name[q] \in Names
                           /\ \A p \in Requests \ {q} : Working(p)' => id[p] # id[q]
                      /\ Working(q)' => answer'[q] = "none"
                      /\ pc'[q] = "reread" =>
                           Changes(q) /\ (Live(id[q])' => rows'[id[q]].version > expected[q])
    BY <1>00 DEF AskedInvariant
  <2>1. id[q] \in Rows /\ expected[q] \in Nat /\ rows[id[q]].version \in Nat
    BY ItemStoreAssumption DEF TypeOK, Row
  <2>2. rows'[id[q]] = IF id[q] = k THEN new ELSE rows[id[q]]
    BY <1>00, <2>1
  <2>3. CASE q = r
    BY <1>0, <1>00, <2>1, <2>2, <2>3 DEF AskedInvariant, k
  <2>4. CASE q # r
    <3>1. /\ pc'[q] = pc[q] /\ answer'[q] = answer[q] /\ applied'[q] = applied[q]
          /\ op[q] = "get" => ~Working(q) /\ answer[q] = "none"
          /\ Changes(q) => /\ rows[id[q]].st # "none"
                           /\ expected[q] <= rows[id[q]].version /\ expected[q] < MaxVersion
          /\ op[q] = "create" /\ Working(q) =>
               /\ rows[id[q]].st = "none" /\ applied[q] = 0 /\ name[q] \in Names
               /\ \A p \in Requests \ {q} : Working(p) => id[p] # id[q]
          /\ Working(q) => answer[q] = "none"
          /\ pc[q] = "reread" => Changes(q) /\ (Live(id[q]) => rows[id[q]].version > expected[q])
      BY <1>00, <2>4 DEF AskedInvariant
    <3>2. Changes(q) => /\ rows'[id[q]].st # "none"
                        /\ expected[q] <= rows'[id[q]].version /\ expected[q] < MaxVersion
      BY <3>1, <2>1, <2>2, <1>0
    <3>3. op[q] = "create" /\ Working(q)' => id[q] # k
      BY <3>1, <1>0, <2>4
    <3>4. pc'[q] = "reread" => Changes(q) /\ (Live(id[q])' => rows'[id[q]].version > expected[q])
      BY <3>1, <2>1, <2>2, <1>0, <1>00 DEF Live
    <3>5. \A p \in Requests : Working(p)' => Working(p)
      BY <1>00
    <3> QED BY <3>1, <3>2, <3>3, <3>4, <3>5, <2>2
  <2> QED BY <2>3, <2>4
<1>4. WriteInvariant'
  <2>1. ASSUME NEW q \in Requests, Locked(q)'
        PROVE  /\ q # r /\ id[q] # k /\ Locked(q) /\ pc'[q] = pc[q]
               /\ Changed(q)' = Changed(q) /\ Matches(q)' = Matches(q)
               /\ write'[q] = write[q] /\ applied'[q] = applied[q]
    <3>1. q # r /\ Locked(q) /\ id[q] # k /\ pc'[q] = pc[q] /\ write'[q] = write[q] /\ applied'[q] = applied[q]
      BY <2>1, <1>0, <1>00
    <3>2. id[q] \in Rows
      BY DEF TypeOK
    <3>3. rows'[id[q]] = rows[id[q]] /\ UNCHANGED <<op, id, name, expected>>
      BY <3>1, <3>2, <1>00
    <3> QED BY <3>1, <3>3 DEF Changed, Matches, Live
  <2> QED BY <2>1, <1>00 DEF WriteInvariant
<1>5. OnceInvariant'
  <2> SUFFICES ASSUME NEW q \in Requests
               PROVE  /\ applied'[q] \in {0, 1}
                      /\ applied'[q] = 1 /\ Changes(q) => rows'[id[q]].version > expected[q]
    BY <1>00 DEF OnceInvariant
  <2>1. id[q] \in Rows /\ expected[q] \in Nat /\ rows[id[q]].version \in Nat
    BY ItemStoreAssumption DEF TypeOK, Row
  <2>2. rows'[id[q]] = IF id[q] = k THEN new ELSE rows[id[q]]
    BY <1>00, <2>1
  <2>3. CASE q = r
    BY <1>0, <1>00, <2>1, <2>2, <2>3 DEF k
  <2>4. CASE q # r
    BY <1>0, <1>00, <2>1, <2>2, <2>4 DEF OnceInvariant
  <2> QED BY <2>3, <2>4
<1>6. NameInvariant'
  <2>1. \A i, j \in Rows : Live(i)' /\ Live(j)' /\ rows'[i].name = rows'[j].name => i = j
    <3>1. \A i \in Rows \ {k} : Live(i)' => Live(i) /\ rows'[i] = rows[i]
      BY <1>00 DEF Live
    <3>0. rows'[k].st = new.st /\ rows'[k].name = new.name
      BY <1>00
    <3>2. \A i \in Rows \ {k} : Live(i)' /\ Live(k)' => rows'[i].name # rows'[k].name
      <4> SUFFICES ASSUME NEW i \in Rows \ {k}, Live(i)', Live(k)', rows'[i].name = rows'[k].name
                   PROVE  FALSE
        OBVIOUS
      <4>1. Live(i) /\ rows[i].name = new.name /\ new.st = "live"
        BY <3>0, <3>1, <1>00 DEF Live
      <4>2. i \in Taken(new.name)
        BY <4>1 DEF Taken
      <4> QED BY <4>1, <4>2, <1>0
    <3>3. \A i, j \in Rows : Live(i) /\ Live(j) /\ rows[i].name = rows[j].name => i = j
      BY DEF NameInvariant
    <3> SUFFICES ASSUME NEW i \in Rows, NEW j \in Rows, Live(i)', Live(j)', rows'[i].name = rows'[j].name
                 PROVE  i = j
      OBVIOUS
    <3>4. CASE i = k \/ j = k
      BY <3>2, <3>4, <1>00
    <3>5. CASE i # k /\ j # k
      BY <3>1, <3>3, <3>5, <1>00
    <3> QED BY <3>4, <3>5
  <2>2. \A q \in Requests, n \in Names \cup {NoName} : Indexed(q, n)' => Indexed(q, n) /\ q # r
    BY <1>00 DEF Indexed
  <2>3. \A n \in Names \cup {NoName} : Taken(n)' \subseteq Taken(n) \cup (IF Indexed(r, n) THEN {k} ELSE {})
    <3>1. At(r, "commit")
      BY DEF Commit
    <3> QED BY <1>00, <3>1 DEF Taken, Live, Indexed, new
  <2>4. \A q \in Requests, n \in Names \cup {NoName} : Indexed(q, n)' => Taken(n)' \subseteq {id[q]}
    BY <2>2, <2>3 DEF NameInvariant
  <2> QED BY <2>1, <2>2, <2>4, <1>00 DEF NameInvariant
<1> QED BY <1>1, <1>2, <1>3, <1>4, <1>5, <1>6

-----------------------------------------------------------------------------
(* Pages of the listing.                                                    *)

LEMMA SomeRows ==
  ASSUME NEW S \in SUBSET Rows
  PROVE  /\ Rows \subseteq Nat /\ IsFiniteSet(S) /\ Cardinality(S) \in Nat
         /\ \A T \in SUBSET S : IsFiniteSet(T) /\ Cardinality(T) \in Nat /\ Cardinality(T) <= Cardinality(S)
<1>1. IsFiniteSet(S)
  BY FS_Subset, ItemStoreAssumption
<1>2. Cardinality(Rows) \in Nat
  BY FS_CardinalityType, ItemStoreAssumption
<1>3. \E n \in Nat : Rows = 1..n
  BY <1>2, ItemStoreAssumption, Zenon
<1>4. Rows \subseteq Nat
  BY <1>3
<1> QED BY <1>1, <1>4, FS_Subset, FS_CardinalityType

LEMMA LeastRow ==
  ASSUME NEW S \in SUBSET Rows, S # {}
  PROVE  \E i \in S : \A j \in S : i <= j
<1>1. S \subseteq Nat
  BY SomeRows
<1>2. PICK i \in S : \A j \in S : ~(<<j, i>> \in OpToRel(<, Nat))
  <2> HIDE DEF OpToRel
  <2> QED BY <1>1, WFMin, NatLessThanWellFounded
<1>3. \A j \in S : ~(j < i)
  BY <1>1, <1>2 DEF OpToRel
<1> QED BY <1>1, <1>3

LEMMA GreatestRow ==
  ASSUME NEW S \in SUBSET Rows, S # {}
  PROVE  \E i \in S : \A j \in S : j <= i
<1> DEFINE n == Cardinality(Rows)
           T == {n + 1 - i : i \in S}
<1>1. n \in Nat /\ Rows = 1..n
  BY SomeRows, ItemStoreAssumption
<1> HIDE DEF n
<1>2. T \in SUBSET Rows /\ T # {}
  BY <1>1
<1>3. PICK t \in T : \A u \in T : t <= u
  BY <1>2, LeastRow
<1>4. PICK i \in S : t = n + 1 - i
  OBVIOUS
<1>5. \A j \in S : t <= n + 1 - j
  BY <1>3
<1> QED BY <1>1, <1>4, <1>5

\* The newest rows of a set are closed upwards, and there is one if there is any.
LEMMA NewestUpward ==
  ASSUME NEW S \in SUBSET Rows, NEW k \in Nat, NEW m \in Newest(k, S), NEW i \in S, m <= i
  PROVE  i \in Newest(k, S)
<1>0. m \in S /\ S \subseteq Nat
  BY SomeRows DEF Newest
<1>1. {j \in S : j > i} \subseteq {j \in S : j > m}
  <2> SUFFICES ASSUME NEW j \in S, j > i PROVE j > m
    OBVIOUS
  <2>1. i \in Nat /\ j \in Nat /\ m \in Nat /\ m <= i
    BY <1>0
  <2> QED BY <2>1
<1>2. Cardinality({j \in S : j > m}) < k
  BY DEF Newest
<1>3. /\ Cardinality({j \in S : j > i}) \in Nat /\ Cardinality({j \in S : j > m}) \in Nat
      /\ Cardinality({j \in S : j > i}) <= Cardinality({j \in S : j > m})
  BY <1>1, SomeRows
<1> QED BY <1>2, <1>3 DEF Newest

LEMMA NewestNonempty ==
  ASSUME NEW S \in SUBSET Rows, NEW k \in Nat \ {0}, S # {}
  PROVE  Newest(k, S) # {}
<1>1. PICK m \in S : \A j \in S : j <= m
  BY GreatestRow
<1>2. {j \in S : j > m} = {}
  BY <1>1, SomeRows
<1>3. m \in Newest(k, S)
  BY <1>2, FS_EmptySet DEF Newest
<1> QED BY <1>3

\* If a row beyond the page is not found, the page has all the rows that are left.
LEMMA LastPage ==
  ASSUME NEW S \in SUBSET Rows,
         Newest(PageSize, Newest(PageSize + 1, S)) = Newest(PageSize + 1, S)
  PROVE  Newest(PageSize + 1, S) = S
<1> DEFINE read == Newest(PageSize + 1, S)
           left == S \ read
<1>0. PageSize \in Nat \ {0} /\ read \subseteq S
  BY ItemStoreAssumption DEF Newest
<1> SUFFICES ASSUME left # {} PROVE FALSE
  BY <1>0
<1>1. PICK i \in left : \A j \in left : j <= i
  BY GreatestRow
<1> DEFINE above == {j \in S : j > i}
<1>2. above \subseteq read /\ Cardinality(above) \in Nat /\ Cardinality(above) >= PageSize + 1
  <2>1. above \subseteq read
    BY <1>1, SomeRows
  <2>2. Cardinality(above) \in Nat
    BY SomeRows
  <2>3. ~(Cardinality(above) < PageSize + 1)
    BY DEF Newest
  <2> QED BY <2>1, <2>2, <2>3, <1>0
<1>3. above # {}
  BY <1>2, <1>0, FS_EmptySet
<1>4. PICK m \in above : \A j \in above : m <= j
  BY <1>3, LeastRow
<1>5. {j \in read : j > m} = above \ {m}
  BY <1>0, <1>2, <1>4, SomeRows
<1>6. Cardinality(above \ {m}) = Cardinality(above) - 1
  BY FS_RemoveElement, SomeRows, <1>4
<1>7. ~(Cardinality({j \in read : j > m}) < PageSize)
  BY <1>0, <1>2, <1>5, <1>6
<1>8. m \in read /\ m \notin Newest(PageSize, read)
  BY <1>2, <1>4, <1>7 DEF Newest
<1> QED BY <1>8

-----------------------------------------------------------------------------
(* The walk.                                                                *)

\* What one step of the walk does, apart from how the rows are found.
LEMMA PageTurned ==
  ASSUME TypeOK, NextPage
  PROVE  /\ UNCHANGED <<rows, request, stable, bounds>>
         /\ \E shown \in SUBSET {i \in Rows : Listed(i) /\ i < cursor}, rest \in Seq(Rows) :
              /\ page' = page \o rest /\ Range(rest) = shown /\ NewestFirst(rest)
              /\ \/ /\ cursor' = Done /\ shown = {i \in Rows : Listed(i) /\ i < cursor}
                 \/ /\ cursor' \in shown
                    /\ \A i \in Rows : Listed(i) /\ i < cursor => (i \in shown <=> i >= cursor')
<1> DEFINE S == {i \in Rows : Listed(i) /\ i < cursor}
           read == Newest(PageSize + 1, S)
           shown == Newest(PageSize, read)
<1>0. /\ S \in SUBSET Rows /\ read \in SUBSET S /\ shown \in SUBSET read
      /\ PageSize \in Nat \ {0} /\ PageSize + 1 \in Nat \ {0} /\ Cardinality(shown) \in Nat
      /\ Rows \subseteq Nat
  <2>1. S \in SUBSET Rows /\ read \in SUBSET S /\ shown \in SUBSET read
    BY DEF Newest
  <2> QED BY <2>1, SomeRows, ItemStoreAssumption
<1>1. PICK rest \in InOrder(shown) : page' = page \o rest
  BY DEF NextPage
<1>2. rest \in Seq(Rows) /\ Range(rest) = shown /\ NewestFirst(rest)
  <2>1. rest \in [1..Cardinality(shown) -> shown] /\ Range(rest) = shown /\ NewestFirst(rest)
    BY <1>1 DEF InOrder
  <2>2. rest \in [1..Cardinality(shown) -> Rows]
    BY <2>1, <1>0
  <2> QED BY <2>1, <2>2, <1>0
<1>3. /\ UNCHANGED <<rows, request, stable, bounds>>
      /\ cursor' = IF read = shown THEN Done ELSE CHOOSE i \in shown : \A j \in shown : i <= j
  BY DEF NextPage
<1>4. CASE read = shown
  BY <1>0, <1>1, <1>2, <1>3, <1>4, LastPage
<1>5. CASE read # shown
  <2>1. shown # {}
    <3> HIDE DEF S
    <3> QED BY <1>0, <1>5, NewestNonempty DEF Newest
  <2>2. cursor' \in shown /\ \A j \in shown : cursor' <= j
    <3> HIDE DEF shown
    <3> QED BY <1>0, <1>3, <1>5, <2>1, LeastRow
  <2>3. ASSUME NEW i \in S, i >= cursor' PROVE i \in shown
    <3>1. cursor' \in read /\ cursor' \in Nat /\ i \in Nat /\ cursor' <= i
      BY <1>0, <2>2, <2>3
    <3>2. i \in read
      BY <1>0, <3>1, NewestUpward
    <3> HIDE DEF read, S
    <3> QED BY <1>0, <2>2, <3>1, <3>2, NewestUpward
  <2>4. \A i \in S : i \in shown <=> i >= cursor'
    BY <1>0, <2>2, <2>3
  <2> QED BY <1>0, <1>1, <1>2, <1>3, <2>2, <2>4
<1> QED BY <1>4, <1>5

LEMMA WalksKeep ==
  ASSUME StoreInvariant, StartWalk \/ NextPage
  PROVE  StoreInvariant'
<1> USE DEF StoreInvariant
<1>1. UNCHANGED <<rows, request, bounds>>
  BY PageTurned DEF StartWalk
<1>2. /\ cursor' \in Rows \cup {Done, 0, Cardinality(Rows) + 1} /\ page' \in Seq(Rows) /\ stable' \subseteq Rows
  <2>1. CASE StartWalk
    BY <2>1 DEF StartWalk, TypeOK
  <2>2. CASE NextPage
    <3>1. cursor' \in Rows \cup {Done} /\ stable' = stable
      BY <2>2, PageTurned
    <3>2. page \in Seq(Rows) /\ \E rest \in Seq(Rows) : page' = page \o rest
      BY <2>2, PageTurned DEF TypeOK
    <3>3. page' \in Seq(Rows)
      BY <3>2, ConcatProperties
    <3> QED BY <3>1, <3>3 DEF TypeOK
  <2> QED BY <2>1, <2>2
<1>3. TypeOK'
  BY <1>1, <1>2 DEF TypeOK, request
<1>4. RowsInvariant' /\ OnceInvariant'
  BY <1>1 DEF RowsInvariant, OnceInvariant, request, Changes
<1>5. AskedInvariant'
  BY <1>1 DEF AskedInvariant, request, Changes, Working, Live
<1>6. WriteInvariant'
  <2>1. \A q \in Requests : Changed(q)' = Changed(q) /\ Matches(q)' = Matches(q)
    BY <1>1 DEF Changed, Matches, Live, request
  <2> QED BY <1>1, <2>1 DEF WriteInvariant, request, Changes, Locked
<1>7. NameInvariant'
  BY <1>1 DEF NameInvariant, request, Indexed, Taken, Live
<1> QED BY <1>3, <1>4, <1>5, <1>6, <1>7

-----------------------------------------------------------------------------
(* The theorems about the table.                                            *)

LEMMA StoreInit == Init => StoreInvariant
<1> SUFFICES ASSUME Init PROVE StoreInvariant
  OBVIOUS
<1> USE DEF Init
<1>0. /\ rows \in [Rows -> Row]
      /\ \A i \in Rows : IF rows[i].st = "none" THEN rows[i] = NoRow ELSE rows[i].version >= 1
      /\ \A i, j \in Rows : rows[i].st = "live" /\ rows[j].st = "live" /\ rows[i].name = rows[j].name => i = j
  BY InitialRowsAssumption
<1>1. TypeOK
  <2>1. NoRow \in Row /\ 0 \in 0..MaxVersion
    BY ItemStoreAssumption DEF NoRow, Row
  <2>2. 1 \in Rows
    BY ItemStoreAssumption
  <2> QED BY <1>0, <2>1, <2>2, EmptySeq DEF TypeOK
<1>2. RowsInvariant
  BY <1>0 DEF RowsInvariant
<1>3. AskedInvariant /\ WriteInvariant /\ OnceInvariant
  BY DEF AskedInvariant, WriteInvariant, OnceInvariant, Changes, Working, Locked
<1>4. NameInvariant
  BY <1>0 DEF NameInvariant, Indexed, Live
<1> QED BY <1>1, <1>2, <1>3, <1>4 DEF StoreInvariant

LEMMA StoreNext == StoreInvariant /\ [Next]_vars => StoreInvariant'
<1> SUFFICES ASSUME StoreInvariant, [Next]_vars PROVE StoreInvariant'
  OBVIOUS
<1>1. ASSUME NEW r \in Requests, AskCreate(r) \/ AskUpdate(r) \/ AskDelete(r)
      PROVE  StoreInvariant'
  <2>1. CASE AskCreate(r)
    BY <2>1, AskKeeps DEF AskCreate
  <2>2. CASE AskUpdate(r)
    <3>1. PICK i \in Rows, n \in Names \cup {NoName} :
            Live(i) /\ rows[i].version < MaxVersion /\ Ask(r, "update", i, n, rows[i].version)
      BY <2>2 DEF AskUpdate
    <3> QED BY <3>1, AskKeeps
  <2>3. CASE AskDelete(r)
    <3>1. PICK i \in Rows :
            Live(i) /\ rows[i].version < MaxVersion /\ Ask(r, "delete", i, NoName, rows[i].version)
      BY <2>3 DEF AskDelete
    <3> QED BY <3>1, AskKeeps
  <2> QED BY <1>1, <2>1, <2>2, <2>3
<1>2. ASSUME NEW r \in Requests, Serve(r)
      PROVE  StoreInvariant'
  BY <1>2, PrecheckKeeps, WriteKeeps, RereadKeeps, IndexKeeps, CommitKeeps DEF Serve
<1>3. ASSUME NEW r \in Requests, Drop(r)
      PROVE  StoreInvariant'
  BY <1>3, EndKeeps DEF Drop, Answers, Working
<1>4. CASE UNCHANGED vars
  <2> USE <1>4 DEF vars, request, walk, StoreInvariant, Changes, Working, Locked
  <2>1. TypeOK' /\ RowsInvariant' /\ OnceInvariant'
    BY DEF TypeOK, RowsInvariant, OnceInvariant
  <2>2. AskedInvariant'
    BY DEF AskedInvariant, Live
  <2>3. WriteInvariant'
    BY DEF WriteInvariant, Changed, Matches, Live
  <2>4. NameInvariant'
    BY DEF NameInvariant, Indexed, Taken, Live
  <2> QED BY <2>1, <2>2, <2>3, <2>4
<1> QED BY <1>1, <1>2, <1>3, <1>4, AskAgainKeeps, WalksKeep DEF Next

LEMMA StoreAlways == Spec => []StoreInvariant
BY StoreInit, StoreNext, PTL DEF Spec

(* The state stays typed; in particular every request writes a proper row,   *)
(* at a version within the bound that its client's read was under.           *)
THEOREM TypeCorrect == Spec => []TypeOK
<1>1. StoreInvariant => TypeOK
  BY DEF StoreInvariant
<1> QED BY <1>1, StoreAlways, PTL

(* Whatever creates and renames run at once, the live items have different   *)
(* names: the index looks at what is committed and at what is about to be.   *)
THEOREM NamesAreUnique == Spec => []UniqueNames
<1>1. StoreInvariant => UniqueNames
  <2> SUFFICES ASSUME StoreInvariant, NEW n \in Names PROVE Cardinality(Taken(n)) <= 1
    BY DEF UniqueNames
  <2>1. CASE Taken(n) = {}
    BY <2>1, FS_EmptySet
  <2>2. CASE Taken(n) # {}
    <3>1. PICK i \in Taken(n) : TRUE
      BY <2>2
    <3>2. Taken(n) = {i}
      BY <3>1 DEF Taken, StoreInvariant, NameInvariant
    <3> QED BY <3>2, FS_Singleton
  <2> QED BY <2>1, <2>2
<1> QED BY <1>1, StoreAlways, PTL

(* A change that is sent again because its answer was lost finds a version   *)
(* beyond the one it names, and is not made twice.                           *)
THEOREM ChangesAreMadeOnce == Spec => []AtMostOnce
<1>1. StoreInvariant => AtMostOnce
  BY DEF StoreInvariant, OnceInvariant, AtMostOnce
<1> QED BY <1>1, StoreAlways, PTL

-----------------------------------------------------------------------------
(* Who waits for whom.                                                      *)

LEMMA OrderKept ==
  ASSUME OrderInvariant, \A q, r \in Requests : Before(q, r)' => Before(q, r)
  PROVE  OrderInvariant'
BY DEF OrderInvariant

\* A step that leaves its own request waiting for nobody.
LEMMA OrderExtended ==
  ASSUME OrderInvariant, NEW r0 \in Requests,
         \A q, r \in Requests \ {r0} : Before(q, r)' => Before(q, r),
         \A q \in Requests : ~Before(q, r0)'
  PROVE  OrderInvariant'
<1> SUFFICES ASSUME NEW S \in SUBSET Requests, S # {}
             PROVE  \E r \in S : \A q \in S : ~Before(q, r)'
  BY DEF OrderInvariant
<1>1. CASE r0 \in S
  BY <1>1
<1>2. CASE r0 \notin S
  <2>1. PICK r \in S : \A q \in S : ~Before(q, r)
    BY DEF OrderInvariant
  <2> QED BY <2>1, <1>2
<1> QED BY <1>1, <1>2

LEMMA OrderInit == Init => OrderInvariant
BY DEF Init, OrderInvariant, Before, Past

LEMMA OrderNext == StoreInvariant /\ OrderInvariant /\ [Next]_vars => OrderInvariant'
<1> SUFFICES ASSUME StoreInvariant, OrderInvariant, [Next]_vars PROVE OrderInvariant'
  OBVIOUS
<1> USE DEF walk, Working, Changes
<1>0. TypeOK
  BY DEF StoreInvariant
<1>1. ASSUME NEW r \in Requests, AskCreate(r) \/ AskUpdate(r) \/ AskDelete(r) \/ AskAgain(r)
      PROVE  OrderInvariant'
  <2>1. /\ pc' = [pc EXCEPT ![r] = "precheck"] /\ UNCHANGED rows
        /\ \A q \in Requests \ {r} : /\ op'[q] = op[q] /\ id'[q] = id[q] /\ name'[q] = name[q]
                                     /\ expected'[q] = expected[q]
    BY <1>0, <1>1 DEF TypeOK, AskCreate, AskUpdate, AskDelete, AskAgain, Ask
  <2>2. \A p, q \in Requests \ {r} : Before(p, q)' => Before(p, q)
    BY <1>0, <2>1 DEF Before, Past, Taken, Live, TypeOK
  <2>3. \A q \in Requests : ~Before(q, r)'
    BY <1>0, <2>1 DEF Before, Past, TypeOK
  <2> QED BY <2>2, <2>3, OrderExtended
<1>2. ASSUME NEW r \in Requests, pc' = [pc EXCEPT ![r] = "idle"],
             UNCHANGED <<rows, op, id, name, expected>>
      PROVE  OrderInvariant'
  <2>1. \A p, q \in Requests : Before(p, q)' => Before(p, q)
    BY <1>0, <1>2 DEF Before, Past, Taken, Live, TypeOK
  <2> QED BY <2>1, OrderKept
<1>3. ASSUME NEW r \in Requests, Precheck(r)
      PROVE  OrderInvariant'
  <2>1. CASE Answer(r, "name_conflict")
    BY <1>2, <2>1 DEF Answer
  <2>2. CASE /\ name[r] = NoName \/ Taken(name[r]) \ (IF op[r] = "update" THEN {id[r]} ELSE {}) = {}
             /\ Step(r, "precheck", "write")
    <3>1. \A p, q \in Requests \ {r} : Before(p, q)' => Before(p, q)
      BY <1>0, <2>2 DEF Before, Past, Taken, Live, TypeOK, Step
    <3>2. \A q \in Requests : ~Before(q, r)'
      BY <1>0, <2>2 DEF Before, Taken, Live, Step
    <3> QED BY <3>1, <3>2, OrderExtended
  <2> QED BY <1>3, <2>1, <2>2 DEF Precheck
<1>4. ASSUME NEW r \in Requests, NEW to \in {"index", "commit", "reread"},
             Step(r, "write", to) \/ Step(r, "index", to)
      PROVE  OrderInvariant'
  <2>1. \A p, q \in Requests : Before(p, q)' => Before(p, q)
    BY <1>0, <1>4 DEF Before, Past, Taken, Live, TypeOK, Step
  <2> QED BY <2>1, OrderKept
<1>5. ASSUME NEW r \in Requests, Commit(r)
      PROVE  OrderInvariant'
  <2> DEFINE k == id[r]
  <2>0. /\ k \in Rows /\ rows[k].version \in Nat /\ write[r].version = rows[k].version + 1
        /\ op[r] = "create" => rows[k].st = "none"
        /\ op[r] \in {"create", "update", "delete"}
    BY <1>5, CommitPuts DEF Commit
  <2>1. /\ rows'[k] = write[r] /\ \A i \in Rows \ {k} : rows'[i] = rows[i]
        /\ pc'[r] = "idle" /\ \A q \in Requests \ {r} : pc'[q] = pc[q]
        /\ UNCHANGED <<op, id, name, expected>>
    BY <1>0, <1>5 DEF Commit, TypeOK
  <2>2. ASSUME NEW p \in Requests, NEW q \in Requests, Before(p, q)'
        PROVE  Before(p, q)
    <3>1. p # r /\ q # r
      BY <2>1, <2>2 DEF Before, Past
    <3>2. Changes(p) /\ expected[p] = rows'[id[p]].version /\ id[p] \in Rows /\ expected[p] \in Nat
      BY <1>0, <2>1, <2>2 DEF Before, TypeOK
    <3>3. rows[id[p]].st # "none" /\ expected[p] <= rows[id[p]].version
      BY <3>2 DEF StoreInvariant, AskedInvariant
    <3>4. id[p] # k
      <4> SUFFICES ASSUME id[p] = k PROVE FALSE
        OBVIOUS
      <4>1. rows'[id[p]].version = rows[k].version + 1
        BY <2>0, <2>1
      <4> HIDE DEF k
      <4> QED BY <2>0, <3>2, <3>3, <4>1
    <3>5. id[p] \in Taken(name[q])' => id[p] \in Taken(name[q])
      BY <2>1, <3>2, <3>4 DEF Taken, Live
    <3> HIDE DEF k
    <3> QED BY <2>1, <2>2, <3>1, <3>2, <3>4, <3>5 DEF Before, Past
  <2> QED BY <2>2, OrderKept
<1>6. CASE UNCHANGED <<rows, request>>
  <2>1. \A p, q \in Requests : Before(p, q)' => Before(p, q)
    BY <1>6 DEF Before, Past, Taken, Live, request
  <2> QED BY <2>1, OrderKept
<1>7. ASSUME NEW r \in Requests, Serve(r) \/ Drop(r)
      PROVE  OrderInvariant'
  <2>1. CASE Write(r)
    BY <1>4, <2>1 DEF Write
  <2>2. CASE Index(r)
    BY <1>2, <1>4, <2>2 DEF Index, Answer
  <2>3. CASE Reread(r) \/ Drop(r)
    BY <1>2, <2>3 DEF Reread, Answer, Drop
  <2> QED BY <1>3, <1>5, <1>7, <2>1, <2>2, <2>3 DEF Serve
<1>8. CASE StartWalk \/ NextPage \/ UNCHANGED vars
  BY <1>6, <1>8 DEF StartWalk, NextPage, vars
<1> QED BY <1>1, <1>7, <1>8 DEF Next

LEMMA NoCircle == StoreInvariant /\ OrderInvariant => NoWaitCycle
<1> SUFFICES ASSUME StoreInvariant, OrderInvariant,
                    NEW circle \in SUBSET Requests, circle # {},
                    \A r \in circle : WaitsFor(r) \cap circle # {}
             PROVE  FALSE
  BY DEF NoWaitCycle
<1> DEFINE S == {r \in circle : pc[r] = "index"}
<1>1. \A r \in circle : pc[r] \in {"write", "index"}
  BY DEF WaitsFor
<1>2. S # {}
  <2>1. PICK r \in circle : TRUE
    OBVIOUS
  <2>2. CASE pc[r] = "write"
    <3>1. PICK q \in circle : Holds(q, id[r])
      BY <2>1, <2>2 DEF WaitsFor, RowWaits
    <3> QED BY <1>1, <3>1 DEF Holds
  <2> QED BY <1>1, <2>1, <2>2
<1>3. PICK r \in S : \A q \in S : ~Before(q, r)
  BY <1>2 DEF OrderInvariant
<1>4. PICK q \in circle : q # r /\ \E i \in Taken(write[r].name) : Holds(q, i)
  <2>1. WaitsFor(r) = IndexWaits(r)
    BY <1>3 DEF WaitsFor
  <2> QED BY <1>1, <1>3, <2>1 DEF IndexWaits, Indexed
<1>5. q \in S /\ id[q] \in Taken(write[r].name) /\ q \in Requests /\ r \in Requests
  BY <1>1, <1>3, <1>4 DEF Holds
<1>6. /\ write[r] = Changed(r) /\ (op[r] = "create" \/ (Changes(r) /\ Matches(r))) /\ op[r] # "delete"
      /\ op[q] = "create" \/ (Changes(q) /\ Matches(q))
      /\ id[q] # id[r] /\ Locked(r) /\ Locked(q) /\ Working(r) /\ Working(q)
  BY <1>4, <1>5 DEF StoreInvariant, WriteInvariant, Locked, Working
<1>7. op[q] # "create" /\ Live(id[q]) /\ id[q] \in Rows /\ rows[id[q]].name = write[r].name
  BY <1>5, <1>6 DEF StoreInvariant, AskedInvariant, Taken, Live
<1>8. name[r] # NoName /\ write[r].name = name[r]
  <2>1. CASE op[r] = "create"
    BY <2>1, <1>5, <1>6, ChangedIsRow, ItemStoreAssumption DEF StoreInvariant, AskedInvariant
  <2>2. CASE op[r] = "update" /\ name[r] = NoName
    <3>1. write[r].name = rows[id[r]].name
      BY <2>2, <1>5, <1>6, ChangedIsRow DEF StoreInvariant
    <3>2. Live(id[r]) /\ id[r] \in Rows
      BY <2>2, <1>5, <1>6 DEF Matches, StoreInvariant, TypeOK
    <3> QED BY <3>1, <3>2, <1>6, <1>7 DEF StoreInvariant, NameInvariant
  <2>3. CASE op[r] = "update" /\ name[r] # NoName
    BY <2>3, <1>5, <1>6, ChangedIsRow DEF StoreInvariant
  <2> QED BY <1>6, <2>1, <2>2, <2>3 DEF Changes
<1>9. Before(q, r)
  BY <1>3, <1>5, <1>6, <1>7, <1>8 DEF Before, Past, Matches
<1> QED BY <1>3, <1>5, <1>9

(* No requests wait for each other in a circle.  The waits at the index      *)
(* follow an order that only a request that begins can extend: who passed    *)
(* the precheck has nobody before it but clients that read a row later, with *)
(* the name it wants, at the version it has now.                             *)
THEOREM NobodyWaitsInACircle == Spec => []NoWaitCycle
BY StoreAlways, OrderInit, OrderNext, NoCircle, PTL DEF Spec

-----------------------------------------------------------------------------
(* What the walk has returned.                                              *)

LEMMA WalkInit == Init => WalkInvariant
BY DEF Init, WalkInvariant, WalkComplete, NewestFirst, Done

\* The rows of a page follow those before it.
LEMMA PageFollows ==
  ASSUME NEW s \in Seq(Rows), NEW rest \in Seq(Rows), NEW c \in Nat,
         \A k \in DOMAIN s : s[k] >= c, \A i \in Range(rest) : i < c,
         NewestFirst(s), NewestFirst(rest)
  PROVE  /\ NewestFirst(s \o rest)
         /\ Range(s \o rest) = Range(s) \cup Range(rest)
         /\ \A k \in DOMAIN (s \o rest) : (s \o rest)[k] \in Range(s) \cup Range(rest)
<1> DEFINE n == Len(s)
           m == Len(rest)
           t == s \o rest
<1>0. Rows \subseteq Nat
  BY SomeRows
<1>1. /\ n \in Nat /\ m \in Nat /\ DOMAIN s = 1..n /\ DOMAIN rest = 1..m
      /\ \A i \in 1..n : s[i] \in Nat
      /\ \A j \in 1..m : rest[j] \in Nat
  BY <1>0, LenProperties
<1>2. /\ DOMAIN t = 1..(n + m)
      /\ \A i \in 1..(n + m) : t[i] = IF i <= n THEN s[i] ELSE rest[i - n]
  BY ConcatProperties, LenProperties
<1>6. /\ \A i \in 1..n : s[i] >= c
      /\ \A j \in 1..m : rest[j] < c
      /\ \A i, j \in 1..n : i < j => s[i] > s[j]
      /\ \A i, j \in 1..m : i < j => rest[i] > rest[j]
  BY <1>1 DEF NewestFirst, Range
<1>7. /\ Range(s) = {s[i] : i \in 1..n} /\ Range(rest) = {rest[j] : j \in 1..m}
      /\ Range(t) = {t[i] : i \in 1..(n + m)}
  BY <1>1, <1>2 DEF Range
<1> HIDE DEF n, m, t
<1>3. Range(t) = Range(s) \cup Range(rest)
  <2>1. ASSUME NEW x \in Range(t) PROVE x \in Range(s) \cup Range(rest)
    <3>1. PICK i \in 1..(n + m) : x = t[i]
      BY <1>7
    <3>2. i <= n \/ i - n \in 1..m
      BY <1>1
    <3> QED BY <1>1, <1>2, <1>7, <3>1, <3>2
  <2>2. ASSUME NEW x \in Range(s) PROVE x \in Range(t)
    <3>1. PICK i \in 1..n : x = s[i]
      BY <1>7
    <3>2. i \in 1..(n + m) /\ t[i] = s[i]
      BY <1>1, <1>2
    <3> QED BY <1>7, <3>1, <3>2
  <2>3. ASSUME NEW x \in Range(rest) PROVE x \in Range(t)
    <3>1. PICK j \in 1..m : x = rest[j]
      BY <1>7
    <3>2. n + j \in 1..(n + m) /\ t[n + j] = rest[j]
      BY <1>1, <1>2
    <3> QED BY <3>1, <3>2, <1>7
  <2> QED BY <2>1, <2>2, <2>3
<1>4. NewestFirst(t)
  <2> SUFFICES ASSUME NEW i \in 1..(n + m), NEW j \in 1..(n + m), i < j PROVE t[i] > t[j]
    BY <1>2 DEF NewestFirst
  <2>1. CASE j <= n
    <3>0. i \in 1..n /\ j \in 1..n /\ i <= n
      BY <2>1, <1>1
    <3>1. i \in 1..n /\ j \in 1..n /\ t[i] = s[i] /\ t[j] = s[j]
      BY <3>0, <2>1, <1>2
    <3> QED BY <3>1, <1>6
  <2>2. CASE i <= n /\ j > n
    <3>1. i \in 1..n /\ t[i] = s[i] /\ s[i] >= c /\ s[i] \in Nat /\ c \in Nat
      <4>1. i \in 1..n /\ c \in Nat
        BY <2>2, <1>0, <1>1
      <4> QED BY <4>1, <1>1, <1>2, <1>6
    <3>2. t[j] = rest[j - n] /\ j - n \in 1..m
      BY <2>2, <1>1, <1>2
    <3>3. t[j] \in Nat /\ t[j] < c
      BY <3>2, <1>1, <1>6
    <3> QED BY <3>1, <3>3
  <2>3. CASE i > n
    <3>1. i - n \in 1..m /\ j - n \in 1..m /\ i - n < j - n
      BY <2>3, <1>1
    <3>2. t[i] = rest[i - n] /\ t[j] = rest[j - n]
      BY <2>3, <1>1, <1>2
    <3> QED BY <3>1, <3>2, <1>6
  <2> QED BY <2>1, <2>2, <2>3, <1>1
<1>5. \A k \in DOMAIN t : t[k] \in Range(t)
  BY DEF Range
<1> QED BY <1>3, <1>4, <1>5 DEF t

LEMMA WalkNext == StoreInvariant /\ WalkInvariant /\ [Next]_vars => WalkInvariant'
<1> SUFFICES ASSUME StoreInvariant, WalkInvariant, [Next]_vars PROVE WalkInvariant'
  OBVIOUS
<1>0. TypeOK /\ Rows \subseteq Nat /\ Done = -1 /\ Cardinality(Rows) \in Nat /\ Rows = 1..Cardinality(Rows)
  BY SomeRows, ItemStoreAssumption DEF StoreInvariant, Done
<1>1. CASE UNCHANGED <<cursor, page, stable, rows>>
  BY <1>1 DEF WalkInvariant, WalkComplete, Listed, Live
<1>2. ASSUME NEW r \in Requests, Commit(r)
      PROVE  WalkInvariant'
  <2>1. id[r] \in Rows /\ rows'[id[r]] = write[r] /\ \A i \in Rows \ {id[r]} : rows'[i] = rows[i]
    BY <1>0, <1>2 DEF Commit, TypeOK
  <2>2. stable' \subseteq stable /\ stable \subseteq Rows /\ UNCHANGED <<cursor, page>>
    BY <1>0, <1>2 DEF Commit, TypeOK
  <2>3. \A i \in stable' : Listed(i)'
    <3>1. ASSUME NEW i \in stable', i # id[r] PROVE Listed(i)'
      BY <2>1, <2>2, <3>1 DEF WalkInvariant, Listed, Live
    <3>2. ASSUME id[r] \in stable' PROVE Listed(id[r])'
      <4>1. write[r].st = "live" /\ write[r].active
        BY <1>2, <3>2 DEF Commit
      <4>2. id'[r] = id[r] /\ UNCHANGED id
        BY <1>2 DEF Commit
      <4> QED BY <4>1, <4>2, <2>1 DEF Listed, Live
    <3>3. UNCHANGED id
      BY <1>2 DEF Commit
    <3> QED BY <3>1, <3>2, <3>3 DEF Listed, Live
  <2> QED BY <2>2, <2>3 DEF WalkInvariant, WalkComplete
<1>3. CASE StartWalk
  BY <1>0, <1>3 DEF StartWalk, WalkInvariant, WalkComplete, Listed, Live, NewestFirst
<1>4. CASE NextPage
  <2> DEFINE S == {i \in Rows : Listed(i) /\ i < cursor}
  <2>0. cursor > 0 /\ cursor \in Nat
    BY <1>0, <1>4 DEF NextPage, TypeOK
  <2>1. PICK shown \in SUBSET S, rest \in Seq(Rows) :
          /\ page' = page \o rest /\ Range(rest) = shown /\ NewestFirst(rest)
          /\ \/ /\ cursor' = Done /\ shown = S
             \/ /\ cursor' \in shown
                /\ \A i \in Rows : Listed(i) /\ i < cursor => (i \in shown <=> i >= cursor')
    BY <1>0, <1>4, PageTurned
  <2>2. UNCHANGED <<rows, stable>> /\ page \in Seq(Rows) /\ stable \subseteq Rows
    BY <1>0, <1>4, PageTurned DEF TypeOK
  <2>3. /\ NewestFirst(page) /\ NewestFirst(rest)
        /\ \A k \in DOMAIN page : page[k] >= cursor
        /\ \A i \in Range(rest) : i < cursor
        /\ \A i \in stable : Listed(i) /\ (i \in S \/ i \in Range(page))
    BY <2>0, <2>1, <2>2 DEF WalkInvariant, WalkComplete
  <2>4. /\ NewestFirst(page') /\ Range(page') = Range(page) \cup shown
        /\ \A k \in DOMAIN page' : page'[k] \in Range(page) \cup shown
    <3>1. cursor \in Nat /\ page \in Seq(Rows) /\ rest \in Seq(Rows)
      BY <2>0, <2>2
    <3>2. /\ NewestFirst(page \o rest)
          /\ Range(page \o rest) = Range(page) \cup Range(rest)
          /\ \A k \in DOMAIN (page \o rest) : (page \o rest)[k] \in Range(page) \cup Range(rest)
      BY <3>1, <2>3, PageFollows
    <3> QED BY <2>1, <3>2
  <2>5. \A i \in Range(page) : i \in Nat /\ i >= cursor
    BY <1>0, <2>2, <2>3, LenProperties DEF Range
  <2>6. CASE cursor' = Done /\ shown = S
    BY <1>0, <2>2, <2>3, <2>4, <2>6 DEF WalkInvariant, WalkComplete, Listed, Live
  <2>7. CASE /\ cursor' \in shown
             /\ \A i \in Rows : Listed(i) /\ i < cursor => (i \in shown <=> i >= cursor')
    <3>1. cursor' \in Nat \ {0} /\ cursor' < cursor /\ cursor' # Done
      BY <1>0, <2>0, <2>7
    <3>2. \A k \in DOMAIN page' : page'[k] >= cursor'
      <4>1. \A i \in shown : i >= cursor'
        BY <2>7
      <4>2. \A i \in Range(page) : i >= cursor'
        BY <2>0, <2>5, <3>1
      <4> QED BY <2>4, <4>1, <4>2
    <3>3. \A i \in stable : i < cursor' \/ i \in Range(page')
      BY <1>0, <2>2, <2>3, <2>4, <2>7, <3>1
    <3> QED BY <2>2, <2>3, <2>4, <3>1, <3>2, <3>3 DEF WalkInvariant, WalkComplete, Listed, Live
  <2> QED BY <2>1, <2>6, <2>7
<1>5. ASSUME NEW r \in Requests,
             AskCreate(r) \/ AskUpdate(r) \/ AskDelete(r) \/ AskAgain(r) \/ Serve(r) \/ Drop(r)
      PROVE  WalkInvariant'
  <2>1. CASE Commit(r)
    BY <1>2, <2>1
  <2>2. CASE ~Commit(r)
    <3>1. UNCHANGED <<walk, rows>>
      BY <1>5, <2>2 DEF AskCreate, AskUpdate, AskDelete, AskAgain, Ask, Serve, Drop, Precheck,
           Write, Reread, Index, Step, Answer
    <3> QED BY <1>1, <3>1 DEF walk
  <2> QED BY <2>1, <2>2
<1> QED BY <1>1, <1>3, <1>4, <1>5 DEF Next, vars, walk

(* A walk through the pages returns every item that was listable all the     *)
(* while, and none twice: above the cursor everything stable has been        *)
(* returned, and a page that is not full enough to go on had all the rest.   *)
THEOREM WalksAreComplete == Spec => []WalkComplete
<1>1. WalkInvariant => WalkComplete
  BY DEF WalkInvariant
<1> QED BY <1>1, StoreAlways, WalkInit, WalkNext, PTL DEF Spec

-----------------------------------------------------------------------------
(* The requests implement the ledger.                                       *)

\* What the abstract step of a request's step is made of.
LEMMA LedgerSees ==
  ASSUME TypeOK, NEW r \in Requests
  PROVE  /\ Wants[r].op = op[r] /\ Wants[r].id = id[r] /\ Wants[r].version = expected[r]
         /\ UNCHANGED <<op, id, expected>> => UNCHANGED Wants
         /\ UNCHANGED answer => UNCHANGED Told
BY DEF Wants, Told

LEMMA LedgerTold ==
  ASSUME TypeOK, NEW r \in Requests, NEW what \in Answers, answer' = [answer EXCEPT ![r] = what]
  PROVE  /\ Told' = [Told EXCEPT ![r] = IF what = "lost" THEN "none" ELSE what]
         /\ what = "lost" /\ answer[r] = "none" => Told' = Told
BY DEF Told, TypeOK

LEMMA LedgerInit == Init => Ledger!Init
<1> SUFFICES ASSUME Init PROVE Ledger!Init
  OBVIOUS
<1>1. \A i \in Rows : rows[i].st = "live" => rows[i].version >= 1
  BY InitialRowsAssumption DEF Init
<1>2. Told = [r \in Requests |-> "none"]
  BY DEF Init, Told
<1> QED BY <1>1, <1>2 DEF Ledger!Init

LEMMA LedgerNext == StoreInvariant /\ [Next]_vars => [Ledger!Next]_<<rows, Wants, Told>>
<1> SUFFICES ASSUME StoreInvariant, [Next]_vars PROVE [Ledger!Next]_<<rows, Wants, Told>>
  OBVIOUS
<1> USE DEF walk, Working, Changes
<1>0. TypeOK
  BY DEF StoreInvariant
<1>1. ASSUME NEW r \in Requests, AskCreate(r) \/ AskUpdate(r) \/ AskDelete(r)
      PROVE  [Ledger!Next]_<<rows, Wants, Told>>
  <2>1. /\ answer' = [answer EXCEPT ![r] = "none"] /\ UNCHANGED rows
        /\ \A q \in Requests \ {r} : op'[q] = op[q] /\ id'[q] = id[q] /\ expected'[q] = expected[q]
    BY <1>0, <1>1 DEF AskCreate, AskUpdate, AskDelete, Ask, TypeOK
  <2>2. Told' = [Told EXCEPT ![r] = "none"]
    BY <1>0, <2>1, LedgerTold DEF Answers
  <2>3. \A q \in Requests \ {r} : Wants'[q] = Wants[q]
    BY <2>1 DEF Wants
  <2>4. Ledger!Turn(r)
    BY <2>1, <2>2, <2>3 DEF Ledger!Turn
  <2> QED BY <2>4 DEF Ledger!Next
<1>2. ASSUME NEW r \in Requests, AskAgain(r)
      PROVE  [Ledger!Next]_<<rows, Wants, Told>>
  <2>1. Told' = Told
    BY <1>0, <1>2 DEF AskAgain, Told, TypeOK
  <2> QED BY <1>0, <1>2, <2>1, LedgerSees DEF AskAgain
<1>3. ASSUME NEW r \in Requests, NEW what \in {"name_conflict", "version_conflict", "not_found"},
             Answer(r, what),
             what = "version_conflict" => Live(id[r]) /\ rows[id[r]].version > expected[r],
             what = "not_found" => rows[id[r]].st = "deleted"
      PROVE  [Ledger!Next]_<<rows, Wants, Told>>
  <2>1. UNCHANGED <<rows, Wants>> /\ Told' = [Told EXCEPT ![r] = what]
    BY <1>0, <1>3, LedgerSees, LedgerTold DEF Answer, Answers
  <2>2. Ledger!Refuse(r)
    BY <1>0, <1>3, <2>1, LedgerSees DEF Ledger!Refuse, Ledger!Current, Live
  <2> QED BY <2>2 DEF Ledger!Next
<1>4. ASSUME NEW r \in Requests, Precheck(r) \/ Index(r)
      PROVE  [Ledger!Next]_<<rows, Wants, Told>>
  <2>1. CASE Answer(r, "name_conflict")
    BY <1>3, <2>1
  <2>2. CASE UNCHANGED <<rows, op, id, expected, answer>>
    BY <1>0, <2>2, LedgerSees
  <2> QED BY <1>4, <2>1, <2>2 DEF Precheck, Index, Step
<1>5. ASSUME NEW r \in Requests, Reread(r)
      PROVE  [Ledger!Next]_<<rows, Wants, Told>>
  <2>1. /\ rows[id[r]].st # "none" /\ (Live(id[r]) => rows[id[r]].version > expected[r])
        /\ rows[id[r]] \in Row
    BY <1>0, <1>5 DEF StoreInvariant, AskedInvariant, Reread, TypeOK
  <2>2. CASE Live(id[r])
    BY <1>3, <1>5, <2>1, <2>2 DEF Reread
  <2>3. CASE ~Live(id[r])
    <3>1. rows[id[r]].st = "deleted"
      BY <2>1, <2>3 DEF Live, Row
    <3> QED BY <1>3, <1>5, <2>3, <3>1 DEF Reread
  <2> QED BY <2>2, <2>3
<1>6. ASSUME NEW r \in Requests, Commit(r)
      PROVE  [Ledger!Next]_<<rows, Wants, Told>>
  <2> DEFINE k == id[r]
  <2>0. /\ k \in Rows /\ write[r].version = rows[k].version + 1
        /\ op[r] = "create" => rows[k].st = "none" /\ write[r].st = "live"
        /\ Changes(r) => /\ rows[k].st = "live" /\ rows[k].version = expected[r]
                         /\ write[r].st = IF op[r] = "delete" THEN "deleted" ELSE "live"
        /\ op[r] \in {"create", "update", "delete"}
    BY <1>6, CommitPuts DEF Commit
  <2>1. rows' = [rows EXCEPT ![k] = write[r]] /\ rows'[k] = write[r] /\ UNCHANGED Wants
    BY <1>0, <1>6, <2>0, LedgerSees DEF Commit, TypeOK
  <2>2. Told' \in {Told, [Told EXCEPT ![r] = "ok"]}
    <3>1. answer[r] = "none"
      BY <1>6 DEF StoreInvariant, AskedInvariant, Commit
    <3>2. CASE answer' = [answer EXCEPT ![r] = "ok"]
      BY <1>0, <3>2, LedgerTold DEF Answers
    <3>3. CASE answer' = [answer EXCEPT ![r] = "lost"]
      BY <1>0, <3>1, <3>3, LedgerTold DEF Answers
    <3> QED BY <1>6, <3>2, <3>3 DEF Commit
  <2> HIDE DEF k
  <2>3. /\ Wants[r].op = op[r] /\ Wants[r].id = k /\ Wants[r].version = expected[r]
    BY <1>0, LedgerSees DEF k
  <2>4. Ledger!Make(r, rows'[k])
    BY <2>0, <2>1, <2>2, <2>3 DEF Ledger!Make, Ledger!Current
  <2> QED BY <2>0, <2>4 DEF Ledger!Next
<1>7. ASSUME NEW r \in Requests, Drop(r)
      PROVE  [Ledger!Next]_<<rows, Wants, Told>>
  <2>1. answer[r] = "none"
    BY <1>7 DEF StoreInvariant, AskedInvariant, Drop
  <2>2. Told' = Told
    BY <1>0, <1>7, <2>1, LedgerTold DEF Drop, Answers
  <2> QED BY <1>0, <1>7, <2>2, LedgerSees DEF Drop
<1>8. ASSUME NEW r \in Requests, Write(r)
      PROVE  [Ledger!Next]_<<rows, Wants, Told>>
  BY <1>0, <1>8, LedgerSees DEF Write, Step
<1>9. CASE UNCHANGED <<rows, request>>
  BY <1>0, <1>9 DEF request, Wants, Told
<1> QED BY <1>1, <1>2, <1>4, <1>5, <1>6, <1>7, <1>8, <1>9 DEF Next, Serve, StartWalk, NextPage, vars

(* A request makes its change in one step, to the version its client had     *)
(* read, and is told of a conflict only where there is one.                  *)
THEOREM RequestsKeepALedger == Spec => ImplementsItemLedger
BY StoreAlways, LedgerInit, LedgerNext, PTL DEF Spec, ImplementsItemLedger, Ledger!Spec

=============================================================================
