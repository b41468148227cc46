------------------------------- MODULE ItemStore -------------------------------
(***************************************************************************)
(* The items of one owner, as ItemService changes them: a request opens a  *)
(* unit of work, looks whether its name is taken, writes one row with a    *)
(* test of the version in the statement itself, and commits.  The API runs *)
(* many requests at once, over READ COMMITTED transactions: a write waits  *)
(* for a transaction that has the row, or an entry of the unique index of  *)
(* live names, and then looks at what that one committed.                  *)
(*                                                                         *)
(* Rows are numbered in the order of (created_at, id), the order of the    *)
(* listing; a new row may be given any number that is free.                *)
(***************************************************************************)
EXTENDS FiniteSets, Integers, SequencesExt

CONSTANTS
  Requests,    \* clients that change items, each with one request at a time
  Lister,      \* whether a client walks through the pages of the listing
  Rows,        \* possible rows, 1..N
  Names, NoName,
  PageSize,    \* the limit of the listing
  InitialRows, \* the tables to begin with
  MaxVersion, MaxRequests, MaxDrops \* bounds: versions, requests, requests cut short

ASSUME ItemStoreAssumption ==
  /\ IsFiniteSet(Rows) /\ Rows = 1..Cardinality(Rows) /\ 1 \in Rows
  /\ NoName \notin Names /\ PageSize \in Nat \ {0} /\ Lister \in BOOLEAN
  /\ MaxVersion \in Nat \ {0} /\ MaxRequests \in Nat /\ MaxDrops \in Nat

Row == [st : {"none", "live", "deleted"}, name : Names \cup {NoName},
        active : BOOLEAN, version : 0..MaxVersion]
NoRow == [st |-> "none", name |-> NoName, active |-> FALSE, version |-> 0]

\* What the database may hold: versions count from 1, and the index is unique.
ASSUME InitialRowsAssumption == \A t \in InitialRows :
  /\ t \in [Rows -> Row]
  /\ \A i \in Rows : IF t[i].st = "none" THEN t[i] = NoRow ELSE t[i].version >= 1
  /\ \A i, j \in Rows : t[i].st = "live" /\ t[j].st = "live" /\ t[i].name = t[j].name => i = j

VARIABLES
  rows,             \* what has been committed
  pc, op, id, name, \* each request: its position, operation, row and name
  expected,         \* the version its client read
  write,            \* the row it has written and not committed
  answer,
  applied,          \* history: how often the request took effect
  cursor, page,     \* the walk: the next cursor, and the rows it has returned
  stable,           \* history: the rows that were listable during the whole walk
  requests, drops

request == <<pc, op, id, name, expected, write, answer, applied>>
walk    == <<cursor, page, stable>>
bounds  == <<requests, drops>>
vars    == <<rows, request, walk, bounds>>

Init ==
  /\ rows \in InitialRows
  /\ pc = [r \in Requests |-> "idle"] /\ op = [r \in Requests |-> "get"]
  /\ id = [r \in Requests |-> 1] /\ name = [r \in Requests |-> NoName]
  /\ expected = [r \in Requests |-> 0] /\ write = [r \in Requests |-> NoRow]
  /\ answer = [r \in Requests |-> "none"] /\ applied = [r \in Requests |-> 0]
  /\ cursor = 0 /\ page = <<>> /\ stable = {}
  /\ requests = 0 /\ drops = 0

Live(i)   == rows[i].st = "live"
Listed(i) == Live(i) /\ rows[i].active
Taken(n)  == {i \in Rows : Live(i) /\ rows[i].name = n}

-----------------------------------------------------------------------------
(* Transactions.                                                            *)

At(r, loc) == pc[r] = loc
Step(r, from, to) ==
  /\ At(r, from) /\ pc' = [pc EXCEPT ![r] = to]
  /\ UNCHANGED <<rows, op, id, name, expected, answer, applied, walk, bounds>>

\* A transaction that ends without a commit: its row lock is freed.
Answer(r, what) ==
  /\ pc' = [pc EXCEPT ![r] = "idle"] /\ answer' = [answer EXCEPT ![r] = what]
  /\ write' = [write EXCEPT ![r] = NoRow]
  /\ UNCHANGED <<rows, op, id, name, expected, applied, walk, bounds>>

Holds(r, i)    == pc[r] \in {"index", "commit"} /\ id[r] = i
Indexed(r, n)  == At(r, "commit") /\ write[r].st = "live" /\ write[r].name = n
RowWaits(r)    == {q \in Requests \ {r} : Holds(q, id[r])}
\* An entry of the index that is being written, or whose row is being changed.
IndexWaits(r)  == {q \in Requests \ {r} :
                     Indexed(q, write[r].name) \/ \E i \in Taken(write[r].name) : Holds(q, i)}
WaitsFor(r) ==
  CASE pc[r] = "write" -> RowWaits(r)
    [] pc[r] = "index" -> IndexWaits(r)
    [] OTHER -> {}

-----------------------------------------------------------------------------
(* The requests.                                                            *)

\* A client reads an item, or thinks of a new one, and asks for a change.
Ask(r, o, i, n, v) ==
  /\ At(r, "idle") /\ requests < MaxRequests
  /\ pc' = [pc EXCEPT ![r] = "precheck"]
  /\ op' = [op EXCEPT ![r] = o] /\ id' = [id EXCEPT ![r] = i]
  /\ name' = [name EXCEPT ![r] = n] /\ expected' = [expected EXCEPT ![r] = v]
  /\ answer' = [answer EXCEPT ![r] = "none"] /\ applied' = [applied EXCEPT ![r] = 0]
  /\ requests' = requests + 1
  /\ UNCHANGED <<rows, write, walk, drops>>

AskCreate(r) == \E i \in Rows, n \in Names :
  rows[i].st = "none" /\ (\A q \in Requests : At(q, "idle") \/ id[q] # i) /\ Ask(r, "create", i, n, 0)
\* A rename, or (NoName) a change of the status.
AskUpdate(r) == \E i \in Rows, n \in Names \cup {NoName} :
  Live(i) /\ rows[i].version < MaxVersion /\ Ask(r, "update", i, n, rows[i].version)
AskDelete(r) == \E i \in Rows :
  Live(i) /\ rows[i].version < MaxVersion /\ Ask(r, "delete", i, NoName, rows[i].version)

\* The answer was lost: the client sends the same request again.
AskAgain(r) ==
  /\ At(r, "idle") /\ answer[r] = "lost" /\ op[r] # "create"
  /\ pc' = [pc EXCEPT ![r] = "precheck"] /\ answer' = [answer EXCEPT ![r] = "none"]
  /\ UNCHANGED <<rows, op, id, name, expected, write, applied, walk, bounds>>

\* Mutant: the name is left to the unique index.
PrecheckNothing(r) == Step(r, "precheck", "write") /\ UNCHANGED write

\* get_active_by_name; the row itself may have the name already.
Precheck(r) ==
  /\ At(r, "precheck")
  /\ IF name[r] # NoName /\ Taken(name[r]) \ (IF op[r] = "update" THEN {id[r]} ELSE {}) # {}
     THEN Answer(r, "name_conflict")
     ELSE Step(r, "precheck", "write") /\ UNCHANGED write

Changed(r) ==
  CASE op[r] = "create" -> [st |-> "live", name |-> name[r], active |-> TRUE, version |-> 1]
    [] op[r] = "delete" -> [rows[id[r]] EXCEPT !.st = "deleted", !.version = @ + 1]
    [] op[r] = "update" /\ name[r] # NoName -> [rows[id[r]] EXCEPT !.name = name[r], !.version = @ + 1]
    [] OTHER -> [rows[id[r]] EXCEPT !.active = ~@, !.version = @ + 1]

\* Mutant: the statement does not compare the version.
MatchesLive(r) == Live(id[r])

\* The WHERE clause of update_cas and soft_delete_cas.
Matches(r) == Live(id[r]) /\ rows[id[r]].version = expected[r]

\* Mutant: a row that another transaction has written is taken as it was before.
WriteWithoutWaiting(r) ==
  /\ At(r, "write")
  /\ \/ /\ op[r] = "create" \/ Matches(r)
        /\ Step(r, "write", IF op[r] = "delete" THEN "commit" ELSE "index")
        /\ write' = [write EXCEPT ![r] = Changed(r)]
     \/ op[r] # "create" /\ ~Matches(r) /\ Step(r, "write", "reread") /\ UNCHANGED write

\* The statement: wait for the row, test its version, lock it and write.
Write(r) ==
  /\ At(r, "write") /\ RowWaits(r) = {}
  /\ \/ /\ op[r] = "create" \/ Matches(r)
        /\ Step(r, "write", IF op[r] = "delete" THEN "commit" ELSE "index")
        /\ write' = [write EXCEPT ![r] = Changed(r)]
     \/ op[r] # "create" /\ ~Matches(r) /\ Step(r, "write", "reread") /\ UNCHANGED write

\* Mutant: a conflict is tried again instead of told.
RereadAndRetry(r) == Step(r, "reread", "write") /\ UNCHANGED write

\* No row matched: a second SELECT tells why.
Reread(r) ==
  /\ At(r, "reread")
  /\ Answer(r, IF Live(id[r]) THEN "version_conflict" ELSE "not_found")

\* Mutant: the index is not unique.
IndexAnything(r) ==
  /\ At(r, "index") /\ IndexWaits(r) = {}
  /\ Step(r, "index", "commit") /\ UNCHANGED write

\* uq_items_owner_name_active: IntegrityError, a rollback and ITEM_NAME_CONFLICT.
Index(r) ==
  /\ At(r, "index") /\ IndexWaits(r) = {}
  /\ IF Taken(write[r].name) \ {id[r]} # {}
     THEN Answer(r, "name_conflict")
     ELSE Step(r, "index", "commit") /\ UNCHANGED write

\* The commit, after which the answer may still be lost.
Commit(r) ==
  /\ At(r, "commit")
  /\ rows' = [rows EXCEPT ![id[r]] = write[r]]
  /\ stable' = IF write[r].st = "live" /\ write[r].active THEN stable ELSE stable \ {id[r]}
  /\ applied' = [applied EXCEPT ![r] = @ + 1]
  /\ pc' = [pc EXCEPT ![r] = "idle"] /\ write' = [write EXCEPT ![r] = NoRow]
  /\ \/ answer' = [answer EXCEPT ![r] = "ok"] /\ UNCHANGED drops
     \/ answer' = [answer EXCEPT ![r] = "lost"] /\ drops < MaxDrops /\ drops' = drops + 1
  /\ UNCHANGED <<op, id, name, expected, cursor, page, requests>>

\* The request is cancelled, the connection breaks or the API is killed.
Drop(r) ==
  /\ ~At(r, "idle") /\ drops < MaxDrops
  /\ pc' = [pc EXCEPT ![r] = "idle"] /\ answer' = [answer EXCEPT ![r] = "lost"]
  /\ write' = [write EXCEPT ![r] = NoRow] /\ drops' = drops + 1
  /\ UNCHANGED <<rows, op, id, name, expected, applied, walk, requests>>

Serve(r) == Precheck(r) \/ Write(r) \/ Reread(r) \/ Index(r) \/ Commit(r)

-----------------------------------------------------------------------------
(* The listing: newest first, limit + 1 rows are read to know if more follow. *)

Done == -1

StartWalk ==
  /\ Lister /\ cursor = 0 /\ page = <<>>
  /\ cursor' = Cardinality(Rows) + 1
  /\ stable' = {i \in Rows : Listed(i)}
  /\ UNCHANGED <<rows, request, page, bounds>>

NewestFirst(s) == \A i, j \in DOMAIN s : i < j => s[i] > s[j]
InOrder(S)     == {s \in [1..Cardinality(S) -> S] : Range(s) = S /\ NewestFirst(s)}

Newest(k, rest) == {i \in rest : Cardinality({j \in rest : j > i}) < k}

\* Mutant: the cursor is the row read beyond the page.
NextPageSkips ==
  /\ cursor > 0
  /\ LET read == Newest(PageSize + 1, {i \in Rows : Listed(i) /\ i < cursor})
         shown == Newest(PageSize, read)
     IN  /\ \E rest \in InOrder(shown) : page' = page \o rest
         /\ cursor' = IF read = shown THEN Done ELSE CHOOSE i \in read : \A j \in read : i <= j
  /\ UNCHANGED <<rows, request, stable, bounds>>

NextPage ==
  /\ cursor > 0
  /\ LET read == Newest(PageSize + 1, {i \in Rows : Listed(i) /\ i < cursor})
         shown == Newest(PageSize, read)
     IN  /\ \E rest \in InOrder(shown) : page' = page \o rest
         /\ cursor' = IF read = shown THEN Done ELSE CHOOSE i \in shown : \A j \in shown : i <= j
  /\ UNCHANGED <<rows, request, stable, bounds>>

Next ==
  \/ \E r \in Requests : AskCreate(r) \/ AskUpdate(r) \/ AskDelete(r) \/ AskAgain(r) \/ Serve(r) \/ Drop(r)
  \/ StartWalk \/ NextPage

Spec == Init /\ [][Next]_vars

\* The event loop runs every request, and the database wakes who waits.
FairSpec == Spec /\ \A r \in Requests : WF_vars(Serve(r))

-----------------------------------------------------------------------------
(* Properties.                                                              *)

TypeOK ==
  /\ rows \in [Rows -> Row] /\ write \in [Requests -> Row]
  /\ pc \in [Requests -> {"idle", "precheck", "write", "reread", "index", "commit"}]
  /\ op \in [Requests -> {"get", "create", "update", "delete"}]
  /\ id \in [Requests -> Rows] /\ name \in [Requests -> Names \cup {NoName}]
  /\ expected \in [Requests -> 0..MaxVersion]
  /\ answer \in [Requests -> {"none", "ok", "lost", "name_conflict", "version_conflict", "not_found"}]
  /\ applied \in [Requests -> Nat]
  /\ cursor \in Rows \cup {Done, 0, Cardinality(Rows) + 1} /\ page \in Seq(Rows) /\ stable \subseteq Rows

(* An owner never has two live items of one name, whatever creates and        *)
(* renames run at once with the same prechecks behind them.                   *)
UniqueNames == \A n \in Names : Cardinality(Taken(n)) <= 1

(* update_item, delete_item: a change that is sent again because its answer   *)
(* was lost is not made twice.                                                *)
AtMostOnce == \A r \in Requests : applied[r] <= 1

(* No transactions wait for each other in a circle: the precheck of the name  *)
(* and the version that the client read together order every wait.            *)
NoWaitCycle ==
  ~\E circle \in SUBSET Requests : circle # {} /\ \A r \in circle : WaitsFor(r) \cap circle # {}

(* list_items: a walk along the cursors returns every item that was listable  *)
(* from its beginning to its end, whatever is created, changed and deleted    *)
(* meanwhile, and none twice.                                                 *)
WalkComplete ==
  /\ cursor = Done => stable \subseteq Range(page)
  /\ NewestFirst(page)

(* Every request is answered.                                                 *)
Answered == \A r \in Requests : ~At(r, "idle") ~> At(r, "idle")

\* What each client asks of the ledger, and what it has been told.
Wants == [r \in Requests |-> [op |-> op[r], id |-> id[r], version |-> expected[r]]]
Told  == [r \in Requests |-> IF answer[r] = "lost" THEN "none" ELSE answer[r]]

Ledger == INSTANCE ItemLedger WITH items <- rows, wants <- Wants, told <- Told

(* The requests implement a ledger that takes each change in one step, at the *)
(* version its client had read, and tells the client what it did.             *)
ImplementsItemLedger == Ledger!Spec
=============================================================================
