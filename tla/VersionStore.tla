----------------------------- MODULE VersionStore -----------------------------
(***************************************************************************)
(* fetch_version: a GitHub archive of a ref becomes a directory of         *)
(* versions/, named after the ref and the first digits of its commit, with *)
(* a meta file in it.  The directory appears by one rename; the meta file  *)
(* is written in place afterwards, outside the try.                        *)
(***************************************************************************)
EXTENDS LockedCommand

CONSTANTS
  Refs, Commits, NoCommit,
  VersionIds,  \* the directory names
  VersionId    \* the name for a ref and a commit; two commits may share their digits

ASSUME VersionAssumption ==
  /\ {NoCommit, "none", "torn"} \cap Commits = {} /\ NoCommit \notin {"none", "torn"}
  /\ VersionId \in [Refs \X Commits -> VersionIds]

VARIABLES
  version, \* the commit each directory holds
  vmeta,   \* its meta file: "none", "torn", or the commit it names
  scratch  \* the refs with a .download- or .extract- entry in versions/

versions == <<version, vmeta, scratch>>

VersionsInit ==
  /\ version = [v \in VersionIds |-> NoCommit] /\ vmeta = [v \in VersionIds |-> "none"]
  /\ scratch = {}

\* A command works on a ref and, once downloaded, on its commit.
Ref(c)    == work[c][1]
Commit(c) == work[c][2]
Id(c)     == VersionId[<<Ref(c), Commit(c)>>]

NamelessVersions == {v \in VersionIds : version[v] # NoCommit /\ vmeta[v] \in {"none", "torn"}} \cup scratch

FetchStart(c, r) ==
  /\ TakeLock(c, "idle", "fetch_download", <<r>>)
  /\ scratch' = scratch \ {r} /\ UNCHANGED <<version, vmeta>>

\* The branch may stand at any commit.
FetchDownload(c) ==
  /\ At(c, "fetch_download")
  /\ \/ Ref(c) \notin scratch /\ scratch' = scratch \cup {Ref(c)} /\ UNCHANGED shared
     \/ /\ Ref(c) \in scratch /\ UNCHANGED <<lock, orphans, left, faults, kills, scratch>>
        /\ pc' = [pc EXCEPT ![c] = "fetch_look"]
        /\ \E k \in Commits : work' = [work EXCEPT ![c] = <<Ref(c), k>>]
  /\ UNCHANGED <<version, vmeta>>

ClearScratch(c) == scratch' = scratch \ {Ref(c)} /\ UNCHANGED version

\* A directory of that name may be there: of this commit, of another one with
\* the same first digits, or without a meta file that can be read.
FetchLook(c) ==
  /\ At(c, "fetch_look")
  /\ IF version[Id(c)] = NoCommit THEN Goto(c, "fetch_extract") /\ UNCHANGED versions
     ELSE /\ IF vmeta[Id(c)] = Commit(c) THEN Goto(c, "fetch_meta") ELSE Finish(c)
          /\ ClearScratch(c) /\ UNCHANGED vmeta

FetchExtract(c) ==
  /\ At(c, "fetch_extract") /\ Goto(c, "fetch_meta")
  /\ version' = [version EXCEPT ![Id(c)] = Commit(c)]
  /\ scratch' = scratch \ {Ref(c)}
  /\ UNCHANGED vmeta

\* finally removes the archive and the extract directory.
FetchFails(c) ==
  /\ pc[c] \in {"fetch_download", "fetch_extract"} /\ Fail(c, {})
  /\ ClearScratch(c) /\ UNCHANGED vmeta

\* write_text truncates the file and then writes it.
FetchMeta(c) ==
  /\ \/ At(c, "fetch_meta") /\ Goto(c, "fetch_write") /\ vmeta' = [vmeta EXCEPT ![Id(c)] = "torn"]
     \/ At(c, "fetch_write") /\ Finish(c) /\ vmeta' = [vmeta EXCEPT ![Id(c)] = Commit(c)]
  /\ UNCHANGED <<version, scratch>>

FetchFailsLate(c) ==
  /\ pc[c] \in {"fetch_meta", "fetch_write"} /\ Fail(c, {Id(c)}) /\ UNCHANGED versions

VersionStep(c) ==
  FetchDownload(c) \/ FetchLook(c) \/ FetchExtract(c) \/ FetchFails(c) \/ FetchMeta(c) \/ FetchFailsLate(c)

-----------------------------------------------------------------------------
VersionsTypeOK ==
  /\ version \in [VersionIds -> Commits \cup {NoCommit}]
  /\ vmeta \in [VersionIds -> Commits \cup {"none", "torn"}]
  /\ scratch \subseteq Refs

MetaIsItsCommit == \A v \in VersionIds : vmeta[v] \in {"none", "torn", version[v]}

\* A version without its meta, or a temporary entry, is being fetched or was left.
VersionsLeaveNothing ==
  \A t \in NamelessVersions : t \in left \/ \E c \in Commands :
    \/ pc[c] \in {"fetch_download", "fetch_look", "fetch_extract"} /\ Ref(c) = t
    \/ pc[c] \in {"fetch_meta", "fetch_write"} /\ Id(c) = t
=============================================================================
