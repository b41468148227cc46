----------------------------- MODULE CatalogEnrich -----------------------------
(***************************************************************************)
(* "catalog enrich --write" measures the model files on disk and writes    *)
(* their size and digest back into the catalogue's TOML files, by editing  *)
(* lines: the text is read, the section of each model found, its fields    *)
(* replaced or inserted, and the file replaced through a temporary of a    *)
(* fixed name, with no lock.                                               *)
(*                                                                         *)
(* A file is a sequence of lines: its schema_version ("top"), headers with *)
(* and without a trailing comment ("header", "noted"), and fields.  What a *)
(* line's text is beyond that is left out.                                 *)
(***************************************************************************)
EXTENDS FiniteSets, Integers, SequencesExt

CONSTANTS
  Commands,
  Files,                \* the TOML files under models/
  Models, Home,         \* the models, and the file that each is in
  Layouts,              \* what the files may hold to begin with
  Selections,           \* the sequences of models that one command may be about
  Contents, EmptyFile,  \* what a model file may hold, no two of one size; a file of no bytes
  Nothing,
  MaxAsks, MaxFaults    \* bounds: commands, commands cut short or whose write fails

FieldOrder == <<"size_hint", "size_bytes", "sha256">>
Fields     == {"size_hint", "size_bytes", "sha256"}
Line       == [key : {"top"}, val : {Nothing}] \cup [key : {"header", "noted"}, val : Models]
                \cup [key : Fields, val : Contents]

HeaderAt(t, i) == t[i].key \in {"header", "noted"}
Has(t, m)      == \E i \in DOMAIN t : HeaderAt(t, i) /\ t[i].val = m

\* A catalogue that has a model in two files does not load, and no command begins.
ASSUME CatalogEnrichAssumption ==
  /\ IsFiniteSet(Files) /\ IsFiniteSet(Commands)
  /\ Home \in [Models -> Files] /\ Selections \subseteq Seq(Models)
  /\ \A layout \in Layouts, f \in Files :
       layout[f] \in Seq(Line) /\ \A m \in Models : Has(layout[f], m) <=> Home[m] = f
  /\ EmptyFile \in Contents /\ Nothing \notin Contents \cup Models
  /\ MaxAsks \in Nat /\ MaxFaults \in Nat

\* One for each name of a file, one for each temporary, one for each open file.
Inodes    == 1..(2 * Cardinality(Files) + Cardinality(Commands))
Numbering == CHOOSE n \in [Files -> 1..Cardinality(Files)] : IsInjective(n)

VARIABLES
  disk,       \* the text of each inode
  file,       \* the inode of each catalogue file
  tmp,        \* the inode of each temporary file, 0 when there is none
  local,      \* what each model's file holds, Nothing when it is absent
  pc, ask,    \* each command: its position, and what it was asked
  before,     \* the catalogue as it has loaded it
  todo,       \* the models whose fields it has yet to write
  edits, text, \* those it has yet to edit in the text of a file, and that text
  open,       \* the inode it writes
  answer,
  disturbed,  \* history: another command was writing one of its files
  clash,      \* history: two commands that write one file were at work at once
  asks, faults

command == <<pc, ask, before, todo, edits, text, open, answer, disturbed>>
vars    == <<disk, file, tmp, local, command, clash, asks, faults>>

(***************************************************************************)
(* What a text says: the value of each field of each model it has.         *)
(***************************************************************************)
Owner(t, i) ==
  LET above == {j \in 1..i : HeaderAt(t, j)}
  IN IF above = {} THEN Nothing ELSE t[CHOOSE j \in above : \A l \in above : l <= j].val

Says(t, m, k) ==
  LET at == {i \in DOMAIN t : t[i].key = k /\ Owner(t, i) = m}
  IN IF at = {} THEN Nothing ELSE t[CHOOSE i \in at : TRUE].val
Meaning(t)    == [m \in {x \in Models : Has(t, x)} |-> [k \in Fields |-> Says(t, m, k)]]

\* tomllib takes no table twice, and no key twice in a table.
Parses(t) == \A i, j \in DOMAIN t : i # j =>
  /\ HeaderAt(t, i) /\ HeaderAt(t, j) => t[i].val # t[j].val
  /\ ~HeaderAt(t, i) /\ t[i].key = t[j].key => Owner(t, i) # Owner(t, j)
\* ModelEntry asks for a size above 0; every file for its schema_version.
Valid(t)  == /\ Parses(t) /\ t # <<>> /\ t[1].key = "top"
             /\ \A m \in Models : Says(t, m, "size_bytes") # EmptyFile

Text(f) == disk[file[f]]
Loads   == \A f \in Files : Valid(Text(f))

Init ==
  \E layout \in Layouts :
    /\ file = Numbering
    /\ disk = [i \in Inodes |-> IF \E f \in Files : file[f] = i
                                THEN layout[CHOOSE f \in Files : file[f] = i] ELSE <<>>]
    /\ tmp = [f \in Files |-> 0]
    /\ local \in [Models -> Contents \cup {Nothing}]
    /\ pc = [c \in Commands |-> "idle"]
    /\ ask = [c \in Commands |-> Nothing]
    /\ before = [c \in Commands |-> Nothing]
    /\ todo = [c \in Commands |-> {}] /\ edits = [c \in Commands |-> {}]
    /\ text = [c \in Commands |-> <<>>] /\ open = [c \in Commands |-> 0]
    /\ answer = [c \in Commands |-> "none"]
    /\ disturbed = [c \in Commands |-> FALSE] /\ clash = FALSE
    /\ asks = 0 /\ faults = 0

(***************************************************************************)
(* Editing a text.                                                         *)
(***************************************************************************)
Plain(t, m) == \E i \in DOMAIN t : t[i] = [key |-> "header", val |-> m]

SectionStart(t, m) == CHOOSE i \in DOMAIN t : /\ t[i] = [key |-> "header", val |-> m]
                                              /\ \A j \in 1..(i - 1) : t[j] # t[i]

\* Mutant: a section goes on to the end of the file.
SectionEndAtLast(t, start) == Len(t) + 1

\* The first header below; a header with a comment after it is not taken for one.
SectionEnd(t, start) ==
  LET below == {i \in (start + 1)..Len(t) : t[i].key = "header"}
  IN IF below = {} THEN Len(t) + 1 ELSE CHOOSE i \in below : \A j \in below : i <= j

FieldLines(t, m, k) ==
  {i \in (SectionStart(t, m) + 1)..(SectionEnd(t, SectionStart(t, m)) - 1) : t[i].key = k}

\* One field: replaced on the first line that has its key, or put at the section's end.
SetField(t, m, k, v) ==
  LET at   == FieldLines(t, m, k)
      line == [key |-> k, val |-> v]
  IN IF at = {} THEN InsertAt(t, SectionEnd(t, SectionStart(t, m)), line)
     ELSE [t EXCEPT ![CHOOSE i \in at : \A j \in at : i <= j] = line]

\* update_model_catalog_lines, for the fields of one model in their order
Put(t, m, k, u)      == IF k \in DOMAIN u THEN SetField(t, m, k, u[k]) ELSE t
UpdateLines(t, m, u) ==
  Put(Put(Put(t, m, FieldOrder[1], u), m, FieldOrder[2], u), m, FieldOrder[3], u)

\* enrich_updates
Updates(c, m) ==
  LET current == before[c][m]
  IN [k \in {k \in Fields : /\ ask[c].overwrite \/ current[k] = Nothing
                            /\ current[k] # local[m]} |-> local[m]]

\* The models of a command of which something is to be written, ...
Changed(c) == {m \in Range(ask[c].models) : DOMAIN Updates(c, m) # {}}
\* ... taken file by file in the order of the models.
FirstOf(ms, S) == ms[CHOOSE i \in DOMAIN ms : ms[i] \in S /\ \A j \in 1..(i - 1) : ms[j] \notin S]
Target(c)      == Home[FirstOf(ask[c].models, todo[c])]

(***************************************************************************)
(* A command.                                                              *)
(***************************************************************************)
At(c, loc)       == pc[c] = loc
Goto(c, loc)     == pc' = [pc EXCEPT ![c] = loc]
Answer(c, what)  == pc' = [pc EXCEPT ![c] = "done"] /\ answer' = [answer EXCEPT ![c] = what]
FilesOf(ms)      == {Home[m] : m \in Range(ms)}
Clash(a, b)      == b.write /\ FilesOf(a.models) \cap FilesOf(b.models) # {}

\* The catalogue is loaded; enrich_model_by_id and enrich_workflow_models go on with it.
Ask(c) ==
  /\ At(c, "idle") /\ Loads /\ asks < MaxAsks /\ asks' = asks + 1
  /\ \E ms \in Selections, w, o \in BOOLEAN :
       LET a == [models |-> ms, write |-> w, overwrite |-> o]
           Busy == {d \in Commands \ {c} : pc[d] # "idle"}
       IN /\ ask' = [ask EXCEPT ![c] = a]
          /\ disturbed' = [d \in Commands |->
               CASE d = c      -> \E e \in Busy : Clash(a, ask[e])
                 [] d \in Busy -> disturbed[d] \/ Clash(ask[d], a)
                 [] OTHER      -> FALSE]
          /\ clash' = (clash \/ \E e \in Busy : a.write /\ Clash(a, ask[e]))
  /\ before' = [before EXCEPT ![c] = [m \in Models |-> Meaning(Text(Home[m]))[m]]]
  /\ Goto(c, "measure")
  /\ UNCHANGED <<disk, file, tmp, local, todo, edits, text, open, answer, faults>>

\* Every model is measured, and its file found, before anything is written.  The files are
\* read up to the one that has the model: another that is no TOML may or may not be met.
Measure(c) ==
  /\ At(c, "measure")
  /\ LET found == \A m \in Range(ask[c].models) :
                    local[m] # Nothing /\ Parses(Text(Home[m])) /\ Has(Text(Home[m]), m)
     IN \/ /\ ~found \/ \E f \in Files : ~Parses(Text(f))
           /\ Answer(c, "failed") /\ UNCHANGED todo
        \/ found /\ (~ask[c].write \/ Changed(c) = {}) /\ Answer(c, "ok") /\ UNCHANGED todo
        \/ /\ found /\ ask[c].write /\ Changed(c) # {}
           /\ Goto(c, "read") /\ todo' = [todo EXCEPT ![c] = Changed(c)] /\ UNCHANGED answer
  /\ UNCHANGED <<disk, file, tmp, local, ask, before, edits, text, open, disturbed, clash,
                 asks, faults>>

\* The next file, and the models that are to change in it, ...
Read(c) ==
  /\ At(c, "read") /\ Goto(c, "edit")
  /\ text' = [text EXCEPT ![c] = Text(Target(c))]
  /\ edits' = [edits EXCEPT ![c] = {m \in todo[c] : Home[m] = Target(c)}]
  /\ UNCHANGED <<disk, file, tmp, local, ask, before, todo, open, answer, disturbed, clash,
                 asks, faults>>

\* ... each of which must have a plain header, ...
Edit(c) ==
  /\ At(c, "edit") /\ edits[c] # {}
  /\ LET m == FirstOf(ask[c].models, edits[c])
     IN \/ /\ Plain(text[c], m) /\ edits' = [edits EXCEPT ![c] = @ \ {m}]
           /\ text' = [text EXCEPT ![c] = UpdateLines(@, m, Updates(c, m))]
           /\ UNCHANGED <<pc, answer>>
        \/ ~Plain(text[c], m) /\ Answer(c, "failed") /\ UNCHANGED <<edits, text>>
  /\ UNCHANGED <<disk, file, tmp, local, ask, before, todo, open, disturbed, clash, asks, faults>>

\* ... and whose new text must be TOML.
Render(c) ==
  /\ At(c, "edit") /\ edits[c] = {}
  /\ IF Parses(text[c]) THEN Goto(c, "open") /\ UNCHANGED answer ELSE Answer(c, "failed")
  /\ UNCHANGED <<disk, file, tmp, local, ask, before, todo, edits, text, open, disturbed, clash,
                 asks, faults>>

\* write_text opens the temporary, cutting one that is there down to nothing, ...
OpenTmp(c) ==
  /\ At(c, "open")
  /\ LET f     == Target(c)
         used  == Range(file) \cup Range(tmp) \cup Range(open)
         inode == IF tmp[f] # 0 THEN tmp[f] ELSE CHOOSE i \in Inodes : i \notin used
     IN /\ tmp' = [tmp EXCEPT ![f] = inode] /\ open' = [open EXCEPT ![c] = inode]
        /\ disk' = [disk EXCEPT ![inode] = <<>>]
  /\ Goto(c, "fill")
  /\ UNCHANGED <<file, local, ask, before, todo, edits, text, answer, disturbed, clash, asks, faults>>

\* ... and writes from its beginning over what the inode then has.
Fill(c) ==
  /\ At(c, "fill")
  /\ disk' = [disk EXCEPT ![open[c]] = text[c] \o SubSeq(@, Len(text[c]) + 1, Len(@))]
  /\ open' = [open EXCEPT ![c] = 0] /\ Goto(c, "replace")
  /\ UNCHANGED <<file, tmp, local, ask, before, todo, edits, text, answer, disturbed, clash,
                 asks, faults>>

\* os.replace; the temporary may have been renamed by another command.
Replace(c) ==
  /\ At(c, "replace")
  /\ LET f    == Target(c)
         rest == {m \in todo[c] : Home[m] # f}
     IN \/ tmp[f] = 0 /\ Answer(c, "failed") /\ UNCHANGED <<file, tmp, todo>>
        \/ /\ tmp[f] # 0 /\ file' = [file EXCEPT ![f] = tmp[f]] /\ tmp' = [tmp EXCEPT ![f] = 0]
           /\ todo' = [todo EXCEPT ![c] = rest]
           /\ Goto(c, IF rest # {} THEN "read" ELSE "check") /\ UNCHANGED answer
  /\ UNCHANGED <<disk, local, ask, before, edits, text, open, disturbed, clash, asks, faults>>

\* The catalogue is loaded once more.
Check(c) ==
  /\ At(c, "check") /\ Answer(c, IF Loads THEN "ok" ELSE "failed")
  /\ UNCHANGED <<disk, file, tmp, local, ask, before, todo, edits, text, open, disturbed, clash,
                 asks, faults>>

\* A command is killed, or a write fails, where it stands; its temporary stays.
Fault(c) ==
  /\ pc[c] \notin {"idle", "done"} /\ faults < MaxFaults /\ faults' = faults + 1
  /\ Answer(c, "cut") /\ open' = [open EXCEPT ![c] = 0]
  /\ UNCHANGED <<disk, file, tmp, local, ask, before, todo, edits, text, disturbed, clash, asks>>

Forget(c) ==
  /\ At(c, "done") /\ Goto(c, "idle")
  /\ ask' = [ask EXCEPT ![c] = Nothing] /\ before' = [before EXCEPT ![c] = Nothing]
  /\ todo' = [todo EXCEPT ![c] = {}] /\ edits' = [edits EXCEPT ![c] = {}]
  /\ text' = [text EXCEPT ![c] = <<>>] /\ answer' = [answer EXCEPT ![c] = "none"]
  /\ disturbed' = [disturbed EXCEPT ![c] = FALSE]
  /\ UNCHANGED <<disk, file, tmp, local, open, clash, asks, faults>>

Next == \E c \in Commands :
  \/ Ask(c) \/ Measure(c) \/ Read(c) \/ Edit(c) \/ Render(c) \/ OpenTmp(c) \/ Fill(c)
  \/ Replace(c) \/ Check(c) \/ Fault(c) \/ Forget(c)

Spec == Init /\ [][Next]_vars

(***************************************************************************)
(* Properties                                                              *)
(***************************************************************************)
Asked  == [models : Selections, write : BOOLEAN, overwrite : BOOLEAN]
Loaded == [Models -> [Fields -> Contents \cup {Nothing}]]
TypeOK ==
  /\ disk \in [Inodes -> Seq(Line)]
  /\ file \in [Files -> Inodes] /\ tmp \in [Files -> Inodes \cup {0}]
  /\ local \in [Models -> Contents \cup {Nothing}]
  /\ pc \in [Commands -> {"idle", "measure", "read", "edit", "open", "fill", "replace", "check",
                          "done"}]
  /\ ask \in [Commands -> Asked \cup {Nothing}] /\ before \in [Commands -> Loaded \cup {Nothing}]
  /\ \A c \in Commands : pc[c] # "idle" => ask[c] \in Asked /\ before[c] \in Loaded
  /\ todo \in [Commands -> SUBSET Models] /\ edits \in [Commands -> SUBSET Models]
  /\ text \in [Commands -> Seq(Line)] /\ open \in [Commands -> Inodes \cup {0}]
  /\ answer \in [Commands -> {"none", "ok", "failed", "cut"}]
  /\ disturbed \in [Commands -> BOOLEAN] /\ clash \in BOOLEAN
  /\ asks \in 0..MaxAsks /\ faults \in 0..MaxFaults

\* No header with a comment is below one without: where one is, enrich takes its section
\* for a part of the section above, and what it writes need not be what it announced.
NotedFirst(t) == \A i, j \in DOMAIN t : i < j /\ t[i].key = "header" => t[j].key # "noted"
CommentsFirst == \A layout \in Layouts, f \in Files : NotedFirst(layout[f])

\* What the command announced of a model: the fields that were missing, or all of them with
\* --overwrite, as measured; everything else as it was.
Announced(c, m) ==
  [k \in Fields |->
     IF /\ m \in Range(ask[c].models) /\ ask[c].write /\ local[m] # Nothing
        /\ k \in DOMAIN Updates(c, m)
     THEN local[m] ELSE before[c][m][k]]

\* Nothing stands in the way: every model file there and not empty, plain headers, and never
\* two commands that wrote one file at once.
Smooth(c) ==
  /\ ~clash /\ \A m \in Models : local[m] # EmptyFile
  /\ \A m \in Range(ask[c].models) : local[m] # Nothing /\ Plain(Text(Home[m]), m)

\* Whatever the order of the sections and fields, and whatever other commands do to other
\* files: after a command that answers success, its files say what it announced and nothing
\* else has changed in them, and they load; after one that fails or is cut short, each of
\* its files says all of that or none of it; and without a reason none fails.  (Two commands
\* that write the same file at once are not claimed to: apply_model_catalog_updates takes no
\* lock.)
FilesSayWhatWasAnnounced ==
  \A c \in Commands : At(c, "done") /\ ~disturbed[c] =>
    /\ \A f \in FilesOf(ask[c].models) :
         LET now  == Meaning(Text(f))
             here == {m \in Models : Home[m] = f}
             done == now = [m \in here |-> Announced(c, m)]
             none == now = [m \in here |-> before[c][m]]
         IN IF answer[c] = "ok" THEN done /\ Valid(Text(f)) ELSE (done \/ none) /\ Parses(Text(f))
    /\ Smooth(c) => answer[c] # "failed"

=============================================================================
