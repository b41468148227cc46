------------------------- MODULE CatalogEnrichProofs -------------------------
(***************************************************************************)
(* Proofs about catalog enrich: for any sets of commands, catalogue files, *)
(* models and workflows, any text of the files that the hypothesis         *)
(* CommentsFirst allows, and any number of commands and faults.            *)
(***************************************************************************)
EXTENDS CatalogEnrich, FiniteSetTheorems, FunctionTheorems, SequenceTheorems, TLAPS

HeadersOnce(t) == \A i, j \in DOMAIN t : i # j /\ HeaderAt(t, i) /\ HeaderAt(t, j) =>
                    t[i].val # t[j].val

\* The header at j is the one that line i is under.
Under(t, j, i) == j \in 1..i /\ HeaderAt(t, j) /\ \A l \in (j + 1)..i : ~HeaderAt(t, l)

\* A text that is TOML and begins with its schema_version.
Whole(t) == Parses(t) /\ t # <<>> /\ t[1].key = "top"

\* What every text of a file is like, whoever has written it over whatever was there.
Fine(f, t) == t # <<>> => /\ \A m \in Models : Has(t, m) <=> Home[m] = f
                          /\ HeadersOnce(t) => NotedFirst(t)

Writing == {"read", "edit", "open", "fill", "replace"}
Busy(c) == pc[c] # "idle"
Mine(c) == FilesOf(ask[c].models)

\* What a command has yet to write is of its models; its text is of the first file of these.
Progress(c) ==
  /\ pc[c] \in Writing \cup {"check"} => \A m \in Range(ask[c].models) : local[m] # Nothing
  /\ pc[c] \in Writing => /\ ask[c].write /\ todo[c] # {} /\ todo[c] \subseteq Range(ask[c].models)
  /\ pc[c] = "edit" => edits[c] \subseteq {m \in todo[c] : Home[m] = Target(c)}
  /\ pc[c] \in {"edit", "open", "fill"} => Fine(Target(c), text[c])
  /\ pc[c] = "edit" /\ text[c] = <<>> => edits[c] # {}
  /\ pc[c] \in {"open", "fill"} => text[c] # <<>> /\ Parses(text[c])
  /\ open[c] # 0 <=> pc[c] = "fill"

\* An inode is of one file: its text, its temporary, or one that is open under that name.
BelongsTo(i, f) == i = file[f] \/ i = tmp[f] \/ \E c \in Commands : open[c] = i /\ Target(c) = f
InodesApart ==
  /\ \A i \in Inodes, f, g \in Files : BelongsTo(i, f) /\ BelongsTo(i, g) => f = g
  /\ \A f \in Files : file[f] # tmp[f]
TextsFine == \A i \in Inodes, f \in Files : BelongsTo(i, f) => Fine(f, disk[i])

\* The histories have every pair of commands at work at once.
Recorded ==
  /\ \A c, d \in Commands : c # d /\ Busy(c) /\ Busy(d) /\ Clash(ask[c], ask[d]) => disturbed[c]
  /\ \A c \in Commands : Busy(c) /\ ask[c].write /\ disturbed[c] => clash

\* No model was of no bytes in the catalogue that a command has loaded.
LoadedValid == \A c \in Commands : Busy(c) => \A m \in Models : before[c][m]["size_bytes"] # EmptyFile

\* A command that nobody disturbs: its files say what they said before until it has written
\* them, and what it announced from then on; ...
Written(c, m) == ~\E x \in todo[c] : Home[x] = Home[m]
TextSays(t, c, m, new) ==
  \A k \in Fields : Says(t, m, k) = IF new THEN Announced(c, m)[k] ELSE before[c][m][k]
FilesSay(c) ==
  /\ \A f \in Mine(c) : Whole(Text(f))
  /\ pc[c] = "measure" => \A m \in Models : Home[m] \in Mine(c) => TextSays(Text(Home[m]), c, m, FALSE)
  /\ pc[c] \in Writing \cup {"check"} =>
       /\ \A m \in Models : Home[m] \in Mine(c) => TextSays(Text(Home[m]), c, m, Written(c, m))
       /\ \A m \in Models \ todo[c] : ~Written(c, m) => Announced(c, m) = before[c][m]
  /\ pc[c] = "check" => todo[c] = {}
\* ... and so does the text that it makes of one, and then its temporary.
TextIs(c) ==
  /\ pc[c] \in {"edit", "open", "fill", "replace"} =>
       /\ Whole(text[c])
       /\ \A m \in Models : /\ Home[m] = Target(c) => TextSays(text[c], c, m, pc[c] # "edit" \/ m \notin edits[c])
                            /\ Plain(text[c], m) <=> Plain(Text(Target(c)), m)
  /\ pc[c] = "fill" => open[c] = tmp[Target(c)] /\ disk[open[c]] = <<>>
  /\ pc[c] = "replace" => tmp[Target(c)] # 0 /\ disk[tmp[Target(c)]] = text[c]

\* One that is done has left of each of its files all that it announced, or what was there.
SaysDone(t, c, f) == Meaning(t) = [m \in {x \in Models : Home[x] = f} |-> Announced(c, m)]
SaysNone(t, c, f) == Meaning(t) = [m \in {x \in Models : Home[x] = f} |-> before[c][m]]
FileRight(c, f) ==
  IF answer[c] = "ok" THEN SaysDone(Text(f), c, f) /\ Valid(Text(f))
  ELSE (SaysDone(Text(f), c, f) \/ SaysNone(Text(f), c, f)) /\ Parses(Text(f))
DoneRight(c) ==
  pc[c] = "done" => (\A f \in Mine(c) : FileRight(c, f)) /\ (Smooth(c) => answer[c] # "failed")
Good(c)     == FilesSay(c) /\ TextIs(c) /\ DoneRight(c)
Undisturbed == \A c \in Commands : Busy(c) /\ ~disturbed[c] => Good(c)

\* While no file has been written by two at once, and no model file is empty, the catalogue
\* that has loaded once goes on to load.
GoesOnLoading ==
  /\ ~clash /\ \A m \in Models : local[m] # EmptyFile
  /\ \E c \in Commands : Busy(c)
  => \A f \in Files : Valid(Text(f))

Structure == TypeOK /\ (\A c \in Commands : Progress(c)) /\ InodesApart /\ TextsFine
Histories == Recorded /\ LoadedValid
Invariant == Structure /\ Histories /\ GoesOnLoading /\ Undisturbed

-----------------------------------------------------------------------------
(***************************************************************************)
(* The lines of a text.                                                    *)
(***************************************************************************)
\* A set of naturals has a least element; one bounded above, a greatest.
LEMMA Least ==
  ASSUME NEW S \in SUBSET Nat, S # {}
  PROVE  \E i \in S : \A j \in S : i <= j
<1>1. PICK i \in S : \A j \in S : ~(<<j, i>> \in OpToRel(<, Nat))
  <2> HIDE DEF OpToRel
  <2> QED BY WFMin, NatLessThanWellFounded
<1>2. \A j \in S : ~(j < i)
  BY <1>1 DEF OpToRel
<1> QED BY <1>2

LEMMA Greatest ==
  ASSUME NEW n \in Nat, NEW S \in SUBSET (0..n), S # {}
  PROVE  \E i \in S : \A j \in S : j <= i
<1> DEFINE R == {n - i : i \in S}
<1>0. \A i \in S : i \in Nat /\ i <= n
  OBVIOUS
<1>1. R \in SUBSET Nat /\ R # {}
  <2>1. \A r \in R : r \in Nat
    BY <1>0
  <2>2. \A i \in S : n - i \in R
    OBVIOUS
  <2> QED BY <2>1, <2>2
<1>2. PICK r \in R : \A q \in R : r <= q
  BY <1>1, Least
<1>3. PICK i \in S : r = n - i
  OBVIOUS
<1>4. \A j \in S : n - j \in R /\ j \in Nat
  OBVIOUS
<1>5. \A j \in S : j <= i
  BY <1>2, <1>3, <1>4
<1> QED BY <1>5

\* What a line is.
LEMMA LineProperties ==
  ASSUME NEW t \in Seq(Line), NEW i \in DOMAIN t
  PROVE  /\ t[i] \in Line /\ i \in 1..Len(t)
         /\ HeaderAt(t, i) => t[i].val \in Models
         /\ t[i].key \in Fields => t[i].val \in Contents /\ ~HeaderAt(t, i)
<1>1. t[i] \in Line /\ i \in 1..Len(t)
  BY ElementOfSeq, LenProperties
<1> QED BY <1>1 DEF Line, HeaderAt, Fields

\* A line is under the last header at or above it, or under none.
LEMMA OwnerIs ==
  ASSUME NEW t \in Seq(Line), NEW i \in DOMAIN t, NEW j, Under(t, j, i)
  PROVE  Owner(t, i) = t[j].val /\ Owner(t, i) \in Models
<1> DEFINE above == {l \in 1..i : HeaderAt(t, l)}
<1>1. i \in Nat /\ i <= Len(t) /\ DOMAIN t = 1..Len(t) /\ Len(t) \in Nat
  BY LineProperties, LenProperties
<1>2. j \in above /\ \A l \in above : l <= j
  BY <1>1 DEF Under
<1>3. \A g \in above : (\A l \in above : l <= g) => g = j
  BY <1>1, <1>2
<1>4. (CHOOSE g \in above : \A l \in above : l <= g) = j
  BY <1>2, <1>3
<1>5. Owner(t, i) = t[j].val
  BY <1>2, <1>4 DEF Owner
<1>6. j \in DOMAIN t /\ HeaderAt(t, j)
  BY <1>1 DEF Under
<1> QED BY <1>5, <1>6, LineProperties

LEMMA OwnerNone ==
  ASSUME NEW t \in Seq(Line), NEW i \in DOMAIN t, \A l \in 1..i : ~HeaderAt(t, l)
  PROVE  Owner(t, i) = Nothing
BY DEF Owner

LEMMA OwnerCases ==
  ASSUME NEW t \in Seq(Line), NEW i \in DOMAIN t
  PROVE  (\E j : Under(t, j, i)) \/ \A l \in 1..i : ~HeaderAt(t, l)
<1> DEFINE above == {l \in 1..i : HeaderAt(t, l)}
<1>1. i \in Nat /\ above \in SUBSET (0..i)
  BY LineProperties, LenProperties
<1>2. CASE above = {}
  BY <1>2
<1>3. CASE above # {}
  <2>1. PICK j \in above : \A l \in above : l <= j
    BY <1>1, <1>3, Greatest
  <2>2. Under(t, j, i)
    BY <1>1, <2>1 DEF Under
  <2> QED BY <2>2
<1> QED BY <1>2, <1>3

\* The line of a model's header.
LEMMA OwnerOfHeader ==
  ASSUME NEW t \in Seq(Line), NEW i \in DOMAIN t, HeaderAt(t, i)
  PROVE  Owner(t, i) = t[i].val
<1>1. i \in Nat /\ 1 <= i
  BY LineProperties, LenProperties
<1>2. Under(t, i, i)
  BY <1>1 DEF Under
<1> QED BY <1>2, OwnerIs

\* A text says nothing of a model it does not have.
LEMMA SaysOfAbsent ==
  ASSUME NEW t \in Seq(Line), NEW m \in Models, ~Has(t, m), NEW k
  PROVE  Says(t, m, k) = Nothing
<1>1. ASSUME NEW i \in DOMAIN t PROVE Owner(t, i) # m
  <2>1. CASE \A l \in 1..i : ~HeaderAt(t, l)
    BY <2>1, OwnerNone, CatalogEnrichAssumption
  <2>2. CASE \E j : Under(t, j, i)
    <3>1. PICK j : Under(t, j, i)
      BY <2>2
    <3>2. j \in DOMAIN t /\ HeaderAt(t, j)
      BY <3>1, LineProperties, LenProperties DEF Under
    <3> QED BY <3>1, <3>2, OwnerIs DEF Has
  <2> QED BY <2>1, <2>2, OwnerCases
<1> QED BY <1>1 DEF Says

\* What a text says is a value of a field, or nothing.
LEMMA SaysType ==
  ASSUME NEW t \in Seq(Line), NEW m, NEW k \in Fields
  PROVE  Says(t, m, k) \in Contents \cup {Nothing}
<1> DEFINE at == {i \in DOMAIN t : t[i].key = k /\ Owner(t, i) = m}
<1>1. CASE at = {}
  BY <1>1 DEF Says
<1>2. CASE at # {}
  <2>1. (CHOOSE i \in at : TRUE) \in at
    BY <1>2
  <2>2. t[CHOOSE i \in at : TRUE].val \in Contents
    BY <2>1, LineProperties
  <2>3. Says(t, m, k) = t[CHOOSE i \in at : TRUE].val
    BY <1>2 DEF Says
  <2> QED BY <2>2, <2>3
<1> QED BY <1>1, <1>2

\* In a text that is TOML a field has one line at most, and that is what it says.
LEMMA SaysIs ==
  ASSUME NEW t \in Seq(Line), Parses(t), NEW k \in Fields,
         NEW i \in DOMAIN t, t[i].key = k
  PROVE  Says(t, Owner(t, i), k) = t[i].val
<1> DEFINE at == {l \in DOMAIN t : t[l].key = k /\ Owner(t, l) = Owner(t, i)}
<1>1. i \in at /\ \A l \in at : l = i
  BY LineProperties DEF Parses
<1>2. (CHOOSE l \in at : TRUE) = i
  BY <1>1
<1> QED BY <1>1, <1>2 DEF Says

\* Where a field goes: the first plain header of its model, and where its section ends.
LEMMA SectionStartProperties ==
  ASSUME NEW t \in Seq(Line), NEW m, Plain(t, m)
  PROVE  SectionStart(t, m) \in DOMAIN t /\ t[SectionStart(t, m)] = [key |-> "header", val |-> m]
<1> DEFINE S == {i \in DOMAIN t : t[i] = [key |-> "header", val |-> m]}
<1>1. DOMAIN t = 1..Len(t) /\ Len(t) \in Nat
  BY LenProperties
<1>2. S \in SUBSET Nat /\ S # {}
  BY <1>1 DEF Plain
<1>3. PICK i \in S : \A j \in S : i <= j
  BY <1>2, Least
<1>4. \A j \in 1..(i - 1) : t[j] # t[i]
  BY <1>1, <1>3
<1>5. \E l \in DOMAIN t : /\ t[l] = [key |-> "header", val |-> m]
                          /\ \A j \in 1..(l - 1) : t[j] # t[l]
  BY <1>3, <1>4
<1> QED BY <1>5 DEF SectionStart

LEMMA SectionEndProperties ==
  ASSUME NEW t \in Seq(Line), NEW s \in DOMAIN t
  PROVE  /\ SectionEnd(t, s) \in (s + 1)..(Len(t) + 1)
         /\ SectionEnd(t, s) # Len(t) + 1 => t[SectionEnd(t, s)].key = "header"
         /\ \A i \in (s + 1)..(SectionEnd(t, s) - 1) : t[i].key # "header"
<1> DEFINE below == {i \in (s + 1)..Len(t) : t[i].key = "header"}
<1>1. s \in 1..Len(t) /\ Len(t) \in Nat
  BY LenProperties
<1>2. CASE below = {}
  <2>1. SectionEnd(t, s) = Len(t) + 1
    BY <1>2 DEF SectionEnd
  <2> QED BY <1>1, <1>2, <2>1
<1>3. CASE below # {}
  <2>1. below \in SUBSET Nat
    BY <1>1
  <2>2. \E i \in below : \A j \in below : i <= j
    BY <1>3, <2>1, Least
  <2>3. /\ SectionEnd(t, s) \in below
        /\ \A j \in below : SectionEnd(t, s) <= j
    BY <1>3, <2>2 DEF SectionEnd
  <2> QED BY <1>1, <2>3
<1> QED BY <1>2, <1>3

LEMMA InsertAtProperties ==
  ASSUME NEW S, NEW t \in Seq(S), NEW x \in S, NEW e \in 1..(Len(t) + 1)
  PROVE  /\ InsertAt(t, e, x) \in Seq(S)
         /\ DOMAIN InsertAt(t, e, x) = 1..(Len(t) + 1)
         /\ \A i \in 1..(Len(t) + 1) :
              InsertAt(t, e, x)[i] = IF i < e THEN t[i] ELSE IF i = e THEN x ELSE t[i - 1]
<1> DEFINE a == SubSeq(t, 1, e - 1)
           b == SubSeq(t, e, Len(t))
<1>1. Len(t) \in Nat /\ e \in Nat /\ 1 <= e /\ e <= Len(t) + 1
  BY LenProperties
<1>2. a \in Seq(S) /\ Len(a) = e - 1 /\ \A i \in 1..(e - 1) : a[i] = t[i]
  BY <1>1
<1>3. b \in Seq(S) /\ Len(b) = Len(t) + 1 - e /\ \A i \in 1..(Len(t) + 1 - e) : b[i] = t[e + i - 1]
  BY <1>1
<1>4. <<x>> \in Seq(S) /\ Len(<<x>>) = 1 /\ <<x>>[1] = x
  OBVIOUS
<1> HIDE DEF a, b
<1> DEFINE h == a \o <<x>>
<1>5. h \in Seq(S) /\ Len(h) = e /\ \A i \in 1..e : h[i] = IF i <= e - 1 THEN a[i] ELSE x
  BY <1>1, <1>2, <1>4
<1> HIDE DEF h
<1>6. /\ h \o b \in Seq(S) /\ Len(h \o b) = Len(t) + 1
      /\ \A i \in 1..(Len(t) + 1) : (h \o b)[i] = IF i <= e THEN h[i] ELSE b[i - e]
  <2>1. Len(h) + Len(b) = Len(t) + 1
    BY <1>1, <1>3, <1>5
  <2>2. /\ h \o b \in Seq(S) /\ Len(h \o b) = Len(h) + Len(b)
        /\ \A i \in 1..(Len(h) + Len(b)) : (h \o b)[i] = IF i <= Len(h) THEN h[i] ELSE b[i - Len(h)]
    BY <1>3, <1>5, ConcatProperties
  <2> QED BY <1>5, <2>1, <2>2
<1>7. InsertAt(t, e, x) = h \o b
  BY DEF InsertAt, h, a, b
<1>8. ASSUME NEW i \in 1..(Len(t) + 1)
      PROVE  InsertAt(t, e, x)[i] = IF i < e THEN t[i] ELSE IF i = e THEN x ELSE t[i - 1]
  <2>1. CASE i <= e
    BY <1>1, <1>2, <1>5, <1>6, <1>7, <2>1
  <2>2. CASE i > e
    <3>1. i - e \in 1..(Len(t) + 1 - e) /\ e + (i - e) - 1 = i - 1
      BY <1>1, <2>2
    <3>2. InsertAt(t, e, x)[i] = b[i - e]
      BY <1>1, <1>6, <1>7, <2>2
    <3> QED BY <1>1, <1>3, <2>2, <3>1, <3>2
  <2> QED BY <1>1, <2>1, <2>2
<1> QED BY <1>6, <1>7, <1>8, LenProperties

\* u has the headers of t, in their order, and its lines are where at has put them.
Embeds(t, u, at) ==
  /\ at \in [DOMAIN t -> DOMAIN u]
  /\ \A i, j \in DOMAIN t : i < j <=> at[i] < at[j]
  /\ \A i \in DOMAIN t : /\ HeaderAt(u, at[i]) <=> HeaderAt(t, i)
                         /\ HeaderAt(t, i) => u[at[i]] = t[i]
  /\ \A l \in DOMAIN u : HeaderAt(u, l) => \E i \in DOMAIN t : at[i] = l

LEMMA EmbeddedHeaders ==
  ASSUME NEW t \in Seq(Line), NEW u \in Seq(Line), NEW at, Embeds(t, u, at)
  PROVE  /\ \A m : (Has(u, m) <=> Has(t, m)) /\ (Plain(u, m) <=> Plain(t, m))
         /\ HeadersOnce(u) => HeadersOnce(t)
         /\ NotedFirst(t) => NotedFirst(u)
<1>1. /\ \A i \in DOMAIN t : at[i] \in DOMAIN u /\ i \in Nat /\ at[i] \in Nat
      /\ \A i, j \in DOMAIN t : i # j => at[i] # at[j]
  BY LenProperties DEF Embeds
<1>2. ASSUME NEW m PROVE Has(u, m) <=> Has(t, m)
  <2>1. ASSUME NEW i \in DOMAIN t, HeaderAt(t, i), t[i].val = m PROVE Has(u, m)
    BY <1>1, <2>1 DEF Has, Embeds
  <2>2. ASSUME NEW l \in DOMAIN u, HeaderAt(u, l), u[l].val = m PROVE Has(t, m)
    <3>1. PICK i \in DOMAIN t : at[i] = l
      BY <2>2 DEF Embeds
    <3>2. HeaderAt(t, i) /\ t[i] = u[l]
      BY <2>2, <3>1 DEF Embeds
    <3> QED BY <2>2, <3>2 DEF Has
  <2> QED BY <2>1, <2>2 DEF Has
<1>3. ASSUME NEW m PROVE Plain(u, m) <=> Plain(t, m)
  <2>1. ASSUME NEW i \in DOMAIN t, t[i] = [key |-> "header", val |-> m] PROVE Plain(u, m)
    BY <1>1, <2>1 DEF Plain, Embeds, HeaderAt
  <2>2. ASSUME NEW l \in DOMAIN u, u[l] = [key |-> "header", val |-> m] PROVE Plain(t, m)
    <3>1. HeaderAt(u, l)
      BY <2>2 DEF HeaderAt
    <3>2. PICK i \in DOMAIN t : at[i] = l
      BY <3>1 DEF Embeds
    <3>3. t[i] = u[l]
      BY <3>1, <3>2 DEF Embeds
    <3> QED BY <2>2, <3>3 DEF Plain
  <2> QED BY <2>1, <2>2 DEF Plain
<1>4. HeadersOnce(u) => HeadersOnce(t)
  BY <1>1 DEF HeadersOnce, Embeds
<1>5. NotedFirst(t) => NotedFirst(u)
  <2> SUFFICES ASSUME NotedFirst(t), NEW l \in DOMAIN u, NEW n \in DOMAIN u, l < n,
                      u[l].key = "header", u[n].key = "noted"
               PROVE  FALSE
    BY DEF NotedFirst
  <2>1. HeaderAt(u, l) /\ HeaderAt(u, n)
    BY DEF HeaderAt
  <2>2. PICK i \in DOMAIN t, j \in DOMAIN t : at[i] = l /\ at[j] = n
    BY <2>1 DEF Embeds
  <2>3. i < j /\ t[i] = u[l] /\ t[j] = u[n]
    BY <2>1, <2>2 DEF Embeds
  <2> QED BY <2>2, <2>3 DEF NotedFirst
<1> QED BY <1>2, <1>3, <1>4, <1>5

LEMMA EmbeddedOwners ==
  ASSUME NEW t \in Seq(Line), NEW u \in Seq(Line), NEW at, Embeds(t, u, at), NEW i \in DOMAIN t
  PROVE  Owner(u, at[i]) = Owner(t, i)
<1>1. /\ \A l \in DOMAIN t : at[l] \in DOMAIN u /\ l \in Nat /\ at[l] \in Nat
      /\ DOMAIN t = 1..Len(t) /\ Len(t) \in Nat /\ DOMAIN u = 1..Len(u) /\ Len(u) \in Nat
  BY LenProperties DEF Embeds
<1>2. CASE \E j : Under(t, j, i)
  <2>1. PICK j : Under(t, j, i)
    BY <1>2
  <2>2. j \in DOMAIN t /\ HeaderAt(t, j) /\ (j < i \/ j = i)
    BY <1>1, <2>1 DEF Under
  <2>3. at[j] \in 1..at[i] /\ HeaderAt(u, at[j])
    BY <1>1, <2>2 DEF Embeds
  <2>4. ASSUME NEW l \in (at[j] + 1)..at[i], HeaderAt(u, l) PROVE FALSE
    <3>1. l \in DOMAIN u
      BY <1>1, <2>2, <2>4
    <3>2. PICK h \in DOMAIN t : at[h] = l
      BY <2>4, <3>1 DEF Embeds
    <3>3. HeaderAt(t, h)
      BY <2>4, <3>2 DEF Embeds
    <3>4. j < h
      BY <1>1, <2>2, <2>4, <3>2 DEF Embeds
    <3>5. ~(i < h)
      BY <1>1, <2>2, <2>4, <3>2 DEF Embeds
    <3> QED BY <1>1, <2>1, <3>3, <3>4, <3>5 DEF Under
  <2>5. Under(u, at[j], at[i])
    BY <2>3, <2>4 DEF Under
  <2>6. u[at[j]] = t[j]
    BY <2>2 DEF Embeds
  <2> QED BY <1>1, <2>1, <2>5, <2>6, OwnerIs
<1>3. CASE \A l \in 1..i : ~HeaderAt(t, l)
  <2>1. ASSUME NEW l \in 1..at[i], HeaderAt(u, l) PROVE FALSE
    <3>1. l \in DOMAIN u
      BY <1>1, <2>1
    <3>2. PICK h \in DOMAIN t : at[h] = l
      BY <2>1, <3>1 DEF Embeds
    <3>3. HeaderAt(t, h) /\ ~(i < h)
      BY <1>1, <2>1, <3>2 DEF Embeds
    <3> QED BY <1>1, <1>3, <3>3
  <2> QED BY <1>1, <1>3, <2>1, OwnerNone
<1> QED BY <1>2, <1>3, OwnerCases

\* u is t but for the line at p, which is the field k of m with the value v.
Edited(t, u, at, p, m, k, v) ==
  /\ Embeds(t, u, at)
  /\ p \in DOMAIN u /\ u[p] = [key |-> k, val |-> v] /\ Owner(u, p) = m
  /\ \A i \in DOMAIN t : IF at[i] = p THEN t[i].key = k ELSE u[at[i]] = t[i]
  /\ \A l \in DOMAIN u : l # p => \E i \in DOMAIN t : at[i] = l
  /\ \A i \in DOMAIN t : t[i].key = k /\ Owner(t, i) = m => at[i] = p

LEMMA EditedParses ==
  ASSUME NEW t \in Seq(Line), NEW u \in Seq(Line), NEW at, NEW p, NEW m,
         NEW k \in Fields, NEW v, Edited(t, u, at, p, m, k, v), Parses(t)
  PROVE  Parses(u)
<1> SUFFICES ASSUME NEW l \in DOMAIN u, NEW n \in DOMAIN u, l # n
             PROVE  /\ HeaderAt(u, l) /\ HeaderAt(u, n) => u[l].val # u[n].val
                    /\ ~HeaderAt(u, l) /\ u[l].key = u[n].key => Owner(u, l) # Owner(u, n)
  BY DEF Parses
<1>1. Embeds(t, u, at)
  BY DEF Edited
<1>2. \A i \in DOMAIN t : Owner(u, at[i]) = Owner(t, i)
  BY <1>1, EmbeddedOwners
<1>3. ~HeaderAt(u, p)
  BY LineProperties DEF Edited
<1>4. HeaderAt(u, l) /\ HeaderAt(u, n) => u[l].val # u[n].val
  <2> SUFFICES ASSUME HeaderAt(u, l), HeaderAt(u, n) PROVE u[l].val # u[n].val
    OBVIOUS
  <2>1. PICK i \in DOMAIN t, j \in DOMAIN t : at[i] = l /\ at[j] = n
    BY <1>1 DEF Embeds
  <2>2. HeaderAt(t, i) /\ HeaderAt(t, j) /\ t[i] = u[l] /\ t[j] = u[n] /\ i # j
    BY <1>1, <2>1 DEF Embeds
  <2> QED BY <2>2 DEF Parses
<1>5. \* The edited line is the only one of its field.
      ASSUME NEW q \in DOMAIN u, q # p, u[q].key = k PROVE Owner(u, q) # m
  <2>1. PICK i \in DOMAIN t : at[i] = q
    BY <1>5 DEF Edited
  <2>2. t[i].key = k
    BY <1>5, <2>1 DEF Edited
  <2> QED BY <1>2, <1>5, <2>1, <2>2 DEF Edited
<1>6. ~HeaderAt(u, l) /\ u[l].key = u[n].key => Owner(u, l) # Owner(u, n)
  <2> SUFFICES ASSUME ~HeaderAt(u, l), u[l].key = u[n].key PROVE Owner(u, l) # Owner(u, n)
    OBVIOUS
  <2>1. u[p].key = k /\ Owner(u, p) = m /\ p \in DOMAIN u
    BY DEF Edited
  <2>2. CASE l = p
    BY <1>5, <2>1, <2>2
  <2>3. CASE n = p
    BY <1>5, <2>1, <2>3
  <2>4. CASE l # p /\ n # p
    <3>1. PICK i \in DOMAIN t, j \in DOMAIN t : at[i] = l /\ at[j] = n
      BY <2>4 DEF Edited
    <3>2. t[i] = u[l] /\ t[j] = u[n] /\ i # j
      BY <2>4, <3>1 DEF Edited
    <3>3. ~HeaderAt(t, i)
      BY <1>1, <3>1 DEF Embeds
    <3>4. Owner(t, i) # Owner(t, j)
      BY <3>2, <3>3 DEF Parses
    <3> QED BY <1>2, <3>1, <3>4
  <2> QED BY <2>2, <2>3, <2>4
<1> QED BY <1>4, <1>6

LEMMA EditedSays ==
  ASSUME NEW t \in Seq(Line), NEW u \in Seq(Line), NEW at, NEW p, NEW m,
         NEW k \in Fields, NEW v, Edited(t, u, at, p, m, k, v), Parses(t)
  PROVE  /\ Says(u, m, k) = v
         /\ \A x, j : j \in Fields /\ (x # m \/ j # k) => Says(u, x, j) = Says(t, x, j)
<1>0. Parses(u)
  BY EditedParses
<1>1. Parses(u) /\ Embeds(t, u, at)
  BY <1>0 DEF Edited
<1>2. \A i \in DOMAIN t : Owner(u, at[i]) = Owner(t, i) /\ at[i] \in DOMAIN u
  <2>1. \A i \in DOMAIN t : at[i] \in DOMAIN u
    BY <1>1 DEF Embeds
  <2> QED BY <1>1, <2>1, EmbeddedOwners
<1>3. p \in DOMAIN u /\ u[p].key = k /\ u[p].val = v /\ Owner(u, p) = m
  BY DEF Edited
<1>4. Says(u, m, k) = v
  BY <1>1, <1>3, SaysIs
<1>5. ASSUME NEW x, NEW j \in Fields, x # m \/ j # k
      PROVE  Says(u, x, j) = Says(t, x, j)
  <2>1. CASE \E i \in DOMAIN t : t[i].key = j /\ Owner(t, i) = x
    <3>1. PICK i \in DOMAIN t : t[i].key = j /\ Owner(t, i) = x
      BY <2>1
    <3>2. at[i] # p
      BY <1>2, <1>3, <1>5, <3>1 DEF Edited
    <3>3. u[at[i]] = t[i]
      BY <3>2 DEF Edited
    <3>4. Says(t, x, j) = t[i].val
      BY <3>1, SaysIs
    <3>5. Says(u, x, j) = u[at[i]].val
      BY <1>1, <1>2, <3>1, <3>3, SaysIs
    <3> QED BY <3>3, <3>4, <3>5
  <2>2. CASE \A i \in DOMAIN t : ~(t[i].key = j /\ Owner(t, i) = x)
    <3>1. Says(t, x, j) = Nothing
      BY <2>2 DEF Says
    <3>2. ASSUME NEW l \in DOMAIN u, u[l].key = j, Owner(u, l) = x PROVE FALSE
      <4>1. l # p
        BY <1>3, <1>5, <3>2
      <4>2. PICK i \in DOMAIN t : at[i] = l
        BY <4>1 DEF Edited
      <4>3. u[l] = t[i]
        BY <4>1, <4>2 DEF Edited
      <4> QED BY <1>2, <2>2, <3>2, <4>2, <4>3
    <3>3. Says(u, x, j) = Nothing
      BY <3>2 DEF Says
    <3> QED BY <3>1, <3>3
  <2> QED BY <2>1, <2>2
<1> QED BY <1>4, <1>5

\* u is t with one line replaced, or put in, below the header of m.
Splice(t, u, at, p, m, k, v) ==
  /\ Embeds(t, u, at)
  /\ p \in DOMAIN u /\ u[p] = [key |-> k, val |-> v]
  /\ \A i \in DOMAIN t : at[i] # p => u[at[i]] = t[i]
  /\ \A l \in DOMAIN u : l # p => \E i \in DOMAIN t : at[i] = l
  /\ IF FieldLines(t, m, k) = {}
     THEN p = SectionEnd(t, SectionStart(t, m)) /\ \A i \in DOMAIN t : at[i] = IF i < p THEN i ELSE i + 1
     ELSE p \in FieldLines(t, m, k) /\ \A i \in DOMAIN t : at[i] = i

\* Whatever the text, an edit leaves its headers as they are: it replaces the line of a
\* field, or puts one above a header or at the end.
LEMMA SetFieldSplices ==
  ASSUME NEW t \in Seq(Line), NEW m, Plain(t, m), NEW k \in Fields, NEW v \in Contents
  PROVE  /\ SetField(t, m, k, v) \in Seq(Line) /\ SetField(t, m, k, v) # <<>>
         /\ SetField(t, m, k, v)[1] = t[1]
         /\ \E at, p : Splice(t, SetField(t, m, k, v), at, p, m, k, v)
<1> DEFINE u == SetField(t, m, k, v)
           s == SectionStart(t, m)
           e == SectionEnd(t, s)
           line == [key |-> k, val |-> v]
           lines == FieldLines(t, m, k)
<1>1. /\ DOMAIN t = 1..Len(t) /\ Len(t) \in Nat /\ s \in DOMAIN t
      /\ t[s] = [key |-> "header", val |-> m]
      /\ e \in (s + 1)..(Len(t) + 1)
  BY LenProperties, SectionStartProperties, SectionEndProperties
<1>2. line \in Line /\ line.key = k /\ k \notin {"header", "noted"}
  BY DEF Line, Fields
<1>3. lines = {i \in (s + 1)..(e - 1) : t[i].key = k}
  BY DEF FieldLines
<1> HIDE DEF s, e, line, lines
<1>4. CASE lines = {}
  <2> DEFINE at == [i \in DOMAIN t |-> IF i < e THEN i ELSE i + 1]
  <2>1. u = InsertAt(t, e, line)
    BY <1>4 DEF SetField, s, e, line, lines
  <2>2. e \in 1..(Len(t) + 1) /\ e \in Nat /\ s \in Nat /\ 1 <= s /\ s < e
    BY <1>1
  <2> HIDE DEF u
  <2>3. /\ u \in Seq(Line) /\ DOMAIN u = 1..(Len(t) + 1)
        /\ \A i \in 1..(Len(t) + 1) : u[i] = IF i < e THEN t[i] ELSE IF i = e THEN line ELSE t[i - 1]
    <3>1. /\ InsertAt(t, e, line) \in Seq(Line)
          /\ DOMAIN InsertAt(t, e, line) = 1..(Len(t) + 1)
          /\ \A i \in 1..(Len(t) + 1) : InsertAt(t, e, line)[i] =
               IF i < e THEN t[i] ELSE IF i = e THEN line ELSE t[i - 1]
      BY <1>2, <2>2, InsertAtProperties
    <3> QED BY <2>1, <3>1
  <2>4. ASSUME NEW i \in DOMAIN t PROVE at[i] \in DOMAIN u /\ u[at[i]] = t[i] /\ at[i] # e
    BY <1>1, <2>2, <2>3
  <2>5. ASSUME NEW l \in DOMAIN u, l # e PROVE \E i \in DOMAIN t : at[i] = l
    <3>1. CASE l < e
      <4>1. l \in DOMAIN t /\ at[l] = l
        BY <1>1, <2>2, <2>3, <3>1
      <4> QED BY <4>1
    <3>2. CASE l > e
      <4>1. l - 1 \in DOMAIN t /\ at[l - 1] = l
        BY <1>1, <2>2, <2>3, <3>2
      <4> QED BY <4>1
    <3> QED BY <2>2, <2>3, <2>5, <3>1, <3>2
  <2>6. \A i, j \in DOMAIN t : i < j <=> at[i] < at[j]
    BY <1>1, <2>2
  <2>7. u[e] = line /\ e \in DOMAIN u /\ ~HeaderAt(u, e)
    BY <1>2, <2>2, <2>3 DEF HeaderAt
  <2>8. Embeds(t, u, at)
    <3>1. at \in [DOMAIN t -> DOMAIN u]
      BY <2>4
    <3>2. \A i \in DOMAIN t : /\ HeaderAt(u, at[i]) <=> HeaderAt(t, i)
                              /\ HeaderAt(t, i) => u[at[i]] = t[i]
      BY <2>4 DEF HeaderAt
    <3>3. \A l \in DOMAIN u : HeaderAt(u, l) => \E i \in DOMAIN t : at[i] = l
      BY <2>5, <2>7
    <3> QED BY <2>6, <3>1, <3>2, <3>3 DEF Embeds
  <2>9. u # <<>> /\ u[1] = t[1]
    BY <1>1, <2>2, <2>3
  <2>10. \A i \in DOMAIN t : at[i] = IF i < e THEN i ELSE i + 1
    OBVIOUS
  <2> HIDE DEF at
  <2>11. Splice(t, u, at, e, m, k, v)
    BY <1>4, <2>4, <2>5, <2>7, <2>8, <2>10 DEF Splice, s, e, line, lines
  <2> QED BY <2>3, <2>9, <2>11 DEF u
<1>5. CASE lines # {}
  <2> DEFINE p == CHOOSE i \in lines : \A j \in lines : i <= j
             at == [i \in DOMAIN t |-> i]
  <2>1. lines \in SUBSET Nat
    BY <1>1, <1>3
  <2>2. \E i \in lines : \A j \in lines : i <= j
    BY <1>5, <2>1, Least
  <2>3. p \in lines
    BY <2>2
  <2>4. u = [t EXCEPT ![p] = line]
    BY <1>5 DEF SetField, s, e, line, lines
  <2> HIDE DEF p, u
  <2>5. p \in DOMAIN t /\ s < p /\ t[p].key = k
    BY <1>1, <1>3, <2>3
  <2>6. u \in Seq(Line) /\ DOMAIN u = DOMAIN t /\ u[p] = line /\ \A i \in DOMAIN t : i # p => u[i] = t[i]
    BY <1>2, <2>4, <2>5, ExceptSeq
  <2>7. ~HeaderAt(u, p) /\ ~HeaderAt(t, p)
    BY <1>2, <2>5, <2>6 DEF HeaderAt
  <2>8. Embeds(t, u, at)
    <3>1. at \in [DOMAIN t -> DOMAIN u]
      BY <2>6
    <3>2. \A i \in DOMAIN t : /\ HeaderAt(u, at[i]) <=> HeaderAt(t, i)
                              /\ HeaderAt(t, i) => u[at[i]] = t[i]
      BY <2>6, <2>7 DEF HeaderAt
    <3>3. \A l \in DOMAIN u : HeaderAt(u, l) => \E i \in DOMAIN t : at[i] = l
      BY <2>6
    <3>4. \A i, j \in DOMAIN t : i < j <=> at[i] < at[j]
      OBVIOUS
    <3> QED BY <3>1, <3>2, <3>3, <3>4 DEF Embeds
  <2>9. u # <<>> /\ u[1] = t[1]
    BY <1>1, <2>5, <2>6, EmptySeq
  <2>10. \A i \in DOMAIN t : at[i] = i
    OBVIOUS
  <2> HIDE DEF at
  <2>11. Splice(t, u, at, p, m, k, v)
    BY <1>5, <2>3, <2>5, <2>6, <2>8, <2>10 DEF Splice, s, e, line, lines
  <2> QED BY <2>6, <2>9, <2>11 DEF u
<1> QED BY <1>4, <1>5

LEMMA SectionBounds ==
  ASSUME NEW t \in Seq(Line), NEW m, Plain(t, m)
  PROVE  LET s == SectionStart(t, m)
             e == SectionEnd(t, s)
         IN /\ DOMAIN t = 1..Len(t) /\ Len(t) \in Nat /\ s \in DOMAIN t
            /\ t[s].key = "header" /\ t[s].val = m
            /\ e \in (s + 1)..(Len(t) + 1)
            /\ e # Len(t) + 1 => t[e].key = "header"
            /\ \A l \in (s + 1)..(e - 1) : t[l].key # "header"
<1> DEFINE s == SectionStart(t, m)
<1>1. DOMAIN t = 1..Len(t) /\ Len(t) \in Nat
  BY LenProperties
<1>2. s \in DOMAIN t /\ t[s] = [key |-> "header", val |-> m]
  BY SectionStartProperties
<1> HIDE DEF s
<1>3. /\ SectionEnd(t, s) \in (s + 1)..(Len(t) + 1)
      /\ SectionEnd(t, s) # Len(t) + 1 => t[SectionEnd(t, s)].key = "header"
      /\ \A l \in (s + 1)..(SectionEnd(t, s) - 1) : t[l].key # "header"
  BY <1>2, SectionEndProperties
<1> QED BY <1>1, <1>2, <1>3 DEF s

\* The section that enrich finds is the model's table, when no header below it has a comment.
LEMMA SectionOwners ==
  ASSUME NEW t \in Seq(Line), NEW m \in Models, Plain(t, m), HeadersOnce(t), NotedFirst(t),
         NEW i \in DOMAIN t
  PROVE  LET s == SectionStart(t, m)
             e == SectionEnd(t, s)
         IN /\ Owner(t, i) = m <=> i \in s..(e - 1)
            /\ i \in (s + 1)..(e - 1) => ~HeaderAt(t, i)
<1> DEFINE s == SectionStart(t, m)
           e == SectionEnd(t, s)
<1>1. /\ DOMAIN t = 1..Len(t) /\ Len(t) \in Nat /\ s \in DOMAIN t
      /\ t[s].key = "header" /\ t[s].val = m
      /\ e \in (s + 1)..(Len(t) + 1)
      /\ e # Len(t) + 1 => t[e].key = "header"
      /\ \A l \in (s + 1)..(e - 1) : t[l].key # "header"
  BY SectionBounds
<1> HIDE DEF s, e
<1>2. \A l \in (s + 1)..(e - 1) : ~HeaderAt(t, l)
  <2> SUFFICES ASSUME NEW l \in (s + 1)..(e - 1) PROVE ~HeaderAt(t, l)
    OBVIOUS
  <2>1. l \in DOMAIN t /\ s < l
    BY <1>1
  <2> QED BY <1>1, <2>1 DEF NotedFirst, HeaderAt
<1>3. ASSUME i \in s..(e - 1) PROVE Owner(t, i) = m
  <2>1. Under(t, s, i)
    BY <1>1, <1>2, <1>3 DEF Under, HeaderAt
  <2> QED BY <1>1, <2>1, OwnerIs
<1>4. ASSUME Owner(t, i) = m PROVE i \in s..(e - 1)
  <2>1. ~\A l \in 1..i : ~HeaderAt(t, l)
    BY <1>4, OwnerNone, CatalogEnrichAssumption
  <2>2. PICK j : Under(t, j, i)
    BY <2>1, OwnerCases
  <2>3. j \in DOMAIN t /\ HeaderAt(t, j) /\ t[j].val = m /\ j <= i
    BY <1>1, <1>4, <2>2, OwnerIs DEF Under
  <2>4. j = s
    BY <1>1, <2>3 DEF HeadersOnce, HeaderAt
  <2>5. ~(e <= i)
    BY <1>1, <2>2, <2>4 DEF Under, HeaderAt
  <2> QED BY <1>1, <2>3, <2>4, <2>5
<1> QED BY <1>2, <1>3, <1>4 DEF s, e

LEMMA ParsesHeadersOnce ==
  ASSUME NEW t, Parses(t)
  PROVE  HeadersOnce(t)
BY DEF Parses, HeadersOnce

LEMMA SetFieldEdits ==
  ASSUME NEW t \in Seq(Line), NEW m \in Models, Plain(t, m), Parses(t), NotedFirst(t),
         NEW k \in Fields, NEW v \in Contents
  PROVE  \E at, p : Edited(t, SetField(t, m, k, v), at, p, m, k, v)
<1> DEFINE u == SetField(t, m, k, v)
           s == SectionStart(t, m)
           e == SectionEnd(t, s)
<1>1. u \in Seq(Line) /\ \E at, p : Splice(t, u, at, p, m, k, v)
  BY SetFieldSplices
<1>2. PICK at, p : Splice(t, u, at, p, m, k, v)
  BY <1>1
<1>3. /\ DOMAIN t = 1..Len(t) /\ Len(t) \in Nat /\ s \in DOMAIN t
      /\ t[s].key = "header" /\ t[s].val = m /\ e \in (s + 1)..(Len(t) + 1)
  BY SectionBounds
<1>4. \A i \in DOMAIN t : /\ Owner(t, i) = m <=> i \in s..(e - 1)
                          /\ i \in (s + 1)..(e - 1) => ~HeaderAt(t, i)
  BY ParsesHeadersOnce, SectionOwners
<1>5. FieldLines(t, m, k) = {i \in (s + 1)..(e - 1) : t[i].key = k}
  BY DEF FieldLines
<1>6. k # "header" /\ k # "noted"
  BY DEF Fields
<1> HIDE DEF u, s, e
<1>7. \A i \in DOMAIN t : t[i].key = k /\ Owner(t, i) = m => i \in FieldLines(t, m, k)
  BY <1>3, <1>4, <1>5, <1>6
<1>8. Embeds(t, u, at) /\ p \in DOMAIN u /\ u[p] = [key |-> k, val |-> v] /\ ~HeaderAt(u, p)
  BY <1>2, <1>6 DEF Splice, HeaderAt
<1>9. CASE FieldLines(t, m, k) = {}
  <2>1. p = e /\ \A i \in DOMAIN t : at[i] = IF i < p THEN i ELSE i + 1
    BY <1>2, <1>9 DEF Splice, s, e
  <2>2. \A i \in DOMAIN t : at[i] # p
    BY <1>3, <2>1
  <2>3. at[s] = s /\ HeaderAt(t, s)
    BY <1>3, <2>1 DEF HeaderAt
  <2>4. s \in DOMAIN u /\ HeaderAt(u, s) /\ u[s] = t[s]
    BY <1>3, <1>8, <2>3 DEF Embeds
  <2>5. ASSUME NEW l \in (s + 1)..e, HeaderAt(u, l) PROVE FALSE
    <3>1. l # e
      BY <1>8, <2>1, <2>5
    <3>2. DOMAIN u = 1..Len(u) /\ Len(u) \in Nat
      BY <1>1, LenProperties DEF u
    <3>3. l \in DOMAIN u
      BY <1>3, <1>8, <2>1, <3>2
    <3>4. PICK h \in DOMAIN t : at[h] = l
      BY <1>8, <2>5, <3>3 DEF Embeds
    <3>5. HeaderAt(t, h)
      BY <1>8, <2>5, <3>4 DEF Embeds
    <3>6. h \in (s + 1)..(e - 1)
      BY <1>3, <2>1, <3>1, <3>4
    <3> QED BY <1>4, <3>5, <3>6
  <2>6. Under(u, s, p)
    BY <1>3, <2>1, <2>4, <2>5 DEF Under
  <2>7. u \in Seq(Line)
    BY <1>1 DEF u
  <2>8. Owner(u, p) = m
    BY <1>3, <1>8, <2>4, <2>6, <2>7, OwnerIs
  <2> QED BY <1>2, <1>7, <1>8, <1>9, <2>2, <2>8 DEF Edited, Splice, u
<1>10. CASE FieldLines(t, m, k) # {}
  <2>1. p \in FieldLines(t, m, k) /\ \A i \in DOMAIN t : at[i] = i
    BY <1>2, <1>10 DEF Splice
  <2>2. p \in DOMAIN t /\ at[p] = p /\ t[p].key = k /\ Owner(t, p) = m /\ ~HeaderAt(t, p)
    BY <1>3, <1>4, <1>5, <2>1
  <2>3. u \in Seq(Line)
    BY <1>1 DEF u
  <2>4. Owner(u, p) = m
    BY <1>8, <2>2, <2>3, EmbeddedOwners
  <2>5. \A i \in DOMAIN t : t[i].key = k /\ Owner(t, i) = m => i = p
    BY <2>2 DEF Parses
  <2> QED BY <1>2, <1>8, <2>1, <2>2, <2>4, <2>5 DEF Edited, Splice, u
<1> QED BY <1>9, <1>10

\* An edit of any text keeps its headers; ...
LEMMA SetFieldHeaders ==
  ASSUME NEW t \in Seq(Line), NEW m, Plain(t, m), NEW k \in Fields, NEW v \in Contents
  PROVE  LET u == SetField(t, m, k, v)
         IN /\ u \in Seq(Line) /\ u # <<>> /\ u[1] = t[1]
            /\ \A x : (Has(u, x) <=> Has(t, x)) /\ (Plain(u, x) <=> Plain(t, x))
            /\ HeadersOnce(u) => HeadersOnce(t)
            /\ NotedFirst(t) => NotedFirst(u)
<1> DEFINE u == SetField(t, m, k, v)
<1>1. u \in Seq(Line) /\ u # <<>> /\ u[1] = t[1] /\ \E at, p : Splice(t, u, at, p, m, k, v)
  BY SetFieldSplices
<1> HIDE DEF u
<1>2. PICK at : Embeds(t, u, at)
  BY <1>1 DEF Splice
<1> QED BY <1>1, <1>2, EmbeddedHeaders DEF u

\* ... and one of a whole text in which no commented header is below a plain one changes the
\* one field that it is about.
LEMMA SetFieldSays ==
  ASSUME NEW t \in Seq(Line), NEW m \in Models, Plain(t, m), Whole(t), NotedFirst(t),
         NEW k \in Fields, NEW v \in Contents
  PROVE  LET u == SetField(t, m, k, v)
         IN /\ Whole(u) /\ NotedFirst(u) /\ Plain(u, m)
            /\ Says(u, m, k) = v
            /\ \A x, j : j \in Fields /\ (x # m \/ j # k) => Says(u, x, j) = Says(t, x, j)
<1> DEFINE u == SetField(t, m, k, v)
<1>1. /\ u \in Seq(Line) /\ u # <<>> /\ u[1] = t[1] /\ Plain(u, m) /\ NotedFirst(u)
  BY SetFieldHeaders
<1>2. Parses(t)
  BY DEF Whole
<1>3. PICK at, p : Edited(t, u, at, p, m, k, v)
  BY <1>2, SetFieldEdits
<1> HIDE DEF u
<1>4. Parses(u)
  BY <1>1, <1>2, <1>3, EditedParses
<1>5. Whole(u)
  BY <1>1, <1>4 DEF Whole
<1> QED BY <1>1, <1>2, <1>3, <1>5, EditedSays DEF u

LEMMA PutHeaders ==
  ASSUME NEW t \in Seq(Line), NEW m, Plain(t, m), NEW k \in Fields,
         NEW D \in SUBSET Fields, NEW w \in [D -> Contents]
  PROVE  LET u == Put(t, m, k, w)
         IN /\ u \in Seq(Line) /\ u # <<>> /\ u[1] = t[1]
            /\ \A x : (Has(u, x) <=> Has(t, x)) /\ (Plain(u, x) <=> Plain(t, x))
            /\ HeadersOnce(u) => HeadersOnce(t)
            /\ NotedFirst(t) => NotedFirst(u)
<1>1. CASE k \in DOMAIN w
  <2>1. w[k] \in Contents /\ Put(t, m, k, w) = SetField(t, m, k, w[k])
    BY <1>1 DEF Put
  <2> QED BY <2>1, SetFieldHeaders
<1>2. CASE k \notin DOMAIN w
  <2>1. t # <<>>
    BY EmptySeq DEF Plain
  <2> QED BY <1>2, <2>1 DEF Put
<1> QED BY <1>1, <1>2

LEMMA PutSays ==
  ASSUME NEW t \in Seq(Line), NEW m \in Models, Plain(t, m), Whole(t), NotedFirst(t),
         NEW k \in Fields, NEW D \in SUBSET Fields, NEW w \in [D -> Contents]
  PROVE  LET u == Put(t, m, k, w)
         IN /\ Whole(u) /\ NotedFirst(u) /\ Plain(u, m)
            /\ Says(u, m, k) = IF k \in D THEN w[k] ELSE Says(t, m, k)
            /\ \A x, j : j \in Fields /\ (x # m \/ j # k) => Says(u, x, j) = Says(t, x, j)
<1>1. CASE k \in DOMAIN w
  <2>1. w[k] \in Contents /\ Put(t, m, k, w) = SetField(t, m, k, w[k])
    BY <1>1 DEF Put
  <2> QED BY <1>1, <2>1, SetFieldSays
<1>2. CASE k \notin DOMAIN w
  BY <1>2 DEF Put
<1> QED BY <1>1, <1>2

\* What update_model_catalog_lines does to any text: its headers stay.
LEMMA UpdateLinesHeaders ==
  ASSUME NEW t \in Seq(Line), NEW m, Plain(t, m),
         NEW w, DOMAIN w \in SUBSET Fields, w \in [DOMAIN w -> Contents]
  PROVE  LET u == UpdateLines(t, m, w)
         IN /\ u \in Seq(Line) /\ u # <<>> /\ u[1] = t[1]
            /\ \A x : (Has(u, x) <=> Has(t, x)) /\ (Plain(u, x) <=> Plain(t, x))
            /\ HeadersOnce(u) => HeadersOnce(t)
            /\ NotedFirst(t) => NotedFirst(u)
<1> DEFINE p == Put(t, m, "size_hint", w)
           q == Put(p, m, "size_bytes", w)
           u == Put(q, m, "sha256", w)
<1>1. {"size_hint", "size_bytes", "sha256"} \subseteq Fields /\ UpdateLines(t, m, w) = u
  BY DEF Fields, UpdateLines, FieldOrder
<1>p. /\ p \in Seq(Line) /\ p # <<>> /\ p[1] = t[1]
      /\ \A x : (Has(p, x) <=> Has(t, x)) /\ (Plain(p, x) <=> Plain(t, x))
      /\ HeadersOnce(p) => HeadersOnce(t)
      /\ NotedFirst(t) => NotedFirst(p)
  BY <1>1, PutHeaders
<1> HIDE DEF p
<1>2. /\ q \in Seq(Line) /\ q # <<>> /\ q[1] = p[1]
      /\ \A x : (Has(q, x) <=> Has(p, x)) /\ (Plain(q, x) <=> Plain(p, x))
      /\ HeadersOnce(q) => HeadersOnce(p)
      /\ NotedFirst(p) => NotedFirst(q)
  <2>1. p \in Seq(Line) /\ Plain(p, m) /\ "size_bytes" \in Fields
    BY <1>1, <1>p
  <2> QED BY <2>1, PutHeaders
<1> HIDE DEF q
<1>3. /\ u \in Seq(Line) /\ u # <<>> /\ u[1] = q[1]
      /\ \A x : (Has(u, x) <=> Has(q, x)) /\ (Plain(u, x) <=> Plain(q, x))
      /\ HeadersOnce(u) => HeadersOnce(q)
      /\ NotedFirst(q) => NotedFirst(u)
  <2>1. q \in Seq(Line) /\ Plain(q, m) /\ "sha256" \in Fields
    BY <1>1, <1>p, <1>2
  <2> QED BY <2>1, PutHeaders
<1> QED BY <1>1, <1>p, <1>2, <1>3

\* What it does to a whole one: the fields of the model are what was measured, and nothing
\* else has changed.
THEOREM UpdateLinesSays ==
  ASSUME NEW t \in Seq(Line), NEW m \in Models, Plain(t, m), Whole(t), NotedFirst(t),
         NEW D \in SUBSET Fields, NEW w \in [D -> Contents]
  PROVE  LET u == UpdateLines(t, m, w)
         IN /\ Whole(u)
            /\ \A k \in Fields : Says(u, m, k) = IF k \in D THEN w[k] ELSE Says(t, m, k)
            /\ \A x, k : k \in Fields /\ x # m => Says(u, x, k) = Says(t, x, k)
<1> DEFINE p == Put(t, m, "size_hint", w)
           q == Put(p, m, "size_bytes", w)
           u == Put(q, m, "sha256", w)
<1>1. {"size_hint", "size_bytes", "sha256"} \subseteq Fields /\ UpdateLines(t, m, w) = u
  BY DEF Fields, UpdateLines, FieldOrder
<1>p. /\ p \in Seq(Line) /\ Whole(p) /\ NotedFirst(p) /\ Plain(p, m)
      /\ Says(p, m, "size_hint") = IF "size_hint" \in D THEN w["size_hint"] ELSE Says(t, m, "size_hint")
      /\ \A x, j : j \in Fields /\ (x # m \/ j # "size_hint") => Says(p, x, j) = Says(t, x, j)
  BY <1>1, PutHeaders, PutSays
<1> HIDE DEF p
<1>2. q \in Seq(Line)
  BY <1>1, <1>p, PutHeaders
<1>3. /\ Whole(q) /\ NotedFirst(q) /\ Plain(q, m)
      /\ Says(q, m, "size_bytes") = IF "size_bytes" \in D THEN w["size_bytes"] ELSE Says(p, m, "size_bytes")
      /\ \A x, j : j \in Fields /\ (x # m \/ j # "size_bytes") => Says(q, x, j) = Says(p, x, j)
  <2>1. p \in Seq(Line) /\ Plain(p, m) /\ Whole(p) /\ NotedFirst(p) /\ "size_bytes" \in Fields
    BY <1>1, <1>p
  <2> QED BY <2>1, PutSays
<1> HIDE DEF q
<1>4. /\ Whole(u)
      /\ Says(u, m, "sha256") = IF "sha256" \in D THEN w["sha256"] ELSE Says(q, m, "sha256")
      /\ \A x, j : j \in Fields /\ (x # m \/ j # "sha256") => Says(u, x, j) = Says(q, x, j)
  <2>1. q \in Seq(Line) /\ Plain(q, m) /\ Whole(q) /\ NotedFirst(q)
    BY <1>2, <1>3
  <2>2. "sha256" \in Fields
    BY <1>1
  <2> QED BY <2>1, <2>2, PutSays
<1> HIDE DEF u
<1>5. ASSUME NEW x, NEW k \in Fields, x # m PROVE Says(u, x, k) = Says(t, x, k)
  BY <1>p, <1>3, <1>4, <1>5
<1>6. ASSUME NEW k \in Fields
      PROVE  Says(u, m, k) = IF k \in D THEN w[k] ELSE Says(t, m, k)
  <2>1. CASE k = "sha256"
    BY <1>1, <1>p, <1>3, <1>4, <2>1
  <2>2. CASE k = "size_bytes"
    BY <1>1, <1>p, <1>3, <1>4, <2>2
  <2>3. CASE k = "size_hint"
    BY <1>1, <1>p, <1>3, <1>4, <2>3
  <2> QED BY <2>1, <2>2, <2>3 DEF Fields
<1> QED BY <1>1, <1>4, <1>5, <1>6

-----------------------------------------------------------------------------
(***************************************************************************)
(* Files, inodes and the order of what a command has to do.                *)
(***************************************************************************)
LEMMA ImageIsSmall ==
  ASSUME NEW S, IsFiniteSet(S), NEW g
  PROVE  IsFiniteSet({g[x] : x \in S}) /\ Cardinality({g[x] : x \in S}) <= Cardinality(S)
<1> DEFINE T == {g[x] : x \in S}
           h == [x \in S |-> g[x]]
<1>1. h \in Surjection(S, T)
  BY DEF Surjection
<1> QED BY <1>1, FS_Surjection

LEMMA InodesAreNumbers ==
  /\ Cardinality(Files) \in Nat /\ Cardinality(Commands) \in Nat
  /\ Inodes \subseteq Nat \ {0} /\ IsFiniteSet(Inodes)
  /\ Cardinality(Inodes) = 2 * Cardinality(Files) + Cardinality(Commands)
<1>1. Cardinality(Files) \in Nat /\ Cardinality(Commands) \in Nat
  BY CatalogEnrichAssumption, FS_CardinalityType
<1> DEFINE n == 2 * Cardinality(Files) + Cardinality(Commands)
<1>2. n \in Nat
  BY <1>1
<1> HIDE DEF n
<1>3. IsFiniteSet(1..n) /\ Cardinality(1..n) = n
  BY <1>2, FS_Interval
<1>4. Inodes = 1..n
  BY DEF Inodes, n
<1> QED BY <1>1, <1>2, <1>3, <1>4 DEF n

LEMMA NumberingProperties ==
  /\ Numbering \in [Files -> Inodes]
  /\ \A f, g \in Files : Numbering[f] = Numbering[g] => f = g
<1> DEFINE n == Cardinality(Files)
<1>1. n \in Nat /\ ExistsBijection(1..n, Files)
  BY CatalogEnrichAssumption, FS_CardinalityType
<1> HIDE DEF n
<1>2. ExistsBijection(Files, 1..n)
  BY <1>1, Fun_ExistsBijSymmetric
<1>3. \E b \in [Files -> 1..n] : IsInjective(b)
  BY <1>2 DEF ExistsBijection, Bijection, Injection
<1>4. Numbering \in [Files -> 1..n] /\ IsInjective(Numbering)
  BY <1>3 DEF Numbering, n
<1>5. 1..n \subseteq Inodes
  BY <1>1, InodesAreNumbers DEF Inodes, n
<1> QED BY <1>4, <1>5 DEF IsInjective

\* There is an inode for a temporary: pigeons and holes.
LEMMA FreshInode ==
  ASSUME TypeOK, NEW c \in Commands, open[c] = 0, NEW f \in Files, tmp[f] = 0
  PROVE  \E i \in Inodes : i \notin Range(file) \cup Range(tmp) \cup Range(open)
<1> DEFINE F == {file[g] : g \in Files}
           T == {tmp[g] : g \in Files \ {f}}
           O == {open[d] : d \in Commands \ {c}}
<1>1. /\ IsFiniteSet(Files \ {f}) /\ Cardinality(Files \ {f}) = Cardinality(Files) - 1
      /\ IsFiniteSet(Commands \ {c}) /\ Cardinality(Commands \ {c}) = Cardinality(Commands) - 1
  BY CatalogEnrichAssumption, FS_RemoveElement
<1>2. IsFiniteSet(F) /\ Cardinality(F) <= Cardinality(Files)
  BY CatalogEnrichAssumption, ImageIsSmall
<1>3. IsFiniteSet(T) /\ Cardinality(T) <= Cardinality(Files) - 1
  BY <1>1, ImageIsSmall
<1>4. IsFiniteSet(O) /\ Cardinality(O) <= Cardinality(Commands) - 1
  BY <1>1, ImageIsSmall
<1>5. Range(file) \cup Range(tmp) \cup Range(open) \subseteq (F \cup T) \cup O \cup {0}
  <2>1. DOMAIN file = Files /\ DOMAIN tmp = Files /\ DOMAIN open = Commands
    BY DEF TypeOK
  <2> QED BY <2>1 DEF Range
<1> HIDE DEF F, T, O
<1>6. /\ Cardinality(F) \in Nat /\ Cardinality(T) \in Nat /\ Cardinality(O) \in Nat
      /\ Cardinality(Files) \in Nat /\ Cardinality(Commands) \in Nat
  BY <1>2, <1>3, <1>4, InodesAreNumbers, FS_CardinalityType
<1>7. IsFiniteSet(F \cup T) /\ Cardinality(F \cup T) <= Cardinality(F) + Cardinality(T)
  <2>1. Cardinality(F \cap T) \in Nat
    BY <1>2, FS_Subset, FS_CardinalityType
  <2>2. /\ IsFiniteSet(F \cup T)
        /\ Cardinality(F \cup T) = Cardinality(F) + Cardinality(T) - Cardinality(F \cap T)
    BY <1>2, <1>3, FS_Union
  <2> QED BY <1>6, <2>1, <2>2
<1>8. IsFiniteSet((F \cup T) \cup O)
      /\ Cardinality((F \cup T) \cup O) <= Cardinality(F) + Cardinality(T) + Cardinality(O)
  <2>1. Cardinality((F \cup T) \cap O) \in Nat /\ Cardinality(F \cup T) \in Nat
    BY <1>7, FS_Subset, FS_CardinalityType
  <2>2. Cardinality((F \cup T) \cup O) = Cardinality(F \cup T) + Cardinality(O) - Cardinality((F \cup T) \cap O)
        /\ IsFiniteSet((F \cup T) \cup O)
    BY <1>4, <1>7, FS_Union
  <2> QED BY <1>6, <1>7, <2>1, <2>2
<1>9. ~(Inodes \subseteq (F \cup T) \cup O)
  <2> SUFFICES ASSUME Inodes \subseteq (F \cup T) \cup O PROVE FALSE
    OBVIOUS
  <2>1. Cardinality(Inodes) <= Cardinality((F \cup T) \cup O)
    BY <1>8, FS_Subset
  <2>2. Cardinality((F \cup T) \cup O) \in Nat
    BY <1>8, FS_CardinalityType
  <2> QED BY <1>2, <1>3, <1>4, <1>6, <1>8, <2>1, <2>2, InodesAreNumbers
<1> QED BY <1>5, <1>9, InodesAreNumbers

LEMMA FirstOfIn ==
  ASSUME NEW ms \in Seq(Models), NEW S, S \cap Range(ms) # {}
  PROVE  FirstOf(ms, S) \in S \cap Range(ms)
<1> DEFINE P == {i \in DOMAIN ms : ms[i] \in S}
<1>1. DOMAIN ms = 1..Len(ms) /\ Len(ms) \in Nat
  BY LenProperties
<1>2. P \in SUBSET Nat /\ P # {}
  BY <1>1 DEF Range
<1>3. PICK i \in P : \A j \in P : i <= j
  BY <1>2, Least
<1>4. \A j \in 1..(i - 1) : ms[j] \notin S
  BY <1>1, <1>3
<1>5. \E l \in DOMAIN ms : ms[l] \in S /\ \A j \in 1..(l - 1) : ms[j] \notin S
  BY <1>3, <1>4
<1> QED BY <1>5 DEF FirstOf, Range

LEMMA RangeOfModels ==
  ASSUME NEW ms \in Seq(Models)
  PROVE  Range(ms) \subseteq Models
BY ElementOfSeq, LenProperties DEF Range

-----------------------------------------------------------------------------
(***************************************************************************)
(* Types, inodes and the texts of files, for commands of every kind.       *)
(***************************************************************************)
Step(c) == \/ Ask(c) \/ Measure(c) \/ Read(c) \/ Edit(c) \/ Render(c) \/ OpenTmp(c) \/ Fill(c)
           \/ Replace(c) \/ Check(c) \/ Fault(c) \/ Forget(c)

\* A step of another command leaves all of this one's, but for disturbed.
Same(d) == /\ pc'[d] = pc[d] /\ ask'[d] = ask[d] /\ before'[d] = before[d] /\ todo'[d] = todo[d]
           /\ edits'[d] = edits[d] /\ text'[d] = text[d] /\ open'[d] = open[d]
           /\ answer'[d] = answer[d] /\ local' = local

LEMMA OthersSame ==
  ASSUME TypeOK, NEW c \in Commands, Step(c), NEW d \in Commands \ {c}
  PROVE  Same(d)
<1> USE DEF TypeOK, Same, At, Goto, Answer
<1>1. CASE Ask(c)
  BY <1>1 DEF Ask
<1>2. CASE Measure(c)
  BY <1>2 DEF Measure
<1>3. CASE Read(c)
  BY <1>3 DEF Read
<1>4. CASE Edit(c)
  BY <1>4 DEF Edit
<1>5. CASE Render(c)
  BY <1>5 DEF Render
<1>6. CASE OpenTmp(c)
  BY <1>6 DEF OpenTmp
<1>7. CASE Fill(c)
  BY <1>7 DEF Fill
<1>8. CASE Replace(c)
  BY <1>8 DEF Replace
<1>9. CASE Check(c)
  BY <1>9 DEF Check
<1>10. CASE Fault(c)
  BY <1>10 DEF Fault
<1>11. CASE Forget(c)
  BY <1>11 DEF Forget
<1> QED BY <1>1, <1>2, <1>3, <1>4, <1>5, <1>6, <1>7, <1>8, <1>9, <1>10, <1>11 DEF Step

LEMMA ProgressStays ==
  ASSUME NEW d \in Commands, Same(d), Progress(d)
  PROVE  Progress(d)' /\ Target(d)' = Target(d)
BY DEF Progress, Same, Target

LEMMA TargetIn ==
  ASSUME TypeOK, NEW c \in Commands, Progress(c), pc[c] \in Writing
  PROVE  /\ Target(c) \in Files /\ Target(c) \in Mine(c)
         /\ \E m \in todo[c] : Home[m] = Target(c)
<1>1. ask[c] \in Asked
  BY DEF TypeOK, Writing
<1>2. ask[c].models \in Seq(Models)
  BY <1>1, CatalogEnrichAssumption DEF Asked
<1>3. todo[c] # {} /\ todo[c] \subseteq Range(ask[c].models)
  BY DEF Progress
<1>4. FirstOf(ask[c].models, todo[c]) \in todo[c] \cap Range(ask[c].models)
  BY <1>2, <1>3, FirstOfIn
<1>5. FirstOf(ask[c].models, todo[c]) \in Models
  BY <1>2, <1>4, RangeOfModels
<1> QED BY <1>4, <1>5, CatalogEnrichAssumption DEF Target, Mine, FilesOf

LEMMA TextType ==
  ASSUME TypeOK, NEW f \in Files
  PROVE  Text(f) \in Seq(Line) /\ file[f] \in Inodes
BY DEF TypeOK, Text

LEMMA MeaningOf ==
  ASSUME NEW t \in Seq(Line), NEW m \in Models, Has(t, m)
  PROVE  /\ Meaning(t)[m] = [k \in Fields |-> Says(t, m, k)]
         /\ Meaning(t)[m] \in [Fields -> Contents \cup {Nothing}]
BY SaysType DEF Meaning

\* When the catalogue loads each model is in its file.
LEMMA LoadedHas ==
  ASSUME Structure, NEW m \in Models, Text(Home[m]) # <<>>
  PROVE  Home[m] \in Files /\ Text(Home[m]) \in Seq(Line) /\ Has(Text(Home[m]), m)
<1>1. Home[m] \in Files
  BY CatalogEnrichAssumption
<1>2. file[Home[m]] \in Inodes /\ BelongsTo(file[Home[m]], Home[m])
  BY <1>1 DEF Structure, TypeOK, BelongsTo
<1>3. Fine(Home[m], Text(Home[m]))
  BY <1>1, <1>2 DEF Structure, TextsFine, Text
<1> QED BY <1>1, <1>3, TextType DEF Fine, Structure

\* No inode belongs to a file that did not before, and no text has changed.
LEMMA BelongingStays ==
  ASSUME TypeOK, TypeOK', InodesApart, TextsFine, disk' = disk,
         \A i \in Inodes, f \in Files : BelongsTo(i, f)' => BelongsTo(i, f),
         \A f \in Files : file'[f] # tmp'[f]
  PROVE  InodesApart' /\ TextsFine'
<1>1. InodesApart'
  BY DEF InodesApart
<1>2. TextsFine'
  BY DEF TextsFine
<1> QED BY <1>1, <1>2

LEMMA NothingOpened ==
  ASSUME TypeOK, TypeOK', file' = file, tmp' = tmp,
         \A d \in Commands : open'[d] = 0 \/ (open'[d] = open[d] /\ Target(d)' = Target(d)),
         NEW i \in Inodes, NEW f \in Files, BelongsTo(i, f)'
  PROVE  BelongsTo(i, f)
<1>1. i # 0
  BY InodesAreNumbers
<1> QED BY <1>1 DEF BelongsTo

\* What a write leaves of a text: its own lines, and below them those it is too short for.
LEMMA OverwrittenFine ==
  ASSUME NEW f, NEW t \in Seq(Line), NEW u \in Seq(Line),
         t # <<>>, Parses(t), Fine(f, t), Fine(f, u)
  PROVE  LET w == t \o SubSeq(u, Len(t) + 1, Len(u))
         IN w \in Seq(Line) /\ Fine(f, w)
<1> DEFINE tail == SubSeq(u, Len(t) + 1, Len(u))
           w == t \o tail
           n == Len(t)
<1>1. /\ n \in Nat /\ DOMAIN t = 1..n /\ Len(u) \in Nat /\ DOMAIN u = 1..Len(u)
  BY LenProperties
<1>2. /\ tail \in Seq(Line)
      /\ Len(tail) = IF n + 1 <= Len(u) THEN Len(u) - n ELSE 0
      /\ \A i \in 1..Len(tail) : tail[i] = u[n + i]
  <2>1. CASE n + 1 <= Len(u)
    <3>1. \A i \in (n + 1)..Len(u) : u[i] \in Line
      BY <1>1, ElementOfSeq
    <3> QED BY <1>1, <2>1, <3>1
  <2>2. CASE ~(n + 1 <= Len(u))
    <3>1. tail = <<>>
      BY <1>1, <2>2
    <3> QED BY <1>1, <2>2, <3>1
  <2> QED BY <2>1, <2>2
<1> HIDE DEF tail
<1>3. /\ w \in Seq(Line) /\ Len(w) = n + Len(tail)
      /\ \A i \in 1..(n + Len(tail)) : w[i] = IF i <= n THEN t[i] ELSE tail[i - n]
  BY <1>1, <1>2, ConcatProperties
<1>4. DOMAIN w = 1..(n + Len(tail)) /\ Len(tail) \in Nat
  BY <1>2, <1>3, LenProperties
<1> HIDE DEF w, n
<1>5. ASSUME NEW i \in DOMAIN w
      PROVE  IF i \in DOMAIN t THEN w[i] = t[i] ELSE i \in DOMAIN u /\ w[i] = u[i]
  <2>1. CASE i <= n
    BY <1>1, <1>3, <1>4, <2>1
  <2>2. CASE i > n
    <3>1. i \in Nat /\ i <= n + Len(tail) /\ 1 <= i
      BY <1>1, <1>4
    <3>2. i - n \in 1..Len(tail) /\ n + (i - n) = i /\ i \notin DOMAIN t
      BY <1>1, <1>4, <2>2, <3>1
    <3>3. n + 1 <= Len(u) /\ Len(tail) = Len(u) - n
      <4>1. Len(tail) = IF n + 1 <= Len(u) THEN Len(u) - n ELSE 0
        BY <1>2
      <4>2. n \in Nat /\ Len(u) \in Nat
        BY <1>1
      <4> QED BY <2>2, <3>1, <4>1, <4>2
    <3>4. i \in DOMAIN u
      BY <1>1, <3>1, <3>3
    <3>5. w[i] = tail[i - n]
      BY <1>1, <1>3, <1>4, <2>2, <3>1
    <3>6. tail[i - n] = u[i]
      BY <1>2, <3>2
    <3> QED BY <3>2, <3>4, <3>5, <3>6
  <2> QED BY <1>1, <1>4, <2>1, <2>2
<1>6. \A i \in DOMAIN t : i \in DOMAIN w
  BY <1>1, <1>4
<1>7. w # <<>>
  BY <1>3, <1>4, <1>6, EmptySeq
<1>8. /\ \A m \in Models : Has(t, m) <=> Home[m] = f
      /\ NotedFirst(t)
  BY ParsesHeadersOnce DEF Fine
<1>9. ASSUME NEW i \in DOMAIN w, i \notin DOMAIN t, HeaderAt(w, i)
      PROVE  \E j \in DOMAIN t : j # i /\ HeaderAt(t, j) /\ t[j].val = w[i].val
  <2>1. i \in DOMAIN u /\ w[i] = u[i] /\ HeaderAt(u, i)
    BY <1>5, <1>9 DEF HeaderAt
  <2>2. u[i].val \in Models /\ Has(u, u[i].val) /\ u # <<>>
    BY <2>1, LineProperties, EmptySeq DEF Has
  <2>3. Home[u[i].val] = f
    BY <2>2 DEF Fine
  <2>4. Has(t, u[i].val)
    BY <1>8, <2>2, <2>3
  <2> QED BY <1>9, <2>1, <2>4 DEF Has
<1>10. ASSUME NEW m \in Models PROVE Has(w, m) <=> Has(t, m)
  <2>1. ASSUME NEW i \in DOMAIN w, HeaderAt(w, i), w[i].val = m PROVE Has(t, m)
    <3>1. CASE i \in DOMAIN t
      BY <1>5, <2>1, <3>1 DEF Has, HeaderAt
    <3>2. CASE i \notin DOMAIN t
      BY <1>9, <2>1, <3>2 DEF Has
    <3> QED BY <3>1, <3>2
  <2>2. ASSUME NEW i \in DOMAIN t, HeaderAt(t, i), t[i].val = m PROVE Has(w, m)
    BY <1>5, <1>6, <2>2 DEF Has, HeaderAt
  <2> QED BY <2>1, <2>2 DEF Has
<1>11. ASSUME HeadersOnce(w) PROVE NotedFirst(w)
  <2>1. ASSUME NEW i \in DOMAIN w, i \notin DOMAIN t, HeaderAt(w, i) PROVE FALSE
    <3>1. PICK j \in DOMAIN t : j # i /\ HeaderAt(t, j) /\ t[j].val = w[i].val
      BY <1>9, <2>1
    <3>2. j \in DOMAIN w /\ w[j] = t[j] /\ HeaderAt(w, j)
      BY <1>5, <1>6, <3>1 DEF HeaderAt
    <3> QED BY <1>11, <2>1, <3>1, <3>2 DEF HeadersOnce
  <2>2. ASSUME NEW i \in DOMAIN w, NEW j \in DOMAIN w, i < j, w[i].key = "header", w[j].key = "noted"
        PROVE  FALSE
    <3>1. i \in DOMAIN t /\ j \in DOMAIN t
      BY <2>1, <2>2 DEF HeaderAt
    <3>2. w[i] = t[i] /\ w[j] = t[j]
      BY <1>5, <3>1
    <3> QED BY <1>8, <2>2, <3>1, <3>2 DEF NotedFirst
  <2> QED BY <2>2 DEF NotedFirst
<1>12. Fine(f, w)
  BY <1>8, <1>10, <1>11 DEF Fine
<1> QED BY <1>3, <1>12 DEF w, n, tail

\* A step that touches no file: what is left to show is about the command alone.
LEMMA QuietStructure ==
  ASSUME Structure, TypeOK', NEW c \in Commands, Step(c), Progress(c)',
         UNCHANGED <<disk, file, tmp>>,
         open'[c] = 0 \/ (open'[c] = open[c] /\ Target(c)' = Target(c))
  PROVE  Structure'
<1>1. \A d \in Commands \ {c} : Same(d)
  BY OthersSame DEF Structure
<1>2. ASSUME NEW d \in Commands \ {c} PROVE Progress(d)' /\ Target(d)' = Target(d)
  BY <1>1, ProgressStays DEF Structure
<1>3. \A d \in Commands : open'[d] = 0 \/ (open'[d] = open[d] /\ Target(d)' = Target(d))
  BY <1>1, <1>2 DEF Same
<1>4. \A i \in Inodes, f \in Files : BelongsTo(i, f)' => BelongsTo(i, f)
  BY <1>3, NothingOpened DEF Structure
<1>5. \A f \in Files : file'[f] # tmp'[f]
  BY DEF Structure, InodesApart
<1>6. InodesApart' /\ TextsFine'
  BY <1>4, <1>5, BelongingStays DEF Structure
<1> QED BY <1>2, <1>6 DEF Structure

LEMMA AskStructure ==
  ASSUME Structure, NEW c \in Commands, Ask(c)
  PROVE  Structure'
<1> USE DEF At, Goto, Answer
<1>1. PICK ms \in Selections, w \in BOOLEAN, o \in BOOLEAN :
        ask' = [ask EXCEPT ![c] = [models |-> ms, write |-> w, overwrite |-> o]]
  BY DEF Ask
<1>2. ask'[c] \in Asked /\ ask' \in [Commands -> Asked \cup {Nothing}]
  BY <1>1 DEF Asked, Structure, TypeOK
<1> DEFINE loaded == [m \in Models |-> Meaning(Text(Home[m]))[m]]
<1>3. loaded \in Loaded
  <2>1. ASSUME NEW m \in Models PROVE Meaning(Text(Home[m]))[m] \in [Fields -> Contents \cup {Nothing}]
    <3>1. Text(Home[m]) # <<>>
      BY CatalogEnrichAssumption DEF Ask, Loads, Valid
    <3>2. Text(Home[m]) \in Seq(Line) /\ Has(Text(Home[m]), m)
      BY <3>1, LoadedHas
    <3> QED BY <3>2, MeaningOf
  <2> QED BY <2>1 DEF Loaded
<1>4. before' = [before EXCEPT ![c] = loaded]
  BY DEF Ask
<1> HIDE DEF loaded
<1>5. before'[c] \in Loaded /\ before' \in [Commands -> Loaded \cup {Nothing}]
  BY <1>3, <1>4 DEF Structure, TypeOK
<1>6. disturbed' \in [Commands -> BOOLEAN] /\ clash' \in BOOLEAN /\ asks' \in 0..MaxAsks
  <2>1. clash' \in BOOLEAN
    BY DEF Ask, Structure, TypeOK
  <2>2. disturbed' \in [Commands -> BOOLEAN]
    <3>1. PICK a : LET others == {d \in Commands \ {c} : pc[d] # "idle"}
                   IN disturbed' = [d \in Commands |->
                        CASE d = c       -> \E e \in others : Clash(a, ask[e])
                          [] d \in others -> disturbed[d] \/ Clash(ask[d], a)
                          [] OTHER       -> FALSE]
      BY DEF Ask
    <3> QED BY <3>1 DEF Structure, TypeOK
  <2>3. asks' \in 0..MaxAsks
    BY CatalogEnrichAssumption DEF Ask, Structure, TypeOK
  <2> QED BY <2>1, <2>2, <2>3
<1>7. \A d \in Commands \ {c} : Same(d)
  BY OthersSame DEF Step, Structure
<1>8. pc' = [pc EXCEPT ![c] = "measure"] /\ pc[c] = "idle"
      /\ UNCHANGED <<disk, file, tmp, local, todo, edits, text, open, answer, faults>>
  BY DEF Ask
<1>9. TypeOK'
  BY <1>2, <1>5, <1>6, <1>7, <1>8 DEF Structure, TypeOK, Same
<1>10. Progress(c)'
  BY <1>8 DEF Structure, TypeOK, Progress, Writing
<1>11. open'[c] = 0
  BY <1>8 DEF Structure, Progress
<1> QED BY <1>8, <1>9, <1>10, <1>11, QuietStructure DEF Step

LEMMA MeasureStructure ==
  ASSUME Structure, NEW c \in Commands, Measure(c)
  PROVE  Structure'
<1> USE DEF At, Goto, Answer
<1>1. pc[c] = "measure" /\ open[c] = 0 /\ open' = open /\ UNCHANGED <<disk, file, tmp>>
  BY DEF Measure, Structure, Progress
<1>2. ask[c] \in Asked /\ Changed(c) \in SUBSET Models /\ Changed(c) \subseteq Range(ask[c].models)
  <2>1. ask[c] \in Asked
    BY <1>1 DEF Structure, TypeOK
  <2>2. Range(ask[c].models) \subseteq Models
    BY <2>1, RangeOfModels, CatalogEnrichAssumption DEF Asked
  <2> QED BY <2>1, <2>2 DEF Changed
<1>3. TypeOK'
  <2>1. /\ UNCHANGED <<disk, file, tmp, local, ask, before, edits, text, open, disturbed, clash, asks, faults>>
        /\ todo' = todo \/ todo' = [todo EXCEPT ![c] = Changed(c)]
        /\ answer' \in [Commands -> {"none", "ok", "failed", "cut"}]
        /\ pc' = [pc EXCEPT ![c] = "done"] \/ pc' = [pc EXCEPT ![c] = "read"]
    BY DEF Measure, Structure, TypeOK
  <2>2. todo' \in [Commands -> SUBSET Models]
    BY <1>2, <2>1 DEF Structure, TypeOK
  <2> QED BY <1>1, <2>1, <2>2 DEF Structure, TypeOK
<1>4. Progress(c)'
  <2>1. CASE pc'[c] = "done"
    BY <1>1, <2>1 DEF Progress, Writing
  <2>2. CASE pc'[c] # "done"
    <3>1. /\ pc'[c] = "read" /\ todo'[c] = Changed(c) /\ Changed(c) # {} /\ ask[c].write /\ ask' = ask
          /\ local' = local /\ \A m \in Range(ask[c].models) : local[m] # Nothing
      BY <2>2 DEF Measure, Structure, TypeOK
    <3> QED BY <1>1, <1>2, <3>1 DEF Progress, Writing
  <2> QED BY <2>1, <2>2
<1> QED BY <1>1, <1>3, <1>4, QuietStructure DEF Step

LEMMA ReadStructure ==
  ASSUME Structure, NEW c \in Commands, Read(c)
  PROVE  Structure'
<1> USE DEF At, Goto, Answer
<1> DEFINE f == Target(c)
<1>1. /\ pc[c] = "read" /\ open[c] = 0 /\ open' = open /\ UNCHANGED <<disk, file, tmp, local, ask, todo>>
      /\ ask[c].write /\ todo[c] # {} /\ todo[c] \subseteq Range(ask[c].models)
      /\ \A m \in Range(ask[c].models) : local[m] # Nothing
  BY DEF Read, Structure, Progress, Writing
<1>2. f \in Files /\ \E m \in todo[c] : Home[m] = f
  BY <1>1, TargetIn DEF Structure, Writing
<1>3. Text(f) \in Seq(Line) /\ Fine(f, Text(f))
  BY <1>2, TextType DEF Structure, TextsFine, BelongsTo, Text
<1>4. /\ pc' = [pc EXCEPT ![c] = "edit"] /\ text' = [text EXCEPT ![c] = Text(f)]
      /\ edits' = [edits EXCEPT ![c] = {m \in todo[c] : Home[m] = f}] /\ f' = f
  BY <1>1 DEF Read, Target
<1> HIDE DEF f
<1>5. TypeOK'
  BY <1>3, <1>4 DEF Read, Structure, TypeOK
<1>6. pc'[c] = "edit" /\ text'[c] = Text(f) /\ edits'[c] = {m \in todo[c] : Home[m] = f}
  BY <1>4 DEF Structure, TypeOK
<1>7. Progress(c)'
  BY <1>1, <1>2, <1>3, <1>4, <1>6 DEF Progress, Writing, Fine, f
<1> QED BY <1>1, <1>5, <1>7, QuietStructure DEF Step

LEMMA UpdatesType ==
  ASSUME TypeOK, NEW c \in Commands, NEW m \in Models
  PROVE  \E D \in SUBSET Fields : Updates(c, m) \in [D -> {local[m]}]
<1> DEFINE D == {k \in Fields : (ask[c].overwrite \/ before[c][m][k] = Nothing) /\ before[c][m][k] # local[m]}
<1>1. Updates(c, m) = [k \in D |-> local[m]]
  BY DEF Updates
<1> QED BY <1>1

LEMMA EditStructure ==
  ASSUME Structure, NEW c \in Commands, Edit(c)
  PROVE  Structure'
<1> USE DEF At, Goto, Answer
<1> DEFINE m == FirstOf(ask[c].models, edits[c])
           u == UpdateLines(text[c], m, Updates(c, m))
<1>1. /\ pc[c] = "edit" /\ open[c] = 0 /\ open' = open /\ edits[c] # {}
      /\ UNCHANGED <<disk, file, tmp, local, ask, todo>>
  BY DEF Edit, Structure, Progress, Writing
<1>2. /\ ask[c].write /\ todo[c] # {} /\ todo[c] \subseteq Range(ask[c].models)
      /\ edits[c] \subseteq {x \in todo[c] : Home[x] = Target(c)} /\ Fine(Target(c), text[c])
      /\ \A x \in Range(ask[c].models) : local[x] # Nothing
  BY <1>1 DEF Structure, Progress, Writing
<1>3. m \in edits[c] /\ m \in Range(ask[c].models) /\ m \in Models
  <2>1. ask[c].models \in Seq(Models)
    BY <1>1, CatalogEnrichAssumption DEF Structure, TypeOK, Asked
  <2>2. m \in edits[c] \cap Range(ask[c].models)
    BY <1>1, <1>2, <2>1, FirstOfIn
  <2> QED BY <2>1, <2>2, RangeOfModels
<1>4. text[c] \in Seq(Line) /\ Target(c)' = Target(c)
  BY <1>1 DEF Structure, TypeOK, Target
<1>5. CASE Plain(text[c], m)
  <2>1. \E D \in SUBSET Fields : Updates(c, m) \in [D -> Contents]
    <3>1. local[m] \in Contents
      BY <1>2, <1>3 DEF Structure, TypeOK
    <3>2. PICK D \in SUBSET Fields : Updates(c, m) \in [D -> {local[m]}]
      BY <1>3, UpdatesType DEF Structure
    <3> QED BY <3>1, <3>2
  <2> HIDE DEF m
  <2>2. /\ u \in Seq(Line) /\ u # <<>>
        /\ \A x : Has(u, x) <=> Has(text[c], x)
        /\ HeadersOnce(u) => HeadersOnce(text[c])
        /\ NotedFirst(text[c]) => NotedFirst(u)
    <3>1. PICK D \in SUBSET Fields : Updates(c, m) \in [D -> Contents]
      BY <2>1
    <3>2. text[c] \in Seq(Line) /\ Plain(text[c], m)
      BY <1>4, <1>5
    <3>3. DOMAIN Updates(c, m) \in SUBSET Fields /\ Updates(c, m) \in [DOMAIN Updates(c, m) -> Contents]
      BY <3>1
    <3> QED BY <3>2, <3>3, UpdateLinesHeaders
  <2>3. text[c] # <<>>
    BY <1>5, EmptySeq DEF Plain
  <2>4. Fine(Target(c), u)
    BY <1>2, <2>2, <2>3 DEF Fine
  <2>5. text' = [text EXCEPT ![c] = u] /\ edits' = [edits EXCEPT ![c] = @ \ {m}] /\ pc' = pc /\ answer' = answer
    BY <1>5 DEF Edit, m
  <2> HIDE DEF u
  <2>6. TypeOK'
    BY <2>2, <2>5 DEF Edit, Structure, TypeOK
  <2>7. text'[c] = u /\ edits'[c] = edits[c] \ {m} /\ pc'[c] = "edit"
    BY <1>1, <2>5 DEF Structure, TypeOK
  <2>8. Progress(c)'
    BY <1>1, <1>2, <1>4, <2>2, <2>4, <2>7 DEF Progress, Writing
  <2> QED BY <1>1, <1>4, <2>6, <2>8, QuietStructure DEF Step
<1>6. CASE ~Plain(text[c], m)
  <2>1. pc' = [pc EXCEPT ![c] = "done"] /\ answer' = [answer EXCEPT ![c] = "failed"] /\ UNCHANGED <<edits, text>>
    BY <1>6 DEF Edit
  <2>2. TypeOK'
    BY <2>1 DEF Edit, Structure, TypeOK
  <2>3. Progress(c)'
    BY <1>1, <2>1 DEF Progress, Writing, Structure, TypeOK
  <2> QED BY <1>1, <1>4, <2>2, <2>3, QuietStructure DEF Step
<1> QED BY <1>5, <1>6

LEMMA RenderStructure ==
  ASSUME Structure, NEW c \in Commands, Render(c)
  PROVE  Structure'
<1> USE DEF At, Goto, Answer
<1>1. /\ pc[c] = "edit" /\ open[c] = 0 /\ edits[c] = {}
      /\ UNCHANGED <<disk, file, tmp, local, ask, todo, text, edits, open>>
      /\ Target(c)' = Target(c)
  BY DEF Render, Structure, Progress, Writing, Target
<1>2. TypeOK'
  BY DEF Render, Structure, TypeOK
<1>3. pc'[c] = "done" \/ (pc'[c] = "open" /\ Parses(text[c]))
  BY DEF Render, Structure, TypeOK
<1>4. Progress(c)'
  <2>1. CASE pc'[c] = "done"
    BY <1>1, <2>1 DEF Progress, Writing
  <2>2. CASE pc'[c] = "open" /\ Parses(text[c])
    <3>1. Progress(c)
      BY DEF Structure
    <3> QED BY <1>1, <2>2, <3>1 DEF Progress, Writing
  <2> QED BY <1>3, <2>1, <2>2
<1> QED BY <1>1, <1>2, <1>4, QuietStructure DEF Step

LEMMA CheckStructure ==
  ASSUME Structure, NEW c \in Commands, Check(c)
  PROVE  Structure'
<1> USE DEF At, Goto, Answer
<1>1. pc[c] = "check" /\ open[c] = 0 /\ UNCHANGED <<disk, file, tmp, open>>
  BY DEF Check, Structure, Progress
<1>2. TypeOK' /\ pc'[c] = "done"
  BY DEF Check, Structure, TypeOK
<1>3. Progress(c)'
  BY <1>1, <1>2 DEF Progress, Writing
<1> QED BY <1>1, <1>2, <1>3, QuietStructure DEF Step

LEMMA FaultStructure ==
  ASSUME Structure, NEW c \in Commands, Fault(c)
  PROVE  Structure'
<1> USE DEF At, Goto, Answer
<1>1. UNCHANGED <<disk, file, tmp>>
  BY DEF Fault
<1>2. TypeOK' /\ pc'[c] = "done" /\ open'[c] = 0
  BY CatalogEnrichAssumption DEF Fault, Structure, TypeOK
<1>3. Progress(c)'
  BY <1>2 DEF Progress, Writing
<1> QED BY <1>1, <1>2, <1>3, QuietStructure DEF Step

LEMMA ForgetStructure ==
  ASSUME Structure, NEW c \in Commands, Forget(c)
  PROVE  Structure'
<1> USE DEF At, Goto, Answer
<1>1. UNCHANGED <<disk, file, tmp, open>> /\ open[c] = 0
  BY DEF Forget, Structure, Progress
<1>2. TypeOK' /\ pc'[c] = "idle"
  <2>1. pc' = [pc EXCEPT ![c] = "idle"] /\ pc'[c] = "idle"
    BY DEF Forget, Structure, TypeOK
  <2>2. <<>> \in Seq(Line)
    OBVIOUS
  <2> QED BY <2>1, <2>2 DEF Forget, Structure, TypeOK
<1>3. Progress(c)'
  BY <1>1, <1>2 DEF Progress, Writing
<1> QED BY <1>1, <1>2, <1>3, QuietStructure DEF Step

\* The inode of a temporary is no other file's, be it an old one or a new one.
LEMMA OpenTmpInode ==
  ASSUME Structure, NEW c \in Commands, OpenTmp(c)
  PROVE  \E i \in Inodes : /\ i # 0 /\ (i = tmp[Target(c)] \/ i \notin Range(file) \cup Range(tmp) \cup Range(open))
                           /\ tmp' = [tmp EXCEPT ![Target(c)] = i] /\ open' = [open EXCEPT ![c] = i]
                           /\ disk' = [disk EXCEPT ![i] = <<>>]
<1> DEFINE f == Target(c)
           used == Range(file) \cup Range(tmp) \cup Range(open)
           i == IF tmp[f] # 0 THEN tmp[f] ELSE CHOOSE j \in Inodes : j \notin used
<1>1. f \in Files /\ open[c] = 0
  BY TargetIn DEF OpenTmp, At, Writing, Structure, Progress
<1>2. /\ tmp' = [tmp EXCEPT ![f] = i] /\ open' = [open EXCEPT ![c] = i]
      /\ disk' = [disk EXCEPT ![i] = <<>>]
  BY DEF OpenTmp
<1>3. tmp[f] \in Inodes \cup {0} /\ TypeOK
  BY <1>1 DEF Structure, TypeOK
<1> HIDE DEF f
<1>4. i \in Inodes /\ (i = tmp[f] \/ i \notin used)
  <2>1. CASE tmp[f] # 0
    BY <1>3, <2>1
  <2>2. CASE tmp[f] = 0
    <3>1. \E j \in Inodes : j \notin used
      BY <1>1, <1>3, <2>2, FreshInode
    <3> QED BY <2>2, <3>1
  <2> QED BY <2>1, <2>2
<1> HIDE DEF i
<1> QED BY <1>2, <1>4, InodesAreNumbers DEF f

LEMMA OpenTmpStructure ==
  ASSUME Structure, NEW c \in Commands, OpenTmp(c)
  PROVE  Structure'
<1> USE DEF At, Goto, Answer
<1> DEFINE f == Target(c)
<1>1. /\ pc[c] = "open" /\ pc' = [pc EXCEPT ![c] = "fill"]
      /\ UNCHANGED <<file, local, ask, before, todo, edits, text, answer, disturbed, clash, asks, faults>>
  BY DEF OpenTmp
<1>2. f \in Files /\ f' = f
  BY <1>1, TargetIn DEF Structure, Writing, Target
<1>3. PICK i \in Inodes :
        /\ i # 0 /\ (i = tmp[f] \/ i \notin Range(file) \cup Range(tmp) \cup Range(open))
        /\ tmp' = [tmp EXCEPT ![f] = i] /\ open' = [open EXCEPT ![c] = i]
        /\ disk' = [disk EXCEPT ![i] = <<>>]
  BY OpenTmpInode
<1> HIDE DEF f
<1>4. TypeOK'
  <2>1. <<>> \in Seq(Line)
    OBVIOUS
  <2> QED BY <1>1, <1>2, <1>3, <2>1 DEF Structure, TypeOK
<1>5. \A d \in Commands \ {c} : Same(d)
  BY OthersSame DEF Structure, Step
<1>6. ASSUME NEW d \in Commands PROVE Progress(d)' /\ Target(d)' = Target(d)
  <2>1. CASE d = c
    BY <1>1, <1>2, <1>3, <2>1 DEF Structure, TypeOK, Progress, Writing, f
  <2>2. CASE d # c
    BY <1>5, <2>2, ProgressStays DEF Structure
  <2> QED BY <2>1, <2>2
<1>7. /\ file' = file /\ tmp'[f] = i /\ \A g \in Files \ {f} : tmp'[g] = tmp[g]
      /\ open'[c] = i /\ \A d \in Commands \ {c} : open'[d] = open[d]
      /\ disk'[i] = <<>> /\ \A j \in Inodes \ {i} : disk'[j] = disk[j]
  BY <1>1, <1>2, <1>3 DEF Structure, TypeOK
<1>8. ASSUME NEW j \in Inodes, NEW g \in Files, BelongsTo(j, g)'
      PROVE  BelongsTo(j, g) \/ (j = i /\ g = f)
  BY <1>6, <1>7, <1>8 DEF BelongsTo, f
<1>9. ASSUME NEW g \in Files, BelongsTo(i, g) PROVE g = f
  <2>1. CASE i = tmp[f]
    BY <1>2, <1>9, <2>1 DEF Structure, InodesApart, BelongsTo
  <2>2. CASE i \notin Range(file) \cup Range(tmp) \cup Range(open)
    BY <1>9, <2>2 DEF BelongsTo, Range, Structure, TypeOK
  <2> QED BY <1>3, <2>1, <2>2
<1>10. \A g \in Files : file'[g] # tmp'[g]
  <2>1. i # file[f]
    <3>1. CASE i = tmp[f]
      BY <1>2, <3>1 DEF Structure, InodesApart
    <3>2. CASE i \notin Range(file) \cup Range(tmp) \cup Range(open)
      BY <1>2, <3>2 DEF Range, Structure, TypeOK
    <3> QED BY <1>3, <3>1, <3>2
  <2> QED BY <1>7, <2>1 DEF Structure, InodesApart
<1>11. InodesApart'
  <2> SUFFICES ASSUME NEW j \in Inodes, NEW g \in Files, NEW h \in Files, BelongsTo(j, g)', BelongsTo(j, h)'
               PROVE  g = h
    BY <1>10 DEF InodesApart
  <2>1. (BelongsTo(j, g) \/ (j = i /\ g = f)) /\ (BelongsTo(j, h) \/ (j = i /\ h = f))
    BY <1>8
  <2> QED BY <1>9, <2>1 DEF Structure, InodesApart
<1>12. TextsFine'
  <2> SUFFICES ASSUME NEW j \in Inodes, NEW g \in Files, BelongsTo(j, g)'
               PROVE  Fine(g, disk'[j])
    BY DEF TextsFine
  <2>1. CASE j = i
    BY <1>7, <2>1 DEF Fine
  <2>2. CASE j # i
    BY <1>7, <1>8, <2>2 DEF Structure, TextsFine
  <2> QED BY <2>1, <2>2
<1> QED BY <1>4, <1>6, <1>11, <1>12 DEF Structure

LEMMA FillStructure ==
  ASSUME Structure, NEW c \in Commands, Fill(c)
  PROVE  Structure'
<1> USE DEF At, Goto, Answer
<1> DEFINE f == Target(c)
           i == open[c]
           w == text[c] \o SubSeq(disk[i], Len(text[c]) + 1, Len(disk[i]))
<1>1. /\ pc[c] = "fill" /\ pc' = [pc EXCEPT ![c] = "replace"] /\ open' = [open EXCEPT ![c] = 0]
      /\ UNCHANGED <<file, tmp, local, ask, before, todo, edits, text, answer, disturbed, clash, asks, faults>>
  BY DEF Fill
<1>2. f \in Files
  BY <1>1, TargetIn DEF Structure, Writing
<1>3. /\ i # 0 /\ i \in Inodes /\ text[c] \in Seq(Line) /\ disk[i] \in Seq(Line)
      /\ Fine(f, text[c]) /\ text[c] # <<>> /\ Parses(text[c])
  <2>1. Progress(c) /\ TypeOK
    BY DEF Structure
  <2>2. i # 0 /\ Fine(f, text[c]) /\ text[c] # <<>> /\ Parses(text[c])
    BY <1>1, <2>1 DEF Progress
  <2> QED BY <2>1, <2>2 DEF TypeOK
<1>4. BelongsTo(i, f) /\ Fine(f, disk[i])
  <2>1. BelongsTo(i, f)
    BY DEF BelongsTo
  <2> QED BY <1>2, <1>3, <2>1 DEF Structure, TextsFine
<1>5. w \in Seq(Line) /\ Fine(f, w)
  BY <1>3, <1>4, OverwrittenFine
<1>6. disk' = [disk EXCEPT ![i] = w]
  BY DEF Fill
<1> HIDE DEF f, i, w
<1>7. TypeOK'
  BY <1>1, <1>3, <1>5, <1>6 DEF Structure, TypeOK
<1>8. \A d \in Commands \ {c} : Same(d)
  BY OthersSame DEF Structure, Step
<1>9. ASSUME NEW d \in Commands PROVE Progress(d)' /\ (open'[d] = 0 \/ (open'[d] = open[d] /\ Target(d)' = Target(d)))
  <2>1. CASE d = c
    BY <1>1, <2>1 DEF Structure, TypeOK, Progress, Writing
  <2>2. CASE d # c
    BY <1>8, <2>2, ProgressStays DEF Structure, Same
  <2> QED BY <2>1, <2>2
<1>10. \A j \in Inodes, g \in Files : BelongsTo(j, g)' => BelongsTo(j, g)
  BY <1>1, <1>7, <1>9, NothingOpened DEF Structure
<1>11. InodesApart'
  BY <1>1, <1>10 DEF Structure, InodesApart
<1>12. TextsFine'
  <2> SUFFICES ASSUME NEW j \in Inodes, NEW g \in Files, BelongsTo(j, g)'
               PROVE  Fine(g, disk'[j])
    BY DEF TextsFine
  <2>1. BelongsTo(j, g)
    BY <1>10
  <2>2. CASE j = i
    <3>1. g = f
      BY <1>2, <1>3, <1>4, <2>1, <2>2 DEF Structure, InodesApart
    <3> QED BY <1>3, <1>5, <1>6, <2>2, <3>1 DEF Structure, TypeOK
  <2>3. CASE j # i
    BY <1>6, <2>1, <2>3 DEF Structure, TextsFine, TypeOK
  <2> QED BY <2>2, <2>3
<1> QED BY <1>7, <1>9, <1>11, <1>12 DEF Structure

LEMMA ReplaceStructure ==
  ASSUME Structure, NEW c \in Commands, Replace(c)
  PROVE  Structure'
<1> USE DEF At, Goto, Answer
<1> DEFINE f == Target(c)
           rest == {m \in todo[c] : Home[m] # f}
<1>1. /\ pc[c] = "replace" /\ open[c] = 0
      /\ UNCHANGED <<disk, local, ask, before, edits, text, open, disturbed, clash, asks, faults>>
  BY DEF Replace, Structure, Progress
<1>2. f \in Files
  BY <1>1, TargetIn DEF Structure, Writing
<1>3. CASE tmp[f] = 0 /\ Answer(c, "failed") /\ UNCHANGED <<file, tmp, todo>>
  <2>1. TypeOK' /\ pc'[c] = "done"
    BY <1>1, <1>3 DEF Structure, TypeOK
  <2>2. Progress(c)'
    BY <1>1, <2>1 DEF Progress, Writing
  <2> QED BY <1>1, <1>3, <2>1, <2>2, QuietStructure DEF Step
<1>4. CASE /\ tmp[f] # 0 /\ file' = [file EXCEPT ![f] = tmp[f]] /\ tmp' = [tmp EXCEPT ![f] = 0]
           /\ todo' = [todo EXCEPT ![c] = rest]
           /\ pc' = [pc EXCEPT ![c] = IF rest # {} THEN "read" ELSE "check"] /\ UNCHANGED answer
  <2> HIDE DEF f
  <2>1. tmp[f] \in Inodes /\ rest \in SUBSET Models
    BY <1>2, <1>4 DEF Structure, TypeOK
  <2>2. TypeOK'
    BY <1>1, <1>2, <1>4, <2>1 DEF Structure, TypeOK
  <2>3. \A d \in Commands \ {c} : Same(d)
    BY OthersSame DEF Structure, Step
  <2>4. Progress(c)'
    <3>1. /\ pc'[c] = IF rest # {} THEN "read" ELSE "check"
          /\ todo'[c] = rest /\ rest \subseteq todo[c]
      BY <1>4 DEF Structure, TypeOK
    <3>2. /\ ask[c].write /\ todo[c] \subseteq Range(ask[c].models)
          /\ \A m \in Range(ask[c].models) : local[m] # Nothing
      BY <1>1 DEF Structure, Progress, Writing
    <3> HIDE DEF rest
    <3> QED BY <1>1, <3>1, <3>2 DEF Progress, Writing
  <2>5. ASSUME NEW d \in Commands PROVE Progress(d)' /\ (open'[d] = 0 \/ (open'[d] = open[d] /\ Target(d)' = Target(d)))
    BY <1>1, <2>3, <2>4, ProgressStays DEF Structure, Same
  <2>6. /\ file'[f] = tmp[f] /\ tmp'[f] = 0
        /\ \A g \in Files \ {f} : file'[g] = file[g] /\ tmp'[g] = tmp[g]
    BY <1>2, <1>4 DEF Structure, TypeOK
  <2>7. ASSUME NEW j \in Inodes, NEW g \in Files, BelongsTo(j, g)' PROVE BelongsTo(j, g)
    <3>1. j # 0
      BY InodesAreNumbers
    <3>2. CASE j = file'[g] \/ j = tmp'[g]
      BY <2>6, <3>1, <3>2 DEF BelongsTo
    <3>3. CASE \E d \in Commands : open'[d] = j /\ Target(d)' = g
      BY <2>5, <3>1, <3>3 DEF BelongsTo
    <3> QED BY <2>7, <3>2, <3>3 DEF BelongsTo
  <2>8. \A g \in Files : file'[g] # tmp'[g]
    BY <1>4, <2>6 DEF Structure, InodesApart
  <2>9. InodesApart' /\ TextsFine'
    BY <1>1, <2>2, <2>7, <2>8, BelongingStays DEF Structure
  <2> QED BY <2>2, <2>5, <2>9 DEF Structure
<1> QED BY <1>3, <1>4 DEF Replace

LEMMA StepStructure ==
  ASSUME Structure, NEW c \in Commands, Step(c)
  PROVE  Structure'
BY AskStructure, MeasureStructure, ReadStructure, EditStructure, RenderStructure, OpenTmpStructure,
   FillStructure, ReplaceStructure, CheckStructure, FaultStructure, ForgetStructure DEF Step

LEMMA InitStructure ==
  ASSUME Init, CommentsFirst
  PROVE  Structure
<1>1. PICK layout \in Layouts :
        /\ file = Numbering
        /\ disk = [i \in Inodes |-> IF \E f \in Files : file[f] = i
                                    THEN layout[CHOOSE f \in Files : file[f] = i] ELSE <<>>]
  BY DEF Init
<1>2. /\ tmp = [f \in Files |-> 0] /\ local \in [Models -> Contents \cup {Nothing}]
      /\ pc = [c \in Commands |-> "idle"] /\ ask = [c \in Commands |-> Nothing]
      /\ before = [c \in Commands |-> Nothing]
      /\ todo = [c \in Commands |-> {}] /\ edits = [c \in Commands |-> {}]
      /\ text = [c \in Commands |-> <<>>] /\ open = [c \in Commands |-> 0]
      /\ answer = [c \in Commands |-> "none"]
      /\ disturbed = [c \in Commands |-> FALSE] /\ clash = FALSE /\ asks = 0 /\ faults = 0
  BY DEF Init
<1>3. file \in [Files -> Inodes] /\ \A f, g \in Files : file[f] = file[g] => f = g
  BY <1>1, NumberingProperties
<1>4. ASSUME NEW f \in Files PROVE disk[file[f]] = layout[f] /\ layout[f] \in Seq(Line) /\ Fine(f, layout[f])
  <2>1. file[f] \in Inodes /\ (CHOOSE g \in Files : file[g] = file[f]) = f
    BY <1>3
  <2>2. disk[file[f]] = layout[f]
    BY <1>1, <2>1
  <2>3. Fine(f, layout[f])
    BY CatalogEnrichAssumption DEF CommentsFirst, Fine
  <2> QED BY <2>2, <2>3, CatalogEnrichAssumption
<1>5. disk \in [Inodes -> Seq(Line)]
  <2>1. <<>> \in Seq(Line)
    OBVIOUS
  <2>2. ASSUME NEW i \in Inodes PROVE disk[i] \in Seq(Line)
    <3>1. CASE \E f \in Files : file[f] = i
      BY <1>4, <3>1
    <3>2. CASE ~\E f \in Files : file[f] = i
      BY <1>1, <2>1, <3>2
    <3> QED BY <3>1, <3>2
  <2>3. disk = [i \in Inodes |-> disk[i]]
    BY <1>1
  <2> QED BY <2>2, <2>3
<1>6. TypeOK
  <2>1. <<>> \in Seq(Line)
    OBVIOUS
  <2>2. tmp \in [Files -> Inodes \cup {0}] /\ open \in [Commands -> Inodes \cup {0}]
    BY <1>2
  <2>3. /\ pc \in [Commands -> {"idle", "measure", "read", "edit", "open", "fill", "replace", "check", "done"}]
        /\ \A c \in Commands : pc[c] = "idle"
        /\ ask \in [Commands -> Asked \cup {Nothing}] /\ before \in [Commands -> Loaded \cup {Nothing}]
        /\ todo \in [Commands -> SUBSET Models] /\ edits \in [Commands -> SUBSET Models]
        /\ answer \in [Commands -> {"none", "ok", "failed", "cut"}]
    BY <1>2
  <2>4. text \in [Commands -> Seq(Line)]
    BY <1>2, <2>1
  <2>5. disturbed \in [Commands -> BOOLEAN] /\ clash \in BOOLEAN
    BY <1>2
  <2>6. asks \in 0..MaxAsks /\ faults \in 0..MaxFaults
    BY <1>2, CatalogEnrichAssumption
  <2> QED BY <1>2, <1>3, <1>5, <2>2, <2>3, <2>4, <2>5, <2>6 DEF TypeOK
<1>7. \A c \in Commands : Progress(c)
  BY <1>2 DEF Progress, Writing
<1>8. ASSUME NEW i \in Inodes, NEW f \in Files, BelongsTo(i, f) PROVE i = file[f]
  BY <1>2, <1>8, InodesAreNumbers DEF BelongsTo
<1>9. InodesApart
  BY <1>2, <1>3, <1>8, InodesAreNumbers DEF InodesApart
<1>10. TextsFine
  BY <1>4, <1>8 DEF TextsFine
<1> QED BY <1>6, <1>7, <1>9, <1>10 DEF Structure

-----------------------------------------------------------------------------
(***************************************************************************)
(* What the histories have recorded, and what that keeps apart.            *)
(***************************************************************************)
LEMMA OtherStepHistories ==
  ASSUME Structure, Histories, NEW c \in Commands, Step(c), ~Ask(c)
  PROVE  /\ Histories'
         /\ \A d \in Commands : Busy(d)' => /\ Busy(d) /\ ask'[d] = ask[d] /\ before'[d] = before[d]
                                            /\ disturbed'[d] = disturbed[d]
         /\ clash' = clash /\ local' = local
<1> USE DEF At, Goto, Answer
<1>1. \A d \in Commands : Busy(d)' => /\ Busy(d) /\ ask'[d] = ask[d] /\ before'[d] = before[d]
                                      /\ disturbed'[d] = disturbed[d]
  <2> USE DEF Structure, TypeOK, Busy
  <2>1. CASE Measure(c) \/ Read(c) \/ Edit(c) \/ Render(c)
    BY <2>1 DEF Measure, Read, Edit, Render
  <2>2. CASE OpenTmp(c) \/ Fill(c) \/ Replace(c)
    BY <2>2 DEF OpenTmp, Fill, Replace
  <2>3. CASE Check(c) \/ Fault(c)
    BY <2>3 DEF Check, Fault
  <2>4. CASE Forget(c)
    BY <2>4 DEF Forget
  <2> QED BY <2>1, <2>2, <2>3, <2>4 DEF Step
<1>2. clash' = clash /\ local' = local
  BY DEF Step, Measure, Read, Edit, Render, OpenTmp, Fill, Replace, Check, Fault, Forget
<1>3. Recorded'
  BY <1>1, <1>2 DEF Histories, Recorded, Clash
<1>4. LoadedValid'
  BY <1>1 DEF Histories, LoadedValid
<1> QED BY <1>1, <1>2, <1>3, <1>4 DEF Histories

\* What a command is asked, and whom that disturbs.
LEMMA AskRecords ==
  ASSUME Structure, NEW c \in Commands, Ask(c)
  PROVE  /\ ask'[c] \in Asked /\ \A d \in Commands \ {c} : ask'[d] = ask[d]
         /\ disturbed'[c] <=> \E d \in Commands \ {c} : Busy(d) /\ Clash(ask'[c], ask[d])
         /\ \A d \in Commands \ {c} : Busy(d) => (disturbed'[d] <=> disturbed[d] \/ Clash(ask[d], ask'[c]))
         /\ clash' <=> clash \/ \E d \in Commands \ {c} : Busy(d) /\ ask'[c].write /\ Clash(ask'[c], ask[d])
<1>1. PICK ms \in Selections, w \in BOOLEAN, o \in BOOLEAN :
        LET a == [models |-> ms, write |-> w, overwrite |-> o]
            others == {d \in Commands \ {c} : pc[d] # "idle"}
        IN /\ ask' = [ask EXCEPT ![c] = a]
           /\ disturbed' = [d \in Commands |->
                CASE d = c       -> \E e \in others : Clash(a, ask[e])
                  [] d \in others -> disturbed[d] \/ Clash(ask[d], a)
                  [] OTHER       -> FALSE]
           /\ clash' = (clash \/ \E e \in others : a.write /\ Clash(a, ask[e]))
  BY DEF Ask
<1> DEFINE a == [models |-> ms, write |-> w, overwrite |-> o]
           others == {d \in Commands \ {c} : pc[d] # "idle"}
<1>2. a \in Asked
  BY DEF Asked
<1> HIDE DEF a
<1>3. ask'[c] = a /\ \A d \in Commands \ {c} : ask'[d] = ask[d]
  BY <1>1 DEF Structure, TypeOK, a
<1>4. disturbed'[c] <=> \E e \in others : Clash(a, ask[e])
  BY <1>1 DEF a
<1>5. \A d \in Commands \ {c} : Busy(d) => (disturbed'[d] <=> disturbed[d] \/ Clash(ask[d], a))
  BY <1>1 DEF a, Busy
<1>6. clash' <=> clash \/ \E e \in others : a.write /\ Clash(a, ask[e])
  BY <1>1 DEF a
<1> QED BY <1>2, <1>3, <1>4, <1>5, <1>6 DEF Busy

LEMMA ClashMeans ==
  ASSUME NEW a, NEW b
  PROVE  Clash(a, b) <=> b.write /\ FilesOf(a.models) \cap FilesOf(b.models) # {}
BY DEF Clash

LEMMA AskHistories ==
  ASSUME Structure, Histories, NEW c \in Commands, Ask(c)
  PROVE  Histories'
<1>1. /\ ask'[c] \in Asked /\ \A d \in Commands \ {c} : ask'[d] = ask[d]
      /\ disturbed'[c] <=> \E d \in Commands \ {c} : Busy(d) /\ Clash(ask'[c], ask[d])
      /\ \A d \in Commands \ {c} : Busy(d) => (disturbed'[d] <=> disturbed[d] \/ Clash(ask[d], ask'[c]))
      /\ clash' <=> clash \/ \E d \in Commands \ {c} : Busy(d) /\ ask'[c].write /\ Clash(ask'[c], ask[d])
  BY AskRecords
<1>2. \A d \in Commands \ {c} : (Busy(d)' <=> Busy(d)) /\ before'[d] = before[d]
  BY OthersSame DEF Step, Structure, Same, Busy
<1>3. \A d, e \in Commands : d # e /\ Busy(d)' /\ Busy(e)' /\ Clash(ask'[d], ask'[e]) => disturbed'[d]
  <2> SUFFICES ASSUME NEW d \in Commands, NEW e \in Commands, d # e, Busy(d)', Busy(e)',
                      Clash(ask'[d], ask'[e])
               PROVE  disturbed'[d]
    OBVIOUS
  <2>1. CASE d = c
    BY <1>1, <1>2, <2>1
  <2>2. CASE d # c /\ e = c
    BY <1>1, <1>2, <2>2
  <2>3. CASE d # c /\ e # c
    BY <1>1, <1>2, <2>3 DEF Histories, Recorded
  <2> QED BY <2>1, <2>2, <2>3
<1>4. \A d \in Commands : Busy(d)' /\ ask'[d].write /\ disturbed'[d] => clash'
  <2> SUFFICES ASSUME NEW d \in Commands, Busy(d)', ask'[d].write, disturbed'[d]
               PROVE  clash'
    OBVIOUS
  <2>1. CASE d = c
    BY <1>1, <2>1
  <2>2. CASE d # c /\ disturbed[d]
    BY <1>1, <1>2, <2>2 DEF Histories, Recorded
  <2>3. CASE d # c /\ ~disturbed[d]
    <3>1. Busy(d) /\ Clash(ask[d], ask'[c]) /\ ask[d].write
      BY <1>1, <1>2, <2>3
    <3>2. ask'[c].write /\ Clash(ask'[c], ask[d])
      BY <3>1, ClashMeans
    <3> QED BY <1>1, <2>3, <3>1, <3>2
  <2> QED BY <2>1, <2>2, <2>3
<1>5. Recorded'
  BY <1>3, <1>4 DEF Recorded
<1>6. ASSUME NEW d \in Commands, Busy(d)', NEW m \in Models PROVE before'[d][m]["size_bytes"] # EmptyFile
  <2>1. CASE d = c
    <3>1. before'[c][m] = Meaning(Text(Home[m]))[m]
      BY DEF Ask, Structure, TypeOK
    <3>2. Home[m] \in Files /\ Valid(Text(Home[m]))
      BY CatalogEnrichAssumption DEF Ask, Loads
    <3>3. Text(Home[m]) \in Seq(Line) /\ Has(Text(Home[m]), m)
      BY <3>2, LoadedHas DEF Valid
    <3>4. Meaning(Text(Home[m]))[m] = [k \in Fields |-> Says(Text(Home[m]), m, k)]
      BY <3>3, MeaningOf
    <3> QED BY <2>1, <3>1, <3>2, <3>4 DEF Valid, Fields
  <2>2. CASE d # c
    BY <1>2, <1>6, <2>2 DEF Histories, LoadedValid
  <2> QED BY <2>1, <2>2
<1>7. LoadedValid'
  BY <1>6 DEF LoadedValid
<1> QED BY <1>5, <1>7 DEF Histories

-----------------------------------------------------------------------------
(***************************************************************************)
(* What a step leaves alone.                                               *)
(***************************************************************************)
\* The texts and the temporaries of the files that a step does not write stay.
LEMMA OtherFiles ==
  ASSUME Structure, NEW c \in Commands, Step(c), NEW f \in Files,
         pc[c] \in {"open", "fill", "replace"} => f # Target(c)
  PROVE  /\ Text(f)' = Text(f) /\ tmp'[f] = tmp[f]
         /\ tmp[f] # 0 => disk'[tmp[f]] = disk[tmp[f]]
<1> USE DEF At
<1>1. CASE UNCHANGED <<disk, file, tmp>>
  BY <1>1 DEF Text
<1>2. CASE OpenTmp(c)
  <2> DEFINE g == Target(c)
  <2>1. g \in Files /\ f # g /\ file' = file
    BY <1>2, TargetIn DEF OpenTmp, Structure, Writing
  <2>2. PICK i \in Inodes :
          /\ i # 0 /\ (i = tmp[g] \/ i \notin Range(file) \cup Range(tmp) \cup Range(open))
          /\ tmp' = [tmp EXCEPT ![g] = i] /\ open' = [open EXCEPT ![c] = i]
          /\ disk' = [disk EXCEPT ![i] = <<>>]
    BY <1>2, OpenTmpInode
  <2> HIDE DEF g
  <2>3. i # file[f] /\ i # tmp[f]
    <3>1. CASE i = tmp[g]
      BY <2>1, <3>1 DEF Structure, InodesApart, BelongsTo
    <3>2. CASE i \notin Range(file) \cup Range(tmp) \cup Range(open)
      BY <3>2 DEF Range, Structure, TypeOK
    <3> QED BY <2>2, <3>1, <3>2
  <2> QED BY <2>1, <2>2, <2>3 DEF Text, Structure, TypeOK
<1>3. CASE Fill(c)
  <2>1. f # Target(c) /\ Target(c) \in Files /\ file' = file /\ tmp' = tmp
    BY <1>3, TargetIn DEF Fill, Structure, Writing
  <2>2. open[c] \in Inodes /\ BelongsTo(open[c], Target(c))
    BY <1>3 DEF Fill, Structure, TypeOK, Progress, BelongsTo
  <2>3. open[c] # file[f] /\ open[c] # tmp[f]
    BY <2>1, <2>2 DEF Structure, InodesApart, BelongsTo
  <2>4. \A j \in Inodes \ {open[c]} : disk'[j] = disk[j]
    BY <1>3 DEF Fill, Structure, TypeOK
  <2> QED BY <2>1, <2>3, <2>4 DEF Text, Structure, TypeOK
<1>4. CASE Replace(c)
  <2>1. f # Target(c) /\ disk' = disk
    BY <1>4 DEF Replace
  <2>2. file'[f] = file[f] /\ tmp'[f] = tmp[f]
    BY <1>4, <2>1 DEF Replace, Structure, TypeOK
  <2> QED BY <2>1, <2>2 DEF Text
<1> QED BY <1>1, <1>2, <1>3, <1>4
    DEF Step, Ask, Measure, Read, Edit, Render, Check, Fault, Forget

\* A command that nobody disturbs has its files to itself while it is at work.
LEMMA FilesApart ==
  ASSUME Structure, Recorded, NEW c \in Commands, NEW d \in Commands \ {c}, Busy(d), ~disturbed[d],
         pc[c] \in Writing, NEW f \in Mine(d)
  PROVE  f # Target(c)
<1>1. Target(c) \in Mine(c) /\ ask[c].write /\ Busy(c)
  BY TargetIn DEF Structure, Progress, Busy, Writing
<1>2. ~Clash(ask[d], ask[c])
  BY <1>1 DEF Recorded
<1> QED BY <1>1, <1>2, ClashMeans DEF Mine

LEMMA MineIn ==
  ASSUME TypeOK, NEW c \in Commands, Busy(c)
  PROVE  /\ Mine(c) \subseteq Files /\ Range(ask[c].models) \subseteq Models
         /\ \A m \in Range(ask[c].models) : Home[m] \in Mine(c)
<1>1. ask[c].models \in Seq(Models)
  BY CatalogEnrichAssumption DEF TypeOK, Busy, Asked
<1>2. Range(ask[c].models) \subseteq Models
  BY <1>1, RangeOfModels
<1> QED BY <1>2, CatalogEnrichAssumption DEF Mine, FilesOf

LEMMA HistoriesGrow ==
  ASSUME Structure, Histories, NEW c \in Commands, Step(c), NEW d \in Commands \ {c}, Busy(d)
  PROVE  (disturbed[d] => disturbed'[d]) /\ (clash => clash')
<1>1. CASE Ask(c)
  BY <1>1, AskRecords
<1>2. CASE ~Ask(c)
  <2>1. Busy(d)'
    BY OthersSame DEF Same, Busy, Structure
  <2> QED BY <1>2, <2>1, OtherStepHistories
<1> QED BY <1>1, <1>2

\* What holds of a command that nobody disturbs holds of it after a step of another.
LEMMA OtherStepGood ==
  ASSUME Structure, Histories, NEW c \in Commands, Step(c), NEW d \in Commands \ {c},
         Busy(d), ~disturbed'[d], Good(d)
  PROVE  Good(d)'
<1>1. Same(d) /\ Target(d)' = Target(d) /\ Mine(d)' = Mine(d)
  BY OthersSame, ProgressStays DEF Structure, Same, Mine
<1>2. ~disturbed[d] /\ (clash => clash')
  BY HistoriesGrow
<1>3. ASSUME NEW f \in Mine(d)
      PROVE  f \in Files /\ Text(f)' = Text(f) /\ tmp'[f] = tmp[f] /\ (tmp[f] # 0 => disk'[tmp[f]] = disk[tmp[f]])
  <2>1. f \in Files
    BY MineIn DEF Structure
  <2>2. pc[c] \in {"open", "fill", "replace"} => f # Target(c)
    BY <1>2, FilesApart DEF Histories, Writing
  <2> QED BY <2>1, <2>2, OtherFiles
<1>4. /\ \A m : Announced(d, m)' = Announced(d, m)
      /\ \A m : Written(d, m)' = Written(d, m)
  BY <1>1 DEF Announced, Updates, Written, Same
<1>5. pc[d] \in Writing => Target(d) \in Mine(d)
  BY TargetIn DEF Structure
<1>6. FilesSay(d)'
  <2>1. \A f \in Mine(d)' : Whole(Text(f))'
    BY <1>1, <1>3 DEF Good, FilesSay
  <2>2. pc'[d] = "measure" => \A m \in Models : Home[m] \in Mine(d)' => TextSays(Text(Home[m]), d, m, FALSE)'
    BY <1>1, <1>3 DEF Good, FilesSay, TextSays, Same
  <2>3. pc'[d] \in Writing \cup {"check"} =>
          \A m \in Models : Home[m] \in Mine(d)' => TextSays(Text(Home[m]), d, m, Written(d, m))'
    BY <1>1, <1>3, <1>4 DEF Good, FilesSay, TextSays, Same
  <2>4. pc'[d] \in Writing \cup {"check"} =>
          \A m \in Models \ todo'[d] : ~Written(d, m)' => Announced(d, m)' = before'[d][m]
    BY <1>1, <1>4 DEF Good, FilesSay, Same
  <2>5. pc'[d] = "check" => todo'[d] = {}
    BY <1>1 DEF Good, FilesSay, Same
  <2> QED BY <2>1, <2>2, <2>3, <2>4, <2>5 DEF FilesSay
<1>7. TextIs(d)'
  <2>1. pc[d] \in {"edit", "open", "fill", "replace"} => Target(d) \in Mine(d)
    BY <1>5 DEF Writing
  <2>2. pc[d] = "fill" => tmp[Target(d)] # 0
    BY DEF Good, TextIs, Structure, Progress
  <2>3. pc'[d] \in {"edit", "open", "fill", "replace"} =>
         /\ Whole(text'[d])
         /\ \A m \in Models : /\ Home[m] = Target(d)' => TextSays(text[d], d, m, pc[d] # "edit" \/ m \notin edits[d])'
                              /\ Plain(text'[d], m) <=> Plain(Text(Target(d))', m)
    BY <1>1, <1>3, <1>4, <2>1 DEF Good, TextIs, TextSays, Same
  <2>4. pc'[d] = "fill" => open'[d] = tmp'[Target(d)'] /\ disk'[open'[d]] = <<>>
    BY <1>1, <1>3, <2>1, <2>2 DEF Good, TextIs, Same
  <2>5. pc'[d] = "replace" => tmp'[Target(d)'] # 0 /\ disk'[tmp'[Target(d)']] = text'[d]
    BY <1>1, <1>3, <2>1, <2>2 DEF Good, TextIs, Same
  <2> QED BY <1>1, <1>3, <2>1, <2>3, <2>4, <2>5 DEF TextIs
<1>8. DoneRight(d)'
  <2>1. Smooth(d)' => Smooth(d)
    <3>1. \A m \in Range(ask[d].models) : Home[m] \in Mine(d)
      BY MineIn DEF Structure
    <3> QED BY <1>1, <1>2, <1>3, <3>1 DEF Smooth, Same
  <2>2. ASSUME NEW f \in Mine(d), FileRight(d, f) PROVE FileRight(d, f)'
    <3>1. Text(f)' = Text(f) /\ answer'[d] = answer[d] /\ before'[d] = before[d]
      BY <1>1, <1>3 DEF Same
    <3>2. SaysDone(Text(f), d, f)' <=> SaysDone(Text(f), d, f)
      BY <1>4, <3>1 DEF SaysDone
    <3>3. SaysNone(Text(f), d, f)' <=> SaysNone(Text(f), d, f)
      BY <3>1 DEF SaysNone
    <3> QED BY <2>2, <3>1, <3>2, <3>3 DEF FileRight
  <2> QED BY <1>1, <2>1, <2>2 DEF Good, DoneRight, Same
<1> QED BY <1>6, <1>7, <1>8 DEF Good

-----------------------------------------------------------------------------
(***************************************************************************)
(* A step of the command itself, when nobody disturbs it.                  *)
(***************************************************************************)
\* A whole text of a file is valid when no model of the file has no bytes in it.
LEMMA ValidText ==
  ASSUME NEW f, NEW t \in Seq(Line), Fine(f, t), Whole(t),
         \A m \in Models : Home[m] = f => Says(t, m, "size_bytes") # EmptyFile
  PROVE  Valid(t)
<1>1. ASSUME NEW m \in Models, Home[m] # f PROVE Says(t, m, "size_bytes") # EmptyFile
  <2>1. ~Has(t, m)
    BY <1>1 DEF Fine, Whole
  <2> QED BY <2>1, SaysOfAbsent, CatalogEnrichAssumption
<1> QED BY <1>1 DEF Valid, Whole

LEMMA BeforeType ==
  ASSUME TypeOK, NEW c \in Commands, Busy(c), NEW m \in Models
  PROVE  /\ before[c][m] = [k \in Fields |-> before[c][m][k]]
         /\ Announced(c, m) = [k \in Fields |-> Announced(c, m)[k]]
<1>1. before[c][m] \in [Fields -> Contents \cup {Nothing}]
  BY DEF TypeOK, Busy, Loaded
<1> QED BY <1>1 DEF Announced

LEMMA SaysAll ==
  ASSUME TypeOK, NEW c \in Commands, Busy(c), NEW f, NEW t \in Seq(Line), Fine(f, t), t # <<>>
  PROVE  /\ (\A m \in Models : Home[m] = f => TextSays(t, c, m, TRUE)) => SaysDone(t, c, f)
         /\ (\A m \in Models : Home[m] = f => TextSays(t, c, m, FALSE)) => SaysNone(t, c, f)
<1>1. ASSUME \A m \in Models : Home[m] = f => TextSays(t, c, m, TRUE)
      PROVE  SaysDone(t, c, f)
  <2>1. ASSUME NEW m \in Models, Home[m] = f PROVE Announced(c, m) = [k \in Fields |-> Says(t, m, k)]
    <3>1. \A k \in Fields : Says(t, m, k) = Announced(c, m)[k]
      BY <1>1, <2>1 DEF TextSays
    <3> QED BY <3>1, BeforeType
  <2>2. {x \in Models : Has(t, x)} = {x \in Models : Home[x] = f}
    BY DEF Fine
  <2> QED BY <2>1, <2>2 DEF SaysDone, Meaning
<1>2. ASSUME \A m \in Models : Home[m] = f => TextSays(t, c, m, FALSE)
      PROVE  SaysNone(t, c, f)
  <2>1. ASSUME NEW m \in Models, Home[m] = f PROVE before[c][m] = [k \in Fields |-> Says(t, m, k)]
    <3>1. \A k \in Fields : Says(t, m, k) = before[c][m][k]
      BY <1>2, <2>1 DEF TextSays
    <3> QED BY <3>1, BeforeType
  <2>2. {x \in Models : Has(t, x)} = {x \in Models : Home[x] = f}
    BY DEF Fine
  <2> QED BY <2>1, <2>2 DEF SaysNone, Meaning
<1> QED BY <1>1, <1>2

\* Of a model that is not to change, what was there is announced.
LEMMA Unchanged ==
  ASSUME TypeOK, NEW c \in Commands, Busy(c), NEW m \in Models, ~ask[c].write \/ m \notin Changed(c)
  PROVE  Announced(c, m) = before[c][m]
<1>1. ~(m \in Range(ask[c].models) /\ ask[c].write /\ \E k \in Fields : k \in DOMAIN Updates(c, m))
  BY DEF Changed
<1> QED BY <1>1, BeforeType DEF Announced

LEMMA SizesAnnounced ==
  ASSUME TypeOK, LoadedValid, NEW c \in Commands, Busy(c), NEW m \in Models
  PROVE  /\ before[c][m]["size_bytes"] # EmptyFile
         /\ local[m] # EmptyFile => Announced(c, m)["size_bytes"] # EmptyFile
<1>1. before[c][m]["size_bytes"] # EmptyFile
  BY DEF LoadedValid
<1> QED BY <1>1 DEF Announced, Fields

\* A file of the command: its text, and what is fine about it.
LEMMA MyText ==
  ASSUME Structure, NEW c \in Commands, Busy(c), NEW f \in Mine(c)
  PROVE  f \in Files /\ Text(f) \in Seq(Line) /\ Fine(f, Text(f))
<1>1. f \in Files
  BY MineIn DEF Structure
<1>2. Text(f) \in Seq(Line) /\ file[f] \in Inodes
  BY <1>1, TextType DEF Structure
<1>3. BelongsTo(file[f], f)
  BY DEF BelongsTo
<1> QED BY <1>1, <1>2, <1>3 DEF Structure, TextsFine, Text

\* While it is at work each of its files says all that it announced, or what was there.
LEMMA DoneOrNone ==
  ASSUME Structure, NEW c \in Commands, Busy(c), pc[c] # "done", FilesSay(c), NEW f \in Mine(c)
  PROVE  (SaysDone(Text(f), c, f) \/ SaysNone(Text(f), c, f)) /\ Parses(Text(f))
<1>1. f \in Files /\ Text(f) \in Seq(Line) /\ Fine(f, Text(f)) /\ TypeOK
  BY MyText DEF Structure
<1>2. Whole(Text(f)) /\ Text(f) # <<>>
  BY DEF FilesSay, Whole
<1>3. \/ \A m \in Models : Home[m] = f => TextSays(Text(f), c, m, TRUE)
      \/ \A m \in Models : Home[m] = f => TextSays(Text(f), c, m, FALSE)
  <2>1. CASE pc[c] = "measure"
    BY <2>1 DEF FilesSay
  <2>2. CASE pc[c] \in Writing \cup {"check"}
    <3>1. \A m \in Models : Home[m] = f => (Written(c, m) <=> ~\E x \in todo[c] : Home[x] = f)
      BY DEF Written
    <3>2. \A m \in Models : Home[m] = f => TextSays(Text(f), c, m, Written(c, m))
      BY <2>2 DEF FilesSay
    <3> QED BY <3>1, <3>2 DEF TextSays
  <2> QED BY <2>1, <2>2 DEF Structure, TypeOK, Busy, Writing
<1> QED BY <1>1, <1>2, <1>3, SaysAll DEF Whole

\* So when it ends where it stands, and not with a failure without a reason, that is right.
LEMMA EndsRight ==
  ASSUME Structure, NEW c \in Commands, Busy(c), pc[c] # "done", FilesSay(c),
         pc'[c] = "done", answer'[c] \in {"failed", "cut"},
         UNCHANGED <<disk, file, local>>, ask'[c] = ask[c], before'[c] = before[c],
         Smooth(c)' => answer'[c] # "failed"
  PROVE  Good(c)'
<1>1. Mine(c)' = Mine(c) /\ \A f : Text(f)' = Text(f)
  BY DEF Mine, Text
<1>2. \A m : Announced(c, m)' = Announced(c, m)
  BY DEF Announced, Updates
<1>3. ASSUME NEW f \in Mine(c) PROVE FileRight(c, f)'
  <2>1. (SaysDone(Text(f), c, f) \/ SaysNone(Text(f), c, f)) /\ Parses(Text(f))
    BY DoneOrNone
  <2>2. SaysDone(Text(f), c, f)' <=> SaysDone(Text(f), c, f)
    BY <1>1, <1>2 DEF SaysDone
  <2>3. SaysNone(Text(f), c, f)' <=> SaysNone(Text(f), c, f)
    BY <1>1 DEF SaysNone
  <2> QED BY <1>1, <2>1, <2>2, <2>3 DEF FileRight
<1>4. FilesSay(c)'
  BY <1>1 DEF FilesSay, Writing
<1>5. TextIs(c)'
  BY DEF TextIs
<1> QED BY <1>1, <1>3, <1>4, <1>5 DEF Good, DoneRight

\* The catalogue as it has been loaded is what its files say.
LEMMA AskGood ==
  ASSUME Structure, NEW c \in Commands, Ask(c)
  PROVE  Good(c)'
<1>1. pc'[c] = "measure" /\ (\A f : Text(f)' = Text(f)) /\ \A f \in Files : Valid(Text(f))
  BY DEF Ask, Goto, Text, Loads, Structure, TypeOK
<1>2. Mine(c)' \subseteq Files /\ \A m \in Models : Home[m] \in Files
  <2>1. ask'[c].models \in Seq(Models)
    BY AskRecords, CatalogEnrichAssumption DEF Asked
  <2>2. Range(ask'[c].models) \subseteq Models
    BY <2>1, RangeOfModels
  <2> QED BY <2>2, CatalogEnrichAssumption DEF Mine, FilesOf
<1>3. ASSUME NEW m \in Models PROVE TextSays(Text(Home[m]), c, m, FALSE)'
  <2>1. before'[c][m] = Meaning(Text(Home[m]))[m]
    BY DEF Ask, Structure, TypeOK
  <2>2. Text(Home[m]) # <<>>
    BY <1>1, <1>2 DEF Valid
  <2>3. Meaning(Text(Home[m]))[m] = [k \in Fields |-> Says(Text(Home[m]), m, k)]
    BY <2>2, LoadedHas, MeaningOf
  <2> QED BY <1>1, <2>1, <2>3 DEF TextSays
<1>4. FilesSay(c)'
  BY <1>1, <1>2, <1>3 DEF FilesSay, Valid, Whole, Writing
<1> QED BY <1>1, <1>4 DEF Good, TextIs, DoneRight

\* Measuring fails for a reason only.
LEMMA MeasureGood ==
  ASSUME Structure, Histories, GoesOnLoading, NEW c \in Commands, Measure(c), Good(c)
  PROVE  Good(c)'
<1> USE DEF At, Goto, Answer
<1>1. /\ pc[c] = "measure" /\ Busy(c)
      /\ UNCHANGED <<disk, file, tmp, local, ask, before, edits, text, open, clash>>
      /\ Mine(c)' = Mine(c) /\ (\A f : Text(f)' = Text(f)) /\ TypeOK
      /\ \A m : Announced(c, m)' = Announced(c, m)
  BY DEF Measure, Busy, Mine, Text, Structure, Announced, Updates
<1>2. \A m \in Models : Home[m] \in Mine(c) => TextSays(Text(Home[m]), c, m, FALSE)
  BY <1>1 DEF Good, FilesSay
<1>3. ASSUME NEW m \in Models, ~ask[c].write \/ m \notin Changed(c)
      PROVE  TextSays(Text(Home[m]), c, m, TRUE) <=> TextSays(Text(Home[m]), c, m, FALSE)
  BY <1>1, <1>3, Unchanged DEF TextSays
<1> DEFINE found == \A m \in Range(ask[c].models) :
                      local[m] # Nothing /\ Parses(Text(Home[m])) /\ Has(Text(Home[m]), m)
<1>4. CASE (~found \/ \E f \in Files : ~Parses(Text(f))) /\ Answer(c, "failed")
  <2>1. pc'[c] = "done" /\ answer'[c] = "failed"
    BY <1>1, <1>4 DEF TypeOK
  <2>2. ~Smooth(c)'
    <3> SUFFICES ASSUME Smooth(c)' PROVE FALSE
      OBVIOUS
    <3>1. ~clash /\ (\A m \in Models : local[m] # EmptyFile) /\ \A m \in Range(ask[c].models) : local[m] # Nothing
      BY <1>1 DEF Smooth
    <3>2. \A f \in Files : Valid(Text(f))
      BY <1>1, <3>1 DEF GoesOnLoading
    <3>3. ASSUME NEW m \in Range(ask[c].models) PROVE Parses(Text(Home[m])) /\ Has(Text(Home[m]), m)
      <4>1. m \in Models /\ Home[m] \in Files
        BY <1>1, MineIn, CatalogEnrichAssumption
      <4> QED BY <3>2, <4>1, LoadedHas DEF Valid
    <3>4. found
      BY <3>1, <3>3
    <3> QED BY <1>4, <3>2, <3>4 DEF Valid
  <2> QED BY <1>1, <2>1, <2>2, EndsRight DEF Good
<1>5. CASE (~ask[c].write \/ Changed(c) = {}) /\ Answer(c, "ok")
  <2>1. pc'[c] = "done" /\ answer'[c] = "ok"
    BY <1>1, <1>5 DEF TypeOK
  <2>2. ASSUME NEW f \in Mine(c) PROVE FileRight(c, f)'
    <3>1. f \in Files /\ Text(f) \in Seq(Line) /\ Fine(f, Text(f)) /\ Whole(Text(f))
      BY <1>1, MyText DEF Good, FilesSay
    <3>2. \A m \in Models : Home[m] = f => TextSays(Text(f), c, m, TRUE) /\ TextSays(Text(f), c, m, FALSE)
      BY <1>2, <1>3, <1>5
    <3>3. SaysDone(Text(f), c, f)
      BY <1>1, <3>1, <3>2, SaysAll DEF Whole
    <3>4. Valid(Text(f))
      <4>1. \A m \in Models : Home[m] = f => Says(Text(f), m, "size_bytes") # EmptyFile
        BY <1>1, <3>2, SizesAnnounced DEF TextSays, Histories, Fields
      <4> QED BY <3>1, <4>1, ValidText
    <3>5. SaysDone(Text(f), c, f)'
      BY <1>1, <3>3 DEF SaysDone
    <3> QED BY <1>1, <2>1, <3>4, <3>5 DEF FileRight
  <2>3. FilesSay(c)' /\ TextIs(c)'
    BY <1>1, <2>1 DEF Good, FilesSay, TextIs, Writing
  <2> QED BY <1>1, <2>1, <2>2, <2>3 DEF Good, DoneRight
<1>6. CASE Goto(c, "read") /\ todo' = [todo EXCEPT ![c] = Changed(c)]
  <2>1. pc'[c] = "read" /\ todo'[c] = Changed(c)
    BY <1>1, <1>6 DEF TypeOK
  <2>2. \A m \in Models : Home[m] \in Mine(c)' => TextSays(Text(Home[m]), c, m, Written(c, m))'
    <3> SUFFICES ASSUME NEW m \in Models, Home[m] \in Mine(c)
                 PROVE  TextSays(Text(Home[m]), c, m, Written(c, m))'
      BY <1>1
    <3>1. CASE Written(c, m)'
      <4>1. m \notin Changed(c)
        BY <2>1, <3>1 DEF Written
      <4> QED BY <1>1, <1>2, <1>3, <3>1, <4>1 DEF TextSays
    <3>2. CASE ~Written(c, m)'
      BY <1>1, <1>2, <3>2 DEF TextSays
    <3> QED BY <3>1, <3>2
  <2>3. \A m \in Models \ todo'[c] : Announced(c, m)' = before'[c][m]
    BY <1>1, <2>1, Unchanged
  <2>4. FilesSay(c)'
    BY <1>1, <2>1, <2>2, <2>3 DEF Good, FilesSay
  <2> QED BY <2>1, <2>4 DEF Good, TextIs, DoneRight
<1> QED BY <1>4, <1>5, <1>6 DEF Measure

\* What is read of a file that is yet to be written is what was there.
LEMMA ReadGood ==
  ASSUME Structure, NEW c \in Commands, Read(c), Good(c)
  PROVE  Good(c)'
<1> USE DEF At, Goto
<1>1. /\ pc[c] = "read" /\ pc'[c] = "edit" /\ TypeOK /\ Target(c)' = Target(c)
      /\ UNCHANGED <<disk, file, tmp, local, ask, before, todo, open, answer, clash>>
      /\ Mine(c)' = Mine(c) /\ (\A f : Text(f)' = Text(f))
      /\ \A m : Announced(c, m)' = Announced(c, m) /\ Written(c, m)' = Written(c, m)
  BY DEF Read, Mine, Text, Structure, Announced, Updates, Target, Written, TypeOK
<1>2. /\ text'[c] = Text(Target(c))
      /\ edits'[c] = {m \in todo[c] : Home[m] = Target(c)}
  BY DEF Read, Structure, TypeOK
<1>3. Target(c) \in Mine(c) /\ \E m \in todo[c] : Home[m] = Target(c)
  BY <1>1, TargetIn DEF Structure, Writing
<1>4. FilesSay(c)'
  BY <1>1 DEF Good, FilesSay, TextSays, Writing
<1>5. ASSUME NEW m \in Models, Home[m] = Target(c)
      PROVE  TextSays(text[c], c, m, pc[c] # "edit" \/ m \notin edits[c])'
  <2>1. ~Written(c, m) /\ TextSays(Text(Home[m]), c, m, FALSE)
    BY <1>1, <1>3, <1>5 DEF Written, Good, FilesSay, TextSays, Writing
  <2>2. m \notin edits'[c] => Announced(c, m) = before[c][m]
    BY <1>1, <1>2, <1>5, <2>1 DEF Good, FilesSay, Writing
  <2> QED BY <1>1, <1>2, <1>5, <2>1, <2>2 DEF TextSays
<1>6. TextIs(c)'
  BY <1>1, <1>2, <1>3, <1>5 DEF TextIs, Good, FilesSay
<1> QED BY <1>1, <1>4, <1>6 DEF Good, DoneRight

\* An edit makes of one model in the text what is announced of it, and leaves the others.
LEMMA EditGood ==
  ASSUME Structure, NEW c \in Commands, Edit(c), Good(c)
  PROVE  Good(c)'
<1> USE DEF At, Goto, Answer
<1> DEFINE m == FirstOf(ask[c].models, edits[c])
           u == UpdateLines(text[c], m, Updates(c, m))
<1>1. /\ pc[c] = "edit" /\ edits[c] # {} /\ TypeOK /\ Target(c)' = Target(c) /\ Busy(c)
      /\ UNCHANGED <<disk, file, tmp, local, ask, before, todo, open, clash>>
      /\ Mine(c)' = Mine(c) /\ (\A f : Text(f)' = Text(f))
      /\ \A x : Announced(c, x)' = Announced(c, x) /\ Written(c, x)' = Written(c, x)
  BY DEF Edit, Mine, Text, Structure, Announced, Updates, Target, Written, Busy
<1>2. /\ ask[c].write /\ todo[c] \subseteq Range(ask[c].models)
      /\ edits[c] \subseteq {x \in todo[c] : Home[x] = Target(c)} /\ Fine(Target(c), text[c])
      /\ \A x \in Range(ask[c].models) : local[x] # Nothing
  BY <1>1 DEF Structure, Progress, Writing
<1>3. m \in edits[c] /\ m \in Range(ask[c].models) /\ m \in Models /\ Home[m] = Target(c)
  <2>1. ask[c].models \in Seq(Models)
    BY <1>1, CatalogEnrichAssumption DEF TypeOK, Asked
  <2>2. m \in edits[c] \cap Range(ask[c].models)
    BY <1>1, <1>2, <2>1, FirstOfIn
  <2> QED BY <1>2, <2>1, <2>2, RangeOfModels
<1>4. /\ text[c] \in Seq(Line) /\ Whole(text[c])
      /\ \A x \in Models : /\ Home[x] = Target(c) => TextSays(text[c], c, x, x \notin edits[c])
                           /\ Plain(text[c], x) <=> Plain(Text(Target(c)), x)
  BY <1>1 DEF TypeOK, Good, TextIs
<1>5. NotedFirst(text[c])
  BY <1>2, <1>4, ParsesHeadersOnce DEF Fine, Whole
<1>6. CASE Plain(text[c], m)
  <2>1. \E D \in SUBSET Fields : Updates(c, m) \in [D -> {local[m]}] /\ Updates(c, m) \in [D -> Contents]
    <3>1. local[m] \in Contents
      BY <1>1, <1>2, <1>3 DEF TypeOK
    <3> QED BY <1>1, <1>3, <3>1, UpdatesType
  <2> HIDE DEF m
  <2>2. PICK D \in SUBSET Fields : Updates(c, m) \in [D -> {local[m]}] /\ Updates(c, m) \in [D -> Contents]
    BY <2>1
  <2>3. u \in Seq(Line) /\ \A x : Plain(u, x) <=> Plain(text[c], x)
    <3>1. DOMAIN Updates(c, m) \in SUBSET Fields /\ Updates(c, m) \in [DOMAIN Updates(c, m) -> Contents]
      BY <2>2
    <3> QED BY <1>4, <1>6, <3>1, UpdateLinesHeaders
  <2>4. /\ Whole(u)
        /\ \A k \in Fields : Says(u, m, k) = IF k \in D THEN Updates(c, m)[k] ELSE Says(text[c], m, k)
        /\ \A x, k : k \in Fields /\ x # m => Says(u, x, k) = Says(text[c], x, k)
    BY <1>3, <1>4, <1>5, <1>6, <2>2, UpdateLinesSays
  <2>5. text' = [text EXCEPT ![c] = u] /\ edits' = [edits EXCEPT ![c] = @ \ {m}] /\ pc' = pc
    BY <1>6 DEF Edit, m
  <2> HIDE DEF u
  <2>6. text'[c] = u /\ edits'[c] = edits[c] \ {m} /\ pc'[c] = "edit"
    BY <1>1, <2>5 DEF TypeOK
  <2>7. TextSays(u, c, m, TRUE)
    <3>1. TextSays(text[c], c, m, FALSE)
      BY <1>3, <1>4 DEF TextSays
    <3>2. DOMAIN Updates(c, m) = D /\ \A k \in D : Updates(c, m)[k] = local[m]
      BY <2>2
    <3>3. ASSUME NEW k \in Fields PROVE Says(u, m, k) = Announced(c, m)[k]
      <4>1. Announced(c, m)[k] = IF k \in D THEN local[m] ELSE before[c][m][k]
        BY <1>2, <1>3, <3>2 DEF Announced
      <4>2. Says(text[c], m, k) = before[c][m][k]
        BY <3>1 DEF TextSays
      <4> QED BY <2>4, <3>2, <4>1, <4>2
    <3> QED BY <3>3 DEF TextSays
  <2>8. ASSUME NEW x \in Models, Home[x] = Target(c)
        PROVE  TextSays(text[c], c, x, pc[c] # "edit" \/ x \notin edits[c])'
    <3>1. CASE x = m
      BY <1>1, <2>6, <2>7, <3>1 DEF TextSays
    <3>2. CASE x # m
      <4>1. x \notin edits'[c] <=> x \notin edits[c]
        BY <2>6, <3>2
      <4>2. TextSays(text[c], c, x, x \notin edits[c])
        BY <1>4, <2>8
      <4> QED BY <1>1, <2>4, <2>6, <3>2, <4>1, <4>2 DEF TextSays
    <3> QED BY <3>1, <3>2
  <2>9. TextIs(c)'
    BY <1>1, <1>4, <2>3, <2>4, <2>6, <2>8 DEF TextIs
  <2>10. FilesSay(c)'
    BY <1>1, <2>6 DEF Good, FilesSay, TextSays, Writing
  <2> QED BY <2>6, <2>9, <2>10 DEF Good, DoneRight
<1>7. CASE ~Plain(text[c], m)
  <2>1. pc'[c] = "done" /\ answer'[c] = "failed"
    BY <1>1, <1>7 DEF Edit, TypeOK
  <2>2. ~Plain(Text(Home[m]), m)
    BY <1>3, <1>4, <1>7
  <2>3. ~Smooth(c)'
    BY <1>1, <1>3, <2>2 DEF Smooth
  <2> QED BY <1>1, <2>1, <2>3, EndsRight DEF Good
<1> QED BY <1>6, <1>7

\* The new text is TOML always.
LEMMA RenderGood ==
  ASSUME Structure, NEW c \in Commands, Render(c), Good(c)
  PROVE  Good(c)'
<1> USE DEF At, Goto, Answer
<1>1. /\ pc[c] = "edit" /\ edits[c] = {} /\ TypeOK /\ Target(c)' = Target(c)
      /\ UNCHANGED <<disk, file, tmp, local, ask, before, todo, edits, text, open, clash>>
      /\ Mine(c)' = Mine(c) /\ (\A f : Text(f)' = Text(f))
      /\ \A x : Announced(c, x)' = Announced(c, x) /\ Written(c, x)' = Written(c, x)
  BY DEF Render, Mine, Text, Structure, Announced, Updates, Target, Written
<1>2. Whole(text[c])
  BY <1>1 DEF Good, TextIs
<1>3. pc'[c] = "open"
  BY <1>1, <1>2 DEF Render, Whole, TypeOK
<1>4. TextIs(c)'
  BY <1>1, <1>3 DEF Good, TextIs, TextSays
<1>5. FilesSay(c)'
  BY <1>1, <1>3 DEF Good, FilesSay, TextSays, Writing
<1> QED BY <1>3, <1>4, <1>5 DEF Good, DoneRight

\* No other file of the command is at an inode that it opens or writes.
LEMMA OpenTmpGood ==
  ASSUME Structure, NEW c \in Commands, OpenTmp(c), Good(c)
  PROVE  Good(c)' /\ \A f \in Mine(c) : Text(f)' = Text(f)
<1> USE DEF At, Goto
<1>1. /\ pc[c] = "open" /\ pc'[c] = "fill" /\ TypeOK /\ Target(c)' = Target(c) /\ Busy(c)
      /\ UNCHANGED <<file, local, ask, before, todo, edits, text, answer, clash>>
      /\ Mine(c)' = Mine(c)
      /\ \A x : Announced(c, x)' = Announced(c, x) /\ Written(c, x)' = Written(c, x)
  BY DEF OpenTmp, Mine, Structure, Announced, Updates, Target, Written, TypeOK, Busy
<1>2. Target(c) \in Files /\ Target(c) \in Mine(c)
  BY <1>1, TargetIn DEF Structure, Writing
<1> DEFINE g == Target(c)
<1>3. PICK i \in Inodes :
        /\ i # 0 /\ (i = tmp[g] \/ i \notin Range(file) \cup Range(tmp) \cup Range(open))
        /\ tmp' = [tmp EXCEPT ![g] = i] /\ open' = [open EXCEPT ![c] = i]
        /\ disk' = [disk EXCEPT ![i] = <<>>]
  BY OpenTmpInode
<1>4. open'[c] = i /\ tmp'[g] = i /\ disk'[i] = <<>>
  BY <1>1, <1>2, <1>3 DEF TypeOK
<1>5. ASSUME NEW f \in Mine(c) PROVE Text(f)' = Text(f)
  <2>1. f \in Files
    BY <1>1, MineIn
  <2>2. CASE f # g
    BY <2>1, <2>2, OtherFiles DEF Step
  <2>3. CASE f = g
    <3>1. i # file[f]
      <4>1. CASE i = tmp[g]
        BY <2>1, <2>3, <4>1 DEF Structure, InodesApart
      <4>2. CASE i \notin Range(file) \cup Range(tmp) \cup Range(open)
        BY <1>1, <2>1, <4>2 DEF Range, TypeOK
      <4> QED BY <1>3, <4>1, <4>2
    <3> QED BY <1>1, <1>3, <2>1, <3>1 DEF Text, TypeOK
  <2> QED BY <2>2, <2>3
<1>6. FilesSay(c)'
  BY <1>1, <1>5 DEF Good, FilesSay, TextSays, Writing
<1>7. TextIs(c)'
  BY <1>1, <1>2, <1>4, <1>5 DEF Good, TextIs, TextSays
<1> QED BY <1>1, <1>5, <1>6, <1>7 DEF Good, DoneRight

LEMMA FillGood ==
  ASSUME Structure, NEW c \in Commands, Fill(c), Good(c)
  PROVE  Good(c)' /\ \A f \in Mine(c) : Text(f)' = Text(f)
<1> USE DEF At, Goto
<1>1. /\ pc[c] = "fill" /\ pc'[c] = "replace" /\ TypeOK /\ Target(c)' = Target(c) /\ Busy(c)
      /\ UNCHANGED <<file, tmp, local, ask, before, todo, edits, text, answer, clash>>
      /\ Mine(c)' = Mine(c)
      /\ \A x : Announced(c, x)' = Announced(c, x) /\ Written(c, x)' = Written(c, x)
  BY DEF Fill, Mine, Structure, Announced, Updates, Target, Written, TypeOK, Busy
<1> DEFINE g == Target(c)
<1>2. g \in Files /\ g \in Mine(c)
  BY <1>1, TargetIn DEF Structure, Writing
<1>3. open[c] = tmp[g] /\ disk[open[c]] = <<>> /\ open[c] # 0 /\ open[c] \in Inodes /\ open[c] # file[g]
  <2>1. open[c] = tmp[g] /\ disk[open[c]] = <<>> /\ open[c] # 0
    BY <1>1 DEF Good, TextIs, Structure, Progress
  <2> QED BY <1>1, <1>2, <2>1 DEF TypeOK, Structure, InodesApart
<1> DEFINE w == text[c] \o SubSeq(disk[open[c]], Len(text[c]) + 1, Len(disk[open[c]]))
<1>4. w = text[c]
  <2>1. text[c] \in Seq(Line) /\ Len(text[c]) \in Nat
    BY <1>1, LenProperties DEF TypeOK
  <2>2. SubSeq(<<>>, Len(text[c]) + 1, Len(<<>>)) = <<>>
    BY <2>1
  <2>3. text[c] \o <<>> = text[c]
    BY <2>1
  <2> QED BY <1>3, <2>2, <2>3
<1>5. disk' = [disk EXCEPT ![open[c]] = w]
  BY DEF Fill
<1> HIDE DEF w
<1>6. disk'[tmp[g]] = text[c] /\ \A j \in Inodes \ {open[c]} : disk'[j] = disk[j]
  BY <1>1, <1>3, <1>4, <1>5 DEF TypeOK
<1>7. ASSUME NEW f \in Mine(c) PROVE Text(f)' = Text(f)
  <2>1. f \in Files
    BY <1>1, MineIn
  <2>2. CASE f # g
    BY <2>1, <2>2, OtherFiles DEF Step
  <2>3. CASE f = g
    BY <1>1, <1>3, <1>6, <2>1, <2>3 DEF Text, TypeOK
  <2> QED BY <2>2, <2>3
<1>8. FilesSay(c)'
  BY <1>1, <1>7 DEF Good, FilesSay, TextSays, Writing
<1>9. TextIs(c)'
  BY <1>1, <1>2, <1>3, <1>6, <1>7 DEF Good, TextIs, TextSays
<1> QED BY <1>1, <1>7, <1>8, <1>9 DEF Good, DoneRight

\* Its temporary is there, and what it has replaced says what it announced.
LEMMA ReplaceGood ==
  ASSUME Structure, NEW c \in Commands, Replace(c), Good(c)
  PROVE  /\ Good(c)' /\ \A f \in Files : f = Target(c) => Text(f)' = text[c]
         /\ Whole(text[c]) /\ \A m \in Models : Home[m] = Target(c) => TextSays(text[c], c, m, TRUE)
<1> USE DEF At, Goto
<1>1. /\ pc[c] = "replace" /\ TypeOK /\ Busy(c)
      /\ UNCHANGED <<disk, local, ask, before, edits, text, open, clash>>
      /\ Mine(c)' = Mine(c)
      /\ \A x : Announced(c, x)' = Announced(c, x)
  BY DEF Replace, Mine, Structure, Announced, Updates, Busy
<1>2. PICK g \in Files : g = Target(c) /\ g \in Mine(c)
  BY <1>1, TargetIn DEF Structure, Writing
<1> DEFINE rest == {m \in todo[c] : Home[m] # g}
<1>3. /\ tmp[g] # 0 /\ disk[tmp[g]] = text[c] /\ Whole(text[c])
      /\ \A m \in Models : Home[m] = g => TextSays(text[c], c, m, TRUE)
  BY <1>1, <1>2 DEF Good, TextIs
<1>4. /\ file' = [file EXCEPT ![g] = tmp[g]] /\ todo' = [todo EXCEPT ![c] = rest]
      /\ pc' = [pc EXCEPT ![c] = IF rest # {} THEN "read" ELSE "check"] /\ UNCHANGED answer
  BY <1>2, <1>3 DEF Replace
<1>5. /\ todo'[c] = rest /\ pc'[c] = IF rest # {} THEN "read" ELSE "check"
  BY <1>1, <1>4 DEF TypeOK
<1>6. Text(g)' = text[c]
  BY <1>1, <1>2, <1>3, <1>4 DEF Text, TypeOK
<1>7. ASSUME NEW f \in Mine(c), f # g PROVE Text(f)' = Text(f)
  BY <1>1, <1>2, <1>7, OtherFiles, MineIn DEF Step
<1>8. /\ \A m \in Models : Home[m] = g => Written(c, m)'
      /\ \A m \in Models : Home[m] # g => (Written(c, m)' <=> Written(c, m))
  BY <1>5 DEF Written
<1>9. ASSUME NEW m \in Models, Home[m] \in Mine(c) PROVE TextSays(Text(Home[m]), c, m, Written(c, m))'
  <2>1. CASE Home[m] = g
    BY <1>1, <1>3, <1>6, <1>8, <2>1 DEF TextSays
  <2>2. CASE Home[m] # g
    <3>1. TextSays(Text(Home[m]), c, m, Written(c, m))
      BY <1>1, <1>9 DEF Good, FilesSay, Writing
    <3> QED BY <1>1, <1>7, <1>8, <1>9, <2>2, <3>1 DEF TextSays
  <2> QED BY <2>1, <2>2
<1>10. ASSUME NEW m \in Models \ todo'[c], ~Written(c, m)' PROVE Announced(c, m)' = before'[c][m]
  <2>1. Home[m] # g /\ m \notin todo[c] /\ ~Written(c, m)
    BY <1>5, <1>8, <1>10
  <2> QED BY <1>1, <2>1 DEF Good, FilesSay, Writing
<1>11. \A f \in Mine(c) : Whole(Text(f))'
  BY <1>3, <1>6, <1>7 DEF Good, FilesSay
<1>12. FilesSay(c)'
  BY <1>1, <1>5, <1>9, <1>10, <1>11 DEF FilesSay, Writing
<1> QED BY <1>2, <1>3, <1>5, <1>6, <1>12 DEF Good, TextIs, DoneRight

\* The catalogue loads again.
LEMMA CheckGood ==
  ASSUME Structure, GoesOnLoading, NEW c \in Commands, Check(c), Good(c)
  PROVE  Good(c)'
<1> USE DEF At, Answer
<1>1. /\ pc[c] = "check" /\ TypeOK /\ Busy(c) /\ pc'[c] = "done"
      /\ UNCHANGED <<disk, file, tmp, local, ask, before, todo, edits, text, open, clash>>
      /\ Mine(c)' = Mine(c) /\ (\A f : Text(f)' = Text(f))
      /\ \A x : Announced(c, x)' = Announced(c, x)
  BY DEF Check, Mine, Structure, Announced, Updates, Busy, Text, TypeOK
<1>0. answer'[c] = IF Loads THEN "ok" ELSE "failed"
  BY <1>1 DEF Check, TypeOK
<1>2. CASE ~Loads
  <2>1. ~Smooth(c)'
    BY <1>1, <1>2 DEF Smooth, GoesOnLoading, Loads
  <2> QED BY <1>0, <1>1, <1>2, <2>1, EndsRight DEF Good
<1>3. CASE Loads
  <2>1. ASSUME NEW f \in Mine(c) PROVE FileRight(c, f)'
    <3>1. f \in Files /\ Text(f) \in Seq(Line) /\ Fine(f, Text(f)) /\ Valid(Text(f)) /\ Text(f) # <<>>
      BY <1>1, <1>3, MyText DEF Loads, Valid
    <3>2. \A m \in Models : Home[m] = f => TextSays(Text(f), c, m, TRUE)
      BY <1>1 DEF Good, FilesSay, Written, TextSays
    <3>3. SaysDone(Text(f), c, f)
      BY <1>1, <3>1, <3>2, SaysAll
    <3>4. SaysDone(Text(f), c, f)'
      BY <1>1, <3>3 DEF SaysDone
    <3> QED BY <1>0, <1>1, <1>3, <3>1, <3>4 DEF FileRight
  <2>2. FilesSay(c)' /\ TextIs(c)'
    BY <1>1 DEF Good, FilesSay, TextIs, Writing
  <2> QED BY <1>0, <1>1, <1>3, <2>1, <2>2 DEF Good, DoneRight
<1> QED BY <1>2, <1>3

LEMMA FaultGood ==
  ASSUME Structure, NEW c \in Commands, Fault(c), Good(c)
  PROVE  Good(c)'
<1>1. /\ Busy(c) /\ pc[c] # "done" /\ pc'[c] = "done" /\ answer'[c] = "cut"
      /\ UNCHANGED <<disk, file, local, ask, before>>
  BY DEF Fault, Answer, Structure, TypeOK, Busy
<1> QED BY <1>1, EndsRight DEF Good

-----------------------------------------------------------------------------
(***************************************************************************)
(* The invariant, and what follows from it.                                *)
(***************************************************************************)
LEMMA StepUndisturbed ==
  ASSUME Invariant, NEW c \in Commands, Step(c)
  PROVE  Undisturbed'
<1> SUFFICES ASSUME NEW d \in Commands, Busy(d)', ~disturbed'[d] PROVE Good(d)'
  BY DEF Undisturbed
<1>1. CASE d # c
  <2>1. Busy(d)
    BY <1>1, OthersSame DEF Same, Busy, Invariant, Structure
  <2>2. ~disturbed[d]
    BY <1>1, <2>1, HistoriesGrow DEF Invariant
  <2> QED BY <1>1, <2>1, <2>2, OtherStepGood DEF Invariant, Undisturbed
<1>2. CASE d = c /\ Ask(c)
  BY <1>2, AskGood DEF Invariant
<1>3. CASE d = c /\ ~Ask(c)
  <2>1. Busy(c) /\ ~disturbed[c]
    BY <1>3, OtherStepHistories DEF Invariant
  <2>2. Good(c)
    BY <2>1 DEF Invariant, Undisturbed
  <2>3. ~Forget(c)
    BY <1>3 DEF Forget, Busy, Goto, Invariant, Structure, TypeOK
  <2> QED BY <1>3, <2>2, <2>3, MeasureGood, ReadGood, EditGood, RenderGood, OpenTmpGood, FillGood,
             ReplaceGood, CheckGood, FaultGood DEF Step, Invariant
<1> QED BY <1>1, <1>2, <1>3

LEMMA StepLoading ==
  ASSUME Invariant, NEW c \in Commands, Step(c)
  PROVE  GoesOnLoading'
<1> SUFFICES ASSUME ~clash', \A m \in Models : local'[m] # EmptyFile, NEW e \in Commands, Busy(e)',
                    NEW f \in Files
             PROVE  Valid(Text(f))'
  BY DEF GoesOnLoading
<1>1. CASE Ask(c)
  BY <1>1 DEF Ask, Loads, Text
<1>2. CASE ~Ask(c)
  <2>1. Busy(e) /\ ~clash /\ local' = local
    BY <1>2, OtherStepHistories DEF Invariant
  <2>2. Valid(Text(f))
    BY <2>1 DEF Invariant, GoesOnLoading
  <2>3. CASE ~(pc[c] \in {"open", "fill", "replace"} /\ f = Target(c)) \/ UNCHANGED <<disk, file>>
    <3>1. Text(f)' = Text(f)
      BY <2>3, OtherFiles DEF Text, Invariant
    <3> QED BY <2>2, <3>1
  <2>4. CASE pc[c] \in {"open", "fill", "replace"} /\ f = Target(c)
    <3>1. Busy(c) /\ ask[c].write
      BY <2>4 DEF Busy, Invariant, Structure, Progress, Writing
    <3>2. ~disturbed[c] /\ Good(c)
      BY <2>1, <3>1 DEF Invariant, Histories, Recorded, Undisturbed
    <3>3. f \in Mine(c)
      BY <2>4, TargetIn DEF Invariant, Structure, Writing
    <3>4. CASE OpenTmp(c) \/ Fill(c)
      <4>1. Text(f)' = Text(f)
        BY <3>2, <3>3, <3>4, OpenTmpGood, FillGood DEF Invariant
      <4> QED BY <2>2, <4>1
    <3>5. CASE Replace(c)
      <4>1. /\ Text(f)' = text[c] /\ Whole(text[c])
            /\ \A m \in Models : Home[m] = f => TextSays(text[c], c, m, TRUE)
        BY <2>4, <3>2, <3>5, ReplaceGood DEF Invariant
      <4>2. text[c] \in Seq(Line) /\ Fine(f, text[c])
        <5>1. Structure'
          BY StepStructure DEF Invariant
        <5>2. file'[f] \in Inodes /\ BelongsTo(file[f], f)'
          BY <5>1 DEF Structure, TypeOK, BelongsTo
        <5>3. Fine(f, Text(f))'
          BY <5>1, <5>2 DEF Structure, TextsFine, Text
        <5> QED BY <4>1, <5>3 DEF Invariant, Structure, TypeOK
      <4>3. \A m \in Models : Home[m] = f => Says(text[c], m, "size_bytes") # EmptyFile
        <5>1. \A m \in Models : Announced(c, m)["size_bytes"] # EmptyFile
          BY <2>1, <3>1, SizesAnnounced DEF Invariant, Structure, Histories
        <5> QED BY <4>1, <5>1 DEF TextSays, Fields
      <4> QED BY <4>1, <4>2, <4>3, ValidText
    <3> QED BY <2>3, <2>4, <3>4, <3>5 DEF Step, Measure, Read, Edit, Render, Check, Fault, Forget, Ask
  <2> QED BY <2>3, <2>4
<1> QED BY <1>1, <1>2

LEMMA StepInvariant ==
  ASSUME Invariant, NEW c \in Commands, Step(c)
  PROVE  Invariant'
<1>1. Structure' /\ Histories'
  BY StepStructure, AskHistories, OtherStepHistories DEF Invariant
<1> QED BY <1>1, StepUndisturbed, StepLoading DEF Invariant

LEMMA StutteringInvariant ==
  ASSUME Invariant, UNCHANGED vars
  PROVE  Invariant'
<1> USE DEF vars, command
<1>1. \A c \in Commands : Same(c) /\ Target(c)' = Target(c) /\ Mine(c)' = Mine(c) /\ (Busy(c)' <=> Busy(c))
  BY DEF Same, Target, Mine, Busy
<1>2. \A f \in Files : Text(f)' = Text(f)
  BY DEF Text
<1>3. TypeOK'
  BY DEF Invariant, Structure, TypeOK
<1>4. \A c \in Commands : Progress(c)'
  BY <1>1, ProgressStays DEF Invariant, Structure
<1>5. InodesApart' /\ TextsFine'
  <2>1. \A i \in Inodes, f \in Files : BelongsTo(i, f)' => BelongsTo(i, f)
    BY <1>1 DEF BelongsTo
  <2>2. \A f \in Files : file'[f] # tmp'[f]
    BY DEF Invariant, Structure, InodesApart
  <2> QED BY <1>3, <2>1, <2>2, BelongingStays DEF Invariant, Structure
<1>6. Histories'
  BY <1>1 DEF Invariant, Histories, Recorded, LoadedValid
<1>7. GoesOnLoading'
  BY <1>1, <1>2 DEF Invariant, GoesOnLoading
<1>8. ASSUME NEW c \in Commands, Busy(c)', ~disturbed'[c] PROVE Good(c)'
  <2>1. Good(c)
    BY <1>1, <1>8 DEF Invariant, Undisturbed
  <2>2. /\ \A m : Announced(c, m)' = Announced(c, m) /\ Written(c, m)' = Written(c, m)
        /\ \A t, m, new : TextSays(t, c, m, new)' <=> TextSays(t, c, m, new)
    BY DEF Announced, Updates, Written, TextSays
  <2>3. FilesSay(c)'
    BY <2>1, <2>2 DEF Good, FilesSay, Mine, Text, TextSays
  <2>4. TextIs(c)'
    BY <1>1, <2>1, <2>2 DEF Good, TextIs, Text, TextSays
  <2>5. DoneRight(c)'
    <3>1. Smooth(c)' <=> Smooth(c)
      BY DEF Smooth, Text
    <3>2. \A f : FileRight(c, f)' <=> FileRight(c, f)
      BY <2>2 DEF FileRight, SaysDone, SaysNone, Text
    <3> QED BY <1>1, <2>1, <3>1, <3>2 DEF Good, DoneRight
  <2> QED BY <2>3, <2>4, <2>5 DEF Good
<1> QED BY <1>3, <1>4, <1>5, <1>6, <1>7, <1>8 DEF Invariant, Structure, Undisturbed

LEMMA InitInvariant ==
  ASSUME Init, CommentsFirst
  PROVE  Invariant
<1>1. \A c \in Commands : ~Busy(c)
  BY DEF Init, Busy
<1>2. Structure
  BY InitStructure
<1> QED BY <1>1, <1>2 DEF Invariant, Histories, Recorded, LoadedValid, GoesOnLoading, Undisturbed

LEMMA NextInvariant == Invariant /\ [Next]_vars => Invariant'
<1> SUFFICES ASSUME Invariant, [Next]_vars PROVE Invariant'
  OBVIOUS
<1>1. ASSUME NEW c \in Commands, Step(c) PROVE Invariant'
  BY <1>1, StepInvariant
<1>2. Next => \E c \in Commands : Step(c)
  BY DEF Next, Step
<1> QED BY <1>1, <1>2, StutteringInvariant

\* The inductive invariant holds throughout, of any catalogue in which no header with a
\* comment is below one without.
LEMMA InvariantAlways ==
  ASSUME CommentsFirst
  PROVE  Spec => []Invariant
<1>1. Init => Invariant
  BY InitInvariant
<1> QED BY <1>1, NextInvariant, PTL DEF Spec

\* Every variable keeps its type; in particular there is an inode for every temporary that
\* write_text opens, however many commands run.
THEOREM TypeCorrect ==
  ASSUME CommentsFirst
  PROVE  Spec => []TypeOK
<1>1. Invariant => TypeOK
  BY DEF Invariant, Structure
<1> QED BY <1>1, InvariantAlways, PTL

\* Whatever commands run at once on other files, and wherever one is cut short, the files
\* of a command that enrich_catalog has ended say all that it announced or what was there,
\* and all of it after a success; and it does not fail without a reason.
THEOREM FilesSayAlways ==
  ASSUME CommentsFirst
  PROVE  Spec => []FilesSayWhatWasAnnounced
<1>1. Invariant => FilesSayWhatWasAnnounced
  <2> SUFFICES ASSUME Invariant, NEW c \in Commands, pc[c] = "done", ~disturbed[c]
               PROVE  (\A f \in Mine(c) : FileRight(c, f)) /\ (Smooth(c) => answer[c] # "failed")
    BY DEF FilesSayWhatWasAnnounced, FileRight, SaysDone, SaysNone, Mine, At
  <2>1. Good(c)
    BY DEF Invariant, Undisturbed, Busy
  <2> QED BY <2>1 DEF Good, DoneRight
<1> QED BY <1>1, InvariantAlways, PTL

\* A catalogue that a command has loaded goes on to load, at every moment of every command,
\* until two commands that write one file have been at work at once, if no model file is
\* empty: apply_model_catalog_updates leaves no file between its old text and its new one.
THEOREM LoadsAlways ==
  ASSUME CommentsFirst
  PROVE  Spec => [](~clash /\ (\A m \in Models : local[m] # EmptyFile) /\ (\E c \in Commands : pc[c] # "idle")
                    => Loads)
<1>1. Invariant => (~clash /\ (\A m \in Models : local[m] # EmptyFile) /\ (\E c \in Commands : pc[c] # "idle")
                    => Loads)
  BY DEF Invariant, GoesOnLoading, Loads, Busy
<1> QED BY <1>1, InvariantAlways, PTL

\* Whatever commands run at once on the same files: no text goes to another file, and every
\* model stays in the file that it is in.
THEOREM ModelsStay ==
  ASSUME CommentsFirst
  PROVE  Spec => [](\A f \in Files : Text(f) # <<>> => \A m \in Models : Has(Text(f), m) <=> Home[m] = f)
<1>1. Invariant => (\A f \in Files : Text(f) # <<>> => \A m \in Models : Has(Text(f), m) <=> Home[m] = f)
  <2> SUFFICES ASSUME Invariant, NEW f \in Files PROVE Fine(f, Text(f))
    BY DEF Fine
  <2>1. file[f] \in Inodes /\ BelongsTo(file[f], f)
    BY DEF Invariant, Structure, TypeOK, BelongsTo
  <2> QED BY <2>1 DEF Invariant, Structure, TextsFine, Text
<1> QED BY <1>1, InvariantAlways, PTL

=============================================================================
