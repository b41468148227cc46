--------------------------- MODULE MCCatalogEnrich ---------------------------
(* TLC instance of CatalogEnrich: two files, the first with two models; a   *)
(* command is about one model, or about a workflow that needs both files.   *)
EXTENDS CatalogEnrich, TLC

CONSTANTS f1, f2, x, y, z, old, new

ModelHome    == [m \in Models |-> IF m = z THEN f2 ELSE f1]

Top          == [key |-> "top", val |-> Nothing]
Header(m)    == [key |-> "header", val |-> m]
Noted(m)     == [key |-> "noted", val |-> m]
Field(k)     == [key |-> k, val |-> old]
Hint         == Field("size_hint")
Size         == Field("size_bytes")
Digest       == Field("sha256")

FirstFiles  == {<<Top, Header(x), Header(y), Digest, Size>>,
                <<Top, Header(x), Digest, Header(y), Hint, Size>>,
                <<Top, Noted(x), Size, Header(y), Digest>>}
SecondFiles == {<<Top, Header(z), Size, Hint>>, <<Top, Noted(z), Digest>>}
AllLayouts  == {[f \in Files |-> IF f = f1 THEN a ELSE b] : a \in FirstFiles, b \in SecondFiles}

ASSUME ModelCommentsFirst == CommentsFirst

AllSelections == {<<x>>, <<y>>, <<z>>, <<z, x>>}

\* Nothing distinguishes the commands.
AnyCommand == Permutations(Commands)
=============================================================================
