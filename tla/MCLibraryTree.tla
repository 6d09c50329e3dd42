---------------------------- MODULE MCLibraryTree ----------------------------
(***************************************************************************)
(* Instances of the library for TLC.                                       *)
(***************************************************************************)
EXTENDS LibraryTree

\* A vault with a book, a section that can be renamed and a note; the book is a
\* vault of its own as well.  Another vault is not there yet.
LibraryPaths == {"a", "a/b", "a/b/s", "a/b/t", "a/b/s/n", "a/b/t/n", "c", "c/d", "c/d/n"}
LibraryNotes == {"a/b/s/n", "a/b/t/n", "c/d/n"}

LibraryParent ==
    "a" :> Outside @@ "c" :> Outside @@ "a/b" :> "a" @@ "a/b/s" :> "a/b" @@ "a/b/t" :> "a/b"
    @@ "a/b/s/n" :> "a/b/s" @@ "a/b/t/n" :> "a/b/t" @@ "c/d" :> "c" @@ "c/d/n" :> "c/d"

LibraryAbove ==
    "a" :> {"a"} @@ "a/b" :> {"a", "a/b"} @@ "a/b/s" :> {"a", "a/b", "a/b/s"}
    @@ "a/b/t" :> {"a", "a/b", "a/b/t"} @@ "a/b/s/n" :> {"a", "a/b", "a/b/s", "a/b/s/n"}
    @@ "a/b/t/n" :> {"a", "a/b", "a/b/t", "a/b/t/n"}
    @@ "c" :> {"c"} @@ "c/d" :> {"c", "c/d"} @@ "c/d/n" :> {"c", "c/d", "c/d/n"}

LibraryTwin ==
    "a/b/s" :> "a/b/t" @@ "a/b/s/n" :> "a/b/t/n" @@ "a/b/t" :> "a/b/s" @@ "a/b/t/n" :> "a/b/s/n"
    @@ [p \in {"a", "a/b", "c", "c/d", "c/d/n"} |-> p]

LibraryVaults == {"a", "a/b", "c"}
LibraryBook == "a" :> None @@ "a/b" :> None @@ "c" :> "c/d"
LibraryNote == "a" :> None @@ "a/b" :> None @@ "c" :> "c/d/n"
LibraryAtFirst == {"a", "a/b", "a/b/s"}
LibraryOld == <<"a", "a/b">>

Dots == <<"madder", "indigo">>
=============================================================================
