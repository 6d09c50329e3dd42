----------------------------- MODULE MCSyncBook -----------------------------
(***************************************************************************)
(* Instances of the book for TLC.                                          *)
(***************************************************************************)
EXTENDS SyncBook

\* In the manifest's order: the second conflict copy of booklet.json, the conflict
\* copy of its first conflict copy, and that.
BookNames == <<<<>>, <<5, 3>>, <<>>, <<>>, <<4>>>>

\* Two books made at once; broken files; a book deleted and made again; a call that
\* fails around a deletion, and around a book just made; users at work during cycles.
Environs == {Environment(FALSE, {}, 1, 2, 0, 0),
             Environment(TRUE, {"mangle"}, 2, 0, 0, 0),
             Environment(TRUE, {}, 1, 1, 1, 0),
             Environment(TRUE, {}, 1, 0, 1, 1),
             Environment(FALSE, {}, 1, 1, 0, 1),
             Environment(TRUE, {"busy"}, 1, 0, 1, 0),
             Environment(TRUE, {"busy"}, 2, 0, 0, 0)}
=============================================================================
