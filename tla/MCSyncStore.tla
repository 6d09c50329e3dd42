---------------------------- MODULE MCSyncStore ----------------------------
(***************************************************************************)
(* Instances of the store for TLC.                                         *)
(***************************************************************************)
EXTENDS SyncStoreRefinement, TLC

\* Every content is one unit long.
UnitSize == [b \in Blobs |-> 1]

\* Requests, paths and contents are interchangeable.
Symmetric == Permutations(Requests) \cup Permutations(Paths) \cup Permutations(Blobs)
=============================================================================
