----------------------------- MODULE MCSyncFeed -----------------------------
(***************************************************************************)
(* Instances of the change feed for TLC.                                   *)
(***************************************************************************)
EXTENDS SyncFeed, TLC

UnitSize == [b \in Blobs |-> 1]

\* Every device follows the same vault.
FollowOne == [d \in Readers |-> CHOOSE v \in Vaults : TRUE]

FeedSymmetry == Permutations(Paths)
=============================================================================
