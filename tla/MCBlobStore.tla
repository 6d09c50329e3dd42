---------------------------- MODULE MCBlobStore ----------------------------
(***************************************************************************)
(* Instances of the blob store for TLC.                                    *)
(***************************************************************************)
EXTENDS BlobStore, TLC

BlobSymmetry == Permutations(Hashes) \cup Permutations(Writers)
=============================================================================
