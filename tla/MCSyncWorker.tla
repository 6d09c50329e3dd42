---------------------------- MODULE MCSyncWorker ----------------------------
(***************************************************************************)
(* Instances of the sync worker for TLC.                                   *)
(***************************************************************************)
EXTENDS SyncWorker

TwoRoots == {"notes", "work"}
TwoAccounts == {"ann", "ben"}
=============================================================================
