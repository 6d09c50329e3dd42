---------------------------- MODULE MCLiveReload ----------------------------
(***************************************************************************)
(* An instance of the live reload for TLC: a letter and an emoji, diffs of *)
(* up to five chars.                                                       *)
(***************************************************************************)
EXTENDS LiveReload
=============================================================================
