---------------------------- MODULE MCNoteEditor ----------------------------
(***************************************************************************)
(* Instances of the note editor for TLC.                                   *)
(***************************************************************************)
EXTENDS NoteEditor

\* A note, and a title that is free.
TwoNotes == {"note", "title"}
OneAtFirst == {"note"}
=============================================================================
