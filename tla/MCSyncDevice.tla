---------------------------- MODULE MCSyncDevice ----------------------------
(***************************************************************************)
(* Instances of the devices for TLC.                                       *)
(***************************************************************************)
EXTENDS SyncDevice, TLC

\* In the manifest's order: the second conflict copy of a note, the conflict copy
\* of its conflict copy, its first conflict copy, the note.
NoteNames == <<<<>>, <<>>, <<2>>, <<3, 1>>>>

\* Two such notes.
PairNames == NoteNames \o <<<<>>, <<>>, <<6>>, <<7, 5>>>>

\* ... and an image, which never gets a copy.
ThreeNames == PairNames \o <<<<>>>>

\* Faults, races between cycles, races with the user: every run can afford a few
\* of each.
Environs == {Environment({"reject"}, 2, 1, 1),
             Environment({"overlap", "reject"}, 3, 0, 0),
             Environment({"overlap"}, 2, 1, 0),
             Environment({"busy"}, 2, 1, 0)}

DeviceSymmetry == Permutations(Devices)
=============================================================================
