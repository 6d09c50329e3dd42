----------------------------- MODULE NoteEditor -----------------------------
(***************************************************************************)
(* The open note: the editor's text, the file behind it and the sync       *)
(* thread that rewrites the file while the note is open (src/note.rs,      *)
(* booklet-core document.rs; the timers are those of EditorView.qml and    *)
(* Main.qml).                                                              *)
(*                                                                         *)
(* A text is the set of the edits it contains, so that an edit that was    *)
(* lost can be told from one that was kept.  Slots are atomic: they run on *)
(* the UI thread.  The sync thread reads a file in one step and writes it  *)
(* in another, and the UI thread hears of it in a third.                   *)
(***************************************************************************)
EXTENDS Naturals, Sequences, SequencesExt

CONSTANTS
    Notes,          \* paths of notes, all in one folder
    AtFirst,        \* the notes there are at first
    Absent, None,
    MaxTyped,       \* bounds: edits typed, edits that arrive from elsewhere,
    MaxRemote,      \* writes of a note or cycles that fail, and changes made in
    MaxFailures,    \* the tree
    MaxTreeSteps

ASSUME NotesAssumption == AtFirst \subseteq Notes /\ None \notin Notes
ASSUME BoundsAssumption ==
    MaxTyped \in Nat /\ MaxRemote \in Nat /\ MaxFailures \in Nat /\ MaxTreeSteps \in Nat

Edits == 1 .. (MaxTyped + MaxRemote)
Text == SUBSET Edits

VARIABLES
    file,       \* the text on disk of each note
    document,   \* the open note and the editor's text, or None
    unsaved,
    timer,      \* the 400 ms save timer is running
    cycle,      \* the sync thread: None, or the note it looks at, the text it read
                \* there and the notes this cycle has written
    events,     \* NoteChanged, not yet pumped
    typed, remote, failures, treeSteps,
    excused,    \* history: edits that fell to one of the known losses
    missed      \* history: notes that changed without the editor being told

vars == <<file, document, unsaved, timer, cycle, events,
          typed, remote, failures, treeSteps, excused, missed>>

Document == [path : Notes, source : Text]
Cycle == [path : Notes \cup {None}, read : Text, written : SUBSET Notes]

ASSUME NullAssumption == (\A text \in Text : text # Absent) /\ None \notin Document /\ None \notin Cycle

Content(n) == IF file[n] = Absent THEN {} ELSE file[n]

Init ==
    /\ file = [n \in Notes |-> IF n \in AtFirst THEN {} ELSE Absent]
    /\ document = None /\ unsaved = FALSE /\ timer = FALSE
    /\ cycle = None /\ events = <<>>
    /\ typed = 0 /\ remote = 0 /\ failures = 0 /\ treeSteps = 0
    /\ excused = {} /\ missed = {}

----------------------------------------------------------------------------
(* Saving *)

\* The file has changed and the editor does not know: it has not been told yet, or
\* never will be.
Behind(n) ==
    \/ n \in missed \/ n \in Range(events)
    \/ cycle # None /\ n \in cycle.written

\* Mutant: the indicator goes out although the write failed.
UnsavedAfterFailure_No == FALSE

UnsavedAfterFailure == TRUE

\* flush: nothing to write, a write, or a write that fails and may have truncated the
\* file (fs::write).
Flush(files) ==
    IF ~unsaved \/ document = None THEN {[file |-> files, unsaved |-> FALSE, failures |-> failures]}
    ELSE {[file |-> [files EXCEPT ![document.path] = document.source],
           unsaved |-> FALSE, failures |-> failures]}
         \cup {[file |-> f, unsaved |-> UnsavedAfterFailure, failures |-> n] :
                 f \in {files, [files EXCEPT ![document.path] = IF @ = Absent THEN Absent ELSE {}]},
                 n \in {failures + 1} \cap (0 .. MaxFailures)}

\* What the file of the open note loses to that, where losing it is known of.
Overwritten(files) ==
    IF document # None /\ files # file /\ Behind(document.path)
    THEN Content(document.path) \ document.source ELSE {}

\* The editor knows what is in a file that it has just written.
StillMissed(files) ==
    IF document # None /\ files[document.path] = document.source
    THEN missed \ {document.path} ELSE missed

FlushOpenNote == \E flush \in Flush(file) :
    /\ file' = flush.file /\ unsaved' = flush.unsaved /\ failures' = flush.failures
    /\ excused' = excused \cup Overwritten(flush.file)
    /\ missed' = StillMissed(flush.file)

SaveTimer ==
    /\ timer /\ timer' = FALSE
    /\ FlushOpenNote
    /\ UNCHANGED <<document, cycle, events, typed, remote, treeSteps>>

FocusLost ==
    /\ timer' = FALSE
    /\ FlushOpenNote
    /\ UNCHANGED <<document, cycle, events, typed, remote, treeSteps>>

\* Mutant: the periodic sync no longer saves first.
SavesFirst_No == FALSE

SavesFirst == TRUE

\* Every 30 seconds.
SyncTimer ==
    /\ SavesFirst /\ FlushOpenNote
    /\ UNCHANGED <<document, timer, cycle, events, typed, remote, treeSteps>>

----------------------------------------------------------------------------
(* Opening, closing, typing *)

\* Mutant: opening another note does not save this one.
Leaving_Unsaved(files) == {[file |-> files, unsaved |-> FALSE, failures |-> failures]}

Leaving(files) == Flush(files)

\* The text of the note that is left is gone if it could not be saved; what is left of
\* it is the flag.
LostOnLeaving(flush) ==
    IF document = None \/ ~flush.unsaved THEN {}
    ELSE IF flush.file[document.path] = Absent THEN document.source
    ELSE document.source \ flush.file[document.path]

OpenWith(n, files) == \E flush \in Leaving(files) :
    /\ file' = flush.file /\ unsaved' = flush.unsaved /\ failures' = flush.failures
    /\ IF flush.file[n] = Absent
       THEN /\ excused' = excused \cup Overwritten(flush.file)
            /\ missed' = StillMissed(flush.file)
            /\ UNCHANGED <<document, timer>>
       ELSE /\ document' = [path |-> n, source |-> flush.file[n]] /\ timer' = FALSE
            /\ excused' = excused \cup Overwritten(flush.file) \cup LostOnLeaving(flush)
            /\ missed' = StillMissed(flush.file) \ {n}

\* open, or open_by_title of a note that is there.  Tabs and the history may name one
\* that is not.
Open == \E n \in Notes :
    /\ OpenWith(n, file)
    /\ UNCHANGED <<cycle, events, typed, remote, treeSteps>>

\* open_by_title of a note that is not there, or a new note in the tree.
OpenNew == \E n \in Notes :
    /\ document # None /\ file[n] = Absent
    /\ treeSteps < MaxTreeSteps /\ treeSteps' = treeSteps + 1
    /\ OpenWith(n, [file EXCEPT ![n] = {}])
    /\ UNCHANGED <<cycle, events, typed, remote>>

Close == \E flush \in Leaving(file) :
    /\ document # None
    /\ document' = None /\ timer' = FALSE
    /\ file' = flush.file /\ unsaved' = flush.unsaved /\ failures' = flush.failures
    /\ excused' = excused \cup Overwritten(flush.file) \cup LostOnLeaving(flush)
    /\ missed' = StillMissed(flush.file)
    /\ UNCHANGED <<cycle, events, typed, remote, treeSteps>>

\* set_source, on every change of the text.
Type ==
    /\ document # None /\ typed < MaxTyped
    /\ typed' = typed + 1
    /\ document' = [document EXCEPT !.source = @ \cup {typed'}]
    /\ unsaved' = TRUE /\ timer' = TRUE
    /\ UNCHANGED <<file, cycle, events, remote, failures, treeSteps, excused, missed>>

\* The application ends.  Nothing flushes then.
Quit ==
    /\ document' = None /\ unsaved' = FALSE /\ timer' = FALSE
    /\ cycle' = None /\ events' = <<>>
    /\ excused' = excused \cup
         (IF unsaved /\ document # None THEN document.source \ Content(document.path) ELSE {})
    /\ missed' = {}
    /\ UNCHANGED <<file, typed, remote, failures, treeSteps>>

----------------------------------------------------------------------------
(* The sync thread *)

StartCycle ==
    /\ cycle = None
    /\ cycle' = [path |-> None, read |-> {}, written |-> {}]
    /\ UNCHANGED <<file, document, unsaved, timer, events, typed, remote, failures, treeSteps,
                   excused, missed>>

\* The scan, or the read before an upload.
Look == \E n \in Notes :
    /\ cycle # None
    /\ cycle' = [cycle EXCEPT !.path = n, !.read = Content(n)]
    /\ UNCHANGED <<file, document, unsaved, timer, events, typed, remote, failures, treeSteps,
                   excused, missed>>

\* The edits there are once the file is written: what was read and an edit from
\* elsewhere, without the typed ones of the hunks that the merge rejects (a partial
\* merge is accepted); or the server's version of a note that had not changed when it
\* was read.
Merges(arrived) == {(cycle.read \ rejected) \cup {arrived} : rejected \in SUBSET (1 .. typed)}

\* The file is not looked at again.
WriteRemote == \E n \in Notes :
    /\ cycle # None /\ cycle.path = n
    /\ remote < MaxRemote /\ remote' = remote + 1
    /\ LET arrived == MaxTyped + remote'
       IN  /\ \/ \E merged \in Merges(arrived) : file' = [file EXCEPT ![n] = merged] /\ missed' = missed
              \/ file' = [file EXCEPT ![n] = Absent] /\ missed' = missed \cup {n}
           /\ excused' = excused \cup ((Content(n) \cup {arrived}) \ Content(n)')
    /\ cycle' = [cycle EXCEPT !.path = None, !.written = @ \cup {n}]
    /\ UNCHANGED <<document, unsaved, timer, events, typed, failures, treeSteps>>

Reported == SetToSeq(cycle.written)

EndCycle ==
    /\ cycle # None
    /\ cycle' = None
    /\ events' = events \o Reported
    /\ UNCHANGED <<file, document, unsaved, timer, typed, remote, failures, treeSteps, excused, missed>>

\* The server does not answer, or refuses: what the cycle has written stays, and is
\* not reported.
FailCycle ==
    /\ cycle # None
    /\ failures < MaxFailures /\ failures' = failures + 1
    /\ cycle' = None
    /\ missed' = missed \cup cycle.written
    /\ UNCHANGED <<file, document, unsaved, timer, events, typed, remote, treeSteps, excused>>

\* Mutant: the editor shows the merged text, the document keeps the old one.
Adopted_EditorOnly(n) == document.source

\* reload_edits: the text of the file is the document's and the editor's.
Adopted(n) == file[n]

\* Only the open note, and only if its file can be read.
Reloads(n) == document # None /\ document.path = n /\ file[n] # Absent

\* pump hands over NoteChanged; the editor reloads if it shows that note.
Pump ==
    /\ events # <<>> /\ events' = Tail(events)
    /\ LET n == Head(events)
       IN  IF ~Reloads(n) THEN UNCHANGED <<document, unsaved, excused, missed>>
           ELSE /\ document' = [document EXCEPT !.source = Adopted(n)]
                /\ unsaved' = FALSE
                /\ excused' = excused \cup (IF unsaved THEN document.source \ file[n] ELSE {})
                /\ missed' = missed \ {n}
    /\ UNCHANGED <<file, timer, cycle, typed, remote, failures, treeSteps>>

----------------------------------------------------------------------------
(* The tree, in the app or in another program.  The editor is not told. *)

Delete == \E n \in Notes :
    /\ file[n] # Absent
    /\ treeSteps < MaxTreeSteps /\ treeSteps' = treeSteps + 1
    /\ file' = [file EXCEPT ![n] = Absent]
    /\ excused' = excused \cup file[n]
    /\ missed' = missed \cup {n}
    /\ UNCHANGED <<document, unsaved, timer, cycle, events, typed, remote, failures>>

Rename == \E n, m \in Notes :
    /\ file[n] # Absent /\ file[m] = Absent
    /\ treeSteps < MaxTreeSteps /\ treeSteps' = treeSteps + 1
    /\ file' = [file EXCEPT ![m] = file[n], ![n] = Absent]
    /\ missed' = missed \cup {n, m}
    /\ UNCHANGED <<document, unsaved, timer, cycle, events, typed, remote, failures, excused>>

Next ==
    \/ SaveTimer \/ FocusLost \/ SyncTimer
    \/ Open \/ OpenNew \/ Close \/ Type \/ Quit
    \/ StartCycle \/ Look \/ WriteRemote \/ EndCycle \/ FailCycle \/ Pump
    \/ Delete \/ Rename

\* Both timers fire; the sync timer repeats for as long as a vault is active.
Spec == Init /\ [][Next]_vars /\ WF_vars(SaveTimer) /\ WF_vars(SyncTimer)

----------------------------------------------------------------------------
(* Properties *)

TypeOK ==
    /\ file \in [Notes -> Text \cup {Absent}]
    /\ document = None \/ document \in Document
    /\ unsaved \in BOOLEAN /\ timer \in BOOLEAN
    /\ cycle = None \/ cycle \in Cycle
    /\ events \in Seq(Notes)
    /\ excused \subseteq Edits /\ missed \subseteq Notes

Held == (UNION {Content(n) : n \in Notes}) \cup (IF document = None THEN {} ELSE document.source)

\* What is typed is in the editor or in a file ("switching notes mid-edit would drop
\* the last keystrokes", note.rs).  The losses there are: a note left or an app quit
\* with text that could not be saved or was not yet, a reload over text newer than
\* the last save, a file written by the sync thread after it read an older text, a
\* hunk that a merge rejects (the note is flagged for it, SyncWorker), a note deleted,
\* and a file the editor writes without knowing that it changed.
TypedKept == 1 .. typed \subseteq Held \cup excused

\* An edit that arrived stays in the note or in the editor that has adopted it, but
\* for the same losses (a merge rejects none that arrived: they are in the text that
\* the local hunks are replayed onto): in particular the text a reload adopts is the
\* text the next save writes.
RemoteKept == (MaxTyped + 1) .. (MaxTyped + remote) \subseteq Held \cup excused

\* The status bar says "saved" of a note whose file holds what the editor shows,
\* unless the file changed and the editor is yet to hear of it.
Settled ==
    document # None /\ ~unsaved /\ ~Behind(document.path) => file[document.path] = document.source

\* Unsaved text is saved, adopted or left in the end, also when a write failed and the
\* save timer is not started again: the sync timer saves first (Main.qml, syncTimer).
SavedEventually == unsaved ~> ~unsaved

=============================================================================
