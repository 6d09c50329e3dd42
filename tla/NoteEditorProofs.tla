-------------------------- MODULE NoteEditorProofs --------------------------
(***************************************************************************)
(* The note editor, proved for any number of notes, edits, failed writes   *)
(* and changes in the tree, and the merge that lands in it, for any chars  *)
(* and any diff.                                                           *)
(*                                                                         *)
(* The note editor: while it knows of every change of the file, the file   *)
(* holds nothing that it does not, so a save loses nothing; and a text it  *)
(* counts as saved is in the files, or fell to a known loss, so leaving it *)
(* or reloading over it loses nothing either.                              *)
(*                                                                         *)
(* The merge: the edits that edit_script has so far, the pending one with  *)
(* them, are a script: between two of them the texts are the same, and     *)
(* each removes and inserts what is between the two places.  A run of the  *)
(* diff makes the last stretch or the last edit longer.  Replayed from the *)
(* back, the edits leave the old text in front of the place they have come *)
(* to and the new text behind it; and mapCaret knows, behind every edit,   *)
(* how far the text there has moved.                                       *)
(***************************************************************************)
EXTENDS NoteEditor, LiveReload, FiniteSetTheorems, TLAPS

FileTexts == Text \cup {Absent}

\* The content of a note in files, an array of texts.
ContentIn(files, n) == IF files[n] = Absent THEN {} ELSE files[n]

\* An edit is in one of the files, or among the known losses.
Lasts(files, losses, e) == e \in losses \/ \E n \in Notes : e \in ContentIn(files, n)

\* The edits there have been.
Made == (1 .. typed) \cup ((MaxTyped + 1) .. (MaxTyped + remote))

Typed ==
    /\ TypeOK
    /\ typed \in 0 .. MaxTyped /\ remote \in 0 .. MaxRemote
    /\ cycle # None => IsFiniteSet(cycle.written)

\* A file that changed only as the editor knows holds no more than the editor.
Contained ==
    document # None /\ ~Behind(document.path) => Content(document.path) \subseteq document.source

\* The file of the open note went without the editor being told.
AbsentMissed == document # None /\ file[document.path] = Absent => document.path \in missed

\* A text that counts as saved needs the editor no more.
SavedLasts ==
    document # None /\ ~unsaved => \A e \in document.source : Lasts(file, excused, e)

AllKept ==
    \A e \in Made : Lasts(file, excused, e) \/ (document # None /\ e \in document.source)

Texts == Contained /\ AbsentMissed /\ SavedLasts /\ Settled /\ AllKept

IInv == Typed /\ Texts

----------------------------------------------------------------------------
(***************************************************************************)
(* Sequences and files                                                     *)
(***************************************************************************)

\* A finite set as a sequence has the elements of the set.
LEMMA SetToSeqShape ==
    ASSUME NEW S, IsFiniteSet(S)
    PROVE  /\ SetToSeq(S) \in Seq(S)
           /\ Range(SetToSeq(S)) = S
<1> DEFINE n == Cardinality(S)
<1>1. n \in Nat /\ ExistsBijection(1 .. n, S)
    BY FS_CardinalityType
<1>2. SetToSeq(S) \in Injection(1 .. n, S)
  <2>1. \E f \in [1 .. n -> S] : IsInjective(f)
      BY <1>1 DEF ExistsBijection, Bijection, Injection
  <2> QED BY <2>1 DEF SetToSeq, Injection
<1>3. Cardinality(1 .. n) = n
    BY <1>1, FS_Interval
<1>4. SetToSeq(S) \in Surjection(1 .. n, S)
    BY <1>2, <1>3, FS_Injection
<1> QED BY <1>1, <1>4 DEF Surjection, Range

LEMMA RangeAppended ==
    ASSUME NEW S, NEW s \in Seq(S), NEW t \in Seq(S)
    PROVE  s \o t \in Seq(S) /\ Range(s \o t) = Range(s) \cup Range(t)
<1>1. /\ s \o t \in Seq(S) /\ DOMAIN (s \o t) = 1 .. (Len(s) + Len(t))
      /\ \A i \in 1 .. (Len(s) + Len(t)) : (s \o t)[i] = IF i <= Len(s) THEN s[i] ELSE t[i - Len(s)]
    OBVIOUS
<1>2. Range(s \o t) \subseteq Range(s) \cup Range(t)
    BY <1>1 DEF Range
<1>3. Range(s) \subseteq Range(s \o t)
    BY <1>1 DEF Range
<1>4. ASSUME NEW j \in DOMAIN t PROVE t[j] \in Range(s \o t)
  <2>1. j + Len(s) \in 1 .. (Len(s) + Len(t)) /\ (s \o t)[j + Len(s)] = t[j]
      BY <1>1, <1>4
  <2> QED BY <1>1, <2>1 DEF Range
<1>5. Range(t) \subseteq Range(s \o t)
    BY <1>4 DEF Range
<1> QED BY <1>1, <1>2, <1>3, <1>5

LEMMA RangeTaken ==
    ASSUME NEW S, NEW s \in Seq(S), s # <<>>
    PROVE  /\ Tail(s) \in Seq(S) /\ Head(s) \in S
           /\ Range(s) \subseteq Range(Tail(s)) \cup {Head(s)} /\ Range(Tail(s)) \subseteq Range(s)
<1>1. /\ Len(s) > 0 /\ Tail(s) \in Seq(S) /\ Len(Tail(s)) = Len(s) - 1 /\ Head(s) = s[1]
      /\ \A i \in 1 .. Len(s) - 1 : Tail(s)[i] = s[i + 1]
    OBVIOUS
<1>2. ASSUME NEW i \in DOMAIN s PROVE s[i] \in Range(Tail(s)) \cup {Head(s)}
  <2>1. CASE i = 1
      BY <1>1, <2>1
  <2>2. CASE i > 1
    <3>1. i - 1 \in DOMAIN Tail(s) /\ Tail(s)[i - 1] = s[i]
        BY <1>1, <2>2
    <3> QED BY <3>1 DEF Range
  <2> QED BY <2>1, <2>2
<1> QED BY <1>1, <1>2 DEF Range

LEMMA InvInit == Init => IInv
<1> SUFFICES ASSUME Init PROVE IInv
    OBVIOUS
<1>1. Typed
  <2>1. file \in [Notes -> Text \cup {Absent}]
    <3>1. {} \in Text
        BY DEF Text
    <3> QED BY <3>1 DEF Init
  <2>2. 0 \in 0 .. MaxTyped /\ 0 \in 0 .. MaxRemote
      BY BoundsAssumption
  <2>3. events \in Seq(Notes) /\ excused \subseteq Edits /\ missed \subseteq Notes
      BY DEF Init
  <2>4. document = None /\ cycle = None /\ unsaved \in BOOLEAN /\ timer \in BOOLEAN
      BY DEF Init
  <2>5. typed \in 0 .. MaxTyped /\ remote \in 0 .. MaxRemote
      BY <2>2 DEF Init
  <2> QED BY <2>1, <2>3, <2>4, <2>5 DEF Typed, TypeOK
<1>2. Texts
  <2>1. Made = {}
      BY BoundsAssumption DEF Init, Made
  <2> QED BY <2>1 DEF Init, Texts, Contained, AbsentMissed, SavedLasts, Settled, AllKept
<1> QED BY <1>1, <1>2 DEF IInv

LEMMA ContentShape ==
    ASSUME Typed, NEW n \in Notes
    PROVE  Content(n) = ContentIn(file, n) /\ Content(n) \in Text
    BY DEF Typed, TypeOK, Content, ContentIn, Text

----------------------------------------------------------------------------
(***************************************************************************)
(* Saving                                                                  *)
(***************************************************************************)

\* The files as an operation finds them before it saves: maybe with a new, empty note.
Prepared(files) ==
    /\ files \in [Notes -> FileTexts]
    /\ \A n \in Notes : ContentIn(files, n) = Content(n) /\ (files[n] = Absent => file[n] = Absent)

\* The files after a save, and what is known of it then.
AfterSave(f, u) ==
    /\ f \in [Notes -> FileTexts] /\ u \in BOOLEAN
    /\ document = None => ~u
    /\ \A n \in Notes : document = None \/ n # document.path => ContentIn(f, n) = Content(n)
    /\ document # None =>
          LET p == document.path
          IN  /\ f[p] = Absent => p \in StillMissed(f)
              /\ Content(p) \subseteq document.source \cup Overwritten(f) \cup ContentIn(f, p)
              /\ ~u => \A e \in document.source : Lasts(f, excused, e)
              /\ \/ f[p] = document.source
                 \/ StillMissed(f) = missed /\ ContentIn(f, p) \subseteq Content(p)
                    /\ (~u => ~unsaved /\ ContentIn(f, p) = Content(p))

LEMMA FlushShape ==
    ASSUME IInv, NEW files, Prepared(files), NEW flush \in Flush(files)
    PROVE  AfterSave(flush.file, flush.unsaved)
<1>1. files \in [Notes -> FileTexts] /\ {} \in Text /\ \A n \in Notes : ContentIn(files, n) = Content(n)
    BY DEF Prepared, Text
<1>2. CASE document = None
  <2>1. flush.file = files /\ flush.unsaved = FALSE
      BY <1>2 DEF Flush
  <2> QED BY <1>1, <1>2, <2>1 DEF AfterSave
<1>3. CASE document # None
  <2> DEFINE p == document.path
             f == flush.file
  <2>1. p \in Notes /\ document.source \in Text /\ document.source # Absent /\ unsaved \in BOOLEAN
      BY <1>3, NullAssumption DEF IInv, Typed, TypeOK, Document
  <2>2. \/ ~unsaved /\ f = files /\ flush.unsaved = FALSE
        \/ unsaved /\ f = [files EXCEPT ![p] = document.source] /\ flush.unsaved = FALSE
        \/ /\ unsaved /\ flush.unsaved = TRUE
           /\ \/ f = files
              \/ f = [files EXCEPT ![p] = IF files[p] = Absent THEN Absent ELSE {}]
    <3>1. CASE ~unsaved
        BY <3>1 DEF Flush
    <3>2. CASE unsaved
      <4>1. \/ flush = [file |-> [files EXCEPT ![p] = document.source], unsaved |-> FALSE, failures |-> failures]
            \/ \E g \in {files, [files EXCEPT ![p] = IF files[p] = Absent THEN Absent ELSE {}]}, n \in Nat :
                  flush = [file |-> g, unsaved |-> TRUE, failures |-> n]
          BY <1>3, <3>2 DEF Flush, UnsavedAfterFailure
      <4>2. CASE flush = [file |-> [files EXCEPT ![p] = document.source], unsaved |-> FALSE, failures |-> failures]
          BY <3>2, <4>2
      <4>3. ASSUME NEW g \in {files, [files EXCEPT ![p] = IF files[p] = Absent THEN Absent ELSE {}]}, NEW n,
                   flush = [file |-> g, unsaved |-> TRUE, failures |-> n]
            PROVE  flush.unsaved = TRUE /\ (\/ f = files
                                            \/ f = [files EXCEPT ![p] = IF files[p] = Absent THEN Absent ELSE {}])
          BY <4>3
      <4> QED BY <3>2, <4>1, <4>2, <4>3
    <3> QED BY <3>1, <3>2
  <2>3. /\ f \in [Notes -> FileTexts] /\ flush.unsaved \in BOOLEAN
        /\ \A n \in Notes : n # p => f[n] = files[n]
    <3>1. [files EXCEPT ![p] = document.source] \in [Notes -> FileTexts]
        BY <1>1, <2>1 DEF FileTexts
    <3>2. [files EXCEPT ![p] = IF files[p] = Absent THEN Absent ELSE {}] \in [Notes -> FileTexts]
        BY <1>1, <2>1 DEF FileTexts
    <3> QED BY <1>1, <2>1, <2>2, <3>1, <3>2
  <2>4. \/ f[p] = document.source
        \/ /\ f[p] = files[p] \/ (f[p] = {} /\ f[p] # Absent)
           /\ ~flush.unsaved => ~unsaved /\ f = files
      BY <1>1, <2>1, <2>2, NullAssumption
  <2>5. ContentIn(f, p) = document.source \/ ContentIn(f, p) \in {Content(p), {}}
      BY <1>1, <2>1, <2>4 DEF ContentIn
  <2>6. f[p] = Absent => p \in StillMissed(f)
    <3>1. f[p] = Absent => file[p] = Absent
        BY <1>1, <2>1, <2>4, NullAssumption DEF Prepared
    <3> QED BY <1>3, <2>1, <3>1 DEF IInv, Texts, AbsentMissed, StillMissed
  <2>7. Content(p) \subseteq document.source \cup Overwritten(f) \cup ContentIn(f, p)
    <3>1. CASE Behind(p) /\ f # file
        BY <1>3, <3>1 DEF Overwritten
    <3>2. CASE ~Behind(p)
        BY <1>3, <3>2 DEF IInv, Texts, Contained
    <3>3. CASE f = file
        BY <2>1, <3>3, ContentShape DEF IInv
    <3> QED BY <3>1, <3>2, <3>3
  <2>8. ~flush.unsaved => \A e \in document.source : Lasts(f, excused, e)
    <3>1. CASE f[p] = document.source
        BY <2>1, <3>1 DEF ContentIn, Lasts
    <3>2. CASE ~unsaved /\ f = files
      <4>1. \A n \in Notes : ContentIn(f, n) = ContentIn(file, n)
          BY <1>1, <3>2, ContentShape DEF IInv
      <4> QED BY <1>3, <3>2, <4>1 DEF IInv, Texts, SavedLasts, Lasts
    <3> QED BY <2>4, <3>1, <3>2
  <2>9. \/ f[p] = document.source
        \/ StillMissed(f) = missed /\ ContentIn(f, p) \subseteq Content(p)
           /\ (~flush.unsaved => ~unsaved /\ ContentIn(f, p) = Content(p))
      BY <1>1, <1>3, <2>1, <2>4 DEF StillMissed, ContentIn
  <2> QED BY <1>1, <1>3, <2>3, <2>6, <2>7, <2>8, <2>9 DEF AfterSave, ContentIn
<1> QED BY <1>2, <1>3

\* The editor goes on with the note it has.
LEMMA StaysStep ==
    ASSUME IInv, NEW files, Prepared(files), AfterSave(file', unsaved'),
           UNCHANGED <<document, cycle, events, typed, remote>>, timer' \in BOOLEAN,
           excused' = excused \cup Overwritten(file'), missed' = StillMissed(file')
    PROVE  Typed' /\ Texts'
<1>1. /\ file' \in [Notes -> FileTexts] /\ unsaved' \in BOOLEAN
      /\ excused \subseteq excused' /\ missed' \subseteq missed
    BY DEF AfterSave, StillMissed
<1>2. Overwritten(file') \subseteq Edits
    BY ContentShape DEF Overwritten, Text, IInv, Typed, TypeOK, Document
<1>3. Typed'
    BY <1>1, <1>2 DEF Typed, TypeOK, IInv, FileTexts
<1>4. \A n : Content(n)' = ContentIn(file', n)
    BY DEF Content, ContentIn
<1>5. \A n \in Notes : \A e : e \in ContentIn(file, n) =>
         Lasts(file', excused', e) \/ (document # None /\ e \in document.source)
  <2> TAKE n \in Notes
  <2> TAKE e
  <2> HAVE e \in ContentIn(file, n)
  <2>1. e \in Content(n)
      BY ContentShape DEF IInv
  <2>2. CASE document = None \/ n # document.path
      BY <2>1, <2>2 DEF AfterSave, Lasts
  <2>3. CASE document # None /\ n = document.path
      BY <2>1, <2>3 DEF AfterSave, Lasts
  <2> QED BY <2>2, <2>3
<1>6. AllKept'
  <2>1. \A e \in Made : Lasts(file', excused', e) \/ (document # None /\ e \in document.source)
      BY <1>1, <1>5 DEF IInv, Texts, AllKept, Lasts
  <2> QED BY <2>1 DEF AllKept, Made
<1>7. SavedLasts'
    BY <1>1 DEF SavedLasts, AfterSave, Lasts
<1>8. AbsentMissed'
    BY DEF AbsentMissed, AfterSave
<1>9. CASE document = None
    BY <1>3, <1>6, <1>7, <1>8, <1>9 DEF Texts, Contained, Settled
<1>10. CASE document # None
  <2> DEFINE p == document.path
  <2>1. CASE file'[p] = document.source
    <3>1. ContentIn(file', p) \subseteq document.source
        BY <2>1 DEF ContentIn
    <3> QED BY <1>3, <1>4, <1>6, <1>7, <1>8, <2>1, <3>1 DEF Texts, Contained, Settled
  <2>2. CASE file'[p] # document.source
    <3>1. /\ missed' = missed /\ ContentIn(file', p) \subseteq Content(p)
          /\ ~unsaved' => ~unsaved /\ ContentIn(file', p) = Content(p)
        BY <1>10, <2>2 DEF AfterSave
    <3>2. Behind(p)' = Behind(p)
        BY <3>1 DEF Behind
    <3>3. Contained'
        BY <1>4, <3>1, <3>2 DEF Contained, IInv, Texts
    <3>4. Settled'
      <4> SUFFICES ASSUME ~unsaved', ~Behind(p) PROVE FALSE
          BY <3>2 DEF Settled
      <4>1. file[p] = document.source
          BY <1>10, <3>1 DEF IInv, Texts, Settled
      <4>2. p \in Notes /\ document.source # Absent
          BY <1>10, NullAssumption DEF IInv, Typed, TypeOK, Document
      <4>3. p \notin missed'
          BY <3>1 DEF Behind
      <4>4. file'[p] # Absent
          BY <1>10, <4>3 DEF AfterSave
      <4> QED BY <2>2, <3>1, <4>1, <4>2, <4>4 DEF ContentIn, Content
    <3> QED BY <1>3, <1>6, <1>7, <1>8, <3>3, <3>4 DEF Texts
  <2> QED BY <2>1, <2>2
<1> QED BY <1>9, <1>10

LEMMA SaveStep == IInv /\ (SaveTimer \/ FocusLost \/ SyncTimer) => Typed' /\ Texts'
<1> SUFFICES ASSUME IInv, SaveTimer \/ FocusLost \/ SyncTimer PROVE Typed' /\ Texts'
    OBVIOUS
<1>1. /\ FlushOpenNote /\ UNCHANGED <<document, cycle, events, typed, remote>> /\ timer' \in BOOLEAN
    BY DEF SaveTimer, FocusLost, SyncTimer, IInv, Typed, TypeOK
<1>2. Prepared(file)
    BY ContentShape DEF Prepared, IInv, Typed, TypeOK, FileTexts
<1>3. /\ AfterSave(file', unsaved') /\ excused' = excused \cup Overwritten(file')
      /\ missed' = StillMissed(file')
    BY <1>1, <1>2, FlushShape DEF FlushOpenNote
<1> QED BY <1>1, <1>2, <1>3, StaysStep

----------------------------------------------------------------------------
(***************************************************************************)
(* Opening and closing                                                     *)
(***************************************************************************)

\* Nothing is lost with the note that is left: it was saved, or its text is in the file,
\* or could not be saved and is known to be lost.
LEMMA LeavesStep ==
    ASSUME IInv, NEW files, Prepared(files), NEW flush \in Leaving(files), file' = flush.file,
           UNCHANGED <<cycle, events, typed, remote>>,
           excused' = excused \cup Overwritten(file') \cup LostOnLeaving(flush)
    PROVE  /\ AfterSave(file', flush.unsaved)
           /\ excused' \subseteq Edits
           /\ \A e \in Made : Lasts(file', excused', e)
<1>1. AfterSave(file', flush.unsaved)
    BY FlushShape DEF Leaving
<1>2. Overwritten(file') \subseteq Edits /\ LostOnLeaving(flush) \subseteq Edits
    BY ContentShape DEF Overwritten, LostOnLeaving, Text, IInv, Typed, TypeOK, Document
<1>3. ASSUME document # None, NEW e \in document.source PROVE Lasts(file', excused', e)
  <2> DEFINE p == document.path
  <2>1. p \in Notes
      BY <1>3 DEF IInv, Typed, TypeOK, Document
  <2>2. CASE ~flush.unsaved
      BY <1>1, <1>3, <2>2 DEF AfterSave, Lasts
  <2>3. CASE flush.unsaved
    <3>1. e \in ContentIn(file', p) \/ e \in LostOnLeaving(flush)
        BY <1>3, <2>3 DEF LostOnLeaving, ContentIn
    <3> QED BY <2>1, <3>1 DEF Lasts
  <2> QED BY <2>2, <2>3
<1>4. ASSUME NEW n \in Notes, NEW e \in Content(n) PROVE Lasts(file', excused', e)
  <2>1. CASE document = None \/ n # document.path
      BY <1>1, <1>4, <2>1 DEF AfterSave, Lasts
  <2>2. CASE document # None /\ n = document.path
    <3>1. e \in document.source \cup Overwritten(file') \cup ContentIn(file', n)
        BY <1>1, <1>4, <2>2 DEF AfterSave
    <3> QED BY <1>3, <2>2, <3>1 DEF Lasts
  <2> QED BY <2>1, <2>2
<1>5. ASSUME NEW e \in Made PROVE Lasts(file', excused', e)
  <2>1. e \in excused \/ (\E n \in Notes : e \in Content(n)) \/ (document # None /\ e \in document.source)
    <3>1. \A n \in Notes : Content(n) = ContentIn(file, n)
        BY ContentShape DEF IInv
    <3> QED BY <1>5, <3>1 DEF IInv, Texts, AllKept, Lasts
  <2> QED BY <1>3, <1>4, <2>1 DEF Lasts
<1>6. excused' \subseteq Edits
    BY <1>2 DEF IInv, Typed, TypeOK
<1> QED BY <1>1, <1>5, <1>6

LEMMA OpenWithStep ==
    ASSUME IInv, NEW files, Prepared(files), NEW n \in Notes, OpenWith(n, files),
           UNCHANGED <<cycle, events, typed, remote>>
    PROVE  Typed' /\ Texts'
<1>1. PICK flush \in Leaving(files) :
         /\ file' = flush.file /\ unsaved' = flush.unsaved
         /\ IF flush.file[n] = Absent
            THEN /\ excused' = excused \cup Overwritten(flush.file)
                 /\ missed' = StillMissed(flush.file)
                 /\ UNCHANGED <<document, timer>>
            ELSE /\ document' = [path |-> n, source |-> flush.file[n]] /\ timer' = FALSE
                 /\ excused' = excused \cup Overwritten(flush.file) \cup LostOnLeaving(flush)
                 /\ missed' = StillMissed(flush.file) \ {n}
    BY DEF OpenWith
<1>2. CASE flush.file[n] = Absent
  <2>1. AfterSave(file', unsaved') /\ timer' \in BOOLEAN
      BY <1>1, <1>2, FlushShape DEF Leaving, IInv, Typed, TypeOK
  <2> QED BY <1>1, <1>2, <2>1, StaysStep
<1>3. CASE flush.file[n] # Absent
  <2>1. /\ AfterSave(file', unsaved') /\ excused' \subseteq Edits
        /\ \A e \in Made : Lasts(file', excused', e)
      BY <1>1, <1>3, LeavesStep
  <2>2. /\ file' \in [Notes -> FileTexts] /\ unsaved' \in BOOLEAN /\ file'[n] \in Text
        /\ missed' \subseteq missed
      BY <1>1, <1>3, <2>1 DEF AfterSave, FileTexts, StillMissed
  <2>3. document' \in Document /\ document' # None /\ document'.path = n /\ document'.source = file'[n]
    <3>1. document' \in Document
        BY <1>1, <1>3, <2>2 DEF Document
    <3> QED BY <1>1, <1>3, <3>1, NullAssumption
  <2>4. Typed'
      BY <1>1, <1>3, <2>1, <2>2, <2>3 DEF IInv, Typed, TypeOK, FileTexts
  <2>5. Content(n)' = file'[n] /\ ContentIn(file', n) = file'[n]
      BY <1>1, <1>3 DEF Content, ContentIn
  <2>6. Contained' /\ AbsentMissed' /\ SavedLasts' /\ Settled'
      BY <1>1, <1>3, <2>3, <2>5 DEF Contained, AbsentMissed, SavedLasts, Settled, Lasts
  <2>7. AllKept'
      BY <2>1 DEF AllKept, Made
  <2> QED BY <2>4, <2>6, <2>7 DEF Texts
<1> QED BY <1>2, <1>3

LEMMA OpenStep == IInv /\ (Open \/ OpenNew) => Typed' /\ Texts'
<1> SUFFICES ASSUME IInv, Open \/ OpenNew PROVE Typed' /\ Texts'
    OBVIOUS
<1>1. CASE Open
  <2>1. Prepared(file)
      BY ContentShape DEF Prepared, IInv, Typed, TypeOK, FileTexts
  <2> QED BY <1>1, <2>1, OpenWithStep DEF Open
<1>2. CASE OpenNew
  <2>1. PICK n \in Notes : /\ file[n] = Absent /\ OpenWith(n, [file EXCEPT ![n] = {}])
                           /\ UNCHANGED <<cycle, events, typed, remote>>
      BY <1>2 DEF OpenNew
  <2>2. Prepared([file EXCEPT ![n] = {}])
    <3>1. {} \in Text /\ {} # Absent
        BY NullAssumption DEF Text
    <3>2. [file EXCEPT ![n] = {}] \in [Notes -> FileTexts]
        BY <3>1 DEF IInv, Typed, TypeOK, FileTexts
    <3>3. \A m \in Notes : [file EXCEPT ![n] = {}][m] = IF m = n THEN {} ELSE file[m]
        BY DEF IInv, Typed, TypeOK
    <3> QED BY <2>1, <3>1, <3>2, <3>3 DEF Prepared, ContentIn, Content
  <2> QED BY <2>1, <2>2, OpenWithStep
<1> QED BY <1>1, <1>2

LEMMA CloseStep == IInv /\ Close => Typed' /\ Texts'
<1> SUFFICES ASSUME IInv, Close PROVE Typed' /\ Texts'
    OBVIOUS
<1>1. PICK flush \in Leaving(file) :
         /\ document' = None /\ timer' = FALSE
         /\ file' = flush.file /\ unsaved' = flush.unsaved
         /\ excused' = excused \cup Overwritten(flush.file) \cup LostOnLeaving(flush)
         /\ missed' = StillMissed(flush.file)
         /\ UNCHANGED <<cycle, events, typed, remote>>
    BY DEF Close
<1>2. Prepared(file)
    BY ContentShape DEF Prepared, IInv, Typed, TypeOK, FileTexts
<1>3. /\ AfterSave(file', unsaved') /\ excused' \subseteq Edits
      /\ \A e \in Made : Lasts(file', excused', e)
    BY <1>1, <1>2, LeavesStep
<1>4. Typed'
    BY <1>1, <1>3 DEF AfterSave, StillMissed, IInv, Typed, TypeOK, FileTexts
<1>5. Texts'
    BY <1>1, <1>3 DEF Texts, Contained, AbsentMissed, SavedLasts, Settled, AllKept, Made
<1> QED BY <1>4, <1>5

----------------------------------------------------------------------------
(***************************************************************************)
(* The sync thread, the tree and the rest                                  *)
(***************************************************************************)

\* Files change under the editor: it is told, or is known to be behind.
LEMMA UnderStep ==
    ASSUME IInv, UNCHANGED <<document, unsaved, typed>>,
           \A n \in Notes : Behind(n) => Behind(n)',
           \A n \in Notes : file'[n] = file[n] \/ Behind(n)',
           \A n \in Notes : file'[n] = Absent => (file[n] = Absent /\ n \notin missed) \/ n \in missed',
           \A e : Lasts(file, excused, e) => Lasts(file', excused', e),
           remote' \in Nat, \A e \in Made' : e \in Made \/ Lasts(file', excused', e)
    PROVE  Texts'
<1>1. document # None => document.path \in Notes
    BY DEF IInv, Typed, TypeOK, Document
<1>2. Contained'
    BY <1>1 DEF Contained, IInv, Texts, Content
<1>3. AbsentMissed'
    BY <1>1 DEF AbsentMissed, IInv, Texts
<1>4. SavedLasts'
    BY DEF SavedLasts, IInv, Texts
<1>5. Settled'
    BY <1>1 DEF Settled, IInv, Texts
<1>6. AllKept'
    BY DEF AllKept, IInv, Texts
<1> QED BY <1>2, <1>3, <1>4, <1>5, <1>6 DEF Texts

LEMMA WriteRemoteStep == IInv /\ WriteRemote => Typed' /\ Texts'
<1> SUFFICES ASSUME IInv, WriteRemote PROVE Typed' /\ Texts'
    OBVIOUS
<1> DEFINE fresh == MaxTyped + remote'
<1>0. PICK n \in Notes :
      /\ cycle # None /\ cycle.path = n /\ remote < MaxRemote /\ remote' = remote + 1
      /\ \/ /\ \E merged \in Merges(fresh) : file' = [file EXCEPT ![n] = merged]
            /\ missed' = missed
         \/ file' = [file EXCEPT ![n] = Absent] /\ missed' = missed \cup {n}
      /\ excused' = excused \cup ((Content(n) \cup {fresh}) \ Content(n)')
      /\ cycle' = [cycle EXCEPT !.path = None, !.written = cycle.written \cup {n}]
    BY DEF WriteRemote
<1>1. /\ cycle # None /\ remote \in Nat /\ remote' = remote + 1 /\ remote' \in 0 .. MaxRemote
      /\ UNCHANGED <<document, unsaved, timer, events, typed>>
      /\ cycle.read \in Text /\ fresh \in Edits /\ file \in [Notes -> FileTexts]
    BY <1>0, BoundsAssumption DEF WriteRemote, IInv, Typed, TypeOK, Cycle, Edits, FileTexts
<1>2. \/ /\ \E merged \in Merges(fresh) : file' = [file EXCEPT ![n] = merged]
         /\ missed' = missed
      \/ file' = [file EXCEPT ![n] = Absent] /\ missed' = missed \cup {n}
    BY <1>0
<1>3. /\ cycle' = [cycle EXCEPT !.path = None, !.written = cycle.written \cup {n}]
      /\ excused' = excused \cup ((Content(n) \cup {fresh}) \ ContentIn(file', n))
    BY <1>0 DEF Content, ContentIn
<1>4. \A merged \in Merges(fresh) : merged \in Text
    BY <1>1 DEF Text, Merges
<1>5. \A m \in Notes : m # n => file'[m] = file[m]
    BY <1>1, <1>2
<1>6. file'[n] = Absent => n \in missed'
    BY <1>1, <1>2, <1>4, NullAssumption
<1>7. cycle' \in Cycle /\ cycle' # None /\ cycle'.written = cycle.written \cup {n} /\ IsFiniteSet(cycle'.written)
  <2>1. cycle' \in Cycle /\ cycle'.written = cycle.written \cup {n}
      BY <1>1, <1>3 DEF Cycle, IInv, Typed, TypeOK
  <2>2. IsFiniteSet(cycle.written \cup {n})
      BY <1>1, FS_AddElement DEF IInv, Typed
  <2> QED BY <2>1, <2>2, NullAssumption
<1>8. Typed'
  <2>1. file' \in [Notes -> FileTexts]
      BY <1>1, <1>2, <1>4 DEF FileTexts
  <2>2. excused' \subseteq Edits /\ missed' \subseteq Notes
      BY <1>1, <1>2, <1>3, ContentShape DEF IInv, Typed, TypeOK, Text
  <2> QED BY <1>1, <1>7, <2>1, <2>2 DEF IInv, Typed, TypeOK, FileTexts
<1>9. \A e : Lasts(file, excused, e) => Lasts(file', excused', e)
  <2> SUFFICES ASSUME NEW e, Lasts(file, excused, e) PROVE Lasts(file', excused', e)
      OBVIOUS
  <2>1. CASE e \in excused
      BY <1>3, <2>1 DEF Lasts
  <2>2. ASSUME NEW m \in Notes, e \in ContentIn(file, m) PROVE Lasts(file', excused', e)
    <3>1. CASE m = n
      <4>1. e \in Content(n)
          BY <2>2, <3>1, ContentShape DEF IInv
      <4> QED BY <1>1, <1>3, <4>1 DEF Lasts
    <3>2. CASE m # n
        BY <1>5, <2>2, <3>2 DEF Lasts, ContentIn
    <3> QED BY <3>1, <3>2
  <2> QED BY <2>1, <2>2 DEF Lasts
<1>10. \A e \in Made' : e \in Made \/ Lasts(file', excused', e)
  <2>1. Lasts(file', excused', fresh)
      BY <1>1, <1>3 DEF Lasts
  <2>2. \A e \in Made' : e \in Made \/ e = fresh
      BY <1>1, BoundsAssumption DEF Made, IInv, Typed
  <2> QED BY <2>1, <2>2
<1>11. \A m \in Notes : (Behind(m) => Behind(m)') /\ (file'[m] = file[m] \/ Behind(m)')
    BY <1>1, <1>2, <1>5, <1>7 DEF Behind
<1>12. \A m \in Notes : file'[m] = Absent => (file[m] = Absent /\ m \notin missed) \/ m \in missed'
    BY <1>2, <1>5, <1>6
<1> QED BY <1>1, <1>8, <1>9, <1>10, <1>11, <1>12, UnderStep

\* What a cycle has written is reported with its end, or never.
LEMMA CycleStep ==
    IInv /\ (StartCycle \/ Look \/ EndCycle \/ FailCycle) => Typed' /\ Texts'
<1> SUFFICES ASSUME IInv, StartCycle \/ Look \/ EndCycle \/ FailCycle PROVE Typed' /\ Texts'
    OBVIOUS
<1>1. UNCHANGED <<file, document, unsaved, timer, typed, remote, excused>>
    BY DEF StartCycle, Look, EndCycle, FailCycle
<1>2. /\ cycle' = None \/ (cycle' \in Cycle /\ IsFiniteSet(cycle'.written))
      /\ events' \in Seq(Notes) /\ missed \subseteq missed' /\ missed' \subseteq Notes
      /\ \A n \in Notes : Behind(n) => Behind(n)'
  <2>1. CASE StartCycle
    <3>1. cycle' = [path |-> None, read |-> {}, written |-> {}] /\ cycle = None /\ UNCHANGED <<events, missed>>
        BY <2>1 DEF StartCycle
    <3>2. cycle' \in Cycle /\ cycle'.written = {}
        BY <3>1 DEF Cycle, Text
    <3> QED BY <3>1, <3>2, FS_EmptySet DEF Behind, IInv, Typed, TypeOK
  <2>2. CASE Look
    <3>1. PICK n \in Notes : cycle # None /\ cycle' = [cycle EXCEPT !.path = n, !.read = Content(n)]
                             /\ UNCHANGED <<events, missed>>
        BY <2>2 DEF Look
    <3>2. cycle' \in Cycle /\ cycle'.written = cycle.written
        BY <3>1, ContentShape DEF Cycle, IInv, Typed, TypeOK
    <3> QED BY <3>1, <3>2, NullAssumption DEF Behind, IInv, Typed, TypeOK
  <2>3. CASE EndCycle
    <3>1. cycle # None /\ cycle' = None /\ events' = events \o Reported /\ UNCHANGED missed
        BY <2>3 DEF EndCycle
    <3>2. /\ Reported \in Seq(Notes) /\ Range(Reported) = cycle.written
      <4>1. IsFiniteSet(cycle.written) /\ cycle.written \subseteq Notes
          BY <3>1 DEF IInv, Typed, TypeOK, Cycle
      <4>2. Reported \in Seq(cycle.written) /\ Range(Reported) = cycle.written
          BY <4>1, SetToSeqShape DEF Reported
      <4> QED BY <4>1, <4>2
    <3>3. events' \in Seq(Notes) /\ Range(events') = Range(events) \cup cycle.written
        BY <3>1, <3>2, RangeAppended DEF IInv, Typed, TypeOK
    <3> QED BY <3>1, <3>3 DEF Behind, IInv, Typed, TypeOK
  <2>4. CASE FailCycle
    <3>1. cycle # None /\ cycle' = None /\ missed' = missed \cup cycle.written /\ UNCHANGED events
        BY <2>4 DEF FailCycle
    <3> QED BY <3>1 DEF Behind, IInv, Typed, TypeOK, Cycle
  <2> QED BY <2>1, <2>2, <2>3, <2>4
<1>3. Typed'
    BY <1>1, <1>2 DEF IInv, Typed, TypeOK
<1>4. Texts'
  <2>1. \A n \in Notes : file'[n] = Absent => (file[n] = Absent /\ n \notin missed) \/ n \in missed'
      BY <1>1, <1>2
  <2>2. remote' \in Nat /\ Made' = Made
      BY <1>1, BoundsAssumption DEF IInv, Typed, Made
  <2> QED BY <1>1, <1>2, <2>1, <2>2, UnderStep
<1> QED BY <1>3, <1>4

\* A reload leaves a text that was saved, or unsaved edits that are known to be lost.
LEMMA PumpStep == IInv /\ Pump => Typed' /\ Texts'
<1> SUFFICES ASSUME IInv, Pump PROVE Typed' /\ Texts'
    OBVIOUS
<1> DEFINE n == Head(events)
<1>1. /\ events' \in Seq(Notes) /\ n \in Notes
      /\ Range(events) \subseteq Range(events') \cup {n} /\ Range(events') \subseteq Range(events)
    BY RangeTaken DEF Pump, IInv, Typed, TypeOK
<1>2. UNCHANGED <<file, timer, cycle, typed, remote>>
    BY DEF Pump
<1>3. CASE ~Reloads(n)
  <2>1. UNCHANGED <<document, unsaved, excused, missed>>
      BY <1>3 DEF Pump
  <2>2. Typed'
      BY <1>1, <1>2, <2>1 DEF IInv, Typed, TypeOK
  <2>3. AbsentMissed' /\ SavedLasts' /\ AllKept'
      BY <1>2, <2>1 DEF IInv, Texts, AbsentMissed, SavedLasts, AllKept, Made
  <2>4. document # None /\ ~Behind(document.path)' => ~Behind(document.path)
    <3> SUFFICES ASSUME document # None, ~Behind(document.path)', Behind(document.path) PROVE FALSE
        OBVIOUS
    <3>1. document.path = n
        BY <1>1, <1>2, <2>1 DEF Behind
    <3>2. file[n] = Absent
        BY <1>3, <3>1 DEF Reloads
    <3>3. n \in missed
        BY <3>1, <3>2 DEF IInv, Texts, AbsentMissed
    <3> QED BY <2>1, <3>1, <3>3 DEF Behind
  <2>5. Contained' /\ Settled'
    <3>1. \A m : Content(m)' = Content(m)
        BY <1>2 DEF Content
    <3> QED BY <1>2, <2>1, <2>4, <3>1 DEF IInv, Texts, Contained, Settled
  <2> QED BY <2>2, <2>3, <2>5 DEF Texts
<1>4. CASE Reloads(n)
  <2>1. /\ document # None /\ document.path = n /\ file[n] # Absent /\ document \in Document /\ file[n] \in Text
      BY <1>1, <1>4 DEF Reloads, IInv, Typed, TypeOK
  <2>2. /\ document' = [document EXCEPT !.source = file[n]] /\ unsaved' = FALSE
        /\ excused' = excused \cup (IF unsaved THEN document.source \ file[n] ELSE {})
        /\ missed' = missed \ {n}
      BY <1>4 DEF Pump, Adopted
  <2>3. document' \in Document /\ document' # None /\ document'.path = n /\ document'.source = file[n]
    <3>1. document' \in Document
        BY <2>1, <2>2 DEF Document
    <3> QED BY <2>1, <2>2, <3>1, NullAssumption DEF Document
  <2>4. Typed'
      BY <1>1, <1>2, <2>1, <2>2, <2>3 DEF IInv, Typed, TypeOK, Document, Text
  <2>5. ContentIn(file, n) = file[n] /\ \A m : Content(m)' = ContentIn(file, m)
      BY <1>2, <2>1 DEF Content, ContentIn
  <2>6. Contained' /\ AbsentMissed' /\ SavedLasts' /\ Settled'
      BY <1>1, <1>2, <2>1, <2>3, <2>5 DEF Contained, AbsentMissed, SavedLasts, Settled, Lasts
  <2>7. ASSUME NEW e \in document.source PROVE Lasts(file', excused', e)
      BY <1>1, <1>2, <2>1, <2>2, <2>5, <2>7 DEF IInv, Texts, SavedLasts, Lasts
  <2>8. AllKept'
    <3>1. \A e \in Made : Lasts(file', excused', e)
        BY <1>2, <2>2, <2>7 DEF IInv, Texts, AllKept, Lasts
    <3> QED BY <1>2, <3>1 DEF AllKept, Made
  <2> QED BY <2>4, <2>6, <2>8 DEF Texts
<1> QED BY <1>3, <1>4

LEMMA TypeTextStep == IInv /\ Type => Typed' /\ Texts'
<1> SUFFICES ASSUME IInv, Type PROVE Typed' /\ Texts'
    OBVIOUS
<1>1. /\ document # None /\ document \in Document /\ typed' = typed + 1 /\ typed' \in 1 .. MaxTyped
      /\ document' = [document EXCEPT !.source = document.source \cup {typed'}]
      /\ unsaved' = TRUE /\ timer' = TRUE
      /\ UNCHANGED <<file, cycle, events, remote, excused, missed>>
    BY BoundsAssumption DEF Type, IInv, Typed, TypeOK
<1>2. typed' \in Edits
    BY <1>1, BoundsAssumption DEF Edits
<1>3. /\ document' \in Document /\ document' # None
      /\ document'.path = document.path /\ document'.source = document.source \cup {typed'}
  <2>1. document' \in Document
      BY <1>1, <1>2 DEF Document, Text
  <2> QED BY <1>1, <2>1, NullAssumption DEF Document
<1>4. Typed'
    BY <1>1, <1>3, BoundsAssumption DEF IInv, Typed, TypeOK
<1>5. \A n : Behind(n)' = Behind(n) /\ Content(n)' = Content(n)
    BY <1>1 DEF Behind, Content
<1>6. Contained' /\ AbsentMissed' /\ SavedLasts' /\ Settled'
    BY <1>1, <1>3, <1>5 DEF IInv, Texts, Contained, AbsentMissed, SavedLasts, Settled
<1>7. AllKept'
  <2>1. \A e \in Made' : e \in Made \/ e = typed'
      BY <1>1, BoundsAssumption DEF Made, IInv, Typed
  <2> QED BY <1>1, <1>3, <2>1 DEF IInv, Texts, AllKept
<1> QED BY <1>4, <1>6, <1>7 DEF Texts

\* What the app ends with unsaved is lost, and known to be; what was saved is in the files.
LEMMA QuitStep == IInv /\ Quit => Typed' /\ Texts'
<1> SUFFICES ASSUME IInv, Quit PROVE Typed' /\ Texts'
    OBVIOUS
<1>1. /\ document' = None /\ unsaved' = FALSE /\ timer' = FALSE /\ cycle' = None /\ events' = <<>>
      /\ excused' = excused \cup
           (IF unsaved /\ document # None THEN document.source \ Content(document.path) ELSE {})
      /\ missed' = {} /\ UNCHANGED <<file, typed, remote>>
    BY DEF Quit
<1>2. Typed'
  <2>1. excused' \subseteq Edits
      BY <1>1 DEF IInv, Typed, TypeOK, Document, Text
  <2>2. events' \in Seq(Notes)
      BY <1>1
  <2> QED BY <1>1, <2>1, <2>2 DEF IInv, Typed, TypeOK
<1>3. ASSUME document # None, NEW e \in document.source PROVE Lasts(file', excused', e)
  <2>1. document.path \in Notes /\ Content(document.path) = ContentIn(file, document.path)
      BY <1>3, ContentShape DEF IInv, Typed, TypeOK, Document
  <2> QED BY <1>1, <1>3, <2>1 DEF IInv, Texts, SavedLasts, Lasts
<1>4. AllKept'
  <2>1. \A e \in Made : Lasts(file', excused', e)
      BY <1>1, <1>3 DEF IInv, Texts, AllKept, Lasts
  <2> QED BY <1>1, <2>1 DEF AllKept, Made
<1>5. Contained' /\ AbsentMissed' /\ SavedLasts' /\ Settled'
    BY <1>1 DEF Contained, AbsentMissed, SavedLasts, Settled
<1> QED BY <1>2, <1>4, <1>5 DEF Texts

LEMMA TreeStep == IInv /\ (Delete \/ Rename) => Typed' /\ Texts'
<1> SUFFICES ASSUME IInv, Delete \/ Rename PROVE Typed' /\ Texts'
    OBVIOUS
<1>1. UNCHANGED <<document, unsaved, timer, cycle, events, typed, remote>>
    BY DEF Delete, Rename
<1>2. remote' \in Nat /\ Made' = Made
    BY <1>1, BoundsAssumption DEF IInv, Typed, Made
<1>3. file \in [Notes -> FileTexts] /\ excused \subseteq Edits /\ missed \subseteq Notes
    BY DEF IInv, Typed, TypeOK, FileTexts
<1>4. ASSUME file' \in [Notes -> FileTexts], excused' \subseteq Edits, missed' \subseteq Notes,
             missed \subseteq missed', \A n \in Notes : file'[n] = file[n] \/ n \in missed',
             \A e : Lasts(file, excused, e) => Lasts(file', excused', e)
      PROVE  Typed' /\ Texts'
  <2>1. Typed'
      BY <1>1, <1>4 DEF IInv, Typed, TypeOK, FileTexts
  <2>2. \A n \in Notes : (Behind(n) => Behind(n)') /\ (n \in missed' => Behind(n)')
      BY <1>1, <1>4 DEF Behind
  <2>3. \A n \in Notes : file'[n] = Absent => (file[n] = Absent /\ n \notin missed) \/ n \in missed'
      BY <1>4
  <2> QED BY <1>1, <1>2, <1>4, <2>1, <2>2, <2>3, UnderStep
<1>5. CASE Delete
  <2>1. PICK n \in Notes : /\ file[n] # Absent /\ file' = [file EXCEPT ![n] = Absent]
                           /\ excused' = excused \cup file[n] /\ missed' = missed \cup {n}
      BY <1>5 DEF Delete
  <2>2. file' \in [Notes -> FileTexts] /\ excused' \subseteq Edits
      BY <1>3, <2>1 DEF FileTexts, Text
  <2>3. \A e : Lasts(file, excused, e) => Lasts(file', excused', e)
    <3> SUFFICES ASSUME NEW e, NEW m \in Notes, e \in ContentIn(file, m) PROVE Lasts(file', excused', e)
        BY <2>1 DEF Lasts
    <3>1. CASE m = n
        BY <2>1, <3>1 DEF Lasts, ContentIn
    <3>2. CASE m # n
        BY <1>3, <2>1, <3>2 DEF Lasts, ContentIn
    <3> QED BY <3>1, <3>2
  <2> QED BY <1>3, <1>4, <2>1, <2>2, <2>3
<1>6. CASE Rename
  <2>1. PICK n \in Notes, m \in Notes :
           /\ file[n] # Absent /\ file[m] = Absent /\ file' = [file EXCEPT ![m] = file[n], ![n] = Absent]
           /\ missed' = missed \cup {n, m} /\ excused' = excused
      BY <1>6 DEF Rename
  <2>2. file' \in [Notes -> FileTexts]
      BY <1>3, <2>1 DEF FileTexts
  <2>3. \A e : Lasts(file, excused, e) => Lasts(file', excused', e)
    <3> SUFFICES ASSUME NEW e, NEW k \in Notes, e \in ContentIn(file, k) PROVE Lasts(file', excused', e)
        BY <2>1 DEF Lasts
    <3>1. CASE k = n
      <4>1. file'[m] = file[n] /\ n # m
          BY <1>3, <2>1
      <4> QED BY <2>1, <3>1, <4>1 DEF Lasts, ContentIn
    <3>2. CASE k # n
      <4>1. k # m /\ file'[k] = file[k]
          BY <1>3, <2>1, <3>2 DEF ContentIn
      <4> QED BY <3>2, <4>1 DEF Lasts, ContentIn
    <3> QED BY <3>1, <3>2
  <2> QED BY <1>3, <1>4, <2>1, <2>2, <2>3
<1> QED BY <1>5, <1>6

----------------------------------------------------------------------------
LEMMA InvStep == IInv /\ [Next]_vars => IInv'
<1> SUFFICES ASSUME IInv, [Next]_vars PROVE IInv'
    OBVIOUS
<1>1. CASE UNCHANGED vars
  <2>1. Typed'
      BY <1>1 DEF vars, IInv, Typed, TypeOK
  <2>2. \A n : Behind(n)' = Behind(n) /\ Content(n)' = Content(n)
      BY <1>1 DEF vars, Behind, Content
  <2>3. Texts'
      BY <1>1, <2>2 DEF vars, IInv, Texts, Contained, AbsentMissed, SavedLasts, Settled, AllKept, Made
  <2> QED BY <2>1, <2>3 DEF IInv
<1>2. CASE Next
    BY <1>2, SaveStep, OpenStep, CloseStep, TypeTextStep, QuitStep, CycleStep, WriteRemoteStep,
       PumpStep, TreeStep DEF Next, IInv
<1> QED BY <1>1, <1>2

LEMMA EditorInvariant == Spec => []IInv
    BY InvInit, InvStep, PTL DEF Spec

LEMMA MadeIsHeld == IInv => Made \subseteq Held \cup excused
<1> SUFFICES ASSUME IInv, NEW e \in Made, e \notin excused PROVE e \in Held
    OBVIOUS
<1>1. (\E n \in Notes : e \in Content(n)) \/ (document # None /\ e \in document.source)
  <2>1. \A n \in Notes : Content(n) = ContentIn(file, n)
      BY ContentShape DEF IInv
  <2> QED BY <2>1 DEF IInv, Texts, AllKept, Lasts
<1> QED BY <1>1 DEF Held

\* What is typed is in the editor or in a file until its user deletes it, whatever is
\* opened, saved, merged, reloaded or renamed meanwhile, but for the known losses.
THEOREM TypingIsKept == Spec => []TypedKept
<1>1. IInv => TypedKept
    BY MadeIsHeld DEF TypedKept, Made
<1> QED BY <1>1, EditorInvariant, PTL

\* So is what the sync thread wrote: a save does not undo it unless the editor had not
\* been told, and reload_edits adopts it in the document too.
THEOREM ArrivalsAreKept == Spec => []RemoteKept
<1>1. IInv => RemoteKept
    BY MadeIsHeld DEF RemoteKept, Made
<1> QED BY <1>1, EditorInvariant, PTL

\* "Saved" is true: the file holds the text of the editor, unless it changed and the
\* editor is yet to hear of it.
THEOREM SavedMeansSaved == Spec => []Settled
<1>1. IInv => Settled
    BY DEF IInv, Texts
<1> QED BY <1>1, EditorInvariant, PTL

----------------------------------------------------------------------------
(***************************************************************************)
(* Live reload: the invariant                                              *)
(***************************************************************************)

\* Where edit i of the edits hs, which start in the new text at st, ends in the old
\* text o and in the new text n, and where it starts; edit 0 is the beginning and the
\* one after the last is the end.
OldEnd(hs, i) == IF i = 0 THEN 0 ELSE hs[i].pos + hs[i].remove
NewEnd(hs, st, i) == IF i = 0 THEN 0 ELSE st[i] + Len(hs[i].insert)
OldPos(o, hs, i) == IF i > Len(hs) THEN Len(o) ELSE hs[i].pos
NewPos(n, hs, st, i) == IF i > Len(hs) THEN Len(n) ELSE st[i]

\* An edit inserts what is in the new text, and nothing it removes is kept.
Replaces(o, n, hm, hs, st, i) ==
    /\ OldEnd(hs, i) <= Len(o) /\ NewEnd(hs, st, i) <= Len(n)
    /\ \A k \in 1 .. Len(hs[i].insert) : n[st[i] + k] = hs[i].insert[k]
    /\ \A u \in hs[i].pos + 1 .. hs[i].pos + hs[i].remove : hm[u] = 0

\* From a to b the old text is the new one from c to d.
Same(o, n, hm, a, b, c, d) ==
    /\ a <= b /\ d - c = b - a
    /\ \A u \in a + 1 .. b : o[u] = n[u + c - a] /\ hm[u] = u + c - a

\* The edits lead from o to n: between two of them the texts are the same, and they
\* are apart.
Script(o, n, hm, hs, st) ==
    /\ Len(st) = Len(hs) /\ Len(hm) = Len(o)
    /\ \A i \in 1 .. Len(hs) : Replaces(o, n, hm, hs, st, i)
    /\ \A i \in 0 .. Len(hs) :
          Same(o, n, hm, OldEnd(hs, i), OldPos(o, hs, i + 1), NewEnd(hs, st, i), NewPos(n, hs, st, i + 1))
    /\ \A i \in 1 .. Len(hs) - 1 : OldEnd(hs, i) < OldPos(o, hs, i + 1)

\* The types that the rest needs.
ReloadTyped ==
    /\ old \in Seq(Unit) /\ new \in Seq(Unit) /\ buffer \in Seq(Unit)
    /\ hunks \in Seq(Edit) /\ pending \in Edit \cup {NoEdit}
    /\ starts \in Seq(Nat) /\ home \in Seq(Nat)
    /\ pos = Len(old) /\ from \in 0 .. Len(old)

\* What edit_script has so far; the pending edit, if there is one, ends where the diff is.
Scripted ==
    IF pending = NoEdit
      THEN /\ Script(old, new, home, hunks, starts)
           /\ pc = "diff" /\ hunks # <<>> => OldEnd(hunks, Len(hunks)) < Len(old)
      ELSE /\ Len(pending.insert) <= Len(new) /\ pending.pos + pending.remove = Len(old)
           /\ Script(old, new, home, Append(hunks, pending), Append(starts, Len(new) - Len(pending.insert)))

\* The edits behind the first l were replayed: they made the new text behind that place.
ReplayedTo(b, o, n, hs, st, l) ==
    LET op == OldPos(o, hs, l + 1)
        np == NewPos(n, hs, st, l + 1)
    IN  /\ Len(b) = op + (Len(n) - np)
        /\ \A k \in 1 .. op : b[k] = o[k]
        /\ \A k \in np + 1 .. Len(n) : b[k - np + op] = n[k]

Progress ==
    /\ pc \in {"diff", "replay", "map", "done"}
    /\ pc # "diff" => pending = NoEdit
    /\ pc = "replay" => left \in 1 .. Len(hunks) /\ ReplayedTo(buffer, old, new, hunks, starts, left) /\ seen = 0 /\ delta = 0
    /\ pc = "map" => /\ buffer = new /\ hunks # <<>>
                     /\ seen \in 0 .. Len(hunks) /\ OldEnd(hunks, seen) <= from
                     /\ delta = NewEnd(hunks, starts, seen) - OldEnd(hunks, seen)
    /\ pc = "done" => buffer = new /\ (~Drifted => caret = LandsAt(from))

ReloadInv == ReloadTyped /\ Scripted /\ Progress

----------------------------------------------------------------------------
(***************************************************************************)
(* Units and splices                                                       *)
(***************************************************************************)

LEMMA UnitsShape ==
    ASSUME NEW char \in Chars
    PROVE  /\ Units(char) \in Seq(Unit) /\ Len(Units(char)) \in {1, 2}
           /\ Utf16Len(char) = Len(Units(char))
<1>1. CASE char \in Astral
  <2>1. Units(char) = <<<<char, 1>>, <<char, 2>>>>
    BY <1>1 DEF Units
  <2>2. <<char, 1>> \in Unit /\ <<char, 2>> \in Unit
    BY DEF Unit
  <2> QED  BY <2>1, <2>2 DEF Utf16Len
<1>2. CASE char \notin Astral
  <2>1. Units(char) = <<<<char, 1>>>> /\ <<char, 1>> \in Unit
    BY <1>2 DEF Units, Unit
  <2> QED  BY <2>1 DEF Utf16Len
<1> QED  BY <1>1, <1>2

\* What follows a text leaves the text alone.
LEMMA Followed ==
    ASSUME NEW S, NEW s \in Seq(S), NEW t \in Seq(S)
    PROVE  /\ s \o t \in Seq(S) /\ Len(s \o t) = Len(s) + Len(t)
           /\ \A k \in 1 .. Len(s) : (s \o t)[k] = s[k]
           /\ \A k \in 1 .. Len(t) : (s \o t)[Len(s) + k] = t[k]
OBVIOUS

LEMMA SplicedShape ==
    ASSUME NEW s \in Seq(Unit), NEW h \in Edit, h.pos + h.remove <= Len(s)
    PROVE  LET t == Spliced(s, h)
               grown == Len(h.insert) - h.remove
           IN  /\ t \in Seq(Unit) /\ Len(t) = Len(s) + grown
               /\ \A k \in 1 .. h.pos : t[k] = s[k]
               /\ \A k \in 1 .. Len(h.insert) : t[h.pos + k] = h.insert[k]
               /\ \A k \in h.pos + h.remove + 1 .. Len(s) : t[k + grown] = s[k]
<1> DEFINE p == h.pos
           e == h.pos + h.remove
           ins == h.insert
           head == SubSeq(s, 1, p)
           tail == SubSeq(s, e + 1, Len(s))
           t == (head \o ins) \o tail
<1>1. /\ p \in Nat /\ e \in Nat /\ p <= e /\ e <= Len(s) /\ h.remove = e - p
      /\ ins \in Seq(Unit) /\ Len(ins) \in Nat /\ Len(s) \in Nat
  BY DEF Edit
<1>2. Spliced(s, h) = t
  BY DEF Spliced
<1> HIDE DEF p, e, ins
<1>3. head \in Seq(Unit) /\ Len(head) = p /\ \A k \in 1 .. p : head[k] = s[k]
  BY <1>1
<1>4. /\ tail \in Seq(Unit) /\ Len(tail) = Len(s) - e
      /\ \A k \in 1 .. Len(s) - e : tail[k] = s[e + k]
  BY <1>1
<1> HIDE DEF head, tail
<1> DEFINE front == head \o ins
<1>5. /\ front \in Seq(Unit) /\ Len(front) = p + Len(ins)
      /\ \A k \in 1 .. p : front[k] = head[k]
      /\ \A k \in 1 .. Len(ins) : front[p + k] = ins[k]
  <2>1. /\ front \in Seq(Unit) /\ Len(front) = Len(head) + Len(ins)
        /\ \A k \in 1 .. Len(head) : front[k] = head[k]
        /\ \A k \in 1 .. Len(ins) : front[Len(head) + k] = ins[k]
    <3>1. head \in Seq(Unit) /\ ins \in Seq(Unit)
      BY <1>1, <1>3
    <3> QED  BY <3>1, Followed
  <2> HIDE DEF front
  <2> QED  BY <1>3, <2>1
<1> HIDE DEF front
<1>6. /\ t \in Seq(Unit) /\ Len(t) = p + Len(ins) + Len(tail)
      /\ \A k \in 1 .. p + Len(ins) : t[k] = front[k]
      /\ \A k \in 1 .. Len(tail) : t[p + Len(ins) + k] = tail[k]
  <2>1. t = front \o tail
    BY DEF front
  <2>2. /\ front \o tail \in Seq(Unit) /\ Len(front \o tail) = Len(front) + Len(tail)
        /\ \A k \in 1 .. Len(front) : (front \o tail)[k] = front[k]
        /\ \A k \in 1 .. Len(tail) : (front \o tail)[Len(front) + k] = tail[k]
    <3>1. front \in Seq(Unit) /\ tail \in Seq(Unit)
      BY <1>4, <1>5
    <3> QED  BY <3>1, Followed
  <2> HIDE DEF t
  <2> QED  BY <1>5, <2>1, <2>2
<1> HIDE DEF t
<1>7. Len(t) = Len(s) + (Len(ins) - (e - p))
  BY <1>1, <1>4, <1>6
<1>8. \A k \in 1 .. p : t[k] = s[k]
  BY <1>1, <1>3, <1>5, <1>6
<1>9. \A k \in 1 .. Len(ins) : t[p + k] = ins[k]
  BY <1>1, <1>5, <1>6
<1>10. ASSUME NEW k \in e + 1 .. Len(s)
       PROVE  t[k + (Len(ins) - (e - p))] = s[k]
  <2>1. k - e \in 1 .. Len(tail)
    BY <1>1, <1>4
  <2>2. t[p + Len(ins) + (k - e)] = tail[k - e] /\ tail[k - e] = s[e + (k - e)]
    BY <1>4, <1>6, <2>1
  <2>3. p + Len(ins) + (k - e) = k + (Len(ins) - (e - p)) /\ e + (k - e) = k
    BY <1>1
  <2> QED  BY <2>2, <2>3
<1> QED  BY <1>1, <1>2, <1>6, <1>7, <1>8, <1>9, <1>10 DEF p, e, ins

----------------------------------------------------------------------------
(***************************************************************************)
(* Scripts                                                                 *)
(***************************************************************************)

LEMMA Appended ==
    ASSUME NEW S, NEW s \in Seq(S), NEW x \in S
    PROVE  /\ Append(s, x) \in Seq(S) /\ Len(Append(s, x)) = Len(s) + 1
           /\ \A i \in 1 .. Len(s) : Append(s, x)[i] = s[i]
           /\ Append(s, x)[Len(s) + 1] = x
OBVIOUS

\* The fields of an edit.
LEMMA EditFields ==
    ASSUME NEW hs \in Seq(Edit), NEW st \in Seq(Nat), Len(st) = Len(hs), NEW i \in 1 .. Len(hs)
    PROVE  /\ hs[i].pos \in Nat /\ hs[i].remove \in Nat /\ st[i] \in Nat
           /\ hs[i].insert \in Seq(Unit) /\ Len(hs[i].insert) \in Nat
<1>1. hs[i] \in Edit /\ st[i] \in Nat
  OBVIOUS
<1>2. hs[i].pos \in Nat /\ hs[i].remove \in Nat /\ hs[i].insert \in Seq(Unit)
  BY <1>1 DEF Edit
<1> QED  BY <1>1, <1>2

\* Where edits end, and the next ones start, are places in the texts.
LEMMA Places ==
    ASSUME NEW o \in Seq(Unit), NEW n \in Seq(Unit), NEW hm, NEW hs \in Seq(Edit), NEW st \in Seq(Nat),
           Script(o, n, hm, hs, st), NEW i \in 0 .. Len(hs)
    PROVE  /\ OldEnd(hs, i) \in 0 .. Len(o) /\ NewEnd(hs, st, i) \in 0 .. Len(n)
           /\ OldPos(o, hs, i + 1) \in 0 .. Len(o) /\ NewPos(n, hs, st, i + 1) \in 0 .. Len(n)
<1>1. Len(o) \in Nat /\ Len(n) \in Nat /\ Len(hs) \in Nat /\ Len(st) = Len(hs)
  BY DEF Script
<1>2. ASSUME NEW j \in 1 .. Len(hs)
      PROVE  /\ hs[j].pos \in 0 .. Len(o) /\ OldEnd(hs, j) \in 0 .. Len(o)
             /\ st[j] \in 0 .. Len(n) /\ NewEnd(hs, st, j) \in 0 .. Len(n)
  <2>1. hs[j].pos \in Nat /\ hs[j].remove \in Nat /\ st[j] \in Nat /\ Len(hs[j].insert) \in Nat
    BY <1>1, EditFields
  <2>2. OldEnd(hs, j) = hs[j].pos + hs[j].remove /\ NewEnd(hs, st, j) = st[j] + Len(hs[j].insert)
    BY <1>1 DEF OldEnd, NewEnd
  <2>3. OldEnd(hs, j) <= Len(o) /\ NewEnd(hs, st, j) <= Len(n)
    BY DEF Script, Replaces
  <2>4. \A x, y \in Nat, z \in Nat : x + y <= z => x \in 0 .. z /\ x + y \in 0 .. z
    OBVIOUS
  <2> QED  BY <1>1, <2>1, <2>2, <2>3, <2>4, Zenon
<1>3. OldEnd(hs, i) \in 0 .. Len(o) /\ NewEnd(hs, st, i) \in 0 .. Len(n)
  <2>1. CASE i = 0
    BY <1>1, <2>1 DEF OldEnd, NewEnd
  <2>2. CASE i # 0
    BY <1>1, <1>2, <2>2
  <2> QED  BY <2>1, <2>2
<1>4. OldPos(o, hs, i + 1) \in 0 .. Len(o) /\ NewPos(n, hs, st, i + 1) \in 0 .. Len(n)
  <2>1. CASE i = Len(hs)
    BY <1>1, <2>1 DEF OldPos, NewPos
  <2>2. CASE i # Len(hs)
    <3>1. i + 1 \in 1 .. Len(hs) /\ ~(i + 1 > Len(hs))
      BY <1>1, <2>2
    <3> QED  BY <1>2, <3>1 DEF OldPos, NewPos
  <2> QED  BY <2>1, <2>2
<1> QED  BY <1>3, <1>4

\* t starts with s.
Extends(s, t) == Len(s) <= Len(t) /\ \A k \in 1 .. Len(s) : t[k] = s[k]

LEMMA FollowedExtends ==
    ASSUME NEW S, NEW s \in Seq(S), NEW t \in Seq(S)
    PROVE  Extends(s, s \o t)
BY DEF Extends

\* Texts that grow at their ends stay the same where they were.
LEMMA SameStays ==
    ASSUME NEW o \in Seq(Unit), NEW n \in Seq(Unit), NEW hm \in Seq(Nat),
           NEW p \in Seq(Unit), NEW q \in Seq(Unit), NEW gm \in Seq(Nat),
           Extends(o, p), Extends(n, q), Extends(hm, gm), Len(hm) = Len(o),
           NEW a \in 0 .. Len(o), NEW b \in 0 .. Len(o), NEW c \in 0 .. Len(n), NEW d \in 0 .. Len(n),
           Same(o, n, hm, a, b, c, d)
    PROVE  Same(p, q, gm, a, b, c, d)
<1>1. Len(o) \in Nat /\ Len(n) \in Nat /\ a <= b /\ d - c = b - a
  BY DEF Same
<1>2. ASSUME NEW u \in a + 1 .. b
      PROVE  p[u] = q[u + c - a] /\ gm[u] = u + c - a
  <2>1. u \in 1 .. Len(o) /\ u + c - a \in 1 .. Len(n)
    BY <1>1
  <2>2. o[u] = n[u + c - a] /\ hm[u] = u + c - a
    BY DEF Same
  <2>3. p[u] = o[u] /\ q[u + c - a] = n[u + c - a] /\ gm[u] = hm[u]
    BY <2>1 DEF Extends
  <2> QED  BY <2>2, <2>3
<1> QED  BY <1>1, <1>2 DEF Same

\* The edits stay right when the texts grow at their ends.
LEMMA ReplacesStays ==
    ASSUME NEW o \in Seq(Unit), NEW n \in Seq(Unit), NEW hm \in Seq(Nat),
           NEW p \in Seq(Unit), NEW q \in Seq(Unit), NEW gm \in Seq(Nat),
           Extends(o, p), Extends(n, q), Extends(hm, gm), Len(hm) = Len(o),
           NEW hs \in Seq(Edit), NEW st \in Seq(Nat), Len(st) = Len(hs), NEW i \in 1 .. Len(hs),
           Replaces(o, n, hm, hs, st, i)
    PROVE  Replaces(p, q, gm, hs, st, i)
<1> DEFINE at == hs[i].pos
           gone == hs[i].remove
           s == st[i]
           ins == hs[i].insert
<1>1. at \in Nat /\ gone \in Nat /\ s \in Nat /\ Len(ins) \in Nat /\ i # 0
  BY EditFields
<1>2. /\ OldEnd(hs, i) = at + gone /\ NewEnd(hs, st, i) = s + Len(ins)
      /\ OldEnd(hs, i) <= Len(o) /\ NewEnd(hs, st, i) <= Len(n)
  BY <1>1 DEF OldEnd, NewEnd, Replaces
<1>3. /\ \A k \in 1 .. Len(ins) : n[s + k] = ins[k]
      /\ \A u \in at + 1 .. at + gone : hm[u] = 0
  BY DEF Replaces
<1> HIDE DEF at, gone, s, ins
<1>4. Len(o) \in Nat /\ Len(n) \in Nat /\ Len(p) \in Nat /\ Len(q) \in Nat /\ Len(o) <= Len(p) /\ Len(n) <= Len(q)
  BY DEF Extends
<1>5. OldEnd(hs, i) <= Len(p) /\ NewEnd(hs, st, i) <= Len(q)
  BY <1>1, <1>2, <1>4
<1>6. ASSUME NEW k \in 1 .. Len(ins)
      PROVE  q[s + k] = ins[k]
  <2>1. s + k \in 1 .. Len(n)
    BY <1>1, <1>2, <1>4
  <2> QED  BY <1>3, <2>1 DEF Extends
<1>7. ASSUME NEW u \in at + 1 .. at + gone
      PROVE  gm[u] = 0
  <2>1. u \in 1 .. Len(hm)
    BY <1>1, <1>2, <1>4
  <2> QED  BY <1>3, <2>1 DEF Extends
<1> QED  BY <1>5, <1>6, <1>7 DEF Replaces, at, gone, s, ins
\* Where the edits are does not depend on the texts, but for what follows the last.
LEMMA OldPosStays ==
    ASSUME NEW o, NEW p, NEW hs \in Seq(Edit), NEW i \in 0 .. Len(hs) - 1
    PROVE  OldPos(p, hs, i + 1) = OldPos(o, hs, i + 1)
<1>1. Len(hs) \in Nat /\ ~(i + 1 > Len(hs))
  OBVIOUS
<1> QED  BY <1>1 DEF OldPos

LEMMA NewPosStays ==
    ASSUME NEW n, NEW q, NEW hs \in Seq(Edit), NEW st, NEW i \in 0 .. Len(hs) - 1
    PROVE  NewPos(q, hs, st, i + 1) = NewPos(n, hs, st, i + 1)
<1>1. Len(hs) \in Nat /\ ~(i + 1 > Len(hs))
  OBVIOUS
<1> QED  BY <1>1 DEF NewPos

\* Two stretches where the texts are the same, one behind the other, are one.
LEMMA SameJoined ==
    ASSUME NEW o, NEW n, NEW hm,
           NEW a \in Nat, NEW b \in Nat, NEW c \in Nat, NEW d \in Nat, NEW e \in Nat, NEW f \in Nat,
           Same(o, n, hm, a, b, c, d), Same(o, n, hm, b, e, d, f)
    PROVE  Same(o, n, hm, a, e, c, f)
<1>1. a <= b /\ d - c = b - a /\ b <= e /\ f - d = e - b
  BY DEF Same
<1>2. ASSUME NEW u \in a + 1 .. e
      PROVE  o[u] = n[u + c - a] /\ hm[u] = u + c - a
  <2>1. CASE u \in a + 1 .. b
    BY <2>1 DEF Same
  <2>2. CASE u \notin a + 1 .. b
    <3>1. u \in b + 1 .. e /\ u + d - b = u + c - a
      BY <1>1, <2>2
    <3>2. o[u] = n[u + d - b] /\ hm[u] = u + d - b
      BY <3>1 DEF Same
    <3> QED  BY <3>1, <3>2
  <2> QED  BY <2>1, <2>2
<1>3. a <= e /\ f - c = e - a
  BY <1>1
<1> QED  BY <1>2, <1>3 DEF Same

\* What is appended to both texts is the same in them.
LEMMA SameAppended ==
    ASSUME NEW o \in Seq(Unit), NEW n \in Seq(Unit), NEW hm \in Seq(Nat), Len(hm) = Len(o),
           NEW us \in Seq(Unit), NEW more \in Seq(Nat), Len(more) = Len(us),
           \A k \in 1 .. Len(us) : more[k] = Len(n) + k
    PROVE  Same(o \o us, n \o us, hm \o more, Len(o), Len(o) + Len(us), Len(n), Len(n) + Len(us))
<1> DEFINE p == o \o us
           q == n \o us
           gm == hm \o more
<1>1. \A k \in 1 .. Len(us) : p[Len(o) + k] = us[k]
  BY Followed
<1>2. \A k \in 1 .. Len(us) : q[Len(n) + k] = us[k]
  BY Followed
<1>3. \A k \in 1 .. Len(us) : gm[Len(o) + k] = more[k]
  BY Followed
<1>4. Len(o) \in Nat /\ Len(n) \in Nat /\ Len(us) \in Nat
  OBVIOUS
<1> HIDE DEF p, q, gm
<1>5. ASSUME NEW u \in Len(o) + 1 .. Len(o) + Len(us)
      PROVE  p[u] = q[u + Len(n) - Len(o)] /\ gm[u] = u + Len(n) - Len(o)
  <2> DEFINE k == u - Len(o)
  <2>1. k \in 1 .. Len(us) /\ Len(o) + k = u /\ Len(n) + k = u + Len(n) - Len(o)
    BY <1>4
  <2> HIDE DEF k
  <2> QED  BY <1>1, <1>2, <1>3, <2>1
<1>6. Same(p, q, gm, Len(o), Len(o) + Len(us), Len(n), Len(n) + Len(us))
  BY <1>4, <1>5 DEF Same
<1> QED  BY <1>6 DEF p, q, gm

\* An unchanged run makes the last stretch longer.
LEMMA ScriptEqual ==
    ASSUME NEW o \in Seq(Unit), NEW n \in Seq(Unit), NEW hm \in Seq(Nat), NEW hs \in Seq(Edit), NEW st \in Seq(Nat),
           Script(o, n, hm, hs, st), NEW us \in Seq(Unit),
           NEW more \in Seq(Nat), Len(more) = Len(us), \A k \in 1 .. Len(us) : more[k] = Len(n) + k
    PROVE  Script(o \o us, n \o us, hm \o more, hs, st)
<1> DEFINE m == Len(hs)
           p == o \o us
           q == n \o us
           gm == hm \o more
<1>1. p \in Seq(Unit) /\ Extends(o, p) /\ Len(p) = Len(o) + Len(us)
  BY Followed, FollowedExtends
<1>2. q \in Seq(Unit) /\ Extends(n, q) /\ Len(q) = Len(n) + Len(us)
  BY Followed, FollowedExtends
<1>3. gm \in Seq(Nat) /\ Extends(hm, gm) /\ Len(gm) = Len(hm) + Len(more)
  <2>1. Extends(hm, gm)
    BY FollowedExtends, Zenon
  <2>2. gm \in Seq(Nat) /\ Len(gm) = Len(hm) + Len(more)
    BY Followed, Zenon
  <2> QED  BY <2>1, <2>2
<1>4. Len(st) = m /\ Len(hm) = Len(o) /\ m \in Nat /\ Len(o) \in Nat /\ Len(n) \in Nat /\ Len(us) \in Nat
  BY DEF Script
<1>5. Same(p, q, gm, Len(o), Len(p), Len(n), Len(q))
  BY <1>1, <1>2, <1>4, SameAppended
<1> HIDE DEF p, q, gm, m
<1>6. \A i \in 1 .. m : Replaces(p, q, gm, hs, st, i)
  BY <1>1, <1>2, <1>3, <1>4, ReplacesStays DEF Script, m
<1>7. ASSUME NEW i \in 0 .. m
      PROVE  Same(p, q, gm, OldEnd(hs, i), OldPos(p, hs, i + 1), NewEnd(hs, st, i), NewPos(q, hs, st, i + 1))
  <2> DEFINE a == OldEnd(hs, i)
             b == OldPos(o, hs, i + 1)
             c == NewEnd(hs, st, i)
             d == NewPos(n, hs, st, i + 1)
  <2>1. a \in 0 .. Len(o) /\ b \in 0 .. Len(o) /\ c \in 0 .. Len(n) /\ d \in 0 .. Len(n)
    BY Places DEF m
  <2>2. Same(o, n, hm, a, b, c, d)
    BY DEF Script, m
  <2>3. Same(p, q, gm, a, b, c, d)
    <3> HIDE DEF a, b, c, d
    <3> QED  BY <1>1, <1>2, <1>3, <1>4, <2>1, <2>2, SameStays
  <2>4. CASE i = m
    <3>1. b = Len(o) /\ d = Len(n) /\ OldPos(p, hs, i + 1) = Len(p) /\ NewPos(q, hs, st, i + 1) = Len(q)
      BY <1>4, <2>4 DEF OldPos, NewPos, m
    <3>2. /\ a \in Nat /\ b \in Nat /\ c \in Nat /\ d \in Nat /\ Len(p) \in Nat /\ Len(q) \in Nat
          /\ Same(p, q, gm, b, Len(p), d, Len(q))
      BY <1>1, <1>2, <1>5, <2>1, <3>1
    <3>3. Same(p, q, gm, a, Len(p), c, Len(q))
      <4> HIDE DEF a, b, c, d
      <4> QED  BY <2>3, <3>2, SameJoined, Zenon
    <3> QED  BY <3>1, <3>3
  <2>5. CASE i # m
    <3>1. i \in 0 .. m - 1
      BY <1>4, <2>5
    <3>2. OldPos(p, hs, i + 1) = b /\ NewPos(q, hs, st, i + 1) = d
      <4>1. i \in 0 .. Len(hs) - 1
        BY <3>1 DEF m
      <4>2. OldPos(p, hs, i + 1) = b
        BY <4>1, OldPosStays
      <4>3. NewPos(q, hs, st, i + 1) = d
        BY <4>1, NewPosStays
      <4> QED  BY <4>2, <4>3
    <3> QED  BY <2>3, <3>2
  <2> QED  BY <2>4, <2>5
<1>8. \A i \in 1 .. m - 1 : OldEnd(hs, i) < OldPos(p, hs, i + 1)
  <2> TAKE i \in 1 .. m - 1
  <2>1. OldEnd(hs, i) < OldPos(o, hs, i + 1)
    BY DEF Script, m
  <2>2. i \in 0 .. Len(hs) - 1
    BY <1>4 DEF m
  <2>3. OldPos(p, hs, i + 1) = OldPos(o, hs, i + 1)
    BY <2>2, OldPosStays, Zenon
  <2> QED  BY <2>1, <2>3
<1>9. Len(gm) = Len(p)
  BY <1>1, <1>3, <1>4
<1>10. Script(p, q, gm, hs, st)
  BY <1>4, <1>6, <1>7, <1>8, <1>9 DEF Script, m
<1> QED  BY <1>10 DEF p, q, gm

\* Edits in front of the last do not see it.
LEMMA BeforeLast ==
    ASSUME NEW hs \in Seq(Edit), NEW st \in Seq(Nat), Len(st) = Len(hs), NEW e \in Edit, NEW s \in Nat,
           NEW o, NEW n, NEW hm, NEW i \in 1 .. Len(hs)
    PROVE  /\ OldEnd(Append(hs, e), i) = OldEnd(hs, i)
           /\ NewEnd(Append(hs, e), Append(st, s), i) = NewEnd(hs, st, i)
           /\ OldPos(o, Append(hs, e), i) = OldPos(o, hs, i)
           /\ NewPos(n, Append(hs, e), Append(st, s), i) = NewPos(n, hs, st, i)
           /\ Replaces(o, n, hm, Append(hs, e), Append(st, s), i) <=> Replaces(o, n, hm, hs, st, i)
<1> DEFINE hse == Append(hs, e)
           sts == Append(st, s)
<1>1. hse[i] = hs[i] /\ sts[i] = st[i] /\ Len(hse) = Len(hs) + 1 /\ i # 0 /\ ~(i > Len(hs)) /\ ~(i > Len(hs) + 1)
  OBVIOUS
<1> HIDE DEF hse, sts
<1>2. OldEnd(hse, i) = OldEnd(hs, i) /\ NewEnd(hse, sts, i) = NewEnd(hs, st, i)
  BY <1>1 DEF OldEnd, NewEnd
<1>3. OldPos(o, hse, i) = OldPos(o, hs, i) /\ NewPos(n, hse, sts, i) = NewPos(n, hs, st, i)
  BY <1>1 DEF OldPos, NewPos
<1>4. Replaces(o, n, hm, hse, sts, i) <=> Replaces(o, n, hm, hs, st, i)
  BY <1>1, <1>2, Zenon DEF Replaces
<1> QED  BY <1>2, <1>3, <1>4 DEF hse, sts

\* Where the last edit is.
LEMMA LastShape ==
    ASSUME NEW hs \in Seq(Edit), NEW st \in Seq(Nat), Len(st) = Len(hs), NEW e \in Edit, NEW s \in Nat
    PROVE  /\ Append(hs, e) \in Seq(Edit) /\ Append(st, s) \in Seq(Nat)
           /\ Len(Append(hs, e)) = Len(hs) + 1 /\ Len(Append(st, s)) = Len(hs) + 1
           /\ Append(hs, e)[Len(hs) + 1] = e /\ Append(st, s)[Len(hs) + 1] = s
           /\ Len(hs) + 1 \in Nat \ {0}
OBVIOUS

\* An edit begins behind the last stretch.
LEMMA ScriptBegins ==
    ASSUME NEW o \in Seq(Unit), NEW n \in Seq(Unit), NEW hm \in Seq(Nat), NEW hs \in Seq(Edit), NEW st \in Seq(Nat),
           Script(o, n, hm, hs, st), Len(hs) = 0 \/ OldEnd(hs, Len(hs)) < Len(o),
           NEW e \in Edit, e.pos = Len(o), e.remove = 0, e.insert = <<>>
    PROVE  Script(o, n, hm, Append(hs, e), Append(st, Len(n)))
<1> DEFINE m == Len(hs) + 1
           hse == Append(hs, e)
           sts == Append(st, Len(n))
<1>1. /\ Len(st) = Len(hs) /\ Len(hm) = Len(o) /\ Len(o) \in Nat /\ Len(n) \in Nat /\ Len(hs) \in Nat
      /\ Len(e.insert) = 0
  BY DEF Script
<1>2. /\ Len(hse) = m /\ Len(sts) = m /\ hse[m] = e /\ sts[m] = Len(n)
      /\ OldEnd(hse, m) = e.pos + e.remove /\ NewEnd(hse, sts, m) = Len(n) + Len(e.insert)
      /\ OldPos(o, hse, m) = e.pos /\ NewPos(n, hse, sts, m) = Len(n)
      /\ OldPos(o, hse, m + 1) = Len(o) /\ NewPos(n, hse, sts, m + 1) = Len(n)
  <2>1. /\ hse \in Seq(Edit) /\ sts \in Seq(Nat) /\ m \in Nat \ {0} /\ Len(hse) = m /\ Len(sts) = m
        /\ hse[m] = e /\ sts[m] = Len(n)
    BY <1>1, LastShape
  <2> HIDE DEF hse, sts, m
  <2>2. m # 0 /\ ~(m > m) /\ m + 1 > m
    BY <2>1
  <2> QED  BY <2>1, <2>2, Zenon DEF OldEnd, NewEnd, OldPos, NewPos
<1>3. OldEnd(hse, m) = Len(o) /\ NewEnd(hse, sts, m) = Len(n) /\ m \in Nat
  BY <1>1, <1>2
<1>4. ASSUME NEW i \in 1 .. Len(hs)
      PROVE  /\ OldEnd(hse, i) = OldEnd(hs, i) /\ NewEnd(hse, sts, i) = NewEnd(hs, st, i)
             /\ OldPos(o, hse, i) = OldPos(o, hs, i) /\ NewPos(n, hse, sts, i) = NewPos(n, hs, st, i)
             /\ Replaces(o, n, hm, hse, sts, i)
  <2>1. Replaces(o, n, hm, hs, st, i)
    BY DEF Script
  <2> QED  BY <1>1, <2>1, BeforeLast
<1>5. OldPos(o, hs, m) = Len(o) /\ NewPos(n, hs, st, m) = Len(n)
  BY <1>1 DEF OldPos, NewPos
<1>6. OldEnd(hse, 0) = OldEnd(hs, 0) /\ NewEnd(hse, sts, 0) = NewEnd(hs, st, 0)
  BY DEF OldEnd, NewEnd
<1>7. m = Len(hs) + 1
  OBVIOUS
<1> HIDE DEF hse, sts, m
<1>8. \A i \in 1 .. m : Replaces(o, n, hm, hse, sts, i)
  <2>1. Replaces(o, n, hm, hse, sts, m)
    BY <1>1, <1>2, <1>3 DEF Replaces
  <2> QED  BY <1>1, <1>4, <1>7, <2>1
<1>9. ASSUME NEW i \in 0 .. m
      PROVE  Same(o, n, hm, OldEnd(hse, i), OldPos(o, hse, i + 1), NewEnd(hse, sts, i), NewPos(n, hse, sts, i + 1))
  <2>1. CASE i = m
    BY <1>1, <1>2, <1>3, <2>1 DEF Same
  <2>2. CASE i # m
    <3>1. i \in 0 .. Len(hs) /\ (i = 0 \/ i \in 1 .. Len(hs)) /\ (i + 1 = m \/ i + 1 \in 1 .. Len(hs))
      BY <1>1, <1>7, <2>2
    <3>2. OldEnd(hse, i) = OldEnd(hs, i) /\ NewEnd(hse, sts, i) = NewEnd(hs, st, i)
      BY <1>4, <1>6, <3>1
    <3>3. OldPos(o, hse, i + 1) = OldPos(o, hs, i + 1) /\ NewPos(n, hse, sts, i + 1) = NewPos(n, hs, st, i + 1)
      BY <1>2, <1>4, <1>5, <3>1
    <3>4. Same(o, n, hm, OldEnd(hs, i), OldPos(o, hs, i + 1), NewEnd(hs, st, i), NewPos(n, hs, st, i + 1))
      BY <3>1 DEF Script
    <3> QED  BY <3>2, <3>3, <3>4
  <2> QED  BY <2>1, <2>2
<1>10. ASSUME NEW i \in 1 .. m - 1
       PROVE  OldEnd(hse, i) < OldPos(o, hse, i + 1)
  <2>1. i \in 1 .. Len(hs)
    BY <1>1, <1>7
  <2>4. OldEnd(hse, i) = OldEnd(hs, i)
    BY <1>4, <2>1
  <2>2. CASE i = Len(hs)
    <3>1. OldEnd(hs, i) < Len(o)
      BY <1>1, <2>1, <2>2
    <3>2. OldPos(o, hse, i + 1) = Len(o)
      BY <1>2, <1>7, <2>2
    <3> QED  BY <2>4, <3>1, <3>2
  <2>3. CASE i # Len(hs)
    <3>1. i \in 1 .. Len(hs) - 1 /\ i + 1 \in 1 .. Len(hs)
      BY <1>1, <2>1, <2>3
    <3>2. OldEnd(hs, i) < OldPos(o, hs, i + 1) /\ OldPos(o, hse, i + 1) = OldPos(o, hs, i + 1)
      BY <1>4, <3>1 DEF Script
    <3> QED  BY <2>4, <3>2
  <2> QED  BY <2>2, <2>3
<1>11. Script(o, n, hm, hse, sts)
  BY <1>1, <1>2, <1>8, <1>9, <1>10 DEF Script
<1> QED  BY <1>11 DEF hse, sts

LEMMA NotLast ==
    ASSUME NEW l \in Nat
    PROVE  /\ \A i \in 1 .. l + 1 : i # l + 1 => i \in 1 .. l
           /\ \A i \in 0 .. (l + 1) - 1 : i + 1 # l + 1 => i + 1 \in 1 .. l /\ ~(i + 1 > l + 1)
OBVIOUS

\* The last edit f, which starts at s in the new text, takes the texts to their ends.
Finishes(o, n, hm, f, s) ==
    /\ f.pos + f.remove = Len(o) /\ s + Len(f.insert) = Len(n)
    /\ \A k \in 1 .. Len(f.insert) : n[s + k] = f.insert[k]
    /\ \A u \in f.pos + 1 .. f.pos + f.remove : hm[u] = 0

\* The last edit e of a script takes the texts to their ends.
Ends(o, n, hm, hs, st, e, s) ==
    /\ Script(o, n, hm, Append(hs, e), Append(st, s))
    /\ e.pos + e.remove = Len(o) /\ s + Len(e.insert) = Len(n)

\* The last edit grows with the texts, to their ends.
LEMMA ScriptGrows ==
    ASSUME NEW o \in Seq(Unit), NEW n \in Seq(Unit), NEW hm \in Seq(Nat),
           NEW p \in Seq(Unit), NEW q \in Seq(Unit), NEW gm \in Seq(Nat),
           Extends(o, p), Extends(n, q), Extends(hm, gm), Len(gm) = Len(p),
           NEW hs \in Seq(Edit), NEW st \in Seq(Nat), Len(st) = Len(hs),
           NEW e \in Edit, NEW f \in Edit, NEW s \in Nat, f.pos = e.pos,
           Ends(o, n, hm, hs, st, e, s), Finishes(p, q, gm, f, s)
    PROVE  Ends(p, q, gm, hs, st, f, s)
<1> DEFINE m == Len(hs) + 1
           hse == Append(hs, e)
           hsf == Append(hs, f)
           sts == Append(st, s)
<1>1. /\ hse \in Seq(Edit) /\ hsf \in Seq(Edit) /\ sts \in Seq(Nat) /\ m \in Nat \ {0}
      /\ Len(hse) = m /\ Len(hsf) = m /\ Len(sts) = m /\ hse[m] = e /\ hsf[m] = f /\ sts[m] = s
  BY LastShape
<1>2. ASSUME NEW i \in 1 .. Len(hs), NEW oo, NEW nn, NEW hh
      PROVE  /\ OldEnd(hse, i) = OldEnd(hsf, i) /\ NewEnd(hse, sts, i) = NewEnd(hsf, sts, i)
             /\ OldPos(oo, hse, i) = OldPos(oo, hsf, i) /\ NewPos(nn, hse, sts, i) = NewPos(nn, hsf, sts, i)
             /\ Replaces(oo, nn, hh, hse, sts, i) <=> Replaces(oo, nn, hh, hsf, sts, i)
  BY BeforeLast
<1>3. /\ m = Len(hs) + 1 /\ Len(hs) \in Nat
      /\ \A i \in 1 .. m : i # m => i \in 1 .. Len(hs)
      /\ \A i \in 0 .. m - 1 : i + 1 # m => i + 1 \in 1 .. Len(hs) /\ ~(i + 1 > m)
  <2>1. Len(hs) \in Nat
    OBVIOUS
  <2> QED  BY <2>1, NotLast, Zenon
<1> HIDE DEF hse, hsf, sts, m
<1>4. m # 0 /\ ~(m > m) /\ m + 1 > m
  BY <1>1
<1>5. /\ OldPos(o, hse, m) = e.pos /\ NewPos(n, hse, sts, m) = s
      /\ OldPos(p, hsf, m) = e.pos /\ NewPos(q, hsf, sts, m) = s
  BY <1>1, <1>4 DEF OldPos, NewPos
<1>6. /\ OldEnd(hsf, m) = Len(p) /\ NewEnd(hsf, sts, m) = Len(q)
      /\ OldPos(p, hsf, m + 1) = Len(p) /\ NewPos(q, hsf, sts, m + 1) = Len(q)
  BY <1>1, <1>4 DEF OldEnd, NewEnd, OldPos, NewPos, Finishes
<1>7. /\ Len(hm) = Len(o)
      /\ \A i \in 1 .. m : Replaces(o, n, hm, hse, sts, i)
      /\ \A i \in 0 .. m :
            Same(o, n, hm, OldEnd(hse, i), OldPos(o, hse, i + 1), NewEnd(hse, sts, i), NewPos(n, hse, sts, i + 1))
      /\ \A i \in 1 .. m - 1 : OldEnd(hse, i) < OldPos(o, hse, i + 1)
  <2>1. Script(o, n, hm, hse, sts)
    BY DEF hse, sts, Ends
  <2> QED  BY <1>1, <2>1, Zenon DEF Script
<1>8. \A i \in 1 .. m : Replaces(p, q, gm, hsf, sts, i)
  <2> SUFFICES ASSUME NEW i \in 1 .. m
               PROVE  Replaces(p, q, gm, hsf, sts, i)
    OBVIOUS
  <2>1. CASE i = m
    <3>1. OldEnd(hsf, m) <= Len(p) /\ NewEnd(hsf, sts, m) <= Len(q)
      BY <1>6
    <3> QED  BY <1>1, <2>1, <3>1, Zenon DEF Replaces, Finishes
  <2>2. CASE i # m
    <3>1. i \in 1 .. Len(hs) /\ i \in 1 .. Len(hse)
      BY <1>1, <1>3, <2>2, Zenon
    <3>2. Replaces(o, n, hm, hse, sts, i)
      BY <1>7
    <3>3. Replaces(p, q, gm, hse, sts, i)
      BY <1>1, <1>7, <3>1, <3>2, ReplacesStays
    <3> QED  BY <1>2, <3>1, <3>3
  <2> QED  BY <2>1, <2>2
<1>9. ASSUME NEW i \in 0 .. m - 1
      PROVE  /\ OldEnd(hsf, i) = OldEnd(hse, i) /\ NewEnd(hsf, sts, i) = NewEnd(hse, sts, i)
             /\ OldPos(p, hsf, i + 1) = OldPos(o, hse, i + 1) /\ NewPos(q, hsf, sts, i + 1) = NewPos(n, hse, sts, i + 1)
  <2>1. OldEnd(hsf, i) = OldEnd(hse, i) /\ NewEnd(hsf, sts, i) = NewEnd(hse, sts, i)
    <3>1. CASE i = 0
      BY <3>1 DEF OldEnd, NewEnd
    <3>2. CASE i # 0
      <4>1. i \in 1 .. Len(hs)
        BY <1>3, <3>2
      <4> QED  BY <1>2, <4>1
    <3> QED  BY <3>1, <3>2
  <2>2. OldPos(p, hsf, i + 1) = OldPos(o, hse, i + 1) /\ NewPos(q, hsf, sts, i + 1) = NewPos(n, hse, sts, i + 1)
    <3>1. CASE i + 1 = m
      BY <1>5, <3>1
    <3>2. CASE i + 1 # m
      <4>1. i + 1 \in 1 .. Len(hs) /\ ~(i + 1 > Len(hse))
        BY <1>1, <1>3, <3>2, Zenon
      <4>2. OldPos(p, hse, i + 1) = OldPos(o, hse, i + 1) /\ NewPos(q, hse, sts, i + 1) = NewPos(n, hse, sts, i + 1)
        BY <4>1 DEF OldPos, NewPos
      <4> QED  BY <1>2, <4>1, <4>2
    <3> QED  BY <3>1, <3>2
  <2> QED  BY <2>1, <2>2
<1>10. ASSUME NEW i \in 0 .. m
       PROVE  Same(p, q, gm, OldEnd(hsf, i), OldPos(p, hsf, i + 1), NewEnd(hsf, sts, i), NewPos(q, hsf, sts, i + 1))
  <2>1. CASE i = m
    <3>1. Same(p, q, gm, Len(p), Len(p), Len(q), Len(q))
      BY DEF Same
    <3> QED  BY <1>6, <2>1, <3>1
  <2>2. CASE i # m
    <3> DEFINE a == OldEnd(hse, i)
               b == OldPos(o, hse, i + 1)
               c == NewEnd(hse, sts, i)
               d == NewPos(n, hse, sts, i + 1)
    <3>1. i \in 0 .. m - 1
      BY <1>1, <2>2
    <3>2. Same(o, n, hm, a, b, c, d)
      BY <1>7
    <3>3. a \in 0 .. Len(o) /\ b \in 0 .. Len(o) /\ c \in 0 .. Len(n) /\ d \in 0 .. Len(n)
      <4>1. Script(o, n, hm, hse, sts) /\ i \in 0 .. Len(hse)
        BY <1>1 DEF hse, sts, Ends
      <4> QED  BY <1>1, <4>1, Places
    <3>4. Same(p, q, gm, a, b, c, d)
      <4> HIDE DEF a, b, c, d
      <4> QED  BY <1>7, <3>2, <3>3, SameStays
    <3> QED  BY <1>9, <3>1, <3>4
  <2> QED  BY <2>1, <2>2
<1>11. ASSUME NEW i \in 1 .. m - 1
       PROVE  OldEnd(hsf, i) < OldPos(p, hsf, i + 1)
  <2>1. i \in 0 .. m - 1
    BY <1>1
  <2> QED  BY <1>7, <1>9, <2>1
<1>12. Script(p, q, gm, hsf, sts)
  BY <1>1, <1>8, <1>10, <1>11, Zenon DEF Script
<1> QED  BY <1>12 DEF hsf, sts, Ends, Finishes

\* What the last edit of such a script is.
LEMMA EndsFinishes ==
    ASSUME NEW o \in Seq(Unit), NEW n \in Seq(Unit), NEW hm \in Seq(Nat),
           NEW hs \in Seq(Edit), NEW st \in Seq(Nat), Len(st) = Len(hs), NEW e \in Edit, NEW s \in Nat,
           Ends(o, n, hm, hs, st, e, s)
    PROVE  Len(hm) = Len(o) /\ Finishes(o, n, hm, e, s)
<1>1. /\ Len(hs) + 1 \in 1 .. Len(Append(hs, e))
      /\ Append(hs, e)[Len(hs) + 1] = e /\ Append(st, s)[Len(hs) + 1] = s
  BY LastShape
<1>2. Len(hm) = Len(o) /\ Replaces(o, n, hm, Append(hs, e), Append(st, s), Len(hs) + 1)
  BY <1>1 DEF Script, Ends
<1> QED  BY <1>1, <1>2, Zenon DEF Replaces, Finishes, Ends

\* Where the units us go; an edit that removes d more than e, and one that inserts us more.
Zeros(zeros, us) == Len(zeros) = Len(us) /\ \A k \in 1 .. Len(us) : zeros[k] = 0
RemovesMore(e, f, d) == f.pos = e.pos /\ f.remove = e.remove + d /\ f.insert = e.insert
InsertsMore(e, f, us) == f.pos = e.pos /\ f.remove = e.remove /\ f.insert = e.insert \o us

\* A deleted run makes the last edit remove more.
LEMMA ScriptDeletes ==
    ASSUME NEW o \in Seq(Unit), NEW n \in Seq(Unit), NEW hm \in Seq(Nat),
           NEW hs \in Seq(Edit), NEW st \in Seq(Nat), Len(st) = Len(hs), NEW e \in Edit, NEW s \in Nat,
           Ends(o, n, hm, hs, st, e, s),
           NEW us \in Seq(Unit), NEW zeros \in Seq(Nat), Zeros(zeros, us),
           NEW f \in Edit, RemovesMore(e, f, Len(us))
    PROVE  Ends(o \o us, n, hm \o zeros, hs, st, f, s)
<1> DEFINE p == o \o us
           gm == hm \o zeros
           lo == Len(o)
           lu == Len(us)
           at == e.pos
           rem == e.remove
           end == f.pos + f.remove
<1>1. Len(hm) = lo /\ Finishes(o, n, hm, e, s)
  BY EndsFinishes
<1>2. p \in Seq(Unit) /\ Extends(o, p) /\ Len(p) = lo + lu
  BY Followed, FollowedExtends
<1>3. Extends(hm, gm)
  BY FollowedExtends, Zenon
<1>4. gm \in Seq(Nat) /\ Len(gm) = Len(hm) + Len(zeros)
  BY Followed, Zenon
<1>5. \A k \in 1 .. Len(zeros) : gm[Len(hm) + k] = zeros[k]
  BY Followed
<1>6. Len(zeros) = lu /\ \A k \in 1 .. lu : zeros[k] = 0
  BY DEF Zeros
<1>7. at \in Nat /\ rem \in Nat /\ lo \in Nat /\ lu \in Nat
  BY DEF Edit
<1>8. f.pos = at /\ f.insert = e.insert /\ end = lo + lu /\ at + rem = lo
  <2>1. at + rem = lo
    BY <1>1 DEF Finishes
  <2>2. f.pos = at /\ f.remove = rem + lu /\ f.insert = e.insert
    BY DEF RemovesMore
  <2>3. at + (rem + lu) = lo + lu
    <3> HIDE DEF at, rem, lo, lu
    <3> QED  BY <1>7, <2>1
  <2> QED  BY <2>1, <2>2, <2>3
<1> HIDE DEF p, gm, lo, lu, at, rem, end
<1>9. ASSUME NEW u \in at + 1 .. end
      PROVE  gm[u] = 0
  <2>1. CASE u <= lo
    <3>1. u \in at + 1 .. at + rem /\ u \in 1 .. Len(hm)
      BY <1>1, <1>7, <1>8, <2>1
    <3> QED  BY <1>1, <1>3, <3>1 DEF Extends, Finishes, at, rem
  <2>2. CASE ~(u <= lo)
    <3>1. u - lo \in 1 .. lu /\ lo + (u - lo) = u
      BY <1>7, <1>8, <2>2
    <3> QED  BY <1>1, <1>5, <1>6, <3>1
  <2> QED  BY <2>1, <2>2
<1>10. Finishes(p, n, gm, f, s)
  <2>1. end = Len(p) /\ \A u \in f.pos + 1 .. end : gm[u] = 0
    BY <1>2, <1>8, <1>9
  <2>2. s + Len(f.insert) = Len(n) /\ \A k \in 1 .. Len(f.insert) : n[s + k] = f.insert[k]
    BY <1>1, <1>8, Zenon DEF Finishes
  <2> QED  BY <2>1, <2>2, Zenon DEF Finishes, end
<1>11. Extends(n, n) /\ Len(gm) = Len(p) /\ f.pos = e.pos
  BY <1>1, <1>2, <1>4, <1>6, <1>8 DEF Extends, at
<1>12. Ends(p, n, gm, hs, st, f, s)
  BY <1>2, <1>3, <1>4, <1>10, <1>11, ScriptGrows
<1> QED  BY <1>12 DEF p, gm

\* An inserted run makes the last edit insert more.
LEMMA ScriptInserts ==
    ASSUME NEW o \in Seq(Unit), NEW n \in Seq(Unit), NEW hm \in Seq(Nat),
           NEW hs \in Seq(Edit), NEW st \in Seq(Nat), Len(st) = Len(hs), NEW e \in Edit, NEW s \in Nat,
           Ends(o, n, hm, hs, st, e, s),
           NEW us \in Seq(Unit), NEW f \in Edit, InsertsMore(e, f, us)
    PROVE  Ends(o, n \o us, hm, hs, st, f, s)
<1> DEFINE q == n \o us
           ins == e.insert
           more == ins \o us
           li == Len(ins)
           lu == Len(us)
           ln == Len(n)
<1>1. Len(hm) = Len(o) /\ Finishes(o, n, hm, e, s)
  BY EndsFinishes
<1>2. /\ q \in Seq(Unit) /\ Extends(n, q) /\ Len(q) = ln + lu
      /\ \A k \in 1 .. lu : q[ln + k] = us[k]
  BY Followed, FollowedExtends
<1>3. ins \in Seq(Unit) /\ li \in Nat /\ ln \in Nat /\ lu \in Nat
  BY DEF Edit
<1>4. /\ Len(more) = li + lu
      /\ \A k \in 1 .. li : more[k] = ins[k]
      /\ \A k \in 1 .. lu : more[li + k] = us[k]
  <2> HIDE DEF ins
  <2> QED  BY <1>3, Followed
<1>5. s + li = ln /\ \A k \in 1 .. li : n[s + k] = ins[k]
  BY <1>1 DEF Finishes
<1>6. f.insert = more /\ f.pos = e.pos /\ f.remove = e.remove
  BY DEF InsertsMore
<1> HIDE DEF q, ins, more, li, lu, ln
<1>7. s + Len(more) = Len(q)
  <2>1. s + (li + lu) = ln + lu
    BY <1>3, <1>5
  <2> QED  BY <1>2, <1>4, <2>1
<1>8. ASSUME NEW k \in 1 .. Len(more)
      PROVE  q[s + k] = more[k]
  <2>1. k \in 1 .. li + lu
    BY <1>4
  <2>2. CASE k <= li
    <3>1. k \in 1 .. li /\ s + k \in 1 .. ln
      BY <1>3, <1>5, <2>1, <2>2
    <3> QED  BY <1>2, <1>4, <1>5, <3>1 DEF Extends, ln
  <2>3. CASE ~(k <= li)
    <3> DEFINE j == k - li
    <3>1. j \in 1 .. lu /\ li + j = k /\ ln + j = s + k
      BY <1>3, <1>5, <2>1, <2>3
    <3> HIDE DEF j
    <3>2. more[li + j] = us[j] /\ q[ln + j] = us[j]
      BY <1>2, <1>4, <3>1
    <3> QED  BY <3>1, <3>2, Zenon
  <2> QED  BY <2>2, <2>3
<1>9. Finishes(o, q, hm, f, s)
  BY <1>1, <1>6, <1>7, <1>8, Zenon DEF Finishes
<1>10. Extends(o, o) /\ Extends(hm, hm)
  BY DEF Extends
<1>11. Ends(o, q, hm, hs, st, f, s)
  BY <1>1, <1>2, <1>6, <1>9, <1>10, ScriptGrows
<1> QED  BY <1>11 DEF q

----------------------------------------------------------------------------
(***************************************************************************)
(* edit_script                                                             *)
(***************************************************************************)

\* The pending edit, begun if there was none, ends a script.
LEMMA BegunScript ==
    ASSUME ReloadInv, pc = "diff"
    PROVE  /\ Begun \in Edit /\ Len(Begun.insert) <= Len(new) /\ Begun.pos + Begun.remove = Len(old)
           /\ Len(new) - Len(Begun.insert) \in Nat /\ Len(starts) = Len(hunks)
           /\ Ends(old, new, home, hunks, starts, Begun, Len(new) - Len(Begun.insert))
<1>1. ReloadTyped /\ Scripted
  BY DEF ReloadInv
<1>2. /\ old \in Seq(Unit) /\ new \in Seq(Unit) /\ home \in Seq(Nat) /\ hunks \in Seq(Edit) /\ starts \in Seq(Nat)
      /\ pos = Len(old) /\ pending \in Edit \cup {NoEdit} /\ Len(old) \in Nat /\ Len(new) \in Nat /\ Len(hunks) \in Nat
  BY <1>1 DEF ReloadTyped
<1>3. CASE pending = NoEdit
  <2> DEFINE e == [pos |-> pos, remove |-> 0, insert |-> <<>>]
  <2>1. Begun = e
    BY <1>3 DEF Begun
  <2>2. e \in Edit /\ e.pos = Len(old) /\ e.remove = 0 /\ e.insert = <<>> /\ Len(e.insert) = 0
    BY <1>2 DEF Edit
  <2>3. Script(old, new, home, hunks, starts) /\ (hunks # <<>> => OldEnd(hunks, Len(hunks)) < Len(old))
    BY <1>1, <1>3 DEF Scripted
  <2>4. Len(hunks) = 0 \/ OldEnd(hunks, Len(hunks)) < Len(old)
    BY <1>2, <2>3
  <2>5. Len(starts) = Len(hunks)
    BY <2>3 DEF Script
  <2> HIDE DEF e
  <2>6. Script(old, new, home, Append(hunks, e), Append(starts, Len(new)))
    BY <1>2, <2>2, <2>3, <2>4, ScriptBegins
  <2>7. Len(new) - Len(e.insert) = Len(new) /\ e.pos + e.remove = Len(old) /\ Len(e.insert) <= Len(new)
    BY <1>2, <2>2
  <2>8. Ends(old, new, home, hunks, starts, e, Len(new))
    BY <1>2, <2>2, <2>6, <2>7 DEF Ends
  <2> QED  BY <1>2, <2>1, <2>2, <2>5, <2>7, <2>8
<1>4. CASE pending # NoEdit
  <2>1. Begun = pending /\ pending \in Edit
    BY <1>2, <1>4 DEF Begun
  <2>2. /\ Len(pending.insert) <= Len(new) /\ pending.pos + pending.remove = Len(old)
        /\ Script(old, new, home, Append(hunks, pending), Append(starts, Len(new) - Len(pending.insert)))
    BY <1>1, <1>4 DEF Scripted
  <2>3. Len(pending.insert) \in Nat
    BY <2>1 DEF Edit
  <2>4. Len(new) - Len(pending.insert) \in Nat
    BY <1>2, <2>2, <2>3
  <2>5. Len(starts) = Len(hunks)
    <3> DEFINE s == Len(new) - Len(pending.insert)
    <3>1. Len(Append(starts, s)) = Len(Append(hunks, pending))
      BY <2>2 DEF Script
    <3> HIDE DEF s
    <3> QED  BY <1>2, <3>1
  <2> DEFINE s == Len(new) - Len(pending.insert)
  <2>6. s + Len(pending.insert) = Len(new)
    BY <1>2, <2>3
  <2>7. Ends(old, new, home, hunks, starts, pending, s)
    BY <2>2, <2>6, Zenon DEF Ends
  <2> QED  BY <2>1, <2>2, <2>4, <2>5, <2>7, Zenon
<1> QED  BY <1>3, <1>4

\* The script so far, with what is pending in it.
LEMMA PushedScript ==
    ASSUME ReloadInv, pc = "diff", PushPending
    PROVE  /\ hunks' \in Seq(Edit) /\ starts' \in Seq(Nat)
           /\ Script(old, new, home, hunks', starts')
<1>1. ReloadTyped /\ Scripted
  BY DEF ReloadInv
<1>2. /\ new \in Seq(Unit) /\ hunks \in Seq(Edit) /\ starts \in Seq(Nat)
      /\ pending \in Edit \cup {NoEdit}
  BY <1>1 DEF ReloadTyped
<1>3. CASE pending = NoEdit
  BY <1>1, <1>2, <1>3 DEF PushPending, Scripted
<1>4. CASE pending # NoEdit
  <2>1. Begun = pending /\ pending \in Edit
    BY <1>2, <1>4 DEF Begun
  <2>2. hunks' = Append(hunks, pending) /\ starts' = Append(starts, Len(new) - Len(pending.insert))
    BY <1>4 DEF PushPending
  <2>3. /\ Len(new) - Len(pending.insert) \in Nat
        /\ Script(old, new, home, Append(hunks, pending), Append(starts, Len(new) - Len(pending.insert)))
    BY <2>1, BegunScript, Zenon DEF Ends
  <2>4. Append(hunks, pending) \in Seq(Edit)
    BY <1>2, <2>1
  <2>5. Append(starts, Len(new) - Len(pending.insert)) \in Seq(Nat)
    <3> DEFINE s == Len(new) - Len(pending.insert)
    <3>1. s \in Nat
      BY <2>3
    <3> HIDE DEF s
    <3>2. Append(starts, s) \in Seq(Nat)
      BY <1>2, <3>1
    <3> QED  BY <3>2 DEF s
  <2> QED  BY <2>2, <2>3, <2>4, <2>5
<1> QED  BY <1>3, <1>4

\* The part of the type invariant that the editor's variables and the pending edit keep.
LEMMA ReloadFacts ==
    ASSUME ReloadInv
    PROVE  /\ old \in Seq(Unit) /\ new \in Seq(Unit) /\ buffer \in Seq(Unit) /\ home \in Seq(Nat)
           /\ hunks \in Seq(Edit) /\ starts \in Seq(Nat) /\ pending \in Edit \cup {NoEdit}
           /\ pos = Len(old) /\ from \in 0 .. Len(old)
           /\ Len(old) \in Nat /\ Len(new) \in Nat /\ Len(hunks) \in Nat
BY DEF ReloadInv, ReloadTyped

\* An edit grows.
LEMMA GrownEdit ==
    ASSUME NEW e \in Edit, NEW d \in Nat, NEW us \in Seq(Unit)
    PROVE  /\ e.pos \in Nat /\ e.remove \in Nat /\ e.insert \in Seq(Unit) /\ Len(e.insert) \in Nat
           /\ e # NoEdit
           /\ LET f == [e EXCEPT !.remove = @ + d]
              IN  f \in Edit /\ f.pos = e.pos /\ f.remove = e.remove + d /\ f.insert = e.insert
           /\ LET f == [e EXCEPT !.insert = @ \o us]
              IN  f \in Edit /\ f.pos = e.pos /\ f.remove = e.remove /\ f.insert = e.insert \o us
<1>1. e.pos \in Nat /\ e.remove \in Nat /\ e.insert \in Seq(Unit) /\ Len(e.insert) \in Nat
  BY DEF Edit
<1>2. e # NoEdit
  BY <1>1 DEF NoEdit
<1>3. e = [pos |-> e.pos, remove |-> e.remove, insert |-> e.insert]
  BY DEF Edit
<1>4. [e EXCEPT !.remove = @ + d] = [pos |-> e.pos, remove |-> e.remove + d, insert |-> e.insert]
  BY <1>3
<1>5. ASSUME NEW more
      PROVE  [e EXCEPT !.insert = more] = [pos |-> e.pos, remove |-> e.remove, insert |-> more]
  BY <1>3
<1>6. e.remove + d \in Nat /\ e.insert \o us \in Seq(Unit)
  BY <1>1
<1>7. [pos |-> e.pos, remove |-> e.remove + d, insert |-> e.insert] \in Edit
  BY <1>1, <1>6 DEF Edit
<1>8. [pos |-> e.pos, remove |-> e.remove, insert |-> e.insert \o us] \in Edit
  BY <1>1, <1>6 DEF Edit
<1> QED  BY <1>1, <1>2, <1>4, <1>5, <1>7, <1>8

LEMMA EqualRunKeeps ==
    ASSUME ReloadInv, EqualRun
    PROVE  ReloadInv'
<1>0. /\ old \in Seq(Unit) /\ new \in Seq(Unit) /\ buffer \in Seq(Unit) /\ home \in Seq(Nat)
      /\ hunks \in Seq(Edit) /\ starts \in Seq(Nat) /\ pos = Len(old) /\ from \in 0 .. Len(old)
      /\ Len(old) \in Nat /\ Len(new) \in Nat /\ Len(hunks) \in Nat
  BY ReloadFacts
<1>1. PICK char \in Chars :
        /\ pc = "diff" /\ PushPending /\ pending' = NoEdit
        /\ pos' = pos + Utf16Len(char)
        /\ old' = old \o Units(char) /\ new' = new \o Units(char)
        /\ home' = home \o [k \in 1 .. Len(Units(char)) |-> Len(new) + k]
        /\ pc' = pc /\ buffer' = buffer /\ from' = from
  BY DEF EqualRun, Run, editorVars
<1> DEFINE us == Units(char)
           more == [k \in 1 .. Len(us) |-> Len(new) + k]
<1>2. us \in Seq(Unit) /\ Len(us) \in {1, 2} /\ Utf16Len(char) = Len(us)
  BY UnitsShape
<1>3. hunks' \in Seq(Edit) /\ starts' \in Seq(Nat) /\ Script(old, new, home, hunks', starts')
  BY <1>1, PushedScript
<1>4. old' = old \o us /\ new' = new \o us /\ home' = home \o more /\ pos' = pos + Len(us)
  BY <1>1, <1>2
<1> HIDE DEF us
<1>5. more \in Seq(Nat) /\ Len(more) = Len(us) /\ \A k \in 1 .. Len(us) : more[k] = Len(new) + k
  BY <1>2
<1> HIDE DEF more
<1>6. Script(old', new', home', hunks', starts')
  BY <1>0, <1>2, <1>3, <1>4, <1>5, ScriptEqual
<1>7. old' \in Seq(Unit) /\ new' \in Seq(Unit) /\ home' \in Seq(Nat) /\ Len(old') = Len(old) + Len(us)
  BY <1>0, <1>2, <1>4, <1>5
<1>8. ASSUME hunks' # <<>>
      PROVE  OldEnd(hunks', Len(hunks')) < Len(old')
  <2>1. Len(hunks') \in 0 .. Len(hunks')
    BY <1>3
  <2>2. OldEnd(hunks', Len(hunks')) \in 0 .. Len(old)
    BY <1>0, <1>3, <2>1, Places
  <2>3. \A x, y, z : x \in 0 .. y /\ y \in Nat /\ z \in {1, 2} => x < y + z
    OBVIOUS
  <2> QED  BY <1>0, <1>2, <1>7, <2>2, <2>3, Zenon
<1>9. ReloadTyped'
  <2>1. pos' = Len(old') /\ from' \in 0 .. Len(old')
    BY <1>0, <1>1, <1>2, <1>4, <1>7
  <2> QED  BY <1>0, <1>1, <1>3, <1>7, <2>1 DEF ReloadTyped
<1>10. Scripted'
  BY <1>1, <1>6, <1>8 DEF Scripted
<1>11. Progress'
  BY <1>1 DEF Progress
<1> QED  BY <1>9, <1>10, <1>11 DEF ReloadInv

LEMMA DeleteRunKeeps ==
    ASSUME ReloadInv, DeleteRun
    PROVE  ReloadInv'
<1>0. /\ old \in Seq(Unit) /\ new \in Seq(Unit) /\ buffer \in Seq(Unit) /\ home \in Seq(Nat)
      /\ hunks \in Seq(Edit) /\ starts \in Seq(Nat) /\ pos = Len(old) /\ from \in 0 .. Len(old)
      /\ Len(old) \in Nat /\ Len(new) \in Nat /\ Len(hunks) \in Nat
  BY ReloadFacts
<1>1. PICK char \in Chars :
        /\ pc = "diff" /\ pending' = [Begun EXCEPT !.remove = @ + Utf16Len(char)]
        /\ pos' = pos + Utf16Len(char)
        /\ old' = old \o Units(char)
        /\ home' = home \o [k \in 1 .. Len(Units(char)) |-> 0]
        /\ pc' = pc /\ new' = new /\ hunks' = hunks /\ starts' = starts /\ buffer' = buffer /\ from' = from
  BY DEF DeleteRun, Run, editorVars
<1>2. PICK us \in Seq(Unit) : us = Units(char) /\ Len(us) \in {1, 2} /\ Utf16Len(char) = Len(us)
  BY UnitsShape
<1>3. PICK e \in Edit : e = Begun
  BY <1>1, BegunScript
<1>4. PICK s \in Nat : s = Len(new) - Len(e.insert)
  BY <1>1, <1>3, BegunScript
<1>5. PICK zeros \in Seq(Nat) : zeros = [k \in 1 .. Len(us) |-> 0]
  <2>1. [k \in 1 .. Len(us) |-> 0] \in Seq(Nat)
    BY <1>2
  <2> QED  BY <2>1, Zenon
<1>6. PICK f \in Edit : f = [e EXCEPT !.remove = @ + Len(us)] /\ RemovesMore(e, f, Len(us)) /\ f # NoEdit
  <2> DEFINE f == [e EXCEPT !.remove = @ + Len(us)]
  <2>1. Len(us) \in Nat
    BY <1>2
  <2>2. f \in Edit /\ f.pos = e.pos /\ f.remove = e.remove + Len(us) /\ f.insert = e.insert
    BY <2>1, GrownEdit
  <2>3. f # NoEdit
    <3> HIDE DEF f
    <3> QED  BY <2>1, <2>2, GrownEdit
  <2> QED  BY <2>2, <2>3 DEF RemovesMore
<1>7. Zeros(zeros, us)
  BY <1>2, <1>5 DEF Zeros
<1>8. Len(starts) = Len(hunks) /\ Ends(old, new, home, hunks, starts, e, s)
  BY <1>1, <1>3, <1>4, BegunScript
<1>9. old' = old \o us /\ home' = home \o zeros /\ pending' = f /\ pos' = pos + Len(us)
  BY <1>1, <1>2, <1>3, <1>5, <1>6
<1>10. Ends(old', new, home', hunks, starts, f, s)
  <2>1. Ends(old \o us, new, home \o zeros, hunks, starts, f, s)
    BY <1>0, <1>6, <1>7, <1>8, ScriptDeletes
  <2> QED  BY <1>9, <2>1
<1>11. old' \in Seq(Unit) /\ Len(old') = Len(old) + Len(us) /\ home' \in Seq(Nat)
  <2>1. old \o us \in Seq(Unit) /\ Len(old \o us) = Len(old) + Len(us) /\ home \o zeros \in Seq(Nat)
    BY <1>0
  <2> QED  BY <1>9, <2>1
<1>12. ReloadTyped'
  <2>1. pos' = Len(old') /\ from' \in 0 .. Len(old')
    BY <1>0, <1>1, <1>2, <1>9, <1>11
  <2> QED  BY <1>0, <1>1, <1>6, <1>9, <1>11, <2>1 DEF ReloadTyped
<1>13. Scripted'
  <2>1. Len(f.insert) \in Nat
    BY DEF Edit
  <2>2. Script(old', new, home', Append(hunks, f), Append(starts, s))
    BY <1>10 DEF Ends
  <2>3. f.pos + f.remove = Len(old') /\ s + Len(f.insert) = Len(new)
    BY <1>10 DEF Ends
  <2>4. s = Len(new) - Len(f.insert) /\ Len(f.insert) <= Len(new)
    BY <1>0, <2>1, <2>3
  <2> QED  BY <1>1, <1>6, <1>9, <2>2, <2>3, <2>4, Zenon DEF Scripted
<1>14. Progress'
  BY <1>1 DEF Progress
<1> QED  BY <1>12, <1>13, <1>14 DEF ReloadInv

LEMMA InsertRunKeeps ==
    ASSUME ReloadInv, InsertRun
    PROVE  ReloadInv'
<1>0. /\ old \in Seq(Unit) /\ new \in Seq(Unit) /\ buffer \in Seq(Unit) /\ home \in Seq(Nat)
      /\ hunks \in Seq(Edit) /\ starts \in Seq(Nat) /\ pos = Len(old) /\ from \in 0 .. Len(old)
      /\ Len(old) \in Nat /\ Len(new) \in Nat /\ Len(hunks) \in Nat
  BY ReloadFacts
<1>1. PICK char \in Chars :
        /\ pc = "diff" /\ pending' = [Begun EXCEPT !.insert = @ \o Units(char)]
        /\ new' = new \o Units(char)
        /\ pc' = pc /\ old' = old /\ pos' = pos /\ home' = home /\ hunks' = hunks /\ starts' = starts
        /\ buffer' = buffer /\ from' = from
  BY DEF InsertRun, Run, editorVars
<1>2. PICK us \in Seq(Unit) : us = Units(char)
  BY UnitsShape
<1>3. PICK e \in Edit : e = Begun
  BY <1>1, BegunScript
<1>4. PICK s \in Nat : s = Len(new) - Len(e.insert)
  BY <1>1, <1>3, BegunScript
<1>5. PICK f \in Edit : f = [e EXCEPT !.insert = @ \o us] /\ InsertsMore(e, f, us) /\ f # NoEdit
  <2> DEFINE f == [e EXCEPT !.insert = @ \o us]
  <2>1. f \in Edit /\ f.pos = e.pos /\ f.remove = e.remove /\ f.insert = e.insert \o us
    BY GrownEdit
  <2>2. f # NoEdit
    <3> HIDE DEF f
    <3> QED  BY <2>1, GrownEdit
  <2> QED  BY <2>1, <2>2 DEF InsertsMore
<1>6. Len(starts) = Len(hunks) /\ Ends(old, new, home, hunks, starts, e, s)
  BY <1>1, <1>3, <1>4, BegunScript
<1>7. new' = new \o us /\ pending' = f
  BY <1>1, <1>2, <1>3, <1>5
<1>8. Ends(old, new', home, hunks, starts, f, s)
  <2>1. Ends(old, new \o us, home, hunks, starts, f, s)
    BY <1>0, <1>5, <1>6, ScriptInserts
  <2> QED  BY <1>7, <2>1
<1>9. new' \in Seq(Unit) /\ Len(new') \in Nat
  <2>1. new \o us \in Seq(Unit) /\ Len(new \o us) \in Nat
    BY <1>0
  <2> QED  BY <1>7, <2>1
<1>10. ReloadTyped'
  BY <1>0, <1>1, <1>5, <1>7, <1>9 DEF ReloadTyped
<1>11. Scripted'
  <2>1. Len(f.insert) \in Nat
    BY DEF Edit
  <2>2. Script(old, new', home, Append(hunks, f), Append(starts, s))
    BY <1>8 DEF Ends
  <2>3. f.pos + f.remove = Len(old) /\ s + Len(f.insert) = Len(new')
    BY <1>8 DEF Ends
  <2>4. s = Len(new') - Len(f.insert) /\ Len(f.insert) <= Len(new')
    BY <1>9, <2>1, <2>3
  <2> QED  BY <1>1, <1>5, <1>7, <2>2, <2>3, <2>4, Zenon DEF Scripted
<1>12. Progress'
  BY <1>1 DEF Progress
<1> QED  BY <1>10, <1>11, <1>12 DEF ReloadInv

----------------------------------------------------------------------------
(***************************************************************************)
(* The caret                                                               *)
(***************************************************************************)

\* LandsAt of the texts o and n.
Lands(o, n, hm, at) ==
    LET kept == {u \in at + 1 .. Len(o) : hm[u] # 0}
    IN  IF kept = {} THEN Len(n) ELSE hm[CHOOSE u \in kept : \A w \in kept : u <= w] - 1

\* Nothing between at and y is kept, and what follows y is kept and follows to.
LEMMA LandsThere ==
    ASSUME NEW o \in Seq(Unit), NEW n \in Seq(Unit), NEW hm \in Seq(Nat), NEW at \in Nat, NEW y \in at .. Len(o),
           NEW to \in Nat, \A u \in at + 1 .. y : hm[u] = 0,
           IF y = Len(o) THEN to = Len(n) ELSE hm[y + 1] = to + 1
    PROVE  Lands(o, n, hm, at) = to
<1> DEFINE kept == {u \in at + 1 .. Len(o) : hm[u] # 0}
<1>1. y \in Nat /\ Len(o) \in Nat /\ y <= Len(o) /\ at <= y
  OBVIOUS
<1>2. ASSUME NEW u \in kept
      PROVE  u \in Nat /\ y + 1 <= u /\ u <= Len(o)
  BY <1>1
<1>3. CASE y = Len(o)
  <2>1. kept = {}
    <3> SUFFICES ASSUME NEW u \in kept
                 PROVE  FALSE
      OBVIOUS
    <3> QED  BY <1>1, <1>2, <1>3
  <2> QED  BY <1>3, <2>1 DEF Lands
<1>4. CASE y # Len(o)
  <2>1. hm[y + 1] = to + 1 /\ to + 1 # 0 /\ y + 1 \in at + 1 .. Len(o)
    BY <1>1, <1>4
  <2>2. y + 1 \in kept
    BY <2>1
  <2> DEFINE least == CHOOSE u \in kept : \A w \in kept : u <= w
  <2>3. \A w \in kept : y + 1 <= w
    BY <1>2
  <2>4. Lands(o, n, hm, at) = hm[least] - 1
    BY <2>2 DEF Lands
  <2> HIDE DEF kept
  <2>5. least \in kept /\ \A w \in kept : least <= w
    BY <2>2, <2>3
  <2> HIDE DEF least
  <2>6. least = y + 1
    <3>1. least <= y + 1 /\ y + 1 <= least /\ least \in Nat
      BY <1>2, <2>2, <2>3, <2>5
    <3> QED  BY <1>1, <3>1
  <2> QED  BY <2>1, <2>4, <2>6
<1> QED  BY <1>3, <1>4

\* Texts that are the same from end to end are one.
LEMMA SameText ==
    ASSUME NEW o \in Seq(Unit), NEW n \in Seq(Unit), Len(o) = Len(n), \A k \in 1 .. Len(n) : o[k] = n[k]
    PROVE  o = n
OBVIOUS

----------------------------------------------------------------------------
(***************************************************************************)
(* The edits reach the editor                                              *)
(***************************************************************************)

\* The editor starts with a script, and with the old text.
LEMMA HandOverKeeps ==
    ASSUME ReloadInv, HandOver, pending' = NoEdit,
           hunks' \in Seq(Edit), starts' \in Seq(Nat), home' \in Seq(Nat),
           Script(old, new, home', hunks', starts')
    PROVE  ReloadInv'
<1>1. old \in Seq(Unit) /\ new \in Seq(Unit) /\ pos = Len(old) /\ Len(old) \in Nat /\ Len(new) \in Nat
  BY ReloadFacts
<1>2. /\ left' = Len(hunks') /\ buffer' = old /\ from' \in 0 .. Len(old) /\ caret' = from'
      /\ seen' = 0 /\ delta' = 0 /\ pc' = (IF hunks' = <<>> THEN "done" ELSE "replay")
      /\ old' = old /\ new' = new /\ pos' = pos
  BY DEF HandOver
<1>3. ReloadTyped'
  BY <1>1, <1>2 DEF ReloadTyped
<1>4. Scripted'
  BY <1>2 DEF Scripted
<1>5. CASE hunks' = <<>>
  <2>1. Len(hunks') = 0
    BY <1>5
  <2>2. Same(old, new, home', 0, Len(old), 0, Len(new))
    <3>1. Same(old, new, home', OldEnd(hunks', 0), OldPos(old, hunks', 0 + 1),
               NewEnd(hunks', starts', 0), NewPos(new, hunks', starts', 0 + 1))
      BY <2>1 DEF Script
    <3>2. /\ OldEnd(hunks', 0) = 0 /\ NewEnd(hunks', starts', 0) = 0
          /\ OldPos(old, hunks', 0 + 1) = Len(old) /\ NewPos(new, hunks', starts', 0 + 1) = Len(new)
      BY <2>1 DEF OldEnd, NewEnd, OldPos, NewPos
    <3> QED  BY <3>1, <3>2
  <2>3. Len(new) = Len(old) /\ \A u \in 1 .. Len(old) : old[u] = new[u] /\ home'[u] = u
    BY <1>1, <2>2 DEF Same
  <2>4. old = new
    BY <1>1, <2>3, SameText
  <2>5. Lands(old, new, home', from') = from'
    <3>1. from' \in 0 .. Len(old)
      BY <1>2
    <3>2. from' \in Nat /\ from' \in from' .. Len(old)
      BY <1>1, <3>1
    <3>3. IF from' = Len(old) THEN from' = Len(new) ELSE home'[from' + 1] = from' + 1
      <4>1. CASE from' # Len(old)
        <5>1. from' + 1 \in 1 .. Len(old)
          <6>1. \A y \in Nat : \A x \in 0 .. y : x # y => x + 1 \in 1 .. y
            OBVIOUS
          <6> QED  BY <1>1, <3>1, <4>1, <6>1, Zenon
        <5> QED  BY <2>3, <4>1, <5>1
      <4> QED  BY <2>3, <4>1
    <3>4. \A u \in from' + 1 .. from' : home'[u] = 0
      <4>1. \A x \in Nat : x + 1 .. x = {}
        OBVIOUS
      <4> QED  BY <3>2, <4>1
    <3> QED  BY <1>1, <3>2, <3>3, <3>4, LandsThere
  <2>6. LandsAt(from)' = Lands(old, new, home', from')
    BY <1>2 DEF LandsAt, Lands
  <2> QED  BY <1>2, <1>3, <1>4, <1>5, <2>4, <2>5, <2>6 DEF ReloadInv, Progress
<1>6. CASE hunks' # <<>>
  <2>1. Len(hunks') \in Nat /\ Len(hunks') # 0 /\ Len(hunks') \in 1 .. Len(hunks')
    BY <1>6
  <2>2. ReplayedTo(old, old, new, hunks', starts', Len(hunks'))
    <3>1. OldPos(old, hunks', Len(hunks') + 1) = Len(old) /\ NewPos(new, hunks', starts', Len(hunks') + 1) = Len(new)
      BY <2>1 DEF OldPos, NewPos
    <3>2. Len(old) = Len(old) + (Len(new) - Len(new)) /\ \A k \in Len(new) + 1 .. Len(new) : FALSE
      BY <1>1
    <3> QED  BY <3>1, <3>2 DEF ReplayedTo
  <2>3. pc' = "replay"
    BY <1>2, <1>6
  <2> QED  BY <1>2, <1>3, <1>4, <2>1, <2>2, <2>3 DEF ReloadInv, Progress
<1> QED  BY <1>5, <1>6

LEMMA EndScriptKeeps ==
    ASSUME ReloadInv, EndScript
    PROVE  ReloadInv'
<1>1. pc = "diff" /\ PushPending /\ pending' = NoEdit /\ HandOver /\ home' = home
  BY DEF EndScript
<1>2. hunks' \in Seq(Edit) /\ starts' \in Seq(Nat) /\ Script(old, new, home, hunks', starts')
  BY <1>1, PushedScript
<1>3. home' \in Seq(Nat)
  BY <1>1, ReloadFacts
<1> QED  BY <1>1, <1>2, <1>3, HandOverKeeps

LEMMA ReplaceWholeKeeps ==
    ASSUME ReloadInv, ReplaceWhole
    PROVE  ReloadInv'
<1>1. old \in Seq(Unit) /\ new \in Seq(Unit) /\ Len(old) \in Nat /\ Len(new) \in Nat
  BY ReloadFacts
<1> DEFINE e == [pos |-> 0, remove |-> Len(old), insert |-> new]
           hs == <<e>>
           st == <<0>>
           hm == [u \in 1 .. Len(old) |-> 0]
<1>2. hunks' = hs /\ starts' = st /\ home' = hm /\ pending' = NoEdit /\ HandOver
  BY DEF ReplaceWhole
<1>3. /\ e.pos = 0 /\ e.remove = Len(old) /\ e.insert = new /\ e \in Edit
      /\ Len(hs) = 1 /\ hs[1] = e /\ Len(st) = 1 /\ st[1] = 0 /\ st \in Seq(Nat)
  BY <1>1 DEF Edit
<1>4. hm \in Seq(Nat) /\ Len(hm) = Len(old) /\ \A u \in 1 .. Len(old) : hm[u] = 0
  BY <1>1
<1>5. hs \in Seq(Edit)
  BY <1>3
<1> HIDE DEF e, hs, st, hm
<1>6. OldEnd(hs, 0) = 0 /\ NewEnd(hs, st, 0) = 0 /\ OldPos(old, hs, 1) = 0 /\ NewPos(new, hs, st, 1) = 0
  BY <1>3 DEF OldEnd, NewEnd, OldPos, NewPos
<1>7. /\ OldEnd(hs, 1) = Len(old) /\ NewEnd(hs, st, 1) = Len(new)
      /\ OldPos(old, hs, 2) = Len(old) /\ NewPos(new, hs, st, 2) = Len(new)
  BY <1>1, <1>3 DEF OldEnd, NewEnd, OldPos, NewPos
<1>8. Replaces(old, new, hm, hs, st, 1)
  BY <1>1, <1>3, <1>4, <1>7 DEF Replaces
<1>9. Same(old, new, hm, 0, 0, 0, 0) /\ Same(old, new, hm, Len(old), Len(old), Len(new), Len(new))
  BY <1>1 DEF Same
<1>10. Script(old, new, hm, hs, st)
  <2>1. \A i \in 1 .. Len(hs) : Replaces(old, new, hm, hs, st, i)
    BY <1>3, <1>8
  <2>2. ASSUME NEW i \in 0 .. Len(hs)
        PROVE  Same(old, new, hm, OldEnd(hs, i), OldPos(old, hs, i + 1), NewEnd(hs, st, i), NewPos(new, hs, st, i + 1))
    <3>1. i = 0 \/ i = 1
      BY <1>3
    <3>2. CASE i = 0
      BY <1>6, <1>9, <3>2
    <3>3. CASE i = 1
      BY <1>7, <1>9, <3>3
    <3> QED  BY <3>1, <3>2, <3>3
  <2>3. \A i \in 1 .. Len(hs) - 1 : FALSE
    BY <1>3
  <2> QED  BY <1>3, <1>4, <2>1, <2>2, <2>3 DEF Script
<1> QED  BY <1>2, <1>3, <1>4, <1>5, <1>10, HandOverKeeps

\* An edit takes the editor from the place behind it to the one in front of it.
LEMMA Replays ==
    ASSUME NEW o \in Seq(Unit), NEW n \in Seq(Unit), NEW hm \in Seq(Nat), NEW hs \in Seq(Edit), NEW st \in Seq(Nat),
           Script(o, n, hm, hs, st), NEW l \in 1 .. Len(hs), NEW b \in Seq(Unit), ReplayedTo(b, o, n, hs, st, l)
    PROVE  /\ Spliced(b, hs[l]) \in Seq(Unit)
           /\ ReplayedTo(Spliced(b, hs[l]), o, n, hs, st, l - 1)
<1> DEFINE h == hs[l]
           t == Spliced(b, h)
           ins == h.insert
           rem == h.remove
           at == h.pos
           s == st[l]
           op == OldPos(o, hs, l + 1)
           np == NewPos(n, hs, st, l + 1)
           li == Len(ins)
           lo == Len(o)
           ln == Len(n)
           lb == Len(b)
           grown == li - rem
<1>1. Len(st) = Len(hs) /\ lo \in Nat /\ ln \in Nat /\ Len(hs) \in Nat
  BY DEF Script
<1>2. h \in Edit /\ at \in Nat /\ rem \in Nat /\ s \in Nat /\ li \in Nat
  <2>1. at \in Nat /\ rem \in Nat /\ s \in Nat /\ li \in Nat
    BY <1>1, EditFields
  <2> QED  BY <2>1
<1>3. OldEnd(hs, l) = at + rem /\ NewEnd(hs, st, l) = s + li
  BY DEF OldEnd, NewEnd
<1>4. OldPos(o, hs, (l - 1) + 1) = at /\ NewPos(n, hs, st, (l - 1) + 1) = s
  <2>1. (l - 1) + 1 = l /\ ~(l > Len(hs))
    BY <1>1
  <2> QED  BY <2>1 DEF OldPos, NewPos
<1>5. op \in 0 .. lo /\ np \in 0 .. ln
  <2>1. l \in 0 .. Len(hs)
    BY <1>1
  <2> QED  BY <2>1, Places
<1>6. Same(o, n, hm, at + rem, op, s + li, np)
  <2>1. l \in 0 .. Len(hs)
    BY <1>1
  <2>2. Same(o, n, hm, OldEnd(hs, l), op, NewEnd(hs, st, l), np)
    BY <2>1 DEF Script
  <2> QED  BY <1>3, <2>2
<1>7. \A k \in 1 .. li : n[s + k] = ins[k]
  BY DEF Script, Replaces
<1>8. /\ lb = op + (ln - np)
      /\ \A k \in 1 .. op : b[k] = o[k]
      /\ \A k \in np + 1 .. ln : b[k - np + op] = n[k]
  BY DEF ReplayedTo
<1> HIDE DEF h, ins, rem, at, s, op, np, li, lo, ln, lb
<1>9. at + rem <= op /\ np - (s + li) = op - (at + rem)
  BY <1>6 DEF Same
<1>10. at + rem <= lb
  BY <1>1, <1>2, <1>5, <1>8, <1>9
<1>11. /\ t \in Seq(Unit) /\ Len(t) = lb + grown
       /\ \A k \in 1 .. at : t[k] = b[k]
       /\ \A k \in 1 .. li : t[at + k] = ins[k]
       /\ \A k \in at + rem + 1 .. lb : t[k + grown] = b[k]
  BY <1>2, <1>10, SplicedShape DEF at, rem, ins, li, lb
<1> HIDE DEF t
<1>12. lb = op + (ln - np) /\ Len(t) = lb + (li - rem)
  BY <1>8, <1>11
<1>13. Len(t) = at + (ln - s)
  BY <1>1, <1>2, <1>5, <1>9, <1>12
<1>14. ASSUME NEW k \in 1 .. at
       PROVE  t[k] = o[k]
  <2>1. k \in 1 .. op
    BY <1>2, <1>5, <1>9
  <2> QED  BY <1>8, <1>11, <2>1
<1>15. ASSUME NEW k \in s + 1 .. ln
       PROVE  t[k - s + at] = n[k]
  <2>1. CASE k <= s + li
    <3> DEFINE j == k - s
    <3>1. j \in 1 .. li /\ s + j = k /\ k - s + at = at + j
      BY <1>2, <2>1
    <3> HIDE DEF j
    <3> QED  BY <1>7, <1>11, <3>1
  <2>2. CASE ~(k <= s + li) /\ k <= np
    <3> DEFINE u == at + rem + (k - (s + li))
    <3>1. /\ u \in at + rem + 1 .. op /\ u + (s + li) - (at + rem) = k /\ k - s + at = u + grown
          /\ u \in at + rem + 1 .. lb /\ u \in 1 .. op
      BY <1>1, <1>2, <1>5, <1>9, <1>12, <2>2
    <3> HIDE DEF u
    <3>2. o[u] = n[k]
      BY <1>6, <3>1 DEF Same
    <3>3. t[u + grown] = b[u] /\ b[u] = o[u]
      BY <1>8, <1>11, <3>1
    <3> QED  BY <3>1, <3>2, <3>3
  <2>3. CASE ~(k <= np)
    <3> DEFINE u == k - np + op
    <3>1. u \in at + rem + 1 .. lb /\ k - s + at = u + grown /\ k \in np + 1 .. ln
      BY <1>1, <1>2, <1>5, <1>9, <1>12, <2>3
    <3>2. b[u] = n[k]
      BY <1>8, <3>1
    <3> HIDE DEF u
    <3>3. t[u + grown] = b[u]
      BY <1>11, <3>1
    <3> QED  BY <3>1, <3>2, <3>3
  <2> QED  BY <2>1, <2>2, <2>3
<1>16. ReplayedTo(t, o, n, hs, st, l - 1)
  BY <1>4, <1>13, <1>14, <1>15 DEF ReplayedTo, ln
<1> QED  BY <1>11, <1>16 DEF t, h

\* When all the edits were replayed the editor has the new text.
LEMMA ReplayedAll ==
    ASSUME NEW o \in Seq(Unit), NEW n \in Seq(Unit), NEW hm \in Seq(Nat), NEW hs \in Seq(Edit), NEW st \in Seq(Nat),
           Script(o, n, hm, hs, st), NEW b \in Seq(Unit), ReplayedTo(b, o, n, hs, st, 0)
    PROVE  b = n
<1> DEFINE op == OldPos(o, hs, 1)
           np == NewPos(n, hs, st, 1)
<1>1. Len(o) \in Nat /\ Len(n) \in Nat /\ Len(hs) \in Nat
  OBVIOUS
<1>2. Same(o, n, hm, 0, op, 0, np)
  <2>1. 0 \in 0 .. Len(hs) /\ 0 + 1 = 1
    BY <1>1
  <2>2. Same(o, n, hm, OldEnd(hs, 0), OldPos(o, hs, 0 + 1), NewEnd(hs, st, 0), NewPos(n, hs, st, 0 + 1))
    BY <2>1 DEF Script
  <2>3. OldEnd(hs, 0) = 0 /\ NewEnd(hs, st, 0) = 0
    BY DEF OldEnd, NewEnd
  <2> QED  BY <2>1, <2>2, <2>3
<1>3. op \in 0 .. Len(o) /\ np \in 0 .. Len(n)
  <2>1. 0 \in 0 .. Len(hs) /\ 0 + 1 = 1
    BY <1>1
  <2> QED  BY <2>1, Places
<1>4. /\ Len(b) = op + (Len(n) - np)
      /\ \A k \in 1 .. op : b[k] = o[k]
      /\ \A k \in np + 1 .. Len(n) : b[k - np + op] = n[k]
  <2>1. 0 + 1 = 1
    OBVIOUS
  <2> QED  BY <2>1 DEF ReplayedTo
<1> HIDE DEF op, np
<1>5. op = np
  BY <1>2, <1>3 DEF Same
<1>6. Len(b) = Len(n)
  BY <1>1, <1>3, <1>4, <1>5
<1>7. ASSUME NEW k \in 1 .. Len(n)
      PROVE  b[k] = n[k]
  <2>1. CASE k <= op
    <3>1. k \in 1 .. op /\ k \in 0 + 1 .. op /\ k + 0 - 0 = k
      BY <1>3, <2>1
    <3>2. o[k] = n[k]
      BY <1>2, <3>1 DEF Same
    <3> QED  BY <1>4, <3>1, <3>2
  <2>2. CASE ~(k <= op)
    <3>1. k \in np + 1 .. Len(n) /\ k - np + op = k
      BY <1>3, <1>5, <2>2
    <3> QED  BY <1>4, <3>1
  <2> QED  BY <2>1, <2>2
<1> QED  BY <1>6, <1>7, SameText

LEMMA ReplayKeeps ==
    ASSUME ReloadInv, Replay
    PROVE  ReloadInv'
<1>1. /\ old \in Seq(Unit) /\ new \in Seq(Unit) /\ buffer \in Seq(Unit) /\ home \in Seq(Nat)
      /\ hunks \in Seq(Edit) /\ starts \in Seq(Nat) /\ from \in 0 .. Len(old)
  BY ReloadFacts
<1>2. /\ pc = "replay" /\ buffer' = Spliced(buffer, hunks[left]) /\ left' = left - 1
      /\ pc' = (IF left = 1 THEN "map" ELSE "replay")
      /\ old' = old /\ new' = new /\ pos' = pos /\ pending' = pending /\ hunks' = hunks
      /\ starts' = starts /\ home' = home /\ from' = from /\ seen' = seen /\ delta' = delta
  BY DEF Replay, scriptVars
<1>3. /\ pending = NoEdit /\ left \in 1 .. Len(hunks) /\ ReplayedTo(buffer, old, new, hunks, starts, left)
      /\ seen = 0 /\ delta = 0
  BY <1>2 DEF ReloadInv, Progress
<1>4. Script(old, new, home, hunks, starts)
  BY <1>3 DEF ReloadInv, Scripted
<1>5. buffer' \in Seq(Unit) /\ ReplayedTo(buffer', old, new, hunks, starts, left - 1)
  BY <1>1, <1>2, <1>3, <1>4, Replays
<1>6. ReloadTyped'
  BY <1>2, <1>5 DEF ReloadInv, ReloadTyped
<1>7. Scripted'
  BY <1>2, <1>3, <1>4 DEF Scripted
<1>8. CASE left = 1
  <2>1. ReplayedTo(buffer', old, new, hunks, starts, 0)
    <3>1. left - 1 = 0
      BY <1>8
    <3> QED  BY <1>5, <3>1
  <2>2. buffer' = new
    BY <1>1, <1>4, <1>5, <2>1, ReplayedAll
  <2>3. hunks # <<>> /\ 0 \in 0 .. Len(hunks)
    BY <1>1, <1>3
  <2>4. 0 <= from /\ 0 = 0 - 0
    BY <1>1
  <2>5. OldEnd(hunks, 0) = 0 /\ NewEnd(hunks, starts, 0) = 0
    BY DEF OldEnd, NewEnd
  <2>6. Progress'
    BY <1>2, <1>3, <1>8, <2>2, <2>3, <2>4, <2>5 DEF Progress
  <2> QED  BY <1>6, <1>7, <2>6 DEF ReloadInv
<1>9. CASE left # 1
  <2>1. left - 1 \in 1 .. Len(hunks)
    BY <1>1, <1>3, <1>9
  <2>2. Progress'
    BY <1>2, <1>3, <1>5, <1>9, <2>1 DEF Progress
  <2> QED  BY <1>6, <1>7, <2>2 DEF ReloadInv
<1> QED  BY <1>8, <1>9

----------------------------------------------------------------------------
(***************************************************************************)
(* mapCaret                                                                *)
(***************************************************************************)

\* Nothing between at and y is kept, and y is behind edit i and in front of the next:
\* the caret lands where the text behind the edit has moved.
LEMMA LandsBehind ==
    ASSUME NEW o \in Seq(Unit), NEW n \in Seq(Unit), NEW hm \in Seq(Nat), NEW hs \in Seq(Edit), NEW st \in Seq(Nat),
           Script(o, n, hm, hs, st), NEW i \in 0 .. Len(hs),
           NEW at \in Nat, NEW y \in at .. Len(o), \A u \in at + 1 .. y : hm[u] = 0,
           OldEnd(hs, i) <= y, i = Len(hs) \/ y < OldPos(o, hs, i + 1)
    PROVE  /\ y + (NewEnd(hs, st, i) - OldEnd(hs, i)) \in 0 .. Len(n)
           /\ Lands(o, n, hm, at) = y + (NewEnd(hs, st, i) - OldEnd(hs, i))
<1> DEFINE a == OldEnd(hs, i)
           b == OldPos(o, hs, i + 1)
           c == NewEnd(hs, st, i)
           d == NewPos(n, hs, st, i + 1)
           lo == Len(o)
           ln == Len(n)
           to == y + (c - a)
<1>1. lo \in Nat /\ ln \in Nat /\ y \in Nat /\ y <= lo
  OBVIOUS
<1>2. a \in 0 .. lo /\ b \in 0 .. lo /\ c \in 0 .. ln /\ d \in 0 .. ln
  BY Places
<1>3. Same(o, n, hm, a, b, c, d)
  BY DEF Script
<1>4. a <= y /\ (y < b \/ (b = lo /\ d = ln))
  <2>1. CASE i = Len(hs)
    <3>1. i + 1 > Len(hs)
      BY <2>1
    <3> QED  BY <3>1 DEF OldPos, NewPos
  <2>2. CASE i # Len(hs)
    BY <2>2
  <2> QED  BY <2>1, <2>2
<1> HIDE DEF a, b, c, d, lo, ln
<1>5. a <= b /\ d - c = b - a /\ \A u \in a + 1 .. b : hm[u] = u + c - a
  BY <1>3 DEF Same
<1>6. y <= b
  BY <1>1, <1>2, <1>4
<1>7. to \in 0 .. ln
  BY <1>1, <1>2, <1>4, <1>5, <1>6
<1>8. IF y = lo THEN to = ln ELSE hm[y + 1] = to + 1
  <2>1. CASE y = lo
    <3>1. b = lo /\ d = ln
      BY <1>1, <1>2, <1>4, <2>1
    <3> QED  BY <1>1, <1>2, <1>5, <2>1, <3>1
  <2>2. CASE y # lo
    <3>1. y + 1 \in a + 1 .. b /\ (y + 1) + c - a = to + 1
      BY <1>1, <1>2, <1>4, <2>2
    <3> QED  BY <1>5, <2>2, <3>1
  <2> QED  BY <2>1, <2>2
<1>9. to \in Nat
  BY <1>1, <1>7
<1> HIDE DEF to
<1>10. Lands(o, n, hm, at) = to
  BY <1>8, <1>9, LandsThere DEF lo, ln
<1> QED  BY <1>7, <1>10 DEF to, a, c, ln

\* mapCaret steps over an edit.
LEMMA StepsOver ==
    ASSUME NEW o \in Seq(Unit), NEW n \in Seq(Unit), NEW hm \in Seq(Nat), NEW hs \in Seq(Edit), NEW st \in Seq(Nat),
           Script(o, n, hm, hs, st), NEW i \in 0 .. Len(hs) - 1
    PROVE  /\ i + 1 \in 1 .. Len(hs) /\ i + 1 \in 0 .. Len(hs)
           /\ OldEnd(hs, i + 1) = hs[i + 1].pos + hs[i + 1].remove
           /\ (NewEnd(hs, st, i) - OldEnd(hs, i)) + Len(hs[i + 1].insert) - hs[i + 1].remove
                = NewEnd(hs, st, i + 1) - OldEnd(hs, i + 1)
<1> DEFINE a == OldEnd(hs, i)
           c == NewEnd(hs, st, i)
           at == hs[i + 1].pos
           rem == hs[i + 1].remove
           s == st[i + 1]
           li == Len(hs[i + 1].insert)
<1>1. i + 1 \in 1 .. Len(hs) /\ i + 1 \in 0 .. Len(hs) /\ i \in 0 .. Len(hs) /\ ~(i + 1 > Len(hs)) /\ i + 1 # 0
  OBVIOUS
<1>2. Len(st) = Len(hs)
  BY DEF Script
<1>3. at \in Nat /\ rem \in Nat /\ s \in Nat /\ li \in Nat
  BY <1>1, <1>2, EditFields
<1>4. a \in Nat /\ c \in Nat
  <2>1. a \in 0 .. Len(o) /\ c \in 0 .. Len(n)
    BY <1>1, Places
  <2> QED  BY <2>1
<1>5. OldEnd(hs, i + 1) = at + rem /\ NewEnd(hs, st, i + 1) = s + li
  BY <1>1 DEF OldEnd, NewEnd
<1>6. OldPos(o, hs, i + 1) = at /\ NewPos(n, hs, st, i + 1) = s
  BY <1>1 DEF OldPos, NewPos
<1>7. s - c = at - a
  <2>1. Same(o, n, hm, a, OldPos(o, hs, i + 1), c, NewPos(n, hs, st, i + 1))
    BY <1>1 DEF Script
  <2> HIDE DEF a, c, at, s
  <2> QED  BY <1>6, <2>1 DEF Same
<1>8. (c - a) + li - rem = (s + li) - (at + rem)
  <2> HIDE DEF a, c, at, rem, s, li
  <2> QED  BY <1>3, <1>4, <1>7
<1> QED  BY <1>1, <1>5, <1>8

LEMMA MapCaretKeeps ==
    ASSUME ReloadInv, MapCaret
    PROVE  ReloadInv'
<1>1. /\ old \in Seq(Unit) /\ new \in Seq(Unit) /\ buffer \in Seq(Unit) /\ home \in Seq(Nat)
      /\ hunks \in Seq(Edit) /\ starts \in Seq(Nat) /\ from \in 0 .. Len(old)
      /\ Len(old) \in Nat /\ Len(new) \in Nat /\ Len(hunks) \in Nat
  BY ReloadFacts
<1>2. /\ pc = "map" /\ left' = left /\ buffer' = buffer /\ from' = from /\ pos' = pos /\ pending' = pending
      /\ old' = old /\ new' = new /\ hunks' = hunks /\ starts' = starts /\ home' = home
      /\ pc' \in {"map", "done"}
  BY DEF MapCaret, scriptVars, Place
<1>3. /\ pending = NoEdit /\ buffer = new /\ hunks # <<>> /\ seen \in 0 .. Len(hunks)
      /\ OldEnd(hunks, seen) <= from /\ delta = NewEnd(hunks, starts, seen) - OldEnd(hunks, seen)
  BY <1>2 DEF ReloadInv, Progress
<1>4. Script(old, new, home, hunks, starts)
  BY <1>3 DEF ReloadInv, Scripted
<1>5. ReloadTyped'
  BY <1>2 DEF ReloadInv, ReloadTyped
<1>6. Scripted'
  BY <1>2, <1>3, <1>4 DEF Scripted
<1>7. LandsAt(from)' = Lands(old, new, home, from) /\ (Drifted' <=> Drifted)
  BY <1>2 DEF LandsAt, Lands, Drifted
<1>8. ASSUME NEW at, Place(at), ~Drifted => at \in 0 .. Len(new) /\ at = Lands(old, new, home, from)
      PROVE  ReloadInv'
  <2>1. pc' = "done" /\ caret' = (IF at <= Len(buffer) THEN at ELSE hunks[1].pos + Len(hunks[1].insert))
    BY <1>8 DEF Place
  <2>2. ASSUME ~Drifted
        PROVE  caret' = Lands(old, new, home, from)
    <3>1. at <= Len(buffer)
      BY <1>1, <1>3, <1>8, <2>2
    <3> QED  BY <1>8, <2>1, <2>2, <3>1
  <2>3. Progress'
    BY <1>2, <1>3, <1>7, <2>1, <2>2 DEF Progress
  <2> QED  BY <1>5, <1>6, <2>3 DEF ReloadInv
<1> DEFINE h == hunks[seen + 1]
           gone == OldEnd(hunks, seen + 1)
           come == NewEnd(hunks, starts, seen + 1)
<1>9. ASSUME seen < Len(hunks)
      PROVE  /\ seen + 1 \in 1 .. Len(hunks) /\ seen + 1 \in 0 .. Len(hunks) /\ gone = h.pos + h.remove
             /\ delta + Len(h.insert) - h.remove = come - gone
  <2>1. seen \in 0 .. Len(hunks) - 1
    BY <1>1, <1>3, <1>9
  <2> QED  BY <1>1, <1>3, <1>4, <2>1, StepsOver
<1>10. CASE seen < Len(hunks) /\ Ended(h, from)
  <2>1. /\ delta' = delta + Len(h.insert) - h.remove /\ seen' = seen + 1 /\ pc' = pc /\ caret' = caret
    BY <1>10 DEF MapCaret
  <2>2. h.pos + h.remove <= from
    BY <1>10 DEF Ended
  <2>3. seen' \in 0 .. Len(hunks) /\ OldEnd(hunks, seen') <= from /\ delta' = NewEnd(hunks, starts, seen') - OldEnd(hunks, seen')
    BY <1>9, <1>10, <2>1, <2>2
  <2>4. Progress'
    BY <1>2, <1>3, <2>1, <2>3 DEF Progress
  <2> QED  BY <1>5, <1>6, <2>4 DEF ReloadInv
<1>11. CASE seen < Len(hunks) /\ ~Ended(h, from) /\ h.pos <= from
  <2> DEFINE at == h.pos + Len(h.insert)
  <2>1. Place(at)
    BY <1>11 DEF MapCaret
  <2>2. ASSUME ~Drifted
        PROVE  at \in 0 .. Len(new) /\ at = Lands(old, new, home, from)
    <3>1. h.pos \in Nat /\ h.remove \in Nat /\ Len(h.insert) \in Nat /\ Len(starts) = Len(hunks)
      <4>1. Len(starts) = Len(hunks)
        BY <1>4 DEF Script
      <4> QED  BY <1>1, <1>9, <1>11, <4>1, EditFields
    <3>2. from < h.pos + h.remove
      BY <1>1, <1>11, <3>1 DEF Ended
    <3>3. starts[seen + 1] = h.pos
      <4>1. seen + 1 \in DOMAIN hunks
        BY <1>1, <1>9, <1>11
      <4> QED  BY <1>11, <2>2, <3>2, <4>1 DEF Drifted
    <3>4. come = at
      <4>1. seen + 1 # 0
        BY <1>9, <1>11
      <4> QED  BY <3>3, <4>1 DEF NewEnd
    <3>5. gone \in from .. Len(old) /\ from \in Nat
      <4>1. gone \in 0 .. Len(old)
        BY <1>1, <1>4, <1>9, <1>11, Places
      <4> QED  BY <1>1, <1>9, <1>11, <3>2, <4>1
    <3>6. \A u \in from + 1 .. gone : home[u] = 0
      <4>1. \A u \in h.pos + 1 .. h.pos + h.remove : home[u] = 0
        BY <1>4, <1>9, <1>11 DEF Script, Replaces
      <4>2. \A u \in from + 1 .. gone : u \in h.pos + 1 .. h.pos + h.remove
        BY <1>1, <1>9, <1>11, <3>1
      <4> QED  BY <4>1, <4>2
    <3>7. seen + 1 = Len(hunks) \/ gone < OldPos(old, hunks, (seen + 1) + 1)
      <4>1. CASE seen + 1 # Len(hunks)
        <5>1. seen + 1 \in 1 .. Len(hunks) - 1
          BY <1>1, <1>9, <1>11, <4>1
        <5> QED  BY <1>4, <5>1 DEF Script
      <4> QED  BY <4>1
    <3>8. gone <= gone /\ gone + (come - gone) = come
      <4>1. gone \in 0 .. Len(old) /\ come \in 0 .. Len(new)
        BY <1>1, <1>4, <1>9, <1>11, Places
      <4>2. \A x, y \in Int : x <= x /\ x + (y - x) = y
        OBVIOUS
      <4>3. gone \in Int /\ come \in Int
        BY <4>1
      <4> QED  BY <4>2, <4>3, Zenon
    <3> HIDE DEF gone, come, at, h
    <3>9. /\ gone + (come - gone) \in 0 .. Len(new)
          /\ Lands(old, new, home, from) = gone + (come - gone)
      BY <1>1, <1>4, <1>9, <1>11, <3>5, <3>6, <3>7, <3>8, LandsBehind DEF gone, come
    <3> QED  BY <3>4, <3>8, <3>9
  <2> QED  BY <1>8, <2>1, <2>2
<1>12. CASE ~(seen < Len(hunks) /\ h.pos <= from) /\ ~(seen < Len(hunks) /\ Ended(h, from))
  <2> DEFINE at == IF from + delta < 0 THEN 0 ELSE from + delta
  <2>1. Place(at)
    BY <1>12 DEF MapCaret
  <2>2. /\ from + (NewEnd(hunks, starts, seen) - OldEnd(hunks, seen)) \in 0 .. Len(new)
        /\ Lands(old, new, home, from) = from + (NewEnd(hunks, starts, seen) - OldEnd(hunks, seen))
    <3>1. seen = Len(hunks) \/ from < OldPos(old, hunks, seen + 1)
      <4>1. CASE seen < Len(hunks)
        <5>1. ~(seen + 1 > Len(hunks)) /\ h.pos \in Nat
          <6>1. Len(starts) = Len(hunks)
            BY <1>4 DEF Script
          <6>2. h.pos \in Nat
            BY <1>1, <1>9, <4>1, <6>1, EditFields
          <6> QED  BY <1>1, <1>3, <4>1, <6>2
        <5>2. from < h.pos
          BY <1>1, <1>12, <4>1, <5>1
        <5> QED  BY <5>1, <5>2 DEF OldPos
      <4> QED  BY <1>1, <1>3, <4>1
    <3>2. from \in Nat /\ from \in from .. Len(old) /\ \A u \in from + 1 .. from : home[u] = 0
      BY <1>1
    <3> QED  BY <1>1, <1>3, <1>4, <3>1, <3>2, LandsBehind
  <2>3. at = from + delta
    BY <1>1, <1>3, <2>2
  <2> HIDE DEF at
  <2>4. at \in 0 .. Len(new) /\ at = Lands(old, new, home, from)
    BY <1>3, <2>2, <2>3
  <2> QED  BY <1>8, <2>1, <2>4
<1> QED  BY <1>10, <1>11, <1>12

----------------------------------------------------------------------------
(***************************************************************************)
(* Live reload: the theorems                                               *)
(***************************************************************************)

\* The edits are a script at every step, the replay undoes nothing in front of it, and
\* mapCaret keeps count.
THEOREM ReloadInvariant == ReloadSpec => []ReloadInv
<1>1. ReloadInit => ReloadInv
  <2> SUFFICES ASSUME ReloadInit
               PROVE  ReloadInv
    OBVIOUS
  <2>1. ReloadTyped
    BY DEF ReloadInit, ReloadTyped
  <2>2. Script(<<>>, <<>>, <<>>, <<>>, <<>>)
    <3>1. /\ OldEnd(<<>>, 0) = 0 /\ NewEnd(<<>>, <<>>, 0) = 0
          /\ OldPos(<<>>, <<>>, 0 + 1) = 0 /\ NewPos(<<>>, <<>>, <<>>, 0 + 1) = 0
      BY DEF OldEnd, NewEnd, OldPos, NewPos
    <3>2. Same(<<>>, <<>>, <<>>, 0, 0, 0, 0)
      BY DEF Same
    <3>3. Len(<<>>) = 0 /\ \A i \in 0 .. 0 : i = 0
      OBVIOUS
    <3>4. \A i \in 1 .. 0 : FALSE
      OBVIOUS
    <3>5. \A i \in 1 .. 0 - 1 : FALSE
      OBVIOUS
    <3> QED  BY <3>1, <3>2, <3>3, <3>4, <3>5 DEF Script
  <2>3. Scripted
    BY <2>2 DEF ReloadInit, Scripted
  <2>4. Progress
    BY DEF ReloadInit, Progress
  <2> QED  BY <2>1, <2>3, <2>4 DEF ReloadInv
<1>2. ReloadInv /\ [ReloadNext]_reloadVars => ReloadInv'
  <2> SUFFICES ASSUME ReloadInv, [ReloadNext]_reloadVars
               PROVE  ReloadInv'
    OBVIOUS
  <2>1. CASE EqualRun
    BY <2>1, EqualRunKeeps
  <2>2. CASE DeleteRun
    BY <2>2, DeleteRunKeeps
  <2>3. CASE InsertRun
    BY <2>3, InsertRunKeeps
  <2>4. CASE EndScript
    BY <2>4, EndScriptKeeps
  <2>5. CASE ReplaceWhole
    BY <2>5, ReplaceWholeKeeps
  <2>6. CASE Replay
    BY <2>6, ReplayKeeps
  <2>7. CASE MapCaret
    BY <2>7, MapCaretKeeps
  <2>8. CASE UNCHANGED reloadVars
    BY <2>8 DEF reloadVars, scriptVars, editorVars, ReloadInv, ReloadTyped, Scripted, Progress, Drifted, LandsAt
  <2> QED  BY <2>1, <2>2, <2>3, <2>4, <2>5, <2>6, <2>7, <2>8 DEF ReloadNext
<1> QED  BY <1>1, <1>2, PTL DEF ReloadSpec

\* The edits of edit_script, replayed back to front, take the editor's text to the
\* merged text, unit by unit, whatever the diff says and whatever chars need two units.
THEOREM EditsReproduce == ReloadSpec => []Reproduces
<1>1. ReloadInv => Reproduces
  BY DEF ReloadInv, Progress, Reproduces
<1> QED  BY <1>1, ReloadInvariant, PTL

\* Unless it was in a run that is replaced, behind edits that change the length, the
\* caret lands in front of what was behind it.
THEOREM CaretIsFollowed == ReloadSpec => []CaretFollows
<1>1. ReloadInv => CaretFollows
  BY DEF ReloadInv, Progress, CaretFollows
<1> QED  BY <1>1, ReloadInvariant, PTL
=============================================================================
