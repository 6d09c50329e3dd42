----------------------------- MODULE LiveReload -----------------------------
(***************************************************************************)
(* A merged note lands in the live editor as a few range edits rather than *)
(* as a new text (booklet-core merge.rs, edit_script and map_caret; note.rs*)
(* reload_edits; EditorView.qml applyMerge): the loop over the runs of the *)
(* diff, the loop over the edits, back to front, and the loop that looks   *)
(* for the caret, one action per iteration.                                *)
(*                                                                         *)
(* Text is chars in Rust and UTF-16 units in the editor: a char is one     *)
(* unit or two.  The diff library is any correct char diff, or a failure.  *)
(***************************************************************************)
EXTENDS Integers, Sequences

CONSTANTS
    Chars,      \* the chars of a text
    Astral,     \* those that take two units
    MaxRuns     \* bound on the runs of a diff

ASSUME CharsAssumption == Astral \subseteq Chars /\ MaxRuns \in Nat

VARIABLES
    pc,         \* "diff"; "replay"; "map": the caret is looked for; "done"
    runs,       \* how many runs of the diff there were
    old, new,   \* the editor's text and the file's, as far as the diff has come, in units
    pos, pending, hunks,    \* edit_script: the place in old, the edit that grows, the edits
    left,       \* how many edits the editor has yet to replay
    buffer,     \* the editor's text
    from, caret,            \* where the caret was before the edits, and where it is
    seen, delta,            \* mapCaret: the edits before the caret, what they changed
    starts,     \* history: where in new an edit starts
    home        \* history: where in new a unit of old is; 0 if it goes

scriptVars == <<old, new, pos, pending, hunks, starts, home>>
editorVars == <<left, buffer, from, caret, seen, delta>>
reloadVars == <<pc, runs, scriptVars, editorVars>>

\* What the editor holds for a char.
Unit == Chars \X {1, 2}
Units(char) == IF char \in Astral THEN <<<<char, 1>>, <<char, 2>>>> ELSE <<<<char, 1>>>>

\* Mutant: lengths are counted in chars.
Utf16Len_Chars(char) == 1

Utf16Len(char) == Len(Units(char))

Edit == [pos : Nat, remove : Nat, insert : Seq(Unit)]
NoEdit == [pos |-> -1, remove |-> 0, insert |-> <<>>]

ReloadInit ==
    /\ pc = "diff" /\ runs = 0
    /\ old = <<>> /\ new = <<>>
    /\ pos = 0 /\ pending = NoEdit /\ hunks = <<>>
    /\ left = 0 /\ buffer = <<>>
    /\ from = 0 /\ caret = 0 /\ seen = 0 /\ delta = 0
    /\ starts = <<>> /\ home = <<>>

----------------------------------------------------------------------------
(* edit_script *)

\* The loop over the diff.  A run is one char; a longer one is runs with the same op
\* in a row.
Run == pc = "diff" /\ runs < MaxRuns /\ runs' = runs + 1

\* The pending edit is pushed.
PushPending ==
    IF pending = NoEdit THEN UNCHANGED <<hunks, starts>>
    ELSE /\ hunks' = Append(hunks, pending)
         /\ starts' = Append(starts, Len(new) - Len(pending.insert))

\* get_or_insert
Begun == IF pending = NoEdit THEN [pos |-> pos, remove |-> 0, insert |-> <<>>] ELSE pending

EqualRun == \E char \in Chars :
    /\ Run /\ PushPending
    /\ pending' = NoEdit
    /\ pos' = pos + Utf16Len(char)
    /\ old' = old \o Units(char) /\ new' = new \o Units(char)
    /\ home' = home \o [k \in 1 .. Len(Units(char)) |-> Len(new) + k]
    /\ UNCHANGED <<pc, editorVars>>

DeleteRun == \E char \in Chars :
    /\ Run
    /\ pending' = [Begun EXCEPT !.remove = @ + Utf16Len(char)]
    /\ pos' = pos + Utf16Len(char)
    /\ old' = old \o Units(char)
    /\ home' = home \o [k \in 1 .. Len(Units(char)) |-> 0]
    /\ UNCHANGED <<pc, new, hunks, starts, editorVars>>

InsertRun == \E char \in Chars :
    /\ Run
    /\ pending' = [Begun EXCEPT !.insert = @ \o Units(char)]
    /\ new' = new \o Units(char)
    /\ UNCHANGED <<pc, old, pos, hunks, starts, home, editorVars>>

\* reload_edits returns, and the editor has the old text, the caret between two chars.
HandOver ==
    /\ left' = Len(hunks') /\ buffer' = old
    /\ from' \in {n \in 0 .. Len(old) : n = Len(old) \/ old[n + 1][2] = 1} /\ caret' = from'
    /\ seen' = 0 /\ delta' = 0
    /\ pc' = IF hunks' = <<>> THEN "done" ELSE "replay"
    /\ UNCHANGED <<runs, old, new, pos>>

EndScript ==
    /\ pc = "diff" /\ PushPending
    /\ pending' = NoEdit
    /\ HandOver
    /\ UNCHANGED home

\* The diff fails: everything goes and everything comes.
ReplaceWhole ==
    /\ pc = "diff"
    /\ hunks' = <<[pos |-> 0, remove |-> Len(old), insert |-> new]>> /\ starts' = <<0>>
    /\ pending' = NoEdit
    /\ HandOver
    /\ home' = [u \in 1 .. Len(old) |-> 0]

----------------------------------------------------------------------------
(* applyMerge *)

Spliced(units, h) ==
    SubSeq(units, 1, h.pos) \o h.insert \o SubSeq(units, h.pos + h.remove + 1, Len(units))

\* Back to front.
Replay ==
    /\ pc = "replay"
    /\ buffer' = Spliced(buffer, hunks[left])
    /\ left' = left - 1
    /\ pc' = IF left = 1 THEN "map" ELSE "replay"
    /\ UNCHANGED <<runs, scriptVars, from, caret, seen, delta>>

----------------------------------------------------------------------------
(* mapCaret *)

\* Mutant: an edit that ends at the caret counts as one around it.
Ended_Strict(h, at) == h.pos + h.remove < at

Ended(h, at) == h.pos + h.remove <= at

\* The editor ignores a caret beyond its text; it then stands where the last edit
\* left it, at the end of what was inserted.
Place(at) ==
    /\ caret' = IF at <= Len(buffer) THEN at ELSE hunks[1].pos + Len(hunks[1].insert)
    /\ pc' = "done"
    /\ UNCHANGED <<seen, delta>>

\* Edits that end before the caret move it, one around it takes it to the end of
\* what is inserted - a place in the old text -, the others leave it alone.
MapCaret ==
    /\ pc = "map"
    /\ IF seen < Len(hunks) /\ Ended(hunks[seen + 1], from)
         THEN /\ delta' = delta + Len(hunks[seen + 1].insert) - hunks[seen + 1].remove
              /\ seen' = seen + 1
              /\ UNCHANGED <<pc, caret>>
         ELSE IF seen < Len(hunks) /\ hunks[seen + 1].pos <= from
         THEN Place(hunks[seen + 1].pos + Len(hunks[seen + 1].insert))
         ELSE Place(IF from + delta < 0 THEN 0 ELSE from + delta)
    /\ UNCHANGED <<runs, scriptVars, left, buffer, from>>

ReloadNext == EqualRun \/ DeleteRun \/ InsertRun \/ EndScript \/ ReplaceWhole \/ Replay \/ MapCaret

ReloadSpec == ReloadInit /\ [][ReloadNext]_reloadVars

----------------------------------------------------------------------------
(* Properties *)

\* "so this always produces edits that reproduce `new`" (merge.rs, edit_script): in
\* units, whatever the widths of the chars.  "The editor replays them back-to-front so
\* earlier positions stay valid" (Edit).
Reproduces == pc \in {"map", "done"} => buffer = new

\* In front of the first unit behind the caret that is kept, or at the end.
LandsAt(at) ==
    LET kept == {u \in at + 1 .. Len(old) : home[u] # 0}
    IN  IF kept = {} THEN Len(new) ELSE home[CHOOSE u \in kept : \A w \in kept : u <= w] - 1

\* The caret is in a run that is replaced, behind edits that changed the length.
Drifted ==
    \E i \in DOMAIN hunks :
        /\ hunks[i].pos <= from /\ from < hunks[i].pos + hunks[i].remove
        /\ starts[i] # hunks[i].pos

\* "the caret follows its surroundings rather than jumping to 0. An edit that
\* straddles the caret drops it at the end of the inserted text" (merge.rs,
\* map_caret) - except that the code tells the latter place in the old text, and is
\* off by what the edits before it changed.
CaretFollows == pc = "done" /\ ~Drifted => caret = LandsAt(from)
=============================================================================
