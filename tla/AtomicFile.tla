----------------------------- MODULE AtomicFile -----------------------------
(***************************************************************************)
(* The program's one way of replacing a file: write `<name>.tmp`, rename   *)
(* it over the name.  write_atomic (booklet-sync-server blob.rs) stores    *)
(* blobs like this, stage_blob (store.rs) parks uploads and                *)
(* write_json_atomic (booklet-core sync.rs) saves sync.json and            *)
(* manifest.json.  BlobStore runs these actions under its requests.        *)
(*                                                                         *)
(* The name of the temporary file is a function of the final name, so two  *)
(* writers of one file share it.  fs::write opens (and truncates) by name  *)
(* and writes through the open file; rename moves whatever the temporary   *)
(* name points at, and the open files with it.                             *)
(***************************************************************************)
CONSTANTS
    Writers,     \* calls in flight
    Files,       \* final names
    Texts,       \* what is written
    NoFile       \* a name that does not exist

\* What a file holds: nothing yet, a text, or the bytes of two different texts
\* on top of each other.
Contents == Texts \cup {"empty", "mixed"}

VARIABLES
    temp,        \* what `<file>.tmp` holds
    final,       \* what `<file>` holds
    call         \* per writer: its step, what it writes where, and the name its
                 \* open file goes by now

Call == [pc : {"idle", "opened", "written"}, file : Files \cup {NoFile},
         text : Texts \cup {NoFile}, fd : {"temp", "final", "gone"}]

NoCall == [pc |-> "idle", file |-> NoFile, text |-> NoFile, fd |-> "gone"]

DiskTypeOK ==
    /\ temp \in [Files -> Contents \cup {NoFile}]
    /\ final \in [Files -> Contents \cup {NoFile}]
    /\ call \in [Writers -> Call]

DiskInit ==
    /\ temp = [f \in Files |-> NoFile]
    /\ final = [f \in Files |-> NoFile]
    /\ call = [w \in Writers |-> NoCall]

\* Mutant: the content is written straight into the final file.
OpenTemp_InPlace(w, f, text) ==
    /\ call[w].pc = "idle"
    /\ final' = [final EXCEPT ![f] = "empty"]
    /\ temp' = [temp EXCEPT ![f] = "empty"]
    /\ call' = [call EXCEPT ![w] = [pc |-> "opened", file |-> f, text |-> text, fd |-> "final"]]

\* open(O_CREAT | O_TRUNC): the existing temporary file is truncated and shared.
OpenTemp(w, f, text) ==
    /\ call[w].pc = "idle"
    /\ temp' = [temp EXCEPT ![f] = "empty"]
    /\ call' = [call EXCEPT ![w] = [pc |-> "opened", file |-> f, text |-> text, fd |-> "temp"]]
    /\ UNCHANGED final

Over(old, text) == IF old \in {"empty", text} THEN text ELSE "mixed"

\* The content reaches the open file, whatever it is called by now; over another
\* writer's content the two mix.
WriteTemp(w) ==
    LET f == call[w].file
    IN  /\ call[w].pc = "opened"
        /\ temp' = IF call[w].fd = "temp" THEN [temp EXCEPT ![f] = Over(@, call[w].text)] ELSE temp
        /\ final' = IF call[w].fd = "final" THEN [final EXCEPT ![f] = Over(@, call[w].text)] ELSE final
        /\ call' = [call EXCEPT ![w].pc = "written", ![w].fd = "gone"]

\* rename: open files follow their names.
Rename(w) ==
    LET f == call[w].file
        moved(u) == IF call[u].file # f THEN call[u].fd
                    ELSE IF call[u].fd = "temp" THEN "final" ELSE "gone"
    IN  /\ call[w].pc = "written"
        /\ temp[f] # NoFile
        /\ final' = [final EXCEPT ![f] = temp[f]]
        /\ temp' = [temp EXCEPT ![f] = NoFile]
        /\ call' = [u \in Writers |-> IF u = w THEN NoCall ELSE [call[u] EXCEPT !.fd = moved(u)]]

\* The process dies, the write fails, or the rename finds no temporary file: the
\* files stay as they are.
Crash(w) ==
    /\ call' = [call EXCEPT ![w] = NoCall]
    /\ UNCHANGED <<temp, final>>

=============================================================================
