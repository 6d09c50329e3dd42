------------------------------ MODULE SyncBook ------------------------------
(***************************************************************************)
(* A book in step on several devices: its folder, its booklet.json and the *)
(* copies a conflict makes of that file.  SyncDevice is about the notes;   *)
(* here are the arms of the reconciliation engine                          *)
(* (booklet-sync-client/src/engine.rs) it leaves out - entities without    *)
(* content, and a merge by keys (booklet-core/src/merge.rs) - together     *)
(* with the dialog that writes booklet.json (booklet-core/src/vault.rs,    *)
(* BindingDialog.qml).                                                     *)
(*                                                                         *)
(* A JSON object is a function from the keys it has to values; a value is  *)
(* the number of the choice that made it, 0 the default the dialog shows   *)
(* for a key that is not there.  The server is the versioned vault of      *)
(* VersionedVault: a mutation is one atomic step.  The feed is not: its    *)
(* rows and its cursor come from two statements, as in SyncFeed.           *)
(***************************************************************************)
EXTENDS Naturals, Sequences, FiniteSets, SequencesExt

CONSTANTS
    Devices,
    Copies,      \* the names of conflict copies: numbers above those of the
                 \* folder and its file, in the order of the manifest
    CopyNames,   \* bound: the names conflict_copy_name tries for a path, in order
    Missing,     \* no entity; in the history, a tombstone
    Blank,       \* a folder's content, or an empty file
    Mangled,     \* a file that is not a JSON object
    Environments,\* what may happen around the devices, see below
    MaxChoices   \* bound: values chosen

Folder == 1
Meta   == 2
Paths  == {Folder, Meta} \cup Copies

\* An environment says whether the devices already share a book when it begins,
\* what may happen - "busy": users touch the book while a cycle runs, "mangle": they
\* leave booklet.json broken - and bounds values chosen, books made and deleted, and
\* failed calls.
Environment(shared, hazards, choices, books, deletes, faults) ==
    [shared |-> shared, hazards |-> hazards, choices |-> choices, books |-> books,
     deletes |-> deletes, faults |-> faults]

ASSUME EnvironmentAssumption ==
    Environments \subseteq [shared : BOOLEAN, hazards : SUBSET {"busy", "mangle"},
                            choices : 0 .. MaxChoices, books : Nat, deletes : Nat, faults : Nat]
ASSUME NamesAssumption == /\ MaxChoices \in Nat
                          /\ Copies \subseteq Nat \ {0, Folder, Meta}
                          /\ CopyNames \in [Paths -> Seq(Copies)]
                          /\ \A p \in Paths : \A i \in DOMAIN CopyNames[p] : CopyNames[p][i] # p

\* "own" stands for whatever the user keeps in the file besides the binding.
Keys  == {"color", "shelf", "own"}
Picks == 1 .. MaxChoices

Objects  == UNION {[K -> 0 .. MaxChoices] : K \in SUBSET Keys}
Contents == Objects \cup {Blank, Mangled}
Files    == Contents \cup {Missing}

ASSUME ContentsAssumption ==
    /\ {Missing, Blank, Mangled} \cap Objects = {}
    /\ Missing # Blank /\ Missing # Mangled /\ Blank # Mangled

VARIABLES
    hist,        \* server: the versions of every path, in order
    last,        \* server: the sequence of its latest version
    seq,         \* server: the vault's sequence
    disk,        \* per device: what the vault's folder holds
    manifest,    \* per device: the remembered snapshot
    versions,    \* per device: the version last confirmed per path
    cursor,      \* per device: how far the feed was read
    raced,       \* history, per device: the sequences that came between the two statements
                 \* of an answer whose cursor the device adopted
    work,        \* per device: the worker's cycle
    dialog,      \* per device: the binding dialog
    made,        \* the choices made so far
    excused,     \* history: choices their user took back, or a known hazard met
    unread,      \* history: keys their user deleted, broke or wrote over unread
    env,         \* the environment of this behaviour
    books, deletes, faults  \* books made, books deleted and faults so far

server  == <<hist, last, seq>>
stored  == <<manifest, versions, cursor, raced>>
history == <<excused, unread>>
counts  == <<made, books, deletes, faults>>
vars    == <<server, disk, stored, work, dialog, history, counts, env>>

\* What is left to push and to apply are sets: `phase` and `path`, and the rows'
\* sequence numbers, say in which order.
Change == [phase : 1 .. 4, op : {"put", "delete"}, path : Paths]

Item == [seq : Nat, path : Paths, content : Files, version : Nat]

Worker == [pc : {"idle", "push", "send", "lost", "merge", "resend", "copy", "sendcopy",
                 "pull", "rows", "apply"},
           todo : SUBSET Change, page : SUBSET Item, path : Paths, local : Files,
           remote : Files, version : Nat, copy : Paths, vers : [Paths -> Nat],
           at : Nat, cursor : Nat]

Resting == [pc |-> "idle", todo |-> {}, page |-> {}, path |-> Folder, local |-> Missing,
            remote |-> Missing, version |-> 0, copy |-> Folder,
            vers |-> [p \in Paths |-> 0], at |-> 0, cursor |-> 0]

Dialog == [pc : {"closed", "open", "write"}, color : 0 .. MaxChoices, shelf : 0 .. MaxChoices,
           existing : Files]

Closed == [pc |-> "closed", color |-> 0, shelf |-> 0, existing |-> Missing]

TypeOK ==
    /\ hist \in [Paths -> Seq(Files)] /\ last \in [Paths -> Nat] /\ seq \in Nat
    /\ disk \in [Devices -> [Paths -> Files]]
    /\ manifest \in [Devices -> [Paths -> Files]]
    /\ versions \in [Devices -> [Paths -> Nat]] /\ cursor \in [Devices -> Nat]
    /\ raced \in [Devices -> SUBSET Nat]
    /\ work \in [Devices -> Worker] /\ dialog \in [Devices -> Dialog]
    /\ made \in 0 .. MaxChoices /\ excused \subseteq Picks
    /\ unread \subseteq Keys
    /\ env \in Environments
    /\ books \in 0 .. env.books /\ deletes \in 0 .. env.deletes /\ faults \in 0 .. env.faults

Nothing == [p \in Paths |-> Missing]

\* A book with a binding of defaults.
Shared == [Nothing EXCEPT ![Folder] = Blank, ![Meta] = [k \in {"color", "shelf"} |-> 0]]

\* The devices start with no book, or with one they share: its folder and its
\* booklet.json were the first two mutations of the vault.
Init ==
    /\ env \in Environments
    /\ LET files == IF env.shared THEN Shared ELSE Nothing
           upto(p) == IF files[p] = Missing THEN 0 ELSE p
       IN  /\ hist = [p \in Paths |-> IF files[p] = Missing THEN <<>> ELSE <<files[p]>>]
           /\ last = [p \in Paths |-> upto(p)]
           /\ seq = upto(Meta)
           /\ disk = [d \in Devices |-> files] /\ manifest = disk
           /\ versions = [d \in Devices |-> [p \in Paths |-> Len(hist[p])]]
           /\ cursor = [d \in Devices |-> seq] /\ raced = [d \in Devices |-> {}]
    /\ work = [d \in Devices |-> Resting]
    /\ dialog = [d \in Devices |-> Closed]
    /\ excused = {} /\ unread = {}
    /\ made = 0 /\ books = 0 /\ deletes = 0 /\ faults = 0

----------------------------------------------------------------------------
(***************************************************************************)
(* JSON                                                                    *)
(***************************************************************************)
IsObject(c) == c \notin {Missing, Blank, Mangled}

KeysOf(c) == IF IsObject(c) THEN DOMAIN c ELSE {}

\* The choices a content holds.
Held(c) == {c[k] : k \in KeysOf(c)} \ {0}

\* A missing key reads as a default.
Shown(c, key) == IF key \in KeysOf(c) THEN c[key] ELSE 0

\* The keys of c laid over those of e.
Over(c, e) == [k \in DOMAIN c \cup DOMAIN e |-> IF k \in DOMAIN c THEN c[k] ELSE e[k]]

\* Mutant: the local file, whatever keys the other side has.
MergeBookletJson_LocalOnly(local, remote) == local

\* Mutant: the remote side wins a shared key.
MergeBookletJson_RemoteWins(local, remote) ==
    IF IsObject(local) /\ IsObject(remote) THEN Over(remote, local) ELSE local

\* The local keys laid over the remote ones; no merge unless both are objects.
MergeBookletJson(local, remote) ==
    IF IsObject(local) /\ IsObject(remote) THEN Over(local, remote) ELSE local

\* Binding::write keeps what else an object holds; anything else starts afresh.
Bound(existing, color, shelf) ==
    Over([color |-> color, shelf |-> shelf], IF IsObject(existing) THEN existing ELSE <<>>)

----------------------------------------------------------------------------
(***************************************************************************)
(* The server's calls                                                      *)
(***************************************************************************)
Version(p) == Len(hist[p])

Current(p) == IF hist[p] = <<>> THEN Missing ELSE Last(hist[p])

Applied(p, content) ==
    /\ hist' = [hist EXCEPT ![p] = Append(@, content)]
    /\ last' = [last EXCEPT ![p] = seq + 1]
    /\ seq' = seq + 1

\* GET /changes, its first statement: the current row of every path past the cursor, by
\* sequence.
Feed(since) ==
    {[seq |-> last[p], path |-> p, content |-> Current(p), version |-> Version(p)] :
        p \in {q \in Paths : last[q] > since}}

(***************************************************************************)
(* Manifest::diff.  Folders and booklet.json come first: what is new or    *)
(* changed, then what is gone, each in path order.  Then the notes - here  *)
(* the conflict copies - that are gone, and those that are new; users      *)
(* leave the copies alone, so none moves (moves are SyncDevice's).         *)
(***************************************************************************)
Gone(old, new)  == {p \in Paths : old[p] # Missing /\ new[p] = Missing}
Fresh(old, new) == {p \in Paths : old[p] = Missing /\ new[p] # Missing}
Edited(old, new) == {p \in Paths : old[p] # Missing /\ new[p] # Missing /\ old[p] # new[p]}

Changes(phase, op, paths) == {[phase |-> phase, op |-> op, path |-> p] : p \in paths}

Diff(old, new) ==
    Changes(1, "put", Edited(old, new) \cup (Fresh(old, new) \ Copies))
      \cup Changes(2, "delete", Gone(old, new) \ Copies)
      \cup Changes(3, "delete", Gone(old, new) \cap Copies)
      \cup Changes(4, "put", Fresh(old, new) \cap Copies)

----------------------------------------------------------------------------
(***************************************************************************)
(* The worker                                                              *)
(***************************************************************************)
At(d, pc) == work[d].pc = pc

\* The change whose turn it is.
Job(d, c) ==
    /\ At(d, "push") /\ c \in work[d].todo
    /\ \A e \in work[d].todo \ {c} :
          c.phase < e.phase \/ (c.phase = e.phase /\ c.path < e.path)

Done(d, todo, vers) ==
    work' = [work EXCEPT ![d] = [Resting EXCEPT !.pc = "push", !.vers = vers, !.todo = todo]]

Confirm(d, p, n) == [work[d].vers EXCEPT ![p] = n]

\* A text that does not get through is on its own from here.
Excuse(choices) == excused' = excused \cup choices /\ UNCHANGED unread

StartCycle(d) ==
    /\ At(d, "idle")
    /\ "busy" \in env.hazards \/ dialog[d].pc # "write"
    /\ work' = [work EXCEPT ![d] = [Resting EXCEPT !.pc = "push", !.vers = versions[d],
                                                   !.todo = Diff(manifest[d], disk[d])]]
    /\ UNCHANGED <<server, disk, stored, dialog, history, counts>>

\* A folder is pushed as it is: refused, it adopts the server's version.
SendFolder(d) == \E c \in work[d].todo :
    LET adopt(n) == Done(d, work[d].todo \ {c}, Confirm(d, Folder, n))
    IN  /\ Job(d, c) /\ c.op = "put" /\ c.path = Folder
        /\ IF work[d].vers[Folder] = Version(Folder)
             THEN Applied(Folder, Blank) /\ adopt(Version(Folder) + 1)
             ELSE UNCHANGED server /\ adopt(Version(Folder))
        /\ UNCHANGED <<disk, stored, dialog, history, counts>>

\* A file is read; one that vanished fails the cycle (FileVanished).
ReadLocal(d) == \E c \in work[d].todo :
    /\ Job(d, c) /\ c.op = "put" /\ c.path # Folder
    /\ disk[d][c.path] # Missing
    /\ work' = [work EXCEPT ![d].pc = "send", ![d].todo = @ \ {c}, ![d].path = c.path,
                            ![d].local = disk[d][c.path]]
    /\ UNCHANGED <<server, disk, stored, dialog, history, counts>>

SendPut(d) ==
    LET p == work[d].path
    IN  /\ At(d, "send")
        /\ IF work[d].vers[p] = Version(p)
             THEN /\ Applied(p, work[d].local)
                  /\ Done(d, work[d].todo, Confirm(d, p, Version(p) + 1))
             ELSE /\ UNCHANGED server
                  /\ work' = [work EXCEPT ![d].pc = "lost", ![d].local = Missing,
                                          ![d].remote = Current(p), ![d].version = Version(p)]
        /\ UNCHANGED <<disk, stored, dialog, history, counts>>

SendDelete(d) == \E c \in work[d].todo :
    LET p == c.path
    IN  /\ Job(d, c) /\ c.op = "delete"
        /\ IF work[d].vers[p] = Version(p)
             THEN /\ Applied(p, Missing)
                  /\ Done(d, work[d].todo \ {c}, Confirm(d, p, Version(p) + 1))
             ELSE UNCHANGED server /\ Done(d, work[d].todo \ {c}, work[d].vers)
        /\ UNCHANGED <<disk, stored, dialog, history, counts>>

\* reconcile reads the file again: without an ancestor it becomes a copy.
ReadBack(d) ==
    LET p == work[d].path
    IN  /\ At(d, "lost")
        /\ disk[d][p] # Missing
        /\ work' = [work EXCEPT ![d].local = disk[d][p],
                                ![d].pc = IF work[d].vers[p] = 0 THEN "copy" ELSE "merge"]
        /\ UNCHANGED <<server, disk, stored, dialog, history, counts>>

\* A tombstone has no content: it reads as an empty file.
Text(f) == IF f = Missing THEN Blank ELSE f

\* Only booklet.json gets here: a copy, which nobody edits, meets another version of
\* itself only while it has none, and is then copied once more.
WriteMerge(d) ==
    LET p      == work[d].path
        merged == MergeBookletJson(work[d].local, Text(work[d].remote))
    IN  /\ At(d, "merge")
        /\ disk' = [disk EXCEPT ![d][p] = merged]
        /\ work' = [work EXCEPT ![d].pc = "resend", ![d].local = merged]
        /\ UNCHANGED <<server, stored, dialog, history, counts>>

\* Re-put against the version lost to; a second conflict is ignored.
Resend(d) ==
    LET p == work[d].path
    IN  /\ At(d, "resend")
        /\ IF work[d].version = Version(p)
             THEN /\ Applied(p, work[d].local) /\ Done(d, work[d].todo, Confirm(d, p, Version(p) + 1))
                  /\ UNCHANGED history
             ELSE /\ UNCHANGED server /\ Done(d, work[d].todo, work[d].vers)
                  /\ Excuse(Held(work[d].local))
        /\ UNCHANGED <<disk, stored, dialog, counts>>

\* q is the first of the names for copies of p that is free on this device.
FirstFree(d, p, q) ==
    \E i \in DOMAIN CopyNames[p] :
        /\ q = CopyNames[p][i]
        /\ disk[d][q] = Missing
        /\ \A j \in 1 .. i - 1 : disk[d][CopyNames[p][j]] # Missing

\* conflict_copy: the local file becomes a note of its own, the server's text
\* (empty for a tombstone) takes the path.
WriteCopy(d) ==
    LET p == work[d].path
    IN  /\ At(d, "copy")
        /\ \E q \in Copies :
              /\ FirstFree(d, p, q)
              /\ disk' = [disk EXCEPT ![d][q] = work[d].local, ![d][p] = Text(work[d].remote)]
              /\ work' = [work EXCEPT ![d].pc = "sendcopy", ![d].copy = q,
                                      ![d].vers = Confirm(d, p, work[d].version)]
        /\ UNCHANGED <<server, stored, dialog, history, counts>>

SendCopy(d) ==
    LET q == work[d].copy
    IN  /\ At(d, "sendcopy")
        /\ IF Version(q) = 0
             THEN /\ Applied(q, work[d].local) /\ Done(d, work[d].todo, Confirm(d, q, 1))
                  /\ UNCHANGED history
             ELSE /\ UNCHANGED server /\ Done(d, work[d].todo, work[d].vers)
                  /\ Excuse(Held(work[d].local))
        /\ UNCHANGED <<disk, stored, dialog, counts>>

EndPush(d) ==
    /\ At(d, "push") /\ work[d].todo = {}
    /\ manifest' = [manifest EXCEPT ![d] = disk[d]]
    /\ work' = [work EXCEPT ![d].pc = "pull"]
    /\ UNCHANGED <<server, disk, versions, cursor, raced, dialog, history, counts>>

\* The rows are read in one statement, the vault's sequence in another, with whatever
\* commits in between.
GetChanges(d) ==
    /\ At(d, "pull")
    /\ work' = [work EXCEPT ![d].pc = "rows", ![d].page = Feed(cursor[d]), ![d].at = seq]
    /\ UNCHANGED <<server, disk, stored, dialog, history, counts>>

GetCursor(d) ==
    /\ At(d, "rows")
    /\ work' = [work EXCEPT ![d].pc = "apply", ![d].cursor = seq]
    /\ UNCHANGED <<server, disk, stored, dialog, history, counts>>

Empty(tree) == \A p \in Paths \ {Folder} : tree[p] = Missing

\* Mutant: a tombstone removes nothing.
Received_KeepsFile(tree, item) ==
    IF item.content = Missing THEN tree
    ELSE [tree EXCEPT ![item.path] = item.content, ![Folder] = Blank]

\* What a change makes of the files: a deleted folder goes when nothing is in
\* it, a file brings its folder.
Received(tree, item) ==
    IF item.path = Folder
      THEN IF item.content = Missing /\ ~Empty(tree) THEN tree
           ELSE [tree EXCEPT ![Folder] = item.content]
      ELSE IF item.content = Missing THEN [tree EXCEPT ![item.path] = Missing]
           ELSE [tree EXCEPT ![item.path] = item.content, ![Folder] = Blank]

ApplyChange(d) == \E item \in work[d].page :
    /\ At(d, "apply")
    /\ \A other \in work[d].page \ {item} : item.seq < other.seq
    /\ disk' = [disk EXCEPT ![d] = Received(@, item)]
    /\ work' = [work EXCEPT ![d].page = @ \ {item},
                            ![d].vers = Confirm(d, item.path, item.version)]
    /\ UNCHANGED <<server, stored, dialog, history, counts>>

EndPull(d) ==
    /\ At(d, "apply") /\ work[d].page = {}
    /\ manifest' = [manifest EXCEPT ![d] = disk[d]]
    /\ versions' = [versions EXCEPT ![d] = work[d].vers]
    /\ cursor' = [cursor EXCEPT ![d] = work[d].cursor]
    /\ raced' = [raced EXCEPT ![d] = @ \cup (work[d].at + 1 .. work[d].cursor)]
    /\ work' = [work EXCEPT ![d] = Resting]
    /\ UNCHANGED <<server, disk, dialog, history, counts>>

\* The file to push vanished: the read fails the cycle.
FileVanished(d) ==
    /\ \/ \E c \in work[d].todo : /\ Job(d, c) /\ c.op = "put" /\ c.path # Folder
                                  /\ disk[d][c.path] = Missing
       \/ At(d, "lost") /\ disk[d][work[d].path] = Missing
    /\ work' = [work EXCEPT ![d] = Resting]
    /\ UNCHANGED <<server, disk, stored, dialog, history, counts>>

\* A call fails: the cycle ends and forgets the versions it learnt; its files,
\* and the manifest of a push that ended, stay.
Abandon(d) ==
    /\ ~At(d, "idle")
    /\ faults < env.faults
    /\ faults' = faults + 1
    /\ work' = [work EXCEPT ![d] = Resting]
    /\ UNCHANGED <<server, disk, stored, dialog, history, made, books, deletes>>

----------------------------------------------------------------------------
(***************************************************************************)
(* The user                                                                *)
(***************************************************************************)
Free(d) == "busy" \in env.hazards \/ At(d, "idle")

CreateBook(d) ==
    /\ Free(d) /\ books < env.books
    /\ disk[d][Folder] = Missing
    /\ disk' = [disk EXCEPT ![d][Folder] = Blank]
    /\ books' = books + 1
    /\ UNCHANGED <<server, stored, work, dialog, history, made, deletes, faults>>

\* The book, with all that is in it, goes to the trash.
DeleteBook(d) ==
    /\ Free(d) /\ deletes < env.deletes
    /\ dialog[d].pc = "closed"
    /\ disk[d][Folder] # Missing
    /\ disk' = [disk EXCEPT ![d] = Nothing]
    /\ excused' = excused \cup UNION {Held(disk[d][p]) : p \in Paths}
    /\ unread' = unread \cup KeysOf(disk[d][Meta])
    /\ deletes' = deletes + 1
    /\ UNCHANGED <<server, stored, work, dialog, made, books, faults>>

\* The dialog opens with what the file says now ...
OpenBinding(d) ==
    /\ Free(d) /\ made < env.choices
    /\ dialog[d].pc = "closed"
    /\ disk[d][Folder] # Missing
    /\ dialog' = [dialog EXCEPT ![d] = [pc |-> "open", existing |-> Missing,
                                        color |-> Shown(disk[d][Meta], "color"),
                                        shelf |-> Shown(disk[d][Meta], "shelf")]]
    /\ UNCHANGED <<server, disk, stored, work, history, counts>>

\* ... the user picks a colour or a shelf, and Binding::write reads the file ...
SaveBinding(d, key) ==
    /\ Free(d) /\ made < env.choices
    /\ dialog[d].pc = "open"
    /\ made' = made + 1
    /\ dialog' = [dialog EXCEPT ![d].pc = "write", ![d].existing = disk[d][Meta],
                                ![d][key] = made + 1]
    /\ Excuse({dialog[d][key]} \ {0})
    /\ UNCHANGED <<server, disk, stored, work, books, deletes, faults>>

\* ... and writes both fields back, over whatever is there by then; without the
\* folder the write fails.
WriteBinding(d) ==
    LET bound == Bound(dialog[d].existing, dialog[d].color, dialog[d].shelf)
    IN  /\ dialog[d].pc = "write"
        /\ dialog' = [dialog EXCEPT ![d] = Closed]
        /\ IF disk[d][Folder] = Missing
             THEN UNCHANGED <<disk, unread>>
             ELSE /\ disk' = [disk EXCEPT ![d][Meta] = bound]
                  /\ unread' = unread \cup (KeysOf(disk[d][Meta]) \ DOMAIN bound)
        /\ excused' = excused \cup IF At(d, "idle") /\ disk[d][Folder] # Missing
                                    THEN {} ELSE Held(bound)
        /\ UNCHANGED <<server, stored, work, counts>>

\* A key of the user's own, written by hand.
AddKey(d) ==
    /\ Free(d) /\ made < env.choices
    /\ dialog[d].pc # "write"
    /\ IsObject(disk[d][Meta])
    /\ made' = made + 1
    /\ disk' = [disk EXCEPT ![d][Meta] = Over([own |-> made'], @)]
    /\ Excuse(({Shown(disk[d][Meta], "own")} \ {0}) \cup IF At(d, "idle") THEN {} ELSE {made'})
    /\ UNCHANGED <<server, stored, work, dialog, books, deletes, faults>>

\* ... or a mistake by hand.
Mangle(d) ==
    /\ "mangle" \in env.hazards
    /\ Free(d) /\ made < env.choices
    /\ dialog[d].pc # "write"
    /\ IsObject(disk[d][Meta])
    /\ made' = made + 1
    /\ disk' = [disk EXCEPT ![d][Meta] = Mangled]
    /\ excused' = excused \cup Held(disk[d][Meta]) \cup {made'}
    /\ unread' = unread \cup KeysOf(disk[d][Meta])
    /\ UNCHANGED <<server, stored, work, dialog, books, deletes, faults>>

----------------------------------------------------------------------------
Cycle(d) ==
    \/ SendFolder(d) \/ ReadLocal(d) \/ SendPut(d) \/ SendDelete(d)
    \/ ReadBack(d) \/ WriteMerge(d) \/ Resend(d) \/ WriteCopy(d) \/ SendCopy(d)
    \/ EndPush(d) \/ GetChanges(d) \/ GetCursor(d) \/ ApplyChange(d) \/ EndPull(d)
    \/ FileVanished(d)

\* The worker's loop: a cycle after the other.
Sync(d) == UNCHANGED env /\ (StartCycle(d) \/ Cycle(d))

\* A slot that was entered finishes.
Finish(d) == UNCHANGED env /\ WriteBinding(d)

User(d) ==
    \/ CreateBook(d) \/ DeleteBook(d)
    \/ OpenBinding(d) \/ SaveBinding(d, "color") \/ SaveBinding(d, "shelf")
    \/ AddKey(d) \/ Mangle(d)

Next ==
    \E d \in Devices :
        \/ Sync(d)
        \/ Finish(d)
        \/ UNCHANGED env /\ (User(d) \/ Abandon(d))

Spec ==
    /\ Init /\ [][Next]_vars
    /\ \A d \in Devices : WF_vars(Sync(d)) /\ WF_vars(Finish(d))

----------------------------------------------------------------------------
(***************************************************************************)
(* Properties                                                              *)
(***************************************************************************)
\* A key the application does not know survives, whichever side wrote it: as long
\* as booklet.json stays a JSON object, no version of it on the server lacks a key
\* of the one before, unless a user deleted or broke the file that had it, or it
\* arrived between the read and the write of a binding.
KeysSurvive ==
    [][IsObject(Current(Meta)) /\ IsObject(Current(Meta)')
          => DOMAIN Current(Meta) \ DOMAIN Current(Meta)' \subseteq unread]_vars

\* In a file of some device, or in a version the server can restore.
Kept(choice) ==
    \/ \E d \in Devices, p \in Paths : choice \in Held(disk[d][p])
    \/ \E p \in Paths : \E i \in DOMAIN hist[p] : choice \in Held(hist[p][i])

\* A colour, a shelf or a key somebody chose is in a file or in the history, unless
\* its user replaced it or it met a known hazard: a second PUT turned away, a copy
\* whose name was taken, a file touched while a cycle ran.
ChoicesKept == \A c \in (1 .. made) \ excused :
                  Kept(c) \/ \E d \in Devices : c \in {dialog[d].color, dialog[d].shelf}

\* The latest change of p came between the two statements of an answer the device took:
\* its cursor is past a change it was not told.
Raced(d, p) == last[p] \in raced[d]

\* A device has the server's files, and every folder that exists there, but what the
\* feed did not tell it.  (A folder deleted elsewhere may stay behind: what was in it
\* when its tombstone came kept it, and nothing removes it when it empties.)
InStep(d) ==
    \A p \in Paths :
        \/ Raced(d, p)
        \/ disk[d][p] = Current(p)
        \/ p = Folder /\ Current(p) = Missing

\* Devices whose users leave the book alone while a cycle runs come to hold the same
\* files and stay there, although every conflict makes a new version, a cycle may
\* fail half way and copies are made of copies - but for the changes that came between
\* the two statements of an answer (SyncFeed's FeedComplete), and for emptied folders.
Converges == "busy" \notin env.hazards => <>[](\A d \in Devices : InStep(d))

=============================================================================
