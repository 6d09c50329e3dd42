----------------------------- MODULE SyncDevice -----------------------------
(***************************************************************************)
(* Devices keeping a vault in step through the server: the reconciliation  *)
(* engine (booklet-sync-client/src/engine.rs) run by the sync worker       *)
(* (src/sync.rs), over the manifest diff of booklet-core/src/sync.rs and   *)
(* the merge of booklet-core/src/merge.rs.                                 *)
(*                                                                         *)
(* A device's worker runs one push-then-pull cycle at a time.  Between any *)
(* two of its file accesses and server calls the user may save, delete or  *)
(* rename a note, and other devices' calls reach the server.  The server   *)
(* is the versioned vault that SyncStoreRefinement shows the store         *)
(* implements: a mutation is one atomic step.  The feed is not: its rows   *)
(* and its cursor come from two statements, as in SyncFeed.                *)
(*                                                                         *)
(* A note's text is the set of edits it contains; saving adds a fresh      *)
(* edit, so a blob (its hash) is that set, and "which text survives" is a  *)
(* question about sets.                                                    *)
(***************************************************************************)
EXTENDS Naturals, Sequences, FiniteSets

CONSTANTS
    Devices,
    NumPaths,    \* paths are 1 .. NumPaths, in the order of the manifest
    Created,     \* the paths users create notes at (the others arise as copies)
    Images,      \* the paths that are images
    CopyNames,   \* bound: the names conflict_copy_name tries for a path, in order
    Missing,     \* no file; in the history, a tombstone
    Environments,\* what may happen around the devices, see below
    MaxEdits     \* bound: saves

Paths == 1 .. NumPaths

\* An environment has hazards - "busy": users touch files while a cycle runs,
\* "overlap": cycles of two devices overlap, "reject": a merge may reject hunks
\* of the local edits - and bounds: saves, deletes and renames ("tidy"), and
\* failed calls and merges, lost answers and crashes ("faults").
Environment(hazards, edits, tidy, faults) ==
    [hazards |-> hazards, edits |-> edits, tidy |-> tidy, faults |-> faults]

ASSUME EnvironmentAssumption ==
    Environments \subseteq [hazards : SUBSET {"busy", "overlap", "reject"},
                            edits : 0 .. MaxEdits, tidy : Nat, faults : Nat]
ASSUME BoundsAssumption  == {NumPaths, MaxEdits} \subseteq Nat
ASSUME NamesAssumption   == /\ Created \subseteq Paths /\ Images \subseteq Paths
                            /\ CopyNames \in [Paths -> Seq(Paths)]
\* The name of a copy is the note's with a suffix.
ASSUME CopiesAssumption  == \A p \in Paths : \A i \in DOMAIN CopyNames[p] : CopyNames[p][i] # p

Texts == SUBSET (1 .. MaxEdits)
Files == Texts \cup {Missing}

ASSUME MissingAssumption == \A text \in Texts : text # Missing

VARIABLES
    hist,        \* server: the versions of every path, in order
    last,        \* server: the sequence of its latest version
    seq,         \* server: the vault's sequence
    disk,        \* per device: the files of the vault
    manifest,    \* per device: the remembered snapshot (in memory)
    kept,        \* per device: .booklet/manifest.json
    versions,    \* per device: sync.json, the version last confirmed per path
    cursor,      \* per device: sync.json, how far the feed was read
    raced,       \* history, per device: the sequences that came between the two statements
                 \* of an answer whose cursor the device adopted
    work,        \* per device: the worker's cycle
    made,        \* the edits made so far
    dropped,     \* history: edits a user deleted on purpose
    exposed,     \* history: edits that met one of the hazards of LostOnlyExposed
    astray,      \* history: paths that met one of the hazards of AstrayOnly
    env,         \* the environment of this behaviour
    tidied,      \* deletes and renames so far
    faults       \* faults so far

server == <<hist, last, seq>>
stored == <<manifest, kept, versions, cursor, raced>>
world  == <<made, dropped, exposed, astray, tidied, faults>>
vars   == <<server, disk, stored, work, world, env>>

Change == [op : {"put", "move", "delete"}, path : Paths, from : Paths]

Item == [path : Paths, text : Files, version : Nat]

Worker == [pc : {"idle", "push", "send", "lost", "merge", "resend", "copy", "sendcopy",
                 "pull", "rows", "apply", "save", "failed"},
           todo : Seq(Change), page : Seq(Item),
           local : Files, remote : Files, version : Nat, copy : Nat,
           vers : [Paths -> Nat], at : Nat, cursor : Nat]

Resting == [pc |-> "idle", todo |-> <<>>, page |-> <<>>, local |-> Missing,
            remote |-> Missing, version |-> 0, copy |-> 0,
            vers |-> [p \in Paths |-> 0], at |-> 0, cursor |-> 0]

TypeOK ==
    /\ hist \in [Paths -> Seq(Files)]
    /\ last \in [Paths -> Nat] /\ seq \in Nat
    /\ disk \in [Devices -> [Paths -> Files]]
    /\ manifest \in [Devices -> [Paths -> Files]]
    /\ kept \in [Devices -> [Paths -> Files]]
    /\ versions \in [Devices -> [Paths -> Nat]]
    /\ cursor \in [Devices -> Nat] /\ raced \in [Devices -> SUBSET Nat]
    /\ work \in [Devices -> Worker]
    /\ made \in 0 .. MaxEdits /\ dropped \in Texts
    /\ exposed \in Texts /\ astray \subseteq Paths
    /\ env \in Environments /\ tidied \in 0 .. env.tidy /\ faults \in 0 .. env.faults

NoFiles == [p \in Paths |-> Missing]

Init ==
    /\ hist = [p \in Paths |-> <<>>]
    /\ last = [p \in Paths |-> 0]
    /\ seq = 0
    /\ disk = [d \in Devices |-> NoFiles]
    /\ manifest = [d \in Devices |-> NoFiles]
    /\ kept = [d \in Devices |-> NoFiles]
    /\ versions = [d \in Devices |-> [p \in Paths |-> 0]]
    /\ cursor = [d \in Devices |-> 0] /\ raced = [d \in Devices |-> {}]
    /\ work = [d \in Devices |-> Resting]
    /\ made = 0 /\ dropped = {} /\ tidied = 0 /\ faults = 0
    /\ exposed = {} /\ astray = {}
    /\ env \in Environments

----------------------------------------------------------------------------
(***************************************************************************)
(* The server's calls                                                      *)
(***************************************************************************)
Version(p) == Len(hist[p])

Current(p) == IF hist[p] = <<>> THEN Missing ELSE hist[p][Version(p)]

\* A mutation that is applied: one more version of a path; a move also buries
\* the path it leaves, whatever is there, under the same sequence.
Applied(p, text) ==
    /\ hist' = [hist EXCEPT ![p] = Append(@, text)]
    /\ last' = [last EXCEPT ![p] = seq + 1]
    /\ seq' = seq + 1

Moved(p, text, from) ==
    /\ hist' = [hist EXCEPT ![p] = Append(@, text), ![from] = Append(@, Missing)]
    /\ last' = [last EXCEPT ![p] = seq + 1, ![from] = seq + 1]
    /\ seq' = seq + 1

\* The members of S in the order of the relation R, a strict total order.
Ordered(S, R) ==
    [i \in 1 .. Cardinality(S) |->
        CHOOSE x \in S : Cardinality({y \in S : <<y, x>> \in R}) = i - 1]

InOrder(S, R, op(_)) == [i \in DOMAIN Ordered(S, R) |-> op(Ordered(S, R)[i])]

ByPath == {m \in Paths \X Paths : m[1] < m[2]}

\* The two rows of a move share a sequence and may come in either order; they
\* write different files, so by path here.
BySequence == {m \in Paths \X Paths : \/ last[m[1]] < last[m[2]]
                                      \/ last[m[1]] = last[m[2]] /\ m \in ByPath}

\* GET /changes, its first statement: the current row of every path past the cursor, by
\* sequence.
Feed(since) ==
    LET item(p) == [path |-> p, text |-> Current(p), version |-> Version(p)]
    IN  InOrder({p \in Paths : last[p] > since}, BySequence, item)

(***************************************************************************)
(* Manifest::diff: what turns the old snapshot into the new one, in the    *)
(* order the engine pushes it.  A deleted and a created note of the same   *)
(* text are one move, pairing equal texts in path order.                   *)
(***************************************************************************)
Gone(old, new) == {p \in Paths : old[p] # Missing /\ new[p] = Missing}
Fresh(old, new) == {p \in Paths : old[p] = Missing /\ new[p] # Missing}
Edited(old, new) == {p \in Paths : old[p] # Missing /\ new[p] # Missing /\ old[p] # new[p]}

\* How many notes of S with p's text come before p.
Rank(p, S, at) == Cardinality({q \in S \ Images : q < p /\ at[q] = at[p]})

Mates(old, new) ==
    {m \in (Gone(old, new) \ Images) \X (Fresh(old, new) \ Images) :
        /\ old[m[1]] = new[m[2]]
        /\ Rank(m[1], Gone(old, new), old) = Rank(m[2], Fresh(old, new), new)}

Diff(old, new) ==
    LET mates   == Mates(old, new)
        put(p)  == [op |-> "put", path |-> p, from |-> p]
        gone(p) == IF \E m \in mates : m[1] = p
                     THEN [op |-> "move", path |-> (CHOOSE m \in mates : m[1] = p)[2], from |-> p]
                     ELSE [op |-> "delete", path |-> p, from |-> p]
        fresh   == Fresh(old, new) \ {m[2] : m \in mates}
    IN  InOrder(Edited(old, new) \cup (fresh \cap Images), ByPath, put)
          \o InOrder(Gone(old, new) \cap Images, ByPath, gone)
          \o InOrder(Gone(old, new) \ Images, ByPath, gone)
          \o InOrder(fresh \ Images, ByPath, put)

----------------------------------------------------------------------------
(***************************************************************************)
(* The worker                                                              *)
(***************************************************************************)
At(d, pc) == work[d].pc = pc

\* The change being pushed, and the end of its handling.
Job(d) == Head(work[d].todo)

Done(d, vers) ==
    work' = [work EXCEPT ![d] = [Resting EXCEPT !.pc = "push", !.vers = vers,
                                                !.todo = Tail(work[d].todo)]]

Confirm(d, p, n) == [work[d].vers EXCEPT ![p] = n]

\* A cycle starts: Manifest::scan and the changes since the manifest.
StartCycle(d) ==
    /\ At(d, "idle")
    /\ "overlap" \in env.hazards \/ \A e \in Devices : At(e, "idle")
    /\ work' = [work EXCEPT ![d] = [Resting EXCEPT !.pc = "push", !.vers = versions[d],
                                                   !.todo = Diff(manifest[d], disk[d])]]
    /\ UNCHANGED <<server, disk, stored, world>>

\* push_entity, push_move: read the file (a vanished file fails the cycle).
ReadLocal(d) ==
    /\ At(d, "push") /\ work[d].todo # <<>>
    /\ Job(d).op # "delete"
    /\ disk[d][Job(d).path] # Missing
    /\ work' = [work EXCEPT ![d].pc = "send", ![d].local = disk[d][Job(d).path]]
    /\ UNCHANGED <<server, disk, stored, world>>

\* What a PUT of the change does when the server applies it.
PutApplied(d) ==
    IF Job(d).op = "move" THEN Moved(Job(d).path, work[d].local, Job(d).from)
                          ELSE Applied(Job(d).path, work[d].local)

\* put_entity against the version last confirmed: applied, or 409.
SendPut(d) ==
    LET c == Job(d)
    IN  /\ At(d, "send")
        /\ IF work[d].vers[c.path] = Version(c.path)
             THEN /\ PutApplied(d)
                  /\ Done(d, IF c.op = "move"
                               THEN [Confirm(d, c.path, Version(c.path) + 1) EXCEPT ![c.from] = 0]
                               ELSE Confirm(d, c.path, Version(c.path) + 1))
                  /\ UNCHANGED astray
             ELSE /\ astray' = IF c.op = "move" THEN astray \cup {c.from} ELSE astray
                  /\ work' = [work EXCEPT ![d].pc = "lost", ![d].local = Missing,
                                          ![d].remote = Current(c.path),
                                          ![d].version = Version(c.path)]
                  /\ UNCHANGED server
        /\ UNCHANGED <<disk, stored, made, dropped, exposed, tidied, faults>>

\* delete_entity; a conflict is left to the pull.
SendDelete(d) ==
    LET p == Job(d).path
    IN  /\ At(d, "push") /\ work[d].todo # <<>>
        /\ Job(d).op = "delete"
        /\ IF work[d].vers[p] = Version(p)
             THEN Applied(p, Missing) /\ Done(d, Confirm(d, p, Version(p) + 1))
             ELSE UNCHANGED server /\ Done(d, work[d].vers)
        /\ UNCHANGED <<disk, stored, world>>

\* reconcile: read the file again; an image is re-put as it is, a path never
\* synced becomes a conflict copy, anything else is merged.
ReadBack(d) ==
    LET p == Job(d).path
    IN  /\ At(d, "lost")
        /\ disk[d][p] # Missing
        /\ work' = [work EXCEPT
              ![d].local = disk[d][p],
              ![d].pc = IF Job(d).op = "put" /\ p \in Images THEN "resend"
                        ELSE IF work[d].vers[p] = 0 THEN "copy" ELSE "merge"]
        /\ UNCHANGED <<server, disk, stored, world>>

Text(f) == IF f = Missing THEN {} ELSE f

\* merge_markdown: the edits that turned the ancestor into the local text,
\* replayed on the remote text.  A hunk is rejected when the remote text no
\* longer has its surroundings.
Merges(ancestor, local, remote) ==
    LET base   == remote \ (ancestor \ local)
        landed == IF "reject" \in env.hazards /\ remote # ancestor
                    THEN SUBSET (local \ ancestor) ELSE {local \ ancestor}
    IN  {base \cup edits : edits \in landed}

\* fetch_ancestor, merge, write the file.
WriteMerge(d) ==
    LET p == Job(d).path
        ancestor == Text(hist[p][work[d].vers[p]])
    IN  /\ At(d, "merge")
        /\ \E text \in Merges(ancestor, Text(work[d].local), Text(work[d].remote)) :
              /\ disk' = [disk EXCEPT ![d][p] = text]
              /\ work' = [work EXCEPT ![d].pc = "resend", ![d].local = text]
              /\ exposed' = exposed \cup (Text(work[d].local) \ text)
        /\ UNCHANGED <<server, stored, made, dropped, astray, tidied, faults>>

\* Re-put against the version lost to; a second conflict is ignored.
Resend(d) ==
    LET p == Job(d).path
    IN  /\ At(d, "resend")
        /\ IF work[d].version = Version(p)
             THEN /\ Applied(p, work[d].local) /\ Done(d, Confirm(d, p, Version(p) + 1))
                  /\ UNCHANGED exposed
             ELSE /\ UNCHANGED server /\ Done(d, work[d].vers)
                  /\ exposed' = exposed \cup work[d].local
        /\ UNCHANGED <<disk, stored, made, dropped, astray, tidied, faults>>

\* q is the first of the names for copies of p that is free on this device.
FirstFree(d, p, q) ==
    \E i \in DOMAIN CopyNames[p] :
        /\ q = CopyNames[p][i]
        /\ disk[d][q] = Missing
        /\ \A j \in 1 .. i - 1 : disk[d][CopyNames[p][j]] # Missing

\* Mutant: the path is overwritten before its text is copied away.
WriteCopy_Overwrites(d) ==
    LET p == Job(d).path
    IN  /\ At(d, "copy")
        /\ \E q \in Paths :
              /\ FirstFree(d, p, q)
              /\ disk' = [disk EXCEPT ![d][q] = Text(work[d].remote), ![d][p] = Text(work[d].remote)]
              /\ work' = [work EXCEPT ![d].pc = "sendcopy", ![d].copy = q,
                                      ![d].vers = Confirm(d, p, work[d].version)]
        /\ UNCHANGED <<server, stored, world>>

\* conflict_copy: the local text moves to the first name free on this device,
\* the server's text (empty for a tombstone) takes the path.
WriteCopy(d) ==
    LET p == Job(d).path
    IN  /\ At(d, "copy")
        /\ \E q \in Paths :
              /\ FirstFree(d, p, q)
              /\ disk' = [disk EXCEPT ![d][q] = work[d].local, ![d][p] = Text(work[d].remote)]
              /\ work' = [work EXCEPT ![d].pc = "sendcopy", ![d].copy = q,
                                      ![d].vers = Confirm(d, p, work[d].version)]
        /\ UNCHANGED <<server, stored, world>>

\* The copy is put as a new path; a conflict (the name was taken on the server,
\* or was once, and is a tombstone) is ignored.
SendCopy(d) ==
    LET q == work[d].copy
    IN  /\ At(d, "sendcopy")
        /\ IF Version(q) = 0
             THEN /\ Applied(q, work[d].local) /\ Done(d, Confirm(d, q, 1))
                  /\ UNCHANGED <<exposed, astray>>
             ELSE /\ UNCHANGED server /\ Done(d, work[d].vers)
                  /\ exposed' = exposed \cup work[d].local
                  /\ astray' = IF last[q] > cursor[d] THEN astray ELSE astray \cup {q}
        /\ UNCHANGED <<disk, stored, made, dropped, tidied, faults>>

\* push ends with a scan that becomes the manifest.
EndPush(d) ==
    /\ At(d, "push") /\ work[d].todo = <<>>
    /\ manifest' = [manifest EXCEPT ![d] = disk[d]]
    /\ work' = [work EXCEPT ![d].pc = "pull"]
    /\ UNCHANGED <<server, disk, kept, versions, cursor, raced, world>>

\* pull: read the feed - the rows in one statement, the vault's sequence in another, with
\* whatever commits in between -, then fetch and write (or remove) file after file.
GetChanges(d) ==
    /\ At(d, "pull")
    /\ work' = [work EXCEPT ![d].pc = "rows", ![d].page = Feed(cursor[d]), ![d].at = seq]
    /\ UNCHANGED <<server, disk, stored, world>>

GetCursor(d) ==
    /\ At(d, "rows")
    /\ work' = [work EXCEPT ![d].pc = "apply", ![d].cursor = seq]
    /\ UNCHANGED <<server, disk, stored, world>>

\* Mutant: a tombstone removes nothing.
ApplyChange_KeepsFile(d) ==
    LET item == Head(work[d].page)
    IN  /\ At(d, "apply") /\ work[d].page # <<>>
        /\ disk' = [disk EXCEPT ![d][item.path] = IF item.text = Missing THEN @ ELSE item.text]
        /\ work' = [work EXCEPT ![d].page = Tail(@), ![d].vers = Confirm(d, item.path, item.version)]
        /\ UNCHANGED <<server, stored, world>>

\* Mutant: a version is confirmed only for a file that is written.
ApplyChange_NoTombstoneVersion(d) ==
    LET item == Head(work[d].page)
    IN  /\ At(d, "apply") /\ work[d].page # <<>>
        /\ disk' = [disk EXCEPT ![d][item.path] = item.text]
        /\ work' = [work EXCEPT ![d].page = Tail(@),
                                ![d].vers = IF item.text = Missing THEN @
                                            ELSE Confirm(d, item.path, item.version)]
        /\ UNCHANGED <<server, stored, world>>

ApplyChange(d) ==
    LET item == Head(work[d].page)
    IN  /\ At(d, "apply") /\ work[d].page # <<>>
        /\ disk' = [disk EXCEPT ![d][item.path] = item.text]
        /\ work' = [work EXCEPT ![d].page = Tail(@), ![d].vers = Confirm(d, item.path, item.version)]
        /\ UNCHANGED <<server, stored, world>>

\* pull ends with a scan; the worker adopts versions and cursor and saves
\* sync.json, then manifest.json.
EndPull(d) ==
    /\ At(d, "apply") /\ work[d].page = <<>>
    /\ manifest' = [manifest EXCEPT ![d] = disk[d]]
    /\ versions' = [versions EXCEPT ![d] = work[d].vers]
    /\ cursor' = [cursor EXCEPT ![d] = work[d].cursor]
    /\ raced' = [raced EXCEPT ![d] = @ \cup (work[d].at + 1 .. work[d].cursor)]
    /\ work' = [work EXCEPT ![d] = [Resting EXCEPT !.pc = "save"]]
    /\ UNCHANGED <<server, disk, kept, world>>

SaveManifest(d) ==
    /\ At(d, "save")
    /\ kept' = [kept EXCEPT ![d] = manifest[d]]
    /\ work' = [work EXCEPT ![d] = Resting]
    /\ UNCHANGED <<server, disk, manifest, versions, cursor, raced, world>>

(***************************************************************************)
(* Faults                                                                  *)
(***************************************************************************)
Fault ==
    /\ faults < env.faults
    /\ faults' = faults + 1
    /\ UNCHANGED <<made, dropped, exposed, tidied>>

\* A call or file access fails: the cycle ends, its versions are forgotten, the
\* manifest stays as it is (a push that ended has replaced it already).
Abandon(d) ==
    /\ work[d].pc \notin {"idle", "save", "failed"}
    /\ Fault
    /\ work' = [work EXCEPT ![d] = Resting]
    /\ UNCHANGED <<server, disk, stored, astray>>

\* The file to push vanished since the scan: the read fails the cycle, no
\* fault needed.
FileVanished(d) ==
    /\ \/ At(d, "push") /\ work[d].todo # <<>> /\ Job(d).op # "delete"
       \/ At(d, "lost")
    /\ disk[d][Job(d).path] = Missing
    /\ work' = [work EXCEPT ![d] = Resting]
    /\ UNCHANGED <<server, disk, stored, world>>

\* The merge library gives up on the note, with an error or a panic; the error
\* travels up to the worker and ends the cycle.
MergeFails(d) ==
    /\ At(d, "merge")
    /\ Fault
    /\ work' = [work EXCEPT ![d] = [Resting EXCEPT !.pc = "failed"]]
    /\ UNCHANGED <<server, disk, stored, astray>>

Report(d) ==
    /\ At(d, "failed")
    /\ work' = [work EXCEPT ![d] = Resting]
    /\ UNCHANGED <<server, disk, stored, world>>

\* A PUT is applied and its answer lost.
LoseAnswer(d) ==
    /\ At(d, "send")
    /\ work[d].vers[Job(d).path] = Version(Job(d).path)
    /\ Fault
    /\ PutApplied(d)
    /\ work' = [work EXCEPT ![d] = Resting]
    /\ UNCHANGED <<disk, stored, astray>>

\* The application dies; the manifest is what was saved last.
Crash(d) ==
    /\ ~At(d, "idle")
    /\ Fault
    /\ work' = [work EXCEPT ![d] = Resting]
    /\ manifest' = [manifest EXCEPT ![d] = kept[d]]
    /\ astray' = IF At(d, "save") THEN astray \cup {p \in Paths : kept[d][p] # manifest[d][p]}
                 ELSE astray
    /\ UNCHANGED <<server, disk, kept, versions, cursor, raced>>

(***************************************************************************)
(* The user                                                                *)
(***************************************************************************)
Free(d) == "busy" \in env.hazards \/ At(d, "idle")

\* A file touched while a cycle of the device runs is remembered as such.
Touch(d, paths) == astray' = IF At(d, "idle") THEN astray ELSE astray \cup paths

Save(d, p) ==
    /\ Free(d)
    /\ made < env.edits
    /\ disk[d][p] # Missing \/ p \in Created
    /\ disk' = [disk EXCEPT ![d][p] = Text(@) \cup {made + 1}]
    /\ made' = made + 1
    /\ exposed' = IF At(d, "idle") THEN exposed ELSE exposed \cup {made + 1}
    /\ Touch(d, {p})
    /\ UNCHANGED <<server, stored, work, dropped, tidied, faults>>

Delete(d, p) ==
    /\ Free(d)
    /\ tidied < env.tidy
    /\ disk[d][p] # Missing
    /\ disk' = [disk EXCEPT ![d][p] = Missing]
    /\ dropped' = dropped \cup disk[d][p]
    /\ tidied' = tidied + 1
    /\ Touch(d, {p})
    /\ UNCHANGED <<server, stored, work, made, exposed, faults>>

Rename(d, p, q) ==
    /\ Free(d)
    /\ tidied < env.tidy
    /\ disk[d][p] # Missing /\ disk[d][q] = Missing
    /\ q \in Created /\ (p \in Images <=> q \in Images)
    /\ disk' = [disk EXCEPT ![d][p] = Missing, ![d][q] = disk[d][p]]
    /\ tidied' = tidied + 1
    /\ exposed' = IF At(d, "idle") THEN exposed ELSE exposed \cup disk[d][p]
    /\ Touch(d, {p, q})
    /\ UNCHANGED <<server, stored, work, made, dropped, faults>>

----------------------------------------------------------------------------
Cycle(d) ==
    \/ ReadLocal(d) \/ SendPut(d) \/ SendDelete(d)
    \/ ReadBack(d) \/ WriteMerge(d) \/ Resend(d) \/ WriteCopy(d) \/ SendCopy(d)
    \/ EndPush(d) \/ GetChanges(d) \/ GetCursor(d) \/ ApplyChange(d) \/ EndPull(d)
    \/ SaveManifest(d) \/ FileVanished(d) \/ Report(d)

User(d) ==
    \E p \in Paths :
        \/ Save(d, p)
        \/ Delete(d, p)
        \/ \E q \in Paths : Rename(d, p, q)

Next ==
    /\ UNCHANGED env
    /\ \E d \in Devices :
          \/ StartCycle(d)
          \/ Cycle(d)
          \/ Abandon(d) \/ LoseAnswer(d) \/ MergeFails(d) \/ Crash(d)
          \/ User(d)

Spec == Init /\ [][Next]_vars

----------------------------------------------------------------------------
(***************************************************************************)
(* Properties                                                              *)
(***************************************************************************)
Settled(d) == At(d, "idle") /\ manifest[d] = disk[d] /\ cursor[d] = seq

Agree(d, p) == disk[d][p] = Current(p)

\* The latest change of p came between the two statements of an answer the device took:
\* its cursor is past a change it was not told.
Raced(d, p) == last[p] \in raced[d]

\* A device that has settled - its worker rests, nothing changed on disk since
\* its manifest, its cursor is the vault's sequence - has the server's files, except
\* where the feed raced, and at the paths astray: left behind by a move that lost
\* its conflict, given to a conflict copy although the server still has a tombstone
\* there, touched while a cycle ran, or changed by a cycle that died between its two
\* saves.
AstrayOnly ==
    \A d \in Devices : Settled(d) =>
        \A p \in Paths \ astray : Raced(d, p) \/ Agree(d, p)

\* The cursor never runs ahead of the versions, but where the feed raced: whatever
\* else it will not deliver again, the device has confirmed - although conflicts are
\* swallowed, moves forget a version, and failed cycles forget all of theirs.  (A
\* version that stays behind with nothing left to fetch turns every later edit of
\* that note into a conflict.)  And it never knows a version that is not there.
CursorCovers ==
    \A d \in Devices : At(d, "idle") =>
        \A p \in Paths : IF last[p] <= cursor[d] /\ ~Raced(d, p)
                            THEN versions[d][p] = Version(p)
                            ELSE versions[d][p] <= Version(p)

\* In a file of some device, or in a version the server's history can restore.
Kept(e) ==
    \/ \E d \in Devices, p \in Paths : e \in Text(disk[d][p])
    \/ \E p \in Paths : \E i \in DOMAIN hist[p] : e \in Text(hist[p][i])

\* Whatever conflicts, merges, copies, faults and crashes happen, an edit that
\* its user did not delete is kept - unless it was exposed: part of a text whose
\* second PUT was turned away, rejected by a merge, or saved or renamed during a
\* cycle.
LostOnlyExposed == \A e \in (1 .. made) \ (dropped \cup exposed) : Kept(e)

=============================================================================
