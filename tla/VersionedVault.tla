--------------------------- MODULE VersionedVault ---------------------------
(***************************************************************************)
(* What the sync server promises its clients: a vault is a set of cells,   *)
(* one per path, each holding a version; a mutation is an atomic           *)
(* compare-and-swap on one cell.  It is taken when its base is the cell's  *)
(* version, or turned away with a conflict when it is not; an error leaves *)
(* no trace unless the answer of a taken mutation is lost.  A move also    *)
(* buries the path it leaves, in the same step and under the same sequence *)
(* number.  (design/sync-server.md, "Versioning and conflict mechanics")   *)
(***************************************************************************)
EXTENDS Naturals

CONSTANTS Vaults, Paths, Blobs, Callers, NoBlob, NoPath

VARIABLES
    gone,        \* vaults removed for good
    seq,         \* the number of mutations taken, per vault
    cell,        \* the current version of every path
    call         \* the mutations in progress

vars == <<gone, seq, cell, call>>

Empty == [version |-> 0, seq |-> 0, blob |-> NoBlob,
          deleted |-> TRUE, kind |-> "note", from |-> NoPath]

\* What a client may ask for: its base is a version of the path it has seen.
Mutations(v, p) ==
    [op : {"put", "delete"}, vault : {v}, path : {p}, base : 0 .. cell[v][p].version,
     blob : Blobs \cup {NoBlob}, from : (Paths \ {p}) \cup {NoPath}]

NoCall == [st |-> "idle"]

Call(m, st) == [st |-> st, op |-> m.op, vault |-> m.vault, path |-> m.path,
                base |-> m.base, blob |-> m.blob, from |-> m.from]

Init ==
    /\ gone = {}
    /\ seq = [v \in Vaults |-> 0]
    /\ cell = [v \in Vaults |-> [p \in Paths |-> Empty]]
    /\ call = [c \in Callers |-> NoCall]

\* That `call` changes follows; said first, it spares TLC the search of the mutations.
Open(c) ==
    /\ call[c].st = "idle"
    /\ call' # call
    /\ UNCHANGED <<gone, seq, cell>>
    /\ \E v \in Vaults, p \in Paths : \E m \in Mutations(v, p) :
          call' = [call EXCEPT ![c] = Call(m, "open")]

\* The cell after a mutation, and the cell a move leaves behind.
Taken(m, old, n) ==
    [version |-> old.version + 1, seq |-> n, blob |-> m.blob,
     deleted |-> m.op = "delete",
     kind    |-> IF m.op = "delete" THEN old.kind
                 ELSE IF m.blob = NoBlob THEN "folder" ELSE "note",
     from    |-> m.from]

Buried(old, n) ==
    [version |-> old.version + 1, seq |-> n, blob |-> NoBlob,
     deleted |-> TRUE, kind |-> old.kind, from |-> NoPath]

Take(c) ==
    LET m == call[c]
        n == seq[m.vault] + 1
        old == cell[m.vault]
    IN  /\ m.st = "open"
        /\ m.vault \notin gone
        /\ m.base = old[m.path].version
        /\ seq' = [seq EXCEPT ![m.vault] = n]
        /\ cell' = [cell EXCEPT ![m.vault] =
                      [p \in Paths |->
                         IF p = m.path THEN Taken(m, old[p], n)
                         ELSE IF p = m.from THEN Buried(old[p], n)
                         ELSE old[p]]]
        /\ call' = [call EXCEPT ![c] = Call(m, "applied")]
        /\ UNCHANGED gone

\* First write wins: a stale base is turned away and changes nothing.
TurnAway(c) ==
    LET m == call[c]
    IN  /\ m.st = "open"
        /\ m.base # cell[m.vault][m.path].version
        /\ call' = [call EXCEPT ![c] = Call(m, "conflict")]
        /\ UNCHANGED <<gone, seq, cell>>

\* An error before the mutation was taken, or its answer lost afterwards.
Refuse(c) ==
    /\ call[c].st \in {"open", "applied"}
    /\ call' = [call EXCEPT ![c] = Call(call[c], "refused")]
    /\ UNCHANGED <<gone, seq, cell>>

Close(c) ==
    /\ call[c].st \in {"applied", "conflict", "refused"}
    /\ call' = [call EXCEPT ![c] = NoCall]
    /\ UNCHANGED <<gone, seq, cell>>

Remove(v) ==
    /\ gone' = gone \cup {v}
    /\ seq' = [seq EXCEPT ![v] = 0]
    /\ cell' = [cell EXCEPT ![v] = [p \in Paths |-> Empty]]
    /\ UNCHANGED call

Next ==
    \/ \E c \in Callers :
          \/ Open(c)
          \/ Take(c)
          \/ TurnAway(c)
          \/ Refuse(c)
          \/ Close(c)
    \/ \E v \in Vaults : Remove(v)

Spec == Init /\ [][Next]_vars
=============================================================================
