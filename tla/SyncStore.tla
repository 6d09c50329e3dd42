----------------------------- MODULE SyncStore -----------------------------
(***************************************************************************)
(* The sync server's mutation pipeline (booklet-sync-server/src/store.rs,  *)
(* driven by http.rs): PUT and DELETE of an entity, the blob upload that   *)
(* precedes a PUT, and the owner's and operator's vault lifecycle.         *)
(*                                                                         *)
(* Each request in flight is a process.  A mutation is NOT one             *)
(* transaction: the handler resolves the content, reads the current row,   *)
(* checks the quota, probes the blob table and reads the row a move        *)
(* leaves behind, each in a statement of its own, and only then opens the  *)
(* transaction that writes.  Other requests commit in between.  The        *)
(* transaction itself is one action: it takes the vault's row lock         *)
(* (next_seq) before it writes an entity, and the primary key of           *)
(* entity_versions aborts it when a version was taken meanwhile.           *)
(*                                                                         *)
(* A failure of any statement, a cancelled request and a server crash are  *)
(* Fail: the request dies, what it did outside the transaction stays.      *)
(***************************************************************************)
EXTENDS Naturals, FiniteSets, FiniteSetsExt

CONSTANTS
    Vaults,      \* the vaults of one owner
    Paths,       \* the entity paths of a vault
    Blobs,       \* content hashes
    Requests,    \* the requests the server handles at a time
    NoBlob,      \* SQL NULL in a blob column (folders, tombstones)
    NoPath,      \* SQL NULL in moved_from
    Size,        \* the length of a content, in bytes
    Limit,       \* the owner's effective quota
    Unlimited,   \* ... when there is neither an override nor a plan
    Disposable,  \* bound: the vaults somebody deletes, restores or purges
    MaxSeq       \* bound: mutations started per vault

ASSUME NullAssumption  == NoBlob \notin Blobs /\ NoPath \notin Paths
ASSUME SomeAssumption  == Vaults # {} /\ Paths # {}
ASSUME QuotaAssumption == Size \in [Blobs -> Nat] /\ Limit \in Nat \cup {Unlimited}
ASSUME BoundAssumption == MaxSeq \in Nat /\ Disposable \subseteq Vaults

VARIABLES
    life,        \* vaults: live, soft-deleted (deleted_at set) or purged
    seq,         \* vaults.seq
    entities,    \* the current row of every path
    versions,    \* entity_versions: the history rows of every vault
    blobs,       \* the hashes in the blobs table
    staged,      \* the hashes parked under .staging
    uploaded,    \* history: hashes some client was told are uploaded
    req          \* the requests in flight

rows == <<life, seq, entities, versions>>
vars == <<life, seq, entities, versions, blobs, staged, uploaded, req>>

(***************************************************************************)
(* Rows and requests                                                       *)
(***************************************************************************)
Kinds == {"note", "folder"}

Row == [version : Nat, seq : Nat, blob : Blobs \cup {NoBlob},
        deleted : BOOLEAN, kind : Kinds, from : Paths \cup {NoPath}]

\* What `current` answers for a path that has no row.
Absent == [version |-> 0, seq |-> 0, blob |-> NoBlob,
           deleted |-> TRUE, kind |-> "note", from |-> NoPath]

HistoryRow == [path : Paths, version : Nat, seq : Nat, blob : Blobs \cup {NoBlob},
               deleted : BOOLEAN, from : Paths \cup {NoPath}]

\* Where a handler stands: before the statement of that name, or answering.
Steps   == {"resolve", "probe", "current", "quota", "blob", "old", "commit", "unstage"}
Answers == {"applied", "conflict", "missing", "overquota", "clash", "failed"}

Request == [pc : {"idle"} \cup Steps \cup Answers, op : {"put", "delete"},
            vault : Vaults, path : Paths, base : Nat,
            blob : Blobs \cup {NoBlob}, from : Paths \cup {NoPath},
            cur : Row, old : Row, fresh : BOOLEAN, sent : BOOLEAN]

\* The parameters a request carries; `sent` remembers whether the client had
\* been told its upload succeeded.
Opened(op, v, p, base, b, from) ==
    [pc |-> IF b = NoBlob THEN "current" ELSE "resolve", op |-> op,
     vault |-> v, path |-> p, base |-> base, blob |-> b, from |-> from,
     cur |-> Absent, old |-> Absent, fresh |-> FALSE, sent |-> b \in uploaded]

Idle == [pc |-> "idle", op |-> "put", vault |-> CHOOSE v \in Vaults : TRUE,
         path |-> CHOOSE p \in Paths : TRUE, base |-> 0, blob |-> NoBlob,
         from |-> NoPath, cur |-> Absent, old |-> Absent, fresh |-> FALSE, sent |-> FALSE]

TypeOK ==
    /\ life \in [Vaults -> {"live", "deleted", "purged"}]
    /\ seq \in [Vaults -> Nat]
    /\ entities \in [Vaults -> [Paths -> Row]]
    /\ versions \in [Vaults -> SUBSET HistoryRow]
    /\ blobs \subseteq Blobs
    /\ staged \subseteq Blobs
    /\ uploaded \subseteq Blobs
    /\ req \in [Requests -> Request]

Init ==
    /\ life = [v \in Vaults |-> "live"]
    /\ seq = [v \in Vaults |-> 0]
    /\ entities = [v \in Vaults |-> [p \in Paths |-> Absent]]
    /\ versions = [v \in Vaults |-> {}]
    /\ blobs = {}
    /\ staged = {}
    /\ uploaded = {}
    /\ req = [r \in Requests |-> Idle]

----------------------------------------------------------------------------
At(r, step) == req[r].pc = step

Goto(r, step) == req' = [req EXCEPT ![r].pc = step]

InFlight(v) == {r \in Requests : req[r].pc # "idle" /\ req[r].vault = v}

\* Bound: no vault is ever asked for more than MaxSeq mutations.
Room(v) == seq[v] + Cardinality(InFlight(v)) < MaxSeq

(***************************************************************************)
(* PUT /blobs/:hash parks the content in .staging.                         *)
(***************************************************************************)
StageBlob(b) ==
    /\ staged' = staged \cup {b}
    /\ uploaded' = uploaded \cup {b}
    /\ UNCHANGED <<rows, blobs, req>>

(***************************************************************************)
(* A PUT arrives and passes `authorize`: content (a note), no content (a   *)
(* folder), possibly as a move.  A client's base is a version of the path  *)
(* it has seen, or 0.                                                      *)
(***************************************************************************)
PutEntity(r, v, p, base, b, from) ==
    /\ At(r, "idle")
    /\ life[v] = "live"
    /\ Room(v)
    /\ from # p
    /\ req' = [req EXCEPT ![r] = Opened("put", v, p, base, b, from)]
    /\ UNCHANGED <<rows, blobs, staged, uploaded>>

DeleteEntity(r, v, p, base) ==
    /\ At(r, "idle")
    /\ life[v] = "live"
    /\ Room(v)
    /\ req' = [req EXCEPT ![r] = Opened("delete", v, p, base, NoBlob, NoPath)]
    /\ UNCHANGED <<rows, blobs, staged, uploaded>>

(***************************************************************************)
(* resolve_content: the staged copy, else the stored blob, else a 400.     *)
(***************************************************************************)
ReadStaged(r) ==
    /\ At(r, "resolve")
    /\ Goto(r, IF req[r].blob \in staged THEN "current" ELSE "probe")
    /\ UNCHANGED <<rows, blobs, staged, uploaded>>

ReadStored(r) ==
    /\ At(r, "probe")
    /\ Goto(r, IF req[r].blob \in blobs THEN "current" ELSE "missing")
    /\ UNCHANGED <<rows, blobs, staged, uploaded>>

(***************************************************************************)
(* The base check, on a row read outside the transaction.                  *)
(***************************************************************************)
NextStep(q) ==
    IF q.blob # NoBlob THEN "quota" ELSE IF q.from # NoPath THEN "old" ELSE "commit"

ReadCurrent(r) ==
    LET q   == req[r]
        row == entities[q.vault][q.path]
    IN  /\ At(r, "current")
        /\ IF q.base # row.version
             THEN Goto(r, "conflict")
             ELSE req' = [req EXCEPT ![r].cur = row, ![r].pc = NextStep(q)]
        /\ UNCHANGED <<rows, blobs, staged, uploaded>>

(***************************************************************************)
(* enforce_quota.  A vault soft-deleted meanwhile has no owner to charge.  *)
(* Usage counts the current blobs of all vaults, deleted ones included.    *)
(***************************************************************************)
Filled == {c \in Vaults \X Paths : entities[c[1]][c[2]].blob # NoBlob}

Usage == MapThenSumSet(LAMBDA c : Size[entities[c[1]][c[2]].blob], Filled)

SizeAt(v, p) == LET b == entities[v][p].blob IN IF b = NoBlob THEN 0 ELSE Size[b]

WithinQuota(q) ==
    \/ life[q.vault] # "live"
    \/ Limit = Unlimited
    \/ Usage + Size[q.blob] <= Limit + SizeAt(q.vault, q.path)

EnforceQuota(r) ==
    /\ At(r, "quota")
    /\ Goto(r, IF WithinQuota(req[r]) THEN "blob" ELSE "overquota")
    /\ UNCHANGED <<rows, blobs, staged, uploaded>>

\* Mutant: a content another request is already storing counts as stored.
FinalizeBlob_Claimed(r) ==
    /\ At(r, "blob")
    /\ req' = [req EXCEPT ![r].fresh = /\ req[r].blob \notin blobs
                                      /\ \A s \in Requests \ {r} :
                                            req[s].fresh => req[s].blob # req[r].blob,
                          ![r].pc = IF req[r].from # NoPath THEN "old" ELSE "commit"]
    /\ UNCHANGED <<rows, blobs, staged, uploaded>>

\* Mutant: the staged copy is dropped before the transaction commits.
FinalizeBlob_Unstages(r) ==
    /\ At(r, "blob")
    /\ req' = [req EXCEPT ![r].fresh = req[r].blob \notin blobs,
                          ![r].pc = IF req[r].from # NoPath THEN "old" ELSE "commit"]
    /\ staged' = staged \ {req[r].blob}
    /\ UNCHANGED <<rows, blobs, uploaded>>

\* Is the content new?  If so its file is written now, before the transaction.
FinalizeBlob(r) ==
    /\ At(r, "blob")
    /\ req' = [req EXCEPT ![r].fresh = req[r].blob \notin blobs,
                          ![r].pc = IF req[r].from # NoPath THEN "old" ELSE "commit"]
    /\ UNCHANGED <<rows, blobs, staged, uploaded>>

ReadOld(r) ==
    /\ At(r, "old")
    /\ req' = [req EXCEPT ![r].old = entities[req[r].vault][req[r].from],
                          ![r].pc = "commit"]
    /\ UNCHANGED <<rows, blobs, staged, uploaded>>

(***************************************************************************)
(* The transaction.  `Writes` maps the paths it touches to their new rows: *)
(* the entity's own and, for a move, the tombstone of the path left        *)
(* behind, both under one sequence number.                                 *)
(***************************************************************************)
\* Mutant: a kind the table does not know.
NewRow_UnknownKind(q, n) ==
    [version |-> q.cur.version + 1, seq |-> n, blob |-> q.blob,
     deleted |-> q.op = "delete", kind |-> "file", from |-> q.from]

NewRow(q, n) ==
    [version |-> q.cur.version + 1, seq |-> n, blob |-> q.blob,
     deleted |-> q.op = "delete",
     kind    |-> IF q.op = "delete" THEN q.cur.kind
                 ELSE IF q.blob = NoBlob THEN "folder" ELSE "note",
     from    |-> q.from]

\* Mutant: a tombstone does not count as a version.
OldRow_SameVersion(q, n) ==
    [version |-> q.old.version, seq |-> n, blob |-> NoBlob,
     deleted |-> TRUE, kind |-> q.old.kind, from |-> NoPath]

OldRow(q, n) ==
    [version |-> q.old.version + 1, seq |-> n, blob |-> NoBlob,
     deleted |-> TRUE, kind |-> q.old.kind, from |-> NoPath]

Writes(q, n) ==
    [p \in {q.path} \cup ({q.from} \ {NoPath}) |->
        IF p = q.path THEN NewRow(q, n) ELSE OldRow(q, n)]

AsHistory(p, row) ==
    [path |-> p, version |-> row.version, seq |-> row.seq, blob |-> row.blob,
     deleted |-> row.deleted, from |-> row.from]

\* Mutant: the history has no primary key.
Clashes_NoKey(v, w) == FALSE

\* Mutant: the tombstone of a move is upserted into the history.
Clashes_NotForTombstones(v, w) ==
    \E h \in versions[v] :
        h.path \in DOMAIN w /\ h.version = w[h.path].version /\ ~w[h.path].deleted

\* The primary key of entity_versions is (vault, path, version).
Clashes(v, w) ==
    \E h \in versions[v] : h.path \in DOMAIN w /\ h.version = w[h.path].version

Write(r, w, n) ==
    LET q == req[r]
    IN  /\ blobs' = IF q.fresh THEN blobs \cup {q.blob} ELSE blobs
        /\ seq' = [seq EXCEPT ![q.vault] = n]
        /\ entities' = [entities EXCEPT ![q.vault] =
                           [p \in Paths |-> IF p \in DOMAIN w THEN w[p] ELSE @[p]]]
        /\ versions' = [versions EXCEPT ![q.vault] =
                           @ \cup {AsHistory(p, w[p]) : p \in DOMAIN w}]
        /\ Goto(r, IF q.blob = NoBlob THEN "applied" ELSE "unstage")
        /\ UNCHANGED <<life, staged, uploaded>>

\* Mutant: the sequence is drawn outside the transaction.
Abort_KeepsSeq(r, answer) ==
    /\ Goto(r, answer)
    /\ seq' = [seq EXCEPT ![req[r].vault] = @ + 1]
    /\ UNCHANGED <<life, entities, versions, blobs, staged, uploaded>>

\* An aborted transaction rolls everything back, the sequence included.
Abort(r, answer) ==
    /\ Goto(r, answer)
    /\ UNCHANGED <<rows, blobs, staged, uploaded>>

Commit(r) ==
    LET q == req[r]
        n == seq[q.vault] + 1
        w == Writes(q, n)
    IN  /\ At(r, "commit")
        /\ \/ life[q.vault] # "purged" /\ ~Clashes(q.vault, w) /\ Write(r, w, n)
           \/ life[q.vault] # "purged" /\ Clashes(q.vault, w) /\ Abort(r, "clash")
           \/ life[q.vault] = "purged" /\ Abort(r, "failed")

\* Only an applied PUT drops the staged copy.
Unstage(r) ==
    /\ At(r, "unstage")
    /\ staged' = staged \ {req[r].blob}
    /\ Goto(r, "applied")
    /\ UNCHANGED <<rows, blobs, uploaded>>

Respond(r) ==
    /\ req[r].pc \in Answers
    /\ req' = [req EXCEPT ![r] = Idle]
    /\ UNCHANGED <<rows, blobs, staged, uploaded>>

\* An I/O error, a dropped connection or a crash, anywhere before the answer.
Fail(r) ==
    /\ req[r].pc \in Steps
    /\ Goto(r, "failed")
    /\ UNCHANGED <<rows, blobs, staged, uploaded>>

(***************************************************************************)
(* The life of a vault: the owner's DELETE /vaults/:id and the operator's  *)
(* soft-delete, restore and purge.                                         *)
(***************************************************************************)
SoftDeleteVault(v) ==
    /\ life[v] = "live"
    /\ life' = [life EXCEPT ![v] = "deleted"]
    /\ UNCHANGED <<seq, entities, versions, blobs, staged, uploaded, req>>

RestoreVault(v) ==
    /\ life[v] = "deleted"
    /\ life' = [life EXCEPT ![v] = "live"]
    /\ UNCHANGED <<seq, entities, versions, blobs, staged, uploaded, req>>

PurgeVault(v) ==
    /\ life[v] # "purged"
    /\ life' = [life EXCEPT ![v] = "purged"]
    /\ seq' = [seq EXCEPT ![v] = 0]
    /\ entities' = [entities EXCEPT ![v] = [p \in Paths |-> Absent]]
    /\ versions' = [versions EXCEPT ![v] = {}]
    /\ UNCHANGED <<blobs, staged, uploaded, req>>

----------------------------------------------------------------------------
Handle(r) ==
    \/ ReadStaged(r)
    \/ ReadStored(r)
    \/ ReadCurrent(r)
    \/ EnforceQuota(r)
    \/ FinalizeBlob(r)
    \/ ReadOld(r)
    \/ Commit(r)
    \/ Unstage(r)
    \/ Respond(r)

Arrive(r) ==
    \E v \in Vaults, p \in Paths : \E base \in 0 .. entities[v][p].version :
        \/ \E b \in Blobs \cup {NoBlob}, from \in Paths \cup {NoPath} :
              PutEntity(r, v, p, base, b, from)
        \/ DeleteEntity(r, v, p, base)

Next ==
    \/ \E r \in Requests : Arrive(r) \/ Handle(r) \/ Fail(r)
    \/ \E b \in Blobs : StageBlob(b)
    \/ \E v \in Disposable : SoftDeleteVault(v) \/ RestoreVault(v) \/ PurgeVault(v)

Spec == Init /\ [][Next]_vars

----------------------------------------------------------------------------
(***************************************************************************)
(* Properties                                                              *)
(***************************************************************************)
HistoryOf(v, p) == {h \in versions[v] : h.path = p}

\* The two rows every mutation leaves behind (write_state) never drift apart:
\* a path's history is the unbroken run of versions 1, 2, ... up to the
\* current one, each version once, and its last row says what the current row
\* says - although versions are computed from a row read long before.
HistoryMatchesState ==
    \A v \in Vaults, p \in Paths :
        /\ {h.version : h \in HistoryOf(v, p)} = 1 .. entities[v][p].version
        /\ \A h \in HistoryOf(v, p) :
              h.version = entities[v][p].version => h = AsHistory(p, entities[v][p])
        /\ \A g, h \in HistoryOf(v, p) : g.version = h.version => g = h

\* The two rows of one move: the new path names the old, which is a tombstone.
MovePair(g, h) == g.from = h.path /\ h.deleted /\ h.blob = NoBlob

\* The sequence is a total order on mutations: every number up to vaults.seq
\* was given to exactly one mutation (two rows share one only as the halves of
\* a move), and along a path it grows with the version.
SeqOrdersMutations ==
    \A v \in Vaults :
        /\ {h.seq : h \in versions[v]} = 1 .. seq[v]
        /\ \A g, h \in versions[v] :
              /\ g.seq = h.seq /\ g # h => MovePair(g, h) \/ MovePair(h, g)
              /\ g.path = h.path /\ g.version < h.version => g.seq < h.seq

\* Every version that has content can be fetched: its blob row exists, although
\* a request decides that the row is "not fresh" before its transaction and
\* another request's insert of it may have been rolled back.
ReferencedBlobsStored ==
    \A v \in Vaults : \A h \in versions[v] : h.blob # NoBlob => h.blob \in blobs

\* A client that was told its upload succeeded never gets "content was never
\* uploaded" for it, even when another client's PUT of the same content
\* finalizes it and drops the staged copy in between.
UploadedNeverMissing ==
    \A r \in Requests : req[r].pc = "missing" => ~req[r].sent

\* A row read earlier is an older version of the row, or the row itself.
Seen(read, row) ==
    /\ read.version <= row.version
    /\ read.version = row.version => read = row

\* The rows a mutation read outside its transaction may be stale, but never from
\* the future and never a different row under the same version - so the version
\* its transaction takes tells whether anything happened in between.
ReadsSeen ==
    \A r \in Requests :
        LET q == req[r]
        IN  q.pc \in {"quota", "blob", "old", "commit"} =>
              /\ q.cur.version = q.base
              /\ life[q.vault] # "purged" => Seen(q.cur, entities[q.vault][q.path])
              /\ (life[q.vault] # "purged" /\ q.pc = "commit" /\ q.from # NoPath)
                    => Seen(q.old, entities[q.vault][q.from])

Applies(r) ==
    /\ req[r].pc = "commit"
    /\ req'[r].pc \in {"unstage", "applied"}

\* First write wins, no lost update: a mutation that is applied replaces
\* exactly the version its client named, and a move buries exactly the row it
\* read, although both were read outside the transaction.
NoLostUpdate ==
    [][\A r \in Requests :
          Applies(r) =>
              LET q == req[r]
              IN  /\ entities[q.vault][q.path].version = q.base
                  /\ q.from # NoPath => entities[q.vault][q.from] = q.old]_vars

=============================================================================
