----------------------------- MODULE BlobStore -----------------------------
(***************************************************************************)
(* Content-addressed blobs in delta chains (booklet-sync-server blob.rs,   *)
(* with finalize_blob and insert_blob of store.rs).  A blob is a file and  *)
(* a row: the file holds the content whole or as a delta against a base,   *)
(* the row says which.  Storing one is three steps that other requests     *)
(* interleave with: the probe that finds no row, the write of the file,    *)
(* encoded against the version the request replaces, and the insert of the *)
(* row in the request's transaction, where the first insert wins.          *)
(* Replacing the file is the protocol of AtomicFile, step by step.         *)
(***************************************************************************)
EXTENDS Naturals

CONSTANTS
    Hashes,      \* content hashes
    Writers,     \* requests that store a blob
    NoBase,      \* no base: the content is stored whole
    None,        \* no row, no file
    K            \* checkpoint_interval

ASSUME IntervalAssumption == K \in Nat \ {0}
ASSUME NoneAssumption     == NoBase \notin Hashes /\ None \notin Hashes \cup {NoBase}
\* A file's text, named by the base it is a delta against, is a full text: content
\* hashes are 64 hexadecimal digits.
ASSUME TextAssumption     == "empty" \notin Hashes \cup {NoBase, None}
                             /\ "mixed" \notin Hashes \cup {NoBase, None}

VARIABLES
    row,              \* the blobs table
    temp, final,      \* the blobs' files: a text is the base it is a delta against
    call,             \* per request: the file it is replacing
    put,              \* per request: the blob it stores and how far it is
    contested         \* history: blobs two requests were storing at one time

Base == Hashes \cup {NoBase}

Disk == INSTANCE AtomicFile WITH Files <- Hashes, Texts <- Base, NoFile <- None

disk == <<temp, final, call>>

blobVars == <<row, disk, put, contested>>

Meta == [base : Base, depth : Nat]

NoMeta == [base |-> NoBase, depth |-> 0]

\* `hash` is the content being stored, `base` the version it replaces, `meta`
\* what BlobStore::put returned.
Put == [pc : {"idle", "probed", "encoded", "replaced"}, hash : Base, base : Base, meta : Meta]

IdlePut == [pc |-> "idle", hash |-> NoBase, base |-> NoBase, meta |-> NoMeta]

BlobTypeOK ==
    /\ row \in [Hashes -> Meta \cup {None}]
    /\ Disk!DiskTypeOK
    /\ put \in [Writers -> Put]
    /\ contested \subseteq Hashes

BlobInit ==
    /\ row = [b \in Hashes |-> None]
    /\ Disk!DiskInit
    /\ put = [w \in Writers |-> IdlePut]
    /\ contested = {}

Stored == {b \in Hashes : row[b] # None}

\* BlobStore::get: follow the rows down to a whole copy, decoding each file the
\* way its row says.  Decoding a file that is encoded otherwise is an error.
Readable(b) ==
    LET ok[c \in Hashes] == /\ row[c] # None
                            /\ final[c] = row[c].base
                            /\ row[c].base # NoBase => ok[row[c].base]
    IN  ok[b]

\* apply_put finds no row for the content and will encode it against the blob
\* the path holds now - a stored one, or none.
Probe(w, b, base) ==
    /\ put[w].pc = "idle"
    /\ row[b] = None
    /\ put' = [put EXCEPT ![w] = [pc |-> "probed", hash |-> b, base |-> base, meta |-> NoMeta]]
    /\ contested' = IF \E u \in Writers : put[u].pc # "idle" /\ put[u].hash = b
                      THEN contested \cup {b} ELSE contested
    /\ UNCHANGED <<row, disk>>

\* Mutant: the checkpoint comes one version late.
Encodings_LateCheckpoint(base) ==
    {NoMeta} \cup (IF base # NoBase /\ row[base].depth < K
                     THEN {[base |-> base, depth |-> row[base].depth + 1]} ELSE {})

\* BlobStore::put: a whole copy, or - while the chain stays below K - a delta,
\* when that happens to be the smaller.
Encodings(base) ==
    {NoMeta} \cup (IF base # NoBase /\ row[base].depth + 1 < K
                     THEN {[base |-> base, depth |-> row[base].depth + 1]} ELSE {})

\* finalize_blob: read the base, encode, open the temporary file.
Encode(w) ==
    LET q == put[w]
    IN  /\ q.pc = "probed"
        /\ q.base # NoBase => Readable(q.base)
        /\ \E meta \in Encodings(q.base) :
              /\ Disk!OpenTemp(w, q.hash, meta.base)
              /\ put' = [put EXCEPT ![w].pc = "encoded", ![w].meta = meta]
        /\ UNCHANGED <<row, contested>>

WriteFile(w) == Disk!WriteTemp(w) /\ UNCHANGED <<row, put, contested>>

ReplaceFile(w) ==
    /\ Disk!Rename(w)
    /\ put' = [put EXCEPT ![w].pc = "replaced"]
    /\ UNCHANGED <<row, contested>>

\* Mutant: the row remembers the version replaced, whatever the encoding.
InsertRow_AlwaysBase(w) ==
    LET q == put[w]
    IN  /\ q.pc = "replaced"
        /\ row' = [row EXCEPT ![q.hash] =
                     IF @ = None THEN [base |-> q.base, depth |-> q.meta.depth] ELSE @]
        /\ put' = [put EXCEPT ![w] = IdlePut]
        /\ UNCHANGED <<disk, contested>>

\* insert_blob, ON CONFLICT DO NOTHING, and the commit of its transaction.
InsertRow(w) ==
    LET q == put[w]
    IN  /\ q.pc = "replaced"
        /\ row' = [row EXCEPT ![q.hash] = IF @ = None THEN q.meta ELSE @]
        /\ put' = [put EXCEPT ![w] = IdlePut]
        /\ UNCHANGED <<disk, contested>>

\* The base cannot be read, the file not be replaced, the transaction aborts, the
\* server dies: the files stay as the request left them.
GiveUp(w) ==
    /\ put[w].pc # "idle"
    /\ put' = [put EXCEPT ![w] = IdlePut]
    /\ Disk!Crash(w)
    /\ UNCHANGED <<row, contested>>

BlobNext ==
    \E w \in Writers :
        \/ \E b \in Hashes, base \in Stored \cup {NoBase} : Probe(w, b, base)
        \/ Encode(w) \/ WriteFile(w) \/ ReplaceFile(w)
        \/ InsertRow(w)
        \/ GiveUp(w)

BlobSpec == BlobInit /\ [][BlobNext]_blobVars

----------------------------------------------------------------------------
\* A read walks at most K - 1 deltas: along a chain the depth counts down to a
\* whole copy at 0, every base has a row, and no depth reaches K - although the
\* depth written was computed from a row read before the transaction.
ChainsBounded ==
    \A b \in Stored :
        /\ row[b].depth < K
        /\ IF row[b].base = NoBase
             THEN row[b].depth = 0
             ELSE /\ row[b].base \in Stored
                  /\ row[b].depth = row[row[b].base].depth + 1

Matches(b) == final[b] = row[b].base

\* store.rs:272 "a rolled-back mutation leaves only an orphan file - never a row
\* that points at a file that does not match it": true of a blob that two requests
\* never stored at the same time, whatever was rolled back or abandoned before.
\* (When two do, the file may be the one's and the row the other's.)
UncontestedMatches == \A b \in Stored : b \notin contested => Matches(b)

Torn(b) == final[b] \in {"empty", "mixed"}

\* blob.rs:224 "a reader never sees a partial blob": a file that one request at a
\* time replaces, over and over and through crashes at any point, is never torn.
\* (With two at a time it can be: one truncates what the other renames.)
NeverTornAlone == \A b \in Hashes : Torn(b) => b \in contested
=============================================================================
