-------------------------- MODULE SyncStoreProofs --------------------------
(***************************************************************************)
(* What TLC checks of the store on small instances, proved for any number  *)
(* of vaults, paths, contents and requests, any quota and any bound.       *)
(*                                                                         *)
(* The argument: a transaction takes version cur.version + 1, where cur is *)
(* a row read long before.  ReadsSeen says that row is at most as new as   *)
(* the current one; HistoryMatchesState says every version up to the       *)
(* current one is taken.  So the primary key of the history lets the       *)
(* transaction through exactly when cur is still the current row, and      *)
(* then the two tables grow by the same row.  So sequence numbers order    *)
(* the mutations, and the pipeline implements the atomic vault: a          *)
(* transaction that goes through is a compare-and-swap at the version its  *)
(* base check saw.  Content is safe because no blob row is ever deleted    *)
(* and a request past finalize_blob stores its content or found it stored. *)
(* The last two parts are about the change feed, whose cursor is a point   *)
(* in the order of the mutations, and about the files the blobs are in.    *)
(***************************************************************************)
EXTENDS SyncStoreRefinement, SyncFeed, BlobStore, TLAPS

\* What a request carries from step to step: a mutation with content keeps its
\* content, one without never reaches a step that handles content, and a move
\* never leaves the path it goes to.
RequestsFormed ==
    \A r \in Requests :
        /\ req[r].from # req[r].path
        /\ req[r].pc \in {"resolve", "probe", "quota", "blob", "unstage"}
              => req[r].blob # NoBlob
        /\ req[r].fresh => req[r].blob # NoBlob
        /\ req[r].pc = "old" => req[r].from # NoPath

TypeInv == TypeOK /\ RequestsFormed

----------------------------------------------------------------------------
(***************************************************************************)
(* Types                                                                   *)
(***************************************************************************)
LEMMA AbsentIsRow == Absent \in Row
BY DEF Absent, Row, Kinds

LEMMA IdleIsRequest ==
    /\ Idle \in Request
    /\ Idle.pc = "idle" /\ ~Idle.fresh /\ Idle.from # Idle.path
BY SomeAssumption, NullAssumption, AbsentIsRow DEF Idle, Request, Steps, Answers

LEMMA OpenedIsRequest ==
    ASSUME NEW op \in {"put", "delete"}, NEW v \in Vaults, NEW p \in Paths,
           NEW base \in Nat, NEW b \in Blobs \cup {NoBlob},
           NEW from \in Paths \cup {NoPath}
    PROVE  Opened(op, v, p, base, b, from) \in Request
BY AbsentIsRow DEF Opened, Request, Steps, Answers

LEMMA TypeInit == Init => TypeInv
<1> SUFFICES ASSUME Init PROVE TypeInv
    OBVIOUS
<1>1. TypeOK
    BY AbsentIsRow, IdleIsRequest DEF Init, TypeOK
<1>2. RequestsFormed
    BY IdleIsRequest DEF Init, RequestsFormed
<1> QED BY <1>1, <1>2 DEF TypeInv

\* A step of one request changes that request only, and leaves it well formed.
LEMMA RequestStep ==
    ASSUME TypeInv, NEW r \in Requests, NEW q \in Request,
           req' = [req EXCEPT ![r] = q],
           q.from # q.path,
           q.pc \in {"resolve", "probe", "quota", "blob", "unstage"} => q.blob # NoBlob,
           q.fresh => q.blob # NoBlob,
           q.pc = "old" => q.from # NoPath
    PROVE  req' \in [Requests -> Request] /\ RequestsFormed'
<1>1. req' \in [Requests -> Request]
    BY DEF TypeInv, TypeOK
<1>2. RequestsFormed'
    BY <1>1 DEF TypeInv, TypeOK, RequestsFormed
<1> QED BY <1>1, <1>2

\* Moving on to another step keeps everything a request carries.
LEMMA GotoStep ==
    ASSUME TypeInv, NEW r \in Requests, NEW step \in Steps \cup Answers,
           Goto(r, step),
           step \in {"resolve", "probe", "quota", "blob", "unstage"}
              => req[r].blob # NoBlob,
           step = "old" => req[r].from # NoPath
    PROVE  req' \in [Requests -> Request] /\ RequestsFormed'
<1> DEFINE q == [req[r] EXCEPT !.pc = step]
<1>1. req[r] \in Request
    BY DEF TypeInv, TypeOK
<1>2. q \in Request /\ q.pc = step /\ q.from = req[r].from /\ q.path = req[r].path
      /\ q.blob = req[r].blob /\ q.fresh = req[r].fresh
    BY <1>1 DEF Request
<1>3. req' = [req EXCEPT ![r] = q]
    BY DEF Goto
<1>4. q.from # q.path /\ (q.fresh => q.blob # NoBlob)
    BY <1>2 DEF TypeInv, RequestsFormed
<1> HIDE DEF q
<1> QED BY <1>2, <1>3, <1>4, RequestStep

\* The rows a transaction writes are rows of the paths it touches.
LEMMA WritesTyped ==
    ASSUME TypeInv, NEW r \in Requests, NEW n \in Nat
    PROVE  /\ DOMAIN Writes(req[r], n) \subseteq Paths
           /\ \A p \in DOMAIN Writes(req[r], n) :
                 /\ Writes(req[r], n)[p] \in Row
                 /\ AsHistory(p, Writes(req[r], n)[p]) \in HistoryRow
<1> DEFINE q == req[r]
<1>1. q \in Request
    BY DEF TypeInv, TypeOK
<1>2. NewRow(q, n) \in Row /\ OldRow(q, n) \in Row
    BY <1>1 DEF Request, NewRow, OldRow, Row, Kinds
<1>3. DOMAIN Writes(q, n) \subseteq Paths
    BY <1>1, NullAssumption DEF Writes, Request
<1>4. \A p \in DOMAIN Writes(q, n) : Writes(q, n)[p] \in Row
    BY <1>2 DEF Writes
<1>5. \A p \in Paths, entry \in Row : AsHistory(p, entry) \in HistoryRow
    BY DEF Row, HistoryRow, AsHistory
<1> QED BY <1>3, <1>4, <1>5

LEMMA WriteTyped ==
    ASSUME TypeInv, NEW r \in Requests,
           At(r, "commit"),
           Write(r, Writes(req[r], seq[req[r].vault] + 1), seq[req[r].vault] + 1)
    PROVE  TypeInv'
<1> DEFINE q == req[r]
           n == seq[q.vault] + 1
           w == Writes(q, n)
<1>1. q \in Request /\ q.vault \in Vaults /\ seq[q.vault] \in Nat /\ n \in Nat
    BY DEF TypeInv, TypeOK, Request
<1>2. DOMAIN w \subseteq Paths /\ \A p \in DOMAIN w : w[p] \in Row /\ AsHistory(p, w[p]) \in HistoryRow
    BY <1>1, WritesTyped
<1>3. req' \in [Requests -> Request] /\ RequestsFormed'
    BY GotoStep DEF Write, Steps, Answers
<1>4. blobs' \subseteq Blobs
    BY <1>1 DEF Write, TypeInv, TypeOK, RequestsFormed, Request
<1> HIDE DEF w, n
<1>5. seq' \in [Vaults -> Nat]
    BY <1>1 DEF Write, TypeInv, TypeOK, w, n
<1>6. entities' \in [Vaults -> [Paths -> Row]]
  <2> DEFINE new == [p \in Paths |-> IF p \in DOMAIN w THEN w[p] ELSE entities[q.vault][p]]
  <2>1. entities' = [entities EXCEPT ![q.vault] = new]
      BY <1>1 DEF Write, TypeInv, TypeOK, w, n
  <2>2. new \in [Paths -> Row]
      BY <1>1, <1>2 DEF TypeInv, TypeOK
  <2> QED BY <2>1, <2>2 DEF TypeInv, TypeOK
<1>7. versions' \in [Vaults -> SUBSET HistoryRow]
  <2> DEFINE new == versions[q.vault] \cup {AsHistory(p, w[p]) : p \in DOMAIN w}
  <2>1. versions' = [versions EXCEPT ![q.vault] = new]
      BY <1>1 DEF Write, TypeInv, TypeOK, w, n
  <2>2. new \subseteq HistoryRow
      BY <1>1, <1>2 DEF TypeInv, TypeOK
  <2> QED BY <2>1, <2>2 DEF TypeInv, TypeOK
<1>8. life' = life /\ staged' = staged /\ uploaded' = uploaded
    BY DEF Write
<1> QED BY <1>3, <1>4, <1>5, <1>6, <1>7, <1>8 DEF TypeInv, TypeOK

LEMMA TypeStep == TypeInv /\ [Next]_vars => TypeInv'
<1> SUFFICES ASSUME TypeInv, [Next]_vars PROVE TypeInv'
    OBVIOUS
<1> USE DEF TypeInv
<1>1. ASSUME NEW b \in Blobs, StageBlob(b) PROVE TypeInv'
    BY <1>1 DEF StageBlob, rows, TypeOK, RequestsFormed
<1>2. ASSUME NEW r \in Requests, NEW v \in Vaults, NEW p \in Paths,
             NEW base \in Nat, NEW b \in Blobs \cup {NoBlob},
             NEW from \in Paths \cup {NoPath}, PutEntity(r, v, p, base, b, from)
      PROVE  TypeInv'
  <2>1. Opened("put", v, p, base, b, from) \in Request
      BY OpenedIsRequest
  <2>2. req' \in [Requests -> Request] /\ RequestsFormed'
      BY <1>2, <2>1, RequestStep, NullAssumption DEF PutEntity, Opened
  <2> QED BY <1>2, <2>2 DEF PutEntity, rows, TypeOK
<1>3. ASSUME NEW r \in Requests, NEW v \in Vaults, NEW p \in Paths, NEW base \in Nat,
             DeleteEntity(r, v, p, base)
      PROVE  TypeInv'
  <2>1. Opened("delete", v, p, base, NoBlob, NoPath) \in Request
      BY OpenedIsRequest
  <2>2. req' \in [Requests -> Request] /\ RequestsFormed'
      BY <1>3, <2>1, RequestStep, NullAssumption DEF DeleteEntity, Opened
  <2> QED BY <1>3, <2>2 DEF DeleteEntity, rows, TypeOK
<1>4. ASSUME NEW r \in Requests, ReadStaged(r) PROVE TypeInv'
  <2>1. req' \in [Requests -> Request] /\ RequestsFormed'
      BY <1>4, GotoStep DEF ReadStaged, At, RequestsFormed, Steps
  <2> QED BY <1>4, <2>1 DEF ReadStaged, rows, TypeOK
<1>5. ASSUME NEW r \in Requests, ReadStored(r) PROVE TypeInv'
  <2>1. req' \in [Requests -> Request] /\ RequestsFormed'
      BY <1>5, GotoStep DEF ReadStored, At, RequestsFormed, Steps, Answers
  <2> QED BY <1>5, <2>1 DEF ReadStored, rows, TypeOK
<1>6. ASSUME NEW r \in Requests, ReadCurrent(r) PROVE TypeInv'
  <2> DEFINE q   == req[r]
             entry == entities[q.vault][q.path]
             new == [q EXCEPT !.cur = entry, !.pc = NextStep(q)]
  <2>1. q \in Request /\ entry \in Row
      BY DEF TypeOK, Request
  <2>2. new \in Request /\ new.pc = NextStep(q) /\ new.from = q.from /\ new.path = q.path
        /\ new.blob = q.blob /\ new.fresh = q.fresh
      BY <2>1 DEF Request, NextStep, Steps
  <2>3. CASE q.base # entry.version
    <3>1. req' \in [Requests -> Request] /\ RequestsFormed'
        BY <1>6, <2>3, GotoStep DEF ReadCurrent, Answers
    <3> QED BY <1>6, <3>1 DEF ReadCurrent, rows, TypeOK
  <2>4. CASE q.base = entry.version
    <3>1. req' = [req EXCEPT ![r] = new]
        BY <1>6, <2>4 DEF ReadCurrent
    <3>2. req' \in [Requests -> Request] /\ RequestsFormed'
      <4> HIDE DEF new
      <4> QED BY <2>2, <3>1, RequestStep DEF RequestsFormed, NextStep
    <3> QED BY <1>6, <3>2 DEF ReadCurrent, rows, TypeOK
  <2> QED BY <2>3, <2>4
<1>7. ASSUME NEW r \in Requests, EnforceQuota(r) PROVE TypeInv'
  <2>1. req' \in [Requests -> Request] /\ RequestsFormed'
      BY <1>7, GotoStep DEF EnforceQuota, At, RequestsFormed, Steps, Answers
  <2> QED BY <1>7, <2>1 DEF EnforceQuota, rows, TypeOK
<1>8. ASSUME NEW r \in Requests, FinalizeBlob(r) PROVE TypeInv'
  <2> DEFINE q   == req[r]
             new == [q EXCEPT !.fresh = q.blob \notin blobs,
                              !.pc = IF q.from # NoPath THEN "old" ELSE "commit"]
  <2>1. q \in Request /\ q.pc = "blob" /\ q.blob # NoBlob /\ q.from # q.path
      BY <1>8 DEF TypeOK, FinalizeBlob, At, RequestsFormed
  <2>2. new \in Request /\ new.from = q.from /\ new.path = q.path /\ new.blob = q.blob
        /\ new.pc = IF q.from # NoPath THEN "old" ELSE "commit"
      BY <2>1 DEF Request, Steps
  <2>3. req' = [req EXCEPT ![r] = new]
      BY <1>8 DEF FinalizeBlob
  <2>4. req' \in [Requests -> Request] /\ RequestsFormed'
    <3> HIDE DEF new
    <3> QED BY <2>1, <2>2, <2>3, RequestStep
  <2> QED BY <1>8, <2>4 DEF FinalizeBlob, rows, TypeOK
<1>9. ASSUME NEW r \in Requests, ReadOld(r) PROVE TypeInv'
  <2> DEFINE q   == req[r]
             new == [q EXCEPT !.old = entities[q.vault][q.from], !.pc = "commit"]
  <2>1. q \in Request /\ q.pc = "old" /\ q.from # NoPath /\ q.from # q.path
      BY <1>9 DEF TypeOK, ReadOld, At, RequestsFormed
  <2>2. entities[q.vault][q.from] \in Row
      BY <2>1 DEF TypeOK, Request
  <2>3. new \in Request /\ new.from = q.from /\ new.path = q.path /\ new.blob = q.blob
        /\ new.pc = "commit" /\ new.fresh = q.fresh
      BY <2>1, <2>2 DEF Request, Steps
  <2>4. req' = [req EXCEPT ![r] = new]
      BY <1>9 DEF ReadOld
  <2>5. req' \in [Requests -> Request] /\ RequestsFormed'
    <3> HIDE DEF new
    <3> QED BY <2>1, <2>3, <2>4, RequestStep DEF RequestsFormed
  <2> QED BY <1>9, <2>5 DEF ReadOld, rows, TypeOK
<1>10. ASSUME NEW r \in Requests, Commit(r) PROVE TypeInv'
  <2> DEFINE q == req[r]
             n == seq[q.vault] + 1
  <2>1. CASE Write(r, Writes(q, n), n)
      BY <1>10, <2>1, WriteTyped DEF Commit
  <2>2. CASE Abort(r, "clash")
    <3>1. req' \in [Requests -> Request] /\ RequestsFormed'
        BY <2>2, GotoStep DEF Abort, Answers
    <3> QED BY <2>2, <3>1 DEF Abort, rows, TypeOK
  <2>3. CASE Abort(r, "failed")
    <3>1. req' \in [Requests -> Request] /\ RequestsFormed'
        BY <2>3, GotoStep DEF Abort, Answers
    <3> QED BY <2>3, <3>1 DEF Abort, rows, TypeOK
  <2> QED BY <1>10, <2>1, <2>2, <2>3 DEF Commit
<1>11. ASSUME NEW r \in Requests, Unstage(r) PROVE TypeInv'
  <2>1. req' \in [Requests -> Request] /\ RequestsFormed'
      BY <1>11, GotoStep DEF Unstage, Answers
  <2> QED BY <1>11, <2>1 DEF Unstage, rows, TypeOK
<1>12. ASSUME NEW r \in Requests, Respond(r) PROVE TypeInv'
  <2>1. req' \in [Requests -> Request] /\ RequestsFormed'
      BY <1>12, RequestStep, IdleIsRequest DEF Respond
  <2> QED BY <1>12, <2>1 DEF Respond, rows, TypeOK
<1>13. ASSUME NEW r \in Requests, Fail(r) PROVE TypeInv'
  <2>1. req' \in [Requests -> Request] /\ RequestsFormed'
      BY <1>13, GotoStep DEF Fail, Answers
  <2> QED BY <1>13, <2>1 DEF Fail, rows, TypeOK
<1>14. ASSUME NEW v \in Disposable, SoftDeleteVault(v) PROVE TypeInv'
    BY <1>14 DEF SoftDeleteVault, TypeOK, RequestsFormed
<1>15. ASSUME NEW v \in Disposable, RestoreVault(v) PROVE TypeInv'
    BY <1>15 DEF RestoreVault, TypeOK, RequestsFormed
<1>16. ASSUME NEW v \in Disposable, PurgeVault(v) PROVE TypeInv'
    BY <1>16, AbsentIsRow DEF PurgeVault, TypeOK, RequestsFormed
<1>17. CASE UNCHANGED vars
    BY <1>17 DEF vars, TypeOK, RequestsFormed
<1>18. ASSUME NEW v \in Vaults, NEW p \in Paths
       PROVE  0 .. entities[v][p].version \subseteq Nat
    BY DEF TypeOK, Row
<1>19. ASSUME NEW r \in Requests, Arrive(r) PROVE TypeInv'
    BY <1>2, <1>3, <1>18, <1>19 DEF Arrive
<1>20. ASSUME NEW r \in Requests, Handle(r) PROVE TypeInv'
    BY <1>4, <1>5, <1>6, <1>7, <1>8, <1>9, <1>10, <1>11, <1>12, <1>20 DEF Handle
<1> QED BY <1>1, <1>13, <1>14, <1>15, <1>16, <1>17, <1>19, <1>20 DEF Next

\* The store never leaves the states its types describe.
THEOREM TypeCorrect == Spec => []TypeOK
<1>1. Init => TypeInv
    BY TypeInit
<1>2. TypeInv /\ [Next]_vars => TypeInv'
    BY TypeStep
<1>3. TypeInv => TypeOK
    BY DEF TypeInv
<1> QED BY <1>1, <1>2, <1>3, PTL DEF Spec

----------------------------------------------------------------------------
(***************************************************************************)
(* History and state                                                       *)
(***************************************************************************)
IInv == TypeInv /\ HistoryMatchesState /\ ReadsSeen

\* What a step does to the tables: nothing but perhaps a vault's flag, the purge
\* of one vault, or a transaction.
Flags == UNCHANGED <<seq, entities, versions>>
         /\ \A v \in Vaults : life'[v] # "purged" => life[v] # "purged"

Purge == \E v \in Vaults :
    /\ life' = [life EXCEPT ![v] = "purged"]
    /\ seq' = [seq EXCEPT ![v] = 0]
    /\ entities' = [entities EXCEPT ![v] = [p \in Paths |-> Absent]]
    /\ versions' = [versions EXCEPT ![v] = {}]

CommitWrite(r) ==
    LET q == req[r]
        n == seq[q.vault] + 1
        w == Writes(q, n)
    IN  /\ At(r, "commit")
        /\ life[q.vault] # "purged"
        /\ ~Clashes(q.vault, w)
        /\ Write(r, w, n)

LEMMA StepKinds ==
    ASSUME TypeInv, [Next]_vars
    PROVE  Flags \/ Purge \/ \E r \in Requests : CommitWrite(r)
<1>1. ASSUME NEW b \in Blobs, StageBlob(b) PROVE Flags
    BY <1>1 DEF StageBlob, Flags, rows
<1>2. ASSUME NEW r \in Requests, Arrive(r) PROVE Flags
    BY <1>2 DEF Arrive, PutEntity, DeleteEntity, Flags, rows
<1>3. ASSUME NEW r \in Requests, Handle(r), ~CommitWrite(r) PROVE Flags
    BY <1>3 DEF Handle, ReadStaged, ReadStored, ReadCurrent, EnforceQuota, FinalizeBlob,
                ReadOld, Commit, CommitWrite, Abort, Unstage, Respond, Flags, rows
<1>4. ASSUME NEW r \in Requests, Fail(r) PROVE Flags
    BY <1>4 DEF Fail, Flags, rows
<1>5. ASSUME NEW v \in Disposable, SoftDeleteVault(v) \/ RestoreVault(v) PROVE Flags
    BY <1>5, BoundAssumption DEF SoftDeleteVault, RestoreVault, Flags, TypeInv, TypeOK
<1>6. ASSUME NEW v \in Disposable, PurgeVault(v) PROVE Purge
    BY <1>6, BoundAssumption DEF PurgeVault, Purge
<1>7. CASE UNCHANGED vars
    BY <1>7 DEF vars, Flags
<1> QED BY <1>1, <1>2, <1>3, <1>4, <1>5, <1>6, <1>7 DEF Next

\* A request changes only by its own arrival, step or failure.
LEMMA OwnSteps ==
    ASSUME TypeInv, [Next]_vars, NEW s \in Requests
    PROVE  req'[s] = req[s] \/ Arrive(s) \/ Handle(s) \/ Fail(s)
<1>1. ASSUME NEW r \in Requests, r # s, Arrive(r) \/ Fail(r) PROVE req'[s] = req[s]
    BY <1>1 DEF Arrive, PutEntity, DeleteEntity, Fail, Goto, TypeInv, TypeOK
<1>2. ASSUME NEW r \in Requests, r # s, Handle(r) PROVE req'[s] = req[s]
    BY <1>2 DEF Handle, ReadStaged, ReadStored, ReadCurrent, EnforceQuota, FinalizeBlob,
                ReadOld, Commit, Write, Abort, Unstage, Respond, Goto, TypeInv, TypeOK
<1>3. ASSUME NEW b \in Blobs, StageBlob(b) PROVE req'[s] = req[s]
    BY <1>3 DEF StageBlob
<1>4. ASSUME NEW v \in Disposable, SoftDeleteVault(v) \/ RestoreVault(v) \/ PurgeVault(v)
      PROVE  req'[s] = req[s]
    BY <1>4 DEF SoftDeleteVault, RestoreVault, PurgeVault
<1>5. CASE UNCHANGED vars
    BY <1>5 DEF vars
<1> QED BY <1>1, <1>2, <1>3, <1>4, <1>5 DEF Next

\* The primary key lets a transaction through only when the rows its request
\* read are still the current ones.
LEMMA FreshRows ==
    ASSUME IInv, NEW r \in Requests, CommitWrite(r)
    PROVE  LET q == req[r]
           IN  /\ q.cur = entities[q.vault][q.path]
               /\ q.from # NoPath => q.old = entities[q.vault][q.from]
<1> DEFINE q == req[r]
           v == q.vault
           n == seq[v] + 1
           w == Writes(q, n)
<1>1. q \in Request /\ q.pc = "commit" /\ v \in Vaults /\ q.path \in Paths /\ q.from # q.path
    BY DEF CommitWrite, At, IInv, TypeInv, TypeOK, RequestsFormed, Request
<1>2. life[v] # "purged" /\ ~Clashes(v, w)
    BY DEF CommitWrite
<1>3. ASSUME NEW p \in Paths, NEW read \in Row, Seen(read, entities[v][p]),
             p \in DOMAIN w, w[p].version = read.version + 1
      PROVE  read = entities[v][p]
  <2>1. entities[v][p] \in Row
      BY <1>1 DEF IInv, TypeInv, TypeOK
  <2>2. SUFFICES ASSUME read.version < entities[v][p].version PROVE FALSE
      BY <1>3, <2>1 DEF Seen, Row
  <2>3. read.version + 1 \in 1 .. entities[v][p].version
      BY <2>1, <2>2 DEF Row
  <2>4. PICK h \in HistoryOf(v, p) : h.version = read.version + 1
      BY <1>1, <2>3 DEF IInv, HistoryMatchesState
  <2>5. h \in versions[v] /\ h.path = p
      BY <2>4 DEF HistoryOf
  <2>6. Clashes(v, w)
      BY <1>3, <2>4, <2>5 DEF Clashes
  <2> QED BY <1>2, <2>6
<1>4. q.cur \in Row /\ q.old \in Row
    BY <1>1 DEF Request
<1>5. q.path \in DOMAIN w /\ w[q.path].version = q.cur.version + 1
    BY <1>1 DEF Writes, NewRow
<1>6. q.cur = entities[v][q.path]
  <2>1. Seen(q.cur, entities[v][q.path])
      BY <1>1, <1>2 DEF IInv, ReadsSeen
  <2> HIDE DEF w
  <2> QED BY <1>1, <1>3, <1>4, <1>5, <2>1
<1>7. ASSUME q.from # NoPath PROVE q.old = entities[v][q.from]
  <2>1. q.from \in Paths /\ Seen(q.old, entities[v][q.from])
      BY <1>1, <1>2, <1>7 DEF IInv, ReadsSeen, Request
  <2>2. q.from \in DOMAIN w /\ w[q.from].version = q.old.version + 1
      BY <1>1, <1>7, <2>1 DEF Writes, OldRow
  <2> HIDE DEF w
  <2> QED BY <1>3, <1>4, <2>1, <2>2
<1> QED BY <1>6, <1>7

\* What a transaction does to one path of its vault: both tables take the row it
\* writes there, one version on.
LEMMA CommitRows ==
    ASSUME IInv, NEW r \in Requests, CommitWrite(r)
    PROVE  LET q == req[r]
               w == Writes(q, seq[q.vault] + 1)
           IN  /\ q.vault \in Vaults
               /\ life' = life
               /\ \A v \in Vaults \ {q.vault} :
                     entities'[v] = entities[v] /\ versions'[v] = versions[v]
               /\ \A p \in Paths \ DOMAIN w :
                     /\ entities'[q.vault][p] = entities[q.vault][p]
                     /\ {h \in versions'[q.vault] : h.path = p} = HistoryOf(q.vault, p)
               /\ \A p \in DOMAIN w :
                     /\ p \in Paths /\ w[p] \in Row
                     /\ entities'[q.vault][p] = w[p]
                     /\ w[p].version = entities[q.vault][p].version + 1
                     /\ {h \in versions'[q.vault] : h.path = p}
                           = HistoryOf(q.vault, p) \cup {AsHistory(p, w[p])}
<1> DEFINE q == req[r]
           v == q.vault
           n == seq[v] + 1
           w == Writes(q, n)
<1>1. q \in Request /\ v \in Vaults /\ n \in Nat /\ q.from # q.path
    BY DEF IInv, TypeInv, TypeOK, RequestsFormed, Request
<1>2. /\ DOMAIN w \subseteq Paths
      /\ \A p \in DOMAIN w : w[p] \in Row
    BY <1>1, WritesTyped DEF IInv
<1>3. \A p \in DOMAIN w : w[p].version = entities[v][p].version + 1
    BY <1>1, FreshRows DEF Writes, NewRow, OldRow
<1>4. \A p \in DOMAIN w : AsHistory(p, w[p]).path = p
    BY DEF AsHistory
<1>5. Write(r, w, n)
    BY DEF CommitWrite
<1> HIDE DEF w, n
<1>6. /\ entities' = [entities EXCEPT ![v] =
                        [p \in Paths |-> IF p \in DOMAIN w THEN w[p] ELSE entities[v][p]]]
      /\ versions' = [versions EXCEPT ![v] =
                        versions[v] \cup {AsHistory(p, w[p]) : p \in DOMAIN w}]
      /\ life' = life
    BY <1>1, <1>5 DEF Write, IInv, TypeInv, TypeOK
<1>7. \A u \in Vaults \ {v} : entities'[u] = entities[u] /\ versions'[u] = versions[u]
    BY <1>1, <1>6 DEF IInv, TypeInv, TypeOK
<1>8. /\ \A p \in Paths : entities'[v][p] = IF p \in DOMAIN w THEN w[p] ELSE entities[v][p]
      /\ versions'[v] = versions[v] \cup {AsHistory(p, w[p]) : p \in DOMAIN w}
    BY <1>1, <1>6 DEF IInv, TypeInv, TypeOK
<1>9. \A p \in Paths \ DOMAIN w : {h \in versions'[v] : h.path = p} = HistoryOf(v, p)
    BY <1>4, <1>8 DEF HistoryOf
<1>10. \A p \in DOMAIN w :
          {h \in versions'[v] : h.path = p} = HistoryOf(v, p) \cup {AsHistory(p, w[p])}
    BY <1>4, <1>8 DEF HistoryOf
<1> QED BY <1>1, <1>2, <1>3, <1>6, <1>7, <1>8, <1>9, <1>10 DEF w, n

\* A path's history that is an unbroken run stays one when the next version is
\* added.
Unbroken(H, entry, p) ==
    /\ {h.version : h \in H} = 1 .. entry.version
    /\ \A h \in H : h.version = entry.version => h = AsHistory(p, entry)
    /\ \A g, h \in H : g.version = h.version => g = h

LEMMA UnbrokenGrows ==
    ASSUME NEW p, NEW H, NEW entry \in Row, NEW next \in Row,
           \A h \in H : h.version \in Nat,
           Unbroken(H, entry, p), next.version = entry.version + 1
    PROVE  Unbroken(H \cup {AsHistory(p, next)}, next, p)
<1> DEFINE a == AsHistory(p, next)
           G == H \cup {a}
<1>1. a.version = next.version /\ entry.version \in Nat /\ next.version \in Nat
    BY DEF AsHistory, Row
<1>2. \A h \in H : h.version \in 1 .. entry.version
    BY DEF Unbroken
<1>3. {h.version : h \in G} = 1 .. next.version
  <2>1. ASSUME NEW k \in 1 .. next.version PROVE k \in {h.version : h \in G}
    <3>1. CASE k = next.version
        BY <1>1, <3>1
    <3>2. CASE k # next.version
      <4>1. k \in 1 .. entry.version
          BY <1>1, <2>1, <3>2
      <4>2. PICK h \in H : h.version = k
          BY <4>1 DEF Unbroken
      <4> QED BY <4>2
    <3> QED BY <3>1, <3>2
  <2>2. \A h \in G : h.version \in 1 .. next.version
      BY <1>1, <1>2
  <2> QED BY <2>1, <2>2
<1>4. \A h \in H : h.version # next.version
    BY <1>1, <1>2
<1>5. \A h \in G : h.version = next.version => h = a
    BY <1>4
<1>6. \A g, h \in G : g.version = h.version => g = h
    BY <1>1, <1>4 DEF Unbroken
<1> QED BY <1>3, <1>5, <1>6 DEF Unbroken

LEMMA HistoryIsUnbroken ==
    HistoryMatchesState <=>
        \A v \in Vaults, p \in Paths : Unbroken(HistoryOf(v, p), entities[v][p], p)
BY DEF HistoryMatchesState, Unbroken

LEMMA HistoryInit == Init => HistoryMatchesState
BY DEF Init, HistoryMatchesState, HistoryOf, Absent

LEMMA HistoryStep == IInv /\ [Next]_vars => HistoryMatchesState'
<1> SUFFICES ASSUME IInv, [Next]_vars,
                    NEW v \in Vaults, NEW p \in Paths
             PROVE  Unbroken({h \in versions'[v] : h.path = p}, entities'[v][p], p)
    BY DEF HistoryMatchesState, Unbroken, HistoryOf
<1>1. Unbroken(HistoryOf(v, p), entities[v][p], p)
    BY HistoryIsUnbroken DEF IInv
<1>2. CASE Flags
    BY <1>1, <1>2 DEF Flags, HistoryOf
<1>3. CASE Purge
  <2> PICK u \in Vaults :
        /\ entities' = [entities EXCEPT ![u] = [x \in Paths |-> Absent]]
        /\ versions' = [versions EXCEPT ![u] = {}]
      BY <1>3 DEF Purge
  <2>1. CASE u = v
    <3>1. entities'[v][p] = Absent /\ versions'[v] = {}
        BY <2>1 DEF IInv, TypeInv, TypeOK
    <3> QED BY <3>1 DEF Unbroken, Absent
  <2>2. CASE u # v
    <3>1. entities'[v] = entities[v] /\ versions'[v] = versions[v]
        BY <2>2 DEF IInv, TypeInv, TypeOK
    <3> QED BY <1>1, <3>1 DEF HistoryOf
  <2> QED BY <2>1, <2>2
<1>4. ASSUME NEW r \in Requests, CommitWrite(r)
      PROVE  Unbroken({h \in versions'[v] : h.path = p}, entities'[v][p], p)
  <2> DEFINE q == req[r]
             w == Writes(q, seq[q.vault] + 1)
  <2>1. CASE v # q.vault
    <3>1. entities'[v] = entities[v] /\ versions'[v] = versions[v]
        BY <1>4, <2>1, CommitRows
    <3> QED BY <1>1, <3>1 DEF HistoryOf
  <2>2. CASE v = q.vault /\ p \notin DOMAIN w
    <3>1. entities'[v][p] = entities[v][p] /\ {h \in versions'[v] : h.path = p} = HistoryOf(v, p)
        BY <1>4, <2>2, CommitRows
    <3> QED BY <1>1, <3>1
  <2>3. CASE v = q.vault /\ p \in DOMAIN w
    <3>1. /\ w[p] \in Row /\ entities'[v][p] = w[p]
          /\ w[p].version = entities[v][p].version + 1
          /\ {h \in versions'[v] : h.path = p} = HistoryOf(v, p) \cup {AsHistory(p, w[p])}
        BY <1>4, <2>3, CommitRows
    <3>2. entities[v][p] \in Row /\ \A h \in HistoryOf(v, p) : h.version \in Nat
        BY DEF IInv, TypeInv, TypeOK, HistoryOf, HistoryRow
    <3> HIDE DEF w
    <3> QED BY <1>1, <3>1, <3>2, UnbrokenGrows
  <2> QED BY <2>1, <2>2, <2>3
<1> QED BY <1>2, <1>3, <1>4, StepKinds DEF IInv

----------------------------------------------------------------------------
(***************************************************************************)
(* Rows read outside the transaction                                       *)
(***************************************************************************)
LEMMA SeenIsOrder ==
    ASSUME NEW a \in Row, NEW b \in Row, NEW c \in Row
    PROVE  Seen(a, a) /\ (Seen(a, b) /\ Seen(b, c) => Seen(a, c))
BY DEF Seen, Row

\* No step takes a path of a vault back to a version it has left.
LEMMA RowsMoveOn ==
    ASSUME IInv, [Next]_vars, NEW v \in Vaults, NEW p \in Paths, life'[v] # "purged"
    PROVE  life[v] # "purged" /\ Seen(entities[v][p], entities'[v][p])
<1>1. entities[v][p] \in Row
    BY DEF IInv, TypeInv, TypeOK
<1>2. CASE Flags
    BY <1>1, <1>2, SeenIsOrder DEF Flags
<1>3. CASE Purge
  <2> PICK u \in Vaults :
        /\ life' = [life EXCEPT ![u] = "purged"]
        /\ entities' = [entities EXCEPT ![u] = [x \in Paths |-> Absent]]
      BY <1>3 DEF Purge
  <2>1. u # v
      BY DEF IInv, TypeInv, TypeOK
  <2>2. entities'[v] = entities[v] /\ life'[v] = life[v]
      BY <2>1 DEF IInv, TypeInv, TypeOK
  <2> QED BY <1>1, <2>2, SeenIsOrder
<1>4. ASSUME NEW r \in Requests, CommitWrite(r)
      PROVE  life[v] # "purged" /\ Seen(entities[v][p], entities'[v][p])
  <2> DEFINE q == req[r]
             w == Writes(q, seq[q.vault] + 1)
  <2>1. life' = life
      BY <1>4, CommitRows
  <2>2. CASE v # q.vault \/ p \notin DOMAIN w
    <3>1. entities'[v][p] = entities[v][p]
        BY <1>4, <2>2, CommitRows
    <3> QED BY <1>1, <2>1, <3>1, SeenIsOrder
  <2>3. CASE v = q.vault /\ p \in DOMAIN w
    <3>1. entities'[v][p] \in Row /\ entities'[v][p].version = entities[v][p].version + 1
        BY <1>4, <2>3, CommitRows
    <3> QED BY <1>1, <2>1, <3>1 DEF Seen, Row
  <2> QED BY <2>2, <2>3
<1> QED BY <1>2, <1>3, <1>4, StepKinds DEF IInv

\* ReadsSeen, of one request, its vault's flag and the tables.
ReadSeen(q, l, e) ==
    q.pc \in {"quota", "blob", "old", "commit"} =>
        /\ q.cur.version = q.base
        /\ l[q.vault] # "purged" => Seen(q.cur, e[q.vault][q.path])
        /\ (l[q.vault] # "purged" /\ q.pc = "commit" /\ q.from # NoPath)
              => Seen(q.old, e[q.vault][q.from])

LEMMA ReadsInit == Init => ReadsSeen
BY IdleIsRequest DEF Init, ReadsSeen

\* A read that was of an older version or the current one still is after any step.
LEMMA ReadsStay ==
    ASSUME IInv, [Next]_vars, TypeInv', NEW r \in Requests
    PROVE  ReadSeen(req[r], life', entities')
<1> DEFINE q == req[r]
<1>1. q \in Request
    BY DEF IInv, TypeInv, TypeOK
<1>2. ReadSeen(q, life, entities)
    BY DEF IInv, ReadsSeen, ReadSeen
<1>3. ASSUME NEW v \in Vaults, NEW p \in Paths, NEW a \in Row,
             life'[v] # "purged", life[v] # "purged" => Seen(a, entities[v][p])
      PROVE  Seen(a, entities'[v][p])
  <2>1. life[v] # "purged" /\ Seen(entities[v][p], entities'[v][p])
      BY <1>3, RowsMoveOn
  <2>2. entities[v][p] \in Row /\ entities'[v][p] \in Row
      BY DEF IInv, TypeInv, TypeOK
  <2> QED BY <1>3, <2>1, <2>2, SeenIsOrder
<1>4. q.vault \in Vaults /\ q.path \in Paths /\ q.cur \in Row /\ q.old \in Row
      /\ (q.from # NoPath => q.from \in Paths)
    BY <1>1 DEF Request
<1>5. ASSUME q.pc \in {"quota", "blob", "old", "commit"}, life'[q.vault] # "purged"
      PROVE  Seen(q.cur, entities'[q.vault][q.path])
  <2>1. life[q.vault] # "purged" => Seen(q.cur, entities[q.vault][q.path])
      BY <1>2, <1>5 DEF ReadSeen
  <2> QED BY <1>3, <1>4, <1>5, <2>1
<1>6. ASSUME q.pc = "commit", q.from # NoPath, life'[q.vault] # "purged"
      PROVE  Seen(q.old, entities'[q.vault][q.from])
  <2>1. life[q.vault] # "purged" => Seen(q.old, entities[q.vault][q.from])
      BY <1>2, <1>6 DEF ReadSeen
  <2> QED BY <1>3, <1>4, <1>6, <2>1
<1> QED BY <1>2, <1>5, <1>6 DEF ReadSeen

\* A step of r that keeps what r has read, and does not yet use the row left behind.
LEMMA ReadsKept ==
    ASSUME IInv, [Next]_vars, TypeInv', NEW r \in Requests, NEW q \in Request,
           req[r].pc \in {"quota", "blob", "old", "commit"},
           q.cur = req[r].cur, q.base = req[r].base,
           q.vault = req[r].vault, q.path = req[r].path, q.from = req[r].from,
           q.pc = "commit" => q.from = NoPath
    PROVE  ReadSeen(q, life', entities')
<1>1. ReadSeen(req[r], life', entities')
    BY ReadsStay
<1> QED BY <1>1 DEF ReadSeen

LEMMA ReadsHandle ==
    ASSUME IInv, [Next]_vars, TypeInv', NEW r \in Requests, Handle(r)
    PROVE  ReadSeen(req'[r], life', entities')
<1> DEFINE q == req[r]
<1>1. q \in Request /\ q.vault \in Vaults /\ q.path \in Paths /\ req'[r] \in Request
    BY DEF IInv, TypeInv, TypeOK, Request
<1>2. CASE req'[r].pc \notin {"quota", "blob", "old", "commit"}
    BY <1>2 DEF ReadSeen
<1>3. CASE ReadStaged(r) \/ ReadStored(r) \/ Commit(r) \/ Unstage(r) \/ Respond(r)
  <2>1. req'[r].pc \notin {"quota", "blob", "old", "commit"}
      BY <1>1, <1>3, IdleIsRequest
      DEF IInv, TypeInv, TypeOK, ReadStaged, ReadStored, Commit, Write, Abort, Unstage,
          Respond, Goto, Request
  <2> QED BY <2>1 DEF ReadSeen
<1>4. CASE ReadCurrent(r)
  <2> DEFINE entry == entities[q.vault][q.path]
             new == [q EXCEPT !.cur = entry, !.pc = NextStep(q)]
  <2>1. entry \in Row /\ UNCHANGED <<life, entities>>
      BY <1>1, <1>4 DEF IInv, TypeInv, TypeOK, ReadCurrent, rows
  <2>2. CASE q.base # entry.version
    <3>1. req'[r].pc = "conflict"
        BY <1>1, <1>4, <2>2 DEF ReadCurrent, Goto, Request, IInv, TypeInv, TypeOK
    <3> QED BY <3>1 DEF ReadSeen
  <2>3. CASE q.base = entry.version
    <3>1. req'[r] = new
        BY <1>4, <2>3 DEF ReadCurrent, IInv, TypeInv, TypeOK
    <3>2. new.cur = entry /\ new.base = q.base /\ new.vault = q.vault /\ new.path = q.path
          /\ new.from = q.from /\ new.pc = NextStep(q)
        BY <1>1 DEF Request
    <3>3. new.pc = "commit" => new.from = NoPath
        BY <3>2 DEF NextStep
    <3>4. Seen(entry, entry)
        BY <2>1, SeenIsOrder
    <3> HIDE DEF new
    <3> QED BY <2>1, <2>3, <3>1, <3>2, <3>3, <3>4 DEF ReadSeen
  <2> QED BY <2>2, <2>3
<1>5. CASE EnforceQuota(r)
  <2>1. q.pc = "quota" /\ req'[r].pc \in {"blob", "overquota"}
        /\ req'[r].cur = q.cur /\ req'[r].base = q.base /\ req'[r].vault = q.vault
        /\ req'[r].path = q.path /\ req'[r].from = q.from
      BY <1>1, <1>5 DEF EnforceQuota, At, Goto, Request, IInv, TypeInv, TypeOK
  <2> QED BY <1>1, <2>1, ReadsKept
<1>6. CASE FinalizeBlob(r)
  <2>1. q.pc = "blob" /\ req'[r].pc = (IF q.from # NoPath THEN "old" ELSE "commit")
        /\ req'[r].cur = q.cur /\ req'[r].base = q.base /\ req'[r].vault = q.vault
        /\ req'[r].path = q.path /\ req'[r].from = q.from
      BY <1>1, <1>6 DEF FinalizeBlob, At, Request, IInv, TypeInv, TypeOK
  <2> QED BY <1>1, <2>1, ReadsKept
<1>7. CASE ReadOld(r)
  <2> DEFINE entry == entities[q.vault][q.from]
             new == [q EXCEPT !.old = entry, !.pc = "commit"]
  <2>1. q.pc = "old" /\ q.from \in Paths /\ req'[r] = new /\ UNCHANGED <<life, entities>>
      BY <1>1, <1>7 DEF ReadOld, At, rows, IInv, TypeInv, TypeOK, RequestsFormed, Request
  <2>2. new.cur = q.cur /\ new.base = q.base /\ new.vault = q.vault /\ new.path = q.path
        /\ new.from = q.from /\ new.pc = "commit" /\ new.old = entry
      BY <1>1 DEF Request
  <2>3. entry \in Row
      BY <1>1, <2>1 DEF IInv, TypeInv, TypeOK
  <2>4. Seen(entry, entry)
      BY <2>3, SeenIsOrder
  <2>5. ReadSeen(q, life', entities')
      BY ReadsStay
  <2> HIDE DEF new
  <2> QED BY <2>1, <2>2, <2>4, <2>5 DEF ReadSeen
<1> QED BY <1>3, <1>4, <1>5, <1>6, <1>7 DEF Handle

LEMMA ReadsStep == IInv /\ [Next]_vars => ReadsSeen'
<1> SUFFICES ASSUME IInv, [Next]_vars, NEW s \in Requests
             PROVE  ReadSeen(req'[s], life', entities')
    BY DEF ReadsSeen, ReadSeen
<1>1. TypeInv'
    BY TypeStep DEF IInv
<1>2. CASE req'[s] = req[s]
    BY <1>1, <1>2, ReadsStay
<1>3. CASE req'[s].pc \notin {"quota", "blob", "old", "commit"}
    BY <1>3 DEF ReadSeen
<1>4. CASE Arrive(s) \/ Fail(s)
  <2>1. req'[s].pc \in {"current", "resolve", "failed"}
      BY <1>4 DEF Arrive, PutEntity, DeleteEntity, Opened, Fail, Goto, IInv, TypeInv, TypeOK,
                  Request
  <2> QED BY <1>3, <2>1
<1>5. CASE Handle(s)
    BY <1>1, <1>5, ReadsHandle
<1> QED BY <1>2, <1>4, <1>5, OwnSteps DEF IInv

LEMMA InvInit == Init => IInv
BY TypeInit, HistoryInit, ReadsInit DEF IInv

LEMMA InvStep == IInv /\ [Next]_vars => IInv'
BY TypeStep, HistoryStep, ReadsStep DEF IInv

LEMMA StoreInvariant == Spec => []IInv
BY InvInit, InvStep, PTL DEF Spec

----------------------------------------------------------------------------
(***************************************************************************)
(* One order on all mutations                                              *)
(***************************************************************************)
\* SeqOrdersMutations, of one vault's history and its sequence.
Ordered(H, last) ==
    /\ {h.seq : h \in H} = 1 .. last
    /\ \A g, h \in H :
          /\ g.seq = h.seq /\ g # h => MovePair(g, h) \/ MovePair(h, g)
          /\ g.path = h.path /\ g.version < h.version => g.seq < h.seq

\* An ordered history stays one when the rows of one mutation are added: they
\* carry the next number, lie on different paths and each is its path's newest.
LEMMA OrderedGrows ==
    ASSUME NEW H \in SUBSET HistoryRow, NEW A \in SUBSET HistoryRow, NEW last \in Nat,
           Ordered(H, last), A # {},
           \A a \in A : a.seq = last + 1,
           \A a, b \in A : a # b => a.path # b.path /\ (MovePair(a, b) \/ MovePair(b, a)),
           \A h \in H, a \in A : h.path = a.path => h.version < a.version
    PROVE  Ordered(H \cup A, last + 1)
<1> DEFINE G == H \cup A
<1>1. \A h \in G : h.seq \in Nat /\ h.version \in Nat
    BY DEF HistoryRow
<1>2. \A h \in H : h.seq \in 1 .. last
    BY DEF Ordered
<1>3. {h.seq : h \in G} = 1 .. last + 1
  <2>1. \A h \in G : h.seq \in 1 .. last + 1
      BY <1>2
  <2>2. ASSUME NEW k \in 1 .. last + 1 PROVE \E h \in G : h.seq = k
    <3>1. CASE k = last + 1
        BY <3>1
    <3>2. CASE k # last + 1
      <4>1. k \in 1 .. last
          BY <3>2
      <4> QED BY <4>1 DEF Ordered
    <3> QED BY <3>1, <3>2
  <2> QED BY <2>1, <2>2
<1>4. ASSUME NEW g \in G, NEW h \in G, g.seq = h.seq, g # h
      PROVE  MovePair(g, h) \/ MovePair(h, g)
  <2>1. CASE g \in H /\ h \in H
      BY <1>4, <2>1 DEF Ordered
  <2>2. CASE g \in A /\ h \in A
      BY <1>4, <2>2
  <2>3. CASE (g \in H /\ h \in A) \/ (g \in A /\ h \in H)
      BY <1>2, <1>4, <2>3
  <2> QED BY <2>1, <2>2, <2>3
<1>5. ASSUME NEW g \in G, NEW h \in G, g.path = h.path, g.version < h.version
      PROVE  g.seq < h.seq
  <2>1. CASE g \in H /\ h \in H
      BY <1>5, <2>1 DEF Ordered
  <2>2. CASE g \in H /\ h \in A
      BY <1>2, <2>2
  <2>3. CASE g \in A /\ h \in H
      BY <1>1, <1>5, <2>3
  <2>4. CASE g \in A /\ h \in A
      BY <1>1, <1>5, <2>4
  <2> QED BY <2>1, <2>2, <2>3, <2>4
<1> QED BY <1>3, <1>4, <1>5 DEF Ordered

\* The rows a transaction adds to its vault's history.
LEMMA CommitAdds ==
    ASSUME IInv, NEW r \in Requests, CommitWrite(r)
    PROVE  LET q == req[r]
               n == seq[q.vault] + 1
               w == Writes(q, n)
               A == {AsHistory(p, w[p]) : p \in DOMAIN w}
           IN  /\ seq' = [seq EXCEPT ![q.vault] = n]
               /\ versions'[q.vault] = versions[q.vault] \cup A
               /\ A \in SUBSET HistoryRow /\ A # {}
               /\ \A a \in A : a.seq = n /\ a.blob \in {q.blob, NoBlob}
               /\ \A a, b \in A : a # b => a.path # b.path
                                       /\ (MovePair(a, b) \/ MovePair(b, a))
               /\ \A h \in versions[q.vault], a \in A :
                     h.path = a.path => h.version < a.version
<1> DEFINE q == req[r]
           v == q.vault
           n == seq[v] + 1
           w == Writes(q, n)
           A == {AsHistory(p, w[p]) : p \in DOMAIN w}
<1>1. q \in Request /\ v \in Vaults /\ n \in Nat /\ q.path \in Paths /\ q.from # q.path
    BY DEF IInv, TypeInv, TypeOK, RequestsFormed, Request
<1>2. seq' = [seq EXCEPT ![v] = n] /\ versions'[v] = versions[v] \cup A
    BY <1>1 DEF CommitWrite, Write, IInv, TypeInv, TypeOK
<1>3. A \in SUBSET HistoryRow
    BY <1>1, WritesTyped DEF IInv
<1>4. q.path \in DOMAIN w /\ A # {}
    BY DEF Writes
<1>5. \A p \in DOMAIN w : /\ p = q.path \/ p = q.from
                          /\ w[p].seq = n
                          /\ w[p].blob \in {q.blob, NoBlob}
                          /\ p = q.path => w[p].from = q.from
                          /\ p # q.path => w[p].deleted /\ w[p].blob = NoBlob
    BY DEF Writes, NewRow, OldRow
<1>6. \A p \in DOMAIN w : w[p].version = entities[v][p].version + 1 /\ p \in Paths
    BY CommitRows
<1> HIDE DEF w
<1>7. \A a \in A : \E p \in DOMAIN w :
          /\ a.path = p /\ a.version = w[p].version /\ a.seq = w[p].seq
          /\ a.blob = w[p].blob /\ a.from = w[p].from /\ a.deleted = w[p].deleted
          /\ a = AsHistory(p, w[p])
    BY DEF AsHistory
<1>8. \A a \in A : a.seq = n /\ a.blob \in {q.blob, NoBlob}
    BY <1>5, <1>7
<1>9. ASSUME NEW a \in A, NEW b \in A, a # b
      PROVE  a.path # b.path /\ (MovePair(a, b) \/ MovePair(b, a))
    BY <1>1, <1>5, <1>7, <1>9 DEF MovePair
<1>10. ASSUME NEW h \in versions[v], NEW a \in A, h.path = a.path
       PROVE  h.version < a.version
  <2>1. a.path \in Paths /\ a.version = entities[v][a.path].version + 1
      BY <1>6, <1>7
  <2>2. h \in HistoryOf(v, a.path)
      BY <1>10 DEF HistoryOf
  <2>3. h.version \in 1 .. entities[v][a.path].version
      BY <1>1, <2>1, <2>2 DEF IInv, HistoryMatchesState
  <2>4. entities[v][a.path].version \in Nat
      BY <1>1, <2>1 DEF IInv, TypeInv, TypeOK, Row
  <2> QED BY <2>1, <2>3, <2>4
<1> QED BY <1>2, <1>3, <1>4, <1>8, <1>9, <1>10 DEF w

LEMMA OrderInit == Init => SeqOrdersMutations
BY DEF Init, SeqOrdersMutations

LEMMA OrderStep == IInv /\ SeqOrdersMutations /\ [Next]_vars => SeqOrdersMutations'
<1> SUFFICES ASSUME IInv, SeqOrdersMutations, [Next]_vars, NEW v \in Vaults
             PROVE  Ordered(versions'[v], seq'[v])
    BY DEF SeqOrdersMutations, Ordered
<1>1. Ordered(versions[v], seq[v])
    BY DEF SeqOrdersMutations, Ordered
<1>2. CASE Flags
    BY <1>1, <1>2 DEF Flags
<1>3. CASE Purge
  <2> PICK u \in Vaults : /\ seq' = [seq EXCEPT ![u] = 0]
                          /\ versions' = [versions EXCEPT ![u] = {}]
      BY <1>3 DEF Purge
  <2>1. CASE u = v
    <3>1. seq'[v] = 0 /\ versions'[v] = {}
        BY <2>1 DEF IInv, TypeInv, TypeOK
    <3> QED BY <3>1 DEF Ordered
  <2>2. CASE u # v
    <3>1. seq'[v] = seq[v] /\ versions'[v] = versions[v]
        BY <2>2 DEF IInv, TypeInv, TypeOK
    <3> QED BY <1>1, <3>1
  <2> QED BY <2>1, <2>2
<1>4. ASSUME NEW r \in Requests, CommitWrite(r) PROVE Ordered(versions'[v], seq'[v])
  <2>1. CASE v = req[r].vault
    <3> DEFINE u == req[r].vault
               w == Writes(req[r], seq[u] + 1)
               A == {AsHistory(p, w[p]) : p \in DOMAIN w}
    <3>1. seq[v] \in Nat /\ versions[v] \in SUBSET HistoryRow
        BY DEF IInv, TypeInv, TypeOK
    <3>2. /\ seq' = [seq EXCEPT ![u] = seq[u] + 1]
          /\ versions'[u] = versions[u] \cup A
          /\ A \in SUBSET HistoryRow /\ A # {}
          /\ \A a \in A : a.seq = seq[u] + 1
          /\ \A a, b \in A : a # b => a.path # b.path /\ (MovePair(a, b) \/ MovePair(b, a))
          /\ \A h \in versions[u], a \in A : h.path = a.path => h.version < a.version
        BY <1>4, CommitAdds
    <3> HIDE DEF A
    <3>3. seq'[v] = seq[v] + 1
        BY <2>1, <3>2 DEF IInv, TypeInv, TypeOK
    <3>4. Ordered(versions[v] \cup A, seq[v] + 1)
        BY <1>1, <2>1, <3>1, <3>2, OrderedGrows
    <3> QED BY <2>1, <3>2, <3>3, <3>4
  <2>2. CASE v # req[r].vault
    <3>1. versions'[v] = versions[v] /\ seq'[v] = seq[v]
        BY <1>4, <2>2, CommitRows, CommitAdds DEF IInv, TypeInv, TypeOK
    <3> QED BY <1>1, <3>1
  <2> QED BY <2>1, <2>2
<1> QED BY <1>2, <1>3, <1>4, StepKinds DEF IInv

----------------------------------------------------------------------------
(***************************************************************************)
(* Contents                                                                *)
(***************************************************************************)
\* What a request may rely on: once past finalize_blob its content is stored, or
\* it stores it itself; one the client was told is uploaded is staged or stored,
\* so a request that found it no longer staged finds it stored.
BlobsReady(q, stored, told) ==
    /\ q.pc \in {"old", "commit"} /\ q.blob # NoBlob /\ ~q.fresh => q.blob \in stored
    /\ q.pc = "unstage" => q.blob \in stored
    /\ q.sent => q.blob \in told
    /\ q.pc = "probe" /\ q.sent => q.blob \in stored
    /\ q.pc = "missing" => ~q.sent

BlobsInv ==
    /\ uploaded \subseteq staged \cup blobs
    /\ \A r \in Requests : BlobsReady(req[r], blobs, uploaded)
    /\ ReferencedBlobsStored

LEMMA BlobsInit == Init => BlobsInv
BY IdleIsRequest DEF Init, BlobsInv, BlobsReady, ReferencedBlobsStored, Idle

\* No row of the blobs table is ever deleted.
LEMMA BlobsGrow ==
    ASSUME [Next]_vars
    PROVE  blobs \subseteq blobs' /\ uploaded \subseteq uploaded'
<1>1. ASSUME NEW r \in Requests, Handle(r) PROVE blobs \subseteq blobs' /\ uploaded' = uploaded
    BY <1>1 DEF Handle, ReadStaged, ReadStored, ReadCurrent, EnforceQuota, FinalizeBlob,
                ReadOld, Commit, Write, Abort, Unstage, Respond
<1>2. ASSUME NEW r \in Requests, Arrive(r) \/ Fail(r) PROVE UNCHANGED <<blobs, uploaded>>
    BY <1>2 DEF Arrive, PutEntity, DeleteEntity, Fail
<1> QED BY <1>1, <1>2
        DEF Next, vars, StageBlob, SoftDeleteVault, RestoreVault, PurgeVault

\* A staged copy is dropped only after its content was stored.
LEMMA UploadsStep ==
    ASSUME TypeInv, BlobsInv, [Next]_vars
    PROVE  uploaded' \subseteq staged' \cup blobs'
<1>1. CASE UNCHANGED <<staged, uploaded>>
    BY <1>1, BlobsGrow DEF BlobsInv
<1>2. ASSUME NEW b \in Blobs, StageBlob(b) PROVE uploaded' \subseteq staged' \cup blobs'
    BY <1>2 DEF StageBlob, BlobsInv
<1>3. ASSUME NEW r \in Requests, Unstage(r) PROVE uploaded' \subseteq staged' \cup blobs'
    BY <1>3 DEF Unstage, At, BlobsInv, BlobsReady
<1>4. ASSUME NEW r \in Requests, Handle(r), ~Unstage(r) PROVE UNCHANGED <<staged, uploaded>>
    BY <1>4 DEF Handle, ReadStaged, ReadStored, ReadCurrent, EnforceQuota, FinalizeBlob,
                ReadOld, Commit, Write, Abort, Respond
<1>5. ASSUME NEW r \in Requests, Arrive(r) \/ Fail(r) PROVE UNCHANGED <<staged, uploaded>>
    BY <1>5 DEF Arrive, PutEntity, DeleteEntity, Fail
<1> QED BY <1>1, <1>2, <1>3, <1>4, <1>5
        DEF Next, vars, SoftDeleteVault, RestoreVault, PurgeVault

LEMMA BlobsReadyStep ==
    ASSUME TypeInv, BlobsInv, [Next]_vars, NEW s \in Requests
    PROVE  BlobsReady(req'[s], blobs', uploaded')
<1> DEFINE q == req[s]
           r == req'[s]
<1>1. q \in Request /\ BlobsReady(q, blobs, uploaded)
    BY DEF TypeInv, TypeOK, BlobsInv
<1>2. blobs \subseteq blobs' /\ uploaded \subseteq uploaded'
    BY BlobsGrow
<1>3. CASE r = q
    BY <1>1, <1>2, <1>3 DEF BlobsReady
<1>4. CASE Arrive(s)
  <2>1. PICK op, v, p, base, b, from : r = Opened(op, v, p, base, b, from)
      BY <1>4 DEF Arrive, PutEntity, DeleteEntity, TypeInv, TypeOK
  <2>2. r.pc \in {"current", "resolve"} /\ r.sent = (r.blob \in uploaded)
      BY <2>1 DEF Opened
  <2> QED BY <1>2, <2>2 DEF BlobsReady
<1>5. ASSUME NEW pc \in Steps \cup Answers, Goto(s, pc)
      PROVE  r.pc = pc /\ r.blob = q.blob /\ r.fresh = q.fresh /\ r.sent = q.sent
    BY <1>1, <1>5 DEF Goto, Request, TypeInv, TypeOK
<1>6. CASE Fail(s)
  <2>1. r.pc = "failed" /\ r.blob = q.blob /\ r.sent = q.sent
      BY <1>5, <1>6 DEF Fail, Answers
  <2> QED BY <1>1, <1>2, <2>1 DEF BlobsReady
<1>7. CASE ReadStaged(s)
  <2>1. r.pc \in {"current", "probe"} /\ r.blob = q.blob /\ r.sent = q.sent
        /\ (r.pc = "probe" => q.blob \notin staged)
      BY <1>5, <1>7 DEF ReadStaged, Steps
  <2> QED BY <1>1, <1>2, <2>1 DEF BlobsReady, BlobsInv
<1>8. CASE ReadStored(s)
  <2>1. r.pc \in {"current", "missing"} /\ r.blob = q.blob /\ r.sent = q.sent
        /\ q.pc = "probe" /\ (r.pc = "missing" => q.blob \notin blobs)
      BY <1>5, <1>8 DEF ReadStored, At, Steps, Answers
  <2> QED BY <1>1, <1>2, <2>1 DEF BlobsReady
<1>9. CASE ReadCurrent(s)
  <2> DEFINE entry == entities[q.vault][q.path]
             new == [q EXCEPT !.cur = entry, !.pc = NextStep(q)]
  <2>1. CASE q.base # entry.version
    <3>1. r.pc = "conflict" /\ r.blob = q.blob /\ r.sent = q.sent
        BY <1>5, <1>9, <2>1 DEF ReadCurrent, Answers
    <3> QED BY <1>1, <1>2, <3>1 DEF BlobsReady
  <2>2. CASE q.base = entry.version
    <3>1. r = new
        BY <1>9, <2>2 DEF ReadCurrent, TypeInv, TypeOK
    <3>2. new.pc = NextStep(q) /\ new.blob = q.blob /\ new.sent = q.sent
        BY <1>1 DEF Request
    <3> HIDE DEF new
    <3> QED BY <1>1, <1>2, <3>1, <3>2 DEF BlobsReady, NextStep
  <2> QED BY <2>1, <2>2
<1>10. CASE EnforceQuota(s)
  <2>1. r.pc \in {"blob", "overquota"} /\ r.blob = q.blob /\ r.sent = q.sent
      BY <1>5, <1>10 DEF EnforceQuota, Steps, Answers
  <2> QED BY <1>1, <1>2, <2>1 DEF BlobsReady
<1>11. CASE FinalizeBlob(s)
  <2>1. r.pc \in {"old", "commit"} /\ r.blob = q.blob /\ r.sent = q.sent
        /\ (~r.fresh => q.blob \in blobs)
      BY <1>1, <1>11 DEF FinalizeBlob, Request, TypeInv, TypeOK
  <2> QED BY <1>1, <1>2, <2>1 DEF BlobsReady
<1>12. CASE ReadOld(s)
  <2>1. q.pc = "old" /\ r.pc = "commit" /\ r.blob = q.blob /\ r.sent = q.sent
        /\ r.fresh = q.fresh
      BY <1>1, <1>12 DEF ReadOld, At, Request, TypeInv, TypeOK
  <2> QED BY <1>1, <1>2, <2>1 DEF BlobsReady
<1>13. CASE CommitWrite(s)
  <2>1. q.pc = "commit" /\ r.pc = (IF q.blob = NoBlob THEN "applied" ELSE "unstage")
        /\ r.blob = q.blob /\ r.sent = q.sent
      BY <1>5, <1>13 DEF CommitWrite, Write, At, Steps, Answers
  <2>2. q.fresh => q.blob \in blobs'
      BY <1>13 DEF CommitWrite, Write
  <2> QED BY <1>1, <1>2, <2>1, <2>2 DEF BlobsReady
<1>14. CASE Commit(s) /\ ~CommitWrite(s)
  <2>1. r.pc \in {"clash", "failed"} /\ r.blob = q.blob /\ r.sent = q.sent
      BY <1>5, <1>14 DEF Commit, CommitWrite, Abort, Answers
  <2> QED BY <1>1, <1>2, <2>1 DEF BlobsReady
<1>15. CASE Unstage(s)
  <2>1. r.pc = "applied" /\ r.blob = q.blob /\ r.sent = q.sent
      BY <1>5, <1>15 DEF Unstage, Answers
  <2> QED BY <1>1, <1>2, <2>1 DEF BlobsReady
<1>16. CASE Respond(s)
  <2>1. r = Idle
      BY <1>16 DEF Respond, TypeInv, TypeOK
  <2> QED BY <2>1 DEF BlobsReady, Idle
<1>17. Handle(s) => r = q \/ BlobsReady(r, blobs', uploaded')
    BY <1>7, <1>8, <1>9, <1>10, <1>11, <1>12, <1>13, <1>14, <1>15, <1>16 DEF Handle
<1> QED BY <1>3, <1>4, <1>6, <1>17, OwnSteps

LEMMA ReferencedStep ==
    ASSUME IInv, BlobsInv, [Next]_vars
    PROVE  ReferencedBlobsStored'
<1> SUFFICES ASSUME NEW v \in Vaults, NEW h \in versions'[v], h.blob # NoBlob
             PROVE  h.blob \in blobs'
    BY DEF ReferencedBlobsStored
<1>1. blobs \subseteq blobs'
    BY BlobsGrow
<1>2. h \in versions[v] => h.blob \in blobs'
    BY <1>1 DEF BlobsInv, ReferencedBlobsStored
<1>3. CASE Flags
    BY <1>2, <1>3 DEF Flags
<1>4. CASE Purge
    BY <1>2, <1>4 DEF Purge, IInv, TypeInv, TypeOK
<1>5. ASSUME NEW r \in Requests, CommitWrite(r) PROVE h.blob \in blobs'
  <2> DEFINE q == req[r]
             w == Writes(q, seq[q.vault] + 1)
             A == {AsHistory(p, w[p]) : p \in DOMAIN w}
  <2>1. CASE v # q.vault
      BY <1>2, <1>5, <2>1, CommitRows
  <2>2. CASE v = q.vault
    <3>1. versions'[q.vault] = versions[q.vault] \cup A /\ \A a \in A : a.blob \in {q.blob, NoBlob}
        BY <1>5, CommitAdds
    <3> HIDE DEF A
    <3>2. q.blob # NoBlob => q.blob \in blobs'
      <4>1. q.pc = "commit" /\ (q.fresh => q.blob \in blobs')
          BY <1>5 DEF CommitWrite, At, Write
      <4>2. BlobsReady(q, blobs, uploaded) /\ q.fresh \in BOOLEAN
          BY DEF BlobsInv, IInv, TypeInv, TypeOK, Request
      <4> QED BY <1>1, <4>1, <4>2 DEF BlobsReady
    <3> QED BY <1>2, <2>2, <3>1, <3>2
  <2> QED BY <2>1, <2>2
<1> QED BY <1>3, <1>4, <1>5, StepKinds DEF IInv

LEMMA BlobsInvariant == Spec => []BlobsInv
<1>1. Init => BlobsInv
    BY BlobsInit
<1>2. IInv /\ BlobsInv /\ [Next]_vars => BlobsInv'
    BY UploadsStep, BlobsReadyStep, ReferencedStep DEF IInv, BlobsInv
<1> QED BY <1>1, <1>2, StoreInvariant, PTL DEF Spec

----------------------------------------------------------------------------
\* The two rows every mutation leaves behind (write_state) stay consistent, however
\* the statements of concurrent mutations interleave.
THEOREM HistoryConsistent == Spec => []HistoryMatchesState
<1>1. IInv => HistoryMatchesState
    BY DEF IInv
<1> QED BY <1>1, StoreInvariant, PTL

\* Every number of vaults.seq was given to one mutation, the two rows of a move
\* sharing theirs, and along a path it grows with the version: what next_seq under
\* the vault's row lock is for, and what a device's cursor relies on.
THEOREM OneOrder == Spec => []SeqOrdersMutations
<1>1. Init => SeqOrdersMutations
    BY OrderInit
<1>2. IInv /\ SeqOrdersMutations /\ [Next]_vars => SeqOrdersMutations'
    BY OrderStep
<1> QED BY <1>1, <1>2, StoreInvariant, PTL DEF Spec

\* A row apply_put or apply_delete read outside its transaction is the current row or
\* an older version of it, never another row under the same version.
THEOREM ReadsAreSeen == Spec => []ReadsSeen
<1>1. IInv => ReadsSeen
    BY DEF IInv
<1> QED BY <1>1, StoreInvariant, PTL

\* A version that names content can be served: its blob row is there, although
\* finalize_blob decided whether to insert it before the transaction, and a request
\* it relied on may have rolled back.
THEOREM ContentIsStored == Spec => []ReferencedBlobsStored
<1>1. BlobsInv => ReferencedBlobsStored
    BY DEF BlobsInv
<1> QED BY <1>1, BlobsInvariant, PTL

\* resolve_content answers "content was never uploaded" to no client that was told
\* its upload succeeded, whoever else finalizes and unstages the same content.
THEOREM UploadsAreFound == Spec => []UploadedNeverMissing
<1>1. BlobsInv => UploadedNeverMissing
    BY DEF BlobsInv, BlobsReady, UploadedNeverMissing
<1> QED BY <1>1, BlobsInvariant, PTL

\* First write wins: whatever other requests commit between the base check of
\* apply_put or apply_delete and its transaction, a mutation that is applied replaces
\* exactly the version its client named, and a move buries exactly the row it read.
THEOREM FirstWriteWins == Spec => NoLostUpdate
<1> DEFINE Kept(r) ==
        LET q == req[r]
        IN  /\ entities[q.vault][q.path].version = q.base
            /\ q.from # NoPath => entities[q.vault][q.from] = q.old
<1>1. ASSUME IInv, [Next]_vars, NEW r \in Requests, Applies(r) PROVE Kept(r)
  <2>1. CommitWrite(r)
    <3>1. req[r].pc = "commit" /\ req'[r].pc \in {"unstage", "applied"}
        BY <1>1 DEF Applies
    <3>2. ~(Arrive(r) \/ Fail(r))
        BY <1>1, <3>1 DEF Arrive, PutEntity, DeleteEntity, Opened, At, Fail, Goto,
                    IInv, TypeInv, TypeOK, Request
    <3>3. CASE Handle(r)
        BY <1>1, <3>1, <3>3
        DEF Handle, ReadStaged, ReadStored, ReadCurrent, EnforceQuota, FinalizeBlob, ReadOld,
            Commit, CommitWrite, Abort, Unstage, Respond, Answers, At, Goto,
            IInv, TypeInv, TypeOK, Request
    <3> QED BY <1>1, <3>1, <3>2, <3>3, OwnSteps DEF IInv
  <2>2. /\ req[r].cur = entities[req[r].vault][req[r].path]
        /\ req[r].from # NoPath => req[r].old = entities[req[r].vault][req[r].from]
      BY <1>1, <2>1, FreshRows
  <2>3. req[r].cur.version = req[r].base
      BY <1>1, <2>1 DEF CommitWrite, At, IInv, ReadsSeen
  <2> QED BY <2>2, <2>3
<1>2. IInv /\ [Next]_vars => [\A r \in Requests : Applies(r) => Kept(r)]_vars
    BY <1>1
<1> HIDE DEF Kept
<1>3. Spec => [][\A r \in Requests : Applies(r) => Kept(r)]_vars
    BY <1>2, StoreInvariant, PTL DEF Spec
<1> QED BY <1>3 DEF NoLostUpdate, Kept

----------------------------------------------------------------------------
(***************************************************************************)
(* The pipeline implements the atomic versioned vault: what each step of   *)
(* the store does to the vaults removed for good, the sequences, the       *)
(* cells and the calls of VersionedVault.                                  *)
(***************************************************************************)
Gone  == {v \in Vaults : life[v] = "purged"}
Calls == [r \in Requests |-> CallOf(req[r])]

SameMutation(q, new) ==
    /\ new.op = q.op /\ new.vault = q.vault /\ new.path = q.path
    /\ new.base = q.base /\ new.blob = q.blob /\ new.from = q.from

LEMMA StatesOf ==
    /\ StateOf("idle") = "idle"
    /\ \A pc \in Steps \ {"unstage"} : StateOf(pc) = "open"
    /\ StateOf("unstage") = "applied" /\ StateOf("applied") = "applied"
    /\ StateOf("conflict") = "conflict"
    /\ \A pc \in {"missing", "overquota", "clash", "failed"} : StateOf(pc) = "refused"
BY DEF StateOf, Steps

LEMMA CallShape ==
    ASSUME NEW q \in Request, q.pc # "idle"
    PROVE  /\ CallOf(q).st = StateOf(q.pc)
           /\ SameMutation(q, CallOf(q))
BY DEF CallOf, SameMutation

\* A step of a request under way is a step of its call, or none of it.
LEMMA CallStep ==
    ASSUME TypeInv, NEW r \in Requests, NEW q \in Request, req' = [req EXCEPT ![r] = q],
           req[r].pc # "idle", q.pc # "idle", SameMutation(req[r], q)
    PROVE  /\ Calls' = [Calls EXCEPT ![r] = Abstract!Call(Calls[r], StateOf(q.pc))]
           /\ StateOf(q.pc) = StateOf(req[r].pc) => Calls' = Calls
<1>1. Calls' = [Calls EXCEPT ![r] = CallOf(q)]
    BY DEF Calls, TypeInv, TypeOK
<1>2. Calls[r] = CallOf(req[r]) /\ req[r] \in Request
    BY DEF Calls, TypeInv, TypeOK
<1>3. CallOf(q) = Abstract!Call(CallOf(req[r]), StateOf(q.pc))
    BY DEF CallOf, SameMutation, Abstract!Call
<1>4. StateOf(q.pc) = StateOf(req[r].pc) => CallOf(q) = CallOf(req[r])
    BY DEF CallOf, SameMutation
<1>5. Calls = [Calls EXCEPT ![r] = Calls[r]]
    BY DEF Calls
<1> QED BY <1>1, <1>2, <1>3, <1>4, <1>5

LEMMA CallGoto ==
    ASSUME TypeInv, NEW r \in Requests, NEW step \in Steps \cup Answers,
           req[r].pc # "idle", Goto(r, step)
    PROVE  /\ Calls' = [Calls EXCEPT ![r] = Abstract!Call(Calls[r], StateOf(step))]
           /\ StateOf(step) = StateOf(req[r].pc) => Calls' = Calls
<1> DEFINE q == [req[r] EXCEPT !.pc = step]
<1>1. req[r] \in Request
    BY DEF TypeInv, TypeOK
<1>2. q \in Request /\ q.pc = step /\ SameMutation(req[r], q) /\ step # "idle"
    BY <1>1 DEF Request, SameMutation, Steps, Answers
<1>3. req' = [req EXCEPT ![r] = q]
    BY DEF Goto
<1> HIDE DEF q
<1> QED BY <1>2, <1>3, CallStep

\* A step that moves a call on and touches no table.
Unseen == UNCHANGED <<life, seq, entities>> /\ Calls' = Calls

LEMMA UnseenStutters == Unseen => UNCHANGED Abstract!vars
BY DEF Unseen, Abstract!vars, Calls, Gone

\* An arrival opens a call of a mutation that names a version the path has had.
LEMMA ArriveOpens ==
    ASSUME IInv, NEW r \in Requests, Arrive(r)
    PROVE  Abstract!Open(r)
<1>1. PICK op \in {"put", "delete"}, v \in Vaults, p \in Paths, base \in Nat,
           b \in Blobs \cup {NoBlob}, from \in Paths \cup {NoPath} :
         /\ At(r, "idle") /\ from # p /\ base \in 0 .. entities[v][p].version
         /\ req' = [req EXCEPT ![r] = Opened(op, v, p, base, b, from)]
         /\ UNCHANGED rows
  <2>1. ASSUME NEW v \in Vaults, NEW p \in Paths, NEW base \in 0 .. entities[v][p].version,
               DeleteEntity(r, v, p, base)
        PROVE  /\ At(r, "idle") /\ NoPath # p
               /\ req' = [req EXCEPT ![r] = Opened("delete", v, p, base, NoBlob, NoPath)]
               /\ UNCHANGED rows
      BY <2>1, NullAssumption DEF DeleteEntity
  <2>2. ASSUME NEW v \in Vaults, NEW p \in Paths, NEW base \in 0 .. entities[v][p].version,
               NEW b \in Blobs \cup {NoBlob}, NEW from \in Paths \cup {NoPath},
               PutEntity(r, v, p, base, b, from)
        PROVE  /\ At(r, "idle") /\ from # p
               /\ req' = [req EXCEPT ![r] = Opened("put", v, p, base, b, from)]
               /\ UNCHANGED rows
      BY <2>2 DEF PutEntity
  <2> QED BY <2>1, <2>2 DEF Arrive
<1> DEFINE m == [op |-> op, vault |-> v, path |-> p, base |-> base, blob |-> b, from |-> from]
           q == Opened(op, v, p, base, b, from)
<1>2. m \in Abstract!Mutations(v, p)
    BY <1>1 DEF Abstract!Mutations
<1>3. q.pc \in {"current", "resolve"} /\ SameMutation(m, q)
    BY DEF Opened, SameMutation
<1>4. CallOf(q) = Abstract!Call(m, "open")
  <2>1. StateOf(q.pc) = "open" /\ q.pc # "idle"
      BY <1>3, StatesOf DEF Steps
  <2> HIDE DEF m, q
  <2> QED BY <1>3, <2>1 DEF CallOf, SameMutation, Abstract!Call
<1> HIDE DEF m, q
<1>5. Calls' = [Calls EXCEPT ![r] = Abstract!Call(m, "open")]
    BY <1>1, <1>4 DEF Calls, IInv, TypeInv, TypeOK, q
<1>6. Calls[r].st = "idle" /\ Calls'[r].st = "open"
    BY <1>1, <1>5 DEF Calls, CallOf, At, Abstract!Call
<1>7. \E u \in Vaults, x \in Paths : \E k \in Abstract!Mutations(u, x) :
         Calls' = [Calls EXCEPT ![r] = Abstract!Call(k, "open")]
    BY <1>2, <1>5
<1>8. UNCHANGED <<Gone, seq, entities>>
    BY <1>1 DEF rows, Gone
<1> QED BY <1>6, <1>7, <1>8 DEF Abstract!Open, Calls, Gone

\* The transaction is where a mutation takes effect: its base is the version of its
\* cell, and its rows are the cells the abstract vault computes.
LEMMA CommitTakes ==
    ASSUME IInv, NEW r \in Requests, CommitWrite(r)
    PROVE  Abstract!Take(r)
<1> DEFINE q   == req[r]
           m   == Calls[r]
           n   == seq[q.vault] + 1
           w   == Writes(q, n)
           old == entities[q.vault]
<1>1. q \in Request /\ q.pc = "commit" /\ q.vault \in Vaults /\ q.path \in Paths
      /\ q.from # q.path /\ life[q.vault] # "purged"
    BY DEF CommitWrite, At, IInv, TypeInv, TypeOK, RequestsFormed, Request
<1>2. m.st = "open" /\ SameMutation(q, m)
  <2>1. m = CallOf(q) /\ StateOf(q.pc) = "open"
      BY <1>1, StatesOf DEF Calls, Steps
  <2> QED BY <1>1, <2>1, CallShape
<1>3. q.cur = old[q.path] /\ (q.from # NoPath => q.old = old[q.from])
    BY FreshRows
<1>4. q.base = old[q.path].version
    BY <1>1, <1>3 DEF IInv, ReadsSeen
<1>5. seq' = [seq EXCEPT ![q.vault] = n]
    BY CommitAdds
<1>6. \A p \in Paths : (IF p \in DOMAIN w THEN w[p] ELSE old[p])
         = IF p = q.path THEN Abstract!Taken(m, old[p], n)
           ELSE IF p = q.from THEN Abstract!Buried(old[p], n)
           ELSE old[p]
  <2>1. NewRow(q, n) = Abstract!Taken(m, old[q.path], n)
      BY <1>2, <1>3 DEF NewRow, Abstract!Taken, SameMutation
  <2>2. q.from # NoPath => OldRow(q, n) = Abstract!Buried(old[q.from], n)
      BY <1>3 DEF OldRow, Abstract!Buried
  <2>3. \A p \in Paths : p \in DOMAIN w <=> p = q.path \/ p = q.from
      BY NullAssumption DEF Writes
  <2>4. \A p \in DOMAIN w : w[p] = IF p = q.path THEN NewRow(q, n) ELSE OldRow(q, n)
      BY DEF Writes
  <2> HIDE DEF w
  <2> QED BY <2>1, <2>2, <2>3, <2>4, NullAssumption
<1>7. entities' = [entities EXCEPT ![q.vault] =
                     [p \in Paths |-> IF p \in DOMAIN w THEN w[p] ELSE old[p]]]
    BY <1>1 DEF CommitWrite, Write, IInv, TypeInv, TypeOK
<1>8. Calls' = [Calls EXCEPT ![r] = Abstract!Call(m, "applied")]
  <2> DEFINE step == IF q.blob = NoBlob THEN "applied" ELSE "unstage"
  <2>1. Goto(r, step) /\ step \in Steps \cup Answers /\ StateOf(step) = "applied"
      BY StatesOf DEF CommitWrite, Write, Steps, Answers
  <2> QED BY <1>1, <2>1, CallGoto DEF IInv
<1>9. Gone' = Gone /\ q.vault \notin Gone
    BY <1>1 DEF CommitWrite, Write, Gone
<1>10. entities' = [entities EXCEPT ![q.vault] =
                      [p \in Paths |->
                         IF p = q.path THEN Abstract!Taken(m, old[p], n)
                         ELSE IF p = q.from THEN Abstract!Buried(old[p], n)
                         ELSE old[p]]]
  <2> HIDE DEF w, old, n
  <2> QED BY <1>6, <1>7
<1> HIDE DEF m
<1>11. m.vault = q.vault /\ m.path = q.path /\ m.base = q.base /\ m.from = q.from
    BY <1>2 DEF SameMutation
<1>12. LET before == entities[m.vault]
           last   == seq[m.vault] + 1
       IN  /\ m.st = "open" /\ m.vault \notin Gone
           /\ m.base = before[m.path].version
           /\ seq' = [seq EXCEPT ![m.vault] = last]
           /\ entities' = [entities EXCEPT ![m.vault] =
                             [p \in Paths |->
                                IF p = m.path THEN Abstract!Taken(m, before[p], last)
                                ELSE IF p = m.from THEN Abstract!Buried(before[p], last)
                                ELSE before[p]]]
           /\ Calls' = [Calls EXCEPT ![r] = Abstract!Call(m, "applied")]
           /\ Gone' = Gone
    BY <1>2, <1>4, <1>5, <1>8, <1>9, <1>10, <1>11
<1> QED BY <1>12 DEF Abstract!Take, Calls, Gone, m

\* Every other step of a handler is a refusal, a conflict, the answer, or nothing
\* the abstract vault sees.
LEMMA HandleRefines ==
    ASSUME IInv, NEW r \in Requests, Handle(r), ~CommitWrite(r)
    PROVE  Unseen \/ Abstract!TurnAway(r) \/ Abstract!Refuse(r) \/ Abstract!Close(r)
<1> DEFINE q == req[r]
<1>1. q \in Request /\ Calls[r] = CallOf(q) /\ TypeInv
    BY DEF Calls, IInv, TypeInv, TypeOK
<1>2. ASSUME NEW step \in Steps \cup Answers, Goto(r, step), q.pc \in Steps \ {"unstage"},
             StateOf(step) = "refused", UNCHANGED rows
      PROVE  Abstract!Refuse(r)
  <2>1. Calls[r].st = "open"
      BY <1>1, <1>2, CallShape, StatesOf DEF Steps
  <2>2. Calls' = [Calls EXCEPT ![r] = Abstract!Call(Calls[r], "refused")]
      BY <1>1, <1>2, CallGoto DEF Steps
  <2>3. UNCHANGED <<Gone, seq, entities>>
      BY <1>2 DEF rows, Gone
  <2> QED BY <2>1, <2>2, <2>3 DEF Abstract!Refuse, Calls, Gone
<1>3. ASSUME NEW step \in Steps \ {"unstage"}, Goto(r, step), q.pc \in Steps \ {"unstage"},
             UNCHANGED rows
      PROVE  Unseen
  <2>1. StateOf(step) = StateOf(q.pc) /\ q.pc # "idle"
      BY <1>3, StatesOf DEF Steps
  <2>2. Calls' = Calls
      BY <1>1, <1>3, <2>1, CallGoto
  <2> QED BY <1>3, <2>2 DEF Unseen, rows
<1>4. ASSUME NEW new \in Request, req' = [req EXCEPT ![r] = new], SameMutation(q, new),
             q.pc \in Steps \ {"unstage"}, new.pc \in Steps \ {"unstage"}, UNCHANGED rows
      PROVE  Unseen
  <2>1. StateOf(new.pc) = StateOf(q.pc) /\ q.pc # "idle" /\ new.pc # "idle"
      BY <1>4, StatesOf DEF Steps
  <2>2. Calls' = Calls
      BY <1>1, <1>4, <2>1, CallStep
  <2> QED BY <1>4, <2>2 DEF Unseen, rows
<1>5. CASE ReadStaged(r)
    BY <1>3, <1>5 DEF ReadStaged, At, Steps
<1>6. CASE ReadStored(r)
  <2>1. CASE q.blob \in blobs
      BY <1>3, <1>6, <2>1 DEF ReadStored, At, Steps
  <2>2. CASE q.blob \notin blobs
      BY <1>2, <1>6, <2>2, StatesOf DEF ReadStored, At, Steps, Answers
  <2> QED BY <2>1, <2>2
<1>7. CASE ReadCurrent(r)
  <2> DEFINE entry == entities[q.vault][q.path]
             new == [q EXCEPT !.cur = entry, !.pc = NextStep(q)]
  <2>1. q.pc = "current" /\ entry \in Row /\ UNCHANGED rows
      BY <1>1, <1>7 DEF ReadCurrent, At, TypeInv, TypeOK, Request, rows
  <2>2. CASE q.base # entry.version
    <3>1. Goto(r, "conflict")
        BY <1>7, <2>2 DEF ReadCurrent
    <3>2. Calls[r].st = "open" /\ SameMutation(q, Calls[r])
        BY <1>1, <2>1, CallShape, StatesOf DEF Steps
    <3>3. Calls' = [Calls EXCEPT ![r] = Abstract!Call(Calls[r], "conflict")]
        BY <1>1, <2>1, <3>1, CallGoto, StatesOf DEF Answers
    <3>4. Calls[r].base # entities[Calls[r].vault][Calls[r].path].version
        BY <2>2, <3>2 DEF SameMutation
    <3>5. UNCHANGED <<Gone, seq, entities>>
        BY <2>1 DEF rows, Gone
    <3> QED BY <3>2, <3>3, <3>4, <3>5 DEF Abstract!TurnAway, Calls, Gone
  <2>3. CASE q.base = entry.version
    <3>1. req' = [req EXCEPT ![r] = new]
        BY <1>7, <2>3 DEF ReadCurrent
    <3>2. new \in Request /\ SameMutation(q, new) /\ new.pc \in Steps \ {"unstage"}
        BY <1>1, <2>1 DEF Request, SameMutation, NextStep, Steps
    <3> HIDE DEF new
    <3> QED BY <1>4, <2>1, <3>1, <3>2 DEF Steps
  <2> QED BY <2>2, <2>3
<1>8. CASE EnforceQuota(r)
  <2>1. CASE WithinQuota(q)
      BY <1>3, <1>8, <2>1 DEF EnforceQuota, At, Steps
  <2>2. CASE ~WithinQuota(q)
      BY <1>2, <1>8, <2>2, StatesOf DEF EnforceQuota, At, Steps, Answers
  <2> QED BY <2>1, <2>2
<1>9. CASE FinalizeBlob(r)
  <2> DEFINE new == [q EXCEPT !.fresh = q.blob \notin blobs,
                              !.pc = IF q.from # NoPath THEN "old" ELSE "commit"]
  <2>1. q.pc = "blob" /\ req' = [req EXCEPT ![r] = new] /\ UNCHANGED rows
      BY <1>9 DEF FinalizeBlob, At
  <2>2. new \in Request /\ SameMutation(q, new) /\ new.pc \in Steps \ {"unstage"}
      BY <1>1 DEF Request, SameMutation, Steps
  <2> HIDE DEF new
  <2> QED BY <1>4, <2>1, <2>2 DEF Steps
<1>10. CASE ReadOld(r)
  <2> DEFINE entry == entities[q.vault][q.from]
             new == [q EXCEPT !.old = entry, !.pc = "commit"]
  <2>1. q.pc = "old" /\ req' = [req EXCEPT ![r] = new] /\ entry \in Row /\ UNCHANGED rows
      BY <1>1, <1>10 DEF ReadOld, At, TypeInv, TypeOK, RequestsFormed, Request
  <2>2. new \in Request /\ SameMutation(q, new) /\ new.pc \in Steps \ {"unstage"}
      BY <1>1, <2>1 DEF Request, SameMutation, Steps
  <2> HIDE DEF new
  <2> QED BY <1>4, <2>1, <2>2 DEF Steps
<1>11. CASE Commit(r)
  <2>1. q.pc = "commit" /\ (Abort(r, "clash") \/ Abort(r, "failed"))
      BY <1>11 DEF Commit, CommitWrite, At
  <2> QED BY <1>2, <2>1, StatesOf DEF Abort, Steps, Answers
<1>12. CASE Unstage(r)
  <2>1. q.pc = "unstage" /\ Goto(r, "applied") /\ UNCHANGED rows
      BY <1>12 DEF Unstage, At
  <2>2. Calls' = Calls
      BY <1>1, <2>1, CallGoto, StatesOf DEF Answers
  <2> QED BY <2>1, <2>2 DEF Unseen, rows
<1>13. CASE Respond(r)
  <2>1. q.pc \in Answers /\ q.pc # "idle" /\ req' = [req EXCEPT ![r] = Idle] /\ UNCHANGED rows
      BY <1>13 DEF Respond, Answers
  <2>2. Calls[r].st \in {"applied", "conflict", "refused"}
      BY <1>1, <2>1, CallShape, StatesOf DEF Answers
  <2>3. Calls' = [Calls EXCEPT ![r] = Abstract!NoCall]
      BY <2>1, IdleIsRequest DEF Calls, CallOf, Abstract!NoCall, IInv, TypeInv, TypeOK
  <2>4. UNCHANGED <<Gone, seq, entities>>
      BY <2>1 DEF rows, Gone
  <2> QED BY <2>2, <2>3, <2>4 DEF Abstract!Close, Calls, Gone
<1> QED BY <1>5, <1>6, <1>7, <1>8, <1>9, <1>10, <1>11, <1>12, <1>13 DEF Handle

LEMMA FailRefuses ==
    ASSUME IInv, NEW r \in Requests, Fail(r)
    PROVE  Abstract!Refuse(r)
<1>1. req[r] \in Request /\ req[r].pc \in Steps /\ req[r].pc # "idle"
      /\ Goto(r, "failed") /\ UNCHANGED rows
    BY DEF Fail, IInv, TypeInv, TypeOK, Steps
<1>2. Calls[r].st \in {"open", "applied"}
    BY <1>1, CallShape, StatesOf DEF Calls, Steps
<1>3. Calls' = [Calls EXCEPT ![r] = Abstract!Call(Calls[r], "refused")]
    BY <1>1, CallGoto, StatesOf DEF Answers, IInv
<1>4. UNCHANGED <<Gone, seq, entities>>
    BY <1>1 DEF rows, Gone
<1> QED BY <1>2, <1>3, <1>4 DEF Abstract!Refuse, Calls, Gone

LEMMA RefineInit == Init => Abstract!Init
<1> SUFFICES ASSUME Init PROVE Abstract!Init
    OBVIOUS
<1>1. Gone = {} /\ Calls = [r \in Requests |-> Abstract!NoCall]
    BY IdleIsRequest DEF Init, Gone, Calls, CallOf, Abstract!NoCall
<1>2. Absent = Abstract!Empty
    BY DEF Absent, Abstract!Empty
<1> QED BY <1>1, <1>2 DEF Init, Abstract!Init, Gone, Calls

LEMMA RefineStep == IInv /\ [Next]_vars => [Abstract!Next]_(Abstract!vars)
<1> SUFFICES ASSUME IInv, [Next]_vars
             PROVE  Abstract!Next \/ UNCHANGED Abstract!vars
    OBVIOUS
<1>1. ASSUME NEW r \in Requests, Arrive(r) PROVE Abstract!Next
    BY <1>1, ArriveOpens DEF Abstract!Next
<1>2. ASSUME NEW r \in Requests, CommitWrite(r) PROVE Abstract!Next
    BY <1>2, CommitTakes DEF Abstract!Next
<1>3. ASSUME NEW r \in Requests, Handle(r), ~CommitWrite(r)
      PROVE  Abstract!Next \/ UNCHANGED Abstract!vars
    BY <1>3, HandleRefines, UnseenStutters DEF Abstract!Next
<1>4. ASSUME NEW r \in Requests, Fail(r) PROVE Abstract!Next
    BY <1>4, FailRefuses DEF Abstract!Next
<1>5. ASSUME NEW b \in Blobs, StageBlob(b) PROVE UNCHANGED Abstract!vars
    BY <1>5, UnseenStutters DEF StageBlob, rows, Unseen, Calls
<1>6. ASSUME NEW v \in Disposable, SoftDeleteVault(v) \/ RestoreVault(v)
      PROVE  UNCHANGED Abstract!vars
  <2>1. v \in Vaults /\ UNCHANGED <<seq, entities, req>>
      BY <1>6, BoundAssumption DEF SoftDeleteVault, RestoreVault
  <2>2. Gone' = Gone
      BY <1>6, <2>1 DEF SoftDeleteVault, RestoreVault, Gone, IInv, TypeInv, TypeOK
  <2> QED BY <2>1, <2>2 DEF Abstract!vars, Gone
<1>7. ASSUME NEW v \in Disposable, PurgeVault(v) PROVE Abstract!Next
  <2>1. v \in Vaults /\ req' = req /\ seq' = [seq EXCEPT ![v] = 0]
        /\ entities' = [entities EXCEPT ![v] = [p \in Paths |-> Absent]]
      BY <1>7, BoundAssumption DEF PurgeVault
  <2>2. Gone' = Gone \cup {v}
      BY <1>7, <2>1 DEF PurgeVault, Gone, IInv, TypeInv, TypeOK
  <2>3. Absent = Abstract!Empty
      BY DEF Absent, Abstract!Empty
  <2>4. Abstract!Remove(v)
      BY <2>1, <2>2, <2>3 DEF Abstract!Remove, Gone
  <2> QED BY <2>1, <2>4 DEF Abstract!Next
<1>8. CASE UNCHANGED vars
    BY <1>8, UnseenStutters DEF vars, Unseen, Calls
<1> QED BY <1>1, <1>2, <1>3, <1>4, <1>5, <1>6, <1>7, <1>8 DEF Next

\* The store implements the atomic versioned vault its clients are promised: however
\* the statements of concurrent requests interleave and wherever they fail, each
\* mutation is one compare-and-swap at its transaction, a conflict or nothing.
THEOREM AtomicVault == Spec => Linearizable
<1>1. Init => Abstract!Init
    BY RefineInit
<1>2. IInv /\ [Next]_vars => [Abstract!Next]_(Abstract!vars)
    BY RefineStep
<1> QED BY <1>1, <1>2, StoreInvariant, PTL DEF Spec, Linearizable, Abstract!Spec

-----------------------------------------------------------------------------
(***************************************************************************)
(* The change feed: what it loses and what it never loses, for any number  *)
(* of devices.                                                             *)
(*                                                                         *)
(* The argument: SeqOrdersMutations makes the cursor a point in the        *)
(* vault's history.  A page read when the sequence stood at `at` brings    *)
(* every path whose newest row lies past the old cursor up to that row, so *)
(* whatever was committed up to `at` is known once the page is adopted;    *)
(* what the new cursor covers beyond that was committed between the two    *)
(* statements.  A device knows a version only if its cursor covers it.     *)
(***************************************************************************)

\* A device's state f over its vault's rows e, history H and sequence n.
Following(f, e, H, n) ==
    /\ f.cursor <= n
    /\ \A p \in Paths : f.known[p] <= e[p].version
    /\ \A h \in H : h.seq <= f.cursor /\ h.seq \notin f.raced => f.known[h.path] >= h.version
    /\ \A h \in H : f.known[h.path] >= h.version => h.seq <= f.cursor

\* A page in flight: read when the sequence was f.at, it is complete up to there.
Paging(f, e, H, n) ==
    /\ f.cursor <= f.at /\ f.at <= n
    /\ \A p \in Paths :
          f.page[p] <= e[p].version /\ (f.page[p] # 0 => f.known[p] <= f.page[p])
    /\ \A h \in H : f.cursor < h.seq /\ h.seq <= f.at => f.page[h.path] >= h.version

FollowInv(f, e, H, n) == Following(f, e, H, n) /\ (f.pc = "rows" => Paging(f, e, H, n))

Follower(d) == LET v == Follows[d]
               IN  FollowInv(feed[d], entities[v], versions[v], seq[v])

StoreInv == IInv /\ SeqOrdersMutations

FeedInv == StoreInv /\ FeedTypeOK /\ \A d \in Readers : Followed(d) => Follower(d)

----------------------------------------------------------------------------
(***************************************************************************)
(* A vault's rows, history and sequence                                    *)
(***************************************************************************)
\* What the feed needs of a vault that is not purged: the current row of a path is
\* its newest in the history, and no sequence number is past the vault's.
LEMMA VaultFacts ==
    ASSUME StoreInv, NEW v \in Vaults
    PROVE  /\ seq[v] \in Nat
           /\ entities[v] \in [Paths -> Row]
           /\ versions[v] \subseteq HistoryRow
           /\ \A h \in versions[v] :
                 /\ h.seq \in 1 .. seq[v]
                 /\ h.version \in 1 .. entities[v][h.path].version
                 /\ h.seq <= entities[v][h.path].seq
           /\ \A p \in Paths : entities[v][p].version # 0 =>
                 AsHistory(p, entities[v][p]) \in versions[v]
<1>1. /\ seq[v] \in Nat
      /\ entities[v] \in [Paths -> Row]
      /\ versions[v] \subseteq HistoryRow
    BY DEF StoreInv, IInv, TypeInv, TypeOK
<1>2. ASSUME NEW p \in Paths, entities[v][p].version # 0
      PROVE  AsHistory(p, entities[v][p]) \in versions[v]
  <2>1. entities[v][p].version \in 1 .. entities[v][p].version
      BY <1>1, <1>2 DEF Row
  <2>2. PICK h \in HistoryOf(v, p) : h.version = entities[v][p].version
      BY <2>1 DEF StoreInv, IInv, HistoryMatchesState
  <2>3. h = AsHistory(p, entities[v][p]) /\ h \in versions[v]
      BY <2>2 DEF StoreInv, IInv, HistoryMatchesState, HistoryOf
  <2> QED BY <2>3
<1>3. ASSUME NEW h \in versions[v]
      PROVE  /\ h.seq \in 1 .. seq[v]
             /\ h.version \in 1 .. entities[v][h.path].version
             /\ h.seq <= entities[v][h.path].seq
  <2> DEFINE entry == entities[v][h.path]
             new == AsHistory(h.path, entry)
  <2>1. h \in HistoryRow /\ h.path \in Paths /\ entry \in Row /\ h.seq \in Nat /\ h.version \in Nat
      BY <1>1 DEF HistoryRow
  <2>2. h \in HistoryOf(v, h.path)
      BY DEF HistoryOf
  <2>3. h.version \in 1 .. entry.version
      BY <2>1, <2>2 DEF StoreInv, IInv, HistoryMatchesState
  <2>4. h.seq \in 1 .. seq[v]
      BY DEF StoreInv, SeqOrdersMutations
  <2>5. h.seq <= entry.seq
    <3>1. CASE h.version = entry.version
      <4>1. h = new
          BY <2>1, <2>2, <3>1 DEF StoreInv, IInv, HistoryMatchesState
      <4> QED BY <2>1, <4>1 DEF AsHistory, Row
    <3>2. CASE h.version # entry.version
      <4>1. new \in versions[v] /\ new.path = h.path /\ new.version = entry.version /\ new.seq = entry.seq
          BY <1>2, <2>1, <2>3 DEF AsHistory
      <4>2. h.version < entry.version
          BY <2>1, <2>3, <3>2 DEF Row
      <4>3. h.seq < entry.seq
        <5> HIDE DEF new
        <5> QED BY <4>1, <4>2 DEF StoreInv, SeqOrdersMutations
      <4> QED BY <2>1, <4>3 DEF Row
    <3> QED BY <3>1, <3>2
  <2> QED BY <2>3, <2>4, <2>5
<1> QED BY <1>1, <1>2, <1>3

----------------------------------------------------------------------------
(***************************************************************************)
(* The invariant                                                           *)
(***************************************************************************)
LEMMA FeedInvInit == FeedInit => FeedInv
<1> SUFFICES ASSUME FeedInit PROVE FeedInv
    OBVIOUS
<1>1. StoreInv
    BY InvInit, OrderInit DEF FeedInit, StoreInv
<1>2. FeedTypeOK
    BY DEF FeedInit, FeedTypeOK, Reader, Nothing
<1>3. ASSUME NEW d \in Readers PROVE Follower(d)
  <2>1. Follows[d] \in Vaults
      BY FollowsAssumption
  <2> QED BY <2>1 DEF FeedInit, Init, Follower, FollowInv, Following, Nothing, Absent
<1> QED BY <1>1, <1>2, <1>3 DEF FeedInv

\* A mutation of the vault adds rows past every cursor and every page.
LEMMA FollowerKept ==
    ASSUME FeedInv, [Next]_vars, UNCHANGED feed, NEW d \in Readers, Followed(d)'
    PROVE  Follower(d)'
<1> DEFINE v == Follows[d]
           f == feed[d]
<1>1. v \in Vaults /\ f \in Reader /\ feed'[d] = f
    BY FollowsAssumption DEF FeedInv, FeedTypeOK
<1>2. IInv /\ TypeInv
    BY DEF FeedInv, StoreInv, IInv
<1>3. Follower(d)
  <2>1. life[v] # "purged"
      BY <1>1, <1>2, RowsMoveOn, SomeAssumption DEF Followed
  <2> QED BY <2>1 DEF FeedInv, Followed
<1>4. CASE entities'[v] = entities[v] /\ versions'[v] = versions[v] /\ seq'[v] = seq[v]
    BY <1>1, <1>3, <1>4 DEF Follower
<1>5. CASE Flags
    BY <1>4, <1>5 DEF Flags
<1>6. CASE Purge
  <2>1. PICK u \in Vaults : /\ life' = [life EXCEPT ![u] = "purged"]
                            /\ seq' = [seq EXCEPT ![u] = 0]
                            /\ entities' = [entities EXCEPT ![u] = [p \in Paths |-> Absent]]
                            /\ versions' = [versions EXCEPT ![u] = {}]
      BY <1>6 DEF Purge
  <2>2. u # v
      BY <1>2, <2>1 DEF Followed, TypeInv, TypeOK
  <2> QED BY <1>1, <1>2, <1>4, <2>1, <2>2 DEF TypeInv, TypeOK
<1>7. ASSUME NEW r \in Requests, CommitWrite(r) PROVE Follower(d)'
  <2> DEFINE q == req[r]
             n == seq[q.vault] + 1
             w == Writes(q, n)
             A == {AsHistory(p, w[p]) : p \in DOMAIN w}
  <2>1. CASE v # q.vault
    <3>1. entities'[v] = entities[v] /\ versions'[v] = versions[v]
        BY <1>1, <1>2, <1>7, <2>1, CommitRows
    <3>2. seq'[v] = seq[v]
        BY <1>1, <1>2, <1>7, <2>1, CommitAdds DEF TypeInv, TypeOK
    <3> QED BY <1>4, <3>1, <3>2
  <2>2. CASE v = q.vault
    <3>1. /\ seq'[v] = seq[v] + 1
          /\ versions'[v] = versions[v] \cup A
          /\ A \subseteq HistoryRow
          /\ \A a \in A : a.seq = seq[v] + 1
      <4>1. /\ seq' = [seq EXCEPT ![q.vault] = n]
            /\ versions'[q.vault] = versions[q.vault] \cup A
            /\ A \in SUBSET HistoryRow
            /\ \A a \in A : a.seq = n
          BY <1>2, <1>7, CommitAdds
      <4> HIDE DEF A
      <4> QED BY <1>1, <1>2, <2>2, <4>1 DEF TypeInv, TypeOK
    <3>2. \A p \in Paths : /\ entities[v][p].version \in Nat
                           /\ entities'[v][p].version \in Nat
                           /\ entities'[v][p].version >= entities[v][p].version
      <4>1. TypeInv'
          BY <1>2, TypeStep
      <4>2. \A p \in Paths : entities[v][p] \in Row /\ entities'[v][p] \in Row
                              /\ Seen(entities[v][p], entities'[v][p])
          BY <1>1, <1>2, <4>1, RowsMoveOn DEF Followed, TypeInv, TypeOK
      <4> QED BY <4>2 DEF Seen, Row
    <3>3. \A a \in A : a.path \in Paths /\ a.version = entities[v][a.path].version + 1
      <4>1. \A p \in DOMAIN w : p \in Paths /\ w[p].version = entities[q.vault][p].version + 1
          BY <1>2, <1>7, CommitRows
      <4> HIDE DEF w
      <4> QED BY <2>2, <4>1 DEF AsHistory
    <3>4. seq[v] \in Nat /\ \A h \in versions[v] : h.path \in Paths /\ h.version \in Nat /\ h.seq \in Nat
        BY <1>1, VaultFacts DEF FeedInv, HistoryRow
    <3>5. f.cursor \in Nat /\ f.at \in Nat /\ f.known \in [Paths -> Nat] /\ f.page \in [Paths -> Nat]
        BY <1>1 DEF Reader
    <3> HIDE DEF A, w, n, f
    <3>6. Following(f, entities[v], versions[v], seq[v])
        BY <1>3 DEF Follower, FollowInv, f
    <3>7. Following(f, entities'[v], versions'[v], seq'[v])
        BY <3>1, <3>2, <3>3, <3>4, <3>5, <3>6 DEF Following
    <3>8. ASSUME f.pc = "rows" PROVE Paging(f, entities'[v], versions'[v], seq'[v])
      <4>1. Paging(f, entities[v], versions[v], seq[v])
          BY <1>3, <3>8 DEF Follower, FollowInv, f
      <4> QED BY <3>1, <3>2, <3>3, <3>4, <3>5, <4>1 DEF Paging
    <3> QED BY <1>1, <3>7, <3>8 DEF Follower, FollowInv, f
  <2> QED BY <2>1, <2>2
<1> QED BY <1>2, <1>5, <1>6, <1>7, StepKinds

\* The rows of an answer are complete up to the sequence when they were read.
LEMMA ReadRowsStep ==
    ASSUME FeedInv, NEW d \in Readers, ReadRows(d)
    PROVE  feed'[d] \in Reader /\ Follower(d)'
<1> DEFINE v == Follows[d]
           f == feed[d]
           page == [p \in Paths |->
                      IF p \in ChangedSince(v, f.cursor) THEN entities[v][p].version ELSE 0]
           g == [f EXCEPT !.pc = "rows", !.at = seq[v], !.page = page]
<1>1. v \in Vaults /\ f \in Reader /\ feed'[d] = g /\ UNCHANGED vars
    BY FollowsAssumption DEF FeedInv, FeedTypeOK, ReadRows
<1>2. /\ seq[v] \in Nat
      /\ entities[v] \in [Paths -> Row]
      /\ \A h \in versions[v] : /\ h.path \in Paths /\ h.version \in Nat /\ h.seq \in Nat
                                /\ h.seq <= seq[v]
                                /\ h.version <= entities[v][h.path].version
                                /\ h.seq <= entities[v][h.path].seq
    BY <1>1, VaultFacts DEF FeedInv, HistoryRow
<1>3. page \in [Paths -> Nat]
    BY <1>2 DEF Row
<1>4. /\ g \in Reader /\ g.pc = "rows" /\ g.at = seq[v] /\ g.page = page
      /\ g.cursor = f.cursor /\ g.known = f.known /\ g.raced = f.raced
    BY <1>1, <1>2, <1>3 DEF Reader
<1>5. Following(f, entities[v], versions[v], seq[v])
    BY <1>1 DEF FeedInv, Followed, Follower, FollowInv, ReadRows
<1>6. f.cursor \in Nat /\ f.known \in [Paths -> Nat]
    BY <1>1 DEF Reader
<1>7. \A p \in Paths : /\ page[p] \in {0, entities[v][p].version}
                       /\ entities[v][p].seq > f.cursor => page[p] = entities[v][p].version
    BY DEF ChangedSince
<1> HIDE DEF page, g, f
<1>8. Following(g, entities[v], versions[v], seq[v])
    BY <1>4, <1>5 DEF Following
<1>9. Paging(g, entities[v], versions[v], seq[v])
  <2>1. \A p \in Paths : page[p] <= entities[v][p].version /\ (page[p] # 0 => f.known[p] <= page[p])
      BY <1>2, <1>5, <1>7 DEF Following, Row
  <2>2. \A h \in versions[v] : f.cursor < h.seq => page[h.path] >= h.version
      BY <1>2, <1>6, <1>7 DEF Row
  <2> QED BY <1>2, <1>4, <1>5, <2>1, <2>2 DEF Paging, Following
<1>10. UNCHANGED <<entities, versions, seq>>
    BY <1>1 DEF vars
<1> QED BY <1>1, <1>4, <1>8, <1>9, <1>10 DEF Follower, FollowInv

\* Adopting the page and moving the cursor: what the cursor newly covers is on the
\* page, or was given its number after the page was read.
LEMMA ReadCursorStep ==
    ASSUME FeedInv, NEW d \in Readers, ReadCursor(d)
    PROVE  feed'[d] \in Reader /\ Follower(d)'
<1> DEFINE v == Follows[d]
           f == feed[d]
           known == Adopt(f.known, f.page)
           raced == f.raced \cup (f.at + 1 .. seq[v])
           g == [f EXCEPT !.pc = "idle", !.cursor = seq[v], !.known = known,
                          !.raced = raced, !.page = Nothing, !.at = 0]
<1>1. v \in Vaults /\ f \in Reader /\ f.pc = "rows" /\ feed'[d] = g /\ UNCHANGED vars
    BY FollowsAssumption DEF FeedInv, FeedTypeOK, ReadCursor
<1>2. /\ seq[v] \in Nat
      /\ entities[v] \in [Paths -> Row]
      /\ \A h \in versions[v] : /\ h.path \in Paths /\ h.version \in Nat /\ h.seq \in Nat
                                /\ h.seq <= seq[v] /\ h.version >= 1
    BY <1>1, VaultFacts DEF FeedInv, HistoryRow
<1>3. /\ f.cursor \in Nat /\ f.at \in Nat /\ f.raced \in SUBSET Nat
      /\ f.known \in [Paths -> Nat] /\ f.page \in [Paths -> Nat]
    BY <1>1 DEF Reader
<1>4. known \in [Paths -> Nat] /\ raced \in SUBSET Nat
    BY <1>2, <1>3 DEF Adopt
<1>5. /\ g \in Reader /\ g.pc = "idle" /\ g.cursor = seq[v]
      /\ g.known = known /\ g.raced = raced
    BY <1>1, <1>2, <1>4 DEF Reader, Nothing
<1>6. Following(f, entities[v], versions[v], seq[v]) /\ Paging(f, entities[v], versions[v], seq[v])
    BY <1>1 DEF FeedInv, Followed, Follower, FollowInv, ReadCursor
<1>7. \A p \in Paths : /\ known[p] = IF f.page[p] = 0 THEN f.known[p] ELSE f.page[p]
                       /\ known[p] >= f.known[p] /\ known[p] >= f.page[p]
                       /\ known[p] <= entities[v][p].version
  <2>1. \A p \in Paths : known[p] = IF f.page[p] = 0 THEN f.known[p] ELSE f.page[p]
      BY DEF Adopt
  <2> HIDE DEF known
  <2> QED BY <1>2, <1>3, <1>6, <2>1 DEF Following, Paging, Row
<1>8. ASSUME NEW h \in versions[v], h.seq \notin raced PROVE known[h.path] >= h.version
  <2>1. h.seq \notin f.raced /\ h.seq <= f.at
      BY <1>2, <1>3, <1>8
  <2>2. f.known[h.path] >= h.version \/ f.page[h.path] >= h.version
      BY <1>2, <1>3, <1>6, <2>1 DEF Following, Paging
  <2> HIDE DEF known
  <2> QED BY <1>2, <1>3, <1>4, <1>7, <2>2
<1> HIDE DEF g, known, raced, f
<1>9. Following(g, entities[v], versions[v], seq[v])
    BY <1>2, <1>5, <1>7, <1>8 DEF Following
<1>10. UNCHANGED <<entities, versions, seq>>
    BY <1>1 DEF vars
<1> QED BY <1>1, <1>5, <1>9, <1>10 DEF Follower, FollowInv

\* An answer that is lost leaves the device where it was.
LEMMA FeedFailsStep ==
    ASSUME FeedInv, NEW d \in Readers, FeedFails(d)
    PROVE  feed'[d] \in Reader /\ (Followed(d) => Follower(d)')
<1> DEFINE f == feed[d]
           g == [f EXCEPT !.pc = "idle", !.page = Nothing, !.at = 0]
<1>1. f \in Reader /\ feed'[d] = g /\ UNCHANGED vars
    BY DEF FeedInv, FeedTypeOK, FeedFails
<1>2. /\ g \in Reader /\ g.pc = "idle" /\ g.cursor = f.cursor /\ g.known = f.known
      /\ g.raced = f.raced
    BY <1>1 DEF Reader, Nothing
<1> HIDE DEF g
<1> QED BY <1>1, <1>2 DEF FeedInv, Follower, FollowInv, Following, vars

LEMMA FeedInvStep == FeedInv /\ [FeedNext]_feedVars => FeedInv'
<1> SUFFICES ASSUME FeedInv, [FeedNext]_feedVars PROVE FeedInv'
    OBVIOUS
<1>1. [Next]_vars
    BY DEF FeedNext, feedVars, ReadRows, ReadCursor, FeedFails
<1>2. StoreInv'
    BY <1>1, InvStep, OrderStep DEF FeedInv, StoreInv
<1>3. CASE UNCHANGED feed
  <2>1. FeedTypeOK'
      BY <1>3 DEF FeedInv, FeedTypeOK
  <2> QED BY <1>1, <1>2, <1>3, <2>1, FollowerKept DEF FeedInv
<1>4. ASSUME NEW d \in Readers, ReadRows(d) \/ ReadCursor(d) \/ FeedFails(d)
      PROVE  FeedInv'
  <2>1. UNCHANGED vars
      BY <1>4 DEF ReadRows, ReadCursor, FeedFails
  <2>2. feed'[d] \in Reader /\ (Followed(d) => Follower(d)')
      BY <1>4, ReadRowsStep, ReadCursorStep, FeedFailsStep
  <2>3. DOMAIN feed' = DOMAIN feed /\ (\A e \in Readers \ {d} : feed'[e] = feed[e])
        /\ feed' = [feed EXCEPT ![d] = feed'[d]]
      BY <1>4 DEF ReadRows, ReadCursor, FeedFails, FeedInv, FeedTypeOK
  <2>4. FeedTypeOK'
      BY <2>2, <2>3 DEF FeedInv, FeedTypeOK
  <2>5. \A e \in Readers \ {d} : Followed(e) => Follower(e)'
      BY <2>1, <2>3 DEF FeedInv, Follower, vars
  <2>6. \A e \in Readers : Followed(e)' => Followed(e)
      BY <2>1 DEF Followed, vars
  <2> QED BY <1>2, <2>2, <2>4, <2>5, <2>6 DEF FeedInv
<1> QED BY <1>3, <1>4 DEF FeedNext, feedVars

LEMMA FeedInvariant == FeedSpec => []FeedInv
BY FeedInvInit, FeedInvStep, PTL DEF FeedSpec

----------------------------------------------------------------------------
\* A change that changes_since's cursor covers and the device was not told was
\* committed between the two statements of one of its own answers; nothing else
\* the server or its other clients do loses one.
THEOREM OnlyRacesLose == FeedSpec => []FeedLosesOnlyRaces
<1>1. FeedInv => FeedLosesOnlyRaces
  <2> SUFFICES ASSUME FeedInv, NEW d \in Readers, NEW p \in Paths, Followed(d), Behind(d, p)
               PROVE  entities[Follows[d]][p].seq \in feed[d].raced
      BY DEF FeedLosesOnlyRaces
  <2> DEFINE v   == Follows[d]
             entry == entities[v][p]
             h   == AsHistory(p, entry)
             f   == feed[d]
  <2>1. v \in Vaults /\ f.known \in [Paths -> Nat] /\ entry.seq <= f.cursor /\ f.known[p] # entry.version
      BY FollowsAssumption DEF FeedInv, FeedTypeOK, Reader, Behind
  <2>2. entry \in Row /\ (entry.version # 0 => h \in versions[v])
      BY <2>1, VaultFacts DEF FeedInv
  <2>3. Following(f, entities[v], versions[v], seq[v])
      BY DEF FeedInv, Follower, FollowInv
  <2>4. f.known[p] < entry.version
      BY <2>1, <2>2, <2>3 DEF Following, Row
  <2>5. h \in versions[v] /\ h.path = p /\ h.seq = entry.seq /\ h.version = entry.version
      BY <2>1, <2>2, <2>4 DEF AsHistory
  <2> HIDE DEF h, f
  <2> QED BY <2>1, <2>2, <2>3, <2>4, <2>5 DEF Following, Row, f
<1> QED BY <1>1, FeedInvariant, PTL

\* The two rows of a move (write_state under one sequence number) reach a device
\* together: outside that race, one that was told the new place was told to drop the
\* old one, or something newer there.
THEOREM MovesAreWhole == FeedSpec => []MovesArriveWhole
<1>1. FeedInv => MovesArriveWhole
  <2> SUFFICES ASSUME FeedInv, NEW d \in Readers, Followed(d),
                      NEW g \in versions[Follows[d]], NEW h \in versions[Follows[d]],
                      g.seq = h.seq, g.seq \notin feed[d].raced,
                      feed[d].known[g.path] >= g.version
               PROVE  feed[d].known[h.path] >= h.version
      BY DEF MovesArriveWhole
  <2> QED BY DEF FeedInv, Follower, FollowInv, Following
<1> QED BY <1>1, FeedInvariant, PTL

-----------------------------------------------------------------------------
(***************************************************************************)
(* Delta chains and blob files, for any number of blobs and requests and   *)
(* any checkpoint interval.                                                *)
(*                                                                         *)
(* The argument: a row, once there, never changes, so a depth computed     *)
(* from a base's row before the transaction is still one past the base's   *)
(* when the transaction inserts it.  A blob that only ever one request at  *)
(* a time was storing has, at each of that request's steps, the file the   *)
(* request's own call left: the temporary file is truncated, holds the     *)
(* request's text, or has been renamed over the final one; and while it is *)
(* being stored it has no row.                                             *)
(***************************************************************************)

Storing(w, b) == put[w].pc # "idle" /\ put[w].hash = b

\* A request is replacing a file exactly between its encoding and its rename, and
\* it is the file of the blob it stores.
CallsInv ==
    \A w \in Writers :
        /\ put[w].pc # "idle" => put[w].hash \in Hashes
        /\ IF put[w].pc = "encoded"
             THEN /\ call[w].pc # "idle"
                  /\ call[w].file = put[w].hash
                  /\ call[w].text = put[w].meta.base
             ELSE call[w].pc = "idle"

\* What put returned: a whole copy, or one delta more than a stored base has in
\* the table t.
EncodedIn(m, t) ==
    \/ m = NoMeta
    \/ m.base \in Hashes /\ t[m.base] # None /\ m.depth < K /\ m.depth = t[m.base].depth + 1

ChainsInv ==
    /\ \A w \in Writers : put[w].base \in Stored \cup {NoBase} /\ EncodedIn(put[w].meta, row)
    /\ ChainsBounded

\* A blob that at most one request at a time has been storing.
Alone(b) ==
    /\ \A u, w \in Writers : Storing(u, b) /\ Storing(w, b) => u = w
    /\ \A w \in Writers : Storing(w, b) =>
          /\ row[b] = None
          /\ put[w].pc = "encoded" /\ call[w].pc = "opened"
                => call[w].fd = "temp" /\ temp[b] = "empty"
          /\ put[w].pc = "encoded" /\ call[w].pc = "written"
                => temp[b] = put[w].meta.base
          /\ put[w].pc = "replaced" => final[b] = put[w].meta.base
    /\ final[b] \in Base \cup {None}
    /\ row[b] # None => Matches(b)

AloneInv == \A b \in Hashes \ contested : Alone(b)

BlobFilesInv == BlobTypeOK /\ CallsInv /\ ChainsInv /\ AloneInv

USE DEF Disk!DiskTypeOK

----------------------------------------------------------------------------
(***************************************************************************)
(* Types and calls                                                         *)
(***************************************************************************)
LEMMA NoMetaIsMeta == NoMeta \in Meta /\ IdlePut \in Put /\ Disk!NoCall \in Disk!Call
BY DEF NoMeta, Meta, IdlePut, Put, Base, Disk!NoCall, Disk!Call

LEMMA BlobInvInit == BlobInit => BlobFilesInv
<1> SUFFICES ASSUME BlobInit PROVE BlobFilesInv
    OBVIOUS
<1>1. BlobTypeOK
    BY NoMetaIsMeta DEF BlobInit, BlobTypeOK, Disk!DiskInit
<1>2. CallsInv
    BY DEF BlobInit, CallsInv, IdlePut, Disk!DiskInit, Disk!NoCall
<1>3. ChainsInv
    BY DEF BlobInit, ChainsInv, ChainsBounded, Stored, IdlePut, EncodedIn
<1>4. AloneInv
    BY DEF BlobInit, AloneInv, Alone, Storing, IdlePut, Disk!DiskInit
<1> QED BY <1>1, <1>2, <1>3, <1>4 DEF BlobFilesInv

\* What BlobStore::put returns for a base that is stored.
LEMMA EncodingsOk ==
    ASSUME BlobFilesInv, NEW w \in Writers, NEW meta \in Encodings(put[w].base)
    PROVE  meta \in Meta /\ EncodedIn(meta, row)
<1>1. put[w].base \in Stored \cup {NoBase} /\ row \in [Hashes -> Meta \cup {None}]
    BY DEF BlobFilesInv, BlobTypeOK, ChainsInv
<1>2. put[w].base # NoBase => row[put[w].base] \in Meta /\ put[w].base \in Base
    BY <1>1 DEF Stored, Base
<1> QED BY <1>1, <1>2, NoMetaIsMeta, IntervalAssumption DEF Encodings, EncodedIn, Meta, Stored

\* What an encoding changes: the request's state and the file it opens.
LEMMA EncodeEffect ==
    ASSUME BlobFilesInv, NEW w \in Writers, Encode(w)
    PROVE  \E meta \in Meta :
              /\ put[w].pc = "probed" /\ EncodedIn(meta, row)
              /\ put' = [put EXCEPT ![w] = [put[w] EXCEPT !.pc = "encoded", !.meta = meta]]
              /\ call' = [call EXCEPT ![w] = [pc |-> "opened", file |-> put[w].hash,
                                              text |-> meta.base, fd |-> "temp"]]
              /\ temp' = [temp EXCEPT ![put[w].hash] = "empty"]
              /\ UNCHANGED <<row, final, contested>>
<1>1. PICK meta \in Encodings(put[w].base) :
         /\ Disk!OpenTemp(w, put[w].hash, meta.base)
         /\ put' = [put EXCEPT ![w].pc = "encoded", ![w].meta = meta]
    BY DEF Encode
<1>2. meta \in Meta /\ EncodedIn(meta, row)
    BY EncodingsOk
<1>3. put' = [put EXCEPT ![w] = [put[w] EXCEPT !.pc = "encoded", !.meta = meta]]
    BY <1>1 DEF BlobFilesInv, BlobTypeOK
<1> QED BY <1>1, <1>2, <1>3 DEF Encode, Disk!OpenTemp

LEMMA BlobTypeStep == BlobFilesInv /\ [BlobNext]_blobVars => BlobTypeOK'
<1> SUFFICES ASSUME BlobFilesInv, [BlobNext]_blobVars PROVE BlobTypeOK'
    OBVIOUS
<1> USE NoMetaIsMeta DEF BlobFilesInv, BlobTypeOK
<1>1. ASSUME NEW w \in Writers, NEW b \in Hashes, NEW base \in Stored \cup {NoBase},
             Probe(w, b, base)
      PROVE  BlobTypeOK'
    BY <1>1 DEF Probe, disk, Put, Base, Stored
<1>2. ASSUME NEW w \in Writers, Encode(w) PROVE BlobTypeOK'
  <2>1. PICK meta \in Meta :
          /\ put' = [put EXCEPT ![w] = [put[w] EXCEPT !.pc = "encoded", !.meta = meta]]
          /\ call' = [call EXCEPT ![w] = [pc |-> "opened", file |-> put[w].hash,
                                          text |-> meta.base, fd |-> "temp"]]
          /\ temp' = [temp EXCEPT ![put[w].hash] = "empty"]
          /\ UNCHANGED <<row, final, contested>> /\ put[w].pc = "probed"
      BY <1>2, EncodeEffect
  <2>2. put[w] \in Put /\ put[w].hash \in Hashes /\ meta.base \in Base
      BY <2>1 DEF CallsInv, Meta
  <2>3. put' \in [Writers -> Put]
      BY <2>1, <2>2 DEF Put
  <2>4. call' \in [Writers -> Disk!Call]
      BY <2>1, <2>2 DEF Disk!Call
  <2>5. temp' \in [Hashes -> Disk!Contents \cup {None}]
      BY <2>1, <2>2 DEF Disk!Contents
  <2> QED BY <2>1, <2>3, <2>4, <2>5
<1>3. ASSUME NEW w \in Writers, WriteFile(w) PROVE BlobTypeOK'
  <2>1. call[w] \in Disk!Call /\ call[w].file = put[w].hash /\ put[w].hash \in Hashes
        /\ call[w].text \in Base
      BY <1>3 DEF WriteFile, Disk!WriteTemp, CallsInv, Put, Meta
  <2>2. \A old \in Disk!Contents \cup {None} : Disk!Over(old, call[w].text) \in Disk!Contents
      BY <2>1 DEF Disk!Over, Disk!Contents
  <2>3. temp' \in [Hashes -> Disk!Contents \cup {None}] /\ final' \in [Hashes -> Disk!Contents \cup {None}]
      BY <1>3, <2>1, <2>2 DEF WriteFile, Disk!WriteTemp
  <2>4. call' \in [Writers -> Disk!Call]
      BY <1>3, <2>1 DEF WriteFile, Disk!WriteTemp, Disk!Call
  <2> QED BY <1>3, <2>3, <2>4 DEF WriteFile
<1>4. ASSUME NEW w \in Writers, ReplaceFile(w) PROVE BlobTypeOK'
  <2>1. put' \in [Writers -> Put]
      BY <1>4 DEF ReplaceFile, Put
  <2>2. call' \in [Writers -> Disk!Call]
    <3>1. \A u \in Writers : call[u] \in Disk!Call
        OBVIOUS
    <3>2. \A u \in Writers, g \in {"gone", "temp", "final"} :
             Disk!NoCall \in Disk!Call /\ [call[u] EXCEPT !.fd = g] \in Disk!Call
        BY <3>1 DEF Disk!Call, Disk!NoCall
    <3>3. \A u \in Writers : call[u].fd \in {"gone", "temp", "final"}
        BY <3>1 DEF Disk!Call
    <3> QED BY <1>4, <3>2, <3>3 DEF ReplaceFile, Disk!Rename
  <2>3. temp' \in [Hashes -> Disk!Contents \cup {None}] /\ final' \in [Hashes -> Disk!Contents \cup {None}]
      BY <1>4 DEF ReplaceFile, Disk!Rename
  <2>4. UNCHANGED <<row, contested>>
      BY <1>4 DEF ReplaceFile
  <2> QED BY <2>1, <2>2, <2>3, <2>4
<1>5. ASSUME NEW w \in Writers, InsertRow(w) PROVE BlobTypeOK'
    BY <1>5 DEF InsertRow, disk, Put
<1>6. ASSUME NEW w \in Writers, GiveUp(w) PROVE BlobTypeOK'
    BY <1>6 DEF GiveUp, Disk!Crash
<1>7. CASE UNCHANGED blobVars
    BY <1>7 DEF blobVars, disk
<1> QED BY <1>1, <1>2, <1>3, <1>4, <1>5, <1>6, <1>7 DEF BlobNext

LEMMA CallsStep == BlobFilesInv /\ [BlobNext]_blobVars => CallsInv'
<1> SUFFICES ASSUME BlobFilesInv, [BlobNext]_blobVars PROVE CallsInv'
    OBVIOUS
<1> USE DEF BlobFilesInv, BlobTypeOK
<1>1. ASSUME NEW w \in Writers, NEW b \in Hashes, NEW base \in Stored \cup {NoBase},
             Probe(w, b, base)
      PROVE  CallsInv'
    BY <1>1 DEF Probe, disk, CallsInv
<1>2. ASSUME NEW w \in Writers, Encode(w) PROVE CallsInv'
  <2>1. PICK meta \in Meta :
          /\ put' = [put EXCEPT ![w] = [put[w] EXCEPT !.pc = "encoded", !.meta = meta]]
          /\ call' = [call EXCEPT ![w] = [pc |-> "opened", file |-> put[w].hash,
                                          text |-> meta.base, fd |-> "temp"]]
          /\ put[w].pc = "probed"
      BY <1>2, EncodeEffect
  <2>2. put'[w].pc = "encoded" /\ put'[w].hash = put[w].hash /\ put'[w].meta = meta
      BY <2>1 DEF Put
  <2> QED BY <2>1, <2>2 DEF CallsInv
<1>3. ASSUME NEW w \in Writers, WriteFile(w) PROVE CallsInv'
    BY <1>3 DEF WriteFile, Disk!WriteTemp, Disk!Call, CallsInv
<1>4. ASSUME NEW w \in Writers, ReplaceFile(w) PROVE CallsInv'
  <2>1. put[w].pc = "encoded" /\ call'[w].pc = "idle"
        /\ put'[w].pc = "replaced" /\ put'[w].hash = put[w].hash
      BY <1>4 DEF ReplaceFile, Disk!Rename, Disk!NoCall, CallsInv, Put
  <2>2. ASSUME NEW u \in Writers \ {w}
        PROVE  put'[u] = put[u] /\ call'[u].pc = call[u].pc
               /\ call'[u].file = call[u].file /\ call'[u].text = call[u].text
      BY <1>4 DEF ReplaceFile, Disk!Rename, Disk!Call
  <2> QED BY <2>1, <2>2 DEF CallsInv
<1>5. ASSUME NEW w \in Writers, InsertRow(w) PROVE CallsInv'
    BY <1>5 DEF InsertRow, disk, CallsInv, IdlePut
<1>6. ASSUME NEW w \in Writers, GiveUp(w) PROVE CallsInv'
    BY <1>6 DEF GiveUp, Disk!Crash, Disk!NoCall, CallsInv, IdlePut
<1>7. CASE UNCHANGED blobVars
    BY <1>7 DEF blobVars, disk, CallsInv
<1> QED BY <1>1, <1>2, <1>3, <1>4, <1>5, <1>6, <1>7 DEF BlobNext

----------------------------------------------------------------------------
(***************************************************************************)
(* Chains                                                                  *)
(***************************************************************************)
\* A row, once there, stays as it is.
LEMMA RowsStay ==
    ASSUME BlobFilesInv, [BlobNext]_blobVars
    PROVE  /\ \A b \in Stored : b \in Stored' /\ row'[b] = row[b]
           /\ \A m \in Meta : EncodedIn(m, row) => EncodedIn(m, row')
<1>1. \A b \in Stored : row'[b] = row[b]
  <2>1. ASSUME NEW w \in Writers, InsertRow(w) PROVE \A b \in Stored : row'[b] = row[b]
      BY <2>1 DEF InsertRow, Stored, BlobFilesInv, BlobTypeOK
  <2> QED BY <2>1 DEF BlobNext, blobVars, Probe, Encode, WriteFile, ReplaceFile, GiveUp
<1>2. \A b \in Stored : b \in Stored'
    BY <1>1 DEF Stored
<1> QED BY <1>1, <1>2 DEF EncodedIn, Stored

\* A chain stays bounded when a row is inserted that is one past a stored base.
LEMMA ChainGrows ==
    ASSUME BlobFilesInv, NEW w \in Writers, InsertRow(w)
    PROVE  ChainsBounded'
<1> DEFINE q == put[w]
<1>1. q.hash \in Hashes /\ EncodedIn(q.meta, row) /\ q.meta \in Meta
      /\ row' = [row EXCEPT ![q.hash] = IF @ = None THEN q.meta ELSE @]
    BY DEF InsertRow, BlobFilesInv, BlobTypeOK, CallsInv, ChainsInv, Put
<1>2. /\ \A b \in Stored : b \in Stored' /\ row'[b] = row[b]
      /\ EncodedIn(q.meta, row')
  <2>1. [BlobNext]_blobVars
      BY DEF BlobNext
  <2> QED BY <1>1, <2>1, RowsStay
<1>3. ASSUME NEW b \in Stored'
      PROVE  /\ row'[b].depth < K
             /\ IF row'[b].base = NoBase
                  THEN row'[b].depth = 0
                  ELSE /\ row'[b].base \in Stored'
                       /\ row'[b].depth = row'[row'[b].base].depth + 1
  <2>1. CASE b \in Stored
      BY <1>2, <2>1 DEF BlobFilesInv, ChainsInv, ChainsBounded
  <2>2. CASE b \notin Stored
    <3>1. b = q.hash /\ row'[b] = q.meta
        BY <1>1, <1>3, <2>2 DEF Stored, BlobFilesInv, BlobTypeOK
    <3>2. CASE q.meta = NoMeta
        BY <3>1, <3>2, IntervalAssumption DEF NoMeta
    <3>3. CASE q.meta # NoMeta
      <4>1. q.meta.base \in Stored /\ q.meta.depth < K
            /\ q.meta.depth = row[q.meta.base].depth + 1
          BY <1>1, <3>3 DEF EncodedIn, Stored
      <4>2. q.meta.base # NoBase
          BY <4>1, NoneAssumption DEF Stored
      <4> QED BY <1>2, <3>1, <4>1, <4>2
    <3> QED BY <3>2, <3>3
  <2> QED BY <2>1, <2>2
<1> QED BY <1>3 DEF ChainsBounded

LEMMA ChainsStep == BlobFilesInv /\ [BlobNext]_blobVars => ChainsInv'
<1> SUFFICES ASSUME BlobFilesInv, [BlobNext]_blobVars PROVE ChainsInv'
    OBVIOUS
<1>1. /\ \A b \in Stored : b \in Stored' /\ row'[b] = row[b]
      /\ \A m \in Meta : EncodedIn(m, row) => EncodedIn(m, row')
    BY RowsStay
<1>2. EncodedIn(NoMeta, row')
    BY DEF EncodedIn
<1>3. \A w \in Writers : put[w].base \in Stored \cup {NoBase} /\ put[w].meta \in Meta
                         /\ EncodedIn(put[w].meta, row)
    BY DEF BlobFilesInv, BlobTypeOK, ChainsInv, Put
<1>4. ASSUME NEW u \in Writers,
             \/ put'[u] = put[u]
             \/ put'[u].base \in Stored \cup {NoBase} /\ EncodedIn(put'[u].meta, row')
      PROVE  put'[u].base \in Stored' \cup {NoBase} /\ EncodedIn(put'[u].meta, row')
  <2>1. CASE put'[u] = put[u]
    <3>1. EncodedIn(put[u].meta, row)
        BY <1>3
    <3> QED BY <1>1, <1>3, <2>1, <3>1
  <2> QED BY <1>1, <1>4, <2>1
<1>5. ASSUME NEW u \in Writers
      PROVE  \/ put'[u] = put[u]
             \/ put'[u].base \in Stored \cup {NoBase} /\ EncodedIn(put'[u].meta, row')
  <2> USE DEF BlobFilesInv, BlobTypeOK
  <2>1. ASSUME NEW w \in Writers, NEW b \in Hashes, NEW base \in Stored \cup {NoBase},
               Probe(w, b, base)
        PROVE  put'[u] = put[u] \/ (put'[u].base = base /\ put'[u].meta = NoMeta)
      BY <2>1 DEF Probe
  <2>2. ASSUME NEW w \in Writers, Encode(w)
        PROVE  \/ put'[u] = put[u]
               \/ put'[u].base \in Stored \cup {NoBase} /\ EncodedIn(put'[u].meta, row')
    <3>1. PICK meta \in Meta :
            /\ EncodedIn(meta, row)
            /\ put' = [put EXCEPT ![w] = [put[w] EXCEPT !.pc = "encoded", !.meta = meta]]
        BY <2>2, EncodeEffect
    <3>2. CASE u = w
      <4>1. put'[u].base = put[u].base /\ put'[u].meta = meta
          BY <3>1, <3>2 DEF Put
      <4>2. EncodedIn(meta, row')
          BY <1>1, <3>1
      <4> QED BY <1>3, <4>1, <4>2
    <3> QED BY <3>1, <3>2
  <2>3. ASSUME NEW w \in Writers, ReplaceFile(w)
        PROVE  \/ put'[u] = put[u]
               \/ put'[u].base = put[u].base /\ put'[u].meta = put[u].meta
      BY <2>3 DEF ReplaceFile, Put
  <2>4. ASSUME NEW w \in Writers, InsertRow(w) \/ GiveUp(w)
        PROVE  put'[u] = put[u] \/ (put'[u].base = NoBase /\ put'[u].meta = NoMeta)
      BY <2>4 DEF InsertRow, GiveUp, IdlePut
  <2>5. ASSUME NEW w \in Writers, WriteFile(w) PROVE put'[u] = put[u]
      BY <2>5 DEF WriteFile
  <2>6. EncodedIn(put[u].meta, row')
      BY <1>1, <1>3
  <2> QED BY <1>2, <1>3, <2>1, <2>2, <2>3, <2>4, <2>5, <2>6 DEF BlobNext, blobVars
<1>6. ChainsBounded'
  <2>1. ASSUME NEW w \in Writers, InsertRow(w) PROVE ChainsBounded'
      BY <2>1, ChainGrows
  <2>2. CASE row' = row
      BY <2>2 DEF BlobFilesInv, ChainsInv, ChainsBounded, Stored
  <2> QED BY <2>1, <2>2 DEF BlobNext, blobVars, Probe, Encode, WriteFile, ReplaceFile, GiveUp
<1>7. \A u \in Writers : put'[u].base \in Stored' \cup {NoBase} /\ EncodedIn(put'[u].meta, row')
    BY <1>4, <1>5
<1> QED BY <1>6, <1>7 DEF ChainsInv

----------------------------------------------------------------------------
(***************************************************************************)
(* Hashes one request at a time has been storing                            *)
(***************************************************************************)
\* A step that touches neither a blob's files nor its row, nor what the requests
\* storing it have in hand - but for one that stops storing it.
LEMMA AloneKept ==
    ASSUME NEW b \in Hashes, Alone(b),
           temp'[b] = temp[b], final'[b] = final[b], row'[b] = row[b],
           \A u \in Writers : Storing(u, b)' =>
               /\ Storing(u, b) /\ put'[u].pc = put[u].pc /\ put'[u].meta = put[u].meta
               /\ put[u].pc = "encoded" => call'[u].pc = call[u].pc /\ call'[u].fd = call[u].fd
    PROVE  Alone(b)'
BY DEF Alone, Matches

\* A step of the one request that stores a blob, which goes on storing it.
LEMMA AloneMoves ==
    ASSUME NEW b \in Hashes, Alone(b), NEW w \in Writers, Storing(w, b),
           \A u \in Writers \ {w} : put'[u] = put[u],
           row'[b] = row[b], final'[b] \in Base \cup {None},
           put'[w].pc = "encoded" /\ call'[w].pc = "opened"
               => call'[w].fd = "temp" /\ temp'[b] = "empty",
           put'[w].pc = "encoded" /\ call'[w].pc = "written"
               => temp'[b] = put'[w].meta.base,
           put'[w].pc = "replaced" => final'[b] = put'[w].meta.base
    PROVE  Alone(b)'
<1>1. row[b] = None /\ \A u \in Writers : Storing(u, b) => u = w
    BY DEF Alone
<1>2. \A u \in Writers : Storing(u, b)' => u = w
    BY <1>1 DEF Storing
<1> QED BY <1>1, <1>2 DEF Alone

LEMMA AloneStep == BlobFilesInv /\ [BlobNext]_blobVars => AloneInv'
<1> SUFFICES ASSUME BlobFilesInv, [BlobNext]_blobVars, NEW b \in Hashes \ contested' PROVE Alone(b)'
    BY DEF AloneInv
<1>1. contested \subseteq contested'
    BY DEF BlobNext, blobVars, Probe, Encode, WriteFile, ReplaceFile, InsertRow, GiveUp
<1>2. Alone(b) /\ b \in Hashes
    BY <1>1 DEF BlobFilesInv, AloneInv
<1>3. /\ row \in [Hashes -> Meta \cup {None}] /\ put \in [Writers -> Put]
      /\ call \in [Writers -> Disk!Call]
      /\ temp \in [Hashes -> Disk!Contents \cup {None}]
      /\ final \in [Hashes -> Disk!Contents \cup {None}]
    BY DEF BlobFilesInv, BlobTypeOK
<1>4. \A w \in Writers : /\ put[w] \in Put /\ put[w].meta.base \in Base
                         /\ call[w] \in Disk!Call
                         /\ put[w].pc # "idle" => put[w].hash \in Hashes
                         /\ call[w].pc # "idle" => /\ put[w].pc = "encoded"
                                                   /\ call[w].file = put[w].hash
                                                   /\ call[w].text = put[w].meta.base
                         /\ put[w].pc = "encoded" => call[w].pc # "idle"
                                                     /\ call[w].file = put[w].hash
    BY <1>3 DEF BlobFilesInv, CallsInv, Put, Meta
<1>5. ASSUME NEW w \in Writers, NEW c \in Hashes, NEW base \in Stored \cup {NoBase},
             Probe(w, c, base)
      PROVE  Alone(b)'
  <2>1. /\ put[w].pc = "idle" /\ row[c] = None /\ UNCHANGED <<row, temp, final, call>>
        /\ put' = [put EXCEPT ![w] = [pc |-> "probed", hash |-> c, base |-> base,
                                      meta |-> NoMeta]]
      BY <1>5 DEF Probe, disk
  <2>2. CASE c = b
    <3>1. \A u \in Writers : ~Storing(u, b)
        BY <1>5, <2>2 DEF Probe, Storing
    <3>2. \A u \in Writers : Storing(u, b)' => u = w /\ put'[u].pc = "probed"
        BY <1>3, <2>1, <3>1 DEF Storing
    <3> QED BY <1>2, <2>1, <2>2, <3>2 DEF Alone
  <2>3. CASE c # b
    <3>1. \A u \in Writers : Storing(u, b)' => u # w /\ put'[u] = put[u] /\ Storing(u, b)
        BY <1>3, <2>1, <2>3 DEF Storing
    <3> QED BY <1>2, <2>1, <3>1, AloneKept
  <2> QED BY <2>2, <2>3
<1>6. ASSUME NEW w \in Writers, Encode(w) PROVE Alone(b)'
  <2>1. PICK meta \in Meta :
          /\ put[w].pc = "probed"
          /\ put' = [put EXCEPT ![w] = [put[w] EXCEPT !.pc = "encoded", !.meta = meta]]
          /\ call' = [call EXCEPT ![w] = [pc |-> "opened", file |-> put[w].hash,
                                          text |-> meta.base, fd |-> "temp"]]
          /\ temp' = [temp EXCEPT ![put[w].hash] = "empty"]
          /\ UNCHANGED <<row, final>>
      BY <1>6, EncodeEffect
  <2>2. put'[w].pc = "encoded" /\ put'[w].hash = put[w].hash
        /\ call'[w].pc = "opened" /\ call'[w].fd = "temp"
      BY <1>3, <2>1 DEF Put
  <2>3. \A u \in Writers \ {w} : put'[u] = put[u] /\ call'[u] = call[u]
      BY <1>3, <2>1
  <2>4. CASE put[w].hash = b
    <3>1. Storing(w, b) /\ temp'[b] = "empty"
        BY <1>2, <1>3, <2>1, <2>4 DEF Storing
    <3>2. final'[b] \in Base \cup {None}
        BY <1>2, <2>1 DEF Alone
    <3> QED BY <1>2, <2>1, <2>2, <2>3, <3>1, <3>2, AloneMoves
  <2>5. CASE put[w].hash # b
    <3>1. temp'[b] = temp[b]
        BY <1>2, <1>3, <2>1, <2>5
    <3>2. \A u \in Writers : Storing(u, b)' => u # w /\ Storing(u, b)
        BY <2>2, <2>3, <2>5 DEF Storing
    <3> QED BY <1>2, <2>1, <2>3, <3>1, <3>2, AloneKept
  <2> QED BY <2>4, <2>5
<1>7. ASSUME NEW w \in Writers, WriteFile(w) PROVE Alone(b)'
  <2>1. /\ call[w].pc = "opened" /\ put[w].pc = "encoded" /\ call[w].file = put[w].hash
        /\ call[w].text = put[w].meta.base /\ UNCHANGED <<row, put>>
      BY <1>4, <1>7 DEF WriteFile, Disk!WriteTemp
  <2>2. /\ call'[w].pc = "written"
        /\ \A u \in Writers \ {w} : call'[u] = call[u]
      BY <1>3, <1>7 DEF WriteFile, Disk!WriteTemp, Disk!Call
  <2>3. CASE put[w].hash = b
    <3>1. Storing(w, b) /\ call[w].fd = "temp" /\ temp[b] = "empty"
        BY <1>2, <2>1, <2>3 DEF Storing, Alone
    <3>2. temp'[b] = put[w].meta.base /\ final'[b] = final[b]
        BY <1>2, <1>3, <1>7, <2>1, <2>3, <3>1 DEF WriteFile, Disk!WriteTemp, Disk!Over
    <3>3. final'[b] \in Base \cup {None}
        BY <1>2, <3>2 DEF Alone
    <3> QED BY <1>2, <2>1, <2>2, <3>1, <3>2, <3>3, AloneMoves
  <2>4. CASE put[w].hash # b
    <3>1. temp'[b] = temp[b] /\ final'[b] = final[b]
        BY <1>2, <1>3, <1>7, <2>1, <2>4 DEF WriteFile, Disk!WriteTemp
    <3>2. \A u \in Writers : Storing(u, b)' => u # w /\ Storing(u, b)
        BY <2>1, <2>4 DEF Storing
    <3> QED BY <1>2, <2>1, <2>2, <3>1, <3>2, AloneKept
  <2> QED BY <2>3, <2>4
<1>8. ASSUME NEW w \in Writers, ReplaceFile(w) PROVE Alone(b)'
  <2>1. /\ call[w].pc = "written" /\ put[w].pc = "encoded" /\ call[w].file = put[w].hash
        /\ UNCHANGED row
        /\ put'[w].pc = "replaced" /\ put'[w].hash = put[w].hash /\ put'[w].meta = put[w].meta
        /\ \A u \in Writers \ {w} : put'[u] = put[u]
      BY <1>3, <1>4, <1>8 DEF ReplaceFile, Disk!Rename, Put
  <2>2. CASE put[w].hash = b
    <3>1. Storing(w, b) /\ temp[b] = put[w].meta.base
        BY <1>2, <2>1, <2>2 DEF Storing, Alone
    <3>2. final'[b] = put[w].meta.base
        BY <1>2, <1>3, <1>8, <2>1, <2>2, <3>1 DEF ReplaceFile, Disk!Rename
    <3>3. final'[b] \in Base \cup {None}
        BY <1>4, <3>2
    <3> QED BY <1>2, <2>1, <3>1, <3>2, <3>3, AloneMoves
  <2>3. CASE put[w].hash # b
    <3>1. temp'[b] = temp[b] /\ final'[b] = final[b]
        BY <1>2, <1>3, <1>8, <2>1, <2>3 DEF ReplaceFile, Disk!Rename
    <3>2. \A u \in Writers : Storing(u, b)' => u # w /\ Storing(u, b)
        BY <2>1, <2>3 DEF Storing
    <3>3. ASSUME NEW u \in Writers \ {w}, put[u].pc = "encoded", put[u].hash = b
          PROVE  call'[u].pc = call[u].pc /\ call'[u].fd = call[u].fd
      <4>1. call[u].file # call[w].file
          BY <1>4, <2>1, <2>3, <3>3
      <4> QED BY <1>3, <1>8, <4>1 DEF ReplaceFile, Disk!Rename, Disk!Call
    <3> QED BY <1>2, <2>1, <3>1, <3>2, <3>3, AloneKept DEF Storing
  <2> QED BY <2>2, <2>3
<1>9. ASSUME NEW w \in Writers, InsertRow(w) PROVE Alone(b)'
  <2>1. /\ put[w].pc = "replaced" /\ UNCHANGED <<temp, final, call>>
        /\ row' = [row EXCEPT ![put[w].hash] = IF @ = None THEN put[w].meta ELSE @]
        /\ put'[w].pc = "idle" /\ \A u \in Writers \ {w} : put'[u] = put[u]
      BY <1>3, <1>9 DEF InsertRow, IdlePut, disk
  <2>2. \A u \in Writers : Storing(u, b)' => u # w /\ Storing(u, b)
      BY <2>1 DEF Storing
  <2>3. CASE put[w].hash = b
    <3>1. Storing(w, b)
        BY <2>1, <2>3 DEF Storing
    <3>2. row[b] = None /\ final[b] = put[w].meta.base /\ final[b] \in Base \cup {None}
        BY <1>2, <2>1, <3>1 DEF Alone
    <3>3. \A u \in Writers : ~Storing(u, b)'
        BY <1>2, <2>2, <3>1 DEF Alone
    <3>4. row'[b] = put[w].meta
        BY <1>2, <1>3, <2>1, <2>3, <3>2
    <3> QED BY <2>1, <3>2, <3>3, <3>4 DEF Alone, Matches
  <2>4. CASE put[w].hash # b
    <3>1. row'[b] = row[b]
        BY <1>2, <1>3, <2>1, <2>4
    <3> QED BY <1>2, <2>1, <2>2, <3>1, AloneKept
  <2> QED BY <2>3, <2>4
<1>10. ASSUME NEW w \in Writers, GiveUp(w) PROVE Alone(b)'
  <2>1. /\ UNCHANGED <<row, temp, final>> /\ put'[w].pc = "idle"
        /\ \A u \in Writers \ {w} : put'[u] = put[u] /\ call'[u] = call[u]
      BY <1>3, <1>10 DEF GiveUp, Disk!Crash, IdlePut
  <2>2. \A u \in Writers : Storing(u, b)' => u # w /\ Storing(u, b)
      BY <2>1 DEF Storing
  <2> QED BY <1>2, <2>1, <2>2, AloneKept
<1>11. CASE UNCHANGED blobVars
    BY <1>2, <1>11, AloneKept DEF blobVars, disk, Storing
<1> QED BY <1>5, <1>6, <1>7, <1>8, <1>9, <1>10, <1>11 DEF BlobNext

LEMMA BlobInvariant == BlobSpec => []BlobFilesInv
<1>1. BlobFilesInv /\ [BlobNext]_blobVars => BlobFilesInv'
    BY BlobTypeStep, CallsStep, ChainsStep, AloneStep DEF BlobFilesInv
<1> QED BY <1>1, BlobInvInit, PTL DEF BlobSpec

----------------------------------------------------------------------------
\* BlobStore::get walks at most K - 1 deltas, and every base it comes to has a row:
\* the depth put computed from a row read before the transaction is still right when
\* insert_blob writes it.
THEOREM ChainsStayBounded == BlobSpec => []ChainsBounded
<1>1. BlobFilesInv => ChainsBounded
    BY DEF BlobFilesInv, ChainsInv
<1> QED BY <1>1, BlobInvariant, PTL

\* A row matches its file (finalize_blob before insert_blob) for every blob that two
\* requests never stored at one time, whatever was rolled back, abandoned or crashed.
THEOREM RowsMatchFiles == BlobSpec => []UncontestedMatches
<1>1. BlobFilesInv => UncontestedMatches
    BY DEF BlobFilesInv, AloneInv, Alone, UncontestedMatches, Stored
<1> QED BY <1>1, BlobInvariant, PTL

\* write_atomic never leaves a torn file where one request at a time writes it,
\* through crashes at any of its steps.
THEOREM NeverTorn == BlobSpec => []NeverTornAlone
<1>1. BlobFilesInv => NeverTornAlone
    BY TextAssumption DEF BlobFilesInv, AloneInv, Alone, NeverTornAlone, Torn, Base
<1> QED BY <1>1, BlobInvariant, PTL
=============================================================================
