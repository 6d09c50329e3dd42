-------------------------- MODULE SyncDeviceProofs --------------------------
(***************************************************************************)
(* The reconciliation engine, proved for any number of devices, paths,     *)
(* edits and faults, whatever the environment.                             *)
(*                                                                         *)
(* The argument follows a path through a cycle.  A path is due on a device *)
(* when the device has read the feed past its latest version and it is not *)
(* astray.  For a due path the manifest is what the server has; so a path  *)
(* whose file differs is one the next diff lists, and stays listed until   *)
(* its change is pushed, which ends its being due.  After the push nothing *)
(* is listed, the file of a due path is the server's, and the page of the  *)
(* feed covers what becomes due next.  The versions go the same way.  For  *)
(* the edits, "durable" takes the place of "the server's": once in the     *)
(* history, an edit is never lost, and a file that is not durable is       *)
(* waiting to be pushed, or in the worker's hands.                         *)
(***************************************************************************)
EXTENDS SyncDevice, FiniteSetTheorems, TLAPS

(***************************************************************************)
(* The invariant                                                           *)
(***************************************************************************)
Pushing(d) == work[d].pc \in {"push", "send", "lost", "merge", "resend", "copy", "sendcopy"}
Holding(d) == work[d].pc \in {"send", "merge", "resend", "copy", "sendcopy"}
Beaten(d)  == work[d].pc \in {"lost", "merge", "resend", "copy", "sendcopy"}
Receiving(d) == work[d].pc \in {"rows", "apply"}

\* The vault's sequence is the largest, and a page is not read past it.
Bounds ==
    /\ \A p \in Paths : last[p] <= seq
    /\ \A d \in Devices : cursor[d] <= seq /\ work[d].at <= seq /\ work[d].cursor <= seq

\* What the worker holds in each step of its cycle.
Shape(d) ==
    /\ Holding(d) \/ Beaten(d) => work[d].todo # <<>> /\ Job(d).op # "delete"
    /\ \A c \in Range(work[d].todo) : c.op # "move" <=> c.from = c.path
    /\ Holding(d) => work[d].local \in Texts
    /\ At(d, "merge") => work[d].vers[Job(d).path] # 0
    /\ At(d, "sendcopy") => work[d].copy \in Paths

\* The sequences a device has been told of: those its cursor covers, but for those that
\* raced; and those it has been told of with the page in its hands.
Reach(d) == (0 .. cursor[d]) \ raced[d]
PageReach(d) == (0 .. work[d].at) \ raced[d]

\* Versions vers cover the feed where it reaches.
Covers(vers, reach) ==
    \A p \in Paths : vers[p] <= Version(p) /\ (last[p] \in reach => vers[p] = Version(p))

OnPage(d, p) == \E item \in Range(work[d].page) : item.path = p

VersionsCover(d) ==
    /\ Covers(versions[d], Reach(d))
    /\ Pushing(d) \/ At(d, "pull") => Covers(work[d].vers, Reach(d))
    /\ Beaten(d) => /\ last[Job(d).path] \notin Reach(d)
                    /\ work[d].version <= Version(Job(d).path)
    /\ Receiving(d) =>
          /\ \A p \in Paths : /\ work[d].vers[p] <= Version(p)
                              /\ \/ last[p] \notin PageReach(d)
                                 \/ work[d].vers[p] = Version(p)
                                 \/ OnPage(d, p)
          /\ \A item \in Range(work[d].page) :
                /\ item.version <= Version(item.path)
                /\ \/ last[item.path] \notin PageReach(d)
                   \/ item.version = Version(item.path) /\ item.text = Current(item.path)

\* The device has been told of the latest version of p, and p is not astray.
Due(p, reach) == p \notin astray /\ last[p] \in reach

Listed(d, p) == \E c \in Range(work[d].todo) : p \in {c.path, c.from}

FilesFollow(d) ==
    /\ \A p \in Paths : Due(p, Reach(d)) => manifest[d][p] = Current(p)
    /\ ~At(d, "save") => \A p \in Paths : Due(p, Reach(d)) => kept[d][p] = Current(p)
    /\ Pushing(d) => \A p \in Paths : Due(p, Reach(d)) =>
          Agree(d, p) \/ Listed(d, p) \/ (At(d, "sendcopy") /\ p = work[d].copy)
    /\ Beaten(d) => ~Due(Job(d).from, Reach(d))
    /\ At(d, "pull") => \A p \in Paths : Due(p, Reach(d)) => Agree(d, p)
    /\ Receiving(d) => \A p \in Paths : Due(p, PageReach(d)) => Agree(d, p) \/ OnPage(d, p)

\* The edits in a version of the history, and those given up.
InHistory == {e \in 1 .. MaxEdits : \E p \in Paths : \E i \in DOMAIN hist[p] : e \in Text(hist[p][i])}
Durable == InHistory \cup dropped \cup exposed

\* p is waiting for its file to be pushed.
Pending(d, p) == \E c \in Range(work[d].todo) : c.path = p /\ c.op # "delete"

EditsHeld(d) ==
    /\ \A p \in Paths : Text(manifest[d][p]) \cup Text(kept[d][p]) \subseteq Durable
    /\ Pushing(d) => \A p \in Paths :
          \/ Pending(d, p)
          \/ Text(disk[d][p]) \subseteq Durable
          \/ At(d, "sendcopy") /\ Text(disk[d][p]) \subseteq work[d].local \cup Durable
    /\ Holding(d) => Text(disk[d][Job(d).path]) \subseteq work[d].local \cup Durable
    /\ Beaten(d) => Text(work[d].remote) \subseteq Durable
    /\ At(d, "pull") \/ Receiving(d) => \A p \in Paths : Text(disk[d][p]) \subseteq Durable
    /\ Receiving(d) => \A item \in Range(work[d].page) : Text(item.text) \subseteq Durable

EditsKept == \A e \in 1 .. made : e \in Durable \/ \E d \in Devices, p \in Paths : e \in Text(disk[d][p])

InCycle(d) == Shape(d) /\ VersionsCover(d) /\ FilesFollow(d) /\ EditsHeld(d)

IInv == TypeOK /\ Bounds /\ EditsKept /\ \A d \in Devices : InCycle(d)

----------------------------------------------------------------------------
(***************************************************************************)
(* Sets put in order                                                       *)
(***************************************************************************)

\* The sequence runs through the set, all of it.
LEMMA OrderedRuns ==
    ASSUME NEW S, IsFiniteSet(S), NEW R,
           \A x \in S : <<x, x>> \notin R,
           \A x, y, z \in S : <<x, y>> \in R /\ <<y, z>> \in R => <<x, z>> \in R,
           \A x, y \in S : x = y \/ <<x, y>> \in R \/ <<y, x>> \in R
    PROVE  /\ Ordered(S, R) \in Seq(S)
           /\ Range(Ordered(S, R)) = S
<1> DEFINE Below(x) == {y \in S : <<y, x>> \in R}
           n == Cardinality(S)
           rank == [x \in S |-> Cardinality(Below(x)) + 1]
<1>1. n \in Nat
  BY FS_CardinalityType
<1>2. \A x \in S : IsFiniteSet(Below(x)) /\ Cardinality(Below(x)) \in Nat
  BY FS_Subset, FS_CardinalityType
<1>3. ASSUME NEW x \in S, NEW y \in S, <<x, y>> \in R
      PROVE  Cardinality(Below(x)) < Cardinality(Below(y))
  <2>1. Below(x) \in SUBSET Below(y)
    BY <1>3
  <2>2. x \in Below(y) /\ x \notin Below(x)
    BY <1>3
  <2>3. Cardinality(Below(x)) <= Cardinality(Below(y)) /\ Cardinality(Below(x)) # Cardinality(Below(y))
    <3> HIDE DEF Below
    <3> QED  BY <1>2, <2>1, <2>2, FS_Subset
  <2> QED  BY <1>2, <2>3
<1>4. ASSUME NEW x \in S
      PROVE  Cardinality(Below(x)) < n
  <2>1. Below(x) \in SUBSET S /\ x \notin Below(x)
    OBVIOUS
  <2>2. Cardinality(Below(x)) <= n /\ Cardinality(Below(x)) # n
    <3> HIDE DEF Below
    <3> QED  BY <2>1, FS_Subset
  <2> QED  BY <1>1, <1>2, <2>2
<1>5. rank \in Injection(S, 1 .. n)
  <2> HIDE DEF Below, n
  <2>1. rank \in [S -> 1 .. n]
    BY <1>1, <1>2, <1>4
  <2>2. ASSUME NEW x \in S, NEW y \in S, rank[x] = rank[y]
        PROVE  x = y
    <3>1. <<x, y>> \notin R /\ <<y, x>> \notin R
      BY <1>2, <1>3, <2>2
    <3> QED  BY <3>1
  <2> HIDE DEF rank
  <2> QED  BY <2>1, <2>2 DEF Injection, IsInjective
<1>6. rank \in Surjection(S, 1 .. n)
  <2>1. IsFiniteSet(1 .. n) /\ Cardinality(1 .. n) = n
    <3> HIDE DEF n
    <3> QED  BY <1>1, FS_Interval
  <2> HIDE DEF rank
  <2> QED  BY <1>5, <2>1, FS_Injection
<1>7. \A i \in 1 .. n : \E x \in S : Cardinality(Below(x)) = i - 1
  <2>1. \A i \in 1 .. n : \E x \in S : rank[x] = i
    <3> HIDE DEF rank, n
    <3> QED  BY <1>6 DEF Surjection
  <2> HIDE DEF Below, n
  <2>2. ASSUME NEW i \in 1 .. n
        PROVE  \E x \in S : Cardinality(Below(x)) = i - 1
    <3>1. PICK x \in S : rank[x] = i
      BY <2>1
    <3>2. Cardinality(Below(x)) + 1 = i
      BY <3>1
    <3> QED  BY <1>1, <1>2, <3>2
  <2> QED  BY <2>2
<1>8. Ordered(S, R) = [i \in 1 .. n |-> CHOOSE x \in S : Cardinality(Below(x)) = i - 1]
  BY DEF Ordered
<1>9. ASSUME NEW i \in 1 .. n
      PROVE  Ordered(S, R)[i] \in S /\ Cardinality(Below(Ordered(S, R)[i])) = i - 1
  <2> HIDE DEF Below, n
  <2> QED  BY <1>7, <1>8
<1>10. Ordered(S, R) \in Seq(S)
  <2>1. Ordered(S, R) \in [1 .. n -> S]
    <3> HIDE DEF Below, n
    <3> QED  BY <1>7, <1>8
  <2> HIDE DEF n
  <2> QED  BY <1>1, <2>1
<1>11. ASSUME NEW x \in S
       PROVE  \E i \in DOMAIN Ordered(S, R) : Ordered(S, R)[i] = x
  <2>1. rank[x] \in 1 .. n /\ rank[x] \in DOMAIN Ordered(S, R)
    <3> HIDE DEF rank, Below, n
    <3> QED  BY <1>5, <1>8 DEF Injection
  <2>2. Ordered(S, R)[rank[x]] \in S /\ Cardinality(Below(Ordered(S, R)[rank[x]])) = rank[x] - 1
    <3> HIDE DEF rank, n
    <3> QED  BY <1>9, <2>1
  <2>3. rank[Ordered(S, R)[rank[x]]] = rank[x]
    <3> HIDE DEF Below, n
    <3> QED  BY <1>2, <2>2
  <2>4. Ordered(S, R)[rank[x]] = x
    <3> HIDE DEF rank, n
    <3> QED  BY <1>5, <2>2, <2>3 DEF Injection, IsInjective
  <2> QED  BY <2>1, <2>4
<1> HIDE DEF n, rank
<1> QED  BY <1>10, <1>11 DEF Range

\* Paths are finitely many, and both orders are strict and total.
LEMMA PathsInOrder ==
    ASSUME NEW S \in SUBSET Paths
    PROVE  /\ Ordered(S, ByPath) \in Seq(S)
           /\ Range(Ordered(S, ByPath)) = S
<1>1. NumPaths \in Nat
  BY BoundsAssumption
<1>2. IsFiniteSet(S)
  <2>1. IsFiniteSet(Paths)
    BY <1>1, FS_Interval DEF Paths
  <2> QED  BY <2>1, FS_Subset
<1>3. \A x, y \in S : <<x, y>> \in ByPath <=> x < y
  BY DEF ByPath
<1>4. \A x \in S : x \in Nat
  BY <1>1 DEF Paths
<1> QED  BY <1>2, <1>3, <1>4, OrderedRuns

LEMMA SequenceInOrder ==
    ASSUME NEW S \in SUBSET Paths, last \in [Paths -> Nat]
    PROVE  /\ Ordered(S, BySequence) \in Seq(S)
           /\ Range(Ordered(S, BySequence)) = S
<1>1. NumPaths \in Nat
  BY BoundsAssumption
<1>2. IsFiniteSet(S)
  <2>1. IsFiniteSet(Paths)
    BY <1>1, FS_Interval DEF Paths
  <2> QED  BY <2>1, FS_Subset
<1>3. \A x, y \in S : <<x, y>> \in BySequence <=> last[x] < last[y] \/ (last[x] = last[y] /\ x < y)
  BY DEF BySequence, ByPath
<1>4. \A x \in S : x \in Nat /\ last[x] \in Nat
  BY <1>1 DEF Paths
<1>5. /\ \A x \in S : <<x, x>> \notin BySequence
      /\ \A x, y \in S : x = y \/ <<x, y>> \in BySequence \/ <<y, x>> \in BySequence
  BY <1>3, <1>4
<1>6. \A x, y, z \in S : <<x, y>> \in BySequence /\ <<y, z>> \in BySequence => <<x, z>> \in BySequence
  BY <1>3, <1>4
<1> HIDE DEF BySequence
<1> QED  BY ONLY <1>2, <1>5, <1>6, OrderedRuns


LEMMA RangeJoined ==
    ASSUME NEW S, NEW s \in Seq(S), NEW t \in Seq(S)
    PROVE  s \o t \in Seq(S) /\ Range(s \o t) = Range(s) \cup Range(t)
<1>1. s \o t \in Seq(S)
  OBVIOUS
<1>2. ASSUME NEW x \in Range(s)
      PROVE  x \in Range(s \o t)
  <2>1. PICK i \in 1 .. Len(s) : s[i] = x
    BY DEF Range
  <2>2. i \in DOMAIN (s \o t) /\ (s \o t)[i] = x
    BY <2>1
  <2> QED  BY <2>2 DEF Range
<1>3. ASSUME NEW x \in Range(t)
      PROVE  x \in Range(s \o t)
  <2>1. PICK i \in 1 .. Len(t) : t[i] = x
    BY DEF Range
  <2>2. i + Len(s) \in DOMAIN (s \o t) /\ (s \o t)[i + Len(s)] = x
    BY <2>1
  <2> QED  BY <2>2 DEF Range
<1>4. ASSUME NEW x \in Range(s \o t)
      PROVE  x \in Range(s) \cup Range(t)
  <2>1. PICK i \in 1 .. Len(s) + Len(t) : (s \o t)[i] = x
    BY DEF Range
  <2>2. CASE i <= Len(s)
    <3>1. i \in DOMAIN s /\ s[i] = x
      BY <2>1, <2>2
    <3> QED  BY <3>1 DEF Range
  <2>3. CASE i > Len(s)
    <3>1. i - Len(s) \in DOMAIN t /\ t[i - Len(s)] = x
      BY <2>1, <2>3
    <3> QED  BY <3>1 DEF Range
  <2> QED  BY <2>2, <2>3
<1> QED  BY <1>1, <1>2, <1>3, <1>4

LEMMA RangeMember ==
    ASSUME NEW S, NEW s \in Seq(S), NEW x \in Range(s)
    PROVE  x \in S
BY DEF Range

LEMMA RangeTaken ==
    ASSUME NEW S, NEW s \in Seq(S), s # <<>>
    PROVE  /\ Head(s) \in S /\ Tail(s) \in Seq(S)
           /\ Range(s) = {Head(s)} \cup Range(Tail(s))
<1>1. Head(s) \in S /\ Tail(s) \in Seq(S) /\ Head(s) = s[1]
  OBVIOUS
<1>2. ASSUME NEW x \in Range(s)
      PROVE  x \in {Head(s)} \cup Range(Tail(s))
  <2>1. PICK i \in 1 .. Len(s) : s[i] = x
    BY DEF Range
  <2>2. CASE i = 1
    BY <1>1, <2>1, <2>2
  <2>3. CASE i # 1
    <3>1. i - 1 \in DOMAIN Tail(s) /\ Tail(s)[i - 1] = x
      BY <2>1, <2>3
    <3> QED  BY <3>1 DEF Range
  <2> QED  BY <2>2, <2>3
<1>3. ASSUME NEW x \in Range(Tail(s))
      PROVE  x \in Range(s)
  <2>1. PICK i \in DOMAIN Tail(s) : Tail(s)[i] = x
    BY DEF Range
  <2>2. i + 1 \in DOMAIN s /\ s[i + 1] = x
    BY <2>1
  <2> QED  BY <2>2 DEF Range
<1>4. Head(s) \in Range(s)
  <2>1. 1 \in DOMAIN s
    OBVIOUS
  <2> QED  BY <1>1, <2>1 DEF Range
<1> QED  BY <1>1, <1>2, <1>3, <1>4

\* A note that comes before another of the same text has the lower rank.
LEMMA RankGrows ==
    ASSUME NEW S \in SUBSET Paths, NEW at, NEW p \in S \ Images, NEW q \in S \ Images,
           p < q, at[p] = at[q]
    PROVE  Rank(p, S, at) < Rank(q, S, at)
<1> DEFINE Before(r) == {x \in S \ Images : x < r /\ at[x] = at[r]}
<1>1. NumPaths \in Nat
  BY BoundsAssumption
<1>2. IsFiniteSet(S)
  <2>1. IsFiniteSet(Paths)
    BY <1>1, FS_Interval DEF Paths
  <2> QED  BY <2>1, FS_Subset
<1>3. IsFiniteSet(Before(p)) /\ IsFiniteSet(Before(q))
  <2>1. Before(p) \in SUBSET S /\ Before(q) \in SUBSET S
    OBVIOUS
  <2> HIDE DEF Before
  <2> QED  BY <1>2, <2>1, FS_Subset
<1>4. p \in Nat /\ q \in Nat /\ \A x \in S : x \in Nat
  BY <1>1 DEF Paths
<1>5. Before(p) \in SUBSET Before(q) /\ p \in Before(q) /\ p \notin Before(p)
  <2>1. p \in Before(q) /\ p \notin Before(p)
    BY <1>4
  <2>2. ASSUME NEW x \in Before(p)
        PROVE  x \in Before(q)
    <3>1. x \in S \ Images /\ x < p /\ at[x] = at[q]
      OBVIOUS
    <3>2. x < q
      BY <1>4, <3>1
    <3> QED  BY <3>1, <3>2
  <2> QED  BY <2>1, <2>2
<1>6. Rank(p, S, at) = Cardinality(Before(p)) /\ Rank(q, S, at) = Cardinality(Before(q))
  BY DEF Rank
<1>7. Cardinality(Before(p)) < Cardinality(Before(q))
  <2> HIDE DEF Before
  <2>1. Cardinality(Before(p)) \in Nat /\ Cardinality(Before(q)) \in Nat
    BY <1>3, FS_CardinalityType
  <2>2. Cardinality(Before(p)) <= Cardinality(Before(q)) /\ Cardinality(Before(p)) # Cardinality(Before(q))
    BY <1>3, <1>5, FS_Subset
  <2> QED  BY <2>1, <2>2
<1> QED  BY <1>6, <1>7

(***************************************************************************)
(* The diff and the feed                                                   *)
(***************************************************************************)

\* The changes of the diff, and the sequences of them it is put together from.
Put(p) == [op |-> "put", path |-> p, from |-> p]
Leave(p, mates) ==
    IF \E m \in mates : m[1] = p
      THEN [op |-> "move", path |-> (CHOOSE m \in mates : m[1] = p)[2], from |-> p]
      ELSE [op |-> "delete", path |-> p, from |-> p]

Puts(S)          == InOrder(S, ByPath, Put)
Leaves(S, mates) == InOrder(S, ByPath, LAMBDA p : Leave(p, mates))

LEMMA PutsShape ==
    ASSUME NEW S \in SUBSET Paths
    PROVE  Puts(S) \in Seq(Change) /\ Range(Puts(S)) = {Put(p) : p \in S}
<1> DEFINE s == Ordered(S, ByPath)
<1>1. s \in Seq(S) /\ Range(s) = S
  BY PathsInOrder
<1>2. Puts(S) = [i \in 1 .. Len(s) |-> Put(s[i])]
  <2> HIDE DEF s
  <2>1. DOMAIN s = 1 .. Len(s)
    BY <1>1
  <2> QED  BY <2>1 DEF Puts, InOrder, s
<1>3. \A p \in S : Put(p) \in Change
  BY DEF Change, Put
<1> HIDE DEF s
<1>4. \A i \in 1 .. Len(s) : s[i] \in S
  BY <1>1
<1>5. Puts(S) \in Seq(Change)
  BY <1>1, <1>2, <1>3, <1>4
<1>6. Range(Puts(S)) = {Put(s[i]) : i \in 1 .. Len(s)}
  BY <1>2 DEF Range
<1>7. \A p \in S : \E i \in 1 .. Len(s) : s[i] = p
  BY <1>1 DEF Range
<1> QED  BY <1>4, <1>5, <1>6, <1>7

LEMMA LeavesShape ==
    ASSUME NEW S \in SUBSET Paths, NEW mates \in SUBSET (Paths \X Paths)
    PROVE  Leaves(S, mates) \in Seq(Change) /\ Range(Leaves(S, mates)) = {Leave(p, mates) : p \in S}
<1> DEFINE s == Ordered(S, ByPath)
<1>1. s \in Seq(S) /\ Range(s) = S
  BY PathsInOrder
<1>2. Leaves(S, mates) = [i \in 1 .. Len(s) |-> Leave(s[i], mates)]
  <2> HIDE DEF s
  <2>1. DOMAIN s = 1 .. Len(s)
    BY <1>1
  <2> QED  BY <2>1 DEF Leaves, InOrder, s
<1>3. ASSUME NEW p \in S
      PROVE  Leave(p, mates) \in Change
  <2>1. CASE \E m \in mates : m[1] = p
    <3>1. (CHOOSE m \in mates : m[1] = p)[2] \in Paths
      BY <2>1
    <3> QED  BY <2>1, <3>1 DEF Change, Leave
  <2>2. CASE ~\E m \in mates : m[1] = p
    BY <2>2 DEF Change, Leave
  <2> QED  BY <2>1, <2>2
<1> HIDE DEF s
<1>4. \A i \in 1 .. Len(s) : s[i] \in S
  BY <1>1
<1>5. Leaves(S, mates) \in Seq(Change)
  BY <1>1, <1>2, <1>3, <1>4
<1>6. Range(Leaves(S, mates)) = {Leave(s[i], mates) : i \in 1 .. Len(s)}
  BY <1>2 DEF Range
<1>7. \A p \in S : \E i \in 1 .. Len(s) : s[i] = p
  BY <1>1 DEF Range
<1> QED  BY <1>4, <1>5, <1>6, <1>7

\* A note has one mate.
LEMMA OneMate ==
    ASSUME NEW old, NEW new, NEW m \in Mates(old, new), NEW n \in Mates(old, new), m[1] = n[1]
    PROVE  m[2] = n[2]
<1> DEFINE S == Fresh(old, new)
<1>1. /\ S \in SUBSET Paths /\ m[2] \in S \ Images /\ n[2] \in S \ Images
      /\ new[m[2]] = new[n[2]] /\ Rank(m[2], S, new) = Rank(n[2], S, new)
  BY DEF Mates, Fresh
<1>2. \A x \in Paths : x \in Nat
  BY BoundsAssumption DEF Paths
<1>3. \A p, q \in S \ Images : Rank(p, S, new) \in Nat
  <2> SUFFICES ASSUME NEW p \in S
               PROVE  Rank(p, S, new) \in Nat
    OBVIOUS
  <2>1. IsFiniteSet(Paths)
    BY BoundsAssumption, FS_Interval DEF Paths
  <2>2. {q \in S \ Images : q < p /\ new[q] = new[p]} \in SUBSET Paths
    BY <1>1
  <2>3. IsFiniteSet({q \in S \ Images : q < p /\ new[q] = new[p]})
    BY <2>1, <2>2, FS_Subset
  <2> QED  BY <2>3, FS_CardinalityType DEF Rank
<1>4. CASE m[2] < n[2]
  <2>1. Rank(m[2], S, new) < Rank(n[2], S, new)
    BY <1>1, <1>4, RankGrows
  <2> QED  BY <1>1, <1>3, <2>1
<1>5. CASE n[2] < m[2]
  <2>1. Rank(n[2], S, new) < Rank(m[2], S, new)
    BY <1>1, <1>5, RankGrows
  <2> QED  BY <1>1, <1>3, <2>1
<1>6. m[2] \in Nat /\ n[2] \in Nat
  BY <1>1, <1>2
<1> QED  BY <1>4, <1>5, <1>6

\* The diff lists every path that changed, and pushes the text of every file that is new.
LEMMA DiffLists ==
    ASSUME NEW old \in [Paths -> Files], NEW new \in [Paths -> Files]
    PROVE  /\ Diff(old, new) \in Seq(Change)
           /\ \A c \in Range(Diff(old, new)) : c.op # "move" <=> c.from = c.path
           /\ \A p \in Paths : old[p] # new[p] =>
                 \E c \in Range(Diff(old, new)) : p \in {c.path, c.from}
           /\ \A p \in Paths : old[p] # new[p] /\ new[p] # Missing =>
                 \E c \in Range(Diff(old, new)) : c.path = p /\ c.op # "delete"
<1> DEFINE mates == Mates(old, new)
           fresh == Fresh(old, new) \ {m[2] : m \in mates}
           A == Edited(old, new) \cup (fresh \cap Images)
           B == Gone(old, new) \cap Images
           C == Gone(old, new) \ Images
           D == fresh \ Images
<1>1. Diff(old, new) = ((Puts(A) \o Leaves(B, mates)) \o Leaves(C, mates)) \o Puts(D)
  BY DEF Diff, Puts, Leaves, Put, Leave
<1>2. /\ A \in SUBSET Paths /\ B \in SUBSET Paths /\ C \in SUBSET Paths /\ D \in SUBSET Paths
      /\ mates \in SUBSET (Paths \X Paths)
  BY DEF Edited, Gone, Fresh, Mates
<1>3. \A m \in mates : m[1] \in C /\ m[2] \in Fresh(old, new) \ Images
  BY DEF Mates
<1>4. \A p \in Paths : old[p] # new[p] =>
         \/ p \in Edited(old, new)
         \/ p \in Gone(old, new) /\ new[p] = Missing
         \/ p \in Fresh(old, new)
  BY DEF Edited, Gone, Fresh
<1>5. \A m \in mates : Leave(m[1], mates) = [op |-> "move", path |-> m[2], from |-> m[1]]
  <2> SUFFICES ASSUME NEW m \in mates
               PROVE  Leave(m[1], mates) = [op |-> "move", path |-> m[2], from |-> m[1]]
    OBVIOUS
  <2>1. (CHOOSE n \in mates : n[1] = m[1]) \in mates /\ (CHOOSE n \in mates : n[1] = m[1])[1] = m[1]
    OBVIOUS
  <2>2. (CHOOSE n \in mates : n[1] = m[1])[2] = m[2]
    BY <2>1, OneMate
  <2> QED  BY <2>2 DEF Leave
<1>6. \A p \in Gone(old, new) : p \in B \/ p \in C
  OBVIOUS
<1>7. \A p \in Fresh(old, new) : p \in A \/ p \in D \/ \E m \in mates : m[2] = p
  BY <1>3
<1>8. Edited(old, new) \in SUBSET A /\ \A m \in mates : m[1] # m[2]
  BY <1>3 DEF Gone, Fresh
<1> HIDE DEF mates, fresh, A, B, C, D
<1>9. /\ Diff(old, new) \in Seq(Change)
      /\ Range(Diff(old, new)) = {Put(p) : p \in A} \cup {Leave(p, mates) : p \in B}
                                   \cup {Leave(p, mates) : p \in C} \cup {Put(p) : p \in D}
  <2>1. /\ Puts(A) \in Seq(Change) /\ Range(Puts(A)) = {Put(p) : p \in A}
        /\ Puts(D) \in Seq(Change) /\ Range(Puts(D)) = {Put(p) : p \in D}
    BY <1>2, PutsShape
  <2>2. /\ Leaves(B, mates) \in Seq(Change) /\ Range(Leaves(B, mates)) = {Leave(p, mates) : p \in B}
        /\ Leaves(C, mates) \in Seq(Change) /\ Range(Leaves(C, mates)) = {Leave(p, mates) : p \in C}
    BY <1>2, LeavesShape
  <2> DEFINE s == Puts(A) \o Leaves(B, mates)
             t == s \o Leaves(C, mates)
  <2>3. s \in Seq(Change) /\ Range(s) = Range(Puts(A)) \cup Range(Leaves(B, mates))
    BY <2>1, <2>2, RangeJoined
  <2> HIDE DEF s
  <2>4. t \in Seq(Change) /\ Range(t) = Range(s) \cup Range(Leaves(C, mates))
    BY <2>2, <2>3, RangeJoined
  <2> HIDE DEF t
  <2>5. t \o Puts(D) \in Seq(Change) /\ Range(t \o Puts(D)) = Range(t) \cup Range(Puts(D))
    BY <2>1, <2>4, RangeJoined
  <2>6. Diff(old, new) = t \o Puts(D)
    BY <1>1 DEF s, t
  <2>7. Range(t \o Puts(D)) = {Put(p) : p \in A} \cup {Leave(p, mates) : p \in B}
                                   \cup {Leave(p, mates) : p \in C} \cup {Put(p) : p \in D}
    BY <2>1, <2>2, <2>3, <2>4, <2>5
  <2> QED  BY <2>5, <2>6, <2>7
<1>10. ASSUME NEW c \in Range(Diff(old, new))
       PROVE  c.op # "move" <=> c.from = c.path
  <2>1. CASE \E p \in Paths : c = Put(p)
    BY <2>1 DEF Put
  <2>2. ASSUME NEW p \in Paths, c = Leave(p, mates)
        PROVE  c.op # "move" <=> c.from = c.path
    <3>1. CASE \E m \in mates : m[1] = p
      <4>1. PICK m \in mates : m[1] = p
        BY <3>1
      <4>2. c = [op |-> "move", path |-> m[2], from |-> m[1]] /\ m[1] # m[2]
        BY <1>5, <1>8, <2>2, <4>1
      <4> QED  BY <4>2
    <3>2. CASE ~\E m \in mates : m[1] = p
      BY <2>2, <3>2 DEF Leave
    <3> QED  BY <3>1, <3>2
  <2> QED  BY <1>2, <1>9, <2>1, <2>2
<1>11. ASSUME NEW p \in Paths, old[p] # new[p]
       PROVE  \E c \in Range(Diff(old, new)) : p \in {c.path, c.from}
  <2>1. CASE p \in A \/ p \in D
    <3>1. Put(p) \in Range(Diff(old, new))
      BY <1>9, <2>1
    <3> QED  BY <3>1 DEF Put
  <2>2. CASE p \in B \/ p \in C
    <3>1. Leave(p, mates) \in Range(Diff(old, new)) /\ Leave(p, mates).from = p
      BY <1>9, <2>2 DEF Leave
    <3> QED  BY <3>1
  <2>3. ASSUME NEW m \in mates, m[2] = p
        PROVE  \E c \in Range(Diff(old, new)) : p \in {c.path, c.from}
    <3>1. /\ Leave(m[1], mates) \in Range(Diff(old, new))
          /\ Leave(m[1], mates) = [op |-> "move", path |-> p, from |-> m[1]]
      BY <1>3, <1>5, <1>9, <2>3
    <3> QED  BY <3>1
  <2> QED  BY <1>4, <1>6, <1>7, <1>8, <1>11, <2>1, <2>2, <2>3
<1>12. ASSUME NEW p \in Paths, old[p] # new[p], new[p] # Missing
       PROVE  \E c \in Range(Diff(old, new)) : c.path = p /\ c.op # "delete"
  <2>1. CASE p \in A \/ p \in D
    <3>1. Put(p) \in Range(Diff(old, new))
      BY <1>9, <2>1
    <3> QED  BY <3>1 DEF Put
  <2>2. ASSUME NEW m \in mates, m[2] = p
        PROVE  \E c \in Range(Diff(old, new)) : c.path = p /\ c.op # "delete"
    <3>1. /\ Leave(m[1], mates) \in Range(Diff(old, new))
          /\ Leave(m[1], mates) = [op |-> "move", path |-> p, from |-> m[1]]
      BY <1>3, <1>5, <1>9, <2>2
    <3> QED  BY <3>1
  <2> QED  BY <1>4, <1>7, <1>8, <1>12, <2>1, <2>2
<1> QED  BY <1>9, <1>10, <1>11, <1>12

\* The feed has the current row of every path past the cursor.
LEMMA FeedShape ==
    ASSUME TypeOK, NEW since \in Nat
    PROVE  /\ Feed(since) \in Seq(Item)
           /\ Range(Feed(since)) = {[path |-> p, text |-> Current(p), version |-> Version(p)] :
                                       p \in {q \in Paths : last[q] > since}}
<1> DEFINE S == {p \in Paths : last[p] > since}
           s == Ordered(S, BySequence)
           row(p) == [path |-> p, text |-> Current(p), version |-> Version(p)]
<1>1. s \in Seq(S) /\ Range(s) = S
  BY SequenceInOrder DEF TypeOK
<1>2. Feed(since) = [i \in 1 .. Len(s) |-> row(s[i])]
  <2> HIDE DEF s
  <2>1. DOMAIN s = 1 .. Len(s)
    BY <1>1
  <2> QED  BY <2>1 DEF Feed, InOrder, s
<1>3. ASSUME NEW p \in S
      PROVE  row(p) \in Item
  <2>1. p \in Paths /\ hist[p] \in Seq(Files)
    BY DEF TypeOK
  <2>2. Version(p) \in Nat /\ Current(p) \in Files
    BY <2>1 DEF Version, Current, Files
  <2> QED  BY <2>1, <2>2 DEF Item
<1> HIDE DEF s
<1>4. \A i \in 1 .. Len(s) : s[i] \in S
  BY <1>1
<1>5. Feed(since) \in Seq(Item)
  <2> HIDE DEF row, S
  <2> QED  BY <1>1, <1>2, <1>3, <1>4
<1>6. Range(Feed(since)) = {row(s[i]) : i \in 1 .. Len(s)}
  BY <1>2 DEF Range
<1>7. \A p \in S : \E i \in 1 .. Len(s) : s[i] = p
  BY <1>1 DEF Range
<1> HIDE DEF row, S
<1>8. Range(Feed(since)) = {row(p) : p \in S}
  BY <1>4, <1>6, <1>7
<1> QED  BY <1>5, <1>8 DEF row, S

----------------------------------------------------------------------------
(***************************************************************************)
(* The server                                                              *)
(***************************************************************************)

\* What other devices' calls may do to what a device knows: a version may come on
\* top, with a sequence that nobody has seen.
ServerGrows ==
    /\ hist' \in [Paths -> Seq(Files)] /\ last' \in [Paths -> Nat] /\ seq' \in Nat
    /\ seq <= seq'
    /\ \A p \in Paths : /\ last[p] <= last'[p] /\ last'[p] <= seq'
                        /\ Version(p) <= Version(p)'
                        /\ last'[p] <= seq => last'[p] = last[p] /\ hist'[p] = hist[p]
    /\ InHistory \subseteq InHistory'

\* A new version of p, and a tombstone of the path it comes from.
Written(p, from, text) ==
    /\ seq' = seq + 1
    /\ \A q \in {p, from} : last'[q] = seq + 1 /\ Version(q)' = Version(q) + 1
    /\ \A q \in Paths \ {p, from} : last'[q] = last[q] /\ hist'[q] = hist[q]
    /\ Text(text) \subseteq InHistory'

LEMMA TextShape ==
    ASSUME NEW f \in Files
    PROVE  Text(f) \in Texts /\ (f \in Texts => Text(f) = f) /\ Text(f) \subseteq 1 .. MaxEdits
BY MissingAssumption DEF Text, Files, Texts

LEMMA Mutation ==
    ASSUME TypeOK, Bounds, NEW p \in Paths, NEW from \in Paths, NEW text \in Files,
           \/ Applied(p, text) /\ from = p
           \/ Moved(p, text, from) /\ from # p
    PROVE  ServerGrows /\ Written(p, from, text)
<1>1. Missing \in Files /\ hist \in [Paths -> Seq(Files)] /\ last \in [Paths -> Nat] /\ seq \in Nat
  BY DEF TypeOK, Files
<1>2. /\ hist' \in [Paths -> Seq(Files)] /\ last' \in [Paths -> Nat] /\ seq' = seq + 1
      /\ hist'[p] = Append(hist[p], text) /\ last'[p] = seq + 1
      /\ from # p => hist'[from] = Append(hist[from], Missing) /\ last'[from] = seq + 1
      /\ \A q \in Paths \ {p, from} : last'[q] = last[q] /\ hist'[q] = hist[q]
  <2>1. CASE Applied(p, text) /\ from = p
    BY <1>1, <2>1 DEF Applied
  <2>2. CASE Moved(p, text, from) /\ from # p
    <3>1. /\ hist' = [hist EXCEPT ![p] = Append(hist[p], text), ![from] = Append(hist[from], Missing)]
          /\ last' = [last EXCEPT ![p] = seq + 1, ![from] = seq + 1] /\ seq' = seq + 1
      BY <1>1, <2>2 DEF Moved
    <3>2. Append(hist[p], text) \in Seq(Files) /\ Append(hist[from], Missing) \in Seq(Files)
      BY <1>1
    <3>3. hist' \in [Paths -> Seq(Files)] /\ last' \in [Paths -> Nat]
      <4>1. ASSUME NEW T, NEW f \in [Paths -> T], NEW a \in T, NEW b \in T
            PROVE  [f EXCEPT ![p] = a, ![from] = b] \in [Paths -> T]
        OBVIOUS
      <4>2. seq + 1 \in Nat
        BY <1>1
      <4> QED  BY <1>1, <3>1, <3>2, <4>1, <4>2
    <3>4. /\ hist'[p] = Append(hist[p], text) /\ hist'[from] = Append(hist[from], Missing)
          /\ last'[p] = seq + 1 /\ last'[from] = seq + 1
      BY <1>1, <2>2, <3>1
    <3>5. \A q \in Paths \ {p, from} : last'[q] = last[q] /\ hist'[q] = hist[q]
      BY <1>1, <3>1
    <3> QED  BY <3>1, <3>3, <3>4, <3>5
  <2> QED  BY <2>1, <2>2
<1>3. \A q \in {p, from} : last'[q] = seq + 1 /\ Version(q)' = Version(q) + 1
  BY <1>1, <1>2 DEF Version
<1>4. \A q \in Paths : \A i \in DOMAIN hist[q] : i \in DOMAIN hist'[q] /\ hist'[q][i] = hist[q][i]
  <2> SUFFICES ASSUME NEW q \in Paths, NEW i \in DOMAIN hist[q]
               PROVE  i \in DOMAIN hist'[q] /\ hist'[q][i] = hist[q][i]
    OBVIOUS
  <2>1. hist[q] \in Seq(Files) /\ i \in 1 .. Len(hist[q])
    BY <1>1
  <2>2. hist'[q] = hist[q] \/ \E f \in Files : hist'[q] = Append(hist[q], f)
    BY <1>1, <1>2
  <2> QED  BY <2>1, <2>2
<1>5. InHistory \subseteq InHistory'
  BY <1>4 DEF InHistory
<1>6. Text(text) \subseteq InHistory'
  <2>1. Len(hist[p]) + 1 \in DOMAIN hist'[p] /\ hist'[p][Len(hist[p]) + 1] = text
    BY <1>1, <1>2
  <2>2. Text(text) \subseteq 1 .. MaxEdits
    BY TextShape
  <2> QED  BY <2>1, <2>2 DEF InHistory
<1>7. \A q \in Paths : /\ last[q] <= last'[q] /\ last'[q] <= seq'
                       /\ Version(q) <= Version(q)'
                       /\ last'[q] <= seq => last'[q] = last[q] /\ hist'[q] = hist[q]
  <2>1. ASSUME NEW q \in {p, from}
        PROVE  /\ last[q] <= last'[q] /\ last'[q] <= seq'
               /\ Version(q) <= Version(q)' /\ ~(last'[q] <= seq)
    <3>1. Version(q) \in Nat /\ last[q] <= seq /\ last[q] \in Nat /\ seq \in Nat
      BY <1>1 DEF Version, Bounds
    <3>2. last'[q] = seq + 1 /\ Version(q)' = Version(q) + 1 /\ seq' = seq + 1
      BY <1>2, <1>3
    <3> QED  BY <3>1, <3>2
  <2>2. ASSUME NEW q \in Paths \ {p, from}
        PROVE  last[q] <= last'[q] /\ last'[q] <= seq' /\ Version(q) <= Version(q)'
    <3>1. Version(q) \in Nat /\ Version(q)' = Version(q) /\ last[q] <= seq /\ last[q] \in Nat
      BY <1>1, <1>2 DEF Version, Bounds
    <3> QED  BY <1>1, <1>2, <3>1
  <2> QED  BY <1>2, <2>1, <2>2
<1> QED  BY <1>1, <1>2, <1>3, <1>5, <1>6, <1>7 DEF ServerGrows, Written

LEMMA NoMutation ==
    ASSUME TypeOK, Bounds, UNCHANGED server
    PROVE  ServerGrows
<1>1. /\ hist' = hist /\ last' = last /\ seq' = seq /\ seq \in Nat
      /\ \A p \in Paths : last[p] \in Nat /\ Version(p) \in Nat /\ Version(p)' = Version(p)
      /\ InHistory' = InHistory
  BY DEF server, TypeOK, Version, InHistory
<1> QED  BY <1>1 DEF ServerGrows, TypeOK, Bounds

\* No device has been told of more than has happened, nor of what lies past its cursor.
LEMMA Reaches ==
    ASSUME TypeOK, Bounds, NEW d \in Devices
    PROVE  /\ \A s \in Reach(d) \cup PageReach(d) : s \in Nat /\ s <= seq
           /\ \A s \in Reach(d) : s <= cursor[d]
<1>1. /\ cursor[d] \in Nat /\ work[d].at \in Nat /\ seq \in Nat
      /\ cursor[d] <= seq /\ work[d].at <= seq
  BY DEF TypeOK, Worker, Bounds
<1> QED  BY <1>1 DEF Reach, PageReach

\* ... which nothing but its own pulls changes.
LEMMA ReachStays ==
    ASSUME NEW d \in Devices, cursor'[d] = cursor[d], raced'[d] = raced[d]
    PROVE  /\ Reach(d)' = Reach(d)
           /\ work'[d].at = work[d].at => PageReach(d)' = PageReach(d)
BY DEF Reach, PageReach

\* With an answer adopted, it has been told what its page told it, or less.
LEMMA PulledReach ==
    ASSUME NEW d \in Devices, cursor'[d] = work[d].cursor,
           raced'[d] = raced[d] \cup (work[d].at + 1 .. work[d].cursor),
           work[d].at \in Nat, work[d].cursor \in Nat
    PROVE  \A s \in Reach(d)' : s \in PageReach(d)
BY DEF Reach, PageReach

----------------------------------------------------------------------------
(***************************************************************************)
(* What each step makes of the worker                                      *)
(***************************************************************************)

\* The other workers go on where they are.
Only(d) == work' \in [Devices -> Worker] /\ \A e \in Devices \ {d} : work'[e] = work[e]

\* Between cycles and after one there is nothing in the worker's hands.
Rests(d) == /\ work'[d].pc \in {"idle", "failed", "save"}
            /\ work'[d].todo = <<>> /\ work'[d].at = 0 /\ work'[d].cursor = 0

\* The worker goes on to pc with the same changes to push, the same versions and
\* the same conflict.
Continues(d, pc) ==
    /\ work'[d].pc = pc
    /\ work'[d].todo = work[d].todo /\ work'[d].vers = work[d].vers
    /\ work'[d].remote = work[d].remote /\ work'[d].version = work[d].version
    /\ work'[d].at = work[d].at /\ work'[d].cursor = work[d].cursor

\* ... or is done with the first of them.
Finishes(d) ==
    /\ work'[d].pc = "push" /\ work'[d].todo = Tail(work[d].todo)
    /\ work'[d].at = 0 /\ work'[d].cursor = 0

\* It has learnt that p is at version n, and from is gone.
Learns(d, p, from, n) ==
    \A q \in Paths : work'[d].vers[q] = IF q = p THEN n ELSE IF q = from THEN 0 ELSE work[d].vers[q]

\* Files of this device only.
DiskOnly(d) == /\ disk' \in [Devices -> [Paths -> Files]]
               /\ \A e \in Devices \ {d} : disk'[e] = disk[e]

LEMMA RestingShape == Resting \in Worker
<1>1. 0 \in Nat /\ Missing \in Files /\ <<>> \in Seq(Change) /\ <<>> \in Seq(Item)
  BY DEF Files
<1> QED  BY <1>1 DEF Resting, Worker

LEMMA JobShape ==
    ASSUME TypeOK, NEW d \in Devices, work[d].todo # <<>>
    PROVE  /\ Job(d) \in Change /\ Job(d).path \in Paths /\ Job(d).from \in Paths
           /\ Job(d) \in Range(work[d].todo) /\ Tail(work[d].todo) \in Seq(Change)
           /\ Range(work[d].todo) = {Job(d)} \cup Range(Tail(work[d].todo))
<1>1. work[d].todo \in Seq(Change)
  BY DEF TypeOK, Worker
<1>2. /\ Job(d) \in Change /\ Tail(work[d].todo) \in Seq(Change)
      /\ Range(work[d].todo) = {Job(d)} \cup Range(Tail(work[d].todo))
  BY <1>1, RangeTaken DEF Job
<1> QED  BY <1>2 DEF Change

LEMMA Turns ==
    ASSUME TypeOK, NEW d \in Devices, NEW w \in Worker, work' = [work EXCEPT ![d] = w]
    PROVE  Only(d) /\ work'[d] = w
BY DEF TypeOK, Only

LEMMA Rewrites ==
    ASSUME TypeOK, NEW d \in Devices, NEW p \in Paths, NEW f \in Files, disk' = [disk EXCEPT ![d][p] = f]
    PROVE  DiskOnly(d) /\ \A q \in Paths : disk'[d][q] = IF q = p THEN f ELSE disk[d][q]
BY DEF TypeOK, DiskOnly

LEMMA FinishingShape ==
    ASSUME TypeOK, NEW d \in Devices, work[d].todo # <<>>, NEW vers \in [Paths -> Nat], Done(d, vers)
    PROVE  Only(d) /\ Finishes(d) /\ work'[d].vers = vers
<1> DEFINE w == [Resting EXCEPT !.pc = "push", !.vers = vers, !.todo = Tail(work[d].todo)]
<1>1. Tail(work[d].todo) \in Seq(Change)
  BY JobShape
<1>2. w \in Worker
  BY <1>1, RestingShape DEF Worker
<1>3. Only(d) /\ work'[d] = w
  <2>1. work' = [work EXCEPT ![d] = w]
    BY DEF Done
  <2> HIDE DEF w
  <2> QED  BY <1>2, <2>1, Turns
<1> QED  BY <1>3 DEF Finishes, Resting

LEMMA StartCycleDoes ==
    ASSUME TypeOK, NEW d \in Devices, StartCycle(d)
    PROVE  /\ Only(d) /\ UNCHANGED <<server, disk, stored, world>>
           /\ work[d].pc = "idle" /\ work'[d].pc = "push" /\ work'[d].at = 0 /\ work'[d].cursor = 0
           /\ work'[d].vers = versions[d] /\ work'[d].todo = Diff(manifest[d], disk[d])
<1> DEFINE w == [Resting EXCEPT !.pc = "push", !.vers = versions[d], !.todo = Diff(manifest[d], disk[d])]
<1>1. manifest[d] \in [Paths -> Files] /\ disk[d] \in [Paths -> Files] /\ versions[d] \in [Paths -> Nat]
  BY DEF TypeOK
<1>2. Diff(manifest[d], disk[d]) \in Seq(Change)
  BY <1>1, DiffLists
<1>3. w \in Worker
  BY <1>1, <1>2, RestingShape DEF Worker
<1>4. Only(d) /\ work'[d] = w
  <2>1. work' = [work EXCEPT ![d] = w]
    BY DEF StartCycle
  <2> HIDE DEF w
  <2> QED  BY <1>3, <2>1, Turns
<1>5. UNCHANGED <<server, disk, stored, world>> /\ work[d].pc = "idle"
  BY DEF StartCycle, At
<1> QED  BY <1>4, <1>5 DEF Resting

LEMMA ReadLocalDoes ==
    ASSUME TypeOK, NEW d \in Devices, ReadLocal(d)
    PROVE  /\ Only(d) /\ UNCHANGED <<server, disk, stored, world>>
           /\ work[d].pc = "push" /\ work[d].todo # <<>> /\ Continues(d, "send")
           /\ work'[d].local = disk[d][Job(d).path] /\ work'[d].local \in Texts
<1> DEFINE f == disk[d][Job(d).path]
           w == [work[d] EXCEPT !.pc = "send", !.local = f]
<1>1. work[d].pc = "push" /\ work[d].todo # <<>> /\ f # Missing /\ UNCHANGED <<server, disk, stored, world>>
  BY DEF ReadLocal, At
<1>2. f \in Files /\ f \in Texts
  BY <1>1, JobShape DEF TypeOK, Files
<1>3. work[d] \in Worker
  BY DEF TypeOK
<1>4. work' = [work EXCEPT ![d] = w]
  BY DEF ReadLocal
<1> HIDE DEF f
<1>5. w \in Worker
  BY <1>2, <1>3 DEF Worker
<1>6. Only(d) /\ work'[d] = w
  BY <1>4, <1>5, Turns
<1> QED  BY <1>1, <1>2, <1>3, <1>6 DEF Continues, Worker, f

\* A PUT: applied, with what it moves; or turned away.
LEMMA PutWrites ==
    ASSUME TypeOK, Bounds, NEW d \in Devices, Shape(d), At(d, "send"), PutApplied(d)
    PROVE  ServerGrows /\ Written(Job(d).path, Job(d).from, work[d].local)
<1>1. work[d].todo # <<>> /\ work[d].local \in Files
  BY DEF Shape, Holding, At, Files
<1>2. Job(d).path \in Paths /\ Job(d).from \in Paths /\ (Job(d).op # "move" <=> Job(d).from = Job(d).path)
  BY <1>1, JobShape DEF Shape
<1> QED  BY <1>1, <1>2, Mutation DEF PutApplied

LEMMA SendPutDoes ==
    ASSUME TypeOK, Bounds, NEW d \in Devices, Shape(d), SendPut(d)
    PROVE  /\ Only(d) /\ ServerGrows /\ UNCHANGED <<disk, stored, made, dropped, exposed>>
           /\ work[d].pc = "send" /\ work[d].todo # <<>>
           /\ \/ /\ Written(Job(d).path, Job(d).from, work[d].local) /\ UNCHANGED astray
                 /\ Finishes(d) /\ Learns(d, Job(d).path, Job(d).from, Version(Job(d).path) + 1)
              \/ /\ UNCHANGED server /\ work[d].vers[Job(d).path] # Version(Job(d).path)
                 /\ astray' = IF Job(d).op = "move" THEN astray \cup {Job(d).from} ELSE astray
                 /\ work'[d].pc = "lost" /\ work'[d].todo = work[d].todo /\ work'[d].vers = work[d].vers
                 /\ work'[d].remote = Current(Job(d).path) /\ work'[d].version = Version(Job(d).path)
                 /\ work'[d].at = work[d].at /\ work'[d].cursor = work[d].cursor
<1> DEFINE c == Job(d)
           n == Version(c.path)
<1>1. work[d].pc = "send" /\ work[d].todo # <<>> /\ UNCHANGED <<disk, stored, made, dropped, exposed>>
  BY DEF SendPut, Shape, Holding, At
<1>2. c.path \in Paths /\ c.from \in Paths /\ (c.op # "move" <=> c.from = c.path)
  BY <1>1, JobShape DEF Shape
<1>3. work[d] \in Worker /\ work[d].vers \in [Paths -> Nat]
  BY DEF TypeOK, Worker
<1>4. hist[c.path] \in Seq(Files) /\ n \in Nat /\ Current(c.path) \in Files
  BY <1>2 DEF TypeOK, Version, Current, Files
<1>5. CASE work[d].vers[c.path] = n
  <2> DEFINE v == IF c.op = "move" THEN [Confirm(d, c.path, n + 1) EXCEPT ![c.from] = 0]
                                   ELSE Confirm(d, c.path, n + 1)
  <2>1. PutApplied(d) /\ Done(d, v) /\ UNCHANGED astray
    BY <1>5 DEF SendPut
  <2>2. ServerGrows /\ Written(c.path, c.from, work[d].local)
    BY <2>1, PutWrites DEF SendPut
  <2>3. /\ v \in [Paths -> Nat]
        /\ \A q \in Paths : v[q] = IF q = c.path THEN n + 1 ELSE IF q = c.from THEN 0 ELSE work[d].vers[q]
    <3> HIDE DEF c, n
    <3> QED  BY <1>2, <1>3, <1>4 DEF Confirm
  <2> HIDE DEF v
  <2>4. Only(d) /\ Finishes(d) /\ work'[d].vers = v
    BY <1>1, <2>1, <2>3, FinishingShape
  <2> QED  BY <1>1, <2>1, <2>2, <2>3, <2>4 DEF Learns
<1>6. CASE work[d].vers[c.path] # n
  <2> DEFINE w == [work[d] EXCEPT !.pc = "lost", !.local = Missing, !.remote = Current(c.path), !.version = n]
  <2>1. /\ work' = [work EXCEPT ![d] = w] /\ UNCHANGED server
        /\ astray' = IF c.op = "move" THEN astray \cup {c.from} ELSE astray
    BY <1>6 DEF SendPut
  <2>2. ServerGrows
    BY <2>1, NoMutation
  <2>3. w \in Worker
    <3> HIDE DEF c, n
    <3>1. Missing \in Files
      BY DEF Files
    <3> QED  BY <1>3, <1>4, <3>1 DEF Worker
  <2>4. Only(d) /\ work'[d] = w
    <3> HIDE DEF w
    <3> QED  BY <2>1, <2>3, Turns
  <2>5. /\ w.pc = "lost" /\ w.todo = work[d].todo /\ w.vers = work[d].vers
        /\ w.remote = Current(c.path) /\ w.version = n /\ w.at = work[d].at /\ w.cursor = work[d].cursor
    <3> HIDE DEF c, n
    <3> QED  BY <1>3 DEF Worker
  <2> HIDE DEF w
  <2> QED  BY <1>1, <1>6, <2>1, <2>2, <2>4, <2>5
<1> QED  BY <1>5, <1>6

LEMMA SendDeleteDoes ==
    ASSUME TypeOK, Bounds, NEW d \in Devices, Shape(d), SendDelete(d)
    PROVE  /\ Only(d) /\ ServerGrows /\ UNCHANGED <<disk, stored, world>>
           /\ work[d].pc = "push" /\ work[d].todo # <<>> /\ Job(d).op = "delete" /\ Finishes(d)
           /\ Job(d).from = Job(d).path
           /\ \/ /\ Written(Job(d).path, Job(d).path, Missing)
                 /\ Learns(d, Job(d).path, Job(d).path, Version(Job(d).path) + 1)
              \/ /\ UNCHANGED server /\ work[d].vers[Job(d).path] # Version(Job(d).path)
                 /\ work'[d].vers = work[d].vers
<1> DEFINE p == Job(d).path
<1>1. /\ work[d].pc = "push" /\ work[d].todo # <<>> /\ Job(d).op = "delete"
      /\ UNCHANGED <<disk, stored, world>>
  BY DEF SendDelete, At
<1>2. p \in Paths /\ Job(d).from = p
  BY <1>1, JobShape DEF Shape
<1>3. work[d].vers \in [Paths -> Nat] /\ Version(p) \in Nat /\ Missing \in Files
  <2>1. work[d] \in Worker /\ hist \in [Paths -> Seq(Files)]
    BY DEF TypeOK
  <2> HIDE DEF p
  <2> QED  BY <1>2, <2>1 DEF Worker, Version, Files
<1>4. CASE work[d].vers[p] = Version(p)
  <2>1. Applied(p, Missing) /\ Done(d, Confirm(d, p, Version(p) + 1))
    BY <1>4 DEF SendDelete
  <2>2. ServerGrows /\ Written(p, p, Missing)
    BY <1>2, <1>3, <2>1, Mutation
  <2> DEFINE v == Confirm(d, p, Version(p) + 1)
  <2>3. v \in [Paths -> Nat] /\ \A q \in Paths : v[q] = IF q = p THEN Version(p) + 1 ELSE work[d].vers[q]
    <3> HIDE DEF p
    <3> QED  BY <1>2, <1>3 DEF Confirm
  <2> HIDE DEF v
  <2>4. Only(d) /\ Finishes(d) /\ work'[d].vers = v
    BY <1>1, <2>1, <2>3, FinishingShape DEF v
  <2> QED  BY <1>1, <1>2, <2>2, <2>3, <2>4 DEF Learns
<1>5. CASE work[d].vers[p] # Version(p)
  <2>1. UNCHANGED server /\ Done(d, work[d].vers)
    BY <1>5 DEF SendDelete
  <2>2. ServerGrows
    BY <2>1, NoMutation
  <2>3. Only(d) /\ Finishes(d) /\ work'[d].vers = work[d].vers
    BY <1>1, <1>3, <2>1, FinishingShape
  <2> QED  BY <1>1, <1>2, <1>5, <2>1, <2>2, <2>3
<1> QED  BY <1>4, <1>5

LEMMA ReadBackDoes ==
    ASSUME TypeOK, NEW d \in Devices, Shape(d), ReadBack(d)
    PROVE  /\ Only(d) /\ UNCHANGED <<server, disk, stored, world>>
           /\ work[d].pc = "lost" /\ work[d].todo # <<>>
           /\ \E pc \in {"resend", "copy", "merge"} : Continues(d, pc)
           /\ work'[d].pc = "merge" => work[d].vers[Job(d).path] # 0
           /\ work'[d].local = disk[d][Job(d).path] /\ work'[d].local \in Texts
<1> DEFINE p == Job(d).path
           f == disk[d][p]
           pc == IF Job(d).op = "put" /\ p \in Images THEN "resend"
                 ELSE IF work[d].vers[p] = 0 THEN "copy" ELSE "merge"
           w == [work[d] EXCEPT !.local = f, !.pc = pc]
<1>1. work[d].pc = "lost" /\ work[d].todo # <<>> /\ f # Missing /\ UNCHANGED <<server, disk, stored, world>>
  BY DEF ReadBack, At, Shape, Beaten
<1>2. f \in Files /\ f \in Texts
  BY <1>1, JobShape DEF TypeOK, Files
<1>3. work[d] \in Worker
  BY DEF TypeOK
<1>4. work' = [work EXCEPT ![d] = w]
  BY DEF ReadBack
<1>5. pc \in {"resend", "copy", "merge"} /\ (pc = "merge" => work[d].vers[p] # 0)
  OBVIOUS
<1> HIDE DEF f, pc
<1>6. w \in Worker
  BY <1>2, <1>3, <1>5 DEF Worker
<1>7. Only(d) /\ work'[d] = w
  BY <1>4, <1>6, Turns
<1>8. Continues(d, pc) /\ work'[d].local = f
  BY <1>3, <1>7 DEF Continues, Worker
<1>9. work'[d].pc = pc
  BY <1>8 DEF Continues
<1> QED  BY <1>1, <1>2, <1>5, <1>7, <1>8, <1>9 DEF f

\* A merged text holds edits of the two it is made of.
LEMMA MergesShape ==
    ASSUME NEW a \in Texts, NEW l \in Texts, NEW r \in Texts, NEW text \in Merges(a, l, r)
    PROVE  text \in Texts
<1>1. \A edits : edits \in SUBSET (l \ a) => edits \in Texts
  BY DEF Texts
<1>2. r \ (a \ l) \in Texts
  BY DEF Texts
<1>3. PICK edits \in SUBSET (l \ a) : text = (r \ (a \ l)) \cup edits
  BY DEF Merges
<1> QED  BY <1>1, <1>2, <1>3 DEF Texts

LEMMA WriteMergeDoes ==
    ASSUME TypeOK, NEW d \in Devices, Shape(d), Covers(work[d].vers, Reach(d)), WriteMerge(d)
    PROVE  /\ Only(d) /\ UNCHANGED <<server, stored, made, dropped, astray>>
           /\ work[d].pc = "merge" /\ work[d].todo # <<>> /\ Continues(d, "resend")
           /\ work'[d].local \in Texts
           /\ exposed' = exposed \cup (work[d].local \ work'[d].local)
           /\ DiskOnly(d)
           /\ \A q \in Paths : disk'[d][q] = IF q = Job(d).path THEN work'[d].local ELSE disk[d][q]
<1> DEFINE p == Job(d).path
           a == Text(hist[p][work[d].vers[p]])
<1>1. work[d].pc = "merge" /\ work[d].todo # <<>> /\ UNCHANGED <<server, stored, made, dropped, astray>>
  BY DEF WriteMerge, At, Shape, Beaten
<1>2. p \in Paths
  BY <1>1, JobShape
<1>3. work[d] \in Worker /\ work[d].vers \in [Paths -> Nat]
  BY DEF TypeOK, Worker
<1>4. work[d].vers[p] \in 1 .. Len(hist[p])
  BY <1>1, <1>2, <1>3 DEF Shape, At, Covers, Version, TypeOK
<1>5. a \in Texts
  <2>1. hist[p][work[d].vers[p]] \in Files
    BY <1>2, <1>4 DEF TypeOK
  <2> QED  BY <2>1, TextShape
<1>6. work[d].local \in Texts /\ Text(work[d].local) = work[d].local /\ Text(work[d].remote) \in Texts
  BY <1>1, <1>3, TextShape DEF Shape, Holding, Worker, Files
<1>7. PICK text \in Merges(a, Text(work[d].local), Text(work[d].remote)) :
         /\ disk' = [disk EXCEPT ![d][p] = text]
         /\ work' = [work EXCEPT ![d] = [work[d] EXCEPT !.pc = "resend", !.local = text]]
         /\ exposed' = exposed \cup (Text(work[d].local) \ text)
  BY ZenonT(40) DEF WriteMerge
<1> HIDE DEF a
<1>8. text \in Texts /\ text \in Files
  BY <1>5, <1>6, <1>7, MergesShape DEF Files
<1> DEFINE w == [work[d] EXCEPT !.pc = "resend", !.local = text]
<1>9. w \in Worker
  BY <1>3, <1>8 DEF Worker
<1>10. Only(d) /\ work'[d] = w
  <2> HIDE DEF w
  <2>1. work' = [work EXCEPT ![d] = w]
    BY <1>7 DEF w
  <2> QED  BY <1>9, <2>1, Turns
<1>11. Continues(d, "resend") /\ work'[d].local = text
  BY <1>3, <1>10 DEF Continues, Worker
<1>12. DiskOnly(d) /\ \A q \in Paths : disk'[d][q] = IF q = p THEN text ELSE disk[d][q]
  <2> HIDE DEF p
  <2> QED  BY <1>2, <1>7, <1>8, Rewrites
<1> QED  BY <1>1, <1>6, <1>7, <1>8, <1>10, <1>11, <1>12

LEMMA ResendDoes ==
    ASSUME TypeOK, Bounds, NEW d \in Devices, Shape(d), Resend(d)
    PROVE  /\ Only(d) /\ ServerGrows /\ UNCHANGED <<disk, stored, made, dropped, astray>>
           /\ work[d].pc = "resend" /\ work[d].todo # <<>> /\ Finishes(d)
           /\ \/ /\ Written(Job(d).path, Job(d).path, work[d].local) /\ UNCHANGED exposed
                 /\ Learns(d, Job(d).path, Job(d).path, Version(Job(d).path) + 1)
              \/ /\ UNCHANGED server /\ work'[d].vers = work[d].vers
                 /\ exposed' = exposed \cup work[d].local
<1> DEFINE p == Job(d).path
<1>1. work[d].pc = "resend" /\ work[d].todo # <<>> /\ UNCHANGED <<disk, stored, made, dropped, astray>>
  BY DEF Resend, At, Shape, Beaten
<1>2. p \in Paths
  BY <1>1, JobShape
<1>3. work[d].vers \in [Paths -> Nat] /\ Version(p) \in Nat /\ work[d].local \in Files
  <2>1. work[d] \in Worker /\ hist \in [Paths -> Seq(Files)]
    BY DEF TypeOK
  <2> HIDE DEF p
  <2> QED  BY <1>2, <2>1 DEF Worker, Version
<1>4. CASE work[d].version = Version(p)
  <2>1. Applied(p, work[d].local) /\ Done(d, Confirm(d, p, Version(p) + 1)) /\ UNCHANGED exposed
    BY <1>4 DEF Resend
  <2>2. ServerGrows /\ Written(p, p, work[d].local)
    BY <1>2, <1>3, <2>1, Mutation
  <2> DEFINE v == Confirm(d, p, Version(p) + 1)
  <2>3. v \in [Paths -> Nat] /\ \A q \in Paths : v[q] = IF q = p THEN Version(p) + 1 ELSE work[d].vers[q]
    <3> HIDE DEF p
    <3> QED  BY <1>2, <1>3 DEF Confirm
  <2> HIDE DEF v
  <2>4. Only(d) /\ Finishes(d) /\ work'[d].vers = v
    BY <1>1, <2>1, <2>3, FinishingShape DEF v
  <2> QED  BY <1>1, <2>1, <2>2, <2>3, <2>4 DEF Learns
<1>5. CASE work[d].version # Version(p)
  <2>1. UNCHANGED server /\ Done(d, work[d].vers) /\ exposed' = exposed \cup work[d].local
    BY <1>5 DEF Resend
  <2>2. ServerGrows
    BY <2>1, NoMutation
  <2>3. Only(d) /\ Finishes(d) /\ work'[d].vers = work[d].vers
    BY <1>1, <1>3, <2>1, FinishingShape
  <2> QED  BY <1>1, <2>1, <2>2, <2>3
<1> QED  BY <1>4, <1>5

LEMMA WriteCopyDoes ==
    ASSUME TypeOK, NEW d \in Devices, Shape(d), WriteCopy(d)
    PROVE  /\ Only(d) /\ UNCHANGED <<server, stored, world>>
           /\ work[d].pc = "copy" /\ work[d].todo # <<>>
           /\ work'[d].pc = "sendcopy" /\ work'[d].todo = work[d].todo /\ work'[d].local = work[d].local
           /\ work'[d].remote = work[d].remote /\ work'[d].version = work[d].version
           /\ work'[d].at = work[d].at /\ work'[d].cursor = work[d].cursor
           /\ Learns(d, Job(d).path, Job(d).path, work[d].version)
           /\ work'[d].copy \in Paths /\ work'[d].copy # Job(d).path
           /\ disk[d][work'[d].copy] = Missing
           /\ DiskOnly(d)
           /\ \A q \in Paths : disk'[d][q] = IF q = work'[d].copy THEN work[d].local
                                             ELSE IF q = Job(d).path THEN Text(work[d].remote)
                                             ELSE disk[d][q]
<1> DEFINE p == Job(d).path
<1>1. work[d].pc = "copy" /\ work[d].todo # <<>> /\ UNCHANGED <<server, stored, world>>
  BY DEF WriteCopy, At, Shape, Beaten
<1>2. p \in Paths
  BY <1>1, JobShape
<1>3. work[d] \in Worker /\ work[d].local \in Files /\ work[d].vers \in [Paths -> Nat] /\ work[d].version \in Nat
  BY DEF TypeOK, Worker
<1>4. Text(work[d].remote) \in Files
  BY TextShape DEF TypeOK, Worker, Files
<1>5. PICK q \in Paths :
         /\ FirstFree(d, p, q)
         /\ disk' = [disk EXCEPT ![d][q] = work[d].local, ![d][p] = Text(work[d].remote)]
         /\ work' = [work EXCEPT ![d] = [work[d] EXCEPT !.pc = "sendcopy", !.copy = q,
                                                        !.vers = Confirm(d, p, work[d].version)]]
  BY ZenonT(40) DEF WriteCopy
<1>6. q # p /\ disk[d][q] = Missing
  BY <1>2, <1>5, CopiesAssumption DEF FirstFree
<1> DEFINE v == Confirm(d, p, work[d].version)
           w == [work[d] EXCEPT !.pc = "sendcopy", !.copy = q, !.vers = v]
<1>7. v \in [Paths -> Nat] /\ \A r \in Paths : v[r] = IF r = p THEN work[d].version ELSE work[d].vers[r]
  <2> HIDE DEF p
  <2> QED  BY <1>2, <1>3 DEF Confirm
<1>8. work' = [work EXCEPT ![d] = w]
  BY <1>5
<1> HIDE DEF v
<1>9. w \in Worker
  <2>1. q \in Nat
    BY BoundsAssumption DEF Paths
  <2> QED  BY <1>3, <1>7, <2>1 DEF Worker
<1>10. Only(d) /\ work'[d] = w
  <2> HIDE DEF w
  <2> QED  BY <1>8, <1>9, Turns
<1>11. /\ w.pc = "sendcopy" /\ w.todo = work[d].todo /\ w.local = work[d].local
       /\ w.remote = work[d].remote /\ w.version = work[d].version
       /\ w.at = work[d].at /\ w.cursor = work[d].cursor
       /\ w.vers = v /\ w.copy = q
  BY <1>3 DEF Worker
<1> HIDE DEF w
<1>12. /\ DiskOnly(d)
       /\ \A r \in Paths : disk'[d][r] = IF r = q THEN work[d].local
                                         ELSE IF r = p THEN Text(work[d].remote) ELSE disk[d][r]
  <2> DEFINE l == work[d].local
             t == Text(work[d].remote)
  <2>1. disk' = [disk EXCEPT ![d] = [disk[d] EXCEPT ![q] = l, ![p] = t]]
    BY <1>5 DEF TypeOK
  <2>2. disk[d] \in [Paths -> Files] /\ l \in Files /\ t \in Files
    BY <1>3, <1>4 DEF TypeOK
  <2> HIDE DEF l, t, p
  <2>3. /\ [disk[d] EXCEPT ![q] = l, ![p] = t] \in [Paths -> Files]
        /\ \A r \in Paths : [disk[d] EXCEPT ![q] = l, ![p] = t][r] =
                               IF r = q THEN l ELSE IF r = p THEN t ELSE disk[d][r]
    BY <1>2, <1>6, <2>2
  <2> QED  BY <2>1, <2>3 DEF DiskOnly, TypeOK, l, t
<1> QED  BY <1>1, <1>6, <1>7, <1>10, <1>11, <1>12 DEF Learns

LEMMA SendCopyDoes ==
    ASSUME TypeOK, Bounds, NEW d \in Devices, Shape(d), SendCopy(d)
    PROVE  /\ Only(d) /\ ServerGrows /\ UNCHANGED <<disk, stored, made, dropped>>
           /\ work[d].pc = "sendcopy" /\ work[d].todo # <<>> /\ Finishes(d)
           /\ \/ /\ Written(work[d].copy, work[d].copy, work[d].local) /\ UNCHANGED <<exposed, astray>>
                 /\ Learns(d, work[d].copy, work[d].copy, Version(work[d].copy) + 1)
              \/ /\ UNCHANGED server /\ work'[d].vers = work[d].vers
                 /\ exposed' = exposed \cup work[d].local
                 /\ astray' = IF last[work[d].copy] > cursor[d] THEN astray
                              ELSE astray \cup {work[d].copy}
<1> DEFINE q == work[d].copy
<1>1. work[d].pc = "sendcopy" /\ work[d].todo # <<>> /\ UNCHANGED <<disk, stored, made, dropped>>
  BY DEF SendCopy, At, Shape, Beaten
<1>2. q \in Paths
  BY <1>1 DEF Shape, At
<1>3. work[d].vers \in [Paths -> Nat] /\ Version(q) \in Nat /\ work[d].local \in Files
  <2>1. work[d] \in Worker /\ hist \in [Paths -> Seq(Files)]
    BY DEF TypeOK
  <2> HIDE DEF q
  <2> QED  BY <1>2, <2>1 DEF Worker, Version
<1>4. CASE Version(q) = 0
  <2>1. Applied(q, work[d].local) /\ Done(d, Confirm(d, q, 1)) /\ UNCHANGED <<exposed, astray>>
    BY <1>4 DEF SendCopy
  <2>2. ServerGrows /\ Written(q, q, work[d].local)
    BY <1>2, <1>3, <2>1, Mutation
  <2> DEFINE v == Confirm(d, q, 1)
  <2>3. v \in [Paths -> Nat] /\ \A p \in Paths : v[p] = IF p = q THEN 1 ELSE work[d].vers[p]
    <3> HIDE DEF q
    <3> QED  BY <1>2, <1>3 DEF Confirm
  <2> HIDE DEF v
  <2>4. Only(d) /\ Finishes(d) /\ work'[d].vers = v
    BY <1>1, <2>1, <2>3, FinishingShape DEF v
  <2> QED  BY <1>1, <1>4, <2>1, <2>2, <2>3, <2>4 DEF Learns
<1>5. CASE Version(q) # 0
  <2>1. /\ UNCHANGED server /\ Done(d, work[d].vers) /\ exposed' = exposed \cup work[d].local
        /\ astray' = IF last[q] > cursor[d] THEN astray ELSE astray \cup {q}
    BY <1>5 DEF SendCopy
  <2>2. ServerGrows
    BY <2>1, NoMutation
  <2>3. Only(d) /\ Finishes(d) /\ work'[d].vers = work[d].vers
    BY <1>1, <1>3, <2>1, FinishingShape
  <2> QED  BY <1>1, <2>1, <2>2, <2>3
<1> QED  BY <1>4, <1>5

LEMMA EndPushDoes ==
    ASSUME TypeOK, NEW d \in Devices, EndPush(d)
    PROVE  /\ Only(d) /\ UNCHANGED <<server, disk, kept, versions, cursor, raced, world>>
           /\ work[d].pc = "push" /\ work[d].todo = <<>> /\ Continues(d, "pull")
           /\ manifest' = [manifest EXCEPT ![d] = disk[d]]
<1> DEFINE w == [work[d] EXCEPT !.pc = "pull"]
<1>1. /\ work[d].pc = "push" /\ work[d].todo = <<>> /\ manifest' = [manifest EXCEPT ![d] = disk[d]]
      /\ UNCHANGED <<server, disk, kept, versions, cursor, raced, world>> /\ work' = [work EXCEPT ![d] = w]
  BY DEF EndPush, At
<1>2. work[d] \in Worker
  BY DEF TypeOK
<1>3. w \in Worker
  BY <1>2 DEF Worker
<1>4. Only(d) /\ work'[d] = w
  BY <1>1, <1>3, Turns
<1> QED  BY <1>1, <1>2, <1>4 DEF Continues, Worker

LEMMA GetChangesDoes ==
    ASSUME TypeOK, NEW d \in Devices, GetChanges(d)
    PROVE  /\ Only(d) /\ UNCHANGED <<server, disk, stored, world>>
           /\ work[d].pc = "pull" /\ work'[d].pc = "rows"
           /\ work'[d].todo = work[d].todo /\ work'[d].vers = work[d].vers
           /\ work'[d].at = seq /\ work'[d].cursor = work[d].cursor
           /\ work'[d].page = Feed(cursor[d])
<1> DEFINE w == [work[d] EXCEPT !.pc = "rows", !.page = Feed(cursor[d]), !.at = seq]
<1>1. /\ work[d].pc = "pull" /\ UNCHANGED <<server, disk, stored, world>>
      /\ work' = [work EXCEPT ![d] = w]
  BY DEF GetChanges, At
<1>2. work[d] \in Worker /\ seq \in Nat /\ cursor[d] \in Nat
  BY DEF TypeOK
<1>3. Feed(cursor[d]) \in Seq(Item)
  BY <1>2, FeedShape
<1>4. w \in Worker
  BY <1>2, <1>3 DEF Worker
<1>5. Only(d) /\ work'[d] = w
  <2> HIDE DEF w
  <2> QED  BY <1>1, <1>4, Turns
<1>6. /\ w.pc = "rows" /\ w.page = Feed(cursor[d]) /\ w.at = seq /\ w.cursor = work[d].cursor
      /\ w.todo = work[d].todo /\ w.vers = work[d].vers
  BY <1>2 DEF Worker
<1> HIDE DEF w
<1> QED  BY <1>1, <1>5, <1>6

LEMMA GetCursorDoes ==
    ASSUME TypeOK, NEW d \in Devices, GetCursor(d)
    PROVE  /\ Only(d) /\ UNCHANGED <<server, disk, stored, world>>
           /\ work[d].pc = "rows" /\ work'[d].pc = "apply"
           /\ work'[d].todo = work[d].todo /\ work'[d].vers = work[d].vers
           /\ work'[d].at = work[d].at /\ work'[d].cursor = seq /\ work'[d].page = work[d].page
<1> DEFINE w == [work[d] EXCEPT !.pc = "apply", !.cursor = seq]
<1>1. /\ work[d].pc = "rows" /\ UNCHANGED <<server, disk, stored, world>>
      /\ work' = [work EXCEPT ![d] = w]
  BY DEF GetCursor, At
<1>2. work[d] \in Worker /\ seq \in Nat
  BY DEF TypeOK
<1>3. w \in Worker
  BY <1>2 DEF Worker
<1>4. Only(d) /\ work'[d] = w
  <2> HIDE DEF w
  <2> QED  BY <1>1, <1>3, Turns
<1>5. /\ w.pc = "apply" /\ w.page = work[d].page /\ w.at = work[d].at /\ w.cursor = seq
      /\ w.todo = work[d].todo /\ w.vers = work[d].vers
  BY <1>2 DEF Worker
<1> HIDE DEF w
<1> QED  BY <1>1, <1>4, <1>5

LEMMA ApplyChangeDoes ==
    ASSUME TypeOK, NEW d \in Devices, ApplyChange(d), NEW item, item = Head(work[d].page)
    PROVE  /\ Only(d) /\ UNCHANGED <<server, stored, world>>
           /\ work[d].pc = "apply" /\ work'[d].pc = "apply"
           /\ work'[d].todo = work[d].todo
           /\ work'[d].at = work[d].at /\ work'[d].cursor = work[d].cursor
           /\ item \in Item /\ Range(work[d].page) = {item} \cup Range(work'[d].page)
           /\ Learns(d, item.path, item.path, item.version)
           /\ DiskOnly(d)
           /\ \A q \in Paths : disk'[d][q] = IF q = item.path THEN item.text ELSE disk[d][q]
<1> DEFINE v == Confirm(d, item.path, item.version)
           w == [work[d] EXCEPT !.page = Tail(work[d].page), !.vers = v]
<1>1. /\ work[d].pc = "apply" /\ work[d].page # <<>> /\ UNCHANGED <<server, stored, world>>
      /\ work' = [work EXCEPT ![d] = w] /\ disk' = [disk EXCEPT ![d][item.path] = item.text]
  BY DEF ApplyChange, At
<1>2. work[d] \in Worker /\ work[d].page \in Seq(Item) /\ work[d].vers \in [Paths -> Nat]
  BY DEF TypeOK, Worker
<1>3. item \in Item /\ Tail(work[d].page) \in Seq(Item) /\ Range(work[d].page) = {item} \cup Range(Tail(work[d].page))
  BY <1>1, <1>2, RangeTaken
<1>4. item.path \in Paths /\ item.text \in Files /\ item.version \in Nat
  BY <1>3 DEF Item
<1>5. v \in [Paths -> Nat] /\ \A q \in Paths : v[q] = IF q = item.path THEN item.version ELSE work[d].vers[q]
  BY <1>2, <1>4 DEF Confirm
<1> HIDE DEF v
<1>6. w \in Worker
  BY <1>2, <1>3, <1>5 DEF Worker
<1>7. Only(d) /\ work'[d] = w
  <2> HIDE DEF w
  <2> QED  BY <1>1, <1>6, Turns
<1>8. /\ w.pc = "apply" /\ w.todo = work[d].todo /\ w.at = work[d].at /\ w.cursor = work[d].cursor
      /\ w.page = Tail(work[d].page) /\ w.vers = v
  BY <1>1, <1>2 DEF Worker
<1> HIDE DEF w
<1>9. DiskOnly(d) /\ \A q \in Paths : disk'[d][q] = IF q = item.path THEN item.text ELSE disk[d][q]
  <2>1. disk' = [disk EXCEPT ![d][item.path] = item.text]
    BY <1>1
  <2> QED  BY <1>4, <2>1, Rewrites
<1> QED  BY <1>1, <1>3, <1>5, <1>7, <1>8, <1>9 DEF Learns

LEMMA EndPullDoes ==
    ASSUME TypeOK, NEW d \in Devices, EndPull(d)
    PROVE  /\ Only(d) /\ Rests(d) /\ UNCHANGED <<server, disk, kept, world>>
           /\ work[d].pc = "apply" /\ work[d].page = <<>> /\ work'[d].pc = "save"
           /\ manifest' = [manifest EXCEPT ![d] = disk[d]]
           /\ versions' = [versions EXCEPT ![d] = work[d].vers]
           /\ cursor' = [cursor EXCEPT ![d] = work[d].cursor]
           /\ raced' = [raced EXCEPT ![d] = raced[d] \cup (work[d].at + 1 .. work[d].cursor)]
<1> DEFINE w == [Resting EXCEPT !.pc = "save"]
<1>1. w \in Worker
  BY RestingShape DEF Worker
<1>2. /\ work[d].pc = "apply" /\ work[d].page = <<>> /\ work' = [work EXCEPT ![d] = w]
      /\ manifest' = [manifest EXCEPT ![d] = disk[d]]
      /\ versions' = [versions EXCEPT ![d] = work[d].vers]
      /\ cursor' = [cursor EXCEPT ![d] = work[d].cursor] /\ UNCHANGED <<server, disk, kept, world>>
      /\ raced' = [raced EXCEPT ![d] = raced[d] \cup (work[d].at + 1 .. work[d].cursor)]
  BY DEF EndPull, At
<1>3. Only(d) /\ work'[d] = w
  <2> HIDE DEF w
  <2> QED  BY <1>1, <1>2, Turns
<1> QED  BY <1>2, <1>3 DEF Rests, Resting

LEMMA SaveManifestDoes ==
    ASSUME TypeOK, NEW d \in Devices, SaveManifest(d)
    PROVE  /\ Only(d) /\ Rests(d) /\ UNCHANGED <<server, disk, manifest, versions, cursor, raced, world>>
           /\ work[d].pc = "save" /\ work'[d].pc = "idle"
           /\ kept' = [kept EXCEPT ![d] = manifest[d]]
<1>1. /\ work[d].pc = "save" /\ work' = [work EXCEPT ![d] = Resting]
      /\ kept' = [kept EXCEPT ![d] = manifest[d]]
      /\ UNCHANGED <<server, disk, manifest, versions, cursor, raced, world>>
  BY DEF SaveManifest, At
<1>2. Only(d) /\ work'[d] = Resting
  BY <1>1, RestingShape, Turns
<1> QED  BY <1>1, <1>2 DEF Rests, Resting

\* A cycle that ends before its end.
Fails(d) == Abandon(d) \/ FileVanished(d) \/ MergeFails(d) \/ Report(d) \/ LoseAnswer(d) \/ Crash(d)

LEMMA FailsDoes ==
    ASSUME TypeOK, Bounds, NEW d \in Devices, Shape(d), Fails(d)
    PROVE  /\ Only(d) /\ Rests(d) /\ work'[d].pc # "save" /\ ServerGrows
           /\ UNCHANGED <<disk, kept, versions, cursor, raced, made, dropped, exposed>>
           /\ \/ UNCHANGED <<manifest, astray>> /\ work[d].pc # "save"
              \/ /\ manifest' = [manifest EXCEPT ![d] = kept[d]]
                 /\ astray' = IF At(d, "save") THEN astray \cup {p \in Paths : kept[d][p] # manifest[d][p]}
                              ELSE astray
<1>1. ASSUME work' = [work EXCEPT ![d] = Resting] \/ work' = [work EXCEPT ![d] = [Resting EXCEPT !.pc = "failed"]]
      PROVE  Only(d) /\ Rests(d) /\ work'[d].pc # "save"
  <2> DEFINE w == [Resting EXCEPT !.pc = "failed"]
  <2>1. Resting \in Worker /\ w \in Worker
    BY RestingShape DEF Worker
  <2>2. Only(d) /\ (work'[d] = Resting \/ work'[d] = w)
    <3> HIDE DEF w
    <3>1. CASE work' = [work EXCEPT ![d] = Resting]
      BY <2>1, <3>1, Turns
    <3>2. CASE work' = [work EXCEPT ![d] = w]
      BY <2>1, <3>2, Turns
    <3> QED  BY <1>1, <3>1, <3>2 DEF w
  <2> QED  BY <2>2 DEF Rests, Resting
<1>2. UNCHANGED server => ServerGrows
  BY NoMutation
<1>3. CASE Abandon(d)
  <2>1. UNCHANGED <<server, disk, stored, astray, made, dropped, exposed>> /\ work[d].pc # "save"
    BY <1>3 DEF Abandon, Fault
  <2>2. Only(d) /\ Rests(d) /\ work'[d].pc # "save"
    BY <1>1, <1>3 DEF Abandon
  <2> QED  BY <1>2, <2>1, <2>2 DEF stored
<1>4. CASE FileVanished(d)
  <2>1. UNCHANGED <<server, disk, stored, world>> /\ work[d].pc # "save"
    BY <1>4 DEF FileVanished, At
  <2>2. Only(d) /\ Rests(d) /\ work'[d].pc # "save"
    BY <1>1, <1>4 DEF FileVanished
  <2> QED  BY <1>2, <2>1, <2>2 DEF stored, world
<1>5. CASE MergeFails(d)
  <2>1. UNCHANGED <<server, disk, stored, astray, made, dropped, exposed>> /\ work[d].pc # "save"
    BY <1>5 DEF MergeFails, Fault, At
  <2>2. Only(d) /\ Rests(d) /\ work'[d].pc # "save"
    BY <1>1, <1>5 DEF MergeFails
  <2> QED  BY <1>2, <2>1, <2>2 DEF stored
<1>6. CASE Report(d)
  <2>1. UNCHANGED <<server, disk, stored, world>> /\ work[d].pc # "save"
    BY <1>6 DEF Report, At
  <2>2. Only(d) /\ Rests(d) /\ work'[d].pc # "save"
    BY <1>1, <1>6 DEF Report
  <2> QED  BY <1>2, <2>1, <2>2 DEF stored, world
<1>7. CASE LoseAnswer(d)
  <2>1. UNCHANGED <<disk, stored, astray, made, dropped, exposed>> /\ At(d, "send") /\ PutApplied(d)
    BY <1>7 DEF LoseAnswer, Fault
  <2>2. ServerGrows
    BY <2>1, PutWrites
  <2>3. Only(d) /\ Rests(d) /\ work'[d].pc # "save"
    BY <1>1, <1>7 DEF LoseAnswer
  <2> QED  BY <2>1, <2>2, <2>3 DEF stored, At
<1>8. CASE Crash(d)
  <2>1. /\ UNCHANGED <<server, disk, kept, versions, cursor, raced, made, dropped, exposed>>
        /\ manifest' = [manifest EXCEPT ![d] = kept[d]]
        /\ astray' = IF At(d, "save") THEN astray \cup {p \in Paths : kept[d][p] # manifest[d][p]}
                     ELSE astray
    BY <1>8 DEF Crash, Fault
  <2>2. Only(d) /\ Rests(d) /\ work'[d].pc # "save"
    BY <1>1, <1>8 DEF Crash
  <2> QED  BY <1>2, <2>1, <2>2
<1> QED  BY <1>3, <1>4, <1>5, <1>6, <1>7, <1>8 DEF Fails

\* A user's step: what it does to a file while a cycle runs is marked, and no edit
\* goes but those of a file that is deleted.
LEMMA UserDoes ==
    ASSUME TypeOK, NEW d \in Devices, User(d)
    PROVE  /\ UNCHANGED <<server, stored, work>> /\ DiskOnly(d)
           /\ made' \in 0 .. MaxEdits /\ dropped' \in Texts /\ exposed' \in Texts /\ astray' \subseteq Paths
           /\ tidied' \in 0 .. env.tidy /\ faults' = faults
           /\ exposed \subseteq exposed' /\ dropped \subseteq dropped' /\ astray \subseteq astray'
           /\ \A p \in Paths :
                 \/ At(d, "idle")
                 \/ disk'[d][p] = disk[d][p]
                 \/ p \in astray' /\ Text(disk'[d][p]) \subseteq Text(disk[d][p]) \cup exposed'
           /\ \A p \in Paths : \A e \in Text(disk[d][p]) :
                 e \in dropped' \/ \E q \in Paths : e \in Text(disk'[d][q])
           /\ \/ made' = made
              \/ made' = made + 1 /\ \E q \in Paths : made' \in Text(disk'[d][q])
<1>1. PICK p \in Paths : Save(d, p) \/ Delete(d, p) \/ \E q \in Paths : Rename(d, p, q)
  BY DEF User
<1>2. /\ disk[d] \in [Paths -> Files] /\ disk \in [Devices -> [Paths -> Files]] /\ disk[d][p] \in Files
      /\ made \in 0 .. MaxEdits /\ MaxEdits \in Nat /\ dropped \in Texts /\ exposed \in Texts
      /\ astray \subseteq Paths /\ env.edits \in 0 .. MaxEdits /\ env.tidy \in Nat /\ tidied \in 0 .. env.tidy
  BY EnvironmentAssumption, BoundsAssumption DEF TypeOK
<1>3. Missing \in Files /\ Text(Missing) = {} /\ \A text \in Texts : text \in Files /\ Text(text) = text
  BY TextShape DEF Files, Text
<1>4. \A q \in Paths : Text(disk[d][q]) \in Texts
  BY <1>2, TextShape
<1>5. \A P : Touch(d, P) => /\ astray \subseteq astray' /\ (P \subseteq Paths => astray' \subseteq Paths)
                            /\ At(d, "idle") \/ P \subseteq astray'
  BY <1>2 DEF Touch
<1>6. CASE Save(d, p)
  <2> DEFINE f == Text(disk[d][p]) \cup {made + 1}
  <2>1. /\ UNCHANGED <<server, stored, work, dropped, tidied, faults>> /\ Touch(d, {p}) /\ made' = made + 1
        /\ made < env.edits /\ disk' = [disk EXCEPT ![d][p] = f]
        /\ exposed' = IF At(d, "idle") THEN exposed ELSE exposed \cup {made + 1}
    BY <1>6 DEF Save
  <2>2. made + 1 \in 1 .. MaxEdits
    BY <1>2, <2>1
  <2>3. f \in Texts /\ exposed' \in Texts /\ f \in Files /\ Text(f) = f
    <3>1. f \in Texts /\ exposed' \in Texts
      BY <1>2, <1>4, <2>1, <2>2 DEF Texts
    <3> QED  BY <1>3, <3>1
  <2>4. made + 1 \in f /\ Text(disk[d][p]) \subseteq f /\ (At(d, "idle") \/ f \subseteq Text(disk[d][p]) \cup exposed')
    BY <2>1
  <2> HIDE DEF f
  <2>5. DiskOnly(d) /\ \A q \in Paths : disk'[d][q] = IF q = p THEN f ELSE disk[d][q]
    BY <2>1, <2>3, Rewrites
  <2>6. made' \in 0 .. MaxEdits /\ made' = made + 1 /\ made' \in Text(disk'[d][p])
    BY <2>1, <2>2, <2>3, <2>4, <2>5
  <2>7. \A q \in Paths : \A e \in Text(disk[d][q]) : e \in Text(disk'[d][q])
    BY <2>3, <2>4, <2>5
  <2>8. \A q \in Paths : \/ At(d, "idle")
                         \/ disk'[d][q] = disk[d][q]
                         \/ q \in astray' /\ Text(disk'[d][q]) \subseteq Text(disk[d][q]) \cup exposed'
    BY <1>5, <2>1, <2>3, <2>4, <2>5
  <2>9. exposed \subseteq exposed' /\ dropped' = dropped /\ tidied' = tidied /\ faults' = faults
    BY <2>1
  <2>10. astray \subseteq astray' /\ astray' \subseteq Paths
    BY <1>5, <2>1
  <2> QED  BY <1>2, <2>1, <2>3, <2>5, <2>6, <2>7, <2>8, <2>9, <2>10
<1>7. CASE Delete(d, p)
  <2>1. /\ UNCHANGED <<server, stored, work, made, exposed, faults>> /\ Touch(d, {p})
        /\ tidied < env.tidy /\ tidied' = tidied + 1 /\ disk[d][p] # Missing
        /\ disk' = [disk EXCEPT ![d][p] = Missing] /\ dropped' = dropped \cup disk[d][p]
    BY <1>7 DEF Delete
  <2>2. disk[d][p] \in Texts /\ Text(disk[d][p]) = disk[d][p]
    BY <1>2, <1>3, <2>1 DEF Files
  <2>3. DiskOnly(d) /\ \A q \in Paths : disk'[d][q] = IF q = p THEN Missing ELSE disk[d][q]
    BY <1>3, <2>1, Rewrites
  <2>4. dropped' \in Texts /\ dropped \subseteq dropped' /\ tidied' \in 0 .. env.tidy
    <3>1. tidied' \in 0 .. env.tidy
      BY <1>2, <2>1
    <3>2. dropped' = dropped \cup disk[d][p]
      BY <2>1
    <3> QED  BY ONLY <1>2, <2>2, <3>1, <3>2 DEF Texts
  <2>5. \A q \in Paths : \A e \in Text(disk[d][q]) : e \in dropped' \/ e \in Text(disk'[d][q])
    BY <2>1, <2>2, <2>3
  <2>6. \A q \in Paths : \/ At(d, "idle")
                         \/ disk'[d][q] = disk[d][q]
                         \/ q \in astray' /\ Text(disk'[d][q]) \subseteq Text(disk[d][q]) \cup exposed'
    BY <1>3, <1>5, <2>1, <2>3
  <2>7. astray \subseteq astray' /\ astray' \subseteq Paths
    BY <1>5, <2>1
  <2> QED  BY <1>2, <2>1, <2>3, <2>4, <2>5, <2>6, <2>7
<1>8. ASSUME NEW q \in Paths, Rename(d, p, q)
      PROVE  /\ UNCHANGED <<server, stored, work, made, dropped, faults>> /\ DiskOnly(d)
             /\ exposed' \in Texts /\ exposed \subseteq exposed' /\ tidied' \in 0 .. env.tidy
             /\ astray \subseteq astray' /\ astray' \subseteq Paths
             /\ \A r \in Paths : \/ At(d, "idle")
                                 \/ disk'[d][r] = disk[d][r]
                                 \/ r \in astray' /\ Text(disk'[d][r]) \subseteq Text(disk[d][r]) \cup exposed'
             /\ \A r \in Paths : \A e \in Text(disk[d][r]) : \E s \in Paths : e \in Text(disk'[d][s])
  <2> DEFINE f == disk[d][p]
  <2>1. /\ UNCHANGED <<server, stored, work, made, dropped, faults>> /\ Touch(d, {p, q})
        /\ tidied < env.tidy /\ tidied' = tidied + 1 /\ f # Missing /\ disk[d][q] = Missing
        /\ disk' = [disk EXCEPT ![d] = [disk[d] EXCEPT ![p] = Missing, ![q] = f]]
        /\ exposed' = IF At(d, "idle") THEN exposed ELSE exposed \cup f
    BY <1>2, <1>8 DEF Rename
  <2>2. p # q /\ f \in Texts /\ f \in Files /\ Text(f) = f
    BY <1>2, <1>3, <2>1 DEF Files
  <2>3. /\ [disk[d] EXCEPT ![p] = Missing, ![q] = f] \in [Paths -> Files]
        /\ \A r \in Paths : [disk[d] EXCEPT ![p] = Missing, ![q] = f][r] =
                               IF r = q THEN f ELSE IF r = p THEN Missing ELSE disk[d][r]
    <3> HIDE DEF f
    <3> QED  BY <1>2, <1>3, <2>2
  <2>4. DiskOnly(d) /\ \A r \in Paths : disk'[d][r] = IF r = q THEN f ELSE IF r = p THEN Missing ELSE disk[d][r]
    <3> HIDE DEF f
    <3> QED  BY <1>2, <2>1, <2>3 DEF DiskOnly
  <2>5. exposed' \in Texts /\ exposed \subseteq exposed' /\ tidied' \in 0 .. env.tidy
    <3>1. tidied' \in 0 .. env.tidy
      BY <1>2, <2>1
    <3>2. exposed' = exposed \/ exposed' = exposed \cup f
      BY <2>1
    <3> HIDE DEF f
    <3> QED  BY ONLY <1>2, <2>2, <3>1, <3>2 DEF Texts
  <2>6. astray \subseteq astray' /\ astray' \subseteq Paths /\ (At(d, "idle") \/ {p, q} \subseteq astray')
    BY <1>5, <2>1
  <2>7. At(d, "idle") \/ f \subseteq exposed'
    BY <2>1
  <2> HIDE DEF f
  <2>8. \A r \in Paths : \/ At(d, "idle")
                         \/ disk'[d][r] = disk[d][r]
                         \/ r \in astray' /\ Text(disk'[d][r]) \subseteq Text(disk[d][r]) \cup exposed'
    <3> SUFFICES ASSUME NEW r \in Paths, ~At(d, "idle"), r \in {p, q}
                 PROVE  r \in astray' /\ Text(disk'[d][r]) \subseteq Text(disk[d][r]) \cup exposed'
      BY <2>4
    <3> QED  BY <1>3, <2>2, <2>4, <2>6, <2>7
  <2>9. \A r \in Paths : \A e \in Text(disk[d][r]) : \E s \in Paths : e \in Text(disk'[d][s])
    <3> SUFFICES ASSUME NEW r \in Paths, NEW e \in Text(disk[d][r])
                 PROVE  \E s \in Paths : e \in Text(disk'[d][s])
      OBVIOUS
    <3>1. CASE r = p
      <4>1. e \in Text(disk'[d][q])
        BY <2>2, <2>4, <3>1 DEF f
      <4> QED  BY <4>1
    <3>2. CASE r # p
      <4>1. r # q
        BY <1>3, <2>1
      <4> QED  BY <2>4, <3>2, <4>1
    <3> QED  BY <3>1, <3>2
  <2> QED  BY <2>1, <2>4, <2>5, <2>6, <2>8, <2>9
<1>9. CASE \E q \in Paths : Rename(d, p, q)
  BY <1>2, <1>8, <1>9
<1> QED  BY <1>1, <1>6, <1>7, <1>9

----------------------------------------------------------------------------
(***************************************************************************)
(* Types, bounds and the worker's hands                                    *)
(***************************************************************************)

\* A step of one device, for its case splits.
Step(d) ==
    \/ StartCycle(d) \/ ReadLocal(d) \/ SendPut(d) \/ SendDelete(d)
    \/ ReadBack(d) \/ WriteMerge(d) \/ Resend(d) \/ WriteCopy(d) \/ SendCopy(d)
    \/ EndPush(d) \/ GetChanges(d) \/ GetCursor(d) \/ ApplyChange(d) \/ EndPull(d)
    \/ SaveManifest(d) \/ Fails(d) \/ User(d)

LEMMA NextSteps == ASSUME Next PROVE UNCHANGED env /\ \E d \in Devices : Step(d)
BY DEF Next, Cycle, Step, Fails

Others(d) == \A e \in Devices \ {d} : /\ work'[e] = work[e] /\ disk'[e] = disk[e]
                                      /\ manifest'[e] = manifest[e] /\ kept'[e] = kept[e]
                                      /\ versions'[e] = versions[e] /\ cursor'[e] = cursor[e]
                                      /\ raced'[e] = raced[e]

\* Whatever the step, the server only grows, other devices' files stay, and what is
\* marked stays marked.
Marks == dropped \subseteq dropped' /\ exposed \subseteq exposed' /\ astray \subseteq astray'

LEMMA StepTypes ==
    ASSUME TypeOK, Bounds, NEW d \in Devices, Shape(d), VersionsCover(d), UNCHANGED env, Step(d)
    PROVE  TypeOK' /\ ServerGrows /\ Others(d) /\ Marks
<1>1. /\ disk \in [Devices -> [Paths -> Files]] /\ manifest \in [Devices -> [Paths -> Files]]
      /\ kept \in [Devices -> [Paths -> Files]] /\ versions \in [Devices -> [Paths -> Nat]]
      /\ cursor \in [Devices -> Nat] /\ raced \in [Devices -> SUBSET Nat]
      /\ work \in [Devices -> Worker] /\ seq \in Nat
      /\ dropped \in Texts /\ exposed \in Texts /\ astray \subseteq Paths
      /\ made \in 0 .. MaxEdits /\ env \in Environments /\ tidied \in 0 .. env.tidy /\ faults \in 0 .. env.faults
  BY DEF TypeOK
<1>2. work[d].vers \in [Paths -> Nat] /\ work[d].at \in Nat /\ work[d].cursor \in Nat
  BY <1>1 DEF Worker
<1> DEFINE Fine == /\ disk' \in [Devices -> [Paths -> Files]] /\ manifest' \in [Devices -> [Paths -> Files]]
                   /\ kept' \in [Devices -> [Paths -> Files]] /\ versions' \in [Devices -> [Paths -> Nat]]
                   /\ cursor' \in [Devices -> Nat] /\ raced' \in [Devices -> SUBSET Nat] /\ Only(d)
                   /\ dropped' \in Texts /\ exposed' \in Texts /\ astray' \subseteq Paths
                   /\ made' \in 0 .. MaxEdits
                   /\ tidied' \in 0 .. env.tidy /\ faults' \in 0 .. env.faults
<1>3. Fine /\ ServerGrows => TypeOK'
  BY <1>1 DEF TypeOK, ServerGrows, Only
<1>4. UNCHANGED <<disk, stored>> /\ Only(d) => Others(d)
  BY DEF Others, Only, stored
<1>5. UNCHANGED <<server, disk, stored, world>> /\ Only(d) => TypeOK' /\ ServerGrows /\ Others(d) /\ Marks
  BY <1>1, <1>3, <1>4, NoMutation DEF world, stored, Marks
<1>6. /\ \A S, T : S \in Texts /\ T \in Texts => S \cup T \in Texts
      /\ \A S, T, U : S \in Texts /\ T \in Texts => S \cup (T \ U) \in Texts
  BY DEF Texts
<1>7. CASE StartCycle(d)
  BY <1>5, <1>7, StartCycleDoes
<1>8. CASE ReadLocal(d)
  BY <1>5, <1>8, ReadLocalDoes
<1>9. CASE SendPut(d)
  <2>1. /\ Only(d) /\ ServerGrows /\ UNCHANGED <<disk, stored, made, dropped, exposed>>
        /\ work[d].todo # <<>>
        /\ astray' = astray \/ astray' = astray \cup {Job(d).from}
    BY <1>9, SendPutDoes
  <2>2. UNCHANGED <<tidied, faults>>
    BY <1>9 DEF SendPut
  <2>3. Job(d).from \in Paths
    BY <2>1, JobShape
  <2> QED  BY <1>1, <1>3, <1>4, <2>1, <2>2, <2>3 DEF stored, Marks
<1>10. CASE SendDelete(d)
  <2>1. Only(d) /\ ServerGrows /\ UNCHANGED <<disk, stored, world>>
    BY <1>10, SendDeleteDoes
  <2> QED  BY <1>1, <1>3, <1>4, <2>1 DEF stored, world, Marks
<1>11. CASE ReadBack(d)
  BY <1>5, <1>11, ReadBackDoes
<1>12. CASE WriteMerge(d)
  <2>1. /\ Only(d) /\ UNCHANGED <<server, stored, made, dropped, astray>> /\ DiskOnly(d)
        /\ work[d].pc = "merge" /\ work'[d].local \in Texts
        /\ exposed' = exposed \cup (work[d].local \ work'[d].local)
    <3>1. work[d].pc = "merge"
      BY <1>12 DEF WriteMerge, At
    <3>2. Covers(work[d].vers, Reach(d))
      BY <3>1 DEF VersionsCover, Pushing
    <3> QED  BY <1>12, <3>2, WriteMergeDoes
  <2>2. UNCHANGED <<tidied, faults>>
    BY <1>12 DEF WriteMerge
  <2>3. exposed' \in Texts
    <3>1. work[d].local \in Texts
      BY <2>1 DEF Shape, Holding
    <3> QED  BY <1>1, <1>6, <2>1, <3>1
  <2> QED  BY <1>1, <1>3, <2>1, <2>2, <2>3, NoMutation DEF stored, Marks, Others, Only, DiskOnly
<1>13. CASE Resend(d)
  <2>1. /\ Only(d) /\ ServerGrows /\ UNCHANGED <<disk, stored, made, dropped, astray>>
        /\ work[d].pc = "resend" /\ (exposed' = exposed \/ exposed' = exposed \cup work[d].local)
    BY <1>13, ResendDoes
  <2>2. UNCHANGED <<tidied, faults>>
    BY <1>13 DEF Resend
  <2>3. exposed' \in Texts
    <3>1. work[d].local \in Texts
      BY <2>1 DEF Shape, Holding
    <3>2. exposed \cup work[d].local \in Texts
      BY <1>1, <1>6, <3>1
    <3> QED  BY <1>1, <2>1, <3>1, <3>2
  <2> QED  BY <1>1, <1>3, <1>4, <2>1, <2>2, <2>3 DEF stored, Marks
<1>14. CASE WriteCopy(d)
  <2>1. Only(d) /\ UNCHANGED <<server, stored, world>> /\ DiskOnly(d)
    BY <1>14, WriteCopyDoes
  <2> QED  BY <1>1, <1>3, <2>1, NoMutation DEF stored, world, Marks, Others, Only, DiskOnly
<1>15. CASE SendCopy(d)
  <2>1. /\ Only(d) /\ ServerGrows /\ UNCHANGED <<disk, stored, made, dropped>>
        /\ work[d].pc = "sendcopy" /\ (exposed' = exposed \/ exposed' = exposed \cup work[d].local)
        /\ (astray' = astray \/ astray' = astray \cup {work[d].copy})
    BY <1>15, SendCopyDoes
  <2>2. UNCHANGED <<tidied, faults>>
    BY <1>15 DEF SendCopy
  <2>3. exposed' \in Texts /\ astray' \subseteq Paths
    <3>1. work[d].local \in Texts /\ work[d].copy \in Paths
      BY <2>1 DEF Shape, Holding, At
    <3>2. exposed \cup work[d].local \in Texts
      BY <1>1, <1>6, <3>1
    <3> QED  BY <1>1, <2>1, <3>1, <3>2
  <2> QED  BY <1>1, <1>3, <1>4, <2>1, <2>2, <2>3 DEF stored, Marks
<1>16. CASE EndPush(d)
  <2>1. /\ Only(d) /\ UNCHANGED <<server, disk, kept, versions, cursor, raced, world>>
        /\ manifest' = [manifest EXCEPT ![d] = disk[d]]
    BY <1>16, EndPushDoes
  <2> QED  BY <1>1, <1>3, <2>1, NoMutation DEF world, Marks, Others, Only
<1>17. CASE GetChanges(d)
  BY <1>5, <1>17, GetChangesDoes
<1>18. CASE ApplyChange(d)
  <2>1. Only(d) /\ UNCHANGED <<server, stored, world>> /\ DiskOnly(d)
    BY <1>18, ApplyChangeDoes
  <2> QED  BY <1>1, <1>3, <2>1, NoMutation DEF stored, world, Marks, Others, Only, DiskOnly
<1>19. CASE EndPull(d)
  <2>1. /\ Only(d) /\ UNCHANGED <<server, disk, kept, world>>
        /\ manifest' = [manifest EXCEPT ![d] = disk[d]]
        /\ versions' = [versions EXCEPT ![d] = work[d].vers]
        /\ cursor' = [cursor EXCEPT ![d] = work[d].cursor]
        /\ raced' = [raced EXCEPT ![d] = raced[d] \cup (work[d].at + 1 .. work[d].cursor)]
    BY <1>19, EndPullDoes
  <2>2. raced' \in [Devices -> SUBSET Nat]
    <3> DEFINE gap == work[d].at + 1 .. work[d].cursor
    <3>1. gap \in SUBSET Nat
      BY <1>2
    <3> HIDE DEF gap
    <3>2. raced' = [raced EXCEPT ![d] = raced[d] \cup gap]
      BY <2>1 DEF gap
    <3> QED  BY <1>1, <3>1, <3>2
  <2> QED  BY <1>1, <1>2, <1>3, <2>1, <2>2, NoMutation DEF world, Marks, Others, Only
<1>20. CASE SaveManifest(d)
  <2>1. /\ Only(d) /\ UNCHANGED <<server, disk, manifest, versions, cursor, raced, world>>
        /\ kept' = [kept EXCEPT ![d] = manifest[d]]
    BY <1>20, SaveManifestDoes
  <2> QED  BY <1>1, <1>3, <2>1, NoMutation DEF world, Marks, Others, Only
<1>21. CASE Fails(d)
  <2>1. /\ Only(d) /\ ServerGrows
        /\ UNCHANGED <<disk, kept, versions, cursor, raced, made, dropped, exposed>>
        /\ manifest' = manifest \/ manifest' = [manifest EXCEPT ![d] = kept[d]]
        /\ astray \subseteq astray' /\ astray' \subseteq Paths
    BY <1>1, <1>21, FailsDoes
  <2>2. UNCHANGED tidied /\ faults' \in 0 .. env.faults
    <3>1. \/ UNCHANGED <<tidied, faults>>
          \/ UNCHANGED tidied /\ faults < env.faults /\ faults' = faults + 1
      BY <1>21 DEF Fails, Abandon, FileVanished, MergeFails, Report, LoseAnswer, Crash, Fault, world
    <3>2. env.faults \in Nat
      BY <1>1, EnvironmentAssumption
    <3> QED  BY <1>1, <3>1, <3>2
  <2> QED  BY <1>1, <1>3, <2>1, <2>2 DEF Marks, Others, Only
<1>22. CASE User(d)
  <2>1. /\ UNCHANGED <<server, stored, work>> /\ DiskOnly(d)
        /\ made' \in 0 .. MaxEdits /\ dropped' \in Texts /\ exposed' \in Texts /\ astray' \subseteq Paths
        /\ tidied' \in 0 .. env.tidy /\ faults' = faults /\ Marks
    BY <1>22, UserDoes DEF Marks
  <2> QED  BY <1>1, <1>3, <2>1, NoMutation DEF stored, Others, Only, DiskOnly
<1>23. CASE GetCursor(d)
  BY <1>5, <1>23, GetCursorDoes
<1> QED  BY <1>7, <1>8, <1>9, <1>10, <1>11, <1>12, <1>13, <1>14, <1>15, <1>16, <1>17, <1>18,
            <1>19, <1>20, <1>21, <1>22, <1>23 DEF Step

\* Steps that only move the worker on, and a device whose worker does not move.
LEMMA ShapeOfContinuing ==
    ASSUME TypeOK, NEW d \in Devices, Shape(d), work'[d].todo = work[d].todo, work[d].todo # <<>>,
           work'[d].pc \in {"send", "resend", "copy", "merge", "sendcopy", "lost"}, Job(d).op # "delete",
           work'[d].pc # "lost" => work'[d].local \in Texts,
           work'[d].pc = "merge" => work'[d].vers[Job(d).path] # 0,
           work'[d].pc = "sendcopy" => work'[d].copy \in Paths
    PROVE  Shape(d)'
<1>1. Job(d)' = Job(d)
  BY DEF Job
<1> QED  BY <1>1 DEF Shape, Holding, Beaten, At

LEMMA ShapeOfPushing ==
    ASSUME NEW d \in Devices, work'[d].pc \in {"push", "pull", "rows", "apply", "idle", "failed", "save"},
           \A c \in Range(work'[d].todo) : c.op # "move" <=> c.from = c.path
    PROVE  Shape(d)'
BY DEF Shape, Holding, Beaten, At

LEMMA NothingToDo == Range(<<>>) = {}
BY DEF Range

LEMMA StepShape ==
    ASSUME TypeOK, Bounds, NEW d \in Devices, Shape(d), VersionsCover(d), Step(d), ServerGrows
    PROVE  Shape(d)' /\ cursor'[d] <= seq' /\ work'[d].at <= seq' /\ work'[d].cursor <= seq'
<1>1. /\ cursor \in [Devices -> Nat] /\ work[d].cursor \in Nat /\ seq \in Nat /\ seq' \in Nat /\ seq <= seq'
      /\ cursor[d] <= seq /\ work[d].cursor <= seq /\ cursor[d] \in Nat
      /\ work[d].at \in Nat /\ work[d].at <= seq
  BY DEF TypeOK, Worker, Bounds, ServerGrows
<1>2. /\ UNCHANGED stored => cursor' = cursor
      /\ cursor' = cursor => cursor'[d] <= seq'
      /\ work'[d].cursor = 0 \/ work'[d].cursor = work[d].cursor => work'[d].cursor <= seq'
      /\ work'[d].at = 0 \/ work'[d].at = work[d].at => work'[d].at <= seq'
      /\ Rests(d) => work'[d].at = 0 /\ work'[d].cursor = 0 /\ Shape(d)'
      /\ \A pc : Continues(d, pc) => work'[d].at = work[d].at /\ work'[d].cursor = work[d].cursor
  <2>1. Rests(d) => Shape(d)'
    BY ShapeOfPushing, NothingToDo DEF Rests
  <2> QED  BY <1>1, <2>1 DEF stored, Rests, Continues
<1>3. Finishes(d) /\ work[d].todo # <<>> => work'[d].at = 0 /\ work'[d].cursor = 0 /\ Shape(d)'
  <2>1. work[d].todo # <<>> => Range(Tail(work[d].todo)) \subseteq Range(work[d].todo)
    BY JobShape
  <2> QED  BY <2>1, ShapeOfPushing DEF Finishes, Shape
<1>4. CASE StartCycle(d)
  <2>1. manifest[d] \in [Paths -> Files] /\ disk[d] \in [Paths -> Files]
    BY DEF TypeOK
  <2>2. Shape(d)'
    BY <1>4, <2>1, StartCycleDoes, DiffLists, ShapeOfPushing
  <2> QED  BY <1>2, <1>4, <2>2, StartCycleDoes
<1>5. CASE ReadLocal(d)
  <2>1. Job(d).op # "delete"
    BY <1>5 DEF ReadLocal
  <2>2. Shape(d)'
    BY <1>5, <2>1, ReadLocalDoes, ShapeOfContinuing DEF Continues
  <2> QED  BY <1>2, <1>5, <2>2, ReadLocalDoes
<1>6. CASE SendPut(d)
  <2>1. UNCHANGED stored /\ work[d].todo # <<>> /\ Job(d).op # "delete"
    BY <1>6, SendPutDoes DEF Shape, Holding
  <2>2. CASE Finishes(d)
    BY <1>2, <1>3, <2>1, <2>2
  <2>3. CASE /\ work'[d].pc = "lost" /\ work'[d].todo = work[d].todo /\ work'[d].cursor = work[d].cursor
             /\ work'[d].at = work[d].at
    BY <1>2, <2>1, <2>3, ShapeOfContinuing
  <2> QED  BY <1>6, <2>2, <2>3, SendPutDoes
<1>7. CASE SendDelete(d)
  BY <1>2, <1>3, <1>7, SendDeleteDoes
<1>8. CASE ReadBack(d)
  <2>1. PICK pc \in {"resend", "copy", "merge"} : Continues(d, pc)
    BY <1>8, ReadBackDoes
  <2>2. /\ work'[d].pc = pc /\ work'[d].todo = work[d].todo /\ work[d].todo # <<>> /\ work'[d].vers = work[d].vers
        /\ work'[d].local \in Texts /\ (pc = "merge" => work[d].vers[Job(d).path] # 0)
    BY <1>8, <2>1, ReadBackDoes DEF Continues
  <2>3. Job(d).op # "delete"
    BY <1>8, ReadBackDoes DEF Shape, Beaten
  <2>4. Shape(d)'
    BY <2>2, <2>3, ShapeOfContinuing
  <2> QED  BY <1>2, <1>8, <2>1, <2>4, ReadBackDoes
<1>9. CASE WriteMerge(d)
  <2>1. work[d].pc = "merge"
    BY <1>9 DEF WriteMerge, At
  <2>2. Covers(work[d].vers, Reach(d))
    BY <2>1 DEF VersionsCover, Pushing
  <2>3. /\ UNCHANGED stored /\ Continues(d, "resend") /\ work[d].todo # <<>> /\ work'[d].local \in Texts
    BY <1>9, <2>2, WriteMergeDoes
  <2>4. Job(d).op # "delete"
    BY <2>1 DEF Shape, Holding
  <2>5. Shape(d)'
    BY <2>3, <2>4, ShapeOfContinuing DEF Continues
  <2> QED  BY <1>2, <2>3, <2>5
<1>10. CASE Resend(d)
  BY <1>2, <1>3, <1>10, ResendDoes
<1>11. CASE WriteCopy(d)
  <2>1. work[d].local \in Texts /\ Job(d).op # "delete"
    BY <1>11, WriteCopyDoes DEF Shape, Holding
  <2>2. Shape(d)'
    BY <1>11, <2>1, WriteCopyDoes, ShapeOfContinuing
  <2> QED  BY <1>2, <1>11, <2>2, WriteCopyDoes
<1>12. CASE SendCopy(d)
  BY <1>2, <1>3, <1>12, SendCopyDoes
<1>13. CASE EndPush(d)
  <2>1. Shape(d)'
    BY <1>13, EndPushDoes, ShapeOfPushing, NothingToDo DEF Continues
  <2> QED  BY <1>2, <1>13, <2>1, EndPushDoes
<1>14. CASE GetChanges(d)
  <2>1. Shape(d)'
    BY <1>14, GetChangesDoes, ShapeOfPushing DEF Shape
  <2> QED  BY <1>1, <1>2, <1>14, <2>1, GetChangesDoes
<1>20. CASE GetCursor(d)
  <2>1. Shape(d)'
    BY <1>20, GetCursorDoes, ShapeOfPushing DEF Shape
  <2> QED  BY <1>1, <1>2, <1>20, <2>1, GetCursorDoes
<1>15. CASE ApplyChange(d)
  <2>1. Shape(d)'
    BY <1>15, ApplyChangeDoes, ShapeOfPushing DEF Shape
  <2> QED  BY <1>2, <1>15, <2>1, ApplyChangeDoes
<1>16. CASE EndPull(d)
  <2>1. cursor'[d] = work[d].cursor /\ Rests(d)
    BY <1>1, <1>16, EndPullDoes
  <2> QED  BY <1>1, <1>2, <2>1
<1>17. CASE SaveManifest(d)
  BY <1>2, <1>17, SaveManifestDoes
<1>18. CASE Fails(d)
  BY <1>2, <1>18, FailsDoes
<1>19. CASE User(d)
  <2>1. UNCHANGED <<stored, work>>
    BY <1>19, UserDoes
  <2>2. Shape(d)'
    BY <2>1 DEF Shape, Holding, Beaten, At, Job
  <2> QED  BY <1>2, <2>1, <2>2
<1> QED  BY <1>4, <1>5, <1>6, <1>7, <1>8, <1>9, <1>10, <1>11, <1>12, <1>13, <1>14, <1>15, <1>16, <1>17,
            <1>18, <1>19, <1>20 DEF Step

LEMMA StepBounds ==
    ASSUME TypeOK, Bounds, NEW d \in Devices, \A e \in Devices : Shape(e), VersionsCover(d),
           UNCHANGED env, Step(d)
    PROVE  Bounds' /\ \A e \in Devices : Shape(e)'
<1>1. ServerGrows /\ Others(d)
  BY StepTypes
<1>2. Shape(d)' /\ cursor'[d] <= seq' /\ work'[d].at <= seq' /\ work'[d].cursor <= seq'
  BY <1>1, StepShape
<1>3. ASSUME NEW e \in Devices \ {d}
      PROVE  Shape(e)' /\ cursor'[e] <= seq' /\ work'[e].at <= seq' /\ work'[e].cursor <= seq'
  <2>1. work'[e] = work[e] /\ cursor'[e] = cursor[e]
    BY <1>1 DEF Others
  <2>2. Shape(e)'
    BY <2>1 DEF Shape, Holding, Beaten, At, Job
  <2>3. /\ cursor[e] \in Nat /\ work[e].cursor \in Nat /\ seq \in Nat /\ seq' \in Nat /\ seq <= seq'
        /\ cursor[e] <= seq /\ work[e].cursor <= seq /\ work[e].at \in Nat /\ work[e].at <= seq
    BY <1>1 DEF TypeOK, Worker, Bounds, ServerGrows
  <2> QED  BY <2>1, <2>2, <2>3
<1>4. \A p \in Paths : last'[p] <= seq'
  BY <1>1 DEF ServerGrows
<1> QED  BY <1>2, <1>3, <1>4 DEF Bounds

----------------------------------------------------------------------------
(***************************************************************************)
(* Versions                                                                *)
(***************************************************************************)

\* Versions that cover the feed where it reaches still do when the server has grown.
LEMMA CoversStays ==
    ASSUME TypeOK, ServerGrows, NEW v \in [Paths -> Nat], NEW c, \A s \in c : s \in Nat /\ s <= seq,
           Covers(v, c)
    PROVE  \A p \in Paths : v[p] <= Version(p)' /\ (last'[p] \in c => v[p] = Version(p)')
<1> SUFFICES ASSUME NEW p \in Paths
             PROVE  v[p] <= Version(p)' /\ (last'[p] \in c => v[p] = Version(p)')
  OBVIOUS
<1>1. /\ v[p] \in Nat /\ Version(p) \in Nat /\ Version(p)' \in Nat /\ Version(p) <= Version(p)'
      /\ seq \in Nat /\ last'[p] \in Nat
      /\ last'[p] <= seq => last'[p] = last[p] /\ Version(p)' = Version(p)
  BY DEF ServerGrows, TypeOK, Version
<1>2. v[p] <= Version(p) /\ (last[p] \in c => v[p] = Version(p))
  BY DEF Covers
<1> QED  BY <1>1, <1>2

\* ... as do a worker's, when it has learnt the version a step has written, or one
\* that will come with the feed.
LEMMA LearnsCovers ==
    ASSUME TypeOK, Bounds, ServerGrows, NEW d \in Devices, NEW p \in Paths, NEW from \in Paths, NEW n \in Nat,
           Covers(work[d].vers, Reach(d)), Learns(d, p, from, n),
           n <= Version(p)', last'[p] \notin Reach(d), last'[from] \notin Reach(d)
    PROVE  \A q \in Paths : work'[d].vers[q] <= Version(q)'
                            /\ (last'[q] \in Reach(d) => work'[d].vers[q] = Version(q)')
<1>1. work[d].vers \in [Paths -> Nat] /\ \A s \in Reach(d) : s \in Nat /\ s <= seq
  BY Reaches DEF TypeOK, Worker
<1>2. \A q \in Paths : work[d].vers[q] <= Version(q)' /\ (last'[q] \in Reach(d) => work[d].vers[q] = Version(q)')
  BY <1>1, CoversStays
<1> SUFFICES ASSUME NEW q \in Paths
             PROVE  /\ work'[d].vers[q] <= Version(q)'
                    /\ last'[q] \in Reach(d) => work'[d].vers[q] = Version(q)'
  OBVIOUS
<1>3. work'[d].vers[q] = IF q = p THEN n ELSE IF q = from THEN 0 ELSE work[d].vers[q]
  BY DEF Learns
<1>4. Version(q)' \in Nat /\ last'[q] \in Nat /\ last'[p] \in Nat /\ last'[from] \in Nat
  BY DEF ServerGrows, Version
<1> QED  BY <1>1, <1>2, <1>3, <1>4

\* What a device whose own state a step leaves alone knows of versions.
LEMMA VersionsStay ==
    ASSUME TypeOK, Bounds, ServerGrows, NEW e \in Devices, Shape(e), VersionsCover(e),
           work'[e] = work[e], versions'[e] = versions[e], cursor'[e] = cursor[e], raced'[e] = raced[e]
    PROVE  VersionsCover(e)'
<1>1. /\ versions[e] \in [Paths -> Nat] /\ work[e].vers \in [Paths -> Nat]
      /\ work[e].version \in Nat /\ work[e].page \in Seq(Item) /\ seq \in Nat
  BY DEF TypeOK, Worker
<1> DEFINE R == Reach(e)
           P == PageReach(e)
<1>r. /\ \A s \in R : s \in Nat /\ s <= seq
      /\ \A s \in P : s \in Nat /\ s <= seq
      /\ Reach(e)' = R /\ PageReach(e)' = P
  BY Reaches, ReachStays
<1> HIDE DEF R, P
<1>2. \A p \in Paths : /\ Version(p) \in Nat /\ Version(p)' \in Nat /\ Version(p) <= Version(p)'
                       /\ last[p] \in Nat /\ last'[p] \in Nat /\ last[p] <= last'[p]
                       /\ last'[p] <= seq => /\ last'[p] = last[p] /\ Version(p)' = Version(p)
                                             /\ Current(p)' = Current(p)
  BY DEF ServerGrows, TypeOK, Version, Current
<1>3. Covers(versions[e], Reach(e))'
  <2>1. Covers(versions[e], R)
    BY DEF VersionsCover, R, P
  <2>2. \A p \in Paths : /\ versions[e][p] <= Version(p)'
                         /\ last'[p] \in R => versions[e][p] = Version(p)'
    BY <1>1, <1>r, <2>1, CoversStays
  <2> QED  BY <1>r, <2>2 DEF Covers
<1>4. Pushing(e)' \/ At(e, "pull")' => Covers(work[e].vers, Reach(e))'
  <2>1. Pushing(e) \/ At(e, "pull") => Covers(work[e].vers, R)
    BY DEF VersionsCover, R, P
  <2>2. Pushing(e) \/ At(e, "pull") =>
           \A p \in Paths : work[e].vers[p] <= Version(p)' /\ (last'[p] \in R => work[e].vers[p] = Version(p)')
    BY <1>1, <1>r, <2>1, CoversStays
  <2> QED  BY <1>r, <2>2 DEF Covers, Pushing, At
<1>5. ASSUME Beaten(e), NEW p, p = Job(e).path
      PROVE  last'[p] \notin R /\ work[e].version <= Version(p)'
  <2>1. p \in Paths
    BY <1>5, JobShape DEF Shape
  <2>2. last[p] \notin R /\ work[e].version <= Version(p)
    BY <1>5 DEF VersionsCover, R, P
  <2> QED  BY <1>1, <1>2, <1>r, <2>1, <2>2
<1>6. ASSUME Receiving(e)
      PROVE  /\ \A p \in Paths : /\ work[e].vers[p] <= Version(p)'
                                 /\ last'[p] \notin P \/ work[e].vers[p] = Version(p)' \/ OnPage(e, p)
             /\ \A item \in Range(work[e].page) :
                   /\ item.version <= Version(item.path)'
                   /\ \/ last'[item.path] \notin P
                      \/ item.version = Version(item.path)' /\ item.text = Current(item.path)'
  <2>1. ASSUME NEW p \in Paths
        PROVE  /\ work[e].vers[p] <= Version(p)'
               /\ last'[p] \notin P \/ work[e].vers[p] = Version(p)' \/ OnPage(e, p)
    <3>1. /\ work[e].vers[p] <= Version(p)
          /\ last[p] \notin P \/ work[e].vers[p] = Version(p) \/ OnPage(e, p)
      BY <1>6 DEF VersionsCover, R, P
    <3>2. work[e].vers[p] \in Nat /\ \A s \in P : s \in Nat /\ s <= seq
      BY <1>1, <1>r
    <3>3. /\ Version(p) \in Nat /\ Version(p)' \in Nat /\ Version(p) <= Version(p)'
          /\ last[p] \in Nat /\ last'[p] \in Nat /\ seq \in Nat
          /\ last'[p] <= seq => last'[p] = last[p] /\ Version(p)' = Version(p)
      BY <1>1, <1>2
    <3> QED  BY <3>1, <3>2, <3>3
  <2>2. ASSUME NEW item \in Range(work[e].page)
        PROVE  /\ item.version <= Version(item.path)'
               /\ \/ last'[item.path] \notin P
                  \/ item.version = Version(item.path)' /\ item.text = Current(item.path)'
    <3>1. /\ item.version <= Version(item.path)
          /\ \/ last[item.path] \notin P
             \/ item.version = Version(item.path) /\ item.text = Current(item.path)
      BY <1>6 DEF VersionsCover, R, P
    <3>2. item.version \in Nat /\ item.path \in Paths
      <4>1. item \in Item
        BY <1>1, RangeMember
      <4> QED  BY <4>1 DEF Item
    <3>3. seq \in Nat /\ \A s \in P : s \in Nat /\ s <= seq
      BY <1>1, <1>r
    <3>4. /\ Version(item.path) \in Nat /\ Version(item.path)' \in Nat /\ Version(item.path) <= Version(item.path)'
          /\ last[item.path] \in Nat /\ last'[item.path] \in Nat
          /\ last'[item.path] <= seq => /\ last'[item.path] = last[item.path]
                                        /\ Version(item.path)' = Version(item.path)
                                        /\ Current(item.path)' = Current(item.path)
      BY <1>2, <3>2
    <3> QED  BY <3>1, <3>2, <3>3, <3>4
  <2> QED  BY <2>1, <2>2
<1> QED  BY <1>3, <1>4, <1>5, <1>6, <1>r DEF VersionsCover, Pushing, Beaten, Receiving, At, Job, OnPage

LEMMA VersionsOfPushing ==
    ASSUME TypeOK, Bounds, ServerGrows, NEW d \in Devices, VersionsCover(d),
           versions'[d] = versions[d], cursor'[d] = cursor[d], raced'[d] = raced[d],
           work'[d].pc \notin {"rows", "apply"},
           work'[d].pc \in {"push", "send", "lost", "merge", "resend", "copy", "sendcopy", "pull"} =>
              \A q \in Paths : /\ work'[d].vers[q] <= Version(q)'
                               /\ last'[q] \in Reach(d) => work'[d].vers[q] = Version(q)',
           work'[d].pc \in {"lost", "merge", "resend", "copy", "sendcopy"} =>
              \A p : p = Head(work'[d].todo).path => last'[p] \notin Reach(d) /\ work'[d].version <= Version(p)'
    PROVE  VersionsCover(d)'
<1>r. Reach(d)' = Reach(d) /\ \A s \in Reach(d) : s \in Nat /\ s <= seq
  BY Reaches, ReachStays
<1>1. Covers(versions[d], Reach(d))'
  <2>1. versions[d] \in [Paths -> Nat] /\ Covers(versions[d], Reach(d))
    BY DEF TypeOK, VersionsCover
  <2>2. \A p \in Paths : /\ versions[d][p] <= Version(p)'
                         /\ last'[p] \in Reach(d) => versions[d][p] = Version(p)'
    BY <1>r, <2>1, CoversStays
  <2> QED  BY <1>r, <2>2 DEF Covers
<1>2. Pushing(d)' \/ At(d, "pull")' => Covers(work[d].vers, Reach(d))'
  BY <1>r DEF Pushing, At, Covers
<1>3. Beaten(d)' => (last[Job(d).path] \notin Reach(d) /\ work[d].version <= Version(Job(d).path))'
  BY <1>r DEF Beaten, Job
<1>4. ~Receiving(d)'
  BY DEF Receiving
<1> QED  BY <1>1, <1>2, <1>3, <1>4 DEF VersionsCover

LEMMA StepVersions ==
    ASSUME TypeOK, Bounds, NEW d \in Devices, Shape(d), VersionsCover(d), UNCHANGED env, Step(d)
    PROVE  VersionsCover(d)'
<1>1. ServerGrows
  BY StepTypes
<1>2. /\ versions[d] \in [Paths -> Nat] /\ work[d].vers \in [Paths -> Nat] /\ cursor[d] \in Nat
      /\ work[d].version \in Nat /\ work[d].page \in Seq(Item) /\ seq \in Nat
      /\ work[d].at \in Nat /\ work[d].cursor \in Nat
      /\ versions \in [Devices -> [Paths -> Nat]] /\ cursor \in [Devices -> Nat]
      /\ raced \in [Devices -> SUBSET Nat]
      /\ \A s \in Reach(d) : s \in Nat /\ s <= seq
  BY Reaches DEF TypeOK, Worker
<1>3. \A p \in Paths : /\ Version(p) \in Nat /\ Version(p)' \in Nat /\ Version(p) <= Version(p)'
                       /\ last[p] \in Nat /\ last'[p] \in Nat /\ last[p] <= last'[p]
  BY <1>1 DEF ServerGrows, TypeOK, Version
<1>4. UNCHANGED stored => /\ versions'[d] = versions[d] /\ cursor'[d] = cursor[d] /\ raced'[d] = raced[d]
                          /\ Reach(d)' = Reach(d)
  BY ReachStays DEF stored
<1>5. ASSUME Pushing(d) \/ At(d, "pull")
      PROVE  \A q \in Paths : /\ work[d].vers[q] <= Version(q)'
                              /\ last'[q] \in Reach(d) => work[d].vers[q] = Version(q)'
  <2>1. Covers(work[d].vers, Reach(d))
    BY <1>5 DEF VersionsCover
  <2> QED  BY <1>1, <1>2, <2>1, CoversStays
<1>6. ASSUME Beaten(d)
      PROVE  \A p : p = Job(d).path => last'[p] \notin Reach(d) /\ work[d].version <= Version(p)'
  <2> SUFFICES ASSUME NEW p, p = Job(d).path
               PROVE  last'[p] \notin Reach(d) /\ work[d].version <= Version(p)'
    OBVIOUS
  <2>1. p \in Paths
    BY <1>6, JobShape DEF Shape
  <2>2. last[p] \notin Reach(d) /\ work[d].version <= Version(p)
    BY <1>6 DEF VersionsCover
  <2>3. /\ Version(p) \in Nat /\ Version(p)' \in Nat /\ Version(p) <= Version(p)'
        /\ last'[p] \in Nat /\ (last'[p] <= seq => last'[p] = last[p])
    BY <1>1, <1>3, <2>1 DEF ServerGrows
  <2>4. work[d].version \in Nat /\ \A s \in Reach(d) : s \in Nat /\ s <= seq
    BY <1>2
  <2> QED  BY <2>2, <2>3, <2>4
<1>7. ASSUME NEW p \in Paths, NEW from \in Paths, NEW text, Written(p, from, text)
      PROVE  /\ Version(p)' = Version(p) + 1 /\ last'[p] \notin Reach(d) /\ last'[from] \notin Reach(d)
             /\ Version(p) + 1 \in Nat /\ Version(p) + 1 <= Version(p)'
  <2>1. last'[p] = seq + 1 /\ last'[from] = seq + 1 /\ Version(p)' = Version(p) + 1
    BY <1>7 DEF Written
  <2>2. Version(p) \in Nat
    BY <1>3
  <2>3. seq \in Nat /\ \A s \in Reach(d) : s \in Nat /\ s <= seq
    BY <1>2
  <2> QED  BY <2>1, <2>2, <2>3
<1>8. ASSUME UNCHANGED stored, work'[d].pc \in {"idle", "failed", "save"}
      PROVE  VersionsCover(d)'
  BY <1>1, <1>4, <1>8, VersionsOfPushing
<1>9. CASE StartCycle(d)
  <2>1. /\ UNCHANGED <<server, stored>> /\ work'[d].pc = "push" /\ work'[d].vers = versions[d]
    BY <1>9, StartCycleDoes
  <2>2. \A q \in Paths : /\ versions[d][q] <= Version(q)'
                         /\ last'[q] \in Reach(d) => versions[d][q] = Version(q)'
    BY <1>1, <1>2, CoversStays DEF VersionsCover
  <2> QED  BY <1>1, <1>4, <2>1, <2>2, VersionsOfPushing
<1>10. CASE ReadLocal(d)
  <2>1. UNCHANGED stored /\ Pushing(d) /\ work'[d].pc = "send" /\ work'[d].vers = work[d].vers
    BY <1>10, ReadLocalDoes DEF Continues, Pushing
  <2> QED  BY <1>1, <1>4, <1>5, <2>1, VersionsOfPushing
<1>11. CASE SendPut(d)
  <2>1. UNCHANGED stored /\ Pushing(d) /\ work[d].todo # <<>> /\ Covers(work[d].vers, Reach(d))
    BY <1>11, SendPutDoes DEF Pushing, VersionsCover
  <2>2. Job(d).path \in Paths /\ Job(d).from \in Paths
    BY <2>1, JobShape
  <2>3. CASE /\ Written(Job(d).path, Job(d).from, work[d].local)
             /\ Finishes(d) /\ Learns(d, Job(d).path, Job(d).from, Version(Job(d).path) + 1)
    <3>1. \A q \in Paths : /\ work'[d].vers[q] <= Version(q)'
                           /\ last'[q] \in Reach(d) => work'[d].vers[q] = Version(q)'
      BY <1>1, <1>7, <2>1, <2>2, <2>3, LearnsCovers
    <3> QED  BY <1>1, <1>4, <2>1, <2>3, <3>1, VersionsOfPushing DEF Finishes
  <2>4. CASE /\ UNCHANGED server /\ work[d].vers[Job(d).path] # Version(Job(d).path)
             /\ work'[d].pc = "lost" /\ work'[d].todo = work[d].todo /\ work'[d].vers = work[d].vers
             /\ work'[d].version = Version(Job(d).path)
    <3>1. \A p : p = Job(d).path => last'[p] \notin Reach(d) /\ work'[d].version <= Version(p)'
      <4> SUFFICES ASSUME NEW p \in Paths, p = Job(d).path
                   PROVE  last'[p] \notin Reach(d) /\ work'[d].version <= Version(p)'
        BY <2>2
      <4>1. last[p] \notin Reach(d)
        BY <1>2, <1>3, <2>1, <2>4 DEF Covers
      <4>2. last'[p] = last[p] /\ Version(p)' = Version(p)
        BY <2>4 DEF server, Version
      <4> QED  BY <1>3, <2>4, <4>1, <4>2
    <3>2. Head(work'[d].todo) = Job(d)
      BY <2>4 DEF Job
    <3> QED  BY <1>1, <1>4, <1>5, <2>1, <2>4, <3>1, <3>2, VersionsOfPushing
  <2> QED  BY <1>11, <2>3, <2>4, SendPutDoes
<1>12. CASE SendDelete(d)
  <2>1. /\ UNCHANGED stored /\ Pushing(d) /\ work[d].todo # <<>> /\ Covers(work[d].vers, Reach(d))
        /\ work'[d].pc = "push"
    BY <1>12, SendDeleteDoes DEF Pushing, VersionsCover, Finishes
  <2>2. Job(d).path \in Paths
    BY <2>1, JobShape
  <2>3. CASE /\ Written(Job(d).path, Job(d).path, Missing)
             /\ Learns(d, Job(d).path, Job(d).path, Version(Job(d).path) + 1)
    <3>1. \A q \in Paths : /\ work'[d].vers[q] <= Version(q)'
                           /\ last'[q] \in Reach(d) => work'[d].vers[q] = Version(q)'
      BY <1>1, <1>7, <2>1, <2>2, <2>3, LearnsCovers
    <3> QED  BY <1>1, <1>4, <2>1, <3>1, VersionsOfPushing
  <2>4. CASE work'[d].vers = work[d].vers
    BY <1>1, <1>4, <1>5, <2>1, <2>4, VersionsOfPushing
  <2> QED  BY <1>12, <2>3, <2>4, SendDeleteDoes
<1>13. CASE ReadBack(d)
  <2>1. /\ UNCHANGED stored /\ Pushing(d) /\ Beaten(d) /\ work'[d].pc \in {"resend", "copy", "merge"}
        /\ work'[d].vers = work[d].vers /\ work'[d].version = work[d].version /\ Head(work'[d].todo) = Job(d)
    BY <1>13, ReadBackDoes DEF Continues, Pushing, Beaten, Job
  <2> QED  BY <1>1, <1>4, <1>5, <1>6, <2>1, VersionsOfPushing
<1>14. CASE WriteMerge(d)
  <2>1. Pushing(d) /\ Beaten(d)
    BY <1>14 DEF WriteMerge, At, Pushing, Beaten
  <2>2. Covers(work[d].vers, Reach(d))
    BY <2>1 DEF VersionsCover
  <2>3. /\ UNCHANGED stored /\ work'[d].pc = "resend"
        /\ work'[d].vers = work[d].vers /\ work'[d].version = work[d].version /\ Head(work'[d].todo) = Job(d)
    BY <1>14, <2>2, WriteMergeDoes DEF Continues, Job
  <2> QED  BY <1>1, <1>4, <1>5, <1>6, <2>1, <2>3, VersionsOfPushing
<1>15. CASE Resend(d)
  <2>1. /\ UNCHANGED stored /\ Pushing(d) /\ work[d].todo # <<>> /\ Covers(work[d].vers, Reach(d))
        /\ work'[d].pc = "push"
    BY <1>15, ResendDoes DEF Pushing, VersionsCover, Finishes
  <2>2. Job(d).path \in Paths
    BY <2>1, JobShape
  <2>3. CASE /\ Written(Job(d).path, Job(d).path, work[d].local)
             /\ Learns(d, Job(d).path, Job(d).path, Version(Job(d).path) + 1)
    <3>1. \A q \in Paths : /\ work'[d].vers[q] <= Version(q)'
                           /\ last'[q] \in Reach(d) => work'[d].vers[q] = Version(q)'
      BY <1>1, <1>7, <2>1, <2>2, <2>3, LearnsCovers
    <3> QED  BY <1>1, <1>4, <2>1, <3>1, VersionsOfPushing
  <2>4. CASE work'[d].vers = work[d].vers
    BY <1>1, <1>4, <1>5, <2>1, <2>4, VersionsOfPushing
  <2> QED  BY <1>15, <2>3, <2>4, ResendDoes
<1>16. CASE WriteCopy(d)
  <2>1. /\ UNCHANGED stored /\ Pushing(d) /\ Beaten(d) /\ work[d].todo # <<>> /\ work'[d].pc = "sendcopy"
        /\ Learns(d, Job(d).path, Job(d).path, work[d].version)
        /\ work'[d].version = work[d].version /\ Head(work'[d].todo) = Job(d)
    BY <1>16, WriteCopyDoes DEF Pushing, Beaten, Job
  <2>2. Job(d).path \in Paths /\ Covers(work[d].vers, Reach(d))
    BY <2>1, JobShape DEF VersionsCover
  <2>3. \A q \in Paths : /\ work'[d].vers[q] <= Version(q)'
                         /\ last'[q] \in Reach(d) => work'[d].vers[q] = Version(q)'
    <3>1. PICK p \in Paths : p = Job(d).path
      BY <2>2
    <3>2. last'[p] \notin Reach(d) /\ work[d].version <= Version(p)' /\ Learns(d, p, p, work[d].version)
      BY <1>6, <2>1, <3>1
    <3> QED  BY <1>1, <1>2, <2>2, <3>2, LearnsCovers
  <2> QED  BY <1>1, <1>4, <1>6, <2>1, <2>3, VersionsOfPushing
<1>17. CASE SendCopy(d)
  <2>1. /\ UNCHANGED stored /\ Pushing(d) /\ Covers(work[d].vers, Reach(d))
        /\ work'[d].pc = "push" /\ work[d].copy \in Paths
    BY <1>17, SendCopyDoes DEF Pushing, VersionsCover, Finishes, Shape, At
  <2>2. CASE /\ Written(work[d].copy, work[d].copy, work[d].local)
             /\ Learns(d, work[d].copy, work[d].copy, Version(work[d].copy) + 1)
    <3>1. \A q \in Paths : /\ work'[d].vers[q] <= Version(q)'
                           /\ last'[q] \in Reach(d) => work'[d].vers[q] = Version(q)'
      BY <1>1, <1>7, <2>1, <2>2, LearnsCovers
    <3> QED  BY <1>1, <1>4, <2>1, <3>1, VersionsOfPushing
  <2>3. CASE work'[d].vers = work[d].vers
    BY <1>1, <1>4, <1>5, <2>1, <2>3, VersionsOfPushing
  <2> QED  BY <1>17, <2>2, <2>3, SendCopyDoes
<1>18. CASE EndPush(d)
  <2>1. /\ versions'[d] = versions[d] /\ cursor'[d] = cursor[d] /\ raced'[d] = raced[d] /\ Pushing(d)
        /\ work'[d].pc = "pull" /\ work'[d].vers = work[d].vers
    BY <1>18, EndPushDoes DEF Continues, Pushing
  <2> QED  BY <1>1, <1>5, <2>1, VersionsOfPushing
<1>19. CASE GetChanges(d)
  <2>1. /\ UNCHANGED <<server, stored>> /\ At(d, "pull") /\ work'[d].pc = "rows"
        /\ work'[d].vers = work[d].vers /\ work'[d].at = seq /\ work'[d].page = Feed(cursor[d])
    BY <1>19, GetChangesDoes DEF At
  <2>2. \A p \in Paths : last'[p] = last[p] /\ Version(p)' = Version(p) /\ Current(p)' = Current(p)
    BY <2>1 DEF server, Version, Current
  <2>3. Range(Feed(cursor[d])) = {[path |-> p, text |-> Current(p), version |-> Version(p)] :
                                     p \in {q \in Paths : last[q] > cursor[d]}}
    BY <1>2, FeedShape
  <2>4. \A p \in Paths : work'[d].vers[p] <= Version(p)' /\ (last[p] \in Reach(d) => work'[d].vers[p] = Version(p)')
    BY <1>5, <2>1, <2>2
  <2>5. ASSUME NEW p \in Paths, last[p] > cursor[d]
        PROVE  OnPage(d, p)'
    <3>1. [path |-> p, text |-> Current(p), version |-> Version(p)] \in Range(work'[d].page)
      BY <2>1, <2>3, <2>5
    <3> QED  BY <3>1 DEF OnPage
  <2>6. ASSUME NEW item \in Range(work'[d].page)
        PROVE  item.version = Version(item.path)' /\ item.text = Current(item.path)' /\ item.version \in Nat
    <3>1. PICK p \in Paths : item = [path |-> p, text |-> Current(p), version |-> Version(p)]
      BY <2>1, <2>3
    <3> QED  BY <1>3, <2>2, <3>1
  <2>7. Covers(versions[d], Reach(d))'
    <3>1. \A p \in Paths : /\ versions[d][p] <= Version(p)'
                           /\ last'[p] \in Reach(d) => versions[d][p] = Version(p)'
      BY <1>1, <1>2, CoversStays DEF VersionsCover
    <3> QED  BY <1>4, <2>1, <3>1 DEF Covers
  <2>8. \A p \in Paths : last[p] \in Reach(d) \/ last[p] \notin PageReach(d)' \/ last[p] > cursor[d]
    BY <1>2, <1>3, <2>1 DEF Reach, PageReach, stored
  <2>9. \A p \in Paths : /\ work'[d].vers[p] <= Version(p)'
                         /\ \/ last'[p] \notin PageReach(d)'
                            \/ work'[d].vers[p] = Version(p)'
                            \/ OnPage(d, p)'
    BY <2>2, <2>4, <2>5, <2>8
  <2>10. \A item \in Range(work'[d].page) :
            item.version <= Version(item.path)' /\ item.version = Version(item.path)'
    BY <2>6
  <2> QED  BY <2>1, <2>6, <2>7, <2>9, <2>10 DEF VersionsCover, At, Receiving, Pushing, Beaten
<1>25. CASE GetCursor(d)
  <2>1. /\ UNCHANGED <<server, stored>> /\ work[d].pc = "rows" /\ work'[d].pc = "apply"
        /\ work'[d].vers = work[d].vers /\ work'[d].at = work[d].at /\ work'[d].page = work[d].page
    BY <1>25, GetCursorDoes
  <2>2. \A p : last'[p] = last[p] /\ Version(p)' = Version(p) /\ Current(p)' = Current(p)
    BY <2>1 DEF server, Version, Current
  <2>3. Reach(d)' = Reach(d) /\ PageReach(d)' = PageReach(d) /\ versions' = versions
    BY <2>1, ReachStays DEF stored
  <2>4. \A p : OnPage(d, p)' <=> OnPage(d, p)
    BY <2>1 DEF OnPage
  <2>5. Covers(versions[d], Reach(d))'
    BY <2>2, <2>3 DEF VersionsCover, Covers
  <2> QED  BY <2>1, <2>2, <2>3, <2>4, <2>5 DEF VersionsCover, At, Receiving, Pushing, Beaten
<1>20. CASE ApplyChange(d)
  <2> DEFINE item == Head(work[d].page)
  <2>1. /\ UNCHANGED <<server, stored>> /\ At(d, "apply") /\ work'[d].pc = "apply"
        /\ work'[d].at = work[d].at
        /\ item \in Item /\ Range(work[d].page) = {item} \cup Range(work'[d].page)
        /\ Learns(d, item.path, item.path, item.version)
    BY <1>20, ApplyChangeDoes DEF At
  <2>2. \A p \in Paths : last'[p] = last[p] /\ Version(p)' = Version(p) /\ Current(p)' = Current(p)
    BY <2>1 DEF server, Version, Current
  <2>3. /\ \A p \in Paths : /\ work[d].vers[p] <= Version(p)
                            /\ \/ last[p] \notin PageReach(d)
                               \/ work[d].vers[p] = Version(p)
                               \/ OnPage(d, p)
        /\ \A i \in Range(work[d].page) :
              /\ i.version <= Version(i.path)
              /\ \/ last[i.path] \notin PageReach(d)
                 \/ i.version = Version(i.path) /\ i.text = Current(i.path)
    BY <2>1 DEF VersionsCover, Receiving, At
  <2>r. Reach(d)' = Reach(d) /\ PageReach(d)' = PageReach(d)
    BY <2>1, ReachStays DEF stored
  <2> HIDE DEF item
  <2>4. ASSUME NEW p \in Paths
        PROVE  /\ work'[d].vers[p] <= Version(p)'
               /\ last'[p] \notin PageReach(d)' \/ work'[d].vers[p] = Version(p)' \/ OnPage(d, p)'
    <3>1. CASE p = item.path
      <4>1. work'[d].vers[p] = item.version /\ item \in Range(work[d].page)
        BY <2>1, <3>1 DEF Learns
      <4> QED  BY <2>1, <2>2, <2>3, <2>r, <3>1, <4>1
    <3>2. CASE p # item.path
      <4>1. work'[d].vers[p] = work[d].vers[p]
        BY <2>1, <3>2 DEF Learns
      <4>2. OnPage(d, p) => OnPage(d, p)'
        BY <2>1, <3>2 DEF OnPage
      <4> QED  BY <2>1, <2>2, <2>3, <2>r, <4>1, <4>2
    <3> QED  BY <3>1, <3>2
  <2>5. ASSUME NEW i \in Range(work'[d].page)
        PROVE  /\ i.version <= Version(i.path)'
               /\ \/ last'[i.path] \notin PageReach(d)'
                  \/ i.version = Version(i.path)' /\ i.text = Current(i.path)'
    <3>1. i \in Range(work[d].page)
      BY <2>1
    <3>2. i.path \in Paths
      <4>1. i \in Item
        BY <1>2, <3>1, RangeMember
      <4> QED  BY <4>1 DEF Item
    <3> QED  BY <2>1, <2>2, <2>3, <2>r, <3>1, <3>2
  <2>6. Covers(versions[d], Reach(d))'
    <3>1. \A p \in Paths : /\ versions[d][p] <= Version(p)'
                           /\ last'[p] \in Reach(d) => versions[d][p] = Version(p)'
      BY <1>1, <1>2, CoversStays DEF VersionsCover
    <3> QED  BY <1>4, <2>1, <3>1 DEF Covers
  <2> QED  BY <2>1, <2>4, <2>5, <2>6 DEF VersionsCover, At, Receiving, Pushing, Beaten
<1>21. CASE EndPull(d)
  <2>1. /\ UNCHANGED server /\ At(d, "apply") /\ work[d].page = <<>> /\ work'[d].pc = "save"
        /\ versions'[d] = work[d].vers /\ cursor'[d] = work[d].cursor
        /\ raced'[d] = raced[d] \cup (work[d].at + 1 .. work[d].cursor)
    BY <1>2, <1>21, EndPullDoes DEF At
  <2>2. \A p \in Paths : last'[p] = last[p] /\ Version(p)' = Version(p)
    BY <2>1 DEF server, Version
  <2>3. \A p \in Paths : ~OnPage(d, p)
    BY <2>1, NothingToDo DEF OnPage
  <2>4. \A p \in Paths : /\ work[d].vers[p] <= Version(p)
                         /\ last[p] \notin PageReach(d) \/ work[d].vers[p] = Version(p)
    BY <2>1, <2>3 DEF VersionsCover, Receiving, At
  <2>5. \A s \in Reach(d)' : s \in PageReach(d)
    BY <1>2, <2>1, PulledReach
  <2>6. Covers(versions[d], Reach(d))'
    BY <2>1, <2>2, <2>4, <2>5 DEF Covers
  <2> QED  BY <2>1, <2>6 DEF VersionsCover, At, Receiving, Pushing, Beaten
<1>22. CASE SaveManifest(d)
  <2>1. /\ versions'[d] = versions[d] /\ cursor'[d] = cursor[d] /\ raced'[d] = raced[d]
        /\ work'[d].pc = "idle"
    BY <1>22, SaveManifestDoes
  <2> QED  BY <1>1, <2>1, VersionsOfPushing
<1>23. CASE Fails(d)
  <2>1. /\ versions'[d] = versions[d] /\ cursor'[d] = cursor[d] /\ raced'[d] = raced[d]
        /\ work'[d].pc \in {"idle", "failed"}
    BY <1>23, FailsDoes DEF Rests
  <2> QED  BY <1>1, <2>1, VersionsOfPushing
<1>24. CASE User(d)
  <2>1. work' = work /\ versions' = versions /\ cursor' = cursor /\ raced' = raced
    BY <1>24, UserDoes DEF stored
  <2> QED  BY <1>1, <2>1, VersionsStay
<1> QED  BY <1>9, <1>10, <1>11, <1>12, <1>13, <1>14, <1>15, <1>16, <1>17, <1>18, <1>19, <1>20, <1>21,
            <1>22, <1>23, <1>24, <1>25 DEF Step

----------------------------------------------------------------------------
(***************************************************************************)
(* Files                                                                   *)
(***************************************************************************)

\* A path that is due after a step was due before it, and the server has what it had.
StillDue(p, reach) == p \notin astray' /\ last'[p] \in reach

LEMMA DueStays ==
    ASSUME TypeOK, ServerGrows, Marks, NEW p \in Paths, NEW c, \A s \in c : s \in Nat /\ s <= seq,
           StillDue(p, c)
    PROVE  Due(p, c) /\ Current(p)' = Current(p)
<1>1. last'[p] <= seq
  BY DEF StillDue, ServerGrows, TypeOK
<1>2. last'[p] = last[p] /\ hist'[p] = hist[p] /\ p \notin astray
  BY <1>1 DEF ServerGrows, Marks, StillDue
<1> QED  BY <1>2 DEF StillDue, Due, Current, Version

\* A device whose own state a step leaves alone.
LEMMA FilesStay ==
    ASSUME TypeOK, Bounds, ServerGrows, Marks, NEW e \in Devices, FilesFollow(e),
           work'[e] = work[e], disk'[e] = disk[e], manifest'[e] = manifest[e], kept'[e] = kept[e],
           cursor'[e] = cursor[e], raced'[e] = raced[e], Beaten(e) => Job(e).from \in Paths
    PROVE  FilesFollow(e)'
<1>1. /\ \A s \in Reach(e) : s \in Nat /\ s <= seq
      /\ \A s \in PageReach(e) : s \in Nat /\ s <= seq
      /\ Reach(e)' = Reach(e) /\ PageReach(e)' = PageReach(e)
  BY Reaches, ReachStays
<1>2. \A p \in Paths : StillDue(p, Reach(e)) => Due(p, Reach(e)) /\ Current(p)' = Current(p)
  BY <1>1, DueStays
<1>3. \A p \in Paths : StillDue(p, PageReach(e)) => Due(p, PageReach(e)) /\ Current(p)' = Current(p)
  BY <1>1, DueStays
<1>4. /\ \A p \in Paths : Due(p, Reach(e))' <=> StillDue(p, Reach(e))
      /\ \A p \in Paths : Due(p, PageReach(e))' <=> StillDue(p, PageReach(e))
      /\ \A p \in Paths : Agree(e, p)' <=> disk[e][p] = Current(p)'
      /\ \A p \in Paths : (Listed(e, p)' <=> Listed(e, p)) /\ (OnPage(e, p)' <=> OnPage(e, p))
  BY <1>1 DEF Due, StillDue, Agree, Listed, OnPage
<1>5. /\ \A p \in Paths : Due(p, Reach(e))' => manifest'[e][p] = Current(p)'
      /\ ~At(e, "save")' => \A p \in Paths : Due(p, Reach(e))' => kept'[e][p] = Current(p)'
  BY <1>2, <1>4 DEF FilesFollow, At
<1>6. Pushing(e)' => \A p \in Paths : Due(p, Reach(e))' =>
         Agree(e, p)' \/ Listed(e, p)' \/ (At(e, "sendcopy")' /\ p = work'[e].copy)
  BY <1>2, <1>4 DEF FilesFollow, At, Pushing, Agree
<1>7. Beaten(e)' => ~Due(Job(e).from, Reach(e))'
  <2> SUFFICES ASSUME Beaten(e), NEW p \in Paths, p = Job(e).from, Due(p, Reach(e))'
               PROVE  FALSE
    BY <1>1, <1>4 DEF Beaten, Job
  <2> QED  BY <1>2, <1>4 DEF FilesFollow
<1>8. /\ At(e, "pull")' => \A p \in Paths : Due(p, Reach(e))' => Agree(e, p)'
      /\ Receiving(e)' => \A p \in Paths : Due(p, PageReach(e))' => Agree(e, p)' \/ OnPage(e, p)'
  BY <1>2, <1>3, <1>4 DEF FilesFollow, At, Receiving, Agree
<1> QED  BY <1>5, <1>6, <1>7, <1>8 DEF FilesFollow

\* A step of a push, which leaves the manifests alone.
LEMMA FilesOfPushing ==
    ASSUME TypeOK, Bounds, ServerGrows, Marks, NEW d \in Devices, FilesFollow(d),
           UNCHANGED stored, work[d].pc # "save",
           work'[d].pc \in {"push", "send", "lost", "merge", "resend", "copy", "sendcopy"},
           \A p \in Paths : StillDue(p, Reach(d)) =>
              disk'[d][p] = Current(p) \/ Listed(d, p)' \/ (work'[d].pc = "sendcopy" /\ p = work'[d].copy),
           work'[d].pc # "push" =>
              \A p : p = Head(work'[d].todo).from => work'[d].pc = "send" \/ ~StillDue(p, Reach(d))
    PROVE  FilesFollow(d)'
<1>1. /\ \A s \in Reach(d) : s \in Nat /\ s <= seq
      /\ Reach(d)' = Reach(d) /\ manifest' = manifest /\ kept' = kept
  BY Reaches, ReachStays DEF stored
<1>2. \A p \in Paths : StillDue(p, Reach(d)) => Due(p, Reach(d)) /\ Current(p)' = Current(p)
  BY <1>1, DueStays
<1>3. \A p : Due(p, Reach(d))' <=> StillDue(p, Reach(d))
  BY <1>1 DEF Due, StillDue
<1>4. \A p \in Paths : Due(p, Reach(d))' => manifest'[d][p] = Current(p)' /\ kept'[d][p] = Current(p)'
  BY <1>1, <1>2, <1>3 DEF FilesFollow, At
<1>5. \A p \in Paths : Due(p, Reach(d))' =>
         Agree(d, p)' \/ Listed(d, p)' \/ (At(d, "sendcopy")' /\ p = work'[d].copy)
  BY <1>2, <1>3 DEF Agree, At
<1>6. Beaten(d)' => ~Due(Job(d).from, Reach(d))'
  <2> SUFFICES ASSUME Beaten(d)', NEW p, p = Head(work'[d].todo).from, Due(p, Reach(d))'
               PROVE  FALSE
    BY <1>1 DEF Job, Due
  <2> QED  BY <1>3 DEF Beaten
<1> QED  BY <1>4, <1>5, <1>6 DEF FilesFollow, At, Receiving

\* A change is pushed: neither its path nor the one it comes from is due.
LEMMA FilesOfFinishing ==
    ASSUME TypeOK, Bounds, ServerGrows, Marks, NEW d \in Devices, FilesFollow(d),
           UNCHANGED <<disk, stored>>, Pushing(d), work[d].todo # <<>>, Finishes(d),
           ~StillDue(Job(d).path, Reach(d)), ~StillDue(Job(d).from, Reach(d)),
           work[d].pc = "sendcopy" => ~StillDue(work[d].copy, Reach(d))
    PROVE  FilesFollow(d)'
<1>1. \A s \in Reach(d) : s \in Nat /\ s <= seq
  BY Reaches
<1>2. \A p \in Paths : StillDue(p, Reach(d)) => Due(p, Reach(d))
  BY <1>1, DueStays
<1>3. Range(work[d].todo) = {Job(d)} \cup Range(work'[d].todo)
  BY JobShape DEF Finishes
<1>4. ASSUME NEW p \in Paths, StillDue(p, Reach(d))
      PROVE  disk'[d][p] = Current(p) \/ Listed(d, p)'
  <2>1. Agree(d, p) \/ Listed(d, p)
    BY <1>2, <1>4 DEF FilesFollow, At
  <2>2. p # Job(d).path /\ p # Job(d).from
    BY <1>4
  <2>3. Listed(d, p) => Listed(d, p)'
    BY <1>3, <2>2 DEF Listed
  <2> QED  BY <2>1, <2>3 DEF Agree
<1>5. work'[d].pc = "push" /\ work[d].pc # "save"
  BY DEF Finishes, Pushing
<1> QED  BY <1>4, <1>5, FilesOfPushing

\* The worker goes on with the same changes; the files it writes are not due.
LEMMA FilesOfContinuing ==
    ASSUME TypeOK, Bounds, ServerGrows, Marks, NEW d \in Devices, FilesFollow(d),
           UNCHANGED stored, Pushing(d), work[d].pc # "sendcopy", work'[d].todo = work[d].todo,
           work'[d].pc \in {"send", "lost", "merge", "resend", "copy", "sendcopy"},
           \A p \in Paths : StillDue(p, Reach(d)) =>
              disk'[d][p] = disk[d][p] \/ (work'[d].pc = "sendcopy" /\ p = work'[d].copy),
           work'[d].pc = "send" \/ ~StillDue(Job(d).from, Reach(d))
    PROVE  FilesFollow(d)'
<1>1. \A s \in Reach(d) : s \in Nat /\ s <= seq
  BY Reaches
<1>2. \A p \in Paths : StillDue(p, Reach(d)) => Due(p, Reach(d))
  BY <1>1, DueStays
<1>3. ASSUME NEW p \in Paths, StillDue(p, Reach(d))
      PROVE  disk'[d][p] = Current(p) \/ Listed(d, p)' \/ (work'[d].pc = "sendcopy" /\ p = work'[d].copy)
  <2>1. Agree(d, p) \/ Listed(d, p)
    BY <1>2, <1>3 DEF FilesFollow, At
  <2>2. Listed(d, p) => Listed(d, p)'
    BY DEF Listed
  <2> QED  BY <1>3, <2>1, <2>2 DEF Agree
<1>4. work[d].pc # "save" /\ Head(work'[d].todo) = Job(d)
  BY DEF Pushing, Job
<1> QED  BY <1>3, <1>4, FilesOfPushing

LEMMA StepFiles ==
    ASSUME TypeOK, Bounds, NEW d \in Devices, Shape(d), VersionsCover(d), FilesFollow(d),
           UNCHANGED env, Step(d)
    PROVE  FilesFollow(d)'
<1>1. ServerGrows /\ Marks
  BY StepTypes
<1>2. /\ cursor[d] \in Nat /\ seq \in Nat /\ cursor \in [Devices -> Nat]
      /\ raced \in [Devices -> SUBSET Nat] /\ work[d].at \in Nat /\ work[d].cursor \in Nat
      /\ work[d].page \in Seq(Item)
      /\ \A s \in Reach(d) : s \in Nat /\ s <= seq /\ s <= cursor[d]
      /\ manifest \in [Devices -> [Paths -> Files]] /\ kept \in [Devices -> [Paths -> Files]]
      /\ disk \in [Devices -> [Paths -> Files]]
  BY Reaches DEF TypeOK, Worker
<1>3. \A p \in Paths : last[p] \in Nat /\ last'[p] \in Nat /\ last[p] <= last'[p]
  BY <1>1 DEF TypeOK, ServerGrows
<1>4. \A p \in Paths : StillDue(p, Reach(d)) => Due(p, Reach(d)) /\ Current(p)' = Current(p)
  BY <1>1, <1>2, DueStays
<1>5. \A p \in Paths : last[p] \notin Reach(d) \/ last'[p] \notin Reach(d) => ~StillDue(p, Reach(d))
  <2> SUFFICES ASSUME NEW p \in Paths, StillDue(p, Reach(d))
               PROVE  last[p] \in Reach(d) /\ last'[p] \in Reach(d)
    OBVIOUS
  <2> QED  BY <1>4 DEF StillDue, Due
<1>6. ASSUME NEW p, NEW from, NEW text, Written(p, from, text), p \in Paths, from \in Paths
      PROVE  ~StillDue(p, Reach(d)) /\ ~StillDue(from, Reach(d))
  BY <1>2, <1>3, <1>5, <1>6 DEF Written
<1>7. ASSUME work[d].todo # <<>>
      PROVE  /\ Job(d).path \in Paths /\ Job(d).from \in Paths
             /\ Job(d).op # "move" => Job(d).from = Job(d).path
  BY <1>7, JobShape DEF Shape
<1>8. ASSUME Beaten(d)
      PROVE  /\ work[d].todo # <<>>
             /\ ~StillDue(Job(d).path, Reach(d)) /\ ~StillDue(Job(d).from, Reach(d))
  <2>1. last[Job(d).path] \notin Reach(d) /\ ~Due(Job(d).from, Reach(d)) /\ work[d].todo # <<>>
    BY <1>8 DEF VersionsCover, FilesFollow, Shape
  <2> QED  BY <1>4, <1>5, <1>7, <2>1
<1>9. CASE StartCycle(d)
  <2>1. /\ UNCHANGED <<server, disk, stored>> /\ work[d].pc = "idle" /\ work'[d].pc = "push"
        /\ work'[d].todo = Diff(manifest[d], disk[d])
    BY <1>9, StartCycleDoes
  <2>2. ASSUME NEW p \in Paths, StillDue(p, Reach(d))
        PROVE  disk'[d][p] = Current(p) \/ Listed(d, p)'
    <3>1. manifest[d][p] = Current(p)
      BY <1>4, <2>2 DEF FilesFollow
    <3>2. manifest[d][p] # disk[d][p] => \E c \in Range(work'[d].todo) : p \in {c.path, c.from}
      <4>1. manifest[d] \in [Paths -> Files] /\ disk[d] \in [Paths -> Files]
        BY <1>2
      <4> QED  BY <2>1, <4>1, DiffLists
    <3> QED  BY <2>1, <3>1, <3>2 DEF Listed
  <2> QED  BY <1>1, <2>1, <2>2, FilesOfPushing
<1>10. CASE ReadLocal(d)
  <2>1. /\ UNCHANGED <<disk, stored>> /\ Pushing(d) /\ work[d].pc # "sendcopy" /\ work'[d].todo = work[d].todo
        /\ work'[d].pc = "send"
    BY <1>10, ReadLocalDoes DEF Continues, Pushing
  <2> QED  BY <1>1, <2>1, FilesOfContinuing
<1>11. CASE SendPut(d)
  <2>1. UNCHANGED <<disk, stored>> /\ Pushing(d) /\ work[d].pc = "send" /\ work[d].todo # <<>>
    BY <1>11, SendPutDoes DEF Pushing
  <2>2. CASE Written(Job(d).path, Job(d).from, work[d].local) /\ Finishes(d)
    BY <1>1, <1>6, <1>7, <2>1, <2>2, FilesOfFinishing
  <2>3. CASE /\ work[d].vers[Job(d).path] # Version(Job(d).path)
             /\ astray' = IF Job(d).op = "move" THEN astray \cup {Job(d).from} ELSE astray
             /\ work'[d].pc = "lost" /\ work'[d].todo = work[d].todo
    <3>1. last[Job(d).path] \notin Reach(d)
      <4>1. Covers(work[d].vers, Reach(d))
        BY <2>1 DEF VersionsCover
      <4> QED  BY <1>2, <1>3, <1>7, <2>1, <2>3, <4>1 DEF Covers
    <3>2. ~StillDue(Job(d).from, Reach(d))
      <4>1. CASE Job(d).op = "move"
        BY <2>3, <4>1 DEF StillDue
      <4>2. CASE Job(d).op # "move"
        BY <1>5, <1>7, <2>1, <3>1, <4>2
      <4> QED  BY <4>1, <4>2
    <3> QED  BY <1>1, <2>1, <2>3, <3>2, FilesOfContinuing
  <2> QED  BY <1>11, <2>2, <2>3, SendPutDoes
<1>12. CASE SendDelete(d)
  <2>1. /\ UNCHANGED <<disk, stored>> /\ Pushing(d) /\ work[d].pc = "push" /\ work[d].todo # <<>>
        /\ Finishes(d) /\ Job(d).from = Job(d).path
    BY <1>12, SendDeleteDoes DEF Pushing
  <2>2. CASE Written(Job(d).path, Job(d).path, Missing)
    BY <1>1, <1>6, <1>7, <2>1, <2>2, FilesOfFinishing
  <2>3. CASE work[d].vers[Job(d).path] # Version(Job(d).path)
    <3>1. last[Job(d).path] \notin Reach(d)
      <4>1. Covers(work[d].vers, Reach(d))
        BY <2>1 DEF VersionsCover
      <4> QED  BY <1>2, <1>3, <1>7, <2>1, <2>3, <4>1 DEF Covers
    <3>2. ~StillDue(Job(d).path, Reach(d))
      BY <1>5, <1>7, <2>1, <3>1
    <3> QED  BY <1>1, <2>1, <3>2, FilesOfFinishing
  <2> QED  BY <1>12, <2>2, <2>3, SendDeleteDoes
<1>13. CASE ReadBack(d)
  <2>1. /\ UNCHANGED <<disk, stored>> /\ Pushing(d) /\ Beaten(d) /\ work[d].pc # "sendcopy"
        /\ work'[d].pc \in {"resend", "copy", "merge"} /\ work'[d].todo = work[d].todo
    BY <1>13, ReadBackDoes DEF Continues, Pushing, Beaten
  <2> QED  BY <1>1, <1>8, <2>1, FilesOfContinuing
<1>14. CASE WriteMerge(d)
  <2>1. Pushing(d) /\ Beaten(d) /\ work[d].pc # "sendcopy"
    BY <1>14 DEF WriteMerge, At, Pushing, Beaten
  <2>2. Covers(work[d].vers, Reach(d))
    BY <2>1 DEF VersionsCover
  <2>3. /\ UNCHANGED stored /\ work'[d].pc = "resend" /\ work'[d].todo = work[d].todo
        /\ \A q \in Paths : disk'[d][q] = IF q = Job(d).path THEN work'[d].local ELSE disk[d][q]
    BY <1>14, <2>2, WriteMergeDoes DEF Continues
  <2>4. \A q \in Paths : StillDue(q, Reach(d)) => disk'[d][q] = disk[d][q]
    BY <1>8, <2>1, <2>3
  <2> QED  BY <1>1, <1>8, <2>1, <2>3, <2>4, FilesOfContinuing
<1>15. CASE Resend(d)
  <2>1. /\ UNCHANGED <<disk, stored>> /\ Pushing(d) /\ Beaten(d) /\ work[d].pc # "sendcopy" /\ Finishes(d)
    BY <1>15, ResendDoes DEF Pushing, Beaten
  <2> QED  BY <1>1, <1>8, <2>1, FilesOfFinishing
<1>16. CASE WriteCopy(d)
  <2>1. /\ UNCHANGED stored /\ Pushing(d) /\ Beaten(d) /\ work[d].pc # "sendcopy" /\ work'[d].pc = "sendcopy"
        /\ work'[d].todo = work[d].todo
        /\ \A q \in Paths : disk'[d][q] = IF q = work'[d].copy THEN work[d].local
                                          ELSE IF q = Job(d).path THEN Text(work[d].remote)
                                          ELSE disk[d][q]
    BY <1>16, WriteCopyDoes DEF Pushing, Beaten
  <2>2. \A q \in Paths : StillDue(q, Reach(d)) => disk'[d][q] = disk[d][q] \/ q = work'[d].copy
    BY <1>8, <2>1
  <2> QED  BY <1>1, <1>8, <2>1, <2>2, FilesOfContinuing
<1>17. CASE SendCopy(d)
  <2>1. /\ UNCHANGED <<disk, stored>> /\ Pushing(d) /\ Beaten(d) /\ Finishes(d) /\ work[d].copy \in Paths
    BY <1>17, SendCopyDoes DEF Pushing, Beaten, Shape, At
  <2>2. ~StillDue(work[d].copy, Reach(d))
    <3>1. CASE Written(work[d].copy, work[d].copy, work[d].local)
      BY <1>6, <2>1, <3>1
    <3>2. CASE astray' = IF last[work[d].copy] > cursor[d] THEN astray ELSE astray \cup {work[d].copy}
      BY <1>2, <1>3, <1>5, <2>1, <3>2 DEF StillDue
    <3> QED  BY <1>17, <3>1, <3>2, SendCopyDoes
  <2> QED  BY <1>1, <1>8, <2>1, <2>2, FilesOfFinishing
<1>18. CASE EndPush(d)
  <2>1. /\ UNCHANGED <<server, disk, kept, cursor, raced, world>> /\ At(d, "push") /\ work[d].todo = <<>>
        /\ work'[d].pc = "pull" /\ manifest'[d] = disk[d]
    BY <1>2, <1>18, EndPushDoes DEF Continues, At
  <2>2. \A p \in Paths : /\ Due(p, Reach(d))' <=> Due(p, Reach(d))
                         /\ Current(p)' = Current(p) /\ (Agree(d, p)' <=> Agree(d, p))
    BY <2>1, ReachStays DEF server, world, Due, Current, Version, Agree
  <2>3. \A p \in Paths : ~Listed(d, p)
    BY <2>1, NothingToDo DEF Listed
  <2>4. \A p \in Paths : Due(p, Reach(d)) => Agree(d, p) /\ kept[d][p] = Current(p)
    BY <2>1, <2>3 DEF FilesFollow, At, Pushing
  <2> QED  BY <2>1, <2>2, <2>4 DEF FilesFollow, At, Receiving, Pushing, Beaten, Agree
<1>19. CASE GetChanges(d)
  <2>1. /\ UNCHANGED <<server, disk, stored, world>> /\ At(d, "pull") /\ work'[d].pc = "rows"
        /\ work'[d].at = seq /\ work'[d].page = Feed(cursor[d])
    BY <1>19, GetChangesDoes DEF At
  <2>2. \A p \in Paths : /\ Due(p, Reach(d))' <=> Due(p, Reach(d))
                         /\ Current(p)' = Current(p) /\ (Agree(d, p)' <=> Agree(d, p))
    BY <2>1, ReachStays DEF server, stored, world, Due, Current, Version, Agree
  <2>3. Range(Feed(cursor[d])) = {[path |-> p, text |-> Current(p), version |-> Version(p)] :
                                     p \in {q \in Paths : last[q] > cursor[d]}}
    BY <1>2, FeedShape
  <2>4. ASSUME NEW p \in Paths, Due(p, PageReach(d))'
        PROVE  Agree(d, p)' \/ OnPage(d, p)'
    <3>1. CASE last[p] > cursor[d]
      <4>1. [path |-> p, text |-> Current(p), version |-> Version(p)] \in Range(work'[d].page)
        BY <2>1, <2>3, <3>1
      <4> QED  BY <4>1 DEF OnPage
    <3>2. CASE last[p] \in Reach(d)
      <4>1. Due(p, Reach(d))
        BY <2>1, <2>4, <3>2 DEF Due, world
      <4> QED  BY <2>1, <2>2, <4>1 DEF FilesFollow
    <3>3. last[p] \in PageReach(d)' /\ raced' = raced /\ last' = last
      BY <2>1, <2>4 DEF Due, server, stored
    <3>4. last[p] > cursor[d] \/ last[p] \in Reach(d)
      BY <1>2, <1>3, <3>3 DEF Reach, PageReach
    <3> QED  BY <3>1, <3>2, <3>4
  <2>5. manifest' = manifest /\ kept' = kept /\ \A p \in Paths : Due(p, Reach(d)) => kept[d][p] = Current(p)
    BY <2>1 DEF FilesFollow, At, stored
  <2> QED  BY <2>1, <2>2, <2>4, <2>5 DEF FilesFollow, At, Receiving, Pushing, Beaten
<1>25. CASE GetCursor(d)
  <2>1. /\ UNCHANGED <<server, disk, stored, world>> /\ work[d].pc = "rows" /\ work'[d].pc = "apply"
        /\ work'[d].at = work[d].at /\ work'[d].page = work[d].page
    BY <1>25, GetCursorDoes
  <2>2. Reach(d)' = Reach(d) /\ PageReach(d)' = PageReach(d) /\ manifest' = manifest /\ kept' = kept
    BY <2>1, ReachStays DEF stored
  <2>3. \A p \in Paths : /\ Due(p, Reach(d))' <=> Due(p, Reach(d))
                         /\ Due(p, PageReach(d))' <=> Due(p, PageReach(d))
                         /\ Current(p)' = Current(p) /\ (Agree(d, p)' <=> Agree(d, p))
                         /\ (OnPage(d, p)' <=> OnPage(d, p))
    BY <2>1, <2>2 DEF server, world, Due, Current, Version, Agree, OnPage
  <2> QED  BY <2>1, <2>2, <2>3 DEF FilesFollow, At, Receiving, Pushing, Beaten
<1>20. CASE ApplyChange(d)
  <2> DEFINE item == Head(work[d].page)
  <2>1. /\ UNCHANGED <<server, stored, world>> /\ At(d, "apply") /\ work'[d].pc = "apply"
        /\ work'[d].at = work[d].at
        /\ item \in Item /\ Range(work[d].page) = {item} \cup Range(work'[d].page)
        /\ \A q \in Paths : disk'[d][q] = IF q = item.path THEN item.text ELSE disk[d][q]
    BY <1>20, ApplyChangeDoes DEF At
  <2> HIDE DEF item
  <2>2. \A p \in Paths : /\ Due(p, Reach(d))' <=> Due(p, Reach(d))
                         /\ Due(p, PageReach(d))' <=> Due(p, PageReach(d))
                         /\ Current(p)' = Current(p)
    BY <2>1, ReachStays DEF server, stored, world, Due, Current, Version
  <2>3. ASSUME NEW p \in Paths, Due(p, PageReach(d))
        PROVE  Agree(d, p)' \/ OnPage(d, p)'
    <3>1. CASE p = item.path
      <4>1. item \in Range(work[d].page)
        BY <2>1
      <4>2. item.text = Current(item.path)
        <5>1. last[item.path] \notin PageReach(d) \/ item.text = Current(item.path)
          BY <2>1, <4>1 DEF VersionsCover, Receiving, At
        <5> QED  BY <2>3, <3>1, <5>1 DEF Due
      <4> QED  BY <2>1, <2>2, <3>1, <4>2 DEF Agree
    <3>2. CASE p # item.path
      <4>1. Agree(d, p) \/ OnPage(d, p)
        BY <2>1, <2>3 DEF FilesFollow, Receiving, At
      <4>2. OnPage(d, p) => OnPage(d, p)'
        BY <2>1, <3>2 DEF OnPage
      <4> QED  BY <2>1, <2>2, <3>2, <4>1, <4>2 DEF Agree
    <3> QED  BY <3>1, <3>2
  <2>4. manifest' = manifest /\ kept' = kept /\ \A p \in Paths : Due(p, Reach(d)) => kept[d][p] = Current(p)
    BY <2>1 DEF FilesFollow, At, stored
  <2> QED  BY <2>1, <2>2, <2>3, <2>4 DEF FilesFollow, At, Receiving, Pushing, Beaten
<1>21. CASE EndPull(d)
  <2>1. /\ UNCHANGED <<server, disk, kept, world>> /\ At(d, "apply") /\ work[d].page = <<>>
        /\ work'[d].pc = "save" /\ manifest'[d] = disk[d] /\ cursor'[d] = work[d].cursor
        /\ raced'[d] = raced[d] \cup (work[d].at + 1 .. work[d].cursor)
    BY <1>2, <1>21, EndPullDoes DEF At
  <2>2. \A p \in Paths : Due(p, PageReach(d)) => disk[d][p] = Current(p)
    BY <2>1, NothingToDo DEF FilesFollow, Receiving, At, OnPage, Agree
  <2>3. \A p \in Paths : Current(p)' = Current(p) /\ (Due(p, Reach(d))' => Due(p, PageReach(d)))
    BY <1>2, <2>1, PulledReach DEF server, world, Due, Current, Version
  <2> QED  BY <2>1, <2>2, <2>3 DEF FilesFollow, At, Receiving, Pushing, Beaten
<1>22. CASE SaveManifest(d)
  <2>1. /\ UNCHANGED <<server, disk, manifest, cursor, raced, world>> /\ work'[d].pc = "idle" /\ kept'[d] = manifest[d]
    BY <1>2, <1>22, SaveManifestDoes
  <2>2. \A p \in Paths : Current(p)' = Current(p) /\ (Due(p, Reach(d))' <=> Due(p, Reach(d)))
    BY <2>1, ReachStays DEF server, world, Due, Current, Version
  <2> QED  BY <2>1, <2>2 DEF FilesFollow, At, Receiving, Pushing, Beaten
<1>23. CASE Fails(d)
  <2>1. /\ UNCHANGED <<kept, cursor, raced>> /\ work'[d].pc \in {"idle", "failed"}
        /\ \/ manifest' = manifest /\ astray' = astray /\ work[d].pc # "save"
           \/ /\ manifest'[d] = kept[d]
              /\ astray' = IF At(d, "save") THEN astray \cup {p \in Paths : kept[d][p] # manifest[d][p]}
                           ELSE astray
    BY <1>2, <1>23, FailsDoes DEF Rests
  <2>2. ASSUME NEW p \in Paths, StillDue(p, Reach(d))
        PROVE  manifest'[d][p] = Current(p)' /\ kept'[d][p] = Current(p)'
    <3>1. manifest[d][p] = Current(p) /\ (~At(d, "save") => kept[d][p] = Current(p)) /\ Current(p)' = Current(p)
      BY <1>4, <2>2 DEF FilesFollow
    <3>2. CASE manifest' = manifest /\ work[d].pc # "save"
      BY <2>1, <3>1, <3>2 DEF At
    <3>3. CASE manifest'[d] = kept[d] /\ ~At(d, "save")
      BY <2>1, <3>1, <3>3
    <3>4. CASE /\ manifest'[d] = kept[d] /\ At(d, "save")
               /\ astray' = astray \cup {q \in Paths : kept[d][q] # manifest[d][q]}
      BY <2>1, <2>2, <3>1, <3>4 DEF StillDue
    <3> QED  BY <2>1, <3>2, <3>3, <3>4
  <2>3. \A p \in Paths : Due(p, Reach(d))' <=> StillDue(p, Reach(d))
    BY <2>1, ReachStays DEF Due, StillDue
  <2> QED  BY <2>1, <2>2, <2>3 DEF FilesFollow, At, Receiving, Pushing, Beaten
<1>24. CASE User(d)
  <2>1. /\ UNCHANGED <<server, work>> /\ manifest' = manifest /\ kept' = kept /\ cursor' = cursor /\ raced' = raced
        /\ \A p \in Paths : At(d, "idle") \/ disk'[d][p] = disk[d][p] \/ p \in astray'
    BY <1>24, UserDoes DEF stored
  <2>2. \A p \in Paths : /\ Due(p, Reach(d))' => Due(p, Reach(d))
                         /\ Due(p, PageReach(d))' => Due(p, PageReach(d))
                         /\ Current(p)' = Current(p)
                         /\ p \in astray' => ~Due(p, Reach(d))' /\ ~Due(p, PageReach(d))'
                         /\ (Listed(d, p)' <=> Listed(d, p)) /\ (OnPage(d, p)' <=> OnPage(d, p))
    BY <1>1, <2>1, ReachStays DEF server, Due, Current, Version, Marks, Listed, OnPage
  <2>3. CASE At(d, "idle")
    BY <2>1, <2>2, <2>3 DEF FilesFollow, At, Receiving, Pushing, Beaten
  <2>4. CASE ~At(d, "idle")
    <3>1. \A p \in Paths : p \in astray' \/ (Agree(d, p)' <=> Agree(d, p))
      BY <2>1, <2>2, <2>4 DEF Agree
    <3>2. Beaten(d)' => ~Due(Job(d).from, Reach(d))'
      <4> SUFFICES ASSUME Beaten(d), NEW p \in Paths, p = Job(d).from, Due(p, Reach(d))'
                   PROVE  FALSE
        BY <1>7, <2>1, ReachStays DEF Beaten, Job, Due, Shape
      <4> QED  BY <2>2 DEF FilesFollow
    <3> QED  BY <2>1, <2>2, <3>1, <3>2 DEF FilesFollow, At, Receiving, Pushing
  <2> QED  BY <2>3, <2>4
<1> QED  BY <1>9, <1>10, <1>11, <1>12, <1>13, <1>14, <1>15, <1>16, <1>17, <1>18, <1>19, <1>20, <1>21,
            <1>22, <1>23, <1>24, <1>25 DEF Step

----------------------------------------------------------------------------
(***************************************************************************)
(* Edits                                                                   *)
(***************************************************************************)

LEMMA DurableGrows ==
    ASSUME ServerGrows, Marks
    PROVE  /\ Durable \subseteq Durable' /\ InHistory' \subseteq Durable'
           /\ dropped' \subseteq Durable' /\ exposed' \subseteq Durable'
BY DEF ServerGrows, Marks, Durable

LEMMA CurrentIsDurable ==
    ASSUME TypeOK, NEW p \in Paths
    PROVE  Current(p) \in Files /\ Text(Current(p)) \subseteq Durable
<1>1. hist[p] \in Seq(Files) /\ Missing \in Files /\ Text(Missing) = {}
  BY DEF TypeOK, Files, Text
<1>2. CASE hist[p] = <<>>
  BY <1>1, <1>2 DEF Current
<1>3. CASE hist[p] # <<>>
  <2>1. Len(hist[p]) \in DOMAIN hist[p] /\ Current(p) = hist[p][Len(hist[p])] /\ Current(p) \in Files
    BY <1>1, <1>3 DEF Current, Version
  <2>2. Text(Current(p)) \subseteq 1 .. MaxEdits
    BY <2>1, TextShape
  <2>3. Text(Current(p)) \subseteq InHistory
    BY <2>1, <2>2 DEF InHistory
  <2> QED  BY <2>1, <2>3 DEF Durable
<1> QED  BY <1>2, <1>3

LEMMA EditsStay ==
    ASSUME ServerGrows, Marks, NEW e \in Devices, EditsHeld(e), work'[e] = work[e], disk'[e] = disk[e],
           manifest'[e] = manifest[e], kept'[e] = kept[e]
    PROVE  EditsHeld(e)'
<1>1. Durable \subseteq Durable'
  BY DurableGrows
<1>2. /\ \A p : Pending(e, p)' <=> Pending(e, p)
      /\ Job(e)' = Job(e) /\ (Pushing(e)' <=> Pushing(e)) /\ (Holding(e)' <=> Holding(e))
      /\ (Beaten(e)' <=> Beaten(e)) /\ (Receiving(e)' <=> Receiving(e)) /\ \A pc : At(e, pc)' <=> At(e, pc)
  BY DEF Pending, Job, Pushing, Holding, Beaten, Receiving, At
<1> QED  BY <1>1, <1>2 DEF EditsHeld

LEMMA EditsOfPushing ==
    ASSUME ServerGrows, Marks, NEW d \in Devices, EditsHeld(d), UNCHANGED stored,
           work'[d].pc \in {"push", "send", "lost", "merge", "resend", "copy", "sendcopy"},
           \A p \in Paths : \/ Pending(d, p)'
                            \/ Text(disk'[d][p]) \subseteq Durable'
                            \/ /\ work'[d].pc = "sendcopy"
                               /\ Text(disk'[d][p]) \subseteq work'[d].local \cup Durable',
           work'[d].pc \in {"send", "merge", "resend", "copy", "sendcopy"} =>
              \A p : p = Head(work'[d].todo).path => Text(disk'[d][p]) \subseteq work'[d].local \cup Durable',
           work'[d].pc \in {"lost", "merge", "resend", "copy", "sendcopy"} =>
              Text(work'[d].remote) \subseteq Durable'
    PROVE  EditsHeld(d)'
<1>1. \A p \in Paths : Text(manifest'[d][p]) \cup Text(kept'[d][p]) \subseteq Durable'
  BY DurableGrows DEF EditsHeld, stored
<1>2. Holding(d)' => (Text(disk[d][Job(d).path]) \subseteq work[d].local \cup Durable)'
  BY DEF Holding, Job
<1>3. Pushing(d)' => \A p \in Paths :
         \/ Pending(d, p)'
         \/ (Text(disk[d][p]) \subseteq Durable)'
         \/ At(d, "sendcopy")' /\ (Text(disk[d][p]) \subseteq work[d].local \cup Durable)'
  BY DEF At
<1>4. (Beaten(d)' => (Text(work[d].remote) \subseteq Durable)') /\ ~At(d, "pull")' /\ ~Receiving(d)'
  BY DEF Beaten, Receiving, At
<1> QED  BY <1>1, <1>2, <1>3, <1>4 DEF EditsHeld

\* A change is pushed: if it is not a deletion, what the file holds is durable.
LEMMA EditsOfFinishing ==
    ASSUME TypeOK, ServerGrows, Marks, NEW d \in Devices, EditsHeld(d), UNCHANGED <<disk, stored>>,
           Pushing(d), work[d].todo # <<>>, Finishes(d),
           Job(d).op # "delete" => Text(disk[d][Job(d).path]) \subseteq Durable',
           work[d].pc = "sendcopy" => work[d].local \subseteq Durable'
    PROVE  EditsHeld(d)'
<1>1. Range(work[d].todo) = {Job(d)} \cup Range(work'[d].todo)
  BY JobShape DEF Finishes
<1>2. Durable \subseteq Durable'
  BY DurableGrows
<1>3. ASSUME NEW p \in Paths
      PROVE  Pending(d, p)' \/ Text(disk'[d][p]) \subseteq Durable'
  <2>1. CASE Text(disk[d][p]) \subseteq Durable
    BY <1>2, <2>1
  <2>2. CASE At(d, "sendcopy") /\ Text(disk[d][p]) \subseteq work[d].local \cup Durable
    BY <1>2, <2>2 DEF At
  <2>3. CASE Pending(d, p)
    <3>1. PICK c \in Range(work[d].todo) : c.path = p /\ c.op # "delete"
      BY <2>3 DEF Pending
    <3>2. CASE c = Job(d)
      BY <3>1, <3>2
    <3>3. CASE c # Job(d)
      BY <1>1, <3>1, <3>3 DEF Pending
    <3> QED  BY <3>2, <3>3
  <2> QED  BY <2>1, <2>2, <2>3 DEF EditsHeld
<1>4. work'[d].pc = "push"
  BY DEF Finishes
<1> QED  BY <1>3, <1>4, EditsOfPushing

\* The worker goes on with the same changes: only the path being pushed is written, and
\* the copy it sends next.
LEMMA EditsOfContinuing ==
    ASSUME TypeOK, ServerGrows, Marks, NEW d \in Devices, EditsHeld(d), UNCHANGED stored,
           Pushing(d), work[d].pc # "sendcopy", work[d].todo # <<>>, work'[d].todo = work[d].todo,
           Job(d).op # "delete",
           work'[d].pc \in {"send", "lost", "merge", "resend", "copy", "sendcopy"},
           \A p \in Paths : \/ p = Job(d).path
                            \/ disk'[d][p] = disk[d][p]
                            \/ work'[d].pc = "sendcopy" /\ Text(disk'[d][p]) \subseteq work'[d].local,
           work'[d].pc # "lost" => Text(disk'[d][Job(d).path]) \subseteq work'[d].local \cup Durable',
           work'[d].pc # "send" => Text(work'[d].remote) \subseteq Durable'
    PROVE  EditsHeld(d)'
<1>1. Durable \subseteq Durable'
  BY DurableGrows
<1>2. \A p : Pending(d, p)' <=> Pending(d, p)
  BY DEF Pending
<1>3. Pending(d, Job(d).path)
  BY JobShape DEF Pending
<1>4. ASSUME NEW p \in Paths
      PROVE  \/ Pending(d, p)'
             \/ Text(disk'[d][p]) \subseteq Durable'
             \/ work'[d].pc = "sendcopy" /\ Text(disk'[d][p]) \subseteq work'[d].local \cup Durable'
  <2>1. CASE p = Job(d).path
    BY <1>2, <1>3, <2>1
  <2>2. CASE disk'[d][p] = disk[d][p]
    <3>1. Pending(d, p) \/ Text(disk[d][p]) \subseteq Durable
      BY DEF EditsHeld, At
    <3> QED  BY <1>1, <1>2, <2>2, <3>1
  <2>3. CASE work'[d].pc = "sendcopy" /\ Text(disk'[d][p]) \subseteq work'[d].local
    BY <2>3
  <2> QED  BY <2>1, <2>2, <2>3
<1>5. Head(work'[d].todo) = Job(d)
  BY DEF Job
<1> QED  BY <1>4, <1>5, EditsOfPushing

LEMMA StepEdits ==
    ASSUME TypeOK, Bounds, NEW d \in Devices, Shape(d), VersionsCover(d), EditsHeld(d),
           UNCHANGED env, Step(d)
    PROVE  EditsHeld(d)'
<1>1. ServerGrows /\ Marks
  BY StepTypes
<1>2. /\ Durable \subseteq Durable' /\ InHistory' \subseteq Durable'
      /\ dropped' \subseteq Durable' /\ exposed' \subseteq Durable'
  BY <1>1, DurableGrows
<1>3. /\ manifest \in [Devices -> [Paths -> Files]] /\ kept \in [Devices -> [Paths -> Files]]
      /\ disk \in [Devices -> [Paths -> Files]] /\ work[d].page \in Seq(Item) /\ work[d].remote \in Files
      /\ cursor[d] \in Nat
  BY DEF TypeOK, Worker
<1>4. Text(Missing) = {} /\ \A text \in Texts : Text(text) = text
  BY TextShape DEF Text, Files
<1>5. /\ Holding(d) => work[d].local \in Texts /\ Text(work[d].local) = work[d].local
      /\ Holding(d) \/ Beaten(d) => work[d].todo # <<>> /\ Job(d).op # "delete"
  BY <1>4 DEF Shape
<1>6. CASE StartCycle(d)
  <2>1. /\ UNCHANGED <<disk, stored>> /\ work'[d].pc = "push" /\ work'[d].todo = Diff(manifest[d], disk[d])
    BY <1>6, StartCycleDoes
  <2>2. ASSUME NEW p \in Paths
        PROVE  Pending(d, p)' \/ Text(disk'[d][p]) \subseteq Durable'
    <3>1. manifest[d] \in [Paths -> Files] /\ disk[d] \in [Paths -> Files]
      BY <1>3
    <3>2. manifest[d][p] # disk[d][p] /\ disk[d][p] # Missing =>
             \E c \in Range(work'[d].todo) : c.path = p /\ c.op # "delete"
      BY <2>1, <3>1, DiffLists
    <3>3. Text(manifest[d][p]) \subseteq Durable
      BY DEF EditsHeld
    <3> QED  BY <1>2, <1>4, <2>1, <3>2, <3>3 DEF Pending
  <2> QED  BY <1>1, <2>1, <2>2, EditsOfPushing
<1>7. CASE ReadLocal(d)
  <2>1. /\ UNCHANGED <<disk, stored>> /\ Pushing(d) /\ work[d].pc # "sendcopy" /\ work'[d].todo = work[d].todo
        /\ work[d].todo # <<>> /\ work'[d].pc = "send" /\ work'[d].local = disk[d][Job(d).path]
        /\ work'[d].local \in Texts
    BY <1>7, ReadLocalDoes DEF Continues, Pushing
  <2>2. Job(d).op # "delete"
    BY <1>7 DEF ReadLocal
  <2>3. Text(disk'[d][Job(d).path]) = work'[d].local
    BY <1>4, <2>1
  <2> QED  BY <1>1, <2>1, <2>2, <2>3, EditsOfContinuing
<1>8. CASE SendPut(d)
  <2>1. /\ UNCHANGED <<disk, stored>> /\ Pushing(d) /\ Holding(d) /\ work[d].pc = "send" /\ work[d].todo # <<>>
    BY <1>8, SendPutDoes DEF Pushing, Holding
  <2>2. Text(disk[d][Job(d).path]) \subseteq work[d].local \cup Durable
    BY <2>1 DEF EditsHeld
  <2>3. CASE Written(Job(d).path, Job(d).from, work[d].local) /\ Finishes(d)
    <3>1. Text(disk[d][Job(d).path]) \subseteq Durable'
      BY <1>2, <1>5, <2>1, <2>2, <2>3 DEF Written
    <3> QED  BY <1>1, <2>1, <2>3, <3>1, EditsOfFinishing
  <2>4. CASE work'[d].pc = "lost" /\ work'[d].todo = work[d].todo /\ work'[d].remote = Current(Job(d).path)
    <3>1. Text(work'[d].remote) \subseteq Durable'
      BY <1>2, <2>1, <2>4, JobShape, CurrentIsDurable
    <3> QED  BY <1>1, <1>5, <2>1, <2>4, <3>1, EditsOfContinuing
  <2> QED  BY <1>8, <2>3, <2>4, SendPutDoes
<1>9. CASE SendDelete(d)
  <2>1. /\ UNCHANGED <<disk, stored>> /\ Pushing(d) /\ work[d].pc = "push" /\ work[d].todo # <<>>
        /\ Finishes(d) /\ Job(d).op = "delete"
    BY <1>9, SendDeleteDoes DEF Pushing
  <2> QED  BY <1>1, <2>1, EditsOfFinishing
<1>10. CASE ReadBack(d)
  <2>1. /\ UNCHANGED <<disk, stored>> /\ Pushing(d) /\ Beaten(d) /\ work[d].pc # "sendcopy"
        /\ work'[d].pc \in {"resend", "copy", "merge"} /\ work'[d].todo = work[d].todo
        /\ work'[d].local = disk[d][Job(d).path] /\ work'[d].local \in Texts
        /\ work'[d].remote = work[d].remote
    BY <1>10, ReadBackDoes DEF Continues, Pushing, Beaten
  <2>2. Text(work'[d].remote) \subseteq Durable' /\ Text(disk'[d][Job(d).path]) = work'[d].local
    BY <1>2, <1>4, <2>1 DEF EditsHeld
  <2> QED  BY <1>1, <1>5, <2>1, <2>2, EditsOfContinuing
<1>11. CASE WriteMerge(d)
  <2>1. Pushing(d) /\ Beaten(d) /\ work[d].pc # "sendcopy"
    BY <1>11 DEF WriteMerge, At, Pushing, Beaten
  <2>2. Covers(work[d].vers, Reach(d))
    BY <2>1 DEF VersionsCover
  <2>3. /\ UNCHANGED stored /\ work'[d].pc = "resend" /\ work'[d].todo = work[d].todo
        /\ work'[d].remote = work[d].remote /\ work'[d].local \in Texts
        /\ \A q \in Paths : disk'[d][q] = IF q = Job(d).path THEN work'[d].local ELSE disk[d][q]
    BY <1>11, <2>2, WriteMergeDoes DEF Continues
  <2>4. Text(work'[d].remote) \subseteq Durable'
    BY <1>2, <2>1, <2>3 DEF EditsHeld
  <2>5. Text(disk'[d][Job(d).path]) = work'[d].local
    BY <1>4, <1>5, <2>1, <2>3, JobShape
  <2> QED  BY <1>1, <1>5, <2>1, <2>3, <2>4, <2>5, EditsOfContinuing
<1>12. CASE Resend(d)
  <2>1. /\ UNCHANGED <<disk, stored>> /\ Pushing(d) /\ Holding(d) /\ work[d].pc # "sendcopy"
        /\ work[d].todo # <<>> /\ Finishes(d)
    BY <1>12, ResendDoes DEF Pushing, Holding
  <2>2. work[d].local \subseteq Durable'
    <3>1. CASE Written(Job(d).path, Job(d).path, work[d].local)
      BY <1>2, <1>5, <2>1, <3>1 DEF Written
    <3>2. CASE exposed' = exposed \cup work[d].local
      BY <1>2, <3>2
    <3> QED  BY <1>12, <3>1, <3>2, ResendDoes
  <2>3. Text(disk[d][Job(d).path]) \subseteq Durable'
    BY <1>2, <2>1, <2>2 DEF EditsHeld
  <2> QED  BY <1>1, <2>1, <2>3, EditsOfFinishing
<1>13. CASE WriteCopy(d)
  <2>1. /\ UNCHANGED stored /\ Pushing(d) /\ Beaten(d) /\ Holding(d) /\ work[d].pc # "sendcopy"
        /\ work'[d].pc = "sendcopy" /\ work'[d].todo = work[d].todo /\ work'[d].local = work[d].local
        /\ work'[d].remote = work[d].remote /\ work'[d].copy # Job(d).path
        /\ \A q \in Paths : disk'[d][q] = IF q = work'[d].copy THEN work[d].local
                                          ELSE IF q = Job(d).path THEN Text(work[d].remote)
                                          ELSE disk[d][q]
    BY <1>13, WriteCopyDoes DEF Pushing, Beaten, Holding
  <2>2. Text(work[d].remote) \subseteq Durable'
    BY <1>2, <2>1 DEF EditsHeld
  <2>3. Text(disk'[d][Job(d).path]) = Text(work[d].remote)
    <3>1. Text(Text(work[d].remote)) = Text(work[d].remote)
      BY <1>3, <1>4, TextShape
    <3> QED  BY <1>5, <2>1, <3>1, JobShape
  <2>4. \A q \in Paths : \/ q = Job(d).path \/ disk'[d][q] = disk[d][q]
                         \/ Text(disk'[d][q]) \subseteq work'[d].local
    BY <1>5, <2>1
  <2> QED  BY <1>1, <1>5, <2>1, <2>2, <2>3, <2>4, EditsOfContinuing
<1>14. CASE SendCopy(d)
  <2>1. /\ UNCHANGED <<disk, stored>> /\ Pushing(d) /\ Holding(d) /\ work[d].todo # <<>> /\ Finishes(d)
    BY <1>14, SendCopyDoes DEF Pushing, Holding
  <2>2. work[d].local \subseteq Durable'
    <3>1. CASE Written(work[d].copy, work[d].copy, work[d].local)
      BY <1>2, <1>5, <2>1, <3>1 DEF Written
    <3>2. CASE exposed' = exposed \cup work[d].local
      BY <1>2, <3>2
    <3> QED  BY <1>14, <3>1, <3>2, SendCopyDoes
  <2>3. Text(disk[d][Job(d).path]) \subseteq Durable'
    BY <1>2, <2>1, <2>2 DEF EditsHeld
  <2> QED  BY <1>1, <2>1, <2>2, <2>3, EditsOfFinishing
<1>15. CASE EndPush(d)
  <2>1. /\ UNCHANGED <<disk, kept>> /\ At(d, "push") /\ work[d].todo = <<>>
        /\ work'[d].pc = "pull" /\ manifest'[d] = disk[d]
    BY <1>3, <1>15, EndPushDoes DEF Continues, At
  <2>2. \A p \in Paths : ~Pending(d, p)
    BY <2>1, NothingToDo DEF Pending
  <2>3. \A p \in Paths : Text(disk[d][p]) \subseteq Durable' /\ Text(kept[d][p]) \subseteq Durable'
    BY <1>2, <2>1, <2>2 DEF EditsHeld, Pushing, At
  <2> QED  BY <2>1, <2>3 DEF EditsHeld, Pushing, Holding, Beaten, Receiving, At
<1>16. CASE GetChanges(d)
  <2>1. /\ UNCHANGED <<disk, stored>> /\ At(d, "pull") /\ work'[d].pc = "rows"
        /\ work'[d].page = Feed(cursor[d])
    BY <1>16, GetChangesDoes DEF At
  <2>2. Range(Feed(cursor[d])) = {[path |-> p, text |-> Current(p), version |-> Version(p)] :
                                     p \in {q \in Paths : last[q] > cursor[d]}}
    BY <1>3, FeedShape
  <2>3. ASSUME NEW item \in Range(work'[d].page)
        PROVE  Text(item.text) \subseteq Durable'
    <3>1. PICK p \in Paths : item = [path |-> p, text |-> Current(p), version |-> Version(p)]
      BY <2>1, <2>2
    <3> QED  BY <1>2, <3>1, CurrentIsDurable
  <2>4. \A p \in Paths : Text(disk[d][p]) \subseteq Durable'
    BY <1>2, <2>1 DEF EditsHeld
  <2>5. \A p \in Paths : Text(manifest'[d][p]) \cup Text(kept'[d][p]) \subseteq Durable'
    BY <1>2, <2>1 DEF EditsHeld, stored
  <2> QED  BY <2>1, <2>3, <2>4, <2>5 DEF EditsHeld, Pushing, Holding, Beaten, Receiving, At
<1>22. CASE GetCursor(d)
  <2>1. /\ UNCHANGED <<disk, stored>> /\ work[d].pc = "rows" /\ work'[d].pc = "apply"
        /\ work'[d].page = work[d].page
    BY <1>22, GetCursorDoes
  <2>2. \A p \in Paths : Text(disk[d][p]) \subseteq Durable'
    BY <1>2, <2>1 DEF EditsHeld, Receiving
  <2>3. \A item \in Range(work[d].page) : Text(item.text) \subseteq Durable'
    BY <1>2, <2>1 DEF EditsHeld, Receiving
  <2>4. \A p \in Paths : Text(manifest'[d][p]) \cup Text(kept'[d][p]) \subseteq Durable'
    BY <1>2, <2>1 DEF EditsHeld, stored
  <2> QED  BY <2>1, <2>2, <2>3, <2>4 DEF EditsHeld, Pushing, Holding, Beaten, Receiving, At
<1>17. CASE ApplyChange(d)
  <2> DEFINE item == Head(work[d].page)
  <2>1. /\ UNCHANGED stored /\ At(d, "apply") /\ work'[d].pc = "apply"
        /\ Range(work[d].page) = {item} \cup Range(work'[d].page)
        /\ \A q \in Paths : disk'[d][q] = IF q = item.path THEN item.text ELSE disk[d][q]
    BY <1>17, ApplyChangeDoes DEF At
  <2> HIDE DEF item
  <2>2. \A i \in Range(work[d].page) : Text(i.text) \subseteq Durable'
    BY <1>2, <2>1 DEF EditsHeld, Receiving, At
  <2>3. \A p \in Paths : Text(disk'[d][p]) \subseteq Durable'
    BY <1>2, <2>1, <2>2 DEF EditsHeld, Receiving, At
  <2>4. \A p \in Paths : Text(manifest'[d][p]) \cup Text(kept'[d][p]) \subseteq Durable'
    BY <1>2, <2>1 DEF EditsHeld, stored
  <2> QED  BY <2>1, <2>2, <2>3, <2>4 DEF EditsHeld, Pushing, Holding, Beaten, Receiving, At
<1>18. CASE EndPull(d)
  <2>1. At(d, "apply") /\ work'[d].pc = "save" /\ manifest'[d] = disk[d] /\ kept' = kept
    BY <1>3, <1>18, EndPullDoes DEF At
  <2>2. \A p \in Paths : Text(disk[d][p]) \subseteq Durable' /\ Text(kept[d][p]) \subseteq Durable'
    BY <1>2, <2>1 DEF EditsHeld, Receiving, At
  <2> QED  BY <2>1, <2>2 DEF EditsHeld, Pushing, Holding, Beaten, Receiving, At
<1>19. CASE SaveManifest(d)
  <2>1. work'[d].pc = "idle" /\ manifest' = manifest /\ kept'[d] = manifest[d]
    BY <1>3, <1>19, SaveManifestDoes
  <2>2. \A p \in Paths : Text(manifest[d][p]) \subseteq Durable'
    BY <1>2 DEF EditsHeld
  <2> QED  BY <2>1, <2>2 DEF EditsHeld, Pushing, Holding, Beaten, Receiving, At
<1>20. CASE Fails(d)
  <2>1. /\ work'[d].pc \in {"idle", "failed"} /\ kept' = kept
        /\ manifest'[d] = manifest[d] \/ manifest'[d] = kept[d]
    BY <1>3, <1>20, FailsDoes DEF Rests
  <2>2. \A p \in Paths : Text(manifest[d][p]) \subseteq Durable' /\ Text(kept[d][p]) \subseteq Durable'
    BY <1>2 DEF EditsHeld
  <2> QED  BY <2>1, <2>2 DEF EditsHeld, Pushing, Holding, Beaten, Receiving, At
<1>21. CASE User(d)
  <2>1. /\ work' = work /\ manifest' = manifest /\ kept' = kept
        /\ \A p \in Paths : \/ At(d, "idle")
                            \/ disk'[d][p] = disk[d][p]
                            \/ Text(disk'[d][p]) \subseteq Text(disk[d][p]) \cup exposed'
    BY <1>21, UserDoes DEF stored
  <2>2. \A p \in Paths : Text(manifest'[d][p]) \cup Text(kept'[d][p]) \subseteq Durable'
    BY <1>2, <2>1 DEF EditsHeld
  <2>3. CASE At(d, "idle")
    BY <2>1, <2>2, <2>3 DEF EditsHeld, Pushing, Holding, Beaten, Receiving, At
  <2>4. CASE ~At(d, "idle")
    <3>1. \A p \in Paths : Text(disk'[d][p]) \subseteq Text(disk[d][p]) \cup Durable'
      BY <1>2, <2>1, <2>4
    <3>2. \A p \in Paths : Text(disk[d][p]) \subseteq Durable => Text(disk'[d][p]) \subseteq Durable'
      BY <1>2, <3>1
    <3>3. \A p \in Paths : Text(disk[d][p]) \subseteq work[d].local \cup Durable =>
                              Text(disk'[d][p]) \subseteq work[d].local \cup Durable'
      BY <1>2, <3>1
    <3>4. Job(d)' = Job(d) /\ \A p : Pending(d, p)' <=> Pending(d, p)
      BY <2>1 DEF Job, Pending
    <3>5. Holding(d)' => (Text(disk[d][Job(d).path]) \subseteq work[d].local \cup Durable)'
      <4> SUFFICES ASSUME Holding(d), NEW p \in Paths, p = Job(d).path
                   PROVE  Text(disk'[d][p]) \subseteq work[d].local \cup Durable'
        BY <1>5, <2>1, <3>4, JobShape DEF Holding
      <4> QED  BY <3>3 DEF EditsHeld
    <3>6. Pushing(d)' => \A p \in Paths :
             \/ Pending(d, p)'
             \/ (Text(disk[d][p]) \subseteq Durable)'
             \/ At(d, "sendcopy")' /\ (Text(disk[d][p]) \subseteq work[d].local \cup Durable)'
      BY <2>1, <3>2, <3>3, <3>4 DEF EditsHeld, Pushing, At
    <3>7. /\ Beaten(d)' => (Text(work[d].remote) \subseteq Durable)'
          /\ At(d, "pull")' \/ Receiving(d)' => \A p \in Paths : (Text(disk[d][p]) \subseteq Durable)'
          /\ Receiving(d)' => \A item \in Range(work'[d].page) : Text(item.text) \subseteq Durable'
      BY <1>2, <2>1, <3>2 DEF EditsHeld, Beaten, Receiving, At
    <3> QED  BY <2>2, <3>5, <3>6, <3>7 DEF EditsHeld
  <2> QED  BY <2>3, <2>4
<1> QED  BY <1>6, <1>7, <1>8, <1>9, <1>10, <1>11, <1>12, <1>13, <1>14, <1>15, <1>16, <1>17, <1>18,
            <1>19, <1>20, <1>21, <1>22 DEF Step

\* No step of a device loses an edit its files had, and a new edit is in a file.
LEMMA StepKeepsEdits ==
    ASSUME TypeOK, Bounds, NEW d \in Devices, Shape(d), VersionsCover(d), EditsHeld(d),
           UNCHANGED env, Step(d)
    PROVE  /\ \A p \in Paths : \A e \in Text(disk[d][p]) :
                 e \in Durable' \/ \E q \in Paths : e \in Text(disk'[d][q])
           /\ \/ made' = made
              \/ made' = made + 1 /\ \E q \in Paths : made' \in Text(disk'[d][q])
<1>1. ServerGrows /\ Marks
  BY StepTypes
<1>2. /\ Durable \subseteq Durable' /\ dropped' \subseteq Durable' /\ exposed' \subseteq Durable'
  BY <1>1, DurableGrows
<1>3. Text(Missing) = {} /\ \A text \in Texts : Text(text) = text
  BY TextShape DEF Text, Files
<1>4. CASE StartCycle(d) \/ ReadLocal(d) \/ SendPut(d) \/ SendDelete(d) \/ ReadBack(d) \/ Resend(d)
           \/ SendCopy(d) \/ EndPush(d) \/ GetChanges(d) \/ GetCursor(d) \/ EndPull(d) \/ SaveManifest(d)
           \/ Fails(d)
  <2>1. UNCHANGED <<disk, made>>
    BY <1>4, FailsDoes DEF StartCycle, ReadLocal, SendPut, SendDelete, ReadBack, Resend, SendCopy, EndPush,
       GetChanges, GetCursor, EndPull, SaveManifest, world
  <2> QED  BY <2>1
<1>5. CASE WriteMerge(d)
  <2>1. Pushing(d) /\ Holding(d) /\ work[d].local \in Texts
    BY <1>5 DEF WriteMerge, At, Pushing, Holding, Shape
  <2>2. Covers(work[d].vers, Reach(d))
    BY <2>1 DEF VersionsCover
  <2>3. /\ UNCHANGED made /\ work[d].todo # <<>> /\ work'[d].local \in Texts
        /\ exposed' = exposed \cup (work[d].local \ work'[d].local)
        /\ \A q \in Paths : disk'[d][q] = IF q = Job(d).path THEN work'[d].local ELSE disk[d][q]
    BY <1>5, <2>2, WriteMergeDoes
  <2>4. Job(d).path \in Paths /\ Text(disk'[d][Job(d).path]) = work'[d].local
    BY <1>3, <2>3, JobShape
  <2>5. Text(disk[d][Job(d).path]) \subseteq work'[d].local \cup Durable'
    BY <1>2, <2>1, <2>3 DEF EditsHeld
  <2> QED  BY <2>3, <2>4, <2>5
<1>6. CASE WriteCopy(d)
  <2>1. Pushing(d) /\ Holding(d) /\ work[d].local \in Texts
    BY <1>6 DEF WriteCopy, At, Pushing, Holding, Shape
  <2>2. /\ UNCHANGED made /\ work[d].todo # <<>>
        /\ work'[d].copy \in Paths /\ disk[d][work'[d].copy] = Missing
        /\ \A q \in Paths : disk'[d][q] = IF q = work'[d].copy THEN work[d].local
                                          ELSE IF q = Job(d).path THEN Text(work[d].remote)
                                          ELSE disk[d][q]
    BY <1>6, WriteCopyDoes DEF world
  <2>3. Text(disk[d][Job(d).path]) \subseteq work[d].local \cup Durable'
    BY <1>2, <2>1 DEF EditsHeld
  <2>4. Text(disk'[d][work'[d].copy]) = work[d].local
    BY <1>3, <2>1, <2>2
  <2>5. ASSUME NEW p \in Paths, NEW e \in Text(disk[d][p])
        PROVE  e \in Durable' \/ \E q \in Paths : e \in Text(disk'[d][q])
    <3>1. CASE p = Job(d).path
      BY <2>2, <2>3, <2>4, <3>1
    <3>2. CASE p # Job(d).path
      <4>1. p # work'[d].copy
        BY <1>3, <2>2
      <4> QED  BY <2>2, <3>2, <4>1
    <3> QED  BY <3>1, <3>2
  <2> QED  BY <2>2, <2>5
<1>7. CASE ApplyChange(d)
  <2>1. UNCHANGED made /\ At(d, "apply")
    BY <1>7 DEF ApplyChange, world
  <2>2. \A p \in Paths : Text(disk[d][p]) \subseteq Durable'
    BY <1>2, <2>1 DEF EditsHeld, Receiving, At
  <2> QED  BY <2>1, <2>2
<1>8. CASE User(d)
  BY <1>2, <1>8, UserDoes
<1> QED  BY <1>4, <1>5, <1>6, <1>7, <1>8 DEF Step

LEMMA StepEditsKept ==
    ASSUME TypeOK, Bounds, EditsKept, NEW d \in Devices, Shape(d), VersionsCover(d), EditsHeld(d),
           UNCHANGED env, Step(d)
    PROVE  EditsKept'
<1>1. ServerGrows /\ Marks /\ Others(d)
  BY StepTypes
<1>2. Durable \subseteq Durable'
  BY <1>1, DurableGrows
<1>3. made \in Nat
  BY BoundsAssumption DEF TypeOK
<1>4. ASSUME NEW e \in 1 .. made
      PROVE  e \in Durable' \/ \E f \in Devices, p \in Paths : e \in Text(disk'[f][p])
  <2>1. CASE e \in Durable
    BY <1>2, <2>1
  <2>2. ASSUME NEW f \in Devices, NEW p \in Paths, e \in Text(disk[f][p])
        PROVE  e \in Durable' \/ \E g \in Devices, q \in Paths : e \in Text(disk'[g][q])
    <3>1. CASE f = d
      BY <2>2, <3>1, StepKeepsEdits
    <3>2. CASE f # d
      BY <1>1, <2>2, <3>2 DEF Others
    <3> QED  BY <3>1, <3>2
  <2> QED  BY <2>1, <2>2 DEF EditsKept
<1>5. ASSUME NEW e \in 1 .. made', e \notin 1 .. made
      PROVE  \E q \in Paths : e \in Text(disk'[d][q])
  <2>1. made' = made + 1 /\ \E q \in Paths : made' \in Text(disk'[d][q])
    BY <1>5, StepKeepsEdits
  <2>2. e = made'
    BY <1>3, <1>5, <2>1
  <2> QED  BY <2>1, <2>2
<1> QED  BY <1>4, <1>5 DEF EditsKept

----------------------------------------------------------------------------
(***************************************************************************)
(* The invariant holds                                                     *)
(***************************************************************************)
LEMMA Initially == Init => IInv
<1> SUFFICES ASSUME Init
             PROVE  IInv
  OBVIOUS
<1>1. /\ hist = [p \in Paths |-> <<>>] /\ last = [p \in Paths |-> 0] /\ seq = 0
      /\ disk = [d \in Devices |-> NoFiles] /\ manifest = [d \in Devices |-> NoFiles]
      /\ kept = [d \in Devices |-> NoFiles] /\ versions = [d \in Devices |-> [p \in Paths |-> 0]]
      /\ cursor = [d \in Devices |-> 0] /\ raced = [d \in Devices |-> {}] /\ work = [d \in Devices |-> Resting]
      /\ made = 0 /\ dropped = {} /\ tidied = 0 /\ faults = 0 /\ exposed = {} /\ astray = {}
      /\ env \in Environments
  BY DEF Init
<1>2. NoFiles \in [Paths -> Files] /\ Resting \in Worker /\ Text(Missing) = {}
  BY RestingShape DEF NoFiles, Files, Text
<1>3. MaxEdits \in Nat /\ env.tidy \in Nat /\ env.faults \in Nat
  BY <1>1, EnvironmentAssumption, BoundsAssumption
<1>4. TypeOK
  BY <1>1, <1>2, <1>3 DEF TypeOK, Texts
<1>5. \A d \in Devices : /\ work[d].pc = "idle" /\ work[d].todo = <<>> /\ work[d].at = 0 /\ work[d].cursor = 0
                         /\ cursor[d] = 0 /\ versions[d] = [p \in Paths |-> 0]
                         /\ manifest[d] = NoFiles /\ kept[d] = NoFiles
  BY <1>1 DEF Resting
<1>6. \A p \in Paths : Current(p) = Missing /\ Version(p) = 0 /\ NoFiles[p] = Missing /\ last[p] = 0
  BY <1>1 DEF Current, Version, NoFiles
<1>7. Bounds
  BY <1>1, <1>5, <1>6 DEF Bounds
<1>8. EditsKept
  BY <1>1 DEF EditsKept
<1>9. ASSUME NEW d \in Devices
      PROVE  InCycle(d)
  <2>1. Shape(d)
    BY <1>5, NothingToDo DEF Shape, Holding, Beaten, At
  <2>2. VersionsCover(d)
    BY <1>5, <1>6 DEF VersionsCover, Covers, Pushing, Beaten, Receiving, At
  <2>3. FilesFollow(d)
    BY <1>5, <1>6 DEF FilesFollow, Pushing, Beaten, Receiving, At
  <2>4. EditsHeld(d)
    BY <1>2, <1>5, <1>6 DEF EditsHeld, Pushing, Holding, Beaten, Receiving, At
  <2> QED  BY <2>1, <2>2, <2>3, <2>4 DEF InCycle
<1> QED  BY <1>4, <1>7, <1>8, <1>9 DEF IInv

LEMMA Stepwise == IInv /\ Next => IInv'
<1> SUFFICES ASSUME IInv, Next
             PROVE  IInv'
  OBVIOUS
<1>1. /\ TypeOK /\ Bounds /\ EditsKept
      /\ \A d \in Devices : Shape(d) /\ VersionsCover(d) /\ FilesFollow(d) /\ EditsHeld(d)
  BY DEF IInv, InCycle
<1>2. PICK d \in Devices : Step(d)
  BY NextSteps
<1>3. UNCHANGED env
  BY NextSteps
<1>4. TypeOK' /\ ServerGrows /\ Others(d) /\ Marks
  BY <1>1, <1>2, <1>3, StepTypes
<1>5. Bounds' /\ \A e \in Devices : Shape(e)'
  BY <1>1, <1>2, <1>3, StepBounds
<1>6. VersionsCover(d)' /\ FilesFollow(d)' /\ EditsHeld(d)'
  BY <1>1, <1>2, <1>3, StepVersions, StepFiles, StepEdits
<1>7. ASSUME NEW e \in Devices \ {d}
      PROVE  VersionsCover(e)' /\ FilesFollow(e)' /\ EditsHeld(e)'
  <2>1. /\ work'[e] = work[e] /\ disk'[e] = disk[e] /\ manifest'[e] = manifest[e] /\ kept'[e] = kept[e]
        /\ versions'[e] = versions[e] /\ cursor'[e] = cursor[e] /\ raced'[e] = raced[e]
    BY <1>4 DEF Others
  <2>2. Beaten(e) => Job(e).from \in Paths
    BY <1>1, JobShape DEF Shape
  <2>3. VersionsCover(e)'
    BY <1>1, <1>4, <2>1, VersionsStay
  <2>4. FilesFollow(e)'
    BY <1>1, <1>4, <2>1, <2>2, FilesStay
  <2>5. EditsHeld(e)'
    BY <1>1, <1>4, <2>1, EditsStay
  <2> QED  BY <2>3, <2>4, <2>5
<1>8. EditsKept'
  BY <1>1, <1>2, <1>3, StepEditsKept
<1>9. \A e \in Devices : InCycle(e)'
  BY <1>5, <1>6, <1>7 DEF InCycle
<1> QED  BY <1>4, <1>5, <1>8, <1>9 DEF IInv

LEMMA Stuttering == IInv /\ UNCHANGED vars => IInv'
<1> SUFFICES ASSUME IInv, UNCHANGED vars
             PROVE  IInv'
  OBVIOUS
<1>1. /\ hist' = hist /\ last' = last /\ seq' = seq /\ disk' = disk /\ manifest' = manifest /\ kept' = kept
      /\ versions' = versions /\ cursor' = cursor /\ raced' = raced /\ work' = work /\ made' = made /\ dropped' = dropped
      /\ exposed' = exposed /\ astray' = astray /\ tidied' = tidied /\ faults' = faults /\ env' = env
  BY DEF vars, server, stored, world
<1>2. TypeOK' /\ Bounds' /\ (Durable = Durable') /\ ServerGrows /\ Marks
  <2>1. TypeOK' /\ Bounds'
    BY <1>1 DEF IInv, TypeOK, Bounds
  <2>2. ServerGrows
    BY <1>1, NoMutation DEF IInv, server
  <2> QED  BY <1>1, <2>1, <2>2 DEF Durable, InHistory, Marks
<1>3. EditsKept'
  BY <1>1, <1>2 DEF IInv, EditsKept
<1>4. ASSUME NEW e \in Devices
      PROVE  InCycle(e)'
  <2>1. Shape(e)'
    BY <1>1 DEF IInv, InCycle, Shape, Holding, Beaten, At, Job
  <2>2. Beaten(e) => Job(e).from \in Paths
    BY JobShape DEF IInv, InCycle, Shape
  <2>3. VersionsCover(e)'
    BY <1>1, <1>2, VersionsStay DEF IInv, InCycle
  <2>4. FilesFollow(e)'
    BY <1>1, <1>2, <2>2, FilesStay DEF IInv, InCycle
  <2>5. EditsHeld(e)'
    BY <1>1, <1>2, EditsStay DEF IInv, InCycle
  <2> QED  BY <2>1, <2>3, <2>4, <2>5 DEF InCycle
<1> QED  BY <1>2, <1>3, <1>4 DEF IInv

LEMMA Inductive == Spec => []IInv
<1>1. Init => IInv
  BY Initially
<1>2. IInv /\ [Next]_vars => IInv'
  BY Stepwise, Stuttering
<1> QED  BY <1>1, <1>2, PTL DEF Spec

----------------------------------------------------------------------------
(***************************************************************************)
(* What the invariant gives                                                *)
(***************************************************************************)

\* A device that rests, has nothing to push and has read the whole feed holds the
\* server's files at every path that met none of the hazards `astray` names and whose
\* latest change did not race an answer of the feed: no order of cycles, conflicts,
\* lost answers, failures and crashes on any number of devices makes the snapshot of
\* Manifest::diff hide any other difference from the server.
THEOREM OnlyAstrayDiffer == Spec => []AstrayOnly
<1>1. IInv => AstrayOnly
  <2> SUFFICES ASSUME IInv, NEW d \in Devices, Settled(d), NEW p \in Paths \ astray, ~Raced(d, p)
               PROVE  Agree(d, p)
    BY DEF AstrayOnly
  <2>1. last[p] \in Nat /\ last[p] <= cursor[d] /\ cursor[d] \in Nat /\ last[p] \notin raced[d]
    BY DEF IInv, TypeOK, Bounds, Settled, Raced
  <2>2. last[p] \in Reach(d)
    BY <2>1 DEF Reach
  <2>3. manifest[d][p] = Current(p)
    BY <2>2 DEF IInv, InCycle, FilesFollow, Due
  <2> QED  BY <2>3 DEF Settled, Agree
<1> QED  BY <1>1, Inductive, PTL

\* Whatever the cursor has passed, but for changes that raced an answer of the feed,
\* sync.json has the version of: the engine's versions, forgotten by moves, failed
\* cycles and swallowed conflicts, never fall behind what the feed still delivers, so
\* the race of the feed's two statements is all that can leave a note conflicting
\* for ever.
THEOREM VersionsKeepUp == Spec => []CursorCovers
<1>1. IInv => CursorCovers
  <2> SUFFICES ASSUME IInv, NEW d \in Devices, NEW p \in Paths
               PROVE  IF last[p] <= cursor[d] /\ ~Raced(d, p)
                        THEN versions[d][p] = Version(p)
                        ELSE versions[d][p] <= Version(p)
    BY DEF CursorCovers
  <2>1. Covers(versions[d], Reach(d))
    BY DEF IInv, InCycle, VersionsCover
  <2>2. last[p] <= cursor[d] /\ ~Raced(d, p) => last[p] \in Reach(d)
    <3>1. last[p] \in Nat /\ cursor[d] \in Nat
      BY DEF IInv, TypeOK
    <3> QED  BY <3>1 DEF Reach, Raced
  <2> QED  BY <2>1, <2>2 DEF Covers
<1> QED  BY <1>1, Inductive, PTL

\* An edit its user did not delete is in a device's file or in the server's history,
\* unless it met one of the hazards `exposed` names: merges, copies, overwriting
\* pulls, faults and crashes in any order lose nothing else.
THEOREM EditsSurvive == Spec => []LostOnlyExposed
<1>1. IInv => LostOnlyExposed
  <2> SUFFICES ASSUME IInv, NEW e \in (1 .. made) \ (dropped \cup exposed)
               PROVE  Kept(e)
    BY DEF LostOnlyExposed
  <2>1. e \in InHistory \/ \E d \in Devices, p \in Paths : e \in Text(disk[d][p])
    BY DEF IInv, EditsKept, Durable
  <2> QED  BY <2>1 DEF InHistory, Kept
<1> QED  BY <1>1, Inductive, PTL

=============================================================================
