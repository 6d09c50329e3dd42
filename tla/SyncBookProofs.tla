--------------------------- MODULE SyncBookProofs ---------------------------
(***************************************************************************)
(* A book in step, proved for any number of devices, conflict copies,      *)
(* choices and faults, whatever the environment.                           *)
(*                                                                         *)
(* Keys.  The server takes a version of booklet.json only from a device    *)
(* that names the one before.  Whoever knows the latest version holds all  *)
(* its keys: it sent them, merged them in, or its file was replaced by     *)
(* them, and what a file loses later its user deleted, broke or wrote over *)
(* (KeysHeld).  So no version that gets through lacks a key.               *)
(*                                                                         *)
(* Choices.  A choice is durable once it is in the history.  While a cycle *)
(* runs, a file with choices that are not durable waits to be pushed or is *)
(* in the worker's hands (ChoicesHeld); what overwrites a file has all its *)
(* choices or comes when they are durable.  The dialog overwrites without  *)
(* looking: what it shows makes up for what its write drops (DialogHolds). *)
(***************************************************************************)
EXTENDS SyncBook, TLAPS

(***************************************************************************)
(* The invariant                                                           *)
(***************************************************************************)
Holding(d) == work[d].pc \in {"send", "lost", "merge", "resend", "copy", "sendcopy"}

\* It has read the rows of the feed.
Receiving(d) == work[d].pc \in {"rows", "apply"}

\* The worker has its hands on booklet.json, in one of these steps.
OnMeta(d, pcs) == work[d].pc \in pcs /\ work[d].path = Meta

\* Folders have no content, and are never read or copied.
Shape(d) ==
    /\ Holding(d) => work[d].path # Folder
    /\ At(d, "sendcopy") => work[d].copy \in Copies
    /\ disk[d][Folder] \in {Blank, Missing}
    /\ \A item \in work[d].page : item.path = Folder => item.content \in {Blank, Missing}

\* A reader of version n of booklet.json who holds `keys` has all that is to have:
\* there is a later version, or no key is missing.
Reads(n, keys) ==
    /\ n <= Version(Meta)
    /\ n = Version(Meta) => KeysOf(Current(Meta)) \subseteq keys \cup unread

\* What d knows of booklet.json: its confirmed version, the worker's, what the worker
\* is about to send, the version it lost to, the page.
KeysHeld(d) ==
    LET w == work[d]
        keys == KeysOf(disk[d][Meta])
    IN  /\ Reads(versions[d][Meta], keys)
        /\ w.pc # "idle" => Reads(w.vers[Meta], keys) /\ versions[d][Meta] <= w.vers[Meta]
        /\ OnMeta(d, {"send", "resend"}) => KeysOf(w.local) \subseteq keys \cup unread
        /\ OnMeta(d, {"send"}) => Reads(w.vers[Meta], KeysOf(w.local))
        /\ OnMeta(d, {"lost", "merge", "resend", "copy"}) =>
              w.vers[Meta] < w.version /\ w.version <= Version(Meta)
        /\ OnMeta(d, {"lost", "merge", "copy"}) /\ w.version = Version(Meta) => w.remote = Current(Meta)
        /\ OnMeta(d, {"resend"}) /\ IsObject(w.local) => Reads(w.version, KeysOf(w.local))
        /\ Receiving(d) => \A item \in w.page : item.path = Meta =>
              /\ versions[d][Meta] <= item.version /\ item.version <= Version(Meta)
              /\ item.version = Version(Meta) => item.content = Current(Meta)

\* Choices that are in the history, or excused, stay so.
InHistory == UNION {UNION {Held(hist[p][i]) : i \in DOMAIN hist[p]} : p \in Paths}
Durable == InHistory \cup excused

\* The paths that wait to be pushed.
Puts(todo) == {c.path : c \in {e \in todo : e.op = "put"}}

\* While a cycle runs, a file whose choices are not durable waits to be pushed or is
\* in the worker's hands.
Waiting(w) ==
    Puts(w.todo) \cup CASE w.pc = "sendcopy" -> {w.copy}
                       [] w.pc \in {"send", "lost", "merge", "resend", "copy"} -> {w.path}
                       [] OTHER -> {}

\* A worker w over the files f, where the history holds H, and D is durable.
Carries(w, f, H, D) ==
    /\ w.pc \in {"pull", "rows", "apply"} => w.todo = {}
    /\ w.pc # "idle" => \A p \in Paths \ Waiting(w) : Held(f[p]) \subseteq D
    /\ w.pc \in {"send", "merge", "resend", "copy"} => Held(f[w.path]) \subseteq Held(w.local) \cup D
    /\ w.pc = "sendcopy" => Held(f[w.copy]) \subseteq Held(w.local) \cup D
    /\ w.pc \in {"lost", "merge", "copy"} => Held(w.remote) \subseteq H
    /\ \A item \in w.page : Held(item.content) \subseteq H

\* What was pushed is durable; what was not is carried.
ChoicesHeld(d) ==
    /\ \A p \in Paths : Held(manifest[d][p]) \subseteq Durable
    /\ Carries(work[d], disk[d], InHistory, Durable)

\* What the dialog g is going to write makes up for what it will overwrite in the
\* file, and what the worker w has read of the file for what it will write.
Covers(g, w, file, D) ==
    /\ g.pc = "closed" => g.color = 0 /\ g.shelf = 0
    /\ g.pc # "closed" => /\ Shown(file, "color") \in {0, g.color} \cup D
                           /\ Shown(file, "shelf") \in {0, g.shelf} \cup D
    /\ g.pc = "write" => Shown(file, "own") \in {0, Shown(g.existing, "own")} \cup D
    /\ w.pc = "merge" /\ w.path = Meta =>
          \A key \in Keys : Shown(w.local, key) \in {0, Shown(file, key)} \cup D

DialogHolds(d) == Covers(dialog[d], work[d], disk[d][Meta], Durable)

\* The choices a device has, in its files and in its dialog.
Around(d) == {dialog[d].color, dialog[d].shelf} \cup UNION {Held(disk[d][p]) : p \in Paths}

\* Nothing chosen is gone: this is what ChoicesKept says, of a stronger "kept".
ChoicesFound == \A c \in 1 .. made : c \in Durable \/ \E d \in Devices : c \in Around(d)

\* No version of the folder has content.
FoldersBare == hist[Folder] \in Seq({Blank, Missing})

(***************************************************************************)
(* JSON                                                                    *)
(***************************************************************************)
LEMMA ObjectsShape ==
    /\ \A c \in Objects : /\ c \in Files /\ IsObject(c) /\ KeysOf(c) = DOMAIN c /\ DOMAIN c \subseteq Keys
                          /\ \A k \in DOMAIN c : c[k] \in 0 .. MaxChoices
    /\ \A c \in Files : IsObject(c) => c \in Objects
    /\ \A c : ~IsObject(c) => KeysOf(c) = {}
    /\ ~IsObject(Missing) /\ ~IsObject(Blank) /\ ~IsObject(Mangled)
    /\ {Missing, Blank, Mangled} \subseteq Files
<1>1. ASSUME NEW c \in Objects
      PROVE  /\ c \in Files /\ IsObject(c) /\ KeysOf(c) = DOMAIN c /\ DOMAIN c \subseteq Keys
             /\ \A k \in DOMAIN c : c[k] \in 0 .. MaxChoices
  <2>1. c \in Files /\ IsObject(c)
    BY ContentsAssumption DEF Files, Contents, IsObject
  <2>2. PICK K \in SUBSET Keys : c \in [K -> 0 .. MaxChoices]
    BY DEF Objects
  <2> QED  BY <2>1, <2>2 DEF KeysOf
<1>2. \A c \in Files : IsObject(c) => c \in Objects
  BY DEF Files, Contents, IsObject
<1> QED  BY <1>1, <1>2 DEF KeysOf, IsObject, Files, Contents

\* One object laid over another.
LEMMA LaidOver ==
    ASSUME NEW c \in Objects, NEW e \in Objects
    PROVE  /\ Over(c, e) \in Objects /\ DOMAIN (Over(c, e)) = DOMAIN c \cup DOMAIN e
           /\ \A k \in DOMAIN c \cup DOMAIN e : (Over(c, e))[k] = IF k \in DOMAIN c THEN c[k] ELSE e[k]
<1>1. /\ DOMAIN (Over(c, e)) = DOMAIN c \cup DOMAIN e
      /\ \A k \in DOMAIN c \cup DOMAIN e : (Over(c, e))[k] = IF k \in DOMAIN c THEN c[k] ELSE e[k]
  BY DEF Over
<1>2. Over(c, e) \in [DOMAIN c \cup DOMAIN e -> 0 .. MaxChoices]
  <2>1. \A k \in DOMAIN c \cup DOMAIN e : (Over(c, e))[k] \in 0 .. MaxChoices
    BY <1>1, ObjectsShape
  <2> QED  BY <1>1, <2>1 DEF Over
<1>3. DOMAIN c \cup DOMAIN e \in SUBSET Keys
  BY ObjectsShape
<1> QED  BY <1>1, <1>2, <1>3 DEF Objects

LEMMA BoundShape ==
    ASSUME NEW x \in Files, NEW c \in 0 .. MaxChoices, NEW s \in 0 .. MaxChoices
    PROVE  /\ Bound(x, c, s) \in Objects /\ DOMAIN Bound(x, c, s) = {"color", "shelf"} \cup KeysOf(x)
           /\ Bound(x, c, s)["color"] = c /\ Bound(x, c, s)["shelf"] = s
           /\ \A k \in KeysOf(x) \ {"color", "shelf"} : Bound(x, c, s)[k] = x[k]
<1> DEFINE b == [color |-> c, shelf |-> s]
<1>1. b \in [{"color", "shelf"} -> 0 .. MaxChoices] /\ b["color"] = c /\ b["shelf"] = s
  OBVIOUS
<1>2. b \in Objects
  <2>1. {"color", "shelf"} \in SUBSET Keys
    BY DEF Keys
  <2> QED  BY <1>1, <2>1 DEF Objects
<1>3. <<>> \in Objects
  BY DEF Objects
<1> DEFINE y == IF IsObject(x) THEN x ELSE <<>>
<1>4. y \in Objects /\ DOMAIN y = KeysOf(x) /\ (\A k \in KeysOf(x) : y[k] = x[k])
  BY <1>3, ObjectsShape DEF KeysOf
<1>5. Bound(x, c, s) = Over(b, y)
  BY DEF Bound
<1>6. /\ Over(b, y) \in Objects /\ DOMAIN Over(b, y) = DOMAIN b \cup DOMAIN y
      /\ \A k \in DOMAIN b \cup DOMAIN y : Over(b, y)[k] = IF k \in DOMAIN b THEN b[k] ELSE y[k]
  <2> HIDE DEF b, y
  <2> QED  BY <1>2, <1>4, LaidOver
<1>7. DOMAIN b = {"color", "shelf"}
  BY <1>1
<1> HIDE DEF b, y
<1> QED  BY <1>1, <1>4, <1>5, <1>6, <1>7

LEMMA MergedShape ==
    ASSUME NEW x \in Files, NEW y \in Files
    PROVE  LET m == MergeBookletJson(x, y)
           IN  /\ m \in Files /\ IsObject(m) = IsObject(x)
               /\ KeysOf(m) = KeysOf(x) \cup (IF IsObject(x) THEN KeysOf(y) ELSE {})
               /\ \A k \in KeysOf(m) : m[k] = IF k \in KeysOf(x) THEN x[k] ELSE y[k]
<1>1. CASE IsObject(x) /\ IsObject(y)
  <2>1. x \in Objects /\ y \in Objects
    BY <1>1, ObjectsShape
  <2>2. MergeBookletJson(x, y) = Over(x, y)
    BY <1>1 DEF MergeBookletJson
  <2> DEFINE m == Over(x, y)
  <2>3. /\ m \in Objects /\ DOMAIN m = DOMAIN x \cup DOMAIN y
        /\ \A k \in DOMAIN x \cup DOMAIN y : m[k] = IF k \in DOMAIN x THEN x[k] ELSE y[k]
    BY <2>1, LaidOver
  <2> HIDE DEF m
  <2>4. /\ m \in Files /\ IsObject(m)
        /\ KeysOf(m) = DOMAIN m /\ KeysOf(x) = DOMAIN x /\ KeysOf(y) = DOMAIN y
    BY <2>1, <2>3, ObjectsShape
  <2> QED  BY <1>1, <2>2, <2>3, <2>4 DEF m
<1>2. CASE ~(IsObject(x) /\ IsObject(y))
  BY <1>2, ObjectsShape DEF MergeBookletJson
<1> QED  BY <1>1, <1>2

\* What a file shows, and what it holds.
LEMMA ShownHeld ==
    /\ \A c, key : Shown(c, key) \in Held(c) \cup {0}
    /\ \A c \in Files : \A v \in Held(c) : \E key \in Keys : v = Shown(c, key) /\ v # 0
    /\ \A c \in Files : \A key \in Keys : Shown(c, key) \in 0 .. MaxChoices
    /\ \A c \in Files : Held(c) \subseteq Picks
    /\ Held(Missing) = {} /\ Held(Blank) = {} /\ Held(Mangled) = {}
<1>1. \A c, key : Shown(c, key) \in Held(c) \cup {0}
  BY DEF Shown, Held
<1>2. ASSUME NEW c \in Files
      PROVE  /\ KeysOf(c) \subseteq Keys /\ \A k \in KeysOf(c) : c[k] \in 0 .. MaxChoices
             /\ \A v \in Held(c) : \E key \in Keys : v = Shown(c, key) /\ v # 0
  <2>1. KeysOf(c) \subseteq Keys /\ \A k \in KeysOf(c) : c[k] \in 0 .. MaxChoices
    BY ObjectsShape
  <2> QED  BY <2>1 DEF Held, Shown
<1>3. ASSUME NEW c \in Files
      PROVE  /\ \A key \in Keys : Shown(c, key) \in 0 .. MaxChoices
             /\ Held(c) \subseteq Picks
  <2>1. MaxChoices \in Nat
    BY NamesAssumption
  <2> QED  BY <1>2, <2>1 DEF Shown, Held, Picks
<1>4. Held(Missing) = {} /\ Held(Blank) = {} /\ Held(Mangled) = {}
  BY ObjectsShape DEF Held
<1> QED  BY <1>1, <1>2, <1>3, <1>4

----------------------------------------------------------------------------
(***************************************************************************)
(* The server                                                              *)
(***************************************************************************)

\* Versions are only added, and what the users gave up stays given up.
Grows ==
    /\ Version(Meta) \in Nat /\ Version(Meta)' \in Nat /\ Version(Meta) <= Version(Meta)'
    /\ Version(Meta)' = Version(Meta) => Current(Meta)' = Current(Meta)
    /\ InHistory \subseteq InHistory'

\* Files held by the server.
ServerOK == /\ hist \in [Paths -> Seq(Files)] /\ last \in [Paths -> Nat] /\ seq \in Nat
            /\ hist[Folder] \in Seq({Blank, Missing})

LEMMA CurrentShape ==
    ASSUME ServerOK, NEW p \in Paths
    PROVE  /\ Version(p) \in Nat /\ Current(p) \in Files /\ Held(Current(p)) \subseteq InHistory
           /\ Current(Folder) \in {Blank, Missing}
<1>1. /\ Version(p) \in Nat /\ Version(p) = Len(hist[p]) /\ DOMAIN hist[p] = 1 .. Version(p)
      /\ \A i \in 1 .. Version(p) : hist[p][i] \in Files
  BY DEF ServerOK, Version
<1>2. Current(p) \in Files /\ Held(Current(p)) \subseteq InHistory
  <2>1. CASE hist[p] = <<>>
    <3>1. Current(p) = Missing
      BY <2>1 DEF Current
    <3> QED  BY <3>1, ObjectsShape, ShownHeld
  <2>2. CASE hist[p] # <<>>
    <3>1. Version(p) \in DOMAIN hist[p] /\ Current(p) = hist[p][Version(p)]
      BY <2>2 DEF ServerOK, Current, Last, Version
    <3> QED  BY <1>1, <3>1 DEF InHistory
  <2> QED  BY <2>1, <2>2
<1>4. Current(Folder) \in {Blank, Missing}
  <2>1. CASE hist[Folder] = <<>>
    BY <2>1 DEF Current
  <2>2. CASE hist[Folder] # <<>>
    BY <2>2 DEF ServerOK, Current, Last
  <2> QED  BY <2>1, <2>2
<1> QED  BY <1>1, <1>2, <1>4

LEMMA Mutation ==
    ASSUME ServerOK, NEW p \in Paths, NEW f \in Files, p = Folder => f \in {Blank, Missing}, Applied(p, f)
    PROVE  /\ ServerOK' /\ Grows /\ InHistory' = InHistory \cup Held(f)
           /\ Version(p)' = Version(p) + 1 /\ Current(p)' = f
           /\ p # Meta => Version(Meta)' = Version(Meta) /\ Current(Meta)' = Current(Meta)
<1>1. /\ hist \in [Paths -> Seq(Files)] /\ last \in [Paths -> Nat] /\ seq \in Nat
      /\ hist[Folder] \in Seq({Blank, Missing}) /\ Folder \in Paths /\ Meta \in Paths
  BY DEF ServerOK, Paths
<1>2. /\ hist' = [hist EXCEPT ![p] = Append(hist[p], f)]
      /\ last' = [last EXCEPT ![p] = seq + 1] /\ seq' = seq + 1
  BY DEF Applied
<1>3. Append(hist[p], f) \in Seq(Files)
  BY <1>1
<1>4. hist'[p] = Append(hist[p], f) /\ \A q \in Paths \ {p} : hist'[q] = hist[q]
  BY <1>1, <1>2
<1>5. ServerOK'
  <2>1. hist'[Folder] \in Seq({Blank, Missing})
    <3>1. CASE p = Folder
      <4> DEFINE B == {Blank, Missing}
      <4>1. f \in B /\ hist[Folder] \in Seq(B) /\ hist'[Folder] = Append(hist[Folder], f)
        BY <1>1, <1>4, <3>1
      <4> HIDE DEF B
      <4>2. hist'[Folder] \in Seq(B)
        BY <4>1
      <4> QED  BY <4>2 DEF B
    <3>2. CASE p # Folder
      BY <1>1, <1>4, <3>2
    <3> QED  BY <3>1, <3>2
  <2> QED  BY <1>1, <1>2, <1>3, <2>1 DEF ServerOK
<1>6. /\ Len(hist'[p]) = Len(hist[p]) + 1 /\ Len(hist[p]) \in Nat
      /\ DOMAIN hist'[p] = DOMAIN hist[p] \cup {Len(hist[p]) + 1}
      /\ hist'[p] # <<>> /\ hist'[p][Len(hist[p]) + 1] = f
      /\ \A i \in DOMAIN hist[p] : hist'[p][i] = hist[p][i]
  BY <1>1, <1>4
<1>7. Version(p)' = Version(p) + 1 /\ Current(p)' = f
  BY <1>6 DEF Version, Current, Last
<1>8. InHistory' = InHistory \cup Held(f)
  <2>1. ASSUME NEW v \in InHistory'
        PROVE  v \in InHistory \cup Held(f)
    <3>1. PICK q \in Paths : \E i \in DOMAIN hist'[q] : v \in Held(hist'[q][i])
      BY DEF InHistory
    <3>2. CASE q = p
      <4>1. PICK i \in DOMAIN hist[p] \cup {Len(hist[p]) + 1} : v \in Held(hist'[p][i])
        BY <1>6, <3>1, <3>2
      <4>2. CASE i \in DOMAIN hist[p]
        BY <1>6, <4>1, <4>2 DEF InHistory
      <4>3. CASE i = Len(hist[p]) + 1
        BY <1>6, <4>1, <4>3
      <4> QED  BY <4>1, <4>2, <4>3
    <3>3. CASE q # p
      BY <1>4, <3>1, <3>3 DEF InHistory
    <3> QED  BY <3>2, <3>3
  <2>2. Held(f) \subseteq InHistory'
    BY <1>6 DEF InHistory
  <2>3. ASSUME NEW q \in Paths, NEW i \in DOMAIN hist[q]
        PROVE  Held(hist[q][i]) \subseteq InHistory'
    <3>1. i \in DOMAIN hist'[q] /\ hist'[q][i] = hist[q][i]
      BY <1>4, <1>6
    <3> QED  BY <3>1 DEF InHistory
  <2>4. InHistory \subseteq InHistory'
    BY <2>3 DEF InHistory
  <2> QED  BY <2>1, <2>2, <2>4
<1>9. p # Meta => Version(Meta)' = Version(Meta) /\ Current(Meta)' = Current(Meta)
  BY <1>1, <1>4 DEF Version, Current
<1>10. Version(Meta) \in Nat /\ Version(p) \in Nat
  BY <1>1 DEF Version
<1>11. Grows
  BY <1>7, <1>8, <1>9, <1>10 DEF Grows
<1> QED  BY <1>5, <1>7, <1>8, <1>9, <1>11

LEMMA NoMutation ==
    ASSUME ServerOK, UNCHANGED server
    PROVE  /\ ServerOK' /\ Grows /\ InHistory' = InHistory
           /\ Version(Meta)' = Version(Meta) /\ Current(Meta)' = Current(Meta)
<1>1. hist' = hist /\ last' = last /\ seq' = seq /\ Meta \in Paths
  BY DEF server, Paths
<1>2. ServerOK' /\ InHistory' = InHistory /\ Version(Meta)' = Version(Meta) /\ Current(Meta)' = Current(Meta)
  BY <1>1 DEF ServerOK, InHistory, Version, Current
<1> QED  BY <1>1, <1>2, CurrentShape DEF Grows

----------------------------------------------------------------------------
(***************************************************************************)
(* What a step leaves to the devices it is not about                       *)
(***************************************************************************)

\* Keys are given up, and choices excused, for good.
Marks == unread \subseteq unread' /\ excused \subseteq excused'

LEMMA ReadsStay ==
    ASSUME Grows, Marks, NEW n \in Nat, NEW keys, NEW more, Reads(n, keys), keys \subseteq more \cup unread'
    PROVE  /\ n <= Version(Meta)'
           /\ n = Version(Meta)' => KeysOf(Current(Meta)') \subseteq more \cup unread'
<1>1. /\ Version(Meta) \in Nat /\ Version(Meta)' \in Nat /\ Version(Meta) <= Version(Meta)'
      /\ n <= Version(Meta) /\ unread \subseteq unread'
  BY DEF Grows, Marks, Reads
<1>2. n = Version(Meta)' => n = Version(Meta) /\ Current(Meta)' = Current(Meta)
  BY <1>1 DEF Grows
<1>3. n = Version(Meta) => KeysOf(Current(Meta)) \subseteq keys \cup unread
  BY DEF Reads
<1> QED  BY <1>1, <1>2, <1>3

LEMMA DurableStays == ASSUME Grows, Marks PROVE Durable \subseteq Durable'
BY DEF Grows, Marks, Durable

\* The state of one device.
Same(e) == /\ work'[e] = work[e] /\ disk'[e] = disk[e] /\ manifest'[e] = manifest[e]
           /\ versions'[e] = versions[e] /\ dialog'[e] = dialog[e]

LEMMA ShapeStays ==
    ASSUME NEW e \in Devices, Shape(e), work'[e] = work[e], disk'[e] = disk[e]
    PROVE  Shape(e)'
BY DEF Shape, Holding, At

LEMMA KeysStay ==
    ASSUME TypeOK, Grows, Marks, NEW e \in Devices, KeysHeld(e),
           work'[e] = work[e], disk'[e] = disk[e], versions'[e] = versions[e]
    PROVE  KeysHeld(e)'
<1>1. Meta \in Paths
  BY DEF Paths
<1>2. /\ versions[e][Meta] \in Nat /\ work[e].vers[Meta] \in Nat /\ work[e].version \in Nat
      /\ \A item \in work[e].page : item.version \in Nat
  BY <1>1 DEF TypeOK, Worker, Item
<1>3. /\ Version(Meta) \in Nat /\ Version(Meta)' \in Nat /\ Version(Meta) <= Version(Meta)'
      /\ unread \subseteq unread'
      /\ Version(Meta)' = Version(Meta) => Current(Meta)' = Current(Meta)
  BY DEF Grows, Marks
<1>4. \A keys, n : n \in Nat /\ Reads(n, keys) =>
         n <= Version(Meta)' /\ (n = Version(Meta)' => KeysOf(Current(Meta)') \subseteq keys \cup unread')
  BY ReadsStay
<1>5. /\ Reads(versions[e][Meta], KeysOf(disk[e][Meta]))'
      /\ work[e].pc # "idle" => Reads(work[e].vers[Meta], KeysOf(disk[e][Meta]))'
      /\ OnMeta(e, {"send"}) => Reads(work[e].vers[Meta], KeysOf(work[e].local))'
      /\ OnMeta(e, {"resend"}) /\ IsObject(work[e].local) => Reads(work[e].version, KeysOf(work[e].local))'
  BY <1>2, <1>4 DEF KeysHeld, Reads
<1>6. OnMeta(e, {"lost", "merge", "resend", "copy"}) =>
         work[e].vers[Meta] < work[e].version /\ work[e].version <= Version(Meta)'
  BY <1>2, <1>3 DEF KeysHeld
<1>7. OnMeta(e, {"lost", "merge", "copy"}) /\ work[e].version = Version(Meta)' => work[e].remote = Current(Meta)'
  <2>1. OnMeta(e, {"lost", "merge", "copy"}) => work[e].version <= Version(Meta)
    BY DEF KeysHeld, OnMeta
  <2> QED  BY <1>2, <1>3, <2>1 DEF KeysHeld
<1>8. Receiving(e) => \A item \in work[e].page : item.path = Meta =>
         /\ versions[e][Meta] <= item.version /\ item.version <= Version(Meta)'
         /\ item.version = Version(Meta)' => item.content = Current(Meta)'
  BY <1>2, <1>3 DEF KeysHeld
<1> QED  BY <1>3, <1>5, <1>6, <1>7, <1>8 DEF KeysHeld, OnMeta, Receiving

LEMMA ChoicesStay ==
    ASSUME Grows, Marks, NEW e \in Devices, ChoicesHeld(e),
           work'[e] = work[e], disk'[e] = disk[e], manifest'[e] = manifest[e]
    PROVE  ChoicesHeld(e)'
<1>1. Durable \subseteq Durable' /\ InHistory \subseteq InHistory'
  BY DurableStays DEF Grows
<1>2. Carries(work[e], disk[e], InHistory', Durable')
  BY <1>1 DEF ChoicesHeld, Carries
<1> QED  BY <1>1, <1>2 DEF ChoicesHeld

LEMMA DialogStays ==
    ASSUME Grows, Marks, NEW e \in Devices, DialogHolds(e),
           work'[e] = work[e], disk'[e] = disk[e], dialog'[e] = dialog[e]
    PROVE  DialogHolds(e)'
<1>1. Durable \subseteq Durable'
  BY DurableStays
<1>2. Covers(dialog[e], work[e], disk[e][Meta], Durable')
  BY <1>1 DEF DialogHolds, Covers
<1> QED  BY <1>2 DEF DialogHolds

----------------------------------------------------------------------------
(***************************************************************************)
(* What a step makes of its device                                         *)
(***************************************************************************)

\* The worker is w now, the files are t; the others go on where they are.
Turns(d, w) == /\ w \in Worker /\ work' \in [Devices -> Worker] /\ work'[d] = w
               /\ \A e \in Devices \ {d} : work'[e] = work[e]

Rewrites(d, t) == /\ t \in [Paths -> Files] /\ disk' \in [Devices -> [Paths -> Files]] /\ disk'[d] = t
                  /\ \A e \in Devices \ {d} : disk'[e] = disk[e]

Pushing(todo, vers) == [Resting EXCEPT !.pc = "push", !.vers = vers, !.todo = todo]

LEMMA PathsShape == Folder \in Paths /\ Meta \in Paths /\ Copies \subseteq Paths /\ Meta \notin Copies /\ Folder \notin Copies
BY NamesAssumption DEF Paths, Folder, Meta

LEMMA TypesOfDevice ==
    ASSUME TypeOK, NEW d \in Devices
    PROVE  /\ work[d] \in Worker /\ work[d].vers \in [Paths -> Nat] /\ work[d].version \in Nat
           /\ work[d].todo \subseteq Change /\ work[d].page \subseteq Item
           /\ work[d].path \in Paths /\ work[d].local \in Files /\ work[d].remote \in Files
           /\ work[d].copy \in Paths /\ work[d].at \in Nat /\ work[d].cursor \in Nat
           /\ disk[d] \in [Paths -> Files] /\ manifest[d] \in [Paths -> Files]
           /\ versions[d] \in [Paths -> Nat] /\ cursor[d] \in Nat /\ raced[d] \subseteq Nat
           /\ dialog[d] \in Dialog
BY DEF TypeOK, Worker

LEMMA Turning ==
    ASSUME TypeOK, NEW d \in Devices, NEW w \in Worker, work' = [work EXCEPT ![d] = w]
    PROVE  Turns(d, w)
BY DEF TypeOK, Turns

LEMMA Rewriting ==
    ASSUME TypeOK, NEW d \in Devices, NEW t \in [Paths -> Files], disk' = [disk EXCEPT ![d] = t]
    PROVE  Rewrites(d, t)
BY DEF TypeOK, Rewrites

LEMMA RestingShape == Resting \in Worker
<1>1. Missing \in Files /\ 0 \in Nat /\ Folder \in Paths
  BY ObjectsShape, PathsShape
<1> QED  BY <1>1 DEF Resting, Worker

LEMMA ConfirmShape ==
    ASSUME TypeOK, NEW d \in Devices, NEW p \in Paths, NEW n \in Nat
    PROVE  /\ Confirm(d, p, n) \in [Paths -> Nat] /\ Confirm(d, p, n)[p] = n
           /\ \A q \in Paths \ {p} : Confirm(d, p, n)[q] = work[d].vers[q]
BY TypesOfDevice DEF Confirm

LEMMA Finishing ==
    ASSUME TypeOK, NEW d \in Devices, NEW todo \in SUBSET work[d].todo, NEW vers \in [Paths -> Nat],
           Done(d, todo, vers)
    PROVE  Turns(d, Pushing(todo, vers))
<1> DEFINE w == Pushing(todo, vers)
<1>1. todo \subseteq Change
  BY TypesOfDevice
<1>2. w \in Worker
  BY <1>1, RestingShape DEF Worker, Pushing
<1>3. work' = [work EXCEPT ![d] = w]
  BY DEF Done, Pushing
<1> HIDE DEF w
<1>4. Turns(d, w)
  BY <1>2, <1>3, Turning
<1> QED  BY <1>4 DEF w

LEMMA DiffShape ==
    ASSUME NEW old \in [Paths -> Files], NEW new \in [Paths -> Files]
    PROVE  /\ Diff(old, new) \subseteq Change
           /\ \A p \in Paths : new[p] # Missing /\ old[p] # new[p] =>
                 \E c \in Diff(old, new) : c.op = "put" /\ c.path = p
<1>1. /\ Edited(old, new) \subseteq Paths /\ Fresh(old, new) \subseteq Paths /\ Gone(old, new) \subseteq Paths
  BY DEF Edited, Fresh, Gone
<1>2. ASSUME NEW phase \in 1 .. 4, NEW op \in {"put", "delete"}, NEW S \in SUBSET Paths
      PROVE  /\ Changes(phase, op, S) \subseteq Change
             /\ \A p \in S : \E c \in Changes(phase, op, S) : c.op = op /\ c.path = p
  <2>1. ASSUME NEW p \in S
        PROVE  LET c == [phase |-> phase, op |-> op, path |-> p]
               IN  c \in Changes(phase, op, S) /\ c.op = op /\ c.path = p
    BY DEF Changes
  <2>2. Changes(phase, op, S) \subseteq Change
    BY DEF Changes, Change
  <2> QED  BY <2>1, <2>2
<1>3. 1 \in 1 .. 4 /\ 2 \in 1 .. 4 /\ 3 \in 1 .. 4 /\ 4 \in 1 .. 4
  OBVIOUS
<1>4. Diff(old, new) \subseteq Change
  BY <1>1, <1>2, <1>3 DEF Diff
<1>5. ASSUME NEW p \in Paths, new[p] # Missing, old[p] # new[p]
      PROVE  \E c \in Diff(old, new) : c.op = "put" /\ c.path = p
  <2>1. p \in Edited(old, new) \cup (Fresh(old, new) \ Copies) \/ p \in Fresh(old, new) \cap Copies
    BY <1>5 DEF Edited, Fresh
  <2>2. CASE p \in Edited(old, new) \cup (Fresh(old, new) \ Copies)
    <3>1. \E c \in Changes(1, "put", Edited(old, new) \cup (Fresh(old, new) \ Copies)) : c.op = "put" /\ c.path = p
      BY <1>1, <1>2, <1>3, <2>2
    <3> QED  BY <3>1 DEF Diff
  <2>3. CASE p \in Fresh(old, new) \cap Copies
    <3>1. \E c \in Changes(4, "put", Fresh(old, new) \cap Copies) : c.op = "put" /\ c.path = p
      BY <1>1, <1>2, <1>3, <2>3
    <3> QED  BY <3>1 DEF Diff
  <2> QED  BY <2>1, <2>2, <2>3
<1> QED  BY <1>4, <1>5

LEMMA FeedShape ==
    ASSUME ServerOK, NEW since
    PROVE  /\ Feed(since) \subseteq Item
           /\ \A item \in Feed(since) :
                 /\ item.path \in Paths /\ item.version = Version(item.path)
                 /\ item.content = Current(item.path) /\ Held(item.content) \subseteq InHistory
<1>1. ASSUME NEW item \in Feed(since)
      PROVE  /\ item \in Item /\ item.path \in Paths /\ item.version = Version(item.path)
             /\ item.content = Current(item.path) /\ Held(item.content) \subseteq InHistory
  <2>1. PICK p \in Paths : item = [seq |-> last[p], path |-> p, content |-> Current(p), version |-> Version(p)]
    BY DEF Feed
  <2>2. last[p] \in Nat /\ Version(p) \in Nat /\ Current(p) \in Files /\ Held(Current(p)) \subseteq InHistory
    BY CurrentShape DEF ServerOK
  <2> QED  BY <2>1, <2>2 DEF Item
<1> QED  BY <1>1

LEMMA StartCycleDoes ==
    ASSUME TypeOK, NEW d \in Devices, StartCycle(d)
    PROVE  /\ work[d].pc = "idle" /\ Turns(d, Pushing(Diff(manifest[d], disk[d]), versions[d]))
           /\ UNCHANGED <<server, disk, stored, dialog, history, counts>>
<1> DEFINE todo == Diff(manifest[d], disk[d])
           w == Pushing(todo, versions[d])
<1>1. todo \subseteq Change /\ versions[d] \in [Paths -> Nat]
  BY TypesOfDevice, DiffShape
<1>2. work' = [work EXCEPT ![d] = w]
  BY DEF StartCycle, Pushing
<1> HIDE DEF todo
<1>3. w \in Worker
  BY <1>1, RestingShape DEF Worker, Pushing
<1> HIDE DEF w
<1>4. Turns(d, w)
  BY <1>2, <1>3, Turning
<1> QED  BY <1>4 DEF StartCycle, At, w, todo

LEMMA SendFolderDoes ==
    ASSUME TypeOK, NEW d \in Devices, SendFolder(d)
    PROVE  /\ work[d].pc = "push" /\ UNCHANGED <<disk, stored, dialog, history, counts>>
           /\ \E c \in work[d].todo, n \in Nat :
                 /\ c.op = "put" /\ c.path = Folder
                 /\ Turns(d, Pushing(work[d].todo \ {c}, Confirm(d, Folder, n)))
           /\ Applied(Folder, Blank) \/ UNCHANGED server
<1>1. PICK c \in work[d].todo :
         /\ Job(d, c) /\ c.op = "put" /\ c.path = Folder
         /\ \/ Applied(Folder, Blank) /\ Done(d, work[d].todo \ {c}, Confirm(d, Folder, Version(Folder) + 1))
            \/ UNCHANGED server /\ Done(d, work[d].todo \ {c}, Confirm(d, Folder, Version(Folder)))
         /\ UNCHANGED <<disk, stored, dialog, history, counts>>
  BY DEF SendFolder
<1>2. Version(Folder) \in Nat /\ Folder \in Paths /\ work[d].todo \ {c} \in SUBSET work[d].todo
  BY PathsShape DEF TypeOK, Version
<1>3. \A n \in Nat : Confirm(d, Folder, n) \in [Paths -> Nat]
  BY <1>2, ConfirmShape
<1>4. \E n \in Nat : Done(d, work[d].todo \ {c}, Confirm(d, Folder, n))
  BY <1>1, <1>2
<1>5. \E n \in Nat : Turns(d, Pushing(work[d].todo \ {c}, Confirm(d, Folder, n)))
  BY <1>2, <1>3, <1>4, Finishing
<1> QED  BY <1>1, <1>5 DEF Job, At

LEMMA ReadLocalDoes ==
    ASSUME TypeOK, NEW d \in Devices, ReadLocal(d)
    PROVE  /\ work[d].pc = "push" /\ UNCHANGED <<server, disk, stored, dialog, history, counts>>
           /\ \E c \in work[d].todo :
                 /\ c.op = "put" /\ c.path \in Paths \ {Folder} /\ disk[d][c.path] # Missing
                 /\ Turns(d, [work[d] EXCEPT !.pc = "send", !.todo = work[d].todo \ {c},
                                             !.path = c.path, !.local = disk[d][c.path]])
<1>1. PICK c \in work[d].todo :
         /\ Job(d, c) /\ c.op = "put" /\ c.path # Folder /\ disk[d][c.path] # Missing
         /\ work' = [work EXCEPT ![d].pc = "send", ![d].todo = @ \ {c}, ![d].path = c.path,
                                 ![d].local = disk[d][c.path]]
         /\ UNCHANGED <<server, disk, stored, dialog, history, counts>>
  BY DEF ReadLocal
<1> DEFINE f == disk[d][c.path]
           w == [work[d] EXCEPT !.pc = "send", !.todo = work[d].todo \ {c}, !.path = c.path, !.local = f]
<1>2. c.path \in Paths /\ work[d] \in Worker /\ work[d].todo \subseteq Change
  BY TypesOfDevice DEF Change
<1>3. f \in Files
  BY <1>2, TypesOfDevice
<1>4. work' = [work EXCEPT ![d] = w]
  BY <1>1
<1> HIDE DEF f
<1>5. w \in Worker
  BY <1>2, <1>3 DEF Worker
<1> HIDE DEF w
<1>6. Turns(d, w)
  BY <1>4, <1>5, Turning
<1> QED  BY <1>1, <1>2, <1>6 DEF Job, At, w, f

LEMMA SendPutDoes ==
    ASSUME TypeOK, NEW d \in Devices, SendPut(d)
    PROVE  LET p == work[d].path
           IN  /\ work[d].pc = "send" /\ UNCHANGED <<disk, stored, dialog, history, counts>>
               /\ \/ /\ work[d].vers[p] = Version(p) /\ Applied(p, work[d].local)
                     /\ Turns(d, Pushing(work[d].todo, Confirm(d, p, Version(p) + 1)))
                  \/ /\ work[d].vers[p] # Version(p) /\ UNCHANGED server
                     /\ Turns(d, [work[d] EXCEPT !.pc = "lost", !.local = Missing,
                                                 !.remote = Current(p), !.version = Version(p)])
<1> DEFINE p == work[d].path
           w == [work[d] EXCEPT !.pc = "lost", !.local = Missing, !.remote = Current(p), !.version = Version(p)]
<1>1. p \in Paths /\ work[d] \in Worker
  BY TypesOfDevice
<1>2. Version(p) \in Nat /\ Current(p) \in Files /\ Missing \in Files
  <2> HIDE DEF p
  <2>1. hist[p] \in Seq(Files)
    BY <1>1 DEF TypeOK
  <2>2. hist[p] # <<>> => Last(hist[p]) \in Files
    BY <2>1 DEF Last
  <2> QED  BY <2>1, <2>2, ObjectsShape DEF Version, Current
<1>3. CASE work[d].vers[p] = Version(p)
  <2>1. Applied(p, work[d].local) /\ Done(d, work[d].todo, Confirm(d, p, Version(p) + 1))
    BY <1>3 DEF SendPut
  <2>2. Confirm(d, p, Version(p) + 1) \in [Paths -> Nat] /\ work[d].todo \in SUBSET work[d].todo
    <3> HIDE DEF p
    <3> QED  BY <1>1, <1>2, ConfirmShape
  <2>3. Turns(d, Pushing(work[d].todo, Confirm(d, p, Version(p) + 1)))
    BY <2>1, <2>2, Finishing
  <2> QED  BY <1>3, <2>1, <2>3 DEF SendPut, At
<1>4. CASE work[d].vers[p] # Version(p)
  <2>1. UNCHANGED server /\ work' = [work EXCEPT ![d] = w]
    BY <1>4 DEF SendPut
  <2> HIDE DEF p
  <2>2. w \in Worker
    BY <1>1, <1>2 DEF Worker
  <2> HIDE DEF w
  <2>3. Turns(d, w)
    BY <2>1, <2>2, Turning
  <2> QED  BY <1>4, <2>1, <2>3 DEF SendPut, At, w, p
<1> QED  BY <1>3, <1>4

LEMMA SendDeleteDoes ==
    ASSUME TypeOK, NEW d \in Devices, SendDelete(d)
    PROVE  /\ work[d].pc = "push" /\ UNCHANGED <<disk, stored, dialog, history, counts>>
           /\ \E c \in work[d].todo :
                 /\ c.op = "delete" /\ c.path \in Paths
                 /\ \/ /\ work[d].vers[c.path] = Version(c.path) /\ Applied(c.path, Missing)
                       /\ Turns(d, Pushing(work[d].todo \ {c}, Confirm(d, c.path, Version(c.path) + 1)))
                    \/ UNCHANGED server /\ Turns(d, Pushing(work[d].todo \ {c}, work[d].vers))
<1>1. PICK c \in work[d].todo :
         /\ Job(d, c) /\ c.op = "delete"
         /\ \/ /\ work[d].vers[c.path] = Version(c.path) /\ Applied(c.path, Missing)
               /\ Done(d, work[d].todo \ {c}, Confirm(d, c.path, Version(c.path) + 1))
            \/ UNCHANGED server /\ Done(d, work[d].todo \ {c}, work[d].vers)
         /\ UNCHANGED <<disk, stored, dialog, history, counts>>
  BY DEF SendDelete
<1>2. c.path \in Paths /\ work[d].vers \in [Paths -> Nat] /\ work[d].todo \ {c} \in SUBSET work[d].todo
  BY TypesOfDevice DEF Change
<1>3. Version(c.path) + 1 \in Nat
  BY <1>2 DEF TypeOK, Version
<1>4. Confirm(d, c.path, Version(c.path) + 1) \in [Paths -> Nat]
  BY <1>2, <1>3, ConfirmShape
<1>5. \A vers \in [Paths -> Nat] :
         Done(d, work[d].todo \ {c}, vers) => Turns(d, Pushing(work[d].todo \ {c}, vers))
  BY <1>2, Finishing
<1> QED  BY <1>1, <1>2, <1>4, <1>5 DEF Job, At

LEMMA ReadBackDoes ==
    ASSUME TypeOK, NEW d \in Devices, ReadBack(d)
    PROVE  LET p == work[d].path
           IN  /\ work[d].pc = "lost" /\ disk[d][p] # Missing
               /\ UNCHANGED <<server, disk, stored, dialog, history, counts>>
               /\ \E pc \in {"copy", "merge"} :
                     Turns(d, [work[d] EXCEPT !.local = disk[d][p], !.pc = pc])
<1> DEFINE f == disk[d][work[d].path]
           pc == IF work[d].vers[work[d].path] = 0 THEN "copy" ELSE "merge"
           w == [work[d] EXCEPT !.local = f, !.pc = pc]
<1>1. f \in Files /\ work[d] \in Worker
  BY TypesOfDevice
<1>2. work' = [work EXCEPT ![d] = w]
  BY DEF ReadBack
<1>3. pc \in {"copy", "merge"}
  OBVIOUS
<1> HIDE DEF f, pc
<1>4. w \in Worker
  BY <1>1, <1>3 DEF Worker
<1> HIDE DEF w
<1>5. Turns(d, w)
  BY <1>2, <1>4, Turning
<1>6. \E x \in {"copy", "merge"} : Turns(d, [work[d] EXCEPT !.local = f, !.pc = x])
  BY <1>3, <1>5 DEF w
<1> QED  BY <1>6 DEF ReadBack, At, f

LEMMA WriteMergeDoes ==
    ASSUME TypeOK, NEW d \in Devices, WriteMerge(d)
    PROVE  LET p == work[d].path
               m == MergeBookletJson(work[d].local, Text(work[d].remote))
           IN  /\ work[d].pc = "merge" /\ UNCHANGED <<server, stored, dialog, history, counts>>
               /\ m \in Files /\ Rewrites(d, [disk[d] EXCEPT ![p] = m])
               /\ Turns(d, [work[d] EXCEPT !.pc = "resend", !.local = m])
<1> DEFINE p == work[d].path
           m == MergeBookletJson(work[d].local, Text(work[d].remote))
           w == [work[d] EXCEPT !.pc = "resend", !.local = m]
           t == [disk[d] EXCEPT ![p] = m]
<1>1. work[d] \in Worker /\ disk[d] \in [Paths -> Files] /\ p \in Paths
  BY TypesOfDevice
<1>2. m \in Files
  <2>1. work[d].local \in Files /\ Text(work[d].remote) \in Files
    BY TypesOfDevice, ObjectsShape DEF Text
  <2> QED  BY <2>1, MergedShape
<1>3. disk' = [disk EXCEPT ![d] = t] /\ work' = [work EXCEPT ![d] = w]
  BY DEF WriteMerge
<1> HIDE DEF m
<1>4. w \in Worker
  BY <1>1, <1>2 DEF Worker
<1> HIDE DEF p
<1>5. t \in [Paths -> Files]
  BY <1>1, <1>2
<1> HIDE DEF w, t
<1>6. Turns(d, w) /\ Rewrites(d, t)
  BY <1>3, <1>4, <1>5, Turning, Rewriting
<1> QED  BY <1>2, <1>6 DEF WriteMerge, At, w, t, m, p

LEMMA ResendDoes ==
    ASSUME TypeOK, NEW d \in Devices, Resend(d)
    PROVE  LET p == work[d].path
           IN  /\ work[d].pc = "resend" /\ UNCHANGED <<disk, stored, dialog, counts>>
               /\ \/ /\ work[d].version = Version(p) /\ Applied(p, work[d].local) /\ UNCHANGED history
                     /\ Turns(d, Pushing(work[d].todo, Confirm(d, p, Version(p) + 1)))
                  \/ /\ UNCHANGED server /\ Excuse(Held(work[d].local))
                     /\ Turns(d, Pushing(work[d].todo, work[d].vers))
<1> DEFINE p == work[d].path
<1>1. p \in Paths /\ work[d].vers \in [Paths -> Nat] /\ work[d].todo \in SUBSET work[d].todo
  BY TypesOfDevice
<1>2. Confirm(d, p, Version(p) + 1) \in [Paths -> Nat]
  <2> HIDE DEF p
  <2>1. Version(p) + 1 \in Nat
    BY <1>1 DEF TypeOK, Version
  <2> QED  BY <1>1, <2>1, ConfirmShape
<1>3. \/ /\ work[d].version = Version(p) /\ Applied(p, work[d].local) /\ UNCHANGED history
         /\ Done(d, work[d].todo, Confirm(d, p, Version(p) + 1))
      \/ UNCHANGED server /\ Done(d, work[d].todo, work[d].vers) /\ Excuse(Held(work[d].local))
  BY DEF Resend
<1>4. \A vers \in [Paths -> Nat] : Done(d, work[d].todo, vers) => Turns(d, Pushing(work[d].todo, vers))
  BY <1>1, Finishing
<1> HIDE DEF p
<1>5. \/ /\ work[d].version = Version(p) /\ Applied(p, work[d].local) /\ UNCHANGED history
         /\ Turns(d, Pushing(work[d].todo, Confirm(d, p, Version(p) + 1)))
      \/ UNCHANGED server /\ Turns(d, Pushing(work[d].todo, work[d].vers)) /\ Excuse(Held(work[d].local))
  BY <1>1, <1>2, <1>3, <1>4
<1> QED  BY <1>5 DEF Resend, At, p

LEMMA WriteCopyDoes ==
    ASSUME TypeOK, NEW d \in Devices, WriteCopy(d)
    PROVE  LET p == work[d].path
               r == Text(work[d].remote)
           IN  /\ work[d].pc = "copy" /\ UNCHANGED <<server, stored, dialog, history, counts>>
               /\ r \in Files
               /\ \E q \in Copies \ {p} :
                     /\ disk[d][q] = Missing
                     /\ Rewrites(d, [disk[d] EXCEPT ![q] = work[d].local, ![p] = r])
                     /\ Turns(d, [work[d] EXCEPT !.pc = "sendcopy", !.copy = q,
                                                 !.vers = Confirm(d, p, work[d].version)])
<1> DEFINE p == work[d].path
           r == Text(work[d].remote)
           v == Confirm(d, p, work[d].version)
<1>1. /\ work[d] \in Worker /\ disk[d] \in [Paths -> Files] /\ p \in Paths
      /\ work[d].version \in Nat /\ work[d].local \in Files /\ r \in Files
  BY TypesOfDevice, ObjectsShape DEF Text
<1>2. \E q \in Copies :
         /\ FirstFree(d, p, q)
         /\ disk' = [disk EXCEPT ![d][q] = work[d].local, ![d][p] = r]
         /\ work' = [work EXCEPT ![d] = [work[d] EXCEPT !.pc = "sendcopy", !.copy = q, !.vers = v]]
  BY ZenonT(40) DEF WriteCopy
<1> HIDE DEF p, r
<1>3. PICK q \in Copies :
         /\ FirstFree(d, p, q)
         /\ disk' = [disk EXCEPT ![d][q] = work[d].local, ![d][p] = r]
         /\ work' = [work EXCEPT ![d] = [work[d] EXCEPT !.pc = "sendcopy", !.copy = q, !.vers = v]]
  BY <1>2
<1>4. q # p /\ disk[d][q] = Missing /\ q \in Paths
  <2>1. PICK i \in DOMAIN CopyNames[p] : q = CopyNames[p][i] /\ disk[d][q] = Missing
    BY <1>3 DEF FirstFree
  <2> QED  BY <1>1, <2>1, NamesAssumption, PathsShape
<1>5. v \in [Paths -> Nat]
  BY <1>1, ConfirmShape
<1> HIDE DEF v
<1> DEFINE w == [work[d] EXCEPT !.pc = "sendcopy", !.copy = q, !.vers = v]
           t == [disk[d] EXCEPT ![q] = work[d].local, ![p] = r]
<1>6. w \in Worker
  BY <1>1, <1>4, <1>5 DEF Worker
<1>7. t \in [Paths -> Files]
  BY <1>1, <1>4
<1>8. disk' = [disk EXCEPT ![d] = t] /\ work' = [work EXCEPT ![d] = w]
  BY <1>3
<1> HIDE DEF w, t
<1>9. Turns(d, w) /\ Rewrites(d, t)
  BY <1>6, <1>7, <1>8, Turning, Rewriting
<1>10. work[d].pc = "copy" /\ UNCHANGED <<server, stored, dialog, history, counts>>
  BY DEF WriteCopy, At
<1> QED  BY <1>1, <1>4, <1>9, <1>10 DEF w, t, v, p, r

LEMMA SendCopyDoes ==
    ASSUME TypeOK, NEW d \in Devices, SendCopy(d)
    PROVE  LET q == work[d].copy
           IN  /\ work[d].pc = "sendcopy" /\ UNCHANGED <<disk, stored, dialog, counts>>
               /\ \/ /\ Applied(q, work[d].local) /\ UNCHANGED history
                     /\ Turns(d, Pushing(work[d].todo, Confirm(d, q, 1)))
                  \/ /\ UNCHANGED server /\ Excuse(Held(work[d].local))
                     /\ Turns(d, Pushing(work[d].todo, work[d].vers))
<1> DEFINE q == work[d].copy
<1>1. q \in Paths /\ work[d].vers \in [Paths -> Nat] /\ work[d].todo \in SUBSET work[d].todo
  BY TypesOfDevice
<1>2. \/ /\ Applied(q, work[d].local) /\ UNCHANGED history
         /\ Done(d, work[d].todo, Confirm(d, q, 1))
      \/ UNCHANGED server /\ Done(d, work[d].todo, work[d].vers) /\ Excuse(Held(work[d].local))
  BY DEF SendCopy
<1> HIDE DEF q
<1>3. Confirm(d, q, 1) \in [Paths -> Nat]
  BY <1>1, ConfirmShape
<1>4. \A vers \in [Paths -> Nat] : Done(d, work[d].todo, vers) => Turns(d, Pushing(work[d].todo, vers))
  BY <1>1, Finishing
<1>5. \/ /\ Applied(q, work[d].local) /\ UNCHANGED history
         /\ Turns(d, Pushing(work[d].todo, Confirm(d, q, 1)))
      \/ UNCHANGED server /\ Turns(d, Pushing(work[d].todo, work[d].vers)) /\ Excuse(Held(work[d].local))
  BY <1>1, <1>2, <1>3, <1>4
<1> QED  BY <1>5 DEF SendCopy, At, q

LEMMA EndPushDoes ==
    ASSUME TypeOK, NEW d \in Devices, EndPush(d)
    PROVE  /\ work[d].pc = "push" /\ work[d].todo = {}
           /\ UNCHANGED <<server, disk, versions, cursor, raced, dialog, history, counts>>
           /\ manifest' = [manifest EXCEPT ![d] = disk[d]]
           /\ Turns(d, [work[d] EXCEPT !.pc = "pull"])
<1> DEFINE w == [work[d] EXCEPT !.pc = "pull"]
<1>1. w \in Worker
  BY TypesOfDevice DEF Worker
<1>2. work' = [work EXCEPT ![d] = w]
  BY DEF EndPush
<1> HIDE DEF w
<1>3. Turns(d, w)
  BY <1>1, <1>2, Turning
<1> QED  BY <1>3 DEF EndPush, At, w

LEMMA GetChangesDoes ==
    ASSUME TypeOK, FoldersBare, NEW d \in Devices, GetChanges(d)
    PROVE  /\ work[d].pc = "pull" /\ UNCHANGED <<server, disk, stored, dialog, history, counts>>
           /\ Turns(d, [work[d] EXCEPT !.pc = "rows", !.page = Feed(cursor[d]), !.at = seq])
<1> DEFINE page == Feed(cursor[d])
           w == [work[d] EXCEPT !.pc = "rows", !.page = page, !.at = seq]
<1>1. page \subseteq Item /\ seq \in Nat
  BY FeedShape DEF TypeOK, FoldersBare, ServerOK
<1>2. work' = [work EXCEPT ![d] = w]
  BY DEF GetChanges
<1> HIDE DEF page
<1>3. w \in Worker
  BY <1>1, TypesOfDevice DEF Worker
<1> HIDE DEF w
<1>4. Turns(d, w)
  BY <1>2, <1>3, Turning
<1> QED  BY <1>4 DEF GetChanges, At, w, page

LEMMA GetCursorDoes ==
    ASSUME TypeOK, NEW d \in Devices, GetCursor(d)
    PROVE  /\ work[d].pc = "rows" /\ UNCHANGED <<server, disk, stored, dialog, history, counts>>
           /\ Turns(d, [work[d] EXCEPT !.pc = "apply", !.cursor = seq])
<1> DEFINE w == [work[d] EXCEPT !.pc = "apply", !.cursor = seq]
<1>1. seq \in Nat
  BY DEF TypeOK
<1>2. w \in Worker
  BY <1>1, TypesOfDevice DEF Worker
<1>3. work' = [work EXCEPT ![d] = w]
  BY DEF GetCursor
<1> HIDE DEF w
<1>4. Turns(d, w)
  BY <1>2, <1>3, Turning
<1> QED  BY <1>4 DEF GetCursor, At, w

LEMMA ApplyChangeDoes ==
    ASSUME TypeOK, NEW d \in Devices, ApplyChange(d)
    PROVE  /\ work[d].pc = "apply" /\ UNCHANGED <<server, stored, dialog, history, counts>>
           /\ \E item \in work[d].page :
                 /\ item \in Item /\ Rewrites(d, Received(disk[d], item))
                 /\ Turns(d, [work[d] EXCEPT !.page = work[d].page \ {item},
                                             !.vers = Confirm(d, item.path, item.version)])
<1>1. PICK item \in work[d].page :
         /\ At(d, "apply")
         /\ disk' = [disk EXCEPT ![d] = Received(@, item)]
         /\ work' = [work EXCEPT ![d].page = @ \ {item}, ![d].vers = Confirm(d, item.path, item.version)]
         /\ UNCHANGED <<server, stored, dialog, history, counts>>
  BY DEF ApplyChange
<1> DEFINE t == Received(disk[d], item)
           v == Confirm(d, item.path, item.version)
           w == [work[d] EXCEPT !.page = work[d].page \ {item}, !.vers = v]
<1>2. item \in Item /\ item.path \in Paths /\ item.version \in Nat /\ item.content \in Files
  BY TypesOfDevice DEF Item
<1>3. v \in [Paths -> Nat]
  BY <1>2, ConfirmShape
<1>4. t \in [Paths -> Files]
  <2>1. disk[d] \in [Paths -> Files] /\ Missing \in Files /\ Blank \in Files
    BY TypesOfDevice, ObjectsShape
  <2> QED  BY <1>2, <2>1, PathsShape DEF Received
<1>5. disk' = [disk EXCEPT ![d] = t]
  BY <1>1
<1>6. work' = [work EXCEPT ![d] = w]
  BY <1>1
<1> HIDE DEF v
<1>7. w \in Worker
  BY <1>3, TypesOfDevice DEF Worker
<1> HIDE DEF w, t
<1>8. Turns(d, w) /\ Rewrites(d, t)
  BY <1>4, <1>5, <1>6, <1>7, Turning, Rewriting
<1> QED  BY <1>1, <1>2, <1>8 DEF At, w, t, v

LEMMA EndPullDoes ==
    ASSUME TypeOK, NEW d \in Devices, EndPull(d)
    PROVE  /\ work[d].pc = "apply" /\ work[d].page = {}
           /\ UNCHANGED <<server, disk, dialog, history, counts>>
           /\ manifest' = [manifest EXCEPT ![d] = disk[d]]
           /\ versions' = [versions EXCEPT ![d] = work[d].vers]
           /\ cursor' = [cursor EXCEPT ![d] = work[d].cursor]
           /\ raced' = [raced EXCEPT ![d] = raced[d] \cup (work[d].at + 1 .. work[d].cursor)]
           /\ Turns(d, Resting)
<1>1. Turns(d, Resting)
  BY RestingShape, Turning DEF EndPull
<1> QED  BY <1>1 DEF EndPull, At

LEMMA FailsDoes ==
    ASSUME TypeOK, NEW d \in Devices, FileVanished(d) \/ Abandon(d)
    PROVE  /\ UNCHANGED <<server, disk, stored, dialog, history, made, books, deletes>>
           /\ faults' = faults \/ (faults < env.faults /\ faults' = faults + 1)
           /\ Turns(d, Resting)
<1>1. Turns(d, Resting)
  BY RestingShape, Turning DEF FileVanished, Abandon
<1> QED  BY <1>1 DEF FileVanished, Abandon, counts

\* The user's steps, and the dialog's last, leave the worker and the server alone.
LEMMA UserDoes ==
    ASSUME TypeOK, NEW d \in Devices, User(d) \/ WriteBinding(d)
    PROVE  /\ UNCHANGED <<server, stored, work, faults>>
           /\ disk' \in [Devices -> [Paths -> Files]] /\ (\A e \in Devices \ {d} : disk'[e] = disk[e])
           /\ dialog' \in [Devices -> Dialog] /\ (\A e \in Devices \ {d} : dialog'[e] = dialog[e])
           /\ disk[d][Folder] \in {Blank, Missing} => disk'[d][Folder] \in {Blank, Missing}
           /\ Marks /\ excused' \subseteq Picks /\ unread' \subseteq Keys
           /\ made' \in 0 .. MaxChoices /\ books' \in 0 .. env.books /\ deletes' \in 0 .. env.deletes
<1>1. /\ disk \in [Devices -> [Paths -> Files]] /\ dialog \in [Devices -> Dialog]
      /\ excused \subseteq Picks /\ unread \subseteq Keys /\ made \in 0 .. MaxChoices
      /\ books \in 0 .. env.books /\ deletes \in 0 .. env.deletes
      /\ env.choices \in 0 .. MaxChoices /\ env.books \in Nat /\ env.deletes \in Nat /\ MaxChoices \in Nat
  BY EnvironmentAssumption, NamesAssumption DEF TypeOK
<1>2. disk[d] \in [Paths -> Files] /\ disk[d][Meta] \in Files /\ Folder \in Paths /\ Meta \in Paths /\ Folder # Meta
  BY <1>1, PathsShape DEF Folder, Meta
<1>3. /\ Missing \in Files /\ Blank \in Files /\ Mangled \in Files
      /\ \A c \in Files : Held(c) \subseteq Picks /\ KeysOf(c) \subseteq Keys
      /\ \A c \in Files, key \in Keys : Shown(c, key) \in 0 .. MaxChoices
  BY ObjectsShape, ShownHeld DEF KeysOf
<1>4. \A n \in 0 .. MaxChoices : {n} \ {0} \subseteq Picks
  BY <1>1 DEF Picks
<1>5. made < env.choices => made + 1 \in 0 .. MaxChoices /\ made + 1 \in Picks
  BY <1>1 DEF Picks
<1>6. /\ dialog[d] \in Dialog /\ dialog[d].color \in 0 .. MaxChoices /\ dialog[d].shelf \in 0 .. MaxChoices
      /\ dialog[d].existing \in Files
  BY <1>1 DEF Dialog
<1>7. Closed \in Dialog
  BY <1>1, <1>3 DEF Closed, Dialog
<1>8. CASE CreateBook(d)
  BY <1>1, <1>2, <1>3, <1>8 DEF CreateBook, Marks, history
<1>9. CASE DeleteBook(d)
  <2>1. Nothing \in [Paths -> Files] /\ Nothing[Folder] = Missing
    BY <1>2, <1>3 DEF Nothing
  <2>2. UNION {Held(disk[d][p]) : p \in Paths} \subseteq Picks /\ KeysOf(disk[d][Meta]) \subseteq Keys
    BY <1>2, <1>3
  <2>3. /\ disk' = [disk EXCEPT ![d] = Nothing] /\ UNCHANGED <<server, stored, work, dialog, made, books, faults>>
        /\ excused' = excused \cup UNION {Held(disk[d][p]) : p \in Paths}
        /\ unread' = unread \cup KeysOf(disk[d][Meta])
        /\ deletes < env.deletes /\ deletes' = deletes + 1
    BY <1>9 DEF DeleteBook
  <2> QED  BY <1>1, <2>1, <2>2, <2>3 DEF Marks
<1>10. CASE OpenBinding(d)
  <2> DEFINE g == [pc |-> "open", existing |-> Missing, color |-> Shown(disk[d][Meta], "color"),
                   shelf |-> Shown(disk[d][Meta], "shelf")]
  <2>1. g \in Dialog
    BY <1>2, <1>3 DEF Dialog, Keys
  <2>2. dialog' = [dialog EXCEPT ![d] = g] /\ UNCHANGED <<server, disk, stored, work, history, counts>>
    BY <1>10 DEF OpenBinding
  <2> HIDE DEF g
  <2> QED  BY <1>1, <2>1, <2>2 DEF Marks, history, counts
<1>11. ASSUME NEW key \in {"color", "shelf"}, SaveBinding(d, key)
       PROVE  /\ UNCHANGED <<server, disk, stored, work, books, deletes, faults>>
              /\ dialog' \in [Devices -> Dialog] /\ (\A e \in Devices \ {d} : dialog'[e] = dialog[e])
              /\ Marks /\ excused' \subseteq Picks /\ unread' = unread /\ made' \in 0 .. MaxChoices
  <2>1. /\ made < env.choices /\ made' = made + 1 /\ UNCHANGED <<server, disk, stored, work, books, deletes, faults>>
        /\ dialog' = [dialog EXCEPT ![d].pc = "write", ![d].existing = disk[d][Meta], ![d][key] = made + 1]
        /\ excused' = excused \cup ({dialog[d][key]} \ {0}) /\ unread' = unread
    BY <1>11 DEF SaveBinding, Excuse
  <2>2. \A e \in Devices \ {d} : dialog'[e] = dialog[e]
    BY <1>1, <2>1
  <2>3. dialog' \in [Devices -> Dialog]
    <3>1. CASE key = "color"
      BY <1>1, <1>2, <1>5, <1>6, <2>1, <3>1 DEF Dialog
    <3>2. CASE key = "shelf"
      BY <1>1, <1>2, <1>5, <1>6, <2>1, <3>2 DEF Dialog
    <3> QED  BY <3>1, <3>2
  <2>4. dialog[d][key] \in 0 .. MaxChoices
    BY <1>6
  <2>5. excused' \subseteq Picks
    BY <1>1, <1>4, <2>1, <2>4
  <2> QED  BY <1>5, <2>1, <2>2, <2>3, <2>5 DEF Marks
<1>12. CASE SaveBinding(d, "color")
  BY <1>1, <1>11, <1>12
<1>13. CASE SaveBinding(d, "shelf")
  BY <1>1, <1>11, <1>13
<1>14. CASE WriteBinding(d)
  <2> DEFINE bound == Bound(dialog[d].existing, dialog[d].color, dialog[d].shelf)
  <2>1. bound \in Files
    BY <1>6, BoundShape, ObjectsShape
  <2>2. /\ UNCHANGED <<server, stored, work, counts>> /\ dialog' = [dialog EXCEPT ![d] = Closed]
        /\ \/ UNCHANGED <<disk, unread>>
           \/ /\ disk' = [disk EXCEPT ![d][Meta] = bound]
              /\ unread' = unread \cup (KeysOf(disk[d][Meta]) \ DOMAIN bound)
        /\ excused' = excused \/ excused' = excused \cup Held(bound)
    BY <1>14 DEF WriteBinding
  <2> HIDE DEF bound
  <2>3. dialog' \in [Devices -> Dialog] /\ \A e \in Devices \ {d} : dialog'[e] = dialog[e]
    BY <1>1, <1>7, <2>2
  <2>4. /\ disk' \in [Devices -> [Paths -> Files]] /\ (\A e \in Devices \ {d} : disk'[e] = disk[e])
        /\ disk'[d][Folder] = disk[d][Folder]
    BY <1>1, <1>2, <2>1, <2>2
  <2>5. excused' \subseteq Picks /\ unread' \subseteq Keys /\ Marks
    BY <1>1, <1>2, <1>3, <2>1, <2>2 DEF Marks
  <2> QED  BY <1>1, <2>2, <2>3, <2>4, <2>5 DEF counts
<1>15. CASE AddKey(d)
  <2> DEFINE f == Over([own |-> made + 1], disk[d][Meta])
  <2>1. made < env.choices /\ IsObject(disk[d][Meta])
    BY <1>15 DEF AddKey
  <2>2. f \in Files
    <3>1. [own |-> made + 1] \in [{"own"} -> 0 .. MaxChoices] /\ {"own"} \in SUBSET Keys
      BY <1>5, <2>1 DEF Keys
    <3>2. [own |-> made + 1] \in Objects
      BY <3>1 DEF Objects
    <3> QED  BY <1>2, <2>1, <3>2, LaidOver, ObjectsShape
  <2>3. /\ made' = made + 1 /\ disk' = [disk EXCEPT ![d][Meta] = f]
        /\ UNCHANGED <<server, stored, work, dialog, books, deletes, faults>> /\ unread' = unread
        /\ \/ excused' = excused \cup ({Shown(disk[d][Meta], "own")} \ {0})
           \/ excused' = excused \cup (({Shown(disk[d][Meta], "own")} \ {0}) \cup {made + 1})
    BY <1>15 DEF AddKey, Excuse
  <2> HIDE DEF f
  <2>4. /\ disk' \in [Devices -> [Paths -> Files]] /\ (\A e \in Devices \ {d} : disk'[e] = disk[e])
        /\ disk'[d][Folder] = disk[d][Folder]
    BY <1>1, <1>2, <2>2, <2>3
  <2>5. Shown(disk[d][Meta], "own") \in 0 .. MaxChoices
    BY <1>2, <1>3 DEF Keys
  <2>6. excused' \subseteq Picks
    BY <1>1, <1>4, <1>5, <2>1, <2>3, <2>5
  <2> QED  BY <1>1, <1>5, <2>1, <2>3, <2>4, <2>6 DEF Marks
<1>16. CASE Mangle(d)
  <2>1. /\ made < env.choices /\ made' = made + 1 /\ disk' = [disk EXCEPT ![d][Meta] = Mangled]
        /\ UNCHANGED <<server, stored, work, dialog, books, deletes, faults>>
        /\ excused' = excused \cup Held(disk[d][Meta]) \cup {made + 1}
        /\ unread' = unread \cup KeysOf(disk[d][Meta])
    BY <1>16 DEF Mangle
  <2>2. /\ disk' \in [Devices -> [Paths -> Files]] /\ (\A e \in Devices \ {d} : disk'[e] = disk[e])
        /\ disk'[d][Folder] = disk[d][Folder]
    BY <1>1, <1>2, <1>3, <2>1
  <2>3. excused' \subseteq Picks /\ unread' \subseteq Keys
    BY <1>1, <1>2, <1>3, <1>5, <2>1
  <2> QED  BY <1>1, <1>5, <2>1, <2>2, <2>3 DEF Marks
<1> QED  BY <1>8, <1>9, <1>10, <1>12, <1>13, <1>14, <1>15, <1>16 DEF User

----------------------------------------------------------------------------
(***************************************************************************)
(* Every step                                                              *)
(***************************************************************************)
Step(d) == UNCHANGED env /\ (StartCycle(d) \/ Cycle(d) \/ WriteBinding(d) \/ User(d) \/ Abandon(d))

\* The server, the devices and the counts after a step of d.
Sound(d) ==
    /\ ServerOK' /\ Grows /\ Marks
    /\ disk' \in [Devices -> [Paths -> Files]] /\ manifest' \in [Devices -> [Paths -> Files]]
    /\ versions' \in [Devices -> [Paths -> Nat]] /\ cursor' \in [Devices -> Nat]
    /\ raced' \in [Devices -> SUBSET Nat]
    /\ work' \in [Devices -> Worker] /\ dialog' \in [Devices -> Dialog]
    /\ made' \in 0 .. MaxChoices /\ excused' \subseteq Picks /\ unread' \subseteq Keys
    /\ books' \in 0 .. env.books /\ deletes' \in 0 .. env.deletes /\ faults' \in 0 .. env.faults
    /\ \A e \in Devices \ {d} : Same(e)

\* The steps that write no file.
LEMMA Quiet ==
    ASSUME TypeOK, ServerOK', Grows, Marks, NEW d \in Devices, NEW w, Turns(d, w), Shape(d),
           UNCHANGED <<disk, stored, dialog, counts>>, excused' \subseteq Picks, unread' \subseteq Keys,
           w.pc \in {"send", "lost", "merge", "resend", "copy", "sendcopy"} => w.path # Folder,
           w.pc = "sendcopy" => w.copy \in Copies,
           \A item \in w.page : item.path = Folder => item.content \in {Blank, Missing}
    PROVE  Sound(d) /\ Shape(d)'
<1>1. Sound(d)
  BY DEF Sound, TypeOK, Turns, Same, stored, counts
<1>2. Shape(d)'
  BY DEF Shape, Holding, At, Turns
<1> QED  BY <1>1, <1>2

\* A worker back at what is left to push.
LEMMA QuietPush ==
    ASSUME TypeOK, ServerOK', Grows, Marks, NEW d \in Devices, NEW todo, NEW v, Turns(d, Pushing(todo, v)),
           Shape(d), UNCHANGED <<disk, stored, dialog, counts>>, excused' \subseteq Picks, unread' \subseteq Keys
    PROVE  Sound(d) /\ Shape(d)'
<1> DEFINE w == Pushing(todo, v)
<1>1. w.pc = "push" /\ w.page = {}
  BY DEF Pushing, Resting
<1> HIDE DEF w
<1> QED  BY <1>1, Quiet DEF w

LEMMA PushSound ==
    ASSUME TypeOK, FoldersBare, NEW d \in Devices, Shape(d), env' = env,
           StartCycle(d) \/ SendFolder(d) \/ ReadLocal(d) \/ SendPut(d) \/ SendDelete(d)
    PROVE  Sound(d) /\ Shape(d)'
<1>1. ServerOK /\ excused \subseteq Picks /\ unread \subseteq Keys /\ Missing \in Files /\ Blank \in Files
  BY ObjectsShape DEF TypeOK, FoldersBare, ServerOK
<1>2. CASE StartCycle(d)
  <2>1. /\ Turns(d, Pushing(Diff(manifest[d], disk[d]), versions[d]))
        /\ UNCHANGED <<server, disk, stored, dialog, history, counts>>
    BY <1>2, StartCycleDoes
  <2>2. ServerOK' /\ Grows /\ Marks /\ excused' \subseteq Picks /\ unread' \subseteq Keys
    BY <1>1, <2>1, NoMutation DEF Marks, history
  <2> QED  BY <2>1, <2>2, QuietPush
<1>3. CASE SendFolder(d)
  <2>1. PICK c \in work[d].todo, n \in Nat :
           Turns(d, Pushing(work[d].todo \ {c}, Confirm(d, Folder, n)))
    BY <1>3, SendFolderDoes
  <2>2. UNCHANGED <<disk, stored, dialog, history, counts>> /\ (Applied(Folder, Blank) \/ UNCHANGED server)
    BY <1>3, SendFolderDoes
  <2>3. ServerOK' /\ Grows
    BY <1>1, <2>2, Mutation, NoMutation, PathsShape
  <2>4. Marks /\ excused' \subseteq Picks /\ unread' \subseteq Keys
    BY <1>1, <2>2 DEF Marks, history
  <2> QED  BY <2>1, <2>2, <2>3, <2>4, QuietPush
<1>4. CASE ReadLocal(d)
  <2>1. PICK c \in work[d].todo :
          /\ c.path \in Paths \ {Folder}
          /\ Turns(d, [work[d] EXCEPT !.pc = "send", !.todo = work[d].todo \ {c},
                                      !.path = c.path, !.local = disk[d][c.path]])
    BY <1>4, ReadLocalDoes
  <2> DEFINE w == [work[d] EXCEPT !.pc = "send", !.todo = work[d].todo \ {c},
                                  !.path = c.path, !.local = disk[d][c.path]]
  <2>2. UNCHANGED <<server, disk, stored, dialog, history, counts>>
    BY <1>4, ReadLocalDoes
  <2>3. ServerOK' /\ Grows /\ Marks /\ excused' \subseteq Picks /\ unread' \subseteq Keys
    BY <1>1, <2>2, NoMutation DEF Marks, history
  <2>4. w.pc = "send" /\ w.path # Folder /\ w.page = work[d].page
    BY <2>1, TypesOfDevice DEF Worker
  <2>5. Turns(d, w)
    BY <2>1
  <2> HIDE DEF w
  <2>6. \A item \in w.page : item.path = Folder => item.content \in {Blank, Missing}
    BY <2>4 DEF Shape
  <2> QED  BY <2>2, <2>3, <2>4, <2>5, <2>6, Quiet
<1>5. CASE SendPut(d)
  <2> DEFINE p == work[d].path
             w == [work[d] EXCEPT !.pc = "lost", !.local = Missing, !.remote = Current(p), !.version = Version(p)]
  <2>1. /\ work[d].pc = "send" /\ UNCHANGED <<disk, stored, dialog, history, counts>>
        /\ \/ Applied(p, work[d].local) /\ Turns(d, Pushing(work[d].todo, Confirm(d, p, Version(p) + 1)))
           \/ UNCHANGED server /\ Turns(d, w)
    BY <1>5, SendPutDoes
  <2>2. p \in Paths /\ p # Folder /\ work[d].local \in Files
    BY <2>1, TypesOfDevice DEF Shape, Holding
  <2>3. ServerOK' /\ Grows
    BY <1>1, <2>1, <2>2, Mutation, NoMutation
  <2>4. Marks /\ excused' \subseteq Picks /\ unread' \subseteq Keys
    BY <1>1, <2>1 DEF Marks, history
  <2>5. w.pc = "lost" /\ w.path = p /\ w.page = work[d].page
    BY TypesOfDevice DEF Worker
  <2>6. CASE Turns(d, w)
    <3> HIDE DEF w
    <3>1. \A item \in w.page : item.path = Folder => item.content \in {Blank, Missing}
      BY <2>5 DEF Shape
    <3> QED  BY <2>1, <2>2, <2>3, <2>4, <2>5, <2>6, <3>1, Quiet
  <2>7. CASE Turns(d, Pushing(work[d].todo, Confirm(d, p, Version(p) + 1)))
    BY <2>1, <2>3, <2>4, <2>7, QuietPush
  <2> QED  BY <2>1, <2>6, <2>7
<1>6. CASE SendDelete(d)
  <2>1. PICK c \in work[d].todo :
          /\ c.path \in Paths
          /\ \/ /\ Applied(c.path, Missing)
                /\ Turns(d, Pushing(work[d].todo \ {c}, Confirm(d, c.path, Version(c.path) + 1)))
             \/ UNCHANGED server /\ Turns(d, Pushing(work[d].todo \ {c}, work[d].vers))
    BY <1>6, SendDeleteDoes
  <2>2. UNCHANGED <<disk, stored, dialog, history, counts>>
    BY <1>6, SendDeleteDoes
  <2>3. ServerOK' /\ Grows
    BY <1>1, <2>1, Mutation, NoMutation
  <2>4. Marks /\ excused' \subseteq Picks /\ unread' \subseteq Keys
    BY <1>1, <2>2 DEF Marks, history
  <2> QED  BY <2>1, <2>2, <2>3, <2>4, QuietPush
<1> QED  BY <1>2, <1>3, <1>4, <1>5, <1>6

\* The steps that write files.
LEMMA Wrote ==
    ASSUME TypeOK, ServerOK, NEW d \in Devices, NEW w, Turns(d, w), Shape(d), NEW t, Rewrites(d, t),
           UNCHANGED <<server, stored, dialog, history, counts>>, t[Folder] \in {Blank, Missing},
           w.pc \in {"send", "lost", "merge", "resend", "copy", "sendcopy"} => w.path # Folder,
           w.pc = "sendcopy" => w.copy \in Copies,
           w.page \subseteq work[d].page
    PROVE  Sound(d) /\ Shape(d)'
<1>1. ServerOK' /\ Grows /\ Marks
  BY NoMutation DEF Marks, history
<1>2. Sound(d)
  BY <1>1 DEF Sound, TypeOK, Turns, Rewrites, Same, stored, counts, history
<1>3. Shape(d)'
  BY DEF Shape, Holding, At, Turns, Rewrites
<1> QED  BY <1>2, <1>3

LEMMA ConflictSound ==
    ASSUME TypeOK, FoldersBare, NEW d \in Devices, Shape(d), env' = env,
           ReadBack(d) \/ WriteMerge(d) \/ Resend(d) \/ WriteCopy(d) \/ SendCopy(d)
    PROVE  Sound(d) /\ Shape(d)'
<1>1. ServerOK /\ excused \subseteq Picks /\ unread \subseteq Keys
  BY DEF TypeOK, FoldersBare, ServerOK
<1>2. ASSUME Excuse(Held(work[d].local)) \/ UNCHANGED history
      PROVE  Marks /\ excused' \subseteq Picks /\ unread' \subseteq Keys
  <2>1. Held(work[d].local) \subseteq Picks
    BY TypesOfDevice, ShownHeld
  <2> QED  BY <1>1, <1>2, <2>1 DEF Marks, Excuse, history
<1>3. Folder \in Paths /\ disk[d] \in [Paths -> Files] /\ disk[d][Folder] \in {Blank, Missing}
  BY PathsShape, TypesOfDevice DEF Shape
<1>4. CASE ReadBack(d)
  <2>1. PICK pc \in {"copy", "merge"} :
           Turns(d, [work[d] EXCEPT !.local = disk[d][work[d].path], !.pc = pc])
    BY <1>4, ReadBackDoes
  <2> DEFINE w == [work[d] EXCEPT !.local = disk[d][work[d].path], !.pc = pc]
  <2>2. work[d].pc = "lost" /\ UNCHANGED <<server, disk, stored, dialog, history, counts>>
    BY <1>4, ReadBackDoes
  <2>3. ServerOK' /\ Grows /\ Marks /\ excused' \subseteq Picks /\ unread' \subseteq Keys
    BY <1>1, <2>2, NoMutation DEF Marks, history
  <2>4. w.pc = pc /\ w.path = work[d].path /\ w.page = work[d].page
    BY <2>1, TypesOfDevice DEF Worker
  <2>5. Turns(d, w)
    BY <2>1
  <2> HIDE DEF w
  <2>6. w.path # Folder /\ \A item \in w.page : item.path = Folder => item.content \in {Blank, Missing}
    BY <2>2, <2>4 DEF Shape, Holding
  <2> QED  BY <2>2, <2>3, <2>4, <2>5, <2>6, Quiet
<1>5. CASE WriteMerge(d)
  <2> DEFINE p == work[d].path
             m == MergeBookletJson(work[d].local, Text(work[d].remote))
             t == [disk[d] EXCEPT ![p] = m]
             w == [work[d] EXCEPT !.pc = "resend", !.local = m]
  <2>1. /\ work[d].pc = "merge" /\ UNCHANGED <<server, stored, dialog, history, counts>>
        /\ Rewrites(d, t) /\ Turns(d, w)
    BY <1>5, WriteMergeDoes
  <2>2. p # Folder
    BY <2>1 DEF Shape, Holding
  <2>3. t[Folder] = disk[d][Folder]
    BY <1>3, <2>2
  <2>4. w.pc = "resend" /\ w.path = p /\ w.page = work[d].page
    BY TypesOfDevice DEF Worker
  <2> HIDE DEF w, t
  <2> QED  BY <1>1, <1>3, <2>1, <2>2, <2>3, <2>4, Wrote
<1>6. CASE Resend(d)
  <2> DEFINE p == work[d].path
  <2>1. /\ work[d].pc = "resend" /\ UNCHANGED <<disk, stored, dialog, counts>>
        /\ Applied(p, work[d].local) \/ UNCHANGED server
        /\ UNCHANGED history \/ Excuse(Held(work[d].local))
        /\ \E v : Turns(d, Pushing(work[d].todo, v))
    BY <1>6, ResendDoes
  <2>2. p \in Paths /\ p # Folder /\ work[d].local \in Files
    BY <2>1, TypesOfDevice DEF Shape, Holding
  <2>3. ServerOK' /\ Grows
    BY <1>1, <2>1, <2>2, Mutation, NoMutation
  <2> QED  BY <1>2, <2>1, <2>3, QuietPush
<1>7. CASE WriteCopy(d)
  <2> DEFINE p == work[d].path
             r == Text(work[d].remote)
             v == Confirm(d, p, work[d].version)
  <2>1. PICK q \in Copies \ {p} :
          /\ Rewrites(d, [disk[d] EXCEPT ![q] = work[d].local, ![p] = r])
          /\ Turns(d, [work[d] EXCEPT !.pc = "sendcopy", !.copy = q, !.vers = v])
    BY <1>7, WriteCopyDoes
  <2> DEFINE t == [disk[d] EXCEPT ![q] = work[d].local, ![p] = r]
             w == [work[d] EXCEPT !.pc = "sendcopy", !.copy = q, !.vers = v]
  <2>2. work[d].pc = "copy" /\ UNCHANGED <<server, stored, dialog, history, counts>>
    BY <1>7, WriteCopyDoes
  <2>3. p # Folder /\ q # Folder /\ q \in Copies
    BY <2>2, <2>1, PathsShape DEF Shape, Holding
  <2>4. t[Folder] = disk[d][Folder]
    BY <1>3, <2>3
  <2>5. w.pc = "sendcopy" /\ w.copy = q /\ w.path = p /\ w.page = work[d].page
    BY TypesOfDevice DEF Worker
  <2>6. Turns(d, w) /\ Rewrites(d, t)
    BY <2>1
  <2> HIDE DEF w, t
  <2> QED  BY <1>1, <1>3, <2>2, <2>3, <2>4, <2>5, <2>6, Wrote
<1>8. CASE SendCopy(d)
  <2> DEFINE q == work[d].copy
  <2>1. /\ work[d].pc = "sendcopy" /\ UNCHANGED <<disk, stored, dialog, counts>>
        /\ Applied(q, work[d].local) \/ UNCHANGED server
        /\ UNCHANGED history \/ Excuse(Held(work[d].local))
        /\ \E v : Turns(d, Pushing(work[d].todo, v))
    BY <1>8, SendCopyDoes
  <2>2. q \in Paths /\ q # Folder /\ work[d].local \in Files
    BY <2>1, TypesOfDevice, PathsShape DEF Shape, At
  <2>3. ServerOK' /\ Grows
    BY <1>1, <2>1, <2>2, Mutation, NoMutation
  <2> QED  BY <1>2, <2>1, <2>3, QuietPush
<1> QED  BY <1>4, <1>5, <1>6, <1>7, <1>8

LEMMA PullSound ==
    ASSUME TypeOK, FoldersBare, NEW d \in Devices, Shape(d), env' = env,
           EndPush(d) \/ GetChanges(d) \/ GetCursor(d) \/ ApplyChange(d) \/ EndPull(d)
             \/ FileVanished(d) \/ Abandon(d)
    PROVE  Sound(d) /\ Shape(d)'
<1>1. ServerOK /\ excused \subseteq Picks /\ unread \subseteq Keys
  BY DEF TypeOK, FoldersBare, ServerOK
<1>2. UNCHANGED <<server, history>> => /\ ServerOK' /\ Grows /\ Marks
                                       /\ excused' \subseteq Picks /\ unread' \subseteq Keys
  BY <1>1, NoMutation DEF Marks, history
<1>3. Folder \in Paths /\ disk[d] \in [Paths -> Files] /\ disk[d][Folder] \in {Blank, Missing}
  BY PathsShape, TypesOfDevice DEF Shape
<1>4. CASE EndPush(d)
  <2> DEFINE w == [work[d] EXCEPT !.pc = "pull"]
  <2>1. /\ UNCHANGED <<server, disk, versions, cursor, raced, dialog, history, counts>>
        /\ manifest' = [manifest EXCEPT ![d] = disk[d]] /\ Turns(d, w)
    BY <1>4, EndPushDoes
  <2>2. w.pc = "pull" /\ w.page = work[d].page
    BY TypesOfDevice DEF Worker
  <2> HIDE DEF w
  <2>3. manifest' \in [Devices -> [Paths -> Files]] /\ \A e \in Devices \ {d} : manifest'[e] = manifest[e]
    BY <1>3, <2>1 DEF TypeOK
  <2>4. Sound(d)
    BY <1>2, <2>1, <2>3 DEF Sound, TypeOK, Turns, Same, counts
  <2>5. Shape(d)'
    BY <2>1, <2>2 DEF Shape, Holding, At, Turns
  <2> QED  BY <2>4, <2>5
<1>5. CASE GetChanges(d)
  <2> DEFINE page == Feed(cursor[d])
             w == [work[d] EXCEPT !.pc = "rows", !.page = page, !.at = seq]
  <2>1. /\ UNCHANGED <<server, disk, stored, dialog, history, counts>> /\ Turns(d, w)
    BY <1>5, GetChangesDoes
  <2>2. w.pc = "rows" /\ w.page = page
    BY TypesOfDevice DEF Worker
  <2> HIDE DEF w, page
  <2>3. \A item \in page : item.content = Current(item.path)
    BY <1>1, FeedShape DEF page
  <2>4. \A item \in page : item.path = Folder => item.content \in {Blank, Missing}
    BY <1>1, <1>3, <2>3, CurrentShape
  <2> QED  BY <1>2, <2>1, <2>2, <2>4, Quiet
<1>6. CASE ApplyChange(d)
  <2>1. PICK item \in work[d].page :
          /\ item \in Item /\ Rewrites(d, Received(disk[d], item))
          /\ Turns(d, [work[d] EXCEPT !.page = work[d].page \ {item},
                                      !.vers = Confirm(d, item.path, item.version)])
    BY <1>6, ApplyChangeDoes
  <2> DEFINE t == Received(disk[d], item)
             v == Confirm(d, item.path, item.version)
             w == [work[d] EXCEPT !.page = work[d].page \ {item}, !.vers = v]
  <2>2. work[d].pc = "apply" /\ UNCHANGED <<server, stored, dialog, history, counts>>
    BY <1>6, ApplyChangeDoes
  <2>3. item.path \in Paths /\ (item.path = Folder => item.content \in {Blank, Missing})
    BY <2>1 DEF Item, Shape
  <2>4. t[Folder] \in {Blank, Missing}
    BY <1>3, <2>3 DEF Received
  <2>5. w.pc = "apply" /\ w.page = work[d].page \ {item}
    BY <2>2, TypesOfDevice DEF Worker
  <2>6. Rewrites(d, t) /\ Turns(d, w)
    BY <2>1
  <2> HIDE DEF w, t
  <2> QED  BY <1>1, <2>2, <2>4, <2>5, <2>6, Wrote
<1>7. CASE EndPull(d)
  <2>1. /\ UNCHANGED <<server, disk, dialog, history, counts>>
        /\ manifest' = [manifest EXCEPT ![d] = disk[d]]
        /\ versions' = [versions EXCEPT ![d] = work[d].vers]
        /\ cursor' = [cursor EXCEPT ![d] = work[d].cursor]
        /\ raced' = [raced EXCEPT ![d] = raced[d] \cup (work[d].at + 1 .. work[d].cursor)]
        /\ Turns(d, Resting)
    BY <1>7, EndPullDoes
  <2>2. Resting.pc = "idle" /\ Resting.page = {}
    BY DEF Resting
  <2>3. /\ manifest' \in [Devices -> [Paths -> Files]] /\ versions' \in [Devices -> [Paths -> Nat]]
        /\ cursor' \in [Devices -> Nat]
        /\ \A e \in Devices \ {d} : manifest'[e] = manifest[e] /\ versions'[e] = versions[e]
    BY <1>3, <2>1, TypesOfDevice DEF TypeOK
  <2>4. raced' \in [Devices -> SUBSET Nat]
    <3> DEFINE gap == work[d].at + 1 .. work[d].cursor
    <3>1. gap \in SUBSET Nat
      BY TypesOfDevice
    <3> HIDE DEF gap
    <3>2. raced' = [raced EXCEPT ![d] = raced[d] \cup gap]
      BY <2>1 DEF gap
    <3> QED  BY <3>1, <3>2 DEF TypeOK
  <2>5. Sound(d)
    BY <1>2, <2>1, <2>3, <2>4 DEF Sound, TypeOK, Turns, Same, counts
  <2>6. Shape(d)'
    BY <2>1, <2>2 DEF Shape, Holding, At, Turns
  <2> QED  BY <2>5, <2>6
<1>8. CASE FileVanished(d) \/ Abandon(d)
  <2>1. /\ UNCHANGED <<server, disk, stored, dialog, history, made, books, deletes>>
        /\ faults' = faults \/ (faults < env.faults /\ faults' = faults + 1)
        /\ Turns(d, Resting)
    BY <1>8, FailsDoes
  <2>2. Resting.pc = "idle" /\ Resting.page = {}
    BY DEF Resting
  <2>3. faults' \in 0 .. env.faults
    <3>1. faults \in 0 .. env.faults /\ env.faults \in Nat
      BY EnvironmentAssumption DEF TypeOK
    <3> QED  BY <2>1, <3>1
  <2>4. Sound(d)
    BY <1>2, <2>1, <2>3 DEF Sound, TypeOK, Turns, Same, stored
  <2>5. Shape(d)'
    BY <2>1, <2>2 DEF Shape, Holding, At, Turns
  <2> QED  BY <2>4, <2>5
<1>9. CASE GetCursor(d)
  <2> DEFINE w == [work[d] EXCEPT !.pc = "apply", !.cursor = seq]
  <2>1. /\ UNCHANGED <<server, disk, stored, dialog, history, counts>> /\ Turns(d, w)
    BY <1>9, GetCursorDoes
  <2>2. w.pc = "apply" /\ w.page = work[d].page
    BY TypesOfDevice DEF Worker
  <2> HIDE DEF w
  <2>3. \A item \in work[d].page : item.path = Folder => item.content \in {Blank, Missing}
    BY DEF Shape
  <2> QED  BY <1>2, <2>1, <2>2, <2>3, Quiet
<1> QED  BY <1>4, <1>5, <1>6, <1>7, <1>8, <1>9

LEMMA UserSound ==
    ASSUME TypeOK, FoldersBare, NEW d \in Devices, Shape(d), env' = env, User(d) \/ WriteBinding(d)
    PROVE  Sound(d) /\ Shape(d)'
<1>1. ServerOK
  BY DEF TypeOK, FoldersBare, ServerOK
<1>2. /\ UNCHANGED <<server, stored, work, faults>>
      /\ disk' \in [Devices -> [Paths -> Files]] /\ (\A e \in Devices \ {d} : disk'[e] = disk[e])
      /\ dialog' \in [Devices -> Dialog] /\ (\A e \in Devices \ {d} : dialog'[e] = dialog[e])
      /\ disk[d][Folder] \in {Blank, Missing} => disk'[d][Folder] \in {Blank, Missing}
      /\ Marks /\ excused' \subseteq Picks /\ unread' \subseteq Keys
      /\ made' \in 0 .. MaxChoices /\ books' \in 0 .. env.books /\ deletes' \in 0 .. env.deletes
  BY UserDoes
<1>3. ServerOK' /\ Grows
  BY <1>1, <1>2, NoMutation
<1>4. Sound(d)
  BY <1>2, <1>3 DEF Sound, TypeOK, Same, stored
<1>5. Shape(d)'
  BY <1>2 DEF Shape, Holding, At
<1> QED  BY <1>4, <1>5

LEMMA StepSound ==
    ASSUME TypeOK, FoldersBare, NEW d \in Devices, Shape(d), Step(d)
    PROVE  Sound(d) /\ Shape(d)' /\ TypeOK' /\ FoldersBare'
<1>1. Sound(d) /\ Shape(d)'
  BY PushSound, ConflictSound, PullSound, UserSound DEF Step, Cycle
<1>2. env' = env
  BY DEF Step
<1>3. TypeOK' /\ FoldersBare'
  BY <1>1, <1>2 DEF Sound, ServerOK, TypeOK, FoldersBare
<1> QED  BY <1>1, <1>3

LEMMA NextSteps == Next => \E d \in Devices : Step(d)
BY DEF Next, Sync, Finish, Step

----------------------------------------------------------------------------
(***************************************************************************)
(* Keys                                                                    *)
(***************************************************************************)
ReadsNext(n, keys) ==
    /\ n <= Version(Meta)'
    /\ n = Version(Meta)' => KeysOf(Current(Meta)') \subseteq keys \cup unread'

\* What the step does to the keys of the server's booklet.json.
KeysPass == IsObject(Current(Meta)) /\ IsObject(Current(Meta)')
               => DOMAIN Current(Meta) \ DOMAIN Current(Meta)' \subseteq unread

LEMMA SamePasses == ASSUME Current(Meta)' = Current(Meta) PROVE KeysPass
BY DEF KeysPass

\* A worker with nothing of booklet.json in its hands.
LEMMA KeysTurn ==
    ASSUME TypeOK, Grows, Marks, NEW d \in Devices, KeysHeld(d), NEW w, Turns(d, w),
           w.pc \in {"push", "pull", "idle", "sendcopy"} \/ (w.path # Meta /\ w.pc \notin {"rows", "apply"}),
           disk'[d][Meta] = disk[d][Meta], versions'[d] = versions[d],
           w.pc # "idle" => ReadsNext(w.vers[Meta], KeysOf(disk[d][Meta])) /\ versions[d][Meta] <= w.vers[Meta]
    PROVE  KeysHeld(d)'
<1>1. Meta \in Paths /\ versions[d][Meta] \in Nat /\ work'[d] = w
  BY TypesOfDevice, PathsShape DEF Turns
<1>2. ReadsNext(versions[d][Meta], KeysOf(disk[d][Meta]))
  BY <1>1, ReadsStay DEF KeysHeld, ReadsNext
<1> QED  BY <1>1, <1>2 DEF KeysHeld, OnMeta, Receiving, Reads, ReadsNext

\* The worker goes on with the version of booklet.json it knows.
LEMMA KeysTurnOn ==
    ASSUME TypeOK, Grows, Marks, NEW d \in Devices, KeysHeld(d), work[d].pc # "idle", NEW w, Turns(d, w),
           w.pc \in {"push", "pull", "idle", "sendcopy"} \/ (w.path # Meta /\ w.pc \notin {"rows", "apply"}),
           disk'[d][Meta] = disk[d][Meta], versions'[d] = versions[d],
           w.vers[Meta] = work[d].vers[Meta]
    PROVE  KeysHeld(d)'
<1>1. Meta \in Paths /\ work[d].vers[Meta] \in Nat
  BY TypesOfDevice, PathsShape
<1>2. ReadsNext(work[d].vers[Meta], KeysOf(disk[d][Meta])) /\ versions[d][Meta] <= work[d].vers[Meta]
  BY <1>1, ReadsStay DEF KeysHeld, ReadsNext
<1> QED  BY <1>2, KeysTurn

LEMMA PushedShape ==
    ASSUME NEW todo, NEW v
    PROVE  /\ Pushing(todo, v).pc = "push" /\ Pushing(todo, v).vers = v /\ Pushing(todo, v).todo = todo
           /\ Pushing(todo, v).page = {}
BY DEF Pushing, Resting

\* The content of a mutation of booklet.json has the keys of the current one.
LEMMA KeysPut ==
    ASSUME TypeOK, ServerOK, Grows, Marks, NEW d \in Devices, KeysHeld(d), work[d].pc # "idle",
           NEW f \in Files, Applied(Meta, f), versions[d][Meta] <= Version(Meta),
           disk'[d][Meta] = disk[d][Meta], versions'[d] = versions[d],
           NEW todo, Turns(d, Pushing(todo, Confirm(d, Meta, Version(Meta) + 1))),
           KeysOf(f) \subseteq KeysOf(disk[d][Meta]) \cup unread,
           IsObject(f) => Reads(Version(Meta), KeysOf(f))
    PROVE  KeysHeld(d)' /\ KeysPass
<1> DEFINE v == Confirm(d, Meta, Version(Meta) + 1)
           w == Pushing(todo, v)
<1>1. Version(Meta)' = Version(Meta) + 1 /\ Current(Meta)' = f /\ Version(Meta) \in Nat
  BY Mutation, CurrentShape, PathsShape DEF Folder, Meta
<1>2. v[Meta] = Version(Meta) + 1
  BY <1>1, ConfirmShape, PathsShape
<1>3. w.pc = "push" /\ w.vers = v
  BY PushedShape
<1>4. unread \subseteq unread' /\ versions[d][Meta] \in Nat
  BY TypesOfDevice, PathsShape DEF Marks
<1>5. Turns(d, w)
  OBVIOUS
<1> HIDE DEF v, w
<1>6. ReadsNext(w.vers[Meta], KeysOf(disk[d][Meta])) /\ versions[d][Meta] <= w.vers[Meta]
  BY <1>1, <1>2, <1>3, <1>4 DEF ReadsNext
<1>7. KeysHeld(d)'
  BY <1>3, <1>5, <1>6, KeysTurn
<1>8. KeysPass
  BY <1>1 DEF KeysPass, Reads, KeysOf
<1> QED  BY <1>7, <1>8

LEMMA PushKeys ==
    ASSUME TypeOK, FoldersBare, NEW d \in Devices, Shape(d), KeysHeld(d), Grows, Marks,
           StartCycle(d) \/ SendFolder(d) \/ ReadLocal(d) \/ SendPut(d) \/ SendDelete(d)
    PROVE  KeysHeld(d)' /\ KeysPass
<1>1. ServerOK /\ Meta \in Paths /\ Folder # Meta
  BY PathsShape DEF TypeOK, FoldersBare, ServerOK, Folder, Meta
<1>2. versions[d][Meta] \in Nat /\ work[d].vers[Meta] \in Nat /\ Version(Meta) \in Nat
  BY <1>1, TypesOfDevice, CurrentShape
<1>3. CASE StartCycle(d)
  <2> DEFINE w == Pushing(Diff(manifest[d], disk[d]), versions[d])
  <2>1. Turns(d, w) /\ UNCHANGED <<server, disk, stored, dialog, history, counts>>
    BY <1>3, StartCycleDoes
  <2>2. w.pc = "push" /\ w.vers = versions[d]
    BY PushedShape
  <2> HIDE DEF w
  <2>3. disk' = disk /\ versions' = versions /\ Current(Meta)' = Current(Meta)
    BY <1>1, <2>1, NoMutation DEF stored
  <2>4. ReadsNext(versions[d][Meta], KeysOf(disk[d][Meta]))
    BY <1>2, ReadsStay DEF KeysHeld, ReadsNext
  <2>5. versions[d][Meta] <= versions[d][Meta]
    BY <1>2
  <2>6. KeysHeld(d)'
    BY <2>1, <2>2, <2>3, <2>4, <2>5, KeysTurn
  <2> QED  BY <2>3, <2>6, SamePasses
<1>4. CASE SendFolder(d)
  <2>1. PICK c \in work[d].todo, n \in Nat :
           Turns(d, Pushing(work[d].todo \ {c}, Confirm(d, Folder, n)))
    BY <1>4, SendFolderDoes
  <2> DEFINE v == Confirm(d, Folder, n)
             w == Pushing(work[d].todo \ {c}, v)
  <2>2. /\ work[d].pc = "push" /\ UNCHANGED <<disk, stored, dialog, history, counts>>
        /\ Applied(Folder, Blank) \/ UNCHANGED server
    BY <1>4, SendFolderDoes
  <2>3. w.pc = "push" /\ w.vers = v
    BY PushedShape
  <2>4. v[Meta] = work[d].vers[Meta]
    BY <1>1, <2>1, ConfirmShape, PathsShape
  <2>5. disk' = disk /\ versions' = versions
    BY <2>2 DEF stored
  <2>6. Current(Meta)' = Current(Meta)
    BY <1>1, <2>2, Mutation, NoMutation, PathsShape, ObjectsShape
  <2>7. Turns(d, w)
    BY <2>1
  <2> HIDE DEF w, v
  <2>8. KeysHeld(d)'
    BY <2>2, <2>3, <2>4, <2>5, <2>7, KeysTurnOn
  <2> QED  BY <2>6, <2>8, SamePasses
<1>5. CASE ReadLocal(d)
  <2>1. PICK c \in work[d].todo :
          /\ c.path \in Paths \ {Folder}
          /\ Turns(d, [work[d] EXCEPT !.pc = "send", !.todo = work[d].todo \ {c},
                                      !.path = c.path, !.local = disk[d][c.path]])
    BY <1>5, ReadLocalDoes
  <2> DEFINE w == [work[d] EXCEPT !.pc = "send", !.todo = work[d].todo \ {c},
                                  !.path = c.path, !.local = disk[d][c.path]]
  <2>2. work[d].pc = "push" /\ UNCHANGED <<server, disk, stored, dialog, history, counts>>
    BY <1>5, ReadLocalDoes
  <2>3. w.pc = "send" /\ w.path = c.path /\ w.local = disk[d][c.path] /\ w.vers = work[d].vers
    BY <2>1, TypesOfDevice DEF Worker
  <2>4. Turns(d, w)
    BY <2>1
  <2> HIDE DEF w
  <2>5. /\ disk' = disk /\ versions' = versions /\ unread' = unread
        /\ Current(Meta)' = Current(Meta) /\ Version(Meta)' = Version(Meta)
    BY <1>1, <2>2, NoMutation DEF stored, history
  <2>6. CASE c.path = Meta
    BY <2>2, <2>3, <2>4, <2>5, <2>6, SamePasses DEF KeysHeld, Turns, OnMeta, Receiving, Reads
  <2>7. CASE c.path # Meta
    BY <2>2, <2>3, <2>4, <2>5, <2>7, KeysTurnOn, SamePasses
  <2> QED  BY <2>6, <2>7
<1>6. CASE SendPut(d)
  <2> DEFINE p == work[d].path
             w == [work[d] EXCEPT !.pc = "lost", !.local = Missing, !.remote = Current(p), !.version = Version(p)]
  <2>1. /\ work[d].pc = "send" /\ UNCHANGED <<disk, stored, dialog, history, counts>>
        /\ \/ /\ work[d].vers[p] = Version(p) /\ Applied(p, work[d].local)
              /\ Turns(d, Pushing(work[d].todo, Confirm(d, p, Version(p) + 1)))
           \/ work[d].vers[p] # Version(p) /\ UNCHANGED server /\ Turns(d, w)
    BY <1>6, SendPutDoes
  <2>2. p \in Paths /\ p # Folder /\ work[d].local \in Files
    BY <2>1, TypesOfDevice DEF Shape, Holding
  <2>3. disk' = disk /\ versions' = versions /\ unread' = unread
    BY <2>1 DEF stored, history
  <2>4. CASE UNCHANGED server /\ work[d].vers[p] # Version(p) /\ Turns(d, w)
    <3>1. /\ w.pc = "lost" /\ w.path = p /\ w.vers = work[d].vers
          /\ w.remote = Current(p) /\ w.version = Version(p)
      BY TypesOfDevice DEF Worker
    <3>2. Current(Meta)' = Current(Meta) /\ Version(Meta)' = Version(Meta)
      BY <1>1, <2>4, NoMutation
    <3>3. Turns(d, w)
      BY <2>4
    <3> HIDE DEF w
    <3>4. CASE p = Meta
      <4>1. work[d].vers[Meta] < Version(Meta)
        BY <1>2, <2>1, <2>4, <3>4 DEF KeysHeld, Reads
      <4>2. Version(Meta) <= Version(Meta)
        BY <1>2
      <4> HIDE DEF p
      <4> QED  BY <2>1, <2>3, <3>1, <3>2, <3>3, <3>4, <4>1, <4>2, SamePasses DEF KeysHeld, Turns, OnMeta, Receiving, Reads
    <3>5. CASE p # Meta
      <4>1. w.path # Meta /\ w.pc \notin {"rows", "apply"} /\ work[d].pc # "idle" /\ w.vers[Meta] = work[d].vers[Meta]
        BY <2>1, <3>1, <3>5
      <4> HIDE DEF p
      <4> QED  BY <2>3, <3>2, <3>3, <4>1, KeysTurnOn, SamePasses
    <3> QED  BY <3>4, <3>5
  <2>5. CASE /\ work[d].vers[p] = Version(p) /\ Applied(p, work[d].local)
             /\ Turns(d, Pushing(work[d].todo, Confirm(d, p, Version(p) + 1)))
    <3>1. CASE p = Meta
      <4>1. /\ KeysOf(work[d].local) \subseteq KeysOf(disk[d][Meta]) \cup unread
            /\ Reads(Version(Meta), KeysOf(work[d].local)) /\ versions[d][Meta] <= Version(Meta)
        BY <2>1, <2>5, <3>1 DEF KeysHeld, OnMeta
      <4>2. /\ Applied(Meta, work[d].local) /\ work[d].pc # "idle"
            /\ Turns(d, Pushing(work[d].todo, Confirm(d, Meta, Version(Meta) + 1)))
        BY <2>1, <2>5, <3>1
      <4> HIDE DEF p
      <4> QED  BY <1>1, <2>2, <2>3, <4>1, <4>2, KeysPut
    <3>2. CASE p # Meta
      <4> DEFINE v == Confirm(d, p, Version(p) + 1)
                 x == Pushing(work[d].todo, v)
      <4>1. x.pc = "push" /\ x.vers = v /\ Turns(d, x)
        BY <2>5, PushedShape
      <4> HIDE DEF x
      <4>2. Version(p) + 1 \in Nat
        <5> HIDE DEF p
        <5> QED  BY <1>1, <2>2, CurrentShape
      <4>3. v[Meta] = work[d].vers[Meta]
        <5> HIDE DEF p
        <5> QED  BY <1>1, <2>2, <3>2, <4>2, ConfirmShape
      <4>4. Current(Meta)' = Current(Meta)
        <5> HIDE DEF p
        <5> QED  BY <1>1, <2>2, <2>5, <3>2, Mutation
      <4> HIDE DEF v, p
      <4>5. KeysHeld(d)'
        BY <2>1, <2>3, <4>1, <4>3, KeysTurnOn
      <4> QED  BY <4>4, <4>5, SamePasses
    <3> QED  BY <3>1, <3>2
  <2> QED  BY <2>1, <2>4, <2>5
<1>7. CASE SendDelete(d)
  <2>1. PICK c \in work[d].todo :
          /\ c.path \in Paths
          /\ \/ /\ work[d].vers[c.path] = Version(c.path) /\ Applied(c.path, Missing)
                /\ Turns(d, Pushing(work[d].todo \ {c}, Confirm(d, c.path, Version(c.path) + 1)))
             \/ UNCHANGED server /\ Turns(d, Pushing(work[d].todo \ {c}, work[d].vers))
    BY <1>7, SendDeleteDoes
  <2>2. work[d].pc = "push" /\ UNCHANGED <<disk, stored, dialog, history, counts>>
    BY <1>7, SendDeleteDoes
  <2>3. disk' = disk /\ versions' = versions
    BY <2>2 DEF stored
  <2>4. Missing \in Files /\ KeysOf(Missing) = {} /\ ~IsObject(Missing)
    BY ObjectsShape
  <2>5. CASE UNCHANGED server /\ Turns(d, Pushing(work[d].todo \ {c}, work[d].vers))
    <3> DEFINE x == Pushing(work[d].todo \ {c}, work[d].vers)
    <3>1. x.pc = "push" /\ x.vers = work[d].vers /\ Turns(d, x)
      BY <2>5, PushedShape
    <3> HIDE DEF x
    <3>2. KeysHeld(d)'
      BY <2>2, <2>3, <3>1, KeysTurnOn
    <3> QED  BY <1>1, <2>5, <3>2, NoMutation, SamePasses
  <2>6. CASE /\ work[d].vers[c.path] = Version(c.path) /\ Applied(c.path, Missing)
             /\ Turns(d, Pushing(work[d].todo \ {c}, Confirm(d, c.path, Version(c.path) + 1)))
    <3>1. CASE c.path = Meta
      <4>1. versions[d][Meta] <= Version(Meta)
        BY <2>2, <2>6, <3>1 DEF KeysHeld
      <4>2. /\ Applied(Meta, Missing) /\ work[d].pc # "idle"
            /\ Turns(d, Pushing(work[d].todo \ {c}, Confirm(d, Meta, Version(Meta) + 1)))
        BY <2>2, <2>6, <3>1
      <4> QED  BY <1>1, <2>3, <2>4, <4>1, <4>2, KeysPut
    <3>2. CASE c.path # Meta
      <4> DEFINE v == Confirm(d, c.path, Version(c.path) + 1)
                 x == Pushing(work[d].todo \ {c}, v)
      <4>1. x.pc = "push" /\ x.vers = v /\ Turns(d, x)
        BY <2>6, PushedShape
      <4> HIDE DEF x
      <4>2. Version(c.path) + 1 \in Nat
        BY <1>1, <2>1, CurrentShape
      <4>3. v[Meta] = work[d].vers[Meta]
        BY <1>1, <2>1, <3>2, <4>2, ConfirmShape
      <4>4. Current(Meta)' = Current(Meta)
        BY <1>1, <2>1, <2>4, <2>6, <3>2, Mutation
      <4> HIDE DEF v
      <4>5. KeysHeld(d)'
        BY <2>2, <2>3, <4>1, <4>3, KeysTurnOn
      <4> QED  BY <4>4, <4>5, SamePasses
    <3> QED  BY <3>1, <3>2
  <2> QED  BY <2>1, <2>5, <2>6
<1> QED  BY <1>3, <1>4, <1>5, <1>6, <1>7

LEMMA MergeKeys ==
    ASSUME TypeOK, FoldersBare, NEW d \in Devices, Shape(d), KeysHeld(d), Grows, Marks, WriteMerge(d)
    PROVE  KeysHeld(d)' /\ KeysPass
<1> DEFINE p == work[d].path
           m == MergeBookletJson(work[d].local, Text(work[d].remote))
           w == [work[d] EXCEPT !.pc = "resend", !.local = m]
<1>1. ServerOK /\ Meta \in Paths /\ disk[d] \in [Paths -> Files]
  BY PathsShape, TypesOfDevice DEF TypeOK, FoldersBare, ServerOK
<1>2. /\ work[d].pc = "merge" /\ UNCHANGED <<server, stored, dialog, history, counts>>
      /\ Rewrites(d, [disk[d] EXCEPT ![p] = m]) /\ Turns(d, w)
  BY WriteMergeDoes
<1>3. w.pc = "resend" /\ w.path = p /\ w.local = m /\ w.vers = work[d].vers /\ w.version = work[d].version
  BY TypesOfDevice DEF Worker
<1>4. /\ versions' = versions /\ unread' = unread
      /\ Current(Meta)' = Current(Meta) /\ Version(Meta)' = Version(Meta)
  BY <1>1, <1>2, NoMutation DEF stored, history
<1>5. CASE p # Meta
  <2>1. disk'[d][Meta] = disk[d][Meta]
    BY <1>1, <1>2, <1>5 DEF Rewrites
  <2>2. w.path # Meta /\ w.pc \notin {"rows", "apply"} /\ work[d].pc # "idle" /\ w.vers[Meta] = work[d].vers[Meta]
    BY <1>2, <1>3, <1>5
  <2>3. Turns(d, w)
    BY <1>2
  <2> HIDE DEF w, p
  <2> QED  BY <1>4, <2>1, <2>2, <2>3, KeysTurnOn, SamePasses
<1>6. CASE p = Meta
  <2>1. disk'[d][Meta] = m
    BY <1>1, <1>2, <1>6 DEF Rewrites
  <2>2. /\ work[d].vers[Meta] < work[d].version /\ work[d].version <= Version(Meta)
        /\ versions[d][Meta] <= work[d].vers[Meta]
        /\ work[d].version = Version(Meta) => work[d].remote = Current(Meta)
    BY <1>2, <1>6 DEF KeysHeld, OnMeta
  <2>3. /\ versions[d][Meta] \in Nat /\ work[d].vers[Meta] \in Nat /\ work[d].version \in Nat
        /\ Version(Meta) \in Nat
    BY <1>1, TypesOfDevice, CurrentShape
  <2>4. IsObject(m) => KeysOf(work[d].remote) \subseteq KeysOf(m)
    <3>1. work[d].local \in Files /\ Text(work[d].remote) \in Files
      BY TypesOfDevice, ObjectsShape DEF Text
    <3>2. KeysOf(Text(work[d].remote)) = KeysOf(work[d].remote)
      BY ObjectsShape DEF Text
    <3>3. /\ IsObject(m) = IsObject(work[d].local)
          /\ KeysOf(m) = KeysOf(work[d].local)
                            \cup (IF IsObject(work[d].local) THEN KeysOf(Text(work[d].remote)) ELSE {})
      BY <3>1, MergedShape
    <3> HIDE DEF m
    <3> QED  BY <3>2, <3>3
  <2>5. IsObject(m) => Reads(work[d].version, KeysOf(m))
    BY <2>2, <2>4 DEF Reads
  <2>6. Turns(d, w)
    BY <1>2
  <2> HIDE DEF w, m, p
  <2>7. /\ Reads(versions[d][Meta], KeysOf(m)) /\ Reads(work[d].vers[Meta], KeysOf(m))
    BY <2>2, <2>3 DEF Reads
  <2>8. KeysHeld(d)'
    BY <1>3, <1>4, <1>6, <2>1, <2>2, <2>5, <2>6, <2>7 DEF KeysHeld, Turns, OnMeta, Receiving, Reads
  <2> QED  BY <1>4, <2>8, SamePasses
<1> QED  BY <1>5, <1>6

LEMMA CopyKeys ==
    ASSUME TypeOK, FoldersBare, NEW d \in Devices, Shape(d), KeysHeld(d), Grows, Marks, WriteCopy(d)
    PROVE  KeysHeld(d)' /\ KeysPass
<1> DEFINE p == work[d].path
           r == Text(work[d].remote)
           v == Confirm(d, p, work[d].version)
<1>1. PICK q \in Copies \ {p} :
        /\ Rewrites(d, [disk[d] EXCEPT ![q] = work[d].local, ![p] = r])
        /\ Turns(d, [work[d] EXCEPT !.pc = "sendcopy", !.copy = q, !.vers = v])
  BY WriteCopyDoes
<1> DEFINE t == [disk[d] EXCEPT ![q] = work[d].local, ![p] = r]
           w == [work[d] EXCEPT !.pc = "sendcopy", !.copy = q, !.vers = v]
<1>2. work[d].pc = "copy" /\ UNCHANGED <<server, stored, dialog, history, counts>>
  BY WriteCopyDoes
<1>3. /\ ServerOK /\ Meta \in Paths /\ disk[d] \in [Paths -> Files] /\ q \in Paths /\ q # Meta /\ q # p
      /\ p \in Paths /\ work[d].version \in Nat
  BY <1>1, PathsShape, TypesOfDevice DEF TypeOK, FoldersBare, ServerOK
<1>4. w.pc = "sendcopy" /\ w.vers = v /\ Turns(d, w)
  BY <1>1, TypesOfDevice DEF Worker
<1>5. /\ versions' = versions /\ unread' = unread
      /\ Current(Meta)' = Current(Meta) /\ Version(Meta)' = Version(Meta)
  BY <1>2, <1>3, NoMutation DEF stored, history
<1>6. t[Meta] = IF p = Meta THEN r ELSE disk[d][Meta]
  BY <1>3
<1>7. v[Meta] = IF p = Meta THEN work[d].version ELSE work[d].vers[Meta]
  <2> HIDE DEF p
  <2> QED  BY <1>3, ConfirmShape
<1>8. disk'[d][Meta] = t[Meta]
  BY <1>1 DEF Rewrites
<1> HIDE DEF w, t, v
<1>9. CASE p # Meta
  <2> HIDE DEF p
  <2> QED  BY <1>2, <1>4, <1>5, <1>6, <1>7, <1>8, <1>9, KeysTurnOn, SamePasses
<1>10. CASE p = Meta
  <2>1. /\ work[d].vers[Meta] < work[d].version /\ work[d].version <= Version(Meta)
        /\ versions[d][Meta] <= work[d].vers[Meta]
        /\ work[d].version = Version(Meta) => work[d].remote = Current(Meta)
    BY <1>2, <1>10 DEF KeysHeld, OnMeta
  <2>2. /\ versions[d][Meta] \in Nat /\ work[d].vers[Meta] \in Nat /\ work[d].version \in Nat
        /\ Version(Meta) \in Nat
    BY <1>3, TypesOfDevice, CurrentShape
  <2>3. KeysOf(r) = KeysOf(work[d].remote)
    BY ObjectsShape DEF Text
  <2> HIDE DEF p, r
  <2>4. disk'[d][Meta] = r /\ w.vers[Meta] = work[d].version
    BY <1>4, <1>6, <1>7, <1>8, <1>10
  <2>5. Reads(versions[d][Meta], KeysOf(r)) /\ Reads(work[d].version, KeysOf(r)) /\ versions[d][Meta] <= work[d].version
    BY <2>1, <2>2, <2>3 DEF Reads
  <2>6. KeysHeld(d)'
    BY <1>4, <1>5, <2>4, <2>5 DEF KeysHeld, Turns, OnMeta, Receiving, Reads
  <2> QED  BY <1>5, <2>6, SamePasses
<1> QED  BY <1>9, <1>10

LEMMA ConflictKeys ==
    ASSUME TypeOK, FoldersBare, NEW d \in Devices, Shape(d), KeysHeld(d), Grows, Marks,
           ReadBack(d) \/ Resend(d) \/ SendCopy(d)
    PROVE  KeysHeld(d)' /\ KeysPass
<1>1. ServerOK /\ Meta \in Paths
  BY PathsShape DEF TypeOK, FoldersBare, ServerOK
<1>2. CASE ReadBack(d)
  <2>1. PICK pc \in {"copy", "merge"} :
           Turns(d, [work[d] EXCEPT !.local = disk[d][work[d].path], !.pc = pc])
    BY <1>2, ReadBackDoes
  <2> DEFINE w == [work[d] EXCEPT !.local = disk[d][work[d].path], !.pc = pc]
  <2>2. work[d].pc = "lost" /\ UNCHANGED <<server, disk, stored, dialog, history, counts>>
    BY <1>2, ReadBackDoes
  <2>3. /\ w.pc \in {"copy", "merge"} /\ w.path = work[d].path /\ w.vers = work[d].vers
        /\ w.version = work[d].version /\ w.remote = work[d].remote /\ Turns(d, w)
    BY <2>1, TypesOfDevice DEF Worker
  <2> HIDE DEF w
  <2>4. /\ disk' = disk /\ versions' = versions /\ unread' = unread
        /\ Current(Meta)' = Current(Meta) /\ Version(Meta)' = Version(Meta)
    BY <1>1, <2>2, NoMutation DEF stored, history
  <2>5. KeysHeld(d)'
    BY <2>2, <2>3, <2>4 DEF KeysHeld, Turns, OnMeta, Receiving, Reads
  <2> QED  BY <2>4, <2>5, SamePasses
<1>3. CASE Resend(d)
  <2> DEFINE p == work[d].path
  <2>1. /\ work[d].pc = "resend" /\ UNCHANGED <<disk, stored, dialog, counts>>
        /\ \/ /\ work[d].version = Version(p) /\ Applied(p, work[d].local)
              /\ Turns(d, Pushing(work[d].todo, Confirm(d, p, Version(p) + 1)))
           \/ UNCHANGED server /\ Turns(d, Pushing(work[d].todo, work[d].vers))
    BY <1>3, ResendDoes
  <2>2. p \in Paths /\ p # Folder /\ work[d].local \in Files
    BY <2>1, TypesOfDevice DEF Shape, Holding
  <2>3. disk' = disk /\ versions' = versions
    BY <2>1 DEF stored
  <2>4. CASE UNCHANGED server /\ Turns(d, Pushing(work[d].todo, work[d].vers))
    <3> DEFINE x == Pushing(work[d].todo, work[d].vers)
    <3>1. x.pc = "push" /\ x.vers = work[d].vers /\ Turns(d, x)
      BY <2>4, PushedShape
    <3> HIDE DEF x
    <3>2. KeysHeld(d)'
      BY <2>1, <2>3, <3>1, KeysTurnOn
    <3> QED  BY <1>1, <2>4, <3>2, NoMutation, SamePasses
  <2>5. CASE /\ work[d].version = Version(p) /\ Applied(p, work[d].local)
             /\ Turns(d, Pushing(work[d].todo, Confirm(d, p, Version(p) + 1)))
    <3>1. CASE p = Meta
      <4>1. /\ KeysOf(work[d].local) \subseteq KeysOf(disk[d][Meta]) \cup unread
            /\ IsObject(work[d].local) => Reads(Version(Meta), KeysOf(work[d].local))
            /\ versions[d][Meta] <= work[d].vers[Meta] /\ work[d].vers[Meta] < Version(Meta)
        BY <2>1, <2>5, <3>1 DEF KeysHeld, OnMeta
      <4>2. versions[d][Meta] <= Version(Meta)
        <5>1. versions[d][Meta] \in Nat /\ work[d].vers[Meta] \in Nat /\ Version(Meta) \in Nat
          BY <1>1, TypesOfDevice, CurrentShape
        <5> QED  BY <4>1, <5>1
      <4>3. /\ Applied(Meta, work[d].local) /\ work[d].pc # "idle"
            /\ Turns(d, Pushing(work[d].todo, Confirm(d, Meta, Version(Meta) + 1)))
        BY <2>1, <2>5, <3>1
      <4> HIDE DEF p
      <4> QED  BY <1>1, <2>2, <2>3, <4>1, <4>2, <4>3, KeysPut
    <3>2. CASE p # Meta
      <4> DEFINE v == Confirm(d, p, Version(p) + 1)
                 x == Pushing(work[d].todo, v)
      <4>1. x.pc = "push" /\ x.vers = v /\ Turns(d, x)
        BY <2>5, PushedShape
      <4> HIDE DEF x
      <4>2. Version(p) + 1 \in Nat
        <5> HIDE DEF p
        <5> QED  BY <1>1, <2>2, CurrentShape
      <4>3. v[Meta] = work[d].vers[Meta]
        <5> HIDE DEF p
        <5> QED  BY <1>1, <2>2, <3>2, <4>2, ConfirmShape
      <4>4. Current(Meta)' = Current(Meta)
        <5> HIDE DEF p
        <5> QED  BY <1>1, <2>2, <2>5, <3>2, Mutation
      <4> HIDE DEF v, p
      <4>5. KeysHeld(d)'
        BY <2>1, <2>3, <4>1, <4>3, KeysTurnOn
      <4> QED  BY <4>4, <4>5, SamePasses
    <3> QED  BY <3>1, <3>2
  <2> QED  BY <2>1, <2>4, <2>5
<1>4. CASE SendCopy(d)
  <2> DEFINE q == work[d].copy
             v == Confirm(d, q, 1)
  <2>1. /\ work[d].pc = "sendcopy" /\ UNCHANGED <<disk, stored, dialog, counts>>
        /\ \/ Applied(q, work[d].local) /\ Turns(d, Pushing(work[d].todo, v))
           \/ UNCHANGED server /\ Turns(d, Pushing(work[d].todo, work[d].vers))
    BY <1>4, SendCopyDoes
  <2>2. q \in Paths /\ q # Folder /\ q # Meta /\ work[d].local \in Files
    BY <2>1, TypesOfDevice, PathsShape DEF Shape, At
  <2>3. disk' = disk /\ versions' = versions
    BY <2>1 DEF stored
  <2>4. v[Meta] = work[d].vers[Meta]
    <3> HIDE DEF q
    <3> QED  BY <1>1, <2>2, ConfirmShape
  <2>5. Current(Meta)' = Current(Meta)
    <3> HIDE DEF q, v
    <3> QED  BY <1>1, <2>1, <2>2, Mutation, NoMutation
  <2> HIDE DEF v, q
  <2>6. ASSUME NEW u, u[Meta] = work[d].vers[Meta], Turns(d, Pushing(work[d].todo, u))
        PROVE  KeysHeld(d)'
    <3> DEFINE x == Pushing(work[d].todo, u)
    <3>1. x.pc = "push" /\ x.vers = u /\ Turns(d, x)
      BY <2>6, PushedShape
    <3> HIDE DEF x
    <3> QED  BY <2>1, <2>3, <2>6, <3>1, KeysTurnOn
  <2>7. KeysHeld(d)'
    BY <2>1, <2>4, <2>6
  <2> QED  BY <2>5, <2>7, SamePasses
<1> QED  BY <1>2, <1>3, <1>4

\* What a change of the feed makes of booklet.json.
LEMMA ReceivedShape ==
    ASSUME NEW tree \in [Paths -> Files], NEW item \in Item
    PROVE  /\ item.path \in Paths /\ item.version \in Nat /\ item.content \in Files
           /\ \A p \in Paths \ {Folder} :
                 Received(tree, item)[p] = IF p = item.path THEN item.content ELSE tree[p]
           /\ item.content \in {Blank, Missing} \/ item.path # Folder =>
                 Received(tree, item)[Folder] \in {Blank, Missing, tree[Folder]}
<1>1. item.path \in Paths /\ item.version \in Nat /\ item.content \in Files /\ Folder \in Paths
  BY PathsShape DEF Item
<1>2. ASSUME NEW p \in Paths \ {Folder}
      PROVE  Received(tree, item)[p] = IF p = item.path THEN item.content ELSE tree[p]
  BY <1>1 DEF Received
<1>3. item.content \in {Blank, Missing} \/ item.path # Folder =>
         Received(tree, item)[Folder] \in {Blank, Missing, tree[Folder]}
  BY <1>1 DEF Received
<1> QED  BY <1>1, <1>2, <1>3

LEMMA PullKeys ==
    ASSUME TypeOK, FoldersBare, NEW d \in Devices, Shape(d), KeysHeld(d), Grows, Marks,
           EndPush(d) \/ GetChanges(d) \/ GetCursor(d) \/ ApplyChange(d) \/ EndPull(d)
             \/ FileVanished(d) \/ Abandon(d)
    PROVE  KeysHeld(d)' /\ KeysPass
<1>1. ServerOK /\ Meta \in Paths /\ Meta # Folder /\ disk[d] \in [Paths -> Files]
  BY PathsShape, TypesOfDevice DEF TypeOK, FoldersBare, ServerOK, Folder, Meta
<1>2. UNCHANGED <<server, history>> =>
         unread' = unread /\ Current(Meta)' = Current(Meta) /\ Version(Meta)' = Version(Meta)
  BY <1>1, NoMutation DEF history
<1>3. versions[d][Meta] \in Nat /\ work[d].vers[Meta] \in Nat /\ Version(Meta) \in Nat
  BY <1>1, TypesOfDevice, CurrentShape
<1>4. CASE EndPush(d)
  <2> DEFINE w == [work[d] EXCEPT !.pc = "pull"]
  <2>1. /\ work[d].pc = "push" /\ UNCHANGED <<server, disk, versions, cursor, raced, dialog, history, counts>>
        /\ Turns(d, w)
    BY <1>4, EndPushDoes
  <2>2. w.pc = "pull" /\ w.vers = work[d].vers
    BY TypesOfDevice DEF Worker
  <2> HIDE DEF w
  <2>3. KeysHeld(d)'
    BY <2>1, <2>2, KeysTurnOn
  <2> QED  BY <1>2, <2>1, <2>3, SamePasses
<1>5. CASE GetChanges(d)
  <2> DEFINE page == Feed(cursor[d])
             w == [work[d] EXCEPT !.pc = "rows", !.page = page, !.at = seq]
  <2>1. /\ work[d].pc = "pull" /\ UNCHANGED <<server, disk, stored, dialog, history, counts>> /\ Turns(d, w)
    BY <1>5, GetChangesDoes
  <2>2. w.pc = "rows" /\ w.page = page /\ w.vers = work[d].vers
    BY TypesOfDevice DEF Worker
  <2> HIDE DEF w, page
  <2>3. \A item \in page : item.path = Meta => item.version = Version(Meta) /\ item.content = Current(Meta)
    BY <1>1, FeedShape DEF page
  <2>4. versions[d][Meta] <= Version(Meta) /\ Version(Meta) <= Version(Meta)
    BY <1>3 DEF KeysHeld, Reads
  <2>5. disk' = disk /\ versions' = versions
    BY <2>1 DEF stored
  <2>6. KeysHeld(d)'
    BY <1>2, <2>1, <2>2, <2>3, <2>4, <2>5 DEF KeysHeld, Turns, OnMeta, Receiving, Reads
  <2> QED  BY <1>2, <2>1, <2>6, SamePasses
<1>6. CASE ApplyChange(d)
  <2>1. PICK item \in work[d].page :
          /\ item \in Item /\ Rewrites(d, Received(disk[d], item))
          /\ Turns(d, [work[d] EXCEPT !.page = work[d].page \ {item},
                                      !.vers = Confirm(d, item.path, item.version)])
    BY <1>6, ApplyChangeDoes
  <2> DEFINE v == Confirm(d, item.path, item.version)
             w == [work[d] EXCEPT !.page = work[d].page \ {item}, !.vers = v]
  <2>2. work[d].pc = "apply" /\ UNCHANGED <<server, stored, dialog, history, counts>>
    BY <1>6, ApplyChangeDoes
  <2>3. w.pc = "apply" /\ w.page = work[d].page \ {item} /\ w.vers = v /\ Turns(d, w)
    BY <2>1, <2>2, TypesOfDevice DEF Worker
  <2>4. item.path \in Paths /\ item.version \in Nat
    BY <2>1 DEF Item
  <2>5. v[Meta] = IF item.path = Meta THEN item.version ELSE work[d].vers[Meta]
    BY <1>1, <2>4, ConfirmShape
  <2> HIDE DEF w, v
  <2>6. disk'[d][Meta] = IF item.path = Meta THEN item.content ELSE disk[d][Meta]
    BY <1>1, <2>1, ReceivedShape DEF Rewrites
  <2>7. \A other \in work[d].page : other.path = Meta =>
           /\ versions[d][Meta] <= other.version /\ other.version <= Version(Meta)
           /\ other.version = Version(Meta) => other.content = Current(Meta)
    BY <2>2 DEF KeysHeld, Receiving
  <2>8. versions' = versions
    BY <2>2 DEF stored
  <2>9. /\ Reads(versions[d][Meta], KeysOf(disk'[d][Meta])) /\ Reads(v[Meta], KeysOf(disk'[d][Meta]))
        /\ versions[d][Meta] <= v[Meta]
    <3>1. CASE item.path = Meta
      BY <1>3, <2>4, <2>5, <2>6, <2>7, <3>1 DEF Reads
    <3>2. CASE item.path # Meta
      BY <2>2, <2>5, <2>6, <3>2 DEF KeysHeld
    <3> QED  BY <3>1, <3>2
  <2>10. KeysHeld(d)'
    BY <1>2, <2>2, <2>3, <2>7, <2>8, <2>9 DEF KeysHeld, Turns, OnMeta, Receiving, Reads
  <2> QED  BY <1>2, <2>2, <2>10, SamePasses
<1>7. CASE EndPull(d)
  <2>1. /\ work[d].pc = "apply" /\ UNCHANGED <<server, disk, dialog, history, counts>>
        /\ versions' = [versions EXCEPT ![d] = work[d].vers] /\ Turns(d, Resting)
    BY <1>7, EndPullDoes
  <2>2. Resting.pc = "idle"
    BY DEF Resting
  <2>3. versions'[d] = work[d].vers
    BY <2>1 DEF TypeOK
  <2>4. KeysHeld(d)'
    BY <1>2, <2>1, <2>2, <2>3 DEF KeysHeld, Turns, OnMeta, Receiving, Reads
  <2> QED  BY <1>2, <2>1, <2>4, SamePasses
<1>8. CASE FileVanished(d) \/ Abandon(d)
  <2>1. UNCHANGED <<server, disk, stored, dialog, history, made, books, deletes>> /\ Turns(d, Resting)
    BY <1>8, FailsDoes
  <2>2. Resting.pc = "idle"
    BY DEF Resting
  <2>3. disk' = disk /\ versions' = versions
    BY <2>1 DEF stored
  <2>4. KeysHeld(d)'
    BY <2>1, <2>2, <2>3, KeysTurn
  <2> QED  BY <1>2, <2>1, <2>4, SamePasses
<1>9. CASE GetCursor(d)
  <2> DEFINE w == [work[d] EXCEPT !.pc = "apply", !.cursor = seq]
  <2>1. /\ work[d].pc = "rows" /\ UNCHANGED <<server, disk, stored, dialog, history, counts>> /\ Turns(d, w)
    BY <1>9, GetCursorDoes
  <2>2. w.pc = "apply" /\ w.page = work[d].page /\ w.vers = work[d].vers
    BY TypesOfDevice DEF Worker
  <2> HIDE DEF w
  <2>3. disk' = disk /\ versions' = versions
    BY <2>1 DEF stored
  <2>4. KeysHeld(d)'
    BY <1>2, <2>1, <2>2, <2>3 DEF KeysHeld, Turns, OnMeta, Receiving, Reads
  <2> QED  BY <1>2, <2>1, <2>4, SamePasses
<1> QED  BY <1>4, <1>5, <1>6, <1>7, <1>8, <1>9

LEMMA UserKeys ==
    ASSUME TypeOK, FoldersBare, NEW d \in Devices, Shape(d), KeysHeld(d), Grows, Marks,
           User(d) \/ WriteBinding(d)
    PROVE  KeysHeld(d)' /\ KeysPass
<1>1. ServerOK /\ Meta \in Paths /\ Meta # Folder /\ disk[d] \in [Paths -> Files] /\ disk[d][Meta] \in Files
  <2>1. ServerOK
    BY DEF TypeOK, FoldersBare, ServerOK
  <2>2. Meta \in Paths /\ Meta # Folder
    BY PathsShape DEF Folder, Meta
  <2>3. disk[d] \in [Paths -> Files]
    BY TypesOfDevice
  <2> QED  BY <2>1, <2>2, <2>3
<1>2. work' = work /\ versions' = versions /\ UNCHANGED server /\ unread \subseteq unread'
  BY UserDoes DEF stored, Marks
<1>3. Current(Meta)' = Current(Meta) /\ Version(Meta)' = Version(Meta)
  BY <1>1, <1>2, NoMutation
<1>4. disk \in [Devices -> [Paths -> Files]]
  BY DEF TypeOK
<1>5. KeysOf(disk[d][Meta]) \subseteq KeysOf(disk'[d][Meta]) \cup unread'
  <2>1. CASE CreateBook(d)
    BY <1>1, <1>4, <2>1 DEF CreateBook
  <2>2. CASE DeleteBook(d)
    BY <2>2 DEF DeleteBook
  <2>3. CASE OpenBinding(d) \/ SaveBinding(d, "color") \/ SaveBinding(d, "shelf")
    BY <2>3 DEF OpenBinding, SaveBinding
  <2>4. CASE WriteBinding(d)
    <3> DEFINE b == Bound(dialog[d].existing, dialog[d].color, dialog[d].shelf)
    <3>1. b \in Objects
      BY TypesOfDevice, BoundShape DEF Dialog
    <3>2. KeysOf(b) = DOMAIN b
      BY <3>1, ObjectsShape
    <3>3. \/ disk' = disk
          \/ /\ disk' = [disk EXCEPT ![d][Meta] = b]
             /\ unread' = unread \cup (KeysOf(disk[d][Meta]) \ DOMAIN b)
      BY <2>4 DEF WriteBinding
    <3> HIDE DEF b
    <3> QED  BY <1>1, <1>4, <3>2, <3>3
  <2>5. CASE AddKey(d)
    <3> DEFINE f == Over([own |-> made + 1], disk[d][Meta])
    <3>1. made' = made + 1 /\ made < env.choices /\ IsObject(disk[d][Meta]) /\ disk' = [disk EXCEPT ![d][Meta] = f]
      BY <2>5 DEF AddKey
    <3>2. made + 1 \in 0 .. MaxChoices
      BY <3>1, EnvironmentAssumption, NamesAssumption DEF TypeOK
    <3>3. [own |-> made + 1] \in Objects
      <4>1. [own |-> made + 1] \in [{"own"} -> 0 .. MaxChoices] /\ {"own"} \in SUBSET Keys
        BY <3>2 DEF Keys
      <4> QED  BY <4>1 DEF Objects
    <3>4. disk[d][Meta] \in Objects
      BY <1>1, <3>1, ObjectsShape
    <3>5. f \in Objects /\ DOMAIN disk[d][Meta] \subseteq DOMAIN f
      <4> DEFINE o == [own |-> made + 1]
                 e == disk[d][Meta]
      <4>1. o \in Objects /\ e \in Objects
        BY <3>3, <3>4
      <4> HIDE DEF o, e
      <4>2. Over(o, e) \in Objects /\ DOMAIN (Over(o, e)) = DOMAIN o \cup DOMAIN e
        BY <4>1, LaidOver
      <4>3. DOMAIN e \subseteq DOMAIN (Over(o, e))
        BY <4>2
      <4> QED  BY <4>2, <4>3 DEF o, e
    <3> HIDE DEF f
    <3>6. KeysOf(disk[d][Meta]) \subseteq KeysOf(f)
      BY <3>4, <3>5, ObjectsShape
    <3> QED  BY <1>1, <1>4, <3>1, <3>6
  <2>6. CASE Mangle(d)
    BY <2>6 DEF Mangle
  <2> QED  BY <2>1, <2>2, <2>3, <2>4, <2>5, <2>6 DEF User
<1>6. \A n : Reads(n, KeysOf(disk[d][Meta])) => ReadsNext(n, KeysOf(disk'[d][Meta]))
  BY <1>2, <1>3, <1>5 DEF Reads, ReadsNext
<1>7. \A n, keys : Reads(n, keys) => ReadsNext(n, keys)
  BY <1>2, <1>3 DEF Reads, ReadsNext
<1>8. /\ OnMeta(d, {"send", "resend"}) => KeysOf(work[d].local) \subseteq KeysOf(disk'[d][Meta]) \cup unread'
      /\ ReadsNext(versions[d][Meta], KeysOf(disk'[d][Meta]))
      /\ work[d].pc # "idle" => /\ ReadsNext(work[d].vers[Meta], KeysOf(disk'[d][Meta]))
                                /\ versions[d][Meta] <= work[d].vers[Meta]
      /\ OnMeta(d, {"send"}) => ReadsNext(work[d].vers[Meta], KeysOf(work[d].local))
      /\ OnMeta(d, {"resend"}) /\ IsObject(work[d].local) => ReadsNext(work[d].version, KeysOf(work[d].local))
  BY <1>2, <1>5, <1>6, <1>7 DEF KeysHeld
<1>9. KeysHeld(d)'
  BY <1>2, <1>3, <1>8 DEF KeysHeld, OnMeta, Receiving, Reads, ReadsNext
<1> QED  BY <1>3, <1>9, SamePasses

LEMMA StepKeys ==
    ASSUME TypeOK, FoldersBare, NEW d \in Devices, Shape(d), KeysHeld(d), Step(d)
    PROVE  KeysHeld(d)' /\ KeysPass
<1>1. Grows /\ Marks
  BY StepSound DEF Sound
<1> QED  BY <1>1, PushKeys, MergeKeys, CopyKeys, ConflictKeys, PullKeys, UserKeys DEF Step, Cycle

----------------------------------------------------------------------------
(***************************************************************************)
(* Keys survive                                                            *)
(***************************************************************************)
KInv == TypeOK /\ FoldersBare /\ \A d \in Devices : Shape(d) /\ KeysHeld(d)

\* How a behaviour begins: every device has the server's files.
LEMMA InitShape ==
    ASSUME Init
    PROVE  /\ TypeOK /\ FoldersBare
           /\ \E files \in [Paths -> Files] :
                 /\ files[Folder] \in {Blank, Missing} /\ \A p \in Paths : Held(files[p]) = {}
                 /\ files[Meta] \notin Objects => files[Meta] = Missing
                 /\ \A p \in Paths : hist[p] = IF files[p] = Missing THEN <<>> ELSE <<files[p]>>
                 /\ \A d \in Devices : disk[d] = files /\ manifest[d] = files
           /\ \A d \in Devices : /\ work[d] = Resting /\ dialog[d] = Closed
                                 /\ versions[d][Meta] = Version(Meta)
           /\ made = 0 /\ excused = {} /\ unread = {}
<1> DEFINE o == [k \in {"color", "shelf"} |-> 0]
<1>1. o \in Objects /\ Held(o) = {} /\ o \in Files
  <2>1. 0 \in 0 .. MaxChoices /\ {"color", "shelf"} \in SUBSET Keys
    BY NamesAssumption DEF Keys
  <2>2. o \in Objects
    <3>1. o \in [{"color", "shelf"} -> 0 .. MaxChoices]
      BY <2>1
    <3> HIDE DEF o
    <3> QED  BY <2>1, <3>1 DEF Objects
  <2>3. KeysOf(o) = {"color", "shelf"} /\ o \in Files
    BY <2>2, ObjectsShape
  <2>4. Held(o) = {}
    BY <2>3 DEF Held
  <2> QED  BY <2>2, <2>3, <2>4
<1>2. Shared = [Nothing EXCEPT ![Folder] = Blank, ![Meta] = o]
  BY DEF Shared
<1> HIDE DEF o
<1>3. Folder \in Paths /\ Meta \in Paths /\ Folder # Meta /\ Missing \in Files /\ Blank \in Files
  BY PathsShape, ObjectsShape DEF Folder, Meta
<1> DEFINE files == IF env.shared THEN Shared ELSE Nothing
           upto(p) == IF files[p] = Missing THEN 0 ELSE p
<1>4. Nothing \in [Paths -> Files] /\ \A p \in Paths : Nothing[p] = Missing
  BY <1>3 DEF Nothing
<1>5. /\ files \in [Paths -> Files] /\ files[Folder] \in {Blank, Missing}
      /\ \A p \in Paths : files[p] \in {Blank, Missing, o}
      /\ files[Meta] \in {Missing, o}
  BY <1>1, <1>2, <1>3, <1>4
<1>6. /\ env \in Environments
      /\ hist = [p \in Paths |-> IF files[p] = Missing THEN <<>> ELSE <<files[p]>>]
      /\ last = [p \in Paths |-> upto(p)] /\ seq = upto(Meta)
      /\ disk = [d \in Devices |-> files] /\ manifest = disk
      /\ versions = [d \in Devices |-> [p \in Paths |-> Len(hist[p])]]
      /\ cursor = [d \in Devices |-> seq] /\ raced = [d \in Devices |-> {}]
      /\ work = [d \in Devices |-> Resting] /\ dialog = [d \in Devices |-> Closed]
      /\ excused = {} /\ unread = {}
      /\ made = 0 /\ books = 0 /\ deletes = 0 /\ faults = 0
  BY DEF Init
<1>7. \A p \in Paths : p \in Nat /\ upto(p) \in Nat
  BY NamesAssumption DEF Paths, Folder, Meta
<1> HIDE DEF files
<1>8. hist \in [Paths -> Seq(Files)] /\ hist[Folder] \in Seq({Blank, Missing})
  <2> DEFINE B == {Blank, Missing}
             s == [p \in Paths |-> IF files[p] = Missing THEN <<>> ELSE <<files[p]>>]
  <2>1. \A p \in Paths : s[p] \in Seq(Files)
    BY <1>5
  <2>2. s \in [Paths -> Seq(Files)]
    BY <2>1
  <2>3. files[Folder] \in B
    BY <1>5
  <2> HIDE DEF B
  <2>4. s[Folder] \in Seq(B)
    BY <1>3, <2>3
  <2> QED  BY <1>6, <2>2, <2>4 DEF B
<1>9. /\ env.books \in Nat /\ env.deletes \in Nat /\ env.faults \in Nat /\ MaxChoices \in Nat
  BY <1>6, EnvironmentAssumption, NamesAssumption
<1>10. Closed \in Dialog
  BY <1>3, <1>9 DEF Closed, Dialog
<1> HIDE DEF upto
<1>11. last \in [Paths -> Nat] /\ seq \in Nat
  BY <1>3, <1>6, <1>7
<1>12. TypeOK
  <2>1. /\ disk \in [Devices -> [Paths -> Files]] /\ manifest \in [Devices -> [Paths -> Files]]
    BY <1>5, <1>6
  <2>2. /\ versions \in [Devices -> [Paths -> Nat]] /\ cursor \in [Devices -> Nat]
        /\ raced \in [Devices -> SUBSET Nat]
    BY <1>6, <1>8, <1>11
  <2>3. work \in [Devices -> Worker] /\ dialog \in [Devices -> Dialog]
    BY <1>6, <1>10, RestingShape
  <2>4. /\ made \in 0 .. MaxChoices /\ excused \subseteq Picks /\ unread \subseteq Keys
        /\ books \in 0 .. env.books /\ deletes \in 0 .. env.deletes /\ faults \in 0 .. env.faults
    BY <1>6, <1>9
  <2> QED  BY <1>6, <1>8, <1>11, <2>1, <2>2, <2>3, <2>4 DEF TypeOK
<1>13. \A d \in Devices : versions[d][Meta] = Version(Meta)
  BY <1>3, <1>6 DEF Version
<1>14. \A p \in Paths : Held(files[p]) = {}
  BY <1>1, <1>5, ShownHeld
<1>15. files[Meta] \notin Objects => files[Meta] = Missing
  BY <1>1, <1>5
<1>16. \A d \in Devices : disk[d] = files /\ manifest[d] = files /\ work[d] = Resting /\ dialog[d] = Closed
  BY <1>6
<1>17. \A p \in Paths : hist[p] = IF files[p] = Missing THEN <<>> ELSE <<files[p]>>
  BY <1>6
<1> QED  BY <1>5, <1>6, <1>8, <1>12, <1>13, <1>14, <1>15, <1>16, <1>17 DEF FoldersBare

LEMMA KInvInit == Init => KInv
<1> SUFFICES ASSUME Init PROVE KInv
  OBVIOUS
<1>1. PICK files \in [Paths -> Files] :
         /\ files[Folder] \in {Blank, Missing}
         /\ \A p \in Paths : hist[p] = IF files[p] = Missing THEN <<>> ELSE <<files[p]>>
         /\ \A d \in Devices : disk[d] = files
  BY InitShape
<1>2. TypeOK /\ FoldersBare
  BY InitShape
<1>3. ASSUME NEW d \in Devices
      PROVE  Shape(d) /\ KeysHeld(d)
  <2>1. work[d] = Resting /\ versions[d][Meta] = Version(Meta)
    BY InitShape
  <2>2. Resting.pc = "idle" /\ Resting.page = {}
    BY DEF Resting
  <2>3. Shape(d)
    BY <1>1, <2>1, <2>2 DEF Shape, Holding, At
  <2>4. KeysOf(Current(Meta)) \subseteq KeysOf(disk[d][Meta])
    <3>1. CASE files[Meta] = Missing
      <4>1. Current(Meta) = Missing
        BY <1>1, <3>1, PathsShape DEF Current
      <4> QED  BY <4>1, ObjectsShape
    <3>2. CASE files[Meta] # Missing
      <4>1. Current(Meta) = files[Meta]
        <5> DEFINE s == <<files[Meta]>>
        <5>1. hist[Meta] = s
          BY <1>1, <3>2, PathsShape
        <5>2. s # <<>> /\ Len(s) = 1 /\ s[1] = files[Meta]
          OBVIOUS
        <5> HIDE DEF s
        <5> QED  BY <5>1, <5>2 DEF Current, Last
      <4> QED  BY <1>1, <4>1
    <3> QED  BY <3>1, <3>2
  <2>5. Version(Meta) <= Version(Meta)
    BY <1>2, CurrentShape, PathsShape DEF TypeOK, FoldersBare, ServerOK
  <2>6. Reads(versions[d][Meta], KeysOf(disk[d][Meta]))
    BY <2>1, <2>4, <2>5 DEF Reads
  <2>7. KeysHeld(d)
    BY <2>1, <2>2, <2>6 DEF KeysHeld, OnMeta, Receiving
  <2> QED  BY <2>3, <2>7
<1> QED  BY <1>2, <1>3 DEF KInv

LEMMA KInvStep ==
    ASSUME KInv, NEW d \in Devices, Step(d)
    PROVE  KInv' /\ KeysPass
<1>1. TypeOK /\ FoldersBare /\ \A e \in Devices : Shape(e) /\ KeysHeld(e)
  BY DEF KInv
<1>2. Sound(d) /\ Shape(d)' /\ TypeOK' /\ FoldersBare'
  BY <1>1, StepSound
<1>3. KeysHeld(d)' /\ KeysPass
  BY <1>1, StepKeys
<1>4. ASSUME NEW e \in Devices, e # d
      PROVE  Shape(e)' /\ KeysHeld(e)'
  <2>1. Grows /\ Marks /\ Same(e)
    BY <1>2, <1>4 DEF Sound
  <2> QED  BY <1>1, <2>1, ShapeStays, KeysStay DEF Same
<1>5. \A e \in Devices : Shape(e)' /\ KeysHeld(e)'
  BY <1>2, <1>3, <1>4
<1>6. KInv'
  BY <1>2, <1>5 DEF KInv
<1> QED  BY <1>3, <1>6

LEMMA KInvStutter == ASSUME KInv, UNCHANGED vars PROVE KInv'
<1>1. /\ UNCHANGED <<hist, last, seq, disk, manifest, versions, cursor, raced, work, dialog, excused, unread, env>>
      /\ UNCHANGED <<made, books, deletes, faults>>
  BY DEF vars, server, stored, history, counts
<1>2. TypeOK' /\ FoldersBare'
  BY <1>1 DEF KInv, TypeOK, FoldersBare
<1>3. \A d \in Devices : Shape(d)'
  BY <1>1 DEF KInv, Shape, Holding, At
<1>4. Version(Meta)' = Version(Meta) /\ Current(Meta)' = Current(Meta)
  BY <1>1 DEF Version, Current
<1>5. \A d \in Devices : KeysHeld(d)'
  BY <1>1, <1>4 DEF KInv, KeysHeld, Reads, OnMeta, Receiving
<1> QED  BY <1>2, <1>3, <1>5 DEF KInv

\* The state keeps its types, and no version of a book's folder ever has content: a
\* folder is never sent, copied or merged as a file, whichever way a cycle goes.
THEOREM BookTypeCorrect == Spec => [](TypeOK /\ FoldersBare)
<1>1. KInv /\ [Next]_vars => KInv'
  BY KInvStep, KInvStutter, NextSteps
<1>2. KInv => TypeOK /\ FoldersBare
  BY DEF KInv
<1> QED  BY <1>1, <1>2, KInvInit, PTL DEF Spec

\* A key the application does not know survives merges: no mutation of booklet.json
\* (PUT, re-PUT after merge_booklet_json, of any device) drops a key of the version
\* before, unless a user gave the key up.
THEOREM UnknownKeysSurvive == Spec => KeysSurvive
<1>1. KInv /\ [Next]_vars => KInv'
  BY KInvStep, KInvStutter, NextSteps
<1>2. KInv /\ Next => KeysPass
  BY KInvStep, NextSteps
<1>3. KInv /\ [Next]_vars =>
         [IsObject(Current(Meta)) /\ IsObject(Current(Meta)')
             => DOMAIN Current(Meta) \ DOMAIN Current(Meta)' \subseteq unread]_vars
  BY <1>2 DEF KeysPass
<1> QED  BY <1>1, <1>3, KInvInit, PTL DEF Spec, KeysSurvive

----------------------------------------------------------------------------
(***************************************************************************)
(* Choices                                                                 *)
(***************************************************************************)
\* What a step of d does for the choices.
Faithful(d) ==
    /\ ChoicesHeld(d)' /\ DialogHolds(d)'
    /\ Around(d) \subseteq {0} \cup Durable' \cup Around(d)'
    /\ (1 .. made') \ (1 .. made) \subseteq Durable' \cup Around(d)'

LEMMA Levels ==
    ASSUME TypeOK, FoldersBare, UNCHANGED <<server, history>>
    PROVE  InHistory' = InHistory /\ Durable' = Durable
BY NoMutation DEF TypeOK, FoldersBare, ServerOK, Durable, history

\* The worker moves on, over files and a dialog that stay.
LEMMA ChoicesTurn ==
    ASSUME Grows, Marks, NEW d \in Devices, ChoicesHeld(d), DialogHolds(d),
           disk' = disk, dialog' = dialog, manifest'[d] \in {manifest[d], disk[d]}, made' = made,
           manifest'[d] = disk[d] => \A p \in Paths : Held(disk[d][p]) \subseteq Durable',
           NEW w, Turns(d, w), w.pc = "merge" => w.local = disk[d][w.path],
           Carries(w, disk[d], InHistory', Durable')
    PROVE  Faithful(d)
<1>1. Durable \subseteq Durable'
  BY DurableStays
<1>2. work'[d] = w
  BY DEF Turns
<1>3. \A p \in Paths : Held(manifest'[d][p]) \subseteq Durable'
  BY <1>1 DEF ChoicesHeld
<1>4. ChoicesHeld(d)'
  BY <1>2, <1>3 DEF ChoicesHeld
<1>5. Covers(dialog[d], w, disk[d][Meta], Durable')
  BY <1>1 DEF DialogHolds, Covers
<1>6. DialogHolds(d)'
  BY <1>2, <1>5 DEF DialogHolds
<1>7. Around(d)' = Around(d)
  BY DEF Around
<1> QED  BY <1>4, <1>6, <1>7 DEF Faithful

\* The worker writes files t.
LEMMA ChoicesWrite ==
    ASSUME TypeOK, FoldersBare, NEW d \in Devices, ChoicesHeld(d),
           UNCHANGED <<server, stored, dialog, history, counts>>,
           NEW w, Turns(d, w), NEW t, Rewrites(d, t), Carries(w, t, InHistory, Durable),
           Covers(dialog[d], w, t[Meta], Durable),
           \A p \in Paths : Held(disk[d][p]) \subseteq Durable \cup UNION {Held(t[q]) : q \in Paths}
    PROVE  Faithful(d)
<1>1. InHistory' = InHistory /\ Durable' = Durable
  BY Levels
<1>2. work'[d] = w /\ disk'[d] = t /\ dialog' = dialog /\ manifest' = manifest /\ made' = made
  BY DEF Turns, Rewrites, stored, counts
<1>3. ChoicesHeld(d)'
  BY <1>1, <1>2 DEF ChoicesHeld
<1>4. DialogHolds(d)'
  BY <1>1, <1>2 DEF DialogHolds
<1>5. Around(d) \subseteq Durable' \cup Around(d)'
  BY <1>1, <1>2 DEF Around
<1> QED  BY <1>2, <1>3, <1>4, <1>5 DEF Faithful

\* A worker back at what is left to push.
LEMMA PushCarries ==
    ASSUME NEW todo, NEW v, NEW f, NEW H, NEW D,
           \A p \in Paths \ Puts(todo) : Held(f[p]) \subseteq D
    PROVE  Carries(Pushing(todo, v), f, H, D)
BY PushedShape DEF Carries, Waiting

LEMMA ChoicesPush ==
    ASSUME TypeOK, FoldersBare, NEW d \in Devices, Shape(d), ChoicesHeld(d), DialogHolds(d), Grows, Marks,
           StartCycle(d) \/ SendFolder(d) \/ ReadLocal(d) \/ SendPut(d) \/ SendDelete(d)
    PROVE  Faithful(d)
<1>1. /\ ServerOK /\ InHistory \subseteq InHistory' /\ InHistory' \subseteq Durable' /\ Durable \subseteq Durable'
  BY DurableStays DEF TypeOK, FoldersBare, ServerOK, Grows, Durable
<1>2. /\ work[d] \in Worker /\ disk[d] \in [Paths -> Files] /\ manifest[d] \in [Paths -> Files]
      /\ work[d].todo \subseteq Change
  BY TypesOfDevice
<1>3. /\ \A p \in Paths : Held(manifest[d][p]) \subseteq Durable
      /\ Carries(work[d], disk[d], InHistory, Durable)
  BY DEF ChoicesHeld
<1>4. work[d].pc = "push" => \A p \in Paths \ Puts(work[d].todo) : Held(disk[d][p]) \subseteq Durable
  BY <1>3 DEF Carries, Waiting
<1>5. CASE StartCycle(d)
  <2> DEFINE todo == Diff(manifest[d], disk[d])
             w == Pushing(todo, versions[d])
  <2>1. Turns(d, w) /\ UNCHANGED <<server, disk, stored, dialog, history, counts>>
    BY <1>5, StartCycleDoes
  <2>2. ASSUME NEW p \in Paths \ Puts(todo)
        PROVE  Held(disk[d][p]) \subseteq Durable'
    <3>1. disk[d][p] = Missing \/ disk[d][p] = manifest[d][p]
      BY <1>2, DiffShape DEF Puts
    <3> QED  BY <1>1, <1>3, <3>1, ShownHeld
  <2>3. w.pc = "push"
    BY PushedShape
  <2> HIDE DEF todo
  <2>4. Carries(w, disk[d], InHistory', Durable')
    BY <2>2, PushCarries
  <2> HIDE DEF w
  <2>5. disk' = disk /\ dialog' = dialog /\ manifest' = manifest /\ made' = made
    BY <2>1 DEF stored, counts
  <2>6. manifest'[d] = disk[d] => \A p \in Paths : Held(disk[d][p]) \subseteq Durable'
    BY <1>1, <1>3, <2>5
  <2> QED  BY <2>1, <2>3, <2>4, <2>5, <2>6, ChoicesTurn
<1>6. ASSUME NEW w, Turns(d, w), UNCHANGED <<disk, stored, dialog, counts>>, w.pc # "merge",
             Carries(w, disk[d], InHistory', Durable')
      PROVE  Faithful(d)
  <2>1. disk' = disk /\ dialog' = dialog /\ manifest' = manifest /\ made' = made
    BY <1>6 DEF stored, counts
  <2>2. manifest'[d] = disk[d] => \A p \in Paths : Held(disk[d][p]) \subseteq Durable'
    BY <1>1, <1>3, <2>1
  <2> QED  BY <1>6, <2>1, <2>2, ChoicesTurn
<1>7. ASSUME NEW todo, NEW v, Turns(d, Pushing(todo, v)), UNCHANGED <<disk, stored, dialog, counts>>,
             \A p \in Paths \ Puts(todo) : Held(disk[d][p]) \subseteq Durable'
      PROVE  Faithful(d)
  <2>1. Carries(Pushing(todo, v), disk[d], InHistory', Durable')
    BY <1>7, PushCarries
  <2>2. Pushing(todo, v).pc # "merge"
    BY PushedShape
  <2> QED  BY <1>6, <1>7, <2>1, <2>2
<1>8. CASE SendFolder(d)
  <2>1. PICK c \in work[d].todo, n \in Nat :
           c.path = Folder /\ Turns(d, Pushing(work[d].todo \ {c}, Confirm(d, Folder, n)))
    BY <1>8, SendFolderDoes
  <2>2. work[d].pc = "push" /\ UNCHANGED <<disk, stored, dialog, history, counts>>
    BY <1>8, SendFolderDoes
  <2>3. Held(disk[d][Folder]) = {}
    BY ShownHeld DEF Shape
  <2>4. Puts(work[d].todo) \subseteq Puts(work[d].todo \ {c}) \cup {Folder}
    BY <2>1 DEF Puts
  <2>5. \A p \in Paths \ Puts(work[d].todo \ {c}) : Held(disk[d][p]) \subseteq Durable'
    BY <1>1, <1>4, <2>2, <2>3, <2>4
  <2> QED  BY <1>7, <2>1, <2>2, <2>5
<1>9. CASE ReadLocal(d)
  <2>1. PICK c \in work[d].todo :
          /\ c.op = "put" /\ c.path \in Paths \ {Folder}
          /\ Turns(d, [work[d] EXCEPT !.pc = "send", !.todo = work[d].todo \ {c},
                                      !.path = c.path, !.local = disk[d][c.path]])
    BY <1>9, ReadLocalDoes
  <2> DEFINE w == [work[d] EXCEPT !.pc = "send", !.todo = work[d].todo \ {c},
                                  !.path = c.path, !.local = disk[d][c.path]]
  <2>2. work[d].pc = "push" /\ UNCHANGED <<server, disk, stored, dialog, history, counts>>
    BY <1>9, ReadLocalDoes
  <2>3. /\ w.pc = "send" /\ w.path = c.path /\ w.local = disk[d][c.path]
        /\ w.todo = work[d].todo \ {c} /\ w.page = work[d].page /\ Turns(d, w)
    BY <1>2, <2>1 DEF Worker
  <2> HIDE DEF w
  <2>4. Puts(work[d].todo) \subseteq Waiting(w)
    BY <2>3 DEF Puts, Waiting
  <2>5. Carries(w, disk[d], InHistory', Durable')
    BY <1>1, <1>3, <1>4, <2>2, <2>3, <2>4 DEF Carries
  <2> QED  BY <1>6, <2>2, <2>3, <2>5
<1>10. CASE SendPut(d)
  <2> DEFINE p == work[d].path
             w == [work[d] EXCEPT !.pc = "lost", !.local = Missing, !.remote = Current(p), !.version = Version(p)]
  <2>1. /\ work[d].pc = "send" /\ UNCHANGED <<disk, stored, dialog, history, counts>>
        /\ \/ Applied(p, work[d].local) /\ Turns(d, Pushing(work[d].todo, Confirm(d, p, Version(p) + 1)))
           \/ UNCHANGED server /\ Turns(d, w)
    BY <1>10, SendPutDoes
  <2>2. p \in Paths /\ p # Folder /\ work[d].local \in Files
    BY <2>1, TypesOfDevice DEF Shape, Holding
  <2>3. /\ Waiting(work[d]) = Puts(work[d].todo) \cup {p}
        /\ Held(disk[d][p]) \subseteq Held(work[d].local) \cup Durable
    BY <1>3, <2>1 DEF Carries, Waiting
  <2>4. CASE UNCHANGED server /\ Turns(d, w)
    <3>1. /\ w.pc = "lost" /\ w.path = p /\ w.todo = work[d].todo /\ w.page = work[d].page
          /\ w.remote = Current(p) /\ Turns(d, w)
      BY <1>2, <2>4 DEF Worker
    <3>2. Held(Current(p)) \subseteq InHistory
      <4> HIDE DEF p
      <4> QED  BY <1>1, <2>2, CurrentShape
    <3> HIDE DEF w, p
    <3>3. Waiting(w) = Waiting(work[d])
      BY <2>3, <3>1 DEF Waiting
    <3>4. Carries(w, disk[d], InHistory', Durable')
      BY <1>1, <1>3, <2>1, <3>1, <3>2, <3>3 DEF Carries
    <3> QED  BY <1>6, <2>1, <3>1, <3>4
  <2>5. CASE Applied(p, work[d].local) /\ Turns(d, Pushing(work[d].todo, Confirm(d, p, Version(p) + 1)))
    <3>1. Held(work[d].local) \subseteq InHistory'
      <4> HIDE DEF p
      <4> QED  BY <1>1, <2>2, <2>5, Mutation
    <3>2. \A q \in Paths \ Puts(work[d].todo) : Held(disk[d][q]) \subseteq Durable'
      <4> HIDE DEF p
      <4> QED  BY <1>1, <1>3, <2>1, <2>3, <3>1 DEF Carries
    <3> QED  BY <1>7, <2>1, <2>5, <3>2
  <2> QED  BY <2>1, <2>4, <2>5
<1>11. CASE SendDelete(d)
  <2>1. PICK c \in work[d].todo :
          c.op = "delete" /\ \E v : Turns(d, Pushing(work[d].todo \ {c}, v))
    BY <1>11, SendDeleteDoes
  <2>2. work[d].pc = "push" /\ UNCHANGED <<disk, stored, dialog, history, counts>>
    BY <1>11, SendDeleteDoes
  <2>3. Puts(work[d].todo \ {c}) = Puts(work[d].todo)
    BY <2>1 DEF Puts
  <2> QED  BY <1>1, <1>4, <1>7, <2>1, <2>2, <2>3
<1> QED  BY <1>5, <1>8, <1>9, <1>10, <1>11

\* A second PUT, of the merged file or of a copy: its choices end up in the history,
\* or excused.
LEMMA ChoicesSent ==
    ASSUME TypeOK, FoldersBare, NEW d \in Devices, ChoicesHeld(d), DialogHolds(d), Grows, Marks,
           UNCHANGED <<disk, stored, dialog, counts>>, NEW p \in Paths, p # Folder,
           work[d].pc # "idle", Waiting(work[d]) = Puts(work[d].todo) \cup {p},
           Held(disk[d][p]) \subseteq Held(work[d].local) \cup Durable,
           \/ Applied(p, work[d].local)
           \/ Excuse(Held(work[d].local)),
           NEW v, Turns(d, Pushing(work[d].todo, v))
    PROVE  Faithful(d)
<1> DEFINE w == Pushing(work[d].todo, v)
<1>1. /\ ServerOK /\ InHistory \subseteq InHistory' /\ InHistory' \subseteq Durable' /\ Durable \subseteq Durable'
  BY DurableStays DEF TypeOK, FoldersBare, ServerOK, Grows, Durable
<1>2. /\ \A q \in Paths : Held(manifest[d][q]) \subseteq Durable
      /\ Carries(work[d], disk[d], InHistory, Durable)
  BY DEF ChoicesHeld
<1>3. Held(work[d].local) \subseteq Durable'
  <2>1. work[d].local \in Files
    BY TypesOfDevice
  <2> QED  BY <1>1, <2>1, Mutation DEF Excuse, Durable
<1>4. \A q \in Paths \ Puts(work[d].todo) : Held(disk[d][q]) \subseteq Durable'
  BY <1>1, <1>2, <1>3 DEF Carries
<1>5. Carries(w, disk[d], InHistory', Durable')
  BY <1>4, PushCarries
<1>6. w.pc # "merge"
  BY PushedShape
<1>7. Turns(d, w)
  OBVIOUS
<1> HIDE DEF w
<1>8. disk' = disk /\ dialog' = dialog /\ manifest' = manifest /\ made' = made
  BY DEF stored, counts
<1>9. manifest'[d] = disk[d] => \A q \in Paths : Held(disk[d][q]) \subseteq Durable'
  BY <1>1, <1>2, <1>8
<1> QED  BY <1>5, <1>6, <1>7, <1>8, <1>9, ChoicesTurn

LEMMA ChoicesReadBack ==
    ASSUME TypeOK, FoldersBare, NEW d \in Devices, ChoicesHeld(d), DialogHolds(d), Grows, Marks, ReadBack(d)
    PROVE  Faithful(d)
<1>1. PICK pc \in {"copy", "merge"} :
         Turns(d, [work[d] EXCEPT !.local = disk[d][work[d].path], !.pc = pc])
  BY ReadBackDoes
<1> DEFINE w == [work[d] EXCEPT !.local = disk[d][work[d].path], !.pc = pc]
<1>2. work[d].pc = "lost" /\ UNCHANGED <<server, disk, stored, dialog, history, counts>>
  BY ReadBackDoes
<1>3. /\ w.pc \in {"copy", "merge"} /\ w.path = work[d].path /\ w.local = disk[d][w.path]
      /\ w.remote = work[d].remote /\ w.todo = work[d].todo /\ w.page = work[d].page /\ Turns(d, w)
  BY <1>1, TypesOfDevice DEF Worker
<1> HIDE DEF w
<1>4. InHistory' = InHistory /\ Durable' = Durable
  BY <1>2, Levels
<1>5. Waiting(w) = Waiting(work[d])
  BY <1>2, <1>3 DEF Waiting
<1>6. /\ \A q \in Paths : Held(manifest[d][q]) \subseteq Durable
      /\ Carries(work[d], disk[d], InHistory, Durable)
  BY DEF ChoicesHeld
<1>7. Carries(w, disk[d], InHistory', Durable')
  BY <1>2, <1>3, <1>4, <1>5, <1>6 DEF Carries
<1>8. disk' = disk /\ dialog' = dialog /\ manifest' = manifest /\ made' = made
  BY <1>2 DEF stored, counts
<1>9. manifest'[d] = disk[d] => \A q \in Paths : Held(disk[d][q]) \subseteq Durable'
  BY <1>4, <1>6, <1>8
<1> QED  BY <1>3, <1>7, <1>8, <1>9, ChoicesTurn

\* What merge_booklet_json shows.
LEMMA MergedShows ==
    ASSUME NEW x \in Files, NEW y \in Files
    PROVE  LET m == MergeBookletJson(x, y)
           IN  /\ \A key : Shown(m, key) = Shown(x, key) \/ Shown(m, key) \in {0, Shown(y, key)}
               /\ Held(x) \subseteq Held(m)
<1> DEFINE m == MergeBookletJson(x, y)
<1>1. /\ IsObject(m) = IsObject(x)
      /\ KeysOf(m) = KeysOf(x) \cup (IF IsObject(x) THEN KeysOf(y) ELSE {})
      /\ \A k \in KeysOf(m) : m[k] = IF k \in KeysOf(x) THEN x[k] ELSE y[k]
  BY MergedShape
<1> HIDE DEF m
<1>2. \A key : Shown(m, key) = Shown(x, key) \/ Shown(m, key) \in {0, Shown(y, key)}
  BY <1>1 DEF Shown
<1>3. Held(x) \subseteq Held(m)
  BY <1>1 DEF Held
<1> QED  BY <1>2, <1>3 DEF m

LEMMA ChoicesMerge ==
    ASSUME TypeOK, FoldersBare, NEW d \in Devices, ChoicesHeld(d), DialogHolds(d), WriteMerge(d)
    PROVE  Faithful(d)
<1> DEFINE p == work[d].path
           x == work[d].local
           y == Text(work[d].remote)
           m == MergeBookletJson(x, y)
           t == [disk[d] EXCEPT ![p] = m]
           w == [work[d] EXCEPT !.pc = "resend", !.local = m]
<1>1. /\ work[d].pc = "merge" /\ UNCHANGED <<server, stored, dialog, history, counts>>
      /\ Rewrites(d, t) /\ Turns(d, w)
  BY WriteMergeDoes
<1>2. /\ w.pc = "resend" /\ w.path = p /\ w.local = m /\ w.todo = work[d].todo /\ w.page = work[d].page
      /\ p \in Paths /\ disk[d] \in [Paths -> Files] /\ x \in Files /\ y \in Files
  BY TypesOfDevice, ObjectsShape DEF Worker, Text
<1>3. /\ \A key : Shown(m, key) = Shown(x, key) \/ Shown(m, key) \in {0, Shown(y, key)}
      /\ Held(x) \subseteq Held(m)
  <2> HIDE DEF x, y
  <2> QED  BY <1>2, MergedShows
<1>4. Carries(work[d], disk[d], InHistory, Durable) /\ Covers(dialog[d], work[d], disk[d][Meta], Durable)
  BY DEF ChoicesHeld, DialogHolds
<1>5. Held(y) \subseteq Durable /\ Held(disk[d][p]) \subseteq Held(x) \cup Durable
  <2>1. Held(y) \subseteq Held(work[d].remote)
    BY ShownHeld DEF Text
  <2> QED  BY <1>1, <1>4, <2>1 DEF Carries, Durable
<1>6. t[p] = m /\ \A q \in Paths \ {p} : t[q] = disk[d][q]
  BY <1>2
<1> HIDE DEF m, t, w
<1>7. Waiting(w) = Waiting(work[d])
  BY <1>1, <1>2 DEF Waiting
<1>8. p \in Waiting(work[d])
  BY <1>1 DEF Waiting
<1>9. Carries(w, t, InHistory, Durable)
  BY <1>1, <1>2, <1>4, <1>6, <1>7, <1>8 DEF Carries
<1>10. ASSUME p = Meta, NEW key \in Keys
       PROVE  Shown(m, key) \in {0, Shown(disk[d][Meta], key)} \cup Durable
  <2>1. Shown(x, key) \in {0, Shown(disk[d][Meta], key)} \cup Durable
    BY <1>1, <1>4, <1>10 DEF Covers
  <2>2. Shown(y, key) \in {0} \cup Durable
    BY <1>5, ShownHeld
  <2> QED  BY <1>3, <2>1, <2>2
<1>11. Covers(dialog[d], w, t[Meta], Durable)
  <2>1. CASE p = Meta
    <3>1. /\ Shown(m, "color") \in {0, Shown(disk[d][Meta], "color")} \cup Durable
          /\ Shown(m, "shelf") \in {0, Shown(disk[d][Meta], "shelf")} \cup Durable
          /\ Shown(m, "own") \in {0, Shown(disk[d][Meta], "own")} \cup Durable
      BY <1>10, <2>1 DEF Keys
    <3>2. w.pc # "merge" /\ t[Meta] = m
      BY <1>2, <1>6, <2>1
    <3> QED  BY <1>4, <3>1, <3>2 DEF Covers
  <2>2. CASE p # Meta
    <3>1. t[Meta] = disk[d][Meta] /\ w.pc # "merge"
      BY <1>2, <1>6, <2>2, PathsShape
    <3> QED  BY <1>4, <3>1 DEF Covers
  <2> QED  BY <2>1, <2>2
<1>12. ASSUME NEW q \in Paths
       PROVE  Held(disk[d][q]) \subseteq Durable \cup UNION {Held(t[r]) : r \in Paths}
  <2>1. CASE q = p
    BY <1>2, <1>3, <1>5, <1>6, <2>1
  <2>2. CASE q # p
    BY <1>6, <2>2
  <2> QED  BY <2>1, <2>2
<1> QED  BY <1>1, <1>9, <1>11, <1>12, ChoicesWrite

LEMMA ChoicesCopy ==
    ASSUME TypeOK, FoldersBare, NEW d \in Devices, ChoicesHeld(d), DialogHolds(d), WriteCopy(d)
    PROVE  Faithful(d)
<1> DEFINE p == work[d].path
           r == Text(work[d].remote)
           v == Confirm(d, p, work[d].version)
<1>1. PICK q \in Copies \ {p} :
        /\ disk[d][q] = Missing
        /\ Rewrites(d, [disk[d] EXCEPT ![q] = work[d].local, ![p] = r])
        /\ Turns(d, [work[d] EXCEPT !.pc = "sendcopy", !.copy = q, !.vers = v])
  BY WriteCopyDoes
<1> DEFINE t == [disk[d] EXCEPT ![q] = work[d].local, ![p] = r]
           w == [work[d] EXCEPT !.pc = "sendcopy", !.copy = q, !.vers = v]
<1>2. work[d].pc = "copy" /\ UNCHANGED <<server, stored, dialog, history, counts>>
  BY WriteCopyDoes
<1>3. /\ p \in Paths /\ disk[d] \in [Paths -> Files] /\ q \in Paths /\ q # p /\ q # Meta /\ Meta \in Paths
  BY <1>1, TypesOfDevice, PathsShape
<1>4. /\ w.pc = "sendcopy" /\ w.copy = q /\ w.path = p /\ w.local = work[d].local
      /\ w.todo = work[d].todo /\ w.page = work[d].page /\ Turns(d, w) /\ Rewrites(d, t)
  BY <1>1, TypesOfDevice DEF Worker
<1>5. t[q] = work[d].local /\ t[p] = r /\ \A s \in Paths \ {p, q} : t[s] = disk[d][s]
  BY <1>3
<1> HIDE DEF w, t, v
<1>6. Carries(work[d], disk[d], InHistory, Durable) /\ Covers(dialog[d], work[d], disk[d][Meta], Durable)
  BY DEF ChoicesHeld, DialogHolds
<1>7. Held(r) \subseteq Durable /\ Held(disk[d][p]) \subseteq Held(work[d].local) \cup Durable
  <2>1. Held(r) \subseteq Held(work[d].remote)
    BY ShownHeld DEF Text
  <2> QED  BY <1>2, <1>6, <2>1 DEF Carries, Durable
<1>8. Waiting(w) = Puts(work[d].todo) \cup {q} /\ Waiting(work[d]) = Puts(work[d].todo) \cup {p}
  BY <1>2, <1>4 DEF Waiting
<1> HIDE DEF p, r
<1>9. \A s \in Paths \ Waiting(w) : Held(t[s]) \subseteq Durable
  <2>1. \A s \in Paths \ Waiting(work[d]) : Held(disk[d][s]) \subseteq Durable
    BY <1>2, <1>6 DEF Carries
  <2> QED  BY <1>5, <1>7, <1>8, <2>1
<1>10. Carries(w, t, InHistory, Durable)
  BY <1>2, <1>4, <1>5, <1>6, <1>9 DEF Carries
<1>11. Covers(dialog[d], w, t[Meta], Durable)
  <2>1. CASE p = Meta
    <3>1. t[Meta] = r /\ \A key : Shown(r, key) \in {0} \cup Durable
      BY <1>5, <1>7, <2>1, ShownHeld
    <3> QED  BY <1>4, <1>6, <3>1 DEF Covers
  <2>2. CASE p # Meta
    <3>1. t[Meta] = disk[d][Meta]
      BY <1>3, <1>5, <2>2
    <3> QED  BY <1>4, <1>6, <3>1 DEF Covers
  <2> QED  BY <2>1, <2>2
<1>12. ASSUME NEW s \in Paths
       PROVE  Held(disk[d][s]) \subseteq Durable \cup UNION {Held(t[u]) : u \in Paths}
  <2>1. CASE s = p
    BY <1>3, <1>5, <1>7, <2>1
  <2>2. CASE s = q
    BY <1>1, <2>2, ShownHeld
  <2>3. CASE s # p /\ s # q
    BY <1>5, <2>3
  <2> QED  BY <2>1, <2>2, <2>3
<1> QED  BY <1>2, <1>4, <1>10, <1>11, <1>12, ChoicesWrite

LEMMA ChoicesConflict ==
    ASSUME TypeOK, FoldersBare, NEW d \in Devices, Shape(d), ChoicesHeld(d), DialogHolds(d), Grows, Marks,
           ReadBack(d) \/ WriteMerge(d) \/ Resend(d) \/ WriteCopy(d) \/ SendCopy(d)
    PROVE  Faithful(d)
<1>1. Carries(work[d], disk[d], InHistory, Durable)
  BY DEF ChoicesHeld
<1>2. CASE Resend(d)
  <2> DEFINE p == work[d].path
  <2>1. /\ work[d].pc = "resend" /\ UNCHANGED <<disk, stored, dialog, counts>>
        /\ Applied(p, work[d].local) \/ Excuse(Held(work[d].local))
        /\ \E v : Turns(d, Pushing(work[d].todo, v))
    BY <1>2, ResendDoes
  <2>2. p \in Paths /\ p # Folder
    BY <2>1, TypesOfDevice DEF Shape, Holding
  <2>3. /\ Waiting(work[d]) = Puts(work[d].todo) \cup {p} /\ work[d].pc # "idle"
        /\ Held(disk[d][p]) \subseteq Held(work[d].local) \cup Durable
    BY <1>1, <2>1 DEF Carries, Waiting
  <2> HIDE DEF p
  <2> QED  BY <2>1, <2>2, <2>3, ChoicesSent
<1>3. CASE SendCopy(d)
  <2> DEFINE q == work[d].copy
  <2>1. /\ work[d].pc = "sendcopy" /\ UNCHANGED <<disk, stored, dialog, counts>>
        /\ Applied(q, work[d].local) \/ Excuse(Held(work[d].local))
        /\ \E v : Turns(d, Pushing(work[d].todo, v))
    BY <1>3, SendCopyDoes
  <2>2. q \in Paths /\ q # Folder
    BY <2>1, TypesOfDevice, PathsShape DEF Shape, At
  <2>3. /\ Waiting(work[d]) = Puts(work[d].todo) \cup {q} /\ work[d].pc # "idle"
        /\ Held(disk[d][q]) \subseteq Held(work[d].local) \cup Durable
    BY <1>1, <2>1 DEF Carries, Waiting
  <2> HIDE DEF q
  <2> QED  BY <2>1, <2>2, <2>3, ChoicesSent
<1> QED  BY <1>2, <1>3, ChoicesReadBack, ChoicesMerge, ChoicesCopy

LEMMA ChoicesPull ==
    ASSUME TypeOK, FoldersBare, NEW d \in Devices, Shape(d), ChoicesHeld(d), DialogHolds(d), Grows, Marks,
           EndPush(d) \/ GetChanges(d) \/ GetCursor(d) \/ ApplyChange(d) \/ EndPull(d)
             \/ FileVanished(d) \/ Abandon(d)
    PROVE  Faithful(d)
<1>1. /\ ServerOK /\ InHistory \subseteq Durable /\ Durable \subseteq Durable'
      /\ disk[d] \in [Paths -> Files] /\ manifest \in [Devices -> [Paths -> Files]]
  BY DurableStays, TypesOfDevice DEF TypeOK, FoldersBare, ServerOK, Durable
<1>2. /\ \A p \in Paths : Held(manifest[d][p]) \subseteq Durable
      /\ Carries(work[d], disk[d], InHistory, Durable) /\ Covers(dialog[d], work[d], disk[d][Meta], Durable)
  BY DEF ChoicesHeld, DialogHolds
<1>3. UNCHANGED <<server, history>> => InHistory' = InHistory /\ Durable' = Durable
  BY Levels
<1>4. Puts({}) = {}
  BY DEF Puts
<1>5. work[d].todo = {} /\ work[d].pc \in {"push", "pull", "rows", "apply"} =>
         Waiting(work[d]) = {} /\ \A p \in Paths : Held(disk[d][p]) \subseteq Durable
  BY <1>2, <1>4 DEF Carries, Waiting
<1>6. CASE EndPush(d)
  <2> DEFINE w == [work[d] EXCEPT !.pc = "pull"]
  <2>1. /\ work[d].pc = "push" /\ work[d].todo = {}
        /\ UNCHANGED <<server, disk, versions, cursor, raced, dialog, history, counts>>
        /\ manifest' = [manifest EXCEPT ![d] = disk[d]] /\ Turns(d, w)
    BY <1>6, EndPushDoes
  <2>2. w.pc = "pull" /\ w.todo = {} /\ w.page = work[d].page /\ Turns(d, w)
    BY <2>1, TypesOfDevice DEF Worker
  <2> HIDE DEF w
  <2>3. disk' = disk /\ dialog' = dialog /\ made' = made /\ manifest'[d] = disk[d]
    BY <1>1, <2>1 DEF counts
  <2>4. \A p \in Paths : Held(disk[d][p]) \subseteq Durable'
    BY <1>1, <1>5, <2>1
  <2>5. Carries(w, disk[d], InHistory', Durable')
    BY <1>2, <1>3, <2>1, <2>2, <2>4 DEF Carries
  <2> QED  BY <2>2, <2>3, <2>4, <2>5, ChoicesTurn
<1>7. CASE GetChanges(d)
  <2> DEFINE page == Feed(cursor[d])
             w == [work[d] EXCEPT !.pc = "rows", !.page = page, !.at = seq]
  <2>1. /\ work[d].pc = "pull" /\ UNCHANGED <<server, disk, stored, dialog, history, counts>> /\ Turns(d, w)
    BY <1>7, GetChangesDoes
  <2>2. w.pc = "rows" /\ w.page = page /\ w.todo = work[d].todo /\ Turns(d, w)
    BY <2>1, TypesOfDevice DEF Worker
  <2> HIDE DEF w, page
  <2>3. \A item \in page : Held(item.content) \subseteq InHistory
    BY <1>1, FeedShape DEF page
  <2>4. disk' = disk /\ dialog' = dialog /\ made' = made /\ manifest' = manifest
    BY <2>1 DEF stored, counts
  <2>5. w.todo = {} /\ \A p \in Paths : Held(disk[d][p]) \subseteq Durable
    BY <1>2, <1>5, <2>1, <2>2 DEF Carries
  <2>6. Carries(w, disk[d], InHistory', Durable')
    BY <1>3, <2>1, <2>2, <2>3, <2>5 DEF Carries
  <2>7. w.pc # "merge" /\ \A p \in Paths : Held(disk[d][p]) \subseteq Durable'
    BY <1>1, <2>2, <2>5
  <2> QED  BY <2>2, <2>4, <2>6, <2>7, ChoicesTurn
<1>8. CASE ApplyChange(d)
  <2>1. PICK item \in work[d].page :
          /\ item \in Item /\ Rewrites(d, Received(disk[d], item))
          /\ Turns(d, [work[d] EXCEPT !.page = work[d].page \ {item},
                                      !.vers = Confirm(d, item.path, item.version)])
    BY <1>8, ApplyChangeDoes
  <2> DEFINE t == Received(disk[d], item)
             w == [work[d] EXCEPT !.page = work[d].page \ {item},
                                  !.vers = Confirm(d, item.path, item.version)]
  <2>2. work[d].pc = "apply" /\ UNCHANGED <<server, stored, dialog, history, counts>>
    BY <1>8, ApplyChangeDoes
  <2>3. /\ w.pc = "apply" /\ w.page = work[d].page \ {item} /\ w.todo = work[d].todo
        /\ Turns(d, w) /\ Rewrites(d, t)
    BY <2>1, <2>2, TypesOfDevice DEF Worker
  <2>4. /\ \A p \in Paths \ {Folder} : t[p] = IF p = item.path THEN item.content ELSE disk[d][p]
        /\ item.content \in {Blank, Missing} \/ item.path # Folder => t[Folder] \in {Blank, Missing, disk[d][Folder]}
    BY <1>1, <2>1, ReceivedShape
  <2>5. item.path = Folder => item.content \in {Blank, Missing}
    BY <2>1 DEF Shape
  <2> HIDE DEF w, t
  <2>6. Held(item.content) \subseteq Durable /\ work[d].todo = {} /\ \A p \in Paths : Held(disk[d][p]) \subseteq Durable
    BY <1>1, <1>2, <1>5, <2>1, <2>2 DEF Carries
  <2>7. ASSUME NEW p \in Paths
        PROVE  Held(t[p]) \subseteq Durable
    <3>1. CASE p = Folder
      <4>1. t[Folder] \in {Blank, Missing, disk[d][Folder]} /\ Folder \in Paths
        BY <2>4, <2>5, PathsShape
      <4> QED  BY <2>6, <3>1, <4>1, ShownHeld
    <3>2. CASE p # Folder
      BY <2>4, <2>6, <3>2
    <3> QED  BY <3>1, <3>2
  <2>8. Carries(w, t, InHistory, Durable)
    BY <1>2, <2>2, <2>3, <2>6, <2>7 DEF Carries
  <2>9. Covers(dialog[d], w, t[Meta], Durable)
    <3>1. \A key : Shown(t[Meta], key) \in {0} \cup Durable
      BY <2>7, PathsShape, ShownHeld
    <3> QED  BY <1>2, <2>3, <3>1 DEF Covers
  <2> QED  BY <2>2, <2>3, <2>6, <2>8, <2>9, ChoicesWrite
<1>9. Resting.pc = "idle" /\ Resting.page = {}
  BY DEF Resting
<1>10. \A H, D : Carries(Resting, disk[d], H, D)
  BY <1>9 DEF Carries
<1>11. CASE EndPull(d)
  <2>1. /\ work[d].pc = "apply" /\ UNCHANGED <<server, disk, dialog, history, counts>>
        /\ manifest' = [manifest EXCEPT ![d] = disk[d]] /\ Turns(d, Resting)
    BY <1>11, EndPullDoes
  <2>2. disk' = disk /\ dialog' = dialog /\ made' = made /\ manifest'[d] = disk[d]
    BY <1>1, <2>1 DEF counts
  <2>3. \A p \in Paths : Held(disk[d][p]) \subseteq Durable'
    BY <1>1, <1>2, <1>5, <2>1 DEF Carries
  <2> QED  BY <1>9, <1>10, <2>1, <2>2, <2>3, ChoicesTurn
<1>12. CASE FileVanished(d) \/ Abandon(d)
  <2>1. UNCHANGED <<server, disk, stored, dialog, history, made, books, deletes>> /\ Turns(d, Resting)
    BY <1>12, FailsDoes
  <2>2. disk' = disk /\ dialog' = dialog /\ made' = made /\ manifest' = manifest
    BY <2>1 DEF stored
  <2>3. manifest'[d] = disk[d] => \A p \in Paths : Held(disk[d][p]) \subseteq Durable'
    BY <1>1, <1>2, <2>2
  <2> QED  BY <1>9, <1>10, <2>1, <2>2, <2>3, ChoicesTurn
<1>13. CASE GetCursor(d)
  <2> DEFINE w == [work[d] EXCEPT !.pc = "apply", !.cursor = seq]
  <2>1. /\ work[d].pc = "rows" /\ UNCHANGED <<server, disk, stored, dialog, history, counts>> /\ Turns(d, w)
    BY <1>13, GetCursorDoes
  <2>2. w.pc = "apply" /\ w.page = work[d].page /\ w.todo = work[d].todo
    BY TypesOfDevice DEF Worker
  <2> HIDE DEF w
  <2>3. disk' = disk /\ dialog' = dialog /\ made' = made /\ manifest' = manifest
    BY <2>1 DEF stored, counts
  <2>4. w.todo = {} /\ \A p \in Paths : Held(disk[d][p]) \subseteq Durable
    BY <1>2, <1>5, <2>1, <2>2 DEF Carries
  <2>5. Carries(w, disk[d], InHistory', Durable')
    BY <1>2, <1>3, <2>1, <2>2, <2>4 DEF Carries
  <2>6. w.pc # "merge" /\ \A p \in Paths : Held(disk[d][p]) \subseteq Durable'
    BY <1>1, <2>2, <2>4
  <2> QED  BY <2>1, <2>2, <2>3, <2>5, <2>6, ChoicesTurn
<1> QED  BY <1>6, <1>7, <1>8, <1>11, <1>12, <1>13

\* The user's steps: what a file no longer shows is excused, or somewhere else; what
\* it shows for the first time is excused too, when a cycle runs.
LEMMA ChoicesTouch ==
    ASSUME TypeOK, FoldersBare, NEW d \in Devices, Shape(d), ChoicesHeld(d), Marks,
           UNCHANGED <<server, stored, work>>,
           work[d].pc # "idle" => \A p \in Paths : Held(disk'[d][p]) \subseteq Held(disk[d][p]) \cup Durable',
           Covers(dialog'[d], work[d], disk'[d][Meta], Durable'),
           Around(d) \subseteq {0} \cup Durable' \cup Around(d)',
           (1 .. made') \ (1 .. made) \subseteq Durable' \cup Around(d)'
    PROVE  Faithful(d)
<1>1. ServerOK
  BY DEF TypeOK, FoldersBare, ServerOK
<1>2. InHistory' = InHistory /\ Durable \subseteq Durable' /\ work' = work /\ manifest' = manifest
  BY <1>1, NoMutation, DurableStays DEF stored
<1>3. /\ \A p \in Paths : Held(manifest[d][p]) \subseteq Durable
      /\ Carries(work[d], disk[d], InHistory, Durable)
  BY DEF ChoicesHeld
<1>4. work[d].path \in Paths /\ work[d].copy \in Paths
  BY TypesOfDevice
<1>5. Carries(work[d], disk'[d], InHistory', Durable')
  <2>1. CASE work[d].pc = "idle"
    BY <1>2, <1>3, <2>1 DEF Carries
  <2>2. CASE work[d].pc # "idle"
    <3>1. \A p \in Paths : Held(disk'[d][p]) \subseteq Held(disk[d][p]) \cup Durable'
      BY <2>2
    <3> QED  BY <1>2, <1>3, <1>4, <2>2, <3>1 DEF Carries
  <2> QED  BY <2>1, <2>2
<1>6. ChoicesHeld(d)'
  BY <1>2, <1>3, <1>5 DEF ChoicesHeld
<1>7. DialogHolds(d)'
  BY <1>2 DEF DialogHolds
<1> QED  BY <1>6, <1>7 DEF Faithful

\* A file that loses nothing but what is durable, as far as the dialog and the worker
\* are concerned.
LEMMA CoversOn ==
    ASSUME NEW g, NEW w, NEW x, NEW y, NEW D, NEW E, Covers(g, w, x, D), D \subseteq E,
           \A key \in Keys : /\ Shown(x, key) \in {0, Shown(y, key)} \cup E
                             /\ Shown(y, key) \in {0, Shown(x, key)} \cup E \/ g.pc = "closed"
    PROVE  Covers(g, w, y, E)
<1>1. {"color", "shelf", "own"} \subseteq Keys
  BY DEF Keys
<1>2. g.pc # "closed" => /\ Shown(y, "color") \in {0, g.color} \cup E
                         /\ Shown(y, "shelf") \in {0, g.shelf} \cup E
  BY <1>1 DEF Covers
<1>3. g.pc = "write" => Shown(y, "own") \in {0, Shown(g.existing, "own")} \cup E
  BY <1>1 DEF Covers
<1>4. w.pc = "merge" /\ w.path = Meta => \A key \in Keys : Shown(w.local, key) \in {0, Shown(y, key)} \cup E
  BY DEF Covers
<1> QED  BY <1>2, <1>3, <1>4 DEF Covers

LEMMA ChoicesBook ==
    ASSUME TypeOK, FoldersBare, NEW d \in Devices, Shape(d), ChoicesHeld(d), DialogHolds(d),
           CreateBook(d) \/ DeleteBook(d)
    PROVE  Faithful(d)
<1>1. UNCHANGED <<server, stored, work>> /\ Marks /\ Durable \subseteq Durable' /\ disk \in [Devices -> [Paths -> Files]]
  <2>1. UNCHANGED <<server, stored, work>> /\ Marks
    BY UserDoes DEF User
  <2>2. Grows
    BY <2>1, NoMutation DEF TypeOK, FoldersBare, ServerOK
  <2> QED  BY <2>1, <2>2, DurableStays DEF TypeOK
<1>2. Covers(dialog[d], work[d], disk[d][Meta], Durable) /\ Folder # Meta /\ Folder \in Paths /\ Meta \in Paths
  BY PathsShape DEF DialogHolds, Folder, Meta
<1>3. (1 .. made') \ (1 .. made) = {} /\ dialog' = dialog
  BY DEF CreateBook, DeleteBook
<1>4. CASE CreateBook(d)
  <2>1. disk' = [disk EXCEPT ![d][Folder] = Blank] /\ disk[d][Folder] = Missing
    BY <1>4 DEF CreateBook
  <2>2. \A p \in Paths : Held(disk'[d][p]) = Held(disk[d][p])
    <3>1. ASSUME NEW p \in Paths
          PROVE  Held(disk'[d][p]) = Held(disk[d][p])
      <4>1. CASE p = Folder
        <5>1. disk'[d][p] = Blank
          BY <1>1, <2>1, <4>1
        <5> QED  BY <2>1, <4>1, <5>1, ShownHeld
      <4>2. CASE p # Folder
        BY <1>1, <2>1, <4>2
      <4> QED  BY <4>1, <4>2
    <3> QED  BY <3>1
  <2>3. disk'[d][Meta] = disk[d][Meta]
    BY <1>1, <1>2, <2>1
  <2>4. Covers(dialog'[d], work[d], disk'[d][Meta], Durable')
    BY <1>1, <1>2, <1>3, <2>3 DEF Covers
  <2>5. Around(d) \subseteq {0} \cup Durable' \cup Around(d)'
    BY <1>3, <2>2 DEF Around
  <2> QED  BY <1>1, <1>3, <2>2, <2>4, <2>5, ChoicesTouch
<1>5. CASE DeleteBook(d)
  <2>1. /\ disk' = [disk EXCEPT ![d] = Nothing] /\ dialog[d].pc = "closed"
        /\ excused' = excused \cup UNION {Held(disk[d][p]) : p \in Paths}
    BY <1>5 DEF DeleteBook
  <2>2. \A p \in Paths : disk'[d][p] = Missing
    BY <1>1, <2>1 DEF Nothing
  <2>3. \A p \in Paths : Held(disk'[d][p]) = {} /\ Held(disk[d][p]) \subseteq Durable'
    BY <2>1, <2>2, ShownHeld DEF Durable
  <2>4. \A key : Shown(disk[d][Meta], key) \in {0} \cup Durable'
    BY <1>2, <2>3, ShownHeld
  <2>5. Covers(dialog'[d], work[d], disk'[d][Meta], Durable')
    BY <1>1, <1>2, <1>3, <2>1, <2>4, CoversOn
  <2>6. dialog[d].color = 0 /\ dialog[d].shelf = 0
    BY <1>2, <2>1 DEF Covers
  <2>7. Around(d) \subseteq {0} \cup Durable' \cup Around(d)'
    BY <2>3, <2>6 DEF Around
  <2> QED  BY <1>1, <1>3, <2>3, <2>5, <2>7, ChoicesTouch
<1> QED  BY <1>4, <1>5

LEMMA ChoicesDialog ==
    ASSUME TypeOK, FoldersBare, NEW d \in Devices, Shape(d), ChoicesHeld(d), DialogHolds(d),
           OpenBinding(d) \/ \E key \in {"color", "shelf"} : SaveBinding(d, key)
    PROVE  Faithful(d)
<1>1. /\ UNCHANGED <<server, stored, work, disk>> /\ Marks /\ Durable \subseteq Durable'
      /\ dialog \in [Devices -> Dialog] /\ dialog[d] \in Dialog
  <2>1. UNCHANGED <<server, stored, work>> /\ Marks
    BY UserDoes DEF User
  <2>2. disk' = disk
    BY DEF OpenBinding, SaveBinding
  <2>3. Grows
    BY <2>1, NoMutation DEF TypeOK, FoldersBare, ServerOK
  <2> QED  BY <2>1, <2>2, <2>3, DurableStays DEF TypeOK
<1>2. Covers(dialog[d], work[d], disk[d][Meta], Durable) /\ "color" \in Keys /\ "shelf" \in Keys /\ "own" \in Keys
  BY DEF DialogHolds, Keys
<1>3. \A p \in Paths : Held(disk'[d][p]) = Held(disk[d][p])
  BY <1>1
<1>4. CASE OpenBinding(d)
  <2> DEFINE g == [pc |-> "open", existing |-> Missing, color |-> Shown(disk[d][Meta], "color"),
                   shelf |-> Shown(disk[d][Meta], "shelf")]
  <2>1. dialog[d].pc = "closed" /\ dialog' = [dialog EXCEPT ![d] = g] /\ made' = made
    BY <1>4 DEF OpenBinding, counts
  <2>2. /\ g.pc = "open" /\ g.color = Shown(disk[d][Meta], "color")
        /\ g.shelf = Shown(disk[d][Meta], "shelf")
    OBVIOUS
  <2> HIDE DEF g
  <2>3. dialog'[d] = g /\ (1 .. made') \ (1 .. made) = {}
    BY <1>1, <2>1
  <2>4. Covers(g, work[d], disk[d][Meta], Durable')
    BY <1>1, <1>2, <2>2 DEF Covers
  <2>5. dialog[d].color = 0 /\ dialog[d].shelf = 0
    BY <1>2, <2>1 DEF Covers
  <2>6. Around(d) \subseteq {0} \cup Durable' \cup Around(d)'
    BY <1>1, <2>5 DEF Around
  <2> QED  BY <1>1, <1>3, <2>3, <2>4, <2>6, ChoicesTouch
<1>5. ASSUME NEW key \in {"color", "shelf"}, SaveBinding(d, key)
      PROVE  Faithful(d)
  <2> DEFINE g == dialog[d]
             h == dialog'[d]
             file == disk[d][Meta]
  <2>1. /\ g.pc = "open" /\ made' = made + 1
        /\ dialog' = [dialog EXCEPT ![d].pc = "write", ![d].existing = disk[d][Meta], ![d][key] = made + 1]
        /\ excused' = excused \cup ({dialog[d][key]} \ {0})
    BY <1>5 DEF SaveBinding, Excuse
  <2>2. /\ h.pc = "write" /\ h.existing = file
        /\ key = "color" => h.color = made + 1 /\ h.shelf = g.shelf
        /\ key = "shelf" => h.shelf = made + 1 /\ h.color = g.color
    <3>1. dialog[d].pc \in {"closed", "open", "write"} /\ dialog[d] \in Dialog
      BY <1>1 DEF Dialog
    <3>2. CASE key = "color"
      BY <1>1, <2>1, <3>1, <3>2 DEF Dialog
    <3>3. CASE key = "shelf"
      BY <1>1, <2>1, <3>1, <3>3 DEF Dialog
    <3> QED  BY <3>2, <3>3
  <2>3. /\ key = "color" => g.color \in {0} \cup Durable'
        /\ key = "shelf" => g.shelf \in {0} \cup Durable'
    BY <2>1 DEF Durable
  <2>4. Shown(file, "color") \in {0, g.color} \cup Durable' /\ Shown(file, "shelf") \in {0, g.shelf} \cup Durable'
    BY <1>1, <1>2, <2>1 DEF Covers
  <2>5. /\ h.color = g.color \/ g.color \in {0} \cup Durable'
        /\ h.shelf = g.shelf \/ g.shelf \in {0} \cup Durable'
    BY <2>2, <2>3
  <2>6. made + 1 \in {h.color, h.shelf} /\ (1 .. made') \ (1 .. made) \subseteq {made + 1}
    <3>1. made \in Nat
      BY NamesAssumption DEF TypeOK
    <3> QED  BY <2>1, <2>2, <3>1
  <2> HIDE DEF g, h
  <2>7. Covers(h, work[d], file, Durable')
    <3>1. work[d].pc = "merge" /\ work[d].path = Meta =>
             \A k \in Keys : Shown(work[d].local, k) \in {0, Shown(file, k)} \cup Durable'
      BY <1>1, <1>2 DEF Covers
    <3>2. Shown(file, "color") \in {0, h.color} \cup Durable' /\ Shown(file, "shelf") \in {0, h.shelf} \cup Durable'
      BY <2>4, <2>5
    <3> QED  BY <2>2, <3>1, <3>2 DEF Covers
  <2>8. Around(d) \subseteq {0} \cup Durable' \cup Around(d)'
    BY <1>1, <2>5 DEF Around, g, h
  <2>9. (1 .. made') \ (1 .. made) \subseteq Around(d)'
    BY <2>6 DEF Around, h
  <2>10. Covers(dialog'[d], work[d], disk'[d][Meta], Durable')
    BY <1>1, <2>7 DEF h
  <2> QED  BY <1>1, <1>3, <2>8, <2>9, <2>10, ChoicesTouch
<1> QED  BY <1>4, <1>5

\* booklet.json becomes y by a user's hand or by the dialog.
LEMMA ChoicesMeta ==
    ASSUME TypeOK, FoldersBare, NEW d \in Devices, Shape(d), ChoicesHeld(d), Marks, Durable \subseteq Durable',
           UNCHANGED <<server, stored, work>>,
           NEW y \in Files, disk' = [disk EXCEPT ![d][Meta] = y],
           work[d].pc # "idle" => Held(y) \subseteq Held(disk[d][Meta]) \cup Durable',
           \A key \in Keys : Shown(disk[d][Meta], key) \in {0, Shown(y, key)} \cup Durable',
           {dialog[d].color, dialog[d].shelf} \subseteq
               {0, dialog'[d].color, dialog'[d].shelf} \cup Held(y) \cup Durable',
           Covers(dialog'[d], work[d], y, Durable'),
           (1 .. made') \ (1 .. made) \subseteq Durable' \cup Held(y)
    PROVE  Faithful(d)
<1>1. Meta \in Paths /\ disk \in [Devices -> [Paths -> Files]] /\ disk[d][Meta] \in Files
  BY PathsShape DEF TypeOK
<1>2. disk'[d][Meta] = y /\ \A p \in Paths \ {Meta} : disk'[d][p] = disk[d][p]
  BY <1>1
<1>3. Held(disk[d][Meta]) \subseteq Held(y) \cup Durable'
  <2>1. ASSUME NEW v \in Held(disk[d][Meta])
        PROVE  v \in Held(y) \cup Durable'
    <3>1. PICK key \in Keys : v = Shown(disk[d][Meta], key) /\ v # 0
      BY <1>1, ShownHeld
    <3>2. Shown(y, key) \in Held(y) \cup {0}
      BY ShownHeld
    <3> QED  BY <3>1, <3>2
  <2> QED  BY <2>1
<1>4. work[d].pc # "idle" => \A p \in Paths : Held(disk'[d][p]) \subseteq Held(disk[d][p]) \cup Durable'
  BY <1>2
<1>5. Held(y) \subseteq Around(d)'
  BY <1>1, <1>2 DEF Around
<1>6. ASSUME NEW p \in Paths
      PROVE  Held(disk[d][p]) \subseteq Durable' \cup Around(d)'
  <2>1. CASE p = Meta
    BY <1>3, <1>5, <2>1
  <2>2. CASE p # Meta
    BY <1>2, <2>2 DEF Around
  <2> QED  BY <2>1, <2>2
<1>7. {dialog[d].color, dialog[d].shelf} \subseteq {0} \cup Durable' \cup Around(d)'
  BY <1>5 DEF Around
<1>8. Around(d) \subseteq {0} \cup Durable' \cup Around(d)'
  BY <1>6, <1>7 DEF Around
<1>9. (1 .. made') \ (1 .. made) \subseteq Durable' \cup Around(d)'
  BY <1>5
<1>10. Covers(dialog'[d], work[d], disk'[d][Meta], Durable')
  BY <1>2
<1> QED  BY <1>4, <1>8, <1>9, <1>10, ChoicesTouch

LEMMA ChoicesWriteBinding ==
    ASSUME TypeOK, FoldersBare, NEW d \in Devices, Shape(d), ChoicesHeld(d), DialogHolds(d), WriteBinding(d)
    PROVE  Faithful(d)
<1> DEFINE g == dialog[d]
           x == disk[d][Meta]
           b == Bound(g.existing, g.color, g.shelf)
<1>1. /\ UNCHANGED <<server, stored, work>> /\ Marks /\ Durable \subseteq Durable'
      /\ dialog \in [Devices -> Dialog] /\ g \in Dialog /\ disk \in [Devices -> [Paths -> Files]]
  <2>1. UNCHANGED <<server, stored, work>> /\ Marks
    BY UserDoes
  <2>2. Grows
    BY <2>1, NoMutation DEF TypeOK, FoldersBare, ServerOK
  <2> QED  BY <2>1, <2>2, DurableStays DEF TypeOK
<1>2. Covers(g, work[d], x, Durable) /\ x \in Files
  BY <1>1, PathsShape DEF DialogHolds
<1>3. /\ g.pc = "write" /\ dialog'[d] = Closed /\ made' = made
      /\ \/ /\ disk' = disk /\ excused' = excused \cup Held(b)
         \/ /\ disk' = [disk EXCEPT ![d][Meta] = b]
            /\ work[d].pc # "idle" => excused' = excused \cup Held(b)
  BY <1>1 DEF WriteBinding, counts, At
<1>4. Closed.pc = "closed" /\ Closed.color = 0 /\ Closed.shelf = 0
  BY DEF Closed
<1>5. /\ g.existing \in Files /\ g.color \in 0 .. MaxChoices /\ g.shelf \in 0 .. MaxChoices
  BY <1>1 DEF Dialog
<1>6. /\ b \in Files /\ Shown(b, "color") = g.color /\ Shown(b, "shelf") = g.shelf
      /\ Shown(b, "own") = Shown(g.existing, "own")
  <2>1. /\ b \in Objects /\ DOMAIN b = {"color", "shelf"} \cup KeysOf(g.existing)
        /\ b["color"] = g.color /\ b["shelf"] = g.shelf
        /\ \A k \in KeysOf(g.existing) \ {"color", "shelf"} : b[k] = g.existing[k]
    <3> HIDE DEF g
    <3> DEFINE e == g.existing
               c == g.color
               s == g.shelf
    <3>1. e \in Files /\ c \in 0 .. MaxChoices /\ s \in 0 .. MaxChoices
      BY <1>5
    <3> HIDE DEF e, c, s
    <3>2. /\ Bound(e, c, s) \in Objects /\ DOMAIN Bound(e, c, s) = {"color", "shelf"} \cup KeysOf(e)
          /\ Bound(e, c, s)["color"] = c /\ Bound(e, c, s)["shelf"] = s
          /\ \A k \in KeysOf(e) \ {"color", "shelf"} : Bound(e, c, s)[k] = e[k]
      BY <3>1, BoundShape
    <3> QED  BY <3>2 DEF e, c, s
  <2> HIDE DEF b
  <2>2. b \in Files /\ KeysOf(b) = DOMAIN b
    BY <2>1, ObjectsShape
  <2> QED  BY <2>1, <2>2 DEF Shown
<1> HIDE DEF b
<1>7. {g.color, g.shelf} \subseteq {0} \cup Held(b)
  <2>1. Shown(b, "color") \in Held(b) \cup {0} /\ Shown(b, "shelf") \in Held(b) \cup {0}
    BY ShownHeld
  <2> QED  BY <1>6, <2>1
<1>8. (1 .. made') \ (1 .. made) = {}
  BY <1>3
<1>9. \A key \in Keys : Shown(x, key) \in {0, Shown(b, key)} \cup Durable'
  <2>1. /\ Shown(x, "color") \in {0, g.color} \cup Durable /\ Shown(x, "shelf") \in {0, g.shelf} \cup Durable
        /\ Shown(x, "own") \in {0, Shown(g.existing, "own")} \cup Durable
    BY <1>2, <1>3 DEF Covers
  <2> QED  BY <1>1, <1>6, <2>1 DEF Keys
<1>10. work[d].pc = "merge" /\ work[d].path = Meta =>
         \A key \in Keys : Shown(work[d].local, key) \in {0, Shown(x, key)} \cup Durable'
  BY <1>1, <1>2 DEF Covers
<1>11. CASE disk' = disk /\ excused' = excused \cup Held(b)
  <2>1. {g.color, g.shelf} \subseteq {0} \cup Durable'
    BY <1>7, <1>11 DEF Durable
  <2>2. Covers(dialog'[d], work[d], disk'[d][Meta], Durable')
    BY <1>3, <1>4, <1>10, <1>11 DEF Covers
  <2>3. Around(d) \subseteq {0} \cup Durable' \cup Around(d)'
    BY <1>11, <2>1 DEF Around
  <2>4. \A p \in Paths : Held(disk'[d][p]) \subseteq Held(disk[d][p]) \cup Durable'
    BY <1>11
  <2> QED  BY <1>1, <1>8, <2>2, <2>3, <2>4, ChoicesTouch
<1>12. CASE /\ disk' = [disk EXCEPT ![d][Meta] = b]
            /\ work[d].pc # "idle" => excused' = excused \cup Held(b)
  <2>1. work[d].pc # "idle" => Held(b) \subseteq Held(disk[d][Meta]) \cup Durable'
    BY <1>12 DEF Durable
  <2>2. Covers(dialog'[d], work[d], b, Durable')
    <3>1. work[d].pc = "merge" /\ work[d].path = Meta =>
             \A key \in Keys : Shown(work[d].local, key) \in {0, Shown(b, key)} \cup Durable'
      BY <1>9, <1>10
    <3> QED  BY <1>3, <1>4, <3>1 DEF Covers
  <2>3. {dialog[d].color, dialog[d].shelf} \subseteq
            {0, dialog'[d].color, dialog'[d].shelf} \cup Held(b) \cup Durable'
    BY <1>7
  <2> QED  BY <1>1, <1>6, <1>8, <1>9, <1>12, <2>1, <2>2, <2>3, ChoicesMeta
<1> QED  BY <1>3, <1>11, <1>12

LEMMA ChoicesHand ==
    ASSUME TypeOK, FoldersBare, NEW d \in Devices, Shape(d), ChoicesHeld(d), DialogHolds(d),
           AddKey(d) \/ Mangle(d)
    PROVE  Faithful(d)
<1> DEFINE x == disk[d][Meta]
<1>1. /\ UNCHANGED <<server, stored, work>> /\ Marks /\ Durable \subseteq Durable'
      /\ disk \in [Devices -> [Paths -> Files]] /\ x \in Files
  <2>1. UNCHANGED <<server, stored, work>> /\ Marks
    BY UserDoes DEF User
  <2>2. Grows
    BY <2>1, NoMutation DEF TypeOK, FoldersBare, ServerOK
  <2> QED  BY <2>1, <2>2, DurableStays, PathsShape DEF TypeOK
<1>2. Covers(dialog[d], work[d], x, Durable)
  BY DEF DialogHolds
<1>3. /\ made < env.choices /\ made' = made + 1 /\ dialog' = dialog /\ dialog[d].pc # "write" /\ IsObject(x)
  BY DEF AddKey, Mangle
<1>4. /\ made + 1 \in 0 .. MaxChoices /\ made + 1 # 0 /\ made \in Nat
      /\ (1 .. made') \ (1 .. made) \subseteq {made + 1}
  <2>1. made \in Nat /\ env.choices \in 0 .. MaxChoices /\ MaxChoices \in Nat
    BY EnvironmentAssumption, NamesAssumption DEF TypeOK
  <2> QED  BY <1>3, <2>1
<1>5. {dialog[d].color, dialog[d].shelf} = {dialog'[d].color, dialog'[d].shelf}
  BY <1>3
<1>6. x \in Objects
  BY <1>1, <1>3, ObjectsShape
<1>7. work[d].pc = "merge" /\ work[d].path = Meta =>
         \A key \in Keys : Shown(work[d].local, key) \in {0, Shown(x, key)} \cup Durable'
  BY <1>1, <1>2 DEF Covers
<1>8. CASE AddKey(d)
  <2> DEFINE o == [own |-> made + 1]
             y == Over(o, x)
  <2>1. /\ disk' = [disk EXCEPT ![d][Meta] = y]
        /\ excused' = excused \cup ({Shown(x, "own")} \ {0}) \cup (IF work[d].pc = "idle" THEN {} ELSE {made + 1})
    BY <1>3, <1>8 DEF AddKey, Excuse, At
  <2>2. o \in Objects /\ DOMAIN o = {"own"} /\ o["own"] = made + 1
    <3>1. o \in [{"own"} -> 0 .. MaxChoices] /\ {"own"} \in SUBSET Keys
      BY <1>4 DEF Keys
    <3>2. o \in Objects
      <4> HIDE DEF o
      <4> QED  BY <3>1 DEF Objects
    <3> QED  BY <3>2
  <2> HIDE DEF o, x
  <2>3. /\ y \in Objects /\ DOMAIN y = DOMAIN o \cup DOMAIN x
        /\ \A k \in DOMAIN o \cup DOMAIN x : y[k] = IF k \in DOMAIN o THEN o[k] ELSE x[k]
    BY <1>6, <2>2, LaidOver
  <2> HIDE DEF y
  <2>4. y \in Files /\ KeysOf(y) = DOMAIN y /\ KeysOf(x) = DOMAIN x
    BY <1>6, <2>3, ObjectsShape
  <2>5. Shown(y, "own") = made + 1 /\ \A key : key # "own" => Shown(y, key) = Shown(x, key)
    BY <2>2, <2>3, <2>4 DEF Shown
  <2>6. Held(y) \subseteq Held(x) \cup {made + 1} /\ made + 1 \in Held(y)
    BY <1>4, <2>2, <2>3, <2>4 DEF Held
  <2>7. Shown(x, "own") \in {0} \cup Durable'
    BY <2>1 DEF Durable
  <2>8. \A key \in Keys : Shown(x, key) \in {0, Shown(y, key)} \cup Durable'
    BY <2>5, <2>7
  <2>9. Covers(dialog'[d], work[d], y, Durable')
    <3>1. work[d].pc = "merge" /\ work[d].path = Meta =>
             \A key \in Keys : Shown(work[d].local, key) \in {0, Shown(y, key)} \cup Durable'
      BY <1>7, <2>8
    <3>2. dialog[d].pc # "closed" => /\ Shown(y, "color") \in {0, dialog[d].color} \cup Durable'
                                      /\ Shown(y, "shelf") \in {0, dialog[d].shelf} \cup Durable'
      BY <1>1, <1>2, <2>5 DEF Covers
    <3> QED  BY <1>2, <1>3, <3>1, <3>2 DEF Covers
  <2>10. work[d].pc # "idle" => Held(y) \subseteq Held(disk[d][Meta]) \cup Durable'
    BY <2>1, <2>6 DEF Durable, x
  <2>11. (1 .. made') \ (1 .. made) \subseteq Durable' \cup Held(y)
    BY <1>4, <2>6
  <2>12. \A key \in Keys : Shown(disk[d][Meta], key) \in {0, Shown(y, key)} \cup Durable'
    BY <2>8 DEF x
  <2> QED  BY <1>1, <1>5, <2>1, <2>4, <2>9, <2>10, <2>11, <2>12, ChoicesMeta
<1>9. CASE Mangle(d)
  <2>1. disk' = [disk EXCEPT ![d][Meta] = Mangled] /\ excused' = excused \cup Held(x) \cup {made + 1}
    BY <1>3, <1>9 DEF Mangle
  <2>2. Held(x) \subseteq Durable' /\ made + 1 \in Durable'
    BY <2>1 DEF Durable
  <2>3. Mangled \in Files /\ Held(Mangled) = {} /\ \A key : Shown(Mangled, key) = 0
    BY ObjectsShape, ShownHeld DEF Shown
  <2>4. \A key : Shown(x, key) \in {0} \cup Durable'
    BY <2>2, ShownHeld
  <2>5. Covers(dialog'[d], work[d], Mangled, Durable')
    <3>1. work[d].pc = "merge" /\ work[d].path = Meta =>
             \A key \in Keys : Shown(work[d].local, key) \in {0} \cup Durable'
      BY <1>7, <2>4
    <3> QED  BY <1>2, <1>3, <2>3, <3>1 DEF Covers
  <2>6. (1 .. made') \ (1 .. made) \subseteq Durable'
    BY <1>4, <2>2
  <2> QED  BY <1>1, <1>5, <2>1, <2>3, <2>4, <2>5, <2>6, ChoicesMeta
<1> QED  BY <1>8, <1>9

LEMMA StepChoices ==
    ASSUME TypeOK, FoldersBare, NEW d \in Devices, Shape(d), ChoicesHeld(d), DialogHolds(d), Step(d)
    PROVE  Faithful(d)
<1>1. Grows /\ Marks
  BY StepSound DEF Sound
<1>2. CASE StartCycle(d) \/ Cycle(d) \/ Abandon(d)
  BY <1>1, <1>2, ChoicesPush, ChoicesConflict, ChoicesPull DEF Cycle
<1>3. CASE WriteBinding(d) \/ User(d)
  BY <1>3, ChoicesBook, ChoicesDialog, ChoicesWriteBinding, ChoicesHand DEF User
<1> QED  BY <1>2, <1>3 DEF Step

(***************************************************************************)
(* Choices are kept                                                        *)
(***************************************************************************)
CInv == /\ TypeOK /\ FoldersBare /\ ChoicesFound
        /\ \A d \in Devices : Shape(d) /\ ChoicesHeld(d) /\ DialogHolds(d)

LEMMA CInvInit == Init => CInv
<1> SUFFICES ASSUME Init PROVE CInv
  OBVIOUS
<1>1. PICK files \in [Paths -> Files] :
         /\ \A p \in Paths : Held(files[p]) = {}
         /\ \A d \in Devices : disk[d] = files /\ manifest[d] = files
  BY InitShape
<1>2. KInv /\ made = 0
  BY KInvInit, InitShape
<1>3. ChoicesFound
  BY <1>2 DEF ChoicesFound
<1>4. ASSUME NEW d \in Devices
      PROVE  ChoicesHeld(d) /\ DialogHolds(d)
  <2>1. work[d] = Resting /\ dialog[d] = Closed
    BY InitShape
  <2>2. Resting.pc = "idle" /\ Resting.page = {}
    BY DEF Resting
  <2>3. Closed.pc = "closed" /\ Closed.color = 0 /\ Closed.shelf = 0
    BY DEF Closed
  <2>4. Carries(work[d], disk[d], InHistory, Durable)
    BY <2>1, <2>2 DEF Carries
  <2>5. ChoicesHeld(d)
    BY <1>1, <2>4 DEF ChoicesHeld
  <2>6. Covers(dialog[d], work[d], disk[d][Meta], Durable)
    BY <2>1, <2>2, <2>3 DEF Covers
  <2> QED  BY <2>5, <2>6 DEF DialogHolds
<1> QED  BY <1>2, <1>3, <1>4 DEF CInv, KInv

LEMMA CInvStep ==
    ASSUME CInv, NEW d \in Devices, Step(d)
    PROVE  CInv'
<1>1. TypeOK /\ FoldersBare /\ ChoicesFound /\ \A e \in Devices : Shape(e) /\ ChoicesHeld(e) /\ DialogHolds(e)
  BY DEF CInv
<1>2. Sound(d) /\ Shape(d)' /\ TypeOK' /\ FoldersBare'
  BY <1>1, StepSound
<1>3. Faithful(d)
  BY <1>1, StepChoices
<1>4. Grows /\ Marks /\ (\A e \in Devices \ {d} : Same(e)) /\ Durable \subseteq Durable'
  BY <1>2, DurableStays DEF Sound
<1>5. ASSUME NEW e \in Devices \ {d}
      PROVE  Shape(e)' /\ ChoicesHeld(e)' /\ DialogHolds(e)' /\ Around(e)' = Around(e)
  <2>1. Same(e)
    BY <1>4
  <2>2. Around(e)' = Around(e)
    BY <2>1 DEF Same, Around
  <2> QED  BY <1>1, <1>4, <2>1, <2>2, ShapeStays, ChoicesStay, DialogStays DEF Same
<1>6. ASSUME NEW c \in 1 .. made'
      PROVE  c \in Durable' \/ \E e \in Devices : c \in Around(e)'
  <2>1. CASE c \in 1 .. made
    <3>1. c # 0
      BY <1>6
    <3>2. CASE c \in Durable
      BY <1>4, <3>2
    <3>3. CASE c \in Around(d)
      BY <1>3, <3>1, <3>3 DEF Faithful
    <3>4. CASE \E e \in Devices \ {d} : c \in Around(e)
      BY <1>5, <3>4
    <3> QED  BY <1>1, <2>1, <3>2, <3>3, <3>4 DEF ChoicesFound
  <2>2. CASE c \notin 1 .. made
    BY <1>3, <1>6, <2>2 DEF Faithful
  <2> QED  BY <2>1, <2>2
<1>7. ChoicesFound'
  BY <1>6 DEF ChoicesFound
<1>8. \A e \in Devices : Shape(e)' /\ ChoicesHeld(e)' /\ DialogHolds(e)'
  BY <1>2, <1>3, <1>5 DEF Faithful
<1> QED  BY <1>2, <1>7, <1>8 DEF CInv

LEMMA CInvStutter == ASSUME CInv, UNCHANGED vars PROVE CInv'
<1>1. /\ UNCHANGED <<hist, last, seq, disk, manifest, versions, cursor, raced, work, dialog, excused, unread, env>>
      /\ UNCHANGED <<made, books, deletes, faults>>
  BY DEF vars, server, stored, history, counts
<1>2. TypeOK' /\ FoldersBare' /\ \A d \in Devices : Shape(d)'
  BY <1>1 DEF CInv, TypeOK, FoldersBare, Shape, Holding, At
<1>3. InHistory' = InHistory /\ Durable' = Durable
  BY <1>1 DEF InHistory, Durable
<1>4. ChoicesFound'
  BY <1>1, <1>3 DEF CInv, ChoicesFound, Around
<1>5. \A d \in Devices : ChoicesHeld(d)' /\ DialogHolds(d)'
  BY <1>1, <1>3 DEF CInv, ChoicesHeld, DialogHolds
<1> QED  BY <1>2, <1>4, <1>5 DEF CInv

LEMMA CInvKeeps == CInv => ChoicesKept
<1> SUFFICES ASSUME CInv, NEW c \in (1 .. made) \ excused
             PROVE  Kept(c) \/ \E d \in Devices : c \in {dialog[d].color, dialog[d].shelf}
  BY DEF ChoicesKept
<1>1. c \in InHistory \/ \E d \in Devices : c \in Around(d)
  BY DEF CInv, ChoicesFound, Durable
<1>2. CASE c \in InHistory
  BY <1>2 DEF InHistory, Kept
<1>3. CASE \E d \in Devices : c \in Around(d)
  BY <1>3 DEF Around, Kept
<1> QED  BY <1>1, <1>2, <1>3

\* No choice is lost: what a user chose for a book is in a file of some device, in a
\* version the server can restore or in an open dialog, through conflicts, merges by
\* keys, copies, failed calls and vanished files, unless the user took it back or it
\* met a hazard the model excuses by name.
THEOREM ChoicesAlwaysKept == Spec => []ChoicesKept
<1>1. CInv /\ [Next]_vars => CInv'
  BY CInvStep, CInvStutter, NextSteps
<1> QED  BY <1>1, CInvInit, CInvKeeps, PTL DEF Spec
=============================================================================
