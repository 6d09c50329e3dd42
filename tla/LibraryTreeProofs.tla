-------------------------- MODULE LibraryTreeProofs --------------------------
(***************************************************************************)
(* The library, proved for any paths, vaults and palette and any number of *)
(* slots and changes.                                                      *)
(*                                                                         *)
(* Two facts carry the proof.  The vault list, in memory and in the file,  *)
(* names each vault once: so a vault that is removed is removed alone, and *)
(* what a slot does to a vault can be followed by its path.  And what is   *)
(* on disk lies in folders that are: so a folder that stood open and still *)
(* exists has all of its way down from the vault among what is expanded    *)
(* and on disk, and hydrating reaches it.                                  *)
(***************************************************************************)
EXTENDS LibraryTree, TLAPS

(***************************************************************************)
(* The invariant                                                           *)
(***************************************************************************)

Names(vs) == {vs[i].path : i \in DOMAIN vs}

\* No vault is listed twice.
Distinct(vs) == \A i, j \in DOMAIN vs : vs[i].path = vs[j].path => i = j

\* A vault in memory; its colour, nodes and open folders may be any.
IsVault(x) == x \in [path : VaultPaths, color : {x.color}, nodes : {x.nodes}, open : {x.open}]

IsList(vs) ==
    /\ vs \in Seq({vs[i] : i \in DOMAIN vs})
    /\ \A i \in DOMAIN vs : IsVault(vs[i])
    /\ Distinct(vs)

\* The list in the file.
IsSaved(vs) ==
    /\ \E n \in Nat : DOMAIN vs = 1 .. n
    /\ Names(vs) \subseteq VaultPaths
    /\ Distinct(vs)

\* What is on disk lies in folders that are.
Closed(paths) == paths \subseteq Paths /\ \A p \in paths : Above[p] \subseteq paths

IInv ==
    /\ Closed(disk)
    /\ IsList(vaults)
    /\ IsSaved(config.vaults)
    /\ unsaved \in BOOLEAN /\ unread \in BOOLEAN
    /\ VaultsKept

----------------------------------------------------------------------------
(***************************************************************************)
(* Paths                                                                   *)
(***************************************************************************)

\* A path is above itself; above is transitive and antisymmetric, and only folders
\* are above another path.
LEMMA AboveOrders ==
    ASSUME NEW p \in Paths
    PROVE  /\ p \in Above[p] /\ Above[p] \subseteq Paths
           /\ \A q \in Above[p] : Above[q] \subseteq Above[p]
           /\ \A q \in Above[p] : p \in Above[q] => p = q
           /\ \A q \in Above[p] \ {p} : q \in Folders
BY AboveAssumption DEF Folders

\* A path can be added where its folder is.
LEMMA AddingKeeps ==
    ASSUME NEW paths, Closed(paths), NEW p \in Paths, Parent[p] = Outside \/ Parent[p] \in paths
    PROVE  Closed(paths \cup {p})
<1>1. Above[p] \subseteq paths \cup {p}
  BY AboveAssumption DEF Closed
<1> QED  BY <1>1 DEF Closed

\* What is removed goes with what lies in it.
LEMMA RemovingKeeps ==
    ASSUME Closed(disk), NEW p \in Paths
    PROVE  Closed(disk \ Subtree(p))
<1> SUFFICES ASSUME NEW q \in disk, p \notin Above[q], NEW r \in Above[q]
             PROVE  r \in disk /\ p \notin Above[r]
  BY DEF Closed, Subtree, Under
<1> QED  BY AboveOrders DEF Closed

\* What is renamed in its folder takes along what lies in it.
LEMMA RenamingKeeps ==
    ASSUME Closed(disk), NEW p \in disk \cap Renamable
    PROVE  Closed((disk \ Subtree(p)) \cup {Twin[q] : q \in Subtree(p)})
<1> DEFINE there == {Twin[q] : q \in Subtree(p)}
<1>1. p \in Paths /\ Subtree(p) \subseteq disk /\ disk \subseteq Paths
  BY DEF Closed, Subtree, Renamable
<1>2. there \subseteq Paths
  BY <1>1, TwinAssumption
<1>3. ASSUME NEW q \in Subtree(p)
      PROVE  Above[Twin[q]] \subseteq (disk \ Subtree(p)) \cup there
  <2>1. q \in disk /\ q \in Paths /\ p \in Above[q]
    BY <1>1 DEF Subtree, Under
  <2>2. \A r \in Above[q] : p \in Above[r] => r \in Subtree(p)
    BY <2>1 DEF Closed, Subtree, Under
  <2>3. Above[p] \ {p} \subseteq disk \ Subtree(p)
    BY <1>1, AboveOrders DEF Closed, Subtree, Under
  <2>4. Above[Twin[q]] \subseteq {Twin[r] : r \in {r \in Above[q] : p \in Above[r]}} \cup (Above[p] \ {p})
    BY <2>1, TwinAssumption
  <2> QED  BY <2>2, <2>3, <2>4
<1>4. Closed(disk \ Subtree(p))
  BY <1>1, RemovingKeeps
<1> QED  BY <1>1, <1>2, <1>3, <1>4 DEF Closed

----------------------------------------------------------------------------
(***************************************************************************)
(* Lists of vaults                                                         *)
(***************************************************************************)

\* ws lists the vaults of vs, in their order.
SameNames(vs, ws) ==
    /\ DOMAIN ws = DOMAIN vs
    /\ \A i \in DOMAIN vs : ws[i].path = vs[i].path
    /\ \E f : ws = [i \in DOMAIN vs |-> f[i]]
    /\ \A i \in DOMAIN vs : IsVault(ws[i])

LEMMA SameNamesKeep ==
    ASSUME NEW vs, IsList(vs) \/ IsSaved(vs), NEW ws, SameNames(vs, ws)
    PROVE  IsList(ws) /\ Names(ws) = Names(vs)
<1>1. PICK n \in Nat : DOMAIN vs = 1 .. n
  <2>1. CASE IsList(vs)
    <3>1. Len(vs) \in Nat /\ DOMAIN vs = 1 .. Len(vs)
      BY <2>1 DEF IsList
    <3> QED  BY <3>1
  <2> QED  BY <2>1 DEF IsSaved
<1>2. ws = [i \in 1 .. n |-> ws[i]] /\ DOMAIN ws = 1 .. n
  BY <1>1 DEF SameNames
<1>3. ws \in Seq({ws[i] : i \in DOMAIN ws})
  <2> DEFINE S == {ws[i] : i \in DOMAIN ws}
  <2>1. \A i \in 1 .. n : ws[i] \in S
    BY <1>2
  <2> HIDE DEF S
  <2>2. [i \in 1 .. n |-> ws[i]] \in Seq(S)
    BY <2>1
  <2> QED  BY <1>2, <2>2 DEF S
<1>4. Distinct(ws)
  BY DEF Distinct, SameNames, IsList, IsSaved
<1>5. Names(ws) = Names(vs)
  BY DEF Names, SameNames
<1> QED  BY <1>3, <1>4, <1>5 DEF IsList, SameNames

\* A vault built is a vault.
LEMMA BuiltIsVault ==
    ASSUME NEW on, NEW v \in VaultPaths, NEW color, NEW expanded, NEW isActive
    PROVE  /\ IsVault(BuildVault(on, v, color, expanded, isActive))
           /\ BuildVault(on, v, color, expanded, isActive).path = v
BY DEF BuildVault, IsVault

LEMMA RebuildNames ==
    ASSUME NEW on, NEW vs, IsList(vs), NEW act, NEW expanded
    PROVE  SameNames(vs, RebuildWith(on, vs, act, expanded))
<1> DEFINE ws == RebuildWith(on, vs, act, expanded)
<1>1. \A i \in DOMAIN vs : vs[i].path \in VaultPaths
  BY DEF IsList, IsVault
<1>2. ws = [i \in DOMAIN vs |-> BuildVault(on, vs[i].path, vs[i].color, expanded, vs[i].path = act)]
  BY DEF RebuildWith
<1>3. \A i \in DOMAIN vs : IsVault(ws[i]) /\ ws[i].path = vs[i].path
  <2> HIDE DEF ws
  <2> QED  BY <1>1, <1>2, BuiltIsVault
<1>4. \E f : ws = [i \in DOMAIN vs |-> f[i]]
  <2> HIDE DEF ws
  <2> WITNESS ws
  <2> QED  BY <1>2
<1>5. DOMAIN ws = DOMAIN vs
  <2> HIDE DEF ws
  <2> QED  BY <1>2
<1>6. SameNames(vs, ws)
  <2> HIDE DEF ws
  <2> QED  BY <1>3, <1>4, <1>5 DEF SameNames
<1> QED  BY <1>6

LEMMA EmptyList == IsList(<<>>) /\ IsSaved(<<>>) /\ Names(<<>>) = {}
<1>1. DOMAIN <<>> = 1 .. 0 /\ 1 .. 0 = {} /\ <<>> \in Seq({})
  OBVIOUS
<1> QED  BY <1>1 DEF IsList, IsSaved, Names, Distinct

LEMMA PaintedNames ==
    ASSUME NEW vs, NEW ws, SameNames(vs, ws)
    PROVE  SameNames(vs, Painted(ws))
<1> PICK colors : Painted(ws) = [i \in DOMAIN ws |-> [ws[i] EXCEPT !.color = colors[i]]]
  BY DEF Painted
<1> DEFINE us == [i \in DOMAIN vs |-> [ws[i] EXCEPT !.color = colors[i]]]
<1>1. Painted(ws) = us
  BY DEF SameNames
<1>2. \A i \in DOMAIN vs : IsVault(us[i]) /\ us[i].path = vs[i].path
  BY DEF SameNames, IsVault
<1>3. \E f : us = [i \in DOMAIN vs |-> f[i]]
  <2> WITNESS us
  <2> QED  OBVIOUS
<1> HIDE DEF us
<1>4. DOMAIN us = DOMAIN vs
  BY DEF us
<1> QED  BY <1>1, <1>2, <1>3, <1>4 DEF SameNames

\* What is read when the app starts.
Loaded(on, vs, act, expanded) ==
    [i \in DOMAIN vs |-> BuildVault(on, vs[i].path, vs[i].color, expanded, vs[i].path = act)]

\* It names the vaults of the file.
LEMMA LoadedNames ==
    ASSUME NEW on, NEW vs, IsSaved(vs), NEW act, NEW expanded
    PROVE  SameNames(vs, Loaded(on, vs, act, expanded))
<1> DEFINE built(i) == BuildVault(on, vs[i].path, vs[i].color, expanded, vs[i].path = act)
           ws == [i \in DOMAIN vs |-> built(i)]
<1>1. \A i \in DOMAIN vs : vs[i].path \in VaultPaths
  BY DEF IsSaved, Names
<1>2. \A i \in DOMAIN vs : IsVault(built(i)) /\ built(i).path = vs[i].path
  BY <1>1, BuiltIsVault
<1> HIDE DEF built
<1>3. \E f : ws = [i \in DOMAIN vs |-> f[i]]
  <2> WITNESS ws
  <2> QED  OBVIOUS
<1>4. SameNames(vs, ws)
  BY <1>2, <1>3 DEF SameNames
<1> QED  BY <1>4 DEF built, Loaded

\* A change of one vault's tree.
LEMMA ChangedNames ==
    ASSUME NEW vs, IsList(vs), NEW k, NEW x, k \in DOMAIN vs => IsVault(x) /\ x.path = vs[k].path
    PROVE  SameNames(vs, [vs EXCEPT ![k] = x])
<1> DEFINE ws == [vs EXCEPT ![k] = x]
<1>1. DOMAIN ws = DOMAIN vs /\ \A i \in DOMAIN vs : ws[i] = IF i = k THEN x ELSE vs[i]
  OBVIOUS
<1>2. \E f : ws = [i \in DOMAIN vs |-> f[i]]
  <2>1. ws = [i \in DOMAIN vs |-> IF i = k THEN x ELSE vs[i]]
    OBVIOUS
  <2>2. ws = [i \in DOMAIN vs |-> ws[i]]
    OBVIOUS
  <2> HIDE DEF ws
  <2> WITNESS ws
  <2> QED  BY <2>2
<1>3. \A i \in DOMAIN vs : IsVault(ws[i]) /\ ws[i].path = vs[i].path
  <2> HIDE DEF ws
  <2> QED  BY <1>1 DEF IsList
<1> HIDE DEF ws
<1> QED  BY <1>1, <1>2, <1>3 DEF SameNames

LEMMA OpenedIsVault ==
    ASSUME NEW x, IsVault(x), NEW f, NEW expanded
    PROVE  /\ IsVault(ToggleFolder(x, f, expanded)) /\ ToggleFolder(x, f, expanded).path = x.path
           /\ IsVault(RevealFolder(x, f, expanded)) /\ RevealFolder(x, f, expanded).path = x.path
<1>1. IsVault(OpenFolder(x, f, expanded)) /\ OpenFolder(x, f, expanded).path = x.path
  BY DEF OpenFolder, IsVault
<1>2. IsVault(ToggleFolder(x, f, expanded)) /\ ToggleFolder(x, f, expanded).path = x.path
  BY <1>1 DEF ToggleFolder, IsVault
<1>3. PICK seen : RevealFolder(x, f, expanded) = [x EXCEPT !.nodes = seen.nodes, !.open = seen.open]
  BY DEF RevealFolder
<1> QED  BY <1>2, <1>3 DEF IsVault

\* A vault is removed alone: the list is the others, in their order.
LEMMA RemovedList ==
    ASSUME NEW vs, IsList(vs), NEW v \in Names(vs)
    PROVE  /\ IsList(Removed(vs, v))
           /\ Names(Removed(vs, v)) = Names(vs) \ {v}
           /\ \A j \in DOMAIN Removed(vs, v) : \E i \in DOMAIN vs : Removed(vs, v)[j] = vs[i]
           /\ \A i \in DOMAIN vs : vs[i].path # v =>
                 \E j \in DOMAIN Removed(vs, v) : Removed(vs, v)[j] = vs[i]
<1> DEFINE n == Len(vs)
           k == CHOOSE i \in DOMAIN vs : vs[i].path = v
           ws == Removed(vs, v)
<1>1. n \in Nat /\ DOMAIN vs = 1 .. n
  BY DEF IsList
<1>2. k \in DOMAIN vs /\ vs[k].path = v
  BY DEF Names
<1>3. \A i \in DOMAIN vs : vs[i].path = v => i = k
  BY <1>2 DEF IsList, Distinct
<1>4. ws = [i \in 1 .. n - 1 |-> IF i < k THEN vs[i] ELSE vs[i + 1]]
  BY DEF Removed
<1> HIDE DEF n, k, ws
<1>5. n - 1 \in Nat /\ DOMAIN ws = 1 .. n - 1 /\ k \in 1 .. n
  BY <1>1, <1>2, <1>4
<1>6. \A j \in DOMAIN ws : ws[j] = IF j < k THEN vs[j] ELSE vs[j + 1]
  BY <1>4, <1>5
<1>7. \A j \in DOMAIN ws : \E i \in DOMAIN vs : i # k /\ ws[j] = vs[i]
  <2> TAKE j \in DOMAIN ws
  <2>1. CASE j < k
    BY <1>1, <1>5, <1>6, <2>1
  <2>2. CASE ~(j < k)
    BY <1>1, <1>5, <1>6, <2>2
  <2> QED  BY <2>1, <2>2
<1>8. \A i \in DOMAIN vs : vs[i].path # v => \E j \in DOMAIN ws : ws[j] = vs[i]
  <2> SUFFICES ASSUME NEW i \in DOMAIN vs, vs[i].path # v
               PROVE  \E j \in DOMAIN ws : ws[j] = vs[i]
    OBVIOUS
  <2>1. i # k /\ i \in 1 .. n
    BY <1>1, <1>2
  <2>2. CASE i < k
    <3>1. i \in DOMAIN ws
      BY <1>1, <1>5, <2>1, <2>2
    <3> QED  BY <1>6, <2>2, <3>1
  <2>3. CASE i > k
    <3>1. i - 1 \in DOMAIN ws /\ ~(i - 1 < k) /\ (i - 1) + 1 = i
      BY <1>1, <1>5, <2>1, <2>3
    <3> QED  BY <1>6, <3>1
  <2> QED  BY <1>5, <2>1, <2>2, <2>3
<1>9. Names(ws) = Names(vs) \ {v}
  BY <1>2, <1>3, <1>7, <1>8 DEF Names
<1>10. Distinct(ws)
  <2> SUFFICES ASSUME NEW i \in DOMAIN ws, NEW j \in DOMAIN ws, ws[i].path = ws[j].path
               PROVE  i = j
    BY DEF Distinct
  <2> DEFINE at(m) == IF m < k THEN m ELSE m + 1
  <2>1. at(i) \in DOMAIN vs /\ at(j) \in DOMAIN vs
    BY <1>1, <1>5
  <2>2. ws[i] = vs[at(i)] /\ ws[j] = vs[at(j)]
    BY <1>6
  <2>3. at(i) = at(j)
    <3> HIDE DEF at
    <3> QED  BY <2>1, <2>2 DEF IsList, Distinct
  <2> QED  BY <1>1, <1>5, <2>3
<1>11. \A j \in DOMAIN ws : IsVault(ws[j])
  BY <1>7 DEF IsList
<1>12. ws \in Seq({ws[i] : i \in DOMAIN ws})
  <2> DEFINE S == {ws[i] : i \in DOMAIN ws}
  <2>1. ws = [i \in 1 .. n - 1 |-> ws[i]] /\ \A i \in 1 .. n - 1 : ws[i] \in S
    BY <1>4, <1>5
  <2> HIDE DEF S
  <2>2. [i \in 1 .. n - 1 |-> ws[i]] \in Seq(S)
    BY <1>5, <2>1
  <2> QED  BY <2>1, <2>2 DEF S
<1>13. IsList(ws)
  BY <1>10, <1>11, <1>12 DEF IsList
<1> QED  BY <1>7, <1>8, <1>9, <1>13 DEF ws

\* A vault added comes last.
LEMMA AddedList ==
    ASSUME NEW vs, IsList(vs), NEW x, IsVault(x), x.path \notin Names(vs)
    PROVE  /\ IsList(Append(vs, x))
           /\ Names(Append(vs, x)) = Names(vs) \cup {x.path}
           /\ DOMAIN vs \subseteq DOMAIN Append(vs, x)
           /\ \A i \in DOMAIN vs : Append(vs, x)[i] = vs[i]
<1> DEFINE n == Len(vs)
           ws == Append(vs, x)
           S == {vs[i] : i \in DOMAIN vs} \cup {x}
<1>1. n \in Nat /\ DOMAIN vs = 1 .. n
  BY DEF IsList
<1>2. vs \in Seq(S)
  <2> HIDE DEF S
  <2>1. \A i \in 1 .. n : vs[i] \in S
    BY <1>1 DEF S
  <2> QED  BY <1>1, <2>1 DEF IsList
<1>3. x \in S
  OBVIOUS
<1> HIDE DEF S
<1>4. ws \in Seq(S) /\ DOMAIN ws = 1 .. n + 1 /\ ws[n + 1] = x /\ \A i \in 1 .. n : ws[i] = vs[i]
  BY <1>1, <1>2, <1>3
<1> HIDE DEF n, ws
<1>5. \A i \in DOMAIN ws : i \in DOMAIN vs \/ i = n + 1
  BY <1>1, <1>4
<1>6. DOMAIN vs \subseteq DOMAIN ws /\ n + 1 \in DOMAIN ws
  BY <1>1, <1>4
<1>7. Names(ws) = Names(vs) \cup {x.path}
  BY <1>1, <1>4, <1>5, <1>6 DEF Names
<1>8. Distinct(ws)
  BY <1>1, <1>4, <1>5 DEF Distinct, IsList, Names
<1>9. \A i \in DOMAIN ws : IsVault(ws[i])
  BY <1>1, <1>4, <1>5 DEF IsList
<1>10. ws \in Seq({ws[i] : i \in DOMAIN ws})
  <2> DEFINE T == {ws[i] : i \in DOMAIN ws}
  <2>1. \A i \in DOMAIN ws : ws[i] \in T
    OBVIOUS
  <2>2. ws = [i \in 1 .. n + 1 |-> ws[i]]
    BY <1>4
  <2> HIDE DEF T
  <2>3. [i \in 1 .. n + 1 |-> ws[i]] \in Seq(T)
    BY <1>1, <1>4, <2>1
  <2> QED  BY <2>2, <2>3 DEF T
<1>11. IsList(ws)
  BY <1>8, <1>9, <1>10 DEF IsList
<1> QED  BY <1>1, <1>4, <1>6, <1>7, <1>11 DEF ws
----------------------------------------------------------------------------
(***************************************************************************)
(* Every step keeps the invariant                                          *)
(***************************************************************************)

\* What a step does to the list is right, when the slot that stores it has the list
\* the user made.
LEMMA StoreKeeps ==
    ASSUME IsSaved(config.vaults), unsaved \in BOOLEAN, unread \in BOOLEAN, NEW vs, IsList(vs), NEW act,
           Store(vs, act), ~unsaved /\ ~unread => mine' = Names(vs)
    PROVE  /\ vaults' = vs
           /\ IsList(vaults') /\ IsSaved(config.vaults)'
           /\ unsaved' \in BOOLEAN /\ unread' \in BOOLEAN /\ VaultsKept'
<1>1. vaults' = vs /\ Listed' = Names(vs) /\ Names(vs) = {vs[i].path : i \in DOMAIN vs}
  BY DEF Store, Listed, Names
<1>2. PICK n \in Nat : DOMAIN vs = 1 .. n
  <2>1. Len(vs) \in Nat /\ DOMAIN vs = 1 .. Len(vs)
    BY DEF IsList
  <2> QED  BY <2>1
<1>3. CASE config' = Saved(vs, act) /\ unsaved' = ((unsaved \/ unread) /\ mine' # Names(vs)) /\ unread' = FALSE
  <2> DEFINE named == config.vaults
  <2>1. /\ DOMAIN named' = DOMAIN vs
        /\ \A i \in DOMAIN vs : named'[i].path = vs[i].path
    BY <1>3 DEF Saved
  <2>2. Names(vs) \subseteq VaultPaths
    BY DEF IsList, IsVault, Names
  <2>3. IsSaved(named)'
    <3>1. Names(named)' = Names(vs)
      BY <2>1 DEF Names
    <3>2. Distinct(named)'
      BY <2>1 DEF Distinct, IsList
    <3> QED  BY <1>2, <2>1, <2>2, <3>1, <3>2 DEF IsSaved
  <2>4. Names(vs) = {config.vaults[i].path : i \in DOMAIN config.vaults}'
    BY <2>1 DEF Names
  <2> HIDE DEF named
  <2>5. unsaved' \in BOOLEAN /\ (~unsaved' => mine' = Names(vs)) /\ unread' = FALSE
    BY <1>3
  <2>6. VaultsKept'
    BY <1>1, <2>4, <2>5 DEF VaultsKept
  <2> QED  BY <1>1, <2>3, <2>5, <2>6 DEF named
<1>4. CASE config' \in {config, Unreadable} /\ unsaved' = TRUE /\ unread' = FALSE
  <2>1. IsSaved(Unreadable.vaults)
    BY EmptyList DEF Unreadable
  <2> QED  BY <1>1, <1>4, <2>1 DEF VaultsKept
<1> QED  BY <1>3, <1>4 DEF Store, Names

\* A step that leaves the lists alone, in a process that runs.
LEMMA ListsStay ==
    ASSUME IInv, pc # "off", UNCHANGED <<vaults, config, mine, unsaved, unread>>
    PROVE  /\ IsList(vaults') /\ IsSaved(config.vaults)'
           /\ unsaved' \in BOOLEAN /\ unread' \in BOOLEAN /\ VaultsKept'
BY DEF IInv, VaultsKept, Listed

\* What Slot, create_vault's second half and the watcher's refresh rely on.
LEMMA InSlot ==
    ASSUME IInv
    PROVE  /\ Slot => pc = "ready" /\ pc # "off"
           /\ pc \in VaultPaths => pc # "off"
           /\ pc # "off" /\ ~unsaved /\ ~unread => mine = Names(vaults)
           /\ Listed = Names(vaults)
           /\ Listed \subseteq VaultPaths
BY PathsAssumption DEF IInv, Slot, VaultsKept, Listed, Names, IsList, IsVault

\* A list read again keeps its vaults.
LEMMA RebuiltList ==
    ASSUME NEW on, NEW vs, IsList(vs), NEW act, NEW expanded
    PROVE  /\ IsList(RebuildWith(on, vs, act, expanded))
           /\ Names(RebuildWith(on, vs, act, expanded)) = Names(vs)
BY RebuildNames, SameNamesKeep

LEMMA AddedKeeps ==
    ASSUME IInv, pc # "off", NEW on, NEW v \in VaultPaths \ Listed, Added(on, v)
    PROVE  /\ IsList(vaults') /\ IsSaved(config.vaults)'
           /\ unsaved' \in BOOLEAN /\ unread' \in BOOLEAN /\ VaultsKept'
<1> DEFINE x == [path |-> v, color |-> SpareColor(Colors(vaults)), nodes |-> {v}, open |-> {}]
           vs == Append(vaults, x)
<1>1. IsVault(x) /\ x.path = v
  BY DEF IsVault
<1>2. IsList(vs) /\ Names(vs) = Names(vaults) \cup {v}
  <2> HIDE DEF x
  <2> QED  BY <1>1, InSlot, AddedList DEF IInv
<1>3. mine' = mine \cup {v} /\ (~unsaved /\ ~unread => mine' = Names(vs))
  BY <1>2, InSlot DEF Added
<1>4. CASE Store(RebuildWith(on, vs, v, {}), v)
  <2> HIDE DEF vs
  <2>1. IsList(RebuildWith(on, vs, v, {})) /\ Names(RebuildWith(on, vs, v, {})) = Names(vs)
    BY <1>2, RebuiltList
  <2> QED  BY <1>3, <1>4, <2>1, StoreKeeps DEF IInv
<1>5. CASE Store(vs, active)
  <2> HIDE DEF vs
  <2> QED  BY <1>2, <1>3, <1>5, StoreKeeps DEF IInv
<1> QED  BY <1>4, <1>5 DEF Added

\* A slot that reads the listed vaults again and stores them.
LEMMA RestoredKeeps ==
    ASSUME IInv, pc # "off", mine' = mine, NEW on, NEW act, NEW now, NEW expanded,
           Store(RebuildWith(on, vaults, act, expanded), now)
    PROVE  /\ IsList(vaults') /\ IsSaved(config.vaults)'
           /\ unsaved' \in BOOLEAN /\ unread' \in BOOLEAN /\ VaultsKept'
<1> DEFINE vs == RebuildWith(on, vaults, act, expanded)
<1>1. IsList(vs) /\ Names(vs) = Names(vaults)
  BY RebuiltList DEF IInv
<1>2. ~unsaved /\ ~unread => mine' = Names(vs)
  BY <1>1, InSlot
<1> HIDE DEF vs
<1> QED  BY <1>1, <1>2, StoreKeeps DEF IInv, vs

\* A slot that opens or closes folders of one vault and stores the list.
LEMMA ChangedKeeps ==
    ASSUME IInv, pc # "off", mine' = mine, NEW k, NEW x, NEW act,
           k \in DOMAIN vaults => IsVault(x) /\ x.path = vaults[k].path,
           Store([vaults EXCEPT ![k] = x], act)
    PROVE  /\ IsList(vaults') /\ IsSaved(config.vaults)'
           /\ unsaved' \in BOOLEAN /\ unread' \in BOOLEAN /\ VaultsKept'
<1> DEFINE vs == [vaults EXCEPT ![k] = x]
<1>1. IsList(vaults)
  BY DEF IInv
<1>2. SameNames(vaults, vs)
  BY <1>1, ChangedNames
<1> HIDE DEF vs
<1>3. IsList(vs) /\ Names(vs) = Names(vaults)
  BY <1>1, <1>2, SameNamesKeep
<1>4. ~unsaved /\ ~unread => mine' = Names(vs)
  BY <1>3, InSlot
<1> QED  BY <1>3, <1>4, StoreKeeps DEF IInv, vs

\* The first configuration, an old one or none, names each vault once.
LEMMA InitInv == Init => IInv
<1> SUFFICES ASSUME Init PROVE IInv
  OBVIOUS
<1>1. Closed(disk)
  BY StartAssumption DEF Init, Closed
<1>2. IsList(vaults)
  BY EmptyList DEF Init
<1>3. IsSaved(config.vaults) /\ mine = {config.vaults[i].path : i \in DOMAIN config.vaults}
  <2>1. CASE config = Unreadable /\ mine = {}
    BY <2>1, EmptyList DEF Unreadable, Names
  <2>2. CASE /\ config = [vaults |-> [i \in DOMAIN OldVaults |-> [path |-> OldVaults[i], color |-> ""]],
                          active |-> None, expanded |-> {}]
             /\ mine = Range(OldVaults)
    <3>1. \E n \in Nat : DOMAIN OldVaults = 1 .. n
      BY StartAssumption
    <3>2. \A i \in DOMAIN OldVaults : OldVaults[i] \in VaultPaths
      BY StartAssumption
    <3>3. \A i, j \in DOMAIN OldVaults : OldVaults[i] = OldVaults[j] => i = j
      BY StartAssumption DEF IsInjective
    <3>4. /\ DOMAIN config.vaults = DOMAIN OldVaults
          /\ \A i \in DOMAIN OldVaults : config.vaults[i].path = OldVaults[i]
      BY <2>2
    <3>5. mine = {config.vaults[i].path : i \in DOMAIN config.vaults}
      BY <2>2, <3>4 DEF Range
    <3> QED  BY <3>1, <3>2, <3>3, <3>4, <3>5 DEF IsSaved, Names, Distinct
  <2> QED  BY <2>1, <2>2 DEF Init
<1> QED  BY <1>1, <1>2, <1>3 DEF Init, IInv, VaultsKept

LEMMA NextInv == IInv /\ [Next]_vars => IInv'
<1> SUFFICES ASSUME IInv, [Next]_vars
             PROVE  IInv'
  OBVIOUS
<1> DEFINE Lists ==
              /\ IsList(vaults') /\ IsSaved(config.vaults)'
              /\ unsaved' \in BOOLEAN /\ unread' \in BOOLEAN /\ VaultsKept'
<1> USE DEF IInv
<1>0. ASSUME Closed(disk)', Lists
      PROVE  IInv'
  BY <1>0
<1> HIDE DEF Lists, IInv
<1>1. Closed(disk) /\ disk \subseteq Paths /\ IsList(vaults)
  BY DEF IInv, Closed
<1>2. CASE Load
  <2> DEFINE built == Loaded(disk, config.vaults, Chosen(config.vaults, config.active), config.expanded)
  <2>1. IsSaved(config.vaults) /\ UNCHANGED <<disk, config, mine, unsaved>>
    BY <1>2 DEF IInv, Load
  <2>2. CASE vaults' = Painted(built) /\ unread' = FALSE
    <3>1. SameNames(config.vaults, built)
      BY <2>1, LoadedNames
    <3> HIDE DEF built
    <3>2. IsList(vaults') /\ Names(vaults') = Names(config.vaults)
      BY <2>1, <2>2, <3>1, PaintedNames, SameNamesKeep
    <3>3. VaultsKept'
      BY <2>1, <3>2 DEF IInv, VaultsKept, Listed, Names
    <3> QED  BY <1>0, <1>1, <2>1, <2>2, <3>2, <3>3 DEF Lists, IInv
  <2>3. CASE vaults' = <<>> /\ unread' = TRUE
    <3>1. IsList(vaults')
      BY <2>3, EmptyList
    <3>2. VaultsKept'
      BY <2>1, <2>3 DEF IInv, VaultsKept
    <3> QED  BY <1>0, <1>1, <2>1, <2>3, <3>1, <3>2 DEF Lists, IInv
  <2> QED  BY <1>2, <2>2, <2>3 DEF Load, Loaded
<1>3. CASE Exit
  <2>1. IsList(vaults')
    BY <1>3, EmptyList DEF Exit
  <2> QED  BY <1>0, <1>1, <1>3, <2>1 DEF Exit, Lists, IInv, VaultsKept
<1>4. CASE SetActive
  <2>1. PICK v \in Listed : Slot /\ mine' = mine /\ Open(v) /\ disk' = disk
    BY <1>4 DEF SetActive
  <2>2. Store(RebuildWith(disk, vaults, v, Expanded(vaults)), v)
    BY <2>1 DEF Open, Rebuild
  <2>3. Lists
    BY <2>1, <2>2, InSlot, RestoredKeeps DEF Lists
  <2> QED  BY <1>0, <1>1, <2>1, <2>3
<1>5. CASE AddVault
  <2>1. PICK v \in VaultPaths \ Listed : Slot /\ Added(disk, v) /\ disk' = disk
    BY <1>5 DEF AddVault
  <2>2. Lists
    BY <2>1, InSlot, AddedKeeps DEF Lists
  <2> QED  BY <1>0, <1>1, <2>1, <2>2
<1>6. CASE CreateVault
  <2>1. PICK v \in VaultPaths :
          /\ Slot /\ NewBook[v] # None
          /\ Parent[v] = Outside \/ Parent[v] \in disk
          /\ disk' \in {disk \cup {v}, disk \cup {v, NewBook[v]}, disk \cup {v, NewBook[v], NewNote[v]}}
          /\ UNCHANGED <<vaults, config, mine, unsaved, unread>> \/ (v \notin Listed /\ Added(disk', v))
    BY <1>6 DEF CreateVault
  <2>2. Lists
    BY <2>1, InSlot, AddedKeeps, ListsStay DEF Lists
  <2>3. Closed(disk')
    <3>1. v \in Paths /\ NewBook[v] \in Paths /\ NewNote[v] \in Paths
      BY <2>1, StartAssumption, PathsAssumption
    <3>2. Closed(disk \cup {v})
      BY <1>1, <2>1, <3>1, AddingKeeps
    <3>3. Closed((disk \cup {v}) \cup {NewBook[v]})
      BY <2>1, <3>1, <3>2, AddingKeeps, StartAssumption
    <3>4. Closed(((disk \cup {v}) \cup {NewBook[v]}) \cup {NewNote[v]})
      BY <2>1, <3>1, <3>3, AddingKeeps, StartAssumption
    <3>5. /\ (disk \cup {v}) \cup {NewBook[v]} = disk \cup {v, NewBook[v]}
          /\ ((disk \cup {v}) \cup {NewBook[v]}) \cup {NewNote[v]} = disk \cup {v, NewBook[v], NewNote[v]}
      OBVIOUS
    <3> QED  BY <2>1, <3>2, <3>3, <3>4, <3>5
  <2> QED  BY <1>0, <2>2, <2>3
<1>7. CASE OpenCreated
  <2>1. pc \in VaultPaths /\ mine' = mine /\ Open(pc) /\ disk' = disk
    BY <1>7 DEF OpenCreated
  <2>2. Store(RebuildWith(disk, vaults, pc, Expanded(vaults)), pc)
    BY <2>1 DEF Open, Rebuild
  <2>3. Lists
    BY <2>1, <2>2, InSlot, RestoredKeeps DEF Lists
  <2> QED  BY <1>0, <1>1, <2>1, <2>3
<1>8. CASE RemoveVault
  <2>1. PICK v \in Listed :
          /\ Slot /\ mine' = mine \ {v} /\ disk' = disk
          /\ \/ Store(Rebuild(Removed(vaults, v), Fallback(Removed(vaults, v))), Fallback(Removed(vaults, v)))
             \/ Store(Removed(vaults, v), active)
    BY <1>8 DEF RemoveVault
  <2> DEFINE vs == Removed(vaults, v)
  <2>2. IsList(vs) /\ Names(vs) = Names(vaults) \ {v}
    BY <1>1, InSlot, RemovedList
  <2>3. ~unsaved /\ ~unread => mine' = Names(vs)
    BY <2>1, <2>2, InSlot
  <2> HIDE DEF vs
  <2>4. CASE Store(Rebuild(vs, Fallback(vs)), Fallback(vs))
    <3>1. IsList(Rebuild(vs, Fallback(vs))) /\ Names(Rebuild(vs, Fallback(vs))) = Names(vs)
      BY <2>2, RebuiltList DEF Rebuild
    <3>2. Lists
      BY <2>3, <2>4, <3>1, StoreKeeps DEF Lists, IInv
    <3> QED  BY <1>0, <1>1, <2>1, <3>2
  <2>5. CASE Store(vs, active)
    <3>1. Lists
      BY <2>2, <2>3, <2>5, StoreKeeps DEF Lists, IInv
    <3> QED  BY <1>0, <1>1, <2>1, <3>1
  <2> QED  BY <2>1, <2>4, <2>5 DEF vs
<1>9. CASE WatchVaults
  <2>1. pc # "off" /\ UNCHANGED <<disk, vaults, config, mine, unsaved, unread>>
    BY <1>9 DEF WatchVaults
  <2>2. Lists
    BY <2>1, ListsStay DEF Lists
  <2> QED  BY <1>0, <1>1, <2>1, <2>2
<1>10. CASE Toggle
  <2>1. PICK f, k :
          /\ Slot /\ mine' = mine /\ disk' = disk
          /\ Store([vaults EXCEPT ![k] = ToggleFolder(vaults[k], f, Expanded(vaults))], active)
    BY <1>10 DEF Toggle
  <2>2. k \in DOMAIN vaults => IsVault(ToggleFolder(vaults[k], f, Expanded(vaults)))
                              /\ ToggleFolder(vaults[k], f, Expanded(vaults)).path = vaults[k].path
    BY <1>1, OpenedIsVault DEF IsList
  <2>3. Lists
    BY <2>1, <2>2, InSlot, ChangedKeeps DEF Lists
  <2> QED  BY <1>0, <1>1, <2>1, <2>3
<1>11. CASE Reveal
  <2>1. PICK p, k :
          /\ Slot /\ mine' = mine /\ disk' = disk
          /\ Store([vaults EXCEPT ![k] = RevealFolder(vaults[k], p, Expanded(vaults))], active)
    BY <1>11 DEF Reveal
  <2>2. k \in DOMAIN vaults => IsVault(RevealFolder(vaults[k], p, Expanded(vaults)))
                              /\ RevealFolder(vaults[k], p, Expanded(vaults)).path = vaults[k].path
    BY <1>1, OpenedIsVault DEF IsList
  <2>3. Lists
    BY <2>1, <2>2, InSlot, ChangedKeeps DEF Lists
  <2> QED  BY <1>0, <1>1, <2>1, <2>3
<1>20. CASE Configure
  <2>1. Slot /\ mine' = mine /\ disk' = disk /\ Store(vaults, active)
    BY <1>20 DEF Configure
  <2>2. ~unsaved /\ ~unread => mine' = Names(vaults)
    BY <2>1, InSlot
  <2>3. Lists
    BY <1>1, <2>1, <2>2, StoreKeeps DEF Lists, IInv
  <2> QED  BY <1>0, <1>1, <2>1, <2>3
<1>12. CASE CollapseAll
  <2>1. PICK kept : Slot /\ mine' = mine /\ disk' = disk /\ Store(RebuildWith(disk, vaults, active, kept), active)
    BY <1>12 DEF CollapseAll
  <2>2. Lists
    BY <2>1, InSlot, RestoredKeeps DEF Lists
  <2> QED  BY <1>0, <1>1, <2>1, <2>2
<1>13. CASE Refresh
  <2>1. /\ pc = "ready" /\ vaults' = RebuildWith(disk, vaults, active, Expanded(vaults))
        /\ UNCHANGED <<disk, config, mine, unsaved, unread>>
    BY <1>13 DEF Refresh, Rebuild
  <2>2. IsList(vaults') /\ Names(vaults') = Names(vaults)
    BY <1>1, <2>1, RebuiltList
  <2>3. VaultsKept'
    BY <2>1, <2>2 DEF IInv, VaultsKept, Listed, Names
  <2> QED  BY <1>0, <1>1, <2>1, <2>2, <2>3 DEF Lists, IInv
<1>14. ASSUME NEW p \in Paths, NEW paths, Edit(p, paths), Closed(paths)
       PROVE  IInv'
  <2>1. /\ pc = "ready" /\ disk' = paths /\ vaults' = RebuildWith(paths, vaults, active, Expanded(vaults))
        /\ UNCHANGED <<config, mine, unsaved, unread>>
    BY <1>14 DEF Edit, Slot
  <2>2. IsList(vaults') /\ Names(vaults') = Names(vaults)
    BY <1>1, <2>1, RebuiltList
  <2>3. VaultsKept'
    BY <2>1, <2>2 DEF IInv, VaultsKept, Listed, Names
  <2> QED  BY <1>0, <1>14, <2>1, <2>2, <2>3 DEF Lists, IInv
<1>15. CASE CreateEntry
  <2>1. PICK p \in Paths : Parent[p] \in disk /\ Edit(p, disk \cup {p})
    BY <1>15 DEF CreateEntry
  <2> QED  BY <1>1, <1>14, <2>1, AddingKeeps
<1>16. CASE Rename
  <2>1. PICK p \in disk \cap Renamable : Edit(p, (disk \ Subtree(p)) \cup {Twin[q] : q \in Subtree(p)})
    BY <1>16 DEF Rename
  <2>2. Closed((disk \ Subtree(p)) \cup {Twin[q] : q \in Subtree(p)})
    BY <1>1, RenamingKeeps
  <2> QED  BY <1>1, <1>14, <2>1, <2>2
<1>17. CASE Delete
  <2>1. PICK p \in disk : Edit(p, disk \ Subtree(p))
    BY <1>17 DEF Delete
  <2> QED  BY <1>1, <1>14, <2>1, RemovingKeeps
<1>18. CASE Others
  <2>1. PICK p \in Paths : /\ \/ Parent[p] \in disk /\ disk' = disk \cup {p}
                              \/ disk' = disk \ Subtree(p)
                           /\ UNCHANGED <<vaults, config, pc, mine, unsaved, unread>>
    BY <1>18 DEF Others
  <2>2. Closed(disk')
    BY <1>1, <2>1, AddingKeeps, RemovingKeeps
  <2>3. Lists
    BY <2>1 DEF Lists, IInv, VaultsKept, Listed
  <2> QED  BY <1>0, <2>2, <2>3
<1>19. CASE UNCHANGED vars
  <2>1. UNCHANGED <<disk, vaults, config, pc, mine, unsaved, unread>>
    BY <1>19 DEF vars
  <2> QED  BY <2>1 DEF IInv, VaultsKept, Listed
<1> QED
  BY <1>2, <1>3, <1>4, <1>5, <1>6, <1>7, <1>8, <1>9, <1>10, <1>11, <1>12, <1>13, <1>15, <1>16, <1>17,
     <1>18, <1>19, <1>20 DEF Next

\* The vault list is what the user made it, in memory and in the file (VaultsKept),
\* whatever vaults are added, created, made the one being read and removed, in any
\* order, whenever the process ends and starts, but for a write of the file that
\* failed and for a start that could not read it: then the list is in the file until
\* something is saved.
THEOREM VaultListKept == Spec => []VaultsKept
<1>1. IInv => VaultsKept
  BY DEF IInv
<1> QED  BY InitInv, NextInv, <1>1, PTL DEF Spec

----------------------------------------------------------------------------
(***************************************************************************)
(* Folders stay open                                                       *)
(***************************************************************************)

\* y is vault x with its colour, and what stood open in it and still exists.
OpenAs(x, y) ==
    /\ StandsOpen(x) \cap (disk \cup {x.path}) \subseteq StandsOpen(y)
    /\ x.color = y.color

\* A vault whose own folder was expanded is hydrated.
LEMMA BuiltOpens ==
    ASSUME NEW on, NEW v, NEW color, NEW expanded, NEW isActive
    PROVE  /\ BuildVault(on, v, color, expanded, isActive).path = v
           /\ BuildVault(on, v, color, expanded, isActive).color = color
           /\ v \in expanded =>
                BuildVault(on, v, color, expanded, isActive).open = Hydrated(on, v, expanded)
BY DEF BuildVault, Expand

\* Hydrating reaches what stood open and is still there: the way down to it is
\* expanded, and exists because what lies in it does.
LEMMA HydratingReaches ==
    ASSUME Closed(disk), NEW x, x.path \in VaultPaths, NEW expanded, x.open \subseteq expanded
    PROVE  StandsOpen(x) \cap (disk \cup {x.path})
             \subseteq {f \in Reached(x.path, Hydrated(disk, x.path, expanded)) : x.path \in expanded}
<1> DEFINE v == x.path
           way == (expanded \cap disk) \cup {v}
<1> SUFFICES ASSUME NEW f \in StandsOpen(x), f \in disk \cup {v}
             PROVE  f \in Reached(v, Hydrated(disk, v, expanded)) /\ v \in expanded
  OBVIOUS
<1>1. v \in Paths /\ f \in Folders /\ f \in Paths /\ v \in Above[f]
  BY PathsAssumption DEF StandsOpen, Reached, Under, Folders
<1>2. \A g \in Above[f] : v \in Above[g] => g \in expanded
  BY DEF StandsOpen, Reached, Under
<1>3. \A g \in Above[f] : v \in Above[g] => g \in disk \cup {v}
  <2>1. CASE f \in disk
    BY <2>1 DEF Closed
  <2>2. CASE f = v
    BY <1>1, <2>2, AboveOrders
  <2> QED  BY <2>1, <2>2
<1>4. \A g \in Above[f] : Above[g] \subseteq Above[f] /\ g \in Folders
  BY <1>1, AboveOrders
<1>5. \A g \in Above[f] : v \in Above[g] => g \in Reached(v, way)
  <2> SUFFICES ASSUME NEW g \in Above[f], v \in Above[g]
               PROVE  g \in Reached(v, way)
    OBVIOUS
  <2>1. \A h \in Above[g] : v \in Above[h] => h \in way
    BY <1>2, <1>3, <1>4
  <2> HIDE DEF way
  <2> QED  BY <1>4, <2>1 DEF Reached, Under
<1>6. v \in expanded
  BY <1>1, <1>2, AboveOrders
<1>7. Hydrated(disk, v, expanded) = Reached(v, way)
  BY DEF Hydrated
<1> HIDE DEF way, v
<1>8. f \in Reached(v, Reached(v, way))
  <2>1. {g \in Above[f] : Under(g, v)} \subseteq Reached(v, way)
    BY <1>5 DEF Under
  <2>2. Under(f, v)
    BY <1>1 DEF Under
  <2> DEFINE inner == Reached(v, way)
  <2>3. {g \in Above[f] : Under(g, v)} \subseteq inner
    BY <2>1
  <2> HIDE DEF inner
  <2>4. f \in Reached(v, inner)
    BY <1>1, <2>2, <2>3 DEF Reached
  <2> QED  BY <2>4 DEF inner
<1> QED  BY <1>6, <1>7, <1>8

\* What is read again has open what stood open.
LEMMA RebuiltOpen ==
    ASSUME Closed(disk), NEW vs, IsList(vs), NEW act, NEW k \in DOMAIN Rebuild(vs, act)
    PROVE  /\ k \in DOMAIN vs /\ Rebuild(vs, act)[k].path = vs[k].path
           /\ OpenAs(vs[k], Rebuild(vs, act)[k])
<1> DEFINE E == Expanded(vs)
           x == vs[k]
           y == Rebuild(vs, act)[k]
<1>1. k \in DOMAIN vs /\ y = BuildVault(disk, x.path, x.color, E, x.path = act)
  BY DEF Rebuild, RebuildWith
<1>2. x.open \subseteq E /\ x.path \in VaultPaths
  BY <1>1 DEF Expanded, IsList, IsVault
<1> HIDE DEF E, x
<1>3. y.path = x.path /\ y.color = x.color /\ (x.path \in E => y.open = Hydrated(disk, x.path, E))
  <2> HIDE DEF y
  <2> QED  BY <1>1, BuiltOpens
<1> HIDE DEF y
<1>4. StandsOpen(x) \cap (disk \cup {x.path}) \subseteq {f \in Reached(x.path, Hydrated(disk, x.path, E)) : x.path \in E}
  BY <1>2, HydratingReaches
<1>5. StandsOpen(x) \cap (disk \cup {x.path}) \subseteq StandsOpen(y)
  BY <1>3, <1>4 DEF StandsOpen
<1> QED  BY <1>1, <1>3, <1>5 DEF OpenAs, x, y

\* Whatever becomes of the list, a vault keeps what stood open in it.
KeptOpen ==
    \A i \in DOMAIN vaults, j \in DOMAIN vaults' :
        vaults[i].path = vaults'[j].path => OpenAs(vaults[i], vaults'[j])

\* The listed vaults, some of them or all, as they are.
LEMMA SameOpen ==
    ASSUME IsList(vaults),
           \A j \in DOMAIN vaults' : \A i \in DOMAIN vaults :
               vaults[i].path = vaults'[j].path => vaults'[j] = vaults[i]
    PROVE  KeptOpen
BY DEF KeptOpen, OpenAs

\* The listed vaults, some of them or all, read again.
LEMMA ReadOpen ==
    ASSUME Closed(disk), IsList(vaults), NEW vs, IsList(vs), NEW act, vaults' = Rebuild(vs, act),
           \A j \in DOMAIN vs : \E i \in DOMAIN vaults : vs[j] = vaults[i]
    PROVE  KeptOpen
<1> SUFFICES ASSUME NEW i \in DOMAIN vaults, NEW j \in DOMAIN vaults', vaults[i].path = vaults'[j].path
             PROVE  OpenAs(vaults[i], vaults'[j])
  BY DEF KeptOpen
<1>1. j \in DOMAIN vs /\ vaults'[j].path = vs[j].path /\ OpenAs(vs[j], vaults'[j])
  BY RebuiltOpen
<1>2. vs[j] = vaults[i]
  BY <1>1 DEF IsList, Distinct
<1> QED  BY <1>1, <1>2

LEMMA NextKeepsOpen ==
    ASSUME IInv, Next, pc # "off", pc' # "off", pc' = "watch" \/ (pending /\ ~pending')
    PROVE  KeptOpen
<1>1. Closed(disk) /\ IsList(vaults)
  BY DEF IInv
<1>2. \A i \in DOMAIN vaults : \E j \in DOMAIN vaults : vaults[i] = vaults[j]
  OBVIOUS
<1>3. ASSUME NEW act, vaults' = Rebuild(vaults, act)
      PROVE  KeptOpen
  BY <1>1, <1>2, <1>3, ReadOpen
<1>4. ASSUME vaults' = vaults
      PROVE  KeptOpen
  BY <1>1, <1>4, SameOpen DEF IsList, Distinct
<1>5. ASSUME NEW on, NEW v \in VaultPaths \ Listed, Added(on, v)
      PROVE  KeptOpen
  <2> DEFINE x == [path |-> v, color |-> SpareColor(Colors(vaults)), nodes |-> {v}, open |-> {}]
  <2>1. CASE vaults = <<>>
    BY <2>1 DEF KeptOpen
  <2>2. CASE vaults # <<>>
    <3>1. vaults' = Append(vaults, x)
      BY <1>5, <2>2 DEF Added, Store
    <3>2. IsVault(x) /\ x.path = v
      BY DEF IsVault
    <3> HIDE DEF x
    <3>3. /\ IsList(vaults')
          /\ DOMAIN vaults \subseteq DOMAIN vaults'
          /\ \A i \in DOMAIN vaults : vaults'[i] = vaults[i]
      BY <1>1, <3>1, <3>2, AddedList, InSlot
    <3> QED  BY <1>1, <3>3, SameOpen DEF IsList, Distinct
  <2> QED  BY <2>1, <2>2
<1>6. CASE SetActive
  <2>1. PICK v : vaults' = Rebuild(vaults, v)
    BY <1>6 DEF SetActive, Open, Store
  <2> QED  BY <1>3, <2>1
<1>7. CASE AddVault
  BY <1>5, <1>7 DEF AddVault
<1>8. CASE CreateVault
  BY <1>4, <1>5, <1>8 DEF CreateVault
<1>9. CASE OpenCreated
  <2>1. vaults' = Rebuild(vaults, pc)
    BY <1>9 DEF OpenCreated, Open, Store
  <2> QED  BY <1>3, <2>1
<1>10. CASE RemoveVault
  <2>1. PICK v \in Names(vaults) : \/ \E act : vaults' = Rebuild(Removed(vaults, v), act)
                                   \/ vaults' = Removed(vaults, v)
    BY <1>10, InSlot DEF RemoveVault, Store
  <2>2. /\ IsList(Removed(vaults, v))
        /\ \A j \in DOMAIN Removed(vaults, v) : \E i \in DOMAIN vaults : Removed(vaults, v)[j] = vaults[i]
    BY <1>1, RemovedList
  <2>3. CASE \E act : vaults' = Rebuild(Removed(vaults, v), act)
    BY <1>1, <2>2, <2>3, ReadOpen
  <2>4. CASE vaults' = Removed(vaults, v)
    BY <1>1, <2>2, <2>4, SameOpen DEF IsList, Distinct
  <2> QED  BY <2>1, <2>3, <2>4
<1>11. CASE Refresh
  <2>1. vaults' = Rebuild(vaults, active)
    BY <1>11 DEF Refresh
  <2> QED  BY <1>3, <2>1
<1>12. CASE WatchVaults \/ Others
  BY <1>4, <1>12 DEF WatchVaults, Others
<1>13. ~Load /\ ~Exit
  BY DEF Load, Exit
<1>14. ASSUME Slot, pc' = pc, pending => pending'
       PROVE  FALSE
  BY <1>14 DEF Slot
<1>15. ~Toggle /\ ~Reveal /\ ~Configure /\ ~CollapseAll
  BY <1>14 DEF Toggle, Reveal, Configure, CollapseAll
<1>16. ~CreateEntry /\ ~Rename /\ ~Delete
  <2>1. ASSUME NEW p, NEW paths, Edit(p, paths)
        PROVE  FALSE
    BY <1>14, <2>1 DEF Edit, Notify
  <2> QED  BY <2>1 DEF CreateEntry, Rename, Delete
<1> QED
  BY <1>6, <1>7, <1>8, <1>9, <1>10, <1>11, <1>12, <1>13, <1>15, <1>16 DEF Next

\* Whatever is added, removed, opened or read again, a folder that stood open in a
\* vault does as long as it exists, and the vault keeps its dot (OpenKept).
THEOREM OpenFoldersKept == Spec => OpenKept
<1>1. IInv /\ [Next]_vars =>
        [pc # "off" /\ pc' # "off" /\ (pc' = "watch" \/ (pending /\ ~pending')) =>
           \A i \in DOMAIN vaults, j \in DOMAIN vaults' : vaults[i].path = vaults'[j].path =>
              /\ StandsOpen(vaults[i]) \cap (disk \cup {vaults[i].path}) \subseteq StandsOpen(vaults'[j])
              /\ vaults[i].color = vaults'[j].color]_vars
  BY NextKeepsOpen DEF KeptOpen, OpenAs
<1> QED  BY InitInv, NextInv, <1>1, PTL DEF Spec, OpenKept
=============================================================================
