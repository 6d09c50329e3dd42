---------------------------- MODULE LibraryTree ----------------------------
(***************************************************************************)
(* The library the app shows: the vault list and its configuration file,   *)
(* the tree of each vault as last read from disk, the folders left open    *)
(* and the watcher that asks for a re-read (booklet-core engine.rs,        *)
(* vault.rs, config.rs; src/library.rs).                                   *)
(*                                                                         *)
(* Slots run one at a time on the UI thread.  The disk changes under them: *)
(* the sync thread and other programs write to the vaults, and the watcher *)
(* is replaced only after a slot has read the tree.                        *)
(***************************************************************************)
EXTENDS Naturals, Sequences, SequencesExt

CONSTANTS
    Paths,        \* folders and notes that may exist
    Notes,        \* those that are notes
    Parent,       \* the folder of a path; Outside for a vault that lies in no other
    Above,        \* what a path starts with: itself and the folders it lies in
    Twin,         \* what a path is called after the rename of itself or its folder
    VaultPaths,   \* folders the user may add as vaults
    AtFirst,      \* what is on disk at first
    Palette,      \* the binding palette
    NewBook, NewNote,       \* what a vault made in an empty folder is seeded with
    OldVaults,              \* the vaults of a configuration from before the picker
    Outside, None,
    MaxSteps, MaxChanges    \* bounds: actions of the user, changes by others

ASSUME PathsAssumption ==
    /\ Notes \subseteq Paths /\ VaultPaths \subseteq Paths \ Notes
    /\ Parent \in [Paths -> Paths \cup {Outside}] /\ {Outside, None} \cap Paths = {}
    /\ VaultPaths \cap {"off", "ready", "watch"} = {}

\* Names form trees, and only folders have something in them.
ASSUME AboveAssumption ==
    /\ Above \in [Paths -> SUBSET Paths]
    /\ \A p \in Paths :
          /\ Above[p] = {p} \cup IF Parent[p] = Outside THEN {} ELSE Above[Parent[p]]
          /\ (Above[p] \ {p}) \cap Notes = {}
          /\ \A q \in Above[p] : Above[q] \subseteq Above[p] /\ (p \in Above[q] => p = q)

\* A path can be renamed when its twin lies in the same folder; what lies in it goes along.
Renamable == {p \in Paths : Parent[Twin[p]] = Parent[p]}

ASSUME TwinAssumption ==
    /\ Twin \in [Paths -> Paths]
    /\ \A p \in Renamable, q \in Paths : p \in Above[q] =>
          Above[Twin[q]] \subseteq {Twin[r] : r \in {r \in Above[q] : p \in Above[r]}} \cup (Above[p] \ {p})

ASSUME StartAssumption ==
    /\ AtFirst \subseteq Paths /\ \A p \in AtFirst : Above[p] \subseteq AtFirst
    /\ OldVaults \in Seq(VaultPaths) /\ IsInjective(OldVaults)
    /\ \A v \in VaultPaths : NewBook[v] # None =>
          /\ {NewBook[v], NewNote[v]} \subseteq Paths
          /\ Parent[NewBook[v]] = v /\ Parent[NewNote[v]] = NewBook[v]

ASSUME PaletteAssumption == Palette \in Seq(STRING) /\ Palette # <<>>

Folders == Paths \ Notes

VARIABLES
    disk,       \* the paths there are
    vaults,     \* the configured vaults in order: path, colour, nodes read, folders open
    active,     \* the vault being read
    config,     \* what the configuration file says
    pc,         \* "off"; "ready"; "watch": a slot that has yet to replace the watcher;
                \* a vault: create_vault has yet to open it
    watched,    \* the vault the watcher is on
    pending,    \* a refresh is scheduled on the UI thread
    steps, changes,
    mine,       \* history: the vaults the user added and did not remove
    unsaved,    \* history: a write of the configuration failed, or was made without the
                \* list that the file held, and none has made up for it
    unread,     \* history: the engine goes on without the list, which it could not read
    missed      \* history: the tree changed and nobody was watching

vars == <<disk, vaults, active, config, pc, watched, pending, steps, changes,
          mine, unsaved, unread, missed>>

----------------------------------------------------------------------------
(* Paths *)

\* starts_with
Under(p, folder) == folder \in Above[p]

Contents(folder) == {p \in disk : Parent[p] = folder}
Subtree(p) == {q \in disk : Under(q, p)}

----------------------------------------------------------------------------
(* The tree of a vault: the nodes that were read and which of them are open *)

Vault == [path : VaultPaths, color : Range(Palette) \cup {""},
          nodes : SUBSET Paths, open : SUBSET Folders]

\* What is open from folder v down when the folders in `open` are.
Reached(v, open) == {f \in Folders : Under(f, v) /\ {g \in Above[f] : Under(g, v)} \subseteq open}

\* load_children: what is read on opening v, hydrating what was expanded below.
Hydrated(on, v, expanded) == Reached(v, (expanded \cap on) \cup {v})

\* Mutant: only the vault being read is hydrated.
Expand_ActiveOnly(on, v, expanded, isActive) ==
    IF isActive THEN Hydrated(on, v, expanded) ELSE {}

\* The active vault is forced open; another one only if it was.
Expand(on, v, expanded, isActive) ==
    IF isActive \/ v \in expanded THEN Hydrated(on, v, expanded) ELSE {}

BuildVault(on, v, color, expanded, isActive) ==
    LET open == Expand(on, v, expanded, isActive)
    IN  [path |-> v, color |-> color, open |-> open,
         nodes |-> {v} \cup {p \in on : Parent[p] \in open}]

\* collect_expanded also finds the open folders that a closed one has kept.
Expanded(vs) == UNION {vs[i].open : i \in DOMAIN vs}

\* Colour and time of opening are carried over.
RebuildWith(on, vs, act, expanded) ==
    [i \in DOMAIN vs |-> BuildVault(on, vs[i].path, vs[i].color, expanded, vs[i].path = act)]

Rebuild(vs, act) == RebuildWith(disk, vs, act, Expanded(vs))

ChildrenRead(vault, folder) == {p \in vault.nodes : Parent[p] = folder}

\* Children are read when a folder opens with none; one that closed has kept them.
OpenFolder(vault, f, expanded) ==
    IF f \in vault.open THEN vault
    ELSE IF ChildrenRead(vault, f) # {} THEN [vault EXCEPT !.open = @ \cup {f}]
    ELSE [vault EXCEPT !.open = @ \cup Hydrated(disk, f, expanded),
                       !.nodes = @ \cup {p \in disk : Parent[p] \in Hydrated(disk, f, expanded)}]

\* toggle_folder
ToggleFolder(vault, f, expanded) ==
    IF f \in vault.open THEN [vault EXCEPT !.open = @ \ {f}] ELSE OpenFolder(vault, f, expanded)

\* reveal_folder: from the vault down, as far as the tree was read.
RevealFolder(vault, target, expanded) ==
    LET way == SetToSortSeq({f \in Above[target] \cap Folders : Under(f, vault.path)},
                            LAMBDA f, g : Under(g, f))
        seen == FoldLeft(LAMBDA v, f : IF f \in v.nodes THEN OpenFolder(v, f, expanded) ELSE v, vault, way)
    IN  [vault EXCEPT !.nodes = seen.nodes, !.open = seen.open]

Listed == {vaults[i].path : i \in DOMAIN vaults}

Colors(vs) == [i \in DOMAIN vs |-> vs[i].color]

\* spare_color: the first that nobody has.
SpareColor(colors) ==
    LET free == {i \in DOMAIN Palette : \A j \in DOMAIN colors : colors[j] # Palette[i]}
    IN  IF free # {} THEN Palette[CHOOSE i \in free : \A j \in free : i <= j]
        ELSE Palette[(Len(colors) % Len(Palette)) + 1]

\* color_unpainted_vaults
Painted(vs) ==
    LET paint(acc, i) == IF acc[i] # "" THEN acc ELSE [acc EXCEPT ![i] = SpareColor(acc)]
        colors == FoldLeft(paint, Colors(vs), [i \in DOMAIN vs |-> i])
    IN  [i \in DOMAIN vs |-> [vs[i] EXCEPT !.color = colors[i]]]

----------------------------------------------------------------------------
(* The configuration file *)

\* What is left of a file that was truncated, or is missing: no list, whether it is
\* an empty configuration or an error.
Unreadable == [vaults |-> <<>>, active |-> None, expanded |-> {}]

Saved(vs, act) ==
    [vaults |-> [i \in DOMAIN vs |-> [path |-> vs[i].path, color |-> vs[i].color]],
     active |-> act, expanded |-> Expanded(vs)]

\* Nothing configured yet, or an old file with bare paths.
Init ==
    /\ disk = AtFirst
    /\ \/ config = Unreadable /\ mine = {}
       \/ /\ config = [vaults |-> [i \in DOMAIN OldVaults |-> [path |-> OldVaults[i], color |-> ""]],
                        active |-> None, expanded |-> {}]
          /\ mine = Range(OldVaults)
    /\ vaults = <<>> /\ active = None
    /\ pc = "off" /\ watched = None /\ pending = FALSE
    /\ steps = 0 /\ changes = 0
    /\ unsaved = FALSE /\ unread = FALSE /\ missed = FALSE

\* The engine's part of a slot: a new list, a vault to read, the file.  The write
\* (config::save) truncates first: it may fail before, or after with half a file.
\* An engine that could not read the list writes the file without it.
Store(vs, act) ==
    LET listed == {vs[i].path : i \in DOMAIN vs}
    IN  /\ vaults' = vs /\ active' = act
        /\ unread' = FALSE
        /\ \/ config' = Saved(vs, act) /\ unsaved' = ((unsaved \/ unread) /\ mine' # listed)
           \/ config' \in {config, Unreadable} /\ unsaved' = TRUE

\* The vault that was active, if it is still listed, or else the first.
Chosen(vs, act) ==
    IF act \in {vs[i].path : i \in DOMAIN vs} THEN act ELSE IF vs = <<>> THEN None ELSE vs[1].path

\* A file that cannot be read or does not parse (config.rs, load) leaves the engine
\* as it was, empty; the slot says so and goes on.
Load ==
    /\ pc = "off"
    /\ \/ /\ LET vs == config.vaults
                  act == Chosen(vs, config.active)
              IN  /\ active' = act
                  /\ vaults' = Painted([i \in DOMAIN vs |->
                        BuildVault(disk, vs[i].path, vs[i].color, config.expanded, vs[i].path = act)])
          /\ unread' = FALSE
       \/ /\ vaults' = <<>> /\ active' = None
          /\ unread' = TRUE
    /\ missed' = FALSE
    /\ pc' = "watch"
    /\ UNCHANGED <<disk, config, watched, pending, steps, changes, mine, unsaved>>

\* The process ends, at any time.
Exit ==
    /\ pc # "off"
    /\ pc' = "off" /\ vaults' = <<>> /\ active' = None /\ watched' = None /\ pending' = FALSE
    /\ unread' = FALSE
    /\ UNCHANGED <<disk, config, steps, changes, mine, unsaved, missed>>

----------------------------------------------------------------------------
(* Slots: the vault list *)

Slot == pc = "ready" /\ steps < MaxSteps /\ steps' = steps + 1

Open(v) == Store(Rebuild(vaults, v), v) /\ missed' = FALSE

SetActive == \E v \in Listed :
    /\ Slot /\ mine' = mine /\ Open(v)
    /\ pc' = "watch"
    /\ UNCHANGED <<disk, watched, pending, changes>>

\* A vault the list has already is ignored; the first becomes the one being read.
Added(on, v) ==
    LET vs == Append(vaults, [path |-> v, color |-> SpareColor(Colors(vaults)), nodes |-> {v}, open |-> {}])
    IN  /\ mine' = mine \cup {v}
        /\ IF vaults = <<>> THEN Store(RebuildWith(on, vs, v, {}), v) /\ missed' = FALSE
           ELSE Store(vs, active) /\ UNCHANGED missed

AddVault == \E v \in VaultPaths \ Listed :
    /\ Slot /\ Added(disk, v)
    /\ pc' = "watch"
    /\ UNCHANGED <<disk, watched, pending, changes>>

Notify(p) == pending' = (pending \/ (watched # None /\ Under(p, watched)))

\* A change of the tree being read when there is no watcher to report it, or not yet.
Unheard(p) ==
    /\ active # None /\ (Under(p, active) \/ Under(active, p))
    /\ ~pending' /\ (pc # "ready" \/ watched = None)

\* In a folder that is missing or empty: the folder, a book, a note.  Any of them
\* may fail, and then the vault is not added.
CreateVault == \E v \in VaultPaths :
    /\ Slot /\ Contents(v) = {} /\ NewBook[v] # None
    /\ Parent[v] = Outside \/ Parent[v] \in disk
    /\ Notify(v)
    /\ \/ /\ disk' \in {disk \cup {v}, disk \cup {v, NewBook[v]}}
          /\ pc' = "watch" /\ missed' = (missed \/ Unheard(v))
          /\ UNCHANGED <<vaults, active, config, mine, unsaved, unread>>
       \/ /\ disk' = disk \cup {v, NewBook[v], NewNote[v]}
          /\ IF v \in Listed THEN UNCHANGED <<vaults, active, config, mine, unsaved, unread, missed>>
             ELSE Added(disk', v)
          /\ pc' = IF v \in Listed \/ config' \notin {config, Unreadable} THEN v ELSE "watch"
    /\ UNCHANGED <<watched, changes>>

OpenCreated ==
    /\ pc \in VaultPaths
    /\ mine' = mine /\ Open(pc)
    /\ pc' = "watch"
    /\ UNCHANGED <<disk, watched, pending, steps, changes>>

\* Mutant: the vaults inside the removed one go with it, but for the one being read.
Removed_Inner(vs, v) == SelectSeq(vs, LAMBDA x : x.path # v /\ (x.path = active \/ ~Under(x.path, v)))

\* Vaults are listed once: what follows moves up.
Removed(vs, v) ==
    LET k == CHOOSE i \in DOMAIN vs : vs[i].path = v
    IN  [i \in 1 .. Len(vs) - 1 |-> IF i < k THEN vs[i] ELSE vs[i + 1]]

Fallback(vs) == IF vs = <<>> THEN None ELSE vs[1].path

RemoveVault == \E v \in Listed :
    /\ Slot /\ mine' = mine \ {v}
    /\ LET vs == Removed(vaults, v)
           next == Fallback(vs)
       IN  IF v = active THEN Store(Rebuild(vs, next), next) /\ missed' = FALSE
           ELSE Store(vs, active) /\ UNCHANGED missed
    /\ pc' = "watch"
    /\ UNCHANGED <<disk, watched, pending, changes>>

\* Mutant: the watcher of the first vault stays.
WatchTarget_First == IF watched # None THEN watched ELSE active

WatchTarget == active

\* watch_vaults: nothing is watched if the folder does not exist.
WatchVaults ==
    /\ pc = "watch"
    /\ watched' = IF WatchTarget \in disk THEN WatchTarget ELSE None
    /\ pc' = "ready"
    /\ UNCHANGED <<disk, vaults, active, config, pending, steps, changes, mine, unsaved, unread, missed>>

----------------------------------------------------------------------------
(* Slots: the tree *)

Tree == vaults[CHOOSE i \in DOMAIN vaults : vaults[i].path = active]

\* The rows on screen: the books, and what is below the open ones.
Visible(vault) == {p \in vault.nodes : p # vault.path /\
    {g \in Above[p] \ {p} : Under(g, vault.path) /\ g # vault.path} \subseteq vault.open}

OnScreen == IF active = None THEN {} ELSE Visible(Tree)

First(indices) == CHOOSE i \in indices : \A j \in indices : i <= j

\* In the first vault whose tree has the folder.
Toggle == \E f \in OnScreen \cap Folders :
    /\ Slot /\ mine' = mine
    /\ LET i == First({j \in DOMAIN vaults : f \in vaults[j].nodes})
       IN  Store([vaults EXCEPT ![i] = ToggleFolder(@, f, Expanded(vaults))], active)
    /\ UNCHANGED <<disk, pc, watched, pending, changes, missed>>

\* A book, section or note of the breadcrumb, or the folder something new is put in:
\* in the first vault it lies in.
Reveal == \E p \in Paths :
    LET around == {j \in DOMAIN vaults : Under(p, vaults[j].path)}
    IN  /\ Slot /\ mine' = mine
        /\ \E j \in around : vaults[j].path # p
        /\ Store([vaults EXCEPT ![First(around)] = RevealFolder(@, p, Expanded(vaults))], active)
        /\ UNCHANGED <<disk, pc, watched, pending, changes, missed>>

\* The size of the text, the theme and the like: the whole file is written.
Configure ==
    /\ Slot /\ mine' = mine
    /\ Store(vaults, active)
    /\ UNCHANGED <<disk, pc, watched, pending, changes, missed>>

CollapseAll ==
    /\ Slot /\ active # None /\ mine' = mine
    /\ LET kept == {f \in Expanded(vaults) : ~Under(f, active) \/ f = active}
       IN  Store(RebuildWith(disk, vaults, active, kept), active)
    /\ missed' = FALSE
    /\ UNCHANGED <<disk, pc, watched, pending, changes>>

\* Scheduled by the watcher; nothing is saved.
Refresh ==
    /\ pc = "ready" /\ pending
    /\ vaults' = Rebuild(vaults, active)
    /\ pending' = FALSE /\ missed' = FALSE
    /\ UNCHANGED <<disk, active, config, pc, watched, steps, changes, mine, unsaved, unread>>

----------------------------------------------------------------------------
(* Slots: notes and sections.  The tree is read again after the change. *)

Edit(p, paths) ==
    /\ Slot
    /\ disk' = paths
    /\ vaults' = RebuildWith(paths, vaults, active, Expanded(vaults))
    /\ Notify(p)
    /\ missed' = FALSE
    /\ UNCHANGED <<active, config, pc, watched, changes, mine, unsaved, unread>>

\* At the root of the vault, or in a section.
CreateEntry == \E p \in Paths \ disk :
    Parent[p] \in disk \cap (OnScreen \cup {active}) /\ Edit(p, disk \cup {p})

Rename == \E p \in OnScreen \cap disk \cap Renamable :
    Twin[p] \notin disk /\ Edit(p, (disk \ Subtree(p)) \cup {Twin[q] : q \in Subtree(p)})

Delete == \E p \in OnScreen \cap disk : Edit(p, disk \ Subtree(p))

----------------------------------------------------------------------------
(* The sync thread and other programs *)

Others == \E p \in Paths :
    /\ changes < MaxChanges /\ changes' = changes + 1
    /\ \/ p \notin disk /\ Parent[p] \in disk /\ disk' = disk \cup {p}
       \/ p \in disk /\ Parent[p] # Outside /\ disk' = disk \ Subtree(p)
    /\ Notify(p)
    /\ watched' = IF watched \in disk' THEN watched ELSE None
    /\ missed' = (missed \/ Unheard(p))
    /\ UNCHANGED <<vaults, active, config, pc, steps, mine, unsaved, unread>>

Next ==
    \/ Load \/ Exit
    \/ SetActive \/ AddVault \/ CreateVault \/ OpenCreated \/ RemoveVault \/ WatchVaults
    \/ Toggle \/ Reveal \/ Configure \/ CollapseAll \/ Refresh
    \/ CreateEntry \/ Rename \/ Delete
    \/ Others

\* A slot finishes, and the event loop gets round to what was scheduled on it.
Spec == Init /\ [][Next]_vars /\ WF_vars(WatchVaults) /\ WF_vars(OpenCreated) /\ WF_vars(Refresh)

----------------------------------------------------------------------------
(* Properties *)

TypeOK ==
    /\ disk \subseteq Paths
    /\ \A i \in DOMAIN vaults : vaults[i] \in Vault
    /\ active \in Listed \cup {None}
    /\ pc \in {"off", "ready", "watch"} \cup VaultPaths
    /\ watched \in VaultPaths \cup {None}
    /\ mine \subseteq VaultPaths
    /\ {pending, unsaved, unread, missed} \subseteq BOOLEAN

\* The vault list is what the user made it, in the file and in the engine ("every
\* vault already configured would vanish", config.rs).  There are two exceptions: a
\* write of the file failed, and the file could not be read at the start.  Then the
\* engine is without the list, which is in the file as long as nothing is saved, and
\* goes with the next thing that is.
VaultsKept == ~unsaved =>
    /\ pc # "off" /\ ~unread => Listed = mine
    /\ mine = {config.vaults[i].path : i \in DOMAIN config.vaults}

\* What stands open in a vault whose own folder is open.
StandsOpen(vault) == Reached(vault.path, vault.open)

\* "it is what keeps a vault hydrated once it stops being active, so the folders you
\* left open inside it are still open when you switch back" (engine.rs,
\* build_vault): whatever is added, removed, opened or re-read, a folder that stood
\* open does, as long as it exists, and the vault keeps its dot (rebuild_with).
OpenKept ==
    [][pc # "off" /\ pc' # "off" /\ (pc' = "watch" \/ (pending /\ ~pending')) =>
         \A i \in DOMAIN vaults, j \in DOMAIN vaults' : vaults[i].path = vaults'[j].path =>
            /\ StandsOpen(vaults[i]) \cap (disk \cup {vaults[i].path}) \subseteq StandsOpen(vaults'[j])
            /\ vaults[i].color = vaults'[j].color]_vars

Fresh == active # None =>
    \A f \in {active} \cup (OnScreen \cap Tree.open) : ChildrenRead(Tree, f) = Contents(f)

\* "the final event always leaves us consistent" (library.rs, watch_vaults): the
\* rows on screen end up being what is on disk, unless a change fell into the time
\* between reading a tree and watching it.
SettlesFresh == <>[](pc = "off" \/ missed \/ Fresh)

=============================================================================
