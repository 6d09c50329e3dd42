# Booklet: specification and proofs

Booklet is a note-taking desktop application: plain markdown files in vaults on the user's disk,
a Qt interface over a Rust core, and an optional sync server (axum and PostgreSQL) through which
several devices keep a vault in step. This directory holds TLA+ modules of the parts whose
correctness depends on order and failure, the TLC runs that check them and the TLAPS proofs about them.

    tlc -workers 2 -config SyncStore.cfg MCSyncStore.tla     # a run: <cfg> and its module
    tlapm SyncStoreProofs.tla                                # the proofs about a module are in <module>Proofs (SyncFeed, BlobStore: SyncStoreProofs)

`PROJECT.json` lists the runs with their modules, the source lines every definition models, the
hazards, the findings, and for every property a mutant of the model that breaks it.

## 1. The system

| component | source | state it keeps | operations |
|---|---|---|---|
| **Sync store** | `booklet-sync-server/src/store.rs`, `http.rs` | `vaults` (seq, deleted_at), `entities` (current row per path), `entity_versions` (history), `blobs`; uploads under `.staging` | PUT / DELETE entity, PUT / GET blob, `changes`, `history`, publish, delete; operator's restore and purge |
| **Blob store** | `blob.rs` | one file per content hash, whole or a delta | `put`, `get`, orphan sweep |
| **Accounts** | `store.rs`, `auth.rs`, `admin/*` | users, devices, web sessions, resets, invites | sign in and out, new password, roles, disable, rename, delete, invite, sign up |
| **Plans, billing** | `admin/plans.rs`, `admin/actions.rs`, `admin/site.rs`, `billing.rs`, `store.rs` | plans; a user's plan, quota, customer, status | create, change and delete plans, assign one, checkout, the payment provider's webhook |
| **Client engine** | `booklet-sync-client/src/engine.rs` | versions per path, cursor | `push`, `pull`, `reconcile` |
| **Manifest, merge** | `booklet-core/src/sync.rs`, `merge.rs` | the remembered snapshot of a vault | `scan`, `diff`, `merge_markdown`, `merge_booklet_json` |
| **Sync worker** | `src/sync.rs`, `client.rs`, `secret.rs` | credentials, the bound vault, review flags | sign in, publish, clone, sync, restore, dismiss |
| **Note editor** | `src/note.rs`, `booklet-core/src/document.rs` | the open document and its unsaved text | open, type, flush, reload after a sync |
| **Live reload** | `booklet-core/src/merge.rs`, `EditorView.qml` | the editor's text and caret | `edit_script`, `map_caret`, `applyMerge` |
| **Library tree** | `booklet-core/src/engine.rs`, `vault.rs`, `config.rs`, `src/library.rs` | vaults, folders, what is expanded, the configuration file | add, create, rename, delete, rebuild, watch |
| **Pure helpers** | `render`, `search`, `links`, `tags`, `image` | none | functions of a text or of the files on disk |

How they interact. The worker runs on a thread of its own, takes commands from the interface over
a channel and runs one *cycle* (push, then pull) at a time, on a timer and on demand. A cycle reads
and writes the very files the editor writes, with no lock between them. It talks to the server with
blocking HTTP calls. The server handles every request on a task of its own; requests share the
database, the `.staging` directory and the blob files. A mutation is *not* one transaction: the
handler reads rows, checks the base and the quota, and writes the blob's file before it opens the
transaction that writes the rows. The handlers of the operator's pages and the portal use one
transaction per statement. In the application, the library and the editor run their slots on the UI
thread; the worker's events, the file watcher's and the timers' are slots too, run when the event loop
gets round to them.

What is hard, and what "correct" means there:

* *Store.* The base check, the quota, the blob probe and the row a move buries are read outside the
  transaction. Correct: history and current state agree, the first write wins, sequence numbers
  totally order mutations, every stored version has its content.
* *Feed.* Two statements per answer. Correct: a device knows every change its cursor covers (it does not: a
  change that commits between the two is lost to it, and everything downstream has to live with that).
* *Blobs.* File before row, two writers of one content. Correct: every row decodes its file.
* *Accounts.* A handler checks in one statement and writes in the next, with a password hash in
  between. Correct: a severed credential stays dead, a reset or an invite works once, operators are made
  by operators, an account goes under the name that was typed.
* *Plans.* The provider's events come late, twice, out of order or not at all, and the answer is 200 even
  when the update failed. Correct: the record is the provider's (where the events came in turn it is), and a
  plan somebody is on is not deleted (between the count and the deletion somebody may join).
* *Devices.* User, own cycle, other devices' cycles, failed calls and crashes interleave. Correct:
  no edit is lost that nobody deleted; a device at rest has the server's files, but for what the feed lost.
* *Worker.* Answers get lost, commands queue up, the application ends anywhere. Correct: a folder has one
  server vault, a deleted one is forgotten, the flags of a finished cycle survive until dismissed, the status
  shown is the worker's.
* *Editor.* The sync thread rewrites the file of the open note, writes fail, events come late. Correct: a
  text is in the editor or on disk, "saved" is true, unsaved text is saved in the end.
* *Live reload.* Positions are UTF-16 units in the editor and characters in the diff, and every edit moves
  the text behind it. Correct: the editor ends with the file's text and the caret keeps its place.
* *Library.* The disk changes between the read of a tree and the watch on it, the tree is thrown away at
  every change, the configuration is written in place and may not be readable. Correct: the vault list survives, what stood open
  stands open, the rows end up being what is on disk.

The hazards one by one, with the line where each bites, are in `PROJECT.json`.

## 2. The modules

`MC*.tla` give the constants that a `.cfg` cannot express and the symmetry sets.

### SyncStore: the mutation pipeline

A request is a record in `req` with a program counter; the value of `pc` names the statement it
stands *before*. One action per statement that touches shared state:

| action | code |
|---|---|
| `StageBlob` | `put_blob`, `stage_blob` |
| `PutEntity`, `DeleteEntity` | the handlers in `http.rs` up to and including `authorize` |
| `ReadStaged`, `ReadStored` | `resolve_content`: the staged copy, then the blobs table, else 400 |
| `ReadCurrent` | `current` and the base check of `apply_put` / `apply_delete` |
| `EnforceQuota` | `enforce_quota` |
| `FinalizeBlob` | `blob_exists` and `finalize_blob` |
| `ReadOld` | `current` of the path a move leaves |
| `Commit` | the transaction: `insert_blob`, `next_seq`, `write_state` once or twice, commit |
| `Unstage` | the end of `apply_put_ref` |
| `Respond`, `Fail` | the answer; an I/O error, a cancelled request or a server crash |
| `SoftDeleteVault`, `RestoreVault`, `PurgeVault` | the owner's and the operator's vault lifecycle |

The transaction is one action because its first write is `UPDATE vaults SET seq = seq + 1`, whose row
lock every other mutation of the vault waits for until the commit; the insert into `entity_versions`
violates its primary key and rolls everything back when the version is taken (`Clashes`, `Abort`).
The three reads of `enforce_quota` are one step; the race that matters is between the check and the
commit, and that one is there. A request whose move source is its own target is not generated:
`match_note_moves` pairs a deleted path with a created one. Bytes, kinds other than note and folder,
names of devices and times are left out.

`VersionedVault` is what the protocol promises (`design/sync-server.md`): an atomic
compare-and-swap per path. `SyncStoreRefinement` maps the pipeline onto it (`Linearizable`): a mutation takes effect at
its transaction, a conflict at the read that found the base stale. A mutation that was applied may
still be answered with an error (the response is lost), so `Refuse` is possible after `Take`.

What the protocol's words and the code disagree about here, met while modelling:

* the base is compared outside the transaction (`store.rs:315`), so of two requests with the same base
  the slower one may be told 500, from the primary key, and not 409;
* a move's content counts at both its paths while the quota is checked (`store.rs:326`): at the limit a
  rename is refused.

### SyncFeed: the change feed

`SyncFeed` extends `SyncStore` with devices that follow a vault. `ReadRows` and `ReadCursor` are the
two statements of `changes_since`; anything may commit in between. Two history fields, `at` and
`raced`, remember which sequence numbers were given out between the two.

### AtomicFile: temporary file and rename

`write_atomic`, `stage_blob` and `write_json_atomic` are the same protocol. `OpenTemp` is
`open(O_CREAT|O_TRUNC)` of the temporary name, `WriteTemp` writes through the open file, `Rename` moves
whatever the temporary name points at; an open file is known by the name it goes by, `fd`, which another
writer's rename changes. The module has no specification of its own: `BlobStore` instantiates it. What is
not modelled: power loss (none of the three functions calls `fsync`), and bytes: two texts on one file are
simply "mixed".

### BlobStore: delta chains

The file and the row of a blob as two pieces of state, written in several steps of a request: `Probe` finds
no row, `Encode`, `WriteFile` and `ReplaceFile` put the file in place through the steps of `AtomicFile`,
`InsertRow` is the transaction, where the first row wins; `GiveUp` ends a request anywhere, crashes
included. Whether a delta is smaller than a whole copy is nondeterministic. Two requests that store the
same new content against different versions can leave the file of one under the row of the other
(`store.rs:336`), or one truncates the temporary file the other renames (`blob.rs:231`): the content then
does not decode. `UncontestedMatches` and `NeverTornAlone` leave out exactly those contents; with
`ChainsBounded` they say that everything else can be reconstructed.

### SyncDevice: devices in step

`work[d]` is the worker's cycle: the changes still to push, the page of the feed still to apply, the
versions learnt so far. One action per file access or server call of `engine.rs`:

| action | code |
|---|---|
| `StartCycle` | `Manifest::scan` and `diff` |
| `ReadLocal`, `SendPut`, `SendDelete` | `push_entity`, `push_move`, the delete arm of `push` |
| `ReadBack` | the start of `reconcile`: image, never synced, or merge |
| `WriteMerge`, `Resend` | merge with the ancestor, write the file, re-put |
| `WriteCopy`, `SendCopy` | `conflict_copy` |
| `EndPush` | the scan that closes the push |
| `GetChanges`, `GetCursor` | the two statements of `changes_since` on the server, whose answer `pull` reads |
| `ApplyChange`, `EndPull` | one change of the page; the scan that closes the pull |
| `SaveManifest` | the second of the two saves at the end of the worker's `reconcile` |
| `Abandon`, `LoseAnswer`, `MergeFails`, `Report`, `FileVanished`, `Crash` | what can go wrong |
| `Save`, `Delete`, `Rename` | the user, through the editor and the library |

Abstractions. The server takes a mutation in one step, which `SyncStoreRefinement` justifies (a transaction
that dies on the primary key is a failed call, `Abandon`). It does not justify the feed, which stays two
steps here too, with the other device's mutations in between; `raced` keeps, per device, the sequence numbers
that came between the two statements of an answer it took. A text is the set of edits it contains, a blob is its text; so a merge is an
operation on sets: what local added to the ancestor and removed from it, replayed on remote, where
under the hazard "reject" any of the local additions may fail to land. Duplicated or misplaced hunks
are below this abstraction. A scan is exact (no size-and-mtime gate). Folders and `booklet.json` are
`SyncBook`'s. The names a conflict copy may take are a finite list per path (`CopyNames`); a device that
runs out of them stops there, and the lists are long enough for the devices of every run but for a
copy of a copy of a copy.

A behaviour lives in one of the `Environments`: what may happen around the devices (cycles that
overlap, users who touch files during a cycle, merges that reject hunks) and how often users save, tidy
up and things fail. One run checks several environments, each as large as an exhaustive search affords.
The history variables `exposed`, `astray` and `dropped` mark what met one of the known hazards or was
deleted on purpose; the properties say that nothing else goes wrong. What they mark is real:

* a change that commits between the two statements of an answer is behind the cursor and not in the page
  (`store.rs:454`): the device has not the server's file, nor its version, until the path changes again (`raced`). No
  text is lost by it: the next push of that path conflicts, and is reconciled as any other;
* an edit saved during a cycle, after its file was pushed and before the closing scan, counts as
  synced and is overwritten by the next pull of that note (`engine.rs:96`, `:131`);
* a note renamed during a cycle is absorbed the same way: the closing scan takes the new name for synced,
  and the next pull may remove or overwrite what only this device has;
* a text whose second PUT is turned away is overwritten by the pull of the same cycle (`engine.rs:271`);
* a hunk rejected by a merge is in no version of the history, because the merged text replaces the
  file before the local text was ever uploaded (`engine.rs:260`);
* a move that loses its conflict never buries the path it left (`engine.rs:346`): the server keeps it
  alive, the device does not have it;
* a merge that cannot be computed ends the cycle (`engine.rs:252`), and the next one meets it again;
* the name of a conflict copy is free on the device that makes it (`engine.rs:302`), not on the others: two
  devices can give the same name to different copies, and the second is lost in the next conflict; and where
  the server has a tombstone of the name, it refuses a put with base version 0, which the engine ignores
  (`engine.rs:310`): the copy is on this device alone, and no later diff lists it;
* a crash between the two saves at the end of a cycle (`src/sync.rs:657`) leaves pulled files out of the
  manifest, so deleting one of them afterwards is in no diff.

### SyncBook: folders and booklet.json in step

The same engine around the other entities: a book's folder, which has no content, its `booklet.json`,
which is merged by keys, and the conflict copies made of that file. An object is a function from keys to
the number of the choice that set them; `MergeBookletJson` and `Bound` are `merge_booklet_json` and what
`Binding::write` makes of a file.

| action | code |
|---|---|
| `SendFolder` | the folder arm of `push_entity`: refused, it adopts the server's version |
| `ReadLocal`, `SendPut`, `SendDelete`, `ReadBack`, `WriteMerge`, `Resend`, `WriteCopy`, `SendCopy` | as in `SyncDevice` |
| `StartCycle`, `EndPush`, `GetChanges`, `GetCursor`, `ApplyChange`, `EndPull` | the scans and `pull`, the feed again in its two statements; `Received` says what a change makes of the files: a deleted folder goes only when it is empty, a file brings its folder |
| `FileVanished`, `Abandon` | a file that went; a failed call (after an applied PUT this is a lost answer) |
| `CreateBook`, `DeleteBook` | `create_section`, `delete` |
| `OpenBinding`, `SaveBinding`, `WriteBinding` | the dialog opens with what the file says; `Binding::write` reads the file, then writes both fields |
| `AddKey`, `Mangle` | the user, by hand, in any text editor |

What is left to push and to apply are sets; the phase and the path of a change, and the sequence numbers of a page,
say whose turn it is (`Job`, `ApplyChange`): the order is the list's. Crashes between the two saves, moves and images are `SyncDevice`'s subject and not repeated. `excused` and `unread` mark what met a
known hazard: a second PUT turned away, a copy whose name was taken, a file touched during a cycle; keys
their user deleted or broke, or that arrived between the read and the write of a binding. Met while modelling:

* deleting a book leaves an empty folder on every other device: its tombstone is applied before those of its
  files, when `remove_dir` still fails, and never again (`engine.rs:120`);
* a push that fails forgets the versions it learnt (`src/sync.rs:647`), so the files it created conflict with themselves in
  the next cycle and are copied, although a copy is said to need two devices that created the file (`merge.rs:107`); so do the new files of a pull that failed half way;
* the overlay knows no ancestor, and the dialog writes both fields: whoever changes the shelf while another
  device changes the colour takes the old colour back (`merge.rs:92`, `vault.rs:398`);
* the conflict copy of a `booklet.json` is a note, `booklet.json (conflict ...).md`.

### SyncWorker: the worker around the cycle

`SyncWorker` is the loop of `src/sync.rs`: a queue of commands, one at a time, and what each leaves on disk
(credential file, per folder the binding to a server vault and the review flags) and in memory. A
command that asks the server for something that must be remembered takes two steps, so that the
application can end in between:

| action | code |
|---|---|
| `Start`, `Quit` | `start`, `Worker::new`; the end of the application, in the middle of anything |
| `Send`, `Pump` | a slot sends a command; `pump` runs on the UI thread and reads the shared status |
| `Sync`, `SyncDone`, `SyncFails` | `sync`, also on the 30 s timeout; the result of the cycle, its flags and saves |
| `SignIn`, `SignOut`, `SetVault` | the commands of these names; `SetVault` reads the folder's state |
| `Publish`, `Bind` | `publish`: the vault on the server, then the binding |
| `DeleteVault`, `DeleteVaultById`, `Unbind` | the two deletions and what follows the answer |
| `Clone`, `Restore`, `Request`, `DismissFlag` | the rest |

Errors of a save are ignored by the code and here. The cycle is one answer (done, with or without a merge
to review, or failed or cut short); `SyncDevice` looks inside. The clone dialog asks
for "an empty folder" and takes any (`CloneDialog.qml:72`), and its list of vaults may be an old one: both are in
`Offered`. `doubtful`, `elsewhere` and `fuzzy` are history: folders whose publication may be repeated
because an answer or a write was lost, vaults that went without their folder being told, and folders with a merge to
review that a cycle has flagged.

Where the code keeps less than it says: a cycle that has written a partial merge and then fails drops its flags
(`src/sync.rs:647-656`), against "a partial merge is accepted and the note is flagged" (`ROADMAP.md:169`), so `FlagsKept`
counts a flag from the end of its cycle; and `publish` guards with the vault id in memory, so that after a lost answer,
or a state file that was not written, a folder is published twice, against "a vault is published exactly once"
(`src/sync.rs:429`): `doubtful` exempts such a folder from `PublishedOnce`.

### NoteEditor: the open note

The UI thread's slots are atomic; the sync thread reads a file in one step, writes it in another, and the
editor hears of it in a third:

| action | code |
|---|---|
| `SaveTimer`, `FocusLost`, `SyncTimer` | `flush`, from the 400 ms timer, the loss of focus and the periodic sync of `Main.qml` |
| `Open`, `OpenNew`, `Close`, `Type`, `Quit` | `open`, `open_by_title`, `close`, `set_source`; the end of the application, which flushes nothing |
| `StartCycle`, `Look`, `WriteRemote`, `EndCycle`, `FailCycle` | the sync thread: a read, a write on the strength of it, the report; a failed cycle reports nothing |
| `Pump` | `NoteChanged` and `reload_edits` |
| `Delete`, `Rename` | the tree or another program, of which the editor is not told |

A text is the set of edits it contains. A failed write may truncate (`fs::write`). A merge replays the local
hunks on the server's text and may reject any of them (`Merges`; a partial merge is accepted and written,
`engine.rs:260`). The losses the code is known to have go into `excused`: a note left, or the application ended, with
text that could not be saved or was not yet; a reload over typing newer than the last save; a file rewritten on
an old read; a hunk rejected by the merge, which is then in no file; a deleted note; a file the editor writes without
knowing that it changed (`missed`). Everything else must be kept.

### LiveReload: a merge lands in the editor

| action | code |
|---|---|
| `EqualRun`, `DeleteRun`, `InsertRun` | one iteration of the loop of `edit_script` over the runs of the diff |
| `EndScript` | the pending edit is pushed, and `reload_edits` hands the script to the editor |
| `ReplaceWhole` | the diff fails, and the whole text is one edit |
| `Replay` | one iteration of `applyMerge`, back to front |
| `MapCaret` | one iteration of `mapCaret` (`map_caret` in Rust), the last of them placing the caret |

A character is one UTF-16 unit or two. The diff library is external: any correct diff, which the steps of the
loop choose as they go, so `old` and `new` are the two texts as far as the diff has come. `starts` and `home`
are history: where in `new` an edit starts, and where a unit of `old` has gone. One place is excluded from
`CaretFollows` (`Drifted`), because it is off: a caret inside a replaced run is placed at a position of the *old* text
(`merge.rs:226`), off by what the edits before it changed.

### LibraryTree: the vaults and their trees

| action | code |
|---|---|
| `Load`, `Exit` | `Engine::load`, with a file that can be read or one that cannot; the end of the application |
| `SetActive`, `AddVault`, `CreateVault` and `OpenCreated`, `RemoveVault` | the slots on the vault list; each ends in `config::save`, which may fail, or truncate and fail |
| `WatchVaults` | `watch_vaults`, after the slot has read the tree |
| `Toggle`, `Reveal`, `CollapseAll`, `Refresh` | expansion (a breadcrumb reveals books, sections and notes); the re-read the watcher schedules |
| `Configure` | font size, scale, density, theme: nothing of the tree, but the whole file is written |
| `CreateEntry`, `Rename`, `Delete` | notes and sections, at a vault's root too; the tree is read again |
| `Others` | the sync thread and other programs change the disk |

Names are given as constants: the folder of a path (`Parent`), what it starts with (`Above`), what it becomes
when it or its folder is renamed (`Twin`); a rename stays in its folder. A configuration that a failed write truncated is `Unreadable`. One that holds the list and cannot be read all the
same leaves the engine empty too (`unread`): the list is in the file until anything is saved, a font size
perhaps, and goes then (`unsaved`).

### Accounts: who may do what on the server

Requests as in `SyncStore`, one action per statement. `SignIn`, `Forgot`, `Reset`, `Signup`, `Portal`, `Operate`
and `OperateMore` are arrivals; the rest is:

| action | code |
|---|---|
| `Extract` | `web_session` and the extractors of `admin/mod.rs` |
| `CheckPassword`, `InsertCredential` | `admin_login` / `find_user_by_handle` with the hash check; `create_admin_session` / `create_device` |
| `EndSession`, `EndDevice` | logout; revoking and deleting a device |
| `SetPassword`, `Disable` | the two transactions that sever every live credential (`Sever`) |
| `FindByEmail`, `InsertReset`, `ConsumeReset` | forgotten password |
| `InsertInvite`, `ConsumeInvite`, `CreateUser` | invites, sign-up, accounts made by an operator |
| `SetEmail`, `Enable`, `Rename` | one statement each |
| `ReadAdmin`, `SetAdmin` | the two statements of `toggle_admin`; a first one that fails counts as "no operator" |
| `ReadImpact`, `DeleteUser` | the row the typed handle is compared with; the transaction |
| `GrantAdmin`, `ShellCreate`, `Expire` | the command line; an expiry |
| `Fail` | an error, a cancelled request, a crash between two statements |

History: `cuts` counts how often an account's credentials were severed, and a credential carries the count
its check saw; `spent` counts what each token was used for. Met while modelling, and visible in the actions:
`delete_user` leaves resets and invites behind, so the foreign key refuses it for ever for whoever has one;
an empty address is unique like any other; `toggle_admin` has no check for the last operator, and two
operators can demote each other.

### Plans: quotas and subscriptions

| action | code |
|---|---|
| `CreatePlan`, `UpdatePlan` | one statement each |
| `CountUsersOnPlan`, `DeletePlan` | the two statements of `delete` in `plans.rs` |
| `SetQuota`, `SetPlan`, `WriteQuota` | an operator assigns a plan and a quota |
| `Subscribe`, `PlanPrice`, `CheckoutUrl` | checkout, by the user or for them |
| `Pay`, `Change` | the payment provider (external): a customer per checkout, an event per change |
| `Webhook`, `DropEvent` | `stripe_webhook`: an event, late, twice or out of order; one whose UPDATE failed, answered 200 all the same |
| `Fail` | a handler that ends early |

History: `heard` says how far a customer's events were applied, `placed` that an operator chose the plan.
Whoever joins a plan between the count and the deletion is on a
plan without a row, and without a limit, against "a plan in use is not deleted from under its users" (`admin/plans.rs:170`); so is, after the deletion of "free", whoever falls back to it. The provider
modelled bills the plan that was bought: a subscription switched in the provider's portal, which
`customer.subscription.updated` ignores (`actions.rs:291`), is not. An event whose UPDATE failed is answered 200 and does not come again, and an older one may be applied last: the
record then differs from the subscription, against "a signature-verified webhook keeps the plan in sync"
(`booklet-sync-server/README.md:80`), and `UpToDate` leaves these records out.

## 3. What the runs show

| run | bounds | distinct states | shows |
|---|---|---|---|
| `SyncStore` | 1 vault, 2 paths, 1 content, 2 requests, 3 mutations, quota 2, vault deleted / restored / purged | 571,535 | history, sequence, blobs, first write wins; the pipeline implements `VersionedVault` |
| `SyncFeed` | 1 request, 1 reader, 3 mutations, vault lifecycle | 809,540 | the feed misses only what raced its two statements |
| `BlobStore` | 3 contents, 2 requests, checkpoint every 2 | 833,621 | chains bounded; what nobody stored twice at once matches its row and is never torn |
| `SyncDevice` | 2 devices, 2 notes with copies, 1 image; environments below | 1,471,649 | agreement and cursor but where the feed raced, no loss |
| `SyncBook` | 2 devices, 1 book, 3 copies, 1 or 2 choices; environments below | 1,271,195 | no unknown key disappears, no choice is lost but as known, devices left alone come to hold the same files |
| `SyncWorker` | 2 folders, 2 accounts, 2 server vaults, 3 commands, 2 faults | 173,586 | published once, deletion forgotten, flags kept, status settles |
| `NoteEditor` | 2 notes, 2 typed edits, 1 remote, 2 failures, 1 change of the tree | 112,421 | nothing typed or received is lost but as known, "saved" is true, unsaved text is saved |
| `LiveReload` | every diff of up to 5 characters, narrow and wide, from every caret | 142,898 | text reproduced, caret follows |
| `LibraryTree` | 3 vaults (one nested, one made on the spot), 9 paths, 2 colours, 3 slots, 1 change by others | 216,344 | list, colours and open folders kept; rows settle |
| `Accounts` | 3 requests (2 at once), 3 accounts, 3 handles, 1 address, open sign-up | 1,473,298 | severed credentials, tokens, operators, deletions |
| `Plans` | 1 user, 3 plan names, 2 customers, 3 requests (2 at once), 3 events per subscription | 496,080 | record and provider agree where the events came in turn |

Why the bounds are enough. In the store every check-then-act window belongs to one request and is
opened by one other, so two requests reach every overlap; a path that is created, changed and buried
takes three mutations, and two paths make a move. One content is shared by both requests, which is
the interesting case for blobs; more contents only make them independent. For a blob chain, three
contents over a checkpoint interval of two make a delta, the checkpoint after it and a delta on that; two
requests share a temporary file in every order.

For devices, a three-way merge takes three saves (ancestor, local, remote), a conflict copy two devices, a
second lost race three saves of the image. Two deletes or two faults in one behaviour are beyond what an
exhaustive run affords. The run has four environments: 2 saves, 1 delete or rename and 1 fault, with
merges that reject hunks; 3 saves with overlapping cycles and such merges; 2 saves and 1 delete or rename
with overlapping cycles; the same with a user at work during cycles.

For a book, 2 choices make a binding on one device and a key of the user's own, another colour or a broken file on the
other, which is the overlay's case. The devices share a book when a behaviour begins, or make one each at the
same time (a conflict copy of each other's file). Seven environments: two books made at once; broken files; a
book deleted and made again; a failed call around a deletion, and around a book just made; a user at work during
cycles, with two choices or with a choice and a deletion. Cycles overlap call by call in all of them. `Converges`
speaks of the five whose users leave the book alone during a cycle. Three names for copies are enough: no instance runs out of them.
The feed's race needs one mutation of the other device between two steps of one cycle; overlapping cycles give it.

Accounts and plans: every window again belongs to one request and is opened by one other, and the third
request signs in, resets or joins after the fact; three events make "one applied, one late, one lost", two
customers a second subscription of the same user. Worker: publish, delete and one more command, with two
folders and two faults, reach every lost answer followed by its retry, and a cycle that fails after one that merged. Editor: an edit before and one after a
write, one from elsewhere. Library: a slot, the other's change, a slot that must repair it. Live reload:
five characters make two edits with text between them and a wide character on either side.

Fairness. Safety properties need none. Four runs check liveness, each under the weakest fairness the
code's own scheduling gives:

* `LibraryTree` (`SettlesFresh`): a slot finishes (`WatchVaults`, `OpenCreated`), and the event loop gets
  round to the refresh the watcher queued (`Refresh`). Weak fairness of the three; the user, the disk and the end
  of the application are not fair. What changed between the read of a tree and the watch on it is exempt (`missed`).
* `NoteEditor` (`SavedEventually`): a single-shot timer that was started fires (`SaveTimer`), the repeating sync
  timer fires (`SyncTimer`); it flushes before it syncs, which is what rescues a text whose save failed.
* `SyncWorker` (`StatusSettles`): the worker's loop goes on (`Work`), and what was invoked on the event loop
  runs (`Pump`). The first holds as long as every call to the server answers or fails, which is an assumption
  about the network: `client.rs:33` sets no timeout. A folder must be open: without one nothing announces the
  status set at the start.
* `SyncBook` (`Converges`): the worker of every device goes from step to step and from cycle to cycle
  (`Sync`), which its 30 s timer and the answers of the network give it, and a slot that was entered finishes
  (`Finish`). Users and failures are not fair and bounded, so they stop.

Deadlock is checked except where everything bounded may have been done: `Accounts`,
`BlobStore`, `LibraryTree`, `LiveReload`, `Plans`.

One run ends in a violation, a `finding` of `PROJECT.json`. `SyncFeed_FeedComplete`: `booklet-sync-proto` promises
every path with `seq > N` plus the new cursor, and a change committed between the feed's two statements is never
delivered. The other places where code and documentation part ways are listed with their modules in section 2; the
properties of the passing runs leave out exactly those.

## 4. What is proved

A theorem holds for every value of the constants that its module's `ASSUME`s allow: any number of vaults,
devices, notes, edits and requests, any bounds. Each proof module states an inductive invariant, proves that every
action keeps it, and reads the properties off it. `TypeOK`, or the part of it that the rest needs, is a conjunct of
each of them (of `LibraryTree`'s, that vaults are records named by distinct paths).

| module | theorem | statement |
|---|---|---|
| `SyncStoreProofs` | `TypeCorrect` | `Spec => []TypeOK` |
| | `HistoryConsistent` | `Spec => []HistoryMatchesState` |
| | `OneOrder` | `Spec => []SeqOrdersMutations` |
| | `ReadsAreSeen` | `Spec => []ReadsSeen` |
| | `ContentIsStored` | `Spec => []ReferencedBlobsStored` |
| | `UploadsAreFound` | `Spec => []UploadedNeverMissing` |
| | `FirstWriteWins` | `Spec => NoLostUpdate` |
| | `AtomicVault` | `Spec => Linearizable` |
| | `OnlyRacesLose` | `FeedSpec => []FeedLosesOnlyRaces` |
| | `MovesAreWhole` | `FeedSpec => []MovesArriveWhole` |
| | `ChainsStayBounded` | `BlobSpec => []ChainsBounded` |
| | `RowsMatchFiles` | `BlobSpec => []UncontestedMatches` |
| | `NeverTorn` | `BlobSpec => []NeverTornAlone` |
| `SyncDeviceProofs` | `OnlyAstrayDiffer` | `Spec => []AstrayOnly` |
| | `VersionsKeepUp` | `Spec => []CursorCovers` |
| | `EditsSurvive` | `Spec => []LostOnlyExposed` |
| `SyncBookProofs` | `BookTypeCorrect` | `Spec => [](TypeOK /\ FoldersBare)` |
| | `UnknownKeysSurvive` | `Spec => KeysSurvive` |
| | `ChoicesAlwaysKept` | `Spec => []ChoicesKept` |
| `SyncWorkerProofs` | `VaultsPublishedOnce` | `Spec => []PublishedOnce` |
| | `NoneBoundToDeleted` | `Spec => []DeletedIsUnbound` |
| | `ReviewFlagsKept` | `Spec => []FlagsKept` |
| `NoteEditorProofs` | `TypingIsKept` | `Spec => []TypedKept` |
| | `ArrivalsAreKept` | `Spec => []RemoteKept` |
| | `SavedMeansSaved` | `Spec => []Settled` |
| | `EditsReproduce` | `ReloadSpec => []Reproduces` |
| | `CaretIsFollowed` | `ReloadSpec => []CaretFollows` |
| `AccountsProofs` | `TypeCorrect` | `Spec => []TypeInv` |
| | `CredentialsStayCurrent` | `Spec => []CredentialsCurrent` |
| | `OperatorsByOperators` | `Spec => AdminsByAdmins` |
| | `DeletionsAsTyped` | `Spec => DeletedAsTyped` |
| | `TokensSpentOnce` | `Spec => []SpentOnce` |
| `LibraryTreeProofs` | `VaultListKept` | `Spec => []VaultsKept` |
| | `OpenFoldersKept` | `Spec => OpenKept` |
| `PlansProofs` | `StatusIsReconciled` | `Spec => []StatusReconciled` |
| | `PlanIsReconciled` | `Spec => []PlanReconciled` |

### The arguments

**SyncStore.** `TypeOK` is not inductive alone: that `apply_put` writes a row of the right type depends on what the
request carries (a request at a step that handles content has content, a move goes to another path), which is
`RequestsFormed`. `HistoryMatchesState` is not either: a transaction writes version `cur.version + 1`, where `cur`
was read long before. `ReadsSeen` says `cur` is the current row or an older version of it; `HistoryMatchesState`
says every version up to the current one is in the history; so the primary key lets the transaction through
exactly when `cur` is still the current row (`FreshRows`), and then both tables grow by the same row, one version
on (`CommitRows`, `UnbrokenGrows`). `IInv` is the conjunction of the three. On top of it, `SeqOrdersMutations` is
inductive, because a transaction takes the one number past all others; `BlobsInv` says what a request may rely on
between `finalize_blob` and the transaction: its content is stored, or it will store it itself. The refinement maps
a step that commits to `Take`, one that finds the base stale to the conflict, a failure to the refusal and every
other to a stutter (`CommitTakes`, `HandleRefines`, `FailRefuses`); the hard case is `Commit`, which must see that
the version its base check compared is still the current one: `FreshRows` again.

**SyncFeed.** `Follower` relates a device to its vault's rows: it knows no version that is not there, everything its
cursor covers and no race took, and nothing its cursor does not cover. A page in flight is complete up to the
sequence `at` which the vault had at its first statement (`Paging`). `SeqOrdersMutations` is what makes the cursor a
point in the history; so the proofs stand in `SyncStoreProofs`, after the store's.

**BlobStore.** A row never changes once it is there, so a depth computed from a base's row before the transaction is
still right in it (`ChainsInv`). For a blob that one request at a time stores (`Alone`), the temporary file and the
final one are, at each step of the request, what its own calls left, and it has no row yet; `CallsInv` ties a request
to the steps of its file replacement.

**SyncDevice.** The invariant follows a path through a cycle. `Reach` is what a device has been told of: the
sequence numbers its cursor covers but those that raced; `PageReach` the same with the page in its hands, which goes up
to `at`, the vault's sequence at the first of the two statements. A path is `Due` on a device when the latest version is
within its reach and it is not astray. `FilesFollow`: for a due path the manifest is what the server has;
during a push a due path whose file differs is still listed among the changes, or is the copy that is being sent;
after it none differs, and during the pull the page covers what becomes due with the new cursor, which is
no more than what the page told (`PulledReach`). `VersionsCover` says
the same of versions, and of what a worker that lost a conflict holds. `EditsHeld` puts "durable" in the place of "the
server's": in the history, dropped or exposed. Whatever is not durable is in a file that is still to be pushed or in
the worker's hands. That a diff lists every path that changed (`DiffLists`) takes that the pairing of moves is a
function, which is in the ranks (`RankGrows`, `OneMate`). Looking for the invariant brought up two losses that the
instance of the run is too small to show, the rename during a cycle and the copy whose name has a tombstone; both are now in the model.

**SyncBook.** Two invariants, one per property. For the keys, `KeysHeld`: the server takes a version of
`booklet.json` only from a device that names the one before, and whoever knows the latest version holds all its
keys (`Reads`). It sent them, or merged them in (`MergeKeys`: the overlay has the keys of both sides), or its file was
replaced by them; what the file loses afterwards goes to `unread`. This must be carried through every step of a worker that lost a
conflict: it holds the version it lost to, and what it sends again has the keys of that version, or is no object. For the
choices, `ChoicesHeld` is `EditsHeld` once more: a file with choices that are not durable waits to be pushed or is in
the worker's hands. New here is what overwrites without reading: the merge and the dialog. `DialogHolds` says that
the two fields the dialog shows make up for those in the file, and what `Binding::write` has read for the user's own key; between the
read back and the write of a merge, that the worker's text shows what the file shows. `FoldersBare` goes with
both: no version of a folder has content, so a folder is never what a copy or a merge is made of.

**SyncWorker.** `Remembered`: the open folder's state in memory is the one on disk, unless a read or write of it has
failed, and then the folder is in `doubtful`. So a decision in memory is the one a restart would make, but for the
command in the middle, which `InTheMiddle` ties to its vault. A flag counts from the end of its cycle: what a cycle that
breaks off has merged has no flag in the code, and is no part of `FlagsKept`.

**NoteEditor.** `Contained`: while the editor knows of every change of the file, the file holds nothing the editor does
not, so a save loses nothing. `SavedLasts`: a text that counts as saved is in the files or among the known losses, so
leaving the note or reloading over it loses nothing either.

**LiveReload.** The loops are steps of the specification, so induction over them is induction over the behaviour, and
no fold has to be reasoned about. `Script` holds after every run of the diff: the edits, the pending one with them, lie
in order in both texts; between two of them the texts are the same; and each removes and inserts what
is between the two stretches beside it. A run lengthens the last stretch or the last edit. `ReplayedTo`: once the
edits from `left + 1` on are replayed, the buffer is `old` up to where edit `left + 1` starts and from there on `new`; with none
left it is `new`. For the caret, `delta` is at every step how far the text behind the edits seen has
moved, and a caret behind an edit, with nothing kept before the next place it can stand, moves just as far (`LandsBehind`).

**LibraryTree.** The list names a vault once, in memory and in the file (`Distinct`), so a vault that is removed
goes alone (`RemovedList`) and a slot's effect on a vault can be followed by its path (`SameNames`). That is enough
for `VaultsKept`: every slot stores the list the user made, or marks the file as behind; an engine that could not read
the file stores something else and marks it too. For `OpenKept`, what is on disk
lies in folders that are (`Closed`, kept by every way to add, remove and rename): so of a folder that stood
open and still exists, every folder on the way down from its vault was expanded and exists too, and hydrating reaches it
(`HydratingReaches`). What `reveal_folder` opens and which colours `color_unpainted_vaults` picks are
folds, which the proofs leave open: they hold whatever these compute, and need only that a vault keeps its path.

**Accounts.** `TypeInv` is `TypeOK` and the shape of requests: a step that concerns an account has one, only operations
behind the extractor have an actor, a naming step carries the name that was typed. `CredentialsCurrent` is inductive
with it: a new row says itself whether it was raced, and a cut removes every row it makes stale.
`OperatorsByOperators` is in the types (a request before either statement of `toggle_admin` was an operator's) and in
that no other handler turns the flag on (`AdminKept`). `DeletionsAsTyped` needs that whoever stands before the
deletion has compared the name, and that a rename since is marked (`Confirmations`); that ids are handed out in order
(`UsersBelow`) keeps a deleted account's id from coming back under another name. `TokensSpentOnce` needs that numbers
of rows are not reused (`NumbersFresh`) and that a token that was spent, or that one request has redeemed and is
about to spend, is used up (`Once`).

**Plans.** The provider ends a subscription once and last, so what the latest event says is what the subscription is
(`EventsInv`). A record names a customer only through that customer's first event, so the customer is the user's own
(`Bound`); every other event but the last leaves the plan alone.

### Assumptions

Nulls and bounds: a value that stands for "none" is none of the values it is told from (`NullAssumption`,
`NullsAssumption`, `NoneAssumption`, `NoUserAssumption`, `MissingAssumption` and the like), and bounds are natural
numbers. About the code: `SyncDevice`'s `CopiesAssumption` and `SyncBook`'s `NamesAssumption` (the name of a conflict copy is not
that of what it is a copy of: it has a suffix), `SyncBook`'s `ContentsAssumption` (what is no JSON object is not one),
`BlobStore`'s `TextAssumption` (the marks for an empty and a mixed file are no content hashes), `SyncStore`'s
`SomeAssumption` (there is a vault and a path), `LibraryTree`'s `AboveAssumption` and `TwinAssumption` (what paths
are: "starts with" is an order, only folders have something in them, a rename takes along what lies in the folder and
nothing else) and its `StartAssumption` (an old configuration names a vault once; what is on disk at first lies in
folders that are), `Plans`' `NamesAssumption` (the plans `free` and `pro` of the migration).
TLC evaluates every one of them on the runs.

### Model-checked only

The four liveness properties (`SettlesFresh`, `SavedEventually`, `StatusSettles`, `Converges`): liveness under
fairness is out of the prover's reach. Every safety property the passing runs check, action properties and the refinement
included, has a theorem. `TypeOK` of the modules whose run does not list it documents the variables and is, but for
`LibraryTree`, a conjunct of the invariants proved.

## 5. Not modelled, and the plan

Not modelled, and why:

* rendering, search, links, tags and images are functions without state that the unit tests cover; HTML
  pages and mail are I/O; QML and the highlighter are presentation;
* the orphan sweep of `blob.rs` has no caller; the block operations of `document.rs` neither;
* the size-and-mtime gate of `Manifest::scan`: it needs a clock and file sizes the model does not have;
* the sign-in rate limiter, the event log, themes and CSRF tokens of the server;
* drag and drop, the order of recent vaults and appearance settings of the library;
* that notes, too, come to be the same on devices which stop editing: `SyncDevice`'s history variables keep its
  state graph too large for a liveness check; `AstrayOnly` says devices at rest agree, and `Converges` is
  checked for the entities of `SyncBook`.
