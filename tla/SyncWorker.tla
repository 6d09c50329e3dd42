----------------------------- MODULE SyncWorker -----------------------------
(***************************************************************************)
(* The background sync thread of the app: the commands the UI sends it,    *)
(* what it keeps (credential file, the binding of each vault folder to a   *)
(* server vault, review flags) and the status it reports back (src/sync.rs,*)
(* booklet-sync-client client.rs and secret.rs).                           *)
(*                                                                         *)
(* The worker takes one command at a time.  A command that asks the server *)
(* for something takes two steps, so that the app can end in between.  A   *)
(* cycle of push and pull is one answer here: SyncDevice looks inside.     *)
(***************************************************************************)
EXTENDS Naturals, Sequences

CONSTANTS
    Roots,         \* vault folders of this device
    Accounts,
    None,
    MaxVaults,     \* bounds: vaults on the server, commands sent, answers lost,
    MaxCommands,   \* writes and reads that fail
    MaxFaults

ASSUME NoneAssumption == None \notin Roots /\ None \notin Accounts
ASSUME BoundsAssumption == MaxVaults \in Nat /\ MaxCommands \in Nat /\ MaxFaults \in Nat

VARIABLES
    served,      \* the vaults the server has: owner, folder published from, still there
    tokenFile,   \* whose device token is on disk
    stateFile,   \* per folder: the server vault it is bound to (0: none), review flag
    account,     \* of the client
    vault,       \* None, or the folder that is being synced and its state in memory
    job,         \* None, or what the worker is in the middle of
    queue,       \* commands
    shared,      \* status, signedIn, published, flagged: what the UI may ask for
    announced,   \* a Status event waits for the pump
    shown,       \* what the UI shows
    uiRoot,      \* the active vault of the UI
    commands, faults,
    doubtful,    \* history: folders whose publication may be repeated
    elsewhere,   \* history: server vaults that went without their folder being told
    fuzzy        \* history: folders with a merge to review, of a cycle that went through

vars == <<served, tokenFile, stateFile, account, vault, job, queue, shared, announced, shown,
          uiRoot, commands, faults, doubtful, elsewhere, fuzzy>>

disk == <<tokenFile, stateFile>>
history == <<doubtful, elsewhere, fuzzy>>
ui == <<shown, uiRoot, commands>>

Ids == 1 .. MaxVaults
State == [id : Ids \cup {0}, flagged : BOOLEAN]
Unbound == [id |-> 0, flagged |-> FALSE]
VaultSync == [root : Roots, id : Ids \cup {0}, flagged : BOOLEAN]
ASSUME NullAssumption == None \notin VaultSync

Status == {"", "offline", "syncing", "synced", "error"}
Shared == [status : Status, signedIn : BOOLEAN, published : BOOLEAN, flagged : SUBSET Roots]
AtStart == [status |-> "", signedIn |-> FALSE, published |-> FALSE, flagged |-> {}]

Command == [kind : {"SignOut", "Publish", "DeleteVault", "Restore", "Request"}]
           \cup [kind : {"SignIn"}, as : Accounts] \cup [kind : {"SetVault", "DismissFlag"}, root : Roots]
           \cup [kind : {"DeleteVaultById"}, id : Ids] \cup [kind : {"Clone"}, id : Ids, root : Roots]

Job == [kind : {"off", "idle", "sync"}] \cup [kind : {"bind", "unbind"}, id : Ids]
Idle == [kind |-> "idle"]
Syncing == [kind |-> "sync"]

Live(id) == id \in DOMAIN served /\ served[id].live
Mine(id) == Live(id) /\ served[id].owner = account

Init ==
    /\ served = <<>> /\ tokenFile = None /\ stateFile = [r \in Roots |-> Unbound]
    /\ account = None /\ vault = None /\ job = [kind |-> "off"]
    /\ queue = <<>> /\ shared = AtStart /\ announced = FALSE /\ shown = AtStart /\ uiRoot = None
    /\ commands = 0 /\ faults = 0
    /\ doubtful = {} /\ elsewhere = {} /\ fuzzy = {}

----------------------------------------------------------------------------
(* The UI thread *)

\* start, Worker::new and the head of run: the status is set but not announced.  The
\* library loads and the active vault, if there is one, is set.
Start ==
    /\ job.kind = "off"
    /\ account' = tokenFile /\ vault' = None /\ job' = Idle
    /\ shared' = [AtStart EXCEPT !.status = "offline", !.signedIn = tokenFile # None]
    /\ \E r \in Roots \cup {None} :
          /\ uiRoot' = r
          /\ queue' = IF r = None THEN <<>> ELSE <<[kind |-> "SetVault", root |-> r]>>
    /\ announced' = FALSE /\ shown' = AtStart
    /\ UNCHANGED <<served, disk, commands, faults, history>>

\* Cloning also makes the folder the active vault.
Sent(command) ==
    IF command.kind = "Clone"
    THEN <<command, [kind |-> "SetVault", root |-> command.root]>> ELSE <<command>>

\* What the UI has to offer.  Its list of server vaults may be an old one; a clone asks
\* for a folder to be chosen, and nothing of that folder.
Offered(command) ==
    CASE command.kind = "SetVault" -> command.root # uiRoot
      [] command.kind \in {"DeleteVaultById", "Clone"} -> command.id \in DOMAIN served
      [] command.kind \in {"Publish", "DeleteVault", "Restore"} -> uiRoot # None
      [] OTHER -> TRUE

Send == \E command \in Command :
    /\ job.kind # "off" /\ Offered(command)
    /\ commands < MaxCommands /\ commands' = commands + 1
    /\ queue' = queue \o Sent(command)
    /\ uiRoot' = IF command.kind \in {"SetVault", "Clone"} THEN command.root ELSE uiRoot
    /\ UNCHANGED <<served, disk, account, vault, job, shared, announced, shown, faults, history>>

\* pump: the payload is the state at the time it runs.
Pump ==
    /\ announced
    /\ announced' = FALSE /\ shown' = shared
    /\ UNCHANGED <<served, disk, account, vault, job, queue, shared, uiRoot, commands, faults, history>>

----------------------------------------------------------------------------
(* The worker *)

Fault == faults < MaxFaults /\ faults' = faults + 1

\* A Status event is committed.
Announce(s) == shared' = s /\ announced' = TRUE

\* fail
FailWith(s) == Announce([s EXCEPT !.status = "error"])

\* report: the server could not be reached, or it refused.
Report == FailWith(shared) \/ Announce([shared EXCEPT !.status = "offline"])

\* The state of the open folder is written; an error is ignored.
Saved(state) ==
    \/ stateFile' = [stateFile EXCEPT ![vault.root] = state] /\ UNCHANGED <<faults, doubtful>>
    \/ Fault /\ UNCHANGED stateFile /\ doubtful' = doubtful \cup {vault.root}

StateOf(v) == [id |-> v.id, flagged |-> v.flagged]
FlagOf(v) == IF v.flagged THEN {v.root} ELSE {}

\* sync: without a token or a binding it returns, and announces nothing.
BeginSync(a, v, s) ==
    IF a = None \/ v = None \/ v.id = 0
    THEN job' = Idle /\ shared' = s /\ announced' = announced
    ELSE job' = Syncing /\ Announce([s EXCEPT !.status = "syncing"])

Take(kind) ==
    /\ job = Idle /\ queue # <<>> /\ Head(queue).kind = kind
    /\ queue' = Tail(queue)

\* 30 seconds without a command; sync_now does the same.
Sync ==
    /\ job = Idle /\ queue = <<>>
    /\ BeginSync(account, vault, shared)
    /\ UNCHANGED <<served, disk, account, vault, queue, ui, faults, history>>

\* Mutant: the flags are those of this cycle.
Flags_Latest(before, now) == now

Flags(before, now) == before \/ now

\* The cycle went through, and may have merged a note so that it wants a review.
SyncDone == \E merged \in BOOLEAN :
    /\ job = Syncing /\ Mine(vault.id)
    /\ vault' = [vault EXCEPT !.flagged = Flags(@, merged)]
    /\ Saved(StateOf(vault'))
    /\ Announce([shared EXCEPT !.status = "synced", !.flagged = FlagOf(vault')])
    /\ fuzzy' = fuzzy \cup (IF merged THEN {vault.root} ELSE {})
    /\ job' = Idle
    /\ UNCHANGED <<served, tokenFile, account, queue, ui, elsewhere>>

\* The vault is gone or another account's, or the cycle broke off.  It may have written
\* merged notes by then: the versions and the flags it has for them are lost.
SyncFails ==
    /\ job = Syncing
    /\ \/ ~Mine(vault.id) /\ FailWith(shared) /\ faults' = faults
       \/ Fault /\ Report
    /\ job' = Idle
    /\ UNCHANGED <<served, disk, account, vault, queue, ui, history>>

SignIn ==
    /\ Take("SignIn")
    /\ \/ /\ tokenFile' = Head(queue).as /\ account' = Head(queue).as
          /\ LET s == [shared EXCEPT !.status = "offline", !.signedIn = TRUE]
             IN  IF vault = None \/ vault.id = 0 THEN Announce(s) /\ job' = Idle
                 ELSE BeginSync(account', vault, s)
          /\ faults' = faults
       \/ /\ UNCHANGED <<tokenFile, account, shared, announced, job, faults>>
       \/ /\ Fault /\ tokenFile' \in {tokenFile, None}
          /\ FailWith(shared)
          /\ UNCHANGED <<account, job>>
    /\ UNCHANGED <<served, stateFile, vault, ui, history>>

\* Mutant: only SignedIn(false) is committed.
SignedOut_NoStatus(s) == shared' = s /\ announced' = announced

SignedOut(s) == Announce(s)

\* The token file may stay where it is: that error is ignored too.
SignOut ==
    /\ Take("SignOut")
    /\ \/ tokenFile' = None /\ faults' = faults
       \/ Fault /\ tokenFile' = tokenFile
    /\ account' = None
    /\ SignedOut([shared EXCEPT !.status = "offline", !.signedIn = FALSE])
    /\ UNCHANGED <<served, stateFile, vault, job, ui, history>>

\* A state that cannot be read counts as none.
SetVault ==
    /\ Take("SetVault")
    /\ LET r == Head(queue).root
       IN  /\ \/ vault' = [root |-> r, id |-> stateFile[r].id, flagged |-> stateFile[r].flagged]
                 /\ UNCHANGED <<faults, doubtful>>
              \/ Fault /\ doubtful' = doubtful \cup {r}
                 /\ vault' = [root |-> r, id |-> 0, flagged |-> FALSE]
           /\ LET s == [shared EXCEPT !.status = "offline", !.published = vault'.id # 0,
                                      !.flagged = FlagOf(vault')]
              IN  IF account = None \/ vault'.id = 0 THEN Announce(s) /\ job' = Idle
                  ELSE BeginSync(account, vault', s)
    /\ UNCHANGED <<served, disk, account, ui, elsewhere, fuzzy>>

----------------------------------------------------------------------------
(* Publishing, deleting and cloning *)

\* Mutant: the guard is left to the UI, which may not know yet.
Publishable_Any(v) == v # None

Publishable(v) == v # None /\ v.id = 0

\* publish_vault, on the server.
Created(owner, root) == Append(served, [owner |-> owner, root |-> root, live |-> TRUE])

\* The server makes a vault and answers, or the answer is lost; or it does not.
Publish ==
    /\ Take("Publish")
    /\ IF account = None \/ ~Publishable(vault)
       THEN FailWith(shared) /\ UNCHANGED <<served, job, faults, doubtful>>
       ELSE \/ /\ Len(served) < MaxVaults
               /\ served' = Created(account, vault.root)
               /\ \/ /\ job' = [kind |-> "bind", id |-> Len(served')]
                     /\ UNCHANGED <<shared, announced, faults, doubtful>>
                  \/ /\ Fault /\ doubtful' = doubtful \cup {vault.root}
                     /\ FailWith(shared)
                     /\ UNCHANGED job
            \/ FailWith(shared) /\ UNCHANGED <<served, job, faults, doubtful>>
    /\ UNCHANGED <<disk, account, vault, ui, elsewhere, fuzzy>>

Bind ==
    /\ job.kind = "bind"
    /\ vault' = [vault EXCEPT !.id = job.id]
    /\ Saved(StateOf(vault'))
    /\ BeginSync(account, vault', [shared EXCEPT !.published = TRUE])
    /\ UNCHANGED <<served, tokenFile, account, queue, ui, elsewhere, fuzzy>>

\* delete_vault, on the server.
Deleted(id) == [served EXCEPT ![id].live = FALSE]

\* delete_server_vault_by_id, up to the answer.
Drop(id) ==
    IF account = None THEN FailWith(shared) /\ UNCHANGED <<served, job, faults, elsewhere>>
    ELSE \/ /\ Mine(id)
            /\ served' = Deleted(id)
            /\ \/ /\ job' = [kind |-> "unbind", id |-> id]
                  /\ UNCHANGED <<shared, announced, faults, elsewhere>>
               \/ /\ Fault /\ elsewhere' = elsewhere \cup {id}
                  /\ FailWith(shared)
                  /\ UNCHANGED job
         \/ /\ ~Mine(id) /\ FailWith(shared) /\ UNCHANGED <<served, job, faults, elsewhere>>
         \/ /\ Fault /\ FailWith(shared) /\ UNCHANGED <<served, job, elsewhere>>

DeleteVaultById ==
    /\ Take("DeleteVaultById")
    /\ Drop(Head(queue).id)
    /\ UNCHANGED <<disk, account, vault, ui, doubtful, fuzzy>>

DeleteVault ==
    /\ Take("DeleteVault")
    /\ IF vault = None \/ vault.id = 0 THEN FailWith(shared) /\ UNCHANGED <<served, job, faults, elsewhere>>
       ELSE Drop(vault.id)
    /\ UNCHANGED <<disk, account, vault, ui, doubtful, fuzzy>>

IsOpen(id) == vault # None /\ vault.id = id

\* Mutant: the unbinding is not written down.
Forget_InMemory == UNCHANGED <<stateFile, faults, doubtful>>

Forget == Saved(Unbound)

\* The rest of delete_server_vault_by_id: other folders bound to the vault are not
\* told.  The list of vaults is asked for again, which may fail.
Unbind ==
    /\ job.kind = "unbind"
    /\ \E s \in {"", "offline", "error"} :
          LET t == IF s = "" THEN shared ELSE [shared EXCEPT !.status = s]
          IN  IF IsOpen(job.id)
              THEN /\ vault' = [vault EXCEPT !.id = 0, !.flagged = FALSE]
                   /\ Forget
                   /\ Announce([t EXCEPT !.status = IF s = "" THEN "offline" ELSE s,
                                         !.published = FALSE, !.flagged = {}])
                   /\ fuzzy' = fuzzy \ {vault.root}
              ELSE Announce(t) /\ UNCHANGED <<vault, stateFile, faults, doubtful, fuzzy>>
    /\ elsewhere' = IF \E r \in Roots : stateFile'[r].id = job.id /\ (~IsOpen(job.id) \/ r # vault.root \/ r \in doubtful')
                    THEN elsewhere \cup {job.id} ELSE elsewhere
    /\ job' = Idle
    /\ UNCHANGED <<served, tokenFile, account, queue, ui>>

\* Whether or not anyone is signed in, the vault is still there, or the folder has been
\* bound meanwhile.
Clone ==
    /\ Take("Clone")
    /\ LET r == Head(queue).root
           id == Head(queue).id
       IN  \/ /\ vault' = [root |-> r, id |-> id, flagged |-> FALSE]
              /\ stateFile' = [stateFile EXCEPT ![r] = [id |-> id, flagged |-> FALSE]]
              /\ elsewhere' = IF Live(id) THEN elsewhere ELSE elsewhere \cup {id}
              /\ BeginSync(account, vault', [shared EXCEPT !.published = TRUE])
              /\ doubtful' = doubtful \cup (IF stateFile[r].id = 0 THEN {} ELSE {r})
              /\ faults' = faults
           \/ /\ Fault /\ FailWith(shared)
              /\ UNCHANGED <<vault, stateFile, elsewhere, job, doubtful>>
    /\ UNCHANGED <<served, tokenFile, account, ui, fuzzy>>

----------------------------------------------------------------------------
(* Notes *)

\* request_vaults, request_history, request_version: a failure shows in the status.
Request ==
    /\ Take("Request")
    /\ \/ UNCHANGED <<shared, announced, faults>>
       \/ account # None /\ Fault /\ Report
    /\ UNCHANGED <<served, disk, account, vault, job, ui, history>>

\* The old text is written to the note, and pushed.
Restore ==
    /\ Take("Restore")
    /\ \/ BeginSync(account, vault, shared) /\ faults' = faults
       \/ account # None /\ vault # None /\ vault.id # 0 /\ Fault /\ Report /\ job' = Idle
    /\ UNCHANGED <<served, disk, account, vault, ui, history>>

\* Of a note in the open folder; a path of another one matches no flag.
DismissFlag ==
    /\ Take("DismissFlag")
    /\ IF vault = None THEN UNCHANGED <<vault, stateFile, shared, announced, faults, doubtful, fuzzy>>
       ELSE /\ vault' = IF Head(queue).root = vault.root THEN [vault EXCEPT !.flagged = FALSE] ELSE vault
            /\ Saved(StateOf(vault'))
            /\ Announce([shared EXCEPT !.flagged = FlagOf(vault')])
            /\ fuzzy' = (fuzzy \ {Head(queue).root}) \cup (IF vault'.flagged THEN {vault.root} ELSE {})
    /\ UNCHANGED <<served, tokenFile, account, job, ui, elsewhere>>

\* The app ends, in the middle of anything.
Quit ==
    /\ job.kind # "off"
    /\ job' = [kind |-> "off"]
    /\ account' = None /\ vault' = None /\ queue' = <<>> /\ uiRoot' = None
    /\ shared' = AtStart /\ shown' = AtStart /\ announced' = FALSE
    /\ doubtful' = doubtful \cup (IF job.kind = "bind" THEN {vault.root} ELSE {})
    /\ elsewhere' = elsewhere \cup (IF job.kind = "unbind" THEN {job.id} ELSE {})
    /\ UNCHANGED <<served, disk, commands, faults, fuzzy>>

Work ==
    \/ Sync \/ SyncDone \/ SyncFails \/ SignIn \/ SignOut \/ SetVault
    \/ Publish \/ Bind \/ DeleteVaultById \/ DeleteVault \/ Unbind \/ Clone
    \/ Request \/ Restore \/ DismissFlag

Next == Start \/ Send \/ Pump \/ Work \/ Quit

\* The worker's loop goes on, as long as every call to the server answers or fails (there
\* is no timeout), and the event loop runs what was invoked on it.
Spec == Init /\ [][Next]_vars /\ WF_vars(Work) /\ WF_vars(Pump)

----------------------------------------------------------------------------
(* Properties *)

TypeOK ==
    /\ \A i \in DOMAIN served : served[i] \in [owner : Accounts, root : Roots, live : BOOLEAN]
    /\ tokenFile \in Accounts \cup {None} /\ account \in Accounts \cup {None}
    /\ stateFile \in [Roots -> State]
    /\ vault = None \/ vault \in VaultSync
    /\ job \in Job /\ \A i \in DOMAIN queue : queue[i] \in Command
    /\ shared \in Shared /\ shown \in Shared /\ announced \in BOOLEAN
    /\ uiRoot \in Roots \cup {None}
    /\ doubtful \subseteq Roots /\ fuzzy \subseteq Roots /\ elsewhere \subseteq Ids

\* "A vault is published exactly once: re-publishing would create a second, duplicate
\* server vault" (sync.rs, publish): the server has one vault of a folder at most, and
\* the folder is bound to it, unless the answer to its publication was lost or its
\* state could not be written or read, or another vault was cloned over it.
PublishedOnce == \A r \in Roots \ doubtful : \A i \in DOMAIN served :
    served[i].root = r /\ served[i].live => i = stateFile[r].id \/ job = [kind |-> "bind", id |-> i]

\* A deleted vault becomes local-only (sync.rs, delete_vault): no folder stays bound to
\* a vault that is gone, unless it was not the open one, the answer was lost, or the
\* clone came after the deletion.
DeletedIsUnbound == \A r \in Roots :
    LET id == stateFile[r].id
    IN  id = 0 \/ Live(id) \/ id \in elsewhere \/ job = [kind |-> "unbind", id |-> id]

Flagged(r) == stateFile[r].flagged \/ (vault # None /\ vault.root = r /\ vault.flagged)

\* A flag that a cycle which went through has raised stays until somebody has looked
\* at the note, across later cycles - those that fail too -, changes of vault and
\* restarts, but in a folder whose state could not be written or read, or that
\* another vault was cloned over.  This is not "a partial merge is accepted and the
\* note is flagged" (ROADMAP.md): what a cycle merges before it breaks off gets none.
FlagsKept == \A r \in fuzzy \ doubtful : Flagged(r)

\* What the UI shows is in the end what the worker holds, if there is an active vault:
\* every command that changes it announces it or is followed by one that does.
StatusSettles == (shown # shared /\ uiRoot # None) ~> (shown = shared \/ uiRoot = None)

=============================================================================
