-------------------------- MODULE SyncWorkerProofs --------------------------
(***************************************************************************)
(* The sync worker, proved for any number of folders, accounts, server     *)
(* vaults, commands and faults.                                            *)
(*                                                                         *)
(* The argument: the open folder in memory agrees with its state on disk   *)
(* unless a write or a read of it has failed, and from then on the folder  *)
(* is in doubt.  So what the worker decides on in memory, whether to       *)
(* publish, what to keep flagged, what to unbind, is what a restart would  *)
(* find, but for a command in the middle, which knows the vault it is for. *)
(***************************************************************************)
EXTENDS SyncWorker, TLAPS

Served == [owner : Accounts, root : Roots, live : BOOLEAN]

Typed ==
    /\ served \in Seq(Served)
    /\ tokenFile \in Accounts \cup {None} /\ account \in Accounts \cup {None}
    /\ stateFile \in [Roots -> State]
    /\ vault = None \/ vault \in VaultSync
    /\ job \in Job /\ queue \in Seq(Command)

\* Memory is what a restart would read.
Remembered ==
    vault # None /\ vault.root \notin doubtful => stateFile[vault.root] = StateOf(vault)

\* What a command in the middle is for: a new vault of the open folder, which is not
\* bound yet, or a vault that has just gone.
InTheMiddle ==
    /\ job.kind = "bind" => /\ vault # None /\ vault.id = 0
                            /\ Live(job.id) /\ served[job.id].root = vault.root
    /\ job.kind = "unbind" => job.id \in DOMAIN served /\ ~Live(job.id)
    /\ job.kind = "sync" => vault # None

\* A folder that is not bound has nothing to review.
Unflagged ==
    /\ fuzzy \subseteq Roots
    /\ \A r \in Roots : stateFile[r].id = 0 => ~stateFile[r].flagged
    /\ vault # None /\ vault.id = 0 => ~vault.flagged

\* The open folder's vault is there, or has gone behind its back.
OpenIsThere ==
    vault # None =>
       vault.id = 0 \/ Live(vault.id) \/ vault.id \in elsewhere \/ job = [kind |-> "unbind", id |-> vault.id]

Bindings == Remembered /\ InTheMiddle /\ Unflagged /\ OpenIsThere
Promises == PublishedOnce /\ DeletedIsUnbound /\ FlagsKept

IInv == Typed /\ Bindings /\ Promises

\* The variables the invariant is about, without the job and the queue.
core == <<served, stateFile, vault, doubtful, elsewhere, fuzzy>>

----------------------------------------------------------------------------
(***************************************************************************)
(* Commands and jobs                                                       *)
(***************************************************************************)

\* What a command names.
LEMMA CommandShape ==
    ASSUME NEW c \in Command
    PROVE  /\ c.kind \in {"SetVault", "DismissFlag", "Clone"} => c.root \in Roots
           /\ c.kind \in {"DeleteVaultById", "Clone"} => c.id \in Ids
           /\ c.kind = "SignIn" => c.as \in Accounts
    BY DEF Command

\* The vault that a job is about is one of the server's.
LEMMA JobShape ==
    ASSUME NEW j \in Job
    PROVE  /\ j.kind \in {"off", "idle", "sync", "bind", "unbind"}
           /\ j.kind \in {"bind", "unbind"} => j.id \in Ids /\ j = [kind |-> j.kind, id |-> j.id]
           /\ \A i : j = [kind |-> "bind", id |-> i] => j.kind = "bind" /\ j.id = i
           /\ \A i : j = [kind |-> "unbind", id |-> i] => j.kind = "unbind" /\ j.id = i
    BY DEF Job

LEMMA JobsMade ==
    /\ Idle \in Job /\ Idle.kind = "idle"
    /\ Syncing \in Job /\ Syncing.kind = "sync"
    /\ [kind |-> "off"] \in Job
    /\ \A i \in Ids : [kind |-> "bind", id |-> i] \in Job /\ [kind |-> "unbind", id |-> i] \in Job
    BY DEF Idle, Syncing, Job

\* The head of the queue is a command, and the rest is a queue.
LEMMA TakeShape ==
    ASSUME Typed, NEW k, Take(k)
    PROVE  /\ job = Idle /\ queue' \in Seq(Command)
           /\ Head(queue) \in Command /\ Head(queue).kind = k
    BY DEF Take, Typed

LEMMA BeginSyncShape ==
    ASSUME NEW a, NEW v, NEW s, BeginSync(a, v, s)
    PROVE  job' = Idle \/ (job' = Syncing /\ v # None)
    BY DEF BeginSync

----------------------------------------------------------------------------
(***************************************************************************)
(* Types                                                                   *)
(***************************************************************************)
LEMMA InvInit == Init => IInv
<1> SUFFICES ASSUME Init PROVE IInv
    OBVIOUS
<1>1. Typed
    BY JobsMade DEF Init, Typed, State, Unbound
<1>2. job.kind = "off" /\ DOMAIN served = {}
    BY DEF Init
<1>3. Bindings
    BY <1>2 DEF Bindings, Remembered, InTheMiddle, Unflagged, OpenIsThere, Init, Unbound
<1>4. Promises
    BY <1>2 DEF Promises, PublishedOnce, DeletedIsUnbound, FlagsKept, Flagged, Init, Unbound
<1> QED BY <1>1, <1>3, <1>4 DEF IInv

LEMMA SavedShape ==
    ASSUME Typed, NEW s \in State, Saved(s), vault # None
    PROVE  /\ stateFile' \in [Roots -> State] /\ doubtful \subseteq doubtful'
           /\ \/ stateFile' = [stateFile EXCEPT ![vault.root] = s] /\ doubtful' = doubtful
              \/ stateFile' = stateFile /\ doubtful' = doubtful \cup {vault.root}
    BY DEF Saved, Typed, VaultSync

LEMMA TypeStep == IInv /\ [Next]_vars => Typed'
<1> SUFFICES ASSUME IInv, [Next]_vars PROVE Typed'
    OBVIOUS
<1> USE DEF IInv
<1>1. CASE UNCHANGED vars
    BY <1>1 DEF vars, disk, history, Typed
<1>2. CASE Start
  <2>1. queue' \in Seq(Command)
    <3>1. \A r \in Roots : [kind |-> "SetVault", root |-> r] \in Command
        BY DEF Command
    <3>2. queue' = <<>> \/ \E r \in Roots : queue' = <<[kind |-> "SetVault", root |-> r]>>
        BY <1>2 DEF Start
    <3>3. CASE queue' = <<>>
        BY <3>3
    <3>4. ASSUME NEW r \in Roots, queue' = <<[kind |-> "SetVault", root |-> r]>>
          PROVE  queue' \in Seq(Command)
        BY <3>1, <3>4
    <3> QED BY <3>2, <3>3, <3>4
  <2>2. job' \in Job
      BY <1>2, JobsMade DEF Start
  <2> QED BY <1>2, <2>1, <2>2 DEF Start, Typed, disk, history
<1>3. CASE Send
  <2>1. PICK c \in Command : queue' = queue \o Sent(c)
      BY <1>3 DEF Send
  <2>2. Sent(c) \in Seq(Command)
    <3>1. c.kind = "Clone" => [kind |-> "SetVault", root |-> c.root] \in Command
        BY CommandShape DEF Command
    <3> QED BY <3>1 DEF Sent
  <2> QED BY <1>3, <2>1, <2>2 DEF Send, Typed, disk, history
<1>4. CASE Pump \/ Sync \/ SyncFails \/ Request \/ Restore
  <2>1. job' \in Job /\ queue' \in Seq(Command)
    <3>1. job' = job \/ job' = Idle \/ job' = Syncing
        BY <1>4 DEF Pump, Sync, SyncFails, Request, Restore, BeginSync
    <3>2. queue' = queue \/ queue' \in Seq(Command)
        BY <1>4, TakeShape DEF Pump, Sync, SyncFails, Request, Restore
    <3> QED BY <3>1, <3>2, JobsMade DEF Typed
  <2>2. UNCHANGED <<served, disk, account, vault>>
      BY <1>4 DEF Pump, Sync, SyncFails, Request, Restore
  <2> QED BY <2>1, <2>2 DEF Typed, disk
<1>5. CASE SyncDone
  <2>1. vault # None /\ StateOf(vault') \in State /\ vault' \in VaultSync
    <3>1. vault # None
        BY <1>5, JobsMade DEF SyncDone, Bindings, InTheMiddle
    <3> QED BY <1>5, <3>1 DEF SyncDone, Flags, StateOf, State, VaultSync, Typed
  <2>2. stateFile' \in [Roots -> State]
      BY <1>5, <2>1, SavedShape DEF SyncDone
  <2> QED BY <1>5, <2>1, <2>2, JobsMade DEF SyncDone, Typed
<1>6. CASE SignIn
  <2>1. queue' \in Seq(Command) /\ Head(queue).as \in Accounts /\ job = Idle
      BY <1>6, TakeShape, CommandShape DEF SignIn
  <2>2. job' \in Job
    <3>1. job' = job \/ job' = Idle \/ job' = Syncing
        BY <1>6 DEF SignIn, BeginSync
    <3> QED BY <3>1, JobsMade DEF Typed
  <2> QED BY <1>6, <2>1, <2>2 DEF SignIn, Typed
<1>7. CASE SignOut
  <2>1. queue' \in Seq(Command)
      BY <1>7, TakeShape DEF SignOut
  <2> QED BY <1>7, <2>1 DEF SignOut, Typed
<1>8. CASE SetVault
  <2>1. queue' \in Seq(Command) /\ Head(queue).root \in Roots
      BY <1>8, TakeShape, CommandShape DEF SetVault
  <2>2. vault' \in VaultSync
    <3>1. stateFile[Head(queue).root] \in State
        BY <2>1 DEF Typed
    <3>2. \E i \in Ids \cup {0}, f \in BOOLEAN :
             vault' = [root |-> Head(queue).root, id |-> i, flagged |-> f]
      <4>1. /\ stateFile[Head(queue).root].id \in Ids \cup {0}
            /\ stateFile[Head(queue).root].flagged \in BOOLEAN
          BY <3>1 DEF State
      <4>2. \/ vault' = [root |-> Head(queue).root, id |-> 0, flagged |-> FALSE]
            \/ vault' = [root |-> Head(queue).root, id |-> stateFile[Head(queue).root].id,
                         flagged |-> stateFile[Head(queue).root].flagged]
          BY <1>8 DEF SetVault
      <4> QED BY <4>1, <4>2
    <3> QED BY <2>1, <3>2 DEF VaultSync
  <2>3. job' = Idle \/ job' = Syncing
      BY <1>8 DEF SetVault, BeginSync
  <2> QED BY <1>8, <2>1, <2>2, <2>3, JobsMade DEF SetVault, Typed, disk
<1>9. CASE Publish
  <2>1. queue' \in Seq(Command)
      BY <1>9, TakeShape DEF Publish
  <2>2. CASE served' = served /\ job' = job
      BY <1>9, <2>1, <2>2 DEF Publish, Typed, disk
  <2>3. CASE /\ account # None /\ vault # None /\ Len(served) < MaxVaults
             /\ served' = Created(account, vault.root)
             /\ job' = job \/ job' = [kind |-> "bind", id |-> Len(served')]
    <3>1. [owner |-> account, root |-> vault.root, live |-> TRUE] \in Served
        BY <2>3 DEF Typed, VaultSync, Served
    <3>2. served' \in Seq(Served) /\ Len(served') = Len(served) + 1
        BY <2>3, <3>1 DEF Created, Typed
    <3>3. Len(served') \in Ids
        BY <2>3, <3>2, BoundsAssumption DEF Ids, Typed
    <3> QED BY <1>9, <2>1, <2>3, <3>2, <3>3, JobsMade DEF Publish, Typed, disk
  <2> QED BY <1>9, <2>2, <2>3 DEF Publish, Publishable
<1>10. CASE Bind
  <2>1. vault # None /\ job.id \in Ids
      BY <1>10, JobShape DEF Bind, Bindings, InTheMiddle, Typed
  <2>2. vault' \in VaultSync /\ StateOf(vault') \in State
      BY <1>10, <2>1 DEF Bind, VaultSync, Typed, State, StateOf
  <2>3. stateFile' \in [Roots -> State]
      BY <1>10, <2>1, <2>2, SavedShape DEF Bind
  <2>4. job' = Idle \/ job' = Syncing
      BY <1>10 DEF Bind, BeginSync
  <2> QED BY <1>10, <2>2, <2>3, <2>4, JobsMade DEF Bind, Typed
<1>11. ASSUME NEW id, Drop(id), id \in Ids, queue' \in Seq(Command),
              UNCHANGED <<disk, account, vault>>
       PROVE  Typed'
  <2>1. CASE served' = served /\ job' = job
      BY <1>11, <2>1 DEF Typed, disk
  <2>2. CASE /\ Mine(id) /\ served' = Deleted(id)
             /\ job' = job \/ job' = [kind |-> "unbind", id |-> id]
    <3>1. served' \in Seq(Served)
      <4>1. id \in DOMAIN served /\ served[id] \in Served
          BY <2>2 DEF Mine, Live, Typed
      <4>2. [served[id] EXCEPT !.live = FALSE] \in Served
          BY <4>1 DEF Served
      <4>3. served' = [served EXCEPT ![id] = [served[id] EXCEPT !.live = FALSE]]
          BY <2>2, <4>1 DEF Deleted
      <4> QED BY <4>1, <4>2, <4>3 DEF Typed
    <3> QED BY <1>11, <2>2, <3>1, JobsMade DEF Typed, disk
  <2> QED BY <1>11, <2>1, <2>2 DEF Drop
<1>12. CASE DeleteVaultById
    BY <1>12, <1>11, TakeShape, CommandShape DEF DeleteVaultById
<1>13. CASE DeleteVault
  <2>1. queue' \in Seq(Command)
      BY <1>13, TakeShape DEF DeleteVault
  <2>2. CASE vault = None \/ vault.id = 0
      BY <1>13, <2>1, <2>2 DEF DeleteVault, Typed, disk
  <2>3. CASE vault # None /\ vault.id # 0
    <3>1. vault.id \in Ids
        BY <2>3 DEF Typed, VaultSync
    <3> QED BY <1>13, <1>11, <2>1, <2>3, <3>1 DEF DeleteVault
  <2> QED BY <2>2, <2>3
<1>14. CASE Unbind
  <2>1. CASE IsOpen(job.id)
    <3>1. vault # None /\ vault' \in VaultSync /\ Unbound \in State
      <4>1. vault \in VaultSync
          BY <2>1 DEF IsOpen, Typed
      <4>2. vault' = [vault EXCEPT !.id = 0, !.flagged = FALSE]
          BY <1>14, <2>1 DEF Unbind
      <4> QED BY <4>1, <4>2, NullAssumption DEF VaultSync, Unbound, State
    <3>2. stateFile' \in [Roots -> State]
        BY <1>14, <2>1, <3>1, SavedShape DEF Unbind, Forget
    <3>3. job' = Idle /\ vault' = [vault EXCEPT !.id = 0, !.flagged = FALSE]
        BY <1>14, <2>1 DEF Unbind
    <3>4. UNCHANGED <<served, tokenFile, account, queue>>
        BY <1>14 DEF Unbind
    <3> QED BY <3>1, <3>2, <3>3, <3>4, JobsMade DEF Typed
  <2>2. CASE ~IsOpen(job.id)
      BY <1>14, <2>2, JobsMade DEF Unbind, Typed
  <2> QED BY <2>1, <2>2
<1>15. CASE Clone
  <2>1. /\ queue' \in Seq(Command) /\ job = Idle
        /\ Head(queue).root \in Roots /\ Head(queue).id \in Ids
      BY <1>15, TakeShape, CommandShape DEF Clone
  <2>2. job' = job \/ job' = Idle \/ job' = Syncing
      BY <1>15 DEF Clone, BeginSync
  <2>3. stateFile' \in [Roots -> State] /\ (vault' = vault \/ vault' \in VaultSync)
    <3>1. /\ [id |-> Head(queue).id, flagged |-> FALSE] \in State
          /\ [root |-> Head(queue).root, id |-> Head(queue).id, flagged |-> FALSE] \in VaultSync
        BY <2>1 DEF State, VaultSync
    <3> QED BY <1>15, <2>1, <3>1 DEF Clone, Typed
  <2> QED BY <1>15, <2>1, <2>2, <2>3, JobsMade DEF Clone, Typed
<1>16. CASE DismissFlag
  <2>1. queue' \in Seq(Command)
      BY <1>16, TakeShape DEF DismissFlag
  <2>2. CASE vault = None
      BY <1>16, <2>1, <2>2 DEF DismissFlag, Typed
  <2>3. CASE vault # None
    <3>1. vault' \in VaultSync /\ StateOf(vault') \in State
        BY <1>16, <2>3 DEF DismissFlag, Typed, VaultSync, StateOf, State
    <3>2. stateFile' \in [Roots -> State]
        BY <1>16, <2>3, <3>1, SavedShape DEF DismissFlag
    <3> QED BY <1>16, <2>1, <3>1, <3>2 DEF DismissFlag, Typed
  <2> QED BY <2>2, <2>3
<1>17. CASE Quit
    BY <1>17, JobsMade DEF Quit, Typed, disk
<1> QED BY <1>1, <1>2, <1>3, <1>4, <1>5, <1>6, <1>7, <1>8, <1>9, <1>10, <1>12, <1>13,
           <1>14, <1>15, <1>16, <1>17 DEF Next, Work

----------------------------------------------------------------------------
(***************************************************************************)
(* One command after another                                               *)
(***************************************************************************)

\* A step that leaves folders and vaults alone may begin or end a cycle.
LEMMA KeptStep ==
    ASSUME IInv, UNCHANGED core,
           \/ job' = job
           \/ /\ job.kind \in {"off", "idle", "sync"}
              /\ job' = Idle \/ (job' = Syncing /\ vault # None)
    PROVE  Bindings' /\ Promises'
<1>1. job.kind \notin {"bind", "unbind"} => \A i : job # [kind |-> "bind", id |-> i] /\ job # [kind |-> "unbind", id |-> i]
    BY JobShape DEF IInv, Typed
<1>2. Bindings'
    BY <1>1, JobsMade DEF IInv, Bindings, Remembered, InTheMiddle, Unflagged, OpenIsThere, core,
                          Live, StateOf
<1>3. Promises'
    BY <1>1, JobsMade DEF IInv, Promises, PublishedOnce, DeletedIsUnbound, FlagsKept, Flagged, core, Live
<1> QED BY <1>2, <1>3

\* The app starts, or ends: nothing is open then, and what was in the middle is in doubt.
LEMMA RestartStep == IInv /\ (Start \/ Quit) => Bindings' /\ Promises'
<1> SUFFICES ASSUME IInv, Start \/ Quit PROVE Bindings' /\ Promises'
    OBVIOUS
<1>1. /\ UNCHANGED <<served, stateFile, fuzzy>> /\ vault' = None /\ job'.kind \in {"idle", "off"}
      /\ doubtful \subseteq doubtful' /\ elsewhere \subseteq elsewhere'
    BY DEF Start, Quit, Idle, disk, history
<1>2. job.kind = "bind" => vault # None /\ vault.root \in doubtful' /\ served[job.id].root = vault.root
  <2>1. job.kind = "bind" => Quit
      BY DEF Start
  <2> QED BY <2>1 DEF Quit, IInv, Bindings, InTheMiddle
<1>3. job.kind = "unbind" => job.id \in elsewhere'
    BY DEF Start, Quit
<1>4. /\ \A i : job = [kind |-> "bind", id |-> i] => job.kind = "bind" /\ job.id = i
      /\ \A i : job = [kind |-> "unbind", id |-> i] => job.kind = "unbind" /\ job.id = i
    BY JobShape DEF IInv, Typed
<1>5. Bindings'
    BY <1>1 DEF IInv, Bindings, Remembered, InTheMiddle, Unflagged, OpenIsThere
<1>6. PublishedOnce'
    BY <1>1, <1>2, <1>4 DEF IInv, Promises, PublishedOnce
<1>7. DeletedIsUnbound'
    BY <1>1, <1>3, <1>4 DEF IInv, Promises, DeletedIsUnbound, Live
<1>8. FlagsKept'
    BY <1>1 DEF IInv, Promises, Bindings, Remembered, FlagsKept, Flagged, StateOf
<1> QED BY <1>5, <1>6, <1>7, <1>8 DEF Promises

\* A folder whose state in memory is written, or could not be: nothing else of it changes.
LEMMA WriteStep ==
    ASSUME IInv, Typed', vault # None, vault' # None, vault'.root = vault.root, vault'.id = vault.id,
           Saved(StateOf(vault')), vault.id = 0 => ~vault'.flagged,
           job \in {Idle, Syncing}, job' = Idle, UNCHANGED <<served, elsewhere>>,
           fuzzy' \subseteq fuzzy \cup {vault.root}, vault.root \in fuzzy' \ doubtful => vault'.flagged
    PROVE  Bindings' /\ Promises'
<1>1. /\ doubtful \subseteq doubtful'
      /\ \/ stateFile' = [stateFile EXCEPT ![vault.root] = StateOf(vault')] /\ doubtful' = doubtful
         \/ stateFile' = stateFile /\ doubtful' = doubtful \cup {vault.root}
    BY DEF Saved
<1>2. /\ vault.root \in Roots /\ stateFile \in [Roots -> State]
      /\ StateOf(vault').id = vault.id /\ StateOf(vault').flagged = vault'.flagged
    BY DEF IInv, Typed, VaultSync, StateOf
<1>3. \A i : job # [kind |-> "bind", id |-> i] /\ job # [kind |-> "unbind", id |-> i]
    BY JobsMade, JobShape DEF IInv, Typed
<1>4. \A r \in Roots \ doubtful' :
         /\ r # vault.root => stateFile'[r] = stateFile[r]
         /\ r = vault.root => stateFile'[r] = StateOf(vault') /\ stateFile[r] = StateOf(vault)
    BY <1>1, <1>2 DEF IInv, Bindings, Remembered
<1>5. \A r \in Roots : /\ stateFile'[r] = stateFile[r] \/ (r = vault.root /\ stateFile'[r] = StateOf(vault'))
    BY <1>1, <1>2
<1>6. Remembered' /\ InTheMiddle'
    BY <1>2, <1>4, JobsMade DEF Remembered, InTheMiddle
<1>7. Unflagged'
    BY <1>2, <1>5 DEF IInv, Bindings, Unflagged
<1>8. OpenIsThere'
    BY <1>3 DEF IInv, Bindings, OpenIsThere, Live
<1>9. PublishedOnce'
    BY <1>1, <1>2, <1>3, <1>4 DEF IInv, Promises, PublishedOnce, StateOf
<1>10. DeletedIsUnbound'
    BY <1>2, <1>3, <1>5 DEF IInv, Promises, Bindings, OpenIsThere, DeletedIsUnbound, Live
<1>11. FlagsKept'
  <2>1. \A r \in fuzzy' : r \in Roots
      BY <1>7 DEF Unflagged
  <2> QED BY <1>1, <1>2, <1>4, <2>1 DEF IInv, Promises, Bindings, Remembered, FlagsKept, Flagged, StateOf
<1> QED BY <1>6, <1>7, <1>8, <1>9, <1>10, <1>11 DEF Bindings, Promises

LEMMA SyncDoneStep == IInv /\ Typed' /\ SyncDone => Bindings' /\ Promises'
<1> SUFFICES ASSUME IInv, Typed', SyncDone PROVE Bindings' /\ Promises'
    OBVIOUS
<1>1. vault # None /\ vault \in VaultSync /\ Live(vault.id) /\ job = Syncing /\ job' = Idle
    BY JobsMade DEF SyncDone, IInv, Typed, Bindings, InTheMiddle, Mine
<1>2. PICK merged \in BOOLEAN :
         /\ vault' = [vault EXCEPT !.flagged = vault.flagged \/ merged]
         /\ Saved(StateOf(vault')) /\ UNCHANGED <<served, elsewhere>>
         /\ fuzzy' = fuzzy \cup (IF merged THEN {vault.root} ELSE {})
    BY DEF SyncDone, Flags
<1>3. /\ vault' # None /\ vault'.root = vault.root /\ vault'.id = vault.id
      /\ vault'.flagged = (vault.flagged \/ merged)
  <2>1. vault' \in VaultSync
      BY <1>1, <1>2 DEF VaultSync
  <2> QED BY <1>1, <1>2, <2>1, NullAssumption DEF VaultSync
<1>4. vault.id # 0
  <2>1. vault.id \in DOMAIN served /\ served \in Seq(Served)
      BY <1>1 DEF Live, IInv, Typed
  <2> QED BY <2>1
<1>5. vault.root \in fuzzy' \ doubtful => vault'.flagged
  <2>1. vault.root \in fuzzy \ doubtful => vault.flagged
      BY <1>1 DEF IInv, Promises, Bindings, Remembered, FlagsKept, Flagged, StateOf
  <2> QED BY <1>1, <1>2, <1>3, <2>1
<1> QED BY <1>1, <1>2, <1>3, <1>4, <1>5, WriteStep

\* Another folder is opened, or its state cannot be read and it is in doubt.
LEMMA SetVaultStep == IInv /\ Typed' /\ SetVault => Bindings' /\ Promises'
<1> SUFFICES ASSUME IInv, Typed', SetVault PROVE Bindings' /\ Promises'
    OBVIOUS
<1> DEFINE r == Head(queue).root
<1>1. r \in Roots /\ job = Idle /\ (job' = Idle \/ (job' = Syncing /\ vault' # None))
    BY TakeShape, CommandShape DEF SetVault, BeginSync, IInv
<1>2. UNCHANGED <<served, stateFile, elsewhere, fuzzy>>
    BY DEF SetVault, disk
<1>3. \/ vault' = [root |-> r, id |-> stateFile[r].id, flagged |-> stateFile[r].flagged] /\ doubtful' = doubtful
      \/ vault' = [root |-> r, id |-> 0, flagged |-> FALSE] /\ doubtful' = doubtful \cup {r}
    BY DEF SetVault
<1>4. \A i : job # [kind |-> "bind", id |-> i] /\ job # [kind |-> "unbind", id |-> i]
    BY <1>1, JobsMade, JobShape DEF IInv, Typed
<1>5. stateFile[r] \in State
    BY <1>1 DEF IInv, Typed
<1>6. Remembered'
    BY <1>2, <1>3, <1>5 DEF Remembered, StateOf, State
<1>7. InTheMiddle'
    BY <1>1, JobsMade DEF InTheMiddle
<1>8. Unflagged'
    BY <1>1, <1>2, <1>3 DEF Unflagged, IInv, Bindings
<1>9. OpenIsThere'
  <2>1. vault'.id = 0 \/ vault'.id = stateFile[r].id
      BY <1>3
  <2> QED BY <1>1, <1>2, <1>4, <2>1 DEF OpenIsThere, IInv, Promises, DeletedIsUnbound, Live
<1>10. doubtful \subseteq doubtful'
    BY <1>3
<1>11. Promises'
  <2>1. PublishedOnce' /\ DeletedIsUnbound'
      BY <1>2, <1>4, <1>10 DEF IInv, Promises, PublishedOnce, DeletedIsUnbound, Live
  <2>2. FlagsKept'
      BY <1>2, <1>10 DEF IInv, Promises, Bindings, Remembered, FlagsKept, Flagged, StateOf
  <2> QED BY <2>1, <2>2 DEF Promises
<1> QED BY <1>6, <1>7, <1>8, <1>9, <1>11 DEF Bindings

\* The server makes a second vault of a folder only where the folder is in doubt.
LEMMA PublishStep == IInv /\ Typed' /\ Publish => Bindings' /\ Promises'
<1> SUFFICES ASSUME IInv, Typed', Publish PROVE Bindings' /\ Promises'
    OBVIOUS
<1>1. job = Idle /\ UNCHANGED <<stateFile, vault, elsewhere, fuzzy>>
    BY TakeShape DEF Publish, IInv, disk
<1>2. CASE UNCHANGED <<served, doubtful, job>>
    BY <1>1, <1>2, KeptStep DEF core
<1>3. CASE /\ vault # None /\ vault.id = 0 /\ served' = Created(account, vault.root)
           /\ \/ job' = [kind |-> "bind", id |-> Len(served')] /\ doubtful' = doubtful
              \/ job' = job /\ doubtful' = doubtful \cup {vault.root}
  <2> DEFINE n == Len(served')
  <2>1. /\ DOMAIN served' = DOMAIN served \cup {n} /\ n \notin DOMAIN served
        /\ \A i \in DOMAIN served : served'[i] = served[i]
        /\ served'[n].root = vault.root /\ served'[n].live
      BY <1>3 DEF Created, IInv, Typed
  <2>2. \A i : Live(i) => Live(i)'
      BY <2>1 DEF Live
  <2>3. \A i : job # [kind |-> "bind", id |-> i] /\ job # [kind |-> "unbind", id |-> i]
      BY <1>1, JobsMade, JobShape DEF IInv, Typed
  <2>4. \/ job'.kind = "bind" /\ job'.id = n /\ job' = [kind |-> "bind", id |-> n] /\ doubtful' = doubtful
        \/ job' = Idle /\ doubtful' = doubtful \cup {vault.root}
      BY <1>1, <1>3
  <2>5. Bindings'
    <3>1. Remembered' /\ Unflagged'
        BY <1>1, <2>4 DEF IInv, Bindings, Remembered, Unflagged, StateOf
    <3>2. InTheMiddle'
        BY <1>1, <1>3, <2>1, <2>4, JobsMade DEF InTheMiddle, Live
    <3>3. OpenIsThere'
        BY <1>1, <1>3 DEF OpenIsThere
    <3> QED BY <3>1, <3>2, <3>3 DEF Bindings
  <2>6. PublishedOnce'
    <3> SUFFICES ASSUME NEW r \in Roots \ doubtful', NEW i \in DOMAIN served',
                        served'[i].root = r, served'[i].live
                 PROVE  i = stateFile'[r].id \/ job' = [kind |-> "bind", id |-> i]
        BY DEF PublishedOnce
    <3>1. CASE i = n
        BY <2>1, <2>4, <3>1
    <3>2. CASE i \in DOMAIN served
        BY <1>1, <2>1, <2>3, <2>4, <3>2 DEF IInv, Promises, PublishedOnce
    <3> QED BY <2>1, <3>1, <3>2
  <2>7. DeletedIsUnbound'
      BY <1>1, <2>2, <2>3 DEF IInv, Promises, DeletedIsUnbound
  <2>8. FlagsKept'
      BY <1>1, <2>4 DEF IInv, Promises, FlagsKept, Flagged
  <2> QED BY <2>5, <2>6, <2>7, <2>8 DEF Promises
<1> QED BY <1>2, <1>3 DEF Publish, Publishable

\* The new vault is the folder's only one: before, the folder was not bound.
LEMMA BindStep == IInv /\ Typed' /\ Bind => Bindings' /\ Promises'
<1> SUFFICES ASSUME IInv, Typed', Bind PROVE Bindings' /\ Promises'
    OBVIOUS
<1>1. /\ vault # None /\ vault.id = 0 /\ vault \in VaultSync /\ vault.root \in Roots
      /\ job.kind = "bind" /\ job.id \in Ids
      /\ Live(job.id) /\ served[job.id].root = vault.root
    BY JobShape DEF Bind, IInv, Typed, Bindings, InTheMiddle, VaultSync
<1>2. /\ vault' = [vault EXCEPT !.id = job.id] /\ UNCHANGED <<served, elsewhere, fuzzy>>
      /\ job' = Idle \/ (job' = Syncing /\ vault' # None)
    BY DEF Bind, BeginSync
<1>3. /\ vault' # None /\ vault' \in VaultSync /\ vault'.root = vault.root /\ vault'.id = job.id
      /\ vault'.flagged = vault.flagged /\ StateOf(vault') = [id |-> job.id, flagged |-> vault.flagged]
  <2>1. vault' \in VaultSync
      BY <1>1, <1>2 DEF VaultSync
  <2> QED BY <1>1, <1>2, <2>1, NullAssumption DEF VaultSync, StateOf
<1>4. \/ stateFile' = [stateFile EXCEPT ![vault.root] = StateOf(vault')] /\ doubtful' = doubtful
      \/ stateFile' = stateFile /\ doubtful' = doubtful \cup {vault.root}
    BY DEF Bind, Saved
<1>5. /\ \A r \in Roots : stateFile'[r] = stateFile[r] \/ (r = vault.root /\ stateFile'[r] = StateOf(vault'))
      /\ vault.root \notin doubtful' => stateFile'[vault.root] = StateOf(vault')
      /\ doubtful \subseteq doubtful'
    BY <1>1, <1>4 DEF IInv, Typed
<1>6. /\ \A i : job = [kind |-> "bind", id |-> i] => i = job.id
      /\ \A i : job # [kind |-> "unbind", id |-> i]
    BY <1>1, JobShape DEF IInv, Typed
<1>7. Bindings'
  <2>1. Remembered' /\ InTheMiddle'
      BY <1>2, <1>3, <1>5, JobsMade DEF Remembered, InTheMiddle
  <2>2. Unflagged'
      BY <1>1, <1>2, <1>3, <1>5 DEF IInv, Bindings, Unflagged, StateOf, Ids
  <2>3. OpenIsThere'
      BY <1>1, <1>2, <1>3 DEF OpenIsThere, Live
  <2> QED BY <2>1, <2>2, <2>3 DEF Bindings
<1>8. PublishedOnce'
  <2> SUFFICES ASSUME NEW r \in Roots \ doubtful', NEW i \in DOMAIN served', served'[i].root = r, served'[i].live
               PROVE  i = stateFile'[r].id
      BY DEF PublishedOnce
  <2>1. i = stateFile[r].id \/ i = job.id
      BY <1>2, <1>5, <1>6 DEF IInv, Promises, PublishedOnce
  <2>2. CASE r = vault.root
    <3>1. stateFile[r].id = 0 /\ i # 0
        BY <1>1, <1>2, <1>5, <2>2 DEF IInv, Bindings, Remembered, StateOf, Typed
    <3> QED BY <1>3, <1>5, <2>1, <2>2, <3>1
  <2>3. CASE r # vault.root
      BY <1>1, <1>2, <1>5, <2>1, <2>3
  <2> QED BY <2>2, <2>3
<1>9. DeletedIsUnbound'
    BY <1>1, <1>2, <1>3, <1>5, <1>6 DEF IInv, Promises, DeletedIsUnbound, Live
<1>10. FlagsKept'
    BY <1>1, <1>2, <1>3, <1>5 DEF IInv, Promises, Bindings, Remembered, Unflagged, FlagsKept, Flagged, StateOf
<1> QED BY <1>7, <1>8, <1>9, <1>10 DEF Promises

\* A vault that goes leaves its folder to be told, or is known to have gone unnoticed.
LEMMA DropStep ==
    ASSUME IInv, Typed', NEW id, Drop(id), job = Idle, UNCHANGED <<stateFile, vault, doubtful, fuzzy>>
    PROVE  Bindings' /\ Promises'
<1>1. CASE UNCHANGED <<served, elsewhere, job>>
    BY <1>1, KeptStep DEF core
<1>2. CASE /\ Mine(id) /\ served' = Deleted(id)
           /\ \/ job' = [kind |-> "unbind", id |-> id] /\ elsewhere' = elsewhere
              \/ job' = job /\ elsewhere' = elsewhere \cup {id}
  <2>1. /\ DOMAIN served' = DOMAIN served /\ id \in DOMAIN served
        /\ \A i \in DOMAIN served : /\ i # id => served'[i] = served[i]
                                    /\ served'[i].root = served[i].root
                                    /\ i = id => ~served'[i].live
    <3>1. served[id] \in Served
        BY <1>2 DEF Mine, Live, IInv, Typed
    <3> QED BY <1>2, <3>1 DEF Mine, Live, Deleted, Served
  <2>2. \A i : i # id => Live(i)' = Live(i)
      BY <2>1 DEF Live
  <2>3. ~Live(id)'
      BY <2>1 DEF Live
  <2>4. \A i : job # [kind |-> "bind", id |-> i] /\ job # [kind |-> "unbind", id |-> i]
      BY JobsMade, JobShape DEF IInv, Typed
  <2>5. /\ (job'.kind = "unbind" /\ job'.id = id) \/ job'.kind = "idle"
        /\ job' = [kind |-> "unbind", id |-> id] \/ id \in elsewhere'
        /\ elsewhere \subseteq elsewhere'
      BY <1>2, JobsMade
  <2>6. Bindings'
      BY <2>1, <2>2, <2>3, <2>4, <2>5 DEF IInv, Bindings, Remembered, InTheMiddle, Unflagged, OpenIsThere, StateOf
  <2>7. Promises'
      BY <2>1, <2>2, <2>4, <2>5 DEF IInv, Promises, PublishedOnce, DeletedIsUnbound, FlagsKept, Flagged
  <2> QED BY <2>6, <2>7
<1> QED BY <1>1, <1>2 DEF Drop

LEMMA DeleteStep == IInv /\ Typed' /\ (DeleteVaultById \/ DeleteVault) => Bindings' /\ Promises'
<1> SUFFICES ASSUME IInv, Typed', DeleteVaultById \/ DeleteVault PROVE Bindings' /\ Promises'
    OBVIOUS
<1>1. job = Idle /\ UNCHANGED <<stateFile, vault, doubtful, fuzzy>>
    BY TakeShape DEF DeleteVaultById, DeleteVault, IInv, disk
<1>2. (\E id : Drop(id)) \/ UNCHANGED <<served, job, elsewhere>>
    BY DEF DeleteVaultById, DeleteVault
<1>3. CASE \E id : Drop(id)
    BY <1>1, <1>3, DropStep
<1>4. CASE UNCHANGED <<served, job, elsewhere>>
    BY <1>1, <1>4, KeptStep DEF core
<1> QED BY <1>2, <1>3, <1>4

\* The open folder is told; the others are not.
LEMMA UnbindStep == IInv /\ Typed' /\ Unbind => Bindings' /\ Promises'
<1> SUFFICES ASSUME IInv, Typed', Unbind PROVE Bindings' /\ Promises'
    OBVIOUS
<1> DEFINE d == job.id
<1>1. /\ d \in Ids /\ d \in DOMAIN served /\ ~Live(d) /\ job' = Idle /\ served' = served
      /\ elsewhere \subseteq elsewhere'
    BY JobShape DEF Unbind, IInv, Typed, Bindings, InTheMiddle
<1>2. \A r \in Roots : stateFile'[r].id = d /\ (~IsOpen(d) \/ r # vault.root \/ r \in doubtful') => d \in elsewhere'
    BY DEF Unbind
<1>3. /\ \A i : job # [kind |-> "bind", id |-> i]
      /\ \A i : job = [kind |-> "unbind", id |-> i] => i = d
    BY JobShape DEF Unbind, IInv, Typed
<1>4. CASE IsOpen(d)
  <2>1. /\ vault # None /\ vault.id = d /\ vault.root \in Roots
        /\ vault' = [vault EXCEPT !.id = 0, !.flagged = FALSE]
        /\ fuzzy' = fuzzy \ {vault.root} /\ Saved(Unbound)
      BY <1>4 DEF IsOpen, Unbind, Forget, IInv, Typed, VaultSync
  <2>2. vault' # None /\ vault'.root = vault.root /\ vault'.id = 0 /\ ~vault'.flagged /\ StateOf(vault') = Unbound
    <3>1. vault' \in VaultSync
        BY <2>1 DEF VaultSync, IInv, Typed
    <3> QED BY <2>1, <3>1, NullAssumption DEF VaultSync, StateOf, Unbound, IInv, Typed
  <2>3. /\ \A r \in Roots : \/ stateFile'[r] = stateFile[r] /\ (r = vault.root => r \in doubtful')
                            \/ r = vault.root /\ stateFile'[r] = Unbound
        /\ vault.root \notin doubtful' => stateFile'[vault.root] = Unbound
        /\ doubtful \subseteq doubtful'
      BY <2>1 DEF Saved, IInv, Typed
  <2>4. Bindings'
      BY <1>1, <2>1, <2>2, <2>3, JobsMade
         DEF IInv, Bindings, Remembered, InTheMiddle, Unflagged, OpenIsThere, Unbound
  <2>5. PublishedOnce'
    <3> SUFFICES ASSUME NEW r \in Roots \ doubtful', NEW i \in DOMAIN served', served'[i].root = r, served'[i].live
                 PROVE  i = stateFile'[r].id
        BY DEF PublishedOnce
    <3>1. i = stateFile[r].id /\ i # d
        BY <1>1, <1>3, <2>3 DEF IInv, Promises, PublishedOnce, Live
    <3>2. r # vault.root
        BY <2>1, <2>3, <3>1 DEF IInv, Bindings, Remembered, StateOf
    <3> QED BY <2>3, <3>1, <3>2
  <2>6. DeletedIsUnbound'
      BY <1>1, <1>2, <1>3, <2>3 DEF IInv, Promises, DeletedIsUnbound, Live, Unbound
  <2>7. FlagsKept'
      BY <2>1, <2>3 DEF IInv, Promises, Bindings, Unflagged, FlagsKept, Flagged
  <2> QED BY <2>4, <2>5, <2>6, <2>7 DEF Promises
<1>5. CASE ~IsOpen(d)
  <2>1. UNCHANGED <<vault, stateFile, doubtful, fuzzy>>
      BY <1>5 DEF Unbind
  <2>2. Bindings'
      BY <1>1, <1>3, <1>5, <2>1, JobsMade
         DEF IInv, Bindings, Remembered, InTheMiddle, Unflagged, OpenIsThere, StateOf, Live, IsOpen
  <2>3. PublishedOnce' /\ FlagsKept'
      BY <1>1, <1>3, <2>1 DEF IInv, Promises, PublishedOnce, FlagsKept, Flagged
  <2>4. DeletedIsUnbound'
      BY <1>1, <1>2, <1>3, <1>5, <2>1 DEF IInv, Promises, DeletedIsUnbound, Live
  <2> QED BY <2>2, <2>3, <2>4 DEF Promises
<1> QED BY <1>4, <1>5

\* A clone into a folder that is bound leaves that folder's own vault in doubt.
LEMMA CloneStep == IInv /\ Typed' /\ Clone => Bindings' /\ Promises'
<1> SUFFICES ASSUME IInv, Typed', Clone PROVE Bindings' /\ Promises'
    OBVIOUS
<1> DEFINE r == Head(queue).root
           id == Head(queue).id
<1>1. r \in Roots /\ id \in Ids /\ job = Idle /\ UNCHANGED <<served, fuzzy>>
    BY TakeShape, CommandShape DEF Clone, IInv
<1>2. CASE UNCHANGED <<vault, stateFile, elsewhere, job, doubtful>>
    BY <1>1, <1>2, KeptStep DEF core
<1>3. CASE /\ vault' = [root |-> r, id |-> id, flagged |-> FALSE]
           /\ stateFile' = [stateFile EXCEPT ![r] = [id |-> id, flagged |-> FALSE]]
           /\ elsewhere' = IF Live(id) THEN elsewhere ELSE elsewhere \cup {id}
           /\ BeginSync(account, vault', [shared EXCEPT !.published = TRUE])
           /\ doubtful' = doubtful \cup (IF stateFile[r].id = 0 THEN {} ELSE {r})
  <2>1. /\ \A q \in Roots : stateFile'[q] = IF q = r THEN [id |-> id, flagged |-> FALSE] ELSE stateFile[q]
        /\ doubtful \subseteq doubtful' /\ elsewhere \subseteq elsewhere'
        /\ Live(id) \/ id \in elsewhere'
        /\ id # 0
      BY <1>1, <1>3 DEF IInv, Typed, Ids
  <2>2. job' = Idle \/ (job' = Syncing /\ vault' # None)
      BY <1>3, BeginSyncShape
  <2>3. \A i : job # [kind |-> "bind", id |-> i] /\ job # [kind |-> "unbind", id |-> i]
      BY <1>1, JobsMade, JobShape DEF IInv, Typed
  <2>4. r \notin doubtful' => stateFile[r].id = 0 /\ ~stateFile[r].flagged
      BY <1>1, <1>3 DEF IInv, Bindings, Unflagged
  <2>5. Bindings'
      BY <1>1, <1>3, <2>1, <2>2, JobsMade
         DEF IInv, Bindings, Remembered, InTheMiddle, Unflagged, OpenIsThere, StateOf, Live
  <2>6. PublishedOnce'
    <3> SUFFICES ASSUME NEW q \in Roots \ doubtful', NEW i \in DOMAIN served', served'[i].root = q, served'[i].live
                 PROVE  i = stateFile'[q].id
        BY DEF PublishedOnce
    <3>1. i = stateFile[q].id /\ i # 0
        BY <1>1, <2>1, <2>3 DEF IInv, Promises, PublishedOnce, Typed
    <3> QED BY <2>1, <2>4, <3>1
  <2>7. DeletedIsUnbound'
      BY <1>1, <2>1, <2>3 DEF IInv, Promises, DeletedIsUnbound, Live
  <2>8. FlagsKept'
    <3> SUFFICES ASSUME NEW q \in fuzzy \ doubtful' PROVE stateFile'[q].flagged
        BY <1>1 DEF FlagsKept, Flagged
    <3>1. q \in Roots /\ stateFile[q].flagged
        BY <2>1 DEF IInv, Promises, Bindings, Remembered, Unflagged, FlagsKept, Flagged, StateOf
    <3> QED BY <2>1, <2>4, <3>1
  <2> QED BY <2>5, <2>6, <2>7, <2>8 DEF Promises
<1> QED BY <1>2, <1>3 DEF Clone

LEMMA DismissStep == IInv /\ Typed' /\ DismissFlag => Bindings' /\ Promises'
<1> SUFFICES ASSUME IInv, Typed', DismissFlag PROVE Bindings' /\ Promises'
    OBVIOUS
<1>1. job = Idle /\ job' = job /\ UNCHANGED <<served, elsewhere>>
    BY TakeShape DEF DismissFlag, IInv
<1>2. CASE vault = None
    BY <1>1, <1>2, KeptStep DEF DismissFlag, core
<1>3. CASE vault # None
  <2> DEFINE r == Head(queue).root
  <2>1. /\ vault' = IF r = vault.root THEN [vault EXCEPT !.flagged = FALSE] ELSE vault
        /\ Saved(StateOf(vault'))
        /\ fuzzy' = (fuzzy \ {r}) \cup (IF vault'.flagged THEN {vault.root} ELSE {})
      BY <1>3 DEF DismissFlag
  <2>2. /\ vault' # None /\ vault'.root = vault.root /\ vault'.id = vault.id
        /\ r = vault.root => ~vault'.flagged
        /\ r # vault.root => vault' = vault
    <3>1. vault' \in VaultSync
        BY <1>3, <2>1 DEF VaultSync, IInv, Typed
    <3> QED BY <1>3, <2>1, <3>1, NullAssumption DEF VaultSync, IInv, Typed
  <2>3. vault.id = 0 => ~vault'.flagged
      BY <1>3, <2>2 DEF IInv, Bindings, Unflagged
  <2>4. vault.root \in fuzzy' \ doubtful => vault'.flagged
    <3>1. vault.root \in fuzzy \ doubtful => vault.flagged
        BY <1>3 DEF IInv, Promises, Bindings, Remembered, FlagsKept, Flagged, StateOf
    <3> QED BY <2>1, <2>2, <3>1
  <2> QED BY <1>1, <1>3, <2>1, <2>2, <2>3, <2>4, WriteStep
<1> QED BY <1>2, <1>3

----------------------------------------------------------------------------
LEMMA InvStep == IInv /\ [Next]_vars => IInv'
<1> SUFFICES ASSUME IInv, [Next]_vars PROVE IInv'
    OBVIOUS
<1>1. Typed'
    BY TypeStep
<1>2. Bindings' /\ Promises'
  <2>1. CASE UNCHANGED vars
      BY <2>1, KeptStep DEF vars, core, disk, history
  <2>2. CASE Send \/ Pump
      BY <2>2, KeptStep DEF Send, Pump, core, disk, history
  <2>3. CASE Sync \/ SyncFails \/ Request \/ Restore \/ SignIn \/ SignOut
    <3>1. UNCHANGED core
        BY <2>3 DEF Sync, SyncFails, Request, Restore, SignIn, SignOut, core, disk, history
    <3>2. job = Idle \/ job = Syncing
        BY <2>3, TakeShape DEF IInv, Sync, SyncFails, Request, Restore, SignIn, SignOut
    <3>3. job' = job \/ job' = Idle \/ (job' = Syncing /\ vault # None)
        BY <2>3 DEF Sync, SyncFails, Request, Restore, SignIn, SignOut, BeginSync
    <3> QED BY <3>1, <3>2, <3>3, JobsMade, KeptStep
  <2> QED BY <1>1, <2>1, <2>2, <2>3, RestartStep, SyncDoneStep, SetVaultStep, PublishStep, BindStep,
             DeleteStep, UnbindStep, CloneStep, DismissStep DEF Next, Work
<1> QED BY <1>1, <1>2 DEF IInv

LEMMA WorkerInvariant == Spec => []IInv
    BY InvInit, InvStep, PTL DEF Spec

\* publish never makes a second vault of a folder that has one: the guard on the binding
\* in memory is enough, but for the folders in doubt.
THEOREM VaultsPublishedOnce == Spec => []PublishedOnce
<1>1. IInv => PublishedOnce
    BY DEF IInv, Promises
<1> QED BY <1>1, WorkerInvariant, PTL

\* delete_server_vault_by_id leaves no folder bound to what it deleted, but for the
\* vaults that went without their folder being told.
THEOREM NoneBoundToDeleted == Spec => []DeletedIsUnbound
<1>1. IInv => DeletedIsUnbound
    BY DEF IInv, Promises
<1> QED BY <1>1, WorkerInvariant, PTL

\* A review flag that a cycle has raised outlives the cycles after it - a failed one keeps
\* the flags before it, and drops its own -, changes of vault and restarts until
\* dismiss_flag, but for the folders whose state could not be written or read, or was
\* replaced by a clone's.
THEOREM ReviewFlagsKept == Spec => []FlagsKept
<1>1. IInv => FlagsKept
    BY DEF IInv, Promises
<1> QED BY <1>1, WorkerInvariant, PTL

=============================================================================
