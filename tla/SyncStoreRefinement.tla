------------------------ MODULE SyncStoreRefinement ------------------------
(***************************************************************************)
(* The server's pipeline of separate statements implements the atomic      *)
(* compare-and-swap of VersionedVault: a mutation takes effect at its      *)
(* transaction, a conflict at the read that found the base stale.          *)
(***************************************************************************)
EXTENDS SyncStore

StateOf(pc) ==
    CASE pc = "idle"                    -> "idle"
      [] pc \in Steps \ {"unstage"}     -> "open"
      [] pc \in {"unstage", "applied"}  -> "applied"
      [] pc = "conflict"                -> "conflict"
      [] OTHER                          -> "refused"

CallOf(q) ==
    IF q.pc = "idle"
      THEN [st |-> "idle"]
      ELSE [st |-> StateOf(q.pc), op |-> q.op, vault |-> q.vault, path |-> q.path,
            base |-> q.base, blob |-> q.blob, from |-> q.from]

Abstract == INSTANCE VersionedVault WITH
    Callers <- Requests,
    gone    <- {v \in Vaults : life[v] = "purged"},
    cell    <- entities,
    call    <- [r \in Requests |-> CallOf(req[r])]

\* The store, with its interleaved requests, failures and vault lifecycle,
\* behaves as the atomic versioned vault the protocol describes.
Linearizable == Abstract!Spec
=============================================================================
