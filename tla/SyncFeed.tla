------------------------------ MODULE SyncFeed ------------------------------
(***************************************************************************)
(* The change feed over the store: GET /vaults/:id/changes?since=N         *)
(* (store.rs, changes_since).  The answer is put together from TWO         *)
(* statements, the rows past N and then the vault's sequence as the next   *)
(* cursor, each seeing what is committed when it runs.  Mutations commit   *)
(* in between.                                                             *)
(***************************************************************************)
EXTENDS SyncStore

CONSTANTS
    Readers,     \* devices following a vault
    Follows      \* the vault each of them follows

ASSUME FollowsAssumption == Follows \in [Readers -> Vaults]

VARIABLE feed    \* per reader: its cursor, what it knows, its request in flight

feedVars == <<vars, feed>>

\* known: the version of each path the device has been told; page: the rows of
\* the answer being built.  Two history fields serve the properties: at, the
\* sequence when the rows were read; raced, the sequence numbers given to
\* mutations between the two statements of an answer.
Reader == [pc : {"idle", "rows"}, cursor : Nat, known : [Paths -> Nat],
           page : [Paths -> Nat], at : Nat, raced : SUBSET Nat]

Nothing == [p \in Paths |-> 0]

FeedTypeOK == feed \in [Readers -> Reader]

FeedInit ==
    /\ Init
    /\ feed = [d \in Readers |-> [pc |-> "idle", cursor |-> 0, known |-> Nothing,
                                  page |-> Nothing, at |-> 0, raced |-> {}]]

\* Mutant: an off-by-one in the feed's filter.
ChangedSince_Skips(v, since) == {p \in Paths : entities[v][p].seq > since + 1}

\* Mutant: the feed leaves tombstones out.
ChangedSince_LiveOnly(v, since) ==
    {p \in Paths : entities[v][p].seq > since /\ ~entities[v][p].deleted}

ChangedSince(v, since) == {p \in Paths : entities[v][p].seq > since}

\* The first statement: the rows whose latest sequence is past the cursor.
ReadRows(d) ==
    LET v == Follows[d]
    IN  /\ feed[d].pc = "idle"
        /\ life[v] = "live"
        /\ feed' = [feed EXCEPT
              ![d].pc = "rows",
              ![d].at = seq[v],
              ![d].page = [p \in Paths |->
                  IF p \in ChangedSince(v, feed[d].cursor) THEN entities[v][p].version ELSE 0]]
        /\ UNCHANGED vars

\* What the device does with the answer: it adopts every version on the page.
Adopt(known, page) == [p \in Paths |-> IF page[p] = 0 THEN known[p] ELSE page[p]]

\* The second statement: the vault's current sequence becomes the cursor.
ReadCursor(d) ==
    LET v == Follows[d]
    IN  /\ feed[d].pc = "rows"
        /\ life[v] # "purged"
        /\ feed' = [feed EXCEPT
              ![d].pc = "idle",
              ![d].cursor = seq[v],
              ![d].known = Adopt(feed[d].known, feed[d].page),
              ![d].raced = @ \cup (feed[d].at + 1 .. seq[v]),
              ![d].page = Nothing,
              ![d].at = 0]
        /\ UNCHANGED vars

\* The answer is lost, or the vault is purged under the second statement: the
\* device keeps its cursor and asks again.
FeedFails(d) ==
    /\ feed[d].pc = "rows"
    /\ feed' = [feed EXCEPT ![d].pc = "idle", ![d].page = Nothing, ![d].at = 0]
    /\ UNCHANGED vars

FeedNext ==
    \/ Next /\ UNCHANGED feed
    \/ \E d \in Readers : ReadRows(d) \/ ReadCursor(d) \/ FeedFails(d)

FeedSpec == FeedInit /\ [][FeedNext]_feedVars

----------------------------------------------------------------------------
Behind(d, p) ==
    LET row == entities[Follows[d]][p]
    IN  row.seq <= feed[d].cursor /\ feed[d].known[p] # row.version

Followed(d) == life[Follows[d]] # "purged"

\* sync-proto lib.rs:87 "every path with `seq > N`, plus the new cursor": a
\* device knows every change its cursor covers.
FeedComplete ==
    \A d \in Readers, p \in Paths : Followed(d) => ~Behind(d, p)

\* What does hold: a change the cursor covers and the device does not know was
\* committed between the two statements of one of its own answers.  Nothing
\* else - an abort, a failed answer, a move, a delete - loses a change.
FeedLosesOnlyRaces ==
    \A d \in Readers, p \in Paths :
        Followed(d) /\ Behind(d, p) =>
            entities[Follows[d]][p].seq \in feed[d].raced

\* store.rs:303 "the two ride the feed as one move": outside that race, a
\* device that was told where an entity moved was also told to drop the place
\* it left, or something newer there.
MovesArriveWhole ==
    \A d \in Readers : Followed(d) =>
        \A g, h \in versions[Follows[d]] :
            (g.seq = h.seq /\ MovePair(g, h) /\ g.seq \notin feed[d].raced)
                => (feed[d].known[g.path] >= g.version => feed[d].known[h.path] >= h.version)
=============================================================================
