--------------------------- MODULE IndexGeneration ---------------------------
(***************************************************************************)
(* The structural index of one repository: how commands of several        *)
(* prowl-agent processes bring it up to date and read it while an editor   *)
(* keeps changing the files (internal/application/project.go, the walks    *)
(* and the indexer of internal/index, the generation of internal/store).   *)
(*                                                                         *)
(* A worker is one goroutine running one command.  A command either starts *)
(* with ensureFresh (a CLI command) or with Refresh (a server that knows   *)
(* the index is stale, `init`, a review) and then reads the index twice    *)
(* under the read guard.  A refresh walks the tree (pre-signature), writes *)
(* a new generation in one SQLite transaction, walks the tree again (post- *)
(* signature), validates every row against the disk, and commits.          *)
(*                                                                         *)
(* Data abstraction: a file's content is a value, its hash is the content  *)
(* (xxhash taken as injective), a signature is the set of entries hashed   *)
(* into it, and a file's symbols, edges and chunks are its row.            *)
(***************************************************************************)
EXTENDS Naturals, FiniteSets

CONSTANTS
    Files,        \* paths the walk may visit (not ignored, not generated)
    Indexable,    \* contents of a detected, allowed language
    Blank,        \* contents the indexer skips: whitespace only, undetected
    Gone,         \* the content of a path that does not exist
    Projects,     \* open project handles, one per operating-system process
    Workers,      \* goroutines that run commands
    Owner,        \* the project handle each worker uses
    Versions,     \* index_version values of the binaries in use
    Version,      \* the index_version of each project's binary
    None,         \* no worker, no file, no version
    StampReuse,   \* may an edit leave an older modification time (cp -p, mv)?
    MaxEdits,     \* bound on edits
    MaxCommands   \* bound on commands started

ASSUME ContentsAssumption ==
    /\ Gone \notin Indexable \cup Blank
    /\ Indexable \cap Blank = {}
ASSUME OwnerAssumption ==
    /\ Owner \in [Workers -> Projects]
    /\ Version \in [Projects -> Versions]
ASSUME NoneAssumption ==
    /\ None \notin Workers
    /\ None \notin Files
    /\ None \notin Versions
ASSUME BoundAssumption ==
    /\ MaxEdits \in Nat
    /\ MaxCommands \in Nat
    /\ StampReuse \in BOOLEAN

Present  == Indexable \cup Blank
Contents == Present \cup {Gone}

\* One line of a source signature: path, modification time and content.
Entry == [file : Files, stamp : Nat, content : Present]
\* One row of the files table with the graph derived from it.
Row == [file : Files, content : Indexable, ver : Versions]

\* What a reader sees of the database.
Generation == [rows : SUBSET Row, sig : SUBSET Entry, ver : Versions \cup {None}]

VARIABLES
    tree,      \* the working tree: content and modification time of each path
    clock,     \* the latest modification time given out
    db,        \* the committed database: rows, cli_sig, index_version, index_state
    tx,        \* the open generation transaction and the rows written in it
    holder,    \* worker with index-refresh.lock exclusively, or None
    readers,   \* workers with index-refresh.lock shared
    gate,      \* refreshGate of each project: the worker in it, or None
    closed,    \* Project.closed
    open,      \* is the project's store still open?
    pc,        \* where each worker is
    body,      \* what it runs under the refresh lock: "refresh" or "vectors"
    walk,      \* its directory walk: paths left, path being read, entries
    attempt,   \* locals of the refresh() call of the lock holder
    view,      \* the generations a reading worker has seen
    started,   \* commands started (bounded by MaxCommands)
    since,     \* history: contents each path has had since the command began
    witness,   \* history: the tree when the committed refresh ended its pre-walk
    published  \* history: has this worker's refresh committed its generation?

disk    == <<tree, clock>>
handles == <<closed, open>>
locks   == <<holder, readers, gate>>
env     == <<disk, handles, started, witness>>
cmd     == <<body, view, since, published>>
vars == <<tree, clock, db, tx, holder, readers, gate, closed, open, pc, body,
          walk, attempt, view, started, since, witness, published>>

Walking    == {"check", "pre", "post"}
Refreshing == {"pre", "index", "post", "validate", "embed", "failed"}
Locked     == Refreshing \cup {"unlock", "unlockErr"}
Gated      == Locked \cup {"flock"}
Guarded    == {"ready", "read", "reread", "done"}
Steps      == {"idle", "check", "version", "state", "gate", "rlock"} \cup Gated \cup Guarded

WalkState ==
    [todo : SUBSET Files, at : Files \cup {None}, stamp : Nat, seen : SUBSET Entry]
AttemptState ==
    [tries : Nat, pre : SUBSET Entry, current : SUBSET Files, base : [Files -> Contents]]

NewWalk   == [todo |-> Files, at |-> None, stamp |-> 0, seen |-> {}]
NoWalk    == [todo |-> {}, at |-> None, stamp |-> 0, seen |-> {}]
NoTx      == [owner |-> None, rows |-> {}]
NoAttempt == [tries |-> 0, pre |-> {}, current |-> {}, base |-> [f \in Files |-> Gone]]

Walked(w) == walk[w].todo = {} /\ walk[w].at = None
ContentOf == [f \in Files |-> tree[f].content]
RowsOf(rows, f) == {r \in rows : r.file = f}
PathsOf(sig) == {e.file : e \in sig}

Goto(w, l) == pc' = [pc EXCEPT ![w] = l]

\* A database that was never indexed, and one a finished refresh left behind.
Unindexed == [rows |-> {}, sig |-> {}, ver |-> None, state |-> "none"]
Indexed(v) ==
    [rows  |-> {[file |-> f, content |-> tree[f].content, ver |-> v] :
                  f \in {g \in Files : tree[g].content \in Indexable}},
     sig   |-> {[file |-> f, stamp |-> tree[f].stamp, content |-> tree[f].content] :
                  f \in {g \in Files : tree[g].content # Gone}},
     ver   |-> v,
     state |-> "complete"]

Init ==
    /\ tree \in [Files -> [content : Contents, stamp : {0}]]
    /\ clock = 0
    /\ db \in {Unindexed} \cup {Indexed(v) : v \in Versions}
    /\ tx = NoTx
    /\ holder = None
    /\ readers = {}
    /\ gate = [p \in Projects |-> None]
    /\ closed = [p \in Projects |-> FALSE]
    /\ open = [p \in Projects |-> TRUE]
    /\ pc = [w \in Workers |-> "idle"]
    /\ body = [w \in Workers |-> "refresh"]
    /\ walk = [w \in Workers |-> NoWalk]
    /\ attempt = NoAttempt
    /\ view = [w \in Workers |-> {}]
    /\ started = 0
    /\ since = [w \in Workers |-> [f \in Files |-> {}]]
    /\ witness = ContentOf
    /\ published = [w \in Workers |-> FALSE]

-----------------------------------------------------------------------------
(* The editor (the environment).                                           *)

\* A write, truncation, creation or removal of one file.  Its modification
\* time is new unless the tool that writes it restores an older one.
Edit(f, c, s) ==
    /\ clock < MaxEdits
    /\ ~(c = Gone /\ tree[f].content = Gone)
    /\ s \in IF StampReuse THEN 0 .. clock + 1 ELSE {clock + 1}
    /\ clock' = clock + 1
    /\ tree' = [tree EXCEPT ![f] = [content |-> c, stamp |-> s]]
    /\ since' = [w \in Workers |->
                   IF pc[w] = "idle" THEN since[w]
                   ELSE [since[w] EXCEPT ![f] = @ \cup {c}]]
    /\ UNCHANGED <<locks, handles, db, tx, started, witness, pc, body, walk, attempt, view, published>>

-----------------------------------------------------------------------------
(* Starting and ending a command.                                          *)

\* The command returns, with an answer or an error; its locals disappear.
Return(w) ==
    /\ Goto(w, "idle")
    /\ body' = [body EXCEPT ![w] = "refresh"]
    /\ walk' = [walk EXCEPT ![w] = NoWalk]
    /\ view' = [view EXCEPT ![w] = {}]
    /\ since' = [since EXCEPT ![w] = [f \in Files |-> {}]]
    /\ published' = [published EXCEPT ![w] = FALSE]

Begin(w) ==
    /\ pc[w] = "idle"
    /\ started < MaxCommands
    /\ open[Owner[w]]
    /\ started' = started + 1
    /\ since' = [since EXCEPT ![w] = [f \in Files |-> {tree[f].content}]]

\* ensureFresh begins with the signature of the tree, without any lock.
StartCommand(w) ==
    /\ Begin(w)
    /\ Goto(w, "check")
    /\ walk' = [walk EXCEPT ![w] = NewWalk]
    /\ UNCHANGED <<locks, disk, handles, db, tx, witness, body, attempt, view, published>>

\* Refresh called directly.
StartRefresh(w) ==
    /\ Begin(w)
    /\ Goto(w, "gate")
    /\ UNCHANGED <<locks, disk, handles, db, tx, witness, body, walk, attempt, view, published>>

-----------------------------------------------------------------------------
(* Walking the tree for a signature.                                       *)

\* The walk reaches f: an absent path is not listed, a present one has its
\* modification time read before its content is.
Visit(w, f) ==
    /\ pc[w] \in Walking
    /\ walk[w].at = None
    /\ f \in walk[w].todo
    /\ walk' = [walk EXCEPT ![w] =
                  [walk[w] EXCEPT !.todo  = @ \ {f},
                                  !.at    = IF tree[f].content = Gone THEN None ELSE f,
                                  !.stamp = IF tree[f].content = Gone THEN 0 ELSE tree[f].stamp]]
    /\ UNCHANGED <<env, cmd, locks, db, tx, pc, attempt>>

\* Mutant of HashEntry: an unreadable file is hashed as if it were empty.
HashEntryUnread(w) ==
    LET f == walk[w].at IN
    /\ pc[w] \in Walking
    /\ f # None
    /\ walk' = [walk EXCEPT ![w] =
                  [walk[w] EXCEPT !.at = None, !.stamp = 0,
                                  !.seen = @ \cup {[file |-> f, stamp |-> walk[w].stamp,
                                              content |-> tree[f].content]}]]
    /\ UNCHANGED <<env, cmd, locks, db, tx, pc, attempt>>

\* The content of the visited file is hashed into its entry.
HashEntry(w) ==
    LET f == walk[w].at IN
    /\ pc[w] \in Walking
    /\ f # None
    /\ tree[f].content # Gone
    /\ walk' = [walk EXCEPT ![w] =
                  [walk[w] EXCEPT !.at = None, !.stamp = 0,
                                  !.seen = @ \cup {[file |-> f, stamp |-> walk[w].stamp,
                                              content |-> tree[f].content]}]]
    /\ UNCHANGED <<env, cmd, locks, db, tx, pc, attempt>>

\* The visited file vanished before it was hashed.  In ensureFresh a failed
\* signature means stale; in refresh it is an error that is not retried.
ScanError(w) ==
    /\ pc[w] \in Walking
    /\ walk[w].at # None
    /\ tree[walk[w].at].content = Gone
    /\ walk' = [walk EXCEPT ![w] = NoWalk]
    /\ IF pc[w] = "check"
       THEN Goto(w, "gate") /\ UNCHANGED <<tx, attempt>>
       ELSE Goto(w, "failed") /\ tx' = NoTx /\ attempt' = NoAttempt
    /\ UNCHANGED <<env, cmd, locks, db>>

-----------------------------------------------------------------------------
(* ensureFresh: is the index current?  No lock is held.                    *)

\* Mutant of ReadSig: ensureFresh trusts index_state and index_version alone.
ReadSigIgnored(w) ==
    /\ pc[w] = "check"
    /\ Walked(w)
    /\ Goto(w, "version")
    /\ walk' = [walk EXCEPT ![w] = NoWalk]
    /\ UNCHANGED <<env, cmd, locks, db, tx, attempt>>

\* cli_sig is read first; it is unset until a generation was committed ...
ReadSig(w) ==
    /\ pc[w] = "check"
    /\ Walked(w)
    /\ Goto(w, IF db.ver # None /\ walk[w].seen = db.sig THEN "version" ELSE "gate")
    /\ walk' = [walk EXCEPT ![w] = NoWalk]
    /\ UNCHANGED <<env, cmd, locks, db, tx, attempt>>

\* ... then index_version ...
ReadVersion(w) ==
    /\ pc[w] = "version"
    /\ Goto(w, IF db.ver = Version[Owner[w]] THEN "state" ELSE "gate")
    /\ UNCHANGED <<env, body, locks, db, tx, walk, attempt, view, since, published>>

\* ... then index_state.  A current index still has its embedding backlog drained
\* under the lock, when there is one.
ReadState(w) ==
    /\ pc[w] = "state"
    /\ \E backlog \in BOOLEAN :
         IF db.state = "complete"
         THEN /\ Goto(w, IF backlog THEN "gate" ELSE "rlock")
              /\ body' = [body EXCEPT ![w] = IF backlog THEN "vectors" ELSE @]
         ELSE /\ Goto(w, "gate")
              /\ UNCHANGED body
    /\ UNCHANGED <<env, locks, db, tx, walk, attempt, view, since, published>>

-----------------------------------------------------------------------------
(* withRefreshLock.                                                        *)

\* A closed project refuses the refresh before it waits for the gate ...
RejectClosed(w) ==
    /\ pc[w] = "gate"
    /\ closed[Owner[w]]
    /\ Return(w)
    /\ UNCHANGED <<env, locks, db, tx, attempt>>

\* Mutant of TakeGate: closed is not checked again behind the gate.
TakeGateUnchecked(w) ==
    /\ pc[w] = "gate"
    /\ gate[Owner[w]] = None
    /\ gate' = [gate EXCEPT ![Owner[w]] = w]
    /\ Goto(w, "flock")
    /\ UNCHANGED <<env, cmd, db, tx, holder, readers, walk, attempt>>

\* ... and again once it has the gate.
TakeGate(w) ==
    /\ pc[w] = "gate"
    /\ gate[Owner[w]] = None
    /\ ~closed[Owner[w]]
    /\ gate' = [gate EXCEPT ![Owner[w]] = w]
    /\ Goto(w, "flock")
    /\ UNCHANGED <<env, cmd, db, tx, holder, readers, walk, attempt>>

\* TryLockContext polls until nobody holds index-refresh.lock in any mode.
TakeRefreshLock(w) ==
    /\ pc[w] = "flock"
    /\ holder = None
    /\ readers = {}
    /\ holder' = w
    /\ IF body[w] = "refresh"
       THEN /\ Goto(w, "pre")
            /\ walk' = [walk EXCEPT ![w] = NewWalk]
            /\ attempt' = [NoAttempt EXCEPT !.tries = 1]
       ELSE /\ Goto(w, "embed")
            /\ UNCHANGED <<walk, attempt>>
    /\ UNCHANGED <<env, cmd, db, tx, readers, gate>>

\* Mutant of GiveUp: a wait for the lock file that is cancelled keeps the gate.
GiveUpWithGate(w) ==
    /\ pc[w] \in {"check", "gate", "flock", "rlock"}
    /\ Return(w)
    /\ UNCHANGED <<env, locks, db, tx, attempt>>

\* The context is cancelled during the first walk, or while the worker waits for
\* the gate or a lock.
GiveUp(w) ==
    /\ pc[w] \in {"check", "gate", "flock", "rlock"}
    /\ gate' = IF pc[w] = "flock" THEN [gate EXCEPT ![Owner[w]] = None] ELSE gate
    /\ Return(w)
    /\ UNCHANGED <<env, db, tx, holder, readers, attempt>>

\* Mutant of Unlock: an error returns before the lock file is unlocked.
UnlockOnSuccess(w) ==
    /\ pc[w] \in {"unlock", "unlockErr"}
    /\ IF pc[w] = "unlock"
       THEN /\ holder' = None
            /\ gate' = [gate EXCEPT ![Owner[w]] = None]
            /\ Goto(w, "rlock")
            /\ UNCHANGED <<body, walk, view, since, published>>
       ELSE Return(w) /\ UNCHANGED <<holder, gate>>
    /\ UNCHANGED <<disk, handles, db, tx, readers, started, witness, attempt>>

\* The lock file is unlocked, then the gate; an error ends the command.
Unlock(w) ==
    /\ pc[w] \in {"unlock", "unlockErr"}
    /\ holder' = None
    /\ gate' = [gate EXCEPT ![Owner[w]] = None]
    /\ IF pc[w] = "unlock"
       THEN Goto(w, "rlock") /\ UNCHANGED <<cmd, walk>>
       ELSE Return(w)
    /\ UNCHANGED <<env, db, tx, readers, attempt>>

-----------------------------------------------------------------------------
(* refresh: one attempt to publish a generation.                           *)

\* Mutant of BeginGeneration: an upgraded binary keeps the rows of the old one.
BeginGenerationUnforced(w) ==
    /\ pc[w] = "pre"
    /\ Walked(w)
    /\ tx.owner = None
    /\ tx' = [owner |-> w, rows |-> db.rows]
    /\ attempt' = [attempt EXCEPT !.pre = walk[w].seen, !.current = {}, !.base = ContentOf]
    /\ walk' = [walk EXCEPT ![w] = NewWalk]
    /\ Goto(w, "index")
    /\ UNCHANGED <<env, cmd, locks, db>>

\* The pre-snapshot is complete: BeginGeneration, and a binary whose
\* index_version differs clears the derived tables first.
BeginGeneration(w) ==
    /\ pc[w] = "pre"
    /\ Walked(w)
    /\ tx.owner = None
    /\ tx' = [owner |-> w, rows |-> IF db.ver # Version[Owner[w]] THEN {} ELSE db.rows]
    /\ attempt' = [attempt EXCEPT !.pre = walk[w].seen, !.current = {}, !.base = ContentOf]
    /\ walk' = [walk EXCEPT ![w] = NewWalk]
    /\ Goto(w, "index")
    /\ UNCHANGED <<env, cmd, locks, db>>

\* A row with the same hash is kept; otherwise the file is parsed and its row,
\* with all that was derived from it, replaced.
Upsert(rows, f, c, v) ==
    IF \E r \in RowsOf(rows, f) : r.content = c
    THEN rows
    ELSE {r \in rows : r.file # f} \cup {[file |-> f, content |-> c, ver |-> v]}

\* The indexer reaches f: an indexable file gets its row, a path that is absent
\* or not indexable is left for the sweep.
IndexFile(w, f) ==
    LET c == tree[f].content IN
    /\ pc[w] = "index"
    /\ f \in walk[w].todo
    /\ walk' = [walk EXCEPT ![w] = [walk[w] EXCEPT !.todo = @ \ {f}]]
    /\ IF c \in Indexable
       THEN /\ attempt' = [attempt EXCEPT !.current = @ \cup {f}]
            /\ tx' = [tx EXCEPT !.rows = Upsert(@, f, c, Version[Owner[w]])]
       ELSE UNCHANGED <<tx, attempt>>
    /\ UNCHANGED <<env, cmd, locks, db, pc>>

\* The attempt ends with ErrSourcesChanged: the deferred Rollback discards the
\* transaction, and only the first of two attempts is tried again.
SourcesChanged(w) ==
    /\ tx' = NoTx
    /\ IF attempt.tries = 1
       THEN /\ Goto(w, "pre")
            /\ walk' = [walk EXCEPT ![w] = NewWalk]
            /\ attempt' = [NoAttempt EXCEPT !.tries = 2]
       ELSE /\ Goto(w, "failed")
            /\ walk' = [walk EXCEPT ![w] = NoWalk]
            /\ attempt' = NoAttempt
    /\ UNCHANGED <<env, cmd, locks, db>>

\* The indexer's walk listed f, and it cannot be read any more.
ListedVanished(w, f) ==
    /\ pc[w] = "index"
    /\ f \in walk[w].todo
    /\ tree[f].content = Gone
    /\ SourcesChanged(w)

\* Rows of files the walk did not find are deleted, references resolved.
FinishIndex(w) ==
    /\ pc[w] = "index"
    /\ walk[w].todo = {}
    /\ tx' = [tx EXCEPT !.rows = {r \in @ : r.file \in attempt.current}]
    /\ walk' = [walk EXCEPT ![w] = NewWalk]
    /\ Goto(w, "post")
    /\ UNCHANGED <<env, cmd, locks, db, attempt>>

\* Mutant of CompareSignatures: validation against the disk is taken as enough.
CompareSignaturesSkipped(w) ==
    /\ pc[w] = "post"
    /\ Walked(w)
    /\ Goto(w, "validate")
    /\ walk' = [walk EXCEPT ![w] = NewWalk]
    /\ UNCHANGED <<env, cmd, locks, db, tx, attempt>>

\* The post-signature must equal the pre-signature.
CompareSignatures(w) ==
    /\ pc[w] = "post"
    /\ Walked(w)
    /\ IF walk[w].seen = attempt.pre
       THEN /\ Goto(w, "validate")
            /\ walk' = [walk EXCEPT ![w] = NewWalk]
            /\ UNCHANGED <<env, cmd, locks, db, tx, attempt>>
       ELSE SourcesChanged(w)

\* ValidateSnapshotWithExpected: a row must equal what is on disk now, and an
\* expected path must be on disk and have a row if it is indexable.
Valid(f) ==
    LET c == tree[f].content IN
    IF RowsOf(tx.rows, f) # {}
    THEN \A r \in RowsOf(tx.rows, f) : r.content = c
    ELSE f \in PathsOf(attempt.pre) => c \in Blank

ValidateFile(w, f) ==
    /\ pc[w] = "validate"
    /\ f \in walk[w].todo
    /\ IF Valid(f)
       THEN /\ walk' = [walk EXCEPT ![w] = [walk[w] EXCEPT !.todo = @ \ {f}]]
            /\ UNCHANGED <<env, cmd, locks, db, tx, pc, attempt>>
       ELSE SourcesChanged(w)

\* cli_sig and index_state are set in the transaction, which then commits.
Commit(w) ==
    /\ pc[w] = "validate"
    /\ walk[w].todo = {}
    /\ db' = [rows |-> tx.rows, sig |-> attempt.pre,
              ver |-> Version[Owner[w]], state |-> "complete"]
    /\ tx' = NoTx
    /\ attempt' = NoAttempt
    /\ walk' = [walk EXCEPT ![w] = NoWalk]
    /\ Goto(w, "embed")
    /\ witness' = attempt.base
    /\ published' = [published EXCEPT ![w] = TRUE]
    /\ UNCHANGED <<locks, disk, handles, started, body, view, since>>

\* Any other error of the attempt (a cancelled context, an I/O error).
RefreshFails(w) ==
    /\ pc[w] \in {"pre", "index", "post", "validate"}
    /\ tx' = NoTx
    /\ attempt' = NoAttempt
    /\ walk' = [walk EXCEPT ![w] = NoWalk]
    /\ Goto(w, "failed")
    /\ UNCHANGED <<env, cmd, locks, db>>

\* The embedding pass on the published store ends; its errors are warnings ...
EmbedDone(w) ==
    /\ pc[w] = "embed"
    /\ Goto(w, "unlock")
    /\ UNCHANGED <<env, cmd, locks, db, tx, walk, attempt>>

\* ... except a cancelled context, which refresh and refreshVectors return.
EmbedCancelled(w) ==
    /\ pc[w] = "embed"
    /\ Goto(w, IF body[w] = "refresh" THEN "failed" ELSE "unlockErr")
    /\ UNCHANGED <<env, cmd, locks, db, tx, walk, attempt>>

\* A refresh that returned an error withholds the index from readers.
MarkIncomplete(w) ==
    /\ pc[w] = "failed"
    /\ db' = [db EXCEPT !.state = "incomplete"]
    /\ Goto(w, "unlockErr")
    /\ UNCHANGED <<env, cmd, locks, tx, walk, attempt>>

\* Writing the mark may itself fail; the error is joined to the first one.
MarkFails(w) ==
    /\ pc[w] = "failed"
    /\ Goto(w, "unlockErr")
    /\ UNCHANGED <<env, cmd, locks, db, tx, walk, attempt>>

-----------------------------------------------------------------------------
(* Reading under the guard.                                                *)

\* Mutant of TakeReadGuard: a read does not wait for a refresh to end.
TakeReadGuardUnlocked(w) ==
    /\ pc[w] = "rlock"
    /\ readers' = readers \cup {w}
    /\ Goto(w, "ready")
    /\ UNCHANGED <<env, cmd, db, tx, holder, gate, walk, attempt>>

TakeReadGuard(w) ==
    /\ pc[w] = "rlock"
    /\ holder = None
    /\ readers' = readers \cup {w}
    /\ Goto(w, "ready")
    /\ UNCHANGED <<env, cmd, db, tx, holder, gate, walk, attempt>>

\* Release of the guard; the command returns.
ReleaseGuard(w) ==
    /\ readers' = readers \ {w}
    /\ Return(w)
    /\ UNCHANGED <<env, db, tx, holder, gate, attempt>>

\* Mutant of RequirePublished: reads are admitted whatever index_state is.
RequirePublishedIgnored(w) ==
    /\ pc[w] = "ready"
    /\ Goto(w, "read")
    /\ UNCHANGED <<env, cmd, locks, db, tx, walk, attempt>>

\* RequirePublishedGeneration fails closed, as does a read of a closed store.
RequirePublished(w) ==
    /\ pc[w] = "ready"
    /\ IF db.state = "complete" /\ open[Owner[w]]
       THEN /\ Goto(w, "read")
            /\ UNCHANGED <<env, cmd, locks, db, tx, walk, attempt>>
       ELSE ReleaseGuard(w)

DbGeneration == [rows |-> db.rows, sig |-> db.sig, ver |-> db.ver]

\* A logical read makes several queries; two are enough to tell them apart.
ReadRows(w) ==
    /\ pc[w] \in {"read", "reread"}
    /\ view' = [view EXCEPT ![w] = @ \cup {DbGeneration}]
    /\ Goto(w, IF pc[w] = "read" THEN "reread" ELSE "done")
    /\ UNCHANGED <<env, locks, db, tx, body, walk, attempt, since, published>>

\* A query that fails ends the read early.
EndRead(w) ==
    /\ pc[w] \in {"read", "reread", "done"}
    /\ ReleaseGuard(w)

-----------------------------------------------------------------------------
(* Project.Close, and the end of a process.                                *)

CloseBegin(p) ==
    /\ ~closed[p]
    /\ closed' = [closed EXCEPT ![p] = TRUE]
    /\ UNCHANGED <<cmd, locks, disk, db, tx, open, started, witness, pc, walk, attempt>>

\* Close takes the gate before it closes the store, then releases it.
CloseStore(p) ==
    /\ closed[p]
    /\ open[p]
    /\ gate[p] = None
    /\ open' = [open EXCEPT ![p] = FALSE]
    /\ UNCHANGED <<cmd, locks, disk, db, tx, closed, started, witness, pc, walk, attempt>>

Mine(p) == {w \in Workers : Owner[w] = p}

\* The process is killed: the kernel drops its locks, SQLite its transaction.
\* A new process opens the project again.
Crash(p) ==
    /\ \E w \in Mine(p) : pc[w] # "idle"
    /\ holder' = IF holder \in Mine(p) THEN None ELSE holder
    /\ readers' = readers \ Mine(p)
    /\ gate' = [gate EXCEPT ![p] = None]
    /\ tx' = IF tx.owner \in Mine(p) THEN NoTx ELSE tx
    /\ attempt' = IF holder \in Mine(p) THEN NoAttempt ELSE attempt
    /\ closed' = [closed EXCEPT ![p] = FALSE]
    /\ open' = [open EXCEPT ![p] = TRUE]
    /\ pc' = [w \in Workers |-> IF w \in Mine(p) THEN "idle" ELSE pc[w]]
    /\ body' = [w \in Workers |-> IF w \in Mine(p) THEN "refresh" ELSE body[w]]
    /\ walk' = [w \in Workers |-> IF w \in Mine(p) THEN NoWalk ELSE walk[w]]
    /\ view' = [w \in Workers |-> IF w \in Mine(p) THEN {} ELSE view[w]]
    /\ since' = [w \in Workers |-> IF w \in Mine(p) THEN [f \in Files |-> {}] ELSE since[w]]
    /\ published' = [w \in Workers |-> w \notin Mine(p) /\ published[w]]
    /\ UNCHANGED <<disk, db, started, witness>>

\* A later process opens a project that was closed.
Reopen(p) ==
    /\ ~open[p]
    /\ \A w \in Mine(p) : pc[w] = "idle"
    /\ closed' = [closed EXCEPT ![p] = FALSE]
    /\ open' = [open EXCEPT ![p] = TRUE]
    /\ UNCHANGED <<cmd, locks, disk, db, tx, started, witness, pc, walk, attempt>>

-----------------------------------------------------------------------------
\* What a worker does by itself once its command runs.
Progress(w) ==
    \/ \E f \in Files : Visit(w, f) \/ IndexFile(w, f) \/ ValidateFile(w, f)
    \/ HashEntry(w) \/ ScanError(w)
    \/ ReadSig(w) \/ ReadVersion(w) \/ ReadState(w)
    \/ RejectClosed(w) \/ TakeGate(w) \/ TakeRefreshLock(w) \/ Unlock(w)
    \/ BeginGeneration(w) \/ FinishIndex(w) \/ CompareSignatures(w) \/ Commit(w)
    \/ EmbedDone(w) \/ MarkIncomplete(w)
    \/ TakeReadGuard(w) \/ RequirePublished(w) \/ ReadRows(w) \/ EndRead(w)

\* What may happen to it.
Fault(w) ==
    \/ \E f \in Files : ListedVanished(w, f)
    \/ GiveUp(w) \/ RefreshFails(w) \/ EmbedCancelled(w) \/ MarkFails(w)

Next ==
    \/ \E f \in Files, c \in Contents, s \in 0 .. MaxEdits : Edit(f, c, s)
    \/ \E w \in Workers : StartCommand(w) \/ StartRefresh(w) \/ Progress(w) \/ Fault(w)
    \/ \E p \in Projects : CloseBegin(p) \/ CloseStore(p) \/ Crash(p) \/ Reopen(p)

Spec == Init /\ [][Next]_vars

\* Goroutines that can run are scheduled, and Close does return; nothing is
\* assumed of the editor, of new commands, of faults or of crashes.
FairSpec ==
    /\ Spec
    /\ \A w \in Workers : WF_vars(Progress(w))
    /\ \A p \in Projects : WF_vars(CloseStore(p))
-----------------------------------------------------------------------------
(* Properties.                                                             *)

TypeOK ==
    /\ tree \in [Files -> [content : Contents, stamp : Nat]]
    /\ clock \in Nat
    /\ db \in [rows : SUBSET Row, sig : SUBSET Entry, ver : Versions \cup {None},
               state : {"none", "incomplete", "complete"}]
    /\ tx \in [owner : Workers \cup {None}, rows : SUBSET Row]
    /\ holder \in Workers \cup {None}
    /\ readers \in SUBSET Workers
    /\ gate \in [Projects -> Workers \cup {None}]
    /\ closed \in [Projects -> BOOLEAN]
    /\ open \in [Projects -> BOOLEAN]
    /\ pc \in [Workers -> Steps]
    /\ body \in [Workers -> {"refresh", "vectors"}]
    /\ walk \in [Workers -> WalkState]
    /\ attempt \in AttemptState
    /\ view \in [Workers -> SUBSET Generation]
    /\ started \in Nat
    /\ since \in [Workers -> [Files -> SUBSET Contents]]
    /\ witness \in [Files -> Contents]
    /\ published \in [Workers -> BOOLEAN]

\* The refresh lock and the gate are held exactly by the workers whose code
\* is between taking and releasing them, whatever order processes crash,
\* give up, fail and retry in: no lock is leaked and none is released early.
LockDiscipline ==
    /\ \A w \in Workers : holder = w <=> pc[w] \in Locked
    /\ \A w \in Workers : w \in readers <=> pc[w] \in Guarded
    /\ \A w \in Workers : gate[Owner[w]] = w <=> pc[w] \in Gated

\* While a worker mutates the derived index no other worker mutates it and
\* none is inside a logical read (withRefreshLock, generationReadGuard).
MutationIsExclusive ==
    \A w, v \in Workers :
        pc[w] \in Locked =>
            /\ pc[v] \notin Guarded
            /\ v # w => pc[v] \notin Locked

\* All queries of one logical read see the same generation, although
\* refreshes of other processes commit at any time (store.ReadGuard).
ReadsOneGeneration ==
    \A w \in Workers : Cardinality(view[w]) <= 1

\* What an index derived from content c holds for its file.
Shown(c) == IF c \in Indexable THEN {c} ELSE {}
Held(rows, f) == {r.content : r \in RowsOf(rows, f)}

\* The files of a published generation existed together: every path in its
\* signature has, in the generation, the content it had at one instant of the
\* refresh (the end of its pre-walk), although both walks, the parsing and
\* the validation read the files one by one while they are edited.
GenerationCoexisted ==
    ~StampReuse =>
        \A e \in db.sig :
            /\ witness[e.file] = e.content
            /\ Held(db.rows, e.file) = Shown(e.content)

\* Every row of a published generation was derived by the binary version the
\* generation is published under: an upgrade re-parses unchanged files too,
\* and two binaries of different versions never mix their rows.
PublishedSingleVersion ==
    \A r \in db.rows : r.ver = db.ver

\* What a command answers about a file that exists for as long as the command
\* runs is a content the file has had meanwhile, although ensureFresh compares
\* signatures without a lock and other processes publish until the guard is
\* taken.  A path that is absent for a moment has no modification time to
\* compare: removed and restored between two walks it may be answered as gone
\* or as it never was together with the rest.
PresentAnswerFresh ==
    ~StampReuse =>
        \A w \in Workers : \A f \in Files :
            pc[w] = "done" /\ Gone \notin since[w][f] =>
                \A g \in view[w] : \E c \in since[w][f] : Held(g.rows, f) = Shown(c)

\* No worker is inside the refresh lock on a store that Close has closed,
\* however Close races with refreshes queued on the gate.
StoreOpenWhileLocked ==
    \A w \in Workers : pc[w] \in Locked => open[Owner[w]]

\* Every command ends, with an answer or an error: gate, exclusive lock and
\* shared lock are always released and the attempts to refresh are bounded.
EveryCommandEnds ==
    \A w \in Workers : pc[w] # "idle" ~> pc[w] = "idle"

\* The index implements PublishedIndex: a committed generation replaces the
\* previous one as a whole while no logical read is under way, and is only
\* readable when no later refresh failed.  A generation may be published when
\* its rows come from one binary and agree with its signature.
ConsistentGeneration(g) ==
    /\ \A r \in g.rows : r.ver = g.ver
    /\ ~StampReuse => \A e \in g.sig : Held(g.rows, e.file) = Shown(e.content)

Published == INSTANCE PublishedIndex WITH
    Readers    <- Workers,
    Consistent <- ConsistentGeneration,
    gen        <- DbGeneration,
    available  <- db.state = "complete",
    reading    <- {w \in Workers : pc[w] \in {"read", "reread", "done"}},
    seen       <- view

PublishesAtomically == Published!Spec
=============================================================================
