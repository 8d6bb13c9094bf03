---------------------------- MODULE VectorBacklog ----------------------------
(***************************************************************************)
(* The embeddings of the index: internal/index/embed.go over               *)
(* internal/store/vectors.go.  Vectors are a cache of the published chunks *)
(* that no generation transaction protects: a pass writes the model's name *)
(* and one vector after the other, each durable by itself, and may end     *)
(* anywhere - cancelled, out of budget, with an error, killed.  The next   *)
(* pass, of a process that may run another model, goes on from there.      *)
(* Passes and refreshes of all processes exclude each other by the refresh *)
(* lock (IndexGeneration).                                                 *)
(*                                                                         *)
(* A chunk's id is a rowid without AUTOINCREMENT: SQLite gives the largest *)
(* one in use plus one, so the id of a deleted chunk comes back.           *)
(***************************************************************************)
EXTENDS Naturals, FiniteSets, Sequences, FiniteSetsExt, Functions

CONSTANTS Processes, Models, ModelOf,   \* ModelOf \in [Processes -> Models]
          ChunkFiles, MaxChunks,        \* a file has at most MaxChunks chunks
          Window, Batch,                \* chunks per query and per model call
          MaxCommits,                   \* bound of the runs
          Unset, BlankText              \* BlankText is the text of a content-free chunk

ASSUME UnsetIsNoProcess == Unset \notin Processes

VARIABLES chunk,     \* [id -> [file, text]] of the rows
          table,     \* vec_chunks exists
          vector,    \* [id -> [text, model]] of its rows
          model,     \* embed_model
          complete,  \* vectors_complete
          commits,
          lock,      \* the process in a pass
          pass       \* where it is

backlogVars == <<chunk, table, vector, model, complete, commits, lock, pass>>

Idle == [pc |-> "idle", pending |-> {}, batch |-> {}]

BacklogInit ==
    /\ chunk = <<>> /\ vector = <<>>
    /\ table = FALSE /\ model = Unset /\ complete = FALSE
    /\ commits = 0
    /\ lock = Unset /\ pass = Idle

Ids       == DOMAIN chunk
IdsOf(f)  == {i \in Ids : chunk[i].file = f}
HasText(i) == chunk[i].text # BlankText
(* With no table every chunk still needs a vector. *)
Outstanding == {i \in Ids : HasText(i) /\ i \notin DOMAIN vector}
-----------------------------------------------------------------------------
(* The rows of file f as a refresh leaves them: new ids for all of it. *)
Replaced(rows, f, texts) ==
    LET kept == {i \in DOMAIN rows : rows[i].file # f}
        base == IF kept = {} THEN 0 ELSE Max(kept) IN
    [i \in kept \cup (base + 1)..(base + Len(texts)) |->
        IF i \in kept THEN rows[i] ELSE [file |-> f, text |-> texts[i - base]]]

NewTexts == UNION {[1..n -> {commits + 1, BlankText}] : n \in 0..MaxChunks}

(* Mutant of CommitFile: the vectors of the replaced chunks stay. *)
CommitKeepingVectors(f) ==
    /\ lock = Unset /\ commits < MaxCommits
    /\ \E texts \in NewTexts : chunk' = Replaced(chunk, f, texts)
    /\ commits' = commits + 1
    /\ UNCHANGED <<table, vector, model, complete, lock, pass>>

(* A generation that replaced or deleted one file: ReplaceFileGraph and     *)
(* DeleteFile drop the vectors of the chunks they delete, in the same       *)
(* transaction.  vectors_complete is left as it was.                        *)
CommitFile(f) ==
    /\ lock = Unset /\ commits < MaxCommits
    /\ \E texts \in NewTexts : chunk' = Replaced(chunk, f, texts)
    /\ vector' = Restrict(vector, DOMAIN vector \ IdsOf(f))
    /\ commits' = commits + 1
    /\ UNCHANGED <<table, model, complete, lock, pass>>

(* A generation of another index version: ResetDerived, then the files. *)
CommitReset ==
    /\ lock = Unset /\ commits < MaxCommits
    /\ \E f \in ChunkFiles, texts \in NewTexts : chunk' = Replaced(<<>>, f, texts)
    /\ vector' = <<>> /\ table' = FALSE /\ complete' = FALSE
    /\ commits' = commits + 1
    /\ UNCHANGED <<model, lock, pass>>
-----------------------------------------------------------------------------
(* One pass: refreshVectors, BuildSemanticIndex, or the end of a refresh *)

(* refreshVectors counts before it takes the lock and may find nothing to   *)
(* do; the other two always begin a pass.                                   *)
BeginPass(p) ==
    /\ lock = Unset
    /\ lock' = p
    /\ pass' = [Idle EXCEPT !.pc = "unmark"]
    /\ UNCHANGED <<chunk, table, vector, model, complete, commits>>

At(p, pc)  == lock = p /\ pass.pc = pc
GoTo(pc)   == pass' = [pass EXCEPT !.pc = pc]
Rows       == UNCHANGED <<chunk, commits, lock>>

(* Mutant of Unmark: a table of any model is dropped. *)
UnmarkDropping(p) ==
    /\ At(p, "unmark")
    /\ complete' = FALSE
    /\ GoTo(IF table THEN "drop" ELSE "claim")
    /\ UNCHANGED <<table, vector, model>> /\ Rows

(* The mark is taken back; vectors of another model have to go. *)
Unmark(p) ==
    /\ At(p, "unmark")
    /\ complete' = FALSE
    /\ GoTo(IF table /\ model # ModelOf[p] THEN "drop" ELSE "claim")
    /\ UNCHANGED <<table, vector, model>> /\ Rows

(* ResetVectors: three statements, each committed by itself. *)
DropTable(p) ==
    /\ At(p, "drop")
    /\ table' = FALSE /\ vector' = <<>>
    /\ GoTo("forget")
    /\ UNCHANGED <<model, complete>> /\ Rows

Forget(p) ==
    /\ At(p, "forget")
    /\ model' = Unset
    /\ GoTo("claim")
    /\ UNCHANGED <<table, vector, complete>> /\ Rows

Claim(p) ==
    /\ At(p, "claim")
    /\ model' = ModelOf[p]
    /\ GoTo("prune")
    /\ UNCHANGED <<table, vector, complete>> /\ Rows

PruneContentFree(p) ==
    /\ At(p, "prune")
    /\ vector' = Restrict(vector, {i \in DOMAIN vector : i \in Ids => HasText(i)})
    /\ GoTo("window")
    /\ UNCHANGED <<table, model, complete>> /\ Rows

(* W is the first n of the ids in S. *)
IsFirst(W, S, n) ==
    /\ W \subseteq S /\ Cardinality(W) = Min({n, Cardinality(S)})
    /\ \A i \in W, j \in S \ W : i < j

ReadWindow(p) ==
    /\ At(p, "window")
    /\ \E W \in SUBSET Outstanding :
          /\ IsFirst(W, Outstanding, Window)
          /\ pass' = [pass EXCEPT !.pending = W, !.pc = IF W = {} THEN "count" ELSE "embed"]
    /\ UNCHANGED <<table, vector, model, complete>> /\ Rows

(* The model answers for a batch. *)
Embed(p) ==
    /\ At(p, "embed")
    /\ \E B \in SUBSET pass.pending :
          /\ IsFirst(B, pass.pending, Batch)
          /\ pass' = [pass EXCEPT !.batch = B, !.pending = @ \ B,
                                  !.pc = IF table THEN "upsert" ELSE "create"]
    /\ UNCHANGED <<table, vector, model, complete>> /\ Rows

(* EnableVectors: the table, then embed_dim and embed_model again. *)
EnableVectors(p) ==
    /\ At(p, "create")
    /\ table' = TRUE
    /\ GoTo("name")
    /\ UNCHANGED <<vector, model, complete>> /\ Rows

NameModel(p) ==
    /\ At(p, "name")
    /\ model' = ModelOf[p]
    /\ GoTo("upsert")
    /\ UNCHANGED <<table, vector, complete>> /\ Rows

UpsertVector(p) ==
    /\ At(p, "upsert")
    /\ \E i \in pass.batch :
          /\ IsFirst({i}, pass.batch, 1)
          /\ vector' = [j \in DOMAIN vector \cup {i} |->
                          IF j = i THEN [text |-> chunk[i].text, model |-> ModelOf[p]]
                          ELSE vector[j]]
          /\ pass' = [pass EXCEPT !.batch = @ \ {i}]
    /\ UNCHANGED <<table, model, complete>> /\ Rows

EndBatch(p) ==
    /\ At(p, "upsert") /\ pass.batch = {}
    /\ GoTo(IF pass.pending = {} THEN "window" ELSE "embed")
    /\ UNCHANGED <<table, vector, model, complete>> /\ Rows

(* Also the end of a pass whose budget is spent. *)
Finish(p) ==
    /\ \/ At(p, "count")
       \/ At(p, "window") \/ At(p, "embed")
    /\ complete' = (Outstanding = {} \/ complete)
    /\ lock' = Unset /\ pass' = Idle
    /\ UNCHANGED <<chunk, table, vector, model, commits>>

(* An error, a cancellation or a kill, between any two statements. *)
Abort(p) ==
    /\ lock = p
    /\ lock' = Unset /\ pass' = Idle
    /\ UNCHANGED <<chunk, table, vector, model, complete, commits>>

BacklogNext ==
    \/ \E f \in ChunkFiles : CommitFile(f)
    \/ CommitReset
    \/ \E p \in Processes :
          \/ BeginPass(p) \/ Unmark(p) \/ DropTable(p) \/ Forget(p) \/ Claim(p)
          \/ PruneContentFree(p) \/ ReadWindow(p) \/ Embed(p) \/ EnableVectors(p)
          \/ NameModel(p) \/ UpsertVector(p) \/ EndBatch(p) \/ Finish(p) \/ Abort(p)

BacklogSpec == BacklogInit /\ [][BacklogNext]_backlogVars
-----------------------------------------------------------------------------
(* Every stored vector is the one of the chunk that has its id now, by the  *)
(* model embed_model names: ids come back after a deletion, models change,  *)
(* and a pass may have ended between any two of its statements              *)
(* (embed.go:52-130, vectors.go:66-80, files.go:115).                       *)
VectorsMatch ==
    \A i \in DOMAIN vector :
        table /\ i \in Ids /\ vector[i] = [text |-> chunk[i].text, model |-> model]

(* What a pass has embedded stays, however the pass ended: a vector goes    *)
(* only with its chunk, with a new index version, or because a process of   *)
(* another model takes over.  Without it a large repository would never be  *)
(* embedded (embed.go:41-45, project.go:370-378).                           *)
ProgressKept ==
    [][\A i \in DOMAIN vector \ DOMAIN vector' :
         \/ commits' # commits
         \/ lock # Unset /\ ModelOf[lock] # vector[i].model]_backlogVars
=============================================================================
