# prowl-agent in TLA+

Models, model checks and machine-checked proofs of prowl-agent: the structural
index that several processes refresh and read while files change under them, the
graph, the searches and the context packets that are answered from it, the
long-running servers, the planning, storing and checking of code reviews, the
bundle of knowledge documents, the two installers, and the evaluation of reviews.

Paths below are relative to `src/`; `review/x.go` is short for
`internal/review/x.go`, and likewise for the other packages.

## 1. The system and its parts

prowl-agent answers questions of coding agents about one repository.  It keeps a
SQLite index of files, symbols, edges and text chunks, refreshes it before a
question is answered, plans and checks code reviews, and maintains a bundle of
knowledge documents that humans accept or reject changes to.  There is no
daemon: CLI commands, MCP servers (`serve`) and language servers (`lsp`) are
separate processes on one working tree.  They coordinate through the file
system only: lock files (flock), SQLite transactions, renames.

| Part | State it keeps | Operations | Talks to |
|---|---|---|---|
| **Index refresh and generations** (`application/project.go`, `store/store.go`) | database (`files` and what is derived, `cli_sig`, `index_version`, `index_state`), `index-refresh.lock`, `refreshGate`, `closed` | `ensureFresh`, `Refresh`, `refreshWithProgress`, `refreshVectors`, read guard, `Close` | walks, indexer, store; editor and other processes through disk and database |
| **Source walks and indexer** (`index/walk.go`, `index.go`) | rows of the open transaction | signature walk, per-file keep/replace/skip, sweep, validation of the snapshot | disk, store |
| **Embedding backlog** (`index/embed.go`, `store/vectors.go`) | vectors, the model's name, `vectors_complete` | `BuildVectors` in windows and batches under a budget, `VectorsComplete` | refresh |
| **Graph resolution** (`graph/resolve.go`) | the edges' targets | one resolution of all references after each refresh | rows of the transaction |
| **Queries, searches, context** (`query/`, `store/`, `context/`) | the guard held during one answer | graph queries, definitions and spans, outlines, ranked search, packets under a budget | store, read guard, the files on disk |
| **Freshness** (`cli/freshness.go`, `index/watch.go`) | `dirty`, `cancel`, `watcherID`, `last`, watcher and idle goroutines | `start`, `onCall`, `stop`, `Watch` | Refresh, fsnotify, MCP requests |
| **Language server** (`lsp/server.go`, `cli/lsp.go`) | refresh ids, index health, open documents, shown diagnostics | read loop, watcher, Begin/CompleteIndexRefresh, publishing | Refresh, reads |
| **Review planning** (`review/service.go`, `capture.go`, `snapshot.go`, `git.go`, `diff.go`, `cohorts.go`, `plan.go`) | the snapshot of a head; none between calls | two captures around one index view, one retry; head view; Git commands; packing of hunks into units | Git, index, plan store |
| **Review checks and units** (`review/unit.go`, `check.go`, `identity.go`, `persist.go`) | the stored bundle of a plan | packets, the check of a report, verification of a bundle | plan store, workspace |
| **Review plan store** (`review/persist.go`) | one directory per review in the Git common directory, `.lock`, striped review locks, leases, temporary trees | `Save`, `LockReview`, `Load`, `Prune`, `Release` | linked worktrees and processes |
| **Knowledge decisions** (`knowledge/decision*.go`, `proposal.go`, `cli/knowledge.go`) | inbox (records, candidates, journals), bundle documents, `index.md`, `log.md`, `.decision.lock` | `Propose`, `Describe`, `Decide` (recover, accept, reject, roll back) | CLI, editors |
| **Knowledge repository** (`knowledge/`) | documents, anchors, the owned block of `index.md`, index rows | parse and write, lint, repair, sync | editors, decisions, source files |
| **Setup service** (`setup/service.go`) | agents' configuration files, directories, journal, replay records, lock | `Plan`, `Apply`, recovery, rollback, `RemoveIntegrations` | CLI, the user |
| **User installer** (`setup/user_skills.go`) | assets in the home directory, one ownership manifest, state lock | plan, apply, undo | other versions and clients |
| **Evaluation** (`internal/revieweval`, `cmd/review-eval`) | frozen protocol, prepared corpora, trials, adjudications, reports | prepare, collect, adjudicate, score | remotes, annotators |
| MCP handlers, parsers, embedding model, assistants, documentation ingest, agent evaluation, self update, workspace and configuration, doctor/redaction/bounded I/O, command line | mostly none between calls | pure computation, rendering, file and network I/O | the parts above |

`PROJECT.json` lists all of them, with the reason for each part left out.

**What is hard in it.**  Interleaving (files change between a walk, a parse and a
validation; freshness is decided before the read guard is taken; watches are
registered while a re-index runs; a checkout moves under a capture), atomicity
over several files (three bundle files and a record; an install over many
destinations; a review directory removed entry by entry), crashes between any two
steps of these, failures of the failure handling itself (a restore that fails, a
rename that succeeded but reports an error), locks held across retries and
`Close`, answers that complete out of order, retention and budgets at a limit, and
liveness of commands under an editor that never stops.  Each is a row of `hazards`
in `PROJECT.json`, at its line.

**What makes each part correct.**

- *Index*: a published generation is a state the tree was in, from one binary
  version; it is replaced as a whole; a logical read sees one of them; what is
  answered was true during the command; locks are neither leaked nor released
  early; every command ends.  A vector belongs to the text and model it is stored
  for.  A graph kept up incrementally is the one an index from nothing would have.
- *Answers*: what is told of the graph, a file or a symbol is what rows and files
  say; a search returns what was found, in the order it earned; a packet keeps to
  its budget and says what it left out.
- *Servers*: when the index is stale the server knows; an answer includes what was
  flagged before the request; watchers do not accumulate; `stop` joins; the health
  is that of the newest refresh; diagnostics never go back.
- *Reviews*: a plan describes one instant and partitions the change; using it means
  the workspace is still the planned one; a report accepted as complete answers for
  all of it with anchored evidence; a plan in use is not removed, the only copy of a
  snapshot is not lost, the id domain stays free of collisions, retention removes
  nothing else; a stored bundle is the plan its identity names.
- *Knowledge*: a decision is final; an answer is what the record says and the text
  accepted is the one reviewed; an acceptance is all or nothing; edits by hand
  survive; what lint and repair say of anchors is what the source holds.
- *Installers*: a setup either happened or did not, is recorded once and answered
  truthfully; an install neither loses foreign bytes nor others' records, and leaves
  no trace when it fails.
- *Evaluation*: what is credited is what adjudicators accepted of the trials the
  report names; what preparation reports is accounted for by true reasons.

## 2. Modules

| Module | Models | Kind |
|---|---|---|
| `IndexGeneration` | one shared index: workers of several processes, editor, crashes, `Close` | state machine |
| `PublishedIndex` | what the index promises readers | abstract specification |
| `VectorBacklog` | embedding passes over the published chunks | state machine |
| `GraphResolution` | which file a reference names; the graph across incremental refreshes | state machine |
| `GraphQueries`, `SourceText`, `SearchRanking`, `ContextPacking` | what is answered of the graph, of one file, of a search, as a packet | algorithms against definitions |
| `Freshness` | requests, watchers, idle suspension of the MCP server | state machine |
| `LanguageServer` | read loop, watcher, refresh ids, diagnostics | state machine |
| `ReviewPlanning` | `Plan` and the uses of a plan against an editor | state machine |
| `ReviewCapture`, `HeadView`, `GitCommand`, `PatchText` | one capture; the view of a head; one Git command; the patch parser | state machines |
| `ReviewPlan`, `ReviewReport` | cohorts, packing and coverage; the check of a report | algorithms; state machine |
| `PlanArtifacts` | the stored bundle and what binds it | state machine |
| `PlanStore` | savers, readers, pruners of the plan store | state machine |
| `KnowledgeDecision`, `KnowledgeBundle` | decisions; documents, anchors and the owned block | state machines |
| `SetupTransaction`, `UserInstall` | the two installers | state machines |
| `EvaluationRules`, `Evaluation` | the protocol; the scorer; one output directory | algorithms; state machine |
| `CorpusRules`, `CorpusPreparation` | the pure part of preparation; its runs | algorithms; state machine |
| `IndexGenerationProofs`, `VectorBacklogProofs`, `PlanStoreProofs`, `ReviewPlanningProofs`, `ReviewCaptureProofs`, `KnowledgeDecisionProofs` | theorems about the module they are named after | TLAPS |
| `ServerProofs` | theorems about `Freshness` and `LanguageServer` | TLAPS |
| `InstallerProofs` | theorems about `SetupTransaction` and `UserInstall` | TLAPS |
| `MCIndexGeneration`, `MCIndex`, `MCServers`, `MCReview`, `MCKnowledgeDecision`, `MCInstallers`, `MCEvaluation` | values of the constants, and the composition of what is checked together | TLC |

**How they compose.**  `IndexGeneration` instantiates `PublishedIndex` under a
refinement mapping (`Published == INSTANCE ... WITH`).  What it establishes is what
the others stand on: that a refresh is atomic, so `Freshness`, `LanguageServer`,
`GraphResolution` and `ReviewPlanning` have it as one or two steps (`Capture` and
`Publish` are its two ends); that passes and refreshes exclude each other, so
`VectorBacklog` explores its passes one at a time; that a read sees one generation,
so the four answer modules ask one graph, one file or one list.  In the review,
`GitCommand` shows that an answer of Git is whole or an error, which `ReviewCapture`
and `HeadView` take; a capture taken as one value is what `ReviewPlan` packs,
`ReviewReport` checks and `PlanArtifacts` stores; `ReviewPlanning` puts captures,
index and sources together over time; and `PlanStore` keeps the result, one digest
per plan.  `KnowledgeBundle` has a decision as one step, which `KnowledgeDecision`
takes apart.  `CorpusPreparation` makes what `Evaluation` runs on, which judges
the answers the other modules describe (`MCEvaluation` checks both).

An `MC` module with several parts chooses one at the start of a behaviour (`which`)
and leaves the others at their initial values: the parts share no state, or one of
them is a step of the other, so a product would only multiply what is checked apart.
Parts about which theorems are proved are composed with EXTENDS, so that a run and a
theorem speak of one definition (`MCServers`, `MCIndex`, `MCInstallers`, and
`PlanStore` and `ReviewPlanning` in `MCReview`); their operators have names of their
own for it (`EditorNext`, `BacklogNext`, `PlanningNext`, `UserNext`).  The others are
instantiated.

### IndexGeneration

A worker is a goroutine that runs one command; `Owner` says which process
(project handle) it belongs to and `Version` which binary that is.

| State | Code |
|---|---|
| `tree`, `clock` | the files and their modification times |
| `db` | `files` rows with their graph, `cli_sig`, `index_version`, `index_state` |
| `tx` | the generation transaction (`store.go` BeginGeneration/Commit) |
| `holder`, `readers` | `index-refresh.lock`, exclusive and shared |
| `gate`, `closed`, `open` | `Project.refreshGate`, `closed`, the store handle |
| `pc`, `body`, `walk`, `attempt`, `view` | the locals of `ensureFresh`, `withRefreshLock`, `refresh`, the walk, a logical read |
| `since`, `witness`, `published`, `started` | history variables and the command bound |

Actions follow the code in order.  `Visit`, `HashEntry`, `ScanError` are
one walk (`walk.go`; the modification time is read before the content, so they
are two steps).  `ReadSig`, `ReadVersion`, `ReadState` are the lock-free
comparison of `ensureFresh`, one step for each value read.  `TakeGate`, `RejectClosed`, `TakeRefreshLock`, `GiveUp`, `Unlock`
are `withRefreshLock`.  `BeginGeneration`, `IndexFile`, `ListedVanished`,
`FinishIndex`, `CompareSignatures`, `ValidateFile`, `Commit`, `RefreshFails`,
`EmbedDone`, `EmbedCancelled`, `MarkIncomplete`, `MarkFails` are `refresh` and
`refreshWithProgress` with the one retry.  `TakeReadGuard`, `RequirePublished`,
`ReadRows`, `EndRead` are a guarded read of two queries.  `CloseBegin`,
`CloseStore` are `Close`; `Crash`, `Reopen` a process that dies and a new one.
A hash is the content it is taken of, a signature the set of its entries, what is
parsed from a file its row, and the embedding pass one step under the lock.

### VectorBacklog and GraphResolution

`VectorBacklog` takes the embedding pass apart: `BeginPass` .. `PruneContentFree` reset
what belongs to another model, `ReadWindow`, `Embed`, `UpsertVector`, `EndBatch` are the
windows and batches of `BuildVectors`, `Finish` and `Abort` its ends; `CommitFile` is a
refresh that replaces a file's chunks, whose ids SQLite hands out again.
`GraphResolution` has one action per refresh (`Refresh`: the rows of changed files
are replaced, then every pass of `resolve.go` runs over the whole edge table) and
`Edit`, and says which file each form of reference names.

### GraphQueries, SourceText, SearchRanking, ContextPacking

The algorithms that answer a question, each beside the definition it must agree
with: a breadth-first search with its cut-offs against reachability, chunk
boundaries against the text they must cover, the fusion of ranked lists against
the order each list had, a packing loop against the budget and the omissions it
reports.  `SourceText` reads the rows' line numbers on bytes that have changed
since, with an outcome of its own for a slice out of range (`DocPanics`); `GraphQueries` lets a refresh come between two questions.  Engines (full text,
vectors, parser, models) are external: any answer they may give is an input.

### Freshness and LanguageServer

`dirty`, `running`, `watcherID` are the fields of `freshness` (every access under
`f.mu` is one step), `watchers` the two goroutines per id (`Watch` and the idle
loop), `callGate` the gate of `onCall`.  The tree is the number of its edits, the
index the number of the edit it reflects.  The debounce delay and the idle period
are left to the steps that end them (`TimerFires`, `IdlePasses`).  In
`LanguageServer` the tasks are the read loop and the watcher: `Refresh` reserves an
id and refreshes, `Complete` applies the outcome unless a later id was given,
`RepublishOpen` copies the list of open documents, `Compute` and `Send` publish under
the read guard.

### The review

`ReviewPlanning` is `Plan` (`Resolve`, `Capture`, `Refresh`, `ReadSignature`,
`OpenView`, `Assemble`, `Decide`, with the single retry) and the two uses of a plan
(`StartUse`, `Compare`, `ValidateReport`), among `Edit`, `MoveHead` and
`OtherRefresh`.  The files a call has still to read are a set, of which it takes the
first (`IsFirst`: the pass, then the name), and so are the changes of a capture
(`Earlier`: those Git tracks first).  `ReviewCapture` takes `Capture` apart into the
system calls made for each path, `HeadView` the materialization of a committed head and
the reading of single sources, `GitCommand` one call of Git with its watcher goroutine,
bounded sinks and exit status, `PatchText` the patch parser, line by line.  `ReviewPlan` is the pure
part: roles, cohorts, layers, the packing of hunks into units, audits and coverage.
In `ReviewReport` a reviewer writes an honest report and slips, in its receipts or in a
finding; `Check` is `check.go`, from the bounds it enforces before it looks anything up to
the combinations its answer may be, and `deriveReceiptCoverage` what the evaluation
counts of the same report: what Check accepts must be complete to it too.  In
`PlanArtifacts` a bundle is built, saved, mixed with that of another plan or altered, and
read back; what it must never do is be trusted as another plan, by the store or by the
verification of its own that Check does.

### PlanStore

A plan stands for its identity digest; `ReviewOf` is its public id, which two
plans may share, `Clash` the pairs whose content ids collide.  `StartSave` ..
`FinishSave` are `Save` and `publish` (`ConsumeLease`, `Publish`, `PublishFails`
being the move of the snapshot, the rename, and the move back, which may fail
too); `StartPrune` .. `PruneFails` are `pruneLocked` with `deleteReview`
removing one entry at a time; `LockReview`, `LoadManifest`, `VerifySibling`,
`UsePlan`, `EndRead` are a reader, which reads sibling manifests without the
store lock.  `Damage` is a manifest that no longer verifies, `Crash` the death of
a process, which frees its flocks.

### KnowledgeDecision and KnowledgeBundle

`record`, `candidate`, `journal` are the files of a proposal's inbox directory,
`bundle` the documents with `index.md` and `log.md`, `lock` is `.decision.lock`.
A client is one `knowledge accept|reject`.  `Describe` reads the version without the
lock, `LockInbox` takes it.  `RecoverForward` and `RecoverBack` are the recovery of the
proposal asked about; a rollback is `CompareAll`, which reads all three files and says
which are to be restored, `Restore`, once for each and without looking again, and
`CheckRestored`, then `RemoveJournal`.  `Replay` and `Refuse` answer at once.  A decision
reads the candidate again and again: `StartDecision` compares the version,
`ComputeVersion` computes the one after, `LoadCandidate` takes the text to accept,
`Confirm` compares a last time.  In between are `Reject`, or `Prepare` and, for each file,
`CompareCanonical` and `WriteCanonical`, then `Commit`.  `Fail` is an I/O error at any
step, which rolls a started acceptance back; `CommitFailsLate` a write of the record
that fails after its rename; `Edit` and `ReviseCandidate` are hands that take no lock.
At most `MaxEvents` edits, revisions and late failures happen.

Four history variables say what a property has to except, each for one cause:

| Variable | Holds | Excepted from |
|---|---|---|
| `disturbed` | proposals whose open transaction met another writer half way: a hand, or a decision of another proposal that writes `index.md` and `log.md` too | `BundleAgrees` |
| `late` | proposals whose record was renamed by a write that was then reported as failed, so that the acceptance is rolled back and recorded | `BundleAgrees`: the line of `log.md` may be missing |
| `raced` | files edited between a comparison and the write that follows it | `EditsKept` |
| `slipped` | proposals revised between the comparison of the version and the computation of the next | `AnswerIsTrue`: the text may not be the reviewed one |

Several files read in a row with no write between are read in one step: what others do
to one of them meanwhile commutes with the reads of the others.  A candidate
is never revised back to an old text; the stage written into the journal is never
read, so it is not kept; `Propose` is one step; the caller derives its idempotency
key from proposal, verdict and version, so a key that belongs to another request
cannot come from the CLI.

`KnowledgeBundle` has the contents: documents with known and unknown keys, anchors
with and without a symbol and with a key of somebody else's (`note`), the owned block of `index.md`, and `Lint`, `Repair` and
`SyncStore` over them between edits of every file.

### SetupTransaction and UserInstall

A destination of `SetupTransaction` holds the user's part and Prowl's; `dirs`,
`journal`, `replays` and `lock` are the files of the same names.  A caller's `pc` is
where `Apply` stands: `PeekJournal` and `Precheck` before the lock, `Recover` and
`Check` under it, `Open` (the journal is saved before the first write), `Mkdir` and
`Mark`, `Apply` once per destination, `Verify`, `Record` (the commit), `Close`; after
a failure `Restore`, `RestoreReplays`, `Undir`, `Drop`.  An operation on the disk ends
well, fails before its rename or fails after it (`Outcomes`), the record included; a
request recorded by a write that was reported as failed is in the history variable
`unsynced` until it is recorded by one that was not.  `Crash` ends a process anywhere.  `UserInstall` is the other installer: it writes in any order, keeps no
journal, undoes from memory, and shares one manifest with other versions.
`Begin` takes its lock, reads the manifest and plans in one step: each file is read once
there and nothing is written, so what others do meanwhile is done before or after.

### Evaluation, CorpusPreparation

`Evaluation` is one output directory: `Collect`, `Trial`, `WriteInput`, `Adjudicate`,
`ScoreCollection` over records that may be old, edited or unfinished.  A collection
verifies the executables and every prepared repository first; a trial installs the
binary or its stub, resolves the lines findings end on, verifies the artifacts of a
treatment with a check of its own and compares the output with the report.  The rest
is `EvaluationRules`: the frozen protocol, and the matching and pooling of scores.  `CorpusPreparation` is `discover` and `prepare` against a remote
that withdraws commits; `CorpusRules` is what is derived from pinned bytes.

## 3. Runs

`CHECK_DEADLOCK FALSE` stands in every run whose system may stop: servers are shut
down, calls, edits and events are bounded, a patch is read to its end.  The workers of
`IndexGeneration` never stop (`Crash`, `Reopen`), and the runs on it check for
deadlock; so does `graph_complete`, where files may always be edited.

| Run | Instance | Shows |
|---|---|---|
| `index_tracking` | one worker, 2 files, 3 contents (one is skipped by the indexer), 2 edits; passes of 2 models over 2 chunks; the projects of `MCIndex` | `GenerationCoexisted`, `VectorsMatch`, `IncrementalIsExact`, `ProgressKept` |
| `index_binaries` | 2 processes of 2 versions, 1 file, 2 edits, 2 commands | `ReadsOneGeneration`, `PublishedSingleVersion`, `PresentAnswerFresh`, and refinement: `PublishesAtomically` |
| `index_close` | 1 process, 2 workers, 1 edit that may keep an old modification time, with fairness | `LockDiscipline`, `StoreOpenWhileLocked`, `EveryCommandEnds` |
| `servers` | 2 concurrent requests, 2 edits, failing re-indexes; 3 messages to the language server, with fairness of the first | `KnowsWhenStale`, `AnswersIncludeFlagged`, `OneWatcher`, `StopJoins`; `HealthIsNewest`, `DiagnosticsAdvance` |
| `review` | 2 clients, 4 plans of 3 reviews in 2 stripes, 3 calls, 3 times, 1 damaged manifest; 1 plan and 1 use, 2 edits, 3 files; diffs of 3 files, 1 slip, the bounds of a report scaled to 2 findings, 5 receipts, 6 items, 23 plan items and 120 references; captures, head views, Git calls, patches of 5 lines | `LoadedPlanKept`, `SoleSnapshotKept`, `NoCollision`, `OnlyExpiredDeleted`; `PlanIsOneInstant`, `UseIsCurrent`; `ReviewCovers`; `CaptureExact` |
| `knowledge_decision` | 2 processes, 2 proposals, 2 documents, 3 requests, a log of 2 lines, 1 event: an edit by hand, a revision or a late failure; one bundle with anchors | `AnswerIsTrue`, `BundleAgrees`, `DecisionFinal`, `EditsKept`; `KnowledgeJudged`, `BundleKept` |
| `installers` | 2 callers, 2 keys, 3 destinations of 3 kinds, 2 directories, 4 events; 2 installers of the user's home, 3 assets, 3 events | `TransactionSound`, `RollbackRestores`, `AppliedOnce`; `OthersKept`, `UndoRestores` |
| `evaluation` | small graphs, texts, lists and budgets; 3 cases, 1 disturbance; 5 requests of one source in 2 versions, 2 runs | `IndexAnswersRight`, `RetrievalRight`; `EvaluationSound`, `PreparationSound` |
| `review_reuse` | committed plans, 2 acts of an editor | violates `RowsOfHead` |
| `graph_complete` | the projects of `MCIndex` | violates `ResolutionComplete` |
| `knowledge_durable` | as `knowledge_decision`, no event | violates `AcceptedStays` |
| `anchor_shifted` | one bundle with anchors | violates `ShiftedIsMoved` |

**Why the bounds are enough.**  Every hazard of the index needs at most two
workers (one that mutates and one that reads or mutates) and at most two edits
(one that a walk misses and one that hides it again); two files are needed for a
generation that mixes instants, and two versions for one that mixes binaries.
These are split over three runs because each one is a different pair of
dimensions.  Two chunks let an id come back, and a window of two with batches of one
leaves a pass between batches.  The plan store has one plan in each relation to
another (same id, same stripe, collision, unrelated) and three calls, which are a
save, a reader and a pruner; `RetentionCount = 1` stands for the code's twenty, since
the rank only decides which plans are past it.  A planner is misled by at most two
edits: one that a capture sees and one that hides it.  In `knowledge_decision` two
transactions are what it takes to disturb each other through `index.md` and
`log.md`, and a log of two lines has room for both or for one and a hand's; each exception above needs one
event only, so that one shows what the exception is for and that nothing else is lost by it.  Four
events of the setup are two calls, a failure and a crash, or a call, a failure, the
recovery's failure and a removal.  The pure algorithms are checked on every input of
a few elements, with their limits scaled down (`Sample`, `BlobFiles`, `LineCap`) so
that each cut-off happens.  Symmetry is used for files, contents, calls, clients,
callers and keys: model values that the modules compare only for equality, and in no
run with a liveness property.

**Every property has a mutant**: a definition of the model replaced by a plausible
mistake (a lock taken over its readers, a flag not raised again, a snapshot not
compared, ...), written next to the definition as `... Unchecked`, `...Shared` and
so on.  The run of the property finds each of them violated.

**Fairness.**  `IndexGeneration!FairSpec` has weak fairness of `Progress(w)`, a
worker's own next step, and of `CloseStore(p)`: a goroutine that can run is
scheduled, and `Close` returns.  Taking the file lock is part of `Progress`: with
weak fairness only, a worker could wait for ever while others alternate; in the
instance the number of commands is bounded, so this cannot be what makes the
property hold or fail; starvation by an endless stream of readers is possible in the
code, because flock promises no order.  Nothing is assumed of the editor, of faults
or of new commands.  `Freshness` (`FairSpec`, and the same condition in
`ServersSpec`) has weak fairness of what the Go scheduler runs (`Scheduled`: a timer
that fires, a goroutine whose channel is ready) and of `WatchEnds`.

## 4. What the runs found

Each of the first four is a disagreement of the code with a statement of the repository, and a
violation run that reproduces it (`findings` in `PROJECT.json` quotes the lines).

1. `review_reuse`: the rows of the live index are validated against the worktree
   before Git is asked whether the worktree is clean; one that was dirty in between
   lets a plan of a commit be answered from rows the commit does not have.
2. `graph_complete`: a component or type reference that names nothing yet is deleted;
   when the file that defines it appears, the unchanged user is never linked to it.
3. `knowledge_durable`: recovery does not look at the record, so a retry after a
   crash may undo an acceptance that is recorded, once another decision has
   changed `index.md`.
4. `anchor_shifted`: an anchor whose old range ends past the shortened file is called
   invalid although its lines are intact further up.

Four more are in the models, and a property of a passing run names each of them as its
exception; without the exception TLC finds the property violated.

- `AnswerIsTrue` excepts `slipped`: `Decide` compares the version of the candidate the
  caller has reviewed (`decision.go:138`) and reads it again for the version after
  (`:172`) and for the text it accepts (`proposal.go:159`); one rewritten between the first
  two reads is accepted, and the answer says that the reviewed one was.
  `decision.go:110` says that it "checks the optimistic version before mutation".
- `RepairOnlyMoves` excepts the keys Prowl does not know of an anchor: a repair that moves
  one anchor writes all anchors of its document anew with five keys (`codec.go:340`), and
  what others had added to them is lost.  `anchor_repair.go:29` speaks of "preserving its
  unknown frontmatter", which holds of the other levels.
- `CommittedIsComplete` and `AnswerIsDurable`, two parts of `TransactionSound`, except
  `unsynced`: the record of a setup is renamed into place, its directory cannot be synced
  (`service.go:1072-1080`), and the call rolls back (`:346`).  If it dies meanwhile, the
  request stays recorded with files half restored; and a caller with the same key may
  read the record without the lock (`:263`) and report an outcome that is then withdrawn,
  though `:136` calls it "durable, replay-safe".
- `AnswersCite` excepts a definition in a file that has become shorter than the line before
  the symbol: the slice is out of range and the handler panics (`query/definition.go:92`,
  `parse/extract/doc.go:28`; `span.go:108` clamps), though `definition.go:37` says that the
  body reflects the current file.

Seen in the code while modelling it, and not stated as runs:

- *Index*: polling for the refresh lock is unfair (`project.go:477`); an embedding
  pass cancelled after the commit marks a published generation incomplete
  (`project.go:395`); a file that comes and goes between two walks may be answered as
  it never was together with the rest (`query.go:24`, `project.go:440`);
  `VectorsComplete` keeps its mark while chunks change (`vectors.go:59`); which of two
  files a contested resource name links to depends on the age of rows; in an
  outline a symbol on the line
  of its enclosing type pops the type, and a method of a class longer than two windows
  is cut; `BlastSummary` cuts its list of subsystems to 15, so that their counts add up to
  the total only if there are no more (`query.go:600`).
- *Servers*: an edit before the watches are registered is never noticed
  (`freshness.go:70`); diagnostics computed after a late refresh
  (`lsp/server.go:64`, `:98-101`).
- *Review*: an interrupted deletion leaves a directory that no pruning removes
  (`persist.go:1825`), as do orphaned leases and temporary saves (`persist.go:367`);
  sibling manifests are read without the lock (`persist.go:816`); a citation of a hunk
  is refused unless it is the first (`unit.go:838`, `check.go:980`;
  `docs/REVIEW.md:741` says otherwise), and a change without hunks has no usable
  citation of its own (`unit.go:906`); a file that vanishes between its Lstat and its
  open, a replaced inode, or a gitlink that changed in the index end a plan instead of
  being retried (`capture.go:655` and `service.go:369` against `capture.go:60-63`); a
  child of Git killed by the start-up check may be reported as exit status −1
  (`git.go:278`, `:306`); `ParseUnifiedDiff` refuses a trailing no-newline marker but
  has no callers; gitlinks of a head are neither materialized nor named as omissions;
  the id of a cohort hashes a key, which may be the label of a cluster, and the ids of its
  units, so that two clusters of one label that both have no unit would be refused as a
  collision (`cohorts.go:365`, `plan.go:466`); `ReviewPlan` names a cohort by its files;
  a plan may have 500 000 items but a report only 100 000 receipts, so that the honest
  report of a plan of more units is refused (`check.go:19`, `:22`);
  `persist.go:1036` promises more than it compares, for nothing binds the display
  fields of units, the cohort or layer that a unit of a structured plan names, the
  review id repeated in units, labels, stats and next commands; the default of
  `IndexSchema` differs between `buildPlanIdentity` and the replay.
- *Knowledge*: the decision lock's timeout is the pause between attempts
  (`decision.go:126`); a crash inside `Propose` (`proposal.go:95`), a late failure of the
  record's write, which is rolled back although it is recorded (`proposal.go:225`: the
  exception `late`), a write between the comparison of a file and the rename over it
  (`decision_transaction.go:191`, `:235`: the exception `raced`) and a target that is compared and then read again
  (`proposal.go:167`); an `index.md` without its end marker gets a second block, and the
  next acceptance swallows what people wrote between them; `RepairAnchors` never settles
  for moved symbol anchors, and `SyncStore` and retrieval check anchors without a
  resolver; one document that cannot be
  parsed blocks acceptance, repair and sync while lint tolerates it; of several anchors
  the last one decides a document's freshness (`context/retrieve.go`); the registry is
  read, modified and written without a lock (`registry.go`); `Import`, `GenerateIndex`
  and `AppendLog` have no callers.
- *Evaluation*: prepared repositories are verified once, before the first trial
  (`run.go:77`): a trial on one that changed since is refused only as a treatment, and
  only if the pinned commits are gone; an incomplete review all of whose receipts are
  there counts as one with contradictory artifacts (`run.go:713`); `Prepare` can never report ready, and offline it cannot reproduce
  quarantines; `resolveMergeBase` takes the first merge base visible in a shallow
  history; `appendChangedRange` swallows lines (`prepare.go:985`); a failed trial is left
  out of the denominator of coverage though `docs/REVIEW.md` counts it as zero; failures
  of the control arm count as misses (`score.go:247`); the treatment's verifier evidence
  is recognisable in the blind input.

## 5. What is proved

All theorems hold for every value of the constants that satisfies the named
assumptions of the module (typing of the parameters, distinctness of the
"nobody" values, bounds that are natural numbers): any number of workers,
processes, files, plans, proposals, requests, callers, destinations.  TLC evaluates the
assumptions in the runs (those of `ReviewCapture`, which `MCReview` instantiates, are the
hypothesis of its theorem and an `ASSUME` of `MCReview`).  No theorem has a
hypothesis of its own.

| Theorem | Property | Strengthening |
|---|---|---|
| `IndexGenerationProofs!TypeCorrect` | `TypeOK` of `IndexGeneration` | inductive itself |
| `LocksDisciplined` | `LockDiscipline` | `LockInv`: and the file lock is never held in both modes |
| `MutationExcludes` | `MutationIsExclusive` | follows from `LockInv` |
| `StoreStaysOpen` | `StoreOpenWhileLocked` | `OpenInv`: a store not being closed is open, and a worker inside the gate has an open store (`CloseStore` waits for the gate) |
| `SingleVersionPublished` | `PublishedSingleVersion` | `VersionInv`: the transaction belongs to the worker that writes, and each row in it has that worker's version |
| `OneGenerationRead` | `ReadsOneGeneration` | `ViewInv`: what a reader has seen is the current generation, so nobody commits under it |
| `Coexisted` | `GenerationCoexisted` | `SigInv`, `WriterInv`, `WalkInv`: below |
| `AnswersFresh` | `PresentAnswerFresh` | `AnswerInv`, `CheckInv`: what a command at each step may answer from is a content it has met |
| `Implements` | `PublishesAtomically` (refinement) | the invariants above; step by step `Publish`, `Withhold`, `Admit`, `Read`, `Leave` or a stutter |
| `ServerProofs!TypeCorrect` | `TypeOK` of `Freshness` | `IInv`, below |
| `StalenessKnown` | `KnowsWhenStale` | `CaptureInv`: a change after the capture of a re-index is signalled apart from it |
| `FlaggedAnswered` | `AnswersIncludeFlagged` | `GateInv` (the holder of the gate), `Answered`: a flagged change is in the index, or will be before a request is served |
| `NoWatcherLeft` | `OneWatcher` | `CurrentInv`, `BudgetInv`: a request starts one watcher at most, so ids do not run out |
| `InstallerProofs!TypeCorrect` | `TypeOK` of `SetupTransaction` | `IInv`, below |
| `BlocksAccounted` | `EveryBlockAccounted` (part of `TransactionSound`) | the journal covers what is written, `RestoredOf`: a restored file has no block it did not have |
| `SetupIsTransaction` | `TransactionSound` | `VerifiedOf`, `ReplaysOf`: until the commit nothing is recorded for the journal's request, unless it is in `unsynced` |
| `NeverTwice` | `AppliedOnce` | `ReplaysOf`, and `Sound`: the key of a transaction was new |
| `RollbackComplete` | `RollbackRestores` | `SameJournal`, `RestoredOf` |
| `PlanStoreProofs!TypeCorrect` | `TypeOK` of `PlanStore` | `IInv`: the conjuncts of the next rows |
| `LoadedPlansKept` | `LoadedPlanKept` | `StoreInv` (who holds the store lock), `StripeInv` (who holds a stripe), `ReadInv` (a reader's directory still has its plan) |
| `NoCollisions` | `NoCollision` | `SaveInv`: between check and publication the plan is consistent with every readable plan |
| `SnapshotsKept` | `SoleSnapshotKept` | `LeaseInv`: where the snapshot is, step by step |
| `ExpiryOnly` | `OnlyExpiredDeleted` | `RetentionInv` and `FiniteInv`: below |
| `KnowledgeDecisionProofs!TypeCorrect` | `TypeOK` of `KnowledgeDecision` | `IInv` = `CallsInv` (the call of a client fits the step it is at, and only the holder of the lock is past it), `InboxInv`, `BundleInv`, `RecordInv` (a decided record has its audit), `KeptInv` (a journal is the change of its proposal) |
| `DecisionsFinal` | `DecisionFinal` | `IInv` |
| `AnswersTrue` | `AnswerIsTrue` | `OrderInv` (the version asked about, the one decided on, the text accepted and the last revision are ordered), `PromiseInv`: what a client at each step will answer is what the record says |
| `EditsSurvive` | `EditsKept` | `SwapInv`: a file a call has compared and is about to replace holds what it was compared with, or is in `raced` |
| `Atomic` | `BundleAgrees` | `LinesInv`, `WholeInv` (file by file and transaction by transaction), `IndexInv` (the block of `index.md`, which all transactions share) |
| `VectorBacklogProofs!VectorsRight` | `VectorsMatch` of `VectorBacklog` | `PassInv`: what the pass under way may rely on at each statement |
| `VectorsSurvive` | `ProgressKept` of `VectorBacklog` | the same, and that no vector is stored for a content-free chunk |
| `ServerProofs!NewestDecides` | `HealthIsNewest` of `LanguageServer` | `IdsInv`: a refresh that is not completed has one of the ids given |
| `DiagnosticsForward` | `DiagnosticsAdvance` of `LanguageServer` | `ShownInv`: what is shown is not newer than the index, what is being sent is the index |
| `ReviewPlanningProofs!TypeCorrect` | `PlanningTypeOK` of `ReviewPlanning` | `TypeInv`, `StampInv` (no stamp is given twice), `ControlInv` (which call may be at which step) |
| `OneInstantPlanned` | `PlanIsOneInstant` | `SinceInv`, `SignedInv`, `WitnessInv`: below |
| `CurrentWorkspaceUsed` | `UseIsCurrent` | `SinceInv`, for the capture of a use |
| `ReviewCaptureProofs!CheckoutIsShown` | `CheckoutShown` of `ReviewCapture` (part of `CaptureExact`) | `HandInv`, `OnceInv`, `ListedInv`: below |
| `InstallerProofs!OthersAreKept` | `OthersKept` of `UserInstall` | `LockInv`, `PlannedOf`, `PlaceOf`, `FilesOf`, `ManifestOf`: below |
| `UndoIsComplete` | `UndoRestores` of `UserInstall` | the same |

The argument has the same form in each: an invariant that says what every actor
knows while it holds its lock and what the shared state keeps for the others; one
lemma per action and conjunct it can disturb; and a final temporal step.  Why the
invariants are needed:

- *Index.*  A refresh compares the tree of its pre-walk with that of its post-walk and
  looks at nothing in between, and `ensureFresh` compares the tree with the published
  signature while another process may be writing the next one.  What makes both right
  is one fact about time: an entry that still has the modification time of its file has
  its content (`Current`), because every edit gives a new one.  So whatever the writer
  did to that file since the entry was read, it did to that content (`WriterKeeps`): the
  base was this content and the row kept for it is its row.  An entry met again in the
  post-walk therefore matches (`WriterMeets`), and a command that finds the published
  signature while another process writes will find the same rows after the commit
  (`AnswerInv`, the case of `Expects`).  With `StampReuse` the argument fails, so both
  invariants, and the agreement of rows and signature in the refinement, are stated
  without it; the locks, the versions and the readers do not depend on it.
- *Plan store.*  `NoCollision` says nothing about a saver that has checked the
  registry and not yet published; `SaveInv` does, and it is preserved because only the
  holder of the store lock publishes, which is `StoreInv`.  `OnlyExpiredDeleted` is about
  one removal, but what justifies it was decided when the list was made: the plans that
  outlive it must still be there when its turn comes.  `RetentionInv` says of each
  review still marked that it is past the age, or that `RetentionCount` plans at least
  as new are on disk and *not* marked.  That such plans exist when the list is made is
  a lemma about the order (`EnoughKept`: among the plans as new as the one dropped and
  of too high a rank, take one of the least rank; those ahead of it are kept), and that
  nobody else removes one is `StoreInv` again.  `FiniteInv` lets plans be counted: each
  save adds one.
- *Decisions.*  `DecisionFinal` needs that a client that is to write the record still has
  an undecided one, which other clients could change but for the lock; and a recovery
  leaves a record decided because the audit it writes from a journal is never the absent
  one: `CallsInv` and `KeptInv`.  An answer is a promise made several reads earlier, of a
  candidate that may be rewritten after each: `OrderInv` says that texts only grow newer
  from one read to the next, and `Confirm` finds the last equal to the second, so that all
  between are.  Of edits, the comparison is one or more steps before the write: `SwapInv`
  keeps what was compared for the call that compared it.
- *Freshness.*  A change is announced by a flag, by the watcher's own state, or by the
  re-index that is running, and which of them it is changes hands at every step:
  `CaptureInv` and `Answered` name the hand that has it.
- *Setup.*  The properties speak of the disk, and most steps are taken by a caller that
  relies on its memory; `CallerInv` ties the two (`SameJournal`: the journal is the
  caller's transaction but for the directory made last; `ReplaysOf`, `RestoredOf`,
  `VerifiedOf`: how far it has come).  A step outside the critical section, a death, an
  edit or a removal is an `Outside` step, which keeps `CallerInv` of every caller and
  what the disk promises (`OutsideKeepsCaller`, `OutsideKeepsDisk`), so only the
  thirteen steps under the lock are argued one by one.  TLC checks the same `IInv`.
- *Review planning.*  A plan is compared with nothing but itself: two captures that
  agree and two signatures that agree.  The instant it is the plan of is found in
  `past`, the worlds the attempt has seen: it is the one at which the second capture
  found HEAD at its base.  For each file of the walk with an entry in the first
  signature, `Stamped` says that while the file keeps that stamp the index, the rows
  and the texts read are what the file holds (every edit gives a new stamp:
  `StampInv`); so if the second signature has the stamp again, what was read is what
  the file held throughout, at that instant too (`Witness`, which carries this through
  the second capture, its refresh and its signature).  A file without an entry was gone at
  both signatures, and by the condition of the property throughout; then `SinceInv`,
  that everything read was there at some moment since the attempt began, is enough.
  It is also what `CurrentWorkspaceUsed` needs, of the one capture of a use.
- *Capture.*  A path is looked at, opened and read in three steps.  `HandInv` says that
  the node of the open descriptor is one the path has had, and that no *other* path names
  it: whoever writes to it writes to what the path names, and the new content has been
  seen.  `OnceInv` is about Git's two listings, between which a path may be unstaged: a
  listed name had an entry then, so that a path listed again has been staged in two ways.
  `ListedInv` follows a path that differs all along from the listing to the records.
  What Git lists is a lemma about `RawStatus` alone (`RawListed`: under its own name, or
  as the source of a rename).
- *User installer.*  `ForeignBytesKept` is about one write, and what allows it was seen
  two steps before, from bytes an editor may change at any moment.  `FilesOf` says of
  every destination not noted in `late` that it is as it was when the lock was taken,
  or that what it was then is saved in memory; `PlannedOf` says that the plan is right
  about those bytes, so that a recheck that passes has found them again
  (`UnmovedIsStart`) and takes the destination out of `late`.  A destination saved is
  never rechecked, because `PlaceOf` divides the plan into what is to be visited, what
  is in hand and what is written: this is why the undo restores the old bytes and not
  the new ones, and why nothing of the plan is missing at the commit.  `ManifestOf`
  says the same of the manifest and, record by record, of the clients outside the plan.
  All of it is promised only to the holder of the lock, which is `LockInv`; what the
  others do in the meantime is `Aside`.
- *Atomic acceptance.*  `BundleAgrees` says that the records, the lines of `log.md` and the
  listing of `index.md` agree whenever no journal is open, for each proposal whose
  transaction met no other writer (`disturbed`), and up to the line of one whose record
  was renamed by a failed write (`late`).  In between, `WholeInv` says for each proposal
  not disturbed which of the three files of its open transaction are *before* and which
  *after*, by the step of the client that has it (all before, a prefix after, all after,
  those still to be restored after), and that without one `log.md` counts the acceptance.
  Lines of `log.md` are counted proposal by proposal, so this can be said of each alone;
  `LinesInv` carries the count from a comparison to the write that follows it, between
  which a hand may add lines of its own.  Of `index.md` it cannot be said of each alone:
  every acceptance replaces the whole listing.  While nothing is disturbed at all, `IndexInv` says
  that a document no transaction is open for is listed exactly if it exists (`ListedInv`),
  that a listing about to be written is right (`WriteInv`), and relates the transactions
  that died open to one another (`TwinInv`, `OtherInv`): recovering one must not undo
  another.  TLC checks `LinesInv`, `WholeInv` and `IndexInv` on the instance, too.

**Only model-checked.**  Liveness (`EveryCommandEnds`, `StopJoins`) and
everything that needs `ENABLED` is out of the prover's reach.  So is what a
recursive definition computes for every input: the induction theorems of the library
take an operator as a parameter, which no installed prover instantiates.  (Where a
proof needs one least element, well-foundedness of `<` over sets of naturals gives
it: `InstallerProofs!Least`.)  Hence the answers of the four answer modules, the packing of
`ReviewPlan`, the scores of `EvaluationRules`, the anchors of `KnowledgeBundle` and the
resolution of `GraphResolution` are checked on bounded inputs.
Of the properties the runs check, these stay with TLC: `IncrementalIsExact` (the passes
of `resolve.go` take the rule as a parameter, and each is a filter over a sequence),
`ReviewCovers`, `IndexAnswersRight`, `RetrievalRight`, `EvaluationSound`,
`PreparationSound`, `KnowledgeJudged` and `BundleKept` (folds and searches over
sequences, to be proved by induction), `CaptureExact` but for
`CheckoutShown` (sums over records, the parser of patches and the waves of reads are
folds too), and the two liveness
properties.

## 6. What is not modelled

Parsers, roles, centrality, embedding and rendering are functions of data; the
handlers of MCP and LSP requests, network I/O, external programs, self update and the
agent evaluation have no interleaving of their own; migrations run once under a
transaction.  The hardened environment of Git, the shapes of JSON records, symbolic
links and modes of the installers, and case-insensitive file systems are left out.  The
durations of timers, the busy timeout of SQLite and the fairness of flock are not
modelled: nothing in the code promises anything about them.

## 7. Plan

1. *Done*: the modules of section 2 and the proofs of section 5.
2. Proofs: the other parts of `CaptureExact` that are no folds (`GitCommand!AnswerIsWhole`,
   `HeadView!SourceIsBound`).
3. Worth modelling next: the validation of stored JSON records (`review/model.go`), the
   rendering of packets (`review/unit.go`), and the registry of workspaces.

## 8. Running it

    tlc -config IndexTracking.cfg MCIndex
    tlapm InstallerProofs.tla

and likewise for the other pairs of module and configuration in `PROJECT.json`.
