-------------------------- MODULE KnowledgeDecision --------------------------
(***************************************************************************)
(* How a proposed change to the project's knowledge bundle is accepted or  *)
(* rejected (internal/knowledge: decision.go, decision_transaction.go,     *)
(* proposal.go; the caller is internal/cli/knowledge.go).                  *)
(*                                                                         *)
(* A proposal is a directory of the inbox with a candidate text and a      *)
(* record.  Decide runs under one file lock.  An acceptance changes three  *)
(* files of the bundle, the target document, index.md and log.md, one      *)
(* rename after the other, under a journal that holds each file before     *)
(* and after; the rename of the proposal's record commits it.  A process   *)
(* may die between any two steps, and the next Decide of the SAME proposal *)
(* finishes or undoes what its journal describes.                          *)
(*                                                                         *)
(* The bundle belongs to the user's repository: editors and other commands *)
(* change its files without the lock, also between the comparison of a     *)
(* file with its snapshot and the rename over it.  Several files read in   *)
(* a row, with no write between, are read in one step: what others do to    *)
(* one of them meanwhile is done before that step or after it.             *)
(***************************************************************************)
EXTENDS Naturals, Sequences, FiniteSets, SequencesExt

CONSTANTS
  Clients,       \* processes that run "knowledge accept" or "reject"
  Proposals,     \* ids of proposals
  Documents,     \* documents of the bundle
  Requests,      \* the decisions somebody may ask for
  Target,        \* the document each proposal is about
  Present,       \* the documents the bundle starts with
  Revisable,     \* the proposals whose candidates somebody rewrites
  Old,           \* the text of a document nobody has proposed or edited
  Editor,        \* whoever changes the bundle by hand; also what they write
  NoFile, None, Nobody,
  MaxLog,        \* length log.md may reach
  MaxEvents      \* bound: edits of the bundle and the inbox, and late failures

ASSUME TargetAssumption == Target \in [Proposals -> Documents]
ASSUME SubsetsAssumption ==
  /\ Present \subseteq Documents
  /\ Revisable \subseteq Proposals
  /\ Requests \subseteq Proposals \X {"accepted", "rejected"}
ASSUME NamesAssumption ==
  /\ Nobody \notin Clients /\ None \notin Proposals /\ Editor \notin Proposals
  /\ Documents \intersect {"index", "log"} = {}
  /\ NoFile \notin {Old, Editor} \union (Proposals \X Nat)
ASSUME BoundsAssumption == {MaxLog, MaxEvents} \subseteq Nat

VARIABLES
  record,     \* proposal.json of each proposal
  candidate,  \* the revision of candidate.md each proposal holds
  journal,    \* decision-transaction.json of each proposal
  bundle,     \* the documents, "index" and "log"
  lock,       \* who holds .decision.lock
  client,     \* the Decide call of each process
  events,     \* edits by hand and late failures so far (bounded by MaxEvents)
  disturbed,  \* history: proposals whose started acceptance met another writer
  late,       \* history: proposals whose record was renamed by a failed write
  slipped,    \* history: proposals revised between the two versions of a Decide
  raced       \* history: files edited since they were compared for a write

inbox == <<record, candidate, journal>>
history == <<disturbed, late, slipped, raced>>
vars == <<record, candidate, journal, bundle, lock, client, events, history>>

Files == Documents \union {"index", "log"}
Revisions == 0..MaxEvents
Verdicts == {"accepted", "rejected"}
Statuses == {"proposed"} \union Verdicts

\* The text of a document: one from the start, a hand-made or a proposed one.
Text == {NoFile, Old, Editor} \union (Proposals \X Revisions)
\* index.md: the documents its generated block lists, the edits around it.
IndexFile == [listed : SUBSET Documents, edits : 0..MaxEvents]
\* log.md: one line per acceptance, and lines written by hand.
LogFile == UNION {[1..n -> Proposals \union {Editor}] : n \in 0..MaxLog}

\* The files a transaction of p changes, in the order it writes them.
FilesOf(p) == <<Target[p], "index", "log">>

\* The record of a decision: the candidate the caller had reviewed, the one
\* VersionAfter was computed from, and the one that was accepted.
Audit == [expected : Nat, final : Nat, text : Nat]
Record == [status : Statuses, base : Text, audit : {None} \union Audit]
Snapshot(p) == [ToSet(FilesOf(p)) -> Text \union IndexFile \union LogFile]
Journal(p) == [text : Nat, expected : Nat, final : Nat, before : Snapshot(p), after : Snapshot(p)]

ASSUME NoneAssumption ==
  None \notin Audit \union Record /\ \A p \in Proposals : None \notin Journal(p)

\* The version Describe computes: a hash of the record and the candidate.
Version(p) == <<record[p].status, candidate[p]>>

Existing == {d \in Documents : bundle[d] # NoFile}

\* A process that decides: the request, and the locals of Decide and accept.
Steps == {"idle", "lock", "recover", "version", "load", "prepare", "write",
          "replace", "commit", "reject", "restore", "undo", "remove", "confirm"}
Call == [pc : Steps, proposal : Proposals \union {None},
         verdict : Verdicts \union {None},
         version : (Statuses \X Nat) \union {None},
         final : Nat, text : Nat, step : 1..3, todo : SUBSET (1..3),
         then : {"recover", "refuse", "accept"}, answer : BOOLEAN]

\* A request, on its way or answered.
Request(p, verdict, version, pc, answer) ==
  [pc |-> pc, proposal |-> p, verdict |-> verdict, version |-> version,
   final |-> 0, text |-> 0, step |-> 1, todo |-> {}, then |-> "refuse",
   answer |-> answer]
Idle == Request(None, None, None, "idle", FALSE)

Init ==
  /\ record = [p \in Proposals |-> None]
  /\ candidate = [p \in Proposals |-> 0]
  /\ journal = [p \in Proposals |-> None]
  /\ bundle = [f \in Files |->
                 CASE f = "index" -> [listed |-> Present, edits |-> 0]
                   [] f = "log" -> <<>>
                   [] OTHER -> IF f \in Present THEN Old ELSE NoFile]
  /\ lock = Nobody
  /\ client = [c \in Clients |-> Idle]
  /\ events = 0
  /\ disturbed = {} /\ late = {} /\ slipped = {} /\ raced = {}

Becomes(c, k) == client' = [client EXCEPT ![c] = k]

\* Decide returns: with the durable result, or with an error.
Return(c, answer) ==
  /\ Becomes(c, IF answer THEN Request(client[c].proposal, client[c].verdict,
                                       client[c].version, "idle", TRUE)
                          ELSE Idle)
  /\ lock' = Nobody

\* Whose open transactions notice that a transaction of p, or a hand, wrote f.
Disturbs(p, f) ==
  disturbed' = disturbed \union
    {q \in Proposals \ {p} : journal[q] # None /\ f \in ToSet(FilesOf(q))}

\* A transaction of p has written f, or compared it with its snapshot.
Written(p, f) == Disturbs(p, f) /\ raced' = raced \ {f} /\ UNCHANGED <<late, slipped>>
Compared(files) == raced' = raced \ files /\ UNCHANGED <<disturbed, late, slipped>>

\* The files a call has compared and is about to replace.
Pending(c) ==
  LET file(i) == FilesOf(client[c].proposal)[i] IN
  CASE client[c].pc = "replace" -> {file(client[c].step)}
    [] client[c].pc = "undo"    -> {file(i) : i \in client[c].todo}
    [] OTHER                    -> {}

-----------------------------------------------------------------------------
(* Proposing and describing: neither takes the lock.                       *)

\* The record remembers the text the proposal was made against.
Propose(p) ==
  /\ record[p] = None
  /\ record' = [record EXCEPT ![p] =
       [status |-> "proposed", base |-> bundle[Target[p]], audit |-> None]]
  /\ UNCHANGED <<candidate, journal, bundle, lock, client, events, history>>

\* The caller derives the idempotency key from the proposal, the verdict and
\* the version it has just read.
Describe(c, p, verdict) ==
  /\ client[c].pc = "idle" /\ record[p] # None
  /\ Becomes(c, Request(p, verdict, Version(p), "lock", FALSE))
  /\ UNCHANGED <<inbox, bundle, lock, events, history>>

\* Mutant of LockInbox: the lock is shared.
LockInboxShared(c) ==
  /\ client[c].pc = "lock"
  /\ lock' = c
  /\ Becomes(c, [client[c] EXCEPT !.pc = "recover"])
  /\ UNCHANGED <<inbox, bundle, events, history>>

\* The time given to TryLockContext is the pause between attempts, and the
\* caller's context has no deadline: it waits until the lock is free.
LockInbox(c) ==
  /\ client[c].pc = "lock" /\ lock = Nobody
  /\ lock' = c
  /\ Becomes(c, [client[c] EXCEPT !.pc = "recover"])
  /\ UNCHANGED <<inbox, bundle, events, history>>

-----------------------------------------------------------------------------
(* Recovery of the proposal the request names, and of no other.            *)

\* Every file holds the result, and the candidate is the journal's.
Complete(p) ==
  /\ candidate[p] = journal[p].text
  /\ \A f \in ToSet(FilesOf(p)) : bundle[f] = journal[p].after[f]

Accepted(p) == [record EXCEPT ![p] =
  [status |-> "accepted", base |-> record[p].base,
   audit |-> [expected |-> journal[p].expected, final |-> journal[p].final,
             text |-> journal[p].text]]]

\* Finish it: commit the record unless it is committed.
RecoverForward(c) == LET p == client[c].proposal IN
  /\ client[c].pc = "recover" /\ journal[p] # None /\ Complete(p)
  /\ record' = IF record[p].audit = None THEN Accepted(p) ELSE record
  /\ Becomes(c, [client[c] EXCEPT !.pc = "remove", !.then = "recover"])
  /\ UNCHANGED <<candidate, journal, bundle, lock, events, history>>

\* Undo it: the record is not looked at.
RecoverBack(c) == LET p == client[c].proposal IN
  /\ client[c].pc = "recover" /\ journal[p] # None /\ ~Complete(p)
  /\ Becomes(c, [client[c] EXCEPT !.pc = "restore", !.step = 1,
                   !.then = IF candidate[p] = journal[p].text
                            THEN "recover" ELSE "refuse"])
  /\ UNCHANGED <<inbox, bundle, lock, events, history>>

\* All three files are read before the first goes back: those that hold the
\* transaction's result are to be restored; one that is neither the result nor
\* the snapshot is somebody else's, is left alone and makes the call fail.
CompareAll(c) == LET p == client[c].proposal
                     file(i) == FilesOf(p)[i]
                     same(i) == bundle[file(i)] = journal[p].before[file(i)]
                     mine(i) == bundle[file(i)] = journal[p].after[file(i)] IN
  /\ client[c].pc = "restore"
  /\ Becomes(c, [client[c] EXCEPT !.pc = "undo",
       !.todo = {i \in 1..3 : mine(i) /\ ~same(i)},
       !.then = IF \A i \in 1..3 : mine(i) \/ same(i) THEN @ ELSE "refuse"])
  /\ Compared(ToSet(FilesOf(p)))
  /\ UNCHANGED <<inbox, bundle, lock, events>>

\* They are restored in order, none compared again.
Restore(c) == LET p == client[c].proposal
                  i == CHOOSE i \in client[c].todo : \A j \in client[c].todo : i <= j
                  f == FilesOf(p)[i] IN
  /\ client[c].pc = "undo" /\ client[c].todo # {}
  /\ bundle' = [bundle EXCEPT ![f] = journal[p].before[f]]
  /\ Becomes(c, [client[c] EXCEPT !.todo = @ \ {i}])
  /\ Written(p, f)
  /\ UNCHANGED <<inbox, lock, events>>

\* They are read again: a result that is still there leaves the journal, and
\* what is not the snapshot is somebody else's.
CheckRestored(c) == LET p == client[c].proposal
                        file(i) == FilesOf(p)[i]
                        same(i) == bundle[file(i)] = journal[p].before[file(i)]
                        mine(i) == bundle[file(i)] = journal[p].after[file(i)] IN
  /\ client[c].pc = "undo" /\ client[c].todo = {}
  /\ IF \E i \in 1..3 : mine(i) /\ ~same(i)
     THEN Return(c, FALSE)
     ELSE /\ Becomes(c, [client[c] EXCEPT !.pc = "remove",
               !.then = IF \A i \in 1..3 : same(i) THEN @ ELSE "refuse"])
          /\ UNCHANGED lock
  /\ UNCHANGED <<inbox, bundle, events, history>>

\* The journal goes; what follows depends on why.
RemoveJournal(c) == LET p == client[c].proposal IN
  /\ client[c].pc = "remove"
  /\ journal' = [journal EXCEPT ![p] = None]
  /\ \/ /\ client[c].then = "recover"
        /\ Becomes(c, [client[c] EXCEPT !.pc = "recover"])
        /\ UNCHANGED lock
     \/ /\ client[c].then = "refuse"
        /\ Return(c, FALSE)
     \/ /\ client[c].then = "accept"
        /\ Becomes(c, [client[c] EXCEPT !.pc = "confirm"])
        /\ UNCHANGED lock
  /\ UNCHANGED <<record, candidate, bundle, events, history>>

-----------------------------------------------------------------------------
(* The decision.                                                           *)

Deciding(c) == client[c].pc = "recover" /\ journal[client[c].proposal] = None
Undecided(c) == record[client[c].proposal].audit = None

\* The stored audit has the request's key and its version still holds.
IsReplay(c) == LET p == client[c].proposal IN
  /\ record[p].audit # None
  /\ record[p].status = client[c].verdict
  /\ client[c].version = <<"proposed", record[p].audit.expected>>
  /\ candidate[p] = record[p].audit.final

Replay(c) ==
  /\ Deciding(c) /\ IsReplay(c)
  /\ Return(c, TRUE)
  /\ UNCHANGED <<inbox, bundle, events, history>>

\* Whether the version the caller reviewed is the current one.
Expected(c) == client[c].version = Version(client[c].proposal)

\* Already decided otherwise, or no longer what the caller reviewed.
Refuse(c) ==
  /\ Deciding(c) /\ ~IsReplay(c)
  /\ Undecided(c) => ~Expected(c)
  /\ Return(c, FALSE)
  /\ UNCHANGED <<inbox, bundle, events, history>>

StartDecision(c) ==
  /\ Deciding(c) /\ Undecided(c) /\ Expected(c)
  /\ Becomes(c, [client[c] EXCEPT !.pc = "version"])
  /\ UNCHANGED <<inbox, bundle, lock, events, history>>

\* VersionAfter: the candidate is read a second time.
ComputeVersion(c) == LET p == client[c].proposal IN
  /\ client[c].pc = "version"
  /\ Becomes(c, [client[c] EXCEPT !.final = candidate[p],
       !.pc = IF client[c].verdict = "accepted" THEN "load" ELSE "reject"])
  /\ UNCHANGED <<inbox, bundle, lock, events, history>>

\* A rejection is one write of the record.
Reject(c) == LET p == client[c].proposal IN
  /\ client[c].pc = "reject"
  /\ record' = [record EXCEPT ![p] =
       [status |-> "rejected", base |-> record[p].base,
        audit |-> [expected |-> client[c].version[2], final |-> client[c].final,
                   text |-> client[c].final]]]
  /\ Becomes(c, [client[c] EXCEPT !.pc = "confirm"])
  /\ UNCHANGED <<candidate, journal, bundle, lock, events, history>>

\* Mutant of Confirm: the version is not computed again.
ConfirmUnread(c) ==
  /\ client[c].pc = "confirm"
  /\ Return(c, TRUE)
  /\ UNCHANGED <<inbox, bundle, events, history>>

\* The candidate is read once more: its version must be the VersionAfter.
Confirm(c) ==
  /\ client[c].pc = "confirm"
  /\ Return(c, candidate[client[c].proposal] = client[c].final)
  /\ UNCHANGED <<inbox, bundle, events, history>>

\* The candidate is read again; the target must be what it was proposed for.
LoadCandidate(c) == LET p == client[c].proposal IN
  /\ client[c].pc = "load"
  /\ \/ /\ bundle[Target[p]] = record[p].base
        /\ Becomes(c, [client[c] EXCEPT !.pc = "prepare",
                                        !.text = candidate[p]])
        /\ UNCHANGED lock
     \/ /\ bundle[Target[p]] # record[p].base
        /\ Return(c, FALSE)
  /\ UNCHANGED <<inbox, bundle, events, history>>

\* What an acceptance of p makes of the bundle's files.
Results(p, revision) == [f \in ToSet(FilesOf(p)) |->
  CASE f = "index" -> [listed |-> Existing \union {Target[p]},
                       edits |-> bundle["index"].edits]
    [] f = "log" -> Append(bundle["log"], p)
    [] OTHER -> <<p, revision>>]

\* The journal is written before the first file changes.
Prepare(c) == LET p == client[c].proposal IN
  /\ client[c].pc = "prepare" /\ Len(bundle["log"]) < MaxLog
  /\ journal' = [journal EXCEPT ![p] =
       [text |-> client[c].text, expected |-> client[c].version[2],
        final |-> client[c].final,
        before |-> [f \in ToSet(FilesOf(p)) |-> bundle[f]],
        after |-> Results(p, client[c].text)]]
  /\ Becomes(c, [client[c] EXCEPT !.pc = "write", !.text = 0])
  /\ UNCHANGED <<record, candidate, bundle, lock, events, history>>

\* Mutant of RollBack: the journal is removed and nothing restored.
RollBackSkipped(c) ==
  Becomes(c, [client[c] EXCEPT !.pc = "remove", !.step = 1, !.then = "refuse"])

\* Undo the transaction and return an error.
RollBack(c) ==
  Becomes(c, [client[c] EXCEPT !.pc = "restore", !.step = 1, !.then = "refuse"])

\* Mutant of CompareCanonical: the file is not compared with its snapshot.
CompareNothing(c) ==
  /\ client[c].pc = "write"
  /\ Becomes(c, [client[c] EXCEPT !.pc = "replace"])
  /\ Compared({FilesOf(client[c].proposal)[client[c].step]})
  /\ UNCHANGED <<inbox, bundle, lock, events>>

\* The next file must still be what the snapshot says.
CompareCanonical(c) == LET p == client[c].proposal
                           f == FilesOf(p)[client[c].step] IN
  /\ client[c].pc = "write"
  /\ IF bundle[f] = journal[p].before[f]
     THEN Becomes(c, [client[c] EXCEPT !.pc = "replace"])
     ELSE RollBack(c)
  /\ Compared({f})
  /\ UNCHANGED <<inbox, bundle, lock, events>>

\* It is written beside the file, synced and renamed over it.
WriteCanonical(c) == LET p == client[c].proposal
                         f == FilesOf(p)[client[c].step] IN
  /\ client[c].pc = "replace"
  /\ bundle' = [bundle EXCEPT ![f] = journal[p].after[f]]
  /\ Becomes(c, [client[c] EXCEPT
       !.pc = IF client[c].step = 3 THEN "commit" ELSE "write",
       !.step = IF client[c].step = 3 THEN 1 ELSE client[c].step + 1])
  /\ Written(p, f)
  /\ UNCHANGED <<inbox, lock, events>>

\* The record's rename is the commit.  (The journal's stage, rewritten just
\* before, is never read.)
Commit(c) ==
  /\ client[c].pc = "commit"
  /\ record' = Accepted(client[c].proposal)
  /\ Becomes(c, [client[c] EXCEPT !.pc = "remove", !.then = "accept"])
  /\ UNCHANGED <<candidate, journal, bundle, lock, events, history>>

-----------------------------------------------------------------------------
(* Failures, crashes and the hands of others.                              *)

\* A read or a write fails: a started acceptance is rolled back, anything
\* else just ends.  A failed restore or removal leaves the journal.
Fail(c) ==
  /\ \/ /\ client[c].pc \in {"write", "replace", "commit"}
        /\ RollBack(c)
        /\ UNCHANGED lock
     \/ /\ client[c].pc \in {"recover", "version", "load", "prepare", "reject",
                             "restore", "undo", "remove", "confirm"}
        /\ Return(c, FALSE)
  /\ UNCHANGED <<inbox, bundle, events, history>>

\* The record is renamed, its directory cannot be synced: the write is an
\* error, and the acceptance is rolled back although it is recorded.
CommitFailsLate(c) == LET p == client[c].proposal IN
  /\ client[c].pc = "commit"
  /\ events < MaxEvents /\ events' = events + 1
  /\ record' = Accepted(p)
  /\ RollBack(c)
  /\ late' = late \union {p}
  /\ UNCHANGED <<candidate, journal, bundle, lock, disturbed, slipped, raced>>

Crash(c) ==
  /\ client[c].pc # "idle"
  /\ Becomes(c, Idle)
  /\ lock' = IF lock = c THEN Nobody ELSE lock
  /\ UNCHANGED <<inbox, bundle, events, history>>

\* Somebody edits a file of the bundle without the lock.
Edit(f) ==
  /\ events < MaxEvents /\ events' = events + 1
  /\ \/ /\ f = "index"
        /\ bundle' = [bundle EXCEPT !["index"].edits = bundle["index"].edits + 1]
     \/ /\ f = "log" /\ Len(bundle["log"]) < MaxLog
        /\ bundle' = [bundle EXCEPT !["log"] = Append(bundle["log"], Editor)]
     \/ /\ f \in Existing
        /\ bundle' = [bundle EXCEPT ![f] = Editor]
  /\ Disturbs(None, f)
  /\ raced' = raced \union (IF \E c \in Clients : f \in Pending(c) THEN {f} ELSE {})
  /\ UNCHANGED <<inbox, lock, client, late, slipped>>

\* An acceptance of p has read its candidate and is not cleared away.
Started(p) ==
  \/ journal[p] # None
  \/ \E c \in Clients : client[c].pc = "prepare" /\ client[c].proposal = p

\* A Decide has compared the version of p and not computed the next one.
Versioning(p) == \E c \in Clients : client[c].pc = "version" /\ client[c].proposal = p

\* Somebody rewrites a candidate in the inbox, never back to an old text.
ReviseCandidate(p) ==
  /\ record[p] # None /\ events < MaxEvents /\ events' = events + 1
  /\ candidate' = [candidate EXCEPT ![p] = candidate[p] + 1]
  /\ disturbed' = disturbed \union (IF Started(p) THEN {p} ELSE {})
  /\ slipped' = slipped \union (IF Versioning(p) THEN {p} ELSE {})
  /\ UNCHANGED <<record, journal, bundle, lock, client, late, raced>>

ClientNext(c) ==
  \/ \E r \in Requests : Describe(c, r[1], r[2])
  \/ LockInbox(c) \/ RecoverForward(c) \/ RecoverBack(c)
  \/ CompareAll(c) \/ Restore(c) \/ CheckRestored(c) \/ RemoveJournal(c)
  \/ Replay(c) \/ Refuse(c) \/ StartDecision(c) \/ ComputeVersion(c)
  \/ Reject(c) \/ Confirm(c) \/ LoadCandidate(c) \/ Prepare(c)
  \/ CompareCanonical(c) \/ WriteCanonical(c) \/ Commit(c)
  \/ Fail(c) \/ CommitFailsLate(c) \/ Crash(c)

Next ==
  \/ \E c \in Clients : ClientNext(c)
  \/ \E p \in Proposals : Propose(p)
  \/ \E p \in Revisable : ReviseCandidate(p)
  \/ \E f \in Files : Edit(f)

Spec == Init /\ [][Next]_vars

-----------------------------------------------------------------------------
(* Properties.                                                             *)

\* What a file of the bundle, or a snapshot of it, may hold.
Fits(f, content) ==
  CASE f = "index" -> content \in IndexFile
    [] f = "log" -> content \in LogFile
    [] OTHER -> content \in Text

\* A record has an audit exactly when it is decided, and an open journal
\* belongs to a proposal nobody rejected (decision_transaction.go:159).
TypeOK ==
  /\ \A p \in Proposals :
       /\ record[p] # None =>
            /\ record[p] \in Record
            /\ record[p].status = "proposed" <=> record[p].audit = None
       /\ candidate[p] \in Revisions
       /\ journal[p] # None =>
            /\ record[p].status # "rejected"
            /\ journal[p].text \in Nat /\ journal[p].expected \in Nat
            /\ \A f \in ToSet(FilesOf(p)) :
                 Fits(f, journal[p].before[f]) /\ Fits(f, journal[p].after[f])
  /\ \A f \in Files : Fits(f, bundle[f])
  /\ lock \in Clients \union {Nobody} /\ events \in 0..MaxEvents
  /\ client \in [Clients -> Call]
  /\ \A c \in Clients : lock = c <=> client[c].pc \notin {"idle", "lock"}

\* A recorded decision is never changed or withdrawn, by whatever retries,
\* recoveries and concurrent requests (decision.go:112, "writes exactly one
\* immutable audit record").
DecisionFinal == [][
  \A p \in Proposals :
    record[p] # None /\ record[p].status \in Verdicts => record'[p] = record[p]]_vars

\* What Decide answered is what the record says for ever: the verdict, and the
\* candidate its VersionAfter was computed from is the one that was accepted.
\* It is the one its caller had reviewed unless it was revised after Decide
\* compared the versions and before it computed VersionAfter
\* (decision.go:138-173, :196).
AnswerIsTrue ==
  \A c \in Clients : client[c].answer =>
    LET r == record[client[c].proposal] IN
    /\ r.status = client[c].verdict
    /\ r.audit.text = r.audit.final
    /\ client[c].proposal \notin slipped => r.audit.text = client[c].version[2]

\* How many lines of log.md are about e.
Lines(log, e) == Cardinality({i \in DOMAIN log : log[i] = e})

IsAccepted(p) == record[p] # None /\ record[p].status = "accepted"

\* Decisions are atomic: without an open journal, and of a proposal whose
\* transaction met no other writer half way, log.md has one line if it is
\* accepted and none otherwise, and index.md lists the documents there are.  An
\* acceptance whose record was renamed by a write that failed is rolled back
\* all the same (proposal.go:224): it may be recorded and have no line.
BundleAgrees ==
  (\A p \in Proposals : journal[p] = None) =>
    /\ \A p \in Proposals \ disturbed :
         \/ Lines(bundle["log"], p) = IF IsAccepted(p) THEN 1 ELSE 0
         \/ p \in late /\ IsAccepted(p) /\ Lines(bundle["log"], p) = 0
    /\ disturbed = {} => bundle["index"].listed = Existing

\* What hands wrote into index.md or log.md.
HandEdits(f) ==
  IF f = "index" THEN bundle["index"].edits ELSE Lines(bundle["log"], Editor)

\* What a hand wrote into index.md or log.md before a write, rollback or recovery
\* compared that file is never discarded, whatever became of the transaction
\* since (decision_transaction.go:191, :235); what is written between the
\* comparison and the rename over the file may be.
EditsKept == [][
  \A f \in {"index", "log"} : HandEdits(f)' >= HandEdits(f) \/ f \in raced]_vars

\* The decision is durable: no rollback or recovery takes an accepted
\* document back to what it replaced (decision.go:69, "DecisionAudit is the
\* durable, immutable record of one successful review decision").
AcceptedStays == [][
  \A p \in Proposals :
    (record[p] # None /\ record[p].status = "accepted"
       /\ bundle[Target[p]] = <<p, record[p].audit.text>>)
      => bundle'[Target[p]] # record[p].base]_vars
=============================================================================
