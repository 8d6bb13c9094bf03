------------------------- MODULE SetupTransaction -------------------------
(***************************************************************************)
(* The project setup of prowl-agent (internal/setup/service.go): a caller  *)
(* reviews a plan, then Apply validates it, takes the setup lock, rolls    *)
(* back whatever an earlier process left behind, records a journal with    *)
(* the old bytes of every file it is going to touch, writes the files one  *)
(* by one, verifies them, records the request as applied and removes the   *)
(* journal.  A failure on the way rolls the journal back.  The processes   *)
(* that call Apply may die at any step; the files are also changed by      *)
(* RemoveIntegrations, which takes no lock, and by the user.               *)
(*                                                                         *)
(* Data.  A destination holds the user's part (text, 0 when there is none) *)
(* and Prowl's (block).  Reading one file, merging it and renaming the new *)
(* file over it is one step.  A hash is the tuple of what it digests.      *)
(* Symbolic links appear only as writes that fail.                         *)
(***************************************************************************)
EXTENDS Naturals, Sequences, SequencesExt

CONSTANTS
    Callers,        \* processes that run setup commands
    Keys,           \* idempotency keys
    Paths,          \* integration destinations
    Dirs,           \* directories setup may create
    Top,            \* the project root, which always exists
    Folder,         \* Folder[p]: the directory of destination p
    Above,          \* Above[d]: the directories on the way to d, d included
    ReplayFolder,   \* the directory of the replay file (.prowl)
    Kind,           \* Kind[p]: how a destination is written
    Selections,     \* the integration selections, as sequences of destinations
    Texts,          \* user contents of a file; 0 is none
    Retired,        \* the text of an exact copy of a retired skill
    None,
    MaxEvents       \* bound: calls, failed operations, crashes, outside changes

Kinds == {"block", "whole", "seed", "retired"}

ASSUME SetupAssumption ==
    /\ Top \notin Dirs
    /\ None \notin Callers
    /\ Folder \in [Paths -> Dirs \cup {Top}]
    /\ Above \in [Dirs \cup {Top} -> SUBSET Dirs]
    /\ ReplayFolder \in Dirs
    /\ Kind \in [Paths -> Kinds]
    /\ Selections \subseteq Seq(Paths)
    /\ Texts \subseteq Nat /\ 0 \in Texts /\ Retired \in Texts

VARIABLES
    files,      \* files[p]: what the destination holds
    dirs,       \* the directories that exist
    clutter,    \* directories that hold something setup does not know of
    config,     \* the version of .prowl/config.toml
    journal,    \* .prowl-setup-transaction.json, or None
    replays,    \* .prowl/setup-applies.json: the request applied under a key
    lock,       \* who holds .prowl-setup.lock
    pc,         \* what a caller does next
    req,        \* the request of its current call
    txn,        \* its transaction, in memory
    at,         \* the position it has reached in the destinations
    answered,   \* the request its last call reported as applied, or None
    touched,    \* history: files changed from outside since the last snapshot
    unsynced,   \* history: requests the replay file got by a write that failed
    events      \* how many of the bounded events happened

disk   == <<files, dirs, clutter, config, journal, replays>>
caller == <<pc, req, txn, at, answered>>
history == <<touched, unsynced>>
vars   == <<disk, lock, caller, history, events>>

Content == [text : Texts, block : BOOLEAN]
Absent  == [text |-> 0, block |-> FALSE]

\* A reviewed request: the selection and the destinations Plan showed for it,
\* bound to the configuration.
Request == [key : Keys, sel : Selections, actions : SUBSET Paths, version : Nat]

(***************************************************************************)
(* Plans.                                                                  *)
(***************************************************************************)

\* A retired copy is planned for removal only while its bytes are exact.
Planned(p) == Kind[p] = "retired" => files[p] = [text |-> Retired, block |-> FALSE]

Actions(sel) == {p \in ToSet(sel) : Planned(p)}

\* The request still describes the project: its hash and version match.
Current(r) == r.version = config /\ r.actions = Actions(r.sel)

\* What one action leaves in its file.  A whole file replaces the user's
\* text; a seed is written only where nothing is.
Merged(p) ==
    CASE Kind[p] = "block"   -> [text |-> files[p].text, block |-> TRUE]
      [] Kind[p] = "whole"   -> [text |-> 0, block |-> TRUE]
      [] Kind[p] = "seed"    -> IF files[p] = Absent
                                THEN [text |-> 0, block |-> TRUE] ELSE files[p]
      [] Kind[p] = "retired" -> Absent

\* A retired copy that was edited is never removed: the action fails.
Writable(p) == Kind[p] = "retired" => Planned(p) \/ files[p] = Absent

\* What verification looks for: Prowl's name in the file, or no file.
Applied(p) == IF Kind[p] = "retired" THEN files[p] = Absent ELSE files[p].block

(***************************************************************************)
(* Directories.                                                            *)
(***************************************************************************)

Missing(d) == Above[d] \ dirs

\* Parents are made from the outermost one.
Outermost(d, missing) == d \in missing /\ (Above[d] \ {d}) \cap missing = {}

Deepest(d, made) == d \in made /\ \A e \in made \ {d} : d \notin Above[e]

Empty(d) == /\ d \notin clutter
            /\ \A p \in Paths : d \in Above[Folder[p]] => files[p] = Absent
            /\ \A e \in dirs \ {d} : d \notin Above[e]
            /\ d \in Above[ReplayFolder] => \A k \in Keys : replays[k] = None

(***************************************************************************)
(* Initial states: a project with or without the directories, without      *)
(* Prowl's blocks.                                                         *)
(***************************************************************************)

Transaction == [request : Request, snap : UNION {[P -> Content] : P \in SUBSET Paths},
                old : [Keys -> Request \cup {None}], made : SUBSET Dirs]

ASSUME NoneAssumption == None \notin Request \cup Transaction

Init ==
    /\ dirs \in {D \in SUBSET Dirs : \A d \in D : Above[d] \subseteq D}
    /\ files \in [Paths -> {Absent, [text |-> Retired, block |-> FALSE]}]
    /\ \A p \in Paths : files[p] # Absent => Above[Folder[p]] \subseteq dirs
    /\ clutter = {} /\ config = 0
    /\ journal = None
    /\ replays = [k \in Keys |-> None]
    /\ lock = None
    /\ pc = [c \in Callers |-> "idle"]
    /\ req = [c \in Callers |-> None]
    /\ txn = [c \in Callers |-> None]
    /\ at = [c \in Callers |-> 1]
    /\ answered = [c \in Callers |-> None]
    /\ touched = {} /\ unsynced = {}
    /\ events = 0

(***************************************************************************)
(* Steps of a caller.                                                      *)
(***************************************************************************)

Goto(c, stage) == pc' = [pc EXCEPT ![c] = stage]

Event == events < MaxEvents /\ events' = events + 1

\* The file is changed by somebody who does not hold the lock.
Touch(p) == touched' = touched \cup {p} /\ UNCHANGED unsynced

\* How an operation on the disk ends.  A write that fails has either not been
\* renamed into place, or has and its directory could not be synced.
Outcomes == {"ok", "before", "after"}

Tried(how) ==
    \/ how = "ok" /\ UNCHANGED events
    \/ how # "ok" /\ Event

\* The call returns; the lock, when it holds it, is released.
Return(c, answer) ==
    /\ Goto(c, "idle")
    /\ answered' = [answered EXCEPT ![c] = answer]
    /\ lock' = IF lock = c THEN None ELSE lock
    /\ txn' = [txn EXCEPT ![c] = None]
    /\ at' = [at EXCEPT ![c] = 1]
    /\ req' = [req EXCEPT ![c] = None]

Fail(c) == Return(c, None)

\* The call goes on: stage is next, position i of the destinations.
Continue(c, stage, i) ==
    /\ Goto(c, stage)
    /\ at' = [at EXCEPT ![c] = i]
    /\ UNCHANGED <<lock, req, answered>>

\* Plan: read the project, show the reviewer the actions.  Nothing is written.
Review(c, k, sel) ==
    /\ pc[c] = "idle"
    /\ Event
    /\ req' = [req EXCEPT ![c] = [key |-> k, sel |-> sel, actions |-> Actions(sel),
                                 version |-> config]]
    /\ answered' = [answered EXCEPT ![c] = None]
    /\ Goto(c, "peek")
    /\ UNCHANGED <<disk, lock, txn, at, history>>

\* Apply, before the lock: is a journal there?
PeekJournal(c) ==
    /\ pc[c] = "peek"
    /\ Goto(c, IF journal = None THEN "precheck" ELSE "wait")
    /\ UNCHANGED <<disk, lock, req, txn, at, answered, history, events>>

\* What a recorded key answers: the outcome of the same request, a conflict
\* for another one.
Replayed(c) == IF replays[req[c].key] = req[c] THEN req[c] ELSE None

\* No journal was there: answer a recorded key, refuse a stale plan, still
\* without the lock.
Precheck(c) ==
    /\ pc[c] = "precheck"
    /\ \/ replays[req[c].key] # None /\ Return(c, Replayed(c))
       \/ /\ replays[req[c].key] = None /\ ~Current(req[c])
          /\ Fail(c)
       \/ /\ replays[req[c].key] = None /\ Current(req[c])
          /\ Continue(c, "wait", 1) /\ UNCHANGED txn
    /\ UNCHANGED <<disk, history, events>>

Lock(c) ==
    /\ pc[c] = "wait" /\ lock = None
    /\ lock' = c
    /\ Goto(c, "recover")
    /\ UNCHANGED <<disk, req, txn, at, answered, history, events>>

\* Five seconds or the context ran out.
GiveUp(c) ==
    /\ pc[c] = "wait" /\ lock # None
    /\ Fail(c)
    /\ UNCHANGED <<disk, history, events>>

\* The journal's own request is recorded: only its removal was missing.
Recorded == replays[journal.request.key] = journal.request

(* Mutant of Recover: a journal is rolled back, recorded or not. *)
RecoverRecorded(c) ==
    /\ pc[c] = "recover"
    /\ \/ journal = None /\ Continue(c, "check", 1) /\ UNCHANGED txn
       \/ /\ journal # None
          /\ txn' = [txn EXCEPT ![c] = journal]
          /\ Continue(c, "restore", 1)
    /\ UNCHANGED <<disk, history, events>>

\* recoverInterruptedTransactionInRoot: the start of the critical section.
Recover(c) ==
    /\ pc[c] = "recover"
    /\ \/ /\ journal = None
          /\ Continue(c, "check", 1) /\ UNCHANGED <<txn, journal, events>>
       \/ \E how \in {"ok", "before"} :
          /\ journal # None /\ Recorded /\ Tried(how)
          /\ journal' = IF how = "before" THEN journal ELSE None
          /\ IF how = "ok" THEN Continue(c, "check", 1) /\ UNCHANGED txn
                           ELSE Fail(c)
       \/ /\ journal # None /\ ~Recorded
          /\ txn' = [txn EXCEPT ![c] = journal]
          /\ Continue(c, "restore", 1) /\ UNCHANGED <<journal, events>>
    /\ UNCHANGED <<files, dirs, clutter, config, replays, history>>

(* Mutant of Check: what was checked before the lock is not checked again. *)
CheckUnrepeated(c) ==
    /\ pc[c] = "check"
    /\ txn' = [txn EXCEPT ![c] =
                 [request |-> req[c], snap |-> [p \in req[c].actions |-> files[p]],
                  old |-> replays, made |-> {}]]
    /\ Continue(c, "open", 1) /\ touched' = {} /\ UNCHANGED unsynced
    /\ UNCHANGED <<disk, events>>

\* The same two checks again under the lock, then the old bytes of every
\* destination and of the replay file are read.
Check(c) ==
    /\ pc[c] = "check"
    /\ \/ /\ replays[req[c].key] # None
          /\ Return(c, Replayed(c)) /\ UNCHANGED history
       \/ /\ replays[req[c].key] = None /\ ~Current(req[c])
          /\ Fail(c) /\ UNCHANGED history
       \/ /\ replays[req[c].key] = None /\ Current(req[c])
          /\ txn' = [txn EXCEPT ![c] =
                       [request |-> req[c], snap |-> [p \in req[c].actions |-> files[p]],
                        old |-> replays, made |-> {}]]
          /\ Continue(c, "open", 1) /\ touched' = {} /\ UNCHANGED unsynced
    /\ UNCHANGED <<disk, events>>

(* Mutant of Open: a journal that could not be saved does not end the call. *)
OpenUnsaved(c) ==
    /\ pc[c] = "open"
    /\ \E how \in Outcomes :
        /\ Tried(how)
        /\ journal' = IF how = "before" THEN journal ELSE txn[c]
    /\ Continue(c, "apply", 1)
    /\ UNCHANGED <<files, dirs, clutter, config, replays, txn, history>>

\* The journal is durable before the first write.  A journal that cannot be
\* saved ends the call; one that was renamed stays.
Open(c) ==
    /\ pc[c] = "open"
    /\ \E how \in Outcomes :
        /\ Tried(how)
        /\ journal' = IF how = "before" THEN journal ELSE txn[c]
        /\ IF how = "ok" THEN Continue(c, "apply", 1) /\ UNCHANGED txn
                         ELSE Fail(c)
    /\ UNCHANGED <<files, dirs, clutter, config, replays, history>>

\* The destinations of the transaction are taken in the order of the selection:
\* the positions left, the next one, and the directory its write needs.
Left(c) == {i \in DOMAIN txn[c].request.sel :
              at[c] <= i /\ txn[c].request.sel[i] \in txn[c].request.actions}
Finished(c) == Left(c) = {}
Position(c) == CHOOSE i \in Left(c) : \A j \in Left(c) : i <= j
Target(c) == txn[c].request.sel[Position(c)]
NextFolder(c) == IF Finished(c) THEN ReplayFolder ELSE Folder[Target(c)]

\* applyActionsInRoot and the replay file after it make parents first, and
\* journal each one they made.
Ready(c) == Missing(NextFolder(c)) = {}

Mkdir(c) ==
    /\ pc[c] \in {"apply", "record"} /\ ~(pc[c] = "apply" /\ Finished(c))
    /\ \E d \in Dirs :
        /\ Outermost(d, Missing(NextFolder(c)))
        /\ dirs' = dirs \cup {d}
        /\ txn' = [txn EXCEPT ![c].made = @ \cup {d}]
    /\ Goto(c, "mark")
    /\ UNCHANGED <<files, clutter, config, journal, replays, lock, req, at, answered,
                   history, events>>

Mark(c) ==
    /\ pc[c] = "mark"
    /\ \E how \in Outcomes :
        /\ Tried(how)
        /\ journal' = IF how = "before" THEN journal ELSE txn[c]
        /\ IF how = "ok" THEN Continue(c, IF Finished(c) THEN "record" ELSE "apply", at[c])
                         ELSE Continue(c, "restore", 1)
    /\ UNCHANGED <<files, dirs, clutter, config, replays, txn, history>>

\* One action: merge and write, or remove, its file.
Apply(c) ==
    /\ pc[c] = "apply" /\ ~Finished(c) /\ Ready(c)
    /\ \/ \E how \in Outcomes :
          /\ Writable(Target(c)) /\ Tried(how)
          /\ files' = IF how = "before" THEN files
                      ELSE [files EXCEPT ![Target(c)] = Merged(Target(c))]
          /\ IF how = "ok" THEN Continue(c, "apply", Position(c) + 1)
                           ELSE Continue(c, "restore", 1)
       \/ /\ ~Writable(Target(c))
          /\ Continue(c, "restore", 1) /\ UNCHANGED <<files, events>>
    /\ UNCHANGED <<dirs, clutter, config, journal, replays, txn, history>>

(* Mutant of Verify: it comes before the last action and looks at nothing. *)
VerifyEarly(c) ==
    /\ pc[c] = "apply" /\ ~Finished(c) /\ Left(c) = {Position(c)}
    /\ Continue(c, "record", Position(c) + 1)
    /\ UNCHANGED <<disk, txn, history, events>>

Verify(c) ==
    /\ pc[c] = "apply" /\ Finished(c)
    /\ IF \A p \in txn[c].request.actions : Applied(p)
       THEN Continue(c, "record", at[c]) ELSE Continue(c, "restore", 1)
    /\ UNCHANGED <<disk, txn, history, events>>

\* saveReplays: the commit point.  A replay file that was renamed into place
\* and whose directory could not be synced is rolled back like one that was not.
Record(c) ==
    /\ pc[c] = "record" /\ Ready(c)
    /\ \E how \in Outcomes :
        /\ Tried(how)
        /\ replays' = IF how = "before" THEN replays
                      ELSE [txn[c].old EXCEPT ![req[c].key] = req[c]]
        /\ unsynced' = CASE how = "ok"     -> unsynced \ {req[c]}
                         [] how = "before" -> unsynced
                         [] how = "after"  -> unsynced \cup {req[c]}
        /\ IF how = "ok" THEN Continue(c, "close", 1) ELSE Continue(c, "restore", 1)
    /\ UNCHANGED <<files, dirs, clutter, config, journal, txn, touched>>

\* A journal that cannot be removed makes the call fail although the request
\* is recorded; the next call removes it.
Close(c) ==
    /\ pc[c] = "close"
    /\ \E how \in {"ok", "before"} :
        /\ Tried(how)
        /\ journal' = IF how = "before" THEN journal ELSE None
        /\ Return(c, IF how = "ok" THEN req[c] ELSE None)
    /\ UNCHANGED <<files, dirs, clutter, config, replays, history>>

(* Mutant of Restore: a file that could not be restored is passed over. *)
RestorePassed(c) ==
    /\ pc[c] = "restore" /\ ~Finished(c)
    /\ \E how \in Outcomes :
        /\ Tried(how)
        /\ files' = IF how = "before" THEN files
                    ELSE [files EXCEPT ![Target(c)] = txn[c].snap[Target(c)]]
    /\ Continue(c, "restore", Position(c) + 1)
    /\ UNCHANGED <<dirs, clutter, config, journal, replays, txn, history>>

\* Rollback: the old bytes in the order of the actions, the replay file last.
\* A step that fails ends the call and leaves the journal.
Restore(c) ==
    /\ pc[c] = "restore" /\ ~Finished(c)
    /\ \E how \in Outcomes :
        /\ Tried(how)
        /\ files' = IF how = "before" THEN files
                    ELSE [files EXCEPT ![Target(c)] = txn[c].snap[Target(c)]]
        /\ IF how = "ok" THEN Continue(c, "restore", Position(c) + 1) /\ UNCHANGED txn
                         ELSE Fail(c)
    /\ UNCHANGED <<dirs, clutter, config, journal, replays, history>>

RestoreReplays(c) ==
    /\ pc[c] = "restore" /\ Finished(c)
    /\ \E how \in Outcomes :
        /\ Tried(how)
        /\ replays' = IF how = "before" THEN replays ELSE txn[c].old
        /\ IF how = "ok" THEN Continue(c, "undir", at[c]) /\ UNCHANGED txn
                         ELSE Fail(c)
    /\ UNCHANGED <<files, dirs, clutter, config, journal, history>>

\* Then the directories the transaction made, the deepest first; one that is
\* not empty ends the call and leaves the journal.
Undir(c) ==
    /\ pc[c] = "undir"
    /\ \E d \in Dirs :
        /\ Deepest(d, txn[c].made)
        /\ IF d \in dirs /\ ~Empty(d)
           THEN Fail(c) /\ UNCHANGED dirs
           ELSE /\ dirs' = dirs \ {d}
                /\ txn' = [txn EXCEPT ![c].made = @ \ {d}]
                /\ Continue(c, "undir", at[c])
    /\ UNCHANGED <<files, clutter, config, journal, replays, history, events>>

\* The journal goes last.  Whoever rolled it back reports a failure.
Drop(c) ==
    /\ pc[c] = "undir" /\ txn[c].made = {}
    /\ \E how \in {"ok", "before"} :
        /\ Tried(how)
        /\ journal' = IF how = "before" THEN journal ELSE None
    /\ Fail(c)
    /\ UNCHANGED <<files, dirs, clutter, config, replays, history>>

(***************************************************************************)
(* What happens around the calls.                                          *)
(***************************************************************************)

\* The directory a caller is writing a temporary file in, if any.
WritesIn(c) ==
    CASE pc[c] = "apply" /\ ~Finished(c) /\ Ready(c)    -> {Folder[Target(c)]}
      [] pc[c] = "record" /\ Ready(c)                    -> {ReplayFolder}
      [] pc[c] = "restore" /\ ~Finished(c)
            /\ txn[c].snap[Target(c)] # Absent           -> {Folder[Target(c)]}
      [] OTHER -> {}

\* The process dies: the system frees its lock, the disk stays as it is, and a
\* temporary file may stay in the directory it was writing to.
Crash(c) ==
    /\ pc[c] # "idle"
    /\ Event
    /\ \E left \in {{}, WritesIn(c) \ {Top}} : clutter' = clutter \cup left
    /\ Fail(c)
    /\ UNCHANGED <<files, dirs, config, journal, replays, history>>

\* RemoveIntegrations, without the lock: one destination after the other.
StartRemoval(c, sel) ==
    /\ pc[c] = "idle"
    /\ Event
    /\ req' = [req EXCEPT ![c] = [key |-> None, sel |-> sel, actions |-> {}, version |-> 0]]
    /\ answered' = [answered EXCEPT ![c] = None]
    /\ Goto(c, "remove")
    /\ at' = [at EXCEPT ![c] = 1]
    /\ UNCHANGED <<disk, lock, txn, history>>

\* Prowl's block goes and the user's text stays; a file Prowl wrote whole goes
\* only while its bytes are Prowl's.
Owned(p) == CASE Kind[p] = "block"            -> TRUE
              [] Kind[p] \in {"whole", "seed"} -> files[p] \in {Absent, [text |-> 0, block |-> TRUE]}
              [] Kind[p] = "retired"          -> Writable(p)

RemoveNext(c) ==
    /\ pc[c] = "remove" /\ at[c] <= Len(req[c].sel)
    /\ LET p == req[c].sel[at[c]] IN
       IF Owned(p)
       THEN /\ files' = [files EXCEPT ![p] = IF Kind[p] = "block"
                                             THEN [text |-> files[p].text, block |-> FALSE]
                                             ELSE Absent]
            /\ Touch(p)
            /\ Continue(c, "remove", at[c] + 1) /\ UNCHANGED txn
       ELSE Fail(c) /\ UNCHANGED <<files, history>>
    /\ UNCHANGED <<dirs, clutter, config, journal, replays, events>>

EndRemoval(c) ==
    /\ pc[c] = "remove" /\ at[c] > Len(req[c].sel)
    /\ Fail(c)
    /\ UNCHANGED <<disk, history, events>>

\* The user, or another program: edits or deletes a file, puts something of
\* theirs in a directory, changes the project's configuration.
Edit(p) ==
    /\ Event
    /\ Above[Folder[p]] \subseteq dirs
    /\ \E t \in Texts \ {files[p].text} : files' = [files EXCEPT ![p].text = t]
    /\ Touch(p)
    /\ UNCHANGED <<dirs, clutter, config, journal, replays, lock, caller>>

Delete(p) ==
    /\ Event
    /\ files[p] # Absent
    /\ files' = [files EXCEPT ![p] = Absent]
    /\ Touch(p)
    /\ UNCHANGED <<dirs, clutter, config, journal, replays, lock, caller>>

Clutter(d) ==
    /\ Event
    /\ d \in dirs \ clutter
    /\ clutter' = clutter \cup {d}
    /\ UNCHANGED <<files, dirs, config, journal, replays, lock, caller, history>>

Configure ==
    /\ Event
    /\ config' = config + 1
    /\ UNCHANGED <<files, dirs, clutter, journal, replays, lock, caller, history>>

Step(c) ==
    \/ PeekJournal(c) \/ Precheck(c) \/ Lock(c) \/ GiveUp(c) \/ Recover(c) \/ Check(c)
    \/ Open(c) \/ Mkdir(c) \/ Mark(c) \/ Apply(c) \/ Verify(c) \/ Record(c) \/ Close(c)
    \/ Restore(c) \/ RestoreReplays(c) \/ Undir(c) \/ Drop(c)
    \/ RemoveNext(c) \/ EndRemoval(c)

Next ==
    \/ \E c \in Callers :
          \/ Step(c) \/ Crash(c)
          \/ \E sel \in Selections : StartRemoval(c, sel) \/ \E k \in Keys : Review(c, k, sel)
    \/ \E p \in Paths : Edit(p) \/ Delete(p)
    \/ \E d \in Dirs : Clutter(d)
    \/ Configure

Spec == Init /\ [][Next]_vars

(***************************************************************************)
(* Properties.                                                             *)
(***************************************************************************)

Stages == {"idle", "peek", "precheck", "wait", "recover", "check", "open", "apply", "mark",
           "record", "close", "restore", "undir", "remove"}

\* Every variable keeps its type.
TypeOK ==
    /\ files \in [Paths -> Content]
    /\ dirs \subseteq Dirs /\ clutter \subseteq Dirs
    /\ config \in Nat
    /\ journal \in Transaction \cup {None}
    /\ replays \in [Keys -> Request \cup {None}]
    /\ lock \in Callers \cup {None}
    /\ pc \in [Callers -> Stages]
    /\ txn \in [Callers -> Transaction \cup {None}]
    /\ at \in [Callers -> Nat]
    /\ answered \in [Callers -> Request \cup {None}]
    /\ touched \subseteq Paths /\ unsynced \subseteq Request
    /\ events \in Nat

\* Setup is a transaction: whatever fails, dies or interleaves, a block of
\* Prowl's in a file was either put there by a request that is recorded as
\* applied, or is covered by a journal that will take it out again.
EveryBlockAccounted ==
    \A p \in Paths : files[p].block =>
        \/ \E k \in Keys : replays[k] # None /\ p \in replays[k].actions
        \/ journal # None /\ p \in DOMAIN journal.snap

\* A journal that is given up was rolled back completely: every file nobody
\* else has changed since holds its old bytes, the directories the transaction
\* journaled are gone, and the recorded requests are the old ones.
RollbackRestores ==
    [][journal # None /\ journal' = None /\ ~Recorded =>
         /\ \A p \in DOMAIN journal.snap \ touched : files[p] = journal.snap[p]
         /\ journal.made \cap dirs = {}
         /\ replays = journal.old]_vars

\* A journal whose request is recorded is of a finished transaction: taking it
\* for applied, as recovery does, is right for every file nobody else touched.
\* The exception is a request that was recorded by a write reported as failed:
\* it is rolled back all the same (service.go:345), and a process that dies
\* meanwhile leaves the files half restored.
CommittedIsComplete ==
    journal # None /\ Recorded /\ journal.request \notin unsynced =>
        \A p \in journal.request.actions \ touched : Applied(p)

\* Whether what was answered under a request's key is still what is recorded.
Lasts(r) == /\ replays[r.key] = r
            /\ journal # None /\ ~Recorded => journal.old[r.key] = r

\* A caller told that its request is applied was told something that lasts: no
\* rollback, by whichever process, takes the record away again.  The exception
\* is a record by a failed write that a call without the lock read
\* (service.go:263) before its rollback took it away.
AnswerIsDurable ==
    \A c \in Callers : answered[c] # None /\ answered[c] \notin unsynced => Lasts(answered[c])

\* What holds of a transaction at every moment, whoever dies in the middle of it.
TransactionSound == EveryBlockAccounted /\ CommittedIsComplete /\ AnswerIsDurable

\* A recorded request is never run a second time, not even by a caller that
\* looked before the first run began.
AppliedOnce ==
    [][journal' # journal /\ journal' # None =>
         replays[journal'.request.key] = None]_vars
=============================================================================
