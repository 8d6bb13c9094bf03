---------------------------- MODULE UserInstall ----------------------------
(***************************************************************************)
(* The user-level installer of agent assets                                *)
(* (internal/setup/user_skills.go).  Installers of any version and for any *)
(* clients share the user's home and one ownership manifest.  A plan is    *)
(* reviewed without the lock; Apply takes the state lock, reads the        *)
(* manifest once, plans again, rechecks every destination right before it  *)
(* writes it, rechecks the unchanged ones and the manifest, and writes the *)
(* manifest last.  A failure undoes the writes from memory: there is no    *)
(* journal, and a process that dies undoes nothing.  The user edits the    *)
(* same files, and a program that does not take the lock may change the    *)
(* manifest.                                                               *)
(*                                                                         *)
(* A destination holds a body (what some version installs there), Foreign  *)
(* bytes, or is NoFile; a checksum stands for the body it digests.        *)
(* Directories, links and modes are left out.  Destinations are visited in *)
(* any order; the code visits them sorted.                                 *)
(***************************************************************************)
EXTENDS Naturals

CONSTANTS
    Installers,     \* processes
    Assets,         \* destinations under the clients' roots
    Client,         \* Client[a]: the client whose root holds a
    Legacy,         \* the destinations of retired skills
    Versions,       \* package versions
    Body,           \* Body[v][a]: what version v installs at a
    LegacyBody,     \* the exact body of a retired skill
    Foreign,        \* any bytes Prowl did not write
    NoFile,         \* no file
    Nobody,         \* no process, no record, no plan
    MaxUserEvents   \* bound: calls, failed operations, crashes, outside changes

Bodies   == {Body[v][a] : v \in Versions, a \in Assets}
Contents == Bodies \cup {LegacyBody, Foreign, NoFile}
Clients  == {Client[a] : a \in Assets}

\* The manifest among the destinations an outside change is noted for.
ManifestFile == "manifest"

ASSUME InstallAssumption ==
    /\ Nobody \notin Installers
    /\ ManifestFile \notin Assets
    /\ Foreign \notin Bodies \cup {LegacyBody, NoFile}

VARIABLES
    file,           \* file[a]: what the destination holds
    manifest,       \* manifest[a]: the body recorded as Prowl's, or Nobody
    userLock,       \* who holds prowl-agent.lock
    stage,          \* what an installer does next
    call,           \* the reviewed plan of its current call
    prior,          \* the manifest it read under the lock
    todo,           \* destinations its present stage still has to visit
    hand,           \* the destination between its recheck and its write
    saved,          \* what the destinations it wrote held before
    late,           \* history: changed from outside since the holder's last check
                    \* of it, or left behind by an undo that failed
    start,          \* history: the files when the lock was taken last
    userEvents      \* how many of the bounded events happened

callVars == <<stage, call, prior, todo, hand, saved>>
userVars  == <<file, manifest, userLock, callVars, late, start, userEvents>>

(***************************************************************************)
(* Planning.                                                               *)
(***************************************************************************)

(* Mutant of Classify: a file with a record is Prowl's whatever its bytes are. *)
ClassifyTrusting(a, v, records) ==
    CASE a \in Legacy /\ file[a] = NoFile       -> "none"
      [] a \in Legacy /\ file[a] = LegacyBody   -> "remove"
      [] a \notin Legacy /\ file[a] = NoFile    -> "install"
      [] a \notin Legacy /\ file[a] # NoFile /\ records[a] # Nobody ->
            IF file[a] = Body[v][a] THEN "unchanged" ELSE "update"
      [] OTHER                                  -> "conflict"

\* classifyUserDest: the one decision about a destination, given the records.
Classify(a, v, records) ==
    CASE a \in Legacy /\ file[a] = NoFile                  -> "none"
      [] a \in Legacy /\ file[a] = LegacyBody               -> "remove"
      [] a \notin Legacy /\ file[a] = NoFile               -> "install"
      [] a \notin Legacy /\ file[a] # NoFile /\ records[a] # Nobody
            /\ file[a] = Body[v][a]                         -> "unchanged"
      [] a \notin Legacy /\ file[a] # NoFile /\ records[a] # Nobody
            /\ file[a] = records[a] /\ file[a] # Body[v][a] -> "update"
      [] OTHER                                              -> "conflict"

Candidates(clients) == {a \in Assets : Client[a] \in clients}

Plan(v, clients, records) ==
    [version |-> v, clients |-> clients,
     kind |-> [a \in Candidates(clients) |-> Classify(a, v, records)]]

Of(c, kinds) == {a \in DOMAIN call[c].kind : call[c].kind[a] \in kinds}

(***************************************************************************)
(* Initial state and helpers.                                              *)
(***************************************************************************)

UserInit ==
    /\ file \in [Assets -> {NoFile, Foreign, LegacyBody}]
    /\ \A a \in Assets : file[a] = LegacyBody => a \in Legacy
    /\ manifest = [a \in Assets |-> Nobody]
    /\ userLock = Nobody
    /\ stage = [c \in Installers |-> "idle"]
    /\ call = [c \in Installers |-> Nobody]
    /\ prior = [c \in Installers |-> Nobody]
    /\ todo = [c \in Installers |-> {}]
    /\ hand = [c \in Installers |-> Nobody]
    /\ saved = [c \in Installers |-> <<>>]
    /\ late = {} /\ start = file
    /\ userEvents = 0

UserEvent == userEvents < MaxUserEvents /\ userEvents' = userEvents + 1

\* A write that fails has, or has not, replaced the file.
TriedWrite(how) == IF how = "ok" THEN UNCHANGED userEvents ELSE UserEvent

WriteOutcomes == {"ok", "before", "after"}

GotoStage(c, next, rest) ==
    /\ stage' = [stage EXCEPT ![c] = next]
    /\ todo' = [todo EXCEPT ![c] = rest]

\* The call ends and the state lock is free again.
ReturnUser(c) ==
    /\ GotoStage(c, "idle", {})
    /\ userLock' = IF userLock = c THEN Nobody ELSE userLock
    /\ call' = [call EXCEPT ![c] = Nobody]
    /\ prior' = [prior EXCEPT ![c] = Nobody]
    /\ hand' = [hand EXCEPT ![c] = Nobody]
    /\ saved' = [saved EXCEPT ![c] = <<>>]

\* rollbackUser: everything written so far is to be undone.
Undo(c) == GotoStage(c, "undo", DOMAIN saved[c])

Save(c, a, old) ==
    saved' = [saved EXCEPT ![c] = [b \in DOMAIN @ \cup {a} |-> IF b = a THEN old ELSE @[b]]]

(***************************************************************************)
(* An installer's steps.                                                   *)
(***************************************************************************)

\* PlanUserSkills: the preview the user approves.
PlanUserSkills(c, v, clients) ==
    /\ stage[c] = "idle"
    /\ UserEvent
    /\ call' = [call EXCEPT ![c] = Plan(v, clients, manifest)]
    /\ GotoStage(c, "wait", {})
    /\ UNCHANGED <<file, manifest, userLock, prior, hand, saved, late, start>>

\* The state lock, the one manifest read and the plan made from it; a plan that
\* is no longer the reviewed one ends the call.  One step: nothing is written and
\* every file is read once, so a change by others in between is one before this
\* step, if the file is read after it, or one after it.
Begin(c) ==
    /\ stage[c] = "wait" /\ userLock = Nobody
    /\ IF Plan(call[c].version, call[c].clients, manifest) = call[c]
       THEN /\ userLock' = c
            /\ prior' = [prior EXCEPT ![c] = manifest]
            /\ late' = {} /\ start' = file
            /\ GotoStage(c, "recheck", Of(c, {"install", "update", "remove"}))
            /\ UNCHANGED <<call, hand, saved>>
       ELSE ReturnUser(c) /\ UNCHANGED <<late, start>>
    /\ UNCHANGED <<file, manifest, userEvents>>

\* Another installer keeps the lock for five seconds.
GiveUpUser(c) ==
    /\ stage[c] = "wait" /\ userLock # Nobody
    /\ ReturnUser(c)
    /\ UNCHANGED <<file, manifest, late, userEvents, start>>

\* recheckAction: the destination is still classified as in the plan.
Unmoved(c, a) == Classify(a, call[c].version, prior[c]) = call[c].kind[a]

\* Right before a write.
Recheck(c, a) ==
    /\ stage[c] = "recheck" /\ a \in todo[c]
    /\ IF Unmoved(c, a)
       THEN /\ GotoStage(c, "write", todo[c] \ {a})
            /\ hand' = [hand EXCEPT ![c] = a]
            /\ late' = late \ {a}
       ELSE Undo(c) /\ UNCHANGED <<hand, late>>
    /\ UNCHANGED <<file, manifest, userLock, call, prior, saved, userEvents, start>>

(* Mutant of Write: a write that fails is not among those to undo. *)
WriteForgotten(c) ==
    /\ stage[c] = "write"
    /\ LET asset == hand[c]
           new == IF call[c].kind[asset] = "remove" THEN NoFile ELSE Body[call[c].version][asset] IN
       \E how \in WriteOutcomes :
           /\ TriedWrite(how)
           /\ file' = IF how = "before" THEN file ELSE [file EXCEPT ![asset] = new]
           /\ IF how = "ok" THEN GotoStage(c, "recheck", todo[c]) /\ Save(c, asset, file[asset])
                            ELSE Undo(c) /\ UNCHANGED saved
    /\ hand' = [hand EXCEPT ![c] = Nobody]
    /\ UNCHANGED <<manifest, userLock, call, prior, late, start>>

\* The old bytes are saved in memory and the file is replaced, or removed.  A
\* removal reads the bytes once more and refuses any that are not the exact
\* retired body.
Write(c) ==
    /\ stage[c] = "write"
    /\ LET asset == hand[c]
           removal == call[c].kind[asset] = "remove"
           new == IF removal THEN NoFile ELSE Body[call[c].version][asset] IN
       \/ \E how \in WriteOutcomes :
           /\ removal => file[asset] \in {LegacyBody, NoFile} /\ how # "after"
           /\ TriedWrite(how)
           /\ file' = IF how = "before" THEN file ELSE [file EXCEPT ![asset] = new]
           /\ Save(c, asset, file[asset])
           /\ IF how = "ok" THEN GotoStage(c, "recheck", todo[c])
                            ELSE GotoStage(c, "undo", DOMAIN saved[c] \cup {asset})
       \/ /\ removal /\ file[asset] \notin {LegacyBody, NoFile}
          /\ Save(c, asset, file[asset])
          /\ GotoStage(c, "undo", DOMAIN saved[c] \cup {asset})
          /\ UNCHANGED <<file, userEvents>>
    /\ hand' = [hand EXCEPT ![c] = Nobody]
    /\ UNCHANGED <<manifest, userLock, call, prior, late, start>>

\* Every write is done: the unchanged destinations are checked in one pass.
BeginFinal(c) ==
    /\ stage[c] = "recheck" /\ todo[c] = {}
    /\ GotoStage(c, "final", Of(c, {"unchanged"}))
    /\ UNCHANGED <<file, manifest, userLock, call, prior, hand, saved, late, userEvents, start>>

FinalCheck(c, a) ==
    /\ stage[c] = "final" /\ a \in todo[c]
    /\ IF Unmoved(c, a) THEN GotoStage(c, "final", todo[c] \ {a}) /\ late' = late \ {a}
                        ELSE Undo(c) /\ UNCHANGED late
    /\ UNCHANGED <<file, manifest, userLock, call, prior, hand, saved, userEvents, start>>

\* manifestMatchesSnapshot: nobody changed the manifest since it was read.
MatchManifest(c) ==
    /\ stage[c] = "final" /\ todo[c] = {}
    /\ IF manifest = prior[c] THEN GotoStage(c, "commit", {}) /\ late' = late \ {ManifestFile}
                              ELSE Undo(c) /\ UNCHANGED late
    /\ UNCHANGED <<file, manifest, userLock, call, prior, hand, saved, userEvents, start>>

(* Mutant of mergeUserManifest: the manifest is made from this plan alone. *)
mergeUserManifestAlone(c) ==
    [a \in Assets |-> IF a \in Of(c, {"install", "update", "unchanged"})
                      THEN Body[call[c].version][a] ELSE Nobody]

\* mergeUserManifest: the plan's assets over the records that were there.
mergeUserManifest(c) ==
    [a \in Assets |->
        CASE a \in Of(c, {"install", "update", "unchanged"}) -> Body[call[c].version][a]
          [] a \in Of(c, {"remove"})                         -> Nobody
          [] OTHER                                           -> prior[c][a]]

Commit(c) ==
    /\ stage[c] = "commit"
    /\ \E how \in WriteOutcomes :
        /\ TriedWrite(how)
        /\ manifest' = IF how = "before" THEN manifest ELSE mergeUserManifest(c)
        /\ IF how = "ok" THEN ReturnUser(c)
           ELSE /\ Save(c, ManifestFile, prior[c])
                /\ GotoStage(c, "undo", DOMAIN saved[c] \cup {ManifestFile})
                /\ UNCHANGED <<userLock, call, prior, hand>>
    /\ UNCHANGED <<file, late, start>>

\* rollback: old bytes back, one after the other; a step that fails is reported
\* and the others are still taken.
UndoOne(c, a) ==
    /\ stage[c] = "undo" /\ a \in todo[c]
    /\ \E how \in WriteOutcomes :
        /\ TriedWrite(how)
        /\ file' = IF how = "before" \/ a = ManifestFile THEN file
                   ELSE [file EXCEPT ![a] = saved[c][a]]
        /\ manifest' = IF how = "before" \/ a # ManifestFile THEN manifest ELSE saved[c][a]
        /\ late' = IF how = "before" THEN late \cup {a} ELSE late
    /\ GotoStage(c, "undo", todo[c] \ {a})
    /\ UNCHANGED <<userLock, call, prior, hand, saved, start>>

EndUndo(c) ==
    /\ stage[c] = "undo" /\ todo[c] = {}
    /\ ReturnUser(c)
    /\ UNCHANGED <<file, manifest, late, userEvents, start>>

\* The process dies: its lock is free, nothing is undone.
CrashUser(c) ==
    /\ stage[c] # "idle" /\ UserEvent
    /\ ReturnUser(c)
    /\ UNCHANGED <<file, manifest, late, start>>

(***************************************************************************)
(* Around the installers.                                                  *)
(***************************************************************************)

\* The user writes or deletes one of the files.
EditAsset(a) ==
    /\ UserEvent
    /\ \E b \in {Foreign, NoFile} \ {file[a]} : file' = [file EXCEPT ![a] = b]
    /\ late' = late \cup {a}
    /\ UNCHANGED <<manifest, userLock, callVars, start>>

\* A program that does not take the lock changes one record.
ChangeRecord(a) ==
    /\ UserEvent
    /\ \E b \in ({Body[v][a] : v \in Versions} \cup {Nobody}) \ {manifest[a]} :
         manifest' = [manifest EXCEPT ![a] = b]
    /\ late' = late \cup {ManifestFile}
    /\ UNCHANGED <<file, userLock, callVars, start>>

UserStep(c) ==
    \/ Begin(c) \/ GiveUpUser(c) \/ Write(c) \/ BeginFinal(c) \/ MatchManifest(c) \/ Commit(c)
    \/ EndUndo(c)
    \/ \E a \in Assets : Recheck(c, a) \/ FinalCheck(c, a) \/ UndoOne(c, a)
    \/ UndoOne(c, ManifestFile)

UserNext ==
    \/ \E c \in Installers :
          \/ UserStep(c) \/ CrashUser(c)
          \/ \E v \in Versions, clients \in SUBSET Clients \ {{}} : PlanUserSkills(c, v, clients)
    \/ \E a \in Assets : EditAsset(a) \/ ChangeRecord(a)

UserSpec == UserInit /\ [][UserNext]_userVars

(***************************************************************************)
(* Properties.                                                             *)
(***************************************************************************)

\* Bytes Prowl did not write are never overwritten or removed by an installer,
\* unless they appeared after the installer checked that destination for the
\* last time -- by a write, by a removal and by the undoing of either.
ForeignBytesKept ==
    [][\A a \in Assets : file[a] = Foreign /\ file'[a] # Foreign => a \in late']_userVars

\* A manifest that is committed is true: what it records for the assets of its
\* plan is what the files hold, apart from changes after their last check.
CommitIsTrue ==
    [][\A c \in Installers : stage[c] = "commit" /\ manifest' = mergeUserManifest(c) /\ stage'[c] = "idle" =>
         \A a \in DOMAIN call[c].kind \ late :
            call[c].kind[a] \in {"install", "update", "unchanged"} => file[a] = manifest'[a]]_userVars

\* Ownership recorded for other clients, by other installers or from outside,
\* survives: a step of an installer changes a record only for the assets of its
\* own plan, unless the record changed after the manifest was compared.
OwnershipKept ==
    [][\A c \in Installers : stage[c] \in {"commit", "undo"} /\ manifest' # manifest =>
         \/ ManifestFile \in late'
         \/ \A a \in Assets \ DOMAIN call[c].kind : manifest'[a] = manifest[a]]_userVars

\* What the manifest says of every asset, of the own plan and of the others'.
RecordIsTrue == CommitIsTrue /\ OwnershipKept

\* Neither other people's bytes nor other clients' records are lost to an install.
OthersKept == ForeignBytesKept /\ RecordIsTrue

\* An install that fails leaves no trace, apart from what it reports it could
\* not undo and from outside changes: every file is what it was when the lock
\* was taken and the manifest is the one read then.
UndoRestores ==
    [][\A c \in Installers : EndUndo(c) =>
         /\ \A a \in Assets \ late : file[a] = start[a]
         /\ ManifestFile \notin late => manifest = prior[c]]_userVars
=============================================================================
