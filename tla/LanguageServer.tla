--------------------------- MODULE LanguageServer ---------------------------
(***************************************************************************)
(* The language server: internal/lsp/server.go with the watcher goroutine   *)
(* of internal/cli/lsp.go.  The read loop handles one notification at a     *)
(* time; the watcher refreshes the index on its own.  Both reserve an id    *)
(* before they refresh and apply the outcome only if no later id has been   *)
(* given, and both compute and send diagnostics, under the shared lock of   *)
(* the index (generationReadGuard) that a commit waits for.                 *)
(*                                                                         *)
(* A version of the worktree is a number; "index" is the version the        *)
(* published rows were derived from, "shown" the version the diagnostics an *)
(* editor shows for a document were computed from.                          *)
(***************************************************************************)
EXTENDS Naturals, Sequences

CONSTANTS Documents, Nothing,
          Outcomes,                \* of a refresh: BOOLEAN, or {TRUE} without failures
          MaxFileEdits, MaxMessages    \* bounds of the runs

VARIABLES disk, edits,      \* the version on disk, and how many there were
          index, published, \* index_state = complete
          outcome,          \* outcome of every id, in order; its length is nextRefresh
          healthy,          \* indexErr = nil
          docs, shown,
          noticed, watching,  \* the watcher has an event pending; it runs
          task, messages

editorVars == <<disk, edits, index, published, outcome, healthy, docs, shown, noticed, watching, task, messages>>

Tasks == {"loop", "watcher"}
Resting == [pc |-> "idle", id |-> 0, todo |-> {}, doc |-> Nothing, seen |-> 0]

EditorInit ==
    /\ disk = 0 /\ edits = 0 /\ index = 0 /\ published = TRUE
    /\ outcome = <<>> /\ healthy = TRUE
    /\ docs = {} /\ shown = [u \in Documents |-> Nothing]
    /\ noticed = FALSE /\ watching = TRUE
    /\ task = [t \in Tasks |-> Resting] /\ messages = 0

At(t, pc) == task[t].pc = pc
Becomes(t, k) == task' = [task EXCEPT ![t] = k]
GoTo(t, pc) == Becomes(t, [task[t] EXCEPT !.pc = pc])
Newest == Len(outcome)

(* Someone edits a file, in the editor or elsewhere, and the watches, which  *)
(* are in place, report it. *)
EditFile ==
    /\ edits < MaxFileEdits
    /\ disk' = disk + 1 /\ edits' = edits + 1
    /\ noticed' = watching
    /\ UNCHANGED <<index, published, outcome, healthy, docs, shown, watching, task, messages>>
-----------------------------------------------------------------------------
(* Messages of the editor *)

Message ==
    /\ At("loop", "idle") /\ messages < MaxMessages
    /\ messages' = messages + 1
    /\ UNCHANGED <<disk, edits, index, published, healthy, shown, noticed, watching>>

DidOpen(u) ==
    /\ Message
    /\ docs' = docs \cup {u}
    /\ Becomes("loop", [Resting EXCEPT !.pc = "publish", !.todo = {u}])
    /\ UNCHANGED outcome

DidClose(u) ==
    /\ Message /\ u \in docs
    /\ docs' = docs \ {u}
    /\ Becomes("loop", [Resting EXCEPT !.pc = "clear", !.doc = u])
    /\ UNCHANGED outcome

(* BeginIndexRefresh *)
DidSave(u) ==
    /\ Message /\ u \in docs
    /\ outcome' = Append(outcome, "running")
    /\ Becomes("loop", [Resting EXCEPT !.pc = "refresh", !.id = Newest + 1, !.todo = {u}])
    /\ UNCHANGED docs

Clear ==
    /\ At("loop", "clear")
    /\ shown' = [shown EXCEPT ![task["loop"].doc] = Nothing]
    /\ Becomes("loop", Resting)
    /\ UNCHANGED <<disk, edits, index, published, outcome, healthy, docs, noticed, watching, messages>>
-----------------------------------------------------------------------------
(* The watcher *)

(* The debounced callback. *)
Notice ==
    /\ At("watcher", "idle") /\ watching /\ noticed
    /\ noticed' = FALSE
    /\ outcome' = Append(outcome, "running")
    /\ Becomes("watcher", [Resting EXCEPT !.pc = "refresh", !.id = Newest + 1])
    /\ UNCHANGED <<disk, edits, index, published, healthy, docs, shown, watching, messages>>

(* index.Watch fails; SetIndexError. *)
WatchStops ==
    /\ At("watcher", "idle") /\ watching /\ FALSE \in Outcomes
    /\ watching' = FALSE /\ noticed' = FALSE
    /\ outcome' = Append(outcome, "failed")
    /\ Becomes("watcher", [Resting EXCEPT !.pc = "complete", !.id = Newest + 1])
    /\ UNCHANGED <<disk, edits, index, published, healthy, docs, shown, messages>>
-----------------------------------------------------------------------------
(* A refresh, its completion and the diagnostics after it *)

Reading == \E t \in Tasks : At(t, "send")

(* A refresh that fails before it has the lock leaves the index published. *)
Reindex(t) ==
    \E ok \in Outcomes :
        /\ published' \in IF ok THEN {TRUE} ELSE {published, FALSE}
        /\ index' = IF ok THEN disk ELSE index
        /\ outcome' = [outcome EXCEPT ![task[t].id] = IF ok THEN "ok" ELSE "failed"]

(* Mutant of Refresh: the commit does not wait for readers. *)
RefreshUnguarded(t) ==
    /\ At(t, "refresh")
    /\ Reindex(t)
    /\ GoTo(t, "complete")
    /\ UNCHANGED <<disk, edits, healthy, docs, shown, noticed, watching, messages>>

(* The commit has the index to itself. *)
Refresh(t) ==
    /\ At(t, "refresh") /\ ~Reading
    /\ Reindex(t)
    /\ GoTo(t, "complete")
    /\ UNCHANGED <<disk, edits, healthy, docs, shown, noticed, watching, messages>>

(* The read loop publishes for the saved document, the watcher for every     *)
(* open one.                                                                 *)
Publishing(t) == IF t = "loop" THEN "publish" ELSE "copy"

(* Mutant of Complete: the outcome is applied whatever was begun since. *)
CompleteAnyway(t) ==
    /\ At(t, "complete")
    /\ LET ok == outcome[task[t].id] = "ok" IN
       /\ healthy' = ok
       /\ Becomes(t, IF ok THEN [task[t] EXCEPT !.pc = Publishing(t)] ELSE Resting)
    /\ UNCHANGED <<disk, edits, index, published, outcome, docs, shown, noticed, watching, messages>>

(* CompleteIndexRefresh *)
Complete(t) ==
    /\ At(t, "complete")
    /\ LET newest == task[t].id = Newest
           ok     == outcome[task[t].id] = "ok" IN
       /\ healthy' = IF newest THEN ok ELSE healthy
       /\ Becomes(t, IF newest /\ ok THEN [task[t] EXCEPT !.pc = Publishing(t)]
                                       ELSE Resting)
    /\ UNCHANGED <<disk, edits, index, published, outcome, docs, shown, noticed, watching, messages>>

(* RepublishOpen lists the documents that are open by then. *)
RepublishOpen ==
    /\ At("watcher", "copy")
    /\ Becomes("watcher", [task["watcher"] EXCEPT !.pc = "publish", !.todo = docs])
    /\ UNCHANGED <<disk, edits, index, published, outcome, healthy, docs, shown, noticed, watching, messages>>

(* beginRead: the health is looked at before the guard is waited for. *)
CheckHealth(t) ==
    /\ At(t, "publish") /\ task[t].todo # {}
    /\ \E u \in task[t].todo :
          Becomes(t, [task[t] EXCEPT !.todo = @ \ {u}, !.doc = u,
                                     !.pc = IF healthy THEN "guard" ELSE "publish"])
    /\ UNCHANGED <<disk, edits, index, published, outcome, healthy, docs, shown, noticed, watching, messages>>

(* The guard is taken; an unpublished generation is not read. *)
Compute(t) ==
    /\ At(t, "guard")
    /\ Becomes(t, [task[t] EXCEPT !.pc = IF published THEN "send" ELSE "publish", !.seen = index])
    /\ UNCHANGED <<disk, edits, index, published, outcome, healthy, docs, shown, noticed, watching, messages>>

Send(t) ==
    /\ At(t, "send")
    /\ shown' = [shown EXCEPT ![task[t].doc] = task[t].seen]
    /\ GoTo(t, "publish")
    /\ UNCHANGED <<disk, edits, index, published, outcome, healthy, docs, noticed, watching, messages>>

EndPublish(t) ==
    /\ At(t, "publish") /\ task[t].todo = {}
    /\ Becomes(t, Resting)
    /\ UNCHANGED <<disk, edits, index, published, outcome, healthy, docs, shown, noticed, watching, messages>>

EditorNext ==
    \/ EditFile \/ Clear \/ Notice \/ WatchStops \/ RepublishOpen
    \/ \E u \in Documents : DidOpen(u) \/ DidClose(u) \/ DidSave(u)
    \/ \E t \in Tasks : \/ Refresh(t) \/ Complete(t) \/ CheckHealth(t)
                        \/ Compute(t) \/ Send(t) \/ EndPublish(t)

EditorSpec == EditorInit /\ [][EditorNext]_editorVars
-----------------------------------------------------------------------------
Idle(t) == At(t, "idle")

(* Refreshes end in any order, yet once the newest one has ended the server *)
(* answers, or refuses to, by that one: an older failure does not outlive a *)
(* newer success, nor an older success hide a newer failure                 *)
(* (server.go:50-75).                                                       *)
HealthIsNewest ==
    (\A t \in Tasks : task[t].pc \in {"refresh", "complete"} => task[t].id # Newest) =>
        healthy = (Newest = 0 \/ outcome[Newest] = "ok")

(* The diagnostics of a document never go back to an older index, although  *)
(* the read loop and the watcher compute and send them at the same time: a  *)
(* commit waits until what was computed is sent (handlers.go:250-278).      *)
DiagnosticsAdvance ==
    [][\A u \in Documents :
         shown[u] # Nothing /\ shown'[u] # Nothing => shown'[u] >= shown[u]]_editorVars
=============================================================================
