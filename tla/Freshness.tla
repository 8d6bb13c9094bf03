------------------------------ MODULE Freshness ------------------------------
(***************************************************************************)
(* How a long-running MCP server keeps the index current between requests  *)
(* (internal/cli/freshness.go, internal/index/watch.go).                   *)
(*                                                                         *)
(* A watcher goroutine only flags that something changed; the next request *)
(* re-indexes before it is served.  Watchers are suspended after an idle   *)
(* period, may fail, and are started again by the request that follows.    *)
(* f.mu makes every access to dirty, cancel and watcherID one step;        *)
(* f.callGate lets one request at a time check and re-index.               *)
(*                                                                         *)
(* The tree is the number of its edits, the index the number of the edit   *)
(* it was derived from: a refresh captures the tree at one instant (see    *)
(* GenerationCoexisted in IndexGeneration).                                *)
(***************************************************************************)
EXTENDS Naturals

CONSTANTS
    Calls,      \* request goroutines
    None,       \* no call
    MaxEdits,   \* bound on edits
    MaxCalls    \* bound on requests, and so on restarts of the watcher

ASSUME FreshnessAssumption ==
    /\ None \notin Calls
    /\ MaxEdits \in Nat
    /\ MaxCalls \in Nat

VARIABLES
    source,     \* edits made so far
    indexed,    \* the edit the published index reflects
    dirty,      \* freshness.dirty
    running,    \* freshness.cancel # nil
    watcherID,  \* freshness.watcherID
    watchers,   \* the two goroutines started for each watcherID
    idled,      \* has f.idle passed since f.last?
    callGate,   \* the request in f.callGate, or None
    pc,         \* where each request is
    snap,       \* the edit its re-index has captured
    served,     \* requests started (bounded by MaxCalls)
    stopping,   \* stop() was called
    missed,     \* history: an edit after the last capture, before addTree returned
    flagged,    \* history: the last edit known to the flag
    due         \* history: what each request has to answer from

shared == <<dirty, running, watcherID, watchers, idled>>
ghosts == <<missed, flagged, due>>
vars == <<source, indexed, dirty, running, watcherID, watchers, idled, callGate,
          pc, snap, served, stopping, missed, flagged, due>>

IDs == 1 .. MaxCalls + 1
\* Watch before its watches are registered, waiting for an event, with its
\* debounce timer running, returned with an error, and gone.
Alive  == {"starting", "watching", "pending"}
States == Alive \cup {"none", "failed", "ended"}
Watcher == [state : States, cancelled : BOOLEAN, loop : BOOLEAN]

NoWatcher  == [state |-> "none", cancelled |-> FALSE, loop |-> FALSE]
NewWatcher == [state |-> "starting", cancelled |-> FALSE, loop |-> TRUE]

\* start(): the index is fresh from the start-up refresh.
Init ==
    /\ source = 0
    /\ indexed = 0
    /\ dirty = FALSE
    /\ running = TRUE
    /\ watcherID = 1
    /\ watchers = [id \in IDs |-> IF id = 1 THEN NewWatcher ELSE NoWatcher]
    /\ idled = FALSE
    /\ callGate = None
    /\ pc = [c \in Calls |-> "idle"]
    /\ snap = [c \in Calls |-> 0]
    /\ served = 0
    /\ stopping = FALSE
    /\ missed = FALSE
    /\ flagged = 0
    /\ due = [c \in Calls |-> 0]

-----------------------------------------------------------------------------
(* The editor and the clock.                                               *)

\* Every registered watch receives the event and (re)starts its timer.
Edit ==
    /\ source < MaxEdits
    /\ source' = source + 1
    /\ watchers' = [id \in IDs |->
                      IF watchers[id].state = "watching"
                      THEN [watchers[id] EXCEPT !.state = "pending"] ELSE watchers[id]]
    /\ missed' = (missed \/ (running /\ watchers[watcherID].state = "starting"))
    /\ UNCHANGED <<indexed, dirty, running, watcherID, idled, callGate, pc, snap,
                   served, stopping, flagged, due>>

\* Nothing keeps f.idle from passing while a request waits or re-indexes.
IdlePasses ==
    /\ ~idled
    /\ idled' = TRUE
    /\ UNCHANGED <<source, indexed, dirty, running, watcherID, watchers, callGate, pc,
                   snap, served, stopping, ghosts>>

-----------------------------------------------------------------------------
(* The goroutines of a watcher.                                            *)

Only(id) == UNCHANGED <<source, indexed, watcherID, idled, callGate, pc, snap, served, stopping, due>>

\* addTree has registered every directory.
Register(id) ==
    /\ watchers[id].state = "starting"
    /\ watchers' = [watchers EXCEPT ![id].state = "watching"]
    /\ UNCHANGED <<dirty, running, missed, flagged>>
    /\ Only(id)

\* No event for the debounce interval: onChange raises the flag.  A cancelled
\* watcher may still do so, select chooses between two ready channels.
TimerFires(id) ==
    /\ watchers[id].state = "pending"
    /\ watchers' = [watchers EXCEPT ![id].state = "watching"]
    /\ dirty' = TRUE
    /\ flagged' = source
    /\ UNCHANGED <<running, missed>>
    /\ Only(id)

WatchEnds(id) ==
    /\ watchers[id].cancelled
    /\ watchers[id].state \in Alive
    /\ watchers' = [watchers EXCEPT ![id].state = "ended"]
    /\ UNCHANGED <<dirty, running, missed, flagged>>
    /\ Only(id)

\* addTree or the event stream fails; from here on events are not received.
WatchFails(id) ==
    /\ watchers[id].state \in Alive
    /\ watchers' = [watchers EXCEPT ![id].state = "failed"]
    /\ UNCHANGED <<dirty, running, missed, flagged>>
    /\ Only(id)

\* A new watcher becomes the current one.  f.mu is held.
StartWatcher ==
    /\ watcherID' = watcherID + 1
    /\ watchers' = [watchers EXCEPT ![watcherID + 1] = NewWatcher]
    /\ running' = TRUE

\* Mutant of HandleFailure: a failed watcher is forgotten but not cancelled.
HandleFailureUncancelled(id) ==
    /\ watchers[id].state = "failed"
    /\ watchers' = [watchers EXCEPT ![id].state = "ended"]
    /\ IF watcherID = id /\ running
       THEN running' = FALSE /\ dirty' = TRUE /\ flagged' = source
       ELSE UNCHANGED <<running, dirty, flagged>>
    /\ UNCHANGED missed
    /\ Only(id)

\* The current watcher's failure suspends it and forces a re-index; that of an
\* older one, or of one already suspended, is ignored.
HandleFailure(id) ==
    /\ watchers[id].state = "failed"
    /\ IF watcherID = id /\ running
       THEN /\ watchers' = [watchers EXCEPT ![id].state = "ended", ![id].cancelled = TRUE]
            /\ running' = FALSE
            /\ dirty' = TRUE
            /\ flagged' = source
       ELSE /\ watchers' = [watchers EXCEPT ![id].state = "ended"]
            /\ UNCHANGED <<running, dirty, flagged>>
    /\ UNCHANGED missed
    /\ Only(id)

\* idleLoop suspends the current watcher and returns ...
Suspend(id) ==
    /\ watchers[id].loop
    /\ running
    /\ idled
    /\ watchers' = [i \in IDs |->
                      [watchers[i] EXCEPT !.cancelled = @ \/ i = watcherID,
                                          !.loop = @ /\ i # id]]
    /\ running' = FALSE
    /\ UNCHANGED <<dirty, missed, flagged>>
    /\ Only(id)

\* ... or returns because its watcher was cancelled.
LoopEnds(id) ==
    /\ watchers[id].loop
    /\ watchers[id].cancelled
    /\ watchers' = [watchers EXCEPT ![id].loop = FALSE]
    /\ UNCHANGED <<dirty, running, missed, flagged>>
    /\ Only(id)

-----------------------------------------------------------------------------
(* onCall.                                                                 *)

\* A request returns, with its answer or an error; its locals disappear.
Return(c) ==
    /\ pc' = [pc EXCEPT ![c] = "idle"]
    /\ snap' = [snap EXCEPT ![c] = 0]
    /\ due' = [due EXCEPT ![c] = 0]

StartCall(c) ==
    /\ pc[c] = "idle"
    /\ ~stopping
    /\ served < MaxCalls
    /\ served' = served + 1
    /\ pc' = [pc EXCEPT ![c] = "gate"]
    /\ due' = [due EXCEPT ![c] = IF running THEN flagged ELSE source]
    /\ UNCHANGED <<source, indexed, shared, callGate, snap, stopping, missed, flagged>>

\* The request's context is cancelled while it waits.
GiveUp(c) ==
    /\ pc[c] = "gate"
    /\ Return(c)
    /\ UNCHANGED <<source, indexed, shared, callGate, served, stopping, missed, flagged>>

\* Mutant of TakeGate: requests do not wait for the one that re-indexes.
TakeGateShared(c) ==
    /\ pc[c] = "gate"
    /\ callGate' = c
    /\ pc' = [pc EXCEPT ![c] = "check"]
    /\ UNCHANGED <<source, indexed, shared, snap, served, stopping, ghosts>>

TakeGate(c) ==
    /\ pc[c] = "gate"
    /\ callGate = None
    /\ callGate' = c
    /\ pc' = [pc EXCEPT ![c] = "check"]
    /\ UNCHANGED <<source, indexed, shared, snap, served, stopping, ghosts>>

\* Resumed from idle or from a failure: start a watcher and re-index.
Resume(c) ==
    /\ pc[c] = "check"
    /\ ~running
    /\ idled' = FALSE
    /\ dirty' = FALSE
    /\ StartWatcher
    /\ pc' = [pc EXCEPT ![c] = "reindex"]
    /\ UNCHANGED <<source, indexed, callGate, snap, served, stopping, ghosts>>

\* The watcher is running: re-index if it has raised the flag.
CheckDirty(c) ==
    /\ pc[c] = "check"
    /\ running
    /\ idled' = FALSE
    /\ dirty' = FALSE
    /\ pc' = [pc EXCEPT ![c] = IF dirty THEN "reindex" ELSE "answer"]
    /\ callGate' = IF dirty THEN callGate ELSE None
    /\ UNCHANGED <<source, indexed, running, watcherID, watchers, snap, served, stopping, ghosts>>

\* Project.Refresh: the pre-walk of the attempt that will be committed.
Capture(c) ==
    /\ pc[c] = "reindex"
    /\ pc' = [pc EXCEPT ![c] = "captured"]
    /\ snap' = [snap EXCEPT ![c] = source]
    /\ missed' = FALSE
    /\ UNCHANGED <<source, indexed, shared, callGate, served, stopping, flagged, due>>

Publish(c) ==
    /\ pc[c] = "captured"
    /\ indexed' = snap[c]
    /\ callGate' = None
    /\ pc' = [pc EXCEPT ![c] = "answer"]
    /\ UNCHANGED <<source, shared, snap, served, stopping, ghosts>>

\* Mutant of ReindexFails: the flag that was cleared is not raised again.
ReindexFailsUnflagged(c) ==
    /\ pc[c] \in {"reindex", "captured"}
    /\ callGate' = None
    /\ Return(c)
    /\ UNCHANGED <<source, indexed, shared, served, stopping, missed, flagged>>

\* A failed re-index raises the flag again; the request fails.
ReindexFails(c) ==
    /\ pc[c] \in {"reindex", "captured"}
    /\ dirty' = TRUE
    /\ callGate' = None
    /\ Return(c)
    /\ UNCHANGED <<source, indexed, running, watcherID, watchers, idled, served,
                   stopping, missed, flagged>>

Answer(c) ==
    /\ pc[c] = "answer"
    /\ Return(c)
    /\ UNCHANGED <<source, indexed, shared, callGate, served, stopping, missed, flagged>>

\* stop(), called once the server no longer accepts requests.
Stop ==
    /\ ~stopping
    /\ \A c \in Calls : pc[c] = "idle"
    /\ stopping' = TRUE
    /\ running' = FALSE
    /\ watchers' = [watchers EXCEPT ![watcherID].cancelled = @ \/ running]
    /\ UNCHANGED <<source, indexed, dirty, watcherID, idled, callGate, pc, snap, served, ghosts>>

-----------------------------------------------------------------------------
Scheduled(id) == TimerFires(id) \/ WatchEnds(id) \/ HandleFailure(id) \/ LoopEnds(id)

Next ==
    \/ Edit \/ IdlePasses \/ Stop
    \/ \E id \in IDs : Register(id) \/ WatchFails(id) \/ Suspend(id) \/ Scheduled(id)
    \/ \E c \in Calls :
          \/ StartCall(c) \/ GiveUp(c) \/ TakeGate(c) \/ Resume(c) \/ CheckDirty(c)
          \/ Capture(c) \/ Publish(c) \/ ReindexFails(c) \/ Answer(c)

Spec == Init /\ [][Next]_vars

\* Goroutines with a ready channel are scheduled.
FairSpec == Spec /\ \A id \in IDs : WF_vars(Scheduled(id)) /\ WF_vars(WatchEnds(id))

-----------------------------------------------------------------------------
(* Properties.                                                             *)

\* Types; watcherID \in IDs says that requests alone start watchers.
TypeOK ==
    /\ source \in Nat /\ indexed \in Nat /\ served \in Nat /\ flagged \in Nat
    /\ dirty \in BOOLEAN /\ running \in BOOLEAN /\ idled \in BOOLEAN
    /\ stopping \in BOOLEAN /\ missed \in BOOLEAN
    /\ watcherID \in IDs
    /\ watchers \in [IDs -> Watcher]
    /\ callGate \in Calls \cup {None}
    /\ pc \in [Calls -> {"idle", "gate", "check", "reindex", "captured", "answer"}]
    /\ snap \in [Calls -> Nat]
    /\ due \in [Calls -> Nat]

\* Something will make a later request re-index: the flag, a suspended watcher,
\* an event on its way to the flag, or a re-index that has not failed yet.
Aware ==
    \/ dirty
    \/ ~running
    \/ watchers[watcherID].state \in {"pending", "failed"}
    \/ \E c \in Calls : pc[c] = "reindex" \/ (pc[c] = "captured" /\ snap[c] = source)

\* When the index does not reflect the tree the server knows, whatever the
\* order of events, requests, failed re-indexes, watcher failures and idle
\* suspensions.  Edits before the watches are registered are excepted (missed):
\* no event and no later request reveals them.
KnowsWhenStale == source # indexed /\ ~missed => Aware

\* A request is answered from an index that contains every change flagged, or
\* made while the watcher was suspended, before the request came, although
\* another request may have cleared the flag and still be re-indexing.
AnswersIncludeFlagged ==
    \A c \in Calls : pc[c] = "answer" => indexed >= due[c]

\* A watcher that nothing has cancelled is the current one, and cancel is its
\* cancel function: no watcher and no idle loop is left holding descriptors.
OneWatcher ==
    \A id \in IDs :
        (watchers[id].state \in Alive \/ watchers[id].loop) /\ ~watchers[id].cancelled =>
            id = watcherID /\ running

\* stop() joins: every goroutine of every watcher ends.
StopJoins ==
    stopping ~> \A id \in IDs : watchers[id].state \in {"none", "ended"} /\ ~watchers[id].loop
=============================================================================
