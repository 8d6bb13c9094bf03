---------------------------- MODULE ServerProofs ----------------------------
(***************************************************************************)
(* Theorems about the two servers that keep an index current.               *)
(*                                                                         *)
(* Freshness, whatever the order of edits, events, requests, failures and   *)
(* suspensions, for any requests and bounds: the server knows when its      *)
(* index is stale, answers from every change flagged before the request,    *)
(* and leaves no watcher running but the current one.                       *)
(*                                                                         *)
(* LanguageServer, for any documents, edits, messages and outcomes of the   *)
(* refreshes: the newest refresh decides, and diagnostics never go back.    *)
(***************************************************************************)
EXTENDS Freshness, LanguageServer, FiniteSetTheorems, SequenceTheorems, TLAPS

-----------------------------------------------------------------------------
(* The freshness of the MCP server                                         *)

\* Only the holder of the gate is between "check" and its answer.
Gated == {"check", "reindex", "captured"}
GateInv == \A c \in Calls : pc[c] \in Gated => callGate = c

\* A request starts one watcher at most, before it answers.
Budget == {c \in Calls : pc[c] \in {"gate", "check"}}
BudgetInv ==
  /\ IsFiniteSet(Budget)
  /\ watcherID + Cardinality(Budget) <= served + 1
  /\ served <= MaxCalls

\* A running watcher is not cancelled and has not ended.
CurrentInv ==
  running => ~watchers[watcherID].cancelled /\ watchers[watcherID].state \in Alive \cup {"failed"}

\* No edit is numbered after the tree, no capture before the index.
OrderInv ==
  /\ indexed <= source /\ flagged <= source
  /\ \A c \in Calls : due[c] <= source
  /\ \A c \in Calls : pc[c] = "captured" =>
       indexed <= snap[c] /\ snap[c] <= source /\ due[c] <= snap[c]

\* A change after the capture of a re-index is signalled apart from it.
Signalled == dirty \/ ~running \/ watchers[watcherID].state \in {"pending", "failed"}
CaptureInv ==
  \A c \in Calls : pc[c] = "captured" /\ snap[c] # source /\ ~missed => Signalled

\* A change is in the index, or will be before a request is served.
Answered(n) ==
  \/ indexed >= n
  \/ dirty
  \/ ~running
  \/ \E c \in Calls : pc[c] = "reindex" \/ (pc[c] = "captured" /\ snap[c] >= n)
DueInv ==
  /\ Answered(flagged)
  /\ \A c \in Calls : pc[c] \in {"gate", "check"} => Answered(due[c])

IInv ==
  /\ TypeOK /\ GateInv /\ BudgetInv
  /\ OneWatcher /\ CurrentInv
  /\ OrderInv /\ CaptureInv /\ KnowsWhenStale
  /\ DueInv /\ AnswersIncludeFlagged

LEMMA InitIInv == Init => IInv
<1> SUFFICES ASSUME Init PROVE IInv
  OBVIOUS
<1> USE DEF Init
<1>0. 1 \in IDs /\ NewWatcher \in Watcher /\ NoWatcher \in Watcher
  BY FreshnessAssumption DEF IDs, Watcher, NoWatcher, NewWatcher, States, Alive
<1>1. TypeOK
  <2>1. watchers \in [IDs -> Watcher] /\ watcherID \in IDs
    BY <1>0
  <2> QED
    BY <2>1 DEF TypeOK
<1>2. BudgetInv
  <2>1. Budget = {}
    BY DEF Budget
  <2> QED
    BY <2>1, FS_EmptySet, FreshnessAssumption DEF BudgetInv
<1>3. OneWatcher /\ CurrentInv
  <2>1. watchers[1] = NewWatcher /\ \A id \in IDs \ {1} : watchers[id] = NoWatcher
    BY <1>0
  <2> QED
    BY <1>0, <2>1 DEF OneWatcher, CurrentInv, NoWatcher, NewWatcher, Alive
<1> QED
  BY <1>1, <1>2, <1>3 DEF IInv, GateInv, Gated, OrderInv, CaptureInv, KnowsWhenStale, DueInv,
     Answered, AnswersIncludeFlagged

-----------------------------------------------------------------------------
(* The gate, and the bound on watchers.                                    *)

\* A request passes the gate only when nobody holds it.
LEMMA GateStep ==
  ASSUME TypeOK, GateInv, [Next]_vars
  PROVE  GateInv'
<1>1. ASSUME NEW c \in Calls, StartCall(c) PROVE GateInv'
  BY <1>1 DEF TypeOK, GateInv, Gated, StartCall, shared
<1>2. ASSUME NEW c \in Calls, GiveUp(c) PROVE GateInv'
  BY <1>2 DEF TypeOK, GateInv, Gated, GiveUp, Return, shared
<1>3. ASSUME NEW c \in Calls, TakeGate(c) PROVE GateInv'
  BY <1>3, FreshnessAssumption DEF TypeOK, GateInv, Gated, TakeGate, shared, ghosts
<1>4. ASSUME NEW c \in Calls, Resume(c) PROVE GateInv'
  BY <1>4 DEF TypeOK, GateInv, Gated, Resume, StartWatcher, NewWatcher, ghosts
<1>5. ASSUME NEW c \in Calls, CheckDirty(c) PROVE GateInv'
  BY <1>5 DEF TypeOK, GateInv, Gated, CheckDirty, ghosts
<1>6. ASSUME NEW c \in Calls, Capture(c) PROVE GateInv'
  BY <1>6 DEF TypeOK, GateInv, Gated, Capture, shared
<1>7. ASSUME NEW c \in Calls, Publish(c) PROVE GateInv'
  BY <1>7 DEF TypeOK, GateInv, Gated, Publish, shared, ghosts
<1>8. ASSUME NEW c \in Calls, ReindexFails(c) PROVE GateInv'
  BY <1>8 DEF TypeOK, GateInv, Gated, ReindexFails, Return
<1>9. ASSUME NEW c \in Calls, Answer(c) PROVE GateInv'
  BY <1>9 DEF TypeOK, GateInv, Gated, Answer, Return, shared
<1>10. CASE UNCHANGED <<pc, callGate>>
  BY <1>10 DEF TypeOK, GateInv, Gated
<1> QED
  BY <1>1, <1>2, <1>3, <1>4, <1>5, <1>6, <1>7, <1>8, <1>9, <1>10 DEF Next, Scheduled, vars,
     Edit, IdlePasses, Stop, Register, WatchFails, Suspend, TimerFires, WatchEnds,
     HandleFailure, LoopEnds, ghosts, Only

\* Budgets that lose a request or keep theirs.
LEMMA BudgetKept ==
  ASSUME BudgetInv, Budget' \subseteq Budget, UNCHANGED <<watcherID, served>>,
         watcherID \in Nat, served \in Nat
  PROVE  BudgetInv'
<1>1. IsFiniteSet(Budget') /\ Cardinality(Budget') <= Cardinality(Budget)
  BY FS_Subset DEF BudgetInv
<1>2. Cardinality(Budget) \in Nat /\ Cardinality(Budget') \in Nat
  BY <1>1, FS_CardinalityType DEF BudgetInv
<1> QED
  BY <1>1, <1>2, FreshnessAssumption DEF BudgetInv

\* Every request counts once, for the watcher it may start.
LEMMA BudgetStep ==
  ASSUME TypeOK, BudgetInv, [Next]_vars
  PROVE  BudgetInv'
<1>1. ASSUME NEW c \in Calls, StartCall(c) PROVE BudgetInv'
  <2>1. Budget' = Budget \cup {c}
    BY <1>1 DEF Budget, TypeOK, StartCall
  <2>2. IsFiniteSet(Budget') /\ Cardinality(Budget') = Cardinality(Budget) + 1
    <3>1. c \notin Budget
      BY <1>1 DEF Budget, StartCall
    <3> QED
      BY <2>1, <3>1, FS_AddElement DEF BudgetInv
  <2>3. watcherID' = watcherID /\ served' = served + 1 /\ served' <= MaxCalls
    BY <1>1, FreshnessAssumption DEF StartCall, shared, TypeOK
  <2>4. Cardinality(Budget) \in Nat /\ Cardinality(Budget') \in Nat
    BY <2>2, FS_CardinalityType DEF BudgetInv
  <2> QED
    BY <2>2, <2>3, <2>4 DEF BudgetInv, TypeOK, IDs
<1>2. ASSUME NEW c \in Calls, GiveUp(c) PROVE BudgetInv'
  <2>1. Budget' \subseteq Budget
    BY <1>2 DEF Budget, TypeOK, GiveUp, Return, shared
  <2>2. UNCHANGED <<watcherID, served>>
    BY <1>2 DEF GiveUp, shared
  <2> QED
    BY <2>1, <2>2, BudgetKept DEF TypeOK, IDs
<1>3. ASSUME NEW c \in Calls, TakeGate(c) PROVE BudgetInv'
  <2>1. Budget' \subseteq Budget
    BY <1>3 DEF Budget, TypeOK, TakeGate, shared, ghosts
  <2>2. UNCHANGED <<watcherID, served>>
    BY <1>3 DEF TakeGate, shared
  <2> QED
    BY <2>1, <2>2, BudgetKept DEF TypeOK, IDs
<1>4. ASSUME NEW c \in Calls, Resume(c) PROVE BudgetInv'
  <2>1. c \in Budget /\ Budget' = Budget \ {c}
    BY <1>4 DEF Budget, TypeOK, Resume
  <2>2. IsFiniteSet(Budget') /\ Cardinality(Budget') = Cardinality(Budget) - 1
    BY <2>1, FS_RemoveElement DEF BudgetInv
  <2>3. watcherID' = watcherID + 1 /\ served' = served
    BY <1>4 DEF Resume, StartWatcher
  <2>4. Cardinality(Budget) \in Nat /\ Cardinality(Budget') \in Nat
    BY <2>2, FS_CardinalityType DEF BudgetInv
  <2> QED
    BY <2>2, <2>3, <2>4 DEF BudgetInv, TypeOK, IDs
<1>5. ASSUME NEW c \in Calls, CheckDirty(c) PROVE BudgetInv'
  <2>1. Budget' \subseteq Budget
    BY <1>5 DEF Budget, TypeOK, CheckDirty, ghosts
  <2>2. UNCHANGED <<watcherID, served>>
    BY <1>5 DEF CheckDirty
  <2> QED
    BY <2>1, <2>2, BudgetKept DEF TypeOK, IDs
<1>6. ASSUME NEW c \in Calls, Capture(c) PROVE BudgetInv'
  <2>1. Budget' \subseteq Budget
    BY <1>6 DEF Budget, TypeOK, Capture, shared
  <2>2. UNCHANGED <<watcherID, served>>
    BY <1>6 DEF Capture, shared
  <2> QED
    BY <2>1, <2>2, BudgetKept DEF TypeOK, IDs
<1>7. ASSUME NEW c \in Calls, Publish(c) PROVE BudgetInv'
  <2>1. Budget' \subseteq Budget
    BY <1>7 DEF Budget, TypeOK, Publish, shared, ghosts
  <2>2. UNCHANGED <<watcherID, served>>
    BY <1>7 DEF Publish, shared
  <2> QED
    BY <2>1, <2>2, BudgetKept DEF TypeOK, IDs
<1>8. ASSUME NEW c \in Calls, ReindexFails(c) PROVE BudgetInv'
  <2>1. Budget' \subseteq Budget
    BY <1>8 DEF Budget, TypeOK, ReindexFails, Return
  <2>2. UNCHANGED <<watcherID, served>>
    BY <1>8 DEF ReindexFails
  <2> QED
    BY <2>1, <2>2, BudgetKept DEF TypeOK, IDs
<1>9. ASSUME NEW c \in Calls, Answer(c) PROVE BudgetInv'
  <2>1. Budget' \subseteq Budget
    BY <1>9 DEF Budget, TypeOK, Answer, Return, shared
  <2>2. UNCHANGED <<watcherID, served>>
    BY <1>9 DEF Answer, shared
  <2> QED
    BY <2>1, <2>2, BudgetKept DEF TypeOK, IDs
<1>10. CASE UNCHANGED <<pc, watcherID, served>>
  BY <1>10 DEF BudgetInv, Budget
<1> QED
  BY <1>1, <1>2, <1>3, <1>4, <1>5, <1>6, <1>7, <1>8, <1>9, <1>10 DEF Next, Scheduled, vars,
     Edit, IdlePasses, Stop, Register, WatchFails, Suspend, TimerFires, WatchEnds,
     HandleFailure, LoopEnds, ghosts, Only

\* A request that resumes finds a watcherID that was never used.
LEMMA Room ==
  ASSUME TypeOK, BudgetInv, NEW c \in Calls, pc[c] \in {"gate", "check"}
  PROVE  watcherID \in Nat /\ watcherID + 1 \in IDs
<1>1. c \in Budget
  BY DEF Budget
<1>2. Cardinality(Budget) \in Nat /\ Cardinality(Budget) # 0
  BY <1>1, FS_EmptySet, FS_CardinalityType DEF BudgetInv
<1> QED
  BY <1>2, FreshnessAssumption DEF BudgetInv, TypeOK, IDs

LEMMA TypeStep ==
  ASSUME TypeOK, BudgetInv, [Next]_vars
  PROVE  TypeOK'
<1>1. CASE Edit
  BY <1>1 DEF TypeOK, Watcher, States, Alive, Edit
<1>2. CASE IdlePasses
  BY <1>2 DEF TypeOK, IdlePasses, ghosts
<1>3. CASE Stop
  BY <1>3 DEF TypeOK, Watcher, States, Alive, Stop, ghosts
<1>4. ASSUME NEW id \in IDs, Register(id) PROVE TypeOK'
  BY <1>4 DEF TypeOK, Watcher, States, Alive, Register, Only
<1>5. ASSUME NEW id \in IDs, WatchFails(id) PROVE TypeOK'
  BY <1>5 DEF TypeOK, Watcher, States, Alive, WatchFails, Only
<1>6. ASSUME NEW id \in IDs, Suspend(id) PROVE TypeOK'
  BY <1>6 DEF TypeOK, Watcher, States, Alive, Suspend, Only
<1>7. ASSUME NEW id \in IDs, TimerFires(id) PROVE TypeOK'
  BY <1>7 DEF TypeOK, Watcher, States, Alive, TimerFires, Only
<1>8. ASSUME NEW id \in IDs, WatchEnds(id) PROVE TypeOK'
  BY <1>8 DEF TypeOK, Watcher, States, Alive, WatchEnds, Only
<1>9. ASSUME NEW id \in IDs, HandleFailure(id) PROVE TypeOK'
  <2>1. watchers[id] \in Watcher
    BY DEF TypeOK
  <2>2. CASE watcherID = id /\ running
    <3>1. watchers' = [watchers EXCEPT
                         ![id] = [state |-> "ended", cancelled |-> TRUE, loop |-> watchers[id].loop]]
      BY <1>9, <2>1, <2>2 DEF HandleFailure, Watcher, TypeOK
    <3> QED
      BY <1>9, <2>1, <2>2, <3>1 DEF TypeOK, Watcher, States, HandleFailure, Only
  <2>3. CASE ~(watcherID = id /\ running)
    BY <1>9, <2>3 DEF TypeOK, Watcher, States, HandleFailure, Only
  <2> QED
    BY <2>2, <2>3
<1>10. ASSUME NEW id \in IDs, LoopEnds(id) PROVE TypeOK'
  BY <1>10 DEF TypeOK, Watcher, States, Alive, LoopEnds, Only
<1>11. ASSUME NEW c \in Calls, StartCall(c) PROVE TypeOK'
  BY <1>11 DEF TypeOK, StartCall, shared
<1>12. ASSUME NEW c \in Calls, GiveUp(c) PROVE TypeOK'
  BY <1>12 DEF TypeOK, GiveUp, Return, shared
<1>13. ASSUME NEW c \in Calls, TakeGate(c) PROVE TypeOK'
  BY <1>13 DEF TypeOK, TakeGate, shared, ghosts
<1>14. ASSUME NEW c \in Calls, Resume(c) PROVE TypeOK'
  BY <1>14, Room DEF TypeOK, Watcher, States, Alive, Resume, StartWatcher, NewWatcher, ghosts
<1>15. ASSUME NEW c \in Calls, CheckDirty(c) PROVE TypeOK'
  BY <1>15 DEF TypeOK, CheckDirty, ghosts
<1>16. ASSUME NEW c \in Calls, Capture(c) PROVE TypeOK'
  BY <1>16 DEF TypeOK, Capture, shared
<1>17. ASSUME NEW c \in Calls, Publish(c) PROVE TypeOK'
  BY <1>17 DEF TypeOK, Publish, shared, ghosts
<1>18. ASSUME NEW c \in Calls, ReindexFails(c) PROVE TypeOK'
  BY <1>18 DEF TypeOK, ReindexFails, Return
<1>19. ASSUME NEW c \in Calls, Answer(c) PROVE TypeOK'
  BY <1>19 DEF TypeOK, Answer, Return, shared
<1>20. CASE UNCHANGED vars
  BY <1>20 DEF TypeOK, vars
<1> QED
  BY <1>1, <1>2, <1>3, <1>4, <1>5, <1>6, <1>7, <1>8, <1>9, <1>10, <1>11, <1>12, <1>13, <1>14, <1>15, <1>16, <1>17, <1>18, <1>19, <1>20 DEF
     Next, Scheduled, vars

-----------------------------------------------------------------------------
(* Watchers.                                                               *)

\* What ends or replaces the current watcher cancels it first.
LEMMA OneWatcherStep ==
  ASSUME TypeOK, OneWatcher, [Next]_vars
  PROVE  OneWatcher'
<1>1. CASE Edit
  BY <1>1 DEF TypeOK, OneWatcher, Watcher, States, Alive, Edit
<1>2. CASE Stop
  BY <1>2 DEF TypeOK, OneWatcher, Watcher, States, Alive, Stop, ghosts
<1>3. ASSUME NEW id \in IDs, Register(id) PROVE OneWatcher'
  BY <1>3 DEF TypeOK, OneWatcher, Watcher, States, Alive, Register, Only
<1>4. ASSUME NEW id \in IDs, WatchFails(id) PROVE OneWatcher'
  BY <1>4 DEF TypeOK, OneWatcher, Watcher, States, Alive, WatchFails, Only
<1>5. ASSUME NEW id \in IDs, Suspend(id) PROVE OneWatcher'
  <2>1. \A i \in IDs : /\ watchers'[i].state = watchers[i].state
                       /\ watchers'[i].loop => watchers[i].loop
                       /\ watchers[i].cancelled \/ i = watcherID => watchers'[i].cancelled
    BY <1>5 DEF Suspend, TypeOK, Watcher
  <2>2. ASSUME NEW i \in IDs, watchers'[i].state \in Alive \/ watchers'[i].loop
        PROVE  watchers'[i].cancelled
    <3>1. watchers[i].state \in Alive \/ watchers[i].loop
      BY <2>1, <2>2
    <3> QED
      BY <2>1, <3>1 DEF OneWatcher
  <2> QED
    BY <2>2 DEF OneWatcher, Alive
<1>6. ASSUME NEW id \in IDs, TimerFires(id) PROVE OneWatcher'
  BY <1>6 DEF TypeOK, OneWatcher, Watcher, States, Alive, TimerFires, Only
<1>7. ASSUME NEW id \in IDs, WatchEnds(id) PROVE OneWatcher'
  BY <1>7 DEF TypeOK, OneWatcher, Watcher, States, Alive, WatchEnds, Only
<1>8. ASSUME NEW id \in IDs, HandleFailure(id) PROVE OneWatcher'
  BY <1>8 DEF TypeOK, OneWatcher, Watcher, States, Alive, HandleFailure, Only
<1>9. ASSUME NEW id \in IDs, LoopEnds(id) PROVE OneWatcher'
  BY <1>9 DEF TypeOK, OneWatcher, Watcher, States, Alive, LoopEnds, Only
<1>10. ASSUME NEW c \in Calls, Resume(c) PROVE OneWatcher'
  BY <1>10 DEF TypeOK, OneWatcher, Watcher, States, Alive, Resume, StartWatcher,
     NewWatcher, ghosts
<1>11. CASE UNCHANGED <<running, watcherID, watchers>>
  BY <1>11 DEF TypeOK, OneWatcher, Watcher, States, Alive
<1> QED
  BY <1>1, <1>2, <1>3, <1>4, <1>5, <1>6, <1>7, <1>8, <1>9, <1>10, <1>11 DEF Next,
     Scheduled, vars, IdlePasses, StartCall, GiveUp, TakeGate, CheckDirty, Capture,
     Publish, ReindexFails, Answer, ghosts, shared, Return

\* A running watcher is cancelled only when it is suspended.
LEMMA CurrentStep ==
  ASSUME TypeOK, BudgetInv, CurrentInv, [Next]_vars
  PROVE  CurrentInv'
<1>1. CASE Edit
  BY <1>1 DEF TypeOK, CurrentInv, Watcher, States, Alive, Edit
<1>2. CASE Stop
  BY <1>2 DEF TypeOK, CurrentInv, Watcher, States, Alive, Stop, ghosts
<1>3. ASSUME NEW id \in IDs, Register(id) PROVE CurrentInv'
  BY <1>3 DEF TypeOK, CurrentInv, Watcher, States, Alive, Register, Only
<1>4. ASSUME NEW id \in IDs, WatchFails(id) PROVE CurrentInv'
  BY <1>4 DEF TypeOK, CurrentInv, Watcher, States, Alive, WatchFails, Only
<1>5. ASSUME NEW id \in IDs, Suspend(id) PROVE CurrentInv'
  BY <1>5 DEF TypeOK, CurrentInv, Watcher, States, Alive, Suspend, Only
<1>6. ASSUME NEW id \in IDs, TimerFires(id) PROVE CurrentInv'
  BY <1>6 DEF TypeOK, CurrentInv, Watcher, States, Alive, TimerFires, Only
<1>7. ASSUME NEW id \in IDs, WatchEnds(id) PROVE CurrentInv'
  BY <1>7 DEF TypeOK, CurrentInv, Watcher, States, Alive, WatchEnds, Only
<1>8. ASSUME NEW id \in IDs, HandleFailure(id) PROVE CurrentInv'
  BY <1>8 DEF TypeOK, CurrentInv, Watcher, States, Alive, HandleFailure, Only
<1>9. ASSUME NEW id \in IDs, LoopEnds(id) PROVE CurrentInv'
  BY <1>9 DEF TypeOK, CurrentInv, Watcher, States, Alive, LoopEnds, Only
<1>10. ASSUME NEW c \in Calls, Resume(c) PROVE CurrentInv'
  BY <1>10, Room DEF TypeOK, CurrentInv, Watcher, States, Alive, Resume, StartWatcher,
     NewWatcher, ghosts
<1>11. CASE UNCHANGED <<running, watcherID, watchers>>
  BY <1>11 DEF TypeOK, CurrentInv, Watcher, States, Alive
<1> QED
  BY <1>1, <1>2, <1>3, <1>4, <1>5, <1>6, <1>7, <1>8, <1>9, <1>10, <1>11 DEF Next,
     Scheduled, vars, IdlePasses, StartCall, GiveUp, TakeGate, CheckDirty, Capture,
     Publish, ReindexFails, Answer, ghosts, shared, Return

-----------------------------------------------------------------------------
(* The index and the tree.                                                 *)

\* One request at a time captures and publishes, in this order.
LEMMA OrderStep ==
  ASSUME TypeOK, GateInv, OrderInv, [Next]_vars
  PROVE  OrderInv'
<1>1. CASE Edit
  BY <1>1 DEF TypeOK, GateInv, Gated, OrderInv, Edit
<1>2. ASSUME NEW id \in IDs, TimerFires(id) PROVE OrderInv'
  BY <1>2 DEF TypeOK, GateInv, Gated, OrderInv, TimerFires, Only
<1>3. ASSUME NEW id \in IDs, HandleFailure(id) PROVE OrderInv'
  BY <1>3 DEF TypeOK, GateInv, Gated, OrderInv, HandleFailure, Only
<1>4. ASSUME NEW c \in Calls, StartCall(c) PROVE OrderInv'
  BY <1>4 DEF TypeOK, GateInv, Gated, OrderInv, StartCall, shared
<1>5. ASSUME NEW c \in Calls, GiveUp(c) PROVE OrderInv'
  BY <1>5 DEF TypeOK, GateInv, Gated, OrderInv, GiveUp, Return, shared
<1>6. ASSUME NEW c \in Calls, TakeGate(c) PROVE OrderInv'
  BY <1>6 DEF TypeOK, GateInv, Gated, OrderInv, TakeGate, shared, ghosts
<1>7. ASSUME NEW c \in Calls, Resume(c) PROVE OrderInv'
  BY <1>7 DEF TypeOK, GateInv, Gated, OrderInv, Resume, StartWatcher, NewWatcher, ghosts
<1>8. ASSUME NEW c \in Calls, CheckDirty(c) PROVE OrderInv'
  BY <1>8 DEF TypeOK, GateInv, Gated, OrderInv, CheckDirty, ghosts
<1>9. ASSUME NEW c \in Calls, Capture(c) PROVE OrderInv'
  BY <1>9 DEF TypeOK, GateInv, Gated, OrderInv, Capture, shared
<1>10. ASSUME NEW c \in Calls, Publish(c) PROVE OrderInv'
  BY <1>10 DEF TypeOK, GateInv, Gated, OrderInv, Publish, shared, ghosts
<1>11. ASSUME NEW c \in Calls, ReindexFails(c) PROVE OrderInv'
  BY <1>11 DEF TypeOK, GateInv, Gated, OrderInv, ReindexFails, Return
<1>12. ASSUME NEW c \in Calls, Answer(c) PROVE OrderInv'
  BY <1>12 DEF TypeOK, GateInv, Gated, OrderInv, Answer, Return, shared
<1>13. CASE UNCHANGED <<source, indexed, flagged, due, pc, snap>>
  BY <1>13 DEF TypeOK, GateInv, Gated, OrderInv
<1> QED
  BY <1>1, <1>2, <1>3, <1>4, <1>5, <1>6, <1>7, <1>8, <1>9, <1>10, <1>11, <1>12, <1>13 DEF
     Next, Scheduled, vars, IdlePasses, Stop, Register, WatchFails, Suspend, WatchEnds,
     LoopEnds, ghosts, Only

\* An edit during a re-index reaches the flag of a watcher, or is missed.
LEMMA CaptureStep ==
  ASSUME TypeOK, GateInv, CurrentInv, CaptureInv, [Next]_vars
  PROVE  CaptureInv'
<1>1. CASE Edit
  BY <1>1 DEF TypeOK, GateInv, Gated, CurrentInv, CaptureInv, Signalled, Watcher, States,
     Alive, Edit
<1>2. CASE Stop
  BY <1>2 DEF TypeOK, GateInv, Gated, CurrentInv, CaptureInv, Signalled, Watcher, States,
     Alive, Stop, ghosts
<1>3. ASSUME NEW id \in IDs, Register(id) PROVE CaptureInv'
  BY <1>3 DEF TypeOK, GateInv, Gated, CurrentInv, CaptureInv, Signalled, Watcher, States,
     Alive, Register, Only
<1>4. ASSUME NEW id \in IDs, WatchFails(id) PROVE CaptureInv'
  BY <1>4 DEF TypeOK, GateInv, Gated, CurrentInv, CaptureInv, Signalled, Watcher, States,
     Alive, WatchFails, Only
<1>5. ASSUME NEW id \in IDs, Suspend(id) PROVE CaptureInv'
  BY <1>5 DEF TypeOK, GateInv, Gated, CurrentInv, CaptureInv, Signalled, Watcher, States,
     Alive, Suspend, Only
<1>6. ASSUME NEW id \in IDs, TimerFires(id) PROVE CaptureInv'
  BY <1>6 DEF TypeOK, GateInv, Gated, CurrentInv, CaptureInv, Signalled, Watcher, States,
     Alive, TimerFires, Only
<1>7. ASSUME NEW id \in IDs, WatchEnds(id) PROVE CaptureInv'
  BY <1>7 DEF TypeOK, GateInv, Gated, CurrentInv, CaptureInv, Signalled, Watcher, States,
     Alive, WatchEnds, Only
<1>8. ASSUME NEW id \in IDs, HandleFailure(id) PROVE CaptureInv'
  BY <1>8 DEF TypeOK, GateInv, Gated, CurrentInv, CaptureInv, Signalled, Watcher, States,
     Alive, HandleFailure, Only
<1>9. ASSUME NEW id \in IDs, LoopEnds(id) PROVE CaptureInv'
  BY <1>9 DEF TypeOK, GateInv, Gated, CurrentInv, CaptureInv, Signalled, Watcher, States,
     Alive, LoopEnds, Only
<1>10. ASSUME NEW c \in Calls, StartCall(c) PROVE CaptureInv'
  BY <1>10 DEF TypeOK, GateInv, Gated, CurrentInv, CaptureInv, Signalled, Watcher, States,
     Alive, StartCall, shared
<1>11. ASSUME NEW c \in Calls, GiveUp(c) PROVE CaptureInv'
  BY <1>11 DEF TypeOK, GateInv, Gated, CurrentInv, CaptureInv, Signalled, Watcher, States,
     Alive, GiveUp, Return, shared
<1>12. ASSUME NEW c \in Calls, TakeGate(c) PROVE CaptureInv'
  BY <1>12 DEF TypeOK, GateInv, Gated, CurrentInv, CaptureInv, Signalled, Watcher, States,
     Alive, TakeGate, shared, ghosts
<1>13. ASSUME NEW c \in Calls, Resume(c) PROVE CaptureInv'
  BY <1>13 DEF TypeOK, GateInv, Gated, CurrentInv, CaptureInv, Signalled, Watcher, States,
     Alive, Resume, StartWatcher, NewWatcher, ghosts
<1>14. ASSUME NEW c \in Calls, CheckDirty(c) PROVE CaptureInv'
  BY <1>14 DEF TypeOK, GateInv, Gated, CurrentInv, CaptureInv, Signalled, Watcher, States,
     Alive, CheckDirty, ghosts
<1>15. ASSUME NEW c \in Calls, Capture(c) PROVE CaptureInv'
  BY <1>15 DEF TypeOK, GateInv, Gated, CurrentInv, CaptureInv, Signalled, Watcher, States,
     Alive, Capture, shared
<1>16. ASSUME NEW c \in Calls, Publish(c) PROVE CaptureInv'
  BY <1>16 DEF TypeOK, GateInv, Gated, CurrentInv, CaptureInv, Signalled, Watcher, States,
     Alive, Publish, shared, ghosts
<1>17. ASSUME NEW c \in Calls, ReindexFails(c) PROVE CaptureInv'
  BY <1>17 DEF TypeOK, GateInv, Gated, CurrentInv, CaptureInv, Signalled, Watcher, States,
     Alive, ReindexFails, Return
<1>18. ASSUME NEW c \in Calls, Answer(c) PROVE CaptureInv'
  BY <1>18 DEF TypeOK, GateInv, Gated, CurrentInv, CaptureInv, Signalled, Watcher, States,
     Alive, Answer, Return, shared
<1>19. CASE UNCHANGED <<source, dirty, running, watcherID, watchers, pc, snap, missed>>
  BY <1>19 DEF TypeOK, GateInv, Gated, CurrentInv, CaptureInv, Signalled, Watcher, States,
     Alive
<1> QED
  BY <1>1, <1>2, <1>3, <1>4, <1>5, <1>6, <1>7, <1>8, <1>9, <1>10, <1>11, <1>12, <1>13, <1>14, <1>15, <1>16, <1>17, <1>18, <1>19 DEF
     Next, Scheduled, vars, IdlePasses, ghosts

\* What cleared the flag re-indexes, and what fails to raises it again.
LEMMA KnowsStep ==
  ASSUME TypeOK, GateInv, CurrentInv, CaptureInv, KnowsWhenStale, [Next]_vars
  PROVE  KnowsWhenStale'
<1>1. CASE Edit
  BY <1>1 DEF TypeOK, GateInv, Gated, CurrentInv, CaptureInv, Signalled, KnowsWhenStale,
     Aware, Watcher, States, Alive, Edit
<1>2. CASE Stop
  BY <1>2 DEF TypeOK, GateInv, Gated, CurrentInv, CaptureInv, Signalled, KnowsWhenStale,
     Aware, Watcher, States, Alive, Stop, ghosts
<1>3. ASSUME NEW id \in IDs, Register(id) PROVE KnowsWhenStale'
  BY <1>3 DEF TypeOK, GateInv, Gated, CurrentInv, CaptureInv, Signalled, KnowsWhenStale,
     Aware, Watcher, States, Alive, Register, Only
<1>4. ASSUME NEW id \in IDs, WatchFails(id) PROVE KnowsWhenStale'
  BY <1>4 DEF TypeOK, GateInv, Gated, CurrentInv, CaptureInv, Signalled, KnowsWhenStale,
     Aware, Watcher, States, Alive, WatchFails, Only
<1>5. ASSUME NEW id \in IDs, Suspend(id) PROVE KnowsWhenStale'
  BY <1>5 DEF TypeOK, GateInv, Gated, CurrentInv, CaptureInv, Signalled, KnowsWhenStale,
     Aware, Watcher, States, Alive, Suspend, Only
<1>6. ASSUME NEW id \in IDs, TimerFires(id) PROVE KnowsWhenStale'
  BY <1>6 DEF TypeOK, GateInv, Gated, CurrentInv, CaptureInv, Signalled, KnowsWhenStale,
     Aware, Watcher, States, Alive, TimerFires, Only
<1>7. ASSUME NEW id \in IDs, WatchEnds(id) PROVE KnowsWhenStale'
  BY <1>7 DEF TypeOK, GateInv, Gated, CurrentInv, CaptureInv, Signalled, KnowsWhenStale,
     Aware, Watcher, States, Alive, WatchEnds, Only
<1>8. ASSUME NEW id \in IDs, HandleFailure(id) PROVE KnowsWhenStale'
  BY <1>8 DEF TypeOK, GateInv, Gated, CurrentInv, CaptureInv, Signalled, KnowsWhenStale,
     Aware, Watcher, States, Alive, HandleFailure, Only
<1>9. ASSUME NEW id \in IDs, LoopEnds(id) PROVE KnowsWhenStale'
  BY <1>9 DEF TypeOK, GateInv, Gated, CurrentInv, CaptureInv, Signalled, KnowsWhenStale,
     Aware, Watcher, States, Alive, LoopEnds, Only
<1>10. ASSUME NEW c \in Calls, StartCall(c) PROVE KnowsWhenStale'
  BY <1>10 DEF TypeOK, GateInv, Gated, CurrentInv, CaptureInv, Signalled, KnowsWhenStale,
     Aware, Watcher, States, Alive, StartCall, shared
<1>11. ASSUME NEW c \in Calls, GiveUp(c) PROVE KnowsWhenStale'
  BY <1>11 DEF TypeOK, GateInv, Gated, CurrentInv, CaptureInv, Signalled, KnowsWhenStale,
     Aware, Watcher, States, Alive, GiveUp, Return, shared
<1>12. ASSUME NEW c \in Calls, TakeGate(c) PROVE KnowsWhenStale'
  BY <1>12 DEF TypeOK, GateInv, Gated, CurrentInv, CaptureInv, Signalled, KnowsWhenStale,
     Aware, Watcher, States, Alive, TakeGate, shared, ghosts
<1>13. ASSUME NEW c \in Calls, Resume(c) PROVE KnowsWhenStale'
  BY <1>13 DEF TypeOK, GateInv, Gated, CurrentInv, CaptureInv, Signalled, KnowsWhenStale,
     Aware, Watcher, States, Alive, Resume, StartWatcher, NewWatcher, ghosts
<1>14. ASSUME NEW c \in Calls, CheckDirty(c) PROVE KnowsWhenStale'
  BY <1>14 DEF TypeOK, GateInv, Gated, CurrentInv, CaptureInv, Signalled, KnowsWhenStale,
     Aware, Watcher, States, Alive, CheckDirty, ghosts
<1>15. ASSUME NEW c \in Calls, Capture(c) PROVE KnowsWhenStale'
  BY <1>15 DEF TypeOK, GateInv, Gated, CurrentInv, CaptureInv, Signalled, KnowsWhenStale,
     Aware, Watcher, States, Alive, Capture, shared
<1>16. ASSUME NEW c \in Calls, Publish(c) PROVE KnowsWhenStale'
  BY <1>16 DEF TypeOK, GateInv, Gated, CurrentInv, CaptureInv, Signalled, KnowsWhenStale,
     Aware, Watcher, States, Alive, Publish, shared, ghosts
<1>17. ASSUME NEW c \in Calls, ReindexFails(c) PROVE KnowsWhenStale'
  BY <1>17 DEF TypeOK, GateInv, Gated, CurrentInv, CaptureInv, Signalled, KnowsWhenStale,
     Aware, Watcher, States, Alive, ReindexFails, Return
<1>18. ASSUME NEW c \in Calls, Answer(c) PROVE KnowsWhenStale'
  BY <1>18 DEF TypeOK, GateInv, Gated, CurrentInv, CaptureInv, Signalled, KnowsWhenStale,
     Aware, Watcher, States, Alive, Answer, Return, shared
<1>19. CASE UNCHANGED <<source, indexed, dirty, running, watcherID, watchers, pc, snap, missed>>
  BY <1>19 DEF TypeOK, GateInv, Gated, CurrentInv, CaptureInv, Signalled, KnowsWhenStale,
     Aware, Watcher, States, Alive
<1> QED
  BY <1>1, <1>2, <1>3, <1>4, <1>5, <1>6, <1>7, <1>8, <1>9, <1>10, <1>11, <1>12, <1>13, <1>14, <1>15, <1>16, <1>17, <1>18, <1>19 DEF
     Next, Scheduled, vars, IdlePasses, ghosts

\* A flag is cleared only by a re-index that captures what it was raised for.
LEMMA DueStep ==
  ASSUME TypeOK, GateInv, OrderInv, DueInv, [Next]_vars
  PROVE  DueInv'
<1>1. CASE Stop
  BY <1>1 DEF TypeOK, GateInv, Gated, OrderInv, DueInv, Answered, Stop, ghosts
<1>2. ASSUME NEW id \in IDs, Suspend(id) PROVE DueInv'
  BY <1>2 DEF TypeOK, GateInv, Gated, OrderInv, DueInv, Answered, Suspend, Only
<1>3. ASSUME NEW id \in IDs, TimerFires(id) PROVE DueInv'
  BY <1>3 DEF TypeOK, GateInv, Gated, OrderInv, DueInv, Answered, TimerFires, Only
<1>4. ASSUME NEW id \in IDs, HandleFailure(id) PROVE DueInv'
  BY <1>4 DEF TypeOK, GateInv, Gated, OrderInv, DueInv, Answered, HandleFailure, Only
<1>5. ASSUME NEW c \in Calls, StartCall(c) PROVE DueInv'
  BY <1>5 DEF TypeOK, GateInv, Gated, OrderInv, DueInv, Answered, StartCall, shared
<1>6. ASSUME NEW c \in Calls, GiveUp(c) PROVE DueInv'
  BY <1>6 DEF TypeOK, GateInv, Gated, OrderInv, DueInv, Answered, GiveUp, Return, shared
<1>7. ASSUME NEW c \in Calls, TakeGate(c) PROVE DueInv'
  BY <1>7 DEF TypeOK, GateInv, Gated, OrderInv, DueInv, Answered, TakeGate, shared, ghosts
<1>8. ASSUME NEW c \in Calls, Resume(c) PROVE DueInv'
  BY <1>8 DEF TypeOK, GateInv, Gated, OrderInv, DueInv, Answered, Resume, StartWatcher,
     NewWatcher, ghosts
<1>9. ASSUME NEW c \in Calls, CheckDirty(c) PROVE DueInv'
  BY <1>9 DEF TypeOK, GateInv, Gated, OrderInv, DueInv, Answered, CheckDirty, ghosts
<1>10. ASSUME NEW c \in Calls, Capture(c) PROVE DueInv'
  BY <1>10 DEF TypeOK, GateInv, Gated, OrderInv, DueInv, Answered, Capture, shared
<1>11. ASSUME NEW c \in Calls, Publish(c) PROVE DueInv'
  BY <1>11 DEF TypeOK, GateInv, Gated, OrderInv, DueInv, Answered, Publish, shared, ghosts
<1>12. ASSUME NEW c \in Calls, ReindexFails(c) PROVE DueInv'
  BY <1>12 DEF TypeOK, GateInv, Gated, OrderInv, DueInv, Answered, ReindexFails, Return
<1>13. ASSUME NEW c \in Calls, Answer(c) PROVE DueInv'
  BY <1>13 DEF TypeOK, GateInv, Gated, OrderInv, DueInv, Answered, Answer, Return, shared
<1>14. CASE UNCHANGED <<indexed, dirty, running, flagged, pc, snap, due>>
  BY <1>14 DEF TypeOK, GateInv, Gated, OrderInv, DueInv, Answered
<1> QED
  BY <1>1, <1>2, <1>3, <1>4, <1>5, <1>6, <1>7, <1>8, <1>9, <1>10, <1>11, <1>12, <1>13, <1>14 DEF
     Next, Scheduled, vars, Edit, IdlePasses, Register, WatchFails, WatchEnds, LoopEnds,
     ghosts, Only

\* The index a request is served from never moves back.
LEMMA AnswersStep ==
  ASSUME TypeOK, GateInv, OrderInv, DueInv, AnswersIncludeFlagged, [Next]_vars
  PROVE  AnswersIncludeFlagged'
<1>1. ASSUME NEW c \in Calls, StartCall(c) PROVE AnswersIncludeFlagged'
  BY <1>1 DEF TypeOK, GateInv, Gated, OrderInv, DueInv, Answered, AnswersIncludeFlagged,
     StartCall, shared
<1>2. ASSUME NEW c \in Calls, GiveUp(c) PROVE AnswersIncludeFlagged'
  BY <1>2 DEF TypeOK, GateInv, Gated, OrderInv, DueInv, Answered, AnswersIncludeFlagged,
     GiveUp, Return, shared
<1>3. ASSUME NEW c \in Calls, TakeGate(c) PROVE AnswersIncludeFlagged'
  BY <1>3 DEF TypeOK, GateInv, Gated, OrderInv, DueInv, Answered, AnswersIncludeFlagged,
     TakeGate, shared, ghosts
<1>4. ASSUME NEW c \in Calls, Resume(c) PROVE AnswersIncludeFlagged'
  BY <1>4 DEF TypeOK, GateInv, Gated, OrderInv, DueInv, Answered, AnswersIncludeFlagged,
     Resume, StartWatcher, NewWatcher, ghosts
<1>5. ASSUME NEW c \in Calls, CheckDirty(c) PROVE AnswersIncludeFlagged'
  BY <1>5 DEF TypeOK, GateInv, Gated, OrderInv, DueInv, Answered, AnswersIncludeFlagged,
     CheckDirty, ghosts
<1>6. ASSUME NEW c \in Calls, Capture(c) PROVE AnswersIncludeFlagged'
  BY <1>6 DEF TypeOK, GateInv, Gated, OrderInv, DueInv, Answered, AnswersIncludeFlagged,
     Capture, shared
<1>7. ASSUME NEW c \in Calls, Publish(c) PROVE AnswersIncludeFlagged'
  BY <1>7 DEF TypeOK, GateInv, Gated, OrderInv, DueInv, Answered, AnswersIncludeFlagged,
     Publish, shared, ghosts
<1>8. ASSUME NEW c \in Calls, ReindexFails(c) PROVE AnswersIncludeFlagged'
  BY <1>8 DEF TypeOK, GateInv, Gated, OrderInv, DueInv, Answered, AnswersIncludeFlagged,
     ReindexFails, Return
<1>9. ASSUME NEW c \in Calls, Answer(c) PROVE AnswersIncludeFlagged'
  BY <1>9 DEF TypeOK, GateInv, Gated, OrderInv, DueInv, Answered, AnswersIncludeFlagged,
     Answer, Return, shared
<1>10. CASE UNCHANGED <<indexed, pc, due>>
  BY <1>10 DEF TypeOK, GateInv, Gated, OrderInv, DueInv, Answered, AnswersIncludeFlagged
<1> QED
  BY <1>1, <1>2, <1>3, <1>4, <1>5, <1>6, <1>7, <1>8, <1>9, <1>10 DEF Next, Scheduled, vars,
     Edit, IdlePasses, Stop, Register, WatchFails, Suspend, TimerFires, WatchEnds,
     HandleFailure, LoopEnds, ghosts, Only

-----------------------------------------------------------------------------
(* Theorems.                                                               *)

LEMMA Inductive == IInv /\ [Next]_vars => IInv'
BY GateStep, BudgetStep, TypeStep, OneWatcherStep, CurrentStep, OrderStep, CaptureStep,
   KnowsStep, DueStep, AnswersStep DEF IInv

THEOREM Invariance == Spec => []IInv
BY InitIInv, Inductive, PTL DEF Spec

\* The types of freshness.go's state; only requests start watchers.
THEOREM TypeCorrect == Spec => []TypeOK
<1>1. IInv => TypeOK
  BY DEF IInv
<1> QED
  BY <1>1, Invariance, PTL

\* No order of edits, events, requests, failed re-indexes, watcher failures and
\* idle suspensions leaves the server unaware of a stale index: a watcher's
\* signal, or a re-index under way, stands for every edit after the capture.
THEOREM StalenessKnown == Spec => []KnowsWhenStale
<1>1. IInv => KnowsWhenStale
  BY DEF IInv
<1> QED
  BY <1>1, Invariance, PTL

\* callGate makes a request wait for the re-index that cleared the flag it
\* would have seen: its answer contains every change flagged before it came.
THEOREM FlaggedAnswered == Spec => []AnswersIncludeFlagged
<1>1. IInv => AnswersIncludeFlagged
  BY DEF IInv
<1> QED
  BY <1>1, Invariance, PTL

\* Suspension, failure, resumption and stop cancel every watcher but the current.
THEOREM NoWatcherLeft == Spec => []OneWatcher
<1>1. IInv => OneWatcher
  BY DEF IInv
<1> QED
  BY <1>1, Invariance, PTL

-----------------------------------------------------------------------------
(* The language server                                                     *)

Labels == {"idle", "publish", "copy", "clear", "refresh", "complete", "guard", "send"}
Task == [pc : Labels, id : Nat, todo : SUBSET Documents, doc : Documents \cup {Nothing}, seen : Nat]

EditorTypeInv ==
  /\ task \in [Tasks -> Task]
  /\ outcome \in Seq({"running", "ok", "failed"})
  /\ healthy \in BOOLEAN
  /\ docs \subseteq Documents /\ shown \in [Documents -> Nat \cup {Nothing}]
  /\ disk \in Nat /\ index \in Nat

(* A refresh that has not been completed has one of the ids given. *)
Pending(t) == task[t].pc \in {"refresh", "complete"}
IdsInv == \A t \in Tasks : Pending(t) => task[t].id \in 1..Newest

(* What an editor shows is never newer than the index, and what a task is    *)
(* about to send is the index as it still is.                                *)
ShownInv ==
  /\ index <= disk
  /\ \A u \in Documents : shown[u] = Nothing \/ shown[u] <= index
  /\ \A t \in Tasks : At(t, "send") => task[t].seen = index

EditorIInv == EditorTypeInv /\ IdsInv /\ HealthIsNewest /\ ShownInv

LEMMA EditorInitIInv == EditorInit => EditorIInv
<1> SUFFICES ASSUME EditorInit PROVE EditorIInv
  OBVIOUS
<1>1. Resting \in Task
  BY DEF Resting, Task, Labels
<1>2. EditorTypeInv
  BY <1>1 DEF EditorInit, EditorTypeInv
<1>3. \A t \in Tasks : task[t].pc = "idle"
  BY DEF EditorInit, Resting
<1>4. Newest = 0
  BY DEF EditorInit, Newest
<1>5. IdsInv /\ HealthIsNewest
  BY <1>3, <1>4 DEF EditorInit, IdsInv, Pending, HealthIsNewest
<1>6. ShownInv
  BY <1>3 DEF EditorInit, ShownInv, At
<1> QED
  BY <1>2, <1>5, <1>6 DEF EditorIInv

(* The step of one task leaves the other where it was. *)
LEMMA OneTask ==
  ASSUME EditorTypeInv, NEW t \in Tasks, NEW k \in Task, Becomes(t, k)
  PROVE  /\ task' \in [Tasks -> Task]
         /\ \A s \in Tasks : task'[s] = IF s = t THEN k ELSE task[s]
BY DEF EditorTypeInv, Becomes

LEMMA Goes ==
  ASSUME EditorTypeInv, NEW t \in Tasks, NEW l \in Labels, GoTo(t, l)
  PROVE  LET k == [task[t] EXCEPT !.pc = l] IN
         /\ k \in Task /\ Becomes(t, k) /\ k.pc = l
         /\ k.id = task[t].id /\ k.seen = task[t].seen
BY DEF EditorTypeInv, GoTo, Task

(* No step but a refresh moves the index, no step but those of the refreshes *)
(* touches what is known of them.                                            *)
LEMMA Aside ==
  ASSUME EditorIInv, NEW t \in Tasks, NEW k \in Task, Becomes(t, k),
         ~Pending(t), k.pc \notin {"refresh", "complete"},
         UNCHANGED <<disk, index, outcome, healthy>>,
         docs' \subseteq Documents, shown' \in [Documents -> Nat \cup {Nothing}],
         k.pc = "send" => k.seen = index,
         \A u \in Documents : shown'[u] = shown[u] \/ shown'[u] = Nothing \/ shown'[u] = index
  PROVE  EditorIInv'
<1>1. /\ task' \in [Tasks -> Task]
      /\ \A s \in Tasks : task'[s] = IF s = t THEN k ELSE task[s]
  BY OneTask DEF EditorIInv
<1>2. EditorTypeInv'
  BY <1>1 DEF EditorIInv, EditorTypeInv
<1>3. \A s \in Tasks : /\ Pending(s)' <=> Pending(s)
                       /\ Pending(s) => task'[s] = task[s]
  BY <1>1 DEF Pending
<1>4. IdsInv'
  BY <1>3 DEF EditorIInv, IdsInv, Pending, Newest
<1>5. HealthIsNewest'
  BY <1>3 DEF EditorIInv, HealthIsNewest, Pending, Newest
<1>6. ShownInv'
  BY <1>1 DEF EditorIInv, ShownInv, At, EditorTypeInv
<1> QED
  BY <1>2, <1>4, <1>5, <1>6 DEF EditorIInv

(* A refresh begins: its id is the newest. *)
LEMMA Begun ==
  ASSUME EditorIInv, NEW t \in Tasks, NEW k \in Task, Becomes(t, k),
         k.pc \in {"refresh", "complete"}, k.id = Newest + 1,
         NEW o \in {"running", "failed"}, outcome' = Append(outcome, o),
         UNCHANGED <<disk, index, healthy, docs, shown>>
  PROVE  EditorIInv'
<1>1. /\ task' \in [Tasks -> Task]
      /\ \A s \in Tasks : task'[s] = IF s = t THEN k ELSE task[s]
  BY OneTask DEF EditorIInv
<1>2. outcome' \in Seq({"running", "ok", "failed"}) /\ Len(outcome') = Len(outcome) + 1
      /\ Len(outcome) \in Nat
  BY DEF EditorIInv, EditorTypeInv
<1>3. EditorTypeInv'
  BY <1>1, <1>2 DEF EditorIInv, EditorTypeInv
<1>4. IdsInv'
  BY <1>1, <1>2 DEF EditorIInv, IdsInv, Pending, Newest
<1>5. HealthIsNewest'
  BY <1>1, <1>2 DEF HealthIsNewest, Newest
<1>6. ShownInv'
  BY <1>1 DEF EditorIInv, ShownInv, At
<1> QED
  BY <1>3, <1>4, <1>5, <1>6 DEF EditorIInv

LEMMA StepRefresh ==
  ASSUME EditorIInv, NEW t \in Tasks, Refresh(t)
  PROVE  EditorIInv'
<1> DEFINE k == [task[t] EXCEPT !.pc = "complete"]
<1>1. task[t] \in Task /\ k \in Task /\ Becomes(t, k) /\ k.pc = "complete" /\ k.id = task[t].id
  BY Goes DEF Refresh, EditorIInv, EditorTypeInv, Labels
<1>2. /\ task' \in [Tasks -> Task]
      /\ \A s \in Tasks : task'[s] = IF s = t THEN k ELSE task[s]
  BY <1>1, OneTask DEF EditorIInv
<1>3. task[t].id \in 1..Newest /\ Pending(t)
  BY DEF EditorIInv, IdsInv, Pending, Refresh, At
<1>4. PICK o \in {"ok", "failed"} : outcome' = [outcome EXCEPT ![task[t].id] = o]
  BY DEF Refresh, Reindex
<1>5. /\ outcome' \in Seq({"running", "ok", "failed"}) /\ Len(outcome') = Len(outcome)
      /\ \A i \in 1..Len(outcome) : i # task[t].id => outcome'[i] = outcome[i]
  BY <1>3, <1>4 DEF EditorIInv, EditorTypeInv, Newest
<1>6. index' \in {index, disk}
  BY DEF Refresh, Reindex
<1>7. EditorTypeInv'
  BY <1>2, <1>5, <1>6 DEF EditorIInv, EditorTypeInv, Refresh
<1>8. Newest' = Newest /\ Newest \in Nat
  BY <1>5 DEF Newest, EditorIInv, EditorTypeInv
<1>9. \A s \in Tasks : /\ Pending(s)' <=> Pending(s)
                       /\ task'[s].id = task[s].id
  BY <1>1, <1>2, <1>3 DEF Pending
<1>10. IdsInv'
  BY <1>8, <1>9 DEF EditorIInv, IdsInv
<1>11. HealthIsNewest'
  <2> SUFFICES ASSUME \A s \in Tasks : Pending(s) => task[s].id # Newest
               PROVE  healthy = (Newest = 0 \/ outcome'[Newest] = "ok")
    BY <1>8, <1>9 DEF HealthIsNewest, Pending, Refresh
  <2>1. healthy = (Newest = 0 \/ outcome[Newest] = "ok")
    BY DEF EditorIInv, HealthIsNewest, Pending
  <2>2. task[t].id # Newest
    BY <1>3
  <2> QED
    BY <1>5, <1>8, <2>1, <2>2 DEF Newest
<1>12. ShownInv'
  <2>1. \A s \in Tasks : ~At(s, "send")'
    BY <1>1, <1>2 DEF Refresh, Reading, At
  <2>2. index' \in Nat /\ index <= index' /\ index' <= disk' /\ index \in Nat
    BY <1>6 DEF EditorIInv, EditorTypeInv, ShownInv, Refresh
  <2>3. \A u \in Documents : shown[u] = Nothing \/ shown[u] <= index'
    <3> TAKE u \in Documents
    <3>1. shown[u] \in Nat \cup {Nothing} /\ (shown[u] = Nothing \/ shown[u] <= index)
      BY DEF EditorIInv, EditorTypeInv, ShownInv
    <3> QED
      BY <2>2, <3>1
  <2> QED
    BY <2>1, <2>2, <2>3 DEF ShownInv, Refresh
<1> QED
  BY <1>7, <1>10, <1>11, <1>12 DEF EditorIInv

LEMMA StepComplete ==
  ASSUME EditorIInv, NEW t \in Tasks, Complete(t)
  PROVE  EditorIInv'
<1> DEFINE newest == task[t].id = Newest
           ok     == outcome[task[t].id] = "ok"
           on     == [task[t] EXCEPT !.pc = Publishing(t)]
           k      == IF newest /\ ok THEN on ELSE Resting
<1>1. task[t] \in Task /\ docs \subseteq Documents
  BY DEF EditorIInv, EditorTypeInv
<1>2. on \in Task /\ on.pc \in {"publish", "copy"}
  BY <1>1 DEF Task, Labels, Publishing
<1>3. Resting \in Task /\ Resting.pc = "idle"
  BY DEF Resting, Task, Labels
<1>4. k \in Task /\ k.pc \in {"idle", "publish", "copy"} /\ Becomes(t, k)
  BY <1>2, <1>3 DEF Complete
<1>5. /\ task' \in [Tasks -> Task]
      /\ \A s \in Tasks : task'[s] = IF s = t THEN k ELSE task[s]
  BY <1>4, OneTask DEF EditorIInv
<1>6. healthy' = IF newest THEN ok ELSE healthy
  BY DEF Complete
<1>7. UNCHANGED <<disk, index, outcome, docs, shown>>
  BY DEF Complete
<1>8. EditorTypeInv'
  BY <1>5, <1>6, <1>7 DEF EditorIInv, EditorTypeInv
<1>9. \A s \in Tasks : Pending(s)' => Pending(s) /\ s # t /\ task'[s] = task[s]
  BY <1>4, <1>5 DEF Pending
<1>10. IdsInv'
  BY <1>7, <1>9 DEF EditorIInv, IdsInv, Newest, Pending
<1>11. HealthIsNewest'
  <2>1. task[t].id \in 1..Newest
    BY DEF EditorIInv, IdsInv, Pending, Complete, At
  <2>2. CASE newest
    BY <1>6, <1>7, <2>1, <2>2 DEF HealthIsNewest, Newest
  <2>3. CASE ~newest
    <3> SUFFICES ASSUME \A s \in Tasks : Pending(s)' => task'[s].id # Newest
                 PROVE  healthy = (Newest = 0 \/ outcome[Newest] = "ok")
      BY <1>6, <1>7, <2>3 DEF HealthIsNewest, Newest, Pending
    <3>1. \A s \in Tasks : Pending(s) => task[s].id # Newest
      BY <1>5, <2>3 DEF Pending
    <3> QED
      BY <3>1 DEF EditorIInv, HealthIsNewest, Pending
  <2> QED
    BY <2>2, <2>3
<1>12. ShownInv'
  BY <1>4, <1>5, <1>7 DEF EditorIInv, ShownInv, At
<1> QED
  BY <1>8, <1>10, <1>11, <1>12 DEF EditorIInv

LEMMA EditorStepIInv ==
  ASSUME EditorIInv, [EditorNext]_editorVars
  PROVE  EditorIInv'
<1>0. /\ \A t \in Tasks : task[t] \in Task
      /\ docs \subseteq Documents /\ shown \in [Documents -> Nat \cup {Nothing}] /\ index \in Nat
      /\ Newest \in Nat
      /\ "loop" \in Tasks /\ "watcher" \in Tasks
  BY DEF EditorIInv, EditorTypeInv, Tasks, Newest
<1>1. CASE EditFile
  BY <1>1 DEF EditFile, EditorIInv, EditorTypeInv, IdsInv, HealthIsNewest, ShownInv, Newest, Pending, At
<1>2. ASSUME NEW u \in Documents, DidOpen(u) PROVE EditorIInv'
  <2> DEFINE k == [Resting EXCEPT !.pc = "publish", !.todo = {u}]
  <2>1. k \in Task /\ Becomes("loop", k) /\ k.pc = "publish"
    BY <1>0, <1>2 DEF DidOpen, Resting, Task, Labels
  <2> QED
    BY <1>0, <1>2, <2>1, Aside DEF DidOpen, Message, Pending, At
<1>3. ASSUME NEW u \in Documents, DidClose(u) PROVE EditorIInv'
  <2> DEFINE k == [Resting EXCEPT !.pc = "clear", !.doc = u]
  <2>1. k \in Task /\ Becomes("loop", k) /\ k.pc = "clear"
    BY <1>0, <1>3 DEF DidClose, Resting, Task, Labels
  <2> QED
    BY <1>0, <1>3, <2>1, Aside DEF DidClose, Message, Pending, At
<1>4. ASSUME NEW u \in Documents, DidSave(u) PROVE EditorIInv'
  <2> DEFINE k == [Resting EXCEPT !.pc = "refresh", !.id = Newest + 1, !.todo = {u}]
  <2>1. k \in Task /\ Becomes("loop", k) /\ k.pc = "refresh"
    <3>1. Newest + 1 \in Nat
      BY <1>0
    <3>2. k \in Task /\ k.pc = "refresh"
      BY <1>0, <1>4, <3>1 DEF DidSave, Resting, Task, Labels
    <3> QED
      BY <1>4, <3>2 DEF DidSave
  <2>2. k.id = Newest + 1
    BY DEF Resting
  <2> QED
    BY <1>0, <1>4, <2>1, <2>2, Begun DEF DidSave, Message
<1>5. CASE Clear
  <2> DEFINE k == Resting
  <2>1. k \in Task /\ Becomes("loop", k) /\ k.pc = "idle"
    BY <1>0, <1>5 DEF Clear, Resting, Task, Labels
  <2>2. shown' = [shown EXCEPT ![task["loop"].doc] = Nothing]
    BY <1>5 DEF Clear
  <2> QED
    BY <1>0, <1>5, <2>1, <2>2, Aside DEF Clear, Pending, At
<1>6. CASE Notice
  <2> DEFINE k == [Resting EXCEPT !.pc = "refresh", !.id = Newest + 1]
  <2>1. k \in Task /\ Becomes("watcher", k) /\ k.pc = "refresh"
    <3>1. Newest + 1 \in Nat
      BY <1>0
    <3>2. k \in Task /\ k.pc = "refresh"
      BY <1>0, <1>6, <3>1 DEF Notice, Resting, Task, Labels
    <3> QED
      BY <1>6, <3>2 DEF Notice
  <2>2. k.id = Newest + 1
    BY DEF Resting
  <2> QED
    BY <1>0, <1>6, <2>1, <2>2, Begun DEF Notice
<1>7. CASE WatchStops
  <2> DEFINE k == [Resting EXCEPT !.pc = "complete", !.id = Newest + 1]
  <2>1. k \in Task /\ Becomes("watcher", k) /\ k.pc = "complete"
    <3>1. Newest + 1 \in Nat
      BY <1>0
    <3>2. k \in Task /\ k.pc = "complete"
      BY <1>0, <1>7, <3>1 DEF WatchStops, Resting, Task, Labels
    <3> QED
      BY <1>7, <3>2 DEF WatchStops
  <2>2. k.id = Newest + 1
    BY DEF Resting
  <2> QED
    BY <1>0, <1>7, <2>1, <2>2, Begun DEF WatchStops
<1>8. ASSUME NEW t \in Tasks, Refresh(t) PROVE EditorIInv'
  BY <1>8, StepRefresh
<1>9. ASSUME NEW t \in Tasks, Complete(t) PROVE EditorIInv'
  BY <1>9, StepComplete
<1>10. ASSUME NEW t \in Tasks, CheckHealth(t) PROVE EditorIInv'
  <2>1. PICK u \in task[t].todo :
          Becomes(t, [task[t] EXCEPT !.todo = @ \ {u}, !.doc = u,
                                     !.pc = IF healthy THEN "guard" ELSE "publish"])
    BY <1>10 DEF CheckHealth
  <2> DEFINE k == [task[t] EXCEPT !.todo = @ \ {u}, !.doc = u,
                                  !.pc = IF healthy THEN "guard" ELSE "publish"]
  <2>2. k \in Task /\ k.pc \in {"guard", "publish"}
    BY <1>0 DEF Task, Labels
  <2> QED
    BY <1>0, <1>10, <2>1, <2>2, Aside DEF CheckHealth, Pending, At
<1>11. ASSUME NEW t \in Tasks, Compute(t) PROVE EditorIInv'
  <2> DEFINE k == [task[t] EXCEPT !.pc = IF published THEN "send" ELSE "publish", !.seen = index]
  <2>1. k \in Task /\ Becomes(t, k) /\ k.pc \in {"send", "publish"} /\ k.seen = index
    BY <1>0, <1>11 DEF Compute, Task, Labels
  <2> QED
    BY <1>0, <1>11, <2>1, Aside DEF Compute, Pending, At
<1>12. ASSUME NEW t \in Tasks, Send(t) PROVE EditorIInv'
  <2> DEFINE k == [task[t] EXCEPT !.pc = "publish"]
  <2>1. k \in Task /\ Becomes(t, k) /\ k.pc = "publish" /\ k.seen = task[t].seen
    BY <1>0, <1>12, Goes DEF Send, EditorIInv, Labels
  <2>2. task[t].seen = index
    BY <1>12 DEF Send, EditorIInv, ShownInv
  <2>3. shown' = [shown EXCEPT ![task[t].doc] = index]
    BY <1>12, <2>2 DEF Send
  <2>4. /\ shown' \in [Documents -> Nat \cup {Nothing}]
        /\ \A u \in Documents : shown'[u] = shown[u] \/ shown'[u] = index
    BY <1>0, <2>3
  <2> QED
    BY <1>0, <1>12, <2>1, <2>4, Aside DEF Send, Pending, At
<1>13. ASSUME NEW t \in Tasks, EndPublish(t) PROVE EditorIInv'
  <2> DEFINE k == Resting
  <2>1. k \in Task /\ Becomes(t, k) /\ k.pc = "idle"
    BY <1>0, <1>13 DEF EndPublish, Resting, Task, Labels
  <2> QED
    BY <1>0, <1>13, <2>1, Aside DEF EndPublish, Pending, At
<1>15. CASE RepublishOpen
  <2> DEFINE k == [task["watcher"] EXCEPT !.pc = "publish", !.todo = docs]
  <2>1. k \in Task /\ Becomes("watcher", k) /\ k.pc = "publish"
    BY <1>0, <1>15 DEF RepublishOpen, Task, Labels
  <2> QED
    BY <1>0, <1>15, <2>1, Aside DEF RepublishOpen, Pending, At
<1>14. CASE UNCHANGED editorVars
  BY <1>14 DEF editorVars, EditorIInv, EditorTypeInv, IdsInv, HealthIsNewest, ShownInv, Newest, Pending, At
<1> QED
  BY <1>1, <1>2, <1>3, <1>4, <1>5, <1>6, <1>7, <1>8, <1>9, <1>10, <1>11, <1>12, <1>13, <1>14, <1>15 DEF EditorNext

LEMMA EditorSpecIInv == EditorSpec => []EditorIInv
BY EditorInitIInv, EditorStepIInv, PTL DEF EditorSpec

(* The read loop and the watcher refresh at the same time and end in any     *)
(* order; once the newest refresh has ended, its outcome is the health the   *)
(* server answers by.                                                        *)
THEOREM NewestDecides == EditorSpec => []HealthIsNewest
<1>1. EditorIInv => HealthIsNewest
  BY DEF EditorIInv
<1> QED
  BY <1>1, EditorSpecIInv, PTL

(* The diagnostics of a document never go back to an older index: a commit   *)
(* waits for whoever has read the index and not yet sent what was computed.  *)
THEOREM DiagnosticsForward == EditorSpec => DiagnosticsAdvance
<1>1. ASSUME EditorIInv, [EditorNext]_editorVars, NEW u \in Documents, shown[u] # Nothing, shown'[u] # Nothing
      PROVE  shown'[u] >= shown[u]
  <2>1. shown[u] \in Nat /\ shown[u] <= index /\ shown \in [Documents -> Nat \cup {Nothing}] /\ index \in Nat
    BY <1>1 DEF EditorIInv, EditorTypeInv, ShownInv
  <2>2. CASE Clear
    BY <1>1, <2>1, <2>2 DEF Clear
  <2>3. ASSUME NEW t \in Tasks, Send(t) PROVE shown'[u] >= shown[u]
    <3>1. task[t].seen = index
      BY <1>1, <2>3 DEF Send, EditorIInv, ShownInv
    <3> QED
      BY <2>1, <2>3, <3>1 DEF Send
  <2>4. CASE shown' = shown
    BY <2>1, <2>4
  <2>5. shown' = shown \/ Clear \/ \E t \in Tasks : Send(t)
    BY <1>1 DEF EditorNext, editorVars, EditFile, Notice, WatchStops, DidOpen, DidClose, DidSave, Message,
                Refresh, Complete, RepublishOpen, CheckHealth, Compute, EndPublish
  <2> QED
    BY <2>2, <2>3, <2>4, <2>5
<1>2. EditorIInv /\ [EditorNext]_editorVars =>
        [\A u \in Documents :
           shown[u] # Nothing /\ shown'[u] # Nothing => shown'[u] >= shown[u]]_editorVars
  BY <1>1
<1> QED
  BY <1>2, EditorSpecIInv, PTL DEF EditorSpec, DiagnosticsAdvance
=============================================================================
