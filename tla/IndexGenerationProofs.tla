------------------------ MODULE IndexGenerationProofs ------------------------
(* Theorems about IndexGeneration, for any files, contents, projects,      *)
(* workers and bounds.                                                      *)
EXTENDS IndexGeneration, FiniteSetTheorems, TLAPS

\* What the assumptions on the constants say, in one place.
LEMMA ConstantsTyped ==
    /\ \A w \in Workers : Owner[w] \in Projects /\ Version[Owner[w]] \in Versions
    /\ MaxEdits \in Nat /\ MaxCommands \in Nat
    /\ Present \subseteq Contents /\ Gone \in Contents /\ Gone \notin Present
    /\ Indexable \subseteq Contents
BY OwnerAssumption, BoundAssumption, ContentsAssumption DEF Present, Contents

\* The values locals start from and return to, and how a step changes them.
LEMMA LocalsTyped ==
    /\ NewWalk \in WalkState
    /\ NoWalk \in WalkState
    /\ NoAttempt \in AttemptState
    /\ [NoAttempt EXCEPT !.tries = 1] \in AttemptState
    /\ [NoAttempt EXCEPT !.tries = 2] \in AttemptState
    /\ NoTx \in [owner : Workers \cup {None}, rows : SUBSET Row]
BY ConstantsTyped DEF NewWalk, NoWalk, NoAttempt, NoTx, WalkState, AttemptState

LEMMA WalkFields ==
    ASSUME NEW k \in WalkState
    PROVE  /\ k.todo \in SUBSET Files /\ k.at \in Files \cup {None}
           /\ k.stamp \in Nat /\ k.seen \in SUBSET Entry
BY DEF WalkState

LEMMA WalkVisits ==
    ASSUME NEW k \in WalkState, NEW f \in Files, NEW s \in Nat, NEW at \in Files \cup {None}
    PROVE  /\ [k EXCEPT !.todo = @ \ {f}] \in WalkState
           /\ [k EXCEPT !.todo = @ \ {f}, !.at = at, !.stamp = s] \in WalkState
BY DEF WalkState

LEMMA WalkHashes ==
    ASSUME NEW k \in WalkState, NEW e \in Entry
    PROVE  [k EXCEPT !.at = None, !.stamp = 0, !.seen = @ \cup {e}] \in WalkState
BY DEF WalkState

\* Replacing one worker's walk keeps the walks typed.
LEMMA WalkReplaced ==
    ASSUME walk \in [Workers -> WalkState], NEW w \in Workers, NEW k \in WalkState,
           walk' = [walk EXCEPT ![w] = k]
    PROVE  walk' \in [Workers -> WalkState]
OBVIOUS

\* Moving one worker to another step keeps the steps typed.
LEMMA GotoTyped ==
    ASSUME pc \in [Workers -> Steps], NEW w \in Workers, NEW l \in Steps, Goto(w, l)
    PROVE  pc' \in [Workers -> Steps]
BY DEF Goto

LEMMA StepsNamed ==
    {"idle", "check", "version", "state", "gate", "rlock", "flock", "unlock", "unlockErr", "pre", "index",
     "post", "validate", "embed", "failed", "ready", "read", "reread", "done"} \subseteq Steps
BY DEF Steps, Gated, Locked, Refreshing, Guarded

-----------------------------------------------------------------------------
LEMMA InitTyped == Init => TypeOK
<1> SUFFICES ASSUME Init PROVE TypeOK
  OBVIOUS
<1> USE ConstantsTyped DEF Init
<1>1. tree \in [Files -> [content : Contents, stamp : Nat]] /\ clock \in Nat
  OBVIOUS
<1>2. db \in [rows : SUBSET Row, sig : SUBSET Entry, ver : Versions \cup {None},
              state : {"none", "incomplete", "complete"}]
  <2>1. CASE db = Unindexed
    BY <2>1 DEF Unindexed
  <2>2. ASSUME NEW v \in Versions, db = Indexed(v)
        PROVE  db \in [rows : SUBSET Row, sig : SUBSET Entry, ver : Versions \cup {None},
                       state : {"none", "incomplete", "complete"}]
    <3>1. Indexed(v).rows \in SUBSET Row
      BY <1>1 DEF Indexed, Row
    <3>2. Indexed(v).sig \in SUBSET Entry
      BY <1>1 DEF Indexed, Entry, Contents
    <3> QED
      BY <3>1, <3>2, <2>2 DEF Indexed
  <2> QED
    BY <2>1, <2>2
<1>3. tx \in [owner : Workers \cup {None}, rows : SUBSET Row]
  BY LocalsTyped
<1>4. walk \in [Workers -> WalkState]
  BY LocalsTyped
<1>5. attempt \in AttemptState
  BY LocalsTyped
<1>6. pc \in [Workers -> Steps]
  BY DEF Steps
<1>7. witness \in [Files -> Contents]
  BY <1>1 DEF ContentOf
<1>8. since \in [Workers -> [Files -> SUBSET Contents]]
  OBVIOUS
<1> QED
  BY <1>1, <1>2, <1>3, <1>4, <1>5, <1>6, <1>7, <1>8 DEF TypeOK

\* A command that returns leaves every local of its worker typed.
LEMMA ReturnTyped ==
    ASSUME TypeOK, NEW w \in Workers, Return(w)
    PROVE  /\ pc' \in [Workers -> Steps]
           /\ body' \in [Workers -> {"refresh", "vectors"}]
           /\ walk' \in [Workers -> WalkState]
           /\ view' \in [Workers -> SUBSET Generation]
           /\ since' \in [Workers -> [Files -> SUBSET Contents]]
           /\ published' \in [Workers -> BOOLEAN]
BY LocalsTyped DEF TypeOK, Return, Goto, Steps

LEMMA SourcesChangedTyped ==
    ASSUME TypeOK, NEW w \in Workers, SourcesChanged(w)
    PROVE  TypeOK'
<1>1. pc' \in [Workers -> Steps]
  BY DEF TypeOK, SourcesChanged, Goto, Steps, Gated, Locked, Refreshing
<1>2. walk' \in [Workers -> WalkState]
  BY LocalsTyped DEF TypeOK, SourcesChanged
<1>3. attempt' \in AttemptState
  BY LocalsTyped DEF SourcesChanged
<1> QED
  BY <1>1, <1>2, <1>3, LocalsTyped
  DEF TypeOK, SourcesChanged, disk, handles, locks, env, cmd

\* Upserting an indexable content keeps the rows rows.
LEMMA UpsertTyped ==
    ASSUME NEW rows \in SUBSET Row, NEW f \in Files, NEW c \in Indexable, NEW v \in Versions
    PROVE  Upsert(rows, f, c, v) \in SUBSET Row
BY DEF Upsert, Row

LEMMA StepTyped == TypeOK /\ [Next]_vars => TypeOK'
<1> SUFFICES ASSUME TypeOK, [Next]_vars PROVE TypeOK'
  OBVIOUS
<1> USE ConstantsTyped, LocalsTyped
    DEF TypeOK, Steps, Gated, Locked, Refreshing, Guarded, disk, handles, locks, env, cmd
<1>1. ASSUME NEW f \in Files, NEW c \in Contents, NEW s \in 0 .. MaxEdits, Edit(f, c, s)
      PROVE  TypeOK'
  BY <1>1 DEF Edit
<1>2. ASSUME NEW w \in Workers, NEW f \in Files, Visit(w, f) PROVE TypeOK'
  <2> DEFINE at == IF tree[f].content = Gone THEN None ELSE f
             s  == IF tree[f].content = Gone THEN 0 ELSE tree[f].stamp
  <2>1. at \in Files \cup {None} /\ s \in Nat
    OBVIOUS
  <2>2. [walk[w] EXCEPT !.todo = @ \ {f}, !.at = at, !.stamp = s] \in WalkState
    BY <2>1, WalkVisits
  <2>3. walk' = [walk EXCEPT ![w] = [walk[w] EXCEPT !.todo = @ \ {f}, !.at = at, !.stamp = s]]
    BY <1>2 DEF Visit
  <2> HIDE DEF at, s
  <2>4. walk' \in [Workers -> WalkState]
    BY <2>2, <2>3, WalkReplaced
  <2> QED
    BY <1>2, <2>4 DEF Visit
<1>3. ASSUME NEW w \in Workers, NEW f \in Files, IndexFile(w, f) PROVE TypeOK'
  <2>1. [walk[w] EXCEPT !.todo = @ \ {f}] \in WalkState
    BY WalkVisits
  <2>2. walk' = [walk EXCEPT ![w] = [walk[w] EXCEPT !.todo = @ \ {f}]]
    BY <1>3 DEF IndexFile
  <2>5. walk' \in [Workers -> WalkState]
    BY <2>1, <2>2, WalkReplaced
  <2>3. CASE tree[f].content \in Indexable
    <3>1. Upsert(tx.rows, f, tree[f].content, Version[Owner[w]]) \in SUBSET Row
      BY <2>3, UpsertTyped
    <3>2. [attempt EXCEPT !.current = @ \cup {f}] \in AttemptState
      BY DEF AttemptState
    <3>3. tx' \in [owner : Workers \cup {None}, rows : SUBSET Row]
      BY <1>3, <2>3, <3>1 DEF IndexFile
    <3> QED
      BY <1>3, <2>5, <2>3, <3>2, <3>3 DEF IndexFile
  <2>4. CASE tree[f].content \notin Indexable
    BY <1>3, <2>5, <2>4 DEF IndexFile
  <2> QED
    BY <2>3, <2>4
<1>4. ASSUME NEW w \in Workers, NEW f \in Files, ValidateFile(w, f) PROVE TypeOK'
  <2>1. CASE Valid(f)
    <3>1. [walk[w] EXCEPT !.todo = @ \ {f}] \in WalkState
      BY WalkVisits
    <3>2. walk' = [walk EXCEPT ![w] = [walk[w] EXCEPT !.todo = @ \ {f}]]
      BY <1>4, <2>1 DEF ValidateFile
    <3>3. walk' \in [Workers -> WalkState]
      BY <3>1, <3>2, WalkReplaced
    <3> QED
      BY <1>4, <2>1, <3>3 DEF ValidateFile
  <2>2. CASE ~Valid(f)
    BY <1>4, <2>2, SourcesChangedTyped DEF ValidateFile
  <2> QED
    BY <2>1, <2>2
<1>5. ASSUME NEW w \in Workers, NEW f \in Files, ListedVanished(w, f) PROVE TypeOK'
  BY <1>5, SourcesChangedTyped DEF ListedVanished
<1>6. ASSUME NEW w \in Workers, StartCommand(w) PROVE TypeOK'
  BY <1>6 DEF StartCommand, Begin, Goto
<1>7. ASSUME NEW w \in Workers, StartRefresh(w) PROVE TypeOK'
  BY <1>7 DEF StartRefresh, Begin, Goto
<1>8. ASSUME NEW w \in Workers, HashEntry(w) PROVE TypeOK'
  <2> DEFINE f == walk[w].at
             e == [file |-> f, stamp |-> walk[w].stamp, content |-> tree[f].content]
  <2>1. f \in Files /\ tree[f].content \in Present /\ walk[w].stamp \in Nat
    BY <1>8, WalkFields DEF HashEntry, Contents
  <2>2. e \in Entry
    BY <2>1 DEF Entry
  <2>3. [walk[w] EXCEPT !.at = None, !.stamp = 0, !.seen = @ \cup {e}] \in WalkState
    BY <2>2, WalkHashes
  <2>4. walk' = [walk EXCEPT ![w] =
                    [walk[w] EXCEPT !.at = None, !.stamp = 0, !.seen = @ \cup {e}]]
    BY <1>8 DEF HashEntry
  <2> HIDE DEF e
  <2>5. walk' \in [Workers -> WalkState]
    BY <2>3, <2>4, WalkReplaced
  <2> QED
    BY <1>8, <2>5 DEF HashEntry
<1>9. ASSUME NEW w \in Workers, ScanError(w) PROVE TypeOK'
  <2>1. walk' \in [Workers -> WalkState]
    BY <1>9, WalkReplaced DEF ScanError
  <2>2. CASE pc[w] = "check"
    <3>1. pc' \in [Workers -> Steps]
      BY <1>9, <2>2, StepsNamed, GotoTyped DEF ScanError
    <3> QED
      BY <1>9, <2>1, <2>2, <3>1 DEF ScanError
  <2>3. CASE pc[w] # "check"
    <3>1. pc' \in [Workers -> Steps]
      BY <1>9, <2>3, StepsNamed, GotoTyped DEF ScanError
    <3> QED
      BY <1>9, <2>1, <2>3, <3>1 DEF ScanError
  <2> QED
    BY <2>2, <2>3
<1>10. ASSUME NEW w \in Workers, ReadSig(w) PROVE TypeOK'
  BY <1>10 DEF ReadSig, Goto
<1>11. ASSUME NEW w \in Workers, ReadState(w) PROVE TypeOK'
  <2>1. pc' \in [Workers -> Steps]
    <3>1. \E l \in Steps : Goto(w, l)
      BY <1>11, StepsNamed DEF ReadState
    <3> QED
      BY <3>1, GotoTyped
  <2>2. body' \in [Workers -> {"refresh", "vectors"}]
    BY <1>11 DEF ReadState
  <2> QED
    BY <1>11, <2>1, <2>2 DEF ReadState
<1>11a. ASSUME NEW w \in Workers, ReadVersion(w) PROVE TypeOK'
  <2>1. \E l \in Steps : Goto(w, l)
    BY <1>11a, StepsNamed DEF ReadVersion
  <2> QED
    BY <1>11a, <2>1, GotoTyped DEF ReadVersion
<1>12. ASSUME NEW w \in Workers, RejectClosed(w) PROVE TypeOK'
  BY <1>12, ReturnTyped DEF RejectClosed
<1>13. ASSUME NEW w \in Workers, TakeGate(w) PROVE TypeOK'
  BY <1>13 DEF TakeGate, Goto
<1>14. ASSUME NEW w \in Workers, TakeRefreshLock(w) PROVE TypeOK'
  <2>1. CASE body[w] = "refresh"
    <3>1. walk' \in [Workers -> WalkState]
      BY <1>14, <2>1, WalkReplaced DEF TakeRefreshLock
    <3>2. pc' \in [Workers -> Steps]
      BY <1>14, <2>1, StepsNamed, GotoTyped DEF TakeRefreshLock
    <3>3. attempt' \in AttemptState
      BY <1>14, <2>1 DEF TakeRefreshLock
    <3> QED
      BY <1>14, <3>1, <3>2, <3>3 DEF TakeRefreshLock
  <2>2. CASE body[w] # "refresh"
    BY <1>14, <2>2 DEF TakeRefreshLock, Goto
  <2> QED
    BY <2>1, <2>2
<1>15. ASSUME NEW w \in Workers, Unlock(w) PROVE TypeOK'
  <2>1. CASE pc[w] = "unlock"
    BY <1>15, <2>1 DEF Unlock, Goto
  <2>2. CASE pc[w] # "unlock"
    BY <1>15, <2>2, ReturnTyped DEF Unlock
  <2> QED
    BY <2>1, <2>2
<1>16. ASSUME NEW w \in Workers, BeginGeneration(w) PROVE TypeOK'
  <2>1. [attempt EXCEPT !.pre = walk[w].seen, !.current = {}, !.base = ContentOf]
          \in AttemptState
    BY WalkFields DEF AttemptState, ContentOf
  <2> QED
    BY <1>16, <2>1 DEF BeginGeneration, Goto
<1>17. ASSUME NEW w \in Workers, FinishIndex(w) PROVE TypeOK'
  BY <1>17 DEF FinishIndex, Goto
<1>18. ASSUME NEW w \in Workers, CompareSignatures(w) PROVE TypeOK'
  <2>1. CASE walk[w].seen = attempt.pre
    <3>1. walk' \in [Workers -> WalkState]
      BY <1>18, <2>1, WalkReplaced DEF CompareSignatures
    <3>2. pc' \in [Workers -> Steps]
      BY <1>18, <2>1, StepsNamed, GotoTyped DEF CompareSignatures
    <3> QED
      BY <1>18, <2>1, <3>1, <3>2 DEF CompareSignatures
  <2>2. CASE walk[w].seen # attempt.pre
    BY <1>18, <2>2, SourcesChangedTyped DEF CompareSignatures
  <2> QED
    BY <2>1, <2>2
<1>19. ASSUME NEW w \in Workers, Commit(w) PROVE TypeOK'
  <2>1. db' \in [rows : SUBSET Row, sig : SUBSET Entry, ver : Versions \cup {None},
                 state : {"none", "incomplete", "complete"}]
    <3>1. tx.rows \in SUBSET Row /\ attempt.pre \in SUBSET Entry
      BY DEF AttemptState
    <3>2. db' = [rows |-> tx.rows, sig |-> attempt.pre,
                 ver |-> Version[Owner[w]], state |-> "complete"]
      BY <1>19 DEF Commit
    <3> QED
      BY <3>1, <3>2
  <2>2. witness' \in [Files -> Contents]
    BY <1>19 DEF Commit, AttemptState
  <2>3. pc' \in [Workers -> Steps]
    BY <1>19, StepsNamed, GotoTyped DEF Commit
  <2>4. walk' \in [Workers -> WalkState]
    BY <1>19, WalkReplaced DEF Commit
  <2> QED
    BY <1>19, <2>1, <2>2, <2>3, <2>4 DEF Commit
<1>20. ASSUME NEW w \in Workers, EmbedDone(w) PROVE TypeOK'
  BY <1>20 DEF EmbedDone, Goto
<1>21. ASSUME NEW w \in Workers, MarkIncomplete(w) PROVE TypeOK'
  BY <1>21 DEF MarkIncomplete, Goto
<1>22. ASSUME NEW w \in Workers, TakeReadGuard(w) PROVE TypeOK'
  BY <1>22 DEF TakeReadGuard, Goto
<1>23. ASSUME NEW w \in Workers, RequirePublished(w) PROVE TypeOK'
  <2>1. CASE db.state = "complete" /\ open[Owner[w]]
    BY <1>23, <2>1 DEF RequirePublished, Goto
  <2>2. CASE ~(db.state = "complete" /\ open[Owner[w]])
    BY <1>23, <2>2, ReturnTyped DEF RequirePublished, ReleaseGuard
  <2> QED
    BY <2>1, <2>2
<1>24. ASSUME NEW w \in Workers, ReadRows(w) PROVE TypeOK'
  BY <1>24 DEF ReadRows, Goto, Generation, DbGeneration
<1>25. ASSUME NEW w \in Workers, EndRead(w) PROVE TypeOK'
  BY <1>25, ReturnTyped DEF EndRead, ReleaseGuard
<1>26. ASSUME NEW w \in Workers, GiveUp(w) PROVE TypeOK'
  BY <1>26, ReturnTyped DEF GiveUp
<1>27. ASSUME NEW w \in Workers, RefreshFails(w) PROVE TypeOK'
  BY <1>27 DEF RefreshFails, Goto
<1>28. ASSUME NEW w \in Workers, EmbedCancelled(w) PROVE TypeOK'
  BY <1>28 DEF EmbedCancelled, Goto
<1>29. ASSUME NEW w \in Workers, MarkFails(w) PROVE TypeOK'
  BY <1>29 DEF MarkFails, Goto
<1>30. ASSUME NEW p \in Projects, CloseBegin(p) PROVE TypeOK'
  BY <1>30 DEF CloseBegin
<1>31. ASSUME NEW p \in Projects, CloseStore(p) PROVE TypeOK'
  BY <1>31 DEF CloseStore
<1>32. ASSUME NEW p \in Projects, Crash(p) PROVE TypeOK'
  BY <1>32 DEF Crash, Mine
<1>33. ASSUME NEW p \in Projects, Reopen(p) PROVE TypeOK'
  BY <1>33 DEF Reopen
<1>34. CASE UNCHANGED vars
  BY <1>34 DEF vars
<1> QED
  BY <1>1, <1>2, <1>3, <1>4, <1>5, <1>6, <1>7, <1>8, <1>9, <1>10, <1>11, <1>11a, <1>12, <1>13, <1>14, <1>15, <1>16, <1>17, <1>18, <1>19, <1>20, <1>21, <1>22, <1>23, <1>24, <1>25, <1>26, <1>27, <1>28, <1>29, <1>30, <1>31, <1>32, <1>33, <1>34 DEF Next, Progress, Fault

\* Every reachable state is typed.
THEOREM TypeCorrect == Spec => []TypeOK
  BY InitTyped, StepTyped, PTL DEF Spec

-----------------------------------------------------------------------------
(* The locks.  LockDiscipline is inductive once it also says that the file  *)
(* lock is never held in both modes.                                        *)
LockInv ==
    /\ LockDiscipline
    /\ holder # None => readers = {}

LEMMA InitLocks == Init => LockInv
BY ConstantsTyped, NoneAssumption
DEF Init, LockInv, LockDiscipline, Locked, Refreshing, Gated, Guarded

\* A step between two places of the same class keeps them.
LEMMA LocksKept ==
    ASSUME TypeOK, LockInv, NEW w \in Workers, NEW l \in Steps, Goto(w, l), UNCHANGED locks,
           l \in Locked <=> pc[w] \in Locked, l \in Gated <=> pc[w] \in Gated,
           l \in Guarded <=> pc[w] \in Guarded
    PROVE  LockInv'
<1>1. \A v \in Workers :
        /\ pc'[v] \in Locked <=> pc[v] \in Locked
        /\ pc'[v] \in Gated <=> pc[v] \in Gated
        /\ pc'[v] \in Guarded <=> pc[v] \in Guarded
  BY DEF Goto, TypeOK
<1> QED
  BY <1>1 DEF LockInv, LockDiscipline, locks

LEMMA StepLocks == TypeOK /\ LockInv /\ [Next]_vars => LockInv'
<1> SUFFICES ASSUME TypeOK, LockInv, [Next]_vars PROVE LockInv'
  OBVIOUS
<1> USE ConstantsTyped, NoneAssumption
    DEF TypeOK, LockInv, LockDiscipline, Steps, Gated, Locked, Refreshing, Guarded, Walking,
        disk, handles, locks, env, cmd, Goto
<1>1. ASSUME NEW f \in Files, NEW c \in Contents, NEW s \in 0 .. MaxEdits, Edit(f, c, s) PROVE LockInv'
  BY <1>1 DEF Edit
<1>2. ASSUME NEW w \in Workers, NEW f \in Files, Visit(w, f) PROVE LockInv'
  BY <1>2 DEF Visit
<1>3. ASSUME NEW w \in Workers, NEW f \in Files, IndexFile(w, f) PROVE LockInv'
  BY <1>3 DEF IndexFile
<1>4. ASSUME NEW w \in Workers, NEW f \in Files, ValidateFile(w, f) PROVE LockInv'
  BY <1>4 DEF ValidateFile, SourcesChanged
<1>5. ASSUME NEW w \in Workers, NEW f \in Files, ListedVanished(w, f) PROVE LockInv'
  <2>1. \E l \in {"pre", "failed"} : Goto(w, l)
    BY <1>5 DEF ListedVanished, SourcesChanged
  <2>2. UNCHANGED locks /\ pc[w] = "index"
    BY <1>5 DEF ListedVanished, SourcesChanged
  <2> HIDE DEF TypeOK, LockInv, LockDiscipline, locks
  <2> QED
    BY <2>1, <2>2, LocksKept
<1>6. ASSUME NEW w \in Workers, StartCommand(w) PROVE LockInv'
  BY <1>6 DEF StartCommand, Begin
<1>7. ASSUME NEW w \in Workers, StartRefresh(w) PROVE LockInv'
  BY <1>7 DEF StartRefresh, Begin
<1>8. ASSUME NEW w \in Workers, HashEntry(w) PROVE LockInv'
  BY <1>8 DEF HashEntry
<1>9. ASSUME NEW w \in Workers, ScanError(w) PROVE LockInv'
  <2>1. UNCHANGED locks /\ pc[w] \in Walking
    BY <1>9 DEF ScanError
  <2>2. CASE pc[w] = "check"
    <3>1. Goto(w, "gate")
      BY <1>9, <2>2 DEF ScanError
    <3> HIDE DEF TypeOK, LockInv, LockDiscipline, locks
    <3> QED
      BY <2>1, <2>2, <3>1, LocksKept
  <2>3. CASE pc[w] # "check"
    <3>1. Goto(w, "failed")
      BY <1>9, <2>3 DEF ScanError
    <3> HIDE DEF TypeOK, LockInv, LockDiscipline, locks
    <3> QED
      BY <2>1, <2>3, <3>1, LocksKept
  <2> QED
    BY <2>2, <2>3
<1>10. ASSUME NEW w \in Workers, ReadSig(w) PROVE LockInv'
  BY <1>10 DEF ReadSig
<1>11. ASSUME NEW w \in Workers, ReadState(w) PROVE LockInv'
  <2>1. \E l \in {"gate", "rlock"} : Goto(w, l)
    BY <1>11 DEF ReadState
  <2>2. UNCHANGED locks /\ pc[w] = "state"
    BY <1>11 DEF ReadState
  <2> HIDE DEF TypeOK, LockInv, LockDiscipline, locks
  <2> QED
    BY <2>1, <2>2, LocksKept
<1>11a. ASSUME NEW w \in Workers, ReadVersion(w) PROVE LockInv'
  <2>1. \E l \in {"gate", "state"} : Goto(w, l)
    BY <1>11a DEF ReadVersion
  <2>2. UNCHANGED locks /\ pc[w] = "version"
    BY <1>11a DEF ReadVersion
  <2> HIDE DEF TypeOK, LockInv, LockDiscipline, locks
  <2> QED
    BY <2>1, <2>2, LocksKept
<1>12. ASSUME NEW w \in Workers, RejectClosed(w) PROVE LockInv'
  BY <1>12 DEF RejectClosed, Return
<1>13. ASSUME NEW w \in Workers, TakeGate(w) PROVE LockInv'
  BY <1>13 DEF TakeGate
<1>14. ASSUME NEW w \in Workers, TakeRefreshLock(w) PROVE LockInv'
  <2>1. \E l \in {"pre", "embed"} : pc' = [pc EXCEPT ![w] = l]
    BY <1>14 DEF TakeRefreshLock
  <2>2. pc[w] = "flock" /\ holder = None /\ holder' = w /\ readers = {}
    BY <1>14 DEF TakeRefreshLock
  <2>3. readers' = readers /\ gate' = gate
    BY <1>14 DEF TakeRefreshLock
  <2> QED
    BY <2>1, <2>2, <2>3
<1>15. ASSUME NEW w \in Workers, Unlock(w) PROVE LockInv'
  <2>1. \E l \in {"rlock", "idle"} : pc' = [pc EXCEPT ![w] = l]
    BY <1>15 DEF Unlock, Return
  <2>2. /\ pc[w] \in {"unlock", "unlockErr"} /\ holder' = None /\ readers' = readers
        /\ gate' = [gate EXCEPT ![Owner[w]] = None]
    BY <1>15 DEF Unlock
  <2> QED
    BY <2>1, <2>2
<1>16. ASSUME NEW w \in Workers, BeginGeneration(w) PROVE LockInv'
  BY <1>16 DEF BeginGeneration
<1>17. ASSUME NEW w \in Workers, FinishIndex(w) PROVE LockInv'
  BY <1>17 DEF FinishIndex
<1>18. ASSUME NEW w \in Workers, CompareSignatures(w) PROVE LockInv'
  <2>1. \E l \in {"validate", "pre", "failed"} : Goto(w, l)
    BY <1>18 DEF CompareSignatures, SourcesChanged
  <2>2. pc[w] = "post"
    BY <1>18 DEF CompareSignatures
  <2>3. UNCHANGED locks
    <3>1. CASE walk[w].seen = attempt.pre
      BY <1>18, <3>1 DEF CompareSignatures
    <3>2. CASE walk[w].seen # attempt.pre
      BY <1>18, <3>2 DEF CompareSignatures, SourcesChanged
    <3> QED
      BY <3>1, <3>2
  <2> HIDE DEF TypeOK, LockInv, LockDiscipline, locks
  <2> QED
    BY <2>1, <2>2, <2>3, LocksKept
<1>19. ASSUME NEW w \in Workers, Commit(w) PROVE LockInv'
  BY <1>19 DEF Commit
<1>20. ASSUME NEW w \in Workers, EmbedDone(w) PROVE LockInv'
  BY <1>20 DEF EmbedDone
<1>21. ASSUME NEW w \in Workers, MarkIncomplete(w) PROVE LockInv'
  BY <1>21 DEF MarkIncomplete
<1>22. ASSUME NEW w \in Workers, TakeReadGuard(w) PROVE LockInv'
  BY <1>22 DEF TakeReadGuard
<1>23. ASSUME NEW w \in Workers, RequirePublished(w) PROVE LockInv'
  <2>1. CASE db.state = "complete" /\ open[Owner[w]]
    <3>1. pc[w] = "ready" /\ Goto(w, "read") /\ UNCHANGED locks
      BY <1>23, <2>1 DEF RequirePublished
    <3> HIDE DEF TypeOK, LockInv, LockDiscipline, locks
    <3> QED
      BY <3>1, LocksKept
  <2>2. CASE ~(db.state = "complete" /\ open[Owner[w]])
    <3>1. /\ pc[w] = "ready" /\ pc' = [pc EXCEPT ![w] = "idle"]
          /\ readers' = readers \ {w} /\ holder' = holder /\ gate' = gate
      BY <1>23, <2>2 DEF RequirePublished, ReleaseGuard, Return
    <3> QED
      BY <3>1
  <2> QED
    BY <2>1, <2>2
<1>24. ASSUME NEW w \in Workers, ReadRows(w) PROVE LockInv'
  BY <1>24 DEF ReadRows
<1>25. ASSUME NEW w \in Workers, EndRead(w) PROVE LockInv'
  BY <1>25 DEF EndRead, ReleaseGuard, Return
<1>26. ASSUME NEW w \in Workers, GiveUp(w) PROVE LockInv'
  BY <1>26 DEF GiveUp, Return
<1>27. ASSUME NEW w \in Workers, RefreshFails(w) PROVE LockInv'
  BY <1>27 DEF RefreshFails
<1>28. ASSUME NEW w \in Workers, EmbedCancelled(w) PROVE LockInv'
  BY <1>28 DEF EmbedCancelled
<1>29. ASSUME NEW w \in Workers, MarkFails(w) PROVE LockInv'
  BY <1>29 DEF MarkFails
<1>30. ASSUME NEW p \in Projects, CloseBegin(p) PROVE LockInv'
  BY <1>30 DEF CloseBegin
<1>31. ASSUME NEW p \in Projects, CloseStore(p) PROVE LockInv'
  BY <1>31 DEF CloseStore
<1>32. ASSUME NEW p \in Projects, Crash(p) PROVE LockInv'
  BY <1>32 DEF Crash, Mine
<1>33. ASSUME NEW p \in Projects, Reopen(p) PROVE LockInv'
  BY <1>33 DEF Reopen
<1>34. CASE UNCHANGED vars
  BY <1>34 DEF vars
<1> QED
  BY <1>1, <1>2, <1>3, <1>4, <1>5, <1>6, <1>7, <1>8, <1>9, <1>10, <1>11, <1>11a, <1>12, <1>13, <1>14, <1>15, <1>16, <1>17, <1>18, <1>19, <1>20, <1>21, <1>22, <1>23, <1>24, <1>25, <1>26, <1>27, <1>28, <1>29, <1>30, <1>31, <1>32, <1>33, <1>34 DEF Next, Progress, Fault

\* The locks are held exactly by the workers between taking and releasing them.
THEOREM LocksDisciplined == Spec => []LockDiscipline
<1>1. TypeOK /\ LockInv /\ [Next]_vars => LockInv'
  BY StepLocks
<1>2. LockInv => LockDiscipline
  BY DEF LockInv
<1> QED
  BY <1>1, <1>2, InitLocks, TypeCorrect, PTL DEF Spec

\* Nothing mutates or reads the derived index while a worker mutates it,
\* whatever the number of processes and of their goroutines.
THEOREM MutationExcludes == Spec => []MutationIsExclusive
<1>1. TypeOK /\ LockInv => MutationIsExclusive
  <2> SUFFICES ASSUME TypeOK, LockInv, NEW w \in Workers, NEW v \in Workers, pc[w] \in Locked
               PROVE  pc[v] \notin Guarded /\ (v # w => pc[v] \notin Locked)
    BY DEF MutationIsExclusive
  <2>1. holder = w
    BY DEF LockInv, LockDiscipline
  <2>2. readers = {}
    BY <2>1, NoneAssumption DEF LockInv
  <2> QED
    BY <2>1, <2>2 DEF LockInv, LockDiscipline
<1> QED
  BY <1>1, InitLocks, StepLocks, TypeCorrect, PTL DEF Spec

-----------------------------------------------------------------------------
(* Close.  A project whose gate is taken, or that is not closed, has its    *)
(* store open.                                                              *)
OpenInv ==
    /\ \A p \in Projects : ~closed[p] => open[p]
    /\ \A w \in Workers : pc[w] \in Gated => open[Owner[w]]

LEMMA InitOpen == Init => OpenInv
BY ConstantsTyped DEF Init, OpenInv, Gated, Locked, Refreshing

LEMMA StepOpen == TypeOK /\ LockInv /\ OpenInv /\ [Next]_vars => OpenInv'
<1> SUFFICES ASSUME TypeOK, LockInv, OpenInv, [Next]_vars PROVE OpenInv'
  OBVIOUS
<1> USE ConstantsTyped, NoneAssumption
    DEF TypeOK, OpenInv, Steps, Gated, Locked, Refreshing, Guarded, Walking,
        disk, handles, locks, env, cmd, Goto
<1>1. ASSUME NEW f \in Files, NEW c \in Contents, NEW s \in 0 .. MaxEdits, Edit(f, c, s) PROVE OpenInv'
  BY <1>1 DEF Edit
<1>2. ASSUME NEW w \in Workers, NEW f \in Files, Visit(w, f) PROVE OpenInv'
  BY <1>2 DEF Visit
<1>3. ASSUME NEW w \in Workers, NEW f \in Files, IndexFile(w, f) PROVE OpenInv'
  BY <1>3 DEF IndexFile
<1>4. ASSUME NEW w \in Workers, NEW f \in Files, ValidateFile(w, f) PROVE OpenInv'
  BY <1>4 DEF ValidateFile, SourcesChanged
<1>5. ASSUME NEW w \in Workers, NEW f \in Files, ListedVanished(w, f) PROVE OpenInv'
  BY <1>5 DEF ListedVanished, SourcesChanged
<1>6. ASSUME NEW w \in Workers, StartCommand(w) PROVE OpenInv'
  BY <1>6 DEF StartCommand, Begin
<1>7. ASSUME NEW w \in Workers, StartRefresh(w) PROVE OpenInv'
  BY <1>7 DEF StartRefresh, Begin
<1>8. ASSUME NEW w \in Workers, HashEntry(w) PROVE OpenInv'
  BY <1>8 DEF HashEntry
<1>9. ASSUME NEW w \in Workers, ScanError(w) PROVE OpenInv'
  BY <1>9 DEF ScanError
<1>10. ASSUME NEW w \in Workers, ReadSig(w) PROVE OpenInv'
  BY <1>10 DEF ReadSig
<1>11. ASSUME NEW w \in Workers, ReadState(w) PROVE OpenInv'
  BY <1>11 DEF ReadState
<1>11a. ASSUME NEW w \in Workers, ReadVersion(w) PROVE OpenInv'
  BY <1>11a DEF ReadVersion
<1>12. ASSUME NEW w \in Workers, RejectClosed(w) PROVE OpenInv'
  BY <1>12 DEF RejectClosed, Return
<1>13. ASSUME NEW w \in Workers, TakeGate(w) PROVE OpenInv'
  BY <1>13 DEF TakeGate
<1>14. ASSUME NEW w \in Workers, TakeRefreshLock(w) PROVE OpenInv'
  BY <1>14 DEF TakeRefreshLock
<1>15. ASSUME NEW w \in Workers, Unlock(w) PROVE OpenInv'
  BY <1>15 DEF Unlock, Return
<1>16. ASSUME NEW w \in Workers, BeginGeneration(w) PROVE OpenInv'
  BY <1>16 DEF BeginGeneration
<1>17. ASSUME NEW w \in Workers, FinishIndex(w) PROVE OpenInv'
  BY <1>17 DEF FinishIndex
<1>18. ASSUME NEW w \in Workers, CompareSignatures(w) PROVE OpenInv'
  BY <1>18 DEF CompareSignatures, SourcesChanged
<1>19. ASSUME NEW w \in Workers, Commit(w) PROVE OpenInv'
  BY <1>19 DEF Commit
<1>20. ASSUME NEW w \in Workers, EmbedDone(w) PROVE OpenInv'
  BY <1>20 DEF EmbedDone
<1>21. ASSUME NEW w \in Workers, MarkIncomplete(w) PROVE OpenInv'
  BY <1>21 DEF MarkIncomplete
<1>22. ASSUME NEW w \in Workers, TakeReadGuard(w) PROVE OpenInv'
  BY <1>22 DEF TakeReadGuard
<1>23. ASSUME NEW w \in Workers, RequirePublished(w) PROVE OpenInv'
  BY <1>23 DEF RequirePublished, ReleaseGuard, Return
<1>24. ASSUME NEW w \in Workers, ReadRows(w) PROVE OpenInv'
  BY <1>24 DEF ReadRows
<1>25. ASSUME NEW w \in Workers, EndRead(w) PROVE OpenInv'
  BY <1>25 DEF EndRead, ReleaseGuard, Return
<1>26. ASSUME NEW w \in Workers, GiveUp(w) PROVE OpenInv'
  BY <1>26 DEF GiveUp, Return
<1>27. ASSUME NEW w \in Workers, RefreshFails(w) PROVE OpenInv'
  BY <1>27 DEF RefreshFails
<1>28. ASSUME NEW w \in Workers, EmbedCancelled(w) PROVE OpenInv'
  BY <1>28 DEF EmbedCancelled
<1>29. ASSUME NEW w \in Workers, MarkFails(w) PROVE OpenInv'
  BY <1>29 DEF MarkFails
<1>30. ASSUME NEW p \in Projects, CloseBegin(p) PROVE OpenInv'
  BY <1>30 DEF CloseBegin
<1>31. ASSUME NEW p \in Projects, CloseStore(p) PROVE OpenInv'
  BY <1>31 DEF CloseStore, LockInv, LockDiscipline
<1>32. ASSUME NEW p \in Projects, Crash(p) PROVE OpenInv'
  BY <1>32 DEF Crash, Mine
<1>33. ASSUME NEW p \in Projects, Reopen(p) PROVE OpenInv'
  BY <1>33 DEF Reopen
<1>34. CASE UNCHANGED vars
  BY <1>34 DEF vars
<1> QED
  BY <1>1, <1>2, <1>3, <1>4, <1>5, <1>6, <1>7, <1>8, <1>9, <1>10, <1>11, <1>11a, <1>12, <1>13, <1>14, <1>15, <1>16, <1>17, <1>18, <1>19, <1>20, <1>21, <1>22, <1>23, <1>24, <1>25, <1>26, <1>27, <1>28, <1>29, <1>30, <1>31, <1>32, <1>33, <1>34 DEF Next, Progress, Fault

\* Close never closes the store under a worker that has the refresh lock.
THEOREM StoreStaysOpen == Spec => []StoreOpenWhileLocked
<1>1. OpenInv => StoreOpenWhileLocked
  BY DEF OpenInv, StoreOpenWhileLocked, Gated
<1> QED
  BY <1>1, InitLocks, StepLocks, InitOpen, StepOpen, TypeCorrect, PTL DEF Spec

-----------------------------------------------------------------------------
(* The transaction belongs to the lock holder, and every row in it, like    *)
(* every row of the committed database, was derived by one binary version.  *)
Writing == {"index", "post", "validate"}

VersionInv ==
    /\ \A w \in Workers : tx.owner = w <=> pc[w] \in Writing
    /\ \A r \in db.rows : r.ver = db.ver
    /\ \A w \in Workers : tx.owner = w => \A r \in tx.rows : r.ver = Version[Owner[w]]

LEMMA InitVersions == Init => VersionInv
BY ConstantsTyped, NoneAssumption DEF Init, VersionInv, Writing, NoTx, Unindexed, Indexed

\* An attempt that ends discards the transaction.
LEMMA VersionsDiscarded ==
    ASSUME TypeOK, LockInv, VersionInv, NEW w \in Workers, pc[w] \in Writing, SourcesChanged(w)
    PROVE  VersionInv'
<1>1. db' = db /\ tx' = NoTx
  BY DEF SourcesChanged, locks, env, cmd
<1>2. \E l \in {"pre", "failed"} : pc' = [pc EXCEPT ![w] = l]
  BY DEF SourcesChanged, Goto
<1>3. holder = w
  BY DEF LockInv, LockDiscipline, Writing, Locked, Refreshing
<1>4. \A v \in Workers : pc'[v] \notin Writing
  BY <1>2, <1>3 DEF TypeOK, LockInv, LockDiscipline, Writing, Locked, Refreshing
<1> QED
  BY <1>1, <1>4, NoneAssumption DEF VersionInv, NoTx

LEMMA StepVersions == TypeOK /\ LockInv /\ VersionInv /\ [Next]_vars => VersionInv'
<1> SUFFICES ASSUME TypeOK, LockInv, VersionInv, [Next]_vars PROVE VersionInv'
  OBVIOUS
<1> USE ConstantsTyped, NoneAssumption
    DEF TypeOK, LockInv, LockDiscipline, VersionInv, Writing, Steps, Gated, Locked, Refreshing,
        Guarded, Walking, NoTx, disk, handles, locks, env, cmd, Goto
<1>1. ASSUME NEW f \in Files, NEW c \in Contents, NEW s \in 0 .. MaxEdits, Edit(f, c, s) PROVE VersionInv'
  BY <1>1 DEF Edit
<1>2. ASSUME NEW w \in Workers, NEW f \in Files, Visit(w, f) PROVE VersionInv'
  BY <1>2 DEF Visit
<1>3. ASSUME NEW w \in Workers, NEW f \in Files, IndexFile(w, f) PROVE VersionInv'
  <2>1. tx.owner = w /\ tx'.owner = w /\ UNCHANGED <<db, pc>>
    BY <1>3 DEF IndexFile
  <2>2. \A r \in tx'.rows : r.ver = Version[Owner[w]]
    <3>1. CASE tree[f].content \in Indexable
      BY <1>3, <2>1, <3>1 DEF IndexFile, Upsert
    <3>2. CASE tree[f].content \notin Indexable
      BY <1>3, <2>1, <3>2 DEF IndexFile
    <3> QED
      BY <3>1, <3>2
  <2> QED
    BY <2>1, <2>2
<1>4. ASSUME NEW w \in Workers, NEW f \in Files, ValidateFile(w, f) PROVE VersionInv'
  <2>1. CASE Valid(f)
    BY <1>4, <2>1 DEF ValidateFile
  <2>2. CASE ~Valid(f)
    BY <1>4, <2>2, VersionsDiscarded DEF ValidateFile
  <2> QED
    BY <2>1, <2>2
<1>5. ASSUME NEW w \in Workers, NEW f \in Files, ListedVanished(w, f) PROVE VersionInv'
  BY <1>5, VersionsDiscarded DEF ListedVanished
<1>6. ASSUME NEW w \in Workers, StartCommand(w) PROVE VersionInv'
  BY <1>6 DEF StartCommand, Begin
<1>7. ASSUME NEW w \in Workers, StartRefresh(w) PROVE VersionInv'
  BY <1>7 DEF StartRefresh, Begin
<1>8. ASSUME NEW w \in Workers, HashEntry(w) PROVE VersionInv'
  BY <1>8 DEF HashEntry
<1>9. ASSUME NEW w \in Workers, ScanError(w) PROVE VersionInv'
  BY <1>9 DEF ScanError
<1>10. ASSUME NEW w \in Workers, ReadSig(w) PROVE VersionInv'
  BY <1>10 DEF ReadSig
<1>11. ASSUME NEW w \in Workers, ReadState(w) PROVE VersionInv'
  BY <1>11 DEF ReadState
<1>11a. ASSUME NEW w \in Workers, ReadVersion(w) PROVE VersionInv'
  BY <1>11a DEF ReadVersion
<1>12. ASSUME NEW w \in Workers, RejectClosed(w) PROVE VersionInv'
  BY <1>12 DEF RejectClosed, Return
<1>13. ASSUME NEW w \in Workers, TakeGate(w) PROVE VersionInv'
  BY <1>13 DEF TakeGate
<1>14. ASSUME NEW w \in Workers, TakeRefreshLock(w) PROVE VersionInv'
  BY <1>14 DEF TakeRefreshLock
<1>15. ASSUME NEW w \in Workers, Unlock(w) PROVE VersionInv'
  BY <1>15 DEF Unlock, Return
<1>16. ASSUME NEW w \in Workers, BeginGeneration(w) PROVE VersionInv'
  BY <1>16 DEF BeginGeneration
<1>17. ASSUME NEW w \in Workers, FinishIndex(w) PROVE VersionInv'
  BY <1>17 DEF FinishIndex
<1>18. ASSUME NEW w \in Workers, CompareSignatures(w) PROVE VersionInv'
  <2>1. CASE walk[w].seen = attempt.pre
    BY <1>18, <2>1 DEF CompareSignatures
  <2>2. CASE walk[w].seen # attempt.pre
    <3>1. pc[w] \in Writing /\ SourcesChanged(w)
      BY <1>18, <2>2 DEF CompareSignatures
    <3> QED
      BY <3>1, VersionsDiscarded
  <2> QED
    BY <2>1, <2>2
<1>19. ASSUME NEW w \in Workers, Commit(w) PROVE VersionInv'
  BY <1>19 DEF Commit
<1>20. ASSUME NEW w \in Workers, EmbedDone(w) PROVE VersionInv'
  BY <1>20 DEF EmbedDone
<1>21. ASSUME NEW w \in Workers, MarkIncomplete(w) PROVE VersionInv'
  BY <1>21 DEF MarkIncomplete
<1>22. ASSUME NEW w \in Workers, TakeReadGuard(w) PROVE VersionInv'
  BY <1>22 DEF TakeReadGuard
<1>23. ASSUME NEW w \in Workers, RequirePublished(w) PROVE VersionInv'
  BY <1>23 DEF RequirePublished, ReleaseGuard, Return
<1>24. ASSUME NEW w \in Workers, ReadRows(w) PROVE VersionInv'
  BY <1>24 DEF ReadRows
<1>25. ASSUME NEW w \in Workers, EndRead(w) PROVE VersionInv'
  BY <1>25 DEF EndRead, ReleaseGuard, Return
<1>26. ASSUME NEW w \in Workers, GiveUp(w) PROVE VersionInv'
  BY <1>26 DEF GiveUp, Return
<1>27. ASSUME NEW w \in Workers, RefreshFails(w) PROVE VersionInv'
  BY <1>27 DEF RefreshFails
<1>28. ASSUME NEW w \in Workers, EmbedCancelled(w) PROVE VersionInv'
  BY <1>28 DEF EmbedCancelled
<1>29. ASSUME NEW w \in Workers, MarkFails(w) PROVE VersionInv'
  BY <1>29 DEF MarkFails
<1>30. ASSUME NEW p \in Projects, CloseBegin(p) PROVE VersionInv'
  BY <1>30 DEF CloseBegin
<1>31. ASSUME NEW p \in Projects, CloseStore(p) PROVE VersionInv'
  BY <1>31 DEF CloseStore
<1>32. ASSUME NEW p \in Projects, Crash(p) PROVE VersionInv'
  BY <1>32 DEF Crash, Mine
<1>33. ASSUME NEW p \in Projects, Reopen(p) PROVE VersionInv'
  BY <1>33 DEF Reopen
<1>34. CASE UNCHANGED vars
  BY <1>34 DEF vars
<1> QED
  BY <1>1, <1>2, <1>3, <1>4, <1>5, <1>6, <1>7, <1>8, <1>9, <1>10, <1>11, <1>11a, <1>12, <1>13, <1>14, <1>15, <1>16, <1>17, <1>18, <1>19, <1>20, <1>21, <1>22, <1>23, <1>24, <1>25, <1>26, <1>27, <1>28, <1>29, <1>30, <1>31, <1>32, <1>33, <1>34 DEF Next, Progress, Fault

\* Every row of a published generation was derived by the version it is
\* published under, through upgrades, retries, crashes and mixed binaries.
THEOREM SingleVersionPublished == Spec => []PublishedSingleVersion
<1>1. VersionInv => PublishedSingleVersion
  BY DEF VersionInv, PublishedSingleVersion
<1> QED
  BY <1>1, InitLocks, StepLocks, InitVersions, StepVersions, TypeCorrect, PTL DEF Spec

-----------------------------------------------------------------------------
(* Readers.  What a reader has seen is the committed generation, and only a *)
(* worker that has begun to read has seen anything.                         *)
ViewInv ==
    \A w \in Workers :
        /\ view[w] \subseteq {DbGeneration}
        /\ pc[w] \notin {"reread", "done"} => view[w] = {}

LEMMA InitViews == Init => ViewInv
BY DEF Init, ViewInv

LEMMA StepViews == TypeOK /\ LockInv /\ ViewInv /\ [Next]_vars => ViewInv'
<1> SUFFICES ASSUME TypeOK, LockInv, ViewInv, [Next]_vars PROVE ViewInv'
  OBVIOUS
<1> USE DEF TypeOK, ViewInv, DbGeneration, Walking, disk, handles, locks, env, cmd, Goto
<1>1. ASSUME NEW f \in Files, NEW c \in Contents, NEW s \in 0 .. MaxEdits, Edit(f, c, s) PROVE ViewInv'
  BY <1>1 DEF Edit
<1>2. ASSUME NEW w \in Workers, NEW f \in Files, Visit(w, f) PROVE ViewInv'
  BY <1>2 DEF Visit
<1>3. ASSUME NEW w \in Workers, NEW f \in Files, IndexFile(w, f) PROVE ViewInv'
  BY <1>3 DEF IndexFile
<1>4. ASSUME NEW w \in Workers, NEW f \in Files, ValidateFile(w, f) PROVE ViewInv'
  BY <1>4 DEF ValidateFile, SourcesChanged
<1>5. ASSUME NEW w \in Workers, NEW f \in Files, ListedVanished(w, f) PROVE ViewInv'
  BY <1>5 DEF ListedVanished, SourcesChanged
<1>6. ASSUME NEW w \in Workers, StartCommand(w) PROVE ViewInv'
  BY <1>6 DEF StartCommand, Begin
<1>7. ASSUME NEW w \in Workers, StartRefresh(w) PROVE ViewInv'
  BY <1>7 DEF StartRefresh, Begin
<1>8. ASSUME NEW w \in Workers, HashEntry(w) PROVE ViewInv'
  BY <1>8 DEF HashEntry
<1>9. ASSUME NEW w \in Workers, ScanError(w) PROVE ViewInv'
  BY <1>9 DEF ScanError
<1>10. ASSUME NEW w \in Workers, ReadSig(w) PROVE ViewInv'
  BY <1>10 DEF ReadSig
<1>11. ASSUME NEW w \in Workers, ReadState(w) PROVE ViewInv'
  BY <1>11 DEF ReadState
<1>11a. ASSUME NEW w \in Workers, ReadVersion(w) PROVE ViewInv'
  BY <1>11a DEF ReadVersion
<1>12. ASSUME NEW w \in Workers, RejectClosed(w) PROVE ViewInv'
  BY <1>12 DEF RejectClosed, Return
<1>13. ASSUME NEW w \in Workers, TakeGate(w) PROVE ViewInv'
  BY <1>13 DEF TakeGate
<1>14. ASSUME NEW w \in Workers, TakeRefreshLock(w) PROVE ViewInv'
  BY <1>14 DEF TakeRefreshLock
<1>15. ASSUME NEW w \in Workers, Unlock(w) PROVE ViewInv'
  <2>1. UNCHANGED db /\ pc[w] \in {"unlock", "unlockErr"}
    BY <1>15 DEF Unlock
  <2>2. CASE pc[w] = "unlock"
    BY <1>15, <2>1, <2>2 DEF Unlock
  <2>3. CASE pc[w] # "unlock"
    BY <1>15, <2>1, <2>3 DEF Unlock, Return
  <2> QED
    BY <2>2, <2>3
<1>16. ASSUME NEW w \in Workers, BeginGeneration(w) PROVE ViewInv'
  BY <1>16 DEF BeginGeneration
<1>17. ASSUME NEW w \in Workers, FinishIndex(w) PROVE ViewInv'
  BY <1>17 DEF FinishIndex
<1>18. ASSUME NEW w \in Workers, CompareSignatures(w) PROVE ViewInv'
  BY <1>18 DEF CompareSignatures, SourcesChanged
<1>19. ASSUME NEW w \in Workers, Commit(w) PROVE ViewInv'
  <2>1. \A v \in Workers : pc[v] \notin Guarded
    BY <1>19, NoneAssumption
    DEF Commit, LockInv, LockDiscipline, Guarded, Gated, Locked, Refreshing
  <2>2. \A v \in Workers : view[v] = {}
    BY <2>1 DEF Guarded
  <2>3. view' = view
    BY <1>19 DEF Commit
  <2> QED
    BY <2>2, <2>3
<1>20. ASSUME NEW w \in Workers, EmbedDone(w) PROVE ViewInv'
  BY <1>20 DEF EmbedDone
<1>21. ASSUME NEW w \in Workers, MarkIncomplete(w) PROVE ViewInv'
  BY <1>21 DEF MarkIncomplete
<1>22. ASSUME NEW w \in Workers, TakeReadGuard(w) PROVE ViewInv'
  BY <1>22 DEF TakeReadGuard
<1>23. ASSUME NEW w \in Workers, RequirePublished(w) PROVE ViewInv'
  BY <1>23 DEF RequirePublished, ReleaseGuard, Return
<1>24. ASSUME NEW w \in Workers, ReadRows(w) PROVE ViewInv'
  BY <1>24 DEF ReadRows
<1>25. ASSUME NEW w \in Workers, EndRead(w) PROVE ViewInv'
  BY <1>25 DEF EndRead, ReleaseGuard, Return
<1>26. ASSUME NEW w \in Workers, GiveUp(w) PROVE ViewInv'
  BY <1>26 DEF GiveUp, Return
<1>27. ASSUME NEW w \in Workers, RefreshFails(w) PROVE ViewInv'
  BY <1>27 DEF RefreshFails
<1>28. ASSUME NEW w \in Workers, EmbedCancelled(w) PROVE ViewInv'
  BY <1>28 DEF EmbedCancelled
<1>29. ASSUME NEW w \in Workers, MarkFails(w) PROVE ViewInv'
  BY <1>29 DEF MarkFails
<1>30. ASSUME NEW p \in Projects, CloseBegin(p) PROVE ViewInv'
  BY <1>30 DEF CloseBegin
<1>31. ASSUME NEW p \in Projects, CloseStore(p) PROVE ViewInv'
  BY <1>31 DEF CloseStore
<1>32. ASSUME NEW p \in Projects, Crash(p) PROVE ViewInv'
  BY <1>32 DEF Crash, Mine
<1>33. ASSUME NEW p \in Projects, Reopen(p) PROVE ViewInv'
  BY <1>33 DEF Reopen
<1>34. CASE UNCHANGED vars
  BY <1>34 DEF vars
<1> QED
  BY <1>1, <1>2, <1>3, <1>4, <1>5, <1>6, <1>7, <1>8, <1>9, <1>10, <1>11, <1>11a, <1>12, <1>13, <1>14, <1>15, <1>16, <1>17, <1>18, <1>19, <1>20, <1>21, <1>22, <1>23, <1>24, <1>25, <1>26, <1>27, <1>28, <1>29, <1>30, <1>31, <1>32, <1>33, <1>34 DEF Next, Progress, Fault

\* All queries of one logical read see one generation.
THEOREM OneGenerationRead == Spec => []ReadsOneGeneration
<1>1. ViewInv => ReadsOneGeneration
  <2> SUFFICES ASSUME ViewInv, NEW w \in Workers PROVE Cardinality(view[w]) <= 1
    BY DEF ReadsOneGeneration
  <2>1. view[w] \subseteq {DbGeneration}
    BY DEF ViewInv
  <2>2. IsFiniteSet({DbGeneration}) /\ Cardinality({DbGeneration}) = 1
    BY FS_Singleton
  <2>3. Cardinality(view[w]) <= Cardinality({DbGeneration}) /\ Cardinality(view[w]) \in Nat
    BY <2>1, <2>2, FS_Subset, FS_CardinalityType
  <2> QED
    BY <2>2, <2>3
<1> QED
  BY <1>1, InitLocks, StepLocks, InitViews, StepViews, TypeCorrect, PTL DEF Spec

-----------------------------------------------------------------------------
(* What is published and answered, when every edit gives a file a new       *)
(* modification time (~StampReuse).  An entry of a signature that still has *)
(* the time of its file has its content; so whatever was done to the file   *)
(* between two walks that found the same entry was done to this content.    *)

\* The tree still has what the entry was read from, or has moved on.
Current(e) ==
    /\ e.stamp <= tree[e.file].stamp
    /\ e.stamp = tree[e.file].stamp => e.content = tree[e.file].content

\* Modification times are given out in order.
StampInv == \A f \in Files : tree[f].stamp <= clock

\* What runs before the refresh lock is wanted, and what a command has met.
SinceInv ==
    \A w \in Workers :
        /\ pc[w] \in {"idle", "check", "version", "state"} => body[w] = "refresh"
        /\ pc[w] # "idle" => \A f \in Files : tree[f].content \in since[w][f]

\* What a walk has read is current, or the file has been edited since.
WalkInv ==
    \A w \in Workers : pc[w] \in Walking =>
        /\ walk[w].at # None => walk[w].stamp <= tree[walk[w].at].stamp
        /\ \A e \in walk[w].seen : Current(e)

OnePerFile(rows) == \A r, s \in rows : r.file = s.file => r.content = s.content

\* The published signature.
SigInv ==
    /\ OnePerFile(db.rows)
    /\ \A e \in db.sig :
         /\ Current(e)
         /\ witness[e.file] = e.content
         /\ Held(db.rows, e.file) = Shown(e.content)

\* The files v has indexed in its generation, and the rows they will have.
Reached(v, f) ==
    \/ pc[v] \in {"post", "validate"}
    \/ pc[v] = "index" /\ f \notin walk[v].todo
KeptOf(f) == IF f \in attempt.current THEN Held(tx.rows, f) ELSE {}

\* The walk of w has read f with the modification time e has.
Met(w, e) ==
    \/ e \in walk[w].seen
    \/ walk[w].at = e.file /\ walk[w].stamp = e.stamp

\* The entry is what the tree had when the pre-walk ended, and what is written.
Matches(e) == attempt.base[e.file] = e.content /\ KeptOf(e.file) = Shown(e.content)

\* The generation being written: its rows, the entries of the pre-walk, what is
\* kept of a file that has not changed since, and what the post-walk has met.
WriterRows(v) ==
    /\ OnePerFile(tx.rows)
    /\ pc[v] = "index" => attempt.current \cap walk[v].todo = {}
    /\ pc[v] # "index" => \A r \in tx.rows : r.file \in attempt.current
WriterBase ==
    \A e \in attempt.pre :
        /\ Current(e)
        /\ e.stamp = tree[e.file].stamp => attempt.base[e.file] = e.content
WriterKeeps(v) ==
    \A e \in attempt.pre \cup db.sig :
        Reached(v, e.file) /\ e.stamp = tree[e.file].stamp => KeptOf(e.file) = Shown(e.content)
WriterMeets(v) ==
    /\ pc[v] = "post" => \A e \in attempt.pre : Met(v, e) => Matches(e)
    /\ pc[v] = "validate" => \A e \in attempt.pre : Matches(e)
Writer(v) == WriterRows(v) /\ WriterBase /\ WriterKeeps(v) /\ WriterMeets(v)

WriterInv == \A v \in Workers : pc[v] \in Writing => Writer(v)

\* A command that will answer from the index without refreshing it (again).
Ready(w) ==
    \/ pc[w] \in {"version", "state", "rlock", "ready", "read", "reread", "done", "embed", "unlock"}
    \/ pc[w] # "idle" /\ body[w] = "vectors"

\* The answer about f that contents cs is one the command of w has met.
Fair(w, f, cs) == Gone \in since[w][f] \/ \E c \in since[w][f] : cs = Shown(c)

\* The walk of ensureFresh.
CheckInv ==
    \A w \in Workers : pc[w] = "check" =>
        /\ \A e \in walk[w].seen : e.content \in since[w][e.file]
        /\ \A f \in Files :
             \/ f \in walk[w].todo
             \/ f = walk[w].at
             \/ Gone \in since[w][f]
             \/ \E e \in walk[w].seen : e.file = f

\* What a command may answer from: the committed rows, and those about to be.
AnswerInv ==
    \A w \in Workers : \A f \in Files :
        /\ Ready(w) => Fair(w, f, Held(db.rows, f))
        /\ \A v \in Workers :
             /\ pc[v] \in Writing
             /\ Reached(v, f)
             /\ \/ Ready(w)
                \/ w = v
                \/ pc[w] = "check" /\ \E e \in db.sig : e.file = f /\ Met(w, e)
             => Fair(w, f, KeptOf(f))
-----------------------------------------------------------------------------
(* What the steps do.  Most of them neither read the tree nor write rows:   *)
(* some workers move (one of them, or all of a process that dies), and the  *)
(* generation being written stays as it is or is dropped.                   *)
Unmoved(v) ==
    /\ pc'[v] = pc[v]
    /\ body'[v] = body[v]
    /\ walk'[v] = walk[v]
    /\ since'[v] = since[v]

\* Whoever moves starts a walk anew, and becomes ready only by finding the
\* published signature.
Moved(v) ==
    /\ pc'[v] \notin Writing
    /\ pc'[v] \in Walking => walk'[v] = NewWalk
    /\ pc'[v] \in {"idle", "check", "version", "state"} => body'[v] = "refresh"
    /\ pc'[v] # "idle" =>
         \/ pc[v] # "idle" /\ since'[v] = since[v]
         \/ since'[v] = [f \in Files |-> {tree[f].content}]
    /\ Ready(v)' =>
         /\ pc[v] # "idle" /\ since'[v] = since[v]
         /\ Ready(v) \/ (pc[v] = "check" /\ Walked(v) /\ walk[v].seen = db.sig)

Still == UNCHANGED <<tree, clock, witness>> /\ db'.rows = db.rows /\ db'.sig = db.sig

Passes ==
    /\ Still
    /\ UNCHANGED <<tx, attempt>> \/ \A v \in Workers : pc'[v] \notin Writing
    /\ \A v \in Workers : Unmoved(v) \/ Moved(v)

\* A step of w that leaves the other workers where they are.
Alone(w) == \A v \in Workers : v # w => Unmoved(v)

\* Only the holder of the refresh lock writes.
LEMMA OneWriter ==
    ASSUME TypeOK, LockInv, NEW w \in Workers, pc[w] \in Locked, NEW v \in Workers, v # w
    PROVE  pc[v] \notin Locked /\ pc[v] \notin Writing
BY DEF LockInv, LockDiscipline, Writing, Locked, Refreshing

LEMMA GotoAlone ==
    ASSUME TypeOK, NEW w \in Workers, NEW l, Goto(w, l)
    PROVE  pc'[w] = l /\ \A v \in Workers : v # w => pc'[v] = pc[v]
BY DEF TypeOK, Goto

LEMMA ReturnMoves ==
    ASSUME TypeOK, NEW w \in Workers, Return(w)
    PROVE  Moved(w) /\ Alone(w) /\ pc'[w] = "idle"
<1>1. pc'[w] = "idle" /\ body'[w] = "refresh"
  BY DEF TypeOK, Return, Goto
<1>2. Moved(w)
  BY <1>1 DEF Moved, Ready, Writing, Walking
<1>3. Alone(w)
  BY DEF TypeOK, Return, Goto, Alone, Unmoved
<1> QED
  BY <1>1, <1>2, <1>3

\* An attempt that ends drops what it has written.
LEMMA DropPasses ==
    ASSUME TypeOK, LockInv, SinceInv, NEW w \in Workers, pc[w] \in Locked \ {"embed", "unlock"},
           Still, UNCHANGED <<body, since>>, NEW l \in {"pre", "failed"}, Goto(w, l),
           NEW k \in {NewWalk, NoWalk}, walk' = [walk EXCEPT ![w] = k], l = "pre" => k = NewWalk
    PROVE  Passes
<1>1. pc'[w] = l /\ \A v \in Workers : v # w => pc'[v] = pc[v]
  BY GotoAlone
<1>2. walk'[w] = k /\ \A v \in Workers : v # w => walk'[v] = walk[v]
  BY DEF TypeOK
<1>3. \A v \in Workers : pc'[v] \notin Writing
  BY <1>1, OneWriter DEF Writing
<1>4. Moved(w)
  BY <1>1, <1>2, <1>3 DEF Moved, Ready, Walking, Locked, Refreshing
<1>5. Alone(w)
  BY <1>1, <1>2 DEF Alone, Unmoved
<1> QED
  BY <1>3, <1>4, <1>5 DEF Passes, Alone

LEMMA SourcesChangedPasses ==
    ASSUME TypeOK, LockInv, SinceInv, NEW w \in Workers, pc[w] \in Writing, SourcesChanged(w)
    PROVE  Passes
<1>1. Still /\ UNCHANGED <<body, since>>
  BY DEF SourcesChanged, Still, env, disk, cmd
<1>2. pc[w] \in Locked \ {"embed", "unlock"}
  BY DEF Writing, Locked, Refreshing
<1>3. CASE attempt.tries = 1
  BY <1>1, <1>2, <1>3, DropPasses DEF SourcesChanged
<1>4. CASE attempt.tries # 1
  BY <1>1, <1>2, <1>4, DropPasses DEF SourcesChanged
<1> QED
  BY <1>3, <1>4

\* The six steps that write a generation.
Writes(w) ==
    \/ BeginGeneration(w)
    \/ \E f \in Files : IndexFile(w, f)
    \/ FinishIndex(w)
    \/ CompareSignatures(w) /\ walk[w].seen = attempt.pre
    \/ \E f \in Files : ValidateFile(w, f) /\ Valid(f)
    \/ Commit(w)

\* One step of w that keeps what is written.
LEMMA MovePasses ==
    ASSUME NEW w \in Workers, Still, UNCHANGED <<tx, attempt>>, Moved(w), Alone(w)
    PROVE  Passes
BY DEF Passes, Alone

\* A worker that goes on with its command, under the same reading.
LEMMA GoPasses ==
    ASSUME TypeOK, SinceInv, NEW w \in Workers, NEW l \in Steps, Goto(w, l), Still,
           UNCHANGED <<tx, attempt, since>>, pc[w] # "idle",
           l \notin Writing \cup Walking \cup {"idle", "check", "version", "state"},
           NEW b, b = body[w] \/ (b = "vectors" /\ pc[w] = "state"), body' = [body EXCEPT ![w] = b],
           \A v \in Workers : v # w => walk'[v] = walk[v],
           Ready(w) \/ l \in {"gate", "flock", "unlockErr"}
    PROVE  Passes
<1>1. pc'[w] = l /\ body'[w] = b /\ Alone(w)
  BY DEF TypeOK, Goto, Alone, Unmoved
<1>2. Moved(w)
  BY <1>1 DEF Moved, Ready
<1> QED
  BY <1>1, <1>2, MovePasses

\* What a step is to the invariants.
Kind ==
    \/ \E f \in Files, c \in Contents, s \in 0 .. MaxEdits : Edit(f, c, s)
    \/ \E w \in Workers : (\E f \in Files : Visit(w, f)) \/ HashEntry(w) \/ Writes(w)
    \/ Passes

LEMMA StepKinds ==
    ASSUME TypeOK, LockInv, VersionInv, SinceInv, [Next]_vars
    PROVE  Kind
<1> USE DEF Kind
<1>1. ASSUME NEW f \in Files, NEW c \in Contents, NEW s \in 0 .. MaxEdits, Edit(f, c, s) PROVE Kind
  BY <1>1
<1>2. ASSUME NEW w \in Workers, NEW f \in Files, Visit(w, f) PROVE Kind
  BY <1>2
<1>3. ASSUME NEW w \in Workers, HashEntry(w) PROVE Kind
  BY <1>3
<1>4. ASSUME NEW w \in Workers, BeginGeneration(w) PROVE Kind
  BY <1>4 DEF Writes
<1>5. ASSUME NEW w \in Workers, NEW f \in Files, IndexFile(w, f) PROVE Kind
  BY <1>5 DEF Writes
<1>6. ASSUME NEW w \in Workers, FinishIndex(w) PROVE Kind
  BY <1>6 DEF Writes
<1>7. ASSUME NEW w \in Workers, Commit(w) PROVE Kind
  BY <1>7 DEF Writes
<1>8. ASSUME NEW w \in Workers, CompareSignatures(w) PROVE Kind
  <2>1. CASE walk[w].seen = attempt.pre
    BY <1>8, <2>1 DEF Writes
  <2>2. CASE walk[w].seen # attempt.pre
    BY <1>8, <2>2, SourcesChangedPasses DEF CompareSignatures, Writing
  <2> QED
    BY <2>1, <2>2
<1>9. ASSUME NEW w \in Workers, NEW f \in Files, ValidateFile(w, f) PROVE Kind
  <2>1. CASE Valid(f)
    BY <1>9, <2>1 DEF Writes
  <2>2. CASE ~Valid(f)
    BY <1>9, <2>2, SourcesChangedPasses DEF ValidateFile, Writing
  <2> QED
    BY <2>1, <2>2
<1>10. ASSUME NEW w \in Workers, NEW f \in Files, ListedVanished(w, f) PROVE Kind
  BY <1>10, SourcesChangedPasses DEF ListedVanished, Writing
<1>11. ASSUME NEW w \in Workers, ScanError(w) PROVE Kind
  <2>1. Still /\ UNCHANGED <<body, since>> /\ walk' = [walk EXCEPT ![w] = NoWalk]
    BY <1>11 DEF ScanError, Still, disk, handles, locks, env, cmd
  <2>2. CASE pc[w] = "check"
    <3>1. Goto(w, "gate") /\ UNCHANGED <<tx, attempt>>
      BY <1>11, <2>2 DEF ScanError
    <3>2. body' = [body EXCEPT ![w] = body[w]] /\ \A v \in Workers : v # w => walk'[v] = walk[v]
      BY <2>1 DEF TypeOK
    <3> QED
      BY <2>1, <2>2, <3>1, <3>2, StepsNamed, GoPasses DEF Writing, Walking
  <2>3. CASE pc[w] # "check"
    BY <1>11, <2>1, <2>3, DropPasses DEF ScanError, Walking, Locked, Refreshing
  <2> QED
    BY <2>2, <2>3
<1>12. ASSUME NEW w \in Workers, RefreshFails(w) PROVE Kind
  <2>1. Still /\ UNCHANGED <<body, since>>
    BY <1>12 DEF RefreshFails, Still, disk, handles, locks, env, cmd
  <2> QED
    BY <1>12, <2>1, DropPasses DEF RefreshFails, Locked, Refreshing
<1>13. ASSUME NEW w \in Workers, StartCommand(w) PROVE Kind
  <2>1. Still /\ UNCHANGED <<tx, attempt, body>> /\ pc[w] = "idle"
    BY <1>13 DEF StartCommand, Begin, Still, disk, handles, locks, env, cmd
  <2>2. pc'[w] = "check" /\ body'[w] = "refresh"
    BY <1>13, <2>1 DEF StartCommand, Goto, TypeOK, SinceInv
  <2>3. walk'[w] = NewWalk /\ since'[w] = [f \in Files |-> {tree[f].content}]
    BY <1>13 DEF StartCommand, Begin, TypeOK
  <2>4. Moved(w)
    BY <2>2, <2>3 DEF Moved, Writing, Ready
  <2>5. Alone(w)
    BY <1>13, <2>1 DEF StartCommand, Begin, Goto, TypeOK, Alone, Unmoved
  <2> QED
    BY <2>1, <2>4, <2>5, MovePasses
<1>14. ASSUME NEW w \in Workers, StartRefresh(w) PROVE Kind
  <2>1. Still /\ UNCHANGED <<tx, attempt, body, walk>> /\ pc[w] = "idle"
    BY <1>14 DEF StartRefresh, Begin, Still, disk, handles, locks, env, cmd
  <2>2. pc'[w] = "gate" /\ body'[w] = "refresh"
    BY <1>14, <2>1 DEF StartRefresh, Goto, TypeOK, SinceInv
  <2>3. since'[w] = [f \in Files |-> {tree[f].content}]
    BY <1>14 DEF StartRefresh, Begin, TypeOK
  <2>4. Moved(w)
    BY <2>2, <2>3 DEF Moved, Writing, Walking, Ready
  <2>5. Alone(w)
    BY <1>14, <2>1 DEF StartRefresh, Begin, Goto, TypeOK, Alone, Unmoved
  <2> QED
    BY <2>1, <2>4, <2>5, MovePasses
<1>15. ASSUME NEW w \in Workers, ReadSig(w) PROVE Kind
  <2>1. Still /\ UNCHANGED <<tx, attempt, body, since>> /\ pc[w] = "check" /\ Walked(w)
    BY <1>15 DEF ReadSig, Still, disk, handles, locks, env, cmd
  <2>2. Alone(w) /\ body'[w] = "refresh"
    BY <1>15, <2>1 DEF ReadSig, Goto, TypeOK, Alone, Unmoved, SinceInv
  <2>3. pc'[w] = (IF db.ver # None /\ walk[w].seen = db.sig THEN "version" ELSE "gate")
    BY <1>15 DEF ReadSig, Goto, TypeOK
  <2>4. Moved(w)
    BY <2>1, <2>2, <2>3 DEF Moved, Writing, Walking, Ready
  <2> QED
    BY <2>1, <2>2, <2>4, MovePasses
<1>16. ASSUME NEW w \in Workers, RejectClosed(w) PROVE Kind
  <2>1. Still /\ UNCHANGED <<tx, attempt>> /\ Return(w)
    BY <1>16 DEF RejectClosed, Still, disk, handles, locks, env, cmd
  <2> QED
    BY <2>1, ReturnMoves, MovePasses
<1>17. ASSUME NEW w \in Workers, GiveUp(w) PROVE Kind
  <2>1. Still /\ UNCHANGED <<tx, attempt>> /\ Return(w)
    BY <1>17 DEF GiveUp, Still, disk, handles, locks, env, cmd
  <2> QED
    BY <2>1, ReturnMoves, MovePasses
<1>18. ASSUME NEW w \in Workers, EndRead(w) PROVE Kind
  <2>1. Still /\ UNCHANGED <<tx, attempt>> /\ Return(w)
    BY <1>18 DEF EndRead, ReleaseGuard, Still, disk, handles, locks, env, cmd
  <2> QED
    BY <2>1, ReturnMoves, MovePasses
<1>19. ASSUME NEW w \in Workers, TakeGate(w) PROVE Kind
  <2>1. Still /\ UNCHANGED <<tx, attempt, body, since, walk>> /\ Goto(w, "flock") /\ pc[w] # "idle"
    BY <1>19 DEF TakeGate, Still, disk, handles, locks, env, cmd
  <2>2. body' = [body EXCEPT ![w] = body[w]]
    BY <2>1 DEF TypeOK
  <2> QED
    BY <2>1, <2>2, StepsNamed, GoPasses DEF Writing, Walking
<1>20. ASSUME NEW w \in Workers, MarkIncomplete(w) PROVE Kind
  <2>1. Still /\ UNCHANGED <<tx, attempt, body, since, walk>> /\ Goto(w, "unlockErr") /\ pc[w] # "idle"
    BY <1>20 DEF MarkIncomplete, Still, disk, handles, locks, env, cmd
  <2>2. body' = [body EXCEPT ![w] = body[w]]
    BY <2>1 DEF TypeOK
  <2> QED
    BY <2>1, <2>2, StepsNamed, GoPasses DEF Writing, Walking
<1>21. ASSUME NEW w \in Workers, MarkFails(w) PROVE Kind
  <2>1. Still /\ UNCHANGED <<tx, attempt, body, since, walk>> /\ Goto(w, "unlockErr") /\ pc[w] # "idle"
    BY <1>21 DEF MarkFails, Still, disk, handles, locks, env, cmd
  <2>2. body' = [body EXCEPT ![w] = body[w]]
    BY <2>1 DEF TypeOK
  <2> QED
    BY <2>1, <2>2, StepsNamed, GoPasses DEF Writing, Walking
<1>22. ASSUME NEW w \in Workers, EmbedDone(w) PROVE Kind
  <2>1. Still /\ UNCHANGED <<tx, attempt, body, since, walk>> /\ Goto(w, "unlock") /\ pc[w] # "idle"
    BY <1>22 DEF EmbedDone, Still, disk, handles, locks, env, cmd
  <2>2. body' = [body EXCEPT ![w] = body[w]] /\ Ready(w)
    BY <1>22, <2>1 DEF EmbedDone, Ready, TypeOK
  <2> QED
    BY <2>1, <2>2, StepsNamed, GoPasses DEF Writing, Walking
<1>23. ASSUME NEW w \in Workers, EmbedCancelled(w) PROVE Kind
  <2>1. Still /\ UNCHANGED <<tx, attempt, body, since, walk>> /\ Goto(w, IF body[w] = "refresh" THEN "failed" ELSE "unlockErr") /\ pc[w] # "idle"
    BY <1>23 DEF EmbedCancelled, Still, disk, handles, locks, env, cmd
  <2>2. body' = [body EXCEPT ![w] = body[w]] /\ Ready(w)
    BY <1>23, <2>1 DEF EmbedCancelled, Ready, TypeOK
  <2> QED
    BY <2>1, <2>2, StepsNamed, GoPasses DEF Writing, Walking
<1>24. ASSUME NEW w \in Workers, TakeReadGuard(w) PROVE Kind
  <2>1. Still /\ UNCHANGED <<tx, attempt, body, since, walk>> /\ Goto(w, "ready") /\ pc[w] # "idle"
    BY <1>24 DEF TakeReadGuard, Still, disk, handles, locks, env, cmd
  <2>2. body' = [body EXCEPT ![w] = body[w]] /\ Ready(w)
    BY <1>24, <2>1 DEF TakeReadGuard, Ready, TypeOK
  <2> QED
    BY <2>1, <2>2, StepsNamed, GoPasses DEF Writing, Walking
<1>25. ASSUME NEW w \in Workers, ReadRows(w) PROVE Kind
  <2>1. Still /\ UNCHANGED <<tx, attempt, body, since, walk>> /\ Goto(w, IF pc[w] = "read" THEN "reread" ELSE "done") /\ pc[w] # "idle"
    BY <1>25 DEF ReadRows, Still, disk, handles, locks, env, cmd
  <2>2. body' = [body EXCEPT ![w] = body[w]] /\ Ready(w)
    BY <1>25, <2>1 DEF ReadRows, Ready, TypeOK
  <2> QED
    BY <2>1, <2>2, StepsNamed, GoPasses DEF Writing, Walking
<1>26. ASSUME NEW w \in Workers, ReadState(w) PROVE Kind
  <2>1. Still /\ UNCHANGED <<tx, attempt, since, walk>> /\ pc[w] = "state"
    BY <1>26 DEF ReadState, Still, disk, handles, locks, env, cmd
  <2>2. PICK b \in {body[w], "vectors"}, l \in {"gate", "rlock"} :
          body' = [body EXCEPT ![w] = b] /\ Goto(w, l)
    BY <1>26 DEF ReadState, TypeOK
  <2>3. Ready(w)
    BY <2>1 DEF Ready
  <2> QED
    BY <2>1, <2>2, <2>3, StepsNamed, GoPasses DEF Writing, Walking
<1>26a. ASSUME NEW w \in Workers, ReadVersion(w) PROVE Kind
  <2>1. Still /\ UNCHANGED <<tx, attempt, body, since, walk>> /\ pc[w] = "version"
    BY <1>26a DEF ReadVersion, Still, disk, handles, locks, env
  <2>2. Alone(w) /\ body'[w] = "refresh" /\ Ready(w)
    BY <1>26a, <2>1 DEF ReadVersion, Goto, TypeOK, Alone, Unmoved, SinceInv, Ready
  <2>3. pc'[w] \in {"gate", "state"}
    BY <1>26a DEF ReadVersion, Goto, TypeOK
  <2>4. Moved(w)
    BY <2>1, <2>2, <2>3 DEF Moved, Writing, Walking
  <2> QED
    BY <2>1, <2>2, <2>4, MovePasses
<1>27. ASSUME NEW w \in Workers, Unlock(w) PROVE Kind
  <2>1. Still /\ UNCHANGED <<tx, attempt>>
    BY <1>27 DEF Unlock, Still, disk, handles, locks, env, cmd
  <2>2. CASE pc[w] = "unlock"
    <3>1. UNCHANGED <<body, since, walk>> /\ Goto(w, "rlock") /\ Ready(w)
      BY <1>27, <2>2 DEF Unlock, cmd, Ready
    <3>2. body' = [body EXCEPT ![w] = body[w]]
      BY <3>1 DEF TypeOK
    <3> QED
      BY <2>1, <2>2, <3>1, <3>2, StepsNamed, GoPasses DEF Writing, Walking
  <2>3. CASE pc[w] # "unlock"
    BY <1>27, <2>1, <2>3, ReturnMoves, MovePasses DEF Unlock
  <2> QED
    BY <2>2, <2>3
<1>28. ASSUME NEW w \in Workers, RequirePublished(w) PROVE Kind
  <2>1. Still /\ UNCHANGED <<tx, attempt>> /\ pc[w] = "ready"
    BY <1>28 DEF RequirePublished, ReleaseGuard, Still, disk, handles, locks, env, cmd
  <2>2. CASE db.state = "complete" /\ open[Owner[w]]
    <3>1. UNCHANGED <<body, since, walk>> /\ Goto(w, "read") /\ Ready(w)
      BY <1>28, <2>1, <2>2 DEF RequirePublished, cmd, Ready
    <3>2. body' = [body EXCEPT ![w] = body[w]]
      BY <3>1 DEF TypeOK
    <3> QED
      BY <2>1, <2>2, <3>1, <3>2, StepsNamed, GoPasses DEF Writing, Walking
  <2>3. CASE ~(db.state = "complete" /\ open[Owner[w]])
    BY <1>28, <2>1, <2>3, ReturnMoves, MovePasses DEF RequirePublished, ReleaseGuard
  <2> QED
    BY <2>2, <2>3
<1>29. ASSUME NEW w \in Workers, TakeRefreshLock(w) PROVE Kind
  <2>1. Still /\ UNCHANGED <<tx, body, since>> /\ pc[w] = "flock" /\ holder = None
    BY <1>29 DEF TakeRefreshLock, Still, disk, handles, locks, env, cmd
  <2>2. CASE body[w] = "refresh"
    <3>1. pc'[w] = "pre" /\ walk'[w] = NewWalk /\ body'[w] = "refresh" /\ Alone(w)
      BY <1>29, <2>1, <2>2 DEF TakeRefreshLock, Goto, TypeOK, Alone, Unmoved
    <3>2. Moved(w)
      BY <2>1, <3>1 DEF Moved, Writing, Walking, Ready
    <3>3. \A v \in Workers : pc[v] \notin Writing
      BY <2>1, NoneAssumption DEF LockInv, LockDiscipline, Writing, Locked, Refreshing
    <3>4. \A v \in Workers : pc'[v] \notin Writing
      BY <3>1, <3>3 DEF Alone, Unmoved, Writing
    <3> QED
      BY <2>1, <3>1, <3>2, <3>4 DEF Passes, Alone
  <2>3. CASE body[w] # "refresh"
    <3>1. UNCHANGED <<attempt, walk>> /\ Goto(w, "embed") /\ Ready(w)
      BY <1>29, <2>1, <2>3 DEF TakeRefreshLock, TypeOK, Ready
    <3>2. body' = [body EXCEPT ![w] = body[w]]
      BY <2>1 DEF TypeOK
    <3> QED
      BY <2>1, <3>1, <3>2, StepsNamed, GoPasses DEF Writing, Walking
  <2> QED
    BY <2>2, <2>3
<1>30. ASSUME NEW p \in Projects, CloseBegin(p) PROVE Kind
  BY <1>30 DEF CloseBegin, Passes, Unmoved, Still, disk, handles, locks, env, cmd
<1>31. ASSUME NEW p \in Projects, CloseStore(p) PROVE Kind
  BY <1>31 DEF CloseStore, Passes, Unmoved, Still, disk, handles, locks, env, cmd
<1>32. ASSUME NEW p \in Projects, Reopen(p) PROVE Kind
  BY <1>32 DEF Reopen, Passes, Unmoved, Still, disk, handles, locks, env, cmd
<1>33. ASSUME NEW p \in Projects, Crash(p) PROVE Kind
  <2>1. Still
    BY <1>33 DEF Crash, Still, disk, handles, locks, env, cmd
  <2>2. \A v \in Workers : Unmoved(v) \/ Moved(v)
    <3>1. ASSUME NEW v \in Workers, v \in Mine(p) PROVE Moved(v)
      <4>1. pc'[v] = "idle" /\ body'[v] = "refresh"
        BY <1>33, <3>1 DEF Crash
      <4> QED
        BY <4>1 DEF Moved, Writing, Walking, Ready
    <3>2. ASSUME NEW v \in Workers, v \notin Mine(p) PROVE Unmoved(v)
      BY <1>33, <3>2 DEF Crash, Unmoved
    <3> QED
      BY <3>1, <3>2
  <2>3. CASE holder \in Mine(p)
    <3>1. ASSUME NEW v \in Workers PROVE pc'[v] \notin Writing
      <4>1. CASE v \in Mine(p)
        BY <1>33, <4>1 DEF Crash, Writing
      <4>2. CASE v \notin Mine(p)
        BY <1>33, <2>3, <4>2 DEF Crash, Writing, LockInv, LockDiscipline, Locked, Refreshing
      <4> QED
        BY <4>1, <4>2
    <3> QED
      BY <2>1, <2>2, <3>1 DEF Passes
  <2>4. CASE holder \notin Mine(p)
    <3>1. tx.owner \notin Mine(p)
      BY <2>4 DEF VersionInv, Writing, LockInv, LockDiscipline, Locked, Refreshing, Mine
    <3> QED
      BY <1>33, <2>1, <2>2, <2>4, <3>1 DEF Crash, Passes
  <2> QED
    BY <2>3, <2>4
<1>34. CASE UNCHANGED vars
  BY <1>34 DEF vars, Passes, Unmoved, Still
<1> HIDE DEF Kind
<1>35. ASSUME NEW w \in Workers, Progress(w) PROVE Kind
  BY <1>35, <1>2, <1>5, <1>9, <1>3, <1>11, <1>15, <1>26, <1>26a, <1>16, <1>19, <1>29, <1>27, <1>4, <1>6, <1>8, <1>7, <1>22, <1>20, <1>24, <1>28, <1>25, <1>18
  DEF Progress
<1>36. ASSUME NEW w \in Workers, Fault(w) PROVE Kind
  BY <1>36, <1>10, <1>17, <1>12, <1>23, <1>21 DEF Fault
<1>37. CASE Next
  BY <1>35, <1>36, <1>37, <1>1, <1>13, <1>14, <1>30, <1>31, <1>33, <1>32 DEF Next
<1> QED
  BY <1>34, <1>37

-----------------------------------------------------------------------------
(* The tree, the clock and the walks.                                       *)

LEMMA TypesAt ==
    ASSUME TypeOK
    PROVE  /\ \A f \in Files : tree[f].content \in Contents /\ tree[f].stamp \in Nat
           /\ db.sig \subseteq Entry /\ attempt.pre \subseteq Entry
           /\ db.rows \subseteq Row /\ tx.rows \subseteq Row
           /\ \A w \in Workers : walk[w].seen \subseteq Entry /\ walk[w].stamp \in Nat
           /\ \A w \in Workers : walk[w].at \in Files \cup {None}
           /\ \A e \in Entry : e.file \in Files /\ e.stamp \in Nat /\ e.content \in Present
BY DEF TypeOK, WalkState, AttemptState, Entry

\* An edit: the file gets a new content and a time nothing was read at.
LEMMA EditChanges ==
    ASSUME ~StampReuse, TypeOK, StampInv,
           NEW f \in Files, NEW c \in Contents, NEW s \in 0 .. MaxEdits, Edit(f, c, s)
    PROVE  /\ tree' = [tree EXCEPT ![f] = [content |-> c, stamp |-> clock + 1]]
           /\ clock' = clock + 1
           /\ UNCHANGED <<db, tx, witness, pc, body, walk, attempt>>
           /\ \A w \in Workers : \A g \in Files :
                /\ since[w][g] \subseteq since'[w][g]
                /\ pc[w] # "idle" => tree'[g].content \in since'[w][g] \/ tree'[g] = tree[g]
           /\ \A g \in Files : \A n \in Nat : n <= tree[g].stamp =>
                /\ n <= tree'[g].stamp
                /\ n = tree'[g].stamp => tree'[g] = tree[g]
<1>1. s = clock + 1 /\ clock \in Nat
  BY DEF Edit, TypeOK
<1>2. tree' = [tree EXCEPT ![f] = [content |-> c, stamp |-> clock + 1]] /\ clock' = clock + 1
  BY <1>1 DEF Edit
<1>3. UNCHANGED <<db, tx, witness, pc, body, walk, attempt>>
  BY DEF Edit
<1>4. \A g \in Files : g # f => tree'[g] = tree[g]
  BY <1>2 DEF TypeOK
<1>5. tree'[f] = [content |-> c, stamp |-> clock + 1]
  BY <1>2 DEF TypeOK
<1>6. ASSUME NEW w \in Workers, NEW g \in Files
      PROVE  /\ since[w][g] \subseteq since'[w][g]
             /\ pc[w] # "idle" => tree'[g].content \in since'[w][g] \/ tree'[g] = tree[g]
  <2>1. since'[w] = IF pc[w] = "idle" THEN since[w]
                    ELSE [since[w] EXCEPT ![f] = since[w][f] \cup {c}]
    BY DEF Edit
  <2>2. since[w] \in [Files -> SUBSET Contents]
    BY DEF TypeOK
  <2>3. CASE pc[w] = "idle"
    BY <2>1, <2>3
  <2>4. CASE pc[w] # "idle"
    <3>1. since'[w] = [since[w] EXCEPT ![f] = since[w][f] \cup {c}]
      BY <2>1, <2>4
    <3>2. CASE g = f
      BY <2>2, <3>1, <3>2, <1>5
    <3>3. CASE g # f
      BY <2>2, <3>1, <3>3, <1>4
    <3> QED
      BY <3>2, <3>3
  <2> QED
    BY <2>3, <2>4
<1>7. ASSUME NEW g \in Files, NEW n \in Nat, n <= tree[g].stamp
      PROVE  n <= tree'[g].stamp /\ (n = tree'[g].stamp => tree'[g] = tree[g])
  <2>1. CASE g = f
    <3>1. tree[f].stamp <= clock /\ tree[f].stamp \in Nat
      BY TypesAt DEF StampInv
    <3>2. n < clock + 1
      BY <3>1, <1>1, <1>7, <2>1
    <3> QED
      BY <3>2, <1>1, <1>5, <2>1
  <2>2. CASE g # f
    BY <1>4, <1>7, <2>2
  <2> QED
    BY <2>1, <2>2
<1> QED
  BY <1>2, <1>3, <1>6, <1>7

\* What was current stays so when files are edited.
LEMMA CurrentKept ==
    ASSUME ~StampReuse, TypeOK, StampInv,
           NEW f \in Files, NEW c \in Contents, NEW s \in 0 .. MaxEdits, Edit(f, c, s),
           NEW e \in Entry, Current(e)
    PROVE  Current(e)' /\ (e.stamp = tree'[e.file].stamp => e.stamp = tree[e.file].stamp)
<1>1. e.file \in Files /\ e.stamp \in Nat
  BY DEF Entry
<1>2. e.stamp <= tree[e.file].stamp
  BY DEF Current
<1>3. /\ e.stamp <= tree'[e.file].stamp
      /\ e.stamp = tree'[e.file].stamp => tree'[e.file] = tree[e.file]
  BY <1>1, <1>2, EditChanges
<1> QED
  BY <1>3 DEF Current

LEMMA WritesStill ==
    ASSUME NEW w \in Workers, Writes(w)
    PROVE  UNCHANGED <<tree, clock, since, body>> /\ pc[w] \in {"pre"} \cup Writing
BY DEF Writes, BeginGeneration, IndexFile, FinishIndex, CompareSignatures, ValidateFile, Commit,
       env, disk, cmd, Writing

\* Where the six steps lead.
LEMMA WritesMove ==
    ASSUME TypeOK, LockInv, NEW w \in Workers, Writes(w)
    PROVE  /\ Alone(w)
           /\ pc'[w] \in Writing \cup {"embed"}
           /\ \A v \in Workers : v # w => pc[v] \notin Writing /\ pc'[v] \notin Writing
<1>1. pc[w] \in Locked
  BY WritesStill DEF Writing, Locked, Refreshing
<1>2. Alone(w) /\ pc'[w] \in Writing \cup {"embed"}
  <2>1. CASE BeginGeneration(w)
    BY <2>1 DEF BeginGeneration, Goto, TypeOK, Alone, Unmoved, Writing, cmd
  <2>2. ASSUME NEW f \in Files, IndexFile(w, f) PROVE Alone(w) /\ pc'[w] \in Writing \cup {"embed"}
    BY <2>2 DEF IndexFile, TypeOK, Alone, Unmoved, Writing, cmd
  <2>3. CASE FinishIndex(w)
    BY <2>3 DEF FinishIndex, Goto, TypeOK, Alone, Unmoved, Writing, cmd
  <2>4. CASE CompareSignatures(w) /\ walk[w].seen = attempt.pre
    BY <2>4 DEF CompareSignatures, Goto, TypeOK, Alone, Unmoved, Writing, cmd
  <2>5. ASSUME NEW f \in Files, ValidateFile(w, f), Valid(f)
        PROVE  Alone(w) /\ pc'[w] \in Writing \cup {"embed"}
    BY <2>5 DEF ValidateFile, TypeOK, Alone, Unmoved, Writing, cmd
  <2>6. CASE Commit(w)
    BY <2>6 DEF Commit, Goto, TypeOK, Alone, Unmoved, Writing
  <2> QED
    BY <2>1, <2>2, <2>3, <2>4, <2>5, <2>6 DEF Writes
<1> QED
  BY <1>1, <1>2, OneWriter DEF Alone, Unmoved

\* A visit: the file is absent, or it is being read from now on.
LEMMA VisitMoves ==
    ASSUME TypeOK, NEW w \in Workers, NEW f \in Files, Visit(w, f)
    PROVE  /\ Still /\ UNCHANGED <<tx, attempt, db, pc, body, since>> /\ Alone(w)
           /\ pc[w] \in Walking /\ walk[w].at = None
           /\ walk'[w].todo = walk[w].todo \ {f}
           /\ walk'[w].seen = walk[w].seen
           /\ \/ tree[f].content = Gone /\ walk'[w].at = None
              \/ walk'[w].at = f /\ walk'[w].stamp = tree[f].stamp
<1>1. walk'[w] = [walk[w] EXCEPT !.todo  = walk[w].todo \ {f},
                                 !.at    = IF tree[f].content = Gone THEN None ELSE f,
                                 !.stamp = IF tree[f].content = Gone THEN 0 ELSE tree[f].stamp]
  BY DEF Visit, TypeOK
<1>2. walk[w] \in WalkState
  BY DEF TypeOK
<1>3. /\ walk'[w].todo = walk[w].todo \ {f}
      /\ walk'[w].seen = walk[w].seen
      /\ \/ tree[f].content = Gone /\ walk'[w].at = None
         \/ walk'[w].at = f /\ walk'[w].stamp = tree[f].stamp
  BY <1>1, <1>2 DEF WalkState
<1> QED
  BY <1>3 DEF Visit, TypeOK, Alone, Unmoved, Still, env, disk, cmd

EntryOf(w) ==
    [file |-> walk[w].at, stamp |-> walk[w].stamp, content |-> tree[walk[w].at].content]

LEMMA HashMoves ==
    ASSUME TypeOK, NEW w \in Workers, HashEntry(w)
    PROVE  /\ Still /\ UNCHANGED <<tx, attempt, db, pc, body, since>> /\ Alone(w)
           /\ pc[w] \in Walking /\ walk[w].at \in Files
           /\ walk'[w].todo = walk[w].todo
           /\ walk'[w].at = None
           /\ walk'[w].seen = walk[w].seen \cup {EntryOf(w)}
<1>1. walk'[w] = [walk[w] EXCEPT !.at = None, !.stamp = 0,
                                 !.seen = walk[w].seen \cup {EntryOf(w)}]
  BY DEF HashEntry, TypeOK, EntryOf
<1>2. walk[w] \in WalkState
  BY DEF TypeOK
<1>3. /\ walk'[w].todo = walk[w].todo
      /\ walk'[w].at = None
      /\ walk'[w].seen = walk[w].seen \cup {EntryOf(w)}
  BY <1>1, <1>2 DEF WalkState
<1>4. walk[w].at \in Files
  BY <1>2 DEF WalkState, HashEntry
<1> QED
  BY <1>3, <1>4 DEF HashEntry, TypeOK, Alone, Unmoved, Still, env, disk, cmd

LEMMA StepStamps ==
    ASSUME ~StampReuse, TypeOK, StampInv, Kind PROVE StampInv'
<1>1. CASE UNCHANGED <<tree, clock>>
  BY <1>1 DEF StampInv
<1>2. ASSUME NEW f \in Files, NEW c \in Contents, NEW s \in 0 .. MaxEdits, Edit(f, c, s)
      PROVE  StampInv'
  <2>1. tree' = [tree EXCEPT ![f] = [content |-> c, stamp |-> clock + 1]] /\ clock' = clock + 1
    BY <1>2, EditChanges
  <2>2. clock \in Nat
    BY DEF TypeOK
  <2>3. \A g \in Files : tree[g].stamp \in Nat /\ tree[g].stamp <= clock
    BY TypesAt DEF StampInv
  <2>4. \A g \in Files : tree'[g].stamp <= clock + 1
    BY <2>1, <2>2, <2>3 DEF TypeOK
  <2> QED
    BY <2>1, <2>4 DEF StampInv
<1>3. \A w \in Workers : Writes(w) => UNCHANGED <<tree, clock>>
  BY WritesStill
<1>4. Passes => UNCHANGED <<tree, clock>>
  BY DEF Passes, Still
<1> QED
  BY <1>1, <1>2, <1>3, <1>4, VisitMoves, HashMoves DEF Kind, Still

LEMMA StepSince ==
    ASSUME ~StampReuse, TypeOK, LockInv, StampInv, SinceInv, Kind PROVE SinceInv'
<1>1. ASSUME NEW f \in Files, NEW c \in Contents, NEW s \in 0 .. MaxEdits, Edit(f, c, s)
      PROVE  SinceInv'
  <2>1. UNCHANGED <<pc, body>>
    BY <1>1, EditChanges
  <2>2. \A w \in Workers : \A g \in Files : pc[w] # "idle" => tree'[g].content \in since'[w][g]
    BY <1>1, EditChanges DEF SinceInv
  <2> QED
    BY <2>1, <2>2 DEF SinceInv
<1>2. ASSUME NEW w \in Workers, NEW f \in Files, Visit(w, f) PROVE SinceInv'
  BY <1>2, VisitMoves DEF Still, SinceInv
<1>3. ASSUME NEW w \in Workers, HashEntry(w) PROVE SinceInv'
  BY <1>3, HashMoves DEF Still, SinceInv
<1>4. ASSUME NEW w \in Workers, Writes(w) PROVE SinceInv'
  <2>1. UNCHANGED <<tree, since, body>> /\ pc[w] \in {"pre"} \cup Writing
    BY <1>4, WritesStill
  <2>2. Alone(w) /\ pc'[w] \in Writing \cup {"embed"}
    BY <1>4, WritesMove
  <2> QED
    BY <2>1, <2>2 DEF Alone, Unmoved, Writing, SinceInv
<1>5. CASE Passes
  <2> SUFFICES ASSUME NEW v \in Workers
               PROVE  /\ pc'[v] \in {"idle", "check", "version", "state"} => body'[v] = "refresh"
                      /\ pc'[v] # "idle" => \A f \in Files : tree'[f].content \in since'[v][f]
    BY DEF SinceInv
  <2>1. tree' = tree
    BY <1>5 DEF Passes, Still
  <2>2. CASE Unmoved(v)
    BY <2>1, <2>2 DEF Unmoved, SinceInv
  <2>3. CASE Moved(v)
    BY <2>1, <2>3 DEF Moved, SinceInv
  <2> QED
    BY <1>5, <2>2, <2>3 DEF Passes
<1> QED
  BY <1>1, <1>2, <1>3, <1>4, <1>5 DEF Kind

LEMMA StepWalks ==
    ASSUME ~StampReuse, TypeOK, LockInv, StampInv, WalkInv, Kind PROVE WalkInv'
<1> DEFINE Read(v) == /\ walk[v].at # None => walk[v].stamp <= tree[walk[v].at].stamp
                      /\ \A e \in walk[v].seen : Current(e)
<1>0. ASSUME NEW v \in Workers, Unmoved(v), tree' = tree, pc'[v] \in Walking
      PROVE  Read(v)'
  BY <1>0 DEF Unmoved, WalkInv, Current
<1>1. ASSUME NEW f \in Files, NEW c \in Contents, NEW s \in 0 .. MaxEdits, Edit(f, c, s)
      PROVE  WalkInv'
  <2> SUFFICES ASSUME NEW v \in Workers, pc[v] \in Walking PROVE Read(v)'
    BY <1>1, EditChanges DEF WalkInv
  <2>1. walk' = walk
    BY <1>1, EditChanges
  <2>2. \A e \in walk[v].seen : Current(e)'
    BY <1>1, CurrentKept, TypesAt DEF WalkInv
  <2>3. walk[v].at # None => walk[v].stamp <= tree'[walk[v].at].stamp
    BY <1>1, EditChanges, TypesAt DEF WalkInv
  <2> QED
    BY <2>1, <2>2, <2>3
<1>2. ASSUME NEW w \in Workers, NEW f \in Files, Visit(w, f) PROVE WalkInv'
  <2>1. /\ Still /\ Alone(w) /\ walk'[w].seen = walk[w].seen /\ pc[w] \in Walking
        /\ \/ walk'[w].at = None
           \/ walk'[w].at = f /\ walk'[w].stamp = tree[f].stamp
    BY <1>2, VisitMoves
  <2>2. tree' = tree
    BY <2>1 DEF Still
  <2>3. walk'[w].at # None => walk'[w].stamp <= tree[walk'[w].at].stamp
    BY <2>1, TypesAt
  <2>4. \A e \in walk'[w].seen : Current(e)'
    BY <2>1, <2>2 DEF WalkInv, Current
  <2>5. Read(w)'
    BY <2>2, <2>3, <2>4
  <2> QED
    BY <1>0, <2>1, <2>2, <2>5 DEF WalkInv, Alone
<1>3. ASSUME NEW w \in Workers, HashEntry(w) PROVE WalkInv'
  <2>1. /\ Still /\ Alone(w) /\ pc[w] \in Walking /\ walk[w].at \in Files
        /\ walk'[w].at = None /\ walk'[w].seen = walk[w].seen \cup {EntryOf(w)}
    BY <1>3, HashMoves
  <2>2. tree' = tree
    BY <2>1 DEF Still
  <2>3. Current(EntryOf(w))
    BY <2>1, NoneAssumption DEF Current, EntryOf, WalkInv
  <2>4. \A e \in walk'[w].seen : Current(e)'
    BY <2>1, <2>2, <2>3 DEF WalkInv, Current
  <2> QED
    BY <1>0, <2>1, <2>2, <2>4 DEF WalkInv, Alone
<1>4. ASSUME NEW w \in Workers, Writes(w) PROVE WalkInv'
  <2>1. tree' = tree /\ Alone(w)
    BY <1>4, WritesStill, WritesMove
  <2>2. pc'[w] = "post" => walk'[w] = NewWalk \/ Unmoved(w)
    BY <1>4 DEF Writes, BeginGeneration, IndexFile, FinishIndex, CompareSignatures, ValidateFile,
                Commit, Goto, TypeOK
  <2>3. pc'[w] \in Walking => pc'[w] = "post"
    BY <1>4, WritesMove DEF Walking, Writing
  <2> QED
    BY <1>0, <2>1, <2>2, <2>3 DEF WalkInv, Alone, NewWalk
<1>5. CASE Passes
  <2>1. tree' = tree
    BY <1>5 DEF Passes, Still
  <2>2. \A v \in Workers : Moved(v) /\ pc'[v] \in Walking => Read(v)'
    BY DEF Moved, NewWalk
  <2> QED
    BY <1>0, <1>5, <2>1, <2>2 DEF Passes, WalkInv
<1> QED
  BY <1>1, <1>2, <1>3, <1>4, <1>5 DEF Kind

-----------------------------------------------------------------------------
(* The generation being written.                                            *)

\* What each of the six steps does to it.
LEMMA BeginWrites ==
    ASSUME TypeOK, NEW w \in Workers, BeginGeneration(w)
    PROVE  /\ UNCHANGED <<tree, db, witness>> /\ pc[w] = "pre" /\ pc'[w] = "index"
           /\ tx'.rows \in {{}, db.rows}
           /\ attempt'.pre = walk[w].seen /\ attempt'.current = {}
           /\ attempt'.base = ContentOf
           /\ walk'[w] = NewWalk
<1>1. attempt' = [attempt EXCEPT !.pre = walk[w].seen, !.current = {}, !.base = ContentOf]
  BY DEF BeginGeneration
<1>2. /\ attempt'.pre = walk[w].seen /\ attempt'.current = {}
      /\ attempt'.base = ContentOf
  BY <1>1 DEF TypeOK, AttemptState
<1> QED
  BY <1>2 DEF BeginGeneration, Goto, TypeOK, env, disk

LEMMA IndexWrites ==
    ASSUME TypeOK, NEW w \in Workers, NEW f \in Files, IndexFile(w, f)
    PROVE  /\ UNCHANGED <<tree, db, witness, pc>> /\ pc[w] = "index"
           /\ attempt'.pre = attempt.pre /\ attempt'.base = attempt.base
           /\ f \in walk[w].todo /\ walk'[w].todo = walk[w].todo \ {f}
           /\ IF tree[f].content \in Indexable
              THEN /\ attempt'.current = attempt.current \cup {f}
                   /\ tx'.rows = Upsert(tx.rows, f, tree[f].content, Version[Owner[w]])
              ELSE UNCHANGED <<tx, attempt>>
<1>1. walk' = [walk EXCEPT ![w] = [walk[w] EXCEPT !.todo = walk[w].todo \ {f}]]
  BY DEF IndexFile
<1>2. walk'[w].todo = walk[w].todo \ {f}
  BY <1>1 DEF TypeOK, WalkState
<1>3. CASE tree[f].content \in Indexable
  <2>1. attempt' = [attempt EXCEPT !.current = attempt.current \cup {f}]
    BY <1>3 DEF IndexFile
  <2>2. /\ attempt'.pre = attempt.pre /\ attempt'.base = attempt.base
        /\ attempt'.current = attempt.current \cup {f}
    BY <2>1 DEF TypeOK, AttemptState
  <2>3. tx' = [tx EXCEPT !.rows = Upsert(tx.rows, f, tree[f].content, Version[Owner[w]])]
    BY <1>3 DEF IndexFile
  <2>4. tx'.rows = Upsert(tx.rows, f, tree[f].content, Version[Owner[w]])
    BY <2>3 DEF TypeOK
  <2> QED
    BY <1>2, <1>3, <2>2, <2>4 DEF IndexFile, env, disk
<1>4. CASE tree[f].content \notin Indexable
  BY <1>2, <1>4 DEF IndexFile, env, disk
<1> QED
  BY <1>3, <1>4

LEMMA FinishWrites ==
    ASSUME TypeOK, NEW w \in Workers, FinishIndex(w)
    PROVE  /\ UNCHANGED <<tree, db, witness, attempt>> /\ pc[w] = "index" /\ pc'[w] = "post"
           /\ walk[w].todo = {} /\ walk'[w] = NewWalk
           /\ tx'.rows = {r \in tx.rows : r.file \in attempt.current}
BY DEF FinishIndex, Goto, TypeOK, env, disk

LEMMA CompareWrites ==
    ASSUME TypeOK, NEW w \in Workers, CompareSignatures(w), walk[w].seen = attempt.pre
    PROVE  UNCHANGED <<tree, db, tx, witness, attempt>> /\ pc[w] = "post" /\ pc'[w] = "validate"
BY DEF CompareSignatures, Goto, TypeOK, env, disk

LEMMA ValidateWrites ==
    ASSUME TypeOK, NEW w \in Workers, NEW f \in Files, ValidateFile(w, f), Valid(f)
    PROVE  UNCHANGED <<tree, db, tx, witness, attempt, pc>> /\ pc[w] = "validate"
BY DEF ValidateFile, env, disk

LEMMA CommitWrites ==
    ASSUME TypeOK, NEW w \in Workers, Commit(w)
    PROVE  /\ UNCHANGED tree /\ pc[w] = "validate" /\ pc'[w] = "embed"
           /\ db'.rows = tx.rows /\ db'.sig = attempt.pre /\ witness' = attempt.base
BY DEF Commit, Goto, TypeOK, disk

\* Replacing the row of one file leaves the others alone.
LEMMA UpsertHolds ==
    ASSUME NEW rows \in SUBSET Row, OnePerFile(rows), NEW f \in Files, NEW c \in Indexable,
           NEW v \in Versions
    PROVE  /\ OnePerFile(Upsert(rows, f, c, v))
           /\ Held(Upsert(rows, f, c, v), f) = {c}
           /\ \A g \in Files : g # f => Held(Upsert(rows, f, c, v), g) = Held(rows, g)
<1> DEFINE new == [file |-> f, content |-> c, ver |-> v]
<1>1. CASE \E r \in RowsOf(rows, f) : r.content = c
  <2>1. Upsert(rows, f, c, v) = rows
    BY <1>1 DEF Upsert
  <2>2. Held(rows, f) = {c}
    BY <1>1 DEF Held, RowsOf, OnePerFile
  <2> QED
    BY <2>1, <2>2
<1>2. CASE ~\E r \in RowsOf(rows, f) : r.content = c
  <2>1. Upsert(rows, f, c, v) = {r \in rows : r.file # f} \cup {new}
    BY <1>2 DEF Upsert
  <2>2. OnePerFile({r \in rows : r.file # f} \cup {new})
    BY DEF OnePerFile
  <2>3. Held({r \in rows : r.file # f} \cup {new}, f) = {c}
    <3>1. RowsOf({r \in rows : r.file # f} \cup {new}, f) = {new}
      BY DEF RowsOf
    <3>2. new.content = c
      OBVIOUS
    <3> QED
      BY <3>1, <3>2 DEF Held
  <2>4. ASSUME NEW g \in Files, g # f
        PROVE  Held({r \in rows : r.file # f} \cup {new}, g) = Held(rows, g)
    <3>1. RowsOf({r \in rows : r.file # f} \cup {new}, g) = RowsOf(rows, g)
      BY <2>4 DEF RowsOf
    <3> QED
      BY <3>1 DEF Held
  <2> QED
    BY <2>1, <2>2, <2>3, <2>4
<1> QED
  BY <1>1, <1>2

\* The indexer gives the file it reaches the row its content has now.
LEMMA IndexKeeps ==
    ASSUME TypeOK, WriterInv, NEW w \in Workers, NEW f \in Files, IndexFile(w, f)
    PROVE  /\ OnePerFile(tx'.rows)
           /\ KeptOf(f)' = Shown(tree[f].content)
           /\ \A g \in Files : g # f => KeptOf(g)' = KeptOf(g)
           /\ attempt'.current \cap walk'[w].todo = {}
<1>1. /\ pc[w] = "index" /\ f \in walk[w].todo /\ walk'[w].todo = walk[w].todo \ {f}
      /\ IF tree[f].content \in Indexable
         THEN /\ attempt'.current = attempt.current \cup {f}
              /\ tx'.rows = Upsert(tx.rows, f, tree[f].content, Version[Owner[w]])
         ELSE UNCHANGED <<tx, attempt>>
  BY IndexWrites
<1>2. OnePerFile(tx.rows) /\ attempt.current \cap walk[w].todo = {} /\ tx.rows \in SUBSET Row
  BY <1>1 DEF WriterInv, Writer, WriterRows, WriterMeets, Writing, TypeOK
<1>3. CASE tree[f].content \in Indexable
  <2>1. Version[Owner[w]] \in Versions
    BY ConstantsTyped
  <2>2. /\ OnePerFile(tx'.rows)
        /\ Held(tx'.rows, f) = {tree[f].content}
        /\ \A g \in Files : g # f => Held(tx'.rows, g) = Held(tx.rows, g)
    BY <1>1, <1>2, <1>3, <2>1, UpsertHolds
  <2>3. attempt'.current = attempt.current \cup {f}
    BY <1>1, <1>3
  <2> QED
    BY <1>1, <1>2, <1>3, <2>2, <2>3 DEF KeptOf, Shown
<1>4. CASE tree[f].content \notin Indexable
  BY <1>1, <1>2, <1>4 DEF KeptOf, Shown
<1> QED
  BY <1>3, <1>4

LEMMA FinishKeeps ==
    ASSUME TypeOK, NEW w \in Workers, FinishIndex(w)
    PROVE  \A g \in Files : KeptOf(g)' = KeptOf(g)
<1> SUFFICES ASSUME NEW g \in Files PROVE KeptOf(g)' = KeptOf(g)
  OBVIOUS
<1>1. attempt' = attempt /\ tx'.rows = {r \in tx.rows : r.file \in attempt.current}
  BY FinishWrites
<1>2. CASE g \in attempt.current
  <2>1. RowsOf(tx'.rows, g) = RowsOf(tx.rows, g)
    BY <1>1, <1>2 DEF RowsOf
  <2> QED
    BY <1>1, <1>2, <2>1 DEF KeptOf, Held
<1>3. CASE g \notin attempt.current
  BY <1>1, <1>3 DEF KeptOf
<1> QED
  BY <1>2, <1>3

\* Once the rows of vanished files are deleted, what is kept is what is held.
LEMMA ValidatedRows ==
    ASSUME TypeOK, WriterInv, NEW w \in Workers, pc[w] \in {"post", "validate"}, NEW f \in Files
    PROVE  Held(tx.rows, f) = KeptOf(f)
<1>1. \A r \in tx.rows : r.file \in attempt.current
  BY DEF WriterInv, Writer, WriterRows, WriterMeets, Writing
<1>2. CASE f \in attempt.current
  BY <1>2 DEF KeptOf
<1>3. CASE f \notin attempt.current
  <2>1. RowsOf(tx.rows, f) = {}
    BY <1>1, <1>3 DEF RowsOf
  <2> QED
    BY <1>3, <2>1 DEF KeptOf, Held
<1> QED
  BY <1>2, <1>3

\* The published signature stays true.
LEMMA StepSig ==
    ASSUME ~StampReuse, TypeOK, LockInv, StampInv, SigInv, WriterInv, Kind PROVE SigInv'
<1>0. ASSUME tree' = tree, witness' = witness, db'.rows = db.rows, db'.sig = db.sig
      PROVE  SigInv'
  BY <1>0 DEF SigInv, Current
<1>1. ASSUME NEW f \in Files, NEW c \in Contents, NEW s \in 0 .. MaxEdits, Edit(f, c, s)
      PROVE  SigInv'
  <2>1. db' = db /\ witness' = witness
    BY <1>1, EditChanges
  <2>2. \A e \in db.sig : Current(e)'
    BY <1>1, CurrentKept, TypesAt DEF SigInv
  <2> QED
    BY <2>1, <2>2 DEF SigInv
<1>2. ASSUME NEW w \in Workers, NEW f \in Files, Visit(w, f) PROVE SigInv'
  BY <1>0, <1>2, VisitMoves DEF Still
<1>3. ASSUME NEW w \in Workers, HashEntry(w) PROVE SigInv'
  BY <1>0, <1>3, HashMoves DEF Still
<1>4. ASSUME NEW w \in Workers, Writes(w) PROVE SigInv'
  <2>1. CASE Commit(w)
    <3>1. /\ tree' = tree /\ pc[w] = "validate"
          /\ db'.rows = tx.rows /\ db'.sig = attempt.pre /\ witness' = attempt.base
      BY <2>1, CommitWrites
    <3>2. OnePerFile(tx.rows) /\ \A e \in attempt.pre : Current(e) /\ Matches(e)
      BY <3>1 DEF WriterInv, Writer, WriterRows, WriterBase, WriterMeets, Writing
    <3>3. \A e \in attempt.pre : Held(tx.rows, e.file) = Shown(e.content)
      BY <3>1, <3>2, ValidatedRows, TypesAt DEF Matches
    <3>4. \A e \in attempt.pre : attempt.base[e.file] = e.content
      BY <3>2 DEF Matches
    <3> QED
      BY <3>1, <3>2, <3>3, <3>4 DEF SigInv, Current
  <2>2. CASE ~Commit(w)
    BY <1>0, <1>4, <2>2, BeginWrites, IndexWrites, FinishWrites, CompareWrites, ValidateWrites
    DEF Writes
  <2> QED
    BY <2>1, <2>2
<1>5. CASE Passes
  BY <1>0, <1>5 DEF Passes, Still
<1> QED
  BY <1>1, <1>2, <1>3, <1>4, <1>5 DEF Kind

\* The same writer, at the same place, with the same rows and the same tree.
LEMMA WriterStays ==
    ASSUME NEW v \in Workers, Writer(v), UNCHANGED <<tx, attempt, tree>>, db'.sig = db.sig, Unmoved(v)
    PROVE  Writer(v)'
<1>1. \A f : KeptOf(f)' = KeptOf(f) /\ Reached(v, f)' = Reached(v, f)
  BY DEF KeptOf, Reached, Unmoved
<1>2. \A e : /\ Current(e)' = Current(e)
             /\ Met(v, e)' = Met(v, e)
             /\ Matches(e)' = Matches(e)
  BY <1>1 DEF Current, Met, Matches, Unmoved
<1>3. WriterRows(v)' /\ WriterBase'
  BY <1>2 DEF Writer, WriterRows, WriterBase, Unmoved
<1>4. WriterKeeps(v)'
  BY <1>1 DEF Writer, WriterKeeps
<1>5. WriterMeets(v)'
  BY <1>2 DEF Writer, WriterMeets, Unmoved
<1> QED
  BY <1>3, <1>4, <1>5 DEF Writer

LEMMA EditWriter ==
    ASSUME ~StampReuse, TypeOK, StampInv, SigInv, WriterInv,
           NEW f \in Files, NEW c \in Contents, NEW s \in 0 .. MaxEdits, Edit(f, c, s)
    PROVE  WriterInv'
<1>0. UNCHANGED <<db, tx, pc, walk, attempt>>
  BY EditChanges
<1> SUFFICES ASSUME NEW v \in Workers, pc[v] \in Writing PROVE Writer(v)'
  BY <1>0 DEF WriterInv
<1>1. Writer(v)
  BY DEF WriterInv
<1>2. \A e \in attempt.pre \cup db.sig :
        Current(e)' /\ (e.stamp = tree'[e.file].stamp => e.stamp = tree[e.file].stamp)
  BY <1>1, CurrentKept, TypesAt DEF Writer, WriterBase, SigInv
<1>3. \A g : KeptOf(g)' = KeptOf(g) /\ Reached(v, g)' = Reached(v, g)
  BY <1>0 DEF KeptOf, Reached
<1>4. \A e : Met(v, e)' = Met(v, e) /\ Matches(e)' = Matches(e)
  BY <1>0, <1>3 DEF Met, Matches
<1>5. WriterRows(v)'
  BY <1>0, <1>1 DEF Writer, WriterRows
<1>6. WriterBase'
  BY <1>0, <1>1, <1>2 DEF Writer, WriterBase
<1>7. WriterKeeps(v)'
  BY <1>0, <1>1, <1>2, <1>3 DEF Writer, WriterKeeps
<1>8. WriterMeets(v)'
  BY <1>0, <1>1, <1>4 DEF Writer, WriterMeets
<1> QED
  BY <1>5, <1>6, <1>7, <1>8 DEF Writer

\* The walk of a writer reads the tree again: what it meets matches.
LEMMA VisitWriter ==
    ASSUME TypeOK, SigInv, WriterInv, NEW w \in Workers, NEW f \in Files, Visit(w, f),
           pc[w] \in Writing
    PROVE  Writer(w)'
<1>0. /\ tree' = tree /\ UNCHANGED <<db, tx, attempt, pc>>
      /\ pc[w] = "post" /\ walk'[w].seen = walk[w].seen /\ walk[w].at = None
      /\ \/ walk'[w].at = None
         \/ walk'[w].at = f /\ walk'[w].stamp = tree[f].stamp
  BY VisitMoves DEF Still, Walking, Writing
<1>1. Writer(w)
  BY DEF WriterInv
<1>2. \A g : KeptOf(g)' = KeptOf(g) /\ Reached(w, g)' /\ Reached(w, g)
  BY <1>0 DEF KeptOf, Reached
<1>3. \A e : Current(e)' = Current(e) /\ Matches(e)' = Matches(e)
  BY <1>0, <1>2 DEF Current, Matches
<1>4. ASSUME NEW e \in attempt.pre, Met(w, e)' PROVE Matches(e)
  <2>1. CASE e \in walk[w].seen
    BY <1>0, <1>1, <2>1 DEF Writer, WriterMeets, Met
  <2>2. CASE e \notin walk[w].seen
    <3>1. walk'[w].at = e.file /\ walk'[w].stamp = e.stamp
      BY <1>0, <1>4, <2>2 DEF Met
    <3>2. e.file = f /\ e.stamp = tree[e.file].stamp
      BY <1>0, <3>1, TypesAt, NoneAssumption
    <3> QED
      BY <1>1, <1>2, <3>2 DEF Writer, WriterBase, WriterKeeps, Matches
  <2> QED
    BY <2>1, <2>2
<1>5. WriterRows(w)' /\ WriterBase'
  BY <1>0, <1>1, <1>3 DEF Writer, WriterRows, WriterBase
<1>6. WriterKeeps(w)'
  BY <1>0, <1>1, <1>2 DEF Writer, WriterKeeps
<1>7. WriterMeets(w)'
  BY <1>0, <1>3, <1>4 DEF WriterMeets
<1> QED
  BY <1>5, <1>6, <1>7 DEF Writer

LEMMA HashWriter ==
    ASSUME TypeOK, SigInv, WriterInv, NEW w \in Workers, HashEntry(w), pc[w] \in Writing
    PROVE  Writer(w)'
<1>0. /\ tree' = tree /\ UNCHANGED <<db, tx, attempt, pc>>
      /\ pc[w] = "post" /\ walk'[w].seen = walk[w].seen \cup {EntryOf(w)}
      /\ walk[w].at \in Files /\ walk'[w].at = None
  BY HashMoves DEF Still, Walking, Writing
<1>1. Writer(w)
  BY DEF WriterInv
<1>2. \A g : KeptOf(g)' = KeptOf(g) /\ Reached(w, g)' = Reached(w, g)
  BY <1>0 DEF KeptOf, Reached
<1>3. \A e : Current(e)' = Current(e) /\ Matches(e)' = Matches(e)
  BY <1>0, <1>2 DEF Current, Matches
<1>4. \A e \in attempt.pre : Met(w, e)' => Met(w, e)
  BY <1>0, TypesAt, NoneAssumption DEF Met, EntryOf
<1>5. WriterRows(w)' /\ WriterBase'
  BY <1>0, <1>1, <1>3 DEF Writer, WriterRows, WriterBase
<1>6. WriterKeeps(w)'
  BY <1>0, <1>1, <1>2 DEF Writer, WriterKeeps
<1>7. WriterMeets(w)'
  BY <1>0, <1>1, <1>3, <1>4 DEF Writer, WriterMeets
<1> QED
  BY <1>5, <1>6, <1>7 DEF Writer

LEMMA BeginWriter ==
    ASSUME TypeOK, WalkInv, SigInv, NEW w \in Workers, BeginGeneration(w)
    PROVE  Writer(w)'
<1>0. /\ UNCHANGED <<tree, db>> /\ pc[w] = "pre" /\ pc'[w] = "index"
      /\ tx'.rows \in {{}, db.rows}
      /\ attempt'.pre = walk[w].seen /\ attempt'.current = {}
      /\ attempt'.base = ContentOf
      /\ walk'[w] = NewWalk
  BY BeginWrites
<1>1. WriterRows(w)'
  BY <1>0 DEF WriterRows, SigInv, OnePerFile
<1>2. \A e \in walk[w].seen : Current(e) /\ e.file \in Files
  BY <1>0, TypesAt DEF WalkInv, Walking
<1>3. WriterBase'
  BY <1>0, <1>2 DEF WriterBase, Current, ContentOf
<1>4. \A f \in Files : ~Reached(w, f)'
  BY <1>0 DEF Reached, NewWalk
<1>5. WriterKeeps(w)'
  BY <1>0, <1>4, TypesAt DEF WriterKeeps
<1>6. WriterMeets(w)'
  BY <1>0 DEF WriterMeets
<1> QED
  BY <1>1, <1>3, <1>5, <1>6 DEF Writer

LEMMA IndexWriter ==
    ASSUME TypeOK, SigInv, WriterInv, NEW w \in Workers, NEW f \in Files, IndexFile(w, f)
    PROVE  Writer(w)'
<1>0. /\ UNCHANGED <<tree, db, pc>> /\ pc[w] = "index"
      /\ attempt'.pre = attempt.pre /\ attempt'.base = attempt.base
      /\ walk'[w].todo = walk[w].todo \ {f}
  BY IndexWrites
<1>1. Writer(w)
  BY <1>0 DEF WriterInv, Writing
<1>2. /\ OnePerFile(tx'.rows)
      /\ KeptOf(f)' = Shown(tree[f].content)
      /\ \A g \in Files : g # f => KeptOf(g)' = KeptOf(g)
      /\ attempt'.current \cap walk'[w].todo = {}
  BY IndexKeeps
<1>3. \A g : g # f => Reached(w, g)' = Reached(w, g)
  BY <1>0 DEF Reached
<1>4. WriterRows(w)'
  BY <1>0, <1>2 DEF WriterRows
<1>5. WriterBase'
  BY <1>0, <1>1 DEF Writer, WriterBase, Current
<1>6. ASSUME NEW e \in attempt'.pre \cup db'.sig, Reached(w, e.file)', e.stamp = tree'[e.file].stamp
      PROVE  KeptOf(e.file)' = Shown(e.content)
  <2>1. e \in attempt.pre \cup db.sig /\ e.stamp = tree[e.file].stamp /\ e.file \in Files
    BY <1>0, <1>6, TypesAt
  <2>2. CASE e.file = f
    <3>1. e.content = tree[e.file].content
      BY <1>1, <2>1 DEF Writer, WriterBase, SigInv, Current
    <3> QED
      BY <1>2, <2>2, <3>1
  <2>3. CASE e.file # f
    <3>1. KeptOf(e.file)' = KeptOf(e.file) /\ Reached(w, e.file)
      BY <1>2, <1>3, <1>6, <2>1, <2>3
    <3>2. KeptOf(e.file) = Shown(e.content)
      BY <1>1, <2>1, <3>1 DEF Writer, WriterKeeps
    <3> QED
      BY <3>1, <3>2
  <2> QED
    BY <2>2, <2>3
<1>7. WriterKeeps(w)'
  BY <1>6 DEF WriterKeeps
<1>8. WriterMeets(w)'
  BY <1>0 DEF WriterMeets
<1> QED
  BY <1>4, <1>5, <1>7, <1>8 DEF Writer

LEMMA FinishWriter ==
    ASSUME TypeOK, WriterInv, NEW w \in Workers, FinishIndex(w) PROVE Writer(w)'
<1>0. /\ UNCHANGED <<tree, db, attempt>> /\ pc[w] = "index" /\ pc'[w] = "post"
      /\ walk[w].todo = {} /\ walk'[w] = NewWalk
      /\ tx'.rows = {r \in tx.rows : r.file \in attempt.current}
  BY FinishWrites
<1>1. Writer(w)
  BY <1>0 DEF WriterInv, Writing
<1>2. \A g \in Files : KeptOf(g)' = KeptOf(g) /\ Reached(w, g)
  BY <1>0, FinishKeeps DEF Reached
<1>3. WriterRows(w)'
  BY <1>0, <1>1 DEF Writer, WriterRows, OnePerFile
<1>4. WriterBase'
  BY <1>0, <1>1 DEF Writer, WriterBase, Current
<1>5. WriterKeeps(w)'
  BY <1>0, <1>1, <1>2, TypesAt DEF Writer, WriterKeeps
<1>6. \A e \in attempt.pre : ~Met(w, e)'
  BY <1>0, TypesAt, NoneAssumption DEF Met, NewWalk
<1>7. WriterMeets(w)'
  BY <1>0, <1>6 DEF WriterMeets
<1> QED
  BY <1>3, <1>4, <1>5, <1>7 DEF Writer

\* Both signatures are equal: every entry has been met twice.
LEMMA CompareWriter ==
    ASSUME TypeOK, WriterInv, NEW w \in Workers, CompareSignatures(w), walk[w].seen = attempt.pre
    PROVE  Writer(w)'
<1>0. UNCHANGED <<tree, db, tx, attempt>> /\ pc[w] = "post" /\ pc'[w] = "validate"
  BY CompareWrites
<1>1. Writer(w)
  BY <1>0 DEF WriterInv, Writing
<1>2. \A g : KeptOf(g)' = KeptOf(g) /\ Reached(w, g)
  BY <1>0 DEF KeptOf, Reached
<1>3. WriterRows(w)' /\ WriterBase'
  BY <1>0, <1>1 DEF Writer, WriterRows, WriterBase, Current
<1>4. WriterKeeps(w)'
  BY <1>0, <1>1, <1>2 DEF Writer, WriterKeeps
<1>5. \A e \in attempt.pre : Matches(e) /\ Matches(e)' = Matches(e)
  BY <1>0, <1>1, <1>2 DEF Writer, WriterMeets, Met, Matches
<1>6. WriterMeets(w)'
  BY <1>0, <1>5 DEF WriterMeets
<1> QED
  BY <1>3, <1>4, <1>6 DEF Writer

LEMMA ValidateWriter ==
    ASSUME TypeOK, WriterInv, NEW w \in Workers, NEW f \in Files, ValidateFile(w, f), Valid(f)
    PROVE  Writer(w)'
<1>0. UNCHANGED <<tree, db, tx, attempt, pc>> /\ pc[w] = "validate"
  BY ValidateWrites
<1>1. Writer(w)
  BY <1>0 DEF WriterInv, Writing
<1>2. \A g : KeptOf(g)' = KeptOf(g) /\ Reached(w, g)
  BY <1>0 DEF KeptOf, Reached
<1>3. WriterRows(w)' /\ WriterBase'
  BY <1>0, <1>1 DEF Writer, WriterRows, WriterBase, Current
<1>4. WriterKeeps(w)'
  BY <1>0, <1>1, <1>2 DEF Writer, WriterKeeps
<1>5. WriterMeets(w)'
  BY <1>0, <1>1, <1>2 DEF Writer, WriterMeets, Matches
<1> QED
  BY <1>3, <1>4, <1>5 DEF Writer

LEMMA StepWriter ==
    ASSUME ~StampReuse, TypeOK, LockInv, StampInv, WalkInv, SigInv, WriterInv, Kind
    PROVE  WriterInv'
<1>1. ASSUME NEW f \in Files, NEW c \in Contents, NEW s \in 0 .. MaxEdits, Edit(f, c, s)
      PROVE  WriterInv'
  BY <1>1, EditWriter
<1>2. ASSUME NEW w \in Workers, Still, UNCHANGED <<tx, attempt, pc>>, Alone(w),
             pc[w] \in Writing => Writer(w)'
      PROVE  WriterInv'
  <2> SUFFICES ASSUME NEW v \in Workers, pc[v] \in Writing PROVE Writer(v)'
    BY <1>2 DEF WriterInv
  <2>1. Writer(v)
    BY DEF WriterInv
  <2> QED
    BY <1>2, <2>1, WriterStays DEF Alone, Still
<1>3. ASSUME NEW w \in Workers, NEW f \in Files, Visit(w, f) PROVE WriterInv'
  BY <1>2, <1>3, VisitMoves, VisitWriter
<1>4. ASSUME NEW w \in Workers, HashEntry(w) PROVE WriterInv'
  BY <1>2, <1>4, HashMoves, HashWriter
<1>5. ASSUME NEW w \in Workers, Writes(w) PROVE WriterInv'
  <2>1. CASE Commit(w)
    <3>1. \A v \in Workers : pc'[v] \notin Writing
      BY <1>5, <2>1, CommitWrites, WritesMove DEF Writing
    <3> QED
      BY <3>1 DEF WriterInv
  <2>2. CASE ~Commit(w)
    <3>1. Writer(w)'
      BY <1>5, <2>2, BeginWriter, IndexWriter, FinishWriter, CompareWriter, ValidateWriter DEF Writes
    <3>2. \A v \in Workers : v # w => pc'[v] \notin Writing
      BY <1>5, WritesMove
    <3> QED
      BY <3>1, <3>2 DEF WriterInv
  <2> QED
    BY <2>1, <2>2
<1>6. CASE Passes
  <2> SUFFICES ASSUME NEW v \in Workers, pc'[v] \in Writing PROVE Writer(v)'
    BY DEF WriterInv
  <2>1. Unmoved(v) /\ UNCHANGED <<tx, attempt>> /\ tree' = tree /\ db'.sig = db.sig
    BY <1>6 DEF Passes, Moved, Still
  <2>2. Writer(v)
    BY <2>1 DEF WriterInv, Unmoved
  <2> QED
    BY <2>1, <2>2, WriterStays
<1> QED
  BY <1>1, <1>3, <1>4, <1>5, <1>6 DEF Kind

-----------------------------------------------------------------------------
(* Answers.                                                                 *)
Checked(w) ==
    /\ \A e \in walk[w].seen : e.content \in since[w][e.file]
    /\ \A f \in Files :
         \/ f \in walk[w].todo
         \/ f = walk[w].at
         \/ Gone \in since[w][f]
         \/ \E e \in walk[w].seen : e.file = f

LEMMA StepCheck ==
    ASSUME ~StampReuse, TypeOK, LockInv, StampInv, SinceInv, CheckInv, Kind PROVE CheckInv'
<1>0. CheckInv <=> \A v \in Workers : pc[v] = "check" => Checked(v)
  BY DEF CheckInv, Checked
<1> SUFFICES ASSUME NEW v \in Workers, pc'[v] = "check" PROVE Checked(v)'
  BY DEF CheckInv, Checked
<1>a. ASSUME Unmoved(v) PROVE Checked(v)'
  BY <1>0, <1>a DEF Unmoved, Checked
<1>1. ASSUME NEW f \in Files, NEW c \in Contents, NEW s \in 0 .. MaxEdits, Edit(f, c, s)
      PROVE  Checked(v)'
  <2>1. UNCHANGED <<pc, walk>> /\ \A g \in Files : since[v][g] \subseteq since'[v][g]
    BY <1>1, EditChanges
  <2>2. Checked(v)
    BY <1>0, <2>1
  <2>3. \A e \in walk[v].seen : e.file \in Files
    BY TypesAt
  <2> QED
    BY <2>1, <2>2, <2>3 DEF Checked
<1>2. ASSUME NEW w \in Workers, NEW f \in Files, Visit(w, f) PROVE Checked(v)'
  <2>0. /\ UNCHANGED <<pc, since>> /\ Alone(w) /\ walk[w].at = None
        /\ walk'[w].todo = walk[w].todo \ {f} /\ walk'[w].seen = walk[w].seen
        /\ \/ tree[f].content = Gone /\ walk'[w].at = None
           \/ walk'[w].at = f /\ walk'[w].stamp = tree[f].stamp
    BY <1>2, VisitMoves
  <2>1. CASE v # w
    BY <1>a, <2>0, <2>1 DEF Alone
  <2>2. CASE v = w
    <3>1. Checked(v) /\ tree[f].content \in since[v][f]
      BY <1>0, <2>0 DEF SinceInv
    <3> QED
      BY <2>0, <2>2, <3>1, NoneAssumption DEF Checked
  <2> QED
    BY <2>1, <2>2
<1>3. ASSUME NEW w \in Workers, HashEntry(w) PROVE Checked(v)'
  <2>0. /\ UNCHANGED <<pc, since>> /\ Alone(w) /\ walk[w].at \in Files
        /\ walk'[w].todo = walk[w].todo /\ walk'[w].seen = walk[w].seen \cup {EntryOf(w)}
    BY <1>3, HashMoves
  <2>1. CASE v # w
    BY <1>a, <2>0, <2>1 DEF Alone
  <2>2. CASE v = w
    <3>1. Checked(v) /\ EntryOf(v).content \in since[v][EntryOf(v).file]
      BY <1>0, <2>0, <2>2 DEF SinceInv, EntryOf
    <3>2. EntryOf(v).file = walk[v].at
      BY DEF EntryOf
    <3> QED
      BY <2>0, <2>2, <3>1, <3>2 DEF Checked
  <2> QED
    BY <2>1, <2>2
<1>4. ASSUME NEW w \in Workers, Writes(w) PROVE Checked(v)'
  BY <1>a, <1>4, WritesMove DEF Alone, Writing
<1>5. CASE Passes
  <2>1. ASSUME Moved(v) PROVE Checked(v)'
    BY <2>1 DEF Moved, Walking, NewWalk, Checked
  <2> QED
    BY <1>a, <1>5, <2>1 DEF Passes
<1> QED
  BY <1>1, <1>2, <1>3, <1>4, <1>5 DEF Kind

\* A command that may answer from the rows that v writes.
Expects(w, v, f) ==
    \/ Ready(w)
    \/ w = v
    \/ pc[w] = "check" /\ \E e \in db.sig : e.file = f /\ Met(w, e)
Answers(w, f) ==
    /\ Ready(w) => Fair(w, f, Held(db.rows, f))
    /\ \A v \in Workers :
         pc[v] \in Writing /\ Reached(v, f) /\ Expects(w, v, f) => Fair(w, f, KeptOf(f))

LEMMA AnswerParts == AnswerInv => \A w \in Workers : \A f \in Files : Answers(w, f)
BY DEF AnswerInv, Answers, Expects

LEMMA AnswerWhole == (\A w \in Workers : \A f \in Files : Answers(w, f)') => AnswerInv'
BY DEF AnswerInv, Answers, Expects

LEMMA EditAnswers ==
    ASSUME ~StampReuse, TypeOK, StampInv, AnswerInv,
           NEW f \in Files, NEW c \in Contents, NEW s \in 0 .. MaxEdits, Edit(f, c, s),
           NEW w \in Workers, NEW g \in Files
    PROVE  Answers(w, g)'
<1>1. UNCHANGED <<db, tx, pc, body, walk, attempt>> /\ since[w][g] \subseteq since'[w][g]
  BY EditChanges
<1>2. \A cs : Fair(w, g, cs) => Fair(w, g, cs)'
  BY <1>1 DEF Fair
<1>3. \A v : Expects(w, v, g)' = Expects(w, v, g) /\ Reached(v, g)' = Reached(v, g)
  BY <1>1 DEF Expects, Ready, Met, Reached
<1>4. Ready(w)' = Ready(w) /\ KeptOf(g)' = KeptOf(g)
  BY <1>1 DEF Ready, KeptOf
<1>5. Answers(w, g)
  BY AnswerParts
<1>6. Ready(w) => Fair(w, g, Held(db.rows, g))'
  BY <1>1, <1>2, <1>5 DEF Answers
<1>7. ASSUME NEW v \in Workers, pc[v] \in Writing, Reached(v, g), Expects(w, v, g)
      PROVE  Fair(w, g, KeptOf(g))'
  <2>1. Fair(w, g, KeptOf(g))
    BY <1>5, <1>7 DEF Answers
  <2> QED
    BY <1>1, <1>4, <2>1 DEF Fair
<1> QED
  BY <1>1, <1>3, <1>4, <1>6, <1>7 DEF Answers

\* A walk goes on.  When it reads a file that is being written anew, with the
\* time the published signature has, the new row is the old one.
LEMMA WalkAnswers ==
    ASSUME TypeOK, LockInv, SinceInv, SigInv, WriterInv, AnswerInv,
           NEW x \in Workers, Still, UNCHANGED <<tx, attempt, pc, body, since>>, Alone(x),
           pc[x] \in Walking,
           \A e \in db.sig : Met(x, e)' => Met(x, e) \/ e.stamp = tree[e.file].stamp,
           NEW w \in Workers, NEW g \in Files
    PROVE  Answers(w, g)'
<1>0. db'.rows = db.rows /\ db'.sig = db.sig
  BY DEF Still
<1>1. Answers(w, g)
  BY AnswerParts
<1>2. Ready(w)' = Ready(w) /\ KeptOf(g)' = KeptOf(g)
  BY DEF Ready, KeptOf
<1>3. \A cs : Fair(w, g, cs)' = Fair(w, g, cs)
  BY DEF Fair
<1>4. \A v \in Workers : Reached(v, g)' = Reached(v, g)
  BY DEF Reached, Alone, Unmoved, Walking
<1>5. Ready(w)' => Fair(w, g, Held(db.rows, g))'
  BY <1>0, <1>1, <1>2 DEF Answers, Fair
<1>6. ASSUME NEW v \in Workers, pc[v] \in Writing, Reached(v, g), Expects(w, v, g)'
      PROVE  Fair(w, g, KeptOf(g))
  <2>1. CASE Expects(w, v, g)
    BY <1>1, <1>6, <2>1 DEF Answers
  <2>2. CASE ~Expects(w, v, g)
    <3>1. PICK e \in db.sig : pc[w] = "check" /\ e.file = g /\ Met(w, e)' /\ ~Met(w, e)
      BY <1>0, <1>2, <1>6, <2>2 DEF Expects
    <3>2. w = x
      BY <3>1 DEF Alone, Unmoved, Met
    <3>3. e.stamp = tree[g].stamp
      BY <3>1, <3>2
    <3>4. KeptOf(g) = Shown(e.content)
      BY <1>6, <3>1, <3>3 DEF WriterInv, Writer, WriterKeeps
    <3>5. e.content \in since[w][g]
      BY <3>1, <3>3 DEF SigInv, Current, SinceInv
    <3> QED
      BY <3>4, <3>5 DEF Fair
  <2> QED
    BY <2>1, <2>2
<1>7. ASSUME NEW v \in Workers, pc[v] \in Writing, Reached(v, g), Expects(w, v, g)'
      PROVE  Fair(w, g, KeptOf(g))'
  BY <1>2, <1>6, <1>7 DEF Fair
<1> QED
  BY <1>4, <1>5, <1>7 DEF Answers

\* A command that found the published signature, or that was ready before.
LEMMA PassAnswers ==
    ASSUME TypeOK, SigInv, CheckInv, AnswerInv, Passes, NEW w \in Workers, NEW g \in Files
    PROVE  Answers(w, g)'
<1>0. /\ db'.rows = db.rows /\ db'.sig = db.sig
      /\ UNCHANGED <<tx, attempt>> \/ \A v \in Workers : pc'[v] \notin Writing
      /\ Unmoved(w) \/ Moved(w)
  BY DEF Passes, Still
<1>1. Answers(w, g)
  BY AnswerParts
<1>2. ASSUME NEW v \in Workers, pc'[v] \in Writing
      PROVE  /\ Unmoved(v) /\ pc[v] \in Writing /\ Reached(v, g)' = Reached(v, g)
             /\ KeptOf(g)' = KeptOf(g)
  BY <1>0, <1>2 DEF Passes, Moved, Unmoved, Reached, KeptOf
<1>3. CASE Unmoved(w)
  <2>1. Ready(w)' = Ready(w) /\ \A cs : Fair(w, g, cs)' = Fair(w, g, cs)
    BY <1>3 DEF Unmoved, Ready, Fair
  <2>2. \A v : Expects(w, v, g)' = Expects(w, v, g)
    BY <1>0, <1>3, <2>1 DEF Unmoved, Expects, Met
  <2>3. Ready(w)' => Fair(w, g, Held(db.rows, g))'
    BY <1>0, <1>1, <1>3, <2>1 DEF Answers, Fair, Unmoved
  <2>4. ASSUME NEW v \in Workers, pc'[v] \in Writing, Reached(v, g)', Expects(w, v, g)'
        PROVE  Fair(w, g, KeptOf(g))'
    <3>1. Fair(w, g, KeptOf(g)) /\ KeptOf(g)' = KeptOf(g)
      BY <1>1, <1>2, <2>2, <2>4 DEF Answers
    <3> QED
      BY <1>3, <3>1 DEF Fair, Unmoved
  <2> QED
    BY <2>3, <2>4 DEF Answers
<1>4. CASE Moved(w) /\ ~Unmoved(w)
  <2>1. Ready(w)' => since'[w] = since[w]
    BY <1>4 DEF Moved
  <2>2. ASSUME pc[w] = "check", Walked(w), walk[w].seen = db.sig
        PROVE  \/ Gone \in since[w][g]
               \/ \E e \in db.sig : /\ e.file = g /\ Met(w, e) /\ e.content \in since[w][g]
                                    /\ Held(db.rows, g) = Shown(e.content)
    BY <2>2, NoneAssumption DEF CheckInv, Walked, SigInv, Met
  <2>3. Ready(w)' => Fair(w, g, Held(db.rows, g))
    BY <1>1, <1>4, <2>2 DEF Moved, Answers, Fair
  <2>4. Ready(w)' => Fair(w, g, Held(db.rows, g))'
    BY <1>0, <2>1, <2>3 DEF Fair
  <2>5. ASSUME NEW v \in Workers, pc'[v] \in Writing, Reached(v, g)', Expects(w, v, g)'
        PROVE  Fair(w, g, KeptOf(g))'
    <3>1. v # w /\ pc[v] \in Writing /\ Reached(v, g) /\ KeptOf(g)' = KeptOf(g)
      BY <1>2, <1>4, <2>5
    <3>2. ~(pc'[w] = "check" /\ \E e \in db'.sig : e.file = g /\ Met(w, e)')
      BY <1>4, NoneAssumption DEF Moved, Met, NewWalk, Walking
    <3>3. Ready(w)'
      BY <2>5, <3>1, <3>2 DEF Expects
    <3>4. Fair(w, g, KeptOf(g))
      BY <1>1, <1>4, <2>2, <3>1, <3>3 DEF Moved, Answers, Expects, Fair
    <3> QED
      BY <2>1, <3>1, <3>3, <3>4 DEF Fair
  <2> QED
    BY <2>4, <2>5 DEF Answers
<1> QED
  BY <1>0, <1>3, <1>4

LEMMA WriteAnswers ==
    ASSUME TypeOK, LockInv, SinceInv, WriterInv, AnswerInv, NEW x \in Workers, Writes(x),
           NEW w \in Workers, NEW g \in Files
    PROVE  Answers(w, g)'
<1>0. /\ UNCHANGED <<tree, since, body>> /\ Alone(x)
      /\ pc[x] \in {"pre"} \cup Writing /\ pc'[x] \in Writing \cup {"embed"}
      /\ \A v \in Workers : v # x => pc[v] \notin Writing /\ pc'[v] \notin Writing
  BY WritesStill, WritesMove
<1>1. Answers(w, g)
  BY AnswerParts
<1>2. \A cs : Fair(w, g, cs)' = Fair(w, g, cs)
  BY <1>0 DEF Fair
<1>3. ASSUME pc'[x] # "embed" PROVE Ready(w)' = Ready(w)
  BY <1>0, <1>3 DEF Ready, Alone, Unmoved, Writing
<1>4. SUFFICES ASSUME ~Commit(x), db' = db, pc'[x] \in Writing, Reached(x, g)', Expects(w, x, g)'
               PROVE  Fair(w, g, KeptOf(g)')
  <2>1. CASE Commit(x)
    <3>1. /\ pc[x] = "validate" /\ pc'[x] = "embed" /\ db'.rows = tx.rows
      BY <2>1, CommitWrites
    <3>2. Held(tx.rows, g) = KeptOf(g) /\ Reached(x, g)
      BY <3>1, ValidatedRows DEF Reached
    <3>3. Ready(w)' => Expects(w, x, g)
      BY <1>0, <3>1 DEF Expects, Ready, Alone, Unmoved
    <3>4. Ready(w)' => Fair(w, g, KeptOf(g))
      BY <1>1, <3>1, <3>2, <3>3 DEF Answers, Writing
    <3>5. Ready(w)' => Fair(w, g, Held(db.rows, g))'
      BY <1>0, <3>1, <3>2, <3>4 DEF Fair
    <3>6. \A v \in Workers : pc'[v] \notin Writing
      BY <1>0, <3>1 DEF Writing
    <3> QED
      BY <3>5, <3>6 DEF Answers
  <2>2. CASE ~Commit(x)
    <3>1. db' = db /\ pc'[x] \in Writing
      BY <2>2, BeginWrites, IndexWrites, FinishWrites, CompareWrites, ValidateWrites
      DEF Writes, Writing
    <3>2. Ready(w)' => Fair(w, g, Held(db.rows, g))'
      BY <1>0, <1>1, <1>3, <3>1 DEF Answers, Fair, Writing
    <3>3. Reached(x, g)' /\ Expects(w, x, g)' => Fair(w, g, KeptOf(g))'
      <4>1. Reached(x, g)' /\ Expects(w, x, g)' => Fair(w, g, KeptOf(g)')
        BY <1>4, <2>2, <3>1
      <4> QED
        BY <1>0, <4>1 DEF Fair
    <3> QED
      BY <1>0, <3>2, <3>3 DEF Answers
  <2> QED
    BY <2>1, <2>2
<1>5. Ready(w)' = Ready(w)
  BY <1>3, <1>4 DEF Writing
<1>6. Expects(w, x, g)
  BY <1>0, <1>4, <1>5 DEF Expects, Alone, Unmoved, Met
<1>7. ASSUME pc[x] \in Writing, Reached(x, g), KeptOf(g)' = KeptOf(g)
      PROVE  Fair(w, g, KeptOf(g)')
  BY <1>1, <1>6, <1>7 DEF Answers
<1>8. CASE BeginGeneration(x)
  BY <1>4, <1>8, BeginWrites DEF Reached, NewWalk
<1>9. ASSUME NEW f \in Files, IndexFile(x, f) PROVE Fair(w, g, KeptOf(g)')
  <2>0. /\ UNCHANGED pc /\ pc[x] = "index" /\ walk'[x].todo = walk[x].todo \ {f}
        /\ KeptOf(f)' = Shown(tree[f].content)
        /\ g # f => KeptOf(g)' = KeptOf(g)
    BY <1>9, IndexWrites, IndexKeeps
  <2>1. CASE g = f
    <3>1. pc[w] # "idle"
      BY <1>6, <2>0 DEF Expects, Ready
    <3>2. tree[g].content \in since[w][g]
      BY <3>1 DEF SinceInv
    <3> QED
      BY <2>0, <2>1, <3>2 DEF Fair
  <2>2. CASE g # f
    BY <1>4, <1>7, <2>0, <2>2 DEF Reached, Writing
  <2> QED
    BY <2>1, <2>2
<1>10. CASE FinishIndex(x)
  BY <1>7, <1>10, FinishWrites, FinishKeeps DEF Reached, Writing
<1>11. CASE CompareSignatures(x) /\ walk[x].seen = attempt.pre
  <2>1. UNCHANGED <<tx, attempt>> /\ pc[x] = "post"
    BY <1>11, CompareWrites
  <2> QED
    BY <1>7, <2>1 DEF Reached, Writing, KeptOf
<1>12. ASSUME NEW f \in Files, ValidateFile(x, f), Valid(f) PROVE Fair(w, g, KeptOf(g)')
  <2>1. UNCHANGED <<tx, attempt>> /\ pc[x] = "validate"
    BY <1>12, ValidateWrites
  <2> QED
    BY <1>7, <2>1 DEF Reached, Writing, KeptOf
<1> QED
  BY <1>4, <1>8, <1>9, <1>10, <1>11, <1>12 DEF Writes

LEMMA StepAnswers ==
    ASSUME ~StampReuse, TypeOK, LockInv, StampInv, SinceInv, SigInv, WriterInv, CheckInv,
           AnswerInv, Kind
    PROVE  AnswerInv'
<1> SUFFICES ASSUME NEW v \in Workers, NEW g \in Files PROVE Answers(v, g)'
  BY AnswerWhole
<1>1. ASSUME NEW f \in Files, NEW c \in Contents, NEW s \in 0 .. MaxEdits, Edit(f, c, s)
      PROVE  Answers(v, g)'
  BY <1>1, EditAnswers
<1>2. ASSUME NEW w \in Workers, NEW f \in Files, Visit(w, f) PROVE Answers(v, g)'
  <2>0. /\ Still /\ UNCHANGED <<tx, attempt, pc, body, since>> /\ Alone(w) /\ pc[w] \in Walking
        /\ walk'[w].seen = walk[w].seen
        /\ walk'[w].at = None \/ (walk'[w].at = f /\ walk'[w].stamp = tree[f].stamp)
    BY <1>2, VisitMoves
  <2>1. \A e \in db.sig : Met(w, e)' => Met(w, e) \/ e.stamp = tree[e.file].stamp
    BY <2>0, TypesAt, NoneAssumption DEF Met
  <2> QED
    BY <2>0, <2>1, WalkAnswers
<1>3. ASSUME NEW w \in Workers, HashEntry(w) PROVE Answers(v, g)'
  <2>0. /\ Still /\ UNCHANGED <<tx, attempt, pc, body, since>> /\ Alone(w) /\ pc[w] \in Walking
        /\ walk'[w].at = None /\ walk'[w].seen = walk[w].seen \cup {EntryOf(w)}
    BY <1>3, HashMoves
  <2>1. \A e \in db.sig : Met(w, e)' => Met(w, e)
    BY <2>0, TypesAt, NoneAssumption DEF Met, EntryOf
  <2> QED
    BY <2>0, <2>1, WalkAnswers
<1>4. ASSUME NEW w \in Workers, Writes(w) PROVE Answers(v, g)'
  BY <1>4, WriteAnswers
<1>5. CASE Passes
  BY <1>5, PassAnswers
<1> QED
  BY <1>1, <1>2, <1>3, <1>4, <1>5 DEF Kind

-----------------------------------------------------------------------------
(* Together.                                                                *)
TrackInv ==
    /\ StampInv
    /\ SinceInv
    /\ WalkInv
    /\ SigInv
    /\ WriterInv
    /\ CheckInv
    /\ AnswerInv

LEMMA InitTracked == Init => TrackInv
<1> SUFFICES ASSUME Init PROVE TrackInv
  OBVIOUS
<1>1. \A w \in Workers : pc[w] = "idle" /\ body[w] = "refresh"
  BY DEF Init
<1>2. \A f \in Files : tree[f].stamp = 0 /\ clock = 0 /\ tree[f].content \in Contents
  BY DEF Init
<1>3. SigInv
  <2>1. CASE db = Unindexed
    BY <2>1 DEF Unindexed, SigInv, OnePerFile
  <2>2. ASSUME NEW v \in Versions, db = Indexed(v) PROVE SigInv
    <3>a. db.rows = {[file |-> f, content |-> tree[f].content, ver |-> v] :
                       f \in {h \in Files : tree[h].content \in Indexable}}
      BY <2>2 DEF Indexed
    <3>b. \A r \in db.rows : /\ r.file \in Files /\ r.content = tree[r.file].content
                             /\ tree[r.file].content \in Indexable
      BY <3>a
    <3>c. ASSUME NEW f \in Files, tree[f].content \in Indexable PROVE \E r \in db.rows : r.file = f
      <4> DEFINE r == [file |-> f, content |-> tree[f].content, ver |-> v]
      <4>1. r \in db.rows
        BY <3>a, <3>c
      <4>2. r.file = f
        OBVIOUS
      <4> QED
        BY <4>1, <4>2
    <3>1. /\ \A r \in db.rows : r.content = tree[r.file].content
          /\ \A f \in Files : tree[f].content \in Indexable =>
               \E r \in db.rows : r.file = f
          /\ \A f \in Files : tree[f].content \notin Indexable =>
               \A r \in db.rows : r.file # f
      BY <3>b, <3>c
    <3>2. \A e \in db.sig : e.file \in Files /\ e.stamp = tree[e.file].stamp
                            /\ e.content = tree[e.file].content
      BY <2>2 DEF Indexed
    <3>3. \A f \in Files : Held(db.rows, f) = Shown(tree[f].content)
      BY <3>1 DEF Held, RowsOf, Shown
    <3>4. witness = ContentOf
      BY DEF Init
    <3> QED
      BY <1>2, <3>1, <3>2, <3>3, <3>4 DEF SigInv, OnePerFile, Current, ContentOf
  <2> QED
    BY <2>1, <2>2 DEF Init
<1>4. StampInv
  BY <1>2 DEF StampInv
<1>5. SinceInv /\ WalkInv /\ WriterInv /\ CheckInv
  BY <1>1 DEF SinceInv, WalkInv, WriterInv, CheckInv, Walking, Writing
<1>6. AnswerInv
  BY <1>1 DEF AnswerInv, Ready, Writing
<1> QED
  BY <1>3, <1>4, <1>5, <1>6 DEF TrackInv

LEMMA StepTracked ==
    ASSUME ~StampReuse, TypeOK, LockInv, VersionInv, TrackInv, [Next]_vars PROVE TrackInv'
<1>1. Kind
  BY StepKinds DEF TrackInv
<1> QED
  BY <1>1, StepStamps, StepSince, StepWalks, StepSig, StepWriter, StepCheck, StepAnswers DEF TrackInv

FreshInv == ~StampReuse => TrackInv

LEMMA SpecTracked == Spec => [](TypeOK /\ LockInv /\ VersionInv /\ ViewInv /\ FreshInv)
<1>1. Init => TypeOK /\ LockInv /\ VersionInv /\ ViewInv /\ FreshInv
  BY InitTyped, InitLocks, InitVersions, InitViews, InitTracked DEF FreshInv
<1>2. TypeOK /\ LockInv /\ VersionInv /\ ViewInv /\ FreshInv /\ [Next]_vars
        => (TypeOK /\ LockInv /\ VersionInv /\ ViewInv /\ FreshInv)'
  BY StepTyped, StepLocks, StepVersions, StepViews, StepTracked DEF FreshInv
<1> QED
  BY <1>1, <1>2, PTL DEF Spec

\* The files of a published generation existed together, whatever is edited
\* while the walks, the parsing and the validation read them one by one.
THEOREM Coexisted == Spec => []GenerationCoexisted
<1>1. FreshInv => GenerationCoexisted
  BY DEF FreshInv, TrackInv, SigInv, GenerationCoexisted
<1> QED
  BY <1>1, SpecTracked, PTL

\* A command answers about a file that exists throughout with a content it had
\* meanwhile, whoever refreshes the index, although ensureFresh takes no lock.
THEOREM AnswersFresh == Spec => []PresentAnswerFresh
<1>1. ViewInv /\ FreshInv => PresentAnswerFresh
  <2> SUFFICES ASSUME ViewInv, FreshInv, ~StampReuse, NEW w \in Workers, NEW f \in Files,
                      pc[w] = "done", Gone \notin since[w][f], NEW g \in view[w]
               PROVE  \E c \in since[w][f] : Held(g.rows, f) = Shown(c)
    BY DEF PresentAnswerFresh
  <2>1. g.rows = db.rows
    BY DEF ViewInv, DbGeneration
  <2>2. Fair(w, f, Held(db.rows, f))
    BY DEF FreshInv, TrackInv, AnswerInv, Ready
  <2> QED
    BY <2>1, <2>2 DEF Fair
<1> QED
  BY <1>1, SpecTracked, PTL

-----------------------------------------------------------------------------
(* The refinement: every step publishes, withholds, admits a reader, is a   *)
(* query, ends some readers, or is none of the readers' business.           *)
Reading == {w \in Workers : pc[w] \in {"read", "reread", "done"}}

LEMMA ConsistentNow ==
    ASSUME TypeOK, VersionInv, FreshInv PROVE ConsistentGeneration(DbGeneration)
BY DEF VersionInv, FreshInv, TrackInv, SigInv, ConsistentGeneration, DbGeneration

LEMMA ConsistentNext ==
    ASSUME TypeOK', VersionInv', FreshInv' PROVE ConsistentGeneration(DbGeneration')
BY DEF VersionInv, FreshInv, TrackInv, SigInv, ConsistentGeneration, DbGeneration, Held, RowsOf, Shown

LEMMA PublishedInit == Init => Published!Init
<1> SUFFICES ASSUME Init PROVE Published!Init
  OBVIOUS
<1>1. ConsistentGeneration(DbGeneration)
  BY InitTyped, InitVersions, InitTracked, ConsistentNow DEF FreshInv
<1>2. Reading = {} /\ view = [w \in Workers |-> {}]
  BY DEF Init, Reading
<1> QED
  BY <1>1, <1>2 DEF Published!Init, Reading

\* Nobody reads while the refresh lock is held.
LEMMA NobodyReads ==
    ASSUME LockInv, NEW w \in Workers, pc[w] \in Locked PROVE Reading = {}
BY NoneAssumption DEF LockInv, LockDiscipline, Reading, Guarded

\* The readers' view of a step.
Hidden == UNCHANGED <<DbGeneration, db, Reading, view>>
Left(S) ==
    /\ UNCHANGED db
    /\ Reading' = Reading \ S
    /\ view' = [w \in Workers |-> IF w \in S THEN {} ELSE view[w]]

LEMMA HiddenMaps == Hidden => UNCHANGED Published!vars
BY DEF Hidden, Published!vars, Reading

LEMMA LeftMaps == ASSUME NEW S \in SUBSET Workers, Left(S) PROVE Published!Next
BY DEF Left, Published!Next, Published!Leave, Reading, DbGeneration

\* A worker that moves without becoming or ceasing to be a reader.
LEMMA GoHides ==
    ASSUME TypeOK, NEW w \in Workers, NEW l, Goto(w, l), UNCHANGED <<db, view>>,
           pc[w] \in {"read", "reread", "done"} <=> l \in {"read", "reread", "done"}
    PROVE  Hidden
<1>1. \A v \in Workers : pc'[v] = IF v = w THEN l ELSE pc[v]
  BY DEF TypeOK, Goto
<1>2. Reading' = Reading
  BY <1>1 DEF Reading
<1> QED
  BY <1>2 DEF Hidden, DbGeneration

LEMMA SameHides ==
    ASSUME UNCHANGED <<db, view, pc>> PROVE Hidden
BY DEF Hidden, DbGeneration, Reading

LEMMA ReturnLeaves ==
    ASSUME TypeOK, NEW w \in Workers, Return(w), UNCHANGED db PROVE Left({w})
<1>1. \A v \in Workers : pc'[v] = IF v = w THEN "idle" ELSE pc[v]
  BY DEF TypeOK, Return, Goto
<1>2. Reading' = Reading \ {w}
  BY <1>1 DEF Reading
<1>3. view' = [v \in Workers |-> IF v \in {w} THEN {} ELSE view[v]]
  BY DEF TypeOK, Return
<1> QED
  BY <1>2, <1>3 DEF Left

LEMMA SourcesChangedHides ==
    ASSUME TypeOK, NEW w \in Workers, pc[w] \in Writing, SourcesChanged(w) PROVE Hidden
<1>1. UNCHANGED <<db, view>> /\ \E l \in {"pre", "failed"} : Goto(w, l)
  BY DEF SourcesChanged, cmd
<1> QED
  BY <1>1, GoHides DEF Writing

LEMMA PublishedStep ==
    ASSUME TypeOK, LockInv, [Next]_vars, TypeOK', VersionInv', FreshInv'
    PROVE  [Published!Next]_(Published!vars)
<1>1. ASSUME NEW f \in Files, NEW c \in Contents, NEW s \in 0 .. MaxEdits, Edit(f, c, s) PROVE [Published!Next]_(Published!vars)
  BY <1>1, SameHides, HiddenMaps DEF Edit, env, disk, handles, locks, cmd
<1>2. ASSUME NEW w \in Workers, NEW f \in Files, Visit(w, f) PROVE [Published!Next]_(Published!vars)
  BY <1>2, SameHides, HiddenMaps DEF Visit, env, disk, handles, locks, cmd
<1>3. ASSUME NEW w \in Workers, NEW f \in Files, IndexFile(w, f) PROVE [Published!Next]_(Published!vars)
  BY <1>3, SameHides, HiddenMaps DEF IndexFile, env, disk, handles, locks, cmd
<1>4. ASSUME NEW w \in Workers, NEW f \in Files, ValidateFile(w, f) PROVE [Published!Next]_(Published!vars)
  <2>1. CASE Valid(f)
    BY <1>4, <2>1, SameHides, HiddenMaps DEF ValidateFile, env, disk, handles, locks, cmd
  <2>2. CASE ~Valid(f)
    BY <1>4, <2>2, SourcesChangedHides, HiddenMaps DEF ValidateFile, Writing
  <2> QED
    BY <2>1, <2>2
<1>5. ASSUME NEW w \in Workers, NEW f \in Files, ListedVanished(w, f) PROVE [Published!Next]_(Published!vars)
  BY <1>5, SourcesChangedHides, HiddenMaps DEF ListedVanished, Writing
<1>6. ASSUME NEW w \in Workers, StartCommand(w) PROVE [Published!Next]_(Published!vars)
  <2>1. UNCHANGED <<db, view>> /\ Goto(w, "check")
    BY <1>6 DEF StartCommand, Begin, env, disk, handles, locks, cmd
  <2> QED
    BY <1>6, <2>1, GoHides, HiddenMaps DEF StartCommand, Begin
<1>7. ASSUME NEW w \in Workers, StartRefresh(w) PROVE [Published!Next]_(Published!vars)
  <2>1. UNCHANGED <<db, view>> /\ Goto(w, "gate")
    BY <1>7 DEF StartRefresh, Begin, env, disk, handles, locks, cmd
  <2> QED
    BY <1>7, <2>1, GoHides, HiddenMaps DEF StartRefresh, Begin
<1>8. ASSUME NEW w \in Workers, HashEntry(w) PROVE [Published!Next]_(Published!vars)
  BY <1>8, SameHides, HiddenMaps DEF HashEntry, env, disk, handles, locks, cmd
<1>9. ASSUME NEW w \in Workers, ScanError(w) PROVE [Published!Next]_(Published!vars)
  <2>1. UNCHANGED <<db, view>> /\ Goto(w, IF pc[w] = "check" THEN "gate" ELSE "failed")
    BY <1>9 DEF ScanError, Walking, env, disk, handles, locks, cmd
  <2> QED
    BY <1>9, <2>1, GoHides, HiddenMaps DEF ScanError, Walking
<1>10. ASSUME NEW w \in Workers, ReadSig(w) PROVE [Published!Next]_(Published!vars)
  <2>1. UNCHANGED <<db, view>> /\ Goto(w, IF db.ver # None /\ walk[w].seen = db.sig THEN "version" ELSE "gate")
    BY <1>10 DEF ReadSig, env, disk, handles, locks, cmd
  <2> QED
    BY <1>10, <2>1, GoHides, HiddenMaps DEF ReadSig
<1>11. ASSUME NEW w \in Workers, ReadState(w) PROVE [Published!Next]_(Published!vars)
  <2>1. UNCHANGED <<db, view>> /\ pc[w] = "state" /\ \E l \in {"gate", "rlock"} : Goto(w, l)
    BY <1>11 DEF ReadState, env, disk, handles, locks, cmd
  <2> QED
    BY <2>1, GoHides, HiddenMaps
<1>11a. ASSUME NEW w \in Workers, ReadVersion(w) PROVE [Published!Next]_(Published!vars)
  <2>1. UNCHANGED <<db, view>> /\ pc[w] = "version" /\ \E l \in {"gate", "state"} : Goto(w, l)
    BY <1>11a DEF ReadVersion, env, disk, handles, locks
  <2> QED
    BY <2>1, GoHides, HiddenMaps
<1>12. ASSUME NEW w \in Workers, RejectClosed(w) PROVE [Published!Next]_(Published!vars)
  <2>1. UNCHANGED db /\ Return(w)
    BY <1>12 DEF RejectClosed, env, disk, handles, locks, cmd
  <2> QED
    BY <2>1, ReturnLeaves, LeftMaps
<1>13. ASSUME NEW w \in Workers, TakeGate(w) PROVE [Published!Next]_(Published!vars)
  <2>1. UNCHANGED <<db, view>> /\ Goto(w, "flock")
    BY <1>13 DEF TakeGate, env, disk, handles, locks, cmd
  <2> QED
    BY <1>13, <2>1, GoHides, HiddenMaps DEF TakeGate
<1>14. ASSUME NEW w \in Workers, TakeRefreshLock(w) PROVE [Published!Next]_(Published!vars)
  <2>1. UNCHANGED <<db, view>> /\ Goto(w, IF body[w] = "refresh" THEN "pre" ELSE "embed")
    BY <1>14 DEF TakeRefreshLock, env, disk, handles, locks, cmd
  <2> QED
    BY <1>14, <2>1, GoHides, HiddenMaps DEF TakeRefreshLock
<1>15. ASSUME NEW w \in Workers, Unlock(w) PROVE [Published!Next]_(Published!vars)
  <2>1. UNCHANGED db /\ pc[w] \in {"unlock", "unlockErr"}
    BY <1>15 DEF Unlock, env, disk, handles, locks, cmd
  <2>2. CASE pc[w] = "unlock"
    <3>1. UNCHANGED view /\ Goto(w, "rlock")
      BY <1>15, <2>2 DEF Unlock, env, disk, handles, locks, cmd
    <3> QED
      BY <2>1, <2>2, <3>1, GoHides, HiddenMaps
  <2>3. CASE pc[w] # "unlock"
    <3>1. Return(w)
      BY <1>15, <2>3 DEF Unlock
    <3> QED
      BY <2>1, <3>1, ReturnLeaves, LeftMaps
  <2> QED
    BY <2>2, <2>3
<1>16. ASSUME NEW w \in Workers, BeginGeneration(w) PROVE [Published!Next]_(Published!vars)
  <2>1. UNCHANGED <<db, view>> /\ Goto(w, "index")
    BY <1>16 DEF BeginGeneration, env, disk, handles, locks, cmd
  <2> QED
    BY <1>16, <2>1, GoHides, HiddenMaps DEF BeginGeneration
<1>17. ASSUME NEW w \in Workers, FinishIndex(w) PROVE [Published!Next]_(Published!vars)
  <2>1. UNCHANGED <<db, view>> /\ Goto(w, "post")
    BY <1>17 DEF FinishIndex, env, disk, handles, locks, cmd
  <2> QED
    BY <1>17, <2>1, GoHides, HiddenMaps DEF FinishIndex
<1>18. ASSUME NEW w \in Workers, CompareSignatures(w) PROVE [Published!Next]_(Published!vars)
  <2>1. CASE walk[w].seen = attempt.pre
    <3>1. UNCHANGED <<db, view>> /\ Goto(w, "validate") /\ pc[w] = "post"
      BY <1>18, <2>1 DEF CompareSignatures, env, disk, handles, locks, cmd
    <3> QED
      BY <3>1, GoHides, HiddenMaps
  <2>2. CASE walk[w].seen # attempt.pre
    BY <1>18, <2>2, SourcesChangedHides, HiddenMaps DEF CompareSignatures, Writing
  <2> QED
    BY <2>1, <2>2
<1>19. ASSUME NEW w \in Workers, Commit(w) PROVE [Published!Next]_(Published!vars)
  <2>1. pc[w] = "validate" /\ Goto(w, "embed") /\ view' = view /\ db'.state = "complete"
    BY <1>19 DEF Commit
  <2>2. Reading = {}
    BY <2>1, NobodyReads DEF Locked, Refreshing
  <2>3. Reading' = Reading
    BY <2>1, <2>2 DEF TypeOK, Goto, Reading
  <2>4. ConsistentGeneration(DbGeneration')
    BY ConsistentNext
  <2>5. Published!Publish
    BY <2>1, <2>2, <2>3, <2>4 DEF Published!Publish, Reading
  <2> QED
    BY <2>5 DEF Published!Next
<1>20. ASSUME NEW w \in Workers, EmbedDone(w) PROVE [Published!Next]_(Published!vars)
  <2>1. UNCHANGED <<db, view>> /\ Goto(w, "unlock")
    BY <1>20 DEF EmbedDone, env, disk, handles, locks, cmd
  <2> QED
    BY <1>20, <2>1, GoHides, HiddenMaps DEF EmbedDone
<1>21. ASSUME NEW w \in Workers, MarkIncomplete(w) PROVE [Published!Next]_(Published!vars)
  <2>1. pc[w] = "failed" /\ Goto(w, "unlockErr") /\ view' = view
        /\ db' = [db EXCEPT !.state = "incomplete"]
    BY <1>21 DEF MarkIncomplete, env, disk, handles, locks, cmd
  <2>2. Reading = {}
    BY <2>1, NobodyReads DEF Locked, Refreshing
  <2>3. Reading' = Reading
    BY <2>1, <2>2 DEF TypeOK, Goto, Reading
  <2>4. DbGeneration' = DbGeneration /\ db'.state = "incomplete"
    BY <2>1 DEF DbGeneration, TypeOK
  <2>5. Published!Withhold
    BY <2>1, <2>2, <2>3, <2>4 DEF Published!Withhold, Reading
  <2> QED
    BY <2>5 DEF Published!Next
<1>22. ASSUME NEW w \in Workers, TakeReadGuard(w) PROVE [Published!Next]_(Published!vars)
  <2>1. UNCHANGED <<db, view>> /\ Goto(w, "ready")
    BY <1>22 DEF TakeReadGuard, env, disk, handles, locks, cmd
  <2> QED
    BY <1>22, <2>1, GoHides, HiddenMaps DEF TakeReadGuard
<1>23. ASSUME NEW w \in Workers, RequirePublished(w) PROVE [Published!Next]_(Published!vars)
  <2>1. CASE db.state = "complete" /\ open[Owner[w]]
    <3>1. UNCHANGED <<db, view>> /\ Goto(w, "read") /\ pc[w] = "ready"
      BY <1>23, <2>1 DEF RequirePublished, env, disk, handles, locks, cmd
    <3>2. \A v \in Workers : pc'[v] = IF v = w THEN "read" ELSE pc[v]
      BY <3>1 DEF TypeOK, Goto
    <3>3. Reading' = Reading \cup {w} /\ w \notin Reading
      BY <3>1, <3>2 DEF Reading
    <3>4. DbGeneration' = DbGeneration
      BY <3>1 DEF DbGeneration
    <3>5. Published!Admit(w)
      BY <2>1, <3>1, <3>3, <3>4 DEF Published!Admit, Reading
    <3> QED
      BY <3>5 DEF Published!Next
  <2>2. CASE ~(db.state = "complete" /\ open[Owner[w]])
    <3>1. UNCHANGED db /\ Return(w)
      BY <1>23, <2>2 DEF RequirePublished, ReleaseGuard, env, disk, handles, locks, cmd
    <3> QED
      BY <3>1, ReturnLeaves, LeftMaps
  <2> QED
    BY <2>1, <2>2
<1>24. ASSUME NEW w \in Workers, ReadRows(w) PROVE [Published!Next]_(Published!vars)
  <2>1. /\ UNCHANGED db /\ pc[w] \in {"read", "reread"}
        /\ Goto(w, IF pc[w] = "read" THEN "reread" ELSE "done")
        /\ view' = [view EXCEPT ![w] = view[w] \cup {DbGeneration}]
    BY <1>24 DEF ReadRows, env, disk, handles, locks, cmd
  <2>2. \A v \in Workers : pc'[v] = IF v = w THEN (IF pc[w] = "read" THEN "reread" ELSE "done") ELSE pc[v]
    BY <2>1 DEF TypeOK, Goto
  <2>3. Reading' = Reading /\ w \in Reading /\ DbGeneration' = DbGeneration
    BY <2>1, <2>2 DEF Reading, DbGeneration
  <2>4. Published!Read(w)
    BY <2>1, <2>3 DEF Published!Read, Reading
  <2> QED
    BY <2>4 DEF Published!Next
<1>25. ASSUME NEW w \in Workers, EndRead(w) PROVE [Published!Next]_(Published!vars)
  <2>1. UNCHANGED db /\ Return(w)
    BY <1>25 DEF EndRead, ReleaseGuard, env, disk, handles, locks, cmd
  <2> QED
    BY <2>1, ReturnLeaves, LeftMaps
<1>26. ASSUME NEW w \in Workers, GiveUp(w) PROVE [Published!Next]_(Published!vars)
  <2>1. UNCHANGED db /\ Return(w)
    BY <1>26 DEF GiveUp, env, disk, handles, locks, cmd
  <2> QED
    BY <2>1, ReturnLeaves, LeftMaps
<1>27. ASSUME NEW w \in Workers, RefreshFails(w) PROVE [Published!Next]_(Published!vars)
  <2>1. UNCHANGED <<db, view>> /\ Goto(w, "failed")
    BY <1>27 DEF RefreshFails, env, disk, handles, locks, cmd
  <2> QED
    BY <1>27, <2>1, GoHides, HiddenMaps DEF RefreshFails
<1>28. ASSUME NEW w \in Workers, EmbedCancelled(w) PROVE [Published!Next]_(Published!vars)
  <2>1. UNCHANGED <<db, view>> /\ Goto(w, IF body[w] = "refresh" THEN "failed" ELSE "unlockErr")
    BY <1>28 DEF EmbedCancelled, env, disk, handles, locks, cmd
  <2> QED
    BY <1>28, <2>1, GoHides, HiddenMaps DEF EmbedCancelled
<1>29. ASSUME NEW w \in Workers, MarkFails(w) PROVE [Published!Next]_(Published!vars)
  <2>1. UNCHANGED <<db, view>> /\ Goto(w, "unlockErr")
    BY <1>29 DEF MarkFails, env, disk, handles, locks, cmd
  <2> QED
    BY <1>29, <2>1, GoHides, HiddenMaps DEF MarkFails
<1>30. ASSUME NEW p \in Projects, CloseBegin(p) PROVE [Published!Next]_(Published!vars)
  BY <1>30, SameHides, HiddenMaps DEF CloseBegin, env, disk, handles, locks, cmd
<1>31. ASSUME NEW p \in Projects, CloseStore(p) PROVE [Published!Next]_(Published!vars)
  BY <1>31, SameHides, HiddenMaps DEF CloseStore, env, disk, handles, locks, cmd
<1>32. ASSUME NEW p \in Projects, Crash(p) PROVE [Published!Next]_(Published!vars)
  <2>1. UNCHANGED db
    BY <1>32 DEF Crash
  <2>2. Reading' = Reading \ Mine(p)
    BY <1>32 DEF Crash, Reading, Mine
  <2>3. view' = [w \in Workers |-> IF w \in Mine(p) THEN {} ELSE view[w]]
    BY <1>32 DEF Crash
  <2>4. Left(Mine(p)) /\ Mine(p) \in SUBSET Workers
    BY <2>1, <2>2, <2>3 DEF Left, Mine
  <2> QED
    BY <2>4, LeftMaps
<1>33. ASSUME NEW p \in Projects, Reopen(p) PROVE [Published!Next]_(Published!vars)
  BY <1>33, SameHides, HiddenMaps DEF Reopen, env, disk, handles, locks, cmd
<1>34. CASE UNCHANGED vars
  BY <1>34, SameHides, HiddenMaps DEF vars
<1>35. ASSUME NEW w \in Workers, Progress(w) PROVE [Published!Next]_(Published!vars)
  BY <1>35, <1>2, <1>3, <1>4, <1>8, <1>9, <1>10, <1>11, <1>11a, <1>12, <1>13, <1>14, <1>15, <1>16, <1>17, <1>18, <1>19, <1>20, <1>21, <1>22, <1>23, <1>24, <1>25
  DEF Progress
<1>36. ASSUME NEW w \in Workers, Fault(w) PROVE [Published!Next]_(Published!vars)
  BY <1>36, <1>5, <1>26, <1>27, <1>28, <1>29 DEF Fault
<1>37. CASE Next
  BY <1>35, <1>36, <1>37, <1>1, <1>6, <1>7, <1>30, <1>31, <1>32, <1>33 DEF Next
<1> QED
  BY <1>34, <1>37

\* The index implements PublishedIndex: a consistent generation replaces another
\* as a whole, never under a reader, and is withheld after a failed refresh.
THEOREM Implements == Spec => PublishesAtomically
<1>1. Init => Published!Init
  BY PublishedInit
<1>2. /\ TypeOK /\ LockInv /\ VersionInv /\ ViewInv /\ FreshInv
      /\ (TypeOK /\ LockInv /\ VersionInv /\ ViewInv /\ FreshInv)'
      /\ [Next]_vars
      => [Published!Next]_(Published!vars)
  BY PublishedStep
<1> QED
  BY <1>1, <1>2, SpecTracked, PTL DEF Spec, PublishesAtomically, Published!Spec
=============================================================================
