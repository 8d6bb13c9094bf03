------------------------- MODULE InstallerProofs -------------------------
(* The two installers, for any callers, destinations and bounds, whatever     *)
(* fails, dies, is edited or interleaves.                                     *)
(* Setup is a transaction: every block of Prowl's is recorded or covered by a *)
(* journal, a rollback restores what it covers, and no request is applied     *)
(* twice.                                                                     *)
(* The user-level installer keeps foreign bytes and other clients' records,   *)
(* a manifest it commits is true, and an install that fails leaves no trace   *)
(* but what it reports.                                                       *)
EXTENDS SetupTransaction, UserInstall, WellFoundedInduction, TLAPS

USE DEF history

Begun  == {"open", "apply", "mark", "record", "close", "restore", "undir"}
Locked == {"recover", "check"} \cup Begun

Committed(t)    == [t.old EXCEPT ![t.request.key] = t.request]
Covered(old, p) == \E k \in Keys : old[k] # None /\ p \in old[k].actions

\* What Check makes, and the journal holds: the destinations are some of the
\* selection, the key is new, and a block that was there is recorded.
Sound(t) ==
  /\ t \in Transaction
  /\ t.request.actions \subseteq ToSet(t.request.sel)
  /\ DOMAIN t.snap = t.request.actions
  /\ t.old[t.request.key] = None
  /\ \A p \in DOMAIN t.snap : t.snap[p].block => Covered(t.old, p)

-----------------------------------------------------------------------------
(* What holds of one caller.                                               *)

RequestOf(c) ==
  /\ pc[c] \notin {"idle", "remove"} =>
       req[c] \in Request /\ req[c].actions \subseteq ToSet(req[c].sel)
  /\ pc[c] = "remove" => req[c].sel \in Seq(Paths) /\ at[c] # 0
  /\ pc[c] \in Locked => lock = c
  /\ pc[c] \in Begun => Sound(txn[c])
  /\ pc[c] \in Begun \ {"restore", "undir"} => txn[c].request = req[c]

\* From its first write on, the journal is the caller's transaction, but for
\* the directory made last; before it, there is none.
SameJournal(c) ==
  /\ journal # None
  /\ journal.request = txn[c].request /\ journal.snap = txn[c].snap
  /\ journal.old = txn[c].old
  /\ \A d \in journal.made : d \in txn[c].made \/ d \notin dirs
JournalOf(c) ==
  /\ pc[c] \in {"check", "open"} => journal = None
  /\ pc[c] \in Begun \ {"open"} => SameJournal(c)

\* The recorded requests are the old ones until the commit, and after the
\* rollback; a rollback may also begin from the new ones, when they were
\* recorded by a write that failed.
ReplaysOf(c) ==
  /\ pc[c] \in {"open", "apply", "mark", "record", "undir"} => replays = txn[c].old
  /\ pc[c] = "close" => replays = Committed(txn[c])
  /\ pc[c] = "restore" => replays = txn[c].old \/ txn[c].request \in unsynced

\* A destination holds its old bytes, but for what was changed from outside
\* since; no block came back.
Restored(c, p) ==
  /\ p \notin touched => files[p] = txn[c].snap[p]
  /\ files[p].block => txn[c].snap[p].block
RestoredOf(c) ==
  /\ pc[c] = "restore" =>
       \A i \in DOMAIN txn[c].request.sel :
         i < at[c] /\ txn[c].request.sel[i] \in txn[c].request.actions =>
           Restored(c, txn[c].request.sel[i])
  /\ pc[c] = "undir" => \A p \in txn[c].request.actions : Restored(c, p)

\* From verification to the commit, every destination is as verified.
VerifiedOf(c) ==
  pc[c] = "record" \/ (pc[c] = "mark" /\ Finished(c)) =>
    \A p \in txn[c].request.actions \ touched : Applied(p)

CallerInv(c) ==
  RequestOf(c) /\ JournalOf(c) /\ ReplaysOf(c) /\ RestoredOf(c) /\ VerifiedOf(c)

\* What holds of the disk: a journal is sound, and the requests recorded are
\* its old ones, or those with its own.
JournalInv ==
  journal # None => Sound(journal) /\ replays \in {journal.old, Committed(journal)}
Told ==
  \A c \in Callers :
    answered[c] # None /\ answered[c] \notin unsynced => replays[answered[c].key] = answered[c]
DiskInv == JournalInv /\ EveryBlockAccounted /\ CommittedIsComplete /\ Told

IInv ==
  /\ TypeOK /\ req = [c \in Callers |-> req[c]]
  /\ \A c \in Callers : CallerInv(c)
  /\ DiskInv


-----------------------------------------------------------------------------
(* The destination in hand.                                                *)

\* A set of natural numbers has a least member.
LEMMA Least ==
  ASSUME NEW S \in SUBSET Nat, S # {}
  PROVE  \E i \in S : \A j \in S : i <= j
<1> DEFINE R == {ss \in Nat \X Nat : ss[1] < ss[2]}
<1>1. IsWellFoundedOn(R, Nat)
  BY NatLessThanWellFounded DEF OpToRel
<1> HIDE DEF R
<1>2. PICK i \in S : \A j \in S : ~(<<j, i>> \in R)
  BY <1>1, WFMin
<1>3. ASSUME NEW j \in S PROVE i <= j
  <2>1. i \in Nat /\ j \in Nat /\ ~(<<j, i>> \in R)
    BY <1>2
  <2> QED
    BY <2>1 DEF R
<1> QED
  BY <1>3

LEMMA InHand ==
  ASSUME NEW c \in Callers, Sound(txn[c]), ~Finished(c)
  PROVE  /\ Position(c) \in Left(c) /\ Position(c) \in Nat
         /\ \A i \in Left(c) : Position(c) <= i
         /\ Target(c) \in txn[c].request.actions /\ Target(c) \in Paths
         /\ Target(c) \in DOMAIN txn[c].snap
         /\ txn[c].snap[Target(c)] \in Content
<1> DEFINE t == txn[c]
<1>1. t.request.sel \in Seq(Paths) /\ t.request.actions \subseteq Paths
  BY SetupAssumption DEF Sound, Transaction, Request
<1>2. Left(c) \in SUBSET Nat
  BY <1>1 DEF Left
<1>3. Position(c) \in Left(c) /\ \A i \in Left(c) : Position(c) <= i
  <2>1. Left(c) # {}
    BY DEF Finished
  <2>2. \E i \in Left(c) : \A j \in Left(c) : i <= j
    BY <1>2, <2>1, Least
  <2> QED
    BY <2>2 DEF Position
<1>4. Target(c) \in t.request.actions
  BY <1>3 DEF Left, Target
<1>5. \A p \in DOMAIN t.snap : t.snap[p] \in Content
  BY DEF Sound, Transaction
<1> QED
  BY <1>1, <1>2, <1>3, <1>4, <1>5 DEF Sound

\* The positions before the next one are those before this one, and this one.
LEMMA Passed ==
  ASSUME NEW c \in Callers, Sound(txn[c]), ~Finished(c), at[c] \in Nat,
         NEW i \in DOMAIN txn[c].request.sel, i < Position(c) + 1,
         txn[c].request.sel[i] \in txn[c].request.actions
  PROVE  i < at[c] \/ txn[c].request.sel[i] = Target(c)
<1>1. txn[c].request.sel \in Seq(Paths)
  BY SetupAssumption DEF Sound, Transaction, Request
<1>2. i \in Nat
  BY <1>1
<1>3. CASE i < at[c]
  BY <1>3
<1>4. CASE at[c] <= i
  <2>1. i \in Left(c)
    BY <1>4 DEF Left
  <2>2. Position(c) \in Nat /\ Position(c) <= i
    BY <2>1, InHand
  <2>3. i = Position(c)
    BY <1>2, <2>2
  <2> QED
    BY <2>3 DEF Target
<1> QED
  BY <1>2, <1>3, <1>4

\* Every destination is the one at some position.
LEMMA Placed ==
  ASSUME NEW t, Sound(t), NEW p \in t.request.actions
  PROVE  \E i \in DOMAIN t.request.sel : t.request.sel[i] = p
BY DEF Sound, ToSet

-----------------------------------------------------------------------------
(* A caller moves alone.                                                   *)

CallerStep(c) ==
  \/ Step(c) \/ Crash(c)
  \/ \E sel \in Selections : StartRemoval(c, sel) \/ \E k \in Keys : Review(c, k, sel)

Alone(c) ==
  /\ \A d \in Callers \ {c} :
       /\ pc'[d] = pc[d] /\ txn'[d] = txn[d] /\ at'[d] = at[d]
       /\ req'[d] = req[d] /\ answered'[d] = answered[d]
       /\ lock = d => lock' = d
  /\ req' = [d \in Callers |-> req'[d]]


\* No action of a caller moves another, or takes its lock.
LEMMA StepAlone ==
  ASSUME TypeOK, req = [d \in Callers |-> req[d]], NEW c \in Callers, CallerStep(c)
  PROVE  Alone(c)
<1> USE SetupAssumption DEF TypeOK, Alone, Goto, Continue, Fail, Return
<1>1. CASE PeekJournal(c)
  BY <1>1 DEF PeekJournal
<1>2. CASE Precheck(c)
  BY <1>2 DEF Precheck
<1>3. CASE Lock(c)
  BY <1>3 DEF Lock
<1>4. CASE GiveUp(c)
  BY <1>4 DEF GiveUp
<1>5. CASE Recover(c)
  BY <1>5 DEF Recover
<1>6. CASE Check(c)
  BY <1>6 DEF Check
<1>7. CASE Open(c)
  BY <1>7 DEF Open
<1>8. CASE Mkdir(c)
  BY <1>8 DEF Mkdir
<1>9. CASE Mark(c)
  BY <1>9 DEF Mark
<1>10. CASE Apply(c)
  BY <1>10 DEF Apply
<1>11. CASE Verify(c)
  BY <1>11 DEF Verify
<1>12. CASE Record(c)
  BY <1>12 DEF Record
<1>13. CASE Close(c)
  BY <1>13 DEF Close
<1>14. CASE Restore(c)
  BY <1>14 DEF Restore
<1>15. CASE RestoreReplays(c)
  BY <1>15 DEF RestoreReplays
<1>16. CASE Undir(c)
  BY <1>16 DEF Undir
<1>17. CASE Drop(c)
  BY <1>17 DEF Drop
<1>18. CASE RemoveNext(c)
  BY <1>18 DEF RemoveNext
<1>19. CASE EndRemoval(c)
  BY <1>19 DEF EndRemoval
<1>20. CASE Crash(c)
  BY <1>20 DEF Crash
<1>21. ASSUME NEW sel \in Selections, StartRemoval(c, sel) PROVE Alone(c)
  BY <1>21 DEF StartRemoval
<1>22. ASSUME NEW sel \in Selections, NEW k \in Keys, Review(c, k, sel) PROVE Alone(c)
  BY <1>22 DEF Review
<1> QED
  BY <1>1, <1>2, <1>3, <1>4, <1>5, <1>6, <1>7, <1>8, <1>9, <1>10, <1>11, <1>12, <1>13,
     <1>14, <1>15, <1>16, <1>17, <1>18, <1>19, <1>20, <1>21, <1>22 DEF CallerStep, Step

-----------------------------------------------------------------------------
(* Steps outside the critical section, and deaths: the journal and what is  *)
(* recorded stay, files change only as they are touched, no block comes.    *)

Outside ==
  /\ journal' = journal /\ replays' = replays /\ dirs' = dirs
  /\ touched \subseteq touched' /\ unsynced' = unsynced
  /\ \A p \in Paths : /\ p \notin touched' => files'[p] = files[p]
                      /\ files'[p].block => files[p].block

Stays(d) ==
  /\ pc'[d] = pc[d] /\ txn'[d] = txn[d] /\ at'[d] = at[d]
  /\ req'[d] = req[d] /\ answered'[d] = answered[d]
  /\ lock = d => lock' = d

\* They disturb no other caller.
LEMMA OutsideKeepsCaller ==
  ASSUME NEW d \in Callers, CallerInv(d), Outside, Stays(d)
  PROVE  CallerInv(d)'
<1> USE DEF Outside, Stays
<1>1. RequestOf(d)'
  BY DEF CallerInv, RequestOf
<1>2. JournalOf(d)'
  BY DEF CallerInv, JournalOf, SameJournal
<1>3. ReplaysOf(d)'
  BY DEF CallerInv, ReplaysOf
<1>4. Begun \subseteq Locked /\ \A p \in Paths : Restored(d, p) => Restored(d, p)'
  BY DEF Restored, Locked
<1>5. pc[d] \in Begun => txn[d].request.actions \subseteq Paths
  BY DEF CallerInv, RequestOf, Sound, Transaction, Request
<1>6. RestoredOf(d)'
  BY <1>4, <1>5 DEF CallerInv, RestoredOf, Begun
<1>7. Finished(d)' = Finished(d)
  BY DEF Finished, Left
<1>8. VerifiedOf(d)'
  <2> SUFFICES ASSUME pc[d] = "record" \/ (pc[d] = "mark" /\ Finished(d)),
                      NEW p \in txn[d].request.actions, p \notin touched'
               PROVE  Applied(p)'
    BY <1>7 DEF VerifiedOf
  <2>1. Applied(p) /\ p \in Paths
    BY <1>5 DEF CallerInv, VerifiedOf, Begun
  <2> QED
    BY <2>1 DEF Applied
<1> QED
  BY <1>1, <1>2, <1>3, <1>6, <1>8 DEF CallerInv

\* They leave the disk as sound as it was.
LEMMA OutsideKeepsDisk ==
  ASSUME DiskInv, Outside,
         \A c \in Callers : \/ answered'[c] \in {answered[c], None}
                            \/ replays[answered'[c].key] = answered'[c]
  PROVE  DiskInv'
<1> USE DEF Outside
<1>1. JournalInv'
  BY DEF DiskInv, JournalInv
<1>2. EveryBlockAccounted'
  BY DEF DiskInv, EveryBlockAccounted
<1>3. CommittedIsComplete => CommittedIsComplete'
  <2> SUFFICES ASSUME CommittedIsComplete, journal # None, Recorded,
                      journal.request \notin unsynced, NEW p \in journal.request.actions, p \notin touched'
               PROVE  Applied(p)'
    BY DEF CommittedIsComplete, Recorded
  <2>1. Applied(p) /\ p \in Paths
    BY DEF CommittedIsComplete, DiskInv, JournalInv, Sound, Transaction, Request
  <2> QED
    BY <2>1 DEF Applied
<1>4. Told => Told'
  BY DEF Told
<1> QED
  BY <1>1, <1>2, <1>3, <1>4 DEF DiskInv

\* While a caller is in the critical section, the others are not.
LEMMA OthersUnmoved ==
  ASSUME IInv, NEW c \in Callers, pc[c] \in Locked, Alone(c),
         NEW d \in Callers \ {c}
  PROVE  CallerInv(d)'
<1>1. CallerInv(c) /\ CallerInv(d)
  BY DEF IInv
<1>2. pc[d] \notin Locked
  BY <1>1 DEF CallerInv, RequestOf
<1>3. /\ pc'[d] = pc[d] /\ pc'[d] \notin Locked
      /\ req'[d] = req[d] /\ at'[d] = at[d]
  BY <1>2 DEF Alone
<1>4. RequestOf(d)'
  BY <1>1, <1>3 DEF CallerInv, RequestOf, Locked
<1>5. JournalOf(d)' /\ ReplaysOf(d)' /\ RestoredOf(d)' /\ VerifiedOf(d)'
  BY <1>3 DEF JournalOf, ReplaysOf, RestoredOf, VerifiedOf, Locked, Begun
<1> QED
  BY <1>4, <1>5 DEF CallerInv

\* A caller that stands outside the critical section needs only its request.
LEMMA StandsOutside ==
  ASSUME NEW c \in Callers, pc'[c] \notin Locked,
         pc'[c] \notin {"idle", "remove"} =>
           req'[c] \in Request /\ req'[c].actions \subseteq ToSet(req'[c].sel),
         pc'[c] = "remove" => req'[c].sel \in Seq(Paths) /\ at'[c] # 0
  PROVE  CallerInv(c)'
BY DEF CallerInv, RequestOf, JournalOf, ReplaysOf, RestoredOf, VerifiedOf, Locked, Begun

-----------------------------------------------------------------------------
(* Steps of a caller outside the critical section, or out of it.           *)

LEMMA ReturnKeeps ==
  ASSUME IInv, NEW c \in Callers, NEW r, Return(c, r)
  PROVE  CallerInv(c)'
<1>1. pc'[c] = "idle"
  BY DEF IInv, TypeOK, Return, Goto
<1> QED
  BY <1>1, StandsOutside DEF Locked, Begun

FreeStep(c) ==
  \/ PeekJournal(c) \/ Precheck(c) \/ Lock(c) \/ GiveUp(c) \/ RemoveNext(c) \/ EndRemoval(c)
  \/ Crash(c)
  \/ \E sel \in Selections : StartRemoval(c, sel) \/ \E k \in Keys : Review(c, k, sel)

LEMMA FreeOutside ==
  ASSUME IInv, NEW c \in Callers, FreeStep(c)
  PROVE  Outside
<1> USE DEF IInv, TypeOK, Outside
<1>1. CASE PeekJournal(c) \/ Precheck(c) \/ Lock(c) \/ GiveUp(c) \/ EndRemoval(c)
  BY <1>1 DEF PeekJournal, Precheck, Lock, GiveUp, EndRemoval, disk
<1>2. CASE RemoveNext(c)
  BY <1>2 DEF RemoveNext, Absent, Touch
<1>3. CASE Crash(c)
  BY <1>3 DEF Crash
<1>4. CASE \E sel \in Selections : StartRemoval(c, sel) \/ \E k \in Keys : Review(c, k, sel)
  BY <1>4 DEF StartRemoval, Review, disk
<1> QED
  BY <1>1, <1>2, <1>3, <1>4 DEF FreeStep

LEMMA FreeCaller ==
  ASSUME IInv, NEW c \in Callers, FreeStep(c)
  PROVE  CallerInv(c)'
<1> USE DEF IInv, TypeOK
<1>1. RequestOf(c)
  BY DEF CallerInv
<1>2. CASE PeekJournal(c)
  <2>1. pc'[c] \in {"precheck", "wait"} /\ req'[c] = req[c] /\ pc[c] = "peek"
    BY <1>2 DEF PeekJournal, Goto
  <2> QED
    BY <1>1, <2>1, StandsOutside DEF RequestOf, Locked, Begun
<1>3. CASE Precheck(c)
  <2>1. CASE Continue(c, "wait", 1)
    <3>1. pc'[c] = "wait" /\ req'[c] = req[c] /\ pc[c] = "precheck"
      BY <1>3, <2>1 DEF Precheck, Continue, Goto
    <3> QED
      BY <1>1, <3>1, StandsOutside DEF RequestOf, Locked, Begun
  <2> QED
    BY <1>3, <2>1, ReturnKeeps DEF Precheck, Fail
<1>4. CASE Lock(c)
  <2>1. /\ pc'[c] = "recover" /\ req'[c] = req[c] /\ pc[c] = "wait"
        /\ lock' = c
    BY <1>4 DEF Lock, Goto
  <2>2. RequestOf(c)'
    BY <1>1, <2>1 DEF RequestOf, Locked, Begun
  <2> QED
    BY <2>1, <2>2 DEF CallerInv, JournalOf, ReplaysOf, RestoredOf, VerifiedOf, Begun
<1>5. CASE GiveUp(c) \/ EndRemoval(c) \/ Crash(c)
  BY <1>5, ReturnKeeps DEF GiveUp, EndRemoval, Crash, Fail
<1>6. CASE RemoveNext(c)
  <2>1. CASE Continue(c, "remove", at[c] + 1)
    <3>1. /\ pc'[c] = "remove" /\ req'[c] = req[c] /\ pc[c] = "remove"
          /\ at'[c] = at[c] + 1 /\ at[c] \in Nat
      BY <1>6, <2>1 DEF RemoveNext, Continue, Goto
    <3>2. req'[c].sel \in Seq(Paths) /\ at'[c] # 0
      BY <1>1, <3>1 DEF RequestOf
    <3> QED
      BY <3>1, <3>2, StandsOutside DEF Locked, Begun
  <2> QED
    BY <1>6, <2>1, ReturnKeeps DEF RemoveNext, Fail
<1>7. ASSUME NEW sel \in Selections, StartRemoval(c, sel) PROVE CallerInv(c)'
  <2>1. pc'[c] = "remove" /\ at'[c] = 1
    BY <1>7 DEF StartRemoval, Goto
  <2>2. c \in DOMAIN req
    OBVIOUS
  <2>3. req'[c].sel = sel
    BY <1>7, <2>2 DEF StartRemoval
  <2>4. req'[c].sel \in Seq(Paths) /\ at'[c] # 0
    BY <2>1, <2>3, SetupAssumption
  <2> QED
    BY <2>1, <2>4, StandsOutside DEF Locked, Begun
<1>8. ASSUME NEW sel \in Selections, NEW k \in Keys, Review(c, k, sel) PROVE CallerInv(c)'
  <2>1. pc'[c] = "peek"
    BY <1>8 DEF Review, Goto
  <2>2. req'[c] = [key |-> k, sel |-> sel, actions |-> Actions(sel), version |-> config]
    BY <1>8 DEF Review
  <2>3. sel \in Seq(Paths) /\ Actions(sel) \subseteq ToSet(sel)
    BY SetupAssumption DEF Actions
  <2>4. ToSet(sel) \subseteq Paths
    BY <2>3 DEF ToSet
  <2>5. req'[c] \in Request /\ req'[c].actions \subseteq ToSet(req'[c].sel)
    BY <2>2, <2>3, <2>4 DEF Request
  <2> QED
    BY <2>1, <2>5, StandsOutside DEF Locked, Begun
<1> QED
  BY <1>2, <1>3, <1>4, <1>5, <1>6, <1>7, <1>8 DEF FreeStep

\* Nothing is answered that is not recorded.
LEMMA FreeAnswers ==
  ASSUME IInv, NEW c \in Callers, FreeStep(c), NEW d \in Callers
  PROVE  \/ answered'[d] \in {answered[d], None}
         \/ replays[answered'[d].key] = answered'[d]
<1> USE DEF IInv, TypeOK
<1>1. CASE Precheck(c)
  BY <1>1 DEF Precheck, Return, Fail, Continue, Replayed
<1>2. CASE PeekJournal(c) \/ Lock(c) \/ GiveUp(c) \/ EndRemoval(c) \/ Crash(c) \/ RemoveNext(c)
  BY <1>2 DEF PeekJournal, Lock, GiveUp, EndRemoval, Crash, RemoveNext, Return, Fail, Continue
<1>3. CASE \E sel \in Selections : StartRemoval(c, sel) \/ \E k \in Keys : Review(c, k, sel)
  BY <1>3 DEF StartRemoval, Review
<1> QED
  BY <1>1, <1>2, <1>3 DEF FreeStep

LEMMA AloneStays ==
  ASSUME NEW c \in Callers, Alone(c), NEW d \in Callers \ {c}
  PROVE  Stays(d)
BY DEF Alone, Stays

LEMMA FreeKeeps ==
  ASSUME IInv, NEW c \in Callers, FreeStep(c), Alone(c)
  PROVE  (\A d \in Callers : CallerInv(d)') /\ DiskInv'
<1>1. Outside
  BY FreeOutside
<1>2. ASSUME NEW d \in Callers PROVE CallerInv(d)'
  <2>1. CASE d = c
    BY <2>1, FreeCaller
  <2>2. CASE d # c
    BY <1>1, <2>2, AloneStays, OutsideKeepsCaller DEF IInv
  <2> QED
    BY <2>1, <2>2
<1>3. DiskInv'
  <2>1. \A d \in Callers : \/ answered'[d] \in {answered[d], None}
                           \/ replays[answered'[d].key] = answered'[d]
    BY FreeAnswers
  <2> QED
    BY <1>1, <2>1, OutsideKeepsDisk DEF IInv
<1> QED
  BY <1>2, <1>3

\* What happens around the calls touches the files it changes.
LEMMA AroundKeeps ==
  ASSUME IInv,
         (\E p \in Paths : Edit(p) \/ Delete(p)) \/ (\E d \in Dirs : Clutter(d)) \/ Configure
  PROVE  (\A d \in Callers : CallerInv(d)') /\ DiskInv' /\ UNCHANGED <<lock, caller>>
<1> USE DEF IInv, TypeOK
<1>1. Outside
  <2> USE DEF Outside
  <2>1. ASSUME NEW p \in Paths, Edit(p) PROVE Outside
    <3>1. PICK t \in Texts : files' = [files EXCEPT ![p].text = t]
      BY <2>1 DEF Edit
    <3>2. files'[p].block = files[p].block /\ \A q \in Paths \ {p} : files'[q] = files[q]
      BY <3>1 DEF Content
    <3> QED
      BY <2>1, <3>2 DEF Edit, Touch
  <2>2. ASSUME NEW p \in Paths, Delete(p) PROVE Outside
    BY <2>2 DEF Delete, Absent, Touch
  <2>3. CASE (\E d \in Dirs : Clutter(d)) \/ Configure
    BY <2>3 DEF Clutter, Configure
  <2> QED
    BY <2>1, <2>2, <2>3
<1>2. UNCHANGED <<lock, caller>>
  BY DEF Edit, Delete, Clutter, Configure
<1>3. ASSUME NEW d \in Callers PROVE CallerInv(d)'
  BY <1>1, <1>2, OutsideKeepsCaller DEF Stays, caller
<1>4. DiskInv'
  BY <1>1, <1>2, OutsideKeepsDisk DEF caller
<1> QED
  BY <1>2, <1>3, <1>4

-----------------------------------------------------------------------------
(* Into the critical section, to the first write.                           *)

\* Until the commit nothing is recorded for the journal's request.
LEMMA Unrecorded ==
  ASSUME NEW t, Sound(t), journal.request = t.request, replays = t.old
  PROVE  ~Recorded
BY NoneAssumption DEF Recorded, Sound, Transaction

\* And when it is not, what is recorded is as old.
LEMMA OldRecords ==
  ASSUME JournalInv, journal # None, ~Recorded, replays \in [Keys -> Request \cup {None}]
  PROVE  replays = journal.old
<1>1. /\ Sound(journal) /\ replays \in {journal.old, Committed(journal)}
  BY DEF JournalInv
<1>2. journal.request.key \in Keys /\ journal.old \in [Keys -> Request \cup {None}]
  BY <1>1 DEF Sound, Transaction, Request
<1>3. Committed(journal)[journal.request.key] = journal.request
  BY <1>2 DEF Committed
<1> QED
  BY <1>1, <1>3 DEF Recorded

\* A return leaves the disk to speak for itself, but for what it answers.
LEMMA ReturnTells ==
  ASSUME IInv, NEW c \in Callers, NEW r, Return(c, r), Told,
         r = None \/ replays'[r.key] = r, replays' = replays, unsynced' = unsynced
  PROVE  Told'
<1>1. /\ answered' = [answered EXCEPT ![c] = r] /\ answered \in [Callers -> Request \cup {None}]
  BY DEF IInv, TypeOK, Return
<1> QED
  BY <1>1 DEF Told

LEMMA Answers ==
  ASSUME IInv, NEW c \in Callers, NEW next, NEW i, Continue(c, next, i)
  PROVE  /\ pc'[c] = next /\ at'[c] = i /\ req'[c] = req[c] /\ lock' = lock
         /\ answered' = answered
BY DEF IInv, TypeOK, Continue, Goto

\* The journal goes when its own request is recorded: what it covers is.
LEMMA RecordedCovers ==
  ASSUME IInv, journal # None, Recorded, NEW p \in DOMAIN journal.snap
  PROVE  \E k \in Keys : replays[k] # None /\ p \in replays[k].actions
<1>1. Sound(journal)
  BY DEF IInv, DiskInv, JournalInv
<1>2. journal.request.key \in Keys /\ journal.request # None
  BY <1>1, NoneAssumption DEF Sound, Transaction, Request
<1> QED
  BY <1>1, <1>2 DEF Recorded, Sound

LEMMA StepRecover ==
  ASSUME IInv, NEW c \in Callers, Recover(c)
  PROVE  CallerInv(c)' /\ DiskInv'
<1>0. /\ pc[c] = "recover" /\ RequestOf(c) /\ lock = c
      /\ UNCHANGED <<files, dirs, replays, history>>
  BY DEF Recover, IInv, CallerInv, RequestOf, Locked
<1>1. CASE journal = None /\ Continue(c, "check", 1) /\ UNCHANGED <<txn, journal, events>>
  <2>1. /\ pc'[c] = "check" /\ req'[c] = req[c] /\ lock' = lock /\ answered' = answered
        /\ journal' = None
    BY <1>1, Answers
  <2>2. CallerInv(c)'
    BY <1>0, <2>1 DEF CallerInv, RequestOf, JournalOf, ReplaysOf, RestoredOf, VerifiedOf, Begun
  <2>3. DiskInv'
    BY <1>0, <1>1, <2>1 DEF IInv, DiskInv, JournalInv, EveryBlockAccounted,
       CommittedIsComplete, Told
  <2> QED
    BY <2>2, <2>3
<1>2. ASSUME NEW how \in {"ok", "before"}, journal # None, Recorded,
             journal' = IF how = "before" THEN journal ELSE None,
             IF how = "ok" THEN Continue(c, "check", 1) /\ UNCHANGED txn ELSE Fail(c)
      PROVE  CallerInv(c)' /\ DiskInv'
  <2>1. EveryBlockAccounted'
    BY <1>0, <1>2, RecordedCovers DEF IInv, DiskInv, EveryBlockAccounted
  <2>2. JournalInv' /\ (CommittedIsComplete => CommittedIsComplete')
    BY <1>0, <1>2 DEF IInv, DiskInv, JournalInv, CommittedIsComplete, Recorded, Applied
  <2>3. CASE how = "ok"
    <3>1. /\ pc'[c] = "check" /\ req'[c] = req[c] /\ lock' = lock /\ answered' = answered
          /\ journal' = None
      BY <1>2, <2>3, Answers
    <3>2. CallerInv(c)'
      BY <1>0, <3>1 DEF CallerInv, RequestOf, JournalOf, ReplaysOf, RestoredOf, VerifiedOf,
         Begun
    <3> QED
      BY <1>0, <2>1, <2>2, <3>1, <3>2 DEF IInv, DiskInv, Told
  <2>4. CASE how = "before"
    <3>1. Fail(c)
      BY <1>2, <2>4
    <3> QED
      BY <1>0, <2>1, <2>2, <3>1, ReturnKeeps, ReturnTells DEF IInv, DiskInv, Fail
  <2> QED
    BY <1>2, <2>3, <2>4
<1>3. CASE /\ journal # None /\ ~Recorded
           /\ txn' = [txn EXCEPT ![c] = journal]
           /\ Continue(c, "restore", 1) /\ UNCHANGED <<journal, events>>
  <2>1. /\ pc'[c] = "restore" /\ req'[c] = req[c] /\ lock' = lock /\ answered' = answered
        /\ at'[c] = 1 /\ txn'[c] = journal /\ journal' = journal
    BY <1>3, Answers DEF IInv, TypeOK
  <2>2. Sound(journal) /\ replays = journal.old
    BY <1>3, OldRecords DEF IInv, TypeOK, DiskInv, JournalInv
  <2>3. RequestOf(c)' /\ JournalOf(c)' /\ ReplaysOf(c)' /\ VerifiedOf(c)'
    BY <1>0, <1>3, <2>1, <2>2 DEF RequestOf, JournalOf, SameJournal, ReplaysOf, VerifiedOf,
       Locked, Begun
  <2>4. RestoredOf(c)'
    <3>1. journal.request.sel \in Seq(Paths)
      BY <2>2, SetupAssumption DEF Sound, Transaction, Request
    <3>2. \A i \in DOMAIN journal.request.sel : ~(i < 1)
      BY <3>1
    <3> QED
      BY <2>1, <3>2 DEF RestoredOf
  <2>5. DiskInv'
    BY <1>0, <1>3, <2>1 DEF IInv, DiskInv, JournalInv, EveryBlockAccounted,
       CommittedIsComplete, Recorded, Applied, Told
  <2> QED
    BY <2>3, <2>4, <2>5 DEF CallerInv
<1> QED
  BY <1>1, <1>2, <1>3 DEF Recover

LEMMA StepCheck ==
  ASSUME IInv, NEW c \in Callers, Check(c)
  PROVE  CallerInv(c)' /\ DiskInv'
<1>0. /\ pc[c] = "check" /\ RequestOf(c) /\ lock = c /\ journal = None
      /\ UNCHANGED <<files, dirs, replays, journal, unsynced>>
      /\ req[c] \in Request /\ req[c].actions \subseteq ToSet(req[c].sel)
  BY DEF Check, disk, IInv, CallerInv, RequestOf, JournalOf, Locked
<1>1. CASE ~UNCHANGED history \/ Continue(c, "open", 1)
  <2>1. /\ replays[req[c].key] = None
        /\ txn' = [txn EXCEPT ![c] =
                     [request |-> req[c], snap |-> [p \in req[c].actions |-> files[p]],
                      old |-> replays, made |-> {}]]
        /\ Continue(c, "open", 1)
    BY <1>0, <1>1 DEF Check, Return, Fail, Continue, Goto, IInv, TypeOK
  <2>2. /\ pc'[c] = "open" /\ req'[c] = req[c] /\ lock' = lock /\ answered' = answered
    BY <2>1, Answers
  <2>3. /\ txn'[c].request = req[c] /\ txn'[c].old = replays /\ txn'[c].made = {}
        /\ txn'[c].snap = [p \in req[c].actions |-> files[p]]
        /\ txn'[c] = [request |-> txn'[c].request, snap |-> txn'[c].snap,
                      old |-> txn'[c].old, made |-> txn'[c].made]
    BY <2>1 DEF IInv, TypeOK
  <2>4. txn'[c] \in Transaction
    <3>1. req[c].actions \in SUBSET Paths
      BY <1>0 DEF Request
    <3>2. txn'[c].snap \in [req[c].actions -> Content]
      BY <2>3, <3>1 DEF IInv, TypeOK
    <3>3. txn'[c].snap \in UNION {[P -> Content] : P \in SUBSET Paths}
      BY <3>1, <3>2
    <3> QED
      BY <1>0, <2>3, <3>3 DEF Transaction, IInv, TypeOK
  <2>5. \A p \in DOMAIN txn'[c].snap : txn'[c].snap[p].block => Covered(replays, p)
    <3>1. \A p \in Paths : files[p].block => Covered(replays, p)
      BY <1>0 DEF IInv, DiskInv, EveryBlockAccounted, Covered
    <3> QED
      BY <1>0, <2>3, <3>1 DEF Request
  <2>6. Sound(txn'[c])
    BY <1>0, <2>1, <2>3, <2>4, <2>5 DEF Sound
  <2>7. CallerInv(c)'
    BY <1>0, <2>2, <2>3, <2>6 DEF CallerInv, RequestOf, JournalOf, ReplaysOf, RestoredOf,
       VerifiedOf, Begun
  <2>8. DiskInv'
    BY <1>0, <2>2 DEF IInv, DiskInv, JournalInv, EveryBlockAccounted, CommittedIsComplete,
       Told
  <2> QED
    BY <2>7, <2>8
<1>2. CASE UNCHANGED history /\ ~Continue(c, "open", 1)
  <2>1. \E r \in {None, Replayed(c)} : Return(c, r)
    BY <1>2 DEF Check, Fail
  <2>2. PICK r : Return(c, r) /\ (r = None \/ replays'[r.key] = r)
    BY <1>0, <2>1 DEF Replayed
  <2>3. Told => Told'
    BY <1>0, <2>2, ReturnTells
  <2>4. DiskInv'
    BY <1>0, <2>3 DEF IInv, DiskInv, JournalInv, EveryBlockAccounted, CommittedIsComplete
  <2> QED
    BY <2>2, <2>4, ReturnKeeps
<1> QED
  BY <1>1, <1>2

\* The disk, when only the journal is written: it appears, or its directories
\* change, before the commit.
LEMMA JournalSaved ==
  ASSUME IInv, NEW c \in Callers, Sound(txn[c]), replays = txn[c].old,
         journal # None => SameJournal(c),
         UNCHANGED <<files, replays, history>>, Told => Told',
         journal' \in {journal, txn[c]}
  PROVE  DiskInv'
<1>0. txn[c] # None
  BY NoneAssumption DEF Sound
<1>1. JournalInv'
  BY DEF IInv, DiskInv, JournalInv
<1>2. EveryBlockAccounted'
  BY <1>0 DEF IInv, DiskInv, EveryBlockAccounted, SameJournal
<1>3. CommittedIsComplete'
  <2>1. journal' # None => Sound(txn[c]) /\ journal'.request = txn[c].request
    BY <1>0 DEF SameJournal
  <2>2. journal' # None => ~Recorded'
    BY <2>1, NoneAssumption DEF Recorded, Sound, Transaction
  <2> QED
    BY <2>2 DEF CommittedIsComplete
<1> QED
  BY <1>1, <1>2, <1>3 DEF IInv, DiskInv

LEMMA StepOpen ==
  ASSUME IInv, NEW c \in Callers, Open(c)
  PROVE  CallerInv(c)' /\ DiskInv'
<1>0. /\ pc[c] = "open" /\ RequestOf(c) /\ lock = c /\ journal = None
      /\ UNCHANGED <<files, dirs, replays, txn, history>> \/ Fail(c)
      /\ UNCHANGED <<files, dirs, replays, history>>
      /\ Sound(txn[c]) /\ replays = txn[c].old /\ txn[c].request = req[c]
  BY DEF Open, IInv, CallerInv, RequestOf, JournalOf, ReplaysOf, Locked, Begun
<1>1. PICK how \in Outcomes :
        /\ journal' = IF how = "before" THEN journal ELSE txn[c]
        /\ IF how = "ok" THEN Continue(c, "apply", 1) /\ UNCHANGED txn ELSE Fail(c)
  BY DEF Open
<1>2. CASE how = "ok"
  <2>1. /\ pc'[c] = "apply" /\ req'[c] = req[c] /\ lock' = lock /\ answered' = answered
        /\ txn' = txn /\ journal' = txn[c]
    BY <1>1, <1>2, Answers
  <2>2. CallerInv(c)'
    BY <1>0, <2>1, NoneAssumption DEF CallerInv, RequestOf, JournalOf, SameJournal, ReplaysOf,
       RestoredOf, VerifiedOf, Begun, Sound
  <2>3. DiskInv'
    BY <1>0, <2>1, JournalSaved DEF Told
  <2> QED
    BY <2>2, <2>3
<1>3. CASE how # "ok"
  <2>1. Fail(c)
    BY <1>1, <1>3
  <2>2. Told => Told'
    BY <1>0, <2>1, ReturnTells DEF Fail
  <2>3. DiskInv'
    BY <1>0, <1>1, <2>2, JournalSaved
  <2> QED
    BY <2>1, <2>3, ReturnKeeps DEF Fail
<1> QED
  BY <1>2, <1>3

-----------------------------------------------------------------------------
(* The writes, up to the commit.                                            *)

\* What a caller in the critical section knows.
LEMMA Knows ==
  ASSUME IInv, NEW c \in Callers, pc[c] \in Begun
  PROVE  /\ RequestOf(c) /\ JournalOf(c) /\ ReplaysOf(c) /\ RestoredOf(c) /\ VerifiedOf(c)
         /\ lock = c /\ Sound(txn[c]) /\ at[c] \in Nat
         /\ req[c] \in Request /\ req[c].actions \subseteq ToSet(req[c].sel)
         /\ txn[c].request.actions \subseteq Paths
BY DEF IInv, TypeOK, CallerInv, RequestOf, Locked, Begun, Sound, Transaction, Request

\* A rollback starts at the first destination: nothing is restored yet.
LEMMA RestoreBegins ==
  ASSUME NEW c \in Callers, Sound(txn'[c]), pc'[c] = "restore", at'[c] = 1
  PROVE  RestoredOf(c)'
<1>1. txn'[c].request.sel \in Seq(Paths)
  BY SetupAssumption DEF Sound, Transaction, Request
<1>2. \A i \in DOMAIN txn'[c].request.sel : ~(i < 1)
  BY <1>1
<1> QED
  BY <1>2 DEF RestoredOf

LEMMA StepMkdir ==
  ASSUME IInv, NEW c \in Callers, Mkdir(c)
  PROVE  CallerInv(c)' /\ DiskInv'
<1>0. /\ pc[c] \in {"apply", "record"} /\ ~(pc[c] = "apply" /\ Finished(c))
      /\ UNCHANGED <<files, journal, replays, lock, req, at, answered, history>>
      /\ pc'[c] = "mark"
  BY DEF Mkdir, Goto, IInv, TypeOK
<1>1. /\ RequestOf(c) /\ JournalOf(c) /\ ReplaysOf(c) /\ VerifiedOf(c)
      /\ lock = c /\ Sound(txn[c])
      /\ req[c] \in Request /\ req[c].actions \subseteq ToSet(req[c].sel)
  BY <1>0, Knows DEF Begun
<1>2. PICK d \in Dirs : /\ dirs' = dirs \cup {d}
                        /\ txn' = [txn EXCEPT ![c].made = @ \cup {d}]
  BY DEF Mkdir
<1>3. txn'[c] = [request |-> txn[c].request, snap |-> txn[c].snap,
                 old |-> txn[c].old, made |-> txn[c].made \cup {d}]
  BY <1>1, <1>2 DEF Sound, Transaction, IInv, TypeOK
<1>4. Sound(txn'[c])
  BY <1>1, <1>3 DEF Sound, Transaction
<1>5. Finished(c)' = Finished(c)
  BY <1>0, <1>3 DEF Finished, Left
<1>6. RequestOf(c)' /\ ReplaysOf(c)' /\ RestoredOf(c)'
  BY <1>0, <1>1, <1>3, <1>4 DEF RequestOf, ReplaysOf, RestoredOf, Locked, Begun
<1>7. JournalOf(c)'
  BY <1>0, <1>1, <1>2, <1>3 DEF JournalOf, SameJournal, Begun
<1>8. VerifiedOf(c)'
  BY <1>0, <1>1, <1>3, <1>5 DEF VerifiedOf, Applied
<1>9. DiskInv'
  BY <1>0 DEF IInv, DiskInv, JournalInv, EveryBlockAccounted, CommittedIsComplete,
     Recorded, Applied, Told
<1> QED
  BY <1>6, <1>7, <1>8, <1>9 DEF CallerInv

LEMMA StepMark ==
  ASSUME IInv, NEW c \in Callers, Mark(c)
  PROVE  CallerInv(c)' /\ DiskInv'
<1>0. /\ pc[c] = "mark" /\ UNCHANGED <<files, dirs, replays, history, txn>>
  BY DEF Mark
<1>1. /\ RequestOf(c) /\ SameJournal(c) /\ ReplaysOf(c) /\ VerifiedOf(c)
      /\ lock = c /\ Sound(txn[c]) /\ replays = txn[c].old /\ txn[c].request = req[c]
      /\ req[c] \in Request /\ req[c].actions \subseteq ToSet(req[c].sel)
  BY <1>0, Knows DEF Begun, JournalOf, ReplaysOf, RequestOf
<1>2. PICK how \in Outcomes :
        /\ journal' = IF how = "before" THEN journal ELSE txn[c]
        /\ IF how = "ok" THEN Continue(c, IF Finished(c) THEN "record" ELSE "apply", at[c])
                         ELSE Continue(c, "restore", 1)
  BY DEF Mark
<1>3. /\ req'[c] = req[c] /\ lock' = lock /\ answered' = answered
  BY <1>2 DEF Continue
<1>4. SameJournal(c)'
  BY <1>0, <1>1, <1>2, NoneAssumption DEF SameJournal, Sound
<1>5. DiskInv'
  BY <1>0, <1>1, <1>2, <1>3, JournalSaved DEF Told
<1>6. CASE how = "ok"
  <2>1. /\ pc'[c] = IF Finished(c) THEN "record" ELSE "apply"
        /\ at'[c] = at[c]
    BY <1>2, <1>6 DEF Continue, Goto, IInv, TypeOK
  <2>2. RequestOf(c)' /\ JournalOf(c)' /\ ReplaysOf(c)' /\ RestoredOf(c)'
    BY <1>0, <1>1, <1>3, <1>4, <2>1 DEF RequestOf, JournalOf, ReplaysOf, RestoredOf, Locked,
       Begun
  <2>3. VerifiedOf(c)'
    BY <1>0, <1>1, <2>1 DEF VerifiedOf, Applied
  <2> QED
    BY <1>5, <2>2, <2>3 DEF CallerInv
<1>7. CASE how # "ok"
  <2>1. pc'[c] = "restore" /\ at'[c] = 1
    BY <1>2, <1>7 DEF Continue, Goto, IInv, TypeOK
  <2>2. RequestOf(c)' /\ JournalOf(c)' /\ ReplaysOf(c)' /\ VerifiedOf(c)'
    BY <1>0, <1>1, <1>3, <1>4, <2>1 DEF RequestOf, JournalOf, ReplaysOf, VerifiedOf, Locked,
       Begun
  <2>3. RestoredOf(c)'
    BY <1>0, <1>1, <2>1, RestoreBegins
  <2> QED
    BY <1>5, <2>2, <2>3 DEF CallerInv
<1> QED
  BY <1>6, <1>7

\* The disk, when only a destination of the journal is written.
LEMMA DestinationWritten ==
  ASSUME IInv, NEW c \in Callers, Sound(txn[c]), SameJournal(c),
         NEW p \in txn[c].request.actions,
         \A q \in Paths \ {p} : files'[q] = files[q],
         UNCHANGED <<journal, replays, history>>, Told => Told',
         replays = txn[c].old \/ txn[c].request \in unsynced
  PROVE  DiskInv'
<1>1. JournalInv'
  BY DEF IInv, DiskInv, JournalInv
<1>2. EveryBlockAccounted'
  <2> SUFFICES ASSUME NEW q \in Paths, files'[q].block
               PROVE  \/ \E k \in Keys : replays[k] # None /\ q \in replays[k].actions
                      \/ journal # None /\ q \in DOMAIN journal.snap
    BY DEF EveryBlockAccounted
  <2>1. CASE q = p
    BY <2>1 DEF SameJournal, Sound
  <2>2. CASE q # p
    BY <2>2 DEF IInv, DiskInv, EveryBlockAccounted
  <2> QED
    BY <2>1, <2>2
<1>3. CommittedIsComplete'
  <2>1. CASE txn[c].request \in unsynced
    BY <2>1 DEF CommittedIsComplete, SameJournal
  <2>2. CASE replays = txn[c].old
    <3>1. ~Recorded
      BY <2>2, Unrecorded DEF SameJournal
    <3> QED
      BY <3>1 DEF CommittedIsComplete, Recorded
  <2> QED
    BY <2>1, <2>2
<1> QED
  BY <1>1, <1>2, <1>3 DEF IInv, DiskInv

LEMMA StepApply ==
  ASSUME IInv, NEW c \in Callers, Apply(c)
  PROVE  CallerInv(c)' /\ DiskInv'
<1>0. /\ pc[c] = "apply" /\ ~Finished(c)
      /\ UNCHANGED <<dirs, journal, replays, txn, history>>
  BY DEF Apply
<1>1. /\ RequestOf(c) /\ SameJournal(c) /\ lock = c /\ Sound(txn[c]) /\ at[c] \in Nat
      /\ replays = txn[c].old /\ txn[c].request = req[c]
      /\ req[c] \in Request /\ req[c].actions \subseteq ToSet(req[c].sel)
  BY <1>0, Knows DEF Begun, JournalOf, ReplaysOf, RequestOf
<1>2. Target(c) \in txn[c].request.actions /\ Target(c) \in Paths
  BY <1>0, <1>1, InHand
<1>3. /\ \A q \in Paths \ {Target(c)} : files'[q] = files[q]
      /\ \/ Continue(c, "apply", Position(c) + 1) \/ Continue(c, "restore", 1)
  BY <1>2 DEF Apply, IInv, TypeOK
<1>4. req'[c] = req[c] /\ lock' = lock /\ answered' = answered
  BY <1>3 DEF Continue
<1>5. DiskInv'
  BY <1>0, <1>1, <1>2, <1>3, <1>4, DestinationWritten DEF Told
<1>6. SameJournal(c)'
  BY <1>0, <1>1 DEF SameJournal
<1>7. pc'[c] = "apply" \/ (pc'[c] = "restore" /\ at'[c] = 1)
  BY <1>3 DEF Continue, Goto, IInv, TypeOK
<1>8. RequestOf(c)' /\ JournalOf(c)' /\ ReplaysOf(c)' /\ VerifiedOf(c)'
  BY <1>0, <1>1, <1>4, <1>6, <1>7 DEF RequestOf, JournalOf, ReplaysOf, VerifiedOf, Locked,
     Begun
<1>9. RestoredOf(c)'
  BY <1>0, <1>1, <1>7, RestoreBegins DEF RestoredOf
<1> QED
  BY <1>5, <1>8, <1>9 DEF CallerInv

LEMMA StepVerify ==
  ASSUME IInv, NEW c \in Callers, Verify(c)
  PROVE  CallerInv(c)' /\ DiskInv'
<1>0. /\ pc[c] = "apply"
      /\ UNCHANGED <<files, dirs, journal, replays, txn, history>>
  BY DEF Verify, disk
<1>1. /\ RequestOf(c) /\ SameJournal(c) /\ lock = c /\ Sound(txn[c])
      /\ replays = txn[c].old /\ txn[c].request = req[c]
      /\ req[c] \in Request /\ req[c].actions \subseteq ToSet(req[c].sel)
  BY <1>0, Knows DEF Begun, JournalOf, ReplaysOf, RequestOf
<1>2. \/ Continue(c, "record", at[c]) /\ \A p \in txn[c].request.actions : Applied(p)
      \/ Continue(c, "restore", 1)
  BY DEF Verify
<1>3. req'[c] = req[c] /\ lock' = lock /\ answered' = answered
  BY <1>2 DEF Continue
<1>4. \/ pc'[c] = "record" /\ \A p \in txn[c].request.actions : Applied(p)
      \/ pc'[c] = "restore" /\ at'[c] = 1
  BY <1>2 DEF Continue, Goto, IInv, TypeOK
<1>5. SameJournal(c)'
  BY <1>0, <1>1 DEF SameJournal
<1>6. RequestOf(c)' /\ JournalOf(c)' /\ ReplaysOf(c)'
  BY <1>0, <1>1, <1>3, <1>4, <1>5 DEF RequestOf, JournalOf, ReplaysOf, Locked, Begun
<1>7. VerifiedOf(c)'
  BY <1>0, <1>4 DEF VerifiedOf, Applied
<1>8. RestoredOf(c)'
  BY <1>0, <1>1, <1>4, RestoreBegins DEF RestoredOf
<1>9. DiskInv'
  BY <1>0, <1>3 DEF IInv, DiskInv, JournalInv, EveryBlockAccounted, CommittedIsComplete,
     Recorded, Applied, Told
<1> QED
  BY <1>6, <1>7, <1>8, <1>9 DEF CallerInv

\* The commit.  What was recorded stays recorded: the key was new.
LEMMA Commits ==
  ASSUME NEW t, Sound(t), replays = t.old, replays' = Committed(t)
  PROVE  /\ \A k \in Keys : replays[k] # None => replays'[k] = replays[k]
         /\ replays'[t.request.key] = t.request
BY DEF Sound, Transaction, Request, Committed

LEMMA StepRecord ==
  ASSUME IInv, NEW c \in Callers, Record(c)
  PROVE  CallerInv(c)' /\ DiskInv'
<1>0. /\ pc[c] = "record" /\ UNCHANGED <<files, dirs, journal, txn, touched>>
  BY DEF Record
<1>1. /\ RequestOf(c) /\ SameJournal(c) /\ VerifiedOf(c) /\ lock = c /\ Sound(txn[c])
      /\ replays = txn[c].old /\ txn[c].request = req[c]
      /\ req[c] \in Request /\ req[c].actions \subseteq ToSet(req[c].sel)
  BY <1>0, Knows DEF Begun, JournalOf, ReplaysOf, RequestOf
<1>2. PICK how \in Outcomes :
        /\ replays' = IF how = "before" THEN replays
                      ELSE [txn[c].old EXCEPT ![req[c].key] = req[c]]
        /\ unsynced' = CASE how = "ok"     -> unsynced \ {req[c]}
                         [] how = "before" -> unsynced
                         [] how = "after"  -> unsynced \cup {req[c]}
        /\ IF how = "ok" THEN Continue(c, "close", 1) ELSE Continue(c, "restore", 1)
  BY DEF Record
<1>3. req'[c] = req[c] /\ lock' = lock /\ answered' = answered
  BY <1>2 DEF Continue
<1>4. /\ how = "before" => replays' = replays
      /\ how # "before" => replays' = Committed(txn[c])
      /\ how = "before" => unsynced' = unsynced
      /\ how = "after" => unsynced' = unsynced \cup {txn[c].request}
      /\ unsynced \ {txn[c].request} \subseteq unsynced'
  BY <1>1, <1>2 DEF Committed, Outcomes
<1>5. \/ how = "ok" /\ pc'[c] = "close"
      \/ how \in {"before", "after"} /\ pc'[c] = "restore" /\ at'[c] = 1
  BY <1>2 DEF Continue, Goto, IInv, TypeOK, Outcomes
<1>6. SameJournal(c)'
  BY <1>0, <1>1 DEF SameJournal
<1>7. RequestOf(c)' /\ JournalOf(c)' /\ ReplaysOf(c)' /\ VerifiedOf(c)'
  BY <1>0, <1>1, <1>3, <1>4, <1>5, <1>6 DEF RequestOf, JournalOf, ReplaysOf, VerifiedOf,
     Locked, Begun
<1>8. RestoredOf(c)'
  BY <1>0, <1>1, <1>5, RestoreBegins DEF RestoredOf
<1>9. DiskInv'
  <2>1. CASE how = "before"
    BY <1>0, <1>3, <1>4, <2>1 DEF IInv, DiskInv, JournalInv, EveryBlockAccounted,
       CommittedIsComplete, Recorded, Applied, Told
  <2>2. CASE how # "before"
    <3>1. /\ \A k \in Keys : replays[k] # None => replays'[k] = replays[k]
          /\ replays' = Committed(txn[c])
      BY <1>1, <1>4, <2>2, Commits
    <3>2. JournalInv'
      BY <1>0, <1>1, <3>1 DEF IInv, DiskInv, JournalInv, SameJournal, Committed
    <3>3. EveryBlockAccounted'
      BY <1>0, <3>1 DEF IInv, DiskInv, EveryBlockAccounted
    <3>4. CommittedIsComplete'
      BY <1>0, <1>1 DEF CommittedIsComplete, VerifiedOf, Applied, SameJournal
    <3>5. Told => Told'
      <4>1. ASSUME Told, NEW d \in Callers, answered[d] # None, answered[d] \notin unsynced'
            PROVE  replays'[answered[d].key] = answered[d]
        <5>1. CASE answered[d] = txn[c].request
          BY <1>1, <1>4, <2>2, <5>1, Commits
        <5>2. CASE answered[d] # txn[c].request
          <6>1. answered[d] \in Request /\ replays[answered[d].key] = answered[d]
            BY <1>4, <4>1, <5>2 DEF Told, IInv, TypeOK
          <6> QED
            BY <3>1, <4>1, <6>1 DEF Request
        <5> QED
          BY <5>1, <5>2
      <4> QED
        BY <1>3, <4>1 DEF Told
    <3> QED
      BY <3>2, <3>3, <3>4, <3>5 DEF IInv, DiskInv
  <2> QED
    BY <2>1, <2>2
<1> QED
  BY <1>7, <1>8, <1>9 DEF CallerInv

LEMMA StepClose ==
  ASSUME IInv, NEW c \in Callers, Close(c)
  PROVE  CallerInv(c)' /\ DiskInv'
<1>0. /\ pc[c] = "close" /\ UNCHANGED <<files, dirs, replays, history>>
  BY DEF Close
<1>1. /\ SameJournal(c) /\ lock = c /\ Sound(txn[c]) /\ replays = Committed(txn[c])
      /\ txn[c].request = req[c] /\ req[c] \in Request
  BY <1>0, Knows DEF Begun, JournalOf, ReplaysOf, RequestOf
<1>2. PICK how \in {"ok", "before"} :
        /\ journal' = IF how = "before" THEN journal ELSE None
        /\ Return(c, IF how = "ok" THEN req[c] ELSE None)
  BY DEF Close
<1>3. replays[req[c].key] = req[c]
  BY <1>1 DEF Committed, Sound, Transaction, Request
<1>4. Recorded /\ journal # None
  BY <1>1, <1>3 DEF Recorded, SameJournal
<1>5. EveryBlockAccounted'
  BY <1>0, <1>2, <1>4, RecordedCovers DEF IInv, DiskInv, EveryBlockAccounted
<1>6. JournalInv' /\ (CommittedIsComplete => CommittedIsComplete')
  BY <1>0, <1>2 DEF IInv, DiskInv, JournalInv, CommittedIsComplete, Recorded, Applied
<1>7. Told => Told'
  BY <1>0, <1>2, <1>3, ReturnTells
<1> QED
  BY <1>2, <1>5, <1>6, <1>7, ReturnKeeps DEF IInv, DiskInv

-----------------------------------------------------------------------------
(* The rollback.                                                            *)

LEMMA StepRestore ==
  ASSUME IInv, NEW c \in Callers, Restore(c)
  PROVE  CallerInv(c)' /\ DiskInv'
<1>0. /\ pc[c] = "restore" /\ ~Finished(c)
      /\ UNCHANGED <<dirs, journal, replays, history>>
  BY DEF Restore
<1>1. /\ RequestOf(c) /\ SameJournal(c) /\ ReplaysOf(c) /\ RestoredOf(c)
      /\ lock = c /\ Sound(txn[c]) /\ at[c] \in Nat
      /\ replays = txn[c].old \/ txn[c].request \in unsynced
      /\ req[c] \in Request /\ req[c].actions \subseteq ToSet(req[c].sel)
  BY <1>0, Knows DEF Begun, JournalOf, ReplaysOf
<1>2. /\ Target(c) \in txn[c].request.actions /\ Target(c) \in Paths
      /\ Position(c) \in Nat
  BY <1>0, <1>1, InHand
<1>3. PICK how \in Outcomes :
        /\ files' = IF how = "before" THEN files
                    ELSE [files EXCEPT ![Target(c)] = txn[c].snap[Target(c)]]
        /\ IF how = "ok" THEN Continue(c, "restore", Position(c) + 1) /\ UNCHANGED txn
                         ELSE Fail(c)
  BY DEF Restore
<1>4. \A q \in Paths \ {Target(c)} : files'[q] = files[q]
  BY <1>2, <1>3 DEF IInv, TypeOK
<1>5. Told => Told'
  <2>1. CASE Fail(c)
    BY <1>0, <2>1, ReturnTells DEF Fail
  <2>2. CASE ~Fail(c)
    BY <1>0, <1>3, <2>2 DEF Continue, Told
  <2> QED
    BY <2>1, <2>2
<1>6. DiskInv'
  BY <1>0, <1>1, <1>2, <1>4, <1>5, DestinationWritten
<1>7. CASE how = "ok"
  <2>1. /\ pc'[c] = "restore" /\ at'[c] = Position(c) + 1 /\ req'[c] = req[c]
        /\ lock' = lock /\ txn' = txn
        /\ files' = [files EXCEPT ![Target(c)] = txn[c].snap[Target(c)]]
    BY <1>3, <1>7 DEF Continue, Goto, IInv, TypeOK
  <2>2. SameJournal(c)'
    BY <1>0, <1>1, <2>1 DEF SameJournal
  <2>3. RequestOf(c)' /\ JournalOf(c)' /\ ReplaysOf(c)' /\ VerifiedOf(c)'
    BY <1>0, <1>1, <2>1, <2>2 DEF RequestOf, JournalOf, ReplaysOf, VerifiedOf, Locked, Begun
  <2>4. RestoredOf(c)'
    <3> SUFFICES ASSUME NEW i \in DOMAIN txn[c].request.sel, i < Position(c) + 1,
                        txn[c].request.sel[i] \in txn[c].request.actions
                 PROVE  Restored(c, txn[c].request.sel[i])'
      BY <2>1 DEF RestoredOf
    <3> DEFINE p == txn[c].request.sel[i]
    <3>1. CASE p = Target(c)
      <4>1. files'[p] = txn[c].snap[p]
        BY <1>2, <2>1, <3>1 DEF IInv, TypeOK
      <4> QED
        BY <2>1, <4>1 DEF Restored
    <3>2. CASE p # Target(c)
      <4>1. i < at[c]
        BY <1>0, <1>1, <3>2, Passed
      <4>2. Restored(c, p)
        BY <1>0, <1>1, <4>1 DEF RestoredOf
      <4>3. p \in Paths
        BY <1>1 DEF Sound, Transaction, Request
      <4> QED
        BY <1>0, <1>4, <2>1, <3>2, <4>2, <4>3 DEF Restored
    <3> QED
      BY <3>1, <3>2
  <2> QED
    BY <1>6, <2>3, <2>4 DEF CallerInv
<1>8. CASE how # "ok"
  BY <1>3, <1>6, <1>8, ReturnKeeps DEF Fail
<1> QED
  BY <1>7, <1>8

\* When the last destination has its turn, all are restored.
LEMMA AllRestored ==
  ASSUME NEW c \in Callers, pc[c] = "restore", Finished(c), Sound(txn[c]), at[c] \in Nat,
         RestoredOf(c), NEW p \in txn[c].request.actions
  PROVE  Restored(c, p)
<1>1. PICK i \in DOMAIN txn[c].request.sel : txn[c].request.sel[i] = p
  BY Placed
<1>2. txn[c].request.sel \in Seq(Paths)
  BY SetupAssumption DEF Sound, Transaction, Request
<1>3. i \notin Left(c) /\ i \in Nat
  BY <1>2 DEF Finished
<1>4. i < at[c]
  BY <1>1, <1>3 DEF Left
<1> QED
  BY <1>1, <1>4 DEF RestoredOf

\* Restored files and old records: every block is one of the old records, or
\* outside of the transaction.
LEMMA RestoredCovers ==
  ASSUME IInv, NEW c \in Callers, SameJournal(c), Sound(txn[c]),
         \A p \in txn[c].request.actions : Restored(c, p),
         NEW p \in Paths, files[p].block
  PROVE  Covered(txn[c].old, p)
<1>1. /\ DOMAIN journal.snap = txn[c].request.actions
      /\ replays \in {txn[c].old, Committed(txn[c])}
  BY DEF SameJournal, Sound, IInv, DiskInv, JournalInv, Committed
<1>2. CASE p \in txn[c].request.actions
  BY <1>2 DEF Restored, Sound
<1>3. CASE p \notin txn[c].request.actions
  <2>1. PICK k \in Keys : replays[k] # None /\ p \in replays[k].actions
    BY <1>1, <1>3 DEF IInv, DiskInv, EveryBlockAccounted
  <2>2. replays[k] = txn[c].old[k]
    BY <1>1, <1>3, <2>1 DEF Sound, Transaction, Request, Committed
  <2> QED
    BY <2>1, <2>2 DEF Covered
<1> QED
  BY <1>2, <1>3

LEMMA StepRestoreReplays ==
  ASSUME IInv, NEW c \in Callers, RestoreReplays(c)
  PROVE  CallerInv(c)' /\ DiskInv'
<1>0. /\ pc[c] = "restore" /\ Finished(c)
      /\ UNCHANGED <<files, dirs, journal, history>>
  BY DEF RestoreReplays
<1>1. /\ RequestOf(c) /\ SameJournal(c) /\ RestoredOf(c)
      /\ lock = c /\ Sound(txn[c]) /\ at[c] \in Nat
      /\ replays = txn[c].old \/ txn[c].request \in unsynced
      /\ req[c] \in Request /\ req[c].actions \subseteq ToSet(req[c].sel)
  BY <1>0, Knows DEF Begun, JournalOf, ReplaysOf
<1>2. \A p \in txn[c].request.actions : Restored(c, p)
  BY <1>0, <1>1, AllRestored
<1>3. PICK how \in Outcomes :
        /\ replays' = IF how = "before" THEN replays ELSE txn[c].old
        /\ IF how = "ok" THEN Continue(c, "undir", at[c]) /\ UNCHANGED txn ELSE Fail(c)
  BY DEF RestoreReplays
<1>4. JournalInv'
  BY <1>0, <1>1, <1>3 DEF IInv, DiskInv, JournalInv, SameJournal
<1>5. EveryBlockAccounted'
  BY <1>0, <1>1, <1>2, <1>3, RestoredCovers DEF IInv, DiskInv, EveryBlockAccounted, Covered
<1>6. \/ replays' = replays
      \/ txn[c].request \in unsynced /\ replays = Committed(txn[c]) /\ replays' = txn[c].old
  BY <1>1, <1>3 DEF IInv, DiskInv, JournalInv, SameJournal, Committed
<1>7. CommittedIsComplete'
  <2>1. CASE replays' = replays
    BY <1>0, <2>1 DEF IInv, DiskInv, CommittedIsComplete, Recorded, Applied
  <2>2. CASE txn[c].request \in unsynced
    BY <1>0, <1>1, <2>2 DEF CommittedIsComplete, SameJournal
  <2> QED
    BY <1>6, <2>1, <2>2
<1>8. Told'
  <2> SUFFICES ASSUME NEW d \in Callers, answered'[d] # None, answered'[d] \notin unsynced
               PROVE  replays'[answered'[d].key] = answered'[d]
    BY <1>0 DEF Told
  <2>1. answered'[d] = answered[d] /\ answered[d] \in Request
    BY <1>3 DEF Fail, Return, Continue, IInv, TypeOK
  <2>2. replays[answered[d].key] = answered[d]
    BY <2>1 DEF IInv, DiskInv, Told
  <2>3. CASE txn[c].request \in unsynced /\ replays = Committed(txn[c]) /\ replays' = txn[c].old
    BY <1>1, <2>1, <2>2, <2>3 DEF Committed, Sound, Transaction, Request
  <2> QED
    BY <1>6, <2>1, <2>2, <2>3
<1>9. DiskInv'
  BY <1>4, <1>5, <1>7, <1>8 DEF IInv, DiskInv
<1>10. CASE how = "ok"
  <2>1. /\ pc'[c] = "undir" /\ req'[c] = req[c] /\ lock' = lock /\ txn' = txn
        /\ replays' = txn[c].old
    BY <1>3, <1>10 DEF Continue, Goto, IInv, TypeOK
  <2>2. SameJournal(c)'
    BY <1>0, <1>1, <2>1 DEF SameJournal
  <2>3. RequestOf(c)' /\ JournalOf(c)' /\ ReplaysOf(c)' /\ VerifiedOf(c)'
    BY <1>1, <2>1, <2>2 DEF RequestOf, JournalOf, ReplaysOf, VerifiedOf, Locked, Begun
  <2>4. RestoredOf(c)'
    BY <1>0, <1>2, <2>1 DEF RestoredOf, Restored
  <2> QED
    BY <1>9, <2>3, <2>4 DEF CallerInv
<1>11. CASE how # "ok"
  BY <1>3, <1>9, <1>11, ReturnKeeps DEF Fail
<1> QED
  BY <1>10, <1>11

LEMMA StepUndir ==
  ASSUME IInv, NEW c \in Callers, Undir(c)
  PROVE  CallerInv(c)' /\ DiskInv'
<1>0. pc[c] = "undir" /\ UNCHANGED <<files, journal, replays, history>>
  BY DEF Undir
<1>1. /\ RequestOf(c) /\ SameJournal(c) /\ RestoredOf(c)
      /\ lock = c /\ Sound(txn[c]) /\ replays = txn[c].old
      /\ req[c] \in Request /\ req[c].actions \subseteq ToSet(req[c].sel)
  BY <1>0, Knows DEF Begun, JournalOf, ReplaysOf
<1>2. \/ Fail(c)
      \/ \E d \in Dirs : /\ dirs' = dirs \ {d}
                         /\ txn' = [txn EXCEPT ![c].made = @ \ {d}]
                         /\ Continue(c, "undir", at[c])
  BY DEF Undir
<1>3. Told => Told'
  <2>1. CASE Fail(c)
    BY <1>0, <2>1, ReturnTells DEF Fail
  <2>2. CASE ~Fail(c)
    BY <1>0, <1>2, <2>2 DEF Continue, Told
  <2> QED
    BY <2>1, <2>2
<1>4. DiskInv'
  BY <1>0, <1>3 DEF IInv, DiskInv, JournalInv, EveryBlockAccounted, CommittedIsComplete,
     Recorded, Applied
<1>5. CASE Fail(c)
  BY <1>4, <1>5, ReturnKeeps DEF Fail
<1>6. ASSUME NEW d \in Dirs, dirs' = dirs \ {d},
             txn' = [txn EXCEPT ![c].made = @ \ {d}], Continue(c, "undir", at[c])
      PROVE  CallerInv(c)'
  <2>1. /\ pc'[c] = "undir" /\ req'[c] = req[c] /\ lock' = lock
    BY <1>6, Answers
  <2>2. txn'[c] = [request |-> txn[c].request, snap |-> txn[c].snap,
                   old |-> txn[c].old, made |-> txn[c].made \ {d}]
    BY <1>1, <1>6 DEF Sound, Transaction, IInv, TypeOK
  <2>3. Sound(txn'[c])
    BY <1>1, <2>2 DEF Sound, Transaction
  <2>4. SameJournal(c)'
    BY <1>0, <1>1, <1>6, <2>2 DEF SameJournal
  <2>5. RequestOf(c)' /\ JournalOf(c)' /\ ReplaysOf(c)' /\ VerifiedOf(c)'
    BY <1>0, <1>1, <2>1, <2>2, <2>3, <2>4 DEF RequestOf, JournalOf, ReplaysOf, VerifiedOf,
       Locked, Begun
  <2>6. RestoredOf(c)'
    BY <1>0, <1>1, <2>1, <2>2 DEF RestoredOf, Restored
  <2> QED
    BY <2>5, <2>6 DEF CallerInv
<1> QED
  BY <1>2, <1>4, <1>5, <1>6

LEMMA StepDrop ==
  ASSUME IInv, NEW c \in Callers, Drop(c)
  PROVE  CallerInv(c)' /\ DiskInv'
<1>0. pc[c] = "undir" /\ Fail(c) /\ UNCHANGED <<files, dirs, replays, history>>
  BY DEF Drop
<1>1. SameJournal(c) /\ RestoredOf(c) /\ Sound(txn[c]) /\ replays = txn[c].old
  BY <1>0, Knows DEF Begun, JournalOf, ReplaysOf
<1>2. PICK how \in {"ok", "before"} : journal' = IF how = "before" THEN journal ELSE None
  BY DEF Drop
<1>3. JournalInv' /\ (CommittedIsComplete => CommittedIsComplete')
  BY <1>0, <1>2 DEF IInv, DiskInv, JournalInv, CommittedIsComplete, Recorded, Applied
<1>4. EveryBlockAccounted'
  <2>1. \A p \in Paths : files[p].block => Covered(txn[c].old, p)
    BY <1>0, <1>1, RestoredCovers DEF RestoredOf
  <2> QED
    BY <1>0, <1>1, <2>1 DEF EveryBlockAccounted, Covered
<1>5. Told => Told'
  BY <1>0, ReturnTells DEF Fail
<1> QED
  BY <1>0, <1>3, <1>4, <1>5, ReturnKeeps DEF IInv, DiskInv, Fail

-----------------------------------------------------------------------------
(* Types.                                                                   *)

LEMMA TypedReturn ==
  ASSUME TypeOK, NEW c \in Callers, NEW r \in Request \cup {None}, Return(c, r)
  PROVE  /\ pc' \in [Callers -> Stages] /\ lock' \in Callers \cup {None}
         /\ txn' \in [Callers -> Transaction \cup {None}] /\ at' \in [Callers -> Nat]
         /\ answered' \in [Callers -> Request \cup {None}]
BY DEF TypeOK, Return, Goto, Stages

LEMMA TypedContinue ==
  ASSUME TypeOK, NEW c \in Callers, NEW next \in Stages, NEW i \in Nat,
         Continue(c, next, i)
  PROVE  /\ pc' \in [Callers -> Stages] /\ lock' \in Callers \cup {None}
         /\ at' \in [Callers -> Nat] /\ answered' \in [Callers -> Request \cup {None}]
BY DEF TypeOK, Continue, Goto

LEMMA TypedEvents ==
  ASSUME TypeOK, NEW how, Event \/ Tried(how) \/ UNCHANGED events
  PROVE  events' \in Nat
BY DEF TypeOK, Event, Tried

LEMMA MergedTyped ==
  ASSUME TypeOK, NEW p \in Paths
  PROVE  Merged(p) \in Content
<1>1. files[p] \in Content /\ files[p].text \in Texts /\ Kind[p] \in Kinds
  BY SetupAssumption DEF TypeOK, Content
<1> QED
  BY <1>1, SetupAssumption DEF Merged, Content, Absent, Kinds

\* The caller's own part of the types, for the steps that end or go on.
LEMMA TypedStep ==
  ASSUME IInv, NEW c \in Callers, CallerStep(c)
  PROVE  TypeOK'
<1> USE DEF IInv
<1>f. None \in Request \cup {None} /\ (Fail(c) => Return(c, None))
  BY DEF Fail
<1>r. pc[c] \in Begun => Sound(txn[c]) /\ at[c] \in Nat /\ txn[c] \in Transaction
  BY Knows DEF Sound
<1>q. pc[c] \notin {"idle", "remove"} => req[c] \in Request /\ req[c].key \in Keys
  BY DEF CallerInv, RequestOf, Request
<1>1. CASE PeekJournal(c)
  BY <1>1 DEF PeekJournal, Goto, TypeOK, disk, Stages
<1>2. CASE Precheck(c)
  <2>1. Replayed(c) \in Request \cup {None}
    BY <1>2, <1>q DEF Precheck, Replayed
  <2>2. UNCHANGED <<disk, history, events>>
    BY <1>2 DEF Precheck
  <2>3. CASE \E r \in Request \cup {None} : Return(c, r)
    BY <2>2, <2>3, TypedReturn DEF TypeOK, disk
  <2>4. CASE Continue(c, "wait", 1) /\ UNCHANGED txn
    BY <2>2, <2>4, TypedContinue DEF TypeOK, disk, Stages
  <2> QED
    BY <1>2, <1>f, <2>1, <2>3, <2>4 DEF Precheck
<1>3. CASE Lock(c)
  BY <1>3 DEF Lock, Goto, TypeOK, disk, Stages
<1>4. CASE GiveUp(c) \/ EndRemoval(c)
  BY <1>4, <1>f, TypedReturn DEF GiveUp, EndRemoval, TypeOK, disk
<1>5. CASE Recover(c)
  <2>1. UNCHANGED <<files, dirs, clutter, config, replays, history>>
    BY <1>5 DEF Recover
  <2>2. journal' \in {journal, None}
    BY <1>5 DEF Recover
  <2>3. events' \in Nat
    BY <1>5, TypedEvents DEF Recover
  <2>4. CASE Fail(c)
    BY <1>f, <2>1, <2>2, <2>3, <2>4, TypedReturn DEF TypeOK
  <2>5. CASE Continue(c, "check", 1) /\ UNCHANGED txn
    BY <2>1, <2>2, <2>3, <2>5, TypedContinue DEF TypeOK, Stages
  <2>6. CASE Continue(c, "restore", 1) /\ txn' = [txn EXCEPT ![c] = journal]
    BY <2>1, <2>2, <2>3, <2>6, TypedContinue DEF TypeOK, Stages
  <2> QED
    BY <1>5, <2>4, <2>5, <2>6 DEF Recover
<1>6. CASE Check(c)
  <2>0. pc[c] = "check" /\ UNCHANGED <<disk, unsynced, events>> /\ touched' \in {touched, {}}
    BY <1>6 DEF Check
  <2>1. Replayed(c) \in Request \cup {None}
    BY <2>0, <1>q DEF Replayed
  <2>2. CASE \E r \in Request \cup {None} : Return(c, r)
    BY <2>0, <2>2, TypedReturn DEF TypeOK, disk
  <2>3. CASE Continue(c, "open", 1) /\ txn'[c] \in Transaction
             /\ txn' = [txn EXCEPT ![c] = txn'[c]]
    BY <2>0, <2>3, TypedContinue DEF TypeOK, disk, Stages
  <2>4. CASE Continue(c, "open", 1)
    <3>1. pc'[c] = "open"
      BY <2>4, Answers
    <3>2. Sound(txn'[c])
      BY <1>6, <3>1, StepCheck DEF CallerInv, RequestOf, Begun
    <3>3. txn' = [txn EXCEPT ![c] = txn'[c]]
      BY <1>6, <2>4, <3>1 DEF Check, Return, Fail, Goto, TypeOK
    <3> QED
      BY <2>3, <2>4, <3>2, <3>3 DEF Sound
  <2> QED
    BY <1>6, <1>f, <2>1, <2>2, <2>4 DEF Check
<1>7. CASE Open(c)
  <2>1. /\ UNCHANGED <<files, dirs, clutter, config, replays, history>>
        /\ txn[c] \in Transaction
    BY <1>7, <1>r DEF Open, Begun
  <2>2. journal' \in {journal, txn[c]} /\ events' \in Nat
    BY <1>7, TypedEvents DEF Open
  <2>3. CASE Fail(c)
    BY <1>f, <2>1, <2>2, <2>3, TypedReturn DEF TypeOK
  <2>4. CASE Continue(c, "apply", 1) /\ UNCHANGED txn
    BY <2>1, <2>2, <2>4, TypedContinue DEF TypeOK, Stages
  <2> QED
    BY <1>7, <2>3, <2>4 DEF Open
<1>8. CASE Mkdir(c)
  <2>1. /\ pc'[c] = "mark" /\ pc' = [pc EXCEPT ![c] = "mark"]
        /\ UNCHANGED <<files, clutter, config, journal, replays, lock, at, answered, history,
                       events>>
        /\ \E d \in Dirs : dirs' = dirs \cup {d}
    BY <1>8 DEF Mkdir, Goto, TypeOK
  <2>2. Sound(txn'[c])
    BY <1>8, <2>1, StepMkdir DEF CallerInv, RequestOf, Begun
  <2>3. txn' = [txn EXCEPT ![c] = txn'[c]]
    BY <1>8 DEF Mkdir, TypeOK
  <2> QED
    BY <2>1, <2>2, <2>3 DEF TypeOK, Stages, Sound
<1>9. CASE Mark(c)
  <2>1. /\ UNCHANGED <<files, dirs, clutter, config, replays, txn, history>>
        /\ txn[c] \in Transaction /\ at[c] \in Nat
    BY <1>9, <1>r DEF Mark, Begun
  <2>2. journal' \in {journal, txn[c]} /\ events' \in Nat
    BY <1>9, TypedEvents DEF Mark
  <2>3. \E s \in Stages, i \in Nat : Continue(c, s, i)
    BY <1>9, <2>1 DEF Mark, Stages
  <2> QED
    BY <2>1, <2>2, <2>3, TypedContinue DEF TypeOK
<1>10. CASE Apply(c)
  <2>1. /\ UNCHANGED <<dirs, clutter, config, journal, replays, txn, history>>
        /\ Target(c) \in Paths /\ Position(c) + 1 \in Nat
    BY <1>10, <1>r, InHand DEF Apply, Begun
  <2>2. Merged(Target(c)) \in Content
    BY <2>1, MergedTyped
  <2>3. files' \in [Paths -> Content]
    BY <1>10, <2>1, <2>2 DEF Apply, TypeOK
  <2>4. events' \in Nat
    BY <1>10, TypedEvents DEF Apply
  <2>5. \E s \in Stages, i \in Nat : Continue(c, s, i)
    BY <1>10, <2>1 DEF Apply, Stages
  <2> QED
    BY <2>1, <2>3, <2>4, <2>5, TypedContinue DEF TypeOK
<1>11. CASE Verify(c)
  <2>1. UNCHANGED <<disk, txn, history, events>> /\ at[c] \in Nat
    BY <1>11, <1>r DEF Verify, Begun
  <2>2. \E s \in Stages, i \in Nat : Continue(c, s, i)
    BY <1>11, <2>1 DEF Verify, Stages
  <2> QED
    BY <2>1, <2>2, TypedContinue DEF TypeOK, disk
<1>12. CASE Record(c)
  <2>1. /\ UNCHANGED <<files, dirs, clutter, config, journal, txn, touched>>
        /\ unsynced' \subseteq unsynced \cup {req[c]}
        /\ req[c] \in Request /\ txn[c].old \in [Keys -> Request \cup {None}]
    BY <1>12, <1>r, <1>q DEF Record, Begun, Transaction, Outcomes
  <2>2. replays' \in [Keys -> Request \cup {None}]
    BY <1>12, <2>1 DEF Record, TypeOK
  <2>3. events' \in Nat
    BY <1>12, TypedEvents DEF Record
  <2>4. \E s \in Stages, i \in Nat : Continue(c, s, i)
    BY <1>12 DEF Record, Stages
  <2> QED
    BY <2>1, <2>2, <2>3, <2>4, TypedContinue DEF TypeOK
<1>13. CASE Close(c)
  <2>1. UNCHANGED <<files, dirs, clutter, config, replays, history>> /\ req[c] \in Request
    BY <1>13, <1>q DEF Close
  <2>2. journal' \in {journal, None} /\ events' \in Nat
    BY <1>13, TypedEvents DEF Close
  <2>3. \E r \in Request \cup {None} : Return(c, r)
    BY <1>13, <2>1 DEF Close
  <2> QED
    BY <2>1, <2>2, <2>3, TypedReturn DEF TypeOK
<1>14. CASE Restore(c)
  <2>1. /\ UNCHANGED <<dirs, clutter, config, journal, replays, history>>
        /\ Target(c) \in Paths /\ Position(c) + 1 \in Nat
        /\ txn[c].snap[Target(c)] \in Content
    BY <1>14, <1>r, InHand DEF Restore, Begun
  <2>2. files' \in [Paths -> Content]
    BY <1>14, <2>1 DEF Restore, TypeOK
  <2>3. events' \in Nat
    BY <1>14, TypedEvents DEF Restore
  <2>4. CASE Fail(c)
    BY <1>f, <2>1, <2>2, <2>3, <2>4, TypedReturn DEF TypeOK
  <2>5. CASE Continue(c, "restore", Position(c) + 1) /\ UNCHANGED txn
    BY <2>1, <2>2, <2>3, <2>5, TypedContinue DEF TypeOK, Stages
  <2> QED
    BY <1>14, <2>4, <2>5 DEF Restore
<1>15. CASE RestoreReplays(c)
  <2>1. /\ UNCHANGED <<files, dirs, clutter, config, journal, history>>
        /\ txn[c].old \in [Keys -> Request \cup {None}] /\ at[c] \in Nat
    BY <1>15, <1>r DEF RestoreReplays, Begun, Transaction
  <2>2. replays' \in [Keys -> Request \cup {None}] /\ events' \in Nat
    BY <1>15, <2>1, TypedEvents DEF RestoreReplays, TypeOK
  <2>3. CASE Fail(c)
    BY <1>f, <2>1, <2>2, <2>3, TypedReturn DEF TypeOK
  <2>4. CASE Continue(c, "undir", at[c]) /\ UNCHANGED txn
    BY <2>1, <2>2, <2>4, TypedContinue DEF TypeOK, Stages
  <2> QED
    BY <1>15, <2>3, <2>4 DEF RestoreReplays
<1>16. CASE Undir(c)
  <2>1. UNCHANGED <<files, clutter, config, journal, replays, history, events>> /\ at[c] \in Nat
    BY <1>16, <1>r DEF Undir, Begun
  <2>2. CASE Fail(c) /\ UNCHANGED dirs
    BY <1>f, <2>1, <2>2, TypedReturn DEF TypeOK
  <2>3. CASE Continue(c, "undir", at[c]) /\ \E d \in Dirs : dirs' = dirs \ {d}
             /\ txn' = [txn EXCEPT ![c].made = @ \ {d}]
    <3>1. pc'[c] = "undir"
      BY <2>1, <2>3, Answers
    <3>2. Sound(txn'[c])
      BY <1>16, <3>1, StepUndir DEF CallerInv, RequestOf, Begun
    <3>3. txn' = [txn EXCEPT ![c] = txn'[c]]
      BY <2>3 DEF TypeOK
    <3> QED
      BY <2>1, <2>3, <3>2, <3>3, TypedContinue DEF TypeOK, Stages, Sound
  <2> QED
    BY <1>16, <2>2, <2>3 DEF Undir
<1>17. CASE Drop(c)
  <2>1. UNCHANGED <<files, dirs, clutter, config, replays, history>>
    BY <1>17 DEF Drop
  <2>2. journal' \in {journal, None} /\ events' \in Nat
    BY <1>17, TypedEvents DEF Drop
  <2>3. Return(c, None)
    BY <1>17, <1>f DEF Drop
  <2> QED
    BY <2>1, <2>2, <2>3, <1>f, TypedReturn DEF TypeOK
<1>18. CASE RemoveNext(c)
  <2>0. UNCHANGED <<dirs, clutter, config, journal, replays, events>>
    BY <1>18 DEF RemoveNext
  <2>1. CASE Fail(c) /\ UNCHANGED <<files, history>>
    BY <1>f, <2>0, <2>1, TypedReturn DEF TypeOK
  <2>2. CASE Continue(c, "remove", at[c] + 1) /\ UNCHANGED txn /\ ~UNCHANGED <<files, history>>
    <3> DEFINE p == req[c].sel[at[c]]
    <3>1. at[c] \in Nat /\ at[c] # 0 /\ req[c].sel \in Seq(Paths) /\ at[c] <= Len(req[c].sel)
      BY <1>18 DEF RemoveNext, CallerInv, RequestOf, TypeOK
    <3>2. p \in Paths
      BY <3>1
    <3>3. /\ files' = [files EXCEPT ![p] = IF Kind[p] = "block"
                                            THEN [text |-> files[p].text, block |-> FALSE]
                                            ELSE Absent]
          /\ touched' = touched \cup {p} /\ unsynced' = unsynced
      BY <1>18, <2>2 DEF RemoveNext, Touch
    <3>4. files' \in [Paths -> Content]
      <4>1. files[p] \in Content /\ Absent \in Content
        BY <3>2, SetupAssumption DEF TypeOK, Content, Absent
      <4>2. [text |-> files[p].text, block |-> FALSE] \in Content
        BY <4>1 DEF Content
      <4> QED
        BY <3>2, <3>3, <4>1, <4>2 DEF TypeOK
    <3>5. at[c] + 1 \in Nat /\ "remove" \in Stages /\ touched' \subseteq Paths
      BY <3>1, <3>2, <3>3 DEF Stages, TypeOK
    <3>6. /\ pc' \in [Callers -> Stages] /\ lock' \in Callers \cup {None}
          /\ at' \in [Callers -> Nat] /\ answered' \in [Callers -> Request \cup {None}]
      BY <2>2, <3>5, TypedContinue
    <3> QED
      BY <2>0, <2>2, <3>3, <3>4, <3>5, <3>6 DEF TypeOK
  <2>3. CASE Continue(c, "remove", at[c] + 1) /\ UNCHANGED txn /\ UNCHANGED <<files, history>>
    BY <2>0, <2>3, TypedContinue DEF TypeOK, Stages
  <2> QED
    BY <1>18, <2>1, <2>2, <2>3 DEF RemoveNext
<1>19. CASE Crash(c)
  <2>1. /\ UNCHANGED <<files, dirs, config, journal, replays, history>>
        /\ Return(c, None) /\ events' \in Nat
        /\ \E left \in {{}, WritesIn(c) \ {Top}} : clutter' = clutter \cup left
    BY <1>19, <1>f, TypedEvents DEF Crash
  <2>2. WritesIn(c) \ {Top} \subseteq Dirs
    <3>1. pc[c] \in {"apply", "restore"} /\ ~Finished(c) => Target(c) \in Paths
      BY <1>r, InHand DEF Begun
    <3> QED
      BY <3>1, SetupAssumption DEF WritesIn
  <2> QED
    BY <2>1, <2>2, <1>f, TypedReturn DEF TypeOK
<1>20. ASSUME NEW sel \in Selections, StartRemoval(c, sel) PROVE TypeOK'
  BY <1>20, TypedEvents DEF StartRemoval, Goto, TypeOK, disk, Stages
<1>21. ASSUME NEW sel \in Selections, NEW k \in Keys, Review(c, k, sel) PROVE TypeOK'
  BY <1>21, TypedEvents DEF Review, Goto, TypeOK, disk, Stages
<1> QED
  BY <1>1, <1>2, <1>3, <1>4, <1>5, <1>6, <1>7, <1>8, <1>9, <1>10, <1>11, <1>12, <1>13,
     <1>14, <1>15, <1>16, <1>17, <1>18, <1>19, <1>20, <1>21 DEF CallerStep, Step

LEMMA TypedAround ==
  ASSUME IInv,
         (\E p \in Paths : Edit(p) \/ Delete(p)) \/ (\E d \in Dirs : Clutter(d)) \/ Configure
  PROVE  TypeOK'
<1> USE SetupAssumption DEF IInv
<1>1. UNCHANGED <<lock, caller>> /\ events' \in Nat
  BY TypedEvents DEF Edit, Delete, Clutter, Configure
<1>2. ASSUME NEW p \in Paths, Edit(p) PROVE TypeOK'
  <2>1. PICK t \in Texts : files' = [files EXCEPT ![p].text = t]
    BY <1>2 DEF Edit
  <2>2. files[p] \in [text : Texts, block : BOOLEAN] /\ files \in [Paths -> Content]
    BY DEF TypeOK, Content
  <2>3. files' \in [Paths -> Content]
    <3>1. [files[p] EXCEPT !.text = t] \in [text : Texts, block : BOOLEAN]
      BY <2>2
    <3> QED
      BY <2>1, <2>2, <3>1 DEF Content
  <2> QED
    BY <1>1, <1>2, <2>3 DEF Edit, Touch, TypeOK, caller
<1>3. ASSUME NEW p \in Paths, Delete(p) PROVE TypeOK'
  <2>1. files' \in [Paths -> Content]
    BY <1>3 DEF Delete, TypeOK, Content, Absent
  <2> QED
    BY <1>1, <1>3, <2>1 DEF Delete, Touch, TypeOK, caller
<1>4. CASE (\E d \in Dirs : Clutter(d)) \/ Configure
  BY <1>1, <1>4 DEF Clutter, Configure, TypeOK, caller
<1> QED
  BY <1>2, <1>3, <1>4

-----------------------------------------------------------------------------
(* The theorems.                                                            *)

LEMMA Initially ==
  ASSUME Init
  PROVE  IInv
<1> USE DEF Init
<1>1. Absent \in Content /\ [text |-> Retired, block |-> FALSE] \in Content
  BY SetupAssumption DEF Content, Absent
<1>2. files \in [Paths -> Content] /\ \A p \in Paths : files[p].block = FALSE
  <2>1. \A p \in Paths : files[p] \in {Absent, [text |-> Retired, block |-> FALSE]}
    OBVIOUS
  <2>2. {Absent, [text |-> Retired, block |-> FALSE]} \subseteq Content
    BY <1>1
  <2>3. \A p \in Paths : files[p].block = FALSE
    BY <2>1 DEF Absent
  <2> QED
    BY <2>2, <2>3
<1>3. TypeOK
  BY <1>2 DEF TypeOK, Stages
<1>4. \A c \in Callers : CallerInv(c)
  BY DEF CallerInv, RequestOf, JournalOf, ReplaysOf, RestoredOf, VerifiedOf, Locked, Begun
<1>5. DiskInv
  BY <1>2 DEF DiskInv, JournalInv, EveryBlockAccounted, CommittedIsComplete, Told
<1> QED
  BY <1>3, <1>4, <1>5 DEF IInv

\* In the critical section a caller disturbs no one.
LEMMA LockedKeeps ==
  ASSUME IInv, NEW c \in Callers, Alone(c), CallerInv(c)', pc[c] \in Locked
  PROVE  \A d \in Callers : CallerInv(d)'
BY OthersUnmoved

LEMMA CallerKeeps ==
  ASSUME IInv, NEW c \in Callers, CallerStep(c)
  PROVE  IInv'
<1>1. Alone(c)
  BY StepAlone DEF IInv
<1>2. TypeOK'
  BY TypedStep
<1>3. CASE FreeStep(c)
  BY <1>1, <1>2, <1>3, FreeKeeps DEF IInv, Alone
<1>4. CASE /\ pc[c] \in Locked
           /\ CallerInv(c)' /\ DiskInv'
  BY <1>1, <1>2, <1>4, LockedKeeps DEF IInv, Alone
<1>5. CASE Recover(c) \/ Check(c) \/ Open(c)
  BY <1>4, <1>5, StepRecover, StepCheck, StepOpen DEF Recover, Check, Open, Locked, Begun
<1>6. CASE Mkdir(c) \/ Mark(c) \/ Apply(c) \/ Verify(c)
  BY <1>4, <1>6, StepMkdir, StepMark, StepApply, StepVerify
     DEF Mkdir, Mark, Apply, Verify, Locked, Begun
<1>7. CASE Record(c) \/ Close(c)
  BY <1>4, <1>7, StepRecord, StepClose DEF Record, Close, Locked, Begun
<1>8. CASE Restore(c) \/ RestoreReplays(c) \/ Undir(c) \/ Drop(c)
  BY <1>4, <1>8, StepRestore, StepRestoreReplays, StepUndir, StepDrop
     DEF Restore, RestoreReplays, Undir, Drop, Locked, Begun
<1> QED
  BY <1>3, <1>5, <1>6, <1>7, <1>8 DEF CallerStep, Step, FreeStep

LEMMA Preserved ==
  ASSUME IInv, [Next]_vars
  PROVE  IInv'
<1>1. ASSUME NEW c \in Callers, CallerStep(c) PROVE IInv'
  BY <1>1, CallerKeeps
<1>2. CASE (\E p \in Paths : Edit(p) \/ Delete(p)) \/ (\E d \in Dirs : Clutter(d)) \/ Configure
  BY <1>2, AroundKeeps, TypedAround DEF IInv, caller
<1>3. CASE UNCHANGED vars
  <2> USE <1>3 DEF vars, disk, caller
  <2>1. TypeOK' /\ Outside
    BY DEF IInv, TypeOK, Outside
  <2>2. \A d \in Callers : CallerInv(d)'
    BY <2>1, OutsideKeepsCaller DEF IInv, Stays
  <2>3. DiskInv'
    BY <2>1, OutsideKeepsDisk DEF IInv
  <2> QED
    BY <2>1, <2>2, <2>3 DEF IInv
<1> QED
  BY <1>1, <1>2, <1>3 DEF Next, CallerStep

\* The inductive invariant: what each caller in the critical section knows of
\* the journal, the recorded requests and the files (internal/setup/service.go,
\* Apply), and what the disk keeps for whoever comes after a death.
THEOREM Invariance == Spec => []IInv
<1>1. Init => IInv
  BY Initially
<1>2. IInv /\ [Next]_vars => IInv'
  BY Preserved
<1> QED
  BY <1>1, <1>2, PTL DEF Spec

\* Every variable keeps its type.
THEOREM TypeCorrect == Spec => []TypeOK
<1>1. IInv => TypeOK
  BY DEF IInv
<1> QED
  BY <1>1, Invariance, PTL

\* Every block of Prowl's is recorded or covered by a journal, for any number
\* of callers, destinations and directories, whatever fails or dies.
THEOREM BlocksAccounted == Spec => []EveryBlockAccounted
<1>1. IInv => EveryBlockAccounted
  BY DEF IInv, DiskInv
<1> QED
  BY <1>1, Invariance, PTL

\* Setup is a transaction, whatever fails, dies or interleaves, also a write of
\* the replay file that fails after its rename: blocks are accounted for, and
\* but for the requests recorded by such a write a recorded journal is complete
\* and an answer lasts.
THEOREM SetupIsTransaction == Spec => []TransactionSound
<1>1. IInv => TransactionSound
  <2> SUFFICES ASSUME IInv PROVE TransactionSound
    OBVIOUS
  <2>1. EveryBlockAccounted /\ CommittedIsComplete /\ Told /\ JournalInv /\ TypeOK
    BY DEF IInv, DiskInv
  <2>2. AnswerIsDurable
    BY <2>1, OldRecords DEF AnswerIsDurable, Lasts, Told, TypeOK
  <2> QED
    BY <2>1, <2>2 DEF TransactionSound
<1> QED
  BY <1>1, Invariance, PTL

\* A recorded request is never run again (Apply's check under the lock).
THEOREM NeverTwice == Spec => AppliedOnce
<1>1. IInv /\ [Next]_vars =>
        (journal' # journal /\ journal' # None => replays[journal'.request.key] = None)
  <2> SUFFICES ASSUME IInv, [Next]_vars, journal' # journal, journal' # None
               PROVE  replays[journal'.request.key] = None
    OBVIOUS
  <2>1. PICK c \in Callers : Open(c) \/ Mark(c)
    BY DEF Next, Step, vars, disk, PeekJournal, Precheck, Lock, GiveUp, Recover, Check, Mkdir,
       Apply, Verify, Record, Close, Restore, RestoreReplays, Undir, Drop, RemoveNext,
       EndRemoval, Crash, StartRemoval, Review, Edit, Delete, Clutter, Configure
  <2>2. pc[c] \in {"open", "mark"} /\ journal' = txn[c]
    BY <2>1 DEF Open, Mark
  <2>3. Sound(txn[c]) /\ replays = txn[c].old
    BY <2>2, Knows DEF Begun, ReplaysOf
  <2> QED
    BY <2>2, <2>3 DEF Sound
<1> QED
  BY <1>1, Invariance, PTL DEF Spec, AppliedOnce

\* A journal that is given up was rolled back completely
\* (recoverInterruptedTransactionInRoot and the rollback of Apply).
THEOREM RollbackComplete == Spec => RollbackRestores
<1> DEFINE Complete ==
      /\ \A p \in DOMAIN journal.snap \ touched : files[p] = journal.snap[p]
      /\ journal.made \cap dirs = {}
      /\ replays = journal.old
<1>1. IInv /\ [Next]_vars =>
        (journal # None /\ journal' = None /\ ~Recorded => Complete)
  <2> SUFFICES ASSUME IInv, [Next]_vars, journal # None, journal' = None, ~Recorded
               PROVE  Complete
    OBVIOUS
  <2>0. \A c \in Callers : pc[c] \in Begun => Sound(txn[c]) /\ txn[c] # None
    BY Knows, NoneAssumption DEF Sound
  <2>1. PICK c \in Callers : Close(c) \/ Drop(c)
    BY <2>0 DEF Next, Step, vars, disk, PeekJournal, Precheck, Lock, GiveUp, Recover, Check,
       Open, Mark, Mkdir, Apply, Verify, Record, Restore, RestoreReplays, Undir, RemoveNext,
       EndRemoval, Crash, StartRemoval, Review, Edit, Delete, Clutter, Configure, Begun
  <2>2. CASE Close(c)
    <3>1. pc[c] = "close"
      BY <2>2 DEF Close
    <3>2. /\ SameJournal(c) /\ Sound(txn[c]) /\ replays = Committed(txn[c])
      BY <3>1, Knows DEF Begun, JournalOf, ReplaysOf
    <3> QED
      BY <3>2 DEF Recorded, Committed, SameJournal, Sound, Transaction, Request
  <2>3. CASE Drop(c)
    <3>1. pc[c] = "undir" /\ txn[c].made = {}
      BY <2>3 DEF Drop
    <3>2. /\ SameJournal(c) /\ RestoredOf(c) /\ Sound(txn[c]) /\ replays = txn[c].old
      BY <3>1, Knows DEF Begun, JournalOf, ReplaysOf
    <3>3. \A p \in DOMAIN journal.snap \ touched : files[p] = journal.snap[p]
      BY <3>1, <3>2 DEF SameJournal, Sound, RestoredOf, Restored
    <3> QED
      BY <3>1, <3>2, <3>3 DEF SameJournal
  <2> QED
    BY <2>1, <2>2, <2>3
<1> HIDE DEF Complete
<1>2. RollbackRestores <=> [][journal # None /\ journal' = None /\ ~Recorded => Complete]_vars
  BY DEF RollbackRestores, Complete
<1> QED
  BY <1>1, <1>2, Invariance, PTL DEF Spec

-----------------------------------------------------------------------------
(* The user-level installer.                                                 *)


Applying == {"recheck", "write", "final", "commit"}
Holding  == Applying \cup {"undo"}

Manifests == [Assets -> Bodies \cup {Nobody}]
Places    == Assets \cup {ManifestFile}

\* The destinations a plan writes or removes.
Changing(c) == Of(c, {"install", "update", "remove"})
Written(c)  == DOMAIN saved[c]
IsNew(c, a) == file[a] = Body[call[c].version][a]

-----------------------------------------------------------------------------
(* The inductive invariant.                                                  *)

IsCall(r) == r.version \in Versions /\ DOMAIN r.kind \subseteq Assets

TypeInv ==
  /\ file \in [Assets -> Contents] /\ start \in [Assets -> Contents]
  /\ manifest \in Manifests
  /\ stage \in [Installers -> {"idle", "wait"} \cup Holding]
  /\ todo \in [Installers -> SUBSET Places]
  /\ call = [c \in Installers |-> call[c]] /\ prior = [c \in Installers |-> prior[c]]
  /\ hand = [c \in Installers |-> hand[c]] /\ saved = [c \in Installers |-> saved[c]]
  /\ \A c \in Installers : stage[c] # "idle" => IsCall(call[c])
  /\ \A c \in Installers : \A a \in Written(c) \cap Assets : saved[c][a] \in Contents

\* One installer at a time is past the lock.
LockInv == \A c \in Installers : stage[c] \in Holding => userLock = c

\* What a content must be for the plan's decision about a destination.
Fits(c, a, x) ==
  LET kind == call[c].kind[a] IN
  /\ kind = "install" => x = NoFile
  /\ kind = "update" => x = prior[c][a] /\ x \in Bodies
  /\ kind = "remove" => x = LegacyBody
  /\ kind = "unchanged" => x = Body[call[c].version][a]

\* The plan is right about the files there were when the lock was taken.
PlannedOf(c) ==
  /\ prior[c] \in Manifests
  /\ \A a \in DOMAIN call[c].kind : Fits(c, a, start[a])

\* How far the call has come: each destination of the plan is to be visited, in
\* hand or written, and none is two of these.
PlaceOf(c) ==
  /\ Written(c) \subseteq Changing(c) \cup {ManifestFile}
  /\ stage[c] \in Applying => ManifestFile \notin Written(c)
  /\ stage[c] \in {"recheck", "write"} =>
       /\ todo[c] \subseteq Changing(c) \ Written(c)
       /\ Changing(c) \subseteq todo[c] \cup Written(c)
            \cup (IF stage[c] = "write" THEN {hand[c]} ELSE {})
  /\ stage[c] = "write" => hand[c] \in Changing(c) \ (Written(c) \cup todo[c])
  /\ stage[c] = "final" => todo[c] \subseteq Of(c, {"unchanged"})
  /\ stage[c] \in {"final", "commit"} => Changing(c) \subseteq Written(c)
  /\ stage[c] = "undo" => todo[c] \subseteq Written(c)

\* A destination nobody else touched is as it was when the lock was taken, or
\* what it was then is saved and it holds what the plan wrote, or is undone.
FileOf(c, a) ==
  /\ a \notin Written(c) => file[a] = start[a]
  /\ a \in Written(c) => saved[c][a] = start[a] /\ file[a] # Foreign
  /\ a \in Written(c) /\ stage[c] \in Applying
       /\ call[c].kind[a] \in {"install", "update"} => IsNew(c, a)
  /\ a \in Written(c) \ todo[c] /\ stage[c] = "undo" => file[a] = start[a]
FilesOf(c) == \A a \in Assets \ late : FileOf(c, a)

\* The same for the manifest: it is the one read under the lock, or is to be
\* made so, and differs from it in the assets of the plan alone.
ManifestOf(c) ==
  /\ ManifestFile \in Written(c) => saved[c][ManifestFile] = prior[c]
  /\ ManifestFile \notin late =>
       /\ (stage[c] = "undo" /\ ManifestFile \in todo[c]) \/ manifest = prior[c]
       /\ \A a \in Assets \ DOMAIN call[c].kind : manifest[a] = prior[c][a]

HolderInv(c) == PlannedOf(c) /\ PlaceOf(c) /\ FilesOf(c) /\ ManifestOf(c)

\* A call that is not past the lock has written nothing.
NoneWritten == \A c \in Installers : stage[c] \notin Holding => Written(c) = {}

UserInv ==
  /\ TypeInv /\ LockInv /\ NoneWritten
  /\ \A c \in Installers : stage[c] \in Holding => HolderInv(c)

LocalOf(c) == <<stage[c], call[c], prior[c], todo[c], hand[c], saved[c]>>
Shared     == <<file, manifest, late, start>>

\* What a step of c leaves alone.
Apart(c) == \A d \in Installers \ {c} : UNCHANGED LocalOf(d)

-----------------------------------------------------------------------------
(* Lemmas about the helpers.                                                 *)

LEMMA NoDomain == DOMAIN << >> = {}
  OBVIOUS

LEMMA SaveAdds ==
  ASSUME NEW c \in Installers, NEW a, NEW old,
         saved = [d \in Installers |-> saved[d]], Save(c, a, old)
  PROVE  /\ saved' = [d \in Installers |-> saved'[d]]
         /\ DOMAIN saved'[c] = DOMAIN saved[c] \cup {a}
         /\ saved'[c][a] = old
         /\ \A b \in DOMAIN saved[c] \ {a} : saved'[c][b] = saved[c][b]
         /\ \A d \in Installers \ {c} : saved'[d] = saved[d]
  BY DEF Save

\* What a classification says of the bytes it was made from.
LEMMA ClassifyFits ==
  ASSUME NEW c \in Installers, NEW a \in Assets, NEW v, TypeInv,
         NEW records \in Manifests, NEW k, k = Classify(a, v, records)
  PROVE  /\ k = "install" => file[a] = NoFile
         /\ k = "update" => file[a] = records[a] /\ file[a] \in Bodies
         /\ k = "remove" => file[a] = LegacyBody
         /\ k = "unchanged" => file[a] = Body[v][a]
  BY DEF Classify, Manifests

\* Nothing a plan writes over or removes is foreign.
LEMMA FitsNotForeign ==
  ASSUME NEW c \in Installers, NEW a \in Changing(c), NEW x, Fits(c, a, x)
  PROVE  x # Foreign
  BY InstallAssumption DEF Changing, Of, Fits

-----------------------------------------------------------------------------
(* A step of one installer leaves the others' calls alone.                   *)

LEMMA Aside ==
  ASSUME UserInv, NEW c \in Installers, NEW d \in Installers \ {c},
         Apart(c), UNCHANGED Shared \/ userLock \in {c, Nobody},
         stage'[d] \in Holding
  PROVE  HolderInv(d)'
<1>1. UNCHANGED LocalOf(d)
  BY DEF Apart
<1>2. stage[d] \in Holding /\ HolderInv(d)
  BY <1>1 DEF UserInv, LocalOf
<1>3. userLock = d /\ d # Nobody
  BY <1>2, InstallAssumption DEF UserInv, LockInv
<1>4. UNCHANGED Shared
  BY <1>3
<1>5. PlannedOf(d)'
  BY <1>1, <1>2, <1>4 DEF HolderInv, PlannedOf, Fits, LocalOf, Shared
<1>6. PlaceOf(d)'
  BY <1>1, <1>2 DEF HolderInv, PlaceOf, Written, Changing, Of, LocalOf
<1>7. FilesOf(d)'
  BY <1>1, <1>2, <1>4 DEF HolderInv, FilesOf, FileOf, Written, IsNew, LocalOf, Shared
<1>8. ManifestOf(d)'
  BY <1>1, <1>2, <1>4 DEF HolderInv, ManifestOf, Written, LocalOf, Shared
<1> QED
  BY <1>5, <1>6, <1>7, <1>8 DEF HolderInv

\* What is left to show of a step of c.
LEMMA Assembled ==
  ASSUME UserInv, NEW c \in Installers, Apart(c),
         UNCHANGED Shared \/ userLock \in {c, Nobody}, TypeInv',
         userLock' = userLock \/ userLock \in {c, Nobody},
         stage'[c] \in Holding => userLock' = c /\ HolderInv(c)',
         stage'[c] \notin Holding => Written(c)' = {}
  PROVE  UserInv'
<1>1. \A d \in Installers \ {c} : stage'[d] = stage[d] /\ Written(d)' = Written(d)
  BY DEF Apart, LocalOf, Written
<1>2. LockInv'
  BY <1>1, InstallAssumption DEF LockInv, UserInv
<1>3. NoneWritten'
  BY <1>1 DEF NoneWritten, UserInv
<1>4. \A d \in Installers : (stage[d] \in Holding)' => HolderInv(d)'
  BY Aside
<1> QED
  BY <1>2, <1>3, <1>4 DEF UserInv

\* A call ends: by the end of its work, by a refusal, by a crash.
LEMMA UserReturnKeeps ==
  ASSUME UserInv, NEW c \in Installers, ReturnUser(c),
         UNCHANGED <<file, late, start>>, manifest' \in Manifests,
         UNCHANGED manifest \/ userLock \in {c, Nobody}
  PROVE  UserInv'
<1>1. Apart(c) /\ TypeInv'
  <2>1. Apart(c)
    BY DEF Apart, LocalOf, ReturnUser, GotoStage, UserInv, TypeInv
  <2>2. TypeInv'
    BY NoDomain DEF Written, ReturnUser, GotoStage, UserInv, TypeInv, IsCall
  <2> QED
    BY <2>1, <2>2
<1>2. stage'[c] = "idle" /\ Written(c)' = {}
  BY NoDomain DEF ReturnUser, GotoStage, Written, UserInv, TypeInv
<1>3. userLock' = userLock \/ userLock \in {c, Nobody}
  BY DEF ReturnUser
<1>4. UNCHANGED Shared \/ userLock \in {c, Nobody}
  BY DEF Shared
<1> QED
  BY <1>1, <1>2, <1>3, <1>4, Assembled DEF Holding, Applying

LEMMA PlannedStays ==
  ASSUME NEW c \in Installers, PlannedOf(c),
         UNCHANGED <<call[c], prior[c], start>>
  PROVE  PlannedOf(c)'
  BY DEF PlannedOf, Fits

\* A check that finds a difference: everything written is to be undone.
LEMMA UndoKeeps ==
  ASSUME UserInv, NEW c \in Installers, stage[c] \in Applying, Undo(c),
         UNCHANGED <<file, manifest, userLock, call, prior, hand, saved, late, start>>
  PROVE  UserInv'
<1>1. userLock = c /\ HolderInv(c)
  BY DEF UserInv, LockInv, Holding
<1>2. stage'[c] = "undo" /\ todo'[c] = Written(c) /\ Written(c)' = Written(c)
  BY DEF Undo, GotoStage, Written, UserInv, TypeInv
<1>3. Apart(c)
  BY DEF Apart, LocalOf, Undo, GotoStage, UserInv, TypeInv
<1>4. TypeInv'
  <2>1. Written(c) \subseteq Places
    BY <1>1 DEF HolderInv, PlaceOf, Changing, Of, Places, UserInv, TypeInv, IsCall, Applying
  <2> QED
    BY <2>1 DEF Undo, GotoStage, Written, UserInv, TypeInv, IsCall, Holding, Applying
<1>5. PlannedOf(c)'
  BY <1>1, PlannedStays DEF HolderInv
<1>6. PlaceOf(c)'
  BY <1>1, <1>2 DEF HolderInv, PlaceOf, Changing, Of, Applying
<1>7. FilesOf(c)'
  BY <1>1, <1>2 DEF HolderInv, FilesOf, FileOf, Applying
<1>8. ManifestOf(c)'
  BY <1>1, <1>2 DEF HolderInv, ManifestOf, Applying
<1> QED
  BY <1>1, <1>2, <1>3, <1>4, <1>5, <1>6, <1>7, <1>8, Assembled DEF HolderInv, Holding

-----------------------------------------------------------------------------
(* The steps of one installer.                                               *)

LEMMA PlanKeeps ==
  ASSUME UserInv, NEW c \in Installers, NEW v \in Versions,
         NEW clients \in SUBSET Clients, PlanUserSkills(c, v, clients)
  PROVE  UserInv'
<1>1. Apart(c) /\ UNCHANGED Shared
  BY DEF Apart, LocalOf, Shared, PlanUserSkills, GotoStage, UserInv, TypeInv
<1>2. IsCall(Plan(v, clients, manifest))
  BY DEF IsCall, Plan, Candidates
<1>3. TypeInv'
  BY <1>2 DEF Written, PlanUserSkills, GotoStage, UserInv, TypeInv, IsCall
<1>4. stage'[c] = "wait" /\ Written(c)' = {} /\ userLock' = userLock
  BY DEF PlanUserSkills, GotoStage, Written, NoneWritten, Holding, Applying, UserInv, TypeInv
<1> QED
  BY <1>1, <1>3, <1>4, Assembled DEF Holding, Applying

LEMMA GiveUpKeeps ==
  ASSUME UserInv, NEW c \in Installers, GiveUpUser(c)
  PROVE  UserInv'
  BY UserReturnKeeps DEF GiveUpUser, UserInv, TypeInv

LEMMA CrashKeeps ==
  ASSUME UserInv, NEW c \in Installers, CrashUser(c)
  PROVE  UserInv'
  BY UserReturnKeeps DEF CrashUser, UserInv, TypeInv

LEMMA EndUndoKeeps ==
  ASSUME UserInv, NEW c \in Installers, EndUndo(c)
  PROVE  UserInv'
  BY UserReturnKeeps DEF EndUndo, UserInv, TypeInv

\* The lock is taken and the reviewed plan is still the plan.
LEMMA BeginKeeps ==
  ASSUME UserInv, NEW c \in Installers, Begin(c)
  PROVE  UserInv'
<1> DEFINE fresh == Plan(call[c].version, call[c].clients, manifest)
<1>1. CASE fresh # call[c]
  <2>1. ReturnUser(c) /\ UNCHANGED <<file, manifest, late, start>>
    BY <1>1 DEF Begin
  <2> QED
    BY <2>1, UserReturnKeeps DEF UserInv, TypeInv
<1>2. CASE fresh = call[c]
  <2>1. /\ stage[c] = "wait" /\ userLock = Nobody /\ userLock' = c
        /\ prior' = [prior EXCEPT ![c] = manifest] /\ late' = {} /\ start' = file
        /\ GotoStage(c, "recheck", Changing(c))
        /\ UNCHANGED <<call, hand, saved, file, manifest>>
    BY <1>2 DEF Begin, Changing
  <2>2. Written(c) = {} /\ Written(c)' = {} /\ IsCall(call[c])
    BY <2>1 DEF Written, NoneWritten, Holding, Applying, UserInv, TypeInv
  <2>3. /\ stage'[c] = "recheck" /\ todo'[c] = Changing(c) /\ prior'[c] = manifest
        /\ manifest \in Manifests
    BY <2>1 DEF GotoStage, UserInv, TypeInv
  <2>4. Apart(c)
    BY <2>1 DEF Apart, LocalOf, GotoStage, UserInv, TypeInv
  <2>5. TypeInv'
    <3>1. Changing(c) \in SUBSET Places
      BY <2>2 DEF Changing, Of, Places, IsCall
    <3> QED
      BY <2>1, <2>2, <3>1 DEF Written, GotoStage, UserInv, TypeInv, IsCall, Holding, Applying
  <2>6. \A a \in DOMAIN call[c].kind :
           a \in Assets /\ call[c].kind[a] = Classify(a, call[c].version, manifest)
    BY <1>2 DEF Plan, Candidates
  <2>7. PlannedOf(c)'
    <3>1. ASSUME NEW a \in DOMAIN call[c].kind PROVE Fits(c, a, start[a])'
      BY <2>1, <2>3, <2>6, <3>1, ClassifyFits DEF Fits, UserInv
    <3> QED
      BY <2>1, <2>3, <3>1 DEF PlannedOf
  <2>8. PlaceOf(c)'
    BY <2>1, <2>2, <2>3 DEF PlaceOf, Changing, Of
  <2>9. FilesOf(c)'
    BY <2>1, <2>2 DEF FilesOf, FileOf
  <2>10. ManifestOf(c)'
    BY <2>1, <2>2, <2>3 DEF ManifestOf
  <2> QED
    BY <2>1, <2>3, <2>4, <2>5, <2>7, <2>8, <2>9, <2>10, Assembled
    DEF HolderInv, Holding, Applying
<1> QED
  BY <1>1, <1>2

\* A recheck lets a write through only when the bytes are those of the plan:
\* then they are the ones the destination held when the lock was taken.
LEMMA UnmovedIsStart ==
  ASSUME UserInv, NEW c \in Installers, stage[c] \in Holding, NEW a \in Assets,
         a \in Changing(c) \cup Of(c, {"unchanged"}), Unmoved(c, a)
  PROVE  file[a] = start[a]
<1>1. PlannedOf(c) /\ a \in DOMAIN call[c].kind
  BY DEF UserInv, HolderInv, Changing, Of
<1>2. Fits(c, a, start[a]) /\ prior[c] \in Manifests
  BY <1>1 DEF PlannedOf
<1>3. PICK k : k = call[c].kind[a]
  OBVIOUS
<1>4. k = Classify(a, call[c].version, prior[c])
  BY <1>3 DEF Unmoved
<1>5. k \in {"install", "update", "remove", "unchanged"}
  BY <1>3 DEF Changing, Of
<1>6. /\ k = "install" => file[a] = NoFile
      /\ k = "update" => file[a] = prior[c][a]
      /\ k = "remove" => file[a] = LegacyBody
      /\ k = "unchanged" => file[a] = Body[call[c].version][a]
  BY <1>2, <1>4, ClassifyFits DEF UserInv
<1> QED
  BY <1>2, <1>3, <1>5, <1>6 DEF Fits

LEMMA RecheckKeeps ==
  ASSUME UserInv, NEW c \in Installers, NEW a \in Assets, Recheck(c, a)
  PROVE  UserInv'
<1>1. stage[c] = "recheck" /\ a \in todo[c] /\ userLock = c /\ HolderInv(c)
  BY DEF Recheck, UserInv, LockInv, Holding, Applying
<1>2. CASE ~Unmoved(c, a)
  BY <1>1, <1>2, UndoKeeps DEF Recheck, Applying
<1>3. CASE Unmoved(c, a)
  <2>1. /\ GotoStage(c, "write", todo[c] \ {a}) /\ late' = late \ {a}
        /\ hand' = [hand EXCEPT ![c] = a]
        /\ UNCHANGED <<file, manifest, userLock, call, prior, saved, start>>
    BY <1>3 DEF Recheck
  <2>2. /\ stage'[c] = "write" /\ todo'[c] = todo[c] \ {a} /\ hand'[c] = a
        /\ Written(c)' = Written(c)
    BY <2>1 DEF GotoStage, Written, UserInv, TypeInv
  <2>3. a \in Changing(c) \ Written(c)
    BY <1>1 DEF HolderInv, PlaceOf
  <2>4. file[a] = start[a]
    BY <1>1, <1>3, <2>3, UnmovedIsStart DEF Holding, Applying
  <2>5. Apart(c)
    BY <2>1 DEF Apart, LocalOf, GotoStage, UserInv, TypeInv
  <2>6. TypeInv'
    BY <1>1, <2>1 DEF Written, GotoStage, UserInv, TypeInv, IsCall, Holding, Applying
  <2>7. PlannedOf(c)'
    BY <1>1, <2>1, PlannedStays DEF HolderInv
  <2>8. PlaceOf(c)'
    <3>1. Changing(c)' = Changing(c) /\ Of(c, {"unchanged"})' = Of(c, {"unchanged"})
      BY <2>1 DEF Changing, Of
    <3> QED
      BY <1>1, <2>2, <2>3, <3>1 DEF HolderInv, PlaceOf, Applying
  <2>9. FilesOf(c)'
    <3> SUFFICES ASSUME NEW b \in Assets \ late' PROVE FileOf(c, b)'
      BY DEF FilesOf
    <3>1. CASE b = a
      BY <2>1, <2>2, <2>3, <2>4, <3>1 DEF FileOf
    <3>2. CASE b # a
      <4>1. FileOf(c, b)
        BY <1>1, <2>1, <3>2 DEF HolderInv, FilesOf
      <4> QED
        BY <1>1, <2>1, <2>2, <4>1 DEF FileOf, IsNew, Applying
    <3> QED
      BY <3>1, <3>2
  <2>10. ManifestOf(c)'
    <3>1. ManifestFile \notin late' => ManifestFile \notin late
      BY <2>1, InstallAssumption
    <3> QED
      BY <1>1, <2>1, <2>2, <3>1 DEF HolderInv, ManifestOf
  <2> QED
    BY <1>1, <2>1, <2>2, <2>5, <2>6, <2>7, <2>8, <2>9, <2>10, Assembled
    DEF HolderInv, Holding, Applying
<1> QED
  BY <1>2, <1>3

LEMMA BeginFinalKeeps ==
  ASSUME UserInv, NEW c \in Installers, BeginFinal(c)
  PROVE  UserInv'
<1>1. stage[c] = "recheck" /\ todo[c] = {} /\ userLock = c /\ HolderInv(c)
  BY DEF BeginFinal, UserInv, LockInv, Holding, Applying
<1>2. /\ stage'[c] = "final" /\ todo'[c] = Of(c, {"unchanged"})
      /\ Written(c)' = Written(c)
      /\ UNCHANGED <<file, manifest, userLock, call, prior, hand, saved, late, start>>
  BY DEF BeginFinal, GotoStage, Written, UserInv, TypeInv
<1>3. Apart(c)
  BY DEF Apart, LocalOf, BeginFinal, GotoStage, UserInv, TypeInv
<1>4. TypeInv'
  <2>1. Of(c, {"unchanged"}) \in SUBSET Places
    BY <1>1 DEF Of, Places, UserInv, TypeInv, IsCall
  <2> QED
    BY <1>1, <2>1 DEF Written, BeginFinal, GotoStage, UserInv, TypeInv, IsCall, Holding, Applying
<1>5. PlannedOf(c)'
  BY <1>1, <1>2, PlannedStays DEF HolderInv
<1>6. PlaceOf(c)'
  <2>1. Changing(c)' = Changing(c) /\ Of(c, {"unchanged"})' = Of(c, {"unchanged"})
    BY <1>2 DEF Changing, Of
  <2> QED
    BY <1>1, <1>2, <2>1 DEF HolderInv, PlaceOf, Applying
<1>7. FilesOf(c)'
  BY <1>1, <1>2 DEF HolderInv, FilesOf, FileOf, IsNew, Applying
<1>8. ManifestOf(c)'
  BY <1>1, <1>2 DEF HolderInv, ManifestOf
<1> QED
  BY <1>1, <1>2, <1>3, <1>4, <1>5, <1>6, <1>7, <1>8, Assembled
  DEF HolderInv, Holding, Applying

LEMMA FinalCheckKeeps ==
  ASSUME UserInv, NEW c \in Installers, NEW a \in Assets, FinalCheck(c, a)
  PROVE  UserInv'
<1>1. stage[c] = "final" /\ a \in todo[c] /\ userLock = c /\ HolderInv(c)
  BY DEF FinalCheck, UserInv, LockInv, Holding, Applying
<1>2. CASE ~Unmoved(c, a)
  BY <1>1, <1>2, UndoKeeps DEF FinalCheck, Applying
<1>3. CASE Unmoved(c, a)
  <2>1. /\ GotoStage(c, "final", todo[c] \ {a}) /\ late' = late \ {a}
        /\ UNCHANGED <<file, manifest, userLock, call, prior, hand, saved, start>>
    BY <1>3 DEF FinalCheck
  <2>2. /\ stage'[c] = "final" /\ todo'[c] = todo[c] \ {a}
        /\ Written(c)' = Written(c)
    BY <2>1 DEF GotoStage, Written, UserInv, TypeInv
  <2>3. a \in Of(c, {"unchanged"}) /\ a \notin Written(c)
    BY <1>1, InstallAssumption DEF HolderInv, PlaceOf, Changing, Of
  <2>4. file[a] = start[a]
    BY <1>1, <1>3, <2>3, UnmovedIsStart DEF Holding, Applying
  <2>5. Apart(c)
    BY <2>1 DEF Apart, LocalOf, GotoStage, UserInv, TypeInv
  <2>6. TypeInv'
    BY <1>1, <2>1 DEF Written, GotoStage, UserInv, TypeInv, IsCall, Holding, Applying
  <2>7. PlannedOf(c)'
    BY <1>1, <2>1, PlannedStays DEF HolderInv
  <2>8. PlaceOf(c)'
    <3>1. Changing(c)' = Changing(c) /\ Of(c, {"unchanged"})' = Of(c, {"unchanged"})
      BY <2>1 DEF Changing, Of
    <3> QED
      BY <1>1, <2>2, <2>3, <3>1 DEF HolderInv, PlaceOf, Applying
  <2>9. FilesOf(c)'
    <3> SUFFICES ASSUME NEW b \in Assets \ late' PROVE FileOf(c, b)'
      BY DEF FilesOf
    <3>1. CASE b = a
      BY <2>1, <2>2, <2>3, <2>4, <3>1 DEF FileOf
    <3>2. CASE b # a
      <4>1. FileOf(c, b)
        BY <1>1, <2>1, <3>2 DEF HolderInv, FilesOf
      <4> QED
        BY <1>1, <2>1, <2>2, <4>1 DEF FileOf, IsNew, Applying
    <3> QED
      BY <3>1, <3>2
  <2>10. ManifestOf(c)'
    <3>1. ManifestFile \notin late' => ManifestFile \notin late
      BY <2>1, InstallAssumption
    <3> QED
      BY <1>1, <2>1, <2>2, <3>1 DEF HolderInv, ManifestOf
  <2> QED
    BY <1>1, <2>1, <2>2, <2>5, <2>6, <2>7, <2>8, <2>9, <2>10, Assembled
    DEF HolderInv, Holding, Applying
<1> QED
  BY <1>2, <1>3

LEMMA MatchManifestKeeps ==
  ASSUME UserInv, NEW c \in Installers, MatchManifest(c)
  PROVE  UserInv'
<1>1. stage[c] = "final" /\ todo[c] = {} /\ userLock = c /\ HolderInv(c)
  BY DEF MatchManifest, UserInv, LockInv, Holding, Applying
<1>2. CASE manifest # prior[c]
  BY <1>1, <1>2, UndoKeeps DEF MatchManifest, Applying
<1>3. CASE manifest = prior[c]
  <2>1. /\ GotoStage(c, "commit", {}) /\ late' = late \ {ManifestFile}
        /\ UNCHANGED <<file, manifest, userLock, call, prior, hand, saved, start>>
    BY <1>3 DEF MatchManifest
  <2>2. stage'[c] = "commit" /\ todo'[c] = {} /\ Written(c)' = Written(c)
    BY <2>1 DEF GotoStage, Written, UserInv, TypeInv
  <2>3. Apart(c)
    BY <2>1 DEF Apart, LocalOf, GotoStage, UserInv, TypeInv
  <2>4. TypeInv'
    BY <1>1, <2>1 DEF Written, GotoStage, UserInv, TypeInv, IsCall, Holding, Applying
  <2>5. PlannedOf(c)'
    BY <1>1, <2>1, PlannedStays DEF HolderInv
  <2>6. PlaceOf(c)'
    <3>1. Changing(c)' = Changing(c)
      BY <2>1 DEF Changing, Of
    <3> QED
      BY <1>1, <2>2, <3>1 DEF HolderInv, PlaceOf, Applying
  <2>7. FilesOf(c)'
    <3> SUFFICES ASSUME NEW b \in Assets \ late' PROVE FileOf(c, b)'
      BY DEF FilesOf
    <3>1. FileOf(c, b)
      BY <1>1, <2>1, InstallAssumption DEF HolderInv, FilesOf
    <3> QED
      BY <1>1, <2>1, <2>2, <3>1 DEF FileOf, IsNew, Applying
  <2>8. ManifestOf(c)'
    BY <1>1, <1>3, <2>1, <2>2 DEF HolderInv, ManifestOf
  <2> QED
    BY <1>1, <2>1, <2>2, <2>3, <2>4, <2>5, <2>6, <2>7, <2>8, Assembled
    DEF HolderInv, Holding, Applying
<1> QED
  BY <1>2, <1>3

\* The destination in hand is written, or not, or its removal is refused: its
\* old content is saved, and the call goes on or undoes it with the others.
LEMMA WrittenKeeps ==
  ASSUME UserInv, NEW c \in Installers, stage[c] = "write",
         Save(c, hand[c], file[hand[c]]),
         NEW new, new \in Bodies \cup {NoFile},
         call[c].kind[hand[c]] \in {"install", "update"} =>
           new = Body[call[c].version][hand[c]],
         NEW kept \in BOOLEAN,
         file' = IF kept THEN file ELSE [file EXCEPT ![hand[c]] = new],
         \/ ~kept /\ GotoStage(c, "recheck", todo[c])
         \/ GotoStage(c, "undo", DOMAIN saved[c] \cup {hand[c]}),
         hand' = [hand EXCEPT ![c] = Nobody],
         UNCHANGED <<manifest, userLock, call, prior, late, start>>
  PROVE  UserInv'
<1> DEFINE asset == hand[c]
<1>1. userLock = c /\ HolderInv(c) /\ IsCall(call[c])
  BY DEF UserInv, LockInv, TypeInv, Holding, Applying
<1>2. asset \in Changing(c) \ (Written(c) \cup todo[c]) /\ asset \in Assets
  BY <1>1 DEF HolderInv, PlaceOf, Changing, Of, IsCall
<1>3. asset # ManifestFile
  BY <1>2, InstallAssumption
<1>4. /\ Written(c)' = Written(c) \cup {asset}
      /\ saved'[c][asset] = file[asset]
      /\ \A b \in Written(c) \ {asset} : saved'[c][b] = saved[c][b]
  <2>1. saved = [d \in Installers |-> saved[d]]
    BY DEF UserInv, TypeInv
  <2> QED
    BY <2>1, SaveAdds DEF Written
<1>5. /\ stage'[c] \in {"recheck", "undo"}
      /\ stage'[c] = "recheck" => todo'[c] = todo[c] /\ ~kept
      /\ stage'[c] = "undo" => todo'[c] = Written(c)'
  BY <1>4 DEF GotoStage, Written, UserInv, TypeInv
<1>6. /\ ~kept => file'[asset] = new
      /\ kept => file'[asset] = file[asset]
      /\ \A b \in Assets \ {asset} : file'[b] = file[b]
  BY <1>2 DEF UserInv, TypeInv
<1>7. Apart(c)
  BY <1>4, SaveAdds DEF Apart, LocalOf, GotoStage, UserInv, TypeInv
<1>8. TypeInv'
  <2>1. Written(c)' \subseteq Places /\ todo[c] \subseteq Places
    BY <1>1, <1>2, <1>4 DEF HolderInv, PlaceOf, Changing, Of, Places, UserInv, TypeInv, IsCall
  <2>2. file' \in [Assets -> Contents]
    BY <1>2 DEF Contents, UserInv, TypeInv
  <2>3. saved' = [d \in Installers |-> saved'[d]]
    BY SaveAdds DEF UserInv, TypeInv
  <2>4. todo' \in [Installers -> SUBSET Places]
    BY <1>4, <2>1 DEF GotoStage, Written, UserInv, TypeInv
  <2>5. stage' \in [Installers -> {"idle", "wait"} \cup Holding]
    BY DEF GotoStage, UserInv, TypeInv, Holding, Applying
  <2>6. \A d \in Installers : stage'[d] # "idle" => IsCall(call[d])
    BY DEF GotoStage, UserInv, TypeInv
  <2>7. ASSUME NEW d \in Installers, NEW b \in Written(d)' \cap Assets
        PROVE  saved'[d][b] \in Contents
    <3>1. CASE d = c
      BY <1>2, <1>4, <2>7, <3>1 DEF UserInv, TypeInv
    <3>2. CASE d # c
      BY <1>7, <2>7, <3>2 DEF Apart, LocalOf, Written, UserInv, TypeInv
    <3> QED
      BY <3>1, <3>2
  <2> QED
    BY <2>2, <2>3, <2>4, <2>5, <2>6, <2>7 DEF UserInv, TypeInv, IsCall
<1>9. PlannedOf(c)'
  BY <1>1, PlannedStays DEF HolderInv
<1>10. PlaceOf(c)'
  <2>1. Changing(c)' = Changing(c)
    BY DEF Changing, Of
  <2> QED
    BY <1>1, <1>2, <1>3, <1>4, <1>5, <2>1 DEF HolderInv, PlaceOf, Applying
<1>11. FilesOf(c)'
  <2> SUFFICES ASSUME NEW b \in Assets \ late PROVE FileOf(c, b)'
    BY DEF FilesOf
  <2>1. FileOf(c, b)
    BY <1>1 DEF HolderInv, FilesOf
  <2>2. CASE b = asset
    <3>1. file[b] = start[b] /\ Fits(c, b, start[b])
      BY <1>1, <1>2, <2>1, <2>2 DEF FileOf, HolderInv, PlannedOf, Changing, Of
    <3>2. start[b] # Foreign
      BY <1>2, <2>2, <3>1, FitsNotForeign
    <3>3. new # Foreign
      BY InstallAssumption
    <3> QED
      BY <1>4, <1>5, <1>6, <2>2, <3>1, <3>2, <3>3 DEF FileOf, IsNew, Applying
  <2>3. CASE b # asset
    BY <1>4, <1>5, <1>6, <2>1, <2>3 DEF FileOf, IsNew, Applying
  <2> QED
    BY <2>2, <2>3
<1>12. ManifestOf(c)'
  BY <1>1, <1>3, <1>4, <1>5 DEF HolderInv, ManifestOf, PlaceOf, Applying
<1> QED
  BY <1>1, <1>5, <1>7, <1>8, <1>9, <1>10, <1>11, <1>12, Assembled
  DEF HolderInv, Holding, Applying

LEMMA WriteKeeps ==
  ASSUME UserInv, NEW c \in Installers, Write(c)
  PROVE  UserInv'
<1> DEFINE asset   == hand[c]
           removal == call[c].kind[asset] = "remove"
           new     == IF removal THEN NoFile ELSE Body[call[c].version][asset]
<1>1. /\ stage[c] = "write" /\ hand' = [hand EXCEPT ![c] = Nobody]
      /\ UNCHANGED <<manifest, userLock, call, prior, late, start>>
  BY DEF Write
<1>2. new \in Bodies \cup {NoFile}
  <2>1. HolderInv(c) /\ IsCall(call[c])
    BY <1>1 DEF UserInv, TypeInv, Holding, Applying
  <2>2. asset \in Assets /\ call[c].version \in Versions
    BY <1>1, <2>1 DEF HolderInv, PlaceOf, Changing, Of, IsCall
  <2> QED
    BY <2>2 DEF Bodies
<1>3. call[c].kind[asset] \in {"install", "update"} => new = Body[call[c].version][asset]
  OBVIOUS
<1>4. Save(c, asset, file[asset])
  BY DEF Write
<1>5. CASE file' = [file EXCEPT ![asset] = new] /\ GotoStage(c, "recheck", todo[c])
  <2>1. PICK n : n = new
    OBVIOUS
  <2> HIDE DEF new
  <2> QED
    BY <1>1, <1>2, <1>3, <1>4, <1>5, <2>1, WrittenKeeps
<1>6. CASE /\ file' \in {file, [file EXCEPT ![asset] = new]}
           /\ GotoStage(c, "undo", DOMAIN saved[c] \cup {asset})
  <2>1. PICK n : n = new
    OBVIOUS
  <2> HIDE DEF new
  <2> QED
    BY <1>1, <1>2, <1>3, <1>4, <1>6, <2>1, WrittenKeeps
<1> QED
  BY <1>5, <1>6 DEF Write, WriteOutcomes

LEMMA CommitKeeps ==
  ASSUME UserInv, NEW c \in Installers, Commit(c)
  PROVE  UserInv'
<1>1. /\ stage[c] = "commit" /\ userLock = c /\ HolderInv(c) /\ IsCall(call[c])
      /\ UNCHANGED <<file, late, start>>
  BY DEF Commit, UserInv, LockInv, TypeInv, Holding, Applying
<1>2. mergeUserManifest(c) \in Manifests
  BY <1>1 DEF mergeUserManifest, Manifests, Of, HolderInv, PlannedOf, IsCall, Bodies
<1>3. \A a \in Assets \ DOMAIN call[c].kind : mergeUserManifest(c)[a] = prior[c][a]
  BY DEF mergeUserManifest, Of
<1>4. manifest' \in {manifest, mergeUserManifest(c)} /\ manifest' \in Manifests
  BY <1>2 DEF Commit, UserInv, TypeInv
<1>5. CASE ReturnUser(c)
  BY <1>1, <1>4, <1>5, UserReturnKeeps
<1>6. CASE /\ Save(c, ManifestFile, prior[c])
           /\ GotoStage(c, "undo", DOMAIN saved[c] \cup {ManifestFile})
           /\ UNCHANGED <<userLock, call, prior, hand>>
  <2>1. /\ Written(c)' = Written(c) \cup {ManifestFile}
        /\ saved'[c][ManifestFile] = prior[c]
        /\ \A b \in Written(c) \ {ManifestFile} : saved'[c][b] = saved[c][b]
    <3>1. saved = [d \in Installers |-> saved[d]]
      BY DEF UserInv, TypeInv
    <3> QED
      BY <1>6, <3>1, SaveAdds DEF Written
  <2>2. stage'[c] = "undo" /\ todo'[c] = Written(c)'
    BY <1>6, <2>1 DEF GotoStage, Written, UserInv, TypeInv
  <2>3. Apart(c)
    BY <1>6, SaveAdds DEF Apart, LocalOf, GotoStage, UserInv, TypeInv
  <2>4. TypeInv'
    <3>1. Written(c)' \subseteq Places
      BY <1>1, <2>1 DEF HolderInv, PlaceOf, Changing, Of, Places, IsCall
    <3>2. saved' = [d \in Installers |-> saved'[d]]
      BY <1>6, SaveAdds DEF UserInv, TypeInv
    <3>3. todo' \in [Installers -> SUBSET Places]
      BY <1>6, <2>1, <3>1 DEF GotoStage, Written, UserInv, TypeInv
    <3>4. stage' \in [Installers -> {"idle", "wait"} \cup Holding]
      BY <1>6 DEF GotoStage, UserInv, TypeInv, Holding
    <3>5. \A d \in Installers : stage'[d] # "idle" => IsCall(call[d])
      BY <1>1, <1>6 DEF GotoStage, UserInv, TypeInv
    <3>6. ASSUME NEW d \in Installers, NEW b \in Written(d)' \cap Assets
          PROVE  saved'[d][b] \in Contents
      <4>1. CASE d = c
        BY <2>1, <3>6, <4>1, InstallAssumption DEF UserInv, TypeInv
      <4>2. CASE d # c
        BY <2>3, <3>6, <4>2 DEF Apart, LocalOf, Written, UserInv, TypeInv
      <4> QED
        BY <4>1, <4>2
    <3> QED
      BY <1>1, <1>4, <1>6, <3>2, <3>3, <3>4, <3>5, <3>6 DEF UserInv, TypeInv, IsCall
  <2>5. PlannedOf(c)'
    BY <1>1, <1>6, PlannedStays DEF HolderInv
  <2>6. PlaceOf(c)'
    <3>1. Changing(c)' = Changing(c)
      BY <1>6 DEF Changing, Of
    <3> QED
      BY <1>1, <2>1, <2>2, <3>1 DEF HolderInv, PlaceOf, Applying
  <2>7. FilesOf(c)'
    <3> SUFFICES ASSUME NEW b \in Assets \ late PROVE FileOf(c, b)'
      BY <1>1 DEF FilesOf
    <3>1. FileOf(c, b) /\ b # ManifestFile
      BY <1>1, InstallAssumption DEF HolderInv, FilesOf
    <3> QED
      BY <1>1, <2>1, <2>2, <3>1 DEF FileOf, Applying
  <2>8. ManifestOf(c)'
    BY <1>1, <1>3, <1>4, <1>6, <2>1, <2>2 DEF HolderInv, ManifestOf
  <2> QED
    BY <1>1, <1>6, <2>2, <2>3, <2>4, <2>5, <2>6, <2>7, <2>8, Assembled
    DEF HolderInv, Holding
<1> QED
  BY <1>5, <1>6 DEF Commit

\* A file or the manifest is put back, or reported as not restored.
LEMMA UndoOneKeeps ==
  ASSUME UserInv, NEW c \in Installers, NEW a \in Places, UndoOne(c, a)
  PROVE  UserInv'
<1>1. /\ stage[c] = "undo" /\ a \in todo[c] /\ userLock = c /\ HolderInv(c)
      /\ a \in Written(c)
  BY DEF UndoOne, UserInv, LockInv, HolderInv, PlaceOf, Holding
<1>2. /\ GotoStage(c, "undo", todo[c] \ {a})
      /\ UNCHANGED <<userLock, call, prior, hand, saved, start>>
  BY DEF UndoOne
<1>3. stage'[c] = "undo" /\ todo'[c] = todo[c] \ {a} /\ Written(c)' = Written(c)
  BY <1>2 DEF GotoStage, Written, UserInv, TypeInv
<1>4. /\ late \subseteq late'
      /\ a = ManifestFile => file' = file /\ manifest' \in {manifest, saved[c][a]}
      /\ a # ManifestFile => manifest' = manifest
                             /\ file' \in {file, [file EXCEPT ![a] = saved[c][a]]}
      /\ a \notin late' => IF a = ManifestFile THEN manifest' = saved[c][a]
                           ELSE file' = [file EXCEPT ![a] = saved[c][a]]
  BY DEF UndoOne, WriteOutcomes
<1>5. Apart(c)
  BY <1>2 DEF Apart, LocalOf, GotoStage, UserInv, TypeInv
<1>6. TypeInv'
  <2>1. manifest' \in Manifests
    BY <1>1, <1>4 DEF HolderInv, ManifestOf, PlannedOf, UserInv, TypeInv
  <2>2. file' \in [Assets -> Contents]
    BY <1>1, <1>4 DEF Places, UserInv, TypeInv
  <2> QED
    BY <1>1, <1>2, <2>1, <2>2 DEF Written, GotoStage, UserInv, TypeInv, IsCall, Holding
<1>7. PlannedOf(c)'
  BY <1>1, <1>2, PlannedStays DEF HolderInv
<1>8. PlaceOf(c)'
  <2>1. Changing(c)' = Changing(c)
    BY <1>2 DEF Changing, Of
  <2> QED
    BY <1>1, <1>3, <2>1 DEF HolderInv, PlaceOf, Applying
<1>9. FilesOf(c)'
  <2> SUFFICES ASSUME NEW b \in Assets \ late' PROVE FileOf(c, b)'
    BY DEF FilesOf
  <2>1. FileOf(c, b) /\ b # ManifestFile
    BY <1>1, <1>4, InstallAssumption DEF HolderInv, FilesOf
  <2>2. CASE b = a
    <3>1. file'[b] = start[b] /\ saved[c][b] = start[b]
      BY <1>1, <1>4, <2>1, <2>2 DEF FileOf, UserInv, TypeInv
    <3>2. start[b] # Foreign
      <4>1. b \in Changing(c)
        BY <1>1, <2>1, <2>2 DEF HolderInv, PlaceOf
      <4>2. Fits(c, b, start[b])
        BY <1>1, <4>1 DEF HolderInv, PlannedOf, Changing, Of
      <4> QED
        BY <4>1, <4>2, FitsNotForeign
    <3> QED
      BY <1>1, <1>2, <1>3, <2>2, <3>1, <3>2 DEF FileOf, Applying
  <2>3. CASE b # a
    <3>1. file'[b] = file[b]
      BY <1>4, <2>3 DEF UserInv, TypeInv
    <3> QED
      BY <1>1, <1>2, <1>3, <2>1, <2>3, <3>1 DEF FileOf, Applying
  <2> QED
    BY <2>2, <2>3
<1>10. ManifestOf(c)'
  <2>1. CASE a = ManifestFile
    BY <1>1, <1>2, <1>3, <1>4, <2>1 DEF HolderInv, ManifestOf
  <2>2. CASE a # ManifestFile
    BY <1>1, <1>2, <1>3, <1>4, <2>2 DEF HolderInv, ManifestOf
  <2> QED
    BY <2>1, <2>2
<1> QED
  BY <1>1, <1>2, <1>3, <1>5, <1>6, <1>7, <1>8, <1>9, <1>10, Assembled
  DEF HolderInv, Holding

-----------------------------------------------------------------------------
(* Steps around the installers.                                              *)

\* What changes from outside is noted, and nothing is promised of it.
LEMMA EditKeeps ==
  ASSUME UserInv, NEW a \in Assets, EditAsset(a)
  PROVE  UserInv'
<1>1. /\ late' = late \cup {a} /\ UNCHANGED <<manifest, userLock, callVars, start>>
      /\ \A b \in Assets \ {a} : file'[b] = file[b]
      /\ file' \in [Assets -> Contents]
  BY DEF EditAsset, Contents, UserInv, TypeInv
<1>2. TypeInv'
  BY <1>1 DEF callVars, Written, UserInv, TypeInv, IsCall
<1>3. LockInv' /\ NoneWritten'
  BY <1>1 DEF callVars, Written, UserInv, LockInv, NoneWritten
<1>4. ASSUME NEW c \in Installers, stage'[c] \in Holding PROVE HolderInv(c)'
  <2>1. HolderInv(c) /\ UNCHANGED LocalOf(c)
    BY <1>1, <1>4 DEF callVars, LocalOf, UserInv
  <2>2. PlannedOf(c)'
    BY <1>1, <2>1, PlannedStays DEF HolderInv, LocalOf
  <2>3. PlaceOf(c)'
    BY <2>1 DEF HolderInv, PlaceOf, Written, Changing, Of, LocalOf
  <2>4. FilesOf(c)'
    BY <1>1, <2>1 DEF HolderInv, FilesOf, FileOf, Written, IsNew, LocalOf
  <2>5. ManifestOf(c)'
    BY <1>1, <2>1, InstallAssumption DEF HolderInv, ManifestOf, Written, LocalOf
  <2> QED
    BY <2>2, <2>3, <2>4, <2>5 DEF HolderInv
<1> QED
  BY <1>2, <1>3, <1>4 DEF UserInv

LEMMA ChangeRecordKeeps ==
  ASSUME UserInv, NEW a \in Assets, ChangeRecord(a)
  PROVE  UserInv'
<1>1. /\ late' = late \cup {ManifestFile}
      /\ UNCHANGED <<file, userLock, callVars, start>>
      /\ manifest' \in Manifests
  BY DEF ChangeRecord, Manifests, Bodies, UserInv, TypeInv
<1>2. TypeInv'
  BY <1>1 DEF callVars, Written, UserInv, TypeInv, IsCall
<1>3. LockInv' /\ NoneWritten'
  BY <1>1 DEF callVars, Written, UserInv, LockInv, NoneWritten
<1>4. ASSUME NEW c \in Installers, stage'[c] \in Holding PROVE HolderInv(c)'
  <2>1. HolderInv(c) /\ UNCHANGED LocalOf(c)
    BY <1>1, <1>4 DEF callVars, LocalOf, UserInv
  <2>2. PlannedOf(c)'
    BY <1>1, <2>1, PlannedStays DEF HolderInv, LocalOf
  <2>3. PlaceOf(c)'
    BY <2>1 DEF HolderInv, PlaceOf, Written, Changing, Of, LocalOf
  <2>4. FilesOf(c)'
    BY <1>1, <2>1 DEF HolderInv, FilesOf, FileOf, Written, IsNew, LocalOf
  <2>5. ManifestOf(c)'
    BY <1>1, <2>1 DEF HolderInv, ManifestOf, Written, LocalOf
  <2> QED
    BY <2>2, <2>3, <2>4, <2>5 DEF HolderInv
<1> QED
  BY <1>2, <1>3, <1>4 DEF UserInv

-----------------------------------------------------------------------------
(* The invariant.                                                            *)

LEMMA InitIInv ==
  ASSUME UserInit
  PROVE  UserInv
<1>1. \A c \in Installers : stage[c] = "idle" /\ Written(c) = {}
  BY NoDomain DEF UserInit, Written
<1>2. TypeInv
  BY <1>1 DEF UserInit, TypeInv, Manifests, Contents
<1> QED
  BY <1>1, <1>2 DEF UserInv, LockInv, NoneWritten, Holding, Applying

LEMMA StepIInv ==
  ASSUME UserInv, [UserNext]_userVars
  PROVE  UserInv'
<1>1. CASE UNCHANGED userVars
  <2>1. UNCHANGED Shared /\ \A c \in Installers : UNCHANGED LocalOf(c)
    BY <1>1 DEF userVars, callVars, Shared, LocalOf
  <2>2. TypeInv' /\ LockInv' /\ NoneWritten'
    BY <1>1 DEF userVars, callVars, Written, UserInv, TypeInv, IsCall, LockInv, NoneWritten
  <2>3. ASSUME NEW c \in Installers, stage'[c] \in Holding PROVE HolderInv(c)'
    <3>1. HolderInv(c) /\ UNCHANGED <<LocalOf(c), Shared>>
      BY <2>1, <2>3 DEF LocalOf, UserInv
    <3>2. PlannedOf(c)'
      BY <3>1, PlannedStays DEF HolderInv, LocalOf, Shared
    <3>3. PlaceOf(c)'
      BY <3>1 DEF HolderInv, PlaceOf, Written, Changing, Of, LocalOf
    <3>4. FilesOf(c)' /\ ManifestOf(c)'
      BY <3>1 DEF HolderInv, FilesOf, FileOf, ManifestOf, Written, IsNew, LocalOf, Shared
    <3> QED
      BY <3>2, <3>3, <3>4 DEF HolderInv
  <2> QED
    BY <2>2, <2>3 DEF UserInv
<1>2. ASSUME NEW c \in Installers, UserStep(c) PROVE UserInv'
  <2>1. CASE Begin(c)          BY <2>1, BeginKeeps
  <2>2. CASE GiveUpUser(c)     BY <2>2, GiveUpKeeps
  <2>3. CASE Write(c)          BY <2>3, WriteKeeps
  <2>4. CASE BeginFinal(c)     BY <2>4, BeginFinalKeeps
  <2>5. CASE MatchManifest(c)  BY <2>5, MatchManifestKeeps
  <2>6. CASE Commit(c)         BY <2>6, CommitKeeps
  <2>7. CASE EndUndo(c)        BY <2>7, EndUndoKeeps
  <2>8. ASSUME NEW a \in Assets, Recheck(c, a)    PROVE UserInv'
    BY <2>8, RecheckKeeps
  <2>9. ASSUME NEW a \in Assets, FinalCheck(c, a) PROVE UserInv'
    BY <2>9, FinalCheckKeeps
  <2>10. ASSUME NEW a \in Places, UndoOne(c, a)   PROVE UserInv'
    BY <2>10, UndoOneKeeps
  <2> QED
    BY <1>2, <2>1, <2>2, <2>3, <2>4, <2>5, <2>6, <2>7, <2>8, <2>9, <2>10
    DEF UserStep, Places
<1>3. ASSUME NEW c \in Installers, CrashUser(c) PROVE UserInv'
  BY <1>3, CrashKeeps
<1>4. ASSUME NEW c \in Installers, NEW v \in Versions, NEW clients \in SUBSET Clients,
             PlanUserSkills(c, v, clients)
      PROVE  UserInv'
  BY <1>4, PlanKeeps
<1>5. ASSUME NEW a \in Assets, EditAsset(a) PROVE UserInv'
  BY <1>5, EditKeeps
<1>6. ASSUME NEW a \in Assets, ChangeRecord(a) PROVE UserInv'
  BY <1>6, ChangeRecordKeeps
<1> QED
  BY <1>1, <1>2, <1>3, <1>4, <1>5, <1>6 DEF UserNext

\* Everything the files, the manifest and the calls of installers hold together.
THEOREM Reached == UserSpec => []UserInv
  BY InitIInv, StepIInv, PTL DEF UserSpec

-----------------------------------------------------------------------------
(* Nothing that is not Prowl's is lost.                                      *)

LEMMA ForeignStep ==
  ASSUME UserInv, [UserNext]_userVars, NEW a \in Assets,
         file[a] = Foreign, file'[a] # Foreign
  PROVE  a \in late'
<1>1. file' # file
  OBVIOUS
<1>2. ASSUME NEW c \in Installers, Write(c) PROVE a \in late'
  <2>1. stage[c] = "write" /\ HolderInv(c) /\ late' = late
    BY <1>2 DEF Write, UserInv, Holding, Applying
  <2>2. hand[c] \in Changing(c) \ Written(c)
    BY <2>1 DEF HolderInv, PlaceOf
  <2>3. hand[c] = a
    BY <1>2, <2>2 DEF Write, Changing, Of, UserInv, TypeInv
  <2>4. Fits(c, a, start[a])
    BY <2>1, <2>2, <2>3 DEF HolderInv, PlannedOf, Changing, Of
  <2>5. start[a] # Foreign
    BY <2>2, <2>3, <2>4, FitsNotForeign
  <2>6. a \notin late => file[a] = start[a]
    BY <2>1, <2>2, <2>3 DEF HolderInv, FilesOf, FileOf
  <2> QED
    BY <2>1, <2>5, <2>6
<1>3. ASSUME NEW c \in Installers, NEW b \in Places, UndoOne(c, b) PROVE a \in late'
  <2>1. /\ stage[c] = "undo" /\ b \in todo[c] /\ HolderInv(c) /\ late \subseteq late'
        /\ b \in Written(c)
    BY <1>3 DEF UndoOne, UserInv, HolderInv, PlaceOf, Holding
  <2>2. b = a
    BY <1>1, <1>3 DEF UndoOne, UserInv, TypeInv
  <2>3. a \notin late => file[a] # Foreign
    BY <2>1, <2>2 DEF HolderInv, FilesOf, FileOf
  <2> QED
    BY <2>1, <2>3
<1>4. ASSUME NEW b \in Assets, EditAsset(b) PROVE a \in late'
  BY <1>4 DEF EditAsset, UserInv, TypeInv
<1> QED
  BY <1>1, <1>2, <1>3, <1>4
  DEF UserNext, UserStep, userVars, Places, Begin, GiveUpUser, BeginFinal, MatchManifest,
      Commit, EndUndo, Recheck, FinalCheck, CrashUser, PlanUserSkills, ChangeRecord

LEMMA CommitState ==
  ASSUME UserInv, NEW c \in Installers, stage[c] = "commit",
         NEW a \in DOMAIN call[c].kind \ late,
         call[c].kind[a] \in {"install", "update", "unchanged"}
  PROVE  file[a] = mergeUserManifest(c)[a]
<1>1. HolderInv(c) /\ IsCall(call[c]) /\ a \in Assets
  BY DEF UserInv, TypeInv, IsCall, Holding, Applying
<1>2. FileOf(c, a) /\ Fits(c, a, start[a])
  BY <1>1 DEF HolderInv, FilesOf, PlannedOf
<1>3. mergeUserManifest(c)[a] = Body[call[c].version][a]
  BY <1>1 DEF mergeUserManifest, Of
<1>4. CASE call[c].kind[a] = "unchanged"
  <2>1. a \notin Written(c)
    BY <1>1, <1>4, InstallAssumption DEF HolderInv, PlaceOf, Changing, Of
  <2> QED
    BY <1>2, <1>3, <1>4, <2>1 DEF FileOf, Fits
<1>5. CASE call[c].kind[a] \in {"install", "update"}
  <2>1. a \in Written(c)
    BY <1>1, <1>5 DEF HolderInv, PlaceOf, Changing, Of
  <2> QED
    BY <1>2, <1>3, <1>5, <2>1 DEF FileOf, IsNew, Applying
<1> QED
  BY <1>4, <1>5

LEMMA OwnershipStep ==
  ASSUME UserInv, [UserNext]_userVars, NEW c \in Installers,
         stage[c] \in {"commit", "undo"}, manifest' # manifest, ManifestFile \notin late',
         NEW a \in Assets \ DOMAIN call[c].kind
  PROVE  manifest'[a] = manifest[a]
<1>1. HolderInv(c) /\ userLock = c
  BY DEF UserInv, LockInv, Holding, Applying
<1>2. ASSUME NEW d \in Installers, Commit(d) PROVE manifest'[a] = manifest[a]
  <2>1. d = c /\ late' = late
    BY <1>1, <1>2 DEF Commit, UserInv, LockInv, Holding, Applying
  <2>2. manifest' = mergeUserManifest(c)
    BY <1>2, <2>1 DEF Commit
  <2>3. mergeUserManifest(c)[a] = prior[c][a]
    BY DEF mergeUserManifest, Of
  <2> QED
    BY <1>1, <2>1, <2>2, <2>3 DEF HolderInv, ManifestOf
<1>3. ASSUME NEW d \in Installers, NEW b \in Places, UndoOne(d, b)
      PROVE  manifest'[a] = manifest[a]
  <2>1. d = c /\ late \subseteq late' /\ b \in Written(c)
    BY <1>1, <1>3 DEF UndoOne, UserInv, LockInv, HolderInv, PlaceOf, Holding
  <2>2. b = ManifestFile /\ manifest' = saved[c][b]
    BY <1>3, <2>1 DEF UndoOne
  <2> QED
    BY <1>1, <2>1, <2>2 DEF HolderInv, ManifestOf
<1>4. ASSUME NEW b \in Assets, ChangeRecord(b) PROVE FALSE
  BY <1>4 DEF ChangeRecord
<1> QED
  BY <1>2, <1>3, <1>4
  DEF UserNext, UserStep, userVars, Places, Begin, GiveUpUser, Write, BeginFinal,
      MatchManifest, EndUndo, Recheck, FinalCheck, CrashUser, PlanUserSkills, EditAsset

\* Bytes Prowl did not write are kept, a committed manifest says what the files
\* hold, and no step changes a record outside its plan; each up to what was
\* changed from outside after its last check.
THEOREM OthersAreKept == UserSpec => OthersKept
<1>1. UserInv /\ [UserNext]_userVars =>
        [\A a \in Assets : file[a] = Foreign /\ file'[a] # Foreign => a \in late']_userVars
  BY ForeignStep
<1>2. UserInv /\ [UserNext]_userVars =>
        [\A c \in Installers :
           stage[c] = "commit" /\ manifest' = mergeUserManifest(c) /\ stage'[c] = "idle" =>
             \A a \in DOMAIN call[c].kind \ late :
               call[c].kind[a] \in {"install", "update", "unchanged"} =>
                 file[a] = manifest'[a]]_userVars
  BY CommitState
<1>3. UserInv /\ [UserNext]_userVars =>
        [\A c \in Installers : stage[c] \in {"commit", "undo"} /\ manifest' # manifest =>
           \/ ManifestFile \in late'
           \/ \A a \in Assets \ DOMAIN call[c].kind : manifest'[a] = manifest[a]]_userVars
  BY OwnershipStep
<1> QED
  BY <1>1, <1>2, <1>3, Reached, PTL
  DEF UserSpec, OthersKept, RecordIsTrue, ForeignBytesKept, CommitIsTrue, OwnershipKept

-----------------------------------------------------------------------------
(* A failed install leaves no trace.                                         *)

LEMMA UndoneState ==
  ASSUME UserInv, NEW c \in Installers, stage[c] = "undo", todo[c] = {}
  PROVE  /\ \A a \in Assets \ late : file[a] = start[a]
         /\ ManifestFile \notin late => manifest = prior[c]
<1>1. HolderInv(c)
  BY DEF UserInv, Holding
<1> QED
  BY <1>1 DEF HolderInv, FilesOf, FileOf, ManifestOf

\* When the last undo step is done, every file is what it was when the lock was
\* taken and the manifest the one read then, but for changes from outside and
\* for what the undo reports it could not restore.
THEOREM UndoIsComplete == UserSpec => UndoRestores
<1>1. UserInv /\ [UserNext]_userVars =>
        [\A c \in Installers : EndUndo(c) =>
           /\ \A a \in Assets \ late : file[a] = start[a]
           /\ ManifestFile \notin late => manifest = prior[c]]_userVars
  BY UndoneState DEF EndUndo
<1> QED
  BY <1>1, Reached, PTL DEF UserSpec, UndoRestores
==========================================================================
