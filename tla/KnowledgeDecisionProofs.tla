---------------------- MODULE KnowledgeDecisionProofs ----------------------
(***************************************************************************)
(* What a decision promises, for any clients, proposals, documents and     *)
(* requests, and for any bounds, under every crash, failure and edit: it   *)
(* is final (DecisionFinal), the answer to it stays true (AnswerIsTrue),   *)
(* what a hand wrote before a file was compared survives it (EditsKept),   *)
(* and it is atomic (BundleAgrees).                                        *)
(***************************************************************************)
EXTENDS KnowledgeDecision, FiniteSetTheorems, SequenceTheorems, TLAPS

-----------------------------------------------------------------------------
(* Files and lines.                                                        *)

LEMMA FilesOfProposal ==
  ASSUME NEW p \in Proposals
  PROVE  /\ Target[p] \in Documents /\ Target[p] # "index" /\ Target[p] # "log"
         /\ ToSet(FilesOf(p)) = {Target[p], "index", "log"}
         /\ ToSet(FilesOf(p)) \subseteq Files
         /\ FilesOf(p)[1] = Target[p] /\ FilesOf(p)[2] = "index" /\ FilesOf(p)[3] = "log"
         /\ \A i \in 1..3 : FilesOf(p)[i] \in ToSet(FilesOf(p))
         /\ \A f \in ToSet(FilesOf(p)) : \E i \in 1..3 : f = FilesOf(p)[i]
         /\ \A i, k \in 1..3 : FilesOf(p)[i] = FilesOf(p)[k] => i = k
<1>1. Target[p] \in Documents /\ Target[p] # "index" /\ Target[p] # "log"
  BY TargetAssumption, NamesAssumption
<1>2. ToSet(FilesOf(p)) = {Target[p], "index", "log"}
  BY DEF ToSet, FilesOf
<1>3. FilesOf(p)[1] = Target[p] /\ FilesOf(p)[2] = "index" /\ FilesOf(p)[3] = "log"
  BY DEF FilesOf
<1>4. \A i, k \in 1..3 : FilesOf(p)[i] = FilesOf(p)[k] => i = k
  BY <1>1, <1>3
<1> QED
  BY <1>1, <1>2, <1>3, <1>4 DEF Files

LogLine == Proposals \union {Editor}

LEMMA LogIsSequence ==
  ASSUME NEW log \in LogFile
  PROVE  log \in Seq(LogLine) /\ Len(log) \in 0..MaxLog
<1>1. PICK n \in 0..MaxLog : log \in [1..n -> LogLine]
  BY DEF LogFile, LogLine
<1>2. n \in Nat
  BY BoundsAssumption
<1> QED
  BY <1>1, <1>2

LEMMA LogGrows ==
  ASSUME NEW log \in LogFile, Len(log) < MaxLog, NEW e \in LogLine
  PROVE  Append(log, e) \in LogFile
<1>1. log \in Seq(LogLine) /\ Len(log) \in 0..MaxLog
  BY LogIsSequence
<1>2. Append(log, e) \in Seq(LogLine) /\ Len(Append(log, e)) = Len(log) + 1
  BY <1>1, AppendProperties
<1>3. Append(log, e) \in [1..Len(log) + 1 -> LogLine]
  BY <1>2, LenProperties
<1>4. Len(log) + 1 \in 0..MaxLog
  BY <1>1, BoundsAssumption
<1> QED
  BY <1>3, <1>4 DEF LogFile, LogLine

\* A line more is one line more about what it is about, and nothing else.
LEMMA LinesAfterAppend ==
  ASSUME NEW log \in LogFile, NEW e \in LogLine, NEW x \in LogLine
  PROVE  /\ Lines(log, e) \in Nat
         /\ Lines(Append(log, x), e) = IF x = e THEN Lines(log, e) + 1 ELSE Lines(log, e)
<1> DEFINE At(s) == {i \in DOMAIN s : s[i] = e}
           n == Len(log)
<1>1. log \in Seq(LogLine) /\ n \in Nat /\ DOMAIN log = 1..n
  BY LogIsSequence, LenProperties
<1>2. DOMAIN Append(log, x) = 1..n + 1 /\ Append(log, x)[n + 1] = x
      /\ \A i \in 1..n : Append(log, x)[i] = log[i]
  BY <1>1, AppendProperties, LenProperties
<1>3. IsFiniteSet(1..n) /\ At(log) \in SUBSET (1..n)
  BY <1>1, FS_Interval
<1>4. IsFiniteSet(At(log)) /\ Cardinality(At(log)) \in Nat
  BY <1>3, FS_Subset, FS_CardinalityType
<1>5. CASE x = e
  <2>1. At(Append(log, x)) = At(log) \union {n + 1} /\ n + 1 \notin At(log)
    BY <1>1, <1>2, <1>5
  <2>2. Cardinality(At(log) \union {n + 1}) = Cardinality(At(log)) + 1
    BY <1>4, <2>1, FS_AddElement
  <2> QED
    BY <1>4, <1>5, <2>1, <2>2 DEF Lines
<1>6. CASE x # e
  <2>1. At(Append(log, x)) = At(log)
    BY <1>1, <1>2, <1>6
  <2> QED
    BY <1>4, <1>6, <2>1 DEF Lines
<1> QED
  BY <1>5, <1>6

-----------------------------------------------------------------------------
(* The invariant of calls, records and journals.                           *)

Holding == Steps \ {"idle", "lock"}
Fresh == {"version", "load", "prepare", "reject"}
Writing == {"write", "replace", "commit"}
Clearing == {"restore", "undo", "remove"}

\* What a call knows of its proposal, by where it is.
CallFits(c) ==
  LET p == client[c].proposal IN
  /\ lock = c <=> client[c].pc \in Holding
  /\ client[c].pc # "idle" =>
       /\ p \in Proposals /\ record[p] # None
       /\ client[c].verdict \in Verdicts /\ client[c].version \in Statuses \X Nat
  /\ client[c].pc \in Fresh => journal[p] = None /\ record[p].audit = None
  /\ client[c].pc \in Writing => journal[p] # None /\ record[p].audit = None
  /\ client[c].pc \in Clearing => journal[p] # None
  /\ client[c].pc = "prepare" => client[c].text \in 0..candidate[p]
  /\ client[c].pc \notin {"write", "replace"} => client[c].step = 1
CallsInv ==
  /\ client \in [Clients -> Call] /\ lock \in Clients \union {Nobody}
  /\ \A c \in Clients : CallFits(c)

InboxInv ==
  /\ events \in 0..MaxEvents
  /\ candidate \in [Proposals -> Nat]
  /\ \A p \in Proposals : candidate[p] <= events
  /\ record = [p \in Proposals |-> record[p]]
  /\ journal = [p \in Proposals |-> journal[p]]

BundleInv ==
  /\ bundle = [f \in Files |-> bundle[f]]
  /\ \A f \in Files : Fits(f, bundle[f])
  /\ bundle["index"].edits <= events

RecordInv == \A p \in Proposals : record[p] # None =>
  record[p] \in Record /\ (record[p].status = "proposed" <=> record[p].audit = None)

\* What a journal of p keeps: the files before, and what is to become of them.
\* No text is newer than the last, no edit later than those made.
Kept(p, j, last, made) ==
  /\ j.text \in 0..last /\ j.expected \in Nat /\ j.final \in Nat
  /\ \A f \in ToSet(FilesOf(p)) : Fits(f, j.before[f]) /\ Fits(f, j.after[f])
  /\ j.before["index"].edits = j.after["index"].edits /\ j.after["index"].edits <= made
  /\ j.after["log"] = Append(j.before["log"], p)
  /\ j.after[Target[p]] \in {p} \X Revisions
  /\ Target[p] \in j.after["index"].listed

KeptInv == \A p \in Proposals : journal[p] # None =>
  Kept(p, journal[p], candidate[p], events) /\ record[p] # None /\ record[p].status # "rejected"

IInv == CallsInv /\ InboxInv /\ BundleInv /\ RecordInv /\ KeptInv

LEMMA FitsEach ==
  ASSUME NEW x
  PROVE  /\ Fits("index", x) <=> x \in IndexFile
         /\ Fits("log", x) <=> x \in LogFile
         /\ \A d \in Documents : Fits(d, x) <=> x \in Text
<1>1. \A d \in Documents : d # "index" /\ d # "log"
  BY NamesAssumption
<1> QED
  BY <1>1 DEF Fits

LEMMA InitIInv == Init => IInv
<1> SUFFICES ASSUME Init PROVE IInv
  OBVIOUS
<1>1. \A c \in Clients : client[c] = Idle
  BY DEF Init
<1>2. Idle \in Call /\ Idle.pc = "idle" /\ Idle.step = 1
  BY DEF Idle, Request, Call, Steps
<1>3. CallsInv
  <2>1. client \in [Clients -> Call] /\ lock = Nobody
    BY <1>2 DEF Init
  <2>2. ASSUME NEW c \in Clients PROVE CallFits(c)
    BY <1>1, <1>2, <2>1, NamesAssumption DEF CallFits, Holding, Fresh, Writing, Clearing
  <2> QED
    BY <2>1, <2>2 DEF CallsInv
<1>4. InboxInv
  BY BoundsAssumption DEF Init, InboxInv
<1>5. RecordInv /\ KeptInv
  BY DEF Init, RecordInv, KeptInv
<1>6. BundleInv
  <2>1. /\ bundle["index"] = [listed |-> Present, edits |-> 0] /\ bundle["log"] = <<>>
        /\ bundle = [f \in Files |-> bundle[f]] /\ events = 0
        /\ \A d \in Documents : bundle[d] \in {Old, NoFile}
    BY NamesAssumption DEF Init, Files
  <2>2. bundle["index"] \in IndexFile /\ bundle["index"].edits <= events
    BY <2>1, SubsetsAssumption, BoundsAssumption DEF IndexFile
  <2>3. bundle["log"] \in LogFile
    <3>1. <<>> \in [1..0 -> LogLine] /\ 0 \in 0..MaxLog
      BY BoundsAssumption
    <3> QED
      BY <2>1, <3>1 DEF LogFile, LogLine
  <2>4. \A d \in Documents : bundle[d] \in Text
    BY <2>1 DEF Text
  <2> QED
    BY <2>1, <2>2, <2>3, <2>4, FitsEach DEF BundleInv, Files
<1> QED
  BY <1>3, <1>4, <1>5, <1>6 DEF IInv

-----------------------------------------------------------------------------
(* What each action makes of the call that takes it.                       *)

Others(c) == \A d \in Clients \ {c} : client'[d] = client[d]

SameRequest(c) ==
  /\ client'[c].proposal = client[c].proposal /\ client'[c].verdict = client[c].verdict
  /\ client'[c].version = client[c].version /\ client'[c].answer = client[c].answer

\* The call is at another step of the same request.
Goes(c, to, final, text, step, todo, then) ==
  /\ client' \in [Clients -> Call] /\ Others(c) /\ SameRequest(c)
  /\ client'[c].pc = to /\ client'[c].final = final /\ client'[c].text = text
  /\ client'[c].step = step /\ client'[c].todo = todo /\ client'[c].then = then

\* It is at another step, and knows nothing new.
GoesOn(c, to, then) ==
  Goes(c, to, client[c].final, client[c].text, client[c].step, client[c].todo, then)

\* The call begins, waits or ends; nothing else changes, and what is answered
\* is replayed or was confirmed.
Quiet(c) ==
  /\ client' \in [Clients -> Call] /\ Others(c)
  /\ client'[c].pc \in {"idle", "lock", "recover"} /\ client'[c].step = 1
  /\ client'[c].pc = "idle" => lock' = IF lock = c THEN Nobody ELSE lock
  /\ client'[c].pc = "lock" => client[c].pc = "idle" /\ UNCHANGED lock /\ ~client'[c].answer
  /\ client'[c].pc = "recover" => client[c].pc = "lock" /\ lock = Nobody /\ lock' = c
  /\ client'[c].pc # "idle" =>
       /\ client'[c].proposal \in Proposals /\ record[client'[c].proposal] # None
       /\ client'[c].verdict \in Verdicts /\ client'[c].version \in Statuses \X Nat
       /\ client'[c].answer => client[c].answer
  /\ client'[c].answer =>
       /\ client'[c].proposal = client[c].proposal /\ client'[c].verdict = client[c].verdict
       /\ client'[c].version = client[c].version
       /\ \/ client[c].answer
          \/ Deciding(c) /\ IsReplay(c)
          \/ client[c].pc = "confirm" /\ candidate[client[c].proposal] = client[c].final
  /\ UNCHANGED <<record, candidate, journal, bundle, events, history>>

LEMMA Became ==
  ASSUME IInv, NEW c \in Clients, NEW k \in Call, Becomes(c, k)
  PROVE  client' \in [Clients -> Call] /\ client'[c] = k /\ Others(c)
  BY DEF IInv, CallsInv, Becomes, Others

\* A return with an answer keeps the request; without one nothing is answered.
LEMMA Returned ==
  ASSUME IInv, NEW c \in Clients, NEW x \in BOOLEAN, Return(c, x)
  PROVE  /\ client' \in [Clients -> Call] /\ Others(c)
         /\ client'[c].pc = "idle" /\ client'[c].step = 1 /\ lock' = Nobody
         /\ client'[c].answer =>
              /\ x /\ client'[c].proposal = client[c].proposal
              /\ client'[c].verdict = client[c].verdict /\ client'[c].version = client[c].version
<1>0. client[c] \in Call
  BY DEF IInv, CallsInv
<1>1. CASE x
  <2> DEFINE k == Request(client[c].proposal, client[c].verdict, client[c].version, "idle", TRUE)
  <2>1. Becomes(c, k)
    BY <1>1 DEF Return
  <2>2. /\ k \in Call /\ k.pc = "idle" /\ k.step = 1 /\ k.proposal = client[c].proposal
        /\ k.verdict = client[c].verdict /\ k.version = client[c].version
    BY <1>0 DEF Request, Call, Steps
  <2> HIDE DEF k
  <2> QED
    BY <1>1, <2>1, <2>2, Became DEF Return
<1>2. CASE ~x
  <2>1. Becomes(c, Idle)
    BY <1>2 DEF Return
  <2>2. Idle \in Call /\ Idle.pc = "idle" /\ Idle.step = 1 /\ ~Idle.answer
    BY DEF Idle, Request, Call, Steps
  <2> QED
    BY <1>2, <2>1, <2>2, Became DEF Return
<1> QED
  BY <1>1, <1>2

\* The lock's holder returns without an answer, or with one it has reasons for.
LEMMA ReturnQuiet ==
  ASSUME IInv, NEW c \in Clients, NEW x \in BOOLEAN, Return(c, x), client[c].pc \in Holding,
         x => \/ Deciding(c) /\ IsReplay(c)
              \/ client[c].pc = "confirm" /\ candidate[client[c].proposal] = client[c].final,
         UNCHANGED <<record, candidate, journal, bundle, events, history>>
  PROVE  Quiet(c)
<1>1. lock = c
  BY DEF IInv, CallsInv, CallFits
<1> QED
  BY <1>1, Returned DEF Quiet

LEMMA DescribeQuiet ==
  ASSUME IInv, NEW c \in Clients, NEW r \in Requests, Describe(c, r[1], r[2])
  PROVE  Quiet(c)
<1> DEFINE k == Request(r[1], r[2], Version(r[1]), "lock", FALSE)
<1>1. r[1] \in Proposals /\ r[2] \in Verdicts /\ record[r[1]] # None
  BY SubsetsAssumption DEF Describe, Verdicts
<1>2. Version(r[1]) \in Statuses \X Nat
  BY <1>1 DEF Version, IInv, InboxInv, RecordInv, Record
<1>3. k \in Call
  BY <1>1, <1>2 DEF Request, Call, Steps
<1>4. /\ k.pc = "lock" /\ k.proposal = r[1] /\ k.verdict = r[2] /\ k.version = Version(r[1])
      /\ ~k.answer /\ k.step = 1
  BY DEF Request
<1>5. client' \in [Clients -> Call] /\ client'[c] = k /\ Others(c)
  BY <1>3, Became DEF Describe
<1> HIDE DEF k
<1> QED
  BY <1>1, <1>2, <1>4, <1>5 DEF Describe, Quiet, inbox

LEMMA LockInboxQuiet ==
  ASSUME IInv, NEW c \in Clients, LockInbox(c)
  PROVE  Quiet(c)
<1> DEFINE k == [client[c] EXCEPT !.pc = "recover"]
<1>1. client[c] \in Call /\ CallFits(c)
  BY DEF IInv, CallsInv
<1>2. k \in Call /\ k.pc = "recover" /\ k.proposal = client[c].proposal
      /\ k.verdict = client[c].verdict /\ k.version = client[c].version
      /\ k.step = client[c].step /\ k.answer = client[c].answer
  BY <1>1 DEF Call, Steps
<1>3. client' \in [Clients -> Call] /\ client'[c] = k /\ Others(c)
  BY <1>2, Became DEF LockInbox
<1> HIDE DEF k
<1> QED
  BY <1>1, <1>2, <1>3 DEF LockInbox, Quiet, inbox, CallFits

LEMMA CrashQuiet ==
  ASSUME IInv, NEW c \in Clients, Crash(c) PROVE Quiet(c)
<1>1. Idle \in Call /\ Idle.pc = "idle" /\ ~Idle.answer /\ Idle.step = 1
  BY DEF Idle, Request, Call, Steps
<1>2. client' \in [Clients -> Call] /\ client'[c] = Idle /\ Others(c)
  BY <1>1, Became DEF Crash
<1> QED
  BY <1>1, <1>2 DEF Crash, Quiet, inbox

LEMMA ReplayQuiet ==
  ASSUME IInv, NEW c \in Clients, Replay(c) PROVE Quiet(c)
<1>1. /\ Deciding(c) /\ IsReplay(c) /\ Return(c, TRUE) /\ client[c].pc \in Holding
      /\ UNCHANGED <<record, candidate, journal, bundle, events, history>>
  BY DEF Replay, inbox, Deciding, Holding, Steps
<1> QED
  BY <1>1, ReturnQuiet

LEMMA RefuseQuiet ==
  ASSUME IInv, NEW c \in Clients, Refuse(c) PROVE Quiet(c)
<1>1. /\ Return(c, FALSE) /\ client[c].pc \in Holding
      /\ UNCHANGED <<record, candidate, journal, bundle, events, history>>
  BY DEF Refuse, inbox, Deciding, Holding, Steps
<1> QED
  BY <1>1, ReturnQuiet

LEMMA ConfirmQuiet ==
  ASSUME IInv, NEW c \in Clients, Confirm(c) PROVE Quiet(c)
<1> DEFINE x == candidate[client[c].proposal] = client[c].final
<1>1. /\ Return(c, x) /\ x \in BOOLEAN /\ client[c].pc = "confirm" /\ client[c].pc \in Holding
      /\ UNCHANGED <<record, candidate, journal, bundle, events, history>>
  BY DEF Confirm, inbox, Holding, Steps
<1>2. x => client[c].pc = "confirm" /\ candidate[client[c].proposal] = client[c].final
  BY <1>1
<1> HIDE DEF x
<1> QED
  BY <1>1, <1>2, ReturnQuiet

LEMMA RecoverForwardGoes ==
  ASSUME IInv, NEW c \in Clients, RecoverForward(c)
  PROVE  GoesOn(c, "remove", "recover")
<1> DEFINE k == [client[c] EXCEPT !.pc = "remove", !.then = "recover"]
<1>1. client[c] \in Call /\ Becomes(c, k)
  BY DEF RecoverForward, IInv, CallsInv
<1>2. k \in Call
  BY <1>1 DEF Call, Steps
<1>3. client' \in [Clients -> Call] /\ client'[c] = k /\ Others(c)
  BY <1>1, <1>2, Became
<1> QED
  BY <1>1, <1>3 DEF GoesOn, Goes, SameRequest, Call

LEMMA RecoverBackGoes ==
  ASSUME IInv, NEW c \in Clients, RecoverBack(c)
  PROVE  \E then \in {"recover", "refuse"} :
           Goes(c, "restore", client[c].final, client[c].text, 1, client[c].todo, then)
<1> DEFINE then == IF candidate[client[c].proposal] = journal[client[c].proposal].text
                   THEN "recover" ELSE "refuse"
           k == [client[c] EXCEPT !.pc = "restore", !.step = 1, !.then = then]
<1>1. client[c] \in Call /\ Becomes(c, k) /\ then \in {"recover", "refuse"}
  BY DEF RecoverBack, IInv, CallsInv
<1> HIDE DEF then
<1>2. k \in Call
  <2>1. then \in {"recover", "refuse", "accept"} /\ 1 \in 1..3
    BY <1>1
  <2> QED
    BY <1>1, <2>1 DEF Call, Steps
<1>3. client' \in [Clients -> Call] /\ client'[c] = k /\ Others(c)
  BY <1>1, <1>2, Became
<1>4. Goes(c, "restore", client[c].final, client[c].text, 1, client[c].todo, then)
  BY <1>1, <1>3 DEF Goes, SameRequest, Call
<1> QED
  BY <1>1, <1>4

\* The files that hold the transaction's result and not the snapshot.
Dirty(c) == LET p == client[c].proposal
                f(i) == FilesOf(p)[i] IN
  {i \in 1..3 : bundle[f(i)] = journal[p].after[f(i)] /\ bundle[f(i)] # journal[p].before[f(i)]}

LEMMA CompareAllGoes ==
  ASSUME IInv, NEW c \in Clients, CompareAll(c)
  PROVE  \E then \in {client[c].then, "refuse"} :
           Goes(c, "undo", client[c].final, client[c].text, client[c].step, Dirty(c), then)
<1> DEFINE p == client[c].proposal
           f(i) == FilesOf(p)[i]
           same(i) == bundle[f(i)] = journal[p].before[f(i)]
           mine(i) == bundle[f(i)] = journal[p].after[f(i)]
           todo == {i \in 1..3 : mine(i) /\ ~same(i)}
           then == IF \A i \in 1..3 : mine(i) \/ same(i) THEN client[c].then ELSE "refuse"
           k == [client[c] EXCEPT !.pc = "undo", !.todo = todo, !.then = then]
<1>1. client[c] \in Call /\ Becomes(c, k)
  BY DEF CompareAll, IInv, CallsInv
<1>2. todo = Dirty(c) /\ todo \in SUBSET (1..3)
  BY DEF Dirty
<1>3. then \in {client[c].then, "refuse"}
  OBVIOUS
<1> HIDE DEF todo, then
<1>4. k \in Call
  BY <1>1, <1>2, <1>3 DEF Call, Steps
<1>5. client' \in [Clients -> Call] /\ client'[c] = k /\ Others(c)
  BY <1>1, <1>4, Became
<1>6. Goes(c, "undo", client[c].final, client[c].text, client[c].step, todo, then)
  BY <1>1, <1>5 DEF Goes, SameRequest, Call
<1> QED
  BY <1>2, <1>3, <1>6

\* One of the files to be restored is.
Restores(c) == LET p == client[c].proposal IN
  \E i \in client[c].todo :
    /\ client[c].pc = "undo"
    /\ bundle' = [bundle EXCEPT ![FilesOf(p)[i]] = journal[p].before[FilesOf(p)[i]]]
    /\ Written(p, FilesOf(p)[i])
    /\ Goes(c, "undo", client[c].final, client[c].text, client[c].step,
            client[c].todo \ {i}, client[c].then)
    /\ UNCHANGED <<record, candidate, journal, lock, events>>

\* A finite set of numbers has a least.
LEMMA LeastOfThree ==
  ASSUME NEW S \in SUBSET (1..3), S # {}
  PROVE  \E i \in S : \A j \in S : i <= j
<1>1. CASE 1 \in S
  BY <1>1
<1>2. CASE 1 \notin S /\ 2 \in S
  BY <1>2
<1>3. CASE 1 \notin S /\ 2 \notin S
  <2>1. PICK i \in S : TRUE
    OBVIOUS
  <2>2. \A j \in S : j = 3
    BY <1>3
  <2> QED
    BY <2>1, <2>2
<1> QED
  BY <1>1, <1>2, <1>3

LEMMA RestoreGoes ==
  ASSUME IInv, NEW c \in Clients, Restore(c)
  PROVE  Restores(c)
<1> DEFINE p == client[c].proposal
           i == CHOOSE n \in client[c].todo : \A m \in client[c].todo : n <= m
           k == [client[c] EXCEPT !.todo = client[c].todo \ {i}]
<1>1. client[c] \in Call /\ client[c].todo # {} /\ client[c].todo \in SUBSET (1..3)
  BY DEF Restore, IInv, CallsInv, Call
<1>2. i \in client[c].todo
  BY <1>1, LeastOfThree
<1>3. /\ client[c].pc = "undo" /\ Becomes(c, k)
      /\ bundle' = [bundle EXCEPT ![FilesOf(p)[i]] = journal[p].before[FilesOf(p)[i]]]
      /\ Written(p, FilesOf(p)[i]) /\ UNCHANGED <<record, candidate, journal, lock, events>>
  BY DEF Restore, inbox
<1> HIDE DEF i
<1>4. k \in Call
  BY <1>1 DEF Call
<1>5. client' \in [Clients -> Call] /\ client'[c] = k /\ Others(c)
  BY <1>3, <1>4, Became
<1>6. Goes(c, "undo", client[c].final, client[c].text, client[c].step,
           client[c].todo \ {i}, client[c].then)
  BY <1>1, <1>3, <1>5 DEF Goes, SameRequest, Call
<1> QED
  BY <1>2, <1>3, <1>6 DEF Restores

\* All are, and none holds the result.
Clears(c) == LET p == client[c].proposal IN
  /\ client[c].pc = "undo" /\ client[c].todo = {}
  /\ \E then \in {client[c].then, "refuse"} : GoesOn(c, "remove", then)
  /\ UNCHANGED <<record, candidate, journal, bundle, lock, events, history>>

LEMMA CheckRestoredCases ==
  ASSUME IInv, NEW c \in Clients, CheckRestored(c)
  PROVE  Clears(c) \/ Quiet(c)
<1> DEFINE p == client[c].proposal
           f(i) == FilesOf(p)[i]
           same(i) == bundle[f(i)] = journal[p].before[f(i)]
           then == IF \A i \in 1..3 : same(i) THEN client[c].then ELSE "refuse"
           k == [client[c] EXCEPT !.pc = "remove", !.then = then]
<1>1. /\ client[c] \in Call /\ client[c].pc = "undo" /\ client[c].todo = {}
      /\ UNCHANGED <<record, candidate, journal, bundle, events, history>>
      /\ client[c].pc \in Holding
  BY DEF CheckRestored, IInv, CallsInv, inbox, Holding, Steps
<1>2. Return(c, FALSE) \/ (Becomes(c, k) /\ UNCHANGED lock)
  BY DEF CheckRestored
<1>3. CASE Return(c, FALSE)
  BY <1>1, <1>3, ReturnQuiet
<1>4. CASE Becomes(c, k) /\ UNCHANGED lock
  <2>1. then \in {client[c].then, "refuse"}
    OBVIOUS
  <2> HIDE DEF then
  <2>2. k \in Call
    BY <1>1, <2>1 DEF Call, Steps
  <2>3. client' \in [Clients -> Call] /\ client'[c] = k /\ Others(c)
    BY <1>4, <2>2, Became
  <2>4. GoesOn(c, "remove", then)
    BY <1>1, <2>3 DEF GoesOn, Goes, SameRequest, Call
  <2> QED
    BY <1>1, <1>4, <2>1, <2>4 DEF Clears
<1> QED
  BY <1>2, <1>3, <1>4

\* The journal goes, and the call starts again, returns an error, or goes on to
\* confirm what it has accepted.
Removes(c) == LET p == client[c].proposal IN
  /\ client[c].pc = "remove"
  /\ journal' = [journal EXCEPT ![p] = None]
  /\ \/ GoesOn(c, "recover", client[c].then) /\ UNCHANGED lock
     \/ client[c].then = "accept" /\ GoesOn(c, "confirm", client[c].then) /\ UNCHANGED lock
     \/ /\ client' \in [Clients -> Call] /\ Others(c) /\ client'[c].pc = "idle"
        /\ client'[c].step = 1 /\ lock' = Nobody /\ ~client'[c].answer
  /\ UNCHANGED <<record, candidate, bundle, events, history>>

LEMMA RemoveJournalGoes ==
  ASSUME IInv, NEW c \in Clients, RemoveJournal(c)
  PROVE  Removes(c)
<1>1. client[c] \in Call
  BY DEF IInv, CallsInv
<1>2. ASSUME NEW to \in {"recover", "confirm"}, Becomes(c, [client[c] EXCEPT !.pc = to])
      PROVE  GoesOn(c, to, client[c].then)
  <2> DEFINE k == [client[c] EXCEPT !.pc = to]
  <2>1. k \in Call
    BY <1>1 DEF Call, Steps
  <2>2. client' \in [Clients -> Call] /\ client'[c] = k /\ Others(c)
    BY <1>2, <2>1, Became
  <2> QED
    BY <1>1, <2>2 DEF GoesOn, Goes, SameRequest, Call
<1>3. CASE client[c].then = "refuse" /\ Return(c, FALSE)
  BY <1>3, Returned DEF RemoveJournal, Removes
<1> QED
  BY <1>2, <1>3 DEF RemoveJournal, Removes

LEMMA StartDecisionGoes ==
  ASSUME IInv, NEW c \in Clients, StartDecision(c)
  PROVE  GoesOn(c, "version", client[c].then)
<1> DEFINE k == [client[c] EXCEPT !.pc = "version"]
<1>1. client[c] \in Call /\ Becomes(c, k)
  BY DEF StartDecision, IInv, CallsInv
<1>2. k \in Call
  BY <1>1 DEF Call, Steps
<1>3. client' \in [Clients -> Call] /\ client'[c] = k /\ Others(c)
  BY <1>1, <1>2, Became
<1> QED
  BY <1>1, <1>3 DEF GoesOn, Goes, SameRequest, Call

LEMMA ComputeVersionGoes ==
  ASSUME IInv, NEW c \in Clients, ComputeVersion(c)
  PROVE  Goes(c, IF client[c].verdict = "accepted" THEN "load" ELSE "reject",
              candidate[client[c].proposal], client[c].text, client[c].step,
              client[c].todo, client[c].then)
<1> DEFINE to == IF client[c].verdict = "accepted" THEN "load" ELSE "reject"
           final == candidate[client[c].proposal]
           k == [client[c] EXCEPT !.final = final, !.pc = to]
<1>1. /\ client[c] \in Call /\ Becomes(c, k) /\ client[c].pc = "version" /\ CallFits(c)
      /\ candidate \in [Proposals -> Nat]
  BY DEF ComputeVersion, IInv, CallsInv, InboxInv
<1>2. to \in {"load", "reject"} /\ final \in Nat
  BY <1>1 DEF CallFits
<1> HIDE DEF to, final
<1>3. k \in Call
  BY <1>1, <1>2 DEF Call, Steps
<1>4. client' \in [Clients -> Call] /\ client'[c] = k /\ Others(c)
  BY <1>1, <1>3, Became
<1>5. Goes(c, to, final, client[c].text, client[c].step, client[c].todo, client[c].then)
  BY <1>1, <1>4 DEF Goes, SameRequest, Call
<1> QED
  BY <1>5 DEF to, final

LEMMA RejectGoes ==
  ASSUME IInv, NEW c \in Clients, Reject(c)
  PROVE  GoesOn(c, "confirm", client[c].then)
<1> DEFINE k == [client[c] EXCEPT !.pc = "confirm"]
<1>1. client[c] \in Call /\ Becomes(c, k)
  BY DEF Reject, IInv, CallsInv
<1>2. k \in Call
  BY <1>1 DEF Call, Steps
<1>3. client' \in [Clients -> Call] /\ client'[c] = k /\ Others(c)
  BY <1>1, <1>2, Became
<1> QED
  BY <1>1, <1>3 DEF GoesOn, Goes, SameRequest, Call

\* The candidate is read, and the target is what the proposal was made for.
Loads(c) ==
  /\ client[c].pc = "load"
  /\ Goes(c, "prepare", client[c].final, candidate[client[c].proposal], client[c].step,
          client[c].todo, client[c].then)
  /\ UNCHANGED <<record, candidate, journal, bundle, lock, events, history>>

LEMMA LoadCandidateCases ==
  ASSUME IInv, NEW c \in Clients, LoadCandidate(c)
  PROVE  Loads(c) \/ Quiet(c)
<1> DEFINE text == candidate[client[c].proposal]
           k == [client[c] EXCEPT !.pc = "prepare", !.text = text]
<1>1. /\ client[c] \in Call /\ client[c].pc = "load" /\ CallFits(c) /\ client[c].pc \in Holding
      /\ candidate \in [Proposals -> Nat]
      /\ UNCHANGED <<record, candidate, journal, bundle, events, history>>
  BY DEF LoadCandidate, IInv, CallsInv, InboxInv, inbox, Holding, Steps
<1>2. CASE Return(c, FALSE)
  BY <1>1, <1>2, ReturnQuiet
<1>3. CASE Becomes(c, k) /\ UNCHANGED lock
  <2>1. text \in Nat
    BY <1>1 DEF CallFits
  <2> HIDE DEF text
  <2>2. k \in Call
    BY <1>1, <2>1 DEF Call, Steps
  <2>3. client' \in [Clients -> Call] /\ client'[c] = k /\ Others(c)
    BY <1>3, <2>2, Became
  <2>4. Goes(c, "prepare", client[c].final, text, client[c].step, client[c].todo, client[c].then)
    BY <1>1, <2>3 DEF Goes, SameRequest, Call
  <2> QED
    BY <1>1, <1>3, <2>4 DEF Loads, text
<1> QED
  BY <1>2, <1>3 DEF LoadCandidate

LEMMA PrepareGoes ==
  ASSUME IInv, NEW c \in Clients, Prepare(c)
  PROVE  Goes(c, "write", client[c].final, 0, client[c].step, client[c].todo, client[c].then)
<1> DEFINE k == [client[c] EXCEPT !.pc = "write", !.text = 0]
<1>1. client[c] \in Call /\ Becomes(c, k)
  BY DEF Prepare, IInv, CallsInv
<1>2. k \in Call
  BY <1>1 DEF Call, Steps
<1>3. client' \in [Clients -> Call] /\ client'[c] = k /\ Others(c)
  BY <1>1, <1>2, Became
<1> QED
  BY <1>1, <1>3 DEF Goes, SameRequest, Call

\* A started acceptance is abandoned.
RollsBack(c) ==
  /\ client[c].pc \in Writing
  /\ Goes(c, "restore", client[c].final, client[c].text, 1, client[c].todo, "refuse")
  /\ UNCHANGED <<record, candidate, journal, bundle, lock, events, disturbed, late, slipped>>

LEMMA RollBackGoes ==
  ASSUME IInv, NEW c \in Clients, RollBack(c)
  PROVE  Goes(c, "restore", client[c].final, client[c].text, 1, client[c].todo, "refuse")
<1> DEFINE k == [client[c] EXCEPT !.pc = "restore", !.step = 1, !.then = "refuse"]
<1>1. client[c] \in Call /\ Becomes(c, k)
  BY DEF RollBack, IInv, CallsInv
<1>2. k \in Call
  <2>1. 1 \in 1..3 /\ "refuse" \in {"recover", "refuse", "accept"} /\ "restore" \in Steps
    BY DEF Steps
  <2> QED
    BY <1>1, <2>1 DEF Call
<1>3. client' \in [Clients -> Call] /\ client'[c] = k /\ Others(c)
  BY <1>1, <1>2, Became
<1> QED
  BY <1>1, <1>3 DEF Goes, SameRequest, Call

\* The next file is what the snapshot says.
Compares(c) == LET p == client[c].proposal
                   f == FilesOf(p)[client[c].step] IN
  /\ client[c].pc = "write" /\ bundle[f] = journal[p].before[f]
  /\ GoesOn(c, "replace", client[c].then)
  /\ Compared({f})
  /\ UNCHANGED <<record, candidate, journal, bundle, lock, events>>

LEMMA CompareCanonicalCases ==
  ASSUME IInv, NEW c \in Clients, CompareCanonical(c)
  PROVE  Compares(c) \/ RollsBack(c)
<1> DEFINE p == client[c].proposal
           f == FilesOf(p)[client[c].step]
           k == [client[c] EXCEPT !.pc = "replace"]
<1>1. client[c] \in Call
  BY DEF IInv, CallsInv
<1>2. CASE bundle[f] = journal[p].before[f]
  <2>1. Becomes(c, k)
    BY <1>2 DEF CompareCanonical
  <2>2. k \in Call
    BY <1>1 DEF Call, Steps
  <2>3. client' \in [Clients -> Call] /\ client'[c] = k /\ Others(c)
    BY <2>1, <2>2, Became
  <2>4. GoesOn(c, "replace", client[c].then)
    BY <1>1, <2>3 DEF GoesOn, Goes, SameRequest, Call
  <2> QED
    BY <1>2, <2>4 DEF CompareCanonical, Compares, inbox
<1>3. CASE bundle[f] # journal[p].before[f]
  BY <1>3, RollBackGoes DEF CompareCanonical, Compared, RollsBack, Writing, inbox
<1> QED
  BY <1>2, <1>3

\* It is replaced.
Writes(c) == LET p == client[c].proposal
                 f == FilesOf(p)[client[c].step] IN
  /\ client[c].pc = "replace"
  /\ bundle' = [bundle EXCEPT ![f] = journal[p].after[f]]
  /\ Written(p, f)
  /\ Goes(c, IF client[c].step = 3 THEN "commit" ELSE "write", client[c].final, client[c].text,
          IF client[c].step = 3 THEN 1 ELSE client[c].step + 1, client[c].todo, client[c].then)
  /\ UNCHANGED <<record, candidate, journal, lock, events>>

LEMMA WriteCanonicalGoes ==
  ASSUME IInv, NEW c \in Clients, WriteCanonical(c)
  PROVE  Writes(c)
<1> DEFINE to == IF client[c].step = 3 THEN "commit" ELSE "write"
           step == IF client[c].step = 3 THEN 1 ELSE client[c].step + 1
           k == [client[c] EXCEPT !.pc = to, !.step = step]
<1>1. client[c] \in Call /\ Becomes(c, k)
  BY DEF WriteCanonical, IInv, CallsInv
<1>2. to \in {"commit", "write"} /\ step \in 1..3
  BY <1>1 DEF Call
<1> HIDE DEF to, step
<1>3. k \in Call
  BY <1>1, <1>2 DEF Call, Steps
<1>4. client' \in [Clients -> Call] /\ client'[c] = k /\ Others(c)
  BY <1>1, <1>3, Became
<1>5. Goes(c, to, client[c].final, client[c].text, step, client[c].todo, client[c].then)
  BY <1>1, <1>4 DEF Goes, SameRequest, Call
<1> QED
  BY <1>5 DEF WriteCanonical, Writes, inbox, to, step

LEMMA CommitGoes ==
  ASSUME IInv, NEW c \in Clients, Commit(c)
  PROVE  GoesOn(c, "remove", "accept")
<1> DEFINE k == [client[c] EXCEPT !.pc = "remove", !.then = "accept"]
<1>1. client[c] \in Call /\ Becomes(c, k)
  BY DEF Commit, IInv, CallsInv
<1>2. k \in Call
  BY <1>1 DEF Call, Steps
<1>3. client' \in [Clients -> Call] /\ client'[c] = k /\ Others(c)
  BY <1>1, <1>2, Became
<1> QED
  BY <1>1, <1>3 DEF GoesOn, Goes, SameRequest, Call

LEMMA FailCases ==
  ASSUME IInv, NEW c \in Clients, Fail(c)
  PROVE  RollsBack(c) \/ Quiet(c)
<1>1. CASE client[c].pc \in {"write", "replace", "commit"} /\ RollBack(c) /\ UNCHANGED lock
  BY <1>1, RollBackGoes DEF Fail, RollsBack, Writing, inbox, history
<1>2. CASE client[c].pc \in {"recover", "version", "load", "prepare", "reject",
                             "restore", "undo", "remove", "confirm"} /\ Return(c, FALSE)
  <2>1. /\ client[c].pc \in Holding
        /\ UNCHANGED <<record, candidate, journal, bundle, events, history>>
    BY <1>2 DEF Fail, inbox, Holding, Steps
  <2> QED
    BY <1>2, <2>1, ReturnQuiet
<1> QED
  BY <1>1, <1>2 DEF Fail

\* The forms a step of a call can have.
Works(c) ==
  \/ RecoverForward(c) \/ RecoverBack(c) \/ CompareAll(c) \/ Restores(c) \/ Clears(c)
  \/ Removes(c) \/ StartDecision(c) \/ ComputeVersion(c) \/ Reject(c) \/ Loads(c)
  \/ Prepare(c) \/ Compares(c) \/ Writes(c) \/ RollsBack(c) \/ Commit(c)
  \/ CommitFailsLate(c)

LEMMA StepForms ==
  ASSUME IInv, [Next]_vars
  PROVE  \/ \E c \in Clients : Quiet(c) \/ Works(c)
         \/ \E p \in Proposals : Propose(p)
         \/ \E p \in Revisable : ReviseCandidate(p)
         \/ \E f \in Files : Edit(f)
         \/ UNCHANGED vars
<1>1. ASSUME NEW c \in Clients, ClientNext(c) PROVE Quiet(c) \/ Works(c)
  BY <1>1, DescribeQuiet, LockInboxQuiet, CrashQuiet, ReplayQuiet, RefuseQuiet, ConfirmQuiet,
     RestoreGoes, CheckRestoredCases, RemoveJournalGoes, LoadCandidateCases,
     CompareCanonicalCases, WriteCanonicalGoes, FailCases DEF ClientNext, Works
<1> QED
  BY <1>1 DEF Next

\* The call that works holds the lock, and goes on or returns; the calls of the
\* others are idle or wait.
LEMMA WorkerAlone ==
  ASSUME IInv, NEW c \in Clients, Works(c)
  PROVE  /\ client[c].pc \in Holding /\ lock = c /\ CallFits(c)
         /\ client[c].proposal \in Proposals /\ record[client[c].proposal] # None
         /\ client' \in [Clients -> Call] /\ Others(c)
         /\ \/ client'[c].pc = "idle" /\ lock' = Nobody
               /\ client'[c].step = 1 /\ ~client'[c].answer
            \/ client'[c].pc \in Holding /\ UNCHANGED lock /\ SameRequest(c)
         /\ \A d \in Clients \ {c} :
              client'[d] = client[d] /\ client[d].pc \in {"idle", "lock"} /\ lock' # d
<1>1. /\ client[c].pc \in Holding
      /\ client' \in [Clients -> Call] /\ Others(c)
      /\ \/ client'[c].pc = "idle" /\ lock' = Nobody
            /\ client'[c].step = 1 /\ ~client'[c].answer
         \/ client'[c].pc \in Holding /\ UNCHANGED lock /\ SameRequest(c)
  <2> USE DEF GoesOn, Goes, Holding, Steps
  <2>1. CASE RecoverForward(c)
    BY <2>1, RecoverForwardGoes DEF RecoverForward
  <2>2. CASE RecoverBack(c)
    BY <2>2, RecoverBackGoes DEF RecoverBack
  <2>3. CASE CompareAll(c)
    BY <2>3, CompareAllGoes DEF CompareAll
  <2>4. CASE Restores(c)
    BY <2>4 DEF Restores
  <2>5. CASE Clears(c)
    BY <2>5 DEF Clears
  <2>6. CASE Removes(c)
    BY <2>6 DEF Removes
  <2>7. CASE StartDecision(c)
    BY <2>7, StartDecisionGoes DEF StartDecision, Deciding
  <2>8. CASE ComputeVersion(c)
    BY <2>8, ComputeVersionGoes DEF ComputeVersion
  <2>9. CASE Reject(c)
    BY <2>9, RejectGoes DEF Reject
  <2>10. CASE Loads(c)
    BY <2>10 DEF Loads
  <2>11. CASE Prepare(c)
    BY <2>11, PrepareGoes DEF Prepare
  <2>12. CASE Compares(c)
    BY <2>12 DEF Compares
  <2>13. CASE Writes(c)
    BY <2>13 DEF Writes
  <2>14. CASE RollsBack(c)
    BY <2>14 DEF RollsBack, Writing
  <2>15. CASE Commit(c)
    BY <2>15, CommitGoes DEF Commit
  <2>16. CASE CommitFailsLate(c)
    BY <2>16, RollBackGoes DEF CommitFailsLate
  <2> QED
    BY <2>1, <2>2, <2>3, <2>4, <2>5, <2>6, <2>7, <2>8, <2>9, <2>10, <2>11, <2>12, <2>13,
       <2>14, <2>15, <2>16 DEF Works
<1>2. \A d \in Clients : CallFits(d) /\ client[d].pc \in Steps
  BY DEF IInv, CallsInv, Call
<1>3. /\ lock = c /\ CallFits(c) /\ client[c].proposal \in Proposals
      /\ record[client[c].proposal] # None
  BY <1>1, <1>2 DEF CallFits, Holding
<1>4. ASSUME NEW d \in Clients \ {c}
      PROVE  client'[d] = client[d] /\ client[d].pc \in {"idle", "lock"} /\ lock' # d
  <2>1. lock # d /\ client'[d] = client[d]
    BY <1>1, <1>3 DEF Others
  <2> QED
    BY <1>1, <1>2, <1>3, <2>1, NamesAssumption DEF CallFits, Holding
<1> QED
  BY <1>1, <1>3, <1>4

\* What a call may change besides itself.
LEMMA WorkChanges ==
  ASSUME NEW c \in Clients, Works(c)
  PROVE  /\ UNCHANGED <<candidate, slipped>> /\ late \subseteq late'
         /\ disturbed \subseteq disturbed'
         /\ UNCHANGED events \/ CommitFailsLate(c)
         /\ UNCHANGED journal \/ Removes(c) \/ Prepare(c)
         /\ UNCHANGED bundle \/ Restores(c) \/ Writes(c)
         /\ UNCHANGED <<late>> \/ CommitFailsLate(c)
  BY DEF Works, RecoverForward, RecoverBack, CompareAll, Restores, Clears, Removes, StartDecision,
     ComputeVersion, Reject, Loads, Prepare, Compares, Writes, RollsBack, Commit,
     CommitFailsLate, Deciding, inbox, history, Written, Compared, Disturbs

\* Time goes on: candidates get newer, events more, and what is known of the
\* past stays known.
LEMMA NeverLess ==
  ASSUME IInv, [Next]_vars
  PROVE  /\ events \in 0..MaxEvents /\ events' \in 0..MaxEvents /\ events <= events'
         /\ candidate' \in [Proposals -> Nat]
         /\ \A p \in Proposals : /\ candidate[p] \in Nat /\ candidate'[p] \in Nat
                                 /\ candidate[p] <= candidate'[p] /\ candidate'[p] <= events'
         /\ disturbed \subseteq disturbed' /\ late \subseteq late' /\ slipped \subseteq slipped'
<1>0. /\ events \in 0..MaxEvents /\ MaxEvents \in Nat /\ candidate \in [Proposals -> Nat]
      /\ \A p \in Proposals : candidate[p] <= events
  BY BoundsAssumption DEF IInv, InboxInv
<1>1. ASSUME UNCHANGED candidate, disturbed \subseteq disturbed', late \subseteq late',
             slipped \subseteq slipped',
             UNCHANGED events \/ (events < MaxEvents /\ events' = events + 1)
      PROVE  /\ events' \in 0..MaxEvents /\ events <= events'
             /\ candidate' \in [Proposals -> Nat]
             /\ \A p \in Proposals : /\ candidate[p] \in Nat /\ candidate'[p] \in Nat
                                     /\ candidate[p] <= candidate'[p] /\ candidate'[p] <= events'
             /\ disturbed \subseteq disturbed' /\ late \subseteq late' /\ slipped \subseteq slipped'
  BY <1>0, <1>1
<1>2. ASSUME NEW c \in Clients, Works(c)
      PROVE  UNCHANGED events \/ (events < MaxEvents /\ events' = events + 1)
  BY <1>2, WorkChanges DEF CommitFailsLate
<1>3. ASSUME NEW q \in Revisable, ReviseCandidate(q)
      PROVE  /\ events' \in 0..MaxEvents /\ events <= events'
             /\ candidate' \in [Proposals -> Nat]
             /\ \A p \in Proposals : /\ candidate[p] \in Nat /\ candidate'[p] \in Nat
                                     /\ candidate[p] <= candidate'[p] /\ candidate'[p] <= events'
             /\ disturbed \subseteq disturbed' /\ late \subseteq late' /\ slipped \subseteq slipped'
  <2>1. /\ events' = events + 1 /\ events < MaxEvents /\ q \in Proposals
        /\ candidate' = [candidate EXCEPT ![q] = candidate[q] + 1]
        /\ disturbed \subseteq disturbed' /\ slipped \subseteq slipped' /\ UNCHANGED late
    BY <1>3, SubsetsAssumption DEF ReviseCandidate
  <2> QED
    BY <1>0, <2>1
<1>4. ASSUME NEW f \in Files, Edit(f)
      PROVE  /\ UNCHANGED <<candidate, late, slipped>> /\ disturbed \subseteq disturbed'
             /\ events < MaxEvents /\ events' = events + 1
  BY <1>4 DEF Edit, inbox, Disturbs
<1>5. ASSUME NEW p \in Proposals, Propose(p)
      PROVE  UNCHANGED <<candidate, events, disturbed, late, slipped>>
  BY <1>5 DEF Propose, history
<1>6. ASSUME NEW c \in Clients, Quiet(c)
      PROVE  UNCHANGED <<candidate, events, disturbed, late, slipped>>
  BY <1>6 DEF Quiet, history
<1>7. UNCHANGED vars => UNCHANGED <<candidate, events, disturbed, late, slipped>>
  BY DEF vars, inbox, history
<1> QED
  BY <1>0, <1>1, <1>2, <1>3, <1>4, <1>5, <1>6, <1>7, WorkChanges, StepForms

\* The files a call of p works on, by step.
LEMMA FileOfStep ==
  ASSUME IInv, NEW c \in Clients, client[c].pc # "idle"
  PROVE  /\ client[c].proposal \in Proposals /\ client[c].step \in 1..3
         /\ FilesOf(client[c].proposal)[client[c].step] \in ToSet(FilesOf(client[c].proposal))
         /\ FilesOf(client[c].proposal)[client[c].step] \in Files
<1>1. client[c].proposal \in Proposals /\ client[c].step \in 1..3
  BY DEF IInv, CallsInv, CallFits, Call
<1> QED
  BY <1>1, FilesOfProposal

\* A call that writes or clears has a journal, and the journal what it needs.
LEMMA CallHas ==
  ASSUME IInv, NEW c \in Clients, client[c].pc \in Writing \union Clearing
  PROVE  LET p == client[c].proposal IN
         /\ p \in Proposals /\ record[p] # None /\ record[p].status # "rejected"
         /\ journal[p] # None /\ Kept(p, journal[p], candidate[p], events)
  BY DEF IInv, CallsInv, CallFits, KeptInv, Writing, Clearing

\* What a transaction replaces a file with is one of the journal's contents.
LEMMA FileReplaced ==
  ASSUME IInv, NEW c \in Clients, Restores(c) \/ Writes(c)
  PROVE  LET p == client[c].proposal IN
         \E f \in ToSet(FilesOf(p)) : \E x \in {journal[p].before[f], journal[p].after[f]} :
           /\ f \in Files /\ bundle' = [bundle EXCEPT ![f] = x]
           /\ Written(p, f) /\ UNCHANGED <<record, candidate, journal, events>>
<1> DEFINE p == client[c].proposal
<1>1. CASE Writes(c)
  <2>1. client[c].pc # "idle"
    BY <1>1 DEF Writes
  <2> QED
    BY <1>1, <2>1, FileOfStep DEF Writes
<1>2. CASE Restores(c)
  <2>1. client[c].todo \in SUBSET (1..3) /\ client[c].pc = "undo" /\ p \in Proposals
    BY <1>2, CallHas DEF Restores, IInv, CallsInv, Call, Clearing
  <2>2. \A i \in 1..3 : FilesOf(p)[i] \in ToSet(FilesOf(p)) /\ FilesOf(p)[i] \in Files
    BY <2>1, FilesOfProposal
  <2> QED
    BY <1>2, <2>1, <2>2 DEF Restores
<1> QED
  BY <1>1, <1>2

LEMMA StepBundle ==
  ASSUME IInv, [Next]_vars PROVE BundleInv'
<1>0. /\ BundleInv /\ KeptInv /\ events \in 0..MaxEvents /\ events \in Nat /\ events' \in 0..MaxEvents
      /\ events' \in Nat /\ events <= events' /\ MaxEvents \in Nat
      /\ bundle["index"] \in IndexFile /\ bundle["log"] \in LogFile
      /\ bundle["index"].edits \in Nat /\ bundle["index"].edits <= events
  <2>1. bundle["index"] \in IndexFile /\ bundle["log"] \in LogFile
    BY FitsEach DEF IInv, BundleInv, Files
  <2> QED
    BY <2>1, NeverLess, BoundsAssumption DEF IInv, BundleInv, IndexFile
<1>1. ASSUME NEW f \in Files, NEW x, Fits(f, x), f = "index" => x.edits <= events',
             bundle' = [bundle EXCEPT ![f] = x]
      PROVE  BundleInv'
  <2>1. \A g \in Files : bundle'[g] = IF g = f THEN x ELSE bundle[g]
    BY <1>0, <1>1 DEF BundleInv
  <2>2. bundle' = [g \in Files |-> bundle'[g]]
    BY <1>0, <1>1 DEF BundleInv
  <2>3. bundle'["index"].edits <= events'
    BY <1>0, <1>1, <2>1 DEF Files
  <2> QED
    BY <1>0, <1>1, <2>1, <2>2, <2>3 DEF BundleInv
<1>2. UNCHANGED bundle => BundleInv'
  BY <1>0 DEF BundleInv
<1>3. ASSUME NEW c \in Clients, Works(c) PROVE BundleInv'
  <2>1. CASE UNCHANGED bundle
    BY <1>2, <2>1
  <2>2. CASE Restores(c) \/ Writes(c)
    <3> DEFINE p == client[c].proposal
    <3>0. PICK f \in ToSet(FilesOf(p)) : \E x \in {journal[p].before[f], journal[p].after[f]} :
            f \in Files /\ bundle' = [bundle EXCEPT ![f] = x]
      BY <2>2, FileReplaced
    <3>1. PICK x \in {journal[p].before[f], journal[p].after[f]} :
            f \in Files /\ bundle' = [bundle EXCEPT ![f] = x]
      BY <3>0
    <3>2. Kept(p, journal[p], candidate[p], events)
      BY <2>2, CallHas DEF Restores, Writes, Writing, Clearing
    <3>3. Fits(f, x) /\ (f = "index" => x.edits <= events /\ x.edits \in Nat)
      <4>1. Fits(f, x) /\ (f = "index" => x.edits <= events)
        BY <3>1, <3>2 DEF Kept
      <4> QED
        BY <1>0, <4>1, FitsEach DEF IndexFile
    <3>4. f = "index" => x.edits <= events'
      BY <1>0, <3>3
    <3> QED
      BY <1>1, <3>1, <3>3, <3>4
  <2> QED
    BY <1>3, <2>1, <2>2, WorkChanges
<1>4. ASSUME NEW f \in Files, Edit(f) PROVE BundleInv'
  <2>0. events' = events + 1
    BY <1>4 DEF Edit
  <2>1. CASE f = "index" /\ bundle' = [bundle EXCEPT !["index"].edits = bundle["index"].edits + 1]
    <3> DEFINE b == bundle["index"]
               x == [b EXCEPT !.edits = b.edits + 1]
    <3>1. bundle' = [bundle EXCEPT ![f] = x]
      BY <2>1
    <3>2. b \in [listed : SUBSET Documents, edits : 0..MaxEvents] /\ b.edits <= events
      BY <1>0 DEF IndexFile
    <3> HIDE DEF b
    <3>3. b.edits + 1 \in 0..MaxEvents /\ b.edits + 1 <= events'
      BY <1>0, <2>0, <3>2
    <3>4. x \in [listed : SUBSET Documents, edits : 0..MaxEvents] /\ x.edits = b.edits + 1
      BY <3>2, <3>3
    <3> QED
      BY <1>1, <2>1, <3>1, <3>3, <3>4, FitsEach DEF IndexFile
  <2>2. CASE f = "log" /\ Len(bundle["log"]) < MaxLog /\ bundle' = [bundle EXCEPT !["log"] = Append(bundle["log"], Editor)]
    <3>1. Append(bundle["log"], Editor) \in LogFile
      BY <1>0, <2>2, LogGrows DEF LogLine
    <3> QED
      BY <1>1, <2>2, <3>1, FitsEach
  <2>3. CASE f \in Existing /\ bundle' = [bundle EXCEPT ![f] = Editor]
    <3>1. f \in Documents /\ f # "index" /\ Editor \in Text
      BY <2>3, NamesAssumption DEF Existing, Text
    <3> QED
      BY <1>1, <2>3, <3>1, FitsEach
  <2> QED
    BY <1>4, <2>1, <2>2, <2>3 DEF Edit
<1> QED
  BY <1>2, <1>3, <1>4, StepForms DEF Quiet, Propose, ReviseCandidate, vars

\* The records with a decision about p.
Decided(p, v, e, n, t) ==
  [record EXCEPT ![p] = [status |-> v, base |-> record[p].base,
                         audit |-> [expected |-> e, final |-> n, text |-> t]]]

\* A decision is recorded: the audit is there, the base stays.
LEMMA DecisionRecorded ==
  ASSUME IInv, NEW p \in Proposals, record[p] # None, NEW v \in Verdicts,
         NEW e \in Nat, NEW n \in Nat, NEW t \in Nat, record' = Decided(p, v, e, n, t)
  PROVE  /\ record'[p] \in Record /\ record'[p] # None
         /\ record'[p].status = v /\ record'[p].status # "proposed" /\ record'[p].audit # None
         /\ record'[p].audit.expected = e /\ record'[p].audit.final = n
         /\ record'[p].audit.text = t
         /\ \A q \in Proposals \ {p} : record'[q] = record[q]
         /\ record' = [q \in Proposals |-> record'[q]]
<1> DEFINE a == [expected |-> e, final |-> n, text |-> t]
           r == [status |-> v, base |-> record[p].base, audit |-> a]
<1>0. record = [q \in Proposals |-> record[q]]
  BY DEF IInv, InboxInv
<1>1. record[p].base \in Text
  BY DEF IInv, RecordInv, Record
<1>2. a \in Audit /\ a # None /\ a.expected = e /\ a.final = n /\ a.text = t
  BY NoneAssumption DEF Audit
<1> HIDE DEF a
<1>3. r \in Record /\ r # None /\ r.status = v /\ r.audit = a
  BY <1>1, <1>2, NoneAssumption DEF Record, Statuses
<1>4. record' = [record EXCEPT ![p] = r]
  BY DEF Decided, a
<1> HIDE DEF r
<1>5. record'[p] = r /\ \A q \in Proposals \ {p} : record'[q] = record[q]
  BY <1>0, <1>4
<1>6. record' = [q \in Proposals |-> record'[q]]
  BY <1>0, <1>4
<1>7. v # "proposed"
  BY DEF Verdicts
<1> QED
  BY <1>2, <1>3, <1>5, <1>6, <1>7

\* An acceptance is recorded as its journal says.
LEMMA AcceptanceRecorded ==
  ASSUME IInv, NEW p \in Proposals, journal[p] # None, record' = Accepted(p)
  PROVE  /\ record'[p] \in Record /\ record'[p] # None
         /\ record'[p].status = "accepted" /\ record'[p].audit # None
         /\ record'[p].audit.expected = journal[p].expected
         /\ record'[p].audit.final = journal[p].final
         /\ record'[p].audit.text = journal[p].text
         /\ \A q \in Proposals \ {p} : record'[q] = record[q]
         /\ record' = [q \in Proposals |-> record'[q]]
<1> DEFINE e == journal[p].expected
           n == journal[p].final
           t == journal[p].text
<1>1. e \in Nat /\ n \in Nat /\ t \in Nat /\ record[p] # None
  <2>1. Kept(p, journal[p], candidate[p], events) /\ candidate[p] \in Nat
    BY DEF IInv, KeptInv, InboxInv
  <2> QED
    BY <2>1 DEF IInv, KeptInv, Kept
<1>2. "accepted" \in Verdicts
  BY DEF Verdicts
<1>3. record' = Decided(p, "accepted", e, n, t)
  BY DEF Accepted, Decided
<1> HIDE DEF e, n, t
<1>4. /\ record'[p] \in Record /\ record'[p] # None
      /\ record'[p].status = "accepted" /\ record'[p].audit # None
      /\ record'[p].audit.expected = e /\ record'[p].audit.final = n /\ record'[p].audit.text = t
      /\ \A q \in Proposals \ {p} : record'[q] = record[q]
      /\ record' = [q \in Proposals |-> record'[q]]
  BY <1>1, <1>2, <1>3, DecisionRecorded
<1> QED
  BY <1>4 DEF e, n, t

LEMMA RejectionRecorded ==
  ASSUME IInv, NEW c \in Clients, Reject(c)
  PROVE  LET p == client[c].proposal IN
         /\ p \in Proposals /\ journal[p] = None /\ record[p] # None /\ record[p].audit = None
         /\ record'[p] \in Record /\ record'[p] # None
         /\ record'[p].status = "rejected" /\ record'[p].audit # None
         /\ record'[p].audit.expected = client[c].version[2]
         /\ record'[p].audit.final = client[c].final
         /\ record'[p].audit.text = client[c].final
         /\ \A q \in Proposals \ {p} : record'[q] = record[q]
         /\ record' = [q \in Proposals |-> record'[q]]
<1> DEFINE p == client[c].proposal
           e == client[c].version[2]
           n == client[c].final
<1>1. /\ p \in Proposals /\ journal[p] = None /\ record[p] # None /\ record[p].audit = None
      /\ e \in Nat /\ n \in Nat /\ "rejected" \in Verdicts
  BY DEF Reject, IInv, CallsInv, CallFits, Fresh, Call, Verdicts
<1>2. record' = Decided(p, "rejected", e, n, n)
  BY DEF Reject, Decided
<1> HIDE DEF p, e, n
<1>3. /\ record'[p] \in Record /\ record'[p] # None
      /\ record'[p].status = "rejected" /\ record'[p].audit # None
      /\ record'[p].audit.expected = e /\ record'[p].audit.final = n /\ record'[p].audit.text = n
      /\ \A q \in Proposals \ {p} : record'[q] = record[q]
      /\ record' = [q \in Proposals |-> record'[q]]
  BY <1>1, <1>2, DecisionRecorded
<1> QED
  BY <1>1, <1>3 DEF p, e, n

\* What a working call makes of the records: nothing, or one decision.
LEMMA RecordForms ==
  ASSUME IInv, NEW c \in Clients, Works(c)
  PROVE  LET p == client[c].proposal IN
         \/ UNCHANGED record
         \/ /\ p \in Proposals /\ record' = Accepted(p) /\ journal[p] # None
            /\ client[c].pc \in {"recover", "commit"} /\ UNCHANGED <<candidate, journal, bundle>>
            /\ record[p].audit = None
         \/ Reject(c)
<1> DEFINE p == client[c].proposal
<1>0. p \in Proposals /\ CallFits(c)
  BY WorkerAlone
<1>1. CASE Commit(c) \/ CommitFailsLate(c)
  BY <1>0, <1>1 DEF Commit, CommitFailsLate, CallFits, Writing
<1>2. CASE RecoverForward(c)
  BY <1>0, <1>2 DEF RecoverForward
<1> QED
  BY <1>1, <1>2 DEF Works, RecoverBack, CompareAll, Restores, Clears, Removes, StartDecision,
     ComputeVersion, Loads, Prepare, Compares, Writes, RollsBack, inbox

\* A record once made stays one, and a decided one stays as it is: proposing
\* and working change no decided record.
LEMMA RecordsStay ==
  ASSUME IInv, [Next]_vars, NEW p \in Proposals, record[p] # None
  PROVE  /\ record'[p] # None
         /\ record[p].audit # None => record'[p] = record[p]
         /\ record'[p] = record[p] \/ \E c \in Clients : Works(c) /\ ~UNCHANGED record
<1>0. record = [q \in Proposals |-> record[q]]
  BY DEF IInv, InboxInv
<1>1. ASSUME NEW c \in Clients, Works(c)
      PROVE  record'[p] # None /\ (record[p].audit # None => record'[p] = record[p])
  <2>1. CASE Reject(c)
    BY <2>1, RejectionRecorded
  <2>2. ASSUME NEW q \in Proposals, record' = Accepted(q), journal[q] # None, record[q].audit = None
        PROVE record'[p] # None /\ (record[p].audit # None => record'[p] = record[p])
    BY <2>2, AcceptanceRecorded
  <2> QED
    BY <1>1, <2>1, <2>2, RecordForms
<1>2. ASSUME NEW q \in Proposals, Propose(q) PROVE record'[p] = record[p]
  BY <1>0, <1>2 DEF Propose
<1>3. ASSUME NEW c \in Clients, Quiet(c) PROVE UNCHANGED record
  BY <1>3 DEF Quiet
<1>4. ASSUME NEW q \in Revisable, ReviseCandidate(q) PROVE UNCHANGED record
  BY <1>4 DEF ReviseCandidate
<1>5. ASSUME NEW f \in Files, Edit(f) PROVE UNCHANGED record
  BY <1>5 DEF Edit, inbox
<1>6. UNCHANGED vars => UNCHANGED record
  BY DEF vars, inbox
<1> QED
  BY <1>1, <1>2, <1>3, <1>4, <1>5, <1>6, StepForms

LEMMA StepRecord ==
  ASSUME IInv, [Next]_vars PROVE RecordInv' /\ record' = [p \in Proposals |-> record'[p]]
<1>0. RecordInv /\ BundleInv /\ record = [p \in Proposals |-> record[p]]
  BY DEF IInv, InboxInv
<1>1. ASSUME NEW p \in Proposals, record'[p] \in Record,
             record'[p].status = "proposed" <=> record'[p].audit = None,
             \A q \in Proposals \ {p} : record'[q] = record[q],
             record' = [q \in Proposals |-> record'[q]]
      PROVE  RecordInv' /\ record' = [q \in Proposals |-> record'[q]]
  BY <1>0, <1>1 DEF RecordInv
<1>2. ASSUME NEW c \in Clients, Works(c), ~UNCHANGED record
      PROVE  RecordInv' /\ record' = [q \in Proposals |-> record'[q]]
  <2>1. ASSUME NEW p \in Proposals, record' = Accepted(p), journal[p] # None
        PROVE  RecordInv' /\ record' = [q \in Proposals |-> record'[q]]
    <3>1. /\ record'[p] \in Record /\ record'[p].status = "accepted" /\ record'[p].audit # None
          /\ \A q \in Proposals \ {p} : record'[q] = record[q]
          /\ record' = [q \in Proposals |-> record'[q]]
      BY <2>1, AcceptanceRecorded
    <3> QED
      BY <1>1, <3>1
  <2>2. CASE Reject(c)
    <3> DEFINE p == client[c].proposal
    <3>1. /\ p \in Proposals /\ record'[p] \in Record /\ record'[p].status = "rejected"
          /\ record'[p].audit # None
          /\ \A q \in Proposals \ {p} : record'[q] = record[q]
          /\ record' = [q \in Proposals |-> record'[q]]
      BY <2>2, RejectionRecorded
    <3> HIDE DEF p
    <3> QED
      BY <1>1, <3>1
  <2> QED
    BY <1>2, <2>1, <2>2, RecordForms
<1>3. ASSUME NEW p \in Proposals, Propose(p)
      PROVE  RecordInv' /\ record' = [q \in Proposals |-> record'[q]]
  <2> DEFINE r == [status |-> "proposed", base |-> bundle[Target[p]], audit |-> None]
  <2>1. bundle[Target[p]] \in Text
    BY <1>0, FitsEach, TargetAssumption DEF BundleInv, Files
  <2>2. r \in Record /\ r.status = "proposed" /\ r.audit = None
    BY <2>1 DEF Record, Statuses
  <2>3. record' = [record EXCEPT ![p] = r]
    BY <1>3 DEF Propose
  <2> HIDE DEF r
  <2> QED
    BY <1>0, <1>1, <2>2, <2>3
<1>4. UNCHANGED record => RecordInv' /\ record' = [q \in Proposals |-> record'[q]]
  BY <1>0 DEF RecordInv
<1> QED
  BY <1>2, <1>3, <1>4, StepForms DEF Quiet, ReviseCandidate, Edit, vars, inbox

\* What Prepare writes into the journal.
LEMMA JournalWritten ==
  ASSUME IInv, NEW c \in Clients, Prepare(c)
  PROVE  LET p == client[c].proposal IN
         /\ p \in Proposals /\ journal[p] = None /\ record[p] # None /\ record[p].audit = None
         /\ client[c].text \in 0..candidate[p]
         /\ \A q \in Proposals \ {p} : journal'[q] = journal[q]
         /\ journal' = [q \in Proposals |-> journal'[q]]
         /\ journal'[p] # None
         /\ journal'[p].text = client[c].text /\ journal'[p].expected = client[c].version[2]
         /\ journal'[p].final = client[c].final
         /\ \A f \in ToSet(FilesOf(p)) : journal'[p].before[f] = bundle[f]
         /\ journal'[p].after["index"].listed = Existing \union {Target[p]}
         /\ journal'[p].after["index"].edits = bundle["index"].edits
         /\ journal'[p].after["log"] = Append(bundle["log"], p)
         /\ journal'[p].after[Target[p]] = <<p, client[c].text>>
         /\ Kept(p, journal'[p], candidate[p], events)
<1> DEFINE p == client[c].proposal
           text == client[c].text
           before == [f \in ToSet(FilesOf(p)) |-> bundle[f]]
           after == Results(p, text)
           j == [text |-> text, expected |-> client[c].version[2], final |-> client[c].final,
                 before |-> before, after |-> after]
<1>1. /\ p \in Proposals /\ journal[p] = None /\ record[p] # None /\ record[p].audit = None
      /\ text \in 0..candidate[p] /\ client[c].version[2] \in Nat /\ client[c].final \in Nat
  BY DEF Prepare, IInv, CallsInv, CallFits, Fresh, Call
<1>2. /\ events \in 0..MaxEvents /\ candidate[p] \in 0..events
      /\ journal = [q \in Proposals |-> journal[q]]
  BY <1>1 DEF IInv, InboxInv
<1>3. text \in Nat /\ text \in Revisions
  BY <1>1, <1>2, BoundsAssumption DEF Revisions
<1>4. /\ journal'[p] = j /\ \A q \in Proposals \ {p} : journal'[q] = journal[q]
      /\ journal' = [q \in Proposals |-> journal'[q]]
  <2>1. journal' = [journal EXCEPT ![p] = j]
    BY DEF Prepare
  <2> HIDE DEF j
  <2> QED
    BY <1>1, <1>2, <2>1
<1>5. /\ ToSet(FilesOf(p)) = {Target[p], "index", "log"} /\ ToSet(FilesOf(p)) \subseteq Files
      /\ Target[p] \in Documents /\ Target[p] # "index" /\ Target[p] # "log"
  BY <1>1, FilesOfProposal
<1>6. /\ \A f \in Files : Fits(f, bundle[f])
      /\ bundle["index"] \in IndexFile /\ bundle["log"] \in LogFile /\ bundle["index"].edits <= events
  BY FitsEach DEF IInv, BundleInv, Files
<1>7. /\ after["index"] = [listed |-> Existing \union {Target[p]}, edits |-> bundle["index"].edits]
      /\ after["log"] = Append(bundle["log"], p) /\ after[Target[p]] = <<p, text>>
      /\ after = [f \in ToSet(FilesOf(p)) |-> after[f]]
  BY <1>5 DEF Results
<1> HIDE DEF text, after
<1>8. after["index"] \in IndexFile /\ after["log"] \in LogFile /\ after[Target[p]] \in Text
  <2>1. Existing \union {Target[p]} \subseteq Documents
    BY <1>5 DEF Existing
  <2>2. after["index"] \in IndexFile
    BY <1>6, <1>7, <2>1 DEF IndexFile
  <2>3. Len(bundle["log"]) < MaxLog
    BY DEF Prepare
  <2>4. after["log"] \in LogFile
    BY <1>1, <1>6, <1>7, <2>3, LogGrows DEF LogLine
  <2>5. after[Target[p]] \in Text
    BY <1>1, <1>3, <1>7 DEF Text
  <2> QED
    BY <2>2, <2>4, <2>5
<1>9. \A f \in ToSet(FilesOf(p)) : before[f] = bundle[f] /\ Fits(f, before[f]) /\ Fits(f, after[f])
  BY <1>5, <1>6, <1>8, FitsEach
<1>10. before \in Snapshot(p) /\ after \in Snapshot(p)
  <2> DEFINE Contents == Text \union IndexFile \union LogFile
  <2>1. \A f \in ToSet(FilesOf(p)) : before[f] \in Contents /\ after[f] \in Contents
    BY <1>5, <1>9, FitsEach
  <2> HIDE DEF Contents
  <2>2. before \in [ToSet(FilesOf(p)) -> Contents]
    BY <2>1
  <2>3. after \in [ToSet(FilesOf(p)) -> Contents]
    BY <1>7, <2>1
  <2> QED
    BY <2>2, <2>3 DEF Snapshot, Contents
<1> HIDE DEF before
<1>11. j # None
  BY <1>1, <1>3, <1>10, NoneAssumption DEF Journal
<1>12. Kept(p, j, candidate[p], events)
  <2>1. /\ j.text = text /\ j.expected = client[c].version[2] /\ j.final = client[c].final
        /\ j.before = before /\ j.after = after
    OBVIOUS
  <2> HIDE DEF j
  <2>2. before["index"] = bundle["index"] /\ before["log"] = bundle["log"]
    BY <1>5, <1>9
  <2>3. after[Target[p]] \in {p} \X Revisions
    BY <1>3, <1>7
  <2>4. after["index"].edits = bundle["index"].edits /\ Target[p] \in after["index"].listed
    BY <1>7
  <2> QED
    BY <1>1, <1>6, <1>7, <1>9, <2>1, <2>2, <2>3, <2>4 DEF Kept, text
<1>13. \A f \in ToSet(FilesOf(p)) : j.before[f] = bundle[f]
  BY <1>9
<1>14. /\ j.text = text /\ j.expected = client[c].version[2] /\ j.final = client[c].final
       /\ j.after = after
       /\ after["index"].listed = Existing \union {Target[p]}
       /\ after["index"].edits = bundle["index"].edits
  BY <1>7
<1> HIDE DEF j, p
<1>15. /\ journal'[p].text = text /\ journal'[p].expected = client[c].version[2]
       /\ journal'[p].final = client[c].final
       /\ journal'[p].after["index"].listed = Existing \union {Target[p]}
       /\ journal'[p].after["index"].edits = bundle["index"].edits
       /\ journal'[p].after["log"] = Append(bundle["log"], p)
       /\ journal'[p].after[Target[p]] = <<p, text>>
  BY <1>4, <1>7, <1>14
<1> QED
  BY <1>1, <1>4, <1>11, <1>12, <1>13, <1>15 DEF text, p

\* An open journal was open, or has just been written; one that stays open
\* stays as it is.
LEMMA JournalOrigin ==
  ASSUME IInv, [Next]_vars, NEW p \in Proposals, journal'[p] # None
  PROVE  \/ journal[p] # None /\ journal'[p] = journal[p]
         \/ /\ journal[p] = None
            /\ \E c \in Clients : Prepare(c) /\ client[c].proposal = p
<1>0. journal = [q \in Proposals |-> journal[q]]
  BY DEF IInv, InboxInv
<1>1. ASSUME NEW c \in Clients, Works(c)
      PROVE  journal'[p] = journal[p] \/ (journal[p] = None /\ Prepare(c) /\ client[c].proposal = p)
  <2>1. CASE Removes(c)
    BY <1>0, <1>1, <2>1, WorkerAlone DEF Removes
  <2>2. CASE Prepare(c)
    BY <2>2, JournalWritten
  <2> QED
    BY <1>1, <2>1, <2>2, WorkChanges
<1>2. ASSUME ~\E c \in Clients : Works(c) PROVE UNCHANGED journal
  BY <1>2, StepForms DEF Quiet, Propose, ReviseCandidate, Edit, vars, inbox
<1> QED
  BY <1>1, <1>2

LEMMA StepInbox == ASSUME IInv, [Next]_vars PROVE InboxInv'
<1>0. journal = [p \in Proposals |-> journal[p]]
  BY DEF IInv, InboxInv
<1>1. journal' = [p \in Proposals |-> journal'[p]]
  <2>1. ASSUME NEW c \in Clients, Works(c) PROVE journal' = [p \in Proposals |-> journal'[p]]
    <3>1. CASE Removes(c)
      BY <1>0, <3>1 DEF Removes
    <3>2. CASE Prepare(c)
      BY <3>2, JournalWritten
    <3> QED
      BY <1>0, <2>1, <3>1, <3>2, WorkChanges
  <2>2. ASSUME ~\E c \in Clients : Works(c) PROVE UNCHANGED journal
    BY <2>2, StepForms DEF Quiet, Propose, ReviseCandidate, Edit, vars, inbox
  <2> QED
    BY <1>0, <2>1, <2>2
<1> QED
  BY <1>1, NeverLess, StepRecord DEF InboxInv

\* What is kept stays kept while time goes on.
LEMMA KeptStays ==
  ASSUME NEW p \in Proposals, NEW j, NEW last \in Nat, NEW made \in Nat,
         NEW last2 \in Nat, NEW made2 \in Nat, last <= last2, made <= made2,
         Kept(p, j, last, made)
  PROVE  Kept(p, j, last2, made2)
<1>1. j.text \in 0..last2
  BY DEF Kept
<1>2. j.after["index"] \in IndexFile
  BY FitsEach, FilesOfProposal DEF Kept
<1>3. j.after["index"].edits \in Nat
  BY <1>2, BoundsAssumption DEF IndexFile
<1>4. j.after["index"].edits <= made2
  BY <1>3 DEF Kept
<1> QED
  BY <1>1, <1>4 DEF Kept

LEMMA StepKept ==
  ASSUME IInv, [Next]_vars PROVE KeptInv'
<1> SUFFICES ASSUME NEW p \in Proposals, journal'[p] # None
             PROVE  /\ Kept(p, journal'[p], candidate'[p], events')
                    /\ record'[p] # None /\ record'[p].status # "rejected"
  BY DEF KeptInv
<1>0. /\ events \in Nat /\ events' \in Nat /\ events <= events'
      /\ candidate[p] \in Nat /\ candidate'[p] \in Nat /\ candidate[p] <= candidate'[p]
  BY NeverLess, BoundsAssumption
<1>1. CASE journal[p] # None /\ journal'[p] = journal[p]
  <2>1. Kept(p, journal[p], candidate[p], events) /\ record[p] # None /\ record[p].status # "rejected"
    BY <1>1 DEF IInv, KeptInv
  <2>2. Kept(p, journal'[p], candidate'[p], events')
    BY <1>0, <1>1, <2>1, KeptStays
  <2>3. record'[p] # None
    BY <2>1, RecordsStay
  <2>4. ASSUME NEW c \in Clients, Works(c) PROVE record'[p].status # "rejected"
    <3>1. CASE Reject(c)
      BY <1>1, <2>1, <3>1, RejectionRecorded
    <3>2. ASSUME NEW q \in Proposals, record' = Accepted(q), journal[q] # None
          PROVE record'[p].status # "rejected"
      BY <2>1, <3>2, AcceptanceRecorded
    <3> QED
      BY <2>1, <2>4, <3>1, <3>2, RecordForms
  <2>5. record'[p].status # "rejected"
    BY <2>1, <2>4, RecordsStay
  <2> QED
    BY <2>2, <2>3, <2>5
<1>2. ASSUME NEW c \in Clients, Prepare(c), client[c].proposal = p
      PROVE  /\ Kept(p, journal'[p], candidate'[p], events')
             /\ record'[p] # None /\ record'[p].status # "rejected"
  <2>1. /\ Kept(p, journal'[p], candidate[p], events)
        /\ record[p] # None /\ record[p].audit = None
    BY <1>2, JournalWritten
  <2>2. UNCHANGED <<record, candidate, events>>
    BY <1>2 DEF Prepare
  <2>3. record[p].status = "proposed"
    BY <2>1 DEF IInv, RecordInv
  <2> QED
    BY <2>1, <2>2, <2>3
<1> QED
  BY <1>1, <1>2, JournalOrigin

\* What the working call knows after its step, when it goes on.
KnowsMore(c) ==
  LET p == client[c].proposal IN
  /\ client'[c].pc \in Fresh => journal'[p] = None /\ record'[p].audit = None
  /\ client'[c].pc \in Writing => journal'[p] # None /\ record'[p].audit = None
  /\ client'[c].pc \in Clearing => journal'[p] # None
  /\ client'[c].pc = "prepare" => client'[c].text \in 0..candidate'[p]
  /\ client'[c].pc \notin {"write", "replace"} => client'[c].step = 1

LEMMA WorkerKnows ==
  ASSUME IInv, NEW c \in Clients, Works(c)
  PROVE  client'[c].pc # "idle" => KnowsMore(c)
<1> DEFINE p == client[c].proposal
<1>0. /\ p \in Proposals /\ CallFits(c) /\ candidate[p] \in Nat /\ UNCHANGED candidate
      /\ client[c].verdict \in Verdicts /\ client[c].step \in 1..3
  BY WorkerAlone, WorkChanges DEF IInv, InboxInv, CallFits, Holding, CallsInv, Call
<1> USE DEF Fresh, Writing, Clearing
<1>1. CASE RecoverForward(c)
  BY <1>0, <1>1, RecoverForwardGoes DEF RecoverForward, GoesOn, Goes, CallFits, KnowsMore
<1>2. CASE RecoverBack(c)
  BY <1>0, <1>2, RecoverBackGoes DEF RecoverBack, Goes, CallFits, KnowsMore, inbox
<1>3. CASE CompareAll(c)
  BY <1>0, <1>3, CompareAllGoes DEF CompareAll, Goes, CallFits, KnowsMore, inbox
<1>4. CASE Restores(c)
  BY <1>0, <1>4 DEF Restores, Goes, CallFits, KnowsMore
<1>5. CASE Clears(c)
  BY <1>0, <1>5 DEF Clears, GoesOn, Goes, CallFits, KnowsMore
<1>6. CASE Removes(c)
  BY <1>0, <1>6 DEF Removes, GoesOn, Goes, CallFits, KnowsMore
<1>7. CASE StartDecision(c)
  BY <1>0, <1>7, StartDecisionGoes
     DEF StartDecision, Deciding, Undecided, GoesOn, Goes, CallFits, KnowsMore, inbox
<1>8. CASE ComputeVersion(c)
  BY <1>0, <1>8, ComputeVersionGoes DEF ComputeVersion, Goes, CallFits, KnowsMore, inbox
<1>9. CASE Reject(c)
  BY <1>0, <1>9, RejectGoes DEF Reject, GoesOn, Goes, CallFits, KnowsMore
<1>10. CASE Loads(c)
  <2>1. candidate[p] \in 0..candidate[p]
    BY <1>0
  <2> QED
    BY <1>0, <1>10, <2>1 DEF Loads, Goes, CallFits, KnowsMore
<1>11. CASE Prepare(c)
  BY <1>0, <1>11, PrepareGoes, JournalWritten DEF Prepare, Goes, CallFits, KnowsMore
<1>12. CASE Compares(c)
  BY <1>0, <1>12 DEF Compares, GoesOn, Goes, CallFits, KnowsMore
<1>13. CASE Writes(c)
  <2>1. /\ client'[c].pc \in {"commit", "write"} /\ (client'[c].pc = "commit" => client'[c].step = 1)
        /\ client[c].pc = "replace" /\ UNCHANGED <<journal, record>>
    BY <1>13 DEF Writes, Goes
  <2> QED
    BY <1>0, <2>1 DEF CallFits, KnowsMore
<1>14. CASE RollsBack(c)
  BY <1>0, <1>14 DEF RollsBack, Goes, CallFits, KnowsMore
<1>15. CASE Commit(c)
  BY <1>0, <1>15, CommitGoes DEF Commit, GoesOn, Goes, CallFits, KnowsMore
<1>16. CASE CommitFailsLate(c)
  BY <1>0, <1>16, RollBackGoes DEF CommitFailsLate, Goes, CallFits, KnowsMore
<1> QED
  BY <1>1, <1>2, <1>3, <1>4, <1>5, <1>6, <1>7, <1>8, <1>9, <1>10, <1>11, <1>12, <1>13,
     <1>14, <1>15, <1>16 DEF Works

LEMMA StepCalls == ASSUME IInv, [Next]_vars PROVE CallsInv'
<1>0. /\ client \in [Clients -> Call] /\ lock \in Clients \union {Nobody}
      /\ \A d \in Clients : CallFits(d) /\ client[d].pc \in Steps
  BY DEF IInv, CallsInv, Call
<1>1. \A p \in Proposals : record[p] # None => record'[p] # None
  BY RecordsStay
<1>2. \A p \in Proposals :
        candidate[p] \in Nat /\ candidate'[p] \in Nat /\ candidate[p] <= candidate'[p]
  BY NeverLess
\* Who waits or is idle is disturbed by nobody.
<1>3. ASSUME NEW d \in Clients, client'[d] = client[d], client[d].pc \in {"idle", "lock"}, lock' # d
      PROVE  CallFits(d)'
  BY <1>0, <1>1, <1>3 DEF CallFits, Holding, Fresh, Writing, Clearing
\* Nor is anybody while no journal and no decision is made.
<1>4. ASSUME NEW d \in Clients, client'[d] = client[d], UNCHANGED journal, lock' = d <=> lock = d,
             \A p \in Proposals : record[p] # None => record'[p] = record[p]
      PROVE  CallFits(d)'
  <2>1. client[d].pc # "idle" =>
          client[d].proposal \in Proposals /\ record[client[d].proposal] # None
    BY <1>0 DEF CallFits
  <2>2. client[d].pc = "prepare" => client'[d].text \in 0..candidate'[client[d].proposal]
    BY <1>0, <1>2, <1>4, <2>1 DEF CallFits
  <2> QED
    BY <1>0, <1>1, <1>4, <2>1, <2>2 DEF CallFits, Fresh, Writing, Clearing
<1>5. ASSUME NEW c \in Clients, Works(c) PROVE CallsInv'
  <2> DEFINE p == client[c].proposal
  <2>1. /\ client[c].pc \in Holding /\ lock = c /\ p \in Proposals /\ record[p] # None
        /\ client' \in [Clients -> Call]
        /\ \/ client'[c].pc = "idle" /\ lock' = Nobody /\ client'[c].step = 1
           \/ client'[c].pc \in Holding /\ UNCHANGED lock /\ SameRequest(c)
        /\ \A d \in Clients \ {c} :
             client'[d] = client[d] /\ client[d].pc \in {"idle", "lock"} /\ lock' # d
    BY <1>5, WorkerAlone
  <2>2. CallFits(c)'
    <3>1. CASE client'[c].pc = "idle" /\ lock' = Nobody /\ client'[c].step = 1
      BY <3>1, NamesAssumption DEF CallFits, Holding, Fresh, Writing, Clearing
    <3>2. CASE client'[c].pc \in Holding /\ UNCHANGED lock /\ SameRequest(c)
      <4>1. KnowsMore(c) /\ record'[p] # None
        BY <1>1, <1>5, <2>1, <3>2, WorkerKnows DEF Holding
      <4>2. client[c].verdict \in Verdicts /\ client[c].version \in Statuses \X Nat
        BY <1>0, <2>1 DEF CallFits, Holding
      <4> QED
        BY <2>1, <3>2, <4>1, <4>2 DEF CallFits, KnowsMore, SameRequest
    <3> QED
      BY <2>1, <3>1, <3>2
  <2>3. \A d \in Clients : CallFits(d)'
    BY <1>3, <2>1, <2>2
  <2>4. lock' \in Clients \union {Nobody}
    BY <1>0, <2>1
  <2> QED
    BY <2>1, <2>3, <2>4 DEF CallsInv
<1>6. ASSUME NEW c \in Clients, Quiet(c) PROVE CallsInv'
  <2>1. CallFits(c)'
    BY <1>0, <1>6, NamesAssumption DEF Quiet, CallFits, Holding, Steps, Fresh, Writing, Clearing
  <2>2. ASSUME NEW d \in Clients \ {c} PROVE CallFits(d)'
    <3>1. client'[d] = client[d] /\ UNCHANGED <<journal, record>> /\ (lock' = d <=> lock = d)
      BY <1>6, NamesAssumption DEF Quiet, Others
    <3> QED
      BY <1>4, <3>1
  <2>3. client' \in [Clients -> Call] /\ lock' \in Clients \union {Nobody}
    BY <1>0, <1>6 DEF Quiet
  <2> QED
    BY <2>1, <2>2, <2>3 DEF CallsInv
<1>7. ASSUME UNCHANGED <<client, lock, journal>>,
             \A p \in Proposals : record[p] # None => record'[p] = record[p]
      PROVE  CallsInv'
  <2>1. \A d \in Clients : CallFits(d)'
    BY <1>4, <1>7
  <2> QED
    BY <1>0, <1>7, <2>1 DEF CallsInv
<1>8. ASSUME NEW q \in Proposals, Propose(q) PROVE CallsInv'
  <2>1. \A p \in Proposals : record[p] # None => record'[p] = record[p]
    BY <1>8 DEF Propose, IInv, InboxInv
  <2> QED
    BY <1>7, <1>8, <2>1 DEF Propose
<1> QED
  BY <1>5, <1>6, <1>7, <1>8, StepForms DEF ReviseCandidate, Edit, vars, inbox

LEMMA SpecIInv == Spec => []IInv
<1>1. IInv /\ [Next]_vars => IInv'
  BY StepCalls, StepInbox, StepBundle, StepRecord, StepKept DEF IInv
<1> QED
  BY <1>1, InitIInv, PTL DEF Spec

\* Every record, journal, file and call is of its kind in every state: an audit
\* stands in decided records only, an open journal belongs to no rejected
\* proposal (decision_transaction.go:159), and the lock is held by exactly the
\* call that decides (decision.go:131).
THEOREM TypeCorrect == Spec => []TypeOK
<1>1. IInv => TypeOK
  <2> SUFFICES ASSUME IInv PROVE TypeOK
    OBVIOUS
  <2>1. ASSUME NEW p \in Proposals
        PROVE  /\ record[p] # None =>
                    /\ record[p] \in Record
                    /\ record[p].status = "proposed" <=> record[p].audit = None
               /\ candidate[p] \in Revisions
               /\ journal[p] # None =>
                    /\ record[p].status # "rejected"
                    /\ journal[p].text \in Nat /\ journal[p].expected \in Nat
                    /\ \A f \in ToSet(FilesOf(p)) :
                         Fits(f, journal[p].before[f]) /\ Fits(f, journal[p].after[f])
    <3>1. candidate[p] \in Revisions /\ candidate[p] \in Nat
      BY BoundsAssumption DEF IInv, InboxInv, Revisions
    <3> QED
      BY <3>1 DEF IInv, RecordInv, KeptInv, Kept
  <2>2. \A f \in Files : Fits(f, bundle[f])
    BY DEF IInv, BundleInv
  <2>3. client \in [Clients -> Call] /\ lock \in Clients \union {Nobody} /\ events \in 0..MaxEvents
    BY DEF IInv, CallsInv, InboxInv
  <2>4. \A c \in Clients : lock = c <=> client[c].pc \notin {"idle", "lock"}
    BY <2>3 DEF IInv, CallsInv, CallFits, Holding, Call
  <2> QED
    BY <2>1, <2>2, <2>3, <2>4 DEF TypeOK
<1> QED
  BY <1>1, SpecIInv, PTL

\* What one step may do to a decided record: nothing.
Final == \A p \in Proposals :
  record[p] # None /\ record[p].status \in Verdicts => record'[p] = record[p]

LEMMA StepFinal == IInv /\ [Next]_vars => Final
<1> SUFFICES ASSUME IInv, [Next]_vars, NEW p \in Proposals, record[p] # None,
                    record[p].status \in Verdicts
             PROVE  record'[p] = record[p]
  BY DEF Final
<1>1. record[p].audit # None
  BY DEF IInv, RecordInv, Verdicts
<1> QED
  BY <1>1, RecordsStay

\* A recorded decision is never changed, withdrawn or decided again, whatever
\* crashes, retries, recoveries and concurrent requests do.
THEOREM DecisionsFinal == Spec => DecisionFinal
<1>1. IInv /\ [Next]_vars => [Final]_vars
  BY StepFinal
<1> QED
  BY <1>1, SpecIInv, PTL DEF Spec, DecisionFinal, Final

-----------------------------------------------------------------------------
(* Answers.                                                                *)

\* A decision accepts no text older than the one its version was computed from
\* nor newer than the candidate, and that version is the one its caller saw
\* unless the candidate slipped in between.
Ordered(r, last, p) ==
  /\ r.expected \in Nat /\ r.final \in Nat /\ r.text \in Nat
  /\ r.final <= r.text /\ r.text <= last
  /\ p \notin slipped => r.final = r.expected

OrderInv ==
  /\ \A p \in Proposals : journal[p] # None => Ordered(journal[p], candidate[p], p)
  /\ \A p \in Proposals :
       record[p] # None /\ record[p].audit # None => Ordered(record[p].audit, candidate[p], p)

Accepting == {"load"} \union {"prepare"} \union Writing

\* The decision is recorded, and its answer to be confirmed.
Confirming(c) ==
  client[c].pc = "confirm" \/ (client[c].pc = "remove" /\ client[c].then = "accept")

\* What a call knows of the version it was asked to decide.
Promised(c) ==
  LET p == client[c].proposal
      reviewed == client[c].version[2]
      final == client[c].final IN
  /\ client[c].pc = "version" => candidate[p] = reviewed \/ p \in slipped
  /\ client[c].pc \in Accepting \union {"reject"} \/ Confirming(c) =>
       final <= candidate[p] /\ (final = reviewed \/ p \in slipped)
  /\ client[c].pc \in Accepting => client[c].verdict = "accepted"
  /\ client[c].pc = "reject" => client[c].verdict = "rejected"
  /\ client[c].pc = "prepare" => final <= client[c].text
  /\ client[c].pc \in Writing => journal[p].expected = reviewed /\ journal[p].final = final
  /\ client[c].pc \in {"restore", "undo"} => client[c].then # "accept"
  /\ Confirming(c) =>
       record[p].status = client[c].verdict /\ record[p].audit # None /\ record[p].audit.final = final
  /\ client[c].answer =>
       /\ client[c].pc = "idle" /\ p \in Proposals /\ record[p] # None
       /\ client[c].verdict \in Verdicts /\ record[p].status = client[c].verdict
       /\ record[p].audit.text = record[p].audit.final
       /\ p \notin slipped => record[p].audit.text = reviewed

PromiseInv == \A c \in Clients : Promised(c)

LEMMA StepOrder ==
  ASSUME IInv, OrderInv, PromiseInv, [Next]_vars PROVE OrderInv'
<1>0. /\ \A p \in Proposals :
           candidate[p] \in Nat /\ candidate'[p] \in Nat /\ candidate[p] <= candidate'[p]
      /\ slipped \subseteq slipped'
  BY NeverLess
<1>1. ASSUME NEW p \in Proposals, journal'[p] # None PROVE Ordered(journal[p], candidate[p], p)'
  <2>1. CASE journal[p] # None /\ journal'[p] = journal[p]
    BY <1>0, <2>1 DEF OrderInv, Ordered
  <2>2. ASSUME NEW c \in Clients, Prepare(c), client[c].proposal = p
        PROVE Ordered(journal[p], candidate[p], p)'
    <3>1. /\ journal'[p].text = client[c].text /\ journal'[p].expected = client[c].version[2]
          /\ journal'[p].final = client[c].final
          /\ client[c].text \in 0..candidate[p] /\ Kept(p, journal'[p], candidate[p], events)
      BY <2>2, JournalWritten
    <3>2. /\ client[c].final <= client[c].text
          /\ client[c].final = client[c].version[2] \/ p \in slipped
      BY <2>2 DEF Prepare, PromiseInv, Promised, Accepting
    <3>3. journal'[p].expected \in Nat /\ journal'[p].final \in Nat
      BY <3>1 DEF Kept
    <3> QED
      BY <1>0, <3>1, <3>2, <3>3 DEF Ordered
  <2> QED
    BY <1>1, <2>1, <2>2, JournalOrigin
<1>2. ASSUME NEW p \in Proposals, record'[p] # None, record'[p].audit # None
      PROVE Ordered(record[p].audit, candidate[p], p)'
  <2>1. CASE record[p] # None /\ record'[p] = record[p]
    BY <1>0, <1>2, <2>1 DEF OrderInv, Ordered
  <2>2. ASSUME NEW c \in Clients, Works(c), record'[p] # record[p]
        PROVE Ordered(record[p].audit, candidate[p], p)'
    <3>1. CASE Reject(c)
      <4>1. /\ p = client[c].proposal
            /\ record'[p].audit.expected = client[c].version[2]
            /\ record'[p].audit.final = client[c].final /\ record'[p].audit.text = client[c].final
        BY <2>2, <3>1, RejectionRecorded
      <4>2. /\ client[c].final <= candidate[p]
            /\ client[c].final = client[c].version[2] \/ p \in slipped
            /\ client[c].final \in Nat /\ client[c].version[2] \in Nat
        BY <3>1, <4>1 DEF Reject, PromiseInv, Promised, IInv, CallsInv, Call, CallFits
      <4> QED
        BY <1>0, <4>1, <4>2 DEF Ordered
    <3>2. ASSUME NEW q \in Proposals, record' = Accepted(q), journal[q] # None
          PROVE Ordered(record[p].audit, candidate[p], p)'
      <4>1. q = p
        BY <2>2, <3>2, AcceptanceRecorded
      <4>2. Ordered(journal[p], candidate[p], p)
        BY <3>2, <4>1 DEF OrderInv
      <4>3. /\ record'[p].audit.expected = journal[p].expected
            /\ record'[p].audit.final = journal[p].final /\ record'[p].audit.text = journal[p].text
        BY <3>2, <4>1, AcceptanceRecorded
      <4> QED
        BY <1>0, <4>2, <4>3 DEF Ordered
    <3> QED
      BY <2>2, <3>1, <3>2, RecordForms
  <2>3. ASSUME NEW q \in Proposals, Propose(q) PROVE record[p] # None /\ record'[p] = record[p]
    <3>1. /\ record' = [record EXCEPT ![q] =
               [status |-> "proposed", base |-> bundle[Target[q]], audit |-> None]]
          /\ record = [r \in Proposals |-> record[r]]
      BY <2>3 DEF Propose, IInv, InboxInv
    <3>2. p # q
      BY <1>2, <3>1
    <3> QED
      BY <1>2, <3>1, <3>2
  <2> QED
    BY <1>2, <2>1, <2>2, <2>3, StepForms DEF Quiet, ReviseCandidate, Edit, vars, inbox
<1> QED
  BY <1>1, <1>2 DEF OrderInv

\* An idle or a waiting call keeps its promise while others work.
LEMMA PromiseKept ==
  ASSUME IInv, PromiseInv, [Next]_vars, NEW d \in Clients, client'[d] = client[d],
         client[d].pc \in {"idle", "lock"}
  PROVE  Promised(d)'
<1> DEFINE p == client[d].proposal
<1> USE DEF Accepting, Writing, Confirming
<1>1. CASE client[d].answer
  <2>1. /\ client[d].pc = "idle" /\ p \in Proposals /\ record[p] # None
        /\ client[d].verdict \in Verdicts /\ record[p].status = client[d].verdict
        /\ record[p].audit.text = record[p].audit.final
        /\ p \notin slipped => record[p].audit.text = client[d].version[2]
    BY <1>1 DEF PromiseInv, Promised
  <2>2. record'[p] = record[p] /\ (p \in slipped => p \in slipped')
    BY <2>1, StepFinal, NeverLess DEF Final
  <2> QED
    BY <2>1, <2>2 DEF Promised
<1>2. CASE ~client[d].answer
  BY <1>2 DEF Promised
<1> QED
  BY <1>1, <1>2

\* What is answered is what the record says.
LEMMA QuietPromise ==
  ASSUME IInv, OrderInv, PromiseInv, [Next]_vars, NEW c \in Clients, Quiet(c)
  PROVE  Promised(c)'
<1> DEFINE p == client[c].proposal
           reviewed == client[c].version[2]
<1>0. UNCHANGED <<record, candidate, slipped>>
  BY DEF Quiet, history
<1> USE DEF Accepting, Writing, Confirming
<1>1. CASE ~client'[c].answer
  BY <1>1 DEF Quiet, Promised
<1>2. CASE client'[c].answer /\ client[c].answer
  <2>1. /\ client[c].pc = "idle" /\ p \in Proposals /\ record[p] # None
        /\ client[c].verdict \in Verdicts /\ record[p].status = client[c].verdict
        /\ record[p].audit.text = record[p].audit.final
        /\ p \notin slipped => record[p].audit.text = reviewed
    BY <1>2 DEF PromiseInv, Promised
  <2>2. client'[c].pc = "idle" /\ client'[c].proposal = p
        /\ client'[c].verdict = client[c].verdict /\ client'[c].version = client[c].version
    BY <1>2, <2>1 DEF Quiet
  <2> QED
    BY <1>0, <2>1, <2>2 DEF Promised
<1>3. CASE client'[c].answer /\ ~client[c].answer
  <2>1. /\ client'[c].pc = "idle" /\ client'[c].proposal = p
        /\ client'[c].verdict = client[c].verdict /\ client'[c].version = client[c].version
        /\ \/ Deciding(c) /\ IsReplay(c)
           \/ client[c].pc = "confirm" /\ candidate[p] = client[c].final
    BY <1>3 DEF Quiet
  <2>2. p \in Proposals /\ record[p] # None /\ client[c].verdict \in Verdicts /\ candidate[p] \in Nat
    BY <2>1 DEF Deciding, IInv, CallsInv, CallFits, InboxInv
  <2>3. /\ record[p].status = client[c].verdict /\ record[p].audit # None
        /\ candidate[p] = record[p].audit.final
        /\ p \notin slipped => record[p].audit.final = reviewed
    <3>1. CASE client[c].pc = "confirm" /\ candidate[p] = client[c].final
      BY <3>1 DEF PromiseInv, Promised
    <3>2. CASE Deciding(c) /\ IsReplay(c)
      <4>1. /\ record[p].audit # None /\ record[p].status = client[c].verdict
            /\ candidate[p] = record[p].audit.final /\ reviewed = record[p].audit.expected
        BY <3>2 DEF IsReplay
      <4>2. p \notin slipped => record[p].audit.final = record[p].audit.expected
        BY <2>2, <4>1 DEF OrderInv, Ordered
      <4> QED
        BY <4>1, <4>2
    <3> QED
      BY <2>1, <3>1, <3>2
  <2>4. record[p].audit.text = record[p].audit.final
    BY <2>2, <2>3 DEF OrderInv, Ordered
  <2> QED
    BY <1>0, <2>1, <2>2, <2>3, <2>4 DEF Promised
<1> QED
  BY <1>1, <1>2, <1>3

LEMMA WorkPromise ==
  ASSUME IInv, PromiseInv, NEW c \in Clients, Works(c)
  PROVE  Promised(c)'
<1> DEFINE p == client[c].proposal
           reviewed == client[c].version[2]
<1>0. /\ client[c].pc \in Holding /\ client[c].pc # "idle" /\ p \in Proposals /\ CallFits(c)
      /\ client[c].verdict \in Verdicts /\ record[p] # None /\ UNCHANGED <<candidate, slipped>>
      /\ candidate[p] \in Nat /\ client[c].final \in Nat /\ reviewed \in Nat
      /\ Promised(c)
  BY WorkerAlone, WorkChanges DEF Holding, CallFits, IInv, InboxInv, CallsInv, Call, PromiseInv
<1>1. ~client[c].answer /\ ~client'[c].answer
  BY <1>0, WorkerAlone DEF Promised, SameRequest
<1> USE DEF Accepting, Writing, Confirming
<1>2. CASE RecoverForward(c)
  BY <1>1, <1>2, RecoverForwardGoes DEF GoesOn, Goes, Promised
<1>3. CASE RecoverBack(c)
  BY <1>1, <1>3, RecoverBackGoes DEF Goes, Promised
<1>4. CASE CompareAll(c)
  <2>1. client[c].then # "accept"
    BY <1>0, <1>4 DEF CompareAll, Promised
  <2> QED
    BY <1>1, <1>4, <2>1, CompareAllGoes DEF Goes, Promised
<1>5. CASE Restores(c)
  <2>1. client[c].then # "accept" /\ client'[c].pc = "undo" /\ client'[c].then = client[c].then
    BY <1>0, <1>5 DEF Restores, Goes, Promised
  <2> QED
    BY <1>1, <2>1 DEF Promised
<1>6. CASE Clears(c)
  <2>1. client[c].then # "accept"
    BY <1>0, <1>6 DEF Clears, Promised
  <2> QED
    BY <1>1, <1>6, <2>1 DEF Clears, GoesOn, Goes, Promised
<1>7. CASE Removes(c)
  <2>1. CASE client[c].then = "accept" /\ client'[c].pc = "confirm"
    <3>1. SameRequest(c) /\ client'[c].final = client[c].final /\ UNCHANGED record /\ client[c].pc = "remove"
      BY <1>7, <2>1 DEF Removes, GoesOn, Goes
    <3> QED
      BY <1>0, <1>1, <2>1, <3>1 DEF Promised, SameRequest
  <2>2. CASE client'[c].pc \in {"recover", "idle"}
    BY <1>1, <2>2 DEF Promised
  <2> QED
    BY <1>7, <2>1, <2>2 DEF Removes, GoesOn, Goes
<1>8. CASE StartDecision(c)
  <2>1. /\ client'[c].pc = "version" /\ SameRequest(c) /\ reviewed = candidate[p]
    BY <1>8, StartDecisionGoes DEF StartDecision, GoesOn, Goes, Expected, Version
  <2> QED
    BY <1>0, <1>1, <2>1 DEF Promised, SameRequest
<1>9. CASE ComputeVersion(c)
  <2>1. /\ client'[c].pc = IF client[c].verdict = "accepted" THEN "load" ELSE "reject"
        /\ SameRequest(c) /\ client'[c].final = candidate[p]
        /\ candidate[p] = reviewed \/ p \in slipped
    BY <1>0, <1>9, ComputeVersionGoes DEF ComputeVersion, Goes, Promised
  <2> QED
    BY <1>0, <1>1, <2>1 DEF Promised, SameRequest, Verdicts
<1>10. CASE Reject(c)
  <2>1. client'[c].pc = "confirm" /\ SameRequest(c) /\ client'[c].final = client[c].final
        /\ client[c].pc = "reject"
    BY <1>10, RejectGoes DEF Reject, GoesOn, Goes
  <2>2. /\ record'[p].status = "rejected" /\ record'[p].audit # None
        /\ record'[p].audit.final = client[c].final
    BY <1>10, RejectionRecorded
  <2> QED
    BY <1>0, <1>1, <2>1, <2>2 DEF Promised, SameRequest
<1>11. CASE Loads(c)
  <2>1. /\ client'[c].pc = "prepare" /\ client'[c].text = candidate[p] /\ SameRequest(c)
        /\ client'[c].final = client[c].final /\ client[c].pc = "load"
    BY <1>11 DEF Loads, Goes
  <2> QED
    BY <1>0, <1>1, <2>1 DEF Promised, SameRequest
<1>12. CASE Prepare(c)
  <2>1. /\ client'[c].pc = "write" /\ SameRequest(c) /\ client'[c].final = client[c].final
        /\ journal'[p].expected = reviewed /\ journal'[p].final = client[c].final
        /\ client[c].pc = "prepare"
    BY <1>12, PrepareGoes, JournalWritten DEF Prepare, Goes
  <2> QED
    BY <1>0, <1>1, <2>1 DEF Promised, SameRequest
<1>13. ASSUME client[c].pc \in Writing, client'[c].pc \in Writing, SameRequest(c),
              client'[c].final = client[c].final, UNCHANGED journal
       PROVE  Promised(c)'
  <2>1. /\ client[c].final <= candidate[p] /\ (client[c].final = reviewed \/ p \in slipped)
        /\ client[c].verdict = "accepted"
        /\ journal[p].expected = reviewed /\ journal[p].final = client[c].final
    BY <1>0, <1>13 DEF Promised
  <2> QED
    BY <1>0, <1>1, <1>13, <2>1 DEF Promised, SameRequest
<1>14. CASE Compares(c)
  BY <1>13, <1>14 DEF Compares, GoesOn, Goes
<1>15. CASE Writes(c)
  <2>1. client'[c].pc \in {"write", "commit"} /\ SameRequest(c)
        /\ client'[c].final = client[c].final /\ UNCHANGED journal /\ client[c].pc = "replace"
    BY <1>15 DEF Writes, Goes
  <2> QED
    BY <1>13, <2>1
<1>16. CASE RollsBack(c)
  BY <1>1, <1>16 DEF RollsBack, Goes, Promised
<1>17. CASE Commit(c)
  <2>1. /\ client'[c].pc = "remove" /\ SameRequest(c) /\ client'[c].final = client[c].final
        /\ client[c].pc = "commit" /\ journal[p] # None /\ record' = Accepted(p)
    BY <1>0, <1>17, CommitGoes DEF Commit, GoesOn, Goes, CallFits
  <2>2. /\ record'[p].status = "accepted" /\ record'[p].audit # None
        /\ record'[p].audit.final = journal[p].final
    BY <1>0, <2>1, AcceptanceRecorded
  <2> QED
    BY <1>0, <1>1, <2>1, <2>2 DEF Promised, SameRequest
<1>18. CASE CommitFailsLate(c)
  BY <1>1, <1>18, RollBackGoes DEF CommitFailsLate, Goes, Promised
<1> QED
  BY <1>2, <1>3, <1>4, <1>5, <1>6, <1>7, <1>8, <1>9, <1>10, <1>11, <1>12, <1>14, <1>15, <1>16,
     <1>17, <1>18 DEF Works

LEMMA StepPromise ==
  ASSUME IInv, OrderInv, PromiseInv, [Next]_vars PROVE PromiseInv'
<1>0. \A c \in Clients : Promised(c) /\ CallFits(c) /\ client[c].final \in Nat
  BY DEF PromiseInv, IInv, CallsInv, Call
<1>1. ASSUME NEW c \in Clients, Works(c), NEW d \in Clients PROVE Promised(d)'
  BY <1>1, WorkPromise, WorkerAlone, PromiseKept
<1>2. ASSUME NEW c \in Clients, Quiet(c), NEW d \in Clients PROVE Promised(d)'
  <2>1. CASE d = c
    BY <1>2, <2>1, QuietPromise
  <2>2. CASE d # c
    <3>1. client'[d] = client[d] /\ UNCHANGED <<record, candidate, journal, slipped>>
      BY <1>2, <2>2 DEF Quiet, Others, history
    <3> QED
      BY <1>0, <3>1 DEF Promised, Confirming
  <2> QED
    BY <2>1, <2>2
\* While the calls stay, candidates get newer and a fresh text slips in.
<1>3. ASSUME UNCHANGED <<client, journal>>,
             \A q \in Proposals : record[q] # None => record'[q] = record[q],
             \A q \in Proposals : candidate'[q] = candidate[q] \/ ~Versioning(q) \/ q \in slipped',
             NEW d \in Clients
      PROVE  Promised(d)'
  <2> DEFINE p == client[d].proposal
  <2>1. /\ client'[d] = client[d] /\ UNCHANGED journal /\ Promised(d) /\ client[d].final \in Nat
        /\ p \in slipped => p \in slipped'
    BY <1>0, <1>3, NeverLess
  <2>2. client[d].pc # "idle" =>
          /\ p \in Proposals /\ record[p] # None /\ record'[p] = record[p]
          /\ candidate[p] \in Nat /\ candidate'[p] \in Nat /\ candidate[p] <= candidate'[p]
    BY <1>0, <1>3, NeverLess DEF CallFits
  <2>3. client[d].answer => record'[p] = record[p]
    BY <1>3, <2>1 DEF Promised
  <2>4. client[d].pc = "version" => candidate'[p] = candidate[p] \/ p \in slipped'
    BY <1>3, <2>2 DEF Versioning
  <2>5. client[d].pc \in Accepting \union {"reject"} \/ Confirming(d) =>
          client[d].final <= candidate'[p] /\ (client[d].final = client[d].version[2] \/ p \in slipped')
    BY <2>1, <2>2 DEF Promised, Accepting, Writing, Confirming
  <2> QED
    BY <2>1, <2>2, <2>3, <2>4, <2>5 DEF Promised, Accepting, Writing, Confirming
<1>4. ASSUME NEW q \in Proposals, Propose(q), NEW d \in Clients PROVE Promised(d)'
  <2>1. /\ UNCHANGED <<client, journal, candidate>>
        /\ \A r \in Proposals : record[r] # None => record'[r] = record[r]
    BY <1>4 DEF Propose, IInv, InboxInv
  <2> QED
    BY <1>3, <2>1
<1>5. ASSUME NEW q \in Revisable, ReviseCandidate(q), NEW d \in Clients PROVE Promised(d)'
  <2>1. /\ UNCHANGED <<client, journal, record>>
        /\ \A r \in Proposals : candidate'[r] = candidate[r] \/ ~Versioning(r) \/ r \in slipped'
    BY <1>5, SubsetsAssumption DEF ReviseCandidate, IInv, InboxInv
  <2> QED
    BY <1>3, <2>1
<1>6. ASSUME UNCHANGED <<client, journal, record, candidate>>, NEW d \in Clients
      PROVE  Promised(d)'
  BY <1>3, <1>6
<1> QED
  BY <1>1, <1>2, <1>4, <1>5, <1>6, StepForms DEF Edit, vars, inbox, PromiseInv

LEMMA SpecAnswer == Spec => [](OrderInv /\ PromiseInv)
<1>1. Init => OrderInv /\ PromiseInv
  BY DEF Init, OrderInv, PromiseInv, Promised, Accepting, Writing, Confirming, Idle, Request
<1>2. IInv /\ OrderInv /\ PromiseInv /\ [Next]_vars => OrderInv' /\ PromiseInv'
  BY StepOrder, StepPromise
<1> QED
  BY <1>1, <1>2, SpecIInv, PTL DEF Spec

\* What a call answered is what the record says from then on, and the accepted
\* text is the one its version was computed from; it is the one the caller had
\* reviewed unless the candidate was revised between the two versions, whatever
\* else was revised, crashed or was retried in between.
THEOREM AnswersTrue == Spec => []AnswerIsTrue
<1>1. PromiseInv => AnswerIsTrue
  BY DEF PromiseInv, Promised, AnswerIsTrue
<1> QED
  BY <1>1, SpecAnswer, PTL

-----------------------------------------------------------------------------
(* Edits by hand.                                                          *)

\* The file is as the journal of p found it, or as it is to become.
Snapped(p, f) == bundle[f] = journal[p].before[f]
Done(p, f) == bundle[f] = journal[p].after[f]

\* A file about to be replaced or restored holds what it was compared with,
\* unless somebody has edited it since.
SwapFits(c) ==
  LET p == client[c].proposal IN
  /\ client[c].pc = "replace" =>
       Snapped(p, FilesOf(p)[client[c].step]) \/ FilesOf(p)[client[c].step] \in raced
  /\ client[c].pc = "undo" =>
       \A i \in client[c].todo : Done(p, FilesOf(p)[i]) \/ FilesOf(p)[i] \in raced
SwapInv == \A c \in Clients : SwapFits(c)

LEMMA StepSwap ==
  ASSUME IInv, SwapInv, [Next]_vars PROVE SwapInv'
<1>0. \A c \in Clients : SwapFits(c)
  BY DEF SwapInv
<1>1. ASSUME NEW d \in Clients, client'[d].pc \notin {"replace", "undo"} PROVE SwapFits(d)'
  BY <1>1 DEF SwapFits
<1>2. ASSUME NEW d \in Clients, client'[d] = client[d], UNCHANGED <<bundle, journal, raced>>
      PROVE  SwapFits(d)'
  BY <1>0, <1>2 DEF SwapFits, Snapped, Done
<1>3. ASSUME NEW c \in Clients, Works(c) PROVE SwapInv'
  <2> DEFINE p == client[c].proposal
  <2>1. ASSUME NEW d \in Clients \ {c} PROVE SwapFits(d)'
    <3>1. client'[d].pc \in {"idle", "lock"}
      BY <1>3, WorkerAlone
    <3> QED
      BY <1>1, <3>1
  <2>2. /\ client[c] \in Call /\ client[c].todo \in SUBSET (1..3) /\ p \in Proposals
        /\ bundle = [f \in Files |-> bundle[f]]
    BY <1>3, WorkerAlone DEF IInv, CallsInv, Call, BundleInv
  <2>3. SwapFits(c)'
    <3>1. CASE Compares(c)
      <4>1. /\ client'[c].pc = "replace" /\ client'[c].proposal = p
            /\ client'[c].step = client[c].step /\ Snapped(p, FilesOf(p)[client[c].step])
            /\ UNCHANGED <<bundle, journal>>
        BY <3>1 DEF Compares, GoesOn, Goes, SameRequest, Snapped
      <4> QED
        BY <4>1 DEF SwapFits, Snapped
    <3>2. CASE CompareAll(c)
      <4>1. /\ client'[c].pc = "undo" /\ client'[c].proposal = p /\ client'[c].todo = Dirty(c)
            /\ UNCHANGED <<bundle, journal>>
        BY <3>2, CompareAllGoes DEF CompareAll, Goes, SameRequest, inbox
      <4>2. \A i \in Dirty(c) : Done(p, FilesOf(p)[i])
        BY DEF Dirty, Done
      <4> QED
        BY <4>1, <4>2 DEF SwapFits, Done
    <3>3. CASE Restores(c)
      <4>1. PICK i \in client[c].todo :
              /\ client[c].pc = "undo"
              /\ bundle' = [bundle EXCEPT ![FilesOf(p)[i]] = journal[p].before[FilesOf(p)[i]]]
              /\ raced' = raced \ {FilesOf(p)[i]}
              /\ client'[c].pc = "undo" /\ client'[c].proposal = p
              /\ client'[c].todo = client[c].todo \ {i}
              /\ UNCHANGED journal
        BY <3>3 DEF Restores, Goes, SameRequest, Written
      <4>2. ASSUME NEW k \in client'[c].todo
            PROVE  Done(p, FilesOf(p)[k])' \/ FilesOf(p)[k] \in raced'
        <5>1. k \in 1..3 /\ i \in 1..3 /\ k # i /\ k \in client[c].todo
          BY <2>2, <4>1
        <5>2. FilesOf(p)[k] # FilesOf(p)[i]
          BY <2>2, <5>1, FilesOfProposal
        <5>3. Done(p, FilesOf(p)[k]) \/ FilesOf(p)[k] \in raced
          BY <1>0, <4>1, <5>1 DEF SwapFits
        <5>4. bundle'[FilesOf(p)[k]] = bundle[FilesOf(p)[k]]
          BY <4>1, <5>2
        <5> QED
          BY <4>1, <5>2, <5>3, <5>4 DEF Done
      <4> QED
        BY <4>1, <4>2 DEF SwapFits
    <3>4. CASE ~Compares(c) /\ ~CompareAll(c) /\ ~Restores(c)
      <4>1. client'[c].pc \notin {"replace", "undo"}
        <5> USE DEF GoesOn, Goes
        <5>1. Works(c)
          BY <1>3
        <5> QED
          BY <3>4, <5>1, RecoverForwardGoes, RecoverBackGoes, StartDecisionGoes, ComputeVersionGoes,
             RejectGoes, PrepareGoes, CommitGoes, RollBackGoes
             DEF Works, Clears, Removes, Loads, Writes, RollsBack, CommitFailsLate
      <4> QED
        BY <1>1, <4>1
    <3> QED
      BY <3>1, <3>2, <3>3, <3>4
  <2> QED
    BY <2>1, <2>3 DEF SwapInv
<1>4. ASSUME NEW c \in Clients, Quiet(c) PROVE SwapInv'
  <2>1. SwapFits(c)'
    BY <1>1, <1>4 DEF Quiet
  <2>2. ASSUME NEW d \in Clients \ {c} PROVE SwapFits(d)'
    BY <1>2, <1>4 DEF Quiet, Others, history
  <2> QED
    BY <2>1, <2>2 DEF SwapInv
<1>5. ASSUME NEW f \in Files, Edit(f) PROVE SwapInv'
  <2>1. /\ UNCHANGED <<client, journal>> /\ raced \subseteq raced'
        /\ \A c \in Clients : f \in Pending(c) => f \in raced'
        /\ \A g \in Files \ {f} : bundle'[g] = bundle[g]
    <3>1. UNCHANGED <<client, journal>>
      BY <1>5 DEF Edit, inbox
    <3>2. raced' = raced \union (IF \E c \in Clients : f \in Pending(c) THEN {f} ELSE {})
      BY <1>5 DEF Edit
    <3>3. \E x : bundle' = [bundle EXCEPT ![f] = x]
      <4>1. CASE f = "index" /\ bundle' = [bundle EXCEPT !["index"].edits = bundle["index"].edits + 1]
        BY <4>1
      <4> QED
        BY <1>5, <4>1 DEF Edit
    <3>4. \A g \in Files \ {f} : bundle'[g] = bundle[g]
      BY <3>3 DEF IInv, BundleInv
    <3> QED
      BY <3>1, <3>2, <3>4
  <2>2. ASSUME NEW d \in Clients PROVE SwapFits(d)'
    <3> DEFINE p == client[d].proposal
    <3>1. client[d].pc # "idle" =>
            /\ p \in Proposals /\ client[d].step \in 1..3 /\ client[d].todo \in SUBSET (1..3)
            /\ \A i \in 1..3 : FilesOf(p)[i] \in Files
      <4>1. client[d].pc # "idle" =>
              p \in Proposals /\ client[d].step \in 1..3 /\ client[d].todo \in SUBSET (1..3)
        BY DEF IInv, CallsInv, CallFits, Call
      <4> QED
        BY <4>1, FilesOfProposal
    <3>2. CASE client[d].pc = "replace"
      <4> DEFINE g == FilesOf(p)[client[d].step]
      <4>1. g \in Files /\ (Snapped(p, g) \/ g \in raced)
        BY <1>0, <3>1, <3>2 DEF SwapFits
      <4>2. g = f => f \in raced'
        BY <2>1, <3>2 DEF Pending
      <4>3. Snapped(p, g)' \/ g \in raced'
        BY <2>1, <4>1, <4>2 DEF Snapped
      <4> QED
        BY <2>1, <3>2, <4>3 DEF SwapFits
    <3>3. CASE client[d].pc = "undo"
      <4>1. ASSUME NEW i \in client[d].todo PROVE Done(p, FilesOf(p)[i])' \/ FilesOf(p)[i] \in raced'
        <5> DEFINE g == FilesOf(p)[i]
        <5>1. g \in Files /\ (Done(p, g) \/ g \in raced)
          BY <1>0, <3>1, <3>3 DEF SwapFits
        <5>2. g = f => f \in raced'
          BY <2>1, <3>3 DEF Pending
        <5> QED
          BY <2>1, <5>1, <5>2 DEF Done
      <4> QED
        BY <2>1, <3>3, <4>1 DEF SwapFits
    <3> QED
      BY <1>1, <2>1, <3>2, <3>3
  <2> QED
    BY <2>2 DEF SwapInv
<1>6. UNCHANGED <<client, journal, bundle, raced>> => SwapInv'
  BY <1>2 DEF SwapInv
<1> QED
  BY <1>3, <1>4, <1>5, <1>6, StepForms DEF Propose, ReviseCandidate, vars, inbox, history

\* A journal's two contents of a file hold the same edits by hand.
LEMMA SameEdits ==
  ASSUME NEW p \in Proposals, NEW j, NEW last, NEW made, Kept(p, j, last, made)
  PROVE  /\ j.before["index"].edits = j.after["index"].edits
         /\ j.before["log"] \in LogFile /\ j.after["log"] \in LogFile
         /\ Lines(j.before["log"], Editor) = Lines(j.after["log"], Editor)
<1>1. /\ j.before["log"] \in LogFile /\ j.after["log"] \in LogFile
      /\ j.after["log"] = Append(j.before["log"], p)
  <2>1. "log" \in ToSet(FilesOf(p))
    BY FilesOfProposal
  <2>2. Fits("log", j.before["log"]) /\ Fits("log", j.after["log"])
    BY <2>1 DEF Kept
  <2> QED
    BY <2>2, FitsEach DEF Kept
<1>2. Lines(Append(j.before["log"], p), Editor) = Lines(j.before["log"], Editor)
  BY <1>1, LinesAfterAppend, NamesAssumption DEF LogLine
<1> QED
  BY <1>1, <1>2 DEF Kept

\* One file goes from one of its two contents to the other, or has been raced.
LEMMA SwapKeepsEdits ==
  ASSUME IInv, NEW p \in Proposals, journal[p] # None, NEW f \in ToSet(FilesOf(p)),
         NEW x, bundle' = [bundle EXCEPT ![f] = x],
         \/ Snapped(p, f) /\ x = journal[p].after[f]
         \/ Done(p, f) /\ x = journal[p].before[f]
         \/ f \in raced,
         NEW g \in {"index", "log"}
  PROVE  HandEdits(g)' = HandEdits(g) \/ g \in raced
<1>1. Kept(p, journal[p], candidate[p], events) /\ BundleInv
  BY DEF IInv, KeptInv
<1>2. /\ journal[p].before["index"].edits = journal[p].after["index"].edits
      /\ Lines(journal[p].before["log"], Editor) = Lines(journal[p].after["log"], Editor)
  BY <1>1, SameEdits
<1>3. f \in Files /\ \A h \in Files : bundle'[h] = IF h = f THEN x ELSE bundle[h]
  BY <1>1, FilesOfProposal DEF BundleInv
<1>4. "index" \in Files /\ "log" \in Files
  BY DEF Files
<1>5. CASE g = "index"
  <2>1. bundle'["index"].edits = bundle["index"].edits \/ "index" \in raced
    BY <1>2, <1>3, <1>4 DEF Snapped, Done
  <2> QED
    BY <1>5, <2>1 DEF HandEdits
<1>6. CASE g = "log"
  <2>1. Lines(bundle'["log"], Editor) = Lines(bundle["log"], Editor) \/ "log" \in raced
    BY <1>2, <1>3, <1>4 DEF Snapped, Done
  <2> QED
    BY <1>6, <2>1 DEF HandEdits
<1> QED
  BY <1>5, <1>6

\* What one step may do to what hands wrote.
KeepsEdits == \A f \in {"index", "log"} : HandEdits(f)' >= HandEdits(f) \/ f \in raced

LEMMA StepEdits ==
  ASSUME IInv, SwapInv, [Next]_vars PROVE KeepsEdits
<1>0. /\ BundleInv /\ bundle["index"].edits \in Nat /\ bundle["log"] \in LogFile
      /\ \A f \in {"index", "log"} : HandEdits(f) \in Nat
  <2>1. BundleInv /\ bundle["index"] \in IndexFile /\ bundle["log"] \in LogFile
    BY FitsEach DEF IInv, BundleInv, Files
  <2>2. Lines(bundle["log"], Editor) \in Nat
    BY <2>1, LinesAfterAppend DEF LogLine
  <2> QED
    BY <2>1, <2>2, BoundsAssumption DEF IndexFile, HandEdits
<1>1. UNCHANGED bundle => KeepsEdits
  BY <1>0 DEF HandEdits, KeepsEdits
<1>2. (\A f \in {"index", "log"} : HandEdits(f)' = HandEdits(f) \/ f \in raced) => KeepsEdits
  BY <1>0 DEF KeepsEdits
<1>3. ASSUME NEW c \in Clients, Works(c) PROVE KeepsEdits
  <2> DEFINE p == client[c].proposal
  <2>0. p \in Proposals /\ CallFits(c) /\ SwapFits(c) /\ client[c].todo \in SUBSET (1..3)
    BY <1>3, WorkerAlone DEF SwapInv, IInv, CallsInv, Call
  <2>1. CASE Writes(c)
    <3> DEFINE f == FilesOf(p)[client[c].step]
    <3>1. /\ journal[p] # None /\ f \in ToSet(FilesOf(p))
          /\ Snapped(p, f) \/ f \in raced
          /\ bundle' = [bundle EXCEPT ![f] = journal[p].after[f]]
      BY <2>0, <2>1, FileOfStep DEF Writes, CallFits, SwapFits, Writing
    <3> HIDE DEF f
    <3> QED
      BY <1>2, <2>0, <3>1, SwapKeepsEdits
  <2>2. CASE Restores(c)
    <3>1. PICK i \in client[c].todo :
            /\ client[c].pc = "undo"
            /\ bundle' = [bundle EXCEPT ![FilesOf(p)[i]] = journal[p].before[FilesOf(p)[i]]]
      BY <2>2 DEF Restores
    <3> DEFINE f == FilesOf(p)[i]
    <3>2. /\ journal[p] # None /\ f \in ToSet(FilesOf(p)) /\ (Done(p, f) \/ f \in raced)
          /\ bundle' = [bundle EXCEPT ![f] = journal[p].before[f]]
      BY <2>0, <3>1, FilesOfProposal DEF CallFits, SwapFits, Clearing
    <3> HIDE DEF f
    <3> QED
      BY <1>2, <2>0, <3>2, SwapKeepsEdits
  <2> QED
    BY <1>1, <1>3, <2>1, <2>2, WorkChanges
<1>4. ASSUME NEW f \in Files, Edit(f) PROVE KeepsEdits
  <2>0. "index" \in Files /\ "log" \in Files /\ bundle = [g \in Files |-> bundle[g]]
    BY <1>0 DEF Files, BundleInv
  <2>1. CASE bundle' = [bundle EXCEPT !["index"].edits = bundle["index"].edits + 1]
    <3>1. bundle["index"] \in IndexFile
      BY <1>0, FitsEach DEF BundleInv, Files
    <3>2. bundle'["index"].edits = bundle["index"].edits + 1 /\ bundle'["log"] = bundle["log"]
      BY <2>0, <2>1, <3>1 DEF IndexFile
    <3> QED
      BY <1>0, <3>2 DEF HandEdits, KeepsEdits
  <2>2. CASE bundle' = [bundle EXCEPT !["log"] = Append(bundle["log"], Editor)]
    <3>1. bundle'["index"] = bundle["index"] /\ bundle'["log"] = Append(bundle["log"], Editor)
      BY <2>0, <2>2
    <3>2. Lines(Append(bundle["log"], Editor), Editor) = Lines(bundle["log"], Editor) + 1
      BY <1>0, LinesAfterAppend DEF LogLine
    <3> QED
      BY <1>0, <3>1, <3>2 DEF HandEdits, KeepsEdits
  <2>3. CASE f \in Existing /\ bundle' = [bundle EXCEPT ![f] = Editor]
    <3>1. f # "index" /\ f # "log"
      BY <2>3, NamesAssumption DEF Existing
    <3>2. bundle'["index"] = bundle["index"] /\ bundle'["log"] = bundle["log"]
      BY <2>0, <2>3, <3>1
    <3> QED
      BY <1>0, <3>2 DEF HandEdits, KeepsEdits
  <2> QED
    BY <1>4, <2>1, <2>2, <2>3 DEF Edit
<1> QED
  BY <1>1, <1>3, <1>4, StepForms DEF Quiet, Propose, ReviseCandidate, vars

LEMMA SpecSwap == Spec => [](IInv /\ SwapInv)
<1>1. Init => SwapInv
  BY DEF Init, SwapInv, SwapFits, Idle, Request
<1>2. IInv /\ SwapInv /\ [Next]_vars => SwapInv'
  BY StepSwap
<1> QED
  BY <1>1, <1>2, SpecIInv, PTL DEF Spec

\* No write, rollback or recovery discards what a hand wrote into index.md or
\* log.md before that file was compared for the write: only what is written
\* between the comparison and the rename over the file may be lost.
THEOREM EditsSurvive == Spec => EditsKept
<1>1. IInv /\ SwapInv /\ [Next]_vars => [KeepsEdits]_vars
  BY StepEdits
<1> QED
  BY <1>1, SpecSwap, PTL DEF Spec, EditsKept, KeepsEdits

-----------------------------------------------------------------------------
(***************************************************************************)
(* Atomicity.  An acceptance is three renames and a fourth that commits,   *)
(* and it fails or dies anywhere in between; yet log.md counts it exactly  *)
(* when it is recorded (BundleAgrees), if no other writer met it half way  *)
(* and its record was not renamed by a write that failed.  First log.md,   *)
(* file by file and acceptance by acceptance, then index.md, which all     *)
(* share.                                                                  *)
(***************************************************************************)

\* A call compares log.md before it writes it, and hands only add lines of
\* their own: what it replaces has the same lines about proposals.
LinesFit(c) ==
  LET p == client[c].proposal IN
  /\ client[c].pc = "replace" /\ client[c].step = 3 =>
       \A q \in Proposals : Lines(bundle["log"], q) = Lines(journal[p].before["log"], q)
  /\ client[c].pc = "undo" /\ 3 \in client[c].todo =>
       \A q \in Proposals : Lines(bundle["log"], q) = Lines(journal[p].after["log"], q)
LinesInv == \A c \in Clients : LinesFit(c)

\* What an edit does to the files, and to the lines about proposals.
LEMMA EditKeeps ==
  ASSUME IInv, NEW f \in Files, Edit(f)
  PROVE  /\ UNCHANGED <<record, candidate, journal, client, late>> /\ Disturbs(None, f)
         /\ \A g \in Files \ {f} : bundle'[g] = bundle[g]
         /\ \A p \in Proposals : Lines(bundle'["log"], p) = Lines(bundle["log"], p)
<1>0. /\ UNCHANGED <<record, candidate, journal, client, late>> /\ Disturbs(None, f)
      /\ bundle = [g \in Files |-> bundle[g]]
  BY DEF Edit, inbox, IInv, BundleInv
<1>1. \E x : bundle' = [bundle EXCEPT ![f] = x]
  <2>1. CASE f = "index" /\ bundle' = [bundle EXCEPT !["index"].edits = bundle["index"].edits + 1]
    BY <2>1
  <2> QED
    BY <2>1 DEF Edit
<1>2. \A g \in Files \ {f} : bundle'[g] = bundle[g]
  BY <1>0, <1>1
<1>3. "log" \in Files /\ bundle["log"] \in LogFile
  BY FitsEach DEF IInv, BundleInv, Files
<1>4. CASE f = "log"
  <2>1. bundle'["log"] = Append(bundle["log"], Editor)
    <3>1. "log" \notin Existing
      BY NamesAssumption DEF Existing
    <3> QED
      BY <1>0, <1>3, <1>4, <3>1 DEF Edit
  <2>2. \A p \in Proposals : p # Editor
    BY NamesAssumption
  <2> QED
    BY <1>0, <1>2, <1>3, <2>1, <2>2, LinesAfterAppend DEF LogLine
<1>5. CASE f # "log"
  BY <1>0, <1>2, <1>3, <1>5
<1> QED
  BY <1>4, <1>5

LEMMA StepLines ==
  ASSUME IInv, LinesInv, [Next]_vars PROVE LinesInv'
<1>0. \A c \in Clients : LinesFit(c)
  BY DEF LinesInv
<1>1. ASSUME NEW d \in Clients, client'[d].pc \notin {"replace", "undo"} PROVE LinesFit(d)'
  BY <1>1 DEF LinesFit
<1>2. ASSUME NEW d \in Clients, client'[d] = client[d], UNCHANGED journal,
             \A q \in Proposals : Lines(bundle'["log"], q) = Lines(bundle["log"], q)
      PROVE  LinesFit(d)'
  BY <1>0, <1>2 DEF LinesFit
<1>3. ASSUME NEW c \in Clients, Works(c) PROVE LinesInv'
  <2> DEFINE p == client[c].proposal
  <2>1. ASSUME NEW d \in Clients \ {c} PROVE LinesFit(d)'
    <3>1. client'[d].pc \in {"idle", "lock"}
      BY <1>3, WorkerAlone
    <3> QED
      BY <1>1, <3>1
  <2>2. /\ client[c].todo \in SUBSET (1..3) /\ p \in Proposals
        /\ bundle = [f \in Files |-> bundle[f]] /\ "log" \in Files
        /\ FilesOf(p)[3] = "log"
        /\ \A i \in 1..3 : i # 3 => FilesOf(p)[i] # "log"
    <3>1. /\ client[c].todo \in SUBSET (1..3) /\ p \in Proposals
          /\ bundle = [f \in Files |-> bundle[f]] /\ "log" \in Files
      BY <1>3, WorkerAlone DEF IInv, CallsInv, Call, BundleInv, Files
    <3>2. /\ FilesOf(p)[3] = "log" /\ 3 \in 1..3
          /\ \A i, k \in 1..3 : FilesOf(p)[i] = FilesOf(p)[k] => i = k
      BY <3>1, FilesOfProposal
    <3> QED
      BY <3>1, <3>2
  <2>3. LinesFit(c)'
    <3>1. CASE Compares(c)
      <4>1. /\ client'[c].pc = "replace" /\ client'[c].proposal = p
            /\ client'[c].step = client[c].step /\ Snapped(p, FilesOf(p)[client[c].step])
            /\ UNCHANGED <<bundle, journal>>
        BY <3>1 DEF Compares, GoesOn, Goes, SameRequest, Snapped
      <4>2. client'[c].step = 3 => bundle'["log"] = journal'[p].before["log"]
        BY <2>2, <4>1 DEF Snapped
      <4> QED
        BY <4>1, <4>2 DEF LinesFit
    <3>2. CASE CompareAll(c)
      <4>1. /\ client'[c].pc = "undo" /\ client'[c].proposal = p /\ client'[c].todo = Dirty(c)
            /\ UNCHANGED <<bundle, journal>>
        BY <3>2, CompareAllGoes DEF CompareAll, Goes, SameRequest, inbox
      <4>2. 3 \in Dirty(c) => bundle'["log"] = journal'[p].after["log"]
        BY <2>2, <4>1 DEF Dirty
      <4> QED
        BY <4>1, <4>2 DEF LinesFit
    <3>3. CASE Restores(c)
      <4>1. PICK i \in client[c].todo :
              /\ client[c].pc = "undo"
              /\ bundle' = [bundle EXCEPT ![FilesOf(p)[i]] = journal[p].before[FilesOf(p)[i]]]
              /\ client'[c].pc = "undo" /\ client'[c].proposal = p
              /\ client'[c].todo = client[c].todo \ {i}
              /\ UNCHANGED journal
        BY <3>3 DEF Restores, Goes, SameRequest
      <4>2. ASSUME 3 \in client'[c].todo
            PROVE  \A q \in Proposals : Lines(bundle'["log"], q) = Lines(journal'[p].after["log"], q)
        <5>1. i \in 1..3 /\ i # 3 /\ 3 \in client[c].todo
          BY <2>2, <4>1, <4>2
        <5>2. bundle'["log"] = bundle["log"]
          BY <2>2, <4>1, <5>1
        <5> QED
          BY <1>0, <4>1, <5>1, <5>2 DEF LinesFit
      <4> QED
        BY <4>1, <4>2 DEF LinesFit
    <3>4. CASE ~Compares(c) /\ ~CompareAll(c) /\ ~Restores(c)
      <4>1. client'[c].pc \notin {"replace", "undo"}
        <5> USE DEF GoesOn, Goes
        <5>1. Works(c)
          BY <1>3
        <5> QED
          BY <3>4, <5>1, RecoverForwardGoes, RecoverBackGoes, StartDecisionGoes, ComputeVersionGoes,
             RejectGoes, PrepareGoes, CommitGoes, RollBackGoes
             DEF Works, Clears, Removes, Loads, Writes, RollsBack, CommitFailsLate
      <4> QED
        BY <1>1, <4>1
    <3> QED
      BY <3>1, <3>2, <3>3, <3>4
  <2> QED
    BY <2>1, <2>3 DEF LinesInv
<1>4. ASSUME NEW c \in Clients, Quiet(c) PROVE LinesInv'
  <2>1. LinesFit(c)'
    BY <1>1, <1>4 DEF Quiet
  <2>2. ASSUME NEW d \in Clients \ {c} PROVE LinesFit(d)'
    BY <1>2, <1>4 DEF Quiet, Others
  <2> QED
    BY <2>1, <2>2 DEF LinesInv
<1>5. ASSUME NEW f \in Files, Edit(f) PROVE LinesInv'
  BY <1>2, <1>5, EditKeeps DEF LinesInv
<1>6. UNCHANGED <<client, journal, bundle>> => LinesInv'
  BY <1>2 DEF LinesInv
<1> QED
  BY <1>3, <1>4, <1>5, <1>6, StepForms DEF Propose, ReviseCandidate, vars, inbox

-----------------------------------------------------------------------------
(* Acceptances nobody interferes with.                                     *)

\* Without an open journal log.md counts the acceptance, unless its record was
\* renamed by a write that failed.
Counted(p) ==
  \/ Lines(bundle["log"], p) = IF IsAccepted(p) THEN 1 ELSE 0
  \/ p \in late /\ IsAccepted(p) /\ Lines(bundle["log"], p) = 0

\* An open transaction has each file before or after; one that is recorded is
\* complete, or was recorded by a write that failed.
WholeFiles(p) ==
  /\ journal[p] = None => Counted(p)
  /\ journal[p] # None =>
       /\ \A f \in ToSet(FilesOf(p)) : Snapped(p, f) \/ Done(p, f)
       /\ Lines(journal[p].before["log"], p) = 0
       /\ IsAccepted(p) => Complete(p) \/ p \in late
       /\ candidate[p] = journal[p].text

\* How far the call that works on the transaction has got.
WholeCall(c) ==
  LET p == client[c].proposal
      file(i) == FilesOf(p)[i]
      unrecorded == record[p].audit = None \/ p \in late IN
  /\ client[c].pc = "prepare" => candidate[p] = client[c].text
  /\ client[c].pc \in {"write", "replace"} => \A i \in 1..3 :
       IF i < client[c].step THEN Done(p, file(i)) ELSE Snapped(p, file(i))
  /\ client[c].pc = "commit" => Complete(p)
  /\ client[c].pc \in {"restore", "undo"} => unrecorded
  /\ client[c].pc = "undo" => \A i \in 1..3 :
       IF i \in client[c].todo THEN Done(p, file(i)) /\ ~Snapped(p, file(i))
                               ELSE Snapped(p, file(i))
  /\ client[c].pc = "remove" =>
       \/ IsAccepted(p) /\ Complete(p)
       \/ unrecorded /\ \A f \in ToSet(FilesOf(p)) : Snapped(p, f)

Whole(p) == WholeFiles(p) /\ \A c \in Clients : client[c].proposal = p => WholeCall(c)
WholeInv == \A p \in Proposals \ disturbed : Whole(p)

\* An acceptance stays whole while nothing of it changes.
LEMMA WholeStays ==
  ASSUME IInv, NEW p \in Proposals, Whole(p), late \subseteq late',
         candidate'[p] = candidate[p], journal'[p] = journal[p],
         IsAccepted(p)' <=> IsAccepted(p), journal[p] # None => record'[p] = record[p],
         journal[p] # None => \A f \in ToSet(FilesOf(p)) : bundle'[f] = bundle[f],
         journal[p] = None => Lines(bundle'["log"], p) = Lines(bundle["log"], p),
         \A c \in Clients : client'[c].proposal = p =>
           client'[c].pc \in {"idle", "lock", "recover"} \/ client'[c] = client[c]
  PROVE  Whole(p)'
<1>1. WholeFiles(p)'
  <2>1. CASE journal[p] = None
    BY <2>1 DEF Whole, WholeFiles, Counted
  <2>2. CASE journal[p] # None
    BY <2>2 DEF Whole, WholeFiles, Snapped, Done, Complete
  <2> QED
    BY <2>1, <2>2
<1>2. ASSUME NEW c \in Clients, client'[c].proposal = p PROVE WholeCall(c)'
  <2>1. CASE client'[c].pc \in {"idle", "lock", "recover"}
    BY <2>1 DEF WholeCall
  <2>2. CASE client'[c] = client[c] /\ client[c].pc \in Writing \union Clearing
    <3>1. journal[p] # None /\ client[c].proposal = p /\ WholeCall(c)
      BY <1>2, <2>2, CallHas DEF Whole
    <3>2. \A i \in 1..3 : FilesOf(p)[i] \in ToSet(FilesOf(p))
      BY FilesOfProposal
    <3>3. \A f \in ToSet(FilesOf(p)) : Snapped(p, f)' = Snapped(p, f) /\ Done(p, f)' = Done(p, f)
      BY <3>1 DEF Snapped, Done
    <3>4. Complete(p)' = Complete(p)
      BY <3>1 DEF Complete
    <3> QED
      BY <1>2, <2>2, <3>1, <3>2, <3>3, <3>4 DEF WholeCall, Writing, Clearing
  <2>3. CASE client'[c] = client[c] /\ client[c].pc \notin Writing \union Clearing
    BY <1>2, <2>3 DEF WholeCall, Whole, Writing, Clearing
  <2> QED
    BY <1>2, <2>1, <2>2, <2>3
<1> QED
  BY <1>1, <1>2 DEF Whole

\* Lines about others stay when one of a journal's two logs replaces the other.
LEMMA SameLines ==
  ASSUME NEW q \in Proposals, NEW j, NEW last, NEW made, Kept(q, j, last, made),
         NEW p \in Proposals
  PROVE  /\ Lines(j.before["log"], p) \in Nat
         /\ p # q => Lines(j.after["log"], p) = Lines(j.before["log"], p)
         /\ Lines(j.after["log"], q) = Lines(j.before["log"], q) + 1
<1>1. j.before["log"] \in LogFile /\ j.after["log"] = Append(j.before["log"], q)
  BY SameEdits DEF Kept
<1> QED
  BY <1>1, LinesAfterAppend DEF LogLine

\* A file of a transaction is replaced by the other of its two contents: the
\* other acceptances are met half way, or do not notice.
LEMMA SwapIsSeen ==
  ASSUME IInv, NEW q \in Proposals, journal[q] # None, NEW f \in ToSet(FilesOf(q)),
         NEW x \in {journal[q].before[f], journal[q].after[f]},
         bundle' = [bundle EXCEPT ![f] = x], Disturbs(q, f),
         f = "log" => \E y \in {journal[q].before[f], journal[q].after[f]} :
                        \A r \in Proposals : Lines(bundle[f], r) = Lines(y, r),
         NEW p \in Proposals \ {q}, p \notin disturbed'
  PROVE  /\ journal[p] # None => \A g \in ToSet(FilesOf(p)) : bundle'[g] = bundle[g]
         /\ Lines(bundle'["log"], p) = Lines(bundle["log"], p)
<1>1. Kept(q, journal[q], candidate[q], events) /\ bundle = [g \in Files |-> bundle[g]]
  BY DEF IInv, KeptInv, BundleInv
<1>2. f \in Files /\ "log" \in Files /\ \A g \in Files : bundle'[g] = IF g = f THEN x ELSE bundle[g]
  BY <1>1, FilesOfProposal DEF Files
<1>3. Lines(bundle'["log"], p) = Lines(bundle["log"], p)
  <2>1. Lines(journal[q].before["log"], p) = Lines(journal[q].after["log"], p)
    BY <1>1, SameLines
  <2>2. CASE f = "log"
    BY <1>2, <2>1, <2>2
  <2>3. CASE f # "log"
    BY <1>2, <2>3
  <2> QED
    BY <2>2, <2>3
<1>4. journal[p] # None => \A g \in ToSet(FilesOf(p)) : bundle'[g] = bundle[g]
  <2>1. journal[p] # None => f \notin ToSet(FilesOf(p))
    BY DEF Disturbs
  <2>2. ToSet(FilesOf(p)) \subseteq Files
    BY FilesOfProposal
  <2> QED
    BY <1>2, <2>1, <2>2
<1> QED
  BY <1>3, <1>4

\* What c replaces a file of its transaction with.
LEMMA SwapForms ==
  ASSUME IInv, LinesInv, NEW c \in Clients, Restores(c) \/ Writes(c)
  PROVE  LET p == client[c].proposal IN
         \E f \in ToSet(FilesOf(p)) : \E x \in {journal[p].before[f], journal[p].after[f]} :
           /\ bundle' = [bundle EXCEPT ![f] = x] /\ Disturbs(p, f)
           /\ f = "log" => \E y \in {journal[p].before[f], journal[p].after[f]} :
                             \A r \in Proposals : Lines(bundle[f], r) = Lines(y, r)
<1> DEFINE p == client[c].proposal
<1>0. LinesFit(c)
  BY DEF LinesInv
<1>1. CASE Writes(c)
  <2> DEFINE f == FilesOf(p)[client[c].step]
  <2>1. /\ client[c].pc = "replace" /\ p \in Proposals /\ client[c].step \in 1..3
        /\ f \in ToSet(FilesOf(p)) /\ Disturbs(p, f)
        /\ bundle' = [bundle EXCEPT ![f] = journal[p].after[f]]
    BY <1>1, FileOfStep DEF Writes, Written
  <2>2. f = "log" => client[c].step = 3
    BY <2>1, FilesOfProposal
  <2>3. f = "log" => \A r \in Proposals : Lines(bundle[f], r) = Lines(journal[p].before[f], r)
    BY <1>0, <2>1, <2>2 DEF LinesFit
  <2> HIDE DEF f
  <2> QED
    BY <2>1, <2>3
<1>2. CASE Restores(c)
  <2>1. PICK i \in client[c].todo :
          /\ client[c].pc = "undo" /\ Written(p, FilesOf(p)[i])
          /\ bundle' = [bundle EXCEPT ![FilesOf(p)[i]] = journal[p].before[FilesOf(p)[i]]]
    BY <1>2 DEF Restores
  <2> DEFINE f == FilesOf(p)[i]
  <2>2. p \in Proposals /\ i \in 1..3
    BY <2>1, CallHas DEF IInv, CallsInv, Call, Clearing
  <2>3. /\ f \in ToSet(FilesOf(p)) /\ Disturbs(p, f)
        /\ bundle' = [bundle EXCEPT ![f] = journal[p].before[f]]
    BY <2>1, <2>2, FilesOfProposal DEF Written
  <2>4. f = "log" => i = 3
    BY <2>2, FilesOfProposal
  <2>5. f = "log" => \A r \in Proposals : Lines(bundle[f], r) = Lines(journal[p].after[f], r)
    BY <1>0, <2>1, <2>4 DEF LinesFit
  <2> HIDE DEF f
  <2> QED
    BY <2>3, <2>5
<1> QED
  BY <1>1, <1>2

\* Another proposal's acceptance, while c works on its own.
LEMMA OtherWhole ==
  ASSUME IInv, LinesInv, NEW c \in Clients, Works(c),
         NEW p \in Proposals \ {client[c].proposal}, p \notin disturbed', Whole(p)
  PROVE  Whole(p)'
<1> DEFINE q == client[c].proposal
<1>1. /\ q \in Proposals
      /\ \A d \in Clients : client'[d].proposal = p =>
           client'[d].pc \in {"idle", "lock", "recover"} \/ client'[d] = client[d]
  BY WorkerAlone DEF SameRequest
<1>2. UNCHANGED candidate /\ late \subseteq late'
  BY WorkChanges
<1>3. record'[p] = record[p]
  <2>1. ASSUME NEW r \in Proposals, r = q, record' = Accepted(r), journal[r] # None
        PROVE  record'[p] = record[p]
    BY <2>1, AcceptanceRecorded
  <2> QED
    BY <1>1, <2>1, RecordForms, RejectionRecorded
<1>4. journal'[p] = journal[p]
  <2>1. CASE Removes(c)
    BY <2>1 DEF Removes, IInv, InboxInv
  <2>2. CASE Prepare(c)
    BY <2>2, JournalWritten
  <2> QED
    BY <2>1, <2>2, WorkChanges
<1>5. /\ journal[p] # None => \A g \in ToSet(FilesOf(p)) : bundle'[g] = bundle[g]
      /\ Lines(bundle'["log"], p) = Lines(bundle["log"], p)
  <2>1. CASE UNCHANGED bundle
    BY <2>1
  <2>2. CASE Restores(c) \/ Writes(c)
    <3>1. journal[q] # None
      BY <2>2, CallHas DEF Restores, Writes, Writing, Clearing
    <3> QED
      BY <1>1, <2>2, <3>1, SwapForms, SwapIsSeen
  <2> QED
    BY <2>1, <2>2, WorkChanges
<1>6. IsAccepted(p)' <=> IsAccepted(p)
  BY <1>3 DEF IsAccepted
<1> QED
  BY <1>1, <1>2, <1>3, <1>4, <1>5, <1>6, WholeStays

\* What is known of an open transaction nobody interfered with.
LEMMA OpenWhole ==
  ASSUME IInv, NEW c \in Clients, Works(c), NEW p, p = client[c].proposal, Whole(p)
  PROVE  /\ WholeFiles(p) /\ WholeCall(c) /\ p \in Proposals /\ record[p] # None
         /\ record[p].audit = None => ~IsAccepted(p)
         /\ journal[p] # None /\ record[p].audit # None => IsAccepted(p)
         /\ journal[p] # None =>
              /\ Kept(p, journal[p], candidate[p], events)
              /\ Lines(journal[p].before["log"], p) = 0 /\ Lines(journal[p].after["log"], p) = 1
         /\ \A d \in Clients \ {c} : client'[d].pc \in {"idle", "lock"}
<1>1. p \in Proposals /\ record[p] # None
      /\ \A d \in Clients \ {c} : client'[d].pc \in {"idle", "lock"}
  BY WorkerAlone
<1>2. WholeFiles(p) /\ WholeCall(c)
  BY DEF Whole
<1>3. journal[p] # None => Kept(p, journal[p], candidate[p], events) /\ record[p].status # "rejected"
  BY <1>1 DEF IInv, KeptInv
<1>4. journal[p] # None =>
        Lines(journal[p].before["log"], p) = 0 /\ Lines(journal[p].after["log"], p) = 1
  BY <1>1, <1>2, <1>3, SameLines DEF WholeFiles
<1>5. /\ record[p].audit = None => record[p].status # "accepted"
      /\ journal[p] # None /\ record[p].audit # None => record[p].status = "accepted"
  BY <1>1, <1>3 DEF IInv, RecordInv, Record, Statuses, Verdicts
<1> QED
  BY <1>1, <1>2, <1>3, <1>4, <1>5 DEF IsAccepted

\* The acceptance c works on stays whole when its files do and c goes where it
\* may: no other call works on it.
LEMMA OwnWhole ==
  ASSUME IInv, NEW c \in Clients, Works(c), NEW p, p = client[c].proposal, WholeFiles(p)',
         client'[c].pc # "idle" => WholeCall(c)'
  PROVE  Whole(p)'
<1>1. ASSUME NEW d \in Clients PROVE WholeCall(d)'
  <2>1. client'[d].pc \in {"idle", "lock"} => WholeCall(d)'
    BY DEF WholeCall
  <2> QED
    BY <2>1, WorkerAlone
<1> QED
  BY <1>1 DEF Whole

\* A step that leaves the files, the record and the journal alone.
LEMMA WholeFilesStay ==
  ASSUME NEW p, WholeFiles(p), UNCHANGED <<record, candidate, journal, bundle>>, late \subseteq late'
  PROVE  WholeFiles(p)'
  BY DEF WholeFiles, Counted, Snapped, Done, Complete, IsAccepted

LEMMA WholeAtRecoverForward ==
  ASSUME IInv, NEW c \in Clients, RecoverForward(c), NEW p, p = client[c].proposal, Whole(p)
  PROVE  Whole(p)'
<1>0. Works(c) /\ journal[p] # None /\ Complete(p)
      /\ UNCHANGED <<candidate, journal, bundle>> /\ late \subseteq late'
  BY DEF Works, RecoverForward, history
<1>1. /\ WholeFiles(p) /\ p \in Proposals /\ client'[c].pc = "remove" /\ client'[c].proposal = p
  BY <1>0, OpenWhole, RecoverForwardGoes DEF GoesOn, Goes, SameRequest
<1>2. IsAccepted(p)'
  <2>1. CASE record[p].audit = None
    BY <1>0, <1>1, <2>1, AcceptanceRecorded DEF RecoverForward, IsAccepted
  <2>2. CASE record[p].audit # None
    BY <1>0, <2>2, OpenWhole DEF RecoverForward, IsAccepted
  <2> QED
    BY <2>1, <2>2
<1>3. Complete(p)'
  BY <1>0 DEF Complete
<1>4. WholeFiles(p)'
  BY <1>0, <1>1, <1>3 DEF WholeFiles, Snapped, Done
<1>5. WholeCall(c)'
  BY <1>1, <1>2, <1>3 DEF WholeCall
<1> QED
  BY <1>0, <1>4, <1>5, OwnWhole

LEMMA WholeAtRecoverBack ==
  ASSUME IInv, NEW c \in Clients, RecoverBack(c), NEW p, p = client[c].proposal, Whole(p)
  PROVE  Whole(p)'
<1>0. Works(c) /\ journal[p] # None /\ ~Complete(p)
      /\ UNCHANGED <<record, candidate, journal, bundle, late>>
  BY DEF Works, RecoverBack, inbox, history
<1>1. WholeFiles(p) /\ client'[c].pc = "restore" /\ client'[c].proposal = p
  BY <1>0, OpenWhole, RecoverBackGoes DEF RecoverBack, Goes, SameRequest
<1>2. record[p].audit = None \/ p \in late
  BY <1>0, OpenWhole DEF WholeFiles
<1>3. WholeCall(c)'
  BY <1>0, <1>1, <1>2 DEF WholeCall
<1> QED
  BY <1>0, <1>1, <1>3, WholeFilesStay, OwnWhole

LEMMA WholeAtCompareAll ==
  ASSUME IInv, NEW c \in Clients, CompareAll(c), NEW p, p = client[c].proposal, Whole(p)
  PROVE  Whole(p)'
<1>0. Works(c) /\ client[c].pc = "restore" /\ UNCHANGED <<record, candidate, journal, bundle, late>>
  BY DEF Works, CompareAll, inbox, Compared
<1>1. /\ WholeFiles(p) /\ WholeCall(c) /\ p \in Proposals /\ journal[p] # None
      /\ client'[c].pc = "undo" /\ client'[c].proposal = p /\ client'[c].todo = Dirty(c)
  BY <1>0, OpenWhole, CompareAllGoes, CallHas DEF Goes, SameRequest, Clearing
<1>2. \A i \in 1..3 : Snapped(p, FilesOf(p)[i]) \/ Done(p, FilesOf(p)[i])
  BY <1>1, FilesOfProposal DEF WholeFiles
<1>3. \A i \in 1..3 : IF i \in Dirty(c) THEN Done(p, FilesOf(p)[i]) /\ ~Snapped(p, FilesOf(p)[i])
                                        ELSE Snapped(p, FilesOf(p)[i])
  BY <1>2 DEF Dirty, Snapped, Done
<1>4. WholeCall(c)'
  BY <1>0, <1>1, <1>3 DEF WholeCall, Snapped, Done
<1> QED
  BY <1>0, <1>1, <1>4, WholeFilesStay, OwnWhole

LEMMA WholeAtRestore ==
  ASSUME IInv, NEW c \in Clients, Restores(c), NEW p, p = client[c].proposal, Whole(p)
  PROVE  Whole(p)'
<1>0. Works(c) /\ client[c].pc = "undo" /\ UNCHANGED <<record, candidate, journal>>
      /\ late \subseteq late'
  BY WorkChanges DEF Works, Restores
<1>1. PICK i \in client[c].todo :
        /\ bundle' = [bundle EXCEPT ![FilesOf(p)[i]] = journal[p].before[FilesOf(p)[i]]]
        /\ client'[c].pc = "undo" /\ client'[c].proposal = p
        /\ client'[c].todo = client[c].todo \ {i}
  BY DEF Restores, Goes, SameRequest
<1>2. /\ WholeFiles(p) /\ WholeCall(c) /\ p \in Proposals /\ journal[p] # None
      /\ (record[p].audit = None \/ p \in late)
      /\ record[p].audit = None => ~IsAccepted(p)
      /\ client[c].todo \in SUBSET (1..3) /\ bundle = [g \in Files |-> bundle[g]]
  BY <1>0, OpenWhole, CallHas DEF Clearing, WholeCall, IInv, CallsInv, Call, BundleInv
<1>3. /\ i \in 1..3 /\ \A k \in 1..3 : FilesOf(p)[k] \in Files /\ FilesOf(p)[k] \in ToSet(FilesOf(p))
      /\ \A k \in 1..3 : k # i => FilesOf(p)[k] # FilesOf(p)[i]
      /\ \A f \in ToSet(FilesOf(p)) : \E k \in 1..3 : f = FilesOf(p)[k]
  BY <1>2, FilesOfProposal
<1>4. \A k \in 1..3 : bundle'[FilesOf(p)[k]] =
        IF k = i THEN journal[p].before[FilesOf(p)[k]] ELSE bundle[FilesOf(p)[k]]
  BY <1>1, <1>2, <1>3
<1>5. \A k \in 1..3 :
        IF k \in client[c].todo \ {i}
        THEN Done(p, FilesOf(p)[k])' /\ ~Snapped(p, FilesOf(p)[k])'
        ELSE Snapped(p, FilesOf(p)[k])'
  <2>1. \A k \in 1..3 :
          IF k \in client[c].todo THEN Done(p, FilesOf(p)[k]) /\ ~Snapped(p, FilesOf(p)[k])
                                  ELSE Snapped(p, FilesOf(p)[k])
    BY <1>0, <1>2 DEF WholeCall
  <2> QED
    BY <1>0, <1>4, <2>1 DEF Snapped, Done
<1>6. \A f \in ToSet(FilesOf(p)) : Snapped(p, f)' \/ Done(p, f)'
  BY <1>3, <1>5
<1>7. WholeFiles(p)'
  BY <1>0, <1>2, <1>6 DEF WholeFiles, IsAccepted
<1>8. WholeCall(c)'
  BY <1>0, <1>1, <1>2, <1>5 DEF WholeCall
<1> QED
  BY <1>0, <1>7, <1>8, OwnWhole

LEMMA WholeAtClears ==
  ASSUME IInv, NEW c \in Clients, Clears(c), NEW p, p = client[c].proposal, Whole(p)
  PROVE  Whole(p)'
<1>0. /\ Works(c) /\ client[c].pc = "undo" /\ client[c].todo = {}
      /\ UNCHANGED <<record, candidate, journal, bundle, late>>
      /\ client'[c].pc = "remove" /\ client'[c].proposal = p
  BY DEF Works, Clears, GoesOn, Goes, SameRequest, history
<1>1. WholeFiles(p) /\ WholeCall(c) /\ p \in Proposals
  BY <1>0, OpenWhole
<1>2. /\ record[p].audit = None \/ p \in late
      /\ \A i \in 1..3 : Snapped(p, FilesOf(p)[i])
  BY <1>0, <1>1 DEF WholeCall
<1>3. \A f \in ToSet(FilesOf(p)) : Snapped(p, f)'
  BY <1>0, <1>1, <1>2, FilesOfProposal DEF Snapped
<1>4. WholeCall(c)'
  BY <1>0, <1>2, <1>3 DEF WholeCall
<1> QED
  BY <1>0, <1>1, <1>4, WholeFilesStay, OwnWhole

LEMMA WholeAtRemove ==
  ASSUME IInv, NEW c \in Clients, Removes(c), NEW p, p = client[c].proposal, Whole(p)
  PROVE  Whole(p)'
<1>0. Works(c) /\ client[c].pc = "remove" /\ UNCHANGED <<record, candidate, bundle, late>>
      /\ client'[c].pc \in {"recover", "confirm", "idle"}
  BY DEF Works, Removes, GoesOn, Goes, history
<1>1. /\ WholeFiles(p) /\ WholeCall(c) /\ p \in Proposals /\ journal[p] # None
      /\ record[p].audit = None => ~IsAccepted(p)
      /\ journal[p] # None /\ record[p].audit # None => IsAccepted(p)
      /\ Lines(journal[p].before["log"], p) = 0 /\ Lines(journal[p].after["log"], p) = 1
      /\ "log" \in ToSet(FilesOf(p))
  BY <1>0, OpenWhole, CallHas, FilesOfProposal DEF Clearing
<1>2. journal'[p] = None
  BY <1>1 DEF Removes, IInv, InboxInv
<1>3. Counted(p)
  <2>1. CASE IsAccepted(p) /\ Complete(p)
    BY <1>1, <2>1 DEF Complete, Counted
  <2>2. CASE (record[p].audit = None \/ p \in late) /\ \A f \in ToSet(FilesOf(p)) : Snapped(p, f)
    <3>1. Lines(bundle["log"], p) = 0
      BY <1>1, <2>2 DEF Snapped
    <3> QED
      BY <1>1, <2>2, <3>1 DEF Counted
  <2> QED
    BY <1>0, <1>1, <2>1, <2>2 DEF WholeCall
<1>4. WholeFiles(p)'
  BY <1>0, <1>2, <1>3 DEF WholeFiles, Counted, IsAccepted
<1>5. WholeCall(c)'
  BY <1>0 DEF WholeCall
<1> QED
  BY <1>0, <1>4, <1>5, OwnWhole

LEMMA WholeAtReject ==
  ASSUME IInv, NEW c \in Clients, Reject(c), NEW p, p = client[c].proposal, Whole(p)
  PROVE  Whole(p)'
<1>0. Works(c) /\ UNCHANGED <<candidate, journal, bundle, late>>
      /\ client'[c].pc = "confirm"
  BY RejectGoes DEF Works, Reject, GoesOn, Goes, history
<1>1. /\ p \in Proposals /\ journal[p] = None /\ record[p] # None /\ record[p].audit = None
      /\ record'[p].status = "rejected"
  BY RejectionRecorded
<1>2. WholeFiles(p) /\ ~IsAccepted(p) /\ ~IsAccepted(p)'
  BY <1>0, <1>1, OpenWhole DEF IsAccepted
<1>3. WholeFiles(p)'
  BY <1>0, <1>1, <1>2 DEF WholeFiles, Counted
<1>4. WholeCall(c)'
  BY <1>0 DEF WholeCall
<1> QED
  BY <1>0, <1>3, <1>4, OwnWhole

\* A call that reads what it decides about changes nothing.
LEMMA WholeAtLoad ==
  ASSUME IInv, NEW c \in Clients, StartDecision(c) \/ ComputeVersion(c) \/ Loads(c),
         NEW p, p = client[c].proposal, Whole(p)
  PROVE  Whole(p)'
<1>1. /\ UNCHANGED <<record, candidate, journal, bundle, late>> /\ Works(c)
      /\ \/ client'[c].pc \in {"version", "load", "reject"}
         \/ client'[c].pc = "prepare" /\ client'[c].text = candidate[p]
      /\ client'[c].proposal = p
  <2>1. CASE StartDecision(c)
    BY <2>1, StartDecisionGoes DEF StartDecision, GoesOn, Goes, SameRequest, Works, inbox, history
  <2>2. CASE ComputeVersion(c)
    BY <2>2, ComputeVersionGoes DEF ComputeVersion, Goes, SameRequest, Works, inbox, history
  <2>3. CASE Loads(c)
    BY <2>3 DEF Loads, Goes, SameRequest, Works, history
  <2> QED
    BY <2>1, <2>2, <2>3
<1>2. WholeFiles(p)
  BY DEF Whole
<1>3. WholeCall(c)'
  BY <1>1 DEF WholeCall
<1> QED
  BY <1>1, <1>2, <1>3, WholeFilesStay, OwnWhole

LEMMA WholeAtPrepare ==
  ASSUME IInv, NEW c \in Clients, Prepare(c), NEW p, p = client[c].proposal, Whole(p)
  PROVE  Whole(p)'
<1>0. /\ client[c].pc = "prepare" /\ Works(c) /\ UNCHANGED <<record, candidate, bundle, late>>
      /\ client[c].step = 1
  <2>1. client[c].pc = "prepare" /\ Works(c) /\ UNCHANGED <<record, candidate, bundle, late>>
    BY DEF Prepare, Works, history
  <2> QED
    BY <2>1, WorkerAlone DEF CallFits
<1>1. /\ p \in Proposals /\ journal[p] = None /\ record[p].audit = None
      /\ journal'[p] # None /\ journal'[p].text = client[c].text
      /\ \A f \in ToSet(FilesOf(p)) : journal'[p].before[f] = bundle[f]
  BY JournalWritten
<1>2. client'[c].pc = "write" /\ client'[c].step = 1 /\ client'[c].proposal = p
  BY <1>0, PrepareGoes DEF Goes, SameRequest
<1>3. WholeFiles(p) /\ WholeCall(c) /\ ~IsAccepted(p)
  BY <1>0, <1>1, OpenWhole
<1>4. candidate[p] = client[c].text /\ Lines(bundle["log"], p) = 0
  BY <1>0, <1>1, <1>3 DEF WholeFiles, WholeCall, Counted
<1>5. \A f \in ToSet(FilesOf(p)) : Snapped(p, f)'
  BY <1>0, <1>1 DEF Snapped
<1>6. "log" \in ToSet(FilesOf(p)) /\ \A i \in 1..3 : FilesOf(p)[i] \in ToSet(FilesOf(p))
  BY <1>1, FilesOfProposal
<1>7. WholeFiles(p)'
  BY <1>0, <1>1, <1>3, <1>4, <1>5, <1>6 DEF WholeFiles, IsAccepted
<1>8. WholeCall(c)'
  BY <1>2, <1>5, <1>6 DEF WholeCall
<1> QED
  BY <1>0, <1>7, <1>8, OwnWhole

LEMMA WholeAtCompare ==
  ASSUME IInv, NEW c \in Clients, Compares(c), NEW p, p = client[c].proposal, Whole(p)
  PROVE  Whole(p)'
<1>0. /\ Works(c) /\ client[c].pc = "write" /\ UNCHANGED <<record, candidate, journal, bundle, late>>
      /\ client'[c].pc = "replace" /\ client'[c].proposal = p /\ client'[c].step = client[c].step
  BY DEF Works, Compares, GoesOn, Goes, SameRequest, Compared
<1>1. WholeFiles(p) /\ WholeCall(c)
  BY <1>0, OpenWhole
<1>2. WholeCall(c)'
  BY <1>0, <1>1 DEF WholeCall, Snapped, Done
<1> QED
  BY <1>0, <1>1, <1>2, WholeFilesStay, OwnWhole

LEMMA WholeAtWrite ==
  ASSUME IInv, NEW c \in Clients, Writes(c), NEW p, p = client[c].proposal, Whole(p)
  PROVE  Whole(p)'
<1> DEFINE step == client[c].step
           f == FilesOf(p)[step]
<1>0. /\ client[c].pc = "replace" /\ Works(c) /\ UNCHANGED <<record, candidate, journal>>
      /\ late \subseteq late' /\ step \in 1..3
      /\ bundle' = [bundle EXCEPT ![f] = journal[p].after[f]]
  BY WorkChanges, FileOfStep DEF Writes, Works
<1>1. /\ client'[c].pc = IF step = 3 THEN "commit" ELSE "write"
      /\ client'[c].step = IF step = 3 THEN 1 ELSE step + 1
      /\ client'[c].proposal = p
  BY DEF Writes, Goes, SameRequest
<1>2. /\ WholeFiles(p) /\ WholeCall(c) /\ p \in Proposals /\ journal[p] # None
      /\ record[p].audit = None /\ ~IsAccepted(p) /\ bundle = [g \in Files |-> bundle[g]]
  <2>1. record[p].audit = None /\ bundle = [g \in Files |-> bundle[g]]
    BY <1>0, WorkerAlone DEF CallFits, Writing, IInv, BundleInv
  <2> QED
    BY <1>0, <2>1, OpenWhole, CallHas DEF Writing
<1>3. /\ \A k \in 1..3 : FilesOf(p)[k] \in Files /\ FilesOf(p)[k] \in ToSet(FilesOf(p))
      /\ \A k \in 1..3 : k # step => FilesOf(p)[k] # f
      /\ \A g \in ToSet(FilesOf(p)) : \E k \in 1..3 : g = FilesOf(p)[k]
  BY <1>0, <1>2, FilesOfProposal
<1>4. \A k \in 1..3 : bundle'[FilesOf(p)[k]] =
        IF k = step THEN journal[p].after[FilesOf(p)[k]] ELSE bundle[FilesOf(p)[k]]
  BY <1>0, <1>2, <1>3
<1>5. \A k \in 1..3 : IF k <= step THEN Done(p, FilesOf(p)[k])' ELSE Snapped(p, FilesOf(p)[k])'
  <2>1. \A k \in 1..3 : IF k < step THEN Done(p, FilesOf(p)[k]) ELSE Snapped(p, FilesOf(p)[k])
    BY <1>0, <1>2 DEF WholeCall
  <2> HIDE DEF f, step
  <2> QED
    BY <1>0, <1>4, <2>1 DEF Snapped, Done
<1>6. \A g \in ToSet(FilesOf(p)) : Snapped(p, g)' \/ Done(p, g)'
  BY <1>3, <1>5
<1>7. WholeFiles(p)'
  BY <1>0, <1>2, <1>6 DEF WholeFiles, IsAccepted
<1>8. WholeCall(c)'
  <2>1. CASE step = 3
    <3>1. \A g \in ToSet(FilesOf(p)) : Done(p, g)'
      BY <1>3, <1>5, <2>1
    <3>2. Complete(p)'
      BY <1>0, <1>2, <3>1 DEF Complete, Done, WholeFiles
    <3> QED
      BY <1>1, <2>1, <3>2 DEF WholeCall
  <2>2. CASE step # 3
    <3>1. client'[c].pc = "write" /\ client'[c].step = step + 1
      BY <1>1, <2>2
    <3>2. \A i \in 1..3 : i < client'[c].step <=> i <= step
      BY <1>0, <3>1
    <3> QED
      BY <1>1, <1>5, <3>1, <3>2 DEF WholeCall
  <2> QED
    BY <2>1, <2>2
<1> QED
  BY <1>0, <1>7, <1>8, OwnWhole

LEMMA WholeAtRollBack ==
  ASSUME IInv, NEW c \in Clients, RollsBack(c), NEW p, p = client[c].proposal, Whole(p)
  PROVE  Whole(p)'
<1>1. /\ Works(c) /\ client[c].pc \in Writing
      /\ UNCHANGED <<record, candidate, journal, bundle, late>>
      /\ client'[c].pc = "restore" /\ client'[c].proposal = p
  BY DEF Works, RollsBack, Goes, SameRequest
<1>2. WholeFiles(p) /\ record[p].audit = None
  BY <1>1, WorkerAlone, OpenWhole DEF CallFits
<1>3. WholeCall(c)'
  BY <1>1, <1>2 DEF WholeCall
<1> QED
  BY <1>1, <1>2, <1>3, WholeFilesStay, OwnWhole

LEMMA WholeAtCommit ==
  ASSUME IInv, NEW c \in Clients, Commit(c) \/ CommitFailsLate(c),
         NEW p, p = client[c].proposal, Whole(p)
  PROVE  Whole(p)'
<1>0. /\ client[c].pc = "commit" /\ Works(c) /\ record' = Accepted(p)
      /\ UNCHANGED <<candidate, journal, bundle>> /\ late \subseteq late'
  <2>1. CASE Commit(c)
    BY <2>1 DEF Commit, Works, history
  <2>2. CASE CommitFailsLate(c)
    BY <2>2 DEF CommitFailsLate, Works
  <2> QED
    BY <2>1, <2>2
<1>1. WholeFiles(p) /\ WholeCall(c) /\ p \in Proposals /\ journal[p] # None
  BY <1>0, OpenWhole, CallHas DEF Writing
<1>2. Complete(p) /\ Complete(p)'
  BY <1>0, <1>1 DEF WholeCall, Complete
<1>3. IsAccepted(p)'
  BY <1>0, <1>1, AcceptanceRecorded DEF IsAccepted
<1>4. WholeFiles(p)'
  BY <1>0, <1>1, <1>2 DEF WholeFiles, Snapped, Done
<1>5. WholeCall(c)'
  <2>1. CASE Commit(c)
    <3>1. client'[c].pc = "remove" /\ client'[c].proposal = p
      BY <2>1, CommitGoes DEF GoesOn, Goes, SameRequest
    <3> QED
      BY <1>2, <1>3, <3>1 DEF WholeCall
  <2>2. CASE CommitFailsLate(c)
    <3>1. client'[c].pc = "restore" /\ client'[c].proposal = p /\ p \in late'
      BY <2>2, RollBackGoes DEF CommitFailsLate, Goes, SameRequest
    <3> QED
      BY <3>1 DEF WholeCall
  <2> QED
    BY <2>1, <2>2
<1> QED
  BY <1>0, <1>4, <1>5, OwnWhole

\* What the hands of others do to an acceptance they do not meet half way.
LEMMA WholeAtRevise ==
  ASSUME IInv, NEW q \in Proposals, ReviseCandidate(q),
         NEW p \in Proposals, p \notin disturbed', Whole(p)
  PROVE  Whole(p)'
<1>0. /\ UNCHANGED <<record, journal, bundle, client, late>>
      /\ p # q => candidate'[p] = candidate[p]
  BY DEF ReviseCandidate, IInv, InboxInv
<1>1. CASE p # q
  BY <1>0, <1>1, WholeStays DEF IsAccepted
<1>2. CASE p = q
  <2>1. ~Started(p)
    BY <1>2 DEF ReviseCandidate
  <2>2. WholeFiles(p)'
    BY <1>0, <2>1 DEF Started, Whole, WholeFiles, Counted, IsAccepted
  <2>3. ASSUME NEW c \in Clients, client'[c].proposal = p PROVE WholeCall(c)'
    <3>1. client[c].proposal = p /\ client[c].pc # "prepare" /\ client[c].pc \notin Writing \union Clearing
      BY <1>0, <2>1, <2>3, CallHas DEF Started
    <3> QED
      BY <1>0, <3>1 DEF WholeCall, Writing, Clearing
  <2> QED
    BY <2>2, <2>3 DEF Whole
<1> QED
  BY <1>1, <1>2

LEMMA WholeAtEdit ==
  ASSUME IInv, NEW f \in Files, Edit(f), NEW p \in Proposals, p \notin disturbed', Whole(p)
  PROVE  Whole(p)'
<1>0. /\ UNCHANGED <<record, candidate, journal, client, late>> /\ Disturbs(None, f)
      /\ \A g \in Files \ {f} : bundle'[g] = bundle[g]
      /\ Lines(bundle'["log"], p) = Lines(bundle["log"], p)
  BY EditKeeps
<1>1. journal[p] # None => \A g \in ToSet(FilesOf(p)) : bundle'[g] = bundle[g]
  BY <1>0, FilesOfProposal, NamesAssumption DEF Disturbs
<1> QED
  BY <1>0, <1>1, WholeStays DEF IsAccepted

LEMMA StepWhole ==
  ASSUME IInv, LinesInv, WholeInv, [Next]_vars PROVE WholeInv'
<1> SUFFICES ASSUME NEW p \in Proposals, p \notin disturbed' PROVE Whole(p)'
  BY DEF WholeInv
<1>0. Whole(p)
  BY NeverLess DEF WholeInv
<1>1. ASSUME NEW c \in Clients, Works(c) PROVE Whole(p)'
  <2>1. CASE p # client[c].proposal
    BY <1>0, <1>1, <2>1, OtherWhole
  <2>2. CASE p = client[c].proposal
    BY <1>0, <1>1, <2>2, WholeAtRecoverForward, WholeAtRecoverBack, WholeAtCompareAll,
       WholeAtRestore, WholeAtClears, WholeAtRemove, WholeAtReject, WholeAtLoad, WholeAtPrepare,
       WholeAtCompare, WholeAtWrite, WholeAtRollBack, WholeAtCommit DEF Works
  <2> QED
    BY <2>1, <2>2
<1>2. ASSUME NEW c \in Clients, Quiet(c) PROVE Whole(p)'
  <2>1. /\ UNCHANGED <<record, candidate, journal, bundle, late>>
        /\ \A d \in Clients : client'[d].pc \in {"idle", "lock", "recover"} \/ client'[d] = client[d]
    BY <1>2 DEF Quiet, Others, history
  <2> QED
    BY <1>0, <2>1, WholeStays DEF IsAccepted
<1>3. ASSUME NEW q \in Proposals, Propose(q) PROVE Whole(p)'
  <2>1. /\ UNCHANGED <<candidate, journal, bundle, client, late>> /\ record[q] = None
        /\ (p # q => record'[p] = record[p]) /\ (p = q => record'[p].status = "proposed")
    BY <1>3 DEF Propose, IInv, InboxInv, history
  <2>2. journal[q] = None
    BY <2>1 DEF IInv, KeptInv
  <2> QED
    BY <1>0, <2>1, <2>2, WholeStays DEF IsAccepted
<1>4. ASSUME NEW q \in Revisable, ReviseCandidate(q) PROVE Whole(p)'
  BY <1>0, <1>4, WholeAtRevise, SubsetsAssumption
<1>5. ASSUME NEW f \in Files, Edit(f) PROVE Whole(p)'
  BY <1>0, <1>5, WholeAtEdit
<1>6. UNCHANGED vars => Whole(p)'
  BY <1>0, WholeStays DEF vars, inbox, history, IsAccepted
<1> QED
  BY <1>1, <1>2, <1>3, <1>4, <1>5, <1>6, StepForms

LEMMA InitWhole == Init => LinesInv /\ WholeInv
<1> SUFFICES ASSUME Init PROVE LinesInv /\ WholeInv
  OBVIOUS
<1>1. \A c \in Clients : client[c].pc = "idle"
  BY DEF Init, Idle, Request
<1>2. \A p \in Proposals : Lines(bundle["log"], p) = 0 /\ ~IsAccepted(p) /\ journal[p] = None
  <2>1. bundle["log"] = <<>>
    BY DEF Init, Files
  <2>2. \A p \in Proposals : Lines(<<>>, p) = 0
    BY FS_EmptySet DEF Lines
  <2> QED
    BY <2>1, <2>2 DEF Init, IsAccepted
<1> QED
  BY <1>1, <1>2 DEF LinesInv, LinesFit, WholeInv, Whole, WholeFiles, WholeCall, Counted

LEMMA SpecWhole == Spec => [](IInv /\ LinesInv /\ WholeInv)
<1>1. IInv /\ LinesInv /\ WholeInv /\ [Next]_vars => LinesInv' /\ WholeInv'
  BY StepLines, StepWhole
<1> QED
  BY <1>1, InitWhole, SpecIInv, PTL DEF Spec

-----------------------------------------------------------------------------
(* The index, while nobody meets anybody half way.                         *)

Open == {p \in Proposals : journal[p] # None}
Agrees(d) == d \in bundle["index"].listed <=> bundle[d] # NoFile
\* The journal of p found its document listed exactly if it was there.
Consistent(p) ==
  Target[p] \in journal[p].before["index"].listed <=> journal[p].before[Target[p]] # NoFile
\* The call writes the files of its transaction.
Replacing(k) == k.pc \in {"write", "replace"}

\* Only a document that an open transaction is about may be listed wrongly.
ListedInv == \A d \in Documents : (\A p \in Open : Target[p] # d) => Agrees(d)
\* What is about to be written lists what there is.
WriteInv == \A c \in Clients : Replacing(client[c]) =>
  \A d \in Documents \ {Target[client[c].proposal]} :
    d \in journal[client[c].proposal].after["index"].listed <=> bundle[d] # NoFile
\* A journal that found its document listed wrongly has changed nothing of it,
\* and another transaction of the document, begun before, is open.
TwinInv == \A p \in Open : ~Consistent(p) =>
  /\ Snapped(p, Target[p]) /\ Snapped(p, "index")
  /\ \E q \in Open \ {p} : Target[q] = Target[p] /\ Consistent(q)
\* A journal whose index is written lists other documents as it found them.
OtherInv == \A p \in Open :
  \/ Snapped(p, "index")
  \/ \A d \in Documents \ {Target[p]} :
       d \in journal[p].before["index"].listed <=> d \in journal[p].after["index"].listed

IndexInv == ListedInv /\ WriteInv /\ TwinInv /\ OtherInv

\* The index stays right when nothing it depends on changes.
LEMMA IndexStays ==
  ASSUME IndexInv, UNCHANGED journal,
         bundle'["index"].listed = bundle["index"].listed,
         \A d \in Documents : bundle'[d] # NoFile <=> bundle[d] # NoFile,
         \A p \in Open : bundle'[Target[p]] = bundle[Target[p]] /\ bundle'["index"] = bundle["index"],
         \A c \in Clients : Replacing(client'[c]) =>
           Replacing(client[c]) /\ client'[c].proposal = client[c].proposal
  PROVE  IndexInv'
<1>1. Open' = Open
  BY DEF Open
<1>2. ASSUME NEW p \in Open
      PROVE  /\ Snapped(p, Target[p])' <=> Snapped(p, Target[p])
             /\ Snapped(p, "index")' <=> Snapped(p, "index")
             /\ Consistent(p)' <=> Consistent(p)
  <2>1. bundle'[Target[p]] = bundle[Target[p]] /\ bundle'["index"] = bundle["index"]
    OBVIOUS
  <2> QED
    BY <2>1 DEF Snapped, Consistent
<1>3. ListedInv'
  BY <1>1 DEF IndexInv, ListedInv, Agrees
<1>4. WriteInv'
  BY DEF IndexInv, WriteInv, Replacing
<1>5. TwinInv'
  <2> SUFFICES ASSUME NEW q \in Open, ~Consistent(q)'
               PROVE  /\ Snapped(q, Target[q])' /\ Snapped(q, "index")'
                      /\ \E r \in Open \ {q} : Target[r] = Target[q] /\ Consistent(r)'
    BY <1>1 DEF TwinInv
  <2>1. ~Consistent(q) /\ Snapped(q, Target[q]) /\ Snapped(q, "index")
    BY <1>2 DEF IndexInv, TwinInv
  <2>2. PICK r \in Open \ {q} : Target[r] = Target[q] /\ Consistent(r)
    BY <2>1 DEF IndexInv, TwinInv
  <2> QED
    BY <1>2, <2>1, <2>2
<1>6. OtherInv'
  <2> SUFFICES ASSUME NEW q \in Open
               PROVE  \/ Snapped(q, "index")'
                      \/ \A d \in Documents \ {Target[q]} :
                           d \in journal[q].before["index"].listed <=> d \in journal[q].after["index"].listed
    BY <1>1 DEF OtherInv
  <2> QED
    BY <1>2 DEF IndexInv, OtherInv
<1> QED
  BY <1>3, <1>4, <1>5, <1>6 DEF IndexInv

\* A file somebody writes while nobody is met half way is shared with no open
\* transaction: a derived file with none at all.
LEMMA Unshared ==
  ASSUME NEW p \in Proposals, NEW f \in ToSet(FilesOf(p)), Disturbs(p, f), disturbed' = {}
  PROVE  /\ \A q \in Open \ {p} : Target[q] # Target[p]
         /\ f # Target[p] => Open \subseteq {p}
<1>1. \A q \in Open \ {p} : f \notin ToSet(FilesOf(q))
  BY DEF Disturbs, Open
<1>2. f \in {Target[p], "index", "log"}
  BY FilesOfProposal
<1> QED
  BY <1>1, <1>2, FilesOfProposal DEF Open

LEMMA IndexAtRemove ==
  ASSUME IInv, WholeInv, IndexInv, disturbed = {}, NEW c \in Clients, Removes(c)
  PROVE  IndexInv'
<1>a. PICK p : p = client[c].proposal
  OBVIOUS
<1>0. /\ client[c].pc = "remove" /\ Works(c) /\ UNCHANGED bundle
      /\ client'[c].pc \in {"recover", "confirm", "idle"}
      /\ p \in Proposals /\ journal[p] # None /\ WholeCall(c)
      /\ Kept(p, journal[p], candidate[p], events)
      /\ \A d \in Clients \ {c} : client'[d].pc \in {"idle", "lock"}
  <2>1. /\ client[c].pc = "remove" /\ Works(c) /\ UNCHANGED bundle
        /\ client'[c].pc \in {"recover", "confirm", "idle"}
    BY DEF Removes, Works, GoesOn, Goes
  <2>2. p \in Proposals /\ journal[p] # None
    BY <1>a, <2>1, CallHas DEF Clearing
  <2> QED
    BY <1>a, <2>1, <2>2, OpenWhole DEF WholeInv
<1>1. journal'[p] = None /\ \A q \in Proposals \ {p} : journal'[q] = journal[q]
  BY <1>0, <1>a DEF Removes, IInv, InboxInv
\* The transaction is over: its document is listed if it is there.
<1>3. Consistent(p) => Agrees(Target[p])
  <2>1. CASE Complete(p)
    <3>1. bundle["index"] = journal[p].after["index"] /\ bundle[Target[p]] = journal[p].after[Target[p]]
      BY <1>0, <2>1, FilesOfProposal DEF Complete
    <3>2. Target[p] \in journal[p].after["index"].listed /\ journal[p].after[Target[p]] # NoFile
      BY <1>0, NamesAssumption DEF Kept, Revisions
    <3> QED
      BY <3>1, <3>2 DEF Agrees
  <2>2. CASE \A f \in ToSet(FilesOf(p)) : Snapped(p, f)
    <3>1. Snapped(p, "index") /\ Snapped(p, Target[p])
      BY <1>0, <2>2, FilesOfProposal
    <3> QED
      BY <3>1 DEF Agrees, Consistent, Snapped
  <2> QED
    BY <1>0, <1>a, <2>1, <2>2 DEF WholeCall
<1>4. \A q \in Open : ~Consistent(q) => ~Agrees(Target[q])
  BY DEF IndexInv, TwinInv, Consistent, Agrees, Snapped
<1>5. /\ Open' = Open \ {p} /\ p \in Open
      /\ \A q \in Open' : /\ journal'[q] = journal[q]
                          /\ Snapped(q, Target[q])' <=> Snapped(q, Target[q])
                          /\ Snapped(q, "index")' <=> Snapped(q, "index")
                          /\ Consistent(q)' <=> Consistent(q)
  BY <1>0, <1>1 DEF Open, Snapped, Consistent
<1>6. ListedInv'
  <2> SUFFICES ASSUME NEW d \in Documents, \A q \in Open' : Target[q] # d
               PROVE  Agrees(d)
    BY <1>0 DEF ListedInv, Agrees
  <2>1. CASE \A q \in Open : Target[q] # d
    BY <2>1 DEF IndexInv, ListedInv
  <2>2. CASE d = Target[p]
    <3>1. Consistent(p)
      BY <1>5, <2>2 DEF IndexInv, TwinInv
    <3> QED
      BY <1>3, <2>2, <3>1
  <2> QED
    BY <1>5, <2>1, <2>2
<1>7. TwinInv'
  <2> SUFFICES ASSUME NEW q \in Open', ~Consistent(q)'
               PROVE  /\ Snapped(q, Target[q])' /\ Snapped(q, "index")'
                      /\ \E r \in Open' \ {q} : Target[r] = Target[q] /\ Consistent(r)'
    BY DEF TwinInv
  <2>1. /\ q \in Open /\ ~Consistent(q) /\ Snapped(q, Target[q]) /\ Snapped(q, "index")
    BY <1>5 DEF IndexInv, TwinInv
  <2>2. PICK r \in Open \ {q} : Target[r] = Target[q] /\ Consistent(r)
    BY <2>1 DEF IndexInv, TwinInv
  <2>3. r # p
    BY <1>3, <1>4, <2>1, <2>2
  <2> QED
    BY <1>5, <2>1, <2>2, <2>3
<1>8. OtherInv'
  BY <1>5 DEF IndexInv, OtherInv
<1>9. WriteInv'
  BY <1>0 DEF WriteInv, Replacing
<1> QED
  BY <1>6, <1>7, <1>8, <1>9 DEF IndexInv

LEMMA IndexAtPrepare ==
  ASSUME IInv, IndexInv, NEW c \in Clients, Prepare(c)
  PROVE  IndexInv'
<1>a. PICK p : p = client[c].proposal
  OBVIOUS
<1>0. /\ p \in Proposals /\ journal[p] = None /\ journal'[p] # None
      /\ \A q \in Proposals \ {p} : journal'[q] = journal[q]
      /\ \A f \in ToSet(FilesOf(p)) : journal'[p].before[f] = bundle[f]
      /\ journal'[p].after["index"].listed = Existing \union {Target[p]}
      /\ Works(c) /\ UNCHANGED bundle
  <2>1. Works(c) /\ UNCHANGED bundle
    BY DEF Works, Prepare
  <2> QED
    BY <1>a, <2>1, JournalWritten
<1>1. client'[c].pc = "write" /\ client'[c].proposal = p
  BY <1>a, PrepareGoes DEF Goes, SameRequest
<1>2. /\ Open' = Open \union {p} /\ p \notin Open
      /\ \A q \in Open : /\ journal'[q] = journal[q]
                         /\ Snapped(q, Target[q])' <=> Snapped(q, Target[q])
                         /\ Snapped(q, "index")' <=> Snapped(q, "index")
                         /\ Consistent(q)' <=> Consistent(q)
  BY <1>0 DEF Open, Snapped, Consistent
<1>3. /\ Snapped(p, Target[p])' /\ Snapped(p, "index")'
      /\ Consistent(p)' <=> Agrees(Target[p])
  BY <1>0, FilesOfProposal DEF Snapped, Consistent, Agrees
<1>4. ListedInv'
  BY <1>0, <1>2 DEF IndexInv, ListedInv, Agrees
<1>5. WriteInv'
  <2>1. \A d \in Clients \ {c} : ~Replacing(client'[d])
    BY <1>0, WorkerAlone DEF Replacing
  <2>2. \A d \in Documents \ {Target[p]} :
          d \in journal'[p].after["index"].listed <=> bundle'[d] # NoFile
    BY <1>0 DEF Existing
  <2> QED
    BY <1>1, <2>1, <2>2 DEF WriteInv
<1>6. TwinInv'
  <2>1. ASSUME NEW q \in Open, ~Consistent(q)'
        PROVE  /\ Snapped(q, Target[q])' /\ Snapped(q, "index")'
               /\ \E r \in Open' \ {q} : Target[r] = Target[q] /\ Consistent(r)'
    BY <1>2, <2>1 DEF IndexInv, TwinInv
  <2>2. ASSUME ~Consistent(p)'
        PROVE  \E r \in Open' \ {p} : Target[r] = Target[p] /\ Consistent(r)'
    <3>1. PICK q \in Open : Target[q] = Target[p]
      BY <1>0, <1>3, <2>2, FilesOfProposal DEF IndexInv, ListedInv
    <3>2. \E r \in Open : Target[r] = Target[p] /\ Consistent(r)
      BY <3>1 DEF IndexInv, TwinInv
    <3> QED
      BY <1>2, <3>2
  <2> SUFFICES ASSUME NEW q \in Open', ~Consistent(q)'
               PROVE  /\ Snapped(q, Target[q])' /\ Snapped(q, "index")'
                      /\ \E r \in Open' \ {q} : Target[r] = Target[q] /\ Consistent(r)'
    BY DEF TwinInv
  <2>3. CASE q \in Open
    BY <2>1, <2>3
  <2>4. CASE q = p
    <3>1. ~Consistent(p)'
      BY <2>4
    <3>2. Snapped(q, Target[q])' /\ Snapped(q, "index")'
      BY <1>3, <2>4 DEF Snapped
    <3> QED
      BY <2>2, <2>4, <3>1, <3>2
  <2> QED
    BY <1>2, <2>3, <2>4
<1>7. OtherInv'
  <2> SUFFICES ASSUME NEW q \in Open', ~Snapped(q, "index")',
                      NEW d \in Documents \ {Target[q]}
               PROVE  d \in journal'[q].before["index"].listed <=> d \in journal'[q].after["index"].listed
    BY DEF OtherInv
  <2>1. CASE q \in Open
    BY <1>2, <2>1 DEF IndexInv, OtherInv
  <2>2. CASE q = p
    BY <1>3, <2>2 DEF Snapped
  <2> QED
    BY <1>2, <2>1, <2>2
<1> QED
  BY <1>4, <1>5, <1>6, <1>7 DEF IndexInv

\* A call of p writes or restores its document, or log.md.
LEMMA IndexNotSwapped ==
  ASSUME IndexInv, NEW p \in Open, UNCHANGED journal,
         \A q \in Open \ {p} : Target[q] # Target[p],
         bundle'["index"] = bundle["index"],
         \A d \in Documents \ {Target[p]} : bundle'[d] = bundle[d],
         \A c \in Clients : Replacing(client'[c]) =>
           Replacing(client[c]) /\ client'[c].proposal = p /\ client[c].proposal = p
  PROVE  IndexInv'
<1>1. /\ Open' = Open /\ Consistent(p)
      /\ \A q \in Open : Target[q] \in Documents /\ (Consistent(q)' <=> Consistent(q))
  BY TargetAssumption DEF Open, Consistent, IndexInv, TwinInv
<1>2. ListedInv'
  BY <1>1 DEF IndexInv, ListedInv, Agrees
<1>3. WriteInv'
  BY DEF IndexInv, WriteInv
<1>4. TwinInv'
  <2> SUFFICES ASSUME NEW q \in Open, ~Consistent(q)'
               PROVE  /\ Snapped(q, Target[q])' /\ Snapped(q, "index")'
                      /\ \E r \in Open \ {q} : Target[r] = Target[q] /\ Consistent(r)'
    BY <1>1 DEF TwinInv
  <2>1. ~Consistent(q) /\ q # p /\ Snapped(q, Target[q]) /\ Snapped(q, "index")
    BY <1>1 DEF IndexInv, TwinInv
  <2>2. PICK r \in Open \ {q} : Target[r] = Target[q] /\ Consistent(r)
    BY <2>1 DEF IndexInv, TwinInv
  <2>3. Target[q] # Target[p] /\ Target[q] \in Documents
    BY <1>1, <2>1
  <2>4. Snapped(q, Target[q])' /\ Snapped(q, "index")'
    BY <2>1, <2>3 DEF Snapped
  <2> QED
    BY <1>1, <2>2, <2>4
<1>5. OtherInv'
  <2> SUFFICES ASSUME NEW q \in Open, ~Snapped(q, "index")',
                      NEW d \in Documents \ {Target[q]}
               PROVE  d \in journal[q].before["index"].listed <=> d \in journal[q].after["index"].listed
    BY <1>1 DEF OtherInv
  <2>1. ~Snapped(q, "index")
    BY DEF Snapped
  <2> QED
    BY <2>1 DEF IndexInv, OtherInv
<1> QED
  BY <1>2, <1>3, <1>4, <1>5 DEF IndexInv

\* A call of p writes or restores index.md, and no other transaction is open:
\* the index lists the other documents as before.
LEMMA IndexSwapped ==
  ASSUME IndexInv, NEW p \in Open, Open = {p}, UNCHANGED journal,
         \A d \in Documents : bundle'[d] = bundle[d],
         \A d \in Documents \ {Target[p]} :
           d \in bundle'["index"].listed <=> d \in bundle["index"].listed,
         \/ Snapped(p, "index")'
         \/ \A d \in Documents \ {Target[p]} :
              d \in journal[p].before["index"].listed <=> d \in journal[p].after["index"].listed,
         \A c \in Clients : Replacing(client'[c]) =>
           Replacing(client[c]) /\ client'[c].proposal = p /\ client[c].proposal = p
  PROVE  IndexInv'
<1>1. Open' = Open /\ Consistent(p) /\ Consistent(p)'
  BY DEF Open, Consistent, IndexInv, TwinInv
<1>2. ListedInv'
  BY <1>1 DEF IndexInv, ListedInv, Agrees
<1>3. WriteInv'
  BY DEF IndexInv, WriteInv
<1>4. TwinInv'
  BY <1>1 DEF TwinInv
<1>5. OtherInv'
  BY <1>1 DEF OtherInv
<1> QED
  BY <1>2, <1>3, <1>4, <1>5 DEF IndexInv

LEMMA IndexAtSwap ==
  ASSUME IInv, LinesInv, WholeInv, IndexInv, disturbed = {}, disturbed' = {},
         NEW c \in Clients, Restores(c) \/ Writes(c)
  PROVE  IndexInv'
<1>a. PICK p : p = client[c].proposal
  OBVIOUS
<1>0. /\ Works(c) /\ client[c].pc \in Writing \union Clearing
      /\ UNCHANGED journal /\ p \in Proposals /\ journal[p] # None /\ WholeCall(c)
      /\ \A d \in Clients \ {c} : client'[d].pc \in {"idle", "lock"}
  <2>1. Works(c) /\ client[c].pc \in Writing \union Clearing /\ UNCHANGED journal
    BY DEF Works, Restores, Writes, Writing, Clearing
  <2>2. p \in Proposals /\ journal[p] # None
    BY <1>a, <2>1, CallHas
  <2> QED
    BY <1>a, <2>1, <2>2, OpenWhole DEF WholeInv
<1>1. PICK f \in ToSet(FilesOf(p)) : \E x : bundle' = [bundle EXCEPT ![f] = x] /\ Disturbs(p, f)
  BY <1>a, SwapForms
<1>2. /\ f \in Files /\ f \in {Target[p], "index", "log"}
      /\ \A g \in Files \ {f} : bundle'[g] = bundle[g]
  <2>1. bundle = [g \in Files |-> bundle[g]]
    BY DEF IInv, BundleInv
  <2> QED
    BY <1>0, <1>1, <2>1, FilesOfProposal
<1>3. /\ "index" \in Files /\ Documents \subseteq Files /\ "index" \notin Documents
      /\ "log" \notin Documents /\ Target[p] \in Documents
  BY <1>0, NamesAssumption, TargetAssumption DEF Files
<1>4. p \in Open /\ \A q \in Open \ {p} : Target[q] # Target[p]
  BY <1>0, <1>1, Unshared DEF Open
<1>5. \A d \in Clients : Replacing(client'[d]) =>
        Replacing(client[d]) /\ client'[d].proposal = p /\ client[d].proposal = p
  <2>1. Replacing(client'[c]) => Replacing(client[c]) /\ client'[c].proposal = p
    BY <1>a DEF Restores, Writes, Goes, SameRequest, Replacing
  <2> QED
    BY <1>a, <1>0, <2>1 DEF Replacing
<1>6. CASE f # "index"
  <2>1. bundle'["index"] = bundle["index"]
    BY <1>2, <1>3, <1>6
  <2>2. \A d \in Documents \ {Target[p]} : bundle'[d] = bundle[d]
    BY <1>2, <1>3, <1>6
  <2> QED
    BY <1>0, <1>4, <1>5, <2>1, <2>2, IndexNotSwapped
<1>7. CASE f = "index"
  <2>1. Open = {p} /\ \A d \in Documents : bundle'[d] = bundle[d]
    BY <1>0, <1>1, <1>2, <1>3, <1>4, <1>7, Unshared
  <2> DEFINE same == \A d \in Documents \ {Target[p]} :
               d \in journal[p].before["index"].listed <=> d \in journal[p].after["index"].listed
  <2>2. CASE Writes(c)
    <3>0. bundle = [g \in Files |-> bundle[g]]
      BY DEF IInv, BundleInv
    <3>1. client[c].pc = "replace" /\ client[c].step \in 1..3
          /\ bundle' = [bundle EXCEPT ![FilesOf(p)[client[c].step]] =
                          journal[p].after[FilesOf(p)[client[c].step]]]
      BY <1>a, <2>2, FileOfStep DEF Writes
    <3>2. FilesOf(p)[client[c].step] = "index" \/ UNCHANGED bundle
      <4>1. FilesOf(p)[client[c].step] \in Files
        BY <1>0, <3>1, FilesOfProposal
      <4>2. CASE FilesOf(p)[client[c].step] # "index"
        <5>1. \A g \in Files : bundle'[g] = bundle[g]
          BY <1>2, <1>3, <1>7, <3>0, <3>1, <4>2
        <5> QED
          BY <3>0, <3>1, <5>1
      <4> QED
        BY <4>2
    <3>3. CASE UNCHANGED bundle
      <4>1. \A d \in Documents : bundle'[d] # NoFile <=> bundle[d] # NoFile
        BY <3>3
      <4> QED
        BY <1>0, <1>5, <1>a, <3>3, <4>1, IndexStays
    <3>4. CASE FilesOf(p)[client[c].step] = "index"
      <4>1. bundle["index"] = journal[p].before["index"]
        BY <1>a, <1>0, <3>1, <3>4 DEF WholeCall, Snapped
      <4>2. bundle'["index"] = journal[p].after["index"]
        BY <1>3, <3>0, <3>1, <3>4
      <4>3. \A d \in Documents \ {Target[p]} :
              d \in journal[p].after["index"].listed <=> bundle[d] # NoFile
        BY <1>a, <3>1 DEF IndexInv, WriteInv, Replacing
      <4>4. \A d \in Documents \ {Target[p]} : Agrees(d)
        BY <2>1 DEF IndexInv, ListedInv
      <4>5. same /\ \A d \in Documents \ {Target[p]} :
              d \in bundle'["index"].listed <=> d \in bundle["index"].listed
        BY <4>1, <4>2, <4>3, <4>4 DEF Agrees
      <4> QED
        BY <1>0, <1>4, <1>5, <2>1, <4>5, IndexSwapped
    <3> QED
      BY <3>2, <3>3, <3>4
  <2>3. CASE Restores(c)
    <3>0. bundle = [g \in Files |-> bundle[g]]
      BY DEF IInv, BundleInv
    <3>1. PICK i \in client[c].todo :
            /\ client[c].pc = "undo"
            /\ bundle' = [bundle EXCEPT ![FilesOf(p)[i]] = journal[p].before[FilesOf(p)[i]]]
      BY <1>a, <2>3 DEF Restores
    <3>2. i \in 1..3
      BY DEF IInv, CallsInv, Call
    <3>3. Done(p, FilesOf(p)[i]) /\ ~Snapped(p, FilesOf(p)[i])
      BY <1>a, <1>0, <3>1, <3>2 DEF WholeCall
    <3>4. FilesOf(p)[i] = "index"
      <4>1. FilesOf(p)[i] \in Files
        BY <1>0, <3>2, FilesOfProposal
      <4>2. bundle'[FilesOf(p)[i]] # bundle[FilesOf(p)[i]]
        BY <3>0, <3>1, <3>3, <4>1 DEF Snapped
      <4> QED
        BY <1>2, <1>7, <4>1, <4>2
    <3>5. bundle["index"] = journal[p].after["index"] /\ bundle'["index"] = journal[p].before["index"]
      BY <1>3, <3>0, <3>1, <3>3, <3>4 DEF Done
    <3>6. same
      BY <1>4, <3>3, <3>4 DEF IndexInv, OtherInv
    <3>7. \A d \in Documents \ {Target[p]} :
            d \in bundle'["index"].listed <=> d \in bundle["index"].listed
      BY <3>5, <3>6
    <3> QED
      BY <1>0, <1>4, <1>5, <2>1, <3>6, <3>7, IndexSwapped
  <2> QED
    BY <2>2, <2>3
<1> QED
  BY <1>6, <1>7

LEMMA IndexAtEdit ==
  ASSUME IInv, IndexInv, disturbed' = {}, NEW f \in Files, Edit(f)
  PROVE  IndexInv'
<1>0. /\ UNCHANGED <<journal, client>> /\ Disturbs(None, f)
      /\ \A g \in Files \ {f} : bundle'[g] = bundle[g]
      /\ bundle = [g \in Files |-> bundle[g]]
  BY EditKeeps DEF IInv, BundleInv
<1>1. \A q \in Open : f \notin ToSet(FilesOf(q))
  BY <1>0, NamesAssumption DEF Disturbs, Open
<1>2. \A q \in Open : bundle'[Target[q]] = bundle[Target[q]] /\ bundle'["index"] = bundle["index"]
  <2> SUFFICES ASSUME NEW q \in Open
               PROVE  bundle'[Target[q]] = bundle[Target[q]] /\ bundle'["index"] = bundle["index"]
    OBVIOUS
  <2>1. q \in Proposals /\ f \notin {Target[q], "index", "log"}
    BY <1>1, FilesOfProposal DEF Open
  <2> QED
    BY <1>0, <2>1, FilesOfProposal DEF Files
<1>3. bundle["index"] \in IndexFile /\ "index" \in Files /\ Documents \subseteq Files
      /\ "index" \notin Documents /\ "log" \notin Documents /\ Editor # NoFile
  BY FitsEach, NamesAssumption DEF IInv, BundleInv, Files
<1>4. /\ bundle'["index"].listed = bundle["index"].listed
      /\ \A d \in Documents : bundle'[d] # NoFile <=> bundle[d] # NoFile
  <2>1. CASE f = "index" /\ bundle' = [bundle EXCEPT !["index"].edits = bundle["index"].edits + 1]
    <3> DEFINE b == bundle["index"]
               x == [b EXCEPT !.edits = b.edits + 1]
    <3>0. f = "index"
      BY <2>1
    <3>1. bundle' = [bundle EXCEPT ![f] = x]
      BY <2>1
    <3>2. x.listed = b.listed
      BY <1>3 DEF IndexFile
    <3> HIDE DEF x
    <3>3. bundle'["index"] = x
      BY <1>0, <1>3, <3>0, <3>1
    <3> QED
      BY <1>0, <1>3, <3>0, <3>2, <3>3
  <2>2. CASE f = "log"
    BY <1>0, <1>3, <2>2
  <2>3. CASE f \in Existing /\ bundle' = [bundle EXCEPT ![f] = Editor]
    BY <1>0, <1>3, <2>3 DEF Existing
  <2> QED
    BY <2>1, <2>2, <2>3 DEF Edit
<1> QED
  BY <1>0, <1>2, <1>4, IndexStays

LEMMA StepIndex ==
  ASSUME IInv, LinesInv, WholeInv, [Next]_vars, disturbed = {} => IndexInv, disturbed' = {}
  PROVE  IndexInv'
<1>0. disturbed = {} /\ IndexInv
  BY NeverLess
<1>1. ASSUME NEW c \in Clients, Works(c) PROVE IndexInv'
  <2>1. CASE Restores(c) \/ Writes(c)
    BY <1>0, <2>1, IndexAtSwap
  <2>2. CASE Removes(c)
    BY <1>0, <2>2, IndexAtRemove
  <2>3. CASE Prepare(c)
    BY <1>0, <2>3, IndexAtPrepare
  <2>4. CASE ~Restores(c) /\ ~Writes(c) /\ ~Removes(c) /\ ~Prepare(c)
    <3>1. UNCHANGED <<journal, bundle>>
      BY <1>1, <2>4, WorkChanges
    <3>2. /\ client'[c].pc = "write" => FALSE
          /\ client'[c].pc = "replace" =>
               client[c].pc = "write" /\ client'[c].proposal = client[c].proposal
      <4> USE DEF GoesOn, Goes
      <4> QED
        BY <1>1, <2>4, RecoverForwardGoes, RecoverBackGoes, CompareAllGoes, StartDecisionGoes,
           ComputeVersionGoes, RejectGoes, CommitGoes, RollBackGoes
           DEF Works, Clears, Loads, Compares, RollsBack, CommitFailsLate, SameRequest
    <3>3. \A d \in Clients : Replacing(client'[d]) =>
            Replacing(client[d]) /\ client'[d].proposal = client[d].proposal
      BY <1>1, <3>2, WorkerAlone DEF Replacing
    <3> QED
      BY <1>0, <3>1, <3>3, IndexStays
  <2> QED
    BY <2>1, <2>2, <2>3, <2>4
<1>2. ASSUME NEW c \in Clients, Quiet(c) PROVE IndexInv'
  <2>1. \A d \in Clients : Replacing(client'[d]) => client'[d] = client[d]
    BY <1>2 DEF Quiet, Others, Replacing
  <2> QED
    BY <1>0, <1>2, <2>1, IndexStays DEF Quiet
<1>3. ASSUME UNCHANGED <<journal, bundle, client>> PROVE IndexInv'
  BY <1>0, <1>3, IndexStays
<1>4. ASSUME NEW f \in Files, Edit(f) PROVE IndexInv'
  BY <1>0, <1>4, IndexAtEdit
<1> QED
  BY <1>1, <1>2, <1>3, <1>4, StepForms DEF Propose, ReviseCandidate, vars, inbox

LEMMA InitIndex == Init => IndexInv
<1> SUFFICES ASSUME Init PROVE IndexInv
  OBVIOUS
<1>1. Open = {} /\ \A c \in Clients : client[c].pc = "idle"
  BY DEF Init, Open, Idle, Request
<1>2. \A d \in Documents : Agrees(d)
  <2>1. bundle["index"].listed = Present
    BY DEF Init, Files
  <2>2. ASSUME NEW d \in Documents PROVE bundle[d] = IF d \in Present THEN Old ELSE NoFile
    BY NamesAssumption DEF Init, Files
  <2> QED
    BY <2>1, <2>2, NamesAssumption DEF Agrees
<1> QED
  BY <1>1, <1>2 DEF IndexInv, ListedInv, WriteInv, TwinInv, OtherInv, Replacing

\* Decisions are atomic, for every set of clients, proposals and documents,
\* after whatever crashes, failed writes, retries and edits: when no journal is
\* open, log.md has one line for each accepted proposal that met no other
\* writer half way, and index.md lists the documents there are unless some
\* proposal did.  The one acceptance that is recorded without a line is that
\* whose record was renamed by a write that then failed
\* (decision_transaction.go:125, :203, :239; proposal.go:224).
THEOREM Atomic == Spec => []BundleAgrees
<1>1. IInv /\ LinesInv /\ WholeInv /\ (disturbed = {} => IndexInv) /\ [Next]_vars
      => (disturbed = {} => IndexInv)'
  BY StepIndex
<1>2. IInv /\ WholeInv /\ (disturbed = {} => IndexInv) => BundleAgrees
  <2> SUFFICES ASSUME IInv, WholeInv, disturbed = {} => IndexInv,
                      \A p \in Proposals : journal[p] = None
               PROVE  /\ \A p \in Proposals \ disturbed : Counted(p)
                      /\ disturbed = {} => bundle["index"].listed = Existing
    BY DEF BundleAgrees, Counted
  <2>1. \A p \in Proposals \ disturbed : Counted(p)
    BY DEF WholeInv, Whole, WholeFiles
  <2>2. ASSUME disturbed = {} PROVE bundle["index"].listed = Existing
    <3>1. bundle["index"].listed \subseteq Documents
      <4>1. bundle["index"] \in IndexFile
        BY FitsEach DEF IInv, BundleInv, Files
      <4> QED
        BY <4>1 DEF IndexFile
    <3>2. \A d \in Documents : Agrees(d)
      BY <2>2 DEF IndexInv, ListedInv, Open
    <3> QED
      BY <3>1, <3>2 DEF Agrees, Existing
  <2> QED
    BY <2>1, <2>2
<1> QED
  BY <1>1, <1>2, InitIndex, SpecWhole, PTL DEF Spec
=============================================================================
