------------------------- MODULE ReviewCaptureProofs -------------------------
(* A capture of the workspace, for any checkout, trees, edits and limits:    *)
(* what it records was there, it leaves nothing out that differed all along, *)
(* and it records no path twice that was staged the same way all along.      *)
EXTENDS ReviewCapture, FiniteSetTheorems, WellFoundedInduction, TLAPS

Open    == {"readlink", "open", "read"}
Reading == {"side"} \cup Open
Steps   == {"head", "status", "others"} \cup Reading
Listed  == {"others", "done"} \cup Reading

Names   == Paths \cup {None}
Changes == [status : {"A", "D", "M", "R"}, untracked : BOOLEAN, old : Names, new : Names,
            side : Sides \cup {None}]

\* Not staged in two ways so far.
Steady(p) == \A e, f \in cap.index[p] : e = f

-----------------------------------------------------------------------------
(* The inductive invariant.                                                  *)

CheckoutInv ==
  /\ nodes \in Seq(Nodes) /\ disk \in [Paths -> 0..Len(nodes)]
  /\ \A p, q \in Paths : disk[p] = disk[q] /\ disk[p] # 0 => p = q
  /\ staged \in [Paths -> Entries] /\ \A p \in Modules : staged[p] \in Oids

TypeInv ==
  /\ cap = [pc |-> cap.pc, of |-> cap.of, queue |-> cap.queue, change |-> cap.change,
            node |-> cap.node, size |-> cap.size, total |-> cap.total, patch |-> cap.patch,
            records |-> cap.records, past |-> cap.past, index |-> cap.index]
  /\ cap.pc \in Steps \cup {"idle", "trees", "done", "failed"}
  /\ cap.queue \in SUBSET Changes
  /\ cap.past \in [Paths -> SUBSET (Sides \cup {None})]
  /\ cap.index \in [Paths -> SUBSET Entries]

ControlInv ==
  /\ cap.pc \in Steps => cap.of = "head"
  /\ cap.pc = "trees" => cap.of = "trees"
  /\ cap.pc \in {"idle", "failed"} => cap.of = None
  /\ cap.pc \notin {"others", "done"} \cup Reading => cap.queue = {}
  /\ cap.pc \notin {"done"} \cup Reading => cap.records = <<>>
  /\ cap.pc = "done" /\ cap.of = "head" => cap.queue = {}

\* A capture under way has seen what is there now.
SeenInv == Busy => \A p \in Paths : There(p) \in cap.past[p] /\ staged[p] \in cap.index[p]

\* The change in hand.  An open descriptor has a node no other path names, so
\* that who writes to it writes to the path.
HandInv ==
  /\ cap.pc \in Open => cap.change \in cap.queue /\ Path \in Paths \ Modules
  /\ cap.pc = "read" => /\ cap.node \in 1..Len(nodes) /\ nodes[cap.node] \in cap.past[Path]
                        /\ \A p \in Paths : disk[p] = cap.node => p = Path

RecordsInv ==
  cap.of = "head" => /\ cap.records \in Seq(Recordings)
                     /\ \A r \in Recordings : r.new \in Names
                     /\ SidesWereThere

\* What is tracked when it is listed has an entry, what is not has none.
OnceInv ==
  cap.of = "head" =>
    /\ cap.pc = "others" => \A a \in cap.queue : a.new \in Paths \ Modules =>
                                \E e \in cap.index[a.new] : e # None
    /\ \A a, b \in cap.queue : a # b /\ a.new = b.new /\ a.new # None => ~Steady(a.new)
    /\ \A a \in cap.queue, r \in Recordings : a.new = r.new /\ a.new # None => ~Steady(a.new)
    /\ \A i, j \in DOMAIN cap.records :
         i # j /\ cap.records[i].new = cap.records[j].new /\ cap.records[i].new # None
           => ~Steady(cap.records[i].new)

\* What differs all along is listed, as far as the listing has come.
Differs(p) == Steady(p) /\ BaseTree[p] \notin cap.past[p]
Present(p) == None \notin cap.past[p] /\ (None \in cap.index[p] => \A s \in cap.past[p] : Blob(s))
OldKnown(p) == \/ \E a \in cap.queue : a.old = p
               \/ \E r \in Recordings : r.old = p /\ r.before = BaseTree[p]
NewKnown(p) == \/ \E a \in cap.queue : a.new = p
               \/ \E r \in Recordings : r.new = p
ListedInv ==
  cap.pc \in Listed /\ cap.of = "head" =>
    \A p \in Paths : Differs(p) =>
      /\ BaseTree[p] # None => OldKnown(p)
      /\ Present(p) => NewKnown(p) \/ (cap.pc = "others" /\ p \notin Modules /\ None \in cap.index[p])

IInv == /\ CheckoutInv /\ TypeInv /\ ControlInv /\ SeenInv /\ HandInv
        /\ RecordsInv /\ OnceInv /\ ListedInv

-----------------------------------------------------------------------------
(* What is there, and what an assembled record keeps of its change.          *)

\* What a reader finds at a path is a side or nothing.
LEMMA ThereIsSide ==
  ASSUME ConstantsTyped, CheckoutInv, NEW p \in Paths
  PROVE  There(p) \in Sides \cup {None}
<1>1. CASE p \in Modules
  BY <1>1 DEF ConstantsTyped, CheckoutInv, There, Side, Sides, TreeSides
<1>2. CASE p \notin Modules /\ disk[p] = 0
  BY <1>2 DEF There
<1>3. CASE p \notin Modules /\ disk[p] # 0
  <2>1. nodes[disk[p]] \in Nodes
    BY <1>3 DEF CheckoutInv
  <2> QED  BY <1>3, <2>1 DEF There, Side, Sides
<1> QED  BY <1>1, <1>2, <1>3

LEMMA LaterIsSide ==
  ASSUME ConstantsTyped, CheckoutInv', NEW p \in Paths
  PROVE  There(p)' \in Sides \cup {None}
<1>1. CASE p \in Modules
  BY <1>1 DEF ConstantsTyped, CheckoutInv, There, Side, Sides, TreeSides
<1>2. CASE p \notin Modules /\ disk'[p] = 0
  BY <1>2 DEF There
<1>3. CASE p \notin Modules /\ disk'[p] # 0
  <2>1. nodes'[disk'[p]] \in Nodes
    BY <1>3 DEF CheckoutInv
  <2> QED  BY <1>3, <2>1 DEF There, Side, Sides
<1> QED  BY <1>1, <1>2, <1>3

\* A path that names a regular file or a link has it as its side.
LEMMA ThereIsNode ==
  ASSUME ConstantsTyped, CheckoutInv, NEW p \in Paths \ Modules,
         disk[p] # 0, nodes[disk[p]].kind # "special"
  PROVE  There(p) = nodes[disk[p]] /\ disk[p] \in 1..Len(nodes)
BY DEF There, CheckoutInv

\* Appending keeps a sequence one, and adds its element.
Extended(t, s, e) ==
  /\ t \in Seq(Range(t)) /\ Range(t) = Range(s) \cup {e}
  /\ Len(s) \in Nat /\ Len(t) = Len(s) + 1 /\ DOMAIN t = 1..Len(t) /\ DOMAIN s = 1..Len(s)
  /\ t[Len(t)] = e /\ \A i \in DOMAIN s : t[i] = s[i]

LEMMA Appended ==
  ASSUME NEW s, s \in Seq(Range(s)), NEW e, NEW t, t = Append(s, e)
  PROVE  Extended(t, s, e)
<1>1. /\ t \in Seq(Range(s) \cup {e}) /\ Len(t) = Len(s) + 1 /\ t[Len(t)] = e
      /\ DOMAIN t = 1..Len(t) /\ DOMAIN s = 1..Len(s) /\ \A i \in DOMAIN s : t[i] = s[i]
  <2>1. s \in Seq(Range(s) \cup {e})
    OBVIOUS
  <2> QED  BY <2>1
<1>2. Len(s) \in Nat
  OBVIOUS
<1>3. Range(t) = Range(s) \cup {e}
  <2>1. ASSUME NEW x \in Range(t)  PROVE x \in Range(s) \cup {e}
    BY <1>1 DEF Range
  <2>2. ASSUME NEW x \in Range(s)  PROVE x \in Range(t)
    BY <1>1, <1>2 DEF Range
  <2>3. e \in Range(t)
    BY <1>1, <1>2 DEF Range
  <2> QED  BY <2>1, <2>2, <2>3
<1> QED  BY <1>1, <1>2, <1>3 DEF Extended

-----------------------------------------------------------------------------
(* What Git lists: each path that differs once, under its own name or as the *)
(* source of a rename.                                                       *)

LEMMA MinIsMember ==
  ASSUME NEW S \in SUBSET Nat, S # {}
  PROVE  Min(S) \in S
<1> DEFINE R == {ss \in Nat \X Nat : ss[1] < ss[2]}
<1>1. IsWellFoundedOn(R, Nat)
  BY NatLessThanWellFounded DEF OpToRel
<1> HIDE DEF R
<1>2. PICK m \in S : \A n \in S : ~(<<n, m>> \in R)
  BY <1>1, WFMin
<1>3. ASSUME NEW n \in S  PROVE m =< n
  <2>1. m \in Nat /\ n \in Nat /\ ~(<<n, m>> \in R)
    BY <1>2
  <2> QED  BY <2>1 DEF R
<1> QED  BY <1>3 DEF Min

LEMMA RawListed ==
  ASSUME ConstantsTyped, NEW from \in [Paths -> Sides \cup {None}],
         NEW to \in [Paths -> Sides \cup {None}],
         NEW list, list = RawStatus(from, to)
  PROVE  /\ list \subseteq Changes
         /\ \A a \in list : ~a.untracked /\ (a.new # None => to[a.new] # None)
         /\ \A a, b \in list : a # b /\ a.new = b.new => a.new = None
         /\ \A p \in Paths : from[p] # to[p] =>
              /\ from[p] # None => \E a \in list : a.old = p
              /\ to[p] # None => \E a \in list : a.new = p
<1> DEFINE added   == {p \in Paths : from[p] = None /\ to[p] # None}
           deleted == {p \in Paths : from[p] # None /\ to[p] = None}
           Least(S, side, tree) == Min({p \in S : tree[p] = side})
           renamed == {p \in added : /\ \E q \in deleted : from[q] = to[p]
                                     /\ p = Least(added, to[p], to)}
           source  == [p \in renamed |-> Least(deleted, to[p], from)]
           listed  == {p \in Paths : from[p] # to[p]} \ {source[p] : p \in renamed}
           Change(p) ==
               [status |-> IF p \in renamed THEN "R" ELSE IF p \in added THEN "A"
                           ELSE IF p \in deleted THEN "D" ELSE "M",
                untracked |-> FALSE,
                old |-> IF p \in renamed THEN source[p] ELSE IF p \in added THEN None ELSE p,
                new |-> IF p \in deleted THEN None ELSE p,
                side |-> to[p]]
<1>1. list = {Change(p) : p \in listed}
  BY DEF RawStatus
<1>2. ASSUME NEW p \in renamed  PROVE source[p] \in deleted
  <2> DEFINE S == {q \in deleted : from[q] = to[p]}
  <2>1. S \in SUBSET Nat /\ S # {} /\ source[p] = Min(S)
    BY DEF ConstantsTyped
  <2> HIDE DEF S
  <2>2. Min(S) \in S
    BY <2>1, MinIsMember
  <2> QED  BY <2>1, <2>2 DEF S
<1>3. added \cap deleted = {} /\ renamed \subseteq added /\ added \cup deleted \subseteq Paths
  OBVIOUS
<1>4. None \notin Paths
  BY DEF ConstantsTyped
<1>5. listed \subseteq Paths /\ \A p \in listed : from[p] # to[p]
  OBVIOUS
<1>6. \A p \in Paths : p \in deleted => to[p] = None
  OBVIOUS
<1>7. \A p \in Paths : from[p] # to[p] /\ from[p] # None /\ p \notin deleted => to[p] # None
  OBVIOUS
<1>8. ASSUME NEW p \in Paths, from[p] # to[p]
      PROVE  p \in listed \/ \E r \in renamed : p = source[r]
  BY <1>8
<1>9. \A r \in renamed : r \in listed
  BY <1>2, <1>3
<1>10. /\ \A p \in Paths : from[p] # None => p \notin added
       /\ \A p \in Paths : to[p] # None => p \notin deleted
       /\ \A p \in Paths : to[p] = None /\ from[p] # to[p] => p \in deleted
  OBVIOUS
<1> HIDE DEF added, deleted, renamed, source, listed
<1>11. list \subseteq Changes
  <2>1. ASSUME NEW p \in listed  PROVE Change(p) \in Changes
    <3>1. Change(p).old \in Names /\ Change(p).new \in Names /\ to[p] \in Sides \cup {None}
      BY <1>2, <1>3, <1>5 DEF Names
    <3> QED  BY <3>1 DEF Changes
  <2> QED  BY <1>1, <2>1
<1>12. \A p \in listed : /\ ~Change(p).untracked /\ Change(p).new \in {p, None}
                         /\ Change(p).new # None => to[p] # None
  <2>1. ASSUME NEW p \in listed, p \notin deleted  PROVE to[p] # None
    BY <1>5, <1>10, <2>1
  <2> QED  BY <2>1
<1>13. ASSUME NEW p \in Paths, from[p] # to[p], from[p] # None
       PROVE  \E a \in list : a.old = p
  <2>1. CASE p \in listed
    <3>1. Change(p).old = p
      BY <1>3, <1>10, <1>13
    <3> QED  BY <1>1, <2>1, <3>1
  <2>2. ASSUME NEW r \in renamed, p = source[r]  PROVE \E a \in list : a.old = p
    <3>1. Change(r).old = p
      BY <2>2
    <3> QED  BY <1>1, <1>9, <3>1
  <2> QED  BY <1>8, <1>13, <2>1, <2>2
<1>14. ASSUME NEW p \in Paths, from[p] # to[p], to[p] # None
       PROVE  \E a \in list : a.new = p
  <2>1. p \in listed /\ p \notin deleted
    BY <1>2, <1>8, <1>10, <1>14
  <2>2. Change(p).new = p
    BY <2>1
  <2> QED  BY <1>1, <2>1, <2>2
<1>15. ASSUME NEW a \in list, NEW b \in list, a # b, a.new = b.new  PROVE a.new = None
  <2>1. PICK p \in listed : a = Change(p)
    BY <1>1
  <2>2. PICK q \in listed : b = Change(q)
    BY <1>1
  <2>3. p # q
    BY <1>15, <2>1, <2>2
  <2>4. a.new \in {p, None} /\ b.new \in {q, None}
    BY <1>12, <2>1, <2>2
  <2> QED  BY <1>15, <2>3, <2>4
<1>16. ASSUME NEW a \in list  PROVE ~a.untracked /\ (a.new # None => to[a.new] # None)
  <2>1. PICK p \in listed : a = Change(p)
    BY <1>1
  <2> HIDE DEF Change
  <2> QED  BY <1>12, <2>1
<1> QED  BY <1>11, <1>13, <1>14, <1>15, <1>16

-----------------------------------------------------------------------------
(* The editor.                                                              *)

\* While a capture runs, a step of the editor is seen and changes nothing else.
LEMMA Seen ==
  ASSUME ConstantsTyped, IInv, CheckoutInv', Witnessed
  PROVE  /\ TypeInv' /\ ControlInv' /\ SeenInv'
         /\ UNCHANGED <<cap.pc, cap.of, cap.queue, cap.change, cap.node, cap.records>>
         /\ \A p \in Paths : /\ cap.past[p] \subseteq cap'.past[p]
                             /\ cap.index[p] \subseteq cap'.index[p]
         /\ ~Busy => UNCHANGED cap
<1>1. CASE ~Busy
  BY <1>1 DEF IInv, TypeInv, ControlInv, SeenInv, Witnessed, Busy
<1>2. CASE Busy
  <2> DEFINE past  == [p \in Paths |-> cap.past[p] \cup {There(p)'}]
             index == [p \in Paths |-> cap.index[p] \cup {staged[p]'}]
  <2>1. cap' = [cap EXCEPT !.past = past, !.index = index]
    BY <1>2 DEF Witnessed
  <2> HIDE DEF past, index
  <2>2. /\ cap'.past = past /\ cap'.index = index
        /\ cap' = [pc |-> cap.pc, of |-> cap.of, queue |-> cap.queue, change |-> cap.change,
                   node |-> cap.node, size |-> cap.size, total |-> cap.total, patch |-> cap.patch,
                   records |-> cap.records, past |-> past, index |-> index]
    BY <2>1 DEF IInv, TypeInv
  <2>3. /\ UNCHANGED <<cap.pc, cap.of, cap.queue, cap.change, cap.node, cap.size, cap.total,
                       cap.patch, cap.records>>
    BY <2>2
  <2>4. past \in [Paths -> SUBSET (Sides \cup {None})]
    <3>1. ASSUME NEW p \in Paths  PROVE There(p)' \in Sides \cup {None}
      BY LaterIsSide
    <3> QED  BY <3>1 DEF past, IInv, TypeInv
  <2>5. index \in [Paths -> SUBSET Entries]
    BY DEF index, IInv, TypeInv, CheckoutInv
  <2>6. TypeInv'
    BY <2>2, <2>3, <2>4, <2>5 DEF IInv, TypeInv
  <2>7. ControlInv'
    BY <2>3 DEF IInv, ControlInv
  <2>8. \A p \in Paths : /\ cap'.past[p] = cap.past[p] \cup {There(p)'}
                         /\ cap'.index[p] = cap.index[p] \cup {staged'[p]}
    BY <2>2 DEF past, index
  <2> QED  BY <1>2, <2>3, <2>6, <2>7, <2>8 DEF SeenInv
<1> QED  BY <1>1, <1>2

\* What was recorded and listed stays true of a longer past.
LEMMA SeenKeeps ==
  ASSUME ConstantsTyped, IInv, CheckoutInv', Witnessed
  PROVE  RecordsInv' /\ OnceInv' /\ ListedInv'
<1>1. /\ UNCHANGED <<cap.pc, cap.of, cap.queue, cap.records>>
      /\ \A p \in Paths : /\ cap.past[p] \subseteq cap'.past[p]
                          /\ cap.index[p] \subseteq cap'.index[p]
  BY Seen
<1>2. UNCHANGED Recordings
  BY <1>1 DEF Recordings
<1>3. \A p \in Paths : Steady(p)' => Steady(p)
  BY <1>1 DEF Steady
<1>4. ASSUME NEW r \in Recordings, cap.of = "head", r.new # None
      PROVE  r.new \in Paths /\ r.after \in cap'.past[r.new]
  BY <1>1, <1>4 DEF IInv, RecordsInv, SidesWereThere, Names
<1>5. RecordsInv'
  BY <1>1, <1>2, <1>4 DEF IInv, RecordsInv, SidesWereThere
<1>6. ASSUME cap.of = "head"  PROVE OnceInv'
  <2>1. \A a \in cap.queue : a.new \in Names
    BY DEF IInv, TypeInv, Changes
  <2>2. \A r \in Recordings : r.new \in Names
    BY <1>6 DEF IInv, RecordsInv
  <2>3. ASSUME cap.pc = "others", NEW a \in cap.queue, a.new \in Paths \ Modules
        PROVE  \E e \in cap'.index[a.new] : e # None
    BY <1>1, <1>6, <2>3 DEF IInv, OnceInv
  <2>4. ASSUME NEW a \in cap.queue, NEW b \in cap.queue, a # b, a.new = b.new, a.new # None
        PROVE  ~Steady(a.new)'
    BY <1>3, <1>6, <2>1, <2>4 DEF IInv, OnceInv, Names
  <2>5. ASSUME NEW a \in cap.queue, NEW r \in Recordings, a.new = r.new, a.new # None
        PROVE  ~Steady(a.new)'
    BY <1>3, <1>6, <2>1, <2>5 DEF IInv, OnceInv, Names
  <2>6. ASSUME NEW i \in DOMAIN cap.records, NEW j \in DOMAIN cap.records, i # j,
               cap.records[i].new = cap.records[j].new, cap.records[i].new # None
        PROVE  ~Steady(cap.records[i].new)'
    <3>1. cap.records[i] \in Recordings
      BY DEF Recordings, Range
    <3> QED  BY <1>1, <1>3, <1>6, <2>2, <2>6, <3>1 DEF IInv, OnceInv, Names
  <2>7. UNCHANGED DOMAIN cap.records
    BY <1>1
  <2> QED  BY <1>1, <1>2, <2>3, <2>4, <2>5, <2>6, <2>7 DEF OnceInv
<1>7. OnceInv'
  BY <1>1, <1>6 DEF OnceInv
<1>8. ASSUME cap.pc \in Listed, cap.of = "head", NEW p \in Paths, Differs(p)'
      PROVE  /\ BaseTree[p] # None => OldKnown(p)'
             /\ Present(p)' => \/ NewKnown(p)'
                               \/ cap.pc = "others" /\ p \notin Modules /\ None \in cap'.index[p]
  <2>1. Differs(p) /\ (Present(p)' => Present(p))
    BY <1>1, <1>3, <1>8 DEF Differs, Present
  <2>2. OldKnown(p)' = OldKnown(p) /\ NewKnown(p)' = NewKnown(p)
    BY <1>1, <1>2 DEF OldKnown, NewKnown
  <2> QED  BY <1>1, <1>8, <2>1, <2>2 DEF IInv, ListedInv
<1>9. ListedInv'
  BY <1>1, <1>8 DEF ListedInv
<1> QED  BY <1>5, <1>7, <1>9

\* The descriptor in hand, while the editor works: its node is as it was, or
\* it is the node of the path, which is what is there now.
LEMMA HandSeen ==
  ASSUME ConstantsTyped, IInv, CheckoutInv', Witnessed, Len(nodes') \in Nat,
         cap.pc = "read" =>
           /\ cap.node \in 1..Len(nodes') /\ \A p \in Paths : disk'[p] = cap.node => p = Path
           /\ \/ nodes'[cap.node] = nodes[cap.node]
              \/ \E p \in Paths : p = Path /\ nodes'[cap.node] = There(p)'
  PROVE  HandInv'
<1>1. /\ UNCHANGED <<cap.pc, cap.queue, cap.change, cap.node>> /\ SeenInv'
      /\ \A p \in Paths : cap.past[p] \subseteq cap'.past[p]
  BY Seen
<1>2. Path' = Path
  BY <1>1 DEF Path
<1>3. cap.pc \in Open => cap.change \in cap.queue /\ Path \in Paths \ Modules
  BY DEF IInv, HandInv
<1>4. ASSUME cap.pc = "read"  PROVE nodes'[cap.node] \in cap'.past[Path]
  <2>1. nodes[cap.node] \in cap.past[Path] /\ Path \in Paths
    BY <1>3, <1>4 DEF IInv, HandInv, Open
  <2>2. \A p \in Paths : There(p)' \in cap'.past[p]
    <3>1. Busy'
      BY <1>1, <1>4 DEF Busy
    <3> QED  BY <1>1, <3>1 DEF SeenInv
  <2> QED  BY <1>1, <1>4, <2>1, <2>2
<1> QED  BY <1>1, <1>2, <1>3, <1>4 DEF HandInv

LEMMA EditorKeeps ==
  ASSUME ConstantsTyped, IInv, Editor
  PROVE  IInv'
<1> SUFFICES CheckoutInv' /\ HandInv' /\ Witnessed
  BY Seen, SeenKeeps DEF IInv
<1> USE DEF IInv, CheckoutInv
<1>a. Modules \subseteq Paths
  BY DEF ConstantsTyped
<1>r. cap.pc = "read" => /\ cap.node \in 1..Len(nodes) /\ Path \in Paths \ Modules
                         /\ \A p \in Paths : disk[p] = cap.node => p = Path
  BY DEF HandInv, Open
<1>1. ASSUME NEW p \in Paths, NEW text \in Texts, Write(p, text)
      PROVE  CheckoutInv' /\ HandInv' /\ Witnessed
  <2>1. nodes[disk[p]] \in Nodes /\ disk[p] \in 1..Len(nodes) /\ nodes[disk[p]].kind = "regular"
    BY <1>1 DEF Write
  <2>2. nodes' = [nodes EXCEPT ![disk[p]] = Side("regular", text)]
    <3>1. [nodes[disk[p]] EXCEPT !.data = text] = Side("regular", text)
      BY <2>1 DEF Nodes, Side
    <3> QED  BY <1>1, <3>1 DEF Write
  <2>3. nodes' \in Seq(Nodes) /\ Len(nodes') = Len(nodes)
    <3>1. Side("regular", text) \in Nodes
      BY DEF Side, Nodes
    <3> QED  BY <2>1, <2>2, <3>1
  <2>4. CheckoutInv' /\ Witnessed
    BY <1>1, <2>3 DEF Write
  <2>5. ASSUME cap.pc = "read", disk[p] = cap.node  
        PROVE  \E q \in Paths : q = Path /\ nodes'[cap.node] = There(q)'
    <3>1. p = Path /\ Path \in Paths \ Modules
      BY <1>r, <2>5
    <3>2. nodes'[disk'[p]] = Side("regular", text) /\ disk'[p] = disk[p] /\ disk[p] # 0
      BY <1>1, <2>1, <2>2 DEF Write
    <3>3. There(p)' = nodes'[disk'[p]]
      BY <3>1, <3>2 DEF There, Side
    <3> QED  BY <2>5, <3>1, <3>2, <3>3
  <2>6. cap.pc = "read" /\ disk[p] # cap.node => nodes'[cap.node] = nodes[cap.node]
    BY <1>r, <2>2
  <2>7. HandInv'
    BY <1>1, <1>r, <2>3, <2>4, <2>5, <2>6, HandSeen DEF Write
  <2> QED  BY <2>4, <2>7
<1>2. ASSUME NEW p \in Paths, NEW text \in Texts, NEW kind \in {"regular", "symlink", "special"},
             Replace(p, kind, text)
      PROVE  CheckoutInv' /\ HandInv' /\ Witnessed
  <2>1. /\ nodes' \in Seq(Nodes) /\ Len(nodes') = Len(nodes) + 1
        /\ \A n \in 1..Len(nodes) : nodes'[n] = nodes[n]
    <3>1. Side(kind, text) \in Nodes
      BY DEF Side, Nodes
    <3> QED  BY <1>2, <3>1 DEF Replace
  <2>2. disk' = [disk EXCEPT ![p] = Len(nodes) + 1] /\ Len(nodes) \in Nat
    BY <1>2, <2>1 DEF Replace
  <2>3. CheckoutInv' /\ Witnessed
    <3>1. disk' \in [Paths -> 0..Len(nodes')]
      BY <2>1, <2>2
    <3>2. ASSUME NEW q \in Paths, NEW s \in Paths, disk'[q] = disk'[s], disk'[q] # 0  PROVE q = s
      BY <2>2, <3>2
    <3> QED  BY <1>2, <2>1, <3>1, <3>2 DEF Replace
  <2>4. cap.pc = "read" => \A q \in Paths : disk'[q] = cap.node => q = Path
    BY <1>r, <2>2
  <2>5. HandInv'
    BY <1>r, <2>1, <2>2, <2>3, <2>4, HandSeen
  <2> QED  BY <2>3, <2>5
<1>3. ASSUME NEW p \in Paths, Unlink(p)
      PROVE  CheckoutInv' /\ HandInv' /\ Witnessed
  <2>1. disk' = [disk EXCEPT ![p] = 0] /\ UNCHANGED <<nodes, staged>> /\ Witnessed /\ Len(nodes) \in Nat
    BY <1>3 DEF Unlink
  <2>2. CheckoutInv'
    BY <2>1
  <2>3. HandInv'
    BY <1>r, <2>1, <2>2, HandSeen
  <2> QED  BY <2>1, <2>2, <2>3
<1>4. ASSUME NEW p \in Paths, NEW entry \in Oids \cup {None, "file"}, Restage(p, entry)
      PROVE  CheckoutInv' /\ HandInv' /\ Witnessed
  <2>1. /\ staged' = [staged EXCEPT ![p] = entry] /\ UNCHANGED <<nodes, disk>> /\ Witnessed
        /\ p \in Modules => entry \in Oids
        /\ Len(nodes) \in Nat
    BY <1>4 DEF Restage
  <2>2. CheckoutInv'
    BY <1>a, <2>1 DEF Entries
  <2>3. HandInv'
    BY <1>r, <2>1, <2>2, HandSeen
  <2> QED  BY <2>1, <2>2, <2>3
<1>5. ASSUME UNCHANGED <<nodes, disk, staged>>, Witnessed
      PROVE  CheckoutInv' /\ HandInv' /\ Witnessed
  <2>1. Len(nodes') \in Nat /\ CheckoutInv'
    BY <1>5
  <2>2. HandInv'
    BY <1>5, <1>r, <2>1, HandSeen
  <2> QED  BY <1>5, <2>1, <2>2
<1>6. CASE MoveHead \/ \E p \in Paths, oid \in Oids : CheckOut(p, oid)
  BY <1>5, <1>6 DEF MoveHead, CheckOut
<1> QED  BY <1>1, <1>2, <1>3, <1>4, <1>6 DEF Editor

-----------------------------------------------------------------------------
(* The capture.                                                             *)

LEMMA FailsKeeps ==
  ASSUME ConstantsTyped, IInv, Fails
  PROVE  IInv'
<1>1. /\ UNCHANGED <<nodes, disk, staged>>
      /\ cap' = [pc |-> "failed", of |-> None, queue |-> {}, change |-> None, node |-> 0, size |-> 0,
                 total |-> 0, patch |-> 0, records |-> <<>>, past |-> [p \in Paths |-> {}],
                 index |-> [p \in Paths |-> {}]]
  BY DEF Fails, Now, Quiet, Idle
<1>2. /\ cap'.pc = "failed" /\ cap'.of = None /\ cap'.queue = {} /\ cap'.records = <<>>
      /\ cap'.past = [p \in Paths |-> {}] /\ cap'.index = [p \in Paths |-> {}] /\ ~Busy'
  BY <1>1 DEF Busy
<1>3. TypeInv'
  <2>1. /\ [p \in Paths |-> {}] \in [Paths -> SUBSET (Sides \cup {None})]
        /\ [p \in Paths |-> {}] \in [Paths -> SUBSET Entries]
    OBVIOUS
  <2> QED  BY <1>1, <1>2, <2>1 DEF TypeInv
<1>4. None # "head" /\ None # "trees"
  BY DEF ConstantsTyped
<1> QED  BY <1>1, <1>2, <1>3, <1>4
         DEF IInv, CheckoutInv, ControlInv, SeenInv, HandInv, RecordsInv, OnceInv, ListedInv,
             Steps, Reading, Open, Listed

\* A step of the capture itself: what was seen stays what there is.
LEMMA QuietKeeps ==
  ASSUME IInv, Quiet, cap'.past = cap.past, cap'.index = cap.index
  PROVE  /\ CheckoutInv'
         /\ Busy /\ Busy' => SeenInv'
         /\ \A p \in Paths : /\ There(p)' = There(p) /\ Steady(p)' = Steady(p)
                             /\ Differs(p)' = Differs(p) /\ Present(p)' = Present(p)
BY DEF IInv, Quiet, CheckoutInv, SeenInv, There, Steady, Differs, Present

LEMMA Assembled ==
  ASSUME NEW change, NEW before, NEW after, NEW r, r = Assemble(change, before, after)
  PROVE  r.new = change.new /\ r.old = change.old /\ r.before = before /\ r.after = after
BY DEF Assemble

\* A change whose side was there is recorded.
LEMMA RecordKeeps ==
  ASSUME ConstantsTyped, IInv, cap.pc \in Reading, NEW change \in cap.queue, NEW after,
         change.new # None => after \in cap.past[change.new],
         NEW total, Record([cap EXCEPT !.total = total], change, after)
  PROVE  IInv'
<1> DEFINE c == [cap EXCEPT !.total = total]
           r == Assemble(change, OldSide(change), after)
<1>1. CASE Overflows(c, r)
  BY <1>1, FailsKeeps DEF Record
<1>2. CASE ~Overflows(c, r)
  <2>1. /\ Quiet
        /\ cap' = [c EXCEPT !.records = Append(c.records, r), !.patch = c.patch + r.dels + r.adds,
                     !.queue = c.queue \ {change}, !.change = None, !.pc = "side", !.node = 0, !.size = 0]
    BY <1>2 DEF Record, Now, Recorded
  <2>2. c = [pc |-> cap.pc, of |-> cap.of, queue |-> cap.queue, change |-> cap.change,
             node |-> cap.node, size |-> cap.size, total |-> total, patch |-> cap.patch,
             records |-> cap.records, past |-> cap.past, index |-> cap.index]
    BY DEF IInv, TypeInv
  <2> HIDE DEF c
  <2>3. cap' = [pc |-> "side", of |-> cap.of, queue |-> cap.queue \ {change}, change |-> None,
                node |-> 0, size |-> 0, total |-> total, patch |-> cap.patch + r.dels + r.adds,
                records |-> Append(cap.records, r), past |-> cap.past, index |-> cap.index]
    BY <2>1, <2>2
  <2>4. /\ r.new = change.new /\ r.old = change.old /\ r.before = OldSide(change) /\ r.after = after
    BY Assembled
  <2> HIDE DEF r
  <2>5. /\ cap'.pc = "side" /\ cap'.queue = cap.queue \ {change}
        /\ cap'.records = Append(cap.records, r)
        /\ UNCHANGED <<cap.of, cap.past, cap.index>>
    BY <2>3
  <2>6. cap.of = "head" /\ cap'.of = "head" /\ Busy /\ Busy' /\ change \in Changes
    BY <2>5 DEF IInv, ControlInv, TypeInv, Steps, Busy, Reading, Open
  <2>7. /\ CheckoutInv' /\ SeenInv'
        /\ \A p \in Paths : /\ There(p)' = There(p) /\ Steady(p)' = Steady(p)
                            /\ Differs(p)' = Differs(p) /\ Present(p)' = Present(p)
    BY <2>1, <2>5, <2>6, QuietKeeps
  <2>8. /\ cap'.records \in Seq(Recordings') /\ Recordings' = Recordings \cup {r}
        /\ Len(cap'.records) = Len(cap.records) + 1 /\ Len(cap.records) \in Nat
        /\ DOMAIN cap'.records = 1..Len(cap'.records) /\ DOMAIN cap.records = 1..Len(cap.records)
        /\ cap'.records[Len(cap'.records)] = r
        /\ \A i \in DOMAIN cap.records : cap'.records[i] = cap.records[i]
    <3> DEFINE s == cap.records
               u == cap'.records
    <3>1. s \in Seq(Range(s)) /\ u = Append(s, r)
      BY <2>5, <2>6 DEF IInv, RecordsInv, Recordings
    <3>2. Recordings = Range(s) /\ Recordings' = Range(u)
      BY DEF Recordings
    <3> HIDE DEF s, u
    <3>3. Extended(u, s, r)
      BY <3>1, Appended
    <3> QED  BY <3>2, <3>3 DEF s, u, Extended
  <2>9. TypeInv' /\ ControlInv' /\ HandInv'
    <3>1. TypeInv'
      BY <2>3, <2>5 DEF IInv, TypeInv, Steps, Reading
    <3> QED  BY <2>5, <2>6, <3>1 DEF ControlInv, HandInv, Steps, Reading, Open
  <2>10. RecordsInv'
    <3>1. \A s \in Recordings' : s.new \in Names /\ (s.new # None => s.after \in cap'.past[s.new])
      BY <2>4, <2>5, <2>6, <2>8 DEF IInv, RecordsInv, SidesWereThere, Changes
    <3> QED  BY <2>8, <3>1 DEF RecordsInv, SidesWereThere
  <2>11. OnceInv'
    <3>1. \A a \in cap.queue : a.new \in Names
      BY DEF IInv, TypeInv, Changes
    <3>2. \A s \in Recordings : s.new \in Names
      BY <2>6 DEF IInv, RecordsInv
    <3>3. ASSUME NEW a \in cap'.queue, NEW b \in cap'.queue, a # b, a.new = b.new, a.new # None
          PROVE  ~Steady(a.new)'
      BY <2>5, <2>6, <2>7, <3>1, <3>3 DEF IInv, OnceInv, Names
    <3>4. ASSUME NEW a \in cap'.queue, NEW s \in Recordings', a.new = s.new, a.new # None
          PROVE  ~Steady(a.new)'
      <4>1. CASE s \in Recordings
        BY <2>5, <2>6, <2>7, <3>1, <3>4, <4>1 DEF IInv, OnceInv, Names
      <4>2. CASE s = r
        BY <2>4, <2>5, <2>6, <2>7, <3>1, <3>4, <4>2 DEF IInv, OnceInv, Names
      <4> QED  BY <2>8, <4>1, <4>2
    <3>5. ASSUME NEW i \in DOMAIN cap'.records, NEW j \in DOMAIN cap'.records, i # j,
                 cap'.records[i].new = cap'.records[j].new, cap'.records[i].new # None
          PROVE  \E p \in Paths : p = cap'.records[i].new /\ ~Steady(p)'
      <4>1. ASSUME NEW k \in DOMAIN cap.records, r.new = cap.records[k].new, r.new # None
            PROVE  r.new \in Paths /\ ~Steady(r.new)
        <5>1. cap.records[k] \in Recordings
          BY DEF Recordings, Range
        <5> QED  BY <2>4, <2>6, <3>1, <4>1, <5>1 DEF IInv, OnceInv, Names
      <4>2. CASE i \in DOMAIN cap.records /\ j \in DOMAIN cap.records
        <5>1. cap.records[i].new \in Paths
          BY <2>8, <3>2, <3>5, <4>2 DEF Recordings, Range, Names
        <5> QED  BY <2>6, <2>7, <2>8, <3>5, <4>2, <5>1 DEF IInv, OnceInv
      <4>3. CASE i \notin DOMAIN cap.records
        BY <2>7, <2>8, <3>5, <4>1, <4>3
      <4>4. CASE j \notin DOMAIN cap.records
        BY <2>7, <2>8, <3>5, <4>1, <4>4
      <4> QED  BY <4>2, <4>3, <4>4
    <3> QED  BY <2>5, <3>3, <3>4, <3>5 DEF OnceInv
  <2>12. ListedInv'
    <3>1. ASSUME NEW p \in Paths  PROVE OldKnown(p) => OldKnown(p)'
      <4>1. p # None
        BY DEF ConstantsTyped
      <4> QED  BY <2>4, <2>5, <2>8, <4>1 DEF OldKnown, OldSide
    <3>2. ASSUME NEW p \in Paths  PROVE NewKnown(p) => NewKnown(p)'
      BY <2>4, <2>5, <2>8 DEF NewKnown
    <3>3. cap.pc \in Listed /\ cap.pc # "others"
      BY DEF Reading, Open, Listed
    <3> QED  BY <2>6, <2>7, <3>1, <3>2, <3>3 DEF IInv, ListedInv
  <2> QED  BY <2>7, <2>9, <2>10, <2>11, <2>12 DEF IInv
<1> QED  BY <1>1, <1>2

\* The change in hand goes on to another step.
LEMMA ReadingKeeps ==
  ASSUME ConstantsTyped, IInv, Quiet, TypeInv', HandInv', cap.pc \in Reading, cap'.pc \in Reading,
         UNCHANGED <<cap.of, cap.queue, cap.records, cap.past, cap.index>>
  PROVE  IInv'
<1>1. Busy /\ Busy' /\ cap.of = "head" /\ cap'.of = "head"
  BY DEF IInv, ControlInv, Busy, Steps, Reading, Open
<1>2. /\ CheckoutInv' /\ SeenInv'
      /\ \A p \in Paths : /\ Steady(p)' = Steady(p) /\ Differs(p)' = Differs(p)
                          /\ Present(p)' = Present(p)
  BY <1>1, QuietKeeps
<1>3. ControlInv'
  BY <1>1 DEF ControlInv, Steps, Reading, Open
<1>4. UNCHANGED Recordings
  BY DEF Recordings
<1>5. RecordsInv'
  BY <1>1, <1>4 DEF IInv, RecordsInv, SidesWereThere
<1>6. OnceInv'
  <2>1. \A a : Steady(a)' = Steady(a)
    BY DEF Steady
  <2>2. cap'.pc # "others"
    BY DEF Reading, Open
  <2> QED  BY <1>1, <1>4, <2>1, <2>2 DEF IInv, OnceInv, Steady
<1>7. ListedInv'
  <2>1. \A p \in Paths : OldKnown(p)' = OldKnown(p) /\ NewKnown(p)' = NewKnown(p)
    BY <1>4 DEF OldKnown, NewKnown
  <2>2. cap.pc \in Listed /\ cap.pc # "others" /\ cap'.pc # "others"
    BY DEF Reading, Open, Listed
  <2> QED  BY <1>1, <1>2, <2>1, <2>2 DEF IInv, ListedInv
<1> QED  BY <1>2, <1>3, <1>5, <1>6, <1>7 DEF IInv

LEMMA BeginKeeps ==
  ASSUME ConstantsTyped, IInv, NEW pc \in {"head", "trees"}, Begin(pc)
  PROVE  IInv'
<1> DEFINE past  == [p \in Paths |-> {There(p)}]
           index == [p \in Paths |-> {staged[p]}]
<1>1. cap.pc = "idle" /\ Quiet /\ cap' = [cap EXCEPT !.pc = pc, !.of = pc, !.past = past, !.index = index]
  BY DEF Begin, Now, At
<1>2. past \in [Paths -> SUBSET (Sides \cup {None})] /\ index \in [Paths -> SUBSET Entries]
  BY ThereIsSide DEF IInv, CheckoutInv
<1>3. \A p \in Paths : There(p) \in past[p] /\ staged[p] \in index[p]
  OBVIOUS
<1> HIDE DEF past, index
<1>4. cap' = [pc |-> pc, of |-> pc, queue |-> cap.queue, change |-> cap.change, node |-> cap.node,
              size |-> cap.size, total |-> cap.total, patch |-> cap.patch,
              records |-> cap.records, past |-> past, index |-> index]
  BY <1>1 DEF IInv, TypeInv
<1>5. /\ cap'.pc = pc /\ cap'.of = pc /\ cap'.past = past /\ cap'.index = index
      /\ cap'.queue = {} /\ cap'.records = <<>>
  BY <1>1, <1>4 DEF IInv, ControlInv, Reading, Open
<1>6. TypeInv'
  BY <1>2, <1>4, <1>5 DEF TypeInv, Steps
<1>7. CheckoutInv' /\ \A p \in Paths : There(p)' = There(p) /\ staged'[p] = staged[p]
  BY <1>1 DEF IInv, CheckoutInv, Quiet, There
<1>8. SeenInv'
  BY <1>3, <1>5, <1>7 DEF SeenInv
<1>9. Recordings' = {} /\ DOMAIN cap'.records = {} /\ cap'.records \in Seq({})
  BY <1>5 DEF Recordings, Range
<1>10. ControlInv' /\ HandInv' /\ ListedInv'
  BY <1>5 DEF ControlInv, HandInv, ListedInv, Steps, Reading, Open, Listed
<1>11. RecordsInv' /\ OnceInv'
  BY <1>5, <1>9 DEF RecordsInv, OnceInv, SidesWereThere
<1> QED  BY <1>6, <1>7, <1>8, <1>10, <1>11 DEF IInv

LEMMA RevParseKeeps ==
  ASSUME ConstantsTyped, IInv, RevParseHead
  PROVE  IInv'
<1>1. CASE Fails
  BY <1>1, FailsKeeps
<1>2. CASE cap.pc = "head" /\ Now([cap EXCEPT !.pc = "status"])
  <2>1. cap' = [pc |-> "status", of |-> cap.of, queue |-> cap.queue, change |-> cap.change,
                node |-> cap.node, size |-> cap.size, total |-> cap.total, patch |-> cap.patch,
                records |-> cap.records, past |-> cap.past, index |-> cap.index]
    BY <1>2 DEF Now, IInv, TypeInv
  <2>2. /\ cap'.pc = "status" /\ UNCHANGED <<cap.of, cap.queue, cap.records, cap.past, cap.index>>
        /\ Busy /\ Busy' /\ Quiet
    BY <1>2, <2>1 DEF Busy, Now
  <2>3. CheckoutInv' /\ SeenInv'
    BY <2>2, QuietKeeps
  <2>4. TypeInv'
    BY <2>1, <2>2 DEF IInv, TypeInv, Steps
  <2>5. cap.of = "head" /\ cap.queue = {} /\ cap.records = <<>>
    BY <1>2 DEF IInv, ControlInv, Steps, Reading, Open
  <2>6. Recordings' = {} /\ DOMAIN cap'.records = {} /\ cap'.records \in Seq({})
    BY <2>2, <2>5 DEF Recordings, Range
  <2>7. ControlInv' /\ HandInv' /\ ListedInv'
    BY <2>2, <2>5 DEF ControlInv, HandInv, ListedInv, Steps, Reading, Open, Listed
  <2>8. RecordsInv' /\ OnceInv'
    BY <2>2, <2>5, <2>6 DEF RecordsInv, OnceInv, SidesWereThere
  <2> QED  BY <2>3, <2>4, <2>7, <2>8 DEF IInv
<1> QED  BY <1>1, <1>2 DEF RevParseHead, At

\* What Git compares with the base: what is there, or nothing if it is not
\* staged; of a submodule between two commits, neither of them.
LEMMA TrackedIs ==
  ASSUME ConstantsTyped, CheckoutInv, NEW p \in Paths
  PROVE  /\ Tracked(p) \in Sides \cup {None}
         /\ Tracked(p) = None => p \notin Modules /\ (staged[p] = None \/ There(p) = None)
         /\ Tracked(p) # None /\ p \notin Modules => staged[p] # None
         /\ Tracked(p) \in TreeSides \cup {None} /\ Tracked(p) # None => Tracked(p) = There(p)
<1>1. There(p) \in Sides \cup {None}
  BY ThereIsSide
<1>2. CASE p \notin Modules
  BY <1>1, <1>2 DEF Tracked
<1>3. CASE p \in Modules
  <2>1. staged[p] \in Oids /\ There(p) = Side("gitlink", staged[p])
    BY <1>3 DEF CheckoutInv, There
  <2>2. Side("gitlink", staged[p]) \in Sides /\ Side("gitlink", None) \in Sides
    BY <2>1 DEF Side, Sides, TreeSides
  <2>3. Side("gitlink", None) \notin TreeSides
    BY DEF ConstantsTyped, Side, TreeSides
  <2>4. None \notin Sides
    BY DEF ConstantsTyped
  <2> QED  BY <1>3, <2>1, <2>2, <2>3, <2>4 DEF Tracked
<1> QED  BY <1>2, <1>3

LEMMA ListTrackedKeeps ==
  ASSUME ConstantsTyped, IInv, ListTracked
  PROVE  IInv'
<1> DEFINE to    == [p \in Paths |-> Tracked(p)]
           queue == RawStatus(BaseTree, to)
<1>1. cap.pc = "status" /\ Quiet /\ cap' = [cap EXCEPT !.pc = "others", !.queue = queue]
  BY DEF ListTracked, At, Now
<1>2. to \in [Paths -> Sides \cup {None}] /\ \A p \in Paths : to[p] = Tracked(p)
  BY TrackedIs DEF IInv
<1>3. BaseTree \in [Paths -> Sides \cup {None}]
  BY DEF ConstantsTyped, Sides
<1> HIDE DEF to
<1>4. /\ queue \subseteq Changes
      /\ \A a \in queue : ~a.untracked /\ (a.new # None => to[a.new] # None)
      /\ \A a, b \in queue : a # b /\ a.new = b.new => a.new = None
      /\ \A p \in Paths : BaseTree[p] # to[p] =>
              /\ BaseTree[p] # None => \E a \in queue : a.old = p
              /\ to[p] # None => \E a \in queue : a.new = p
  BY <1>2, <1>3, RawListed
<1> HIDE DEF queue
<1>5. cap' = [pc |-> "others", of |-> cap.of, queue |-> queue, change |-> cap.change,
              node |-> cap.node, size |-> cap.size, total |-> cap.total, patch |-> cap.patch,
              records |-> cap.records, past |-> cap.past, index |-> cap.index]
  BY <1>1 DEF IInv, TypeInv
<1>6. /\ cap'.pc = "others" /\ cap'.queue = queue
      /\ UNCHANGED <<cap.of, cap.records, cap.past, cap.index>> /\ Busy /\ Busy'
  BY <1>1, <1>5 DEF Busy
<1>7. /\ CheckoutInv' /\ SeenInv'
      /\ \A p \in Paths : /\ Steady(p)' = Steady(p) /\ Differs(p)' = Differs(p)
                          /\ Present(p)' = Present(p)
  BY <1>1, <1>6, QuietKeeps
<1>8. TypeInv'
  BY <1>4, <1>5, <1>6 DEF IInv, TypeInv, Steps
<1>9. cap.of = "head" /\ cap.records = <<>>
  BY <1>1 DEF IInv, ControlInv, Steps, Reading, Open
<1>10. Recordings' = {} /\ DOMAIN cap'.records = {} /\ cap'.records \in Seq({})
  BY <1>6, <1>9 DEF Recordings, Range
<1>11. ControlInv' /\ HandInv'
  BY <1>6, <1>9 DEF ControlInv, HandInv, Steps, Reading, Open
<1>12. RecordsInv'
  BY <1>6, <1>10 DEF RecordsInv, SidesWereThere
<1>13. OnceInv'
  <2>1. ASSUME NEW a \in queue, a.new \in Paths \ Modules
        PROVE  \E e \in cap.index[a.new] : e # None
    <3>1. a.new # None
      BY <2>1 DEF ConstantsTyped
    <3>2. staged[a.new] # None
      BY <1>2, <1>4, <2>1, <3>1, TrackedIs DEF IInv
    <3>3. staged[a.new] \in cap.index[a.new]
      BY <1>6, <2>1 DEF IInv, SeenInv
    <3> QED  BY <3>2, <3>3
  <2> QED  BY <1>4, <1>6, <1>10, <2>1 DEF OnceInv
<1>14. ASSUME NEW p \in Paths, Differs(p)
       PROVE  /\ BaseTree[p] # None => OldKnown(p)'
              /\ Present(p) => NewKnown(p)' \/ (p \notin Modules /\ None \in cap.index[p])
  <2>1. There(p) \in cap.past[p] /\ staged[p] \in cap.index[p] /\ BaseTree[p] \notin cap.past[p]
    BY <1>6, <1>14 DEF IInv, SeenInv, Differs
  <2>2. BaseTree[p] \in TreeSides \cup {None}
    BY DEF ConstantsTyped
  <2>3. Tracked(p) # None => Tracked(p) # BaseTree[p]
    BY <2>1, <2>2, TrackedIs DEF IInv
  <2>4. ASSUME BaseTree[p] # None  PROVE OldKnown(p)'
    BY <1>2, <1>4, <1>6, <2>3, <2>4 DEF OldKnown
  <2>5. ASSUME Present(p), Tracked(p) # None  PROVE NewKnown(p)'
    BY <1>2, <1>4, <1>6, <2>3, <2>5 DEF NewKnown
  <2>6. ASSUME Present(p), Tracked(p) = None  PROVE p \notin Modules /\ None \in cap.index[p]
    BY <2>1, <2>6, TrackedIs DEF IInv, Present
  <2> QED  BY <2>4, <2>5, <2>6
<1>15. ListedInv'
  BY <1>6, <1>7, <1>14 DEF ListedInv
<1> QED  BY <1>7, <1>8, <1>11, <1>12, <1>13, <1>15 DEF IInv

LEMMA ListUntrackedKeeps ==
  ASSUME ConstantsTyped, IInv, ListUntracked
  PROVE  IInv'
<1> DEFINE others == {p \in Paths \ Modules : staged[p] = None /\ Blob(There(p))}
           queue  == cap.queue \cup {Untracked(p) : p \in others}
<1>1. CASE Fails
  BY <1>1, FailsKeeps
<1>2. CASE Now([cap EXCEPT !.pc = "side", !.queue = queue]) /\ cap.pc = "others"
  <2>1. Quiet /\ cap' = [cap EXCEPT !.pc = "side", !.queue = queue]
    BY <1>2 DEF Now
  <2>2. /\ \A p \in others : Untracked(p) \in Changes /\ Untracked(p).new = p
        /\ \A p \in Paths : p \in others <=> p \notin Modules /\ staged[p] = None /\ Blob(There(p))
    BY DEF Untracked, Changes, Names
  <2>3. others \subseteq Paths /\ None \notin Paths
    BY DEF ConstantsTyped
  <2> HIDE DEF others
  <2>4. cap' = [pc |-> "side", of |-> cap.of, queue |-> queue, change |-> cap.change,
                node |-> cap.node, size |-> cap.size, total |-> cap.total, patch |-> cap.patch,
                records |-> cap.records, past |-> cap.past, index |-> cap.index]
    BY <2>1 DEF IInv, TypeInv
  <2>5. /\ cap'.pc = "side" /\ cap'.queue = queue
        /\ UNCHANGED <<cap.of, cap.records, cap.past, cap.index>> /\ Busy /\ Busy'
    BY <1>2, <2>4 DEF Busy
  <2>6. /\ CheckoutInv' /\ SeenInv'
        /\ \A p \in Paths : /\ Steady(p)' = Steady(p) /\ Differs(p)' = Differs(p)
                            /\ Present(p)' = Present(p)
    BY <2>1, <2>5, QuietKeeps
  <2>7. TypeInv'
    <3>1. queue \in SUBSET Changes
      BY <2>2 DEF IInv, TypeInv
    <3> QED  BY <2>4, <2>5, <3>1 DEF IInv, TypeInv, Steps, Reading
  <2>8. cap.of = "head" /\ cap.records = <<>>
    BY <1>2 DEF IInv, ControlInv, Steps, Reading, Open
  <2>9. Recordings' = {} /\ DOMAIN cap'.records = {} /\ cap'.records \in Seq({}) /\ Recordings = {}
    BY <2>5, <2>8 DEF Recordings, Range
  <2>10. ControlInv' /\ HandInv'
    BY <2>5, <2>8 DEF ControlInv, HandInv, Steps, Reading, Open
  <2>11. RecordsInv'
    BY <2>5, <2>9 DEF RecordsInv, SidesWereThere
  <2>12. ASSUME NEW a \in cap.queue, NEW p \in others, a.new = p  PROVE ~Steady(p)
    <3>1. \E e \in cap.index[p] : e # None
      BY <1>2, <2>2, <2>3, <2>8, <2>12 DEF IInv, OnceInv
    <3>2. None \in cap.index[p]
      BY <2>2, <2>3, <2>5 DEF IInv, SeenInv
    <3> QED  BY <3>1, <3>2 DEF Steady
  <2>13. ASSUME NEW a \in queue, NEW b \in queue, a # b, a.new = b.new, a.new # None
         PROVE  a.new \in Paths /\ ~Steady(a.new)
    <3>1. CASE a \in cap.queue /\ b \in cap.queue
      <4>1. a.new \in Names
        BY <3>1 DEF IInv, TypeInv, Changes
      <4> QED  BY <2>8, <2>13, <3>1, <4>1 DEF IInv, OnceInv, Names
    <3>2. CASE a \in cap.queue /\ b \notin cap.queue
      BY <2>2, <2>3, <2>12, <2>13, <3>2
    <3>3. CASE a \notin cap.queue /\ b \in cap.queue
      BY <2>2, <2>3, <2>12, <2>13, <3>3
    <3>4. CASE a \notin cap.queue /\ b \notin cap.queue
      BY <2>2, <2>13, <3>4
    <3> QED  BY <3>1, <3>2, <3>3, <3>4
  <2>14. OnceInv'
    BY <2>5, <2>6, <2>9, <2>13 DEF OnceInv
  <2>15. ASSUME NEW p \in Paths, Differs(p)
         PROVE  /\ BaseTree[p] # None => OldKnown(p)'
                /\ Present(p) => NewKnown(p)'
    <3>1. /\ BaseTree[p] # None => OldKnown(p)
          /\ Present(p) => NewKnown(p) \/ (p \notin Modules /\ None \in cap.index[p])
      BY <1>2, <2>8, <2>15 DEF IInv, ListedInv, Listed
    <3>2. (OldKnown(p) => OldKnown(p)') /\ (NewKnown(p) => NewKnown(p)')
      BY <2>5, <2>9 DEF OldKnown, NewKnown
    <3>3. ASSUME Present(p), p \notin Modules, None \in cap.index[p]  PROVE NewKnown(p)'
      <4>1. staged[p] = None /\ Blob(There(p))
        BY <2>5, <2>15, <3>3 DEF IInv, SeenInv, Differs, Steady, Present
      <4>2. Untracked(p) \in queue /\ Untracked(p).new = p
        BY <2>2, <3>3, <4>1
      <4> QED  BY <2>5, <4>2 DEF NewKnown
    <3> QED  BY <3>1, <3>2, <3>3
  <2>16. ListedInv'
    BY <2>5, <2>6, <2>15 DEF ListedInv
  <2> QED  BY <2>6, <2>7, <2>10, <2>11, <2>14, <2>16 DEF IInv
<1> QED  BY <1>1, <1>2 DEF ListUntracked, At

LEMMA CountedIs ==
  ASSUME IInv, NEW data
  PROVE  /\ cap = [cap EXCEPT !.total = cap.total]
         /\ \E total : Counted(data) = [cap EXCEPT !.total = total]
<1>1. cap = [cap EXCEPT !.total = cap.total]
  BY DEF IInv, TypeInv
<1>2. Counted(data) \in {cap, [cap EXCEPT !.total = @ + data.size]}
  BY DEF Counted
<1> QED  BY <1>1, <1>2

LEMMA NoNewSideKeeps ==
  ASSUME ConstantsTyped, IInv, NEW change \in cap.queue, NoNewSide(change)
  PROVE  IInv'
<1>1. Record([cap EXCEPT !.total = cap.total], change, None)
  BY CountedIs DEF NoNewSide
<1>2. change.new = None /\ cap.pc \in Reading
  BY DEF NoNewSide, Taking, At, Reading
<1> QED  BY <1>1, <1>2, RecordKeeps

LEMMA GitlinkKeeps ==
  ASSUME ConstantsTyped, IInv, NEW change \in cap.queue, Gitlink(change)
  PROVE  IInv'
<1>1. CASE Fails
  BY <1>1, FailsKeeps
<1>2. CASE Record(cap, change, Side("gitlink", staged[change.new]))
  <2> DEFINE after == Side("gitlink", staged[change.new])
  <2>1. cap.pc \in Reading /\ Busy /\ change.new \in Modules /\ change.new \in Paths
    BY DEF Gitlink, Taking, At, Reading, Busy, ConstantsTyped
  <2>2. after = There(change.new)
    BY <2>1 DEF There
  <2>3. after \in cap.past[change.new]
    BY <2>1, <2>2 DEF IInv, SeenInv
  <2>4. Record([cap EXCEPT !.total = cap.total], change, after)
    BY <1>2, CountedIs
  <2> HIDE DEF after
  <2> QED  BY <2>1, <2>3, <2>4, RecordKeeps
<1> QED  BY <1>1, <1>2 DEF Gitlink

LEMMA LstatKeeps ==
  ASSUME ConstantsTyped, IInv, NEW change \in cap.queue, Lstat(change)
  PROVE  IInv'
<1> DEFINE p == change.new
           node == disk[p]
<1>1. cap.pc \in Reading /\ Busy /\ p \in Paths \ Modules
  BY DEF Lstat, Taking, At, Reading, Busy
<1>2. CASE node = 0
  BY <1>2, FailsKeeps DEF Lstat
<1>3. CASE node # 0
  <2>1. nodes[node] \in Nodes
    BY <1>1, <1>3 DEF IInv, CheckoutInv
  <2>2. CASE nodes[node].kind = "special"
    <3>1. Record(cap, change, Side("special", None))
      BY <1>3, <2>2 DEF Lstat
    <3>2. There(p) = Side("special", None) /\ There(p) \in cap.past[p]
      BY <1>1, <1>3, <2>2 DEF There, IInv, SeenInv
    <3>3. Record([cap EXCEPT !.total = cap.total], change, There(p))
      BY <3>1, <3>2, CountedIs
    <3> QED  BY <1>1, <3>2, <3>3, RecordKeeps
  <2>3. ASSUME NEW pc \in {"readlink", "open"}, Now([cap EXCEPT !.pc = pc, !.change = change])
        PROVE  IInv'
    <3>1. Quiet /\ cap' = [pc |-> pc, of |-> cap.of, queue |-> cap.queue, change |-> change,
                  node |-> cap.node, size |-> cap.size, total |-> cap.total, patch |-> cap.patch,
                  records |-> cap.records, past |-> cap.past, index |-> cap.index]
      BY <2>3 DEF Now, IInv, TypeInv
    <3>2. /\ cap'.pc = pc /\ cap'.change = change /\ cap'.pc \in Reading
          /\ UNCHANGED <<cap.of, cap.queue, cap.records, cap.past, cap.index>>
      BY <3>1 DEF Reading, Open
    <3>3. TypeInv'
      BY <3>1, <3>2 DEF IInv, TypeInv, Steps
    <3>4. HandInv'
      BY <1>1, <3>2 DEF HandInv, Path, Open
    <3> QED  BY <1>1, <3>1, <3>2, <3>3, <3>4, ReadingKeeps
  <2>4. CASE nodes[node].kind = "symlink"
    BY <1>3, <2>3, <2>4 DEF Lstat
  <2>5. CASE nodes[node].kind = "regular"
    BY <1>3, <2>3, <2>5 DEF Lstat
  <2> QED  BY <2>1, <2>2, <2>4, <2>5 DEF Nodes
<1> QED  BY <1>2, <1>3

LEMMA ReadLinkKeeps ==
  ASSUME ConstantsTyped, IInv, ReadLink
  PROVE  IInv'
<1>1. CASE Fails
  BY <1>1, FailsKeeps
<1>2. CASE /\ disk[Path] # 0 /\ nodes[disk[Path]].kind = "symlink"
           /\ Record(Counted(nodes[disk[Path]].data), cap.change, nodes[disk[Path]])
  <2>1. cap.pc = "readlink" /\ cap.pc \in Reading /\ Busy /\ cap.change \in cap.queue /\ Path \in Paths \ Modules
    BY DEF ReadLink, At, Reading, Open, Busy, IInv, HandInv
  <2>2. There(Path) = nodes[disk[Path]] /\ There(Path) \in cap.past[Path]
    <3>1. \A p \in Paths : There(p) \in cap.past[p]
      BY <2>1 DEF IInv, SeenInv
    <3> QED  BY <1>2, <2>1, <3>1, ThereIsNode DEF IInv
  <2>3. PICK total : Counted(nodes[disk[Path]].data) = [cap EXCEPT !.total = total]
    BY CountedIs
  <2>4. Record([cap EXCEPT !.total = total], cap.change, There(Path))
    BY <1>2, <2>2, <2>3
  <2> QED  BY <2>1, <2>2, <2>4, RecordKeeps DEF Path
<1> QED  BY <1>1, <1>2 DEF ReadLink

LEMMA OpenRegularKeeps ==
  ASSUME ConstantsTyped, IInv, OpenRegular
  PROVE  IInv'
<1>1. CASE Fails
  BY <1>1, FailsKeeps
<1>2. ASSUME NEW size, disk[Path] # 0, nodes[disk[Path]].kind = "regular",
             Now([cap EXCEPT !.pc = "read", !.node = disk[Path], !.size = size])
      PROVE  IInv'
  <2>1. cap.pc \in Reading /\ Busy /\ cap.change \in cap.queue /\ Path \in Paths \ Modules
    BY DEF OpenRegular, At, Reading, Open, Busy, IInv, HandInv
  <2>2. Quiet /\ cap' = [pc |-> "read", of |-> cap.of, queue |-> cap.queue, change |-> cap.change,
                node |-> disk[Path], size |-> size, total |-> cap.total, patch |-> cap.patch,
                records |-> cap.records, past |-> cap.past, index |-> cap.index]
    BY <1>2 DEF Now, IInv, TypeInv
  <2>3. /\ cap'.pc = "read" /\ cap'.pc \in Reading /\ cap'.node = disk[Path]
        /\ UNCHANGED <<cap.of, cap.change, cap.queue, cap.records, cap.past, cap.index>>
    BY <2>2 DEF Reading, Open
  <2>4. Path' = Path /\ UNCHANGED <<nodes, disk>>
    BY <2>2, <2>3 DEF Path, Quiet
  <2>5. TypeInv'
    BY <2>2, <2>3 DEF IInv, TypeInv, Steps
  <2>6. HandInv'
    <3>1. There(Path) = nodes[disk[Path]] /\ disk[Path] \in 1..Len(nodes)
      BY <1>2, <2>1, ThereIsNode DEF IInv
    <3>2. \A p \in Paths : There(p) \in cap.past[p]
      BY <2>1 DEF IInv, SeenInv
    <3>3. \A p \in Paths : disk[p] = disk[Path] => p = Path
      BY <1>2, <2>1 DEF IInv, CheckoutInv
    <3> QED  BY <2>1, <2>3, <2>4, <3>1, <3>2, <3>3 DEF HandInv
  <2> QED  BY <2>1, <2>2, <2>3, <2>5, <2>6, ReadingKeeps
<1> QED  BY <1>1, <1>2 DEF OpenRegular

LEMMA ReadRegularKeeps ==
  ASSUME ConstantsTyped, IInv, ReadRegular
  PROVE  IInv'
<1>1. CASE Fails
  BY <1>1, FailsKeeps
<1>2. CASE Record(Counted(nodes[cap.node].data), cap.change, nodes[cap.node])
  <2>1. /\ cap.pc \in Reading /\ cap.change \in cap.queue /\ nodes[cap.node] \in cap.past[Path]
    BY DEF ReadRegular, At, Reading, Open, IInv, HandInv
  <2>2. PICK total : Counted(nodes[cap.node].data) = [cap EXCEPT !.total = total]
    BY CountedIs
  <2>3. Record([cap EXCEPT !.total = total], cap.change, nodes[cap.node])
    BY <1>2, <2>2
  <2> QED  BY <2>1, <2>3, RecordKeeps DEF Path
<1> QED  BY <1>1, <1>2 DEF ReadRegular

LEMMA FinishKeeps ==
  ASSUME ConstantsTyped, IInv, Finish
  PROVE  IInv'
<1>1. cap.pc = "side" /\ cap.queue = {} /\ Quiet /\ cap.of = "head"
  BY DEF Finish, At, Now, IInv, ControlInv, Steps, Reading
<1>2. cap' = [pc |-> "done", of |-> cap.of, queue |-> cap.queue, change |-> cap.change,
              node |-> cap.node, size |-> cap.size, total |-> cap.total, patch |-> cap.patch,
              records |-> cap.records, past |-> cap.past, index |-> cap.index]
  BY DEF Finish, Now, IInv, TypeInv
<1>3. /\ cap'.pc = "done" /\ ~Busy'
      /\ UNCHANGED <<cap.of, cap.queue, cap.records, cap.past, cap.index>>
  BY <1>2 DEF Busy
<1>4. /\ CheckoutInv'
      /\ \A p \in Paths : /\ Steady(p)' = Steady(p) /\ Differs(p)' = Differs(p)
                          /\ Present(p)' = Present(p)
  BY <1>1, <1>3, QuietKeeps
<1>5. UNCHANGED Recordings
  BY <1>3 DEF Recordings
<1>6. TypeInv' /\ ControlInv' /\ SeenInv' /\ HandInv'
  <2>1. TypeInv'
    BY <1>2, <1>3 DEF IInv, TypeInv
  <2> QED  BY <1>1, <1>3, <2>1 DEF ControlInv, SeenInv, HandInv, Steps, Reading, Open
<1>7. RecordsInv'
  BY <1>3, <1>5 DEF IInv, RecordsInv, SidesWereThere
<1>8. OnceInv'
  <2>1. \A a : Steady(a)' = Steady(a)
    BY <1>3 DEF Steady
  <2> QED  BY <1>1, <1>3, <1>5, <2>1 DEF IInv, OnceInv
<1>9. ListedInv'
  <2>1. \A p \in Paths : OldKnown(p)' = OldKnown(p) /\ NewKnown(p)' = NewKnown(p)
    BY <1>3, <1>5 DEF OldKnown, NewKnown
  <2> QED  BY <1>1, <1>3, <1>4, <2>1 DEF IInv, ListedInv, Listed, Reading
<1> QED  BY <1>4, <1>6, <1>7, <1>8, <1>9 DEF IInv

LEMMA CaptureCommittedKeeps ==
  ASSUME ConstantsTyped, IInv, CaptureCommitted
  PROVE  IInv'
<1>1. CASE Fails
  BY <1>1, FailsKeeps
<1>2. ASSUME NEW records, NEW patch, cap.pc = "trees",
             Now([cap EXCEPT !.pc = "done", !.records = records, !.patch = patch])
      PROVE  IInv'
  <2>1. Quiet /\ cap' = [pc |-> "done", of |-> cap.of, queue |-> cap.queue, change |-> cap.change,
                node |-> cap.node, size |-> cap.size, total |-> cap.total, patch |-> patch,
                records |-> records, past |-> cap.past, index |-> cap.index]
    BY <1>2 DEF Now, IInv, TypeInv
  <2>2. /\ cap'.pc = "done" /\ ~Busy' /\ UNCHANGED <<cap.of, cap.queue, cap.past, cap.index>>
    BY <2>1 DEF Busy
  <2>3. cap.of = "trees" /\ cap.queue = {}
    BY <1>2 DEF IInv, ControlInv, Reading, Open
  <2>4. CheckoutInv'
    BY <2>1, <2>2, QuietKeeps
  <2>5. TypeInv'
    BY <2>1, <2>2 DEF IInv, TypeInv
  <2> QED  BY <2>2, <2>3, <2>4, <2>5
           DEF IInv, ControlInv, SeenInv, HandInv, RecordsInv, OnceInv, ListedInv, Steps, Reading, Open
<1> QED  BY <1>1, <1>2 DEF CaptureCommitted, At

-----------------------------------------------------------------------------

LEMMA InitHolds ==
  ASSUME ConstantsTyped, Init
  PROVE  IInv
<1>1. /\ cap = Idle /\ \E start \in Starts : nodes = start[1] /\ disk = start[2] /\ staged = start[3]
  BY DEF Init
<1>2. CheckoutInv
  BY <1>1 DEF ConstantsTyped, CheckoutInv
<1>3. /\ cap.pc = "idle" /\ cap.of = None /\ cap.queue = {} /\ cap.records = <<>> /\ ~Busy
      /\ cap.past = [p \in Paths |-> {}] /\ cap.index = [p \in Paths |-> {}]
  BY <1>1 DEF Idle, Busy
<1>4. TypeInv
  <2>1. /\ [p \in Paths |-> {}] \in [Paths -> SUBSET (Sides \cup {None})]
        /\ [p \in Paths |-> {}] \in [Paths -> SUBSET Entries]
    OBVIOUS
  <2> QED  BY <1>1, <1>3, <2>1 DEF TypeInv, Idle
<1>5. None # "head" /\ None # "trees"
  BY DEF ConstantsTyped
<1> QED  BY <1>2, <1>3, <1>4, <1>5
         DEF IInv, ControlInv, SeenInv, HandInv, RecordsInv, OnceInv, ListedInv,
             Steps, Reading, Open, Listed

LEMMA NextKeeps ==
  ASSUME ConstantsTyped, IInv, [Next]_vars
  PROVE  IInv'
<1>1. CASE UNCHANGED vars
  BY <1>1 DEF vars, IInv, CheckoutInv, TypeInv, ControlInv, SeenInv, HandInv, RecordsInv, OnceInv,
              ListedInv, Busy, There, Path, Recordings, SidesWereThere, Steady, Differs, Present,
              OldKnown, NewKnown
<1>2. CASE GitFails
  BY <1>2, FailsKeeps DEF GitFails
<1>3. ASSUME NEW change \in cap.queue, NoNewSide(change) \/ Gitlink(change) \/ Lstat(change)
      PROVE  IInv'
  BY <1>3, NoNewSideKeeps, GitlinkKeeps, LstatKeeps
<1> QED  BY <1>1, <1>2, <1>3, BeginKeeps, RevParseKeeps, ListTrackedKeeps, ListUntrackedKeeps,
            ReadLinkKeeps, OpenRegularKeeps, ReadRegularKeeps, FinishKeeps,
            CaptureCommittedKeeps, EditorKeeps DEF Next

\* What the invariant says of a capture that is done.
LEMMA DoneIsShown ==
  ASSUME ConstantsTyped, IInv
  PROVE  CheckoutShown
<1> SUFFICES ASSUME cap.pc = "done", cap.of = "head"
             PROVE  SidesWereThere /\ NothingLeftOut /\ RecordedOnce
  BY DEF CheckoutShown, At
<1>1. cap.queue = {}
  BY DEF IInv, ControlInv
<1>2. SidesWereThere
  BY DEF IInv, RecordsInv
<1>3. ASSUME NEW p \in Paths, Settled(p)  PROVE Steady(p)
  <2>1. IsFiniteSet(cap.index[p])
    <3>1. cap.index[p] \subseteq Entries
      BY DEF IInv, TypeInv
    <3>2. IsFiniteSet(Entries)
      <4>1. IsFiniteSet(Oids)
        BY DEF ConstantsTyped
      <4>2. IsFiniteSet(Oids \cup {"file"})
        BY <4>1, FS_AddElement
      <4>3. IsFiniteSet((Oids \cup {"file"}) \cup {None})
        BY <4>2, FS_AddElement
      <4>4. (Oids \cup {"file"}) \cup {None} = Entries
        BY DEF Entries
      <4> QED  BY <4>3, <4>4
    <3> QED  BY <3>1, <3>2, FS_Subset
  <2>2. \E x : cap.index[p] = {x}
    BY <1>3, <2>1, FS_Singleton DEF Settled
  <2> QED  BY <2>2 DEF Steady
<1>4. NothingLeftOut
  <2> SUFFICES ASSUME NEW p \in Paths, Settled(p), BaseTree[p] \notin cap.past[p]
               PROVE  /\ BaseTree[p] # None => \E r \in Recordings : r.old = p /\ r.before = BaseTree[p]
                      /\ Present(p) => \E r \in Recordings : r.new = p
    BY DEF NothingLeftOut, Present
  <2>1. Differs(p)
    BY <1>3 DEF Differs
  <2>2. /\ BaseTree[p] # None => OldKnown(p)
        /\ Present(p) => NewKnown(p)
    BY <2>1 DEF IInv, ListedInv, Listed
  <2> QED  BY <1>1, <2>2 DEF OldKnown, NewKnown
<1>5. RecordedOnce
  <2> SUFFICES ASSUME NEW i \in DOMAIN cap.records, NEW j \in DOMAIN cap.records, i # j,
                      cap.records[i].new # None, cap.records[i].new = cap.records[j].new
               PROVE  ~Settled(cap.records[i].new)
    BY DEF RecordedOnce
  <2>1. cap.records[i].new \in Paths
    BY DEF IInv, RecordsInv, Recordings, Range, Names
  <2>2. ~Steady(cap.records[i].new)
    BY DEF IInv, OnceInv
  <2> QED  BY <1>3, <2>1, <2>2
<1> QED  BY <1>2, <1>4, <1>5

\* A finished capture of the workspace shows the checkout as it was while the
\* capture ran, whatever the editor and the index did meanwhile.
THEOREM CheckoutIsShown ==
  ASSUME ConstantsTyped
  PROVE  Spec => []CheckoutShown
<1>1. Init => IInv
  BY InitHolds
<1>2. IInv /\ [Next]_vars => IInv'
  BY NextKeeps
<1>3. IInv => CheckoutShown
  BY DoneIsShown
<1> QED  BY <1>1, <1>2, <1>3, PTL DEF Spec
=============================================================================
