------------------------ MODULE ReviewPlanningProofs ------------------------
(***************************************************************************)
(* Theorems about ReviewPlanning, for any files, texts, commits and bounds: *)
(* the plan that planWorkspace accepts is the plan of one instant, and a    *)
(* use that is accepted found the planned workspace.                        *)
(***************************************************************************)
EXTENDS ReviewPlanning, TLAPS

-----------------------------------------------------------------------------
(* Types                                                                   *)

Labels == {"idle", "resolve", "head", "list", "others", "read", "refresh", "signature", "state",
           "walk", "stored", "rows", "validate", "pinned", "clean", "graph", "sources",
           "decide", "save", "compare", "report"} \cup Outcomes
Uses   == {"packet", "check"}
Worlds == [tree : [Files -> Content], head : Commits]
Stamps == [Walked -> Nat \cup {Null}]

Queues == SUBSET ({1, 2} \X Files)
Rows   == [Walked -> Content \cup {Null}]
Found == [Files -> SUBSET Content]
Pasts  == SUBSET Worlds

PlannerType ==
  [pc : Labels, call : PlanCalls \cup Uses \cup {Null}, attempt : {0, 1, 2},
   base : Commits \cup {Null}, target : Commits \cup {Null}, shot : {1, 2},
   first : Captures, second : Captures, torn : BOOLEAN, queue : Queues,
   sig1 : Stamps \cup {Null}, sig2 : Stamps \cup {Null}, expected : Stamps \cup {Null},
   view : {"live", "private", Null}, rows : Rows, sources : Found, past : Pasts]

TypeInv ==
  /\ disk \in [Files -> [text : Content, stamp : Nat]]
  /\ head \in Commits /\ edits \in Nat
  /\ index \in [text : [Walked -> Content], signature : Stamps]
  /\ planner \in PlannerType
  /\ plans \in Nat /\ uses \in Nat
  /\ saved \in [call : PlanCalls, base : Commits, capture : Captures] \cup {Null}

-----------------------------------------------------------------------------
(* Stamps                                                                  *)

(* A stamp names what its file held: none is given twice, and a row of the  *)
(* index with the present stamp has the present text.                      *)
StampInv ==
  /\ \A f \in Files : disk[f].stamp <= edits
  /\ \A f \in Walked :
        /\ index.signature[f] = Null <=> index.text[f] = Gone
        /\ index.signature[f] # Null => index.signature[f] <= edits
        /\ index.signature[f] = disk[f].stamp => index.text[f] = Text(f)

-----------------------------------------------------------------------------
(* Where a call is                                                         *)

Capturing == {"head", "list", "others", "read"}
Viewing   == {"state", "walk", "stored", "rows", "validate", "graph", "sources"}
Workspace == planner.call = "workspace"

ControlInv ==
  /\ Busy => planner.call \in PlanCalls \cup Uses
  /\ planner.pc \in Viewing \cup {"resolve", "pinned", "clean", "save"} => planner.call \in PlanCalls
  /\ planner.pc \in {"refresh", "signature", "decide"} => Workspace
  /\ planner.pc \in Capturing => planner.call # "committed"
  /\ planner.pc \in {"pinned", "clean"} => planner.call = "committed"
  /\ planner.pc \in {"compare", "report"} => planner.call \in Uses
  /\ Busy /\ planner.call = "committed" => planner.base \in Commits /\ planner.target \in Commits
  /\ Busy /\ Workspace /\ ~PlannerAt("resolve") => planner.base \in Commits
  /\ Busy /\ planner.call \in Uses =>
        /\ saved # Null /\ planner.base = saved.base /\ planner.first = saved.capture
        /\ planner.shot = 2 /\ ~planner.torn
        /\ planner.pc \in Capturing => saved.call = "workspace"
  /\ planner.pc \in Viewing /\ Workspace => planner.shot = 1
  /\ planner.pc \in {"decide", "save"} /\ Workspace => planner.shot = 2
  /\ planner.shot = 1 => ~planner.torn
  /\ PlannerAt("graph") /\ Workspace => planner.view = "live"

-----------------------------------------------------------------------------
(* What was read was there                                                 *)

Since(f, t) == \E w \in planner.past : w.tree[f] = t

(* The first refresh is over; the first signature is read.                 *)
Refreshed ==
  /\ Workspace
  /\ \/ planner.pc \in Viewing \cup {"signature", "decide", "save"}
     \/ planner.pc \in Capturing \cup {"refresh"} /\ planner.shot = 2
Signed == Refreshed /\ ~(PlannerAt("signature") /\ planner.shot = 1)

(* The second capture, or the one of a use, has found HEAD at its base.     *)
Recapturing ==
  /\ planner.shot = 2 /\ ~planner.torn
  /\ Workspace \/ (planner.call \in Uses /\ saved.call = "workspace")
  /\ planner.pc \in {"list", "others", "read", "refresh", "signature", "decide", "save", "compare"}

(* It has the last word on this file.                                      *)
Settled(f) ==
  /\ ~PlannerAt("list")
  /\ planner.pc \in {"others", "read"} => \A n \in {1, 2} : <<n, f>> \notin planner.queue
  /\ PlannerAt("others") => Tree[planner.base][f] # Gone

Last(f) == After(planner.second, planner.base, f)

SinceInv ==
  /\ Busy /\ ~PlannerAt("resolve") => World \in planner.past
  /\ Workspace /\ planner.pc \in {"head", "list", "others", "read", "refresh", "signature"} /\ planner.shot = 1 =>
        planner.rows = IdlePlanner.rows /\ planner.sources = IdlePlanner.sources
  /\ Refreshed =>
        /\ \A f \in Walked : Since(f, index.text[f])
        /\ \A f \in Walked : planner.rows[f] # Null => Since(f, planner.rows[f])
        /\ \A f \in Files : \A t \in planner.sources[f] : Since(f, t)
  /\ Recapturing /\ PlannerAt("others") =>
        \A f \in Files : Tree[planner.base][f] = Gone => planner.second[f] = Null
  /\ Recapturing =>
        /\ \E w \in planner.past : w.head = planner.base
        /\ \A f \in Files : Settled(f) => Since(f, Last(f))

-----------------------------------------------------------------------------
(* What has kept the stamp of the first signature is what was read          *)

ReadAs(f, t) == planner.rows[f] \in {Null, t} /\ planner.sources[f] \subseteq {t}

(* A file that still has the stamp of the first signature.                 *)
Stamped(f) ==
  /\ planner.sig1[f] <= edits
  /\ disk[f].stamp = planner.sig1[f] =>
        index.signature[f] = planner.sig1[f] /\ ReadAs(f, Text(f))

SignedInv ==
  /\ Signed => planner.sig1 \in Stamps
  /\ Signed => \A f \in Walked :
        /\ planner.sig1[f] = Null => Since(f, Gone)
        /\ planner.sig1[f] # Null => Stamped(f)
  /\ Workspace /\ PlannerAt("graph") =>
        \A f \in Walked : planner.rows[f] # Null \/ <<1, f>> \in planner.queue
  /\ Signed /\ (PlannerAt("sources") \/ planner.shot = 2) => \A f \in Walked : planner.rows[f] # Null

(* All that was read of f is t, and so it is in world w.                    *)
Instant(w, f, t) == w.tree[f] = t /\ ReadAs(f, t) /\ Last(f) = t

Witness(w) ==
  /\ w.head = planner.base
  /\ \A f \in Walked : planner.sig1[f] # Null =>
        /\ disk[f].stamp = planner.sig1[f] =>
              w.tree[f] = Text(f) /\ (Settled(f) => Last(f) = Text(f))
        /\ PlannerAt("signature") /\ index.signature[f] = planner.sig1[f] =>
              Instant(w, f, index.text[f])
        /\ planner.pc \in {"decide", "save"} /\ planner.sig2[f] = planner.sig1[f] =>
              Instant(w, f, w.tree[f])

WitnessInv ==
  /\ Recapturing /\ Workspace => \E w \in planner.past : Witness(w)
  /\ PlannerAt("save") /\ Workspace =>
        ~planner.torn /\ planner.first = planner.second /\ planner.sig1 = planner.sig2

IInv == TypeInv /\ StampInv /\ ControlInv /\ SinceInv /\ SignedInv /\ WitnessInv

-----------------------------------------------------------------------------
(* The initial states                                                      *)

LEMMA IdleTyped == IdlePlanner \in PlannerType
<1>1. Nothing \in Captures /\ IdlePlanner.rows \in Rows /\ IdlePlanner.sources \in Found
      /\ {} \in Queues /\ {} \in Pasts
  BY DEF IdlePlanner, Nothing, Captures, Rows, Found, Queues, Pasts
<1> QED
  BY <1>1 DEF IdlePlanner, PlannerType, Labels

LEMMA InitInv == PlanningInit => IInv
<1> SUFFICES ASSUME PlanningInit PROVE IInv
  OBVIOUS
<1>1. PICK tree \in Beginnings : disk = [f \in Files |-> [text |-> tree[f], stamp |-> 0]]
  BY DEF PlanningInit
<1>2. tree \in [Files -> Content]
  BY ConstantsTyped
<1>3. \A f \in Files : disk[f].text = tree[f] /\ disk[f].stamp = 0
  BY <1>1
<1>4. \A f \in Walked : /\ Text(f) \in Content
                        /\ index.text[f] = Text(f)
                        /\ index.signature[f] = IF Text(f) = Gone THEN Null ELSE 0
  BY <1>2, <1>3, ConstantsTyped DEF PlanningInit, Built, Signature, Text
<1>5. TypeInv
  <2>1. disk \in [Files -> [text : Content, stamp : Nat]]
    BY <1>1, <1>2
  <2>2. Built.text \in [Walked -> Content] /\ Signature \in Stamps
    BY <1>2, <1>3, ConstantsTyped DEF Built, Signature, Text, Stamps
  <2>3. index \in [text : [Walked -> Content], signature : Stamps]
    <3> HIDE DEF Signature
    <3> QED
      BY <2>2 DEF Built, PlanningInit
  <2> QED
    BY <2>1, <2>3, IdleTyped DEF TypeInv, PlanningInit
<1>6. StampInv
  <2>1. edits = 0
    BY DEF PlanningInit
  <2> QED
    BY <2>1, <1>3, <1>4, ConstantsTyped DEF StampInv
<1>7. planner.pc = "idle" /\ planner.call = Null /\ planner.shot = 1 /\ ~planner.torn
  BY DEF PlanningInit, IdlePlanner
<1>8. ControlInv /\ SinceInv /\ SignedInv /\ WitnessInv
  BY <1>7, ConstantsTyped DEF ControlInv, SinceInv, SignedInv, WitnessInv, Busy, PlannerAt, Workspace,
       Viewing, Capturing, Refreshed, Signed, Recapturing, Outcomes
<1> QED
  BY <1>5, <1>6, <1>8 DEF IInv

-----------------------------------------------------------------------------
(* A call that ends, and one that tries again, leave nothing to show        *)

LEMMA EndedInv ==
  ASSUME IInv, NEW outcome \in Outcomes, planner' = Ended(outcome),
         UNCHANGED <<disk, head, edits, index>>, TypeInv'
  PROVE  IInv'
<1>1. planner'.pc = outcome /\ planner'.call = Null /\ planner'.shot = 1 /\ ~planner'.torn
  BY DEF Ended, IdlePlanner
<1>2. StampInv'
  BY DEF IInv, StampInv, Text
<1>3. outcome \notin Viewing \cup Capturing \cup {"resolve", "pinned", "clean", "save", "refresh", "signature", "decide", "compare", "report", "graph"}
  BY DEF Outcomes, Viewing, Capturing
<1>4. ControlInv' /\ SinceInv' /\ SignedInv' /\ WitnessInv'
  BY <1>1, <1>3, ConstantsTyped DEF ControlInv, SinceInv, SignedInv, WitnessInv, Busy, PlannerAt, Workspace,
       Refreshed, Signed, Recapturing
<1> QED
  BY <1>2, <1>4 DEF IInv

LEMMA EndedTyped ==
  ASSUME TypeInv, NEW outcome \in Outcomes, planner' = Ended(outcome), Quiet, index' = index
  PROVE  TypeInv'
<1>1. planner' \in PlannerType
  BY IdleTyped DEF Ended, PlannerType, Labels
<1> QED
  BY <1>1 DEF TypeInv, Quiet

LEMMA Ends ==
  ASSUME IInv, NEW outcome \in Outcomes, planner' = Ended(outcome), Quiet, index' = index
  PROVE  IInv'
<1>1. TypeInv'
  BY EndedTyped DEF IInv
<1> QED
  BY <1>1, EndedInv DEF Quiet

LEMMA RetryInv ==
  ASSUME IInv, Busy, Workspace, planner' = Again, Quiet, index' = index
  PROVE  IInv'
<1>1. CASE planner.attempt # 1
  BY <1>1, Ends DEF Again, Outcomes
<1>2. CASE planner.attempt = 1
  <2> DEFINE p == [planner EXCEPT !.pc = "resolve", !.attempt = 2]
  <2>1. planner' = p
    BY <1>2 DEF Again
  <2>2. planner \in PlannerType
    BY DEF IInv, TypeInv
  <2>3. p \in PlannerType
    BY <2>2 DEF PlannerType, Labels
  <2>4. p.pc = "resolve" /\ p.call = planner.call /\ p.shot = planner.shot /\ p.torn = planner.torn
    BY <2>2 DEF PlannerType
  <2> HIDE DEF p
  <2>5. TypeInv' /\ StampInv'
    BY <2>1, <2>3 DEF IInv, TypeInv, StampInv, Text, Quiet
  <2>6. ControlInv'
    BY <2>1, <2>4 DEF IInv, ControlInv, Busy, PlannerAt, Workspace, Viewing, Capturing, PlanCalls, Uses, Outcomes
  <2>7. SinceInv' /\ SignedInv' /\ WitnessInv'
    BY <2>1, <2>4 DEF SinceInv, SignedInv, WitnessInv, Busy, PlannerAt, Workspace, Viewing, Capturing,
         Refreshed, Signed, Recapturing
  <2> QED
    BY <2>5, <2>6, <2>7 DEF IInv
<1> QED
  BY <1>1, <1>2

-----------------------------------------------------------------------------
(* The editor: stamps grow, and the plan takes note of every world          *)

Steady ==
  /\ planner'.pc = planner.pc /\ planner'.call = planner.call /\ planner'.base = planner.base
  /\ planner'.target = planner.target /\ planner'.shot = planner.shot
  /\ planner'.first = planner.first /\ planner'.second = planner.second
  /\ planner'.torn = planner.torn /\ planner'.queue = planner.queue
  /\ planner'.sig1 = planner.sig1 /\ planner'.sig2 = planner.sig2 /\ planner'.view = planner.view
  /\ planner'.rows = planner.rows /\ planner'.sources = planner.sources

LEMMA WitnessedFields ==
  ASSUME TypeInv, Witnessed, World' \in Worlds
  PROVE  /\ planner' \in PlannerType /\ Steady
         /\ planner'.past = IF Busy THEN planner.past \cup {World'} ELSE planner.past
<1> DEFINE past == planner.past \cup {World'}
           p == [planner EXCEPT !.past = past]
<1>1. planner \in PlannerType
  BY DEF TypeInv
<1>2. past \in Pasts
  BY <1>1 DEF PlannerType, Pasts
<1>3. planner' = IF Busy THEN p ELSE planner
  BY <1>1 DEF Witnessed, PlannerType
<1> HIDE DEF past
<1>4. p \in PlannerType /\ p.past = past
  BY <1>1, <1>2 DEF PlannerType
<1>5. CASE Busy
  BY <1>1, <1>3, <1>4, <1>5 DEF Steady, PlannerType, past
<1>6. CASE ~Busy
  BY <1>1, <1>3, <1>6 DEF Steady
<1> QED
  BY <1>5, <1>6

LEMMA RecapturingSigned == ControlInv /\ Recapturing /\ Workspace => Signed
<1> SUFFICES ASSUME ControlInv, Recapturing, Workspace PROVE Signed
  OBVIOUS
<1>1. ~PlannerAt("compare")
  BY DEF ControlInv, PlannerAt, Workspace, Uses
<1>2. planner.shot = 2
  BY DEF Recapturing
<1>3. planner.pc \in {"list", "others", "read", "refresh", "signature", "decide", "save"}
  BY <1>1 DEF Recapturing, PlannerAt
<1> QED
  BY <1>2, <1>3 DEF Signed, Refreshed, PlannerAt, Capturing

LEMMA EditorInv ==
  ASSUME IInv, Witnessed, index' = index, saved' = saved, TypeInv', World' \in Worlds,
         edits' = edits + 1,
         \A f \in Files : disk'[f] = disk[f] \/ disk'[f].stamp = edits'
  PROVE  IInv'
<1>1. /\ Steady
      /\ planner'.past = IF Busy THEN planner.past \cup {World'} ELSE planner.past
  BY WitnessedFields DEF IInv
<1>2. TypeInv /\ edits \in Nat /\ index.signature \in Stamps
  BY DEF IInv, TypeInv
<1>3. \A f \in Files : /\ disk'[f].stamp \in Nat
                       /\ disk'[f].stamp = edits + 1 \/ (disk'[f].stamp = disk[f].stamp /\ Text(f)' = Text(f))
  BY <1>2 DEF TypeInv, Text
<1>4. StampInv'
  BY <1>2, <1>3, ConstantsTyped DEF IInv, StampInv, Stamps
<1>5. planner.past \subseteq planner'.past /\ (Busy => World' \in planner'.past)
  BY <1>1
<1>6. \A f, t : Since(f, t) => Since(f, t)'
  BY <1>5 DEF Since
<1>7. /\ Busy' = Busy /\ Workspace' = Workspace /\ Refreshed' = Refreshed /\ Signed' = Signed
      /\ Recapturing' = Recapturing
      /\ \A pc : PlannerAt(pc)' = PlannerAt(pc)
      /\ \A f : Settled(f)' = Settled(f) /\ Last(f)' = Last(f)
  BY <1>1 DEF Steady, Busy, Workspace, Refreshed, Signed, Recapturing, PlannerAt, Settled, Last
<1>8. ControlInv'
  BY <1>1, <1>7 DEF IInv, ControlInv, Steady
<1>9. SinceInv'
  BY <1>1, <1>5, <1>6, <1>7 DEF IInv, SinceInv, Steady
<1>10. \A f \in Walked : Signed /\ planner.sig1[f] # Null =>
          /\ planner.sig1[f] \in Nat /\ planner.sig1[f] <= edits
          /\ disk'[f].stamp = planner.sig1[f] => disk[f].stamp = planner.sig1[f] /\ Text(f)' = Text(f)
  BY <1>2, <1>3, ConstantsTyped DEF IInv, SignedInv, Stamped, Stamps
<1>11. SignedInv'
  <2>1. ASSUME Signed, NEW f \in Walked, planner.sig1[f] # Null
        PROVE  Stamped(f)'
    <3>1. Stamped(f)
      BY <2>1 DEF IInv, SignedInv
    <3> QED
      BY <1>1, <1>2, <1>10, <2>1, <3>1 DEF Stamped, Steady, ReadAs
  <2>3. ASSUME Signed, NEW f \in Walked, planner.sig1[f] = Null PROVE Since(f, Gone)'
    BY <1>6, <2>3 DEF IInv, SignedInv
  <2>4. Signed => planner'.sig1 \in Stamps
    BY <1>1 DEF IInv, SignedInv, Steady
  <2>5. Workspace /\ PlannerAt("graph") =>
          \A f \in Walked : planner'.rows[f] # Null \/ <<1, f>> \in planner'.queue
    BY <1>1 DEF IInv, SignedInv, Steady
  <2>6. Signed /\ (PlannerAt("sources") \/ planner.shot = 2) => \A f \in Walked : planner'.rows[f] # Null
    BY <1>1 DEF IInv, SignedInv, Steady
  <2> QED
    BY <1>1, <1>7, <2>1, <2>3, <2>4, <2>5, <2>6 DEF SignedInv, Steady
<1>12. Recapturing /\ Workspace => Signed
  BY RecapturingSigned DEF IInv
<1>13. WitnessInv'
  <2>1. ASSUME Recapturing, Workspace PROVE \E w \in planner'.past : Witness(w)'
    <3>1. PICK w \in planner.past : Witness(w)
      BY <2>1 DEF IInv, WitnessInv
    <3>2. \A f, t : Instant(w, f, t)' = Instant(w, f, t)
      BY <1>1, <1>7 DEF Instant, Steady, ReadAs
    <3>3. Witness(w)'
      BY <1>1, <1>7, <1>10, <1>12, <2>1, <3>1, <3>2 DEF Witness, Steady
    <3> QED
      BY <1>5, <3>3
  <2> QED
    BY <1>1, <1>7, <2>1 DEF IInv, WitnessInv, Steady
<1> QED
  BY <1>4, <1>8, <1>9, <1>11, <1>13 DEF IInv

LEMMA WorldTyped == TypeInv => World \in Worlds
  BY DEF TypeInv, World, Worlds, Text

LEMMA EditInv ==
  ASSUME IInv, NEW f \in Files, NEW t \in Content, Edit(f, t)
  PROVE  IInv'
<1>1. edits' = edits + 1 /\ disk' = [disk EXCEPT ![f] = [text |-> t, stamp |-> edits + 1]]
  BY DEF Edit
<1>2. disk' \in [Files -> [text : Content, stamp : Nat]] /\ head' \in Commits
  BY <1>1 DEF IInv, TypeInv, Edit
<1>3. World' \in Worlds
  BY <1>2 DEF World, Worlds, Text
<1>4. TypeInv'
  BY <1>1, <1>2, <1>3, WitnessedFields DEF IInv, TypeInv, Edit
<1>5. \A g \in Files : disk'[g] = disk[g] \/ disk'[g].stamp = edits'
  BY <1>1 DEF IInv, TypeInv
<1> QED
  BY <1>1, <1>3, <1>4, <1>5, EditorInv DEF Edit

LEMMA MoveHeadInv ==
  ASSUME IInv, NEW c \in Commits, MoveHead(c)
  PROVE  IInv'
<1>1. head' \in Commits /\ disk' = disk
  BY DEF MoveHead
<1>2. World' \in Worlds
  BY <1>1 DEF IInv, TypeInv, World, Worlds, Text
<1>3. TypeInv'
  BY <1>1, <1>2, WitnessedFields DEF IInv, TypeInv, MoveHead
<1> QED
  BY <1>1, <1>2, <1>3, EditorInv DEF MoveHead, IInv, TypeInv

-----------------------------------------------------------------------------
(* A refresh publishes the rows of the present                              *)

LEMMA BuiltFacts ==
  ASSUME IInv, index' = Built, disk' = disk, edits' = edits
  PROVE  /\ index' \in [text : [Walked -> Content], signature : Stamps]
         /\ \A f \in Walked :
               /\ index'.text[f] = Text(f)
               /\ index'.signature[f] = IF Text(f) = Gone THEN Null ELSE disk[f].stamp
         /\ StampInv'
         /\ Signed => \A f \in Walked :
               planner.sig1[f] # Null /\ disk[f].stamp = planner.sig1[f] =>
                  Text(f) # Gone /\ index'.signature[f] = planner.sig1[f]
<1>1. \A f \in Walked : Text(f) \in Content /\ disk[f].stamp \in Nat
  BY ConstantsTyped DEF IInv, TypeInv, Text
<1>2. \A f \in Walked :
         /\ index'.text[f] = Text(f)
         /\ index'.signature[f] = IF Text(f) = Gone THEN Null ELSE disk[f].stamp
  BY DEF Built, Signature
<1>3. index' \in [text : [Walked -> Content], signature : Stamps]
  <2>1. Signature \in Stamps
    BY <1>1 DEF Signature, Stamps
  <2> HIDE DEF Signature
  <2> QED
    BY <1>1, <2>1 DEF Built
<1>4. StampInv'
  <2>1. \A f \in Walked : Text(f)' = Text(f) /\ disk[f].stamp <= edits /\ Null # disk[f].stamp
    BY <1>1, ConstantsTyped DEF IInv, StampInv, Text
  <2>2. \A f \in Files : disk'[f].stamp <= edits'
    BY DEF IInv, StampInv
  <2> QED
    BY <1>2, <2>1, <2>2 DEF StampInv
<1>5. ASSUME Signed, NEW f \in Walked, planner.sig1[f] # Null, disk[f].stamp = planner.sig1[f]
      PROVE  Text(f) # Gone /\ index'.signature[f] = planner.sig1[f]
  <2>1. index.signature[f] = planner.sig1[f]
    BY <1>5 DEF IInv, SignedInv, Stamped
  <2>2. index.text[f] = Text(f) /\ index.text[f] # Gone
    BY <1>5, <2>1 DEF IInv, StampInv
  <2> QED
    BY <1>2, <1>5, <2>2
<1> QED
  BY <1>2, <1>3, <1>4, <1>5

LEMMA OtherRefreshInv ==
  ASSUME IInv, OtherRefresh
  PROVE  IInv'
<1>1. /\ index' = Built /\ planner' = planner /\ disk' = disk /\ head' = head /\ edits' = edits
      /\ plans' = plans /\ uses' = uses /\ saved' = saved
  BY DEF OtherRefresh, Quiet
<1>2. /\ \A f \in Walked :
            /\ index'.text[f] = Text(f)
            /\ index'.signature[f] = IF Text(f) = Gone THEN Null ELSE disk[f].stamp
      /\ Signed => \A f \in Walked :
            planner.sig1[f] # Null /\ disk[f].stamp = planner.sig1[f] =>
               Text(f) # Gone /\ index'.signature[f] = planner.sig1[f]
  BY <1>1, BuiltFacts
<1>3. TypeInv' /\ StampInv'
  BY <1>1, BuiltFacts DEF IInv, TypeInv
<1>4. ControlInv'
  BY <1>1 DEF IInv, ControlInv, Busy, PlannerAt, Workspace
<1>5. World' = World /\ (\A f : Text(f)' = Text(f))
  BY <1>1 DEF World, Text
<1>6. ASSUME Refreshed, NEW f \in Walked PROVE Since(f, index'.text[f])
  <2>1. World \in planner.past
    BY <1>6 DEF IInv, SinceInv, Refreshed, Viewing, Capturing, Busy, PlannerAt, Outcomes
  <2>2. World.tree[f] = Text(f)
    BY ConstantsTyped DEF World
  <2> QED
    BY <1>2, <2>1, <2>2 DEF Since
<1>7. SinceInv'
  BY <1>1, <1>5, <1>6 DEF IInv, SinceInv, Busy, PlannerAt, Workspace, Refreshed, Since, Recapturing, Settled, Last
<1>8. SignedInv'
  <2>1. ASSUME Signed, NEW f \in Walked, planner.sig1[f] # Null PROVE Stamped(f)'
    <3>1. Stamped(f)
      BY <2>1 DEF IInv, SignedInv
    <3> QED
      BY <1>1, <1>2, <1>5, <2>1, <3>1 DEF Stamped, ReadAs
  <2> QED
    BY <1>1, <2>1 DEF IInv, SignedInv, Signed, Refreshed, Workspace, PlannerAt, Since
<1>9. WitnessInv'
  <2>1. ASSUME Recapturing, Workspace PROVE \E w \in planner'.past : Witness(w)'
    <3>1. PICK w \in planner.past : Witness(w)
      BY <2>1 DEF IInv, WitnessInv
    <3>2. Signed
      BY <2>1, RecapturingSigned DEF IInv
    <3>3. ASSUME NEW f \in Walked, planner.sig1[f] # Null, PlannerAt("signature"),
                 index'.signature[f] = planner.sig1[f]
          PROVE  Instant(w, f, Text(f))
      <4>1. disk[f].stamp = planner.sig1[f]
        BY <1>2, <3>3
      <4>2. Settled(f)
        BY <3>3 DEF Settled, PlannerAt
      <4>3. w.tree[f] = Text(f) /\ Last(f) = Text(f)
        BY <3>1, <3>3, <4>1, <4>2 DEF Witness
      <4>4. ReadAs(f, Text(f))
        BY <3>2, <3>3, <4>1 DEF IInv, SignedInv, Stamped
      <4> QED
        BY <4>3, <4>4 DEF Instant
    <3>4. /\ \A f : Settled(f)' = Settled(f) /\ Last(f)' = Last(f)
          /\ \A f, t : Instant(w, f, t)' = Instant(w, f, t)
          /\ \A pc : PlannerAt(pc)' = PlannerAt(pc)
      BY <1>1 DEF Settled, Last, Instant, ReadAs, PlannerAt
    <3>5. Witness(w)'
      BY <1>1, <1>2, <1>5, <3>1, <3>3, <3>4 DEF Witness
    <3> QED
      BY <1>1, <3>5
  <2> QED
    BY <1>1, <2>1 DEF IInv, WitnessInv, Recapturing, Workspace, PlannerAt
<1> QED
  BY <1>3, <1>4, <1>7, <1>8, <1>9 DEF IInv

-----------------------------------------------------------------------------
(* OpenHeadView and buildArtifacts read the index and the files.  All their *)
(* steps are of one form: a row is that of the present index, and a source  *)
(* the present text.                                                        *)

Reading == Viewing \cup {"pinned", "clean"}

ReadingStep ==
  /\ planner.pc \in Reading /\ planner'.pc \in Reading
  /\ planner'.call = planner.call /\ planner'.base = planner.base
  /\ planner'.target = planner.target /\ planner'.shot = planner.shot
  /\ planner'.torn = planner.torn /\ planner'.sig1 = planner.sig1 /\ planner'.past = planner.past
  /\ planner'.pc \in {"pinned", "clean"} => planner.call = "committed"
  /\ Workspace =>
        /\ \A f \in Walked : planner'.rows[f] \in {planner.rows[f], Null, index.text[f]}
        /\ \A f \in Files : planner'.sources[f] \subseteq planner.sources[f] \cup {Text(f)}
        /\ planner'.pc = "graph" =>
              /\ planner'.view = "live"
              /\ \A f \in Walked : planner'.rows[f] # Null \/ <<1, f>> \in planner'.queue
        /\ planner'.pc = "sources" => \A f \in Walked : planner'.rows[f] # Null

LEMMA ReadingInv ==
  ASSUME IInv, Quiet, index' = index, planner' \in PlannerType, ReadingStep
  PROVE  IInv'
<1>1. /\ disk' = disk /\ head' = head /\ edits' = edits /\ saved' = saved
      /\ World' = World /\ (\A f : Text(f)' = Text(f))
  BY DEF Quiet, World, Text
<1>2. TypeInv' /\ StampInv'
  BY <1>1 DEF IInv, TypeInv, StampInv, Quiet
<1>3. planner.call \in PlanCalls
  BY DEF IInv, ControlInv, ReadingStep, Reading, PlanCalls
<1>4. planner.call = "committed" => planner.base \in Commits /\ planner.target \in Commits
  BY DEF IInv, ControlInv, ReadingStep, Reading, Viewing, Busy, Outcomes
<1>5. Workspace => planner.pc \in Viewing /\ planner'.pc \in Viewing /\ planner.base \in Commits /\ planner.shot = 1
  BY DEF IInv, ControlInv, ReadingStep, Reading, Workspace, Busy, Viewing, Outcomes, PlannerAt
<1>6. ControlInv'
  BY <1>3, <1>4, <1>5 DEF IInv, ControlInv, ReadingStep, Reading, Busy, Workspace, Viewing, Capturing,
       PlannerAt, PlanCalls, Uses
<1>7. World \in planner.past
  BY DEF IInv, SinceInv, ReadingStep, Reading, Viewing, Busy, PlannerAt, Outcomes
<1>8. ~Recapturing'
  BY <1>3, <1>5 DEF Recapturing, ReadingStep, Workspace, Uses, PlanCalls
<1>9. Workspace => Refreshed /\ Signed
  BY <1>5 DEF Refreshed, Signed, Viewing, PlannerAt
<1>10. \A f \in Files : Since(f, Text(f))
  BY <1>7 DEF Since, World
<1>11. SinceInv'
  <2>1. \A f, t : Since(f, t)' = Since(f, t)
    BY DEF Since, ReadingStep
  <2>2. Workspace => \A f \in Walked : planner'.rows[f] # Null => Since(f, planner'.rows[f])
    BY <1>9 DEF IInv, SinceInv, ReadingStep
  <2>3. Workspace => \A f \in Files : \A t \in planner'.sources[f] : Since(f, t)
    BY <1>9, <1>10 DEF IInv, SinceInv, ReadingStep
  <2>4. Workspace => \A f \in Walked : Since(f, index.text[f])
    BY <1>9 DEF IInv, SinceInv
  <2>5. Workspace' = Workspace /\ World' \in planner'.past
    BY <1>1, <1>7 DEF ReadingStep, Workspace
  <2>6. planner'.pc \notin {"head", "list", "others", "read", "refresh", "signature"}
    BY DEF ReadingStep, Reading, Viewing
  <2>7. Refreshed' => Workspace
    BY <2>5 DEF Refreshed
  <2> QED
    BY <1>8, <2>1, <2>2, <2>3, <2>4, <2>5, <2>6, <2>7 DEF SinceInv
<1>12. SignedInv'
  <2>1. ASSUME Workspace, NEW f \in Walked, planner.sig1[f] # Null PROVE Stamped(f)'
    <3>1. Stamped(f)
      BY <1>9, <2>1 DEF IInv, SignedInv
    <3>2. index.signature[f] = disk[f].stamp => index.text[f] = Text(f)
      BY DEF IInv, StampInv
    <3> QED
      BY <1>1, <2>1, <3>1, <3>2, ConstantsTyped DEF Stamped, ReadAs, ReadingStep
  <2>2. Workspace => planner'.sig1 \in Stamps
    BY <1>9 DEF IInv, SignedInv, ReadingStep
  <2>3. ASSUME Workspace, NEW f \in Walked, planner.sig1[f] = Null PROVE Since(f, Gone)'
    BY <1>9, <2>3 DEF IInv, SignedInv, ReadingStep, Since
  <2>4. Workspace' = Workspace /\ planner'.sig1 = planner.sig1 /\ planner'.shot = planner.shot
    BY DEF ReadingStep, Workspace
  <2>5. Signed' => Workspace
    BY <2>4 DEF Signed, Refreshed
  <2>6. Workspace /\ planner'.pc = "graph" => \A f \in Walked : planner'.rows[f] # Null \/ <<1, f>> \in planner'.queue
    BY DEF ReadingStep
  <2>7. Workspace /\ (planner'.pc = "sources" \/ planner'.shot = 2) => \A f \in Walked : planner'.rows[f] # Null
    BY <1>5, <2>4 DEF ReadingStep
  <2> QED
    BY <2>1, <2>2, <2>3, <2>4, <2>5, <2>6, <2>7 DEF SignedInv, PlannerAt
<1>13. WitnessInv'
  BY <1>8 DEF WitnessInv, ReadingStep, Reading, Viewing, PlannerAt
<1> QED
  BY <1>2, <1>6, <1>11, <1>12, <1>13 DEF IInv

LEMMA Typed == IInv => planner \in PlannerType
  BY DEF IInv, TypeInv

(* A step that only goes on.                                                *)
LEMMA MovesInv ==
  ASSUME IInv, Quiet, index' = index, NEW pc \in Reading, planner.pc \in Reading,
         pc \notin {"graph", "sources"}, pc \in {"pinned", "clean"} => planner.call = "committed",
         planner' = [planner EXCEPT !.pc = pc]
  PROVE  IInv'
<1>1. planner' \in PlannerType
  BY Typed DEF PlannerType, Labels, Reading, Viewing
<1>2. ReadingStep
  BY Typed DEF ReadingStep, PlannerType
<1> QED
  BY <1>1, <1>2, ReadingInv

LEMMA ViewInv ==
  ASSUME IInv, Quiet, index' = index, NEW kind \in {"live", "private"}, planner.pc \in Reading,
         Workspace => kind = "live", planner' = View(kind)
  PROVE  IInv'
<1> DEFINE items == {1} \X Walked
           none  == [f \in Walked |-> Null]
<1>1. items \in Queues /\ none \in Rows
  BY ConstantsTyped DEF Queues, Rows
<1>2. planner' = [planner EXCEPT !.pc = "graph", !.view = kind, !.queue = items, !.rows = none]
  BY DEF View, IdlePlanner
<1>3. \A f \in Walked : <<1, f>> \in items /\ none[f] = Null
  OBVIOUS
<1> HIDE DEF items, none
<1>4. planner' \in PlannerType
  BY <1>1, <1>2, Typed DEF PlannerType, Labels
<1>5. /\ planner'.pc = "graph" /\ planner'.view = kind /\ planner'.queue = items
      /\ planner'.rows = none /\ planner'.sources = planner.sources
      /\ planner'.call = planner.call /\ planner'.base = planner.base
      /\ planner'.target = planner.target /\ planner'.shot = planner.shot
      /\ planner'.torn = planner.torn /\ planner'.sig1 = planner.sig1 /\ planner'.past = planner.past
  BY <1>2, Typed DEF PlannerType
<1>6. ReadingStep
  BY <1>3, <1>5 DEF ReadingStep, Reading, Viewing
<1> QED
  BY <1>4, <1>6, ReadingInv

LEMMA RefusedInv ==
  ASSUME IInv, Quiet, index' = index, planner.pc \in Reading, planner' = Refused
  PROVE  IInv'
<1>1. CASE Workspace
  <2>1. Busy
    BY DEF Busy, Reading, Viewing, Outcomes
  <2> QED
    BY <1>1, <2>1, RetryInv DEF Refused, Workspace
<1>2. CASE ~Workspace
  BY <1>2, ViewInv DEF Refused, Workspace
<1> QED
  BY <1>1, <1>2

LEMMA ReadStateInv == IInv /\ ReadState => IInv'
<1> SUFFICES ASSUME IInv, ReadState PROVE IInv'
  OBVIOUS
<1>1. planner' = [planner EXCEPT !.pc = "walk"] \/ planner' = Refused
  BY DEF ReadState, Require, Now
<1> QED
  BY <1>1, MovesInv, RefusedInv DEF ReadState, PlannerAt, Reading, Viewing

LEMMA WalkInv == IInv /\ Walk => IInv'
<1> SUFFICES ASSUME IInv, Walk PROVE IInv'
  OBVIOUS
<1>1. Signature \in Stamps
  <2>1. \A f \in Walked : disk[f].stamp \in Nat
    BY ConstantsTyped DEF IInv, TypeInv
  <2> QED
    BY <2>1 DEF Signature, Stamps
<1>2. planner' = [planner EXCEPT !.expected = Signature, !.pc = "stored"] /\ planner.pc = "walk"
  BY DEF Walk, Now, PlannerAt
<1> HIDE DEF Signature
<1>3. planner' \in PlannerType
  BY <1>1, <1>2, Typed DEF PlannerType, Labels
<1>4. ReadingStep
  BY <1>2, Typed DEF ReadingStep, Reading, Viewing, PlannerType
<1> QED
  BY <1>3, <1>4, ReadingInv DEF Walk

LEMMA CompareStoredInv == IInv /\ CompareStored => IInv'
<1> SUFFICES ASSUME IInv, CompareStored PROVE IInv'
  OBVIOUS
<1>1. planner' = [planner EXCEPT !.pc = "rows"] \/ planner' = Refused
  BY DEF CompareStored, Require, Now
<1> QED
  BY <1>1, MovesInv, RefusedInv DEF CompareStored, PlannerAt, Reading, Viewing

LEMMA ReadRowsInv == IInv /\ ReadRows => IInv'
<1> SUFFICES ASSUME IInv, ReadRows PROVE IInv'
  OBVIOUS
<1> DEFINE items == {1} \X {f \in Walked : index.text[f] # Gone}
           rows  == index.text
<1>1. items \in Queues
  BY ConstantsTyped DEF Queues
<1>2. rows \in Rows
  BY DEF IInv, TypeInv, Rows
<1>3. planner' = [planner EXCEPT !.pc = "validate", !.rows = rows, !.queue = items] /\ planner.pc = "rows"
  BY DEF ReadRows, Now, PlannerAt
<1> HIDE DEF items
<1>4. planner' \in PlannerType
  <2> HIDE DEF rows
  <2> QED
    BY <1>1, <1>2, <1>3, Typed DEF PlannerType, Labels
<1>5. ReadingStep
  BY <1>3, Typed DEF ReadingStep, Reading, Viewing, PlannerType
<1> QED
  BY <1>4, <1>5, ReadingInv DEF ReadRows

(* One file of the queue is done.                                           *)
LEMMA QueueTyped ==
  ASSUME IInv, NEW item \in planner.queue
  PROVE  /\ planner.queue \ {item} \in Queues
         /\ item[1] \in {1, 2} /\ item[2] \in Files /\ item = <<item[1], item[2]>>
<1>1. planner.queue \in Queues
  BY Typed DEF PlannerType
<1> QED
  BY <1>1 DEF Queues

LEMMA ValidateRowInv == IInv /\ ValidateRow => IInv'
<1> SUFFICES ASSUME IInv, ValidateRow PROVE IInv'
  OBVIOUS
<1>1. PICK item \in planner.queue :
         planner' = IF Text(item[2]) = planner.rows[item[2]]
                    THEN [planner EXCEPT !.queue = @ \ {item}] ELSE Refused
  BY DEF ValidateRow, Now
<1> DEFINE rest == planner.queue \ {item}
<1>2. rest \in Queues
  BY QueueTyped
<1>3. CASE planner' = [planner EXCEPT !.queue = rest]
  <2> HIDE DEF rest
  <2>1. planner' \in PlannerType
    BY <1>2, <1>3, Typed DEF PlannerType
  <2>2. ReadingStep
    BY <1>3, Typed DEF ReadingStep, Reading, Viewing, PlannerType, ValidateRow, PlannerAt
  <2> QED
    BY <2>1, <2>2, ReadingInv DEF ValidateRow
<1>4. CASE planner' = Refused
  BY <1>4, RefusedInv DEF ValidateRow, PlannerAt, Reading, Viewing
<1>5. planner' = [planner EXCEPT !.queue = rest] \/ planner' = Refused
  BY <1>1, Typed DEF PlannerType
<1> QED
  BY <1>3, <1>4, <1>5

LEMMA EndValidationInv == IInv /\ EndValidation => IInv'
<1> SUFFICES ASSUME IInv, EndValidation PROVE IInv'
  OBVIOUS
<1>1. planner.pc = "validate" /\ Quiet /\ index' = index
  BY DEF EndValidation, PlannerAt
<1>2. planner.call \in PlanCalls
  BY <1>1 DEF IInv, ControlInv, Viewing
<1>3. CASE Workspace
  BY <1>1, <1>3, ViewInv DEF EndValidation, Now, Workspace, Reading, Viewing
<1>4. CASE ~Workspace
  BY <1>1, <1>2, <1>4, MovesInv DEF EndValidation, Now, Workspace, Reading, Viewing, PlanCalls
<1> QED
  BY <1>3, <1>4

LEMMA CheckPinnedInv == IInv /\ CheckPinned => IInv'
<1> SUFFICES ASSUME IInv, CheckPinned PROVE IInv'
  OBVIOUS
<1>1. planner' = [planner EXCEPT !.pc = "clean"] \/ planner' = Refused
  BY DEF CheckPinned, Require, Now
<1>2. planner.pc = "pinned" /\ planner.call = "committed"
  BY DEF CheckPinned, PlannerAt, IInv, ControlInv
<1> QED
  BY <1>1, <1>2, MovesInv, RefusedInv DEF CheckPinned, Reading, Viewing

LEMMA CheckCleanInv == IInv /\ CheckClean => IInv'
<1> SUFFICES ASSUME IInv, CheckClean PROVE IInv'
  OBVIOUS
<1>1. planner' = View("live") \/ planner' = View("private")
  BY DEF CheckClean, Now
<1>2. planner.pc = "clean" /\ ~Workspace
  BY DEF CheckClean, PlannerAt, IInv, ControlInv, Workspace
<1> QED
  BY <1>1, <1>2, ViewInv DEF CheckClean, Reading

LEMMA ReadRowInv == IInv /\ ReadRow => IInv'
<1> SUFFICES ASSUME IInv, ReadRow PROVE IInv'
  OBVIOUS
<1>1. planner.pc = "graph" /\ Quiet /\ index' = index /\ planner.call \in PlanCalls
  BY DEF ReadRow, PlannerAt, IInv, ControlInv, Viewing
<1>2. PICK item \in planner.queue :
         planner' = [planner EXCEPT !.queue = @ \ {item},
                        !.rows[item[2]] = IF planner.view = "live" THEN index.text[item[2]]
                                          ELSE Tree[planner.target][item[2]]]
  BY DEF ReadRow, Now
<1> DEFINE file == item[2]
           row  == IF planner.view = "live" THEN index.text[file] ELSE Tree[planner.target][file]
           rest == planner.queue \ {item}
           rows == [planner.rows EXCEPT ![file] = row]
<1>3. planner' = [planner EXCEPT !.queue = rest, !.rows = rows]
  BY <1>2, Typed DEF PlannerType
<1>4. rest \in Queues /\ file \in Files /\ (\A f : <<1, f>> = item => f = file)
  BY QueueTyped
<1>5. planner.rows \in Rows
  BY Typed DEF PlannerType
<1>6. Workspace => planner.view = "live"
  BY <1>1 DEF IInv, ControlInv, PlannerAt
<1>7. file \in Walked => row \in Content
  <2>1. CASE planner.view = "live"
    BY <2>1 DEF IInv, TypeInv
  <2>2. CASE planner.view # "live"
    <3>1. planner.target \in Commits
      BY <1>1, <1>6, <2>2 DEF IInv, ControlInv, Busy, PlanCalls, Outcomes, Workspace
    <3> QED
      BY <1>4, <2>2, <3>1, ConstantsTyped
  <2> QED
    BY <2>1, <2>2
<1>8. rows \in Rows /\ \A f \in Walked : rows[f] = IF f = file THEN row ELSE planner.rows[f]
  BY <1>5, <1>7 DEF Rows
<1>9. Workspace => row = index.text[file]
  BY <1>6
<1>10. ASSUME NEW f \in Walked, Workspace PROVE rows[f] # Null \/ <<1, f>> \in rest
  <2>1. planner.rows[f] # Null \/ <<1, f>> \in planner.queue
    BY <1>1, <1>10 DEF IInv, SignedInv, PlannerAt
  <2>2. f = file => rows[f] # Null
    BY <1>7, <1>8, <1>10, ConstantsTyped DEF Content
  <2> QED
    BY <1>4, <1>8, <2>1, <2>2
<1> HIDE DEF rest, rows, row, file
<1>11. planner' \in PlannerType
  BY <1>3, <1>4, <1>8, Typed DEF PlannerType
<1>12. /\ planner'.pc = "graph" /\ planner'.view = planner.view /\ planner'.queue = rest
       /\ planner'.rows = rows /\ planner'.sources = planner.sources
       /\ planner'.call = planner.call /\ planner'.base = planner.base
       /\ planner'.target = planner.target /\ planner'.shot = planner.shot
       /\ planner'.torn = planner.torn /\ planner'.sig1 = planner.sig1 /\ planner'.past = planner.past
  BY <1>1, <1>3, Typed DEF PlannerType
<1>13. ReadingStep
  BY <1>1, <1>6, <1>8, <1>9, <1>10, <1>12 DEF ReadingStep, Reading, Viewing
<1> QED
  BY <1>1, <1>11, <1>13, ReadingInv

LEMMA EndGraphInv == IInv /\ EndGraph => IInv'
<1> SUFFICES ASSUME IInv, EndGraph PROVE IInv'
  OBVIOUS
<1>1. planner.pc = "graph" /\ Quiet /\ index' = index /\ planner.queue = {}
  BY DEF EndGraph, PlannerAt
<1>2. CASE planner' = Ended("failed")
  BY <1>1, <1>2, Ends DEF Outcomes
<1>3. CASE planner' # Ended("failed")
  <2> DEFINE items == {1, 2} \X {f \in Listed(planner.first) : planner.first[f] # Gone}
  <2>1. planner' = [planner EXCEPT !.pc = "sources", !.queue = items]
    BY <1>3 DEF EndGraph, Now
  <2>2. items \in Queues
    BY DEF Queues, Listed
  <2>3. Workspace => \A f \in Walked : planner.rows[f] # Null
    BY <1>1 DEF IInv, SignedInv, PlannerAt
  <2> HIDE DEF items
  <2>4. planner' \in PlannerType
    BY <2>1, <2>2, Typed DEF PlannerType, Labels
  <2>5. ReadingStep
    BY <1>1, <2>1, <2>3, Typed DEF ReadingStep, Reading, Viewing, PlannerType
  <2> QED
    BY <1>1, <2>4, <2>5, ReadingInv
<1> QED
  BY <1>2, <1>3

LEMMA ReadSourceInv == IInv /\ ReadSource => IInv'
<1> SUFFICES ASSUME IInv, ReadSource PROVE IInv'
  OBVIOUS
<1>1. planner.pc = "sources" /\ Quiet /\ index' = index /\ planner.call \in PlanCalls
  BY DEF ReadSource, PlannerAt, IInv, ControlInv, Viewing
<1>2. PICK item \in planner.queue :
         LET f == item[2]
             t == IF planner.call = "workspace" THEN Text(f) ELSE Tree[planner.target][f] IN
         planner' = IF t = Gone THEN Ended("failed")
                    ELSE [planner EXCEPT !.queue = @ \ {item}, !.sources[f] = @ \cup {t}]
  BY DEF ReadSource, Now
<1> DEFINE file == item[2]
           read == IF planner.call = "workspace" THEN Text(file) ELSE Tree[planner.target][file]
           rest == planner.queue \ {item}
           sources == [planner.sources EXCEPT ![file] = @ \cup {read}]
<1>3. CASE read = Gone
  BY <1>1, <1>2, <1>3, Ends DEF Outcomes
<1>4. CASE read # Gone
  <2>1. planner' = [planner EXCEPT !.queue = rest, !.sources = sources]
    BY <1>2, <1>4, Typed DEF PlannerType
  <2>2. rest \in Queues /\ file \in Files
    BY QueueTyped
  <2>3. planner.sources \in Found
    BY Typed DEF PlannerType
  <2>4. read \in Content
    <3>1. CASE Workspace
      BY <2>2, <3>1 DEF IInv, TypeInv, Text, Workspace
    <3>2. CASE ~Workspace
      <4>1. planner.target \in Commits
        BY <1>1, <3>2 DEF IInv, ControlInv, Busy, PlanCalls, Outcomes, Workspace
      <4> QED
        BY <2>2, <3>2, <4>1, ConstantsTyped DEF Workspace
    <3> QED
      BY <3>1, <3>2
  <2>5. sources \in Found /\ \A f \in Files : sources[f] = IF f = file THEN planner.sources[f] \cup {read} ELSE planner.sources[f]
    BY <2>2, <2>3, <2>4 DEF Found
  <2>6. Workspace => read = Text(file) /\ \A f \in Walked : planner.rows[f] # Null
    <3>1. Workspace => Signed
      BY <1>1 DEF Signed, Refreshed, PlannerAt, Viewing
    <3> QED
      BY <1>1, <3>1 DEF Workspace, IInv, SignedInv, PlannerAt
  <2> HIDE DEF rest, sources, read, file
  <2>7. planner' \in PlannerType
    BY <2>1, <2>2, <2>5, Typed DEF PlannerType
  <2>8. /\ planner'.pc = "sources" /\ planner'.view = planner.view /\ planner'.queue = rest
        /\ planner'.rows = planner.rows /\ planner'.sources = sources
        /\ planner'.call = planner.call /\ planner'.base = planner.base
        /\ planner'.target = planner.target /\ planner'.shot = planner.shot
        /\ planner'.torn = planner.torn /\ planner'.sig1 = planner.sig1 /\ planner'.past = planner.past
    BY <1>1, <2>1, Typed DEF PlannerType
  <2>9. ReadingStep
    BY <1>1, <2>5, <2>6, <2>8 DEF ReadingStep, Reading, Viewing
  <2> QED
    BY <1>1, <2>7, <2>9, ReadingInv
<1> QED
  BY <1>3, <1>4

-----------------------------------------------------------------------------
(* A plan between two commits is not about the workspace.                   *)

LEMMA CommittedInv ==
  ASSUME IInv, Quiet, index' = index, planner' \in PlannerType,
         planner'.call = "committed", planner'.base \in Commits, planner'.target \in Commits,
         planner'.pc \in Viewing \cup {"resolve", "save"}, planner'.torn = planner.torn,
         planner'.shot = planner.shot, planner'.pc = "resolve" \/ World \in planner'.past
  PROVE  IInv'
<1>1. TypeInv' /\ StampInv' /\ World' = World
  BY DEF Quiet, IInv, TypeInv, StampInv, Text, World
<1>2. ~Workspace' /\ ~Recapturing' /\ ~Refreshed'
  BY DEF Workspace, Recapturing, Refreshed, Uses
<1>3. ControlInv'
  BY <1>2 DEF IInv, ControlInv, Viewing, Capturing, Uses, PlanCalls, PlannerAt
<1>4. SinceInv' /\ SignedInv' /\ WitnessInv'
  BY <1>1, <1>2 DEF SinceInv, SignedInv, WitnessInv, Signed, PlannerAt
<1> QED
  BY <1>1, <1>3, <1>4 DEF IInv

(* The first capture only has to leave the rows and the sources empty.      *)
FirstStep ==
  /\ planner' \in PlannerType /\ planner'.call = "workspace" /\ planner'.shot = 1 /\ ~planner'.torn
  /\ planner'.pc \in Capturing \cup {"refresh"} /\ planner'.base \in Commits
  /\ planner'.rows = IdlePlanner.rows /\ planner'.sources = IdlePlanner.sources
  /\ World \in planner'.past

LEMMA FirstInv ==
  ASSUME IInv, Quiet, index' = index, FirstStep
  PROVE  IInv'
<1>1. TypeInv' /\ StampInv' /\ World' = World
  BY DEF Quiet, IInv, TypeInv, StampInv, Text, World, FirstStep
<1>2. Workspace' /\ ~Recapturing' /\ ~Refreshed'
  BY DEF Workspace, Recapturing, Refreshed, Uses, FirstStep, Viewing, Capturing
<1>3. ControlInv'
  BY <1>2 DEF IInv, ControlInv, FirstStep, Viewing, Capturing, Uses, PlanCalls, PlannerAt
<1>4. SinceInv' /\ SignedInv' /\ WitnessInv'
  BY <1>1, <1>2 DEF SinceInv, SignedInv, WitnessInv, Signed, PlannerAt, FirstStep, Capturing
<1> QED
  BY <1>1, <1>3, <1>4 DEF IInv

LEMMA ResolveInv == IInv /\ Resolve => IInv'
<1> SUFFICES ASSUME IInv, Resolve PROVE IInv'
  OBVIOUS
<1>1. planner.pc = "resolve" /\ Quiet /\ index' = index /\ planner.call \in PlanCalls
  BY DEF Resolve, PlannerAt, IInv, ControlInv
<1>2. {World} \in Pasts
  BY WorldTyped DEF IInv, Pasts
<1>3. CASE Workspace
  <2> DEFINE past == {World}
  <2>1. planner' = [IdlePlanner EXCEPT !.pc = "head", !.call = "workspace", !.base = head,
                      !.attempt = planner.attempt, !.past = past]
    BY <1>3 DEF Resolve, Now, Workspace
  <2>2. head \in Commits /\ planner.attempt \in {0, 1, 2} /\ World \in past /\ past \in Pasts
    BY <1>2, Typed DEF IInv, TypeInv, PlannerType
  <2> HIDE DEF past
  <2>3. planner' \in PlannerType
    BY <2>1, <2>2, IdleTyped DEF PlannerType, Labels, PlanCalls
  <2>4. planner'.shot = IdlePlanner.shot /\ planner'.torn = IdlePlanner.torn
        /\ planner'.rows = IdlePlanner.rows /\ planner'.sources = IdlePlanner.sources
        /\ planner'.pc = "head" /\ planner'.call = "workspace" /\ planner'.base = head /\ planner'.past = past
    BY <2>1, IdleTyped DEF PlannerType
  <2>5. IdlePlanner.shot = 1 /\ ~IdlePlanner.torn
    BY DEF IdlePlanner
  <2> QED
    BY <1>1, <2>2, <2>3, <2>4, <2>5, FirstInv DEF FirstStep, Capturing
<1>4. CASE ~Workspace
  <2> DEFINE first == [f \in Files |-> IF Tree[planner.base][f] = Tree[planner.target][f] THEN Null
                                       ELSE Tree[planner.target][f]]
             past == {World}
  <2>1. planner' = [planner EXCEPT !.pc = "state", !.past = past, !.first = first]
    BY <1>4 DEF Resolve, Now, Workspace
  <2>2. planner.call = "committed" /\ planner.base \in Commits /\ planner.target \in Commits
    BY <1>1, <1>4 DEF IInv, ControlInv, PlanCalls, Workspace, Busy, Outcomes
  <2>3. first \in Captures /\ World \in past /\ past \in Pasts
    BY <1>2, <2>2, ConstantsTyped DEF Captures
  <2> HIDE DEF first, past
  <2>4. planner' \in PlannerType
    BY <2>1, <2>3, Typed DEF PlannerType, Labels
  <2>5. /\ planner'.call = planner.call /\ planner'.base = planner.base /\ planner'.target = planner.target
        /\ planner'.pc = "state" /\ planner'.torn = planner.torn /\ planner'.shot = planner.shot
        /\ planner'.past = past
    BY <2>1, Typed DEF PlannerType
  <2> QED
    BY <1>1, <2>2, <2>3, <2>4, <2>5, CommittedInv DEF Viewing
<1> QED
  BY <1>3, <1>4

-----------------------------------------------------------------------------
(* The second capture of a plan, and the one of a use: each file it is done *)
(* with has a text that was there, and the present text if the file kept    *)
(* its stamp.                                                               *)

CaptureStep ==
  /\ planner' \in PlannerType
  /\ planner.shot = 2 /\ planner'.shot = 2
  /\ planner.pc \in Capturing /\ planner'.pc \in Capturing \cup {"refresh", "compare"}
  /\ planner'.pc = "refresh" => Workspace
  /\ planner'.pc = "compare" => ~Workspace
  /\ planner'.call = planner.call /\ planner'.base = planner.base /\ planner'.first = planner.first
  /\ planner'.sig1 = planner.sig1 /\ planner'.rows = planner.rows
  /\ planner'.sources = planner.sources /\ planner'.past = planner.past
  /\ planner'.target = planner.target
  /\ planner'.torn => planner.torn \/ Workspace
  /\ ~planner'.torn =>
        /\ ~planner.torn
        /\ planner'.pc # "head" => planner.pc # "head" \/ head = planner.base
        /\ planner'.pc = "others" =>
              \A f \in Files : Tree[planner.base][f] = Gone => planner'.second[f] = Null
        /\ \A f \in Files : planner'.pc # "head" /\ Settled(f)' =>
              \/ planner.pc # "head" /\ Settled(f) /\ Last(f)' = Last(f)
              \/ Last(f)' = Text(f)

LEMMA CaptureInv ==
  ASSUME IInv, Quiet, index' = index, CaptureStep
  PROVE  IInv'
<1>1. /\ disk' = disk /\ head' = head /\ edits' = edits /\ saved' = saved
      /\ World' = World /\ (\A f : Text(f)' = Text(f))
  BY DEF Quiet, World, Text
<1>2. TypeInv' /\ StampInv'
  BY <1>1 DEF IInv, TypeInv, StampInv, Quiet, CaptureStep
<1>3. Busy /\ ~PlannerAt("resolve")
  BY DEF Busy, PlannerAt, CaptureStep, Capturing, Outcomes
<1>4. planner.call # "committed" /\ planner.call \in Uses \cup {"workspace"}
  <2>1. planner.pc \in Capturing
    BY DEF CaptureStep
  <2>2. planner.call # "committed" /\ planner.call \in PlanCalls \cup Uses
    BY <1>3, <2>1 DEF IInv, ControlInv
  <2> QED
    BY <2>2 DEF PlanCalls
<1>5. Workspace => planner.base \in Commits
  BY <1>3 DEF IInv, ControlInv
<1>6. planner.call \in Uses =>
         /\ saved # Null /\ planner.base = saved.base /\ planner.first = saved.capture
         /\ saved.call = "workspace" /\ ~planner.torn
  BY <1>3 DEF IInv, ControlInv, CaptureStep
<1>7. Workspace' = Workspace
  BY DEF Workspace, CaptureStep
<1>8. ControlInv'
  BY <1>1, <1>4, <1>5, <1>6, <1>7 DEF ControlInv, CaptureStep, Capturing, Viewing, PlannerAt, Uses, PlanCalls, Workspace
<1>9. World \in planner.past
  BY <1>3 DEF IInv, SinceInv
<1>10. Recapturing' => ~planner'.torn /\ ~planner.torn /\ planner'.pc # "head"
  BY DEF Recapturing, CaptureStep
<1>11. ~planner.torn /\ planner.pc # "head" => Recapturing
  BY <1>4, <1>6 DEF Recapturing, CaptureStep, Workspace, Capturing
<1>12. Workspace => Signed /\ Refreshed
  BY DEF Signed, Refreshed, CaptureStep, PlannerAt, Capturing
<1>13. \A f \in Files : Since(f, Text(f))
  BY <1>9 DEF Since, World
<1>14. \A f, t : Since(f, t)' = Since(f, t)
  BY DEF Since, CaptureStep
<1>15. SinceInv'
  <2>1. ~(planner'.shot = 1)
    BY DEF CaptureStep
  <2>2. Refreshed' =>
          /\ \A f \in Walked : Since(f, index.text[f])
          /\ \A f \in Walked : planner'.rows[f] # Null => Since(f, planner'.rows[f])
          /\ \A f \in Files : \A t \in planner'.sources[f] : Since(f, t)
    <3>1. Refreshed' => Workspace
      BY <1>7 DEF Refreshed
    <3> QED
      BY <1>12, <3>1 DEF IInv, SinceInv, CaptureStep
  <2>3. ASSUME Recapturing' PROVE \E w \in planner'.past : w.head = planner'.base
    <3>1. CASE planner.pc # "head"
      BY <1>10, <1>11, <2>3, <3>1 DEF IInv, SinceInv, CaptureStep
    <3>2. CASE planner.pc = "head"
      <4>1. World.head = planner.base
        BY <1>10, <2>3, <3>2 DEF CaptureStep, World
      <4> QED
        BY <1>9, <4>1 DEF CaptureStep
    <3> QED
      BY <3>1, <3>2
  <2>4. ASSUME Recapturing', NEW f \in Files, Settled(f)' PROVE Since(f, Last(f)')
    <3>1. CASE Last(f)' = Text(f)
      BY <1>13, <3>1
    <3>2. CASE planner.pc # "head" /\ Settled(f) /\ Last(f)' = Last(f)
      BY <1>10, <1>11, <2>4, <3>2 DEF IInv, SinceInv
    <3> QED
      BY <1>10, <2>4, <3>1, <3>2 DEF CaptureStep
  <2>5. Recapturing' /\ PlannerAt("others")' =>
           \A f \in Files : Tree[planner'.base][f] = Gone => planner'.second[f] = Null
    BY <1>10 DEF CaptureStep, PlannerAt
  <2>6. \A f \in Files : Since(f, Last(f)') => Since(f, Last(f))'
    BY DEF Since, CaptureStep
  <2> QED
    BY <1>1, <1>9, <1>14, <2>1, <2>2, <2>3, <2>4, <2>5, <2>6 DEF SinceInv, CaptureStep
<1>16. SignedInv'
  <2>1. ASSUME Workspace, NEW f \in Walked, planner.sig1[f] # Null PROVE Stamped(f)'
    <3>1. Stamped(f)
      BY <1>12, <2>1 DEF IInv, SignedInv
    <3> QED
      BY <1>1, <3>1 DEF Stamped, ReadAs, CaptureStep
  <2>2. Workspace => planner'.sig1 \in Stamps /\ \A f \in Walked : planner'.rows[f] # Null
    BY <1>12 DEF IInv, SignedInv, CaptureStep
  <2>3. ASSUME Workspace, NEW f \in Walked, planner.sig1[f] = Null PROVE Since(f, Gone)'
    BY <1>12, <1>14, <2>3 DEF IInv, SignedInv
  <2>4. Signed' => Workspace
    BY <1>7 DEF Signed, Refreshed
  <2>5. planner'.pc # "graph" /\ planner'.sig1 = planner.sig1
    BY DEF CaptureStep, Capturing
  <2> QED
    BY <2>1, <2>2, <2>3, <2>4, <2>5 DEF SignedInv, PlannerAt
<1>17. WitnessInv'
  <2>1. ASSUME Recapturing', Workspace, NEW w \in planner.past, w.head = planner.base,
               \A f \in Walked : planner.sig1[f] # Null /\ disk[f].stamp = planner.sig1[f] =>
                  w.tree[f] = Text(f) /\ (planner.pc # "head" /\ Settled(f) => Last(f) = Text(f))
        PROVE  Witness(w)'
    <3>1. \A f \in Walked : Settled(f)' /\ planner.sig1[f] # Null /\ disk[f].stamp = planner.sig1[f] =>
             Last(f)' = Text(f)
      BY <1>10, <2>1, ConstantsTyped DEF CaptureStep
    <3> QED
      BY <1>1, <2>1, <3>1 DEF Witness, CaptureStep, Capturing, PlannerAt
  <2>2. ASSUME Recapturing', Workspace PROVE \E w \in planner'.past : Witness(w)'
    <3>1. CASE planner.pc # "head"
      <4>1. PICK w \in planner.past : Witness(w)
        BY <1>10, <1>11, <2>2, <3>1 DEF IInv, WitnessInv
      <4>2. \A f \in Walked : planner.sig1[f] # Null /\ disk[f].stamp = planner.sig1[f] =>
               w.tree[f] = Text(f) /\ (planner.pc # "head" /\ Settled(f) => Last(f) = Text(f))
        BY <4>1 DEF Witness
      <4>3. w.head = planner.base
        BY <4>1 DEF Witness
      <4>4. Witness(w)'
        BY <2>1, <2>2, <4>2, <4>3
      <4> QED
        BY <4>4 DEF CaptureStep
    <3>2. CASE planner.pc = "head"
      <4>1. PICK w \in planner.past : w = World
        BY <1>9
      <4>2. w.head = planner.base
        BY <1>10, <2>2, <3>2, <4>1 DEF CaptureStep, World
      <4>3. \A f \in Walked : w.tree[f] = Text(f)
        BY <4>1, ConstantsTyped DEF World
      <4>4. Witness(w)'
        BY <2>1, <2>2, <3>2, <4>2, <4>3
      <4> QED
        BY <4>4 DEF CaptureStep
    <3> QED
      BY <3>1, <3>2
  <2>3. planner'.pc # "save"
    BY DEF CaptureStep, Capturing
  <2> QED
    BY <1>7, <2>2, <2>3 DEF WitnessInv, PlannerAt
<1> QED
  BY <1>2, <1>8, <1>15, <1>16, <1>17 DEF IInv

(* The steps of a capture                                                   *)

LEMMA CapturingFacts ==
  ASSUME IInv, planner.pc \in Capturing
  PROVE  /\ Busy /\ World \in planner.past /\ planner.call \in Uses \cup {"workspace"}
         /\ (planner.call \in PlanCalls <=> Workspace) /\ planner.shot \in {1, 2}
         /\ planner.base \in Commits
         /\ planner.shot = 1 =>
               /\ Workspace /\ ~planner.torn
               /\ planner.rows = IdlePlanner.rows /\ planner.sources = IdlePlanner.sources
         /\ planner.shot = 2 /\ ~planner.torn /\ ~PlannerAt("head") => Recapturing
<1>1. Busy /\ ~PlannerAt("resolve") /\ planner.shot \in {1, 2}
  BY Typed DEF Busy, PlannerAt, Capturing, Outcomes, PlannerType
<1>2. planner.call # "committed" /\ planner.call \in PlanCalls \cup Uses
  BY <1>1 DEF IInv, ControlInv
<1>3. planner.call \in Uses \cup {"workspace"} /\ (planner.call \in PlanCalls <=> Workspace)
  BY <1>2 DEF PlanCalls, Uses, Workspace
<1>4. planner.call \in Uses => planner.shot = 2 /\ planner.base = saved.base /\ saved # Null /\ saved.call = "workspace"
  BY <1>1 DEF IInv, ControlInv
<1>5. saved # Null => saved.base \in Commits
  BY DEF IInv, TypeInv
<1>6. Workspace => planner.base \in Commits
  BY <1>1 DEF IInv, ControlInv
<1>7. planner.shot = 1 => ~planner.torn
  BY DEF IInv, ControlInv
<1>8. World \in planner.past
  BY <1>1 DEF IInv, SinceInv
<1>9. planner.shot = 1 => Workspace
  BY <1>3, <1>4 DEF Workspace
<1>10. planner.shot = 1 => planner.rows = IdlePlanner.rows /\ planner.sources = IdlePlanner.sources
  BY <1>9 DEF IInv, SinceInv, Capturing
<1>11. planner.shot = 2 /\ ~planner.torn /\ ~PlannerAt("head") => Recapturing
  BY <1>3, <1>4 DEF Recapturing, Workspace, PlannerAt, Capturing
<1>12. planner.base \in Commits
  BY <1>3, <1>4, <1>5, <1>6 DEF Workspace
<1> QED
  BY <1>1, <1>3, <1>7, <1>8, <1>9, <1>10, <1>11, <1>12

LEMMA MismatchInv ==
  ASSUME IInv, Quiet, index' = index, planner.pc \in Capturing, planner' = Mismatch
  PROVE  IInv'
<1>1. CASE planner.call \notin PlanCalls
  BY <1>1, Ends DEF Mismatch, Outcomes
<1>2. CASE planner.call \in PlanCalls /\ planner.shot = 1
  BY <1>2, CapturingFacts, RetryInv DEF Mismatch
<1>3. CASE planner.call \in PlanCalls /\ planner.shot # 1
  <2>1. planner' = [planner EXCEPT !.torn = TRUE, !.pc = "refresh"]
    BY <1>3 DEF Mismatch
  <2>2. Workspace /\ planner.shot = 2
    BY <1>3, CapturingFacts
  <2>3. planner' \in PlannerType
    BY <2>1, Typed DEF PlannerType, Labels
  <2>4. CaptureStep
    BY <2>1, <2>2, <2>3, Typed DEF CaptureStep, PlannerType
  <2> QED
    BY <2>4, CaptureInv
<1> QED
  BY <1>1, <1>2, <1>3

(* The part of a step that both captures have.                              *)
CaptureGoes ==
  /\ planner' \in PlannerType
  /\ planner.pc \in Capturing /\ planner'.pc \in (Capturing \cup {"refresh", "compare"}) \ {"head"}
  /\ planner'.pc = "refresh" => Workspace
  /\ planner'.pc = "compare" => ~Workspace
  /\ planner'.call = planner.call /\ planner'.base = planner.base /\ planner'.shot = planner.shot
  /\ planner.shot = 2 => planner'.first = planner.first
  /\ planner'.sig1 = planner.sig1 /\ planner'.rows = planner.rows
  /\ planner'.sources = planner.sources /\ planner'.past = planner.past
  /\ planner'.target = planner.target /\ planner'.torn = planner.torn

LEMMA CaptureGoesInv ==
  ASSUME IInv, Quiet, index' = index, CaptureGoes,
         planner.pc = "head" => head = planner.base,
         planner.shot = 2 /\ planner'.pc = "others" =>
            \A f \in Files : Tree[planner.base][f] = Gone => planner'.second[f] = Null,
         planner.shot = 2 /\ ~planner.torn => \A f \in Files : Settled(f)' =>
            \/ planner.pc # "head" /\ Settled(f) /\ Last(f)' = Last(f)
            \/ Last(f)' = Text(f)
  PROVE  IInv'
<1>1. planner.pc \in Capturing
  BY DEF CaptureGoes
<1>2. CASE planner.shot = 1
  <2>1. Workspace /\ planner'.pc \in Capturing \cup {"refresh"}
    BY <1>1, <1>2, CapturingFacts DEF CaptureGoes
  <2>2. FirstStep
    BY <1>1, <1>2, <2>1, CapturingFacts DEF FirstStep, CaptureGoes, Workspace
  <2> QED
    BY <2>2, FirstInv
<1>3. CASE planner.shot = 2
  <2>1. CaptureStep
    BY <1>3 DEF CaptureStep, CaptureGoes
  <2> QED
    BY <2>1, CaptureInv
<1> QED
  BY <1>1, <1>2, <1>3, CapturingFacts

LEMMA CheckHeadInv == IInv /\ CheckHead => IInv'
<1> SUFFICES ASSUME IInv, CheckHead PROVE IInv'
  OBVIOUS
<1>1. planner.pc = "head" /\ planner.pc \in Capturing /\ Quiet /\ index' = index
  BY DEF CheckHead, PlannerAt, Capturing
<1>2. CASE head = planner.base
  <2>1. planner' = [planner EXCEPT !.pc = "list"]
    BY <1>2 DEF CheckHead, Now
  <2>2. planner' \in PlannerType
    BY <2>1, Typed DEF PlannerType, Labels
  <2>3. CaptureGoes /\ planner'.pc = "list"
    BY <1>1, <2>1, <2>2, Typed DEF CaptureGoes, PlannerType, Capturing
  <2>4. \A f : ~Settled(f)'
    BY <2>3 DEF Settled, PlannerAt
  <2> QED
    BY <1>1, <1>2, <2>3, <2>4, CaptureGoesInv
<1>3. CASE head # planner.base
  BY <1>1, <1>3, MismatchInv DEF CheckHead, Now
<1> QED
  BY <1>2, <1>3

LEMMA ListTrackedInv == IInv /\ ListTracked => IInv'
<1> SUFFICES ASSUME IInv, ListTracked PROVE IInv'
  OBVIOUS
<1> DEFINE changed == {f \in Files : Tree[planner.base][f] \notin {Gone, Text(f)}}
           removed == {f \in changed : Text(f) = Gone}
           shot    == [f \in Files |-> IF f \in removed THEN Gone ELSE Null]
           items   == {1} \X (changed \ removed)
           first   == IF planner.shot = 1 THEN shot ELSE planner.first
           second  == IF planner.shot = 2 THEN shot ELSE planner.second
<1>1. planner.pc = "list" /\ planner.pc \in Capturing /\ Quiet /\ index' = index
  BY DEF ListTracked, PlannerAt, Capturing
<1>2. planner' = [planner EXCEPT !.pc = "others", !.queue = items, !.first = first, !.second = second]
  BY Typed DEF ListTracked, Now, PlannerType
<1>3. items \in Queues
  BY DEF Queues
<1>4. shot \in Captures
  BY DEF Captures, Content
<1>5. first \in Captures /\ second \in Captures
  BY <1>4, Typed DEF PlannerType
<1>6. \A f \in Files : <<1, f>> \in items <=> f \in changed \ removed
  OBVIOUS
<1>7. \A f \in Files : f \in changed <=> Tree[planner.base][f] \notin {Gone, Text(f)}
  OBVIOUS
<1>8. \A f \in Files : f \in removed <=> f \in changed /\ Text(f) = Gone
  OBVIOUS
<1>9. \A f \in Files : shot[f] = IF f \in removed THEN Gone ELSE Null
  OBVIOUS
<1>10. (planner.shot = 2 => first = planner.first) /\ (planner.shot = 2 => second = shot)
  OBVIOUS
<1> HIDE DEF changed, removed, shot, items, first, second
<1>11. planner' \in PlannerType
  BY <1>2, <1>3, <1>5, Typed DEF PlannerType, Labels
<1>12. CaptureGoes /\ planner'.pc = "others" /\ planner'.queue = items /\ planner'.second = second
  BY <1>1, <1>2, <1>10, <1>11, Typed DEF CaptureGoes, PlannerType, Capturing
<1>13. Gone # Null
  BY ConstantsTyped
<1>14. ASSUME planner.shot = 2, NEW f \in Files, Settled(f)' PROVE Last(f)' = Text(f)
  <2>1. <<1, f>> \notin items /\ Tree[planner.base][f] # Gone
    BY <1>12, <1>14 DEF Settled, PlannerAt, CaptureGoes
  <2>2. Last(f)' = IF f \in removed THEN Gone ELSE Tree[planner.base][f]
    BY <1>9, <1>10, <1>12, <1>13, <1>14 DEF Last, After, CaptureGoes
  <2> QED
    BY <1>6, <1>7, <1>8, <2>1, <2>2
<1>15. planner.shot = 2 => \A f \in Files : Tree[planner.base][f] = Gone => planner'.second[f] = Null
  BY <1>7, <1>8, <1>9, <1>10, <1>12
<1> QED
  BY <1>1, <1>12, <1>14, <1>15, CaptureGoesInv

LEMMA ListOthersInv == IInv /\ ListOthers => IInv'
<1> SUFFICES ASSUME IInv, ListOthers PROVE IInv'
  OBVIOUS
<1> DEFINE untracked == {f \in Files : Tree[planner.base][f] = Gone /\ Text(f) # Gone}
           items == planner.queue \cup ({2} \X untracked)
<1>1. planner.pc = "others" /\ planner.pc \in Capturing /\ Quiet /\ index' = index
  BY DEF ListOthers, PlannerAt, Capturing
<1>2. planner' = [planner EXCEPT !.pc = "read", !.queue = items]
  BY Typed DEF ListOthers, Now, PlannerType
<1>3. items \in Queues
  <2>1. planner.queue \in Queues
    BY Typed DEF PlannerType
  <2> QED
    BY <2>1 DEF Queues
<1>4. \A f \in Files : \A n \in {1, 2} : <<n, f>> \notin items =>
          <<n, f>> \notin planner.queue /\ (n = 2 => f \notin untracked)
  OBVIOUS
<1>5. \A f \in Files : f \in untracked <=> Tree[planner.base][f] = Gone /\ Text(f) # Gone
  OBVIOUS
<1> HIDE DEF untracked, items
<1>6. planner' \in PlannerType
  BY <1>2, <1>3, Typed DEF PlannerType, Labels
<1>7. CaptureGoes /\ planner'.pc = "read" /\ planner'.queue = items /\ planner'.second = planner.second
  BY <1>1, <1>2, <1>6, Typed DEF CaptureGoes, PlannerType, Capturing
<1>8. ASSUME planner.shot = 2, ~planner.torn, NEW f \in Files, Settled(f)'
      PROVE  (Settled(f) /\ Last(f)' = Last(f)) \/ Last(f)' = Text(f)
  <2>1. \A n \in {1, 2} : <<n, f>> \notin items
    BY <1>7, <1>8 DEF Settled, PlannerAt
  <2>2. Last(f)' = Last(f)
    BY <1>7 DEF Last, After, CaptureGoes
  <2>3. CASE Tree[planner.base][f] # Gone
    BY <1>1, <1>4, <2>1, <2>2, <2>3 DEF Settled, PlannerAt
  <2>4. CASE Tree[planner.base][f] = Gone
    <3>1. Recapturing /\ PlannerAt("others")
      BY <1>1, <1>8, CapturingFacts DEF PlannerAt
    <3>2. planner.second[f] = Null
      BY <2>4, <3>1 DEF IInv, SinceInv
    <3> QED
      BY <1>4, <1>5, <2>1, <2>2, <2>4, <3>2 DEF Last, After
  <2> QED
    BY <2>3, <2>4
<1> QED
  BY <1>1, <1>7, <1>8, CaptureGoesInv

LEMMA ReadFileInv == IInv /\ ReadFile => IInv'
<1> SUFFICES ASSUME IInv, ReadFile PROVE IInv'
  OBVIOUS
<1>1. planner.pc = "read" /\ planner.pc \in Capturing /\ Quiet /\ index' = index
  BY DEF ReadFile, PlannerAt, Capturing
<1>2. PICK item \in planner.queue :
         planner' = IF Text(item[2]) = Gone THEN Mismatch
                    ELSE [Record(item[2], Text(item[2])) EXCEPT !.queue = @ \ {item}]
  BY DEF ReadFile, Now
<1> DEFINE file == item[2]
           text == Text(file)
           rest == planner.queue \ {item}
           first  == IF planner.shot = 1 THEN [planner.first EXCEPT ![file] = text] ELSE planner.first
           second == IF planner.shot = 1 THEN planner.second ELSE [planner.second EXCEPT ![file] = text]
<1>3. CASE text = Gone
  BY <1>1, <1>2, <1>3, MismatchInv
<1>4. CASE text # Gone
  <2>1. planner' = [planner EXCEPT !.queue = rest, !.first = first, !.second = second]
    BY <1>2, <1>4, Typed DEF Record, PlannerType
  <2>2. rest \in Queues /\ file \in Files /\ (\A n, f : <<n, f>> = item => f = file)
    BY QueueTyped
  <2>3. \A n \in {1, 2} : \A f : f # file /\ <<n, f>> \notin rest => <<n, f>> \notin planner.queue
    BY <2>2
  <2>4. text \in Content
    BY <2>2 DEF IInv, TypeInv, Text
  <2>5. planner.first \in Captures /\ planner.second \in Captures
    BY Typed DEF PlannerType
  <2>6. first \in Captures /\ second \in Captures
    BY <2>4, <2>5 DEF Captures
  <2>7. planner.shot = 2 => first = planner.first /\ \A f \in Files :
            second[f] = IF f = file THEN text ELSE planner.second[f]
    BY <2>2, <2>5 DEF Captures
  <2>8. text # Null
    BY <2>4, ConstantsTyped DEF Content
  <2> HIDE DEF rest, first, second, text
  <2>9. planner' \in PlannerType
    BY <2>1, <2>2, <2>6, Typed DEF PlannerType
  <2>10. CaptureGoes /\ planner'.pc = "read" /\ planner'.queue = rest /\ planner'.second = second
    BY <1>1, <2>1, <2>7, <2>9, Typed DEF CaptureGoes, PlannerType, Capturing
  <2>11. ASSUME planner.shot = 2, NEW f \in Files, Settled(f)'
         PROVE  (Settled(f) /\ Last(f)' = Last(f)) \/ Last(f)' = Text(f)
    <3>1. CASE f = file
      BY <2>7, <2>8, <2>10, <2>11, <3>1 DEF Last, After, text
    <3>2. CASE f # file
      <4>1. \A n \in {1, 2} : <<n, f>> \notin rest
        BY <2>10, <2>11 DEF Settled, PlannerAt
      <4>2. Settled(f)
        BY <1>1, <2>3, <3>2, <4>1 DEF Settled, PlannerAt
      <4> QED
        BY <2>7, <2>10, <2>11, <3>2, <4>2 DEF Last, After, CaptureGoes
    <3> QED
      BY <3>1, <3>2
  <2> QED
    BY <1>1, <2>10, <2>11, CaptureGoesInv
<1> QED
  BY <1>3, <1>4

LEMMA EndCaptureInv == IInv /\ EndCapture => IInv'
<1> SUFFICES ASSUME IInv, EndCapture PROVE IInv'
  OBVIOUS
<1>1. planner.pc = "read" /\ planner.pc \in Capturing /\ Quiet /\ index' = index /\ planner.queue = {}
  BY DEF EndCapture, PlannerAt, Capturing
<1>2. planner' = [planner EXCEPT !.pc = IF planner.call \in PlanCalls THEN "refresh" ELSE "compare"]
  BY DEF EndCapture, Now
<1>3. planner' \in PlannerType
  BY <1>2, Typed DEF PlannerType, Labels
<1>4. CaptureGoes /\ planner'.pc \in {"refresh", "compare"} /\ planner'.second = planner.second
  BY <1>1, <1>2, <1>3, Typed, CapturingFacts DEF CaptureGoes, PlannerType, Capturing
<1>5. \A f : Settled(f) /\ Last(f)' = Last(f)
  BY <1>1, <1>4 DEF Settled, Last, After, PlannerAt, CaptureGoes
<1> QED
  BY <1>1, <1>4, <1>5, CaptureGoesInv

-----------------------------------------------------------------------------
(* Between the captures, and after the second one                          *)

LEMMA EndSourcesInv == IInv /\ EndSources => IInv'
<1> SUFFICES ASSUME IInv, EndSources PROVE IInv'
  OBVIOUS
<1>1. planner.pc = "sources" /\ Quiet /\ index' = index /\ planner.call \in PlanCalls
  BY DEF EndSources, PlannerAt, IInv, ControlInv, Viewing
<1>2. Busy /\ World \in planner.past
  BY <1>1 DEF IInv, SinceInv, Busy, PlannerAt, Outcomes
<1>3. CASE ~Workspace
  <2>1. planner' = [planner EXCEPT !.pc = "save"]
    BY <1>3 DEF EndSources, Now, Workspace
  <2>2. planner.call = "committed" /\ planner.base \in Commits /\ planner.target \in Commits
    BY <1>1, <1>2, <1>3 DEF IInv, ControlInv, PlanCalls, Workspace
  <2>3. planner' \in PlannerType
    BY <2>1, Typed DEF PlannerType, Labels
  <2>4. /\ planner'.call = planner.call /\ planner'.base = planner.base /\ planner'.target = planner.target
        /\ planner'.pc = "save" /\ planner'.torn = planner.torn /\ planner'.shot = planner.shot
        /\ planner'.past = planner.past
    BY <2>1, Typed DEF PlannerType
  <2> QED
    BY <1>1, <1>2, <2>2, <2>3, <2>4, CommittedInv
<1>4. CASE Workspace
  <2>1. planner' = [planner EXCEPT !.pc = "head", !.shot = 2]
    BY <1>4 DEF EndSources, Now, Workspace
  <2>2. planner' \in PlannerType
    BY <2>1, Typed DEF PlannerType, Labels
  <2>3. /\ planner'.pc = "head" /\ planner'.shot = 2 /\ planner'.call = "workspace"
        /\ planner'.base = planner.base /\ planner'.torn = planner.torn /\ planner'.sig1 = planner.sig1
        /\ planner'.rows = planner.rows /\ planner'.sources = planner.sources
        /\ planner'.past = planner.past
    BY <1>4, <2>1, Typed DEF PlannerType, Workspace
  <2>4. /\ TypeInv' /\ StampInv' /\ World' = World /\ (\A f : Text(f)' = Text(f))
        /\ disk' = disk /\ edits' = edits
    BY <1>1, <2>2 DEF IInv, TypeInv, StampInv, World, Text, Quiet
  <2>5. planner.base \in Commits /\ planner.shot = 1
    BY <1>1, <1>2, <1>4 DEF IInv, ControlInv, PlannerAt, Viewing
  <2>6. ControlInv'
    BY <2>3, <2>5 DEF ControlInv, Busy, PlannerAt, Workspace, Viewing, Capturing, PlanCalls, Uses
  <2>7. Refreshed /\ Signed /\ ~Recapturing'
    BY <1>1, <1>4, <2>3 DEF Refreshed, Signed, Recapturing, PlannerAt, Viewing
  <2>8. SinceInv'
    BY <1>1, <1>2, <2>3, <2>4, <2>7 DEF IInv, SinceInv, Since, PlannerAt
  <2>9. \A f \in Walked : planner.rows[f] # Null
    BY <1>1, <2>7 DEF IInv, SignedInv, PlannerAt
  <2>10. \A f \in Walked : planner.sig1[f] # Null => Stamped(f) /\ Stamped(f)'
    BY <1>1, <2>3, <2>4, <2>7 DEF IInv, SignedInv, Stamped, ReadAs
  <2>11. SignedInv'
    BY <2>3, <2>7, <2>9, <2>10 DEF IInv, SignedInv, Since, PlannerAt
  <2>12. WitnessInv'
    BY <2>3, <2>7 DEF WitnessInv, PlannerAt
  <2> QED
    BY <2>4, <2>6, <2>8, <2>11, <2>12 DEF IInv
<1> QED
  BY <1>3, <1>4

LEMMA RefreshInv == IInv /\ Refresh => IInv'
<1> SUFFICES ASSUME IInv, Refresh PROVE IInv'
  OBVIOUS
<1>1. /\ planner.pc = "refresh" /\ index' = Built /\ disk' = disk /\ head' = head /\ edits' = edits
      /\ plans' = plans /\ uses' = uses /\ saved' = saved
      /\ planner' = [planner EXCEPT !.pc = "signature"]
  BY DEF Refresh, Quiet, Now, PlannerAt
<1>2. planner' \in PlannerType
  BY <1>1, Typed DEF PlannerType, Labels
<1>3. /\ Workspace /\ Busy /\ World \in planner.past /\ planner.base \in Commits
      /\ planner.shot \in {1, 2}
  BY <1>1, Typed DEF IInv, ControlInv, SinceInv, Busy, PlannerAt, Outcomes, PlannerType
<1>4. planner'.pc = "signature" /\ planner'.call = planner.call /\ planner'.base = planner.base
      /\ planner'.shot = planner.shot /\ planner'.torn = planner.torn /\ planner'.second = planner.second
      /\ planner'.sig1 = planner.sig1 /\ planner'.rows = planner.rows
      /\ planner'.sources = planner.sources /\ planner'.past = planner.past
  BY <1>1, Typed DEF PlannerType
<1>5. /\ \A f \in Walked :
            /\ index'.text[f] = Text(f)
            /\ index'.signature[f] = IF Text(f) = Gone THEN Null ELSE disk[f].stamp
      /\ Signed => \A f \in Walked :
            planner.sig1[f] # Null /\ disk[f].stamp = planner.sig1[f] =>
               Text(f) # Gone /\ index'.signature[f] = planner.sig1[f]
  BY <1>1, BuiltFacts
<1>6. TypeInv' /\ StampInv' /\ World' = World /\ (\A f : Text(f)' = Text(f))
  BY <1>1, <1>2, BuiltFacts DEF IInv, TypeInv, World, Text
<1>7. ControlInv'
  BY <1>1, <1>3, <1>4 DEF IInv, ControlInv, Busy, PlannerAt, Workspace, Viewing, Capturing, PlanCalls, Uses
<1>8. \A f \in Walked : Since(f, index'.text[f])
  <2>1. \A f \in Walked : World.tree[f] = Text(f)
    BY ConstantsTyped DEF World
  <2> QED
    BY <1>3, <1>5, <2>1 DEF Since
<1>9. planner.shot = 2 => Refreshed /\ Signed /\ Signed'
  BY <1>1, <1>3, <1>4 DEF Refreshed, Signed, PlannerAt, Capturing, Workspace
<1>10. planner.shot = 1 => ~Signed' /\ planner.rows = IdlePlanner.rows /\ planner.sources = IdlePlanner.sources
  BY <1>1, <1>3, <1>4 DEF IInv, SinceInv, Signed, PlannerAt
<1>11. Recapturing' = Recapturing /\ (Recapturing => planner.shot = 2)
  BY <1>1, <1>3, <1>4 DEF Recapturing, Workspace, Uses
<1>12. (\A f, t : Since(f, t)' = Since(f, t)) /\ (\A f : Last(f)' = Last(f) /\ Settled(f) /\ Settled(f)')
  BY <1>1, <1>4 DEF Since, Last, Settled, PlannerAt
<1>13. SinceInv'
  <2>1. /\ \A f \in Walked : planner.rows[f] # Null => Since(f, planner.rows[f])
        /\ \A f \in Files : \A t \in planner.sources[f] : Since(f, t)
    <3>1. CASE planner.shot = 2
      BY <1>9, <3>1 DEF IInv, SinceInv
    <3>2. CASE planner.shot = 1
      BY <1>10, <3>2 DEF IdlePlanner
    <3> QED
      BY <1>3, <3>1, <3>2
  <2>2. Recapturing =>
          /\ \E w \in planner.past : w.head = planner.base
          /\ \A f \in Files : Since(f, Last(f))
    BY <1>12 DEF IInv, SinceInv
  <2>3. \A f : Since(f, Last(f))' = Since(f, Last(f))
    BY <1>4, <1>12 DEF Since
  <2> QED
    BY <1>3, <1>4, <1>6, <1>8, <1>10, <1>11, <1>12, <2>1, <2>2, <2>3 DEF SinceInv, PlannerAt
<1>14. \A f \in Walked : planner.shot = 2 /\ planner.sig1[f] # Null => Stamped(f) /\ Stamped(f)'
  <2> TAKE f \in Walked
  <2> HAVE planner.shot = 2 /\ planner.sig1[f] # Null
  <2>1. Stamped(f)
    BY <1>9 DEF IInv, SignedInv
  <2> QED
    BY <1>1, <1>4, <1>5, <1>6, <1>9, <2>1 DEF Stamped, ReadAs
<1>15. SignedInv'
  <2>1. planner.shot = 2 => planner'.sig1 \in Stamps /\ \A f \in Walked : planner'.rows[f] # Null
    BY <1>4, <1>9 DEF IInv, SignedInv
  <2>2. \A f \in Walked : planner.shot = 2 /\ planner.sig1[f] = Null => Since(f, Gone)
    BY <1>9 DEF IInv, SignedInv
  <2> QED
    BY <1>3, <1>4, <1>10, <1>12, <1>14, <2>1, <2>2 DEF SignedInv, PlannerAt
<1>16. WitnessInv'
  <2>1. ASSUME Recapturing PROVE \E w \in planner'.past : Witness(w)'
    <3>1. PICK w \in planner.past : Witness(w)
      BY <1>3, <2>1 DEF IInv, WitnessInv
    <3>2. ASSUME NEW f \in Walked, planner.sig1[f] # Null, index'.signature[f] = planner.sig1[f]
          PROVE  Instant(w, f, index'.text[f])
      <4>1. disk[f].stamp = planner.sig1[f]
        BY <1>5, <3>2
      <4>2. w.tree[f] = Text(f) /\ Last(f) = Text(f)
        BY <1>12, <3>1, <3>2, <4>1 DEF Witness
      <4>3. ReadAs(f, Text(f))
        BY <1>11, <1>14, <2>1, <3>2, <4>1 DEF Stamped
      <4> QED
        BY <1>5, <4>2, <4>3 DEF Instant
    <3>3. \A f, t : Instant(w, f, t)' = Instant(w, f, t)
      BY <1>4, <1>12 DEF Instant, ReadAs
    <3>4. \A f : Instant(w, f, index.text[f])' = Instant(w, f, index'.text[f])
      BY <1>4, <1>12 DEF Instant, ReadAs
    <3>5. Witness(w)'
      BY <1>1, <1>4, <1>6, <1>12, <3>1, <3>2, <3>3, <3>4 DEF Witness, PlannerAt
    <3> QED
      BY <1>4, <3>5
  <2> QED
    BY <1>4, <1>11, <2>1 DEF WitnessInv, PlannerAt
<1> QED
  BY <1>6, <1>7, <1>13, <1>15, <1>16 DEF IInv

LEMMA RefreshFailsInv == IInv /\ RefreshFails => IInv'
  BY Ends DEF RefreshFails, Now, Outcomes

LEMMA FirstSignatureInv ==
  ASSUME IInv, Quiet, index' = index, PlannerAt("signature"), planner.shot = 1,
         planner' = [planner EXCEPT !.sig1 = index.signature, !.pc = "state"]
  PROVE  IInv'
<1> DEFINE stamps == index.signature
<1>1. stamps \in Stamps /\ planner' = [planner EXCEPT !.sig1 = stamps, !.pc = "state"]
  BY DEF IInv, TypeInv
<1> HIDE DEF stamps
<1>2. planner' \in PlannerType
  BY <1>1, Typed DEF PlannerType, Labels
<1>3. /\ planner'.pc = "state" /\ planner'.call = planner.call /\ planner'.base = planner.base
      /\ planner'.shot = 1 /\ planner'.torn = planner.torn /\ planner'.sig1 = stamps
      /\ planner'.rows = planner.rows /\ planner'.sources = planner.sources /\ planner'.past = planner.past
  BY <1>1, Typed DEF PlannerType
<1>4. Workspace /\ Busy /\ World \in planner.past /\ planner.base \in Commits /\ ~planner.torn
  BY DEF IInv, ControlInv, SinceInv, Busy, PlannerAt, Outcomes
<1>5. /\ TypeInv' /\ StampInv' /\ World' = World /\ (\A f : Text(f)' = Text(f))
      /\ disk' = disk /\ edits' = edits
  BY <1>2 DEF IInv, TypeInv, StampInv, World, Text, Quiet
<1>6. ControlInv'
  BY <1>3, <1>4 DEF ControlInv, Busy, PlannerAt, Workspace, Viewing, Capturing, PlanCalls, Uses
<1>7. Refreshed /\ ~Recapturing' /\ planner.rows = IdlePlanner.rows /\ planner.sources = IdlePlanner.sources
  BY <1>3, <1>4 DEF IInv, SinceInv, Refreshed, Recapturing, PlannerAt
<1>8. SinceInv'
  BY <1>3, <1>4, <1>5, <1>7 DEF IInv, SinceInv, Since, PlannerAt
<1>9. ASSUME NEW f \in Walked, stamps[f] = Null PROVE Since(f, Gone)
  <2>1. index.text[f] = Gone
    BY <1>9 DEF IInv, StampInv, stamps
  <2> QED
    BY <1>7, <2>1 DEF IInv, SinceInv
<1>10. ASSUME NEW f \in Walked, stamps[f] # Null PROVE Stamped(f)'
  <2>1. stamps[f] <= edits
    BY <1>10 DEF IInv, StampInv, stamps
  <2>2. planner'.rows[f] = Null /\ planner'.sources[f] = {}
    BY <1>3, <1>7, ConstantsTyped DEF IdlePlanner
  <2> QED
    BY <1>3, <1>5, <2>1, <2>2 DEF Stamped, ReadAs, stamps
<1>11. SignedInv'
  BY <1>1, <1>3, <1>9, <1>10 DEF SignedInv, Since, PlannerAt
<1>12. WitnessInv'
  BY <1>3, <1>7 DEF WitnessInv, PlannerAt
<1> QED
  BY <1>5, <1>6, <1>8, <1>11, <1>12 DEF IInv

(* The second signature and the acceptance change nothing that was read.    *)
JudgingStep ==
  /\ planner' \in PlannerType
  /\ planner.pc \in {"signature", "decide"} /\ planner'.pc \in {"decide", "save"} /\ planner.shot = 2
  /\ planner'.call = planner.call /\ planner'.base = planner.base
  /\ planner'.shot = planner.shot /\ planner'.torn = planner.torn
  /\ planner'.first = planner.first /\ planner'.second = planner.second
  /\ planner'.sig1 = planner.sig1 /\ planner'.rows = planner.rows
  /\ planner'.sources = planner.sources /\ planner'.past = planner.past
  /\ planner'.sig2 = IF PlannerAt("signature") THEN index.signature ELSE planner.sig2
  /\ planner'.pc = "save" =>
        ~planner'.torn /\ planner'.first = planner'.second /\ planner'.sig1 = planner'.sig2

LEMMA JudgingInv ==
  ASSUME IInv, Quiet, index' = index, JudgingStep
  PROVE  IInv'
<1>1. Workspace /\ Busy /\ World \in planner.past /\ planner.base \in Commits
  BY DEF IInv, ControlInv, SinceInv, Busy, PlannerAt, Outcomes, JudgingStep
<1>2. /\ TypeInv' /\ StampInv' /\ World' = World /\ (\A f : Text(f)' = Text(f))
      /\ disk' = disk /\ edits' = edits
  BY DEF IInv, TypeInv, StampInv, World, Text, Quiet, JudgingStep
<1>3. ControlInv'
  BY <1>1 DEF ControlInv, Busy, PlannerAt, Workspace, Viewing, Capturing, PlanCalls, Uses, JudgingStep
<1>4. Refreshed /\ Refreshed' /\ Signed /\ Recapturing' = Recapturing
  BY <1>1 DEF Refreshed, Signed, Recapturing, PlannerAt, Workspace, JudgingStep, Uses
<1>5. (\A f, t : Since(f, t)' = Since(f, t)) /\ (\A f : Last(f)' = Last(f) /\ Settled(f) /\ Settled(f)')
  BY DEF Since, Last, Settled, PlannerAt, JudgingStep
<1>6. SinceInv'
  <2>1. \A f : Since(f, Last(f))' = Since(f, Last(f))
    BY <1>5 DEF Since, JudgingStep
  <2>2. \A f : Since(f, index.text[f])' = Since(f, index.text[f])
    BY DEF Since, JudgingStep
  <2>3. \A f : Since(f, planner.rows[f])' = Since(f, planner.rows[f])
    BY DEF Since, JudgingStep
  <2> QED
    BY <1>1, <1>2, <1>4, <1>5, <2>1, <2>2, <2>3 DEF IInv, SinceInv, PlannerAt, JudgingStep
<1>7. SignedInv'
  <2>1. \A f : Stamped(f)' = Stamped(f)
    BY <1>2 DEF Stamped, ReadAs, JudgingStep
  <2> QED
    BY <1>1, <1>4, <1>5, <2>1 DEF IInv, SignedInv, PlannerAt, JudgingStep
<1>8. WitnessInv'
  <2>1. ASSUME Recapturing PROVE \E w \in planner'.past : Witness(w)'
    <3>1. PICK w \in planner.past : Witness(w)
      BY <1>1, <2>1 DEF IInv, WitnessInv
    <3>2. \A f, t : Instant(w, f, t)' = Instant(w, f, t)
      BY <1>5 DEF Instant, ReadAs, JudgingStep
    <3>3. ASSUME NEW f \in Walked, planner.sig1[f] # Null, planner'.sig2[f] = planner.sig1[f]
          PROVE  Instant(w, f, w.tree[f])
      <4>1. CASE PlannerAt("signature")
        <5>1. index.signature[f] = planner.sig1[f]
          BY <3>3, <4>1 DEF JudgingStep
        <5>2. Instant(w, f, index.text[f])
          BY <3>1, <3>3, <4>1, <5>1 DEF Witness
        <5> QED
          BY <5>2 DEF Instant
      <4>2. CASE ~PlannerAt("signature")
        BY <3>1, <3>3, <4>2 DEF Witness, JudgingStep, PlannerAt
      <4> QED
        BY <4>1, <4>2
    <3>4. Witness(w)'
      BY <1>2, <1>5, <3>1, <3>2, <3>3 DEF Witness, PlannerAt, JudgingStep
    <3> QED
      BY <3>4 DEF JudgingStep
  <2> QED
    BY <1>4, <2>1 DEF WitnessInv, PlannerAt, JudgingStep
<1> QED
  BY <1>2, <1>3, <1>6, <1>7, <1>8 DEF IInv

LEMMA ReadSignatureInv == IInv /\ ReadSignature => IInv'
<1> SUFFICES ASSUME IInv, ReadSignature PROVE IInv'
  OBVIOUS
<1>1. CASE planner.shot = 1
  BY <1>1, FirstSignatureInv DEF ReadSignature, Now
<1>2. CASE planner.shot # 1
  <2> DEFINE stamps == index.signature
  <2>1. stamps \in Stamps /\ planner' = [planner EXCEPT !.sig2 = stamps, !.pc = "decide"]
    BY <1>2 DEF IInv, TypeInv, ReadSignature, Now
  <2> HIDE DEF stamps
  <2>2. planner' \in PlannerType
    BY <2>1, Typed DEF PlannerType, Labels
  <2>3. JudgingStep
    BY <1>2, <2>1, <2>2, Typed DEF JudgingStep, PlannerType, PlannerAt, ReadSignature, stamps
  <2> QED
    BY <2>3, JudgingInv DEF ReadSignature
<1> QED
  BY <1>1, <1>2

LEMMA DecideInv == IInv /\ Decide => IInv'
<1> SUFFICES ASSUME IInv, Decide PROVE IInv'
  OBVIOUS
<1>1. planner.pc = "decide" /\ Busy /\ Workspace /\ planner.shot = 2 /\ Quiet /\ index' = index
  BY DEF Decide, Busy, PlannerAt, Outcomes, IInv, ControlInv
<1>2. CASE planner' = Again
  BY <1>1, <1>2, RetryInv
<1>3. CASE planner' # Again
  <2>1. /\ planner' = [planner EXCEPT !.pc = "save"]
        /\ ~planner.torn /\ planner.first = planner.second /\ planner.sig1 = planner.sig2
    BY <1>3 DEF Decide, Now
  <2>2. planner' \in PlannerType
    BY <2>1, Typed DEF PlannerType, Labels
  <2>3. JudgingStep
    BY <1>1, <2>1, <2>2, Typed DEF JudgingStep, PlannerType, PlannerAt
  <2> QED
    BY <1>1, <2>3, JudgingInv
<1> QED
  BY <1>2, <1>3

LEMMA SaveInv == IInv /\ Save => IInv'
<1> SUFFICES ASSUME IInv, Save PROVE IInv'
  OBVIOUS
<1>1. planner.pc = "save" /\ planner' = Ended("saved")
  BY DEF Save, PlannerAt, Now
<1>2. planner.call \in PlanCalls /\ planner.base \in Commits
  BY <1>1 DEF IInv, ControlInv, PlanCalls, Busy, PlannerAt, Workspace, Outcomes
<1>3. planner' \in PlannerType
  BY <1>1, IdleTyped DEF Ended, PlannerType, Labels, Outcomes
<1>4. saved' \in [call : PlanCalls, base : Commits, capture : Captures]
  BY <1>2, Typed DEF Save, PlannerType
<1>5. TypeInv'
  BY <1>3, <1>4 DEF IInv, TypeInv, Save
<1> QED
  BY <1>1, <1>5, EndedInv DEF Save, Outcomes

-----------------------------------------------------------------------------
(* Calls that begin, and the uses of a plan                                *)

LEMMA StartPlanInv ==
  ASSUME IInv, NEW call \in PlanCalls, NEW base \in Commits \cup {Null}, NEW target \in Commits \cup {Null},
         call = "committed" => base \in Commits /\ target \in Commits,
         StartPlan(call, base, target)
  PROVE  IInv'
<1>1. /\ planner' = [IdlePlanner EXCEPT !.pc = "resolve", !.call = call, !.attempt = 1,
                        !.base = base, !.target = target]
      /\ disk' = disk /\ head' = head /\ edits' = edits /\ index' = index
      /\ plans' = plans + 1 /\ uses' = uses /\ saved' = saved
  BY DEF StartPlan, Now
<1>2. planner' \in PlannerType
  BY <1>1, IdleTyped DEF PlannerType, Labels
<1>3. /\ planner'.pc = "resolve" /\ planner'.call = call /\ planner'.base = base
      /\ planner'.target = target /\ planner'.shot = IdlePlanner.shot /\ planner'.torn = IdlePlanner.torn
  BY <1>1, IdleTyped DEF PlannerType
<1>4. IdlePlanner.shot = 1 /\ ~IdlePlanner.torn
  BY DEF IdlePlanner
<1>5. TypeInv' /\ StampInv'
  BY <1>1, <1>2 DEF IInv, TypeInv, StampInv, Text
<1>6. ControlInv'
  BY <1>3, <1>4 DEF ControlInv, Busy, PlannerAt, Workspace, Viewing, Capturing, PlanCalls, Uses
<1>7. SinceInv' /\ SignedInv' /\ WitnessInv'
  BY <1>3, <1>4 DEF SinceInv, SignedInv, WitnessInv, PlannerAt, Refreshed, Signed, Recapturing, Viewing, Capturing
<1> QED
  BY <1>5, <1>6, <1>7 DEF IInv

(* A use that is about to capture, or that has nothing to capture.          *)
UseStep ==
  /\ planner' \in PlannerType
  /\ planner'.call \in Uses /\ planner'.shot = 2 /\ ~planner'.torn /\ World \in planner'.past
  /\ saved # Null /\ planner'.base = saved.base /\ planner'.first = saved.capture
  /\ planner'.pc \in {"head", "compare", "report"}
  /\ planner'.pc = "head" => saved.call = "workspace"
  /\ planner'.pc = "compare" => saved.call # "workspace"

LEMMA UseInv ==
  ASSUME IInv, UNCHANGED <<disk, head, edits, index, plans, saved>>, uses' \in Nat, UseStep
  PROVE  IInv'
<1>1. TypeInv' /\ StampInv' /\ World' = World
  BY DEF IInv, TypeInv, StampInv, World, Text, UseStep
<1>2. ~Workspace'
  BY DEF Workspace, Uses, UseStep
<1>3. ControlInv'
  BY <1>2 DEF ControlInv, Busy, PlannerAt, Viewing, Capturing, PlanCalls, Uses, UseStep
<1>4. ~Recapturing' /\ ~Refreshed' /\ ~Signed'
  BY <1>2 DEF Recapturing, Refreshed, Signed, UseStep
<1>5. SinceInv' /\ SignedInv' /\ WitnessInv'
  BY <1>1, <1>2, <1>4 DEF SinceInv, SignedInv, WitnessInv, UseStep
<1> QED
  BY <1>1, <1>3, <1>5 DEF IInv

LEMMA RecaptureTyped ==
  ASSUME IInv, NEW p \in PlannerType, p.call \in Uses, p.shot = 2, ~p.torn, saved # Null,
         p.base = saved.base, p.first = saved.capture, planner' = Recapture(p)
  PROVE  UseStep
<1> DEFINE past == {World}
           none == Nothing
<1>1. past \in Pasts /\ World \in past /\ none \in Captures
  BY WorldTyped DEF IInv, Pasts, Captures, Nothing
<1>2. planner' = [p EXCEPT !.pc = IF saved.call = "workspace" THEN "head" ELSE "compare",
                           !.second = none, !.past = past]
  BY DEF Recapture
<1> HIDE DEF past, none
<1>3. planner' \in PlannerType
  BY <1>1, <1>2 DEF PlannerType, Labels
<1>4. /\ planner'.pc = IF saved.call = "workspace" THEN "head" ELSE "compare"
      /\ planner'.call = p.call /\ planner'.shot = p.shot /\ planner'.torn = p.torn
      /\ planner'.past = past /\ planner'.base = p.base /\ planner'.first = p.first
  BY <1>2 DEF PlannerType
<1> QED
  BY <1>1, <1>3, <1>4 DEF UseStep

LEMMA StartUseInv ==
  ASSUME IInv, NEW call \in Uses, StartUse(call)
  PROVE  IInv'
<1> DEFINE first == saved.capture
           p == [IdlePlanner EXCEPT !.call = call, !.attempt = 1, !.shot = 2,
                                    !.base = saved.base, !.first = first]
<1>1. saved.base \in Commits /\ first \in Captures /\ saved # Null /\ uses' = uses + 1
  BY DEF IInv, TypeInv, StartUse
<1>2. planner' = Recapture(p)
  BY DEF StartUse, Now
<1> HIDE DEF first
<1>3. p \in PlannerType
  BY <1>1, IdleTyped DEF PlannerType, Uses
<1>4. p.call = call /\ p.shot = 2 /\ p.base = saved.base /\ p.first = first /\ p.torn = IdlePlanner.torn
  BY IdleTyped DEF PlannerType
<1> HIDE DEF p
<1>5. ~p.torn
  BY <1>4 DEF IdlePlanner
<1>6. UseStep
  BY <1>1, <1>2, <1>3, <1>4, <1>5, RecaptureTyped DEF first
<1> QED
  BY <1>1, <1>6, UseInv DEF StartUse, IInv, TypeInv

(* What the plan in use is compared with.                                  *)
LEMMA UseFacts ==
  ASSUME IInv, planner.pc \in {"compare", "report"}
  PROVE  /\ planner.call \in Uses /\ planner.shot = 2 /\ ~planner.torn /\ Busy /\ World \in planner.past
         /\ saved # Null /\ planner.base = saved.base /\ planner.first = saved.capture
<1>1. Busy /\ ~PlannerAt("resolve")
  BY DEF Busy, PlannerAt, Outcomes
<1> QED
  BY <1>1 DEF IInv, ControlInv, SinceInv

LEMMA CompareInv == IInv /\ Compare => IInv'
<1> SUFFICES ASSUME IInv, Compare PROVE IInv'
  OBVIOUS
<1>1. planner.pc = "compare" /\ Quiet /\ index' = index
  BY DEF Compare, PlannerAt
<1>2. ASSUME NEW outcome \in {"stale", "served", "complete"}, planner' = Ended(outcome) PROVE IInv'
  BY <1>1, <1>2, Ends DEF Outcomes
<1>3. ASSUME planner' = [planner EXCEPT !.pc = "report", !.past = {World}] PROVE IInv'
  <2> DEFINE past == {World}
  <2>1. past \in Pasts /\ World \in past
    BY WorldTyped DEF IInv, Pasts
  <2>2. planner' = [planner EXCEPT !.pc = "report", !.past = past]
    BY <1>3
  <2> HIDE DEF past
  <2>3. planner' \in PlannerType
    BY <2>1, <2>2, Typed DEF PlannerType, Labels
  <2>4. /\ planner'.pc = "report" /\ planner'.call = planner.call /\ planner'.shot = planner.shot
        /\ planner'.torn = planner.torn /\ planner'.past = past /\ planner'.base = planner.base /\ planner'.first = planner.first
    BY <2>2, Typed DEF PlannerType
  <2>5. UseStep
    BY <1>1, <2>1, <2>3, <2>4, UseFacts DEF UseStep
  <2> QED
    BY <1>1, <2>5, UseInv DEF Quiet, IInv, TypeInv
<1> QED
  BY <1>2, <1>3 DEF Compare, Now

LEMMA ValidateReportInv == IInv /\ ValidateReport => IInv'
<1> SUFFICES ASSUME IInv, ValidateReport PROVE IInv'
  OBVIOUS
<1>1. planner.pc = "report" /\ Quiet /\ index' = index
  BY DEF ValidateReport, PlannerAt
<1>2. CASE planner' = Ended("rejected")
  BY <1>1, <1>2, Ends DEF Outcomes
<1>3. CASE planner' # Ended("rejected")
  <2> DEFINE p == [planner EXCEPT !.attempt = 2]
  <2>1. planner' = Recapture(p)
    BY <1>3 DEF ValidateReport, Now
  <2>2. p \in PlannerType
    BY Typed DEF PlannerType
  <2>3. p.call = planner.call /\ p.shot = planner.shot /\ p.torn = planner.torn
        /\ p.base = planner.base /\ p.first = planner.first
    BY Typed DEF PlannerType
  <2> HIDE DEF p
  <2>4. UseStep
    BY <1>1, <2>1, <2>2, <2>3, UseFacts, RecaptureTyped
  <2> QED
    BY <1>1, <2>4, UseInv DEF Quiet, IInv, TypeInv
<1> QED
  BY <1>2, <1>3

LEMMA FailInv == IInv /\ Fail => IInv'
  BY Ends DEF Fail, Now, Outcomes

-----------------------------------------------------------------------------
(* The invariant                                                           *)

LEMMA UnchangedInv == IInv /\ UNCHANGED planningVars => IInv'
<1> SUFFICES ASSUME IInv, UNCHANGED planningVars PROVE IInv'
  OBVIOUS
<1>1. /\ disk' = disk /\ head' = head /\ edits' = edits /\ index' = index /\ planner' = planner
      /\ plans' = plans /\ uses' = uses /\ saved' = saved
  BY DEF planningVars
<1>2. TypeInv' = TypeInv /\ StampInv' = StampInv
  BY <1>1 DEF TypeInv, StampInv, Text
<1>3. ControlInv' = ControlInv
  BY <1>1 DEF ControlInv, Busy, Workspace, PlannerAt
<1>4. /\ Refreshed' = Refreshed /\ Signed' = Signed /\ Recapturing' = Recapturing /\ World' = World
      /\ Workspace' = Workspace /\ Busy' = Busy /\ (\A pc : PlannerAt(pc)' = PlannerAt(pc))
      /\ (\A f : Settled(f)' = Settled(f) /\ Last(f)' = Last(f) /\ Text(f)' = Text(f))
  BY <1>1 DEF Refreshed, Signed, Recapturing, World, Workspace, Busy, PlannerAt, Settled, Last, Text
<1>5. (\A f, t : Since(f, t)' = Since(f, t)) /\ (\A f : Stamped(f)' = Stamped(f))
  BY <1>1, <1>4 DEF Since, Stamped, ReadAs
<1>6. \A w : Witness(w)' = Witness(w)
  BY <1>1, <1>4 DEF Witness, Instant, ReadAs
<1>7. SinceInv' = SinceInv
  BY <1>1, <1>4 DEF SinceInv, Since
<1>8. SignedInv' = SignedInv /\ WitnessInv' = WitnessInv
  BY <1>1, <1>4, <1>5, <1>6 DEF SignedInv, WitnessInv
<1> QED
  BY <1>2, <1>3, <1>7, <1>8 DEF IInv

LEMMA NextInv == IInv /\ [PlanningNext]_planningVars => IInv'
<1> SUFFICES ASSUME IInv, [PlanningNext]_planningVars PROVE IInv'
  OBVIOUS
<1>1. CASE UNCHANGED planningVars
  BY <1>1, UnchangedInv
<1>2. ASSUME NEW f \in Files, NEW t \in Content, Edit(f, t) PROVE IInv'
  BY <1>2, EditInv
<1>3. ASSUME NEW c \in Commits, MoveHead(c) PROVE IInv'
  BY <1>3, MoveHeadInv
<1>4. CASE OtherRefresh
  BY <1>4, OtherRefreshInv
<1>5. CASE StartPlan("workspace", Null, Null)
  BY <1>5, StartPlanInv DEF PlanCalls
<1>6. ASSUME NEW base \in Commits, NEW target \in Commits, StartPlan("committed", base, target) PROVE IInv'
  BY <1>6, StartPlanInv DEF PlanCalls
<1>7. CASE Resolve \/ Refresh \/ RefreshFails \/ ReadSignature
  BY <1>7, ResolveInv, RefreshInv, RefreshFailsInv, ReadSignatureInv
<1>8. CASE Capture
  BY <1>8, CheckHeadInv, ListTrackedInv, ListOthersInv, ReadFileInv, EndCaptureInv DEF Capture
<1>9. CASE OpenView
  BY <1>9, ReadStateInv, WalkInv, CompareStoredInv, ReadRowsInv, ValidateRowInv, EndValidationInv,
     CheckPinnedInv, CheckCleanInv DEF OpenView
<1>10. CASE Assemble
  BY <1>10, ReadRowInv, EndGraphInv, ReadSourceInv, EndSourcesInv DEF Assemble
<1>11. CASE Fail \/ Decide \/ Save
  BY <1>11, FailInv, DecideInv, SaveInv
<1>12. ASSUME NEW call \in {"packet", "check"}, StartUse(call) PROVE IInv'
  BY <1>12, StartUseInv DEF Uses
<1>13. CASE Compare \/ ValidateReport
  BY <1>13, CompareInv, ValidateReportInv
<1> QED
  BY <1>1, <1>2, <1>3, <1>4, <1>5, <1>6, <1>7, <1>8, <1>9, <1>10, <1>11, <1>12, <1>13 DEF PlanningNext

(* Every reachable state, whatever the editor and the other processes do.   *)
THEOREM Reached == PlanningSpec => []IInv
<1>1. PlanningInit => IInv
  BY InitInv
<1>2. IInv /\ [PlanningNext]_planningVars => IInv'
  BY NextInv
<1> QED
  BY <1>1, <1>2, PTL DEF PlanningSpec

-----------------------------------------------------------------------------
(* What is accepted                                                        *)

LEMMA Accepted == IInv => PlanIsOneInstant
<1> SUFFICES ASSUME IInv, PlannerAt("save"), Workspace
             PROVE  \E w \in planner.past :
                      /\ w.head = planner.base
                      /\ \A f \in Walked : Lasting(f) =>
                            /\ After(planner.first, planner.base, f) = w.tree[f]
                            /\ planner.rows[f] = w.tree[f]
                            /\ planner.sources[f] \subseteq {w.tree[f]}
  BY DEF PlanIsOneInstant, Workspace
<1>1. planner.shot = 2 /\ ~planner.torn /\ planner.first = planner.second /\ planner.sig1 = planner.sig2
  BY DEF IInv, ControlInv, WitnessInv, PlannerAt
<1>2. Recapturing /\ Signed /\ Refreshed
  BY <1>1 DEF Recapturing, Signed, Refreshed, PlannerAt
<1>3. PICK w \in planner.past : Witness(w)
  BY <1>2 DEF IInv, WitnessInv
<1>4. w.head = planner.base
  BY <1>3 DEF Witness
<1>5. ASSUME NEW f \in Walked, Lasting(f)
      PROVE  /\ After(planner.first, planner.base, f) = w.tree[f]
             /\ planner.rows[f] = w.tree[f]
             /\ planner.sources[f] \subseteq {w.tree[f]}
  <2>1. planner.rows[f] # Null /\ Last(f) = After(planner.first, planner.base, f) /\ f \in Files
    BY <1>1, <1>2, ConstantsTyped DEF IInv, SignedInv, Last
  <2>2. CASE planner.sig1[f] # Null
    <3>1. Instant(w, f, w.tree[f])
      BY <1>1, <1>3, <2>2 DEF Witness, PlannerAt
    <3> QED
      BY <2>1, <3>1 DEF Instant, ReadAs
  <2>3. CASE planner.sig1[f] = Null
    <3>1. Since(f, Gone)
      BY <1>2, <2>3 DEF IInv, SignedInv
    <3>2. \A t : Since(f, t) => t = Gone
      BY <1>5, <3>1 DEF Since, Lasting
    <3>3. w.tree[f] = Gone
      BY <3>2 DEF Since
    <3>4. Settled(f)
      BY DEF Settled, PlannerAt
    <3>5. Last(f) = Gone
      BY <1>2, <2>1, <3>2, <3>4 DEF IInv, SinceInv
    <3>6. planner.rows[f] = Gone
      BY <1>2, <2>1, <3>2 DEF IInv, SinceInv
    <3>7. \A t \in planner.sources[f] : t = Gone
      BY <1>2, <2>1, <3>2 DEF IInv, SinceInv
    <3> QED
      BY <2>1, <3>3, <3>5, <3>6, <3>7
  <2> QED
    BY <2>2, <2>3
<1> QED
  BY <1>4, <1>5

(* planWorkspace accepts a plan only if the change, the rows of the graph    *)
(* and every text read for it were one instant of the worktree, whatever is *)
(* edited and refreshed between its reads (service.go:211-279).             *)
THEOREM OneInstantPlanned == PlanningSpec => []PlanIsOneInstant
<1>1. IInv => PlanIsOneInstant
  BY Accepted
<1> QED
  BY <1>1, Reached, PTL

(* A call in progress is served, or its report accepted, by Compare alone.  *)
LEMMA ComparedLast ==
  ASSUME TypeInv, [PlanningNext]_planningVars, Busy, planner'.pc \in {"served", "complete"}
  PROVE  Compare
<1> DEFINE Done == {"served", "complete"}
<1>1. planner \in PlannerType /\ planner.pc \notin Done
  BY DEF TypeInv, Busy, Outcomes
<1>2. \A outcome : Ended(outcome).pc = outcome
  BY IdleTyped DEF Ended, PlannerType
<1>3. Ended("failed").pc \notin Done /\ Ended("stale").pc \notin Done /\ Ended("saved").pc \notin Done
      /\ Ended("rejected").pc \notin Done
  BY <1>2
<1>4. Again.pc \notin Done /\ Mismatch.pc \notin Done /\ (\A kind : View(kind).pc \notin Done)
      /\ Refused.pc \notin Done
  BY <1>1, <1>3 DEF Again, Mismatch, View, Refused, PlannerType
<1>5. \A pc : [planner EXCEPT !.pc = pc].pc = pc
  BY <1>1 DEF PlannerType
<1> HIDE DEF Done
<1> SUFFICES ASSUME ~Compare PROVE planner'.pc \notin Done
  BY DEF Done
<1>6. planner' = planner \/ Witnessed => planner'.pc = planner.pc
  BY <1>1 DEF Witnessed, PlannerType
<1>7. CASE UNCHANGED planningVars \/ OtherRefresh
  BY <1>1, <1>7 DEF planningVars, OtherRefresh
<1>8. ASSUME NEW f \in Files, NEW t \in Content, Edit(f, t) PROVE planner'.pc \notin Done
  BY <1>1, <1>6, <1>8 DEF Edit
<1>9. ASSUME NEW c \in Commits, MoveHead(c) PROVE planner'.pc \notin Done
  BY <1>1, <1>6, <1>9 DEF MoveHead
<1>10. ASSUME NEW call, NEW base, NEW target, StartPlan(call, base, target) PROVE FALSE
  BY <1>10 DEF StartPlan
<1>11. ASSUME NEW call, StartUse(call) PROVE FALSE
  BY <1>11 DEF StartUse
<1>12. CASE Resolve
  <2> DEFINE past == {World}
             p == [IdlePlanner EXCEPT !.pc = "head", !.call = "workspace", !.base = head,
                     !.attempt = planner.attempt, !.past = past]
             first == [f \in Files |-> IF Tree[planner.base][f] = Tree[planner.target][f] THEN Null
                                       ELSE Tree[planner.target][f]]
             q == [planner EXCEPT !.pc = "state", !.past = past, !.first = first]
  <2>1. planner' = p \/ planner' = q
    BY <1>12 DEF Resolve, Now
  <2> HIDE DEF past, first
  <2>2. p.pc = "head" /\ q.pc = "state"
    BY <1>1, IdleTyped DEF PlannerType
  <2> QED
    BY <2>1, <2>2 DEF Done
<1>13. CASE Refresh \/ RefreshFails \/ Fail
  BY <1>3, <1>5, <1>13 DEF Refresh, RefreshFails, Fail, Now, Done
<1>14. CASE ReadSignature
  BY <1>1, <1>14 DEF ReadSignature, Now, Done, PlannerType
<1>15. CASE CheckHead \/ ListTracked \/ ListOthers \/ EndCapture
  <2>1. CASE CheckHead
    BY <1>4, <1>5, <2>1 DEF CheckHead, Now, Done
  <2>2. CASE ListTracked
    BY <1>1, <2>2 DEF ListTracked, Now, Done, PlannerType
  <2>3. CASE ListOthers
    BY <1>1, <2>3 DEF ListOthers, Now, Done, PlannerType
  <2>4. CASE EndCapture
    BY <1>1, <2>4 DEF EndCapture, Now, Done, PlannerType
  <2> QED
    BY <1>15, <2>1, <2>2, <2>3, <2>4
<1>16. CASE ReadFile
  BY <1>1, <1>4, <1>16 DEF ReadFile, Now, Record, PlannerType
<1>17. CASE ReadState \/ CompareStored \/ CheckPinned
  BY <1>4, <1>5, <1>17 DEF ReadState, CompareStored, CheckPinned, Require, Now, Done
<1>18. CASE Walk \/ ReadRows \/ ValidateRow
  BY <1>1, <1>4, <1>18 DEF Walk, ReadRows, ValidateRow, Now, Done, PlannerType
<1>19. CASE EndValidation \/ CheckClean
  BY <1>4, <1>5, <1>19 DEF EndValidation, CheckClean, Now, Done
<1>20. CASE Assemble
  BY <1>1, <1>3, <1>20 DEF Assemble, ReadRow, EndGraph, ReadSource, EndSources, Now, Done, PlannerType
<1>21. CASE Decide
  BY <1>4, <1>5, <1>21 DEF Decide, Now, Done
<1>22. CASE Save
  BY <1>3, <1>22 DEF Save, Now
<1>23. CASE ValidateReport
  BY <1>1, <1>3, <1>23 DEF ValidateReport, Recapture, Now, Done, PlannerType
<1> QED
  BY <1>7, <1>8, <1>9, <1>10, <1>11, <1>12, <1>13, <1>14, <1>15, <1>16, <1>17, <1>18, <1>19, <1>20,
     <1>21, <1>22, <1>23 DEF PlanningNext, Capture, OpenView

(* A unit packet is served, and a report accepted, only if HEAD was the base *)
(* of the plan and every file had its planned text while the workspace was  *)
(* captured for it, however often it is edited meanwhile (check.go:129-166, *)
(* unit.go:86-101).                                                         *)
THEOREM CurrentWorkspaceUsed == PlanningSpec => UseIsCurrent
<1> DEFINE Uncommitted == planner'.pc \in {"served", "complete"} /\ Busy /\ saved.call = "workspace"
           Current ==
             /\ \E w \in planner.past : w.head = saved.base
             /\ \A f \in Files : \E w \in planner.past : w.tree[f] = After(saved.capture, saved.base, f)
<1>1. ASSUME IInv, [PlanningNext]_planningVars, Uncommitted PROVE Current
  <2>1. Compare /\ planner.pc = "compare"
    BY <1>1, ComparedLast DEF IInv, Compare, PlannerAt
  <2>2. Ended("stale").pc = "stale"
    BY IdleTyped DEF Ended, PlannerType
  <2>3. planner.second = planner.first
    BY <1>1, <2>1, <2>2 DEF Compare, Now
  <2>4. planner.base = saved.base /\ planner.first = saved.capture
    BY <1>1, <2>1, UseFacts
  <2>5. Recapturing
    BY <1>1, <2>1, UseFacts DEF Recapturing
  <2>6. \A f : Settled(f)
    BY <2>1 DEF Settled, PlannerAt
  <2>7. \A f : Last(f) = After(saved.capture, saved.base, f)
    BY <2>3, <2>4 DEF Last
  <2> QED
    BY <1>1, <2>4, <2>5, <2>6, <2>7 DEF IInv, SinceInv, Since
<1>2. IInv /\ [PlanningNext]_planningVars => [Uncommitted => Current]_planningVars
  BY <1>1
<1> QED
  BY <1>2, Reached, PTL DEF PlanningSpec, UseIsCurrent

(* Every step but the editor's leaves the worktree and HEAD alone.          *)
LEMMA EditsBounded ==
  ASSUME TypeInv, edits <= MaxEdits, [PlanningNext]_planningVars
  PROVE  edits' <= MaxEdits
<1>1. edits \in Nat /\ MaxEdits \in Nat
  BY ConstantsTyped DEF TypeInv
<1>2. ASSUME NEW f \in Files, NEW t \in Content, Edit(f, t) PROVE edits' <= MaxEdits
  BY <1>1, <1>2 DEF Edit
<1>3. ASSUME NEW c \in Commits, MoveHead(c) PROVE edits' <= MaxEdits
  BY <1>1, <1>3 DEF MoveHead
<1>4. ASSUME NEW call, NEW base, NEW target, StartPlan(call, base, target) PROVE edits' = edits
  BY <1>4 DEF StartPlan
<1>5. ASSUME NEW call, StartUse(call) PROVE edits' = edits
  BY <1>5 DEF StartUse
<1>6. OpenView => edits' = edits
  BY DEF OpenView, ReadState, Walk, CompareStored, ReadRows, ValidateRow, EndValidation, CheckPinned,
         CheckClean, Quiet
<1>7. Capture \/ Assemble => edits' = edits
  BY DEF Capture, CheckHead, ListTracked, ListOthers, ReadFile, EndCapture,
         Assemble, ReadRow, EndGraph, ReadSource, EndSources, Quiet
<1>8. OtherRefresh \/ Resolve \/ Refresh \/ RefreshFails \/ ReadSignature => edits' = edits
  BY DEF OtherRefresh, Resolve, Refresh, RefreshFails, ReadSignature, Quiet
<1>9. Fail \/ Decide \/ Save \/ Compare \/ ValidateReport => edits' = edits
  BY DEF Fail, Decide, Save, Compare, ValidateReport, Quiet
<1>10. UNCHANGED planningVars => edits' = edits
  BY DEF planningVars
<1> QED
  BY <1>2, <1>3, <1>4, <1>5, <1>6, <1>7, <1>8, <1>9, <1>10 DEF PlanningNext

(* The planner is always in a state of its type: captures of the files,     *)
(* a queue of files in two passes, stamps that were given.                  *)
THEOREM TypeCorrect == PlanningSpec => []PlanningTypeOK
<1> DEFINE Bounded == edits <= MaxEdits
<1>1. PlanningInit => Bounded
  BY ConstantsTyped DEF PlanningInit
<1>2. IInv /\ Bounded /\ [PlanningNext]_planningVars => Bounded'
  BY EditsBounded DEF IInv
<1>3. IInv /\ Bounded => PlanningTypeOK
  <2> SUFFICES ASSUME IInv, Bounded PROVE PlanningTypeOK
    OBVIOUS
  <2>1. /\ disk \in [Files -> [text : Content, stamp : Nat]] /\ head \in Commits /\ edits \in Nat
        /\ index.text \in [Walked -> Content] /\ MaxEdits \in Nat
    BY ConstantsTyped DEF IInv, TypeInv
  <2>2. \A f \in Files : disk[f] \in [text : Content, stamp : 0..MaxEdits]
    <3> TAKE f \in Files
    <3>1. disk[f] \in [text : Content, stamp : Nat] /\ disk[f].stamp <= edits
      BY <2>1 DEF IInv, StampInv
    <3>2. disk[f].stamp \in 0..MaxEdits
      BY <2>1, <3>1
    <3> QED
      BY <3>1, <3>2
  <2>3. disk \in [Files -> [text : Content, stamp : 0..MaxEdits]]
    BY <2>1, <2>2
  <2>4. planner.first \in Captures /\ planner.second \in Captures /\ planner.attempt \in {0, 1, 2}
        /\ planner.shot \in {1, 2} /\ planner.queue \in Queues
    BY Typed DEF PlannerType
  <2>5. planner.queue \subseteq {1, 2} \X Files
    BY <2>4 DEF Queues
  <2> QED
    BY <2>1, <2>3, <2>4, <2>5 DEF PlanningTypeOK
<1> QED
  BY <1>1, <1>2, <1>3, Reached, PTL DEF PlanningSpec
=============================================================================
