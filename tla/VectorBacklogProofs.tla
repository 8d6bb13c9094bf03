------------------------- MODULE VectorBacklogProofs -------------------------
(* Theorems about VectorBacklog, for any processes and models, files and     *)
(* chunks, windows and batches.                                              *)
EXTENDS VectorBacklog, TLAPS

(* The chunks a vector may be stored for. *)
Embeddable == {i \in Ids : HasText(i)}

TypeInv ==
  /\ commits \in Nat
  /\ lock \in Processes \cup {Unset}

(* The rows of the vector table, and never one for a content-free chunk. *)
VectorInv == VectorsMatch /\ DOMAIN vector \subseteq Embeddable

(* How far the pass under way has come: a table it meets is of its own       *)
(* model from "claim" on, and what it has read it may still store, because   *)
(* nobody commits chunks meanwhile.                                          *)
Named == {"prune", "window", "embed", "create", "name", "upsert", "count"}
Labels == {"unmark", "drop", "forget", "claim"} \cup Named
PassType == [pc : Labels, pending : SUBSET Embeddable, batch : SUBSET Embeddable]
PassInv ==
  lock # Unset =>
    /\ pass \in PassType
    /\ pass.pc = "drop"   => model # ModelOf[lock]
    /\ pass.pc = "forget" => ~table
    /\ pass.pc = "claim"  => (table => model = ModelOf[lock])
    /\ pass.pc \in Named  => model = ModelOf[lock]
    /\ pass.pc \in {"name", "upsert"} => table

IInv == TypeInv /\ VectorInv /\ PassInv

LEMMA InitIInv == BacklogInit => IInv
BY DEF BacklogInit, IInv, TypeInv, VectorInv, PassInv, VectorsMatch, Embeddable

(* A commit gives no other file's chunk another text. *)
LEMMA KeptRows ==
  ASSUME NEW f, NEW texts, NEW i \in Ids, chunk[i].file # f,
         chunk' = Replaced(chunk, f, texts)
  PROVE  i \in Ids' /\ chunk'[i] = chunk[i]
BY DEF Replaced, Ids

(* While a pass holds the lock nobody commits chunks. *)
LEMMA SameRows == Rows => Embeddable' = Embeddable /\ PassType' = PassType
BY DEF Rows, Embeddable, PassType, Ids, HasText

(* The pass has moved on, with the rows it has read. *)
LEMMA Moved ==
  ASSUME PassInv, NEW p \in Processes, lock = p, Rows,
         NEW l \in Labels, GoTo(l)
  PROVE  pass' \in PassType' /\ pass'.pc = l
<1>1. pass \in PassType
  BY UnsetIsNoProcess DEF PassInv
<1>2. pass' \in PassType /\ pass'.pc = l
  BY <1>1 DEF PassType, GoTo
<1> QED
  BY <1>2, SameRows

(* Vectors stay right when none is added or changed and the model stays.     *)
LEMMA SameVectors ==
  ASSUME VectorInv, Rows, DOMAIN vector' \subseteq DOMAIN vector,
         \A i \in DOMAIN vector' : vector'[i] = vector[i] /\ table' /\ model' = model
  PROVE  VectorInv'
<1>1. chunk' = chunk /\ Ids' = Ids /\ Embeddable' = Embeddable
  BY SameRows DEF Rows, Ids
<1> QED
  BY <1>1 DEF VectorInv, VectorsMatch

LEMMA StepIInv ==
  ASSUME IInv, [BacklogNext]_backlogVars
  PROVE  IInv'
<1> Unset \notin Processes
  BY UnsetIsNoProcess
<1>0. TypeInv /\ VectorInv /\ PassInv /\ VectorsMatch
  BY DEF IInv, VectorInv
<1>1. ASSUME NEW f \in ChunkFiles, CommitFile(f) PROVE IInv'
  <2>1. PICK texts \in NewTexts : chunk' = Replaced(chunk, f, texts)
    BY <1>1 DEF CommitFile
  <2>2. vector' = [i \in DOMAIN vector \ IdsOf(f) |-> vector[i]]
    BY <1>1 DEF CommitFile, Restrict
  <2>3. \A i \in DOMAIN vector' : /\ i \in DOMAIN vector /\ vector'[i] = vector[i]
                                  /\ i \in Ids /\ HasText(i) /\ chunk[i].file # f
    BY <1>0, <2>2 DEF VectorInv, IdsOf, Embeddable
  <2>4. \A i \in DOMAIN vector' : i \in Ids' /\ chunk'[i] = chunk[i]
    BY <2>1, <2>3, KeptRows
  <2>5. \A i \in DOMAIN vector' : table' /\ vector'[i] = [text |-> chunk'[i].text, model |-> model']
    BY <1>0, <1>1, <2>3, <2>4 DEF VectorsMatch, CommitFile
  <2>6. \A i \in DOMAIN vector' : chunk'[i].text # BlankText
    BY <2>3, <2>4 DEF HasText
  <2>7. VectorInv'
    BY <2>4, <2>5, <2>6 DEF VectorInv, VectorsMatch, Embeddable, HasText
  <2> QED
    BY <1>0, <1>1, <2>7 DEF CommitFile, IInv, TypeInv, PassInv
<1>2. CASE CommitReset
  <2>1. DOMAIN vector' = {}
    BY <1>2 DEF CommitReset
  <2>2. VectorInv'
    BY <2>1 DEF VectorInv, VectorsMatch
  <2> QED
    BY <1>0, <1>2, <2>2 DEF CommitReset, IInv, TypeInv, PassInv
<1>3. ASSUME NEW p \in Processes, BeginPass(p) PROVE IInv'
  <2>1. UNCHANGED <<Embeddable, PassType, Ids>>
    BY <1>3 DEF BeginPass, Embeddable, PassType, Ids, HasText
  <2>2. pass' \in PassType /\ pass'.pc = "unmark"
    BY <1>3 DEF BeginPass, Idle, PassType, Labels, Named
  <2>3. PassInv'
    BY <1>3, <2>1, <2>2 DEF BeginPass, PassInv, Named
  <2>4. VectorInv'
    BY <1>0, <1>3, <2>1 DEF BeginPass, VectorInv, VectorsMatch
  <2> QED
    BY <1>0, <1>3, <2>3, <2>4 DEF BeginPass, IInv, TypeInv
<1>4. ASSUME NEW p \in Processes, lock = p, Rows, VectorInv', PassInv' PROVE IInv'
  BY <1>0, <1>4 DEF Rows, IInv, TypeInv
<1> USE <1>0 DEF At
<1>5. ASSUME NEW p \in Processes, Unmark(p) PROVE IInv'
  <2>1. PICK l \in {"drop", "claim"} : lock = p /\ Rows /\ GoTo(l)
                    /\ l = IF table /\ model # ModelOf[p] THEN "drop" ELSE "claim"
    BY <1>5 DEF Unmark
  <2>2. pass' \in PassType' /\ pass'.pc = l
    BY <2>1, Moved DEF Labels, Named
  <2>3. PassInv'
    BY <1>5, <2>1, <2>2 DEF Unmark, Rows, PassInv, Named
  <2>4. VectorInv'
    BY <1>5, <2>1, SameVectors DEF Unmark, VectorsMatch
  <2> QED
    BY <1>4, <2>1, <2>3, <2>4
<1>6. ASSUME NEW p \in Processes, DropTable(p) PROVE IInv'
  <2>1. lock = p /\ Rows /\ GoTo("forget")
    BY <1>6 DEF DropTable
  <2>2. pass' \in PassType' /\ pass'.pc = "forget"
    BY <2>1, Moved DEF Labels, Named
  <2>3. PassInv'
    BY <1>6, <2>1, <2>2 DEF DropTable, Rows, PassInv, Named
  <2>4. VectorInv'
    <3>1. DOMAIN vector' = {}
      BY <1>6 DEF DropTable
    <3> QED
      BY <2>1, <3>1, SameVectors
  <2> QED
    BY <1>4, <2>1, <2>3, <2>4
<1>7. ASSUME NEW p \in Processes, Forget(p) PROVE IInv'
  <2>1. lock = p /\ Rows /\ GoTo("claim")
    BY <1>7 DEF Forget
  <2>2. pass' \in PassType' /\ pass'.pc = "claim"
    BY <2>1, Moved DEF Labels, Named
  <2>3. PassInv'
    BY <1>7, <2>1, <2>2 DEF Forget, Rows, PassInv, Named
  <2>4. VectorInv'
    <3>1. DOMAIN vector = {} /\ vector' = vector
      BY <1>7 DEF Forget, PassInv, VectorsMatch
    <3> QED
      BY <2>1, <3>1, SameVectors
  <2> QED
    BY <1>4, <2>1, <2>3, <2>4
<1>8. ASSUME NEW p \in Processes, Claim(p) PROVE IInv'
  <2>1. lock = p /\ Rows /\ GoTo("prune")
    BY <1>8 DEF Claim
  <2>2. pass' \in PassType' /\ pass'.pc = "prune"
    BY <2>1, Moved DEF Labels, Named
  <2>3. PassInv'
    BY <1>8, <2>1, <2>2 DEF Claim, Rows, PassInv, Named
  <2>4. VectorInv'
    <3>1. model' = model \/ DOMAIN vector = {}
      BY <1>8 DEF Claim, PassInv, VectorsMatch
    <3> QED
      BY <1>8, <2>1, <3>1, SameVectors DEF Claim, VectorsMatch
  <2> QED
    BY <1>4, <2>1, <2>3, <2>4
<1>9. ASSUME NEW p \in Processes, PruneContentFree(p) PROVE IInv'
  <2>1. lock = p /\ Rows /\ GoTo("window")
    BY <1>9 DEF PruneContentFree
  <2>2. pass' \in PassType' /\ pass'.pc = "window"
    BY <2>1, Moved DEF Labels, Named
  <2>3. PassInv'
    BY <1>9, <2>1, <2>2 DEF PruneContentFree, Rows, PassInv, Named
  <2>4. VectorInv'
    <3>1. vector' = [i \in {i \in DOMAIN vector : i \in Ids => HasText(i)} |-> vector[i]]
      BY <1>9 DEF PruneContentFree, Restrict
    <3>2. table' = table /\ model' = model
      BY <1>9 DEF PruneContentFree
    <3> QED
      BY <2>1, <3>1, <3>2, SameVectors DEF VectorsMatch
  <2> QED
    BY <1>4, <2>1, <2>3, <2>4
<1>10. ASSUME NEW p \in Processes, ReadWindow(p) PROVE IInv'
  <2>1. lock = p /\ Rows /\ UNCHANGED <<table, vector, model>> /\ pass.pc = "window"
    BY <1>10 DEF ReadWindow
  <2>2. PICK W \in SUBSET Outstanding :
          pass' = [pass EXCEPT !.pending = W, !.pc = IF W = {} THEN "count" ELSE "embed"]
    BY <1>10 DEF ReadWindow
  <2>3. W \subseteq Embeddable
    BY DEF Outstanding, Embeddable
  <2>4. pass \in PassType /\ model = ModelOf[p]
    BY <2>1 DEF PassInv, Named
  <2>5. pass' \in PassType' /\ pass'.pc \in {"count", "embed"}
    BY <2>1, <2>2, <2>3, <2>4, SameRows DEF PassType, Labels, Named
  <2>6. PassInv'
    BY <2>1, <2>4, <2>5 DEF PassInv, Named, Rows
  <2>7. VectorInv'
    BY <2>1, SameVectors DEF VectorsMatch
  <2> QED
    BY <1>4, <2>1, <2>6, <2>7
<1>11. ASSUME NEW p \in Processes, Embed(p) PROVE IInv'
  <2>1. lock = p /\ Rows /\ UNCHANGED <<table, vector, model>> /\ pass.pc = "embed"
    BY <1>11 DEF Embed
  <2>2. PICK B \in SUBSET pass.pending :
          pass' = [pass EXCEPT !.batch = B, !.pending = @ \ B,
                               !.pc = IF table THEN "upsert" ELSE "create"]
    BY <1>11 DEF Embed
  <2>3. pass \in PassType /\ model = ModelOf[p]
    BY <2>1 DEF PassInv, Named
  <2>4. pass' \in PassType' /\ pass'.pc = IF table THEN "upsert" ELSE "create"
    BY <2>1, <2>2, <2>3, SameRows DEF PassType, Labels, Named
  <2>5. PassInv'
    BY <2>1, <2>3, <2>4 DEF PassInv, Named, Rows
  <2>6. VectorInv'
    BY <2>1, SameVectors DEF VectorsMatch
  <2> QED
    BY <1>4, <2>1, <2>5, <2>6
<1>12. ASSUME NEW p \in Processes, EnableVectors(p) PROVE IInv'
  <2>1. lock = p /\ Rows /\ GoTo("name")
    BY <1>12 DEF EnableVectors
  <2>2. pass' \in PassType' /\ pass'.pc = "name"
    BY <2>1, Moved DEF Labels, Named
  <2>3. PassInv'
    BY <1>12, <2>1, <2>2 DEF EnableVectors, Rows, PassInv, Named
  <2>4. VectorInv'
    BY <1>12, <2>1, SameVectors DEF EnableVectors, VectorsMatch
  <2> QED
    BY <1>4, <2>1, <2>3, <2>4
<1>13. ASSUME NEW p \in Processes, NameModel(p) PROVE IInv'
  <2>1. lock = p /\ Rows /\ GoTo("upsert")
    BY <1>13 DEF NameModel
  <2>2. pass' \in PassType' /\ pass'.pc = "upsert"
    BY <2>1, Moved DEF Labels, Named
  <2>3. PassInv'
    BY <1>13, <2>1, <2>2 DEF NameModel, Rows, PassInv, Named
  <2>4. VectorInv'
    <3>1. model' = model /\ table' = table /\ vector' = vector
      BY <1>13 DEF NameModel, PassInv, Named
    <3> QED
      BY <2>1, <3>1, SameVectors DEF VectorsMatch
  <2> QED
    BY <1>4, <2>1, <2>3, <2>4
<1>14. ASSUME NEW p \in Processes, UpsertVector(p) PROVE IInv'
  <2>1. lock = p /\ Rows /\ UNCHANGED <<table, model>> /\ pass.pc = "upsert"
    BY <1>14 DEF UpsertVector
  <2>2. PICK i \in pass.batch :
          /\ vector' = [j \in DOMAIN vector \cup {i} |->
                          IF j = i THEN [text |-> chunk[i].text, model |-> ModelOf[p]]
                          ELSE vector[j]]
          /\ pass' = [pass EXCEPT !.batch = @ \ {i}]
    BY <1>14 DEF UpsertVector
  <2>3. pass \in PassType /\ model = ModelOf[p] /\ table
    BY <2>1 DEF PassInv, Named
  <2>4. pass' \in PassType' /\ pass'.pc = "upsert" /\ i \in Embeddable
    BY <2>1, <2>2, <2>3, SameRows DEF PassType
  <2>5. PassInv'
    BY <2>1, <2>3, <2>4 DEF PassInv, Named, Rows
  <2>6. i \in Ids /\ Ids' = Ids /\ chunk' = chunk /\ Embeddable' = Embeddable
    BY <2>1, <2>4, SameRows DEF Embeddable, Ids, Rows
  <2>7. VectorInv'
    BY <2>1, <2>2, <2>3, <2>4, <2>6 DEF VectorInv, VectorsMatch
  <2> QED
    BY <1>4, <2>1, <2>5, <2>7
<1>15. ASSUME NEW p \in Processes, EndBatch(p) PROVE IInv'
  <2>1. PICK l \in {"window", "embed"} : lock = p /\ Rows /\ GoTo(l)
    BY <1>15 DEF EndBatch
  <2>2. pass' \in PassType' /\ pass'.pc = l
    BY <2>1, Moved DEF Labels, Named
  <2>3. PassInv'
    BY <1>15, <2>1, <2>2 DEF EndBatch, Rows, PassInv, Named
  <2>4. VectorInv'
    BY <1>15, <2>1, SameVectors DEF EndBatch, VectorsMatch
  <2> QED
    BY <1>4, <2>1, <2>3, <2>4
<1>16. ASSUME NEW p \in Processes, Finish(p) \/ Abort(p) PROVE IInv'
  <2>1. lock' = Unset /\ UNCHANGED <<chunk, table, vector, model, commits>>
    BY <1>16 DEF Finish, Abort
  <2>2. Ids' = Ids /\ Embeddable' = Embeddable
    BY <2>1 DEF Ids, Embeddable, HasText
  <2>3. VectorInv'
    BY <2>1, <2>2 DEF VectorInv, VectorsMatch
  <2> QED
    BY <2>1, <2>3 DEF IInv, TypeInv, PassInv
<1>17. CASE UNCHANGED backlogVars
  <2>1. Ids' = Ids /\ Embeddable' = Embeddable /\ PassType' = PassType
    BY <1>17 DEF backlogVars, Ids, Embeddable, HasText, PassType
  <2> QED
    BY <1>17, <2>1 DEF backlogVars, IInv, TypeInv, VectorInv, VectorsMatch, PassInv
<1> QED
  BY <1>1, <1>2, <1>3, <1>5, <1>6, <1>7, <1>8, <1>9, <1>10, <1>11, <1>12, <1>13, <1>14, <1>15,
     <1>16, <1>17 DEF BacklogNext

LEMMA SpecIInv == BacklogSpec => []IInv
BY InitIInv, StepIInv, PTL DEF BacklogSpec

(* However passes end, ids come back and models change, every stored vector  *)
(* is the vector of the text its chunk has now, by the model that is named.  *)
THEOREM VectorsRight == BacklogSpec => []VectorsMatch
<1>1. IInv => VectorsMatch
  BY DEF IInv, VectorInv
<1> QED
  BY <1>1, SpecIInv, PTL

(* A vector goes only with its chunk, with a new index version, or when a    *)
(* process of another model takes over: what a pass embedded is never lost   *)
(* to the way the pass ended or to the next one.                             *)
THEOREM VectorsSurvive == BacklogSpec => ProgressKept
<1> Unset \notin Processes
  BY UnsetIsNoProcess
<1>1. ASSUME IInv, [BacklogNext]_backlogVars, NEW i \in DOMAIN vector \ DOMAIN vector', commits' = commits
      PROVE  lock # Unset /\ ModelOf[lock] # vector[i].model
  <2>1. vector[i].model = model /\ HasText(i)
    BY <1>1 DEF IInv, VectorInv, VectorsMatch, Embeddable
  <2>2. ASSUME NEW p \in Processes, DropTable(p) PROVE lock # Unset /\ ModelOf[lock] # model
    BY <1>1, <2>2 DEF DropTable, At, IInv, PassInv
  <2>3. ASSUME NEW p \in Processes, PruneContentFree(p) PROVE FALSE
    BY <1>1, <2>1, <2>3 DEF PruneContentFree, Restrict
  <2>4. ASSUME NEW p \in Processes, UpsertVector(p) PROVE FALSE
    BY <1>1, <2>4 DEF UpsertVector
  <2>5. ~CommitReset /\ \A f \in ChunkFiles : ~CommitFile(f)
    BY <1>1 DEF IInv, TypeInv, CommitFile, CommitReset
  <2>6. ASSUME NEW p \in Processes,
               \/ BeginPass(p) \/ Unmark(p) \/ Forget(p) \/ Claim(p) \/ ReadWindow(p) \/ Embed(p)
               \/ EnableVectors(p) \/ NameModel(p) \/ EndBatch(p) \/ Finish(p) \/ Abort(p)
        PROVE  vector' = vector
    BY <2>6 DEF BeginPass, Unmark, Forget, Claim, ReadWindow, Embed, EnableVectors, NameModel,
                EndBatch, Finish, Abort
  <2>7. vector' # vector
    BY <1>1
  <2> QED
    BY <1>1, <2>1, <2>2, <2>3, <2>4, <2>5, <2>6, <2>7 DEF BacklogNext, backlogVars
<1>2. IInv /\ [BacklogNext]_backlogVars =>
        [\A i \in DOMAIN vector \ DOMAIN vector' :
           \/ commits' # commits
           \/ lock # Unset /\ ModelOf[lock] # vector[i].model]_backlogVars
  BY <1>1
<1> QED
  BY <1>2, SpecIInv, PTL DEF BacklogSpec, ProgressKept
=============================================================================
