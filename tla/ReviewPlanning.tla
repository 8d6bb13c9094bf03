--------------------------- MODULE ReviewPlanning ---------------------------
(***************************************************************************)
(* Planning a review and using the plan (internal/review/service.go, with  *)
(* the capture of capture.go, the head view of snapshot.go and the two     *)
(* readers of the plan, unit.go and check.go), while an editor changes the *)
(* worktree and HEAD and other processes refresh the index.                *)
(*                                                                         *)
(* A plan is put together from four sources that are read at different     *)
(* times: two captures of the change, the rows of the index and the text   *)
(* of the changed files.  A refresh is one step here: that it publishes    *)
(* the rows and the signature of one instant is what IndexGeneration       *)
(* shows.  A signature is the stamp of every file of the source walk;      *)
(* stamps are never reused.  Git's index tracks the paths of the base.     *)
(***************************************************************************)
EXTENDS Naturals

CONSTANTS Files,      \* paths, numbers in the order of their names
          Walked,     \* the Files of the source walk; git sees the others only
          Texts, Gone,            \* the text of no file, and of a removed one
          Commits, Tree,          \* [Commits -> [Files -> text or Gone]]
          Beginnings,             \* the worktrees a behaviour may begin with
          Null,                   \* none of the others
          MaxEdits, MaxPlans, MaxUses   \* bounds of the runs

VARIABLES disk,     \* the worktree
          head,     \* the commit HEAD names
          edits,    \* how often the editor acted; the last stamp given
          index,    \* the published index, shared with the other processes
          planner,  \* the call in progress, or how the last one ended
          plans, uses,
          saved     \* the plan in the store

planningVars == <<disk, head, edits, index, planner, plans, uses, saved>>

Content == Texts \cup {Gone}

ASSUME ConstantsTyped ==
    /\ Walked \subseteq Files
    /\ Gone \notin Texts
    /\ Null \notin Texts /\ Null \notin Commits /\ Null \notin Nat
    /\ Null \notin {Gone, "workspace", "committed"}
    /\ Tree \in [Commits -> [Files -> Content]]
    /\ Beginnings \subseteq [Files -> Content]
    /\ MaxEdits \in Nat

Text(f) == disk[f].text
World   == [tree |-> [f \in Files |-> Text(f)], head |-> head]

(* A file that is gone has no entry in the signature. *)
Signature == [f \in Walked |-> IF Text(f) = Gone THEN Null ELSE disk[f].stamp]
Built == [text |-> [f \in Walked |-> Text(f)], signature |-> Signature]

(* A capture lists the changed files; Null is a file that it does not list. *)
Captures == [Files -> Content \cup {Null}]
Nothing  == [f \in Files |-> Null]
Listed(capture) == {f \in Files : capture[f] # Null}
After(capture, base, f) == IF capture[f] = Null THEN Tree[base][f] ELSE capture[f]

(* What is left to read: files by the pass they are read in, and in a pass   *)
(* in the order of their names.                                            *)
IsFirst(item) ==
    \A other \in planner.queue :
        item[1] < other[1] \/ (item[1] = other[1] /\ item[2] <= other[2])

PlanCalls == {"workspace", "committed"}
Outcomes  == {"saved", "stale", "failed", "served", "complete", "rejected"}
(* "past" is a history variable: the worlds the attempt, or the use, has    *)
(* seen.                                                                    *)
IdlePlanner ==
    [pc |-> "idle", call |-> Null, attempt |-> 0, base |-> Null, target |-> Null,
     shot |-> 1, first |-> Nothing, second |-> Nothing, torn |-> FALSE, queue |-> {},
     sig1 |-> Null, sig2 |-> Null, expected |-> Null, view |-> Null,
     rows |-> [f \in Walked |-> Null], sources |-> [f \in Files |-> {}], past |-> {}]

PlanningInit ==
    /\ \E tree \in Beginnings : disk = [f \in Files |-> [text |-> tree[f], stamp |-> 0]]
    /\ head \in Commits
    /\ edits = 0
    /\ index = Built
    /\ planner = IdlePlanner /\ plans = 0 /\ uses = 0
    /\ saved = Null

PlannerAt(pc)  == planner.pc = pc
Busy    == planner.pc \notin Outcomes \cup {"idle"}
Now(p)  == planner' = p
Ended(outcome) == [IdlePlanner EXCEPT !.pc = outcome]

(* One more try of the whole sequence, or StaleError. *)
Again == IF planner.attempt = 1 THEN [planner EXCEPT !.pc = "resolve", !.attempt = 2]
                                ELSE Ended("stale")

(* A capture that met a moved HEAD or a vanished file.  The second capture  *)
(* of a plan remembers it until the second refresh is done.                 *)
Mismatch ==
    IF planner.call \notin PlanCalls THEN Ended("stale")
    ELSE IF planner.shot = 1 THEN Again
    ELSE [planner EXCEPT !.torn = TRUE, !.pc = "refresh"]

Quiet == UNCHANGED <<disk, head, edits, plans, uses, saved>>
-----------------------------------------------------------------------------
(* The editor and the other processes *)

Witnessed == planner' = IF Busy THEN [planner EXCEPT !.past = @ \cup {World'}] ELSE planner

(* A file is written, touched or removed. *)
Edit(f, t) ==
    /\ edits < MaxEdits
    /\ edits' = edits + 1
    /\ disk' = [disk EXCEPT ![f] = [text |-> t, stamp |-> edits']]
    /\ UNCHANGED <<head, index, plans, uses, saved>>
    /\ Witnessed

(* A commit, a reset: HEAD moves and the files stay. *)
MoveHead(c) ==
    /\ edits < MaxEdits
    /\ edits' = edits + 1
    /\ head' = c
    /\ UNCHANGED <<disk, index, plans, uses, saved>>
    /\ Witnessed

OtherRefresh ==
    /\ index' = Built
    /\ UNCHANGED planner /\ Quiet
-----------------------------------------------------------------------------
(* Calls *)

StartPlan(call, base, target) ==
    /\ ~Busy /\ plans < MaxPlans
    /\ Now([IdlePlanner EXCEPT !.pc = "resolve", !.call = call, !.attempt = 1,
                               !.base = base, !.target = target])
    /\ plans' = plans + 1
    /\ UNCHANGED <<disk, head, edits, index, uses, saved>>

(* Scopes name full object ids; the one of a workspace is HEAD.  The change *)
(* between two commits is captured from Git objects.                        *)
Resolve ==
    /\ PlannerAt("resolve")
    /\ Now(IF planner.call = "workspace"
           THEN [IdlePlanner EXCEPT !.pc = "head", !.call = "workspace", !.base = head,
                                    !.attempt = planner.attempt, !.past = {World}]
           ELSE [planner EXCEPT !.pc = "state", !.past = {World},
                    !.first = [f \in Files |->
                        IF Tree[planner.base][f] = Tree[planner.target][f] THEN Null
                        ELSE Tree[planner.target][f]]])
    /\ UNCHANGED index /\ Quiet
-----------------------------------------------------------------------------
(* One capture of the workspace *)

CheckHead ==
    /\ PlannerAt("head")
    /\ Now(IF head = planner.base THEN [planner EXCEPT !.pc = "list"] ELSE Mismatch)
    /\ UNCHANGED index /\ Quiet

Record(f, t) == IF planner.shot = 1 THEN [planner EXCEPT !.first[f] = t]
                                    ELSE [planner EXCEPT !.second[f] = t]

(* git diff against the base: a removed path needs no read. *)
ListTracked ==
    /\ PlannerAt("list")
    /\ LET changed == {f \in Files : Tree[planner.base][f] \notin {Gone, Text(f)}}
           removed == {f \in changed : Text(f) = Gone}
           shot    == [f \in Files |-> IF f \in removed THEN Gone ELSE Null] IN
       Now([planner EXCEPT !.pc = "others", !.queue = {1} \X (changed \ removed),
                           !.first  = IF planner.shot = 1 THEN shot ELSE @,
                           !.second = IF planner.shot = 2 THEN shot ELSE @])
    /\ UNCHANGED index /\ Quiet

(* git ls-files --others *)
ListOthers ==
    /\ PlannerAt("others")
    /\ LET untracked == {f \in Files : Tree[planner.base][f] = Gone /\ Text(f) # Gone} IN
       Now([planner EXCEPT !.pc = "read", !.queue = @ \cup ({2} \X untracked)])
    /\ UNCHANGED index /\ Quiet

ReadFile ==
    /\ PlannerAt("read")
    /\ \E item \in planner.queue :
        /\ IsFirst(item)
        /\ Now(LET f == item[2] IN
               IF Text(f) = Gone THEN Mismatch
               ELSE [Record(f, Text(f)) EXCEPT !.queue = @ \ {item}])
    /\ UNCHANGED index /\ Quiet

EndCapture ==
    /\ PlannerAt("read") /\ planner.queue = {}
    /\ Now([planner EXCEPT !.pc = IF planner.call \in PlanCalls THEN "refresh" ELSE "compare"])
    /\ UNCHANGED index /\ Quiet
-----------------------------------------------------------------------------
(* The refresh of the index after each capture, and the read of cli_sig *)

Refresh ==
    /\ PlannerAt("refresh")
    /\ index' = Built
    /\ Now([planner EXCEPT !.pc = "signature"])
    /\ Quiet

RefreshFails ==
    /\ PlannerAt("refresh")
    /\ Now(Ended("failed"))
    /\ UNCHANGED index /\ Quiet

ReadSignature ==
    /\ PlannerAt("signature")
    /\ Now(IF planner.shot = 1
           THEN [planner EXCEPT !.sig1 = index.signature, !.pc = "state"]
           ELSE [planner EXCEPT !.sig2 = index.signature, !.pc = "decide"])
    /\ UNCHANGED index /\ Quiet
-----------------------------------------------------------------------------
(* OpenHeadView: may the live index stand in for the head? *)

View(kind) == [planner EXCEPT !.pc = "graph", !.view = kind, !.queue = {1} \X Walked,
                              !.rows = IdlePlanner.rows]
(* A committed head is materialized and indexed apart; a workspace is not. *)
Refused == IF planner.call = "workspace" THEN Again ELSE View("private")

Require(condition, pc) ==
    Now(IF condition THEN [planner EXCEPT !.pc = pc] ELSE Refused)

(* index_state is incomplete after a failed refresh of any process. *)
ReadState == /\ PlannerAt("state")
             /\ \E complete \in BOOLEAN : Require(complete, "walk")
             /\ UNCHANGED index /\ Quiet

Walk == /\ PlannerAt("walk")
        /\ Now([planner EXCEPT !.expected = Signature, !.pc = "stored"])
        /\ UNCHANGED index /\ Quiet

CompareStored == /\ PlannerAt("stored")
                 /\ Require(index.signature = planner.expected, "rows")
                 /\ UNCHANGED index /\ Quiet

ReadRows == /\ PlannerAt("rows")
            /\ Now([planner EXCEPT !.pc = "validate", !.rows = index.text,
                        !.queue = {1} \X {f \in Walked : index.text[f] # Gone}])
            /\ UNCHANGED index /\ Quiet

ValidateRow ==
    /\ PlannerAt("validate")
    /\ \E item \in planner.queue :
        /\ IsFirst(item)
        /\ Now(IF Text(item[2]) = planner.rows[item[2]]
               THEN [planner EXCEPT !.queue = @ \ {item}] ELSE Refused)
    /\ UNCHANGED index /\ Quiet

EndValidation ==
    /\ PlannerAt("validate") /\ planner.queue = {}
    /\ Now(IF planner.call = "workspace" THEN View("live") ELSE [planner EXCEPT !.pc = "pinned"])
    /\ UNCHANGED index /\ Quiet

CheckPinned == /\ PlannerAt("pinned")
               /\ Require(head = planner.target, "clean")
               /\ UNCHANGED index /\ Quiet

CheckClean ==
    /\ PlannerAt("clean")
    /\ Now(View(IF \A f \in Files : Text(f) = Tree[head][f] THEN "live" ELSE "private"))
    /\ UNCHANGED index /\ Quiet
-----------------------------------------------------------------------------
(* buildArtifacts: the graph is asked once, the changed files are read by   *)
(* the planner and again by the replay of its identity.                     *)

ReadRow ==
    /\ PlannerAt("graph")
    /\ \E item \in planner.queue :
        /\ IsFirst(item)
        /\ LET f == item[2] IN
           Now([planner EXCEPT !.queue = @ \ {item},
                    !.rows[f] = IF planner.view = "live" THEN index.text[f]
                                ELSE Tree[planner.target][f]])
    /\ UNCHANGED index /\ Quiet

EndGraph ==
    /\ PlannerAt("graph") /\ planner.queue = {}
    /\ LET texts == {f \in Listed(planner.first) : planner.first[f] # Gone} IN
       Now(IF Listed(planner.first) = {} THEN Ended("failed")
           ELSE [planner EXCEPT !.pc = "sources", !.queue = {1, 2} \X texts])
    /\ UNCHANGED index /\ Quiet

ReadSource ==
    /\ PlannerAt("sources")
    /\ \E item \in planner.queue :
        /\ IsFirst(item)
        /\ LET f == item[2]
               t == IF planner.call = "workspace" THEN Text(f) ELSE Tree[planner.target][f] IN
           Now(IF t = Gone THEN Ended("failed")
               ELSE [planner EXCEPT !.queue = @ \ {item}, !.sources[f] = @ \cup {t}])
    /\ UNCHANGED index /\ Quiet

EndSources ==
    /\ PlannerAt("sources") /\ planner.queue = {}
    /\ Now(IF planner.call = "workspace" THEN [planner EXCEPT !.pc = "head", !.shot = 2]
           ELSE [planner EXCEPT !.pc = "save"])
    /\ UNCHANGED index /\ Quiet

(* Git, the graph, the knowledge, the store or the replayed identity fail. *)
Fail ==
    /\ planner.pc \in {"resolve", "head", "read", "state", "graph", "sources", "save"}
    /\ Now(Ended("failed"))
    /\ UNCHANGED index /\ Quiet
-----------------------------------------------------------------------------
(* Accepting the plan *)

(* Mutant of Decide: the two signatures are not compared. *)
DecideUnsigned ==
    /\ PlannerAt("decide")
    /\ Now(IF planner.torn \/ planner.first # planner.second
           THEN Again ELSE [planner EXCEPT !.pc = "save"])
    /\ UNCHANGED index /\ Quiet

Decide ==
    /\ PlannerAt("decide")
    /\ Now(IF planner.torn \/ planner.first # planner.second \/ planner.sig1 # planner.sig2
           THEN Again ELSE [planner EXCEPT !.pc = "save"])
    /\ UNCHANGED index /\ Quiet

Save ==
    /\ PlannerAt("save")
    /\ saved' = [call |-> planner.call, base |-> planner.base, capture |-> planner.first]
    /\ Now(Ended("saved"))
    /\ UNCHANGED <<disk, head, edits, index, plans, uses>>
-----------------------------------------------------------------------------
(* UnitPacket and Check: the workspace is captured again and compared with  *)
(* the fingerprint of the plan; Check does so before and after it validates *)
(* the report.                                                              *)

Recapture(p) == [p EXCEPT !.pc = IF saved.call = "workspace" THEN "head" ELSE "compare",
                          !.second = Nothing, !.past = {World}]

StartUse(call) ==
    /\ ~Busy /\ saved # Null /\ uses < MaxUses
    /\ Now(Recapture([IdlePlanner EXCEPT !.call = call, !.attempt = 1, !.shot = 2,
                                         !.base = saved.base, !.first = saved.capture]))
    /\ uses' = uses + 1
    /\ UNCHANGED <<disk, head, edits, index, plans, saved>>

Compare ==
    /\ PlannerAt("compare")
    /\ Now(IF saved.call = "workspace" /\ planner.second # planner.first THEN Ended("stale")
           ELSE IF planner.call = "packet" THEN Ended("served")
           ELSE IF planner.attempt = 1 THEN [planner EXCEPT !.pc = "report", !.past = {World}]
           ELSE Ended("complete"))
    /\ UNCHANGED index /\ Quiet

(* Mutant of ValidateReport: nothing is captured after the validation. *)
ValidateReportLast ==
    /\ PlannerAt("report")
    /\ \E outcome \in {"rejected", "complete"} : Now(Ended(outcome))
    /\ UNCHANGED index /\ Quiet

(* Findings, receipts and recommendation are checked against the plan. *)
ValidateReport ==
    /\ PlannerAt("report")
    /\ \/ Now(Ended("rejected"))
       \/ Now(Recapture([planner EXCEPT !.attempt = 2]))
    /\ UNCHANGED index /\ Quiet

Capture  == CheckHead \/ ListTracked \/ ListOthers \/ ReadFile \/ EndCapture
OpenView == ReadState \/ Walk \/ CompareStored \/ ReadRows \/ ValidateRow
                \/ EndValidation \/ CheckPinned \/ CheckClean
Assemble == ReadRow \/ EndGraph \/ ReadSource \/ EndSources

PlanningNext ==
    \/ \E f \in Files, t \in Content : Edit(f, t)
    \/ \E c \in Commits : MoveHead(c)
    \/ OtherRefresh
    \/ StartPlan("workspace", Null, Null)
    \/ \E base, target \in Commits : StartPlan("committed", base, target)
    \/ Resolve \/ Capture \/ Refresh \/ RefreshFails \/ ReadSignature
    \/ OpenView \/ Assemble \/ Fail \/ Decide \/ Save
    \/ \E call \in {"packet", "check"} : StartUse(call)
    \/ Compare \/ ValidateReport

PlanningSpec == PlanningInit /\ [][PlanningNext]_planningVars
-----------------------------------------------------------------------------
(* A file that did not come and go during the attempt.  One that is absent  *)
(* at both refreshes and present at both captures deceives the planner:     *)
(* neither signature has an entry for it.                                   *)
Lasting(f) == (\A w \in planner.past : w.tree[f] = Gone) \/ (\A w \in planner.past : w.tree[f] # Gone)

(* An accepted workspace plan is the plan of one instant: HEAD was its base *)
(* and, of every file of the source walk, the captured change, the rows the *)
(* graph was asked for and every text read for it were there together.      *)
(* planWorkspace reads them one after the other, 25 steps in all, and has   *)
(* two captures and two signatures to compare (service.go:211-279).         *)
PlanIsOneInstant ==
    PlannerAt("save") /\ planner.call = "workspace" =>
        \E w \in planner.past :
            /\ w.head = planner.base
            /\ \A f \in Walked : Lasting(f) =>
                /\ After(planner.first, planner.base, f) = w.tree[f]
                /\ planner.rows[f] = w.tree[f]
                /\ planner.sources[f] \subseteq {w.tree[f]}

(* A unit packet is served, and a report accepted, only while the workspace *)
(* is the planned one: since the call began, or for a report since its      *)
(* validation began, HEAD was the base and every file had its planned text, *)
(* though not necessarily all at one instant (check.go:129-166,             *)
(* unit.go:86-101).                                                         *)
UseIsCurrent ==
    [][planner'.pc \in {"served", "complete"} /\ Busy /\ saved.call = "workspace" =>
        /\ \E w \in planner.past : w.head = saved.base
        /\ \A f \in Files : \E w \in planner.past : w.tree[f] = After(saved.capture, saved.base, f)]_planningVars

(* The rows a committed plan is built from are those of its head: a live    *)
(* index stands in for the head only after eligibleReuse has verified every *)
(* condition (snapshot.go:561-587).                                         *)
RowsOfHead ==
    PlannerAt("save") /\ planner.call = "committed" =>
        \A f \in Walked : planner.rows[f] = Tree[planner.target][f]

PlanningTypeOK ==
    /\ disk \in [Files -> [text : Content, stamp : 0..MaxEdits]]
    /\ head \in Commits /\ edits \in 0..MaxEdits
    /\ index.text \in [Walked -> Content]
    /\ planner.first \in Captures /\ planner.second \in Captures
    /\ planner.attempt \in 0..2 /\ planner.shot \in 1..2
    /\ planner.queue \subseteq {1, 2} \X Files
=============================================================================
