------------------------------ MODULE MCReview ------------------------------
(***************************************************************************)
(* Values of the constants of PlanStore, ReviewPlanning, ReviewReport,      *)
(* PlanArtifacts, HeadView, ReviewCapture, GitCommand and PatchText.  The   *)
(* planner saves its plan under the locks PlanStore is about, what is in a  *)
(* plan follows from the capture alone, and a capture and the view of its   *)
(* head rely on Git's calls being whole; a behaviour explores one of these  *)
(* parts.                                                                  *)
(*                                                                         *)
(* PlanStore: three reviews in two stripes, with RetentionCount = 1 as the  *)
(* twenty of the code; p4 has the review id of p1, and p2 and p3 collide.   *)
(* ReviewPlanning: file 1 is tracked, file 2 untracked, and file 3 tracked  *)
(* but outside the source walk; the two commits differ in file 1.           *)
(* ReviewReport: hunks carry one line of context.                           *)
(***************************************************************************)
EXTENDS PlanStore, ReviewPlanning, Integers, TLC

CONSTANTS p1, p2, p3, p4, s1, s2,
          h1, h2, MaxFiles, MaxSlips

VARIABLES capture, plan, report, slips, result,
          nodes, paths, staged, checkedOut, moved, acts, capturer,
          call, child, out, err, context,
          text,
          asked, sources, planned, bundle, honest, verdict,
          tree, objects, view, snapshot, liveNodes, live, source, turns,
          which   \* the part this behaviour explores

MCReviewOf == (p1 :> 1) @@ (p2 :> 2) @@ (p3 :> 3) @@ (p4 :> 1)
MCClash == {{p2, p3}}
MCStripeOf == <<s1, s2, s2>>

MCTree == (h1 :> <<0, Gone, 0>>) @@ (h2 :> <<1, Gone, 0>>)
MCBeginnings == {<<1, 0, 0>>, <<1, Gone, 1>>}

Replaced(n) == [base |-> <<n, 2>>, head |-> <<n, 2>>, dels |-> 1, adds |-> 1, bytes |-> 1]
Cut(n)      == [base |-> <<n, 2>>, head |-> <<n, 1>>, dels |-> 1, adds |-> 0, bytes |-> 1]
Vast(n)     == [Replaced(n) EXCEPT !.bytes = 9]
Added       == [base |-> <<0, 0>>, head |-> <<1, 3>>, dels |-> 0, adds |-> 3, bytes |-> 2]
Removed     == [base |-> <<1, 2>>, head |-> <<0, 0>>, dels |-> 2, adds |-> 0, bytes |-> 1]

Changed(roles, hunks, symbols, base, last) ==
    [text |-> TRUE, roles |-> roles, hunks |-> hunks, symbols |-> symbols,
     lines |-> [base |-> base, head |-> last]]
Kinds ==
    [edited  |-> Changed({"implementation"}, <<Replaced(1), Replaced(4)>>, {"signature"}, 5, 5),
     new     |-> Changed({"test"}, <<Added>>, {}, -1, 3),
     cut     |-> Changed({"contract"}, <<Replaced(1), Vast(4), Cut(7)>>, {"removed"}, 8, 7),
     gone    |-> Changed({"unknown"}, <<Removed>>, {"removed"}, 2, -1),
     lock    |-> Changed({"mechanical"}, <<Replaced(1)>>, {}, 2, 2),
     picture |-> [Changed({"unknown"}, <<>>, {}, 0, 0) EXCEPT !.text = FALSE]]
Captured(kinds, includes, tests, clusters, failing) ==
    [files |-> [i \in DOMAIN kinds |-> Kinds[kinds[i]]], includes |-> includes, tests |-> tests,
     clusters |-> clusters, failing |-> failing]

Talked == {Captured(kinds, {}, {}, {}, {}) : kinds \in {<<"edited">>, <<"lock", "picture">>, <<"gone">>}}
Related == {Captured(kinds, includes, tests, clusters, failing) :
               kinds \in {kinds \in [1..MaxFiles -> DOMAIN Kinds] :
                            kinds[1] = "edited" \/ (kinds[1] = "new" /\ kinds[2] = "cut")},
               includes \in {{}, {<<1, 2>>}, {<<1, 2>>, <<2, 1>>, <<3, 1>>}},
               tests \in {{}, {<<1, 3>>}}, clusters \in {{}, {{2, 3}}}, failing \in {{}, {1}}}

Reporting == INSTANCE ReviewReport WITH
    LineCap <- 2, MandatoryCap <- 4, Overhead <- 1, Threshold <- 4,
    MaxFindings <- 2, MaxReceipts <- 5, MaxItems <- 6, MaxPlanItems <- 23, MaxReferences <- 120,
    Captures <- Talked \cup (IF MaxFiles = 3 THEN Related ELSE {}), Discussed <- Talked

reportVars == <<capture, plan, report, slips, result>>

\* ReviewCapture: path 1 is tracked, path 2 is not in the base and path 3 is a
\* submodule; a capture begins with path 1 edited, or with path 1 renamed to path 2.
Short   == [v |-> 1, size |-> 1, nul |-> FALSE]
Long    == [v |-> 2, size |-> 2, nul |-> FALSE]
Large   == [v |-> 3, size |-> 3, nul |-> TRUE]
File(x) == [kind |-> "regular", data |-> x]
Link(o) == [kind |-> "gitlink", data |-> o]
Capturing == INSTANCE ReviewCapture WITH
    Paths <- 1..3, Recognized <- {1}, Modules <- {3}, Oids <- {"o1", "o2"},
    BaseTree <- <<File(Short), None, Link("o1")>>, HeadTree <- <<None, File(Short), Link("o2")>>,
    Texts <- {Short, Long, Large},
    Starts <- {<< <<File(Long), File(Short)>>, <<1, 2, 0>>, <<"file", None, "o2">> >>,
               << <<File(Short)>>, <<0, 1, 0>>, <<None, "file", "o1">> >>},
    FileCap <- 2, TotalCap <- 3, PatchCap <- 6, PathCap <- 3,
    disk <- paths, edits <- acts, cap <- capturer
ASSUME Capturing!ConstantsTyped

captureVars == <<nodes, paths, staged, checkedOut, moved, acts, capturer>>

\* GitCommand: sinks of three and two bytes and a destination that takes two.
Git == INSTANCE GitCommand WITH OutLimit <- 3, ErrLimit <- 2, DestLimit <- 2, MaxWrites <- 3
gitVars == <<call, child, out, err, context>>

\* PatchText: texts of up to five lines.
Patch == INSTANCE PatchText WITH
    Counts <- {<<1, 1>>, <<0, 1>>, <<2, 1>>, <<0, 0>>}, MaxLines <- 5

\* PlanArtifacts: two diffs; a hunk of the second is too large for any unit.
Artifacts == INSTANCE PlanArtifacts WITH
    LineCap <- 2, MandatoryCap <- 4, Overhead <- 1, Threshold <- 4,
    Diffs <- {Captured(<<"edited">>, {}, {}, {}, {}), Captured(<<"cut", "picture">>, {<<1, 2>>}, {}, {}, {})}
artifactVars == <<asked, sources, planned, bundle, honest, verdict>>

\* HeadView: trees of up to three entries, most of them of sound ones.
Rec(mode, type, oid, path) == [mode |-> mode, type |-> type, oid |-> oid, path |-> path]
Sound == <<Rec("100644", "blob", "o1", <<"a">>), Rec("100755", "blob", "o2", <<"a", "b">>),
           Rec("120000", "blob", "o1", <<"b">>), Rec("120000", "blob", "o2", <<"c">>),
           Rec("120000", "blob", "o3", <<"d">>), Rec("100644", "blob", "o2", <<"e">>)>>
Poor  == {Rec("torn", "", "", <<"t">>), Rec("160000", "commit", "o9", <<"m">>),
          Rec("100644", "blob", "o1", <<"..", "x">>), Rec("100644", "commit", "o1", <<"f">>),
          Rec("100644", "blob", "o4", <<"g">>), Rec("100644", "blob", "o3", <<"h">>),
          Rec("100644", "blob", "short", <<"k">>)}
Object(type, size, nul) == [type |-> type, size |-> size, nul |-> nul]
Viewing == INSTANCE HeadView WITH
    Trees <- {<<>>} \cup {<<rec>> : rec \in Poor} \cup {<<rec, Sound[1]>> : rec \in Poor}
               \cup {<<Sound[i], Sound[j]>> : i, j \in 1..6} \cup {<<Sound[1], Sound[3], Sound[4], Sound[6]>>}
               \cup {<<Sound[i], Sound[j], Sound[k]>> : i, j \in 2..4, k \in {5, 6}},
    Objects <- "o1" :> Object("blob", 1, FALSE) @@ "o2" :> Object("blob", 2, TRUE)
                 @@ "o3" :> Object("blob", 3, FALSE) @@ "o4" :> Object("tree", 1, FALSE),
    Files <- <<[kind |-> "regular", size |-> 1], [kind |-> "symlink", size |-> 1], [kind |-> "special", size |-> 0]>>,
    MaxEntries <- 3, MaxBlobBytes <- 2, MaxTotalBytes <- 4, MaxSymlinkBytes <- 2,
    snapshotContentBatchBytes <- 2, MaxTurns <- 1, nodes <- liveNodes
viewVars == <<tree, objects, view, snapshot, liveNodes, live, source, turns>>

\* The parts a behaviour does not explore hold nothing.
ReviewInit ==
    /\ \/ which \in {"store", "planning", "report"}
       \/ which \in {"artifacts", "view", "capture", "git", "patch"} /\ MaxFiles = 3
    /\ Init
    /\ PlanningInit /\ (which # "planning" => head = h1 /\ disk[3].text = 0)
    /\ \/ which = "report" /\ Reporting!Init
       \/ which # "report" /\ capture = None /\ plan = None /\ report = None /\ slips = None /\ result = None
    /\ \/ which = "artifacts" /\ Artifacts!Init
       \/ /\ which # "artifacts"
          /\ asked = None /\ sources = None /\ planned = None /\ bundle = None /\ honest = None /\ verdict = None
    /\ \/ which = "view" /\ Viewing!Init
       \/ /\ which # "view" /\ tree = None /\ objects = None /\ view = None /\ snapshot = None
          /\ liveNodes = None /\ live = None /\ source = None /\ turns = None
    /\ \/ which = "capture" /\ Capturing!Init
       \/ /\ which # "capture" /\ nodes = None /\ paths = None /\ staged = None /\ checkedOut = None
          /\ moved = None /\ acts = None /\ capturer = None
    /\ \/ which = "git" /\ Git!Init
       \/ which # "git" /\ call = None /\ child = None /\ out = None /\ err = None /\ context = None
    /\ \/ which = "patch" /\ Patch!Init
       \/ which # "patch" /\ text = None

ReviewNext ==
    /\ \/ which = "store" /\ Next
          /\ UNCHANGED <<planningVars, reportVars, captureVars, gitVars, text, artifactVars, viewVars>>
       \/ which = "planning" /\ PlanningNext
          /\ UNCHANGED <<vars, reportVars, captureVars, gitVars, text, artifactVars, viewVars>>
       \/ which = "report" /\ Reporting!Next
          /\ UNCHANGED <<vars, planningVars, captureVars, gitVars, text, artifactVars, viewVars>>
       \/ which = "capture" /\ Capturing!Next
          /\ UNCHANGED <<vars, planningVars, reportVars, gitVars, text, artifactVars, viewVars>>
       \/ which = "git" /\ Git!Next
          /\ UNCHANGED <<vars, planningVars, reportVars, captureVars, text, artifactVars, viewVars>>
       \/ which = "patch" /\ Patch!Next
          /\ UNCHANGED <<vars, planningVars, reportVars, captureVars, gitVars, artifactVars, viewVars>>
       \/ which = "artifacts" /\ Artifacts!Next
          /\ UNCHANGED <<vars, planningVars, reportVars, captureVars, gitVars, text, viewVars>>
       \/ which = "view" /\ Viewing!Next
          /\ UNCHANGED <<vars, planningVars, reportVars, captureVars, gitVars, text, artifactVars>>
    /\ UNCHANGED which

ReviewSpec ==
    ReviewInit
    /\ [][ReviewNext]_<<vars, planningVars, reportVars, captureVars, gitVars, text, artifactVars, viewVars, which>>

ReviewCovers == /\ which = "report" => Reporting!ReviewCovers
                /\ which = "artifacts" => Artifacts!PlanIsBound

\* What a capture is made of, and the view of the head it is planned on: the checkout
\* it read, the trees it wrote out, the answers of Git, the patch it parsed.
CaptureExact == /\ which = "capture" => Capturing!CaptureSound
                /\ which = "git" => Git!AnswerIsWhole
                /\ which = "patch" => Patch!PatchIsWhole
                /\ which = "view" => Viewing!ViewIsHead /\ Viewing!SourceIsBound

Symmetry == Permutations(Clients)
=============================================================================
