------------------------------- MODULE Evaluation -------------------------------
(***************************************************************************)
(* One output directory of the review evaluation (cmd/review-eval,          *)
(* internal/revieweval/run.go).  The collect phase runs every trial of the  *)
(* frozen schedule in a private copy of its prepared repository and keeps   *)
(* the records; adjudicators answer the blind input with a matrix of edges; *)
(* the score phase accepts a retained collection and a matrix, or refuses.  *)
(*                                                                         *)
(* Between any two steps the process may die, a prepared repository or the  *)
(* installed prowl-agent may change, the team may edit the protocol or the  *)
(* retained collection, and collect may run again over the same directory.  *)
(***************************************************************************)
EXTENDS EvaluationRules

CONSTANTS
    Manifests, Configs,   \* what the team writes
    Sets,                 \* the evaluation sets that are run
    TruthOf,              \* [case id -> [truth -> marks]]
    Findings,             \* the identifiers of the findings reviewers may report
    Source,                 \* the bytes of the file they are in, "nl" ending a line
    EndLine,              \* [finding -> the line it ends on]
    Outcomes,             \* [case id -> [condition -> what a client may do in the trial]]
    MaxEvents             \* bound: changes from outside and repeated collections

VARIABLES
    manifest, scoring,    \* the protocol files
    prepared,             \* [case id -> "pinned", "dirty", or "replaced": no longer the pinned commits]
    prowl,                \* the installed prowl-agent: "pinned" or "other"
    run,                  \* the collect phase that is running, or None
    input, collection,    \* adjudication-input.json and collection.json, or None
    verdict, report,      \* the matrix of the adjudicators and report.json, or None
    events

evaluationVars == <<manifest, scoring, prepared, prowl, run, input, collection, verdict, report, events>>

CaseNames == DOMAIN TruthOf
Production(set) == set = "held_out"
Keys(c) == {<<c, t>> : t \in DOMAIN TruthOf[c]}

(***************************************************************************)
(* Before the first trial of a collection.  The clients are taken to stay   *)
(* as they are: of the executables only prowl-agent changes.                *)
(***************************************************************************)
preflightToolchain(set) == Production(set) => prowl = "pinned"

\* HEAD, a clean worktree and the native churn of the pinned range.
verifyPreparedCase(c) == prepared[c] = "pinned"

(***************************************************************************)
(* One trial.  An outcome is what the client left behind: whether it ran to *)
(* the end and printed an output, the findings it accepted, and for a       *)
(* treatment the artifacts of its review: stored (the plan is the persisted *)
(* one), bound (report and result name it), scope (it is a review of the    *)
(* pinned range), covered (what deriveReceiptCoverage counts of two, None   *)
(* when it refuses the receipts), report, the stored status and the status  *)
(* a check gives now.  What Check and deriveReceiptCoverage do is in        *)
(* ReviewReport.                                                            *)
(***************************************************************************)
Units == 2   \* bound: the hunks and targets of a plan

\* A treatment has a private copy of the binary, a control a stub that fails.
installTreatment(condition) == IF condition = "treatment" THEN prowl ELSE None

Output(outcome) ==
    IF ~outcome.printed THEN None
    ELSE [completed |-> outcome.completed, recommendation |-> outcome.recommendation,
          findings |-> [f \in outcome.accepted |-> [verdict |-> "accepted"]]]

\* ValidateEvalOutput: only a treatment names artifacts, and a completed one must.
ValidOutput(outcome, condition) ==
    /\ condition = "control" => outcome.artifacts = None
    /\ condition = "treatment" /\ outcome.completed => outcome.artifacts # None

\* The last line counts whether a newline ends it or not.
hasLine(text, line) ==
    LET newlines == Len(SelectSeq(text, LAMBDA byte : byte = "nl"))
        unended  == IF text # <<>> /\ Last(text) # "nl" THEN 1 ELSE 0
    IN  line >= 1 /\ newlines + unended >= line

\* Each finding has one location, in the one file there is.
resolveLocations(findings) == Cardinality({f \in findings : hasLine(Source, EndLine[f])})

\* The status the private binary reports now, None if it has no answer: the
\* pinned commits are captured anew.
invokeReviewCheck(artifacts, c) == IF prepared[c] = "replaced" THEN None ELSE artifacts.now

validateCheckerArtifacts(artifacts, c, tool) ==
    LET complete == artifacts.covered = Units
    IN  IF /\ artifacts.stored /\ artifacts.bound /\ artifacts.scope
           /\ artifacts.covered # None /\ (artifacts.status = "complete" <=> complete)
           /\ tool = run.tool   \* the private binary is the one preflight hashed
           /\ invokeReviewCheck(artifacts, c) = artifacts.status
        THEN [status |-> artifacts.status, covered |-> artifacts.covered, total |-> Units]
        ELSE None

\* What the client prints is the report that was checked, finding by finding.
validateEvalReportBinding(outcome) ==
    /\ outcome.recommendation = outcome.artifacts.report.recommendation
    /\ outcome.accepted = outcome.artifacts.report.findings

Record(spec, outcome) ==
    LET tool    == installTreatment(spec.condition)
        valid   == outcome.printed /\ ValidOutput(outcome, spec.condition) /\ outcome.completed
        checker == IF valid /\ spec.condition = "treatment"
                   THEN validateCheckerArtifacts(outcome.artifacts, spec.case, tool) ELSE None
    IN  [case |-> spec.case, client |-> spec.client, condition |-> spec.condition,
         repetition |-> spec.repetition, output |-> Output(outcome), checker |-> checker,
         completed |-> /\ valid
                       /\ spec.condition = "treatment" =>
                              /\ checker # None /\ validateEvalReportBinding(outcome)
                              /\ checker.status = "complete",
         resolved |-> IF valid THEN resolveLocations(outcome.accepted) ELSE 0,
         tokens |-> IF outcome.printed THEN 1 ELSE 0,
         \* what the trial really ran on and left, for the properties
         tool |-> tool, on |-> prepared[spec.case], artifacts |-> outcome.artifacts]

\* BuildBlindAdjudicationInput: accepted findings of every output, failed or not,
\* with the cases they were reported for and neither client nor condition.
Blind(records, cases) ==
    [findings |-> {<<f, c>> \in Findings \X CaseNames :
                      \E i \in DOMAIN records : /\ records[i].case = c /\ records[i].output # None
                                                /\ f \in DOMAIN records[i].output.findings},
     truth |-> UNION {Keys(c) : c \in CaseIDs(cases)}]

(***************************************************************************)
(* Collect.                                                                 *)
(***************************************************************************)
Collect(set) ==
    /\ run = None
    /\ IF input = None THEN UNCHANGED events ELSE events < MaxEvents /\ events' = events + 1
    /\ Runnable(manifest, scoring, set)
    /\ preflightToolchain(set)
    /\ \A c \in CaseIDs(RunCases(manifest, scoring, set)) : verifyPreparedCase(c)
    /\ run' = [set |-> set, manifest |-> manifest, scoring |-> scoring, tool |-> prowl,
               order |-> Order(manifest, scoring, set), records |-> <<>>]
    /\ UNCHANGED <<manifest, scoring, prepared, prowl, input, collection, verdict, report>>

Trial ==
    /\ run # None /\ Len(run.records) < Len(run.order)
    /\ LET spec == run.order[Len(run.records) + 1] IN
           \E outcome \in Outcomes[spec.case][spec.condition] :
               run' = [run EXCEPT !.records = Append(@, Record(spec, outcome))]
    /\ UNCHANGED <<manifest, scoring, prepared, prowl, input, collection, verdict, report, events>>

Finished == run # None /\ Len(run.records) = Len(run.order)
BlindOfRun == Blind(run.records, RunCases(run.manifest, run.scoring, run.set))

WriteInput ==
    /\ Finished /\ input # BlindOfRun
    /\ input' = BlindOfRun
    /\ UNCHANGED <<manifest, scoring, prepared, prowl, run, collection, verdict, report, events>>

WriteCollection ==
    /\ Finished /\ input = BlindOfRun
    /\ collection' = [set |-> run.set, manifest |-> run.manifest, scoring |-> run.scoring, tool |-> run.tool,
                      order |-> run.order, trials |-> run.records, blind |-> BlindOfRun]
    /\ run' = None
    /\ UNCHANGED <<manifest, scoring, prepared, prowl, input, verdict, report, events>>

(***************************************************************************)
(* Score: validateCollection, ValidateAdjudication, the scores, the report. *)
(***************************************************************************)
CollectionAccepted(set) ==
    /\ collection.manifest = manifest /\ collection.scoring = scoring /\ collection.set = set
    /\ collection.order = Order(manifest, scoring, set)
    /\ Len(collection.trials) = Len(collection.order)
    /\ \A i \in DOMAIN collection.order :
           \A field \in DOMAIN collection.order[i] : collection.trials[i][field] = collection.order[i][field]
    /\ collection.blind = Blind(collection.trials, RunCases(manifest, scoring, set))
    /\ Production(set) => collection.tool = "pinned"

\* For the mutant: a matrix made for another collection of the same cases.
VerdictOfAnyRun ==
    \A e \in verdict.edges : e[2] \in collection.blind.truth /\ <<e[1], e[2][1]>> \in collection.blind.findings

VerdictAccepted ==
    /\ verdict.answers = collection.blind
    /\ \A e \in verdict.edges : e[2] \in collection.blind.truth /\ <<e[1], e[2][1]>> \in collection.blind.findings

TrialScore(i) ==
    LET r == collection.trials[i]
    IN  Score(r, [k \in Keys(r.case) |-> TruthOf[r.case][k[2]]], verdict.edges)

ScoreCollection(set) ==
    /\ report = None /\ collection # None /\ verdict # None /\ run = None
    /\ Runnable(manifest, scoring, set)
    /\ CollectionAccepted(set)
    /\ VerdictAccepted
    /\ LET scores == [i \in DOMAIN collection.trials |-> TrialScore(i)]
           metamorphic == {c.id : c \in {c \in ToSet(RunCases(manifest, scoring, set)) : c.meta}}
           triples == {{<<t.cases[i], t.truth>> : i \in 1..3} : t \in Selected(manifest, scoring)}
       IN  report' = [set |-> set, collection |-> collection, verdict |-> verdict, scores |-> scores,
                      gates |-> Gates(scores, metamorphic, triples, TRUE)]
    /\ UNCHANGED <<manifest, scoring, prepared, prowl, run, input, collection, verdict, events>>

(***************************************************************************)
(* The surroundings.                                                        *)
(***************************************************************************)
Crash ==
    /\ run # None /\ events < MaxEvents
    /\ run' = None /\ events' = events + 1
    /\ UNCHANGED <<manifest, scoring, prepared, prowl, input, collection, verdict, report>>

\* Blind adjudicators answer whatever input is in the directory.
Adjudicate ==
    /\ input # None /\ run = None /\ verdict = None
    /\ \E edges \in SUBSET {<<f[1], t>> : f \in input.findings, t \in input.truth} :
           verdict' = [answers |-> input, edges |-> edges]
    /\ UNCHANGED <<manifest, scoring, prepared, prowl, run, input, collection, report, events>>

EditProtocol ==
    /\ events < MaxEvents /\ events' = events + 1
    /\ \E m \in Manifests, s \in Configs : manifest' = m /\ scoring' = s /\ <<m, s>> # <<manifest, scoring>>
    /\ UNCHANGED <<prepared, prowl, run, input, collection, verdict, report>>

Disturb ==
    /\ events < MaxEvents /\ events' = events + 1
    /\ \/ \E c \in CaseNames, now \in {"dirty", "replaced"} :
              prepared[c] = "pinned" /\ prepared' = [prepared EXCEPT ![c] = now]
          /\ UNCHANGED prowl
       \/ prowl = "pinned" /\ prowl' = "other" /\ UNCHANGED prepared
    /\ UNCHANGED <<manifest, scoring, run, input, collection, verdict, report>>

\* A retained record is replaced by another one of the collection, or is lost.
EditCollection ==
    /\ collection # None /\ events < MaxEvents /\ events' = events + 1
    /\ \/ \E i, j \in DOMAIN collection.trials :
              i # j /\ collection' = [collection EXCEPT !.trials[i] = collection.trials[j]]
       \/ \E i \in DOMAIN collection.trials : \E f \in Findings :
              /\ collection.trials[i].output # None
              /\ collection' = [collection EXCEPT !.trials[i].output.findings =
                                    Restrict(@, DOMAIN @ \ {f})]
       \/ collection' = [collection EXCEPT !.trials = Front(@)] /\ collection.trials # <<>>
    /\ UNCHANGED <<manifest, scoring, prepared, prowl, run, input, verdict, report>>

Init ==
    /\ manifest \in Manifests /\ scoring \in Configs
    /\ prepared = [c \in CaseNames |-> "pinned"] /\ prowl = "pinned"
    /\ run = None /\ input = None /\ collection = None /\ verdict = None /\ report = None
    /\ events = 0

Next ==
    \/ \E set \in Sets : Collect(set) \/ ScoreCollection(set)
    \/ Trial \/ WriteInput \/ WriteCollection
    \/ Crash \/ Adjudicate \/ EditProtocol \/ Disturb \/ EditCollection

EvaluationSpec == Init /\ [][Next]_evaluationVars

(***************************************************************************)
(* Properties.                                                              *)
(***************************************************************************)
Matchings(pairs) == {m \in SUBSET pairs : \A p, q \in m : p # q => p[1] # q[1] /\ p[2] # q[2]}

\* The pairs that a trial is credited with are a largest one-to-one matching of
\* its accepted findings with the truths of its case, and of those the first in
\* the order of sorted pairs; every truth is found or missed, once.
CreditedBest ==
    report # None =>
        \A i \in DOMAIN report.scores :
            LET r == report.collection.trials[i]
                s == report.scores[i]
                pairs == IF r.output = None THEN {}
                         ELSE {e \in report.verdict.edges : e[1] \in DOMAIN r.output.findings /\ e[2][1] = r.case}
                mine == Match(r.output, Keys(r.case), report.verdict.edges)
            IN  /\ s.tp + s.fn = Cardinality(Keys(r.case)) /\ s.tp = Cardinality(s.matched)
                /\ IF ~s.completed THEN s.tp = 0 /\ s.fp = 0
                   ELSE /\ mine \in Matchings(pairs) /\ s.matched = {p[2] : p \in mine}
                        /\ \A m \in Matchings(pairs) :
                               /\ Cardinality(m) <= s.tp
                               /\ Cardinality(m) = s.tp /\ m # mine =>
                                      Sorted((m \cup mine) \ (m \cap mine))[1] \in mine

\* A report is about the whole frozen schedule of one set, no trial missing or
\* counted twice; its matrix answers exactly the findings it scores; a control
\* had no prowl-agent; a treatment that counts as completed ran the hashed
\* binary on the pinned commits, was found complete then and now, covers its plan
\* and printed the report that was checked; and the gates pass only if some truth
\* was matched more often with the review than without, and if every finding of
\* a completed treatment whose record nobody edited ends on a line there is.
Exists(line) == \E p \in DOMAIN Source : Cardinality({q \in 1..(p - 1) : Source[q] = "nl"}) = line - 1

ReportIsEarned ==
    report # None =>
        LET c == report.collection
            Hits(t, d) == Cardinality({i \in DOMAIN report.scores :
                              report.scores[i].condition = d /\ t \in report.scores[i].matched})
        IN  /\ Len(c.trials) = Cardinality(Matrix(c.manifest, c.scoring, report.set))
            /\ \A s \in Matrix(c.manifest, c.scoring, report.set) :
                   \E i \in DOMAIN c.trials : \A field \in DOMAIN s : c.trials[i][field] = s[field]
            /\ Production(report.set) =>
                   \A i \in DOMAIN c.trials : c.trials[i].case \in CaseIDs(c.manifest.heldOut)
            /\ report.verdict.answers = Blind(c.trials, RunCases(c.manifest, c.scoring, report.set))
            /\ \A i \in DOMAIN c.trials : c.trials[i].condition = "control" => c.trials[i].tool = None
            /\ \A i \in DOMAIN c.trials :
                   LET r == c.trials[i] IN
                   r.condition = "treatment" /\ report.scores[i].completed =>
                       /\ r.tool = c.tool /\ r.on # "replaced" /\ r.artifacts.scope
                       /\ r.artifacts.now = "complete" /\ r.checker.covered = r.checker.total
                       /\ r.output.recommendation = r.artifacts.report.recommendation
                       /\ DOMAIN r.output.findings \subseteq r.artifacts.report.findings
            /\ Passed(report.gates) =>
                   /\ \E t \in report.verdict.answers.truth : Hits(t, "treatment") > Hits(t, "control")
                   /\ \A i \in DOMAIN c.trials :
                          LET r == c.trials[i] IN
                          r.condition = "treatment" /\ report.scores[i].completed
                                /\ DOMAIN r.output.findings = r.artifacts.report.findings =>
                              \A f \in DOMAIN r.output.findings : Exists(EndLine[f])

EvaluationSound == CreditedBest /\ ReportIsEarned
=============================================================================
