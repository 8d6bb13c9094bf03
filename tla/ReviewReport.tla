---------------------------- MODULE ReviewReport ----------------------------
(***************************************************************************)
(* The report of a review against its plan: internal/review/check.go, with *)
(* the citation proofs unit.go stores beside the plan.  A reviewer writes   *)
(* an honest report and may slip; Check accepts it, finds it incomplete or  *)
(* refuses it.  That the workspace is still the planned one is in           *)
(* ReviewPlanning.                                                          *)
(*                                                                         *)
(* A finding is [id, causes, citations, verified, locations, verifier,      *)
(* reason, severity], the four in the middle sequences; a cause is          *)
(* <<kind, id>>, a citation the id of a record or <<"at", file>>, a         *)
(* location [kind, file, side, first, last, fresh].  A receipt is [owner,   *)
(* acked, findings, citations, blocking], its owner a unit or an audit.     *)
(***************************************************************************)
EXTENDS ReviewPlan

CONSTANTS
    Captures,    \* the captured diffs
    None,
    MaxFindings,    \* maxCheckFindingsV1
    MaxReceipts,    \* maxCheckReceiptsV1
    MaxItems,       \* maxCheckItemsPerFindingV1 and maxCheckItemsPerReceiptV1
    MaxPlanItems,   \* maxCheckPlanItemsV1
    MaxReferences,  \* maxCheckTotalReferencesV1
    Discussed,   \* bound of the runs: the Captures with a finding in their reports
    MaxSlips     \* bound of the runs: slips in one report, of one without findings

VARIABLES capture, plan, report, slips, result

vars == <<capture, plan, report, slips, result>>

Init ==
    /\ capture \in Captures
    /\ plan = None /\ report = None /\ slips = 0 /\ result = None

Build ==
    /\ plan = None
    /\ \E force \in BOOLEAN : plan' = BuildPlan(capture, force)
    /\ UNCHANGED <<capture, report, slips, result>>

-----------------------------------------------------------------------------
(* The records of the plan and what proves them.                           *)

Listing(S) == FoldSet(LAMBDA x, seq : Append(seq, x), <<>>, S)

AuditIDs  == {"removed_behavior", "contract_migration", "integration_gap", "test_matrix"}
Cohorts   == DOMAIN plan.layers
LayerIDs  == UNION {{<<"layer", fs, n>> : n \in DOMAIN plan.layers[fs]} : fs \in Cohorts}
Targets   == UNION {plan.audits[a] : a \in DOMAIN plan.audits}
PlanIDs   == {HunkID(h) : h \in HunksOf(capture)} \cup {PathID(f) : f \in FilesOf(capture)}
                \cup {UnitID(u) : u \in plan.units} \cup {CohortID(fs) : fs \in Cohorts}
                \cup LayerIDs \cup Targets

\* The proof of a hunk: the lines it has in the head, in the base if the head has
\* none of them, and the digest of its patch, which is taken as the hunk's name.
ProofOf(h) ==
    LET side  == IF Hunk(capture, h).head[2] = 0 THEN "base" ELSE "head"
        lines == Hunk(capture, h)[side]
    IN  [file |-> h[1], side |-> side, first |-> lines[1],
         last |-> lines[1] + Max({lines[2], 1}) - 1, patch |-> h]

Earliest(hs) == CHOOSE h \in hs : \A g \in hs : h[1] < g[1] \/ (h[1] = g[1] /\ h[2] <= g[2])
defaultCitationProof == IF HunksOf(capture) = {} THEN None ELSE ProofOf(Earliest(HunksOf(capture)))
Citation(id) == IF id \in {UnitID(u) : u \in plan.units} THEN ProofOf(Earliest(Range(id[2])))
                ELSE defaultCitationProof

At(f) == <<"at", f>>
ByPath(f) == {id \in PlanIDs : Citation(id) # None /\ Citation(id).file = f}

lookupCitationProof(cited) ==
    IF cited[1] = "at"
    THEN IF Cardinality(ByPath(cited[2])) = 1 THEN CHOOSE id \in ByPath(cited[2]) : TRUE ELSE None
    ELSE IF cited \in PlanIDs THEN cited ELSE None

\* The proof is that of some hunk; of a hunk it must be its own.
validateCitationProof(id) ==
    /\ id # None
    /\ LET proof == Citation(id) IN
        /\ proof # None /\ proof.first >= 1 /\ proof.first <= proof.last
        /\ IF id[1] = "hunk" THEN proof = ProofOf(<<id[2], id[3]>>)
           ELSE proof \in {ProofOf(h) : h \in HunksOf(capture)}

validateCitationSet(citations) ==
    /\ IsInjective(citations)
    /\ \A i \in DOMAIN citations : validateCitationProof(lookupCitationProof(citations[i]))

-----------------------------------------------------------------------------
(* What is refused before any of it is looked up: a report or a plan that   *)
(* is too large, and findings no reviewer could mean.                       *)

FindingSizes(fs) ==
    [i \in DOMAIN fs |-> <<Len(fs[i].causes), Len(fs[i].locations), Len(fs[i].citations), Len(fs[i].verified)>>]
ReceiptSizes(rs) ==
    [i \in DOMAIN rs |-> <<Len(rs[i].acked), Len(rs[i].citations), Len(rs[i].findings),
                           IF rs[i].blocking THEN 1 ELSE 0>>]

Sum(sizes)       == FoldLeft(+, 0, sizes)
Charged(all)     == FoldLeft(LAMBDA n, sizes : n + Sum(sizes), 0, all)
WithinItems(all) == \A i \in DOMAIN all : \A n \in Range(all[i]) : n <= MaxItems

preflightReportBounds ==
    LET findings == FindingSizes(report.findings)
        receipts == ReceiptSizes(report.receipts)
        audits   == ReceiptSizes(report.audits)
    IN  /\ Len(findings) <= MaxFindings /\ Len(receipts) <= MaxReceipts /\ Len(audits) <= MaxReceipts
        /\ WithinItems(findings) /\ WithinItems(receipts) /\ WithinItems(audits)
        /\ Charged(findings) + Charged(receipts) + Charged(audits) <= MaxReferences

\* The evidence offered with a unit is not in the model, and is not counted.
preflightArtifactBounds ==
    LET units == Listing(plan.units)
        audits == Listing(DOMAIN plan.audits)
        collections == <<Cardinality(FilesOf(capture)), Cardinality(FilesOf(capture)),  \* displayed, identity
                         Len(units), Len(units), Len(units), Len(units),    \* the same, candidates, mandatory
                         Len(audits), Len(audits), Cardinality(HunksOf(capture)), Cardinality(LayerIDs),
                         Cardinality(PlanIDs), Cardinality(PlanIDs)>>       \* records, citations
        hunks   == [i \in DOMAIN units |-> Len(units[i].hunks)]
        targets == [i \in DOMAIN audits |-> Cardinality(plan.audits[audits[i]])]
    IN  /\ \A n \in Range(collections) \cup Range(hunks) \cup Range(targets) : n <= MaxPlanItems
        /\ Sum(collections) + 2 * Sum(hunks) + Sum(targets) <= MaxReferences

Side == {"base", "head"}

LocationValidate(loc) ==
    /\ loc.kind \in {"range", "path"} /\ loc.side \in Side
    /\ IF loc.kind = "range" THEN loc.first >= 1 /\ loc.first <= loc.last
       ELSE loc.first = 0 /\ loc.last = 0

FindingValidate(f) ==
    /\ f.causes # <<>>
    /\ \A i \in DOMAIN f.causes : f.causes[i][1] \in {"primary_unit", "changed_path", "audit_target"}
    /\ f.locations # <<>> /\ \A i \in DOMAIN f.locations : LocationValidate(f.locations[i])
    /\ IF f.verifier = "rejected"
       THEN f.reason # None /\ f.verified # <<>> /\ f.citations # <<>>
       ELSE f.reason = None

validateReportShapeForCheck ==
    /\ report.recommendation \in {"approve", "comment", "request_changes", "incomplete"}
    /\ IsInjective([i \in DOMAIN report.findings |-> report.findings[i].id])
    /\ \A i \in DOMAIN report.findings : FindingValidate(report.findings[i])
    /\ \A i \in DOMAIN report.audits : report.audits[i].owner \in AuditIDs

-----------------------------------------------------------------------------
(* Findings.                                                               *)

HasHunk(f) == capture.files[f].hunks # <<>>
UnitsOf(h) == {UnitID(u) : u \in {u \in plan.units : h \in Range(u.hunks)}}

validCause(cause) ==
    CASE cause[1] = "primary_unit" -> cause[2] \in {UnitID(u) : u \in plan.units}
      [] cause[1] = "changed_path" -> cause[2] \in {PathID(f) : f \in FilesOf(capture)}
      [] cause[1] = "audit_target" -> cause[2] \in Targets

\* The hunks and the hunkless path a citation has to name to support a cause.
OwnedHunks(cause) ==
    LET id == cause[2] IN
    {h \in HunksOf(capture) :
        \/ HunkID(h) = id
        \/ id \in UnitsOf(h)
        \/ id[1] \in {"path", "target"} /\ id[2] = h[1]
        \/ id[1] = "cohort" /\ UnitsOf(h) \cap {UnitID(u) : u \in plan.unitsOf[id[2]]} # {}}
OwnedPaths(cause) ==
    LET id == cause[2] IN
    {f \in FilesOf(capture) : ~HasHunk(f) /\ id[1] \in {"path", "target"} /\ id[2] = f}
citationsSupportCause(cause, citations) ==
    \E cited \in Range(citations) : cited \in {HunkID(h) : h \in OwnedHunks(cause)}
                                        \cup {PathID(f) : f \in OwnedPaths(cause)}

\* normalizeDiffRanges: the changed lines of one side, adjacent ranges merged.
MergeRange(merged, range) ==
    IF merged = <<>> \/ range.first > Last(merged).last + 1 THEN Append(merged, range)
    ELSE [merged EXCEPT ![Len(merged)].last = Max({@, range.last})]
DiffRanges(f, side) ==
    LET hunks == SelectSeq(capture.files[f].hunks, LAMBDA h : h[side][2] > 0)
    IN  FoldLeft(MergeRange, <<>>,
            [i \in DOMAIN hunks |-> [first |-> hunks[i][side][1],
                                     last  |-> hunks[i][side][1] + hunks[i][side][2] - 1]])

\* The first range that does not end before the location.
locationInsideDiff(loc) ==
    LET ranges == DiffRanges(loc.file, loc.side)
        found  == SelectInSeq(ranges, LAMBDA r : r.last >= loc.first)
    IN  IF loc.kind = "path" THEN capture.files[loc.file].lines[loc.side] >= 0
        ELSE found > 0 /\ ranges[found].first <= loc.last

validLocation(loc) ==
    LET file == capture.files[loc.file] IN
    /\ file.lines[loc.side] >= 0 /\ loc.fresh
    /\ loc.kind = "range" => file.text /\ loc.last <= file.lines[loc.side]

validateFinding(finding) ==
    /\ finding.citations # <<>> /\ finding.verified # <<>>
    /\ IsInjective(finding.causes) /\ \A i \in DOMAIN finding.causes : validCause(finding.causes[i])
    /\ validateCitationSet(finding.citations) /\ validateCitationSet(finding.verified)
    /\ \A loc \in Range(finding.locations) :
        /\ validLocation(loc)
        /\ \/ locationInsideDiff(loc)
           \/ \A cause \in Range(finding.causes) : citationsSupportCause(cause, finding.citations)

validateFindings ==
    /\ \A finding \in Range(report.findings) : validateFinding(finding)
    /\ IsInjective(FlattenSeq([i \in DOMAIN report.findings |->
            [j \in DOMAIN report.findings[i].locations |->
                [report.findings[i].locations[j] EXCEPT !.fresh = TRUE]]]))

-----------------------------------------------------------------------------
(* Coverage.  A check yields the verdict of its first step that objects.    *)

First(verdicts) == LET bad == SelectSeq(verdicts, LAMBDA v : v # "complete")
                   IN  IF bad = <<>> THEN "complete" ELSE Head(bad)
Unless(ok, verdict) == IF ok THEN "complete" ELSE verdict

exactAcknowledgement(expected, acked) ==
    First(<<Unless(IsInjective(acked) /\ Range(acked) \subseteq expected, "invalid"),
            Unless(expected \subseteq Range(acked), "incomplete")>>)

validateReceiptFindingIDs(ids) ==
    Unless(/\ IsInjective(ids)
           /\ Range(ids) \subseteq {f.id : f \in Range(report.findings)}, "invalid")

validateReceipt(receipt, expected) ==
    First(<<exactAcknowledgement(expected, receipt.acked),
            validateReceiptFindingIDs(receipt.findings),
            Unless(validateCitationSet(receipt.citations), "invalid"),
            Unless(~receipt.blocking, "incomplete")>>)

\* expected: what each owner has to have acknowledged.
validateReceipts(receipts, expected) ==
    LET owners == [i \in DOMAIN receipts |-> receipts[i].owner]
        Of(owner) == receipts[SelectInSeq(receipts, LAMBDA r : r.owner = owner)]
        order  == Listing(DOMAIN expected)
    IN  IF ~(IsInjective(owners) /\ Range(owners) \subseteq DOMAIN expected) THEN "invalid"
        ELSE First([i \in DOMAIN order |->
                IF order[i] \in Range(owners)
                THEN validateReceipt(Of(order[i]), expected[order[i]]) ELSE "incomplete"])

ExpectedHunks == [id \in {UnitID(u) : u \in plan.units} |-> {HunkID(h) : h \in Range(id[2])}]

validateStructuredCoverage ==
    First(<<validateReceipts(report.receipts, ExpectedHunks),
            validateReceipts(report.audits, plan.audits)>>)

Unrejected(severity) ==
    \E finding \in Range(report.findings) :
        finding.verifier \in {"confirmed", "plausible"} /\ finding.severity = severity
validateRecommendationForCheck ==
    First(<<Unless(report.recommendation # "incomplete", "incomplete"),
            Unless(\A f \in Range(report.findings) : f.verifier # "unverified", "incomplete"),
            Unless(Unrejected("critical") => report.recommendation = "request_changes", "invalid"),
            Unless(Unrejected("major") => report.recommendation # "approve", "invalid")>>)

(* The answer: [mode, status, coverage, recommendation].                    *)

baseCheckResult(status, recommendation, coverage) ==
    [mode |-> IF plan.structured THEN "structured" ELSE "direct", status |-> status,
     recommendation |-> recommendation,
     coverage |-> IF plan.structured THEN coverage ELSE "not_required_direct"]

nonComplete(status) == baseCheckResult(status, "incomplete", "incomplete")

\* What is said of a report that no plan was loaded for.
bareInvalidResult ==
    [mode |-> "direct", status |-> "invalid", recommendation |-> "incomplete",
     coverage |-> "not_required_direct"]

Verdict == First(<<Unless(preflightArtifactBounds, "invalid"),
                   Unless(validateReportShapeForCheck, "invalid"),
                   Unless(report.ours, "invalid"),
                   Unless(validateFindings, "invalid"),
                   IF plan.structured THEN validateStructuredCoverage ELSE "complete",
                   validateRecommendationForCheck>>)

Check ==
    /\ report # None /\ result = None
    /\ result' = LET verdict == Verdict IN
                 IF ~preflightReportBounds THEN bareInvalidResult
                 ELSE IF verdict # "complete" THEN nonComplete(verdict)
                 ELSE baseCheckResult("complete", report.recommendation, "complete")
    /\ UNCHANGED <<capture, plan, report, slips>>

-----------------------------------------------------------------------------
(* What the evaluation of reviews derives from the same report on its own:  *)
(* report.Validate before it counts (internal/review/model.go), and the      *)
(* receipts it counts (internal/revieweval/run.go).                         *)

checkRecommendationConsistency ==
    \A f \in Range(report.findings) : f.verifier # "rejected" =>
        /\ f.severity = "critical" => report.recommendation \in {"request_changes", "incomplete"}
        /\ f.severity = "major" => report.recommendation # "approve"

ReportValidate == validateReportShapeForCheck /\ checkRecommendationConsistency

\* What one list of receipts acknowledges, [expected] being the owners' targets.
Countable(receipts, expected) ==
    /\ IsInjective([i \in DOMAIN receipts |-> receipts[i].owner])
    /\ \A i \in DOMAIN receipts : receipts[i].owner \in DOMAIN expected /\ IsInjective(receipts[i].acked)
Counted(receipts) == FoldLeft(LAMBDA n, r : n + Len(r.acked), 0, receipts)
Totalled(expected) == MapThenSumSet(LAMBDA owner : Cardinality(expected[owner]), DOMAIN expected)

\* None is a refusal.  Hunks are counted whether or not they are the unit's, unless
\* there are more than it has; a target must be its audit's.
deriveReceiptCoverage ==
    LET Fits(r) == Len(r.acked) <= Cardinality(ExpectedHunks[r.owner]) IN
    IF ~plan.structured
    THEN IF report.receipts = <<>> /\ report.audits = <<>> THEN <<0, 0, 0, 0>> ELSE None
    ELSE IF /\ Countable(report.receipts, ExpectedHunks) /\ Countable(report.audits, plan.audits)
            /\ \A r \in Range(report.audits) : Range(r.acked) \subseteq plan.audits[r.owner]
    THEN <<Counted(SelectSeq(report.receipts, Fits)), Totalled(ExpectedHunks),
           Counted(report.audits), Totalled(plan.audits)>>
    ELSE None

-----------------------------------------------------------------------------
(* The reviewer.                                                           *)

Receipt(owner, acked) ==
    [owner |-> owner, acked |-> acked, findings |-> <<>>, citations |-> <<>>, blocking |-> FALSE]

\* An honest report acknowledges all that it was asked to.
HonestReceipts(expected) ==
    LET owners == Listing(DOMAIN expected)
    IN  [i \in DOMAIN owners |-> Receipt(owners[i], Listing(expected[owners[i]]))]

WriteReport ==
    /\ plan # None /\ report = None
    /\ report' = [ours |-> TRUE, findings |-> <<>>, recommendation |-> "approve",
                  receipts |-> HonestReceipts(ExpectedHunks),
                  audits   |-> HonestReceipts(plan.audits)]
    /\ UNCHANGED <<capture, plan, slips, result>>

Locations ==
    UNION {{[kind |-> "path", file |-> f, side |-> s, first |-> 0, last |-> 0, fresh |-> fr] :
                s \in Side, fr \in BOOLEAN}
           \cup {[kind |-> "range", file |-> f, side |-> s, first |-> n, last |-> n, fresh |-> TRUE] :
                s \in Side, n \in 1..(1 + Max({capture.files[f].lines[side] : side \in Side}))}
           : f \in FilesOf(capture)}
Causes == {<<"primary_unit", UnitID(u)>> : u \in plan.units}
            \cup {<<"changed_path", PathID(f)>> : f \in FilesOf(capture)}
            \cup {<<"audit_target", t>> : t \in Targets}
            \cup {<<"audit_target", <<"hunk", 0, 0>>>>}
Cited  == PlanIDs \cup {At(f) : f \in FilesOf(capture)}

Finding(cause, cited, loc, verifier, severity) ==
    [id |-> 1, causes |-> <<cause>>, citations |-> <<cited>>, verified |-> <<cited>>,
     locations |-> <<loc>>, verifier |-> verifier, severity |-> severity,
     reason |-> IF verifier = "rejected" THEN "not_reachable" ELSE None]

ReportFinding ==
    /\ capture \in Discussed
    /\ report # None /\ result = None /\ report.findings = <<>> /\ slips = 0
    /\ \E cause \in Causes, cited \in Cited, loc \in Locations,
          verifier \in {"confirmed", "rejected", "unverified"}, severity \in {"critical", "minor"} :
        report' = [report EXCEPT !.findings = <<Finding(cause, cited, loc, verifier, severity)>>,
                        !.recommendation = IF severity = "critical" THEN "request_changes" ELSE @]
    /\ UNCHANGED <<capture, plan, slips, result>>

\* The slips of one list of receipts: one left out, one written twice, a doubt,
\* a stranger, an item left out, repeated or acknowledged in another receipt.
Slips(receipts) ==
    {RemoveAt(receipts, i) : i \in DOMAIN receipts}
    \cup UNION {{Append(receipts, receipts[i]), [receipts EXCEPT ![i].blocking = TRUE],
                 [receipts EXCEPT ![i].findings = <<9>>]} : i \in DOMAIN receipts}
    \cup UNION {{[receipts EXCEPT ![i].acked = Tail(@)], [receipts EXCEPT ![i].acked = Append(@, Head(@))]}
                  \cup {[receipts EXCEPT ![i].acked = Tail(@),
                                         ![k].acked = Append(@, Head(receipts[i].acked))]
                            : k \in DOMAIN receipts}
                : i \in {i \in DOMAIN receipts : receipts[i].acked # <<>>}}

\* Those of a finding: a part left out, a rejection without its reason or a reason
\* without a rejection, an inverted range, the finding reported again, under
\* its id or under another.
Carelessly(f) ==
    {<<[f EXCEPT !.causes = <<>>]>>, <<[f EXCEPT !.locations = <<>>]>>, <<[f EXCEPT !.citations = <<>>]>>,
     <<[f EXCEPT !.reason = IF @ = None THEN "not_reachable" ELSE None]>>,
     <<[f EXCEPT !.locations[1].first = @ + 1]>>, <<f, f>>}
      \cup {[i \in 1..n |-> [f EXCEPT !.id = i]] : n \in {2, 3}}

SlipInFinding ==
    /\ report # None /\ result = None /\ slips < MaxSlips
    /\ Len(report.findings) = 1 /\ report.findings[1].severity = "minor" /\ validateFindings
    /\ slips' = slips + 1
    /\ \E fs \in Carelessly(report.findings[1]) : report' = [report EXCEPT !.findings = fs]
    /\ UNCHANGED <<capture, plan, result>>

Slip ==
    /\ report # None /\ result = None /\ slips < MaxSlips /\ report.findings = <<>>
    /\ slips' = slips + 1
    /\ \/ report' = [report EXCEPT !.ours = FALSE]
       \/ \E r \in {"approve", "incomplete"} : report' = [report EXCEPT !.recommendation = r]
       \/ \E rs \in Slips(report.receipts) : report' = [report EXCEPT !.receipts = rs]
       \/ \E rs \in Slips(report.audits) : report' = [report EXCEPT !.audits = rs]
    /\ UNCHANGED <<capture, plan, result>>

Next == Build \/ WriteReport \/ ReportFinding \/ Slip \/ SlipInFinding \/ Check

Spec == Init /\ [][Next]_vars
-----------------------------------------------------------------------------
(* Nothing of the change is lost on the way into the plan: every hunk is in *)
(* exactly one unit, or too large for any and then, in structured mode, a   *)
(* target of an audit; a unit keeps to both caps unless it is one hunk; and *)
(* a file is in one layer of one cohort, in the cohort of all it is related *)
(* to and in no earlier layer than what it depends on (plan.go:185-252,     *)
(* cohorts.go:290-560).                                                     *)
PlanPartitions ==
    LET In(f) == {<<fs, n>> \in Cohorts \X (1..Cardinality(FilesOf(capture))) :
                    n \in DOMAIN plan.layers[fs] /\ f \in plan.layers[fs][n]}
        Layer(f) == (CHOOSE p \in In(f) : TRUE)[2]
    IN
    /\ \A h \in HunksOf(capture) :
        LET units == {u \in plan.units : h \in Range(u.hunks)} IN
        IF h \in plan.large
        THEN /\ units = {} /\ ~MandatoryUnitFits(capture, {h})
             /\ plan.structured => HunkID(h) \in plan.audits.integration_gap
        ELSE \E u \in units : units = {u} /\ IsInjective(u.hunks)
    /\ \A u \in plan.units :
        /\ u.hunks # <<>> /\ Range(u.hunks) \subseteq HunksOf(capture)
        /\ MandatoryUnitFits(capture, Range(u.hunks))
        /\ Total(capture, Range(u.hunks)) > LineCap => Len(u.hunks) = 1
        /\ \E fs \in Cohorts : u \in plan.unitsOf[fs] /\ \A h \in Range(u.hunks) : h[1] \in fs
    /\ \A f \in FilesOf(capture) : Cardinality(In(f)) = 1
    /\ \A e \in Includes(capture) :
        /\ \E fs \in Cohorts : {e[1], e[2]} \subseteq fs
        /\ Layer(e[2]) <= Layer(e[1]) \/ \E fs \in Cohorts : <<e[1], e[2]>> \in Before(capture, fs)

Acknowledged(receipts, id) ==
    Cardinality(UNION {{<<i, j>> : j \in {j \in DOMAIN receipts[i].acked : receipts[i].acked[j] = id}}
                            : i \in DOMAIN receipts})

(* An accepted structured report has acknowledged every hunk exactly once,  *)
(* in the receipt of the unit that owns it or as a target of the audits,    *)
(* and every target of every audit, and leaves nothing open.                *)
AcceptedCovers ==
    plan.structured =>
        /\ \A h \in HunksOf(capture) :
            /\ Acknowledged(report.receipts, HunkID(h)) = IF h \in plan.large THEN 0 ELSE 1
            /\ h \in plan.large => Acknowledged(report.audits, HunkID(h)) >= 1
        /\ \A r \in Range(report.receipts) : \A id \in Range(r.acked) : r.owner \in UnitsOf(<<id[2], id[3]>>)
        /\ \A a \in AuditIDs : \E r \in Range(report.audits) :
                r.owner = a /\ Range(r.acked) = plan.audits[a]
        /\ \A rs \in {report.receipts, report.audits} : \A i \in DOMAIN rs : ~rs[i].blocking

(* An accepted finding touches a line the change touched, or every cause of *)
(* it is a part of the plan that one of its citations shows a hunk of.      *)
Touches(loc) ==
    IF loc.kind = "path" THEN TRUE
    ELSE \E h \in Range(capture.files[loc.file].hunks), l \in loc.first..loc.last :
            l >= h[loc.side][1] /\ l < h[loc.side][1] + h[loc.side][2]
AcceptedIsAnchored ==
    \A finding \in Range(report.findings) :
        /\ finding.causes # <<>> /\ finding.locations # <<>>
        /\ finding.severity = "critical" /\ finding.verifier # "rejected"
                => report.recommendation = "request_changes" /\ finding.verifier = "confirmed"
        /\ \A loc \in Range(finding.locations), cause \in Range(finding.causes) :
            Touches(loc) \/ \E cited \in Range(finding.citations) :
                \/ /\ cited[1] = "hunk"
                   /\ LET h == <<cited[2], cited[3]>> IN
                      CASE cause[1] = "primary_unit" -> cause[2] \in UnitsOf(h)
                        [] cause[1] = "changed_path" -> cause[2] = PathID(h[1])
                        [] OTHER -> HunkID(h) = cause[2] \/ cause[2][1] \in {"unit", "cohort", "path", "target"}
                \/ cited[1] = "path" /\ ~HasHunk(cited[2])

(* An honest report of a plan that keeps to the bounds is accepted, with    *)
(* its recommendation.                                                      *)
HonestAccepted ==
    slips = 0 /\ report.findings = <<>> /\ preflightReportBounds /\ preflightArtifactBounds
        => result.status = "complete" /\ result.recommendation = report.recommendation

\* CheckResult.Validate: the combinations an answer may be.
ResultValidate ==
    /\ result.mode = "direct" <=> result.coverage = "not_required_direct"
    /\ IF result.status = "complete"
       THEN /\ result.recommendation # "incomplete"
            /\ result.mode = "structured" => result.coverage = "complete"
       ELSE result.recommendation = "incomplete"

(* An accepted report is valid to the evaluation too, and covers all of the *)
(* plan to it; of a direct review it may refuse receipts nobody asked for.  *)
AcceptedCounts ==
    /\ ReportValidate
    /\ LET counts == deriveReceiptCoverage IN
       IF counts = None THEN ~plan.structured
       ELSE counts[1] = counts[2] /\ counts[3] = counts[4]

(* What a review can be sure of when Check answers, and when it accepts.    *)
ReviewCovers ==
    /\ plan # None /\ report = None => PlanPartitions
    /\ result # None => ResultValidate /\ HonestAccepted
    /\ result # None /\ result.status = "complete" => AcceptedCovers /\ AcceptedIsAnchored /\ AcceptedCounts
=============================================================================
