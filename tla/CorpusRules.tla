------------------------------- MODULE CorpusRules -------------------------------
(***************************************************************************)
(* The pure part of corpus preparation (internal/revieweval/prepare.go and  *)
(* prepare_candidates.go): what is read out of the pinned sources and out   *)
(* of a Git range, and when the frozen files agree with each other.         *)
(*                                                                         *)
(* A commit is a number and stands for its object id; the digest of a value *)
(* is the value.  A change request, and the candidate made from it, is      *)
(* named by the number of the request; the digests that order a partition   *)
(* order these numbers.                                                     *)
(***************************************************************************)
EXTENDS Integers, Sequences, FiniteSets, SequencesExt, FiniteSetsExt, Functions

CONSTANTS
    None,
    Diff,                 \* [<<base, head>> -> Seq(path record)], the native diff of a range
    BinEdges,             \* <<300, 1000, 3000>>
    TuningSize, HeldOutSize   \* 12 and 30

(***************************************************************************)
(* A range of two commits.  A path record has its two paths and its hunks;  *)
(* a hunk its first lines and its body, one of " ", "-", "+" for each line. *)
(***************************************************************************)
OldLine(hunk, i) == hunk.old + Cardinality({j \in 1..(i - 1) : hunk.body[j] # "+"})
NewLine(hunk, i) == hunk.new + Cardinality({j \in 1..(i - 1) : hunk.body[j] # "-"})

\* The changed lines of one side, or of both, in the order of the patch.
Visited(record, hunk, side) ==
    FlattenSeq([i \in DOMAIN hunk.body |->
        CASE hunk.body[i] = "-" /\ side # "right" -> <<[path |-> record.old, line |-> OldLine(hunk, i)]>>
          [] hunk.body[i] = "+" /\ side # "left"  -> <<[path |-> record.new, line |-> NewLine(hunk, i)]>>
          [] OTHER -> <<>>])
ChangedLines(range, side) ==
    FlattenSeq([r \in DOMAIN Diff[range] |->
        FlattenSeq([h \in DOMAIN Diff[range][r].hunks |-> Visited(Diff[range][r], Diff[range][r].hunks[h], side)])])

\* A line joins the last range of its path unless it lies beyond the end of it.
Extended(ranges, at) ==
    IF ranges # <<>> /\ Last(ranges).path = at.path /\ at.line <= Last(ranges).to + 1
    THEN [ranges EXCEPT ![Len(ranges)].to = IF at.line > @ THEN at.line ELSE @]
    ELSE Append(ranges, [path |-> at.path, from |-> at.line, to |-> at.line])
ChangedRanges(range, side) == FoldLeft(Extended, <<>>, ChangedLines(range, side))

InChangedRange(place, ranges) ==
    /\ place.from > 0 /\ place.to >= place.from
    /\ \E i \in DOMAIN ranges : /\ ranges[i].path = place.path
                                /\ place.from >= ranges[i].from /\ place.to <= ranges[i].to

Churn(range) == Len(ChangedLines(range, "both"))
LargeChurn == BinEdges[1]
SizeBin(churn) == Cardinality({i \in DOMAIN BinEdges : churn > BinEdges[i]})

\* What a case states of its range: all of it is computed again by every check.
Facts(range) ==
    [base |-> range[1], head |-> range[2], churn |-> Churn(range), bin |-> SizeBin(Churn(range)),
     ranges |-> ChangedRanges(range, "both"), patch |-> range]

PathExists(commit, tree, path) == path \in tree[commit]

(***************************************************************************)
(* The benchmark of human review comments.  A raw row is one comment; the   *)
(* accepted rows of one pair of commits become one source row with one      *)
(* claim for each comment.                                                  *)
(***************************************************************************)
Accepted(raw) == {i \in DOMAIN raw : raw[i].label = 1 /\ raw[i].churn > LargeChurn /\ raw[i].base # raw[i].head}
Conflicting(raw) ==
    \E i, j \in Accepted(raw) : /\ raw[i].base = raw[j].base /\ raw[i].head = raw[j].head
                                /\ <<raw[i].pr, raw[i].churn>> # <<raw[j].pr, raw[j].churn>>
Claim(raw, i) == [ordinal |-> i, side |-> raw[i].side, path |-> raw[i].path,
                  from |-> raw[i].from, to |-> raw[i].to, human |-> raw[i].human]
ImportRows(raw) ==
    {[pr |-> raw[i].pr, base |-> raw[i].base, head |-> raw[i].head,
      claims |-> {Claim(raw, j) : j \in {j \in Accepted(raw) : raw[j].base = raw[i].base /\ raw[j].head = raw[i].head}}]
        : i \in Accepted(raw)}

HumanClaim(row) == \E c \in row.claims : c.human

\* A claim about the old side counts only where the request started at the base
\* of the range.
NativeCoordinates(claim, row, base) == claim.side = "right" \/ row.base = base
AuditOf(row, base, tree) ==
    {[claim |-> c, exists |-> PathExists(IF c.side = "right" THEN row.head ELSE row.base, tree, c.path),
      changed |-> /\ NativeCoordinates(c, row, base)
                  /\ InChangedRange(c, ChangedRanges(<<base, row.head>>, c.side))] : c \in row.claims}
EligibleClaims(row, base, tree) ==
    {a.claim.ordinal : a \in {a \in AuditOf(row, base, tree) : a.claim.human /\ a.exists /\ a.changed}}

\* The candidate of a row, once its base is known.
RecordOf(row, base, tree) ==
    [id |-> row.pr, row |-> row, facts |-> Facts(<<base, row.head>>), eligible |-> EligibleClaims(row, base, tree)]

ValidRecord(record) ==
    /\ HumanClaim(record.row)
    /\ record.eligible # {} /\ record.eligible \subseteq {c.ordinal : c \in {c \in record.row.claims : c.human}}
    /\ record.facts.head = record.row.head /\ record.facts.base # record.facts.head
    /\ record.facts.churn > LargeChurn /\ record.facts.bin = SizeBin(record.facts.churn)
    /\ record.facts.ranges # <<>> /\ record.facts.patch = <<record.facts.base, record.facts.head>>

(***************************************************************************)
(* The benchmark of small changes.  The range of a change request that      *)
(* introduced a problem ends at the first introducing commit among its own, *)
(* and begins at the commit before it.                                      *)
(***************************************************************************)
IntroducingRange(record) ==
    LET inside == {i \in DOMAIN record.changes : \E k \in DOMAIN record.commits : record.commits[k] = record.changes[i]}
    IN  IF inside = {} THEN None
        ELSE LET k == SelectInSeq(record.commits, LAMBDA c : c = record.changes[Min(inside)])
             IN  <<IF k = 1 THEN record.base ELSE record.commits[k - 1], record.commits[k]>>
SmallRange(record) ==
    IF record.introduced THEN IntroducingRange(record) ELSE <<record.base, Last(record.commits)>>
ImportSmall(records) ==
    {[id |-> r.id, clean |-> ~r.introduced, facts |-> Facts(SmallRange(r))] :
        r \in {r \in ToSet(records) : SmallRange(r) # None}}

(***************************************************************************)
(* The pool and its partition.                                              *)
(***************************************************************************)
ValidPool(pool) ==
    /\ \A r \in pool.records : ValidRecord(r)
    /\ \A r, s \in pool.records : r # s => r.id # s.id /\ r.facts.patch # s.facts.patch

InOrder(records) == SortSeq(SetToSortSeq(records, LAMBDA a, b : a.id < b.id), LAMBDA a, b : a.id < b.id)
TuningCount(pool)  == Min({TuningSize, Cardinality(pool.records)})
HeldOutCount(pool) == Min({HeldOutSize, Cardinality(pool.records) - TuningCount(pool)})
Partition(pool) ==
    LET ordered == InOrder(pool.records)
    IN  [tuning   |-> ToSet(SubSeq(ordered, 1, TuningCount(pool))),
         held_out |-> ToSet(SubSeq(ordered, TuningCount(pool) + 1, TuningCount(pool) + HeldOutCount(pool)))]

RejectedStayOut(pool, rejections) == \A r \in pool.records : r.row.pr \notin rejections.of

(***************************************************************************)
(* The audit of a case: each of two reviewers, or an adjudicator, answers   *)
(* for the same bytes.                                                      *)
(***************************************************************************)
ValidEvidence(case, evidence, role) ==
    /\ evidence.case = case.id /\ evidence.role = role
    /\ evidence.findings = case.truth /\ evidence.patch = case.facts.patch /\ evidence.row = case.row

Approved(case) ==
    /\ Len(case.decisions) = 2
    /\ \A d \in ToSet(case.decisions) : ValidEvidence(case, d, "reviewer")
    /\ case.decisions[1].actor # case.decisions[2].actor
    /\ IF case.decisions[1].says = case.decisions[2].says
       THEN case.decisions[1].says = "approved" /\ case.adjudication = None
       ELSE /\ case.adjudication # None /\ case.adjudication.says = "approved"
            /\ case.adjudication.actor \notin {d.actor : d \in ToSet(case.decisions)}
            /\ ValidEvidence(case, case.adjudication, "adjudicator")

\* A truth keeps the place of the eligible claim it was made from.
ValidCase(case) ==
    /\ case.facts = Facts(case.facts.patch) /\ case.facts.churn > LargeChurn
    /\ case.truth # {} /\ \A t \in case.truth : InChangedRange(t, case.facts.ranges)
MatchesRecord(case, record) ==
    /\ case.id = record.id /\ case.row = record.row /\ case.facts = record.facts
    /\ ValidCase(case) /\ Approved(case)
    /\ \A t \in case.truth : \E c \in record.row.claims :
           c.ordinal = t.ordinal /\ c.ordinal \in record.eligible /\ c.path = t.path /\ c.from = t.from /\ c.to = t.to

MembersMatch(corpus, expected) ==
    /\ corpus.queue \subseteq expected
    /\ \A c \in corpus.cases : \E r \in expected : MatchesRecord(c, r)
    /\ {r.id : r \in corpus.queue} \cup {c.id : c \in corpus.cases} = {r.id : r \in expected}

Ranges(corpus) == {<<r.id, r.facts.patch>> : r \in corpus.queue} \cup {<<c.id, c.facts.patch>> : c \in corpus.cases}
ValidPartitions(tuning, heldOut, small, pool) ==
    /\ tuning.pool = pool /\ heldOut.pool = pool
    /\ Cardinality(tuning.queue) + Cardinality(tuning.cases) = TuningCount(pool)
    /\ Cardinality(heldOut.queue) + Cardinality(heldOut.cases) = HeldOutCount(pool)
    /\ MembersMatch(tuning, Partition(pool).tuning)
    /\ MembersMatch(heldOut, Partition(pool).held_out)
    /\ \A a \in Ranges(tuning), b \in Ranges(heldOut) : a[1] # b[1] /\ a[2] # b[2]
    /\ \A a \in Ranges(tuning) \cup Ranges(heldOut), s \in small : a[1] # s.id /\ a[2] # s.facts.patch

(***************************************************************************)
(* The audit packets: one for each source row.                              *)
(***************************************************************************)
Packet(row, disposition, blocker, base, audits) ==
    [row |-> row, disposition |-> disposition, blocker |-> blocker, base |-> base, audits |-> audits]
RejectedPacket(row) == Packet(row, "rejected", "rejected_by_audit", None, {})
CandidatePacket(row, base, tree) == Packet(row, "audit_required", "semantic_audit_required", base, AuditOf(row, base, tree))

ValidQuarantine(p) ==
    /\ p.disposition = "quarantined"
    /\ CASE p.blocker = "no_human_claim" -> p.base = None /\ ~HumanClaim(p.row) /\ p.audits = {}
         [] p.blocker = "no_eligible_human_claim" ->
                /\ p.base # None /\ HumanClaim(p.row)
                /\ {a.claim : a \in p.audits} = p.row.claims
                /\ ~\E a \in p.audits : a.claim.human /\ a.exists /\ a.changed
         [] p.blocker \in {"native_base_unavailable", "churn_not_large"} -> p.base # None /\ p.audits = {}
         [] p.blocker \in {"source_oid_unavailable", "merge_base_bounded"} -> p.base = None /\ p.audits = {}
         [] OTHER -> FALSE

ValidPackets(packets, rows, rejections, pool, tuning, heldOut) ==
    /\ packets.sources = pool.sources /\ packets.rejections = rejections /\ packets.pool = pool
    /\ tuning.queue = Partition(pool).tuning /\ heldOut.queue = Partition(pool).held_out
    /\ packets.deficits = <<TuningSize - TuningCount(pool), HeldOutSize - HeldOutCount(pool)>>
    /\ {p.row : p \in packets.packets} = rows /\ Cardinality(packets.packets) = Cardinality(rows)
    /\ \A p \in packets.packets :
           IF p.row.pr \in rejections.of THEN p = RejectedPacket(p.row)
           ELSE IF \E r \in pool.records : r.id = p.row.pr
                THEN \E r \in pool.records :
                        /\ r.id = p.row.pr
                        /\ p.disposition = "audit_required" /\ p.base = r.facts.base
                        /\ {a.claim : a \in p.audits} = r.row.claims
                        /\ {a.claim.ordinal : a \in {a \in p.audits : a.claim.human /\ a.exists /\ a.changed}} = r.eligible
                ELSE ValidQuarantine(p)
=============================================================================
