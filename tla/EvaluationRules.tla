---------------------------- MODULE EvaluationRules ----------------------------
(***************************************************************************)
(* The pure part of the review evaluation (internal/revieweval: manifest.go, *)
(* run.go, matching.go, score.go, metamorphic.go): which manifests and      *)
(* scoring configurations are valid and the trials they schedule; one-to-one *)
(* matching of accepted findings with ground truth, the score of a trial,   *)
(* the pooled metrics of a condition and the shipping gates.                *)
(*                                                                         *)
(* A case is [id, identity, family, large, clean, truth, meta]: identity is *)
(* repository, base and head, family for what the variants of a triple share *)
(* (repository, base, class and the content of the truth), truth for the    *)
(* identifiers of its ground truth.  A triple is [id, truth, cases].  The   *)
(* wording of prompts, truths and protocol texts is left out.               *)
(*                                                                         *)
(* A finding is <<content, ordinal>>, which is what its SHA-256 identifier  *)
(* digests; the order of the digests is arbitrary, so findings are numbered *)
(* in that order.  A ground truth is <<case, number>>, its qualified key.   *)
(* Rates are fractions <<numerator, denominator>>, a zero denominator being *)
(* zero.                                                                    *)
(***************************************************************************)
EXTENDS Integers, Sequences, FiniteSets, SequencesExt

CONSTANTS
    Minimum,   \* production minimums: [base, clients, triples, repetitions]
    None       \* no output, no checker

(***************************************************************************)
(* The frozen protocol.                                                     *)
(***************************************************************************)
AllCases(m) == m.tuning \o m.heldOut
CaseIDs(cases) == {cases[i].id : i \in DOMAIN cases}
Distinct(seq) == \A i, j \in DOMAIN seq : seq[i] = seq[j] => i = j

CaseOf(cases, id) == CHOOSE c \in ToSet(cases) : c.id = id

\* validateSet: both sets share one table of identifiers and of identities.
ValidCases(cases) ==
    /\ Distinct([i \in DOMAIN cases |-> cases[i].id])
    /\ Distinct([i \in DOMAIN cases |-> cases[i].identity])
    /\ \A i \in DOMAIN cases : cases[i].large /\ cases[i].clean = (cases[i].truth = {})

ValidTriples(cases, triples) ==
    /\ Distinct([k \in DOMAIN triples |-> triples[k].id])
    /\ Distinct([k \in DOMAIN triples |-> triples[k].truth])
    /\ Distinct(FlattenSeq([k \in DOMAIN triples |-> triples[k].cases]))
    /\ \A k \in DOMAIN triples : \A i \in 1..3 :
           /\ triples[k].cases[i] \in CaseIDs(cases)
           /\ CaseOf(cases, triples[k].cases[i]).family = CaseOf(cases, triples[k].cases[1]).family
           /\ CaseOf(cases, triples[k].cases[i]).meta
           /\ triples[k].truth \in CaseOf(cases, triples[k].cases[i]).truth

\* A truth named by several cases is the truth of one triple, in its three cases.
Unambiguous(cases, triples) ==
    \A t \in UNION {cases[i].truth : i \in DOMAIN cases} :
        LET holders == {cases[i].id : i \in {i \in DOMAIN cases : t \in cases[i].truth}}
        IN  \/ Cardinality(holders) = 1
            \/ \E k \in DOMAIN triples : triples[k].truth = t /\ holders = ToSet(triples[k].cases)

OneSet(m) ==
    \A k \in DOMAIN m.triples :
        \/ ToSet(m.triples[k].cases) \subseteq CaseIDs(m.tuning)
        \/ ToSet(m.triples[k].cases) \subseteq CaseIDs(m.heldOut)

ValidManifest(m) ==
    /\ ValidCases(AllCases(m))
    /\ ValidTriples(AllCases(m), m.triples)
    /\ Unambiguous(AllCases(m), m.triples)
    /\ OneSet(m)

(***************************************************************************)
(* ValidateScoringConfig.  Outside production a configuration may name      *)
(* cases of both sets; the run refuses the ones of the other set.           *)
(***************************************************************************)
Triples(m, production) ==
    {m.triples[k] : k \in {k \in DOMAIN m.triples :
                              production => m.triples[k].cases[1] \in CaseIDs(m.heldOut)}}

ValidScoring(cfg, m, production) ==
    LET eligible == IF production THEN m.heldOut ELSE AllCases(m)
        base == {c.id : c \in {c \in ToSet(eligible) : ~c.meta}}
    IN  /\ cfg.base # <<>> /\ cfg.clients # <<>> /\ cfg.repetitions >= 1
        /\ Distinct(cfg.base) /\ ToSet(cfg.base) \subseteq base
        /\ Distinct(cfg.clients)
        /\ ToSet(cfg.triples) \subseteq {t.id : t \in Triples(m, production)}
        /\ production =>
               /\ cfg.repetitions = Minimum.repetitions
               /\ Len(cfg.clients) >= Minimum.clients /\ Len(cfg.base) >= Minimum.base
               /\ Len(cfg.triples) >= Minimum.triples
               /\ ToSet(cfg.base) = base
               /\ ToSet(cfg.triples) = {t.id : t \in Triples(m, production)}

(***************************************************************************)
(* The cases of a run and its trials.  The order is a shuffle that the      *)
(* seed determines; it is the same whenever it is computed again.           *)
(***************************************************************************)
Selected(m, cfg) == {m.triples[k] : k \in {k \in DOMAIN m.triples : m.triples[k].id \in ToSet(cfg.triples)}}
Wanted(m, cfg) == ToSet(cfg.base) \cup UNION {ToSet(t.cases) : t \in Selected(m, cfg)}

RunCases(m, cfg, set) ==
    LET available == IF set = "held_out" THEN m.heldOut ELSE m.tuning
    IN  SelectSeq(available, LAMBDA c : c.id \in Wanted(m, cfg))

Runnable(m, cfg, set) ==
    /\ ValidManifest(m) /\ ValidScoring(cfg, m, set = "held_out")
    /\ Wanted(m, cfg) \subseteq CaseIDs(RunCases(m, cfg, set))
    /\ RunCases(m, cfg, set) # <<>>

Matrix(m, cfg, set) ==
    {[case |-> c, client |-> k, condition |-> d, repetition |-> r] :
        c \in CaseIDs(RunCases(m, cfg, set)), k \in ToSet(cfg.clients),
        d \in {"control", "treatment"}, r \in 1..cfg.repetitions}

\* The shuffle of a matrix; any fixed listing stands for it.
Order(m, cfg, set) == FoldSet(LAMBDA spec, s : Append(s, spec), <<>>, Matrix(m, cfg, set))

(***************************************************************************)
(* Matching.                                                                *)
(***************************************************************************)
Accepted(output) == {f \in DOMAIN output.findings : output.findings[f].verdict = "accepted"}

\* sortPairs: by finding, then by truth.
Before(p, q) ==
    \/ p[1] < q[1]
    \/ p[1] = q[1] /\ p[2][1] < q[2][1]
    \/ p[1] = q[1] /\ p[2][1] = q[2][1] /\ p[2][2] < q[2][2]
Listing(S) == FoldSet(LAMBDA x, s : Append(s, x), <<>>, S)
Sorted(pairs) == SortSeq(Listing(pairs), Before)

\* augment: f takes the first of its truths that is free or whose holder finds another.
RECURSIVE Augment(_, _, _, _)
Augment(pairs, f, matched, seen) ==
    FoldLeft(LAMBDA acc, p :
                 LET t == p[2]
                     tried == acc.seen \cup {t}
                     moved == Augment(pairs, acc.matched[t], acc.matched, tried)
                 IN  IF acc.done \/ p[1] # f \/ t \in acc.seen THEN acc
                     ELSE IF t \notin DOMAIN acc.matched
                     THEN [done |-> TRUE, seen |-> tried, matched |-> (t :> f) @@ acc.matched]
                     ELSE [done |-> moved.done, seen |-> moved.seen,
                           matched |-> IF moved.done THEN (t :> f) @@ moved.matched ELSE moved.matched],
             [done |-> FALSE, seen |-> seen, matched |-> matched], pairs)

MaximumCardinality(pairs, blockedFindings, blockedTruth) ==
    LET free == SelectSeq(pairs, LAMBDA p : p[1] \notin blockedFindings /\ p[2] \notin blockedTruth)
        findings == SortSeq(Listing({free[i][1] : i \in DOMAIN free}), LAMBDA x, y : x < y)
    IN  Cardinality(DOMAIN FoldLeft(LAMBDA m, f : Augment(free, f, m, {}).matched, <<>>, findings))

\* Match: the smallest pair is taken whenever a maximum matching still remains.
Match(output, truth, edges) ==
    LET pairs  == Sorted({e \in edges : e[1] \in Accepted(output) /\ e[2] \in truth})
        target == MaximumCardinality(pairs, {}, {})
        Take(chosen, i) ==
            LET f == {c[1] : c \in chosen} \cup {pairs[i][1]}
                t == {c[2] : c \in chosen} \cup {pairs[i][2]}
                rest == SubSeq(pairs, i + 1, Len(pairs))
            IN  IF \/ pairs[i][1] \in {c[1] : c \in chosen} \/ pairs[i][2] \in {c[2] : c \in chosen}
                   \/ Cardinality(chosen) = target
                   \/ Cardinality(chosen) + 1 + MaximumCardinality(rest, f, t) < target
                THEN chosen
                ELSE chosen \cup {pairs[i]}
    IN  FoldLeftDomain(Take, {}, pairs)

(***************************************************************************)
(* The score of one trial: a trial that did not complete misses everything  *)
(* and accuses of nothing.  The approval of an incomplete or stale report   *)
(* is recorded first, whether the trial completed or not.                   *)
(***************************************************************************)
IncompleteEvidence(checker) ==
    checker = None \/ checker.status # "complete" \/ checker.covered # checker.total

Approves(record) == record.condition = "treatment" /\ record.output # None
                    /\ record.output.recommendation = "approve"

Score(record, truth, edges) ==
    LET completed == record.completed /\ record.output # None /\ record.output.completed
        pairs == IF completed THEN Match(record.output, DOMAIN truth, edges) ELSE {}
        hit == {p[2] : p \in pairs}
        Marked(mark, s) == Cardinality({t \in s : mark \in truth[t]})
        covered == completed /\ record.checker # None
        places == IF completed THEN Cardinality(Accepted(record.output)) ELSE 0
    IN  [case |-> record.case, condition |-> record.condition, client |-> record.client,
         tokens |-> record.tokens, completed |-> completed,
         tp |-> Cardinality(pairs), fn |-> Cardinality(DOMAIN truth) - Cardinality(pairs),
         fp |-> IF completed THEN Cardinality(Accepted(record.output)) - Cardinality(pairs) ELSE 0,
         crossTP |-> Marked("cross", hit), crossTotal |-> Marked("cross", DOMAIN truth),
         deletionTP |-> Marked("deletion", hit), deletionTotal |-> Marked("deletion", DOMAIN truth),
         matched |-> hit, locations |-> places,
         resolved |-> IF completed THEN Min({record.resolved, places}) ELSE 0,
         covered |-> IF covered THEN record.checker.covered ELSE 0,
         total |-> IF covered THEN record.checker.total ELSE 0,
         incomplete |-> Approves(record) /\ IncompleteEvidence(record.checker),
         stale |-> Approves(record) /\ record.checker # None /\ record.checker.status = "stale"]

(***************************************************************************)
(* Pooled metrics of one condition, metamorphic variants left out.          *)
(***************************************************************************)
Sum(scores, field) == FoldSeq(LAMBDA s, n : s[field] + n, 0, scores)

Pooled(scores, condition, metamorphic) ==
    SelectSeq(scores, LAMBDA s : s.condition = condition /\ s.case \notin metamorphic)

F1(scores)        == <<2 * Sum(scores, "tp"), 2 * Sum(scores, "tp") + Sum(scores, "fp") + Sum(scores, "fn")>>
Recall(scores)    == <<Sum(scores, "tp"), Sum(scores, "tp") + Sum(scores, "fn")>>
Precision(scores) == <<Sum(scores, "tp"), Sum(scores, "tp") + Sum(scores, "fp")>>

\* a - b >= n/100, a zero denominator making the fraction zero.
Whole(a) == IF a[2] = 0 THEN <<0, 1>> ELSE a
Exceeds(a, b, n) ==
    LET x == Whole(a)  y == Whole(b)
    IN  100 * (x[1] * y[2] - y[1] * x[2]) >= n * x[2] * y[2]
Above(a, b) == LET x == Whole(a)  y == Whole(b) IN x[1] * y[2] > y[1] * x[2]

\* metamorphicHitRate and the sensitivity of one triple of positions.
HitRate(scores, condition, t) ==
    LET ofCase == SelectSeq(scores, LAMBDA s : s.condition = condition /\ s.case = t[1])
    IN  <<Len(SelectSeq(ofCase, LAMBDA s : s.completed /\ t \in s.matched)), Len(ofCase)>>

\* ScoreMetamorphic: the mean over the triples of the widest gap between two positions.
Sensitivity(scores, condition, triples) ==
    LET Gap(triple) ==
            LET rates == {Whole(HitRate(scores, condition, t)) : t \in triple}
                top == CHOOSE r \in rates : \A q \in rates : ~Above(q, r)
                low == CHOOSE r \in rates : \A q \in rates : ~Above(r, q)
            IN  <<top[1] * low[2] - low[1] * top[2], top[2] * low[2]>>
        Plus(triple, a) == <<Gap(triple)[1] * a[2] + a[1] * Gap(triple)[2], Gap(triple)[2] * a[2]>>
        total == FoldSet(Plus, <<0, 1>>, triples)
    IN  <<total[1], total[2] * Cardinality(triples)>>

(***************************************************************************)
(* EvaluateShippingGates.  The bootstrap is a set of resampled differences; *)
(* the gate asks whether its lower percentile is above zero.                *)
(***************************************************************************)
Gates(scores, metamorphic, triples, bootstrapPositive) ==
    LET control   == Pooled(scores, "control", metamorphic)
        treatment == Pooled(scores, "treatment", metamorphic)
        base      == control \o treatment
        Under(condition) == SelectSeq(scores, LAMBDA s : s.condition = condition)
        OfClient(ss, i)  == SelectSeq(ss, LAMBDA s : s.client = base[i].client)
        treated   == Under("treatment")
        Part(ss, tp, total) == <<Sum(ss, tp), Sum(ss, total)>>
    IN  [completion |-> treated # <<>> /\ \A i \in DOMAIN treated : treated[i].completed,
         coverage |-> Sum(treated, "total") > 0 /\ Sum(treated, "covered") = Sum(treated, "total"),
         f1 |-> Exceeds(F1(treatment), F1(control), 10),
         bootstrap |-> bootstrapPositive,
         recall |-> Above(Recall(treatment), Recall(control)),
         cross |-> ~Above(Part(control, "crossTP", "crossTotal"), Part(treatment, "crossTP", "crossTotal")),
         deletion |-> ~Above(Part(control, "deletionTP", "deletionTotal"),
                             Part(treatment, "deletionTP", "deletionTotal")),
         precision |-> Exceeds(Precision(treatment), Precision(control), -5),
         position |-> /\ ~Above(Sensitivity(scores, "treatment", triples),
                                 Sensitivity(scores, "control", triples))
                      /\ ~Above(Sensitivity(scores, "treatment", triples), <<1, 10>>),
         tokens |-> 100 * Sum(treated, "tokens") <= 105 * Sum(Under("control"), "tokens"),
         clients |-> base # <<>> /\ \A i \in DOMAIN base : Above(F1(OfClient(treatment, i)), F1(OfClient(control, i))),
         locations |-> Sum(treated, "resolved") = Sum(treated, "locations"),
         approvals |-> \A i \in DOMAIN treated : ~treated[i].incomplete /\ ~treated[i].stale]

Passed(gates) == \A g \in DOMAIN gates : gates[g]
================================================================================
