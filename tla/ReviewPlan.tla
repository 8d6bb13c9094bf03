----------------------------- MODULE ReviewPlan -----------------------------
(***************************************************************************)
(* How a captured diff becomes a review plan: internal/review/cohorts.go    *)
(* (graph facts, cohorts, dependency layers) and plan.go (packing of hunks  *)
(* into units, audits, coverage).  The functions of one plan; ReviewReport  *)
(* is the state machine around them.                                        *)
(*                                                                         *)
(* A capture is [files, includes, tests, clusters, failing]: files is a     *)
(* sequence in the order of the paths, of [text, roles, hunks, symbols,     *)
(* lines]; includes and tests are pairs of its indices the graph relates,   *)
(* clusters a set of sets of them, and failing the files the queries of the *)
(* graph fail for.  A hunk is [base, head, dels, adds, bytes] with   *)
(* the <<start, count>> of its two sides; its name is <<file, position>>.   *)
(* lines is the length of each side, -1 where the file is absent.           *)
(***************************************************************************)
EXTENDS Integers, SequencesExt

CONSTANTS
    LineCap,         \* MaxUnitChangedLinesV1
    MandatoryCap,    \* MaxUnitMandatoryJSONBytesV1
    Overhead,        \* the bytes of a unit without hunks
    Threshold        \* StructuredThresholdV1; all four are numbers

FilesOf(c)   == DOMAIN c.files
HunksOf(c)   == UNION {{<<f, i>> : i \in DOMAIN c.files[f].hunks} : f \in FilesOf(c)}
Hunk(c, h)   == c.files[h[1]].hunks[h[2]]
Churn(c, h)  == Hunk(c, h).adds + Hunk(c, h).dels
Total(c, hs) == FoldFunction(+, 0, [h \in hs |-> Churn(c, h)])

-----------------------------------------------------------------------------
(* Facts of the graph (EnrichGraph, deriveFileRoles).                       *)

Knows(c, f)  == f \notin c.failing
Roles(c, f)  == IF Knows(c, f) THEN c.files[f].roles
                ELSE (c.files[f].roles \ {"implementation", "contract", "consumer"}) \cup {"unknown"}
IsMechanical(c, fs) == \A f \in fs : "mechanical" \in Roles(c, f)

\* An edge is seen from either end whose relations are known.
Includes(c) == {e \in c.includes : Knows(c, e[1]) \/ Knows(c, e[2])}
Tests(c)    == {e \in c.tests : Knows(c, e[1])}

\* The smallest set around f that the relation does not leave.
Closure(S, R, f) == {g \in S : \A C \in SUBSET S :
                        f \in C /\ (\A e \in R : e[1] \in C => e[2] \in C) => g \in C}

-----------------------------------------------------------------------------
(* BuildFileCohorts: what the graph relates is reviewed together, and all   *)
(* purely mechanical components become one cohort.                          *)

Related(c) ==
    LET pairs == Includes(c) \cup Tests(c) \cup UNION {K \X K : K \in c.clusters}
    IN  pairs \cup {<<e[2], e[1]>> : e \in pairs}

BuildFileCohorts(c) ==
    LET components == {Closure(FilesOf(c), Related(c), f) : f \in FilesOf(c)}
        mechanical == {C \in components : IsMechanical(c, C)}
    IN  (components \ mechanical) \cup (IF mechanical = {} THEN {} ELSE {UNION mechanical})

\* dependencyLayers: dependencies before dependents and tests; the files of a
\* cycle share a layer.
Before(c, fs) ==
    {e \in fs \X fs : e[1] # e[2] /\ (<<e[2], e[1]>> \in Includes(c) \/ e \in Tests(c))}

Depth(c, fs) ==
    LET R == Before(c, fs)
        Cycle(f) == {g \in fs : g \in Closure(fs, R, f) /\ f \in Closure(fs, R, g)}
        Cycles == {Cycle(f) : f \in fs}
        Preceding(K) == {J \in Cycles \ {K} : \E j \in J, k \in K : <<j, k>> \in R}
        depth[K \in Cycles] ==
            IF Preceding(K) = {} THEN 0 ELSE 1 + Max({depth[J] : J \in Preceding(K)})
    IN  [f \in fs |-> depth[Cycle(f)]]

dependencyLayers(c, fs) ==
    LET depth == Depth(c, fs)
    IN  [n \in 1..(1 + Max({depth[f] : f \in fs})) |-> {f \in fs : depth[f] = n - 1}]

-----------------------------------------------------------------------------
(* Packing.                                                                *)

\* partitionPackHunks: the hunks of a layer by path, then by position.
partitionPackHunks(c, layer) ==
    FlattenSeq([i \in 1..Cardinality(layer) |->
        LET f == SetToSortSeq(layer, <)[i]
        IN  [j \in DOMAIN c.files[f].hunks |-> <<f, j>>]])

Bytes(c, hs) == Overhead + FoldFunction(+, 0, [h \in hs |-> Hunk(c, h).bytes])
MandatoryUnitFits(c, hs) == Bytes(c, hs) <= MandatoryCap

Unit(kind, hs) == [kind |-> kind, hunks |-> hs]
Flushed(s) == IF s.current = <<>> THEN s.packed ELSE Append(s.packed, Unit("normal", s.current))

(* Mutant of PackHunk: a hunk too large for any unit drops the current one. *)
PackHunkUnflushed(c, s, h) ==
    LET both == Range(s.current) \cup {h} IN
    CASE ~MandatoryUnitFits(c, {h}) ->
            [packed |-> s.packed, large |-> s.large \cup {h}, current |-> <<>>]
      [] MandatoryUnitFits(c, {h}) /\ Churn(c, h) > LineCap ->
            [packed |-> Append(Flushed(s), Unit("oversized_atomic", <<h>>)),
             large |-> s.large, current |-> <<>>]
      [] OTHER ->
            IF Total(c, both) > LineCap \/ ~MandatoryUnitFits(c, both)
            THEN [packed |-> Flushed(s), large |-> s.large, current |-> <<h>>]
            ELSE [s EXCEPT !.current = Append(s.current, h)]

\* One hunk of the greedy pass: too large for any unit; a unit of its own,
\* over the line cap; or added to the current unit when both caps allow.
PackHunk(c, s, h) ==
    LET both == Range(s.current) \cup {h} IN
    CASE ~MandatoryUnitFits(c, {h}) ->
            [packed |-> Flushed(s), large |-> s.large \cup {h}, current |-> <<>>]
      [] MandatoryUnitFits(c, {h}) /\ Churn(c, h) > LineCap ->
            [packed |-> Append(Flushed(s), Unit("oversized_atomic", <<h>>)),
             large |-> s.large, current |-> <<>>]
      [] OTHER ->
            IF Total(c, both) > LineCap \/ ~MandatoryUnitFits(c, both)
            THEN [packed |-> Flushed(s), large |-> s.large, current |-> <<h>>]
            ELSE [s EXCEPT !.current = Append(s.current, h)]

PackReviewPartition(c, hunks) ==
    LET s == FoldLeft(LAMBDA acc, h : PackHunk(c, acc, h),
                      [packed |-> <<>>, large |-> {}, current |-> <<>>], hunks)
    IN  [packed |-> Flushed(s), large |-> s.large]

-----------------------------------------------------------------------------
(* Audits and the plan.                                                    *)

HunkID(h)     == <<"hunk", h[1], h[2]>>
PathID(f)     == <<"path", f>>
UnitID(u)     == <<"unit", u.hunks>>
\* The code hashes a key (the label of a cluster, a path or a directory) with the
\* ids of the units (cohorts.go); here a cohort is named by its files.  Two
\* clusters of one label that both have no unit would share an id there, and
\* the plan would be refused as inconsistent: that is left out.
CohortID(fs)  == <<"cohort", fs>>
TargetID(f, kind) == <<"target", f, kind>>

\* ModeForChurn.
Structured(c, force) == force \/ Total(c, HunksOf(c)) > Threshold

unitNeedsTestAudit(c, f) ==
    /\ {"test", "mechanical"} \cap Roles(c, f) = {}
    /\ {"implementation", "contract", "operations", "consumer"} \cap Roles(c, f) # {}

RemovedBehavior(c) ==
    {HunkID(h) : h \in {h \in HunksOf(c) : Hunk(c, h).dels > 0}}
      \cup {TargetID(f, "removed") : f \in {f \in FilesOf(c) : "removed" \in c.files[f].symbols}}

ContractMigration(c) ==
    UNION {{TargetID(f, k) : k \in c.files[f].symbols} : f \in FilesOf(c)}

IntegrationGap(c, cohorts, large) ==
    {HunkID(h) : h \in large}
      \cup {PathID(f) : f \in {f \in FilesOf(c) : IsMechanical(c, {f}) \/ ~c.files[f].text
                                      \/ \A i \in DOMAIN c.files[f].hunks : <<f, i>> \in large}}
      \cup {CohortID(fs) : fs \in cohorts}

TestMatrix(c, units) ==
    {UnitID(u) : u \in {u \in units : \E h \in Range(u.hunks) : unitNeedsTestAudit(c, h[1])}}

Coverage(c, large) ==
    [f \in FilesOf(c) |->
        IF ~c.files[f].text THEN "none"
        ELSE IF \E h \in large : h[1] = f THEN "partial" ELSE "full"]

\* Build.  In direct mode there is neither cohort nor audit.
BuildPlan(c, force) ==
    LET Packs(layersOf) ==
            [p \in UNION {{<<fs, n>> : n \in DOMAIN layersOf[fs]} : fs \in DOMAIN layersOf} |->
                PackReviewPartition(c, partitionPackHunks(c, layersOf[p[1]][p[2]]))]
        Audits(cohorts, units, large) ==
            [removed_behavior   |-> RemovedBehavior(c),
             contract_migration |-> ContractMigration(c),
             integration_gap    |-> IntegrationGap(c, cohorts, large),
             test_matrix        |-> TestMatrix(c, units)]
        Finished(structured, layersOf, packs, units, large) ==
            [structured |-> structured, layers |-> layersOf, units |-> units, large |-> large,
             unitsOf  |-> [fs \in DOMAIN layersOf |->
                              UNION {Range(packs[<<fs, n>>].packed) : n \in DOMAIN layersOf[fs]}],
             coverage |-> Coverage(c, large),
             audits   |-> IF structured THEN Audits(DOMAIN layersOf, units, large) ELSE <<>>]
        Packed(layersOf, packs) ==
            Finished(Structured(c, force), layersOf, packs,
                     UNION {Range(packs[p].packed) : p \in DOMAIN packs},
                     UNION {packs[p].large : p \in DOMAIN packs})
        Layered(layersOf) == Packed(layersOf, Packs(layersOf))
    IN  Layered([fs \in BuildFileCohorts(c) |-> dependencyLayers(c, fs)])
=============================================================================
