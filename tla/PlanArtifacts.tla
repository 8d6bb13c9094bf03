--------------------------- MODULE PlanArtifacts ---------------------------
(***************************************************************************)
(* The bundle a review plan is stored as, and what binds it together:       *)
(* internal/review/identity.go (ids, the identity of a plan), plan.go (the  *)
(* plan the planner finishes), unit.go (replayArtifacts) and persist.go     *)
(* (what Save, Load and Check verify before they trust a bundle).           *)
(*                                                                         *)
(* An id is [kind, of]: a digest of the canonical bytes `of', taken as      *)
(* injective, of which the public id is a prefix (that prefixes collide is  *)
(* in PlanStore).  The sources of a file are read when the plan is built    *)
(* and again when its artifacts are; they yield the symbols of the file.    *)
(***************************************************************************)
EXTENDS ReviewPlan

CONSTANTS
    Diffs,       \* the captured diffs, as in ReviewPlan
    None

VARIABLES
    asked,       \* the request: [diff, scope, force]
    sources,     \* the symbols of each file as they can be read now
    planned,     \* the plan of the planner
    bundle,      \* its artifacts
    honest,      \* the bundles its parts come from, as they were made
    verdict      \* of the store

vars == <<asked, sources, planned, bundle, honest, verdict>>

Init ==
    /\ asked \in [diff : Diffs, scope : {"workspace", "commit"}, force : BOOLEAN]
    /\ sources = [f \in FilesOf(asked.diff) |-> asked.diff.files[f].symbols]
    /\ planned = None /\ bundle = None /\ honest = {} /\ verdict = None

-----------------------------------------------------------------------------
(* Ids (identity.go).                                                      *)

Id(kind, of) == [kind |-> kind, of |-> of]

Side(kind, of) == [kind |-> kind, of |-> of]
SideOf(scope, diff) == IF scope = "workspace" THEN Side("workspace_sha256", diff.files) ELSE Side("git_oid", "head")

RawPathRecord(c, f) ==
    [path |-> f, hunks |-> c.files[f].hunks,
     status |-> CASE c.files[f].lines.base < 0 -> "added"
                  [] c.files[f].lines.head < 0 -> "deleted"
                  [] OTHER -> "modified"]
CanonicalPatch(records) == SortSeq(records, LAMBDA a, b : a.path < b.path)

\* A scope and its digest.
Scope(kind, base, head, records) ==
    [kind |-> kind, base |-> base, head |-> head, patch |-> CanonicalPatch(records)]
ScopeOf(c, kind) ==
    Scope(kind, Side("git_oid", "base"), SideOf(kind, c), [f \in FilesOf(c) |-> RawPathRecord(c, f)])

IdOfPath(scope, record)                 == Id("p", <<scope, record>>)
IdOfHunk(scope, path, ordinal, raw)     == Id("h", <<scope, path, ordinal, raw>>)
IdOfUnit(kind, hunks)                   == Id("u", <<kind, hunks>>)
IdOfCohort(scope, key, units)           == Id("c", <<scope, key, units>>)
IdOfLayer(cohort, ordinal, units)       == Id("l", <<cohort, ordinal, units>>)
IdOfTarget(kind, path)                  == Id("t", <<kind, path>>)
ReviewID(identity)                      == Id("rvw", identity)

PathIn(c, s, f)   == IdOfPath(s, RawPathRecord(c, f))
HunkIn(c, s, h)   == IdOfHunk(s, PathIn(c, s, h[1]), h[2], Hunk(c, h))
UnitIn(c, s, u)   == IdOfUnit(u.kind, [i \in DOMAIN u.hunks |-> HunkIn(c, s, u.hunks[i])])
TargetIn(c, s, t) == CASE t[1] = "hunk"   -> HunkIn(c, s, <<t[2], t[3]>>)
                       [] t[1] = "path"   -> PathIn(c, s, t[2])
                       [] t[1] = "target" -> IdOfTarget(t[3], PathIn(c, s, t[2]))

-----------------------------------------------------------------------------
(* The plan (plan.go).  Its rows are the layers of its cohorts, in order.   *)

Class(c, f)  == IF ~c.files[f].text THEN "unreviewable"
                ELSE IF IsMechanical(c, {f}) THEN "mechanical" ELSE "full"

\* The signature of the published index of the head: what it relates.
Indexed(c) == c.includes \cup c.tests

Listing(S) == FoldSet(LAMBDA x, seq : Append(seq, x), <<>>, S)
CohortOrder(c) == SortSeq(Listing(BuildFileCohorts(c)), LAMBDA a, b : Min(a) < Min(b))
RowsOf(c, s) ==
    LET Row(fs, n, packed) == [cohort |-> fs, ordinal |-> n, packed |-> packed,
                               units |-> [i \in DOMAIN packed |-> UnitIn(c, s, packed[i])]]
        Rows(fs, layers) == [n \in DOMAIN layers |->
            Row(fs, n, PackReviewPartition(c, partitionPackHunks(c, layers[n])).packed)]
        RowsIn(cohorts) == FlattenSeq([i \in DOMAIN cohorts |->
                                          Rows(cohorts[i], dependencyLayers(c, cohorts[i]))])
    IN  RowsIn(CohortOrder(c))

AuditOrder == <<"removed_behavior", "contract_migration", "test_matrix", "integration_gap">>

UnitSignals(c, unit) == UNION {c.files[h[1]].symbols : h \in Range(unit.hunks)}

\* The cohorts and the layers of the rows, by the ids of their units.
CohortIds(s, rows, cohorts) ==
    [fs \in cohorts |-> IdOfCohort(s, fs, FlattenSeq([i \in DOMAIN rows |->
                           IF rows[i].cohort = fs THEN rows[i].units ELSE <<>>]))]
LayerIds(rows, cohortOf) ==
    [i \in DOMAIN rows |-> IdOfLayer(cohortOf[rows[i].cohort], rows[i].ordinal, rows[i].units)]

PlanPaths(c, s, plan) ==
    [f \in FilesOf(c) |-> [id |-> PathIn(c, s, f), class |-> Class(c, f),
                           coverage |-> plan.coverage[f], roles |-> Roles(c, f)]]
PlanAudits(c, s, plan, cohortOf) ==
    LET Target(t) == CASE t[1] = "cohort" -> cohortOf[t[2]]
                       [] t[1] = "unit"   -> UnitIn(c, s, CHOOSE u \in plan.units : u.hunks = t[2])
                       [] OTHER           -> TargetIn(c, s, t)
    IN  IF ~plan.structured THEN <<>>
        ELSE [a \in 1..4 |-> [audit |-> AuditOrder[a],
                  targets |-> Listing({Target(t) : t \in plan.audits[AuditOrder[a]]})]]

\* What a plan is named for.
PlanIdentity(c, s, rows, plan, cohortOf, layerOf, paths, audits) ==
    [scope |-> s, signature |-> Indexed(c), paths |-> paths, audits  |-> audits,
     hunks   |-> FlattenSeq([f \in FilesOf(c) |-> [i \in DOMAIN c.files[f].hunks |->
                     [id |-> HunkIn(c, s, <<f, i>>), reviewable |-> <<f, i>> \notin plan.large]]]),
     units   |-> FlattenSeq([i \in DOMAIN rows |-> [j \in DOMAIN rows[i].packed |->
                     [id |-> rows[i].units[j], kind |-> rows[i].packed[j].kind,
                      hunks |-> rows[i].units[j].of[2],
                      signals |-> UnitSignals(c, rows[i].packed[j])]]]),
     cohorts |-> [i \in DOMAIN rows |-> [cohort |-> cohortOf[rows[i].cohort],
                     layer |-> layerOf[i], units |-> rows[i].units]]]

Displayed(c, kind, s, rows, plan, cohortOf, layerOf, paths, audits) ==
    LET UnitHunk(h) == [id |-> HunkIn(c, s, h), path |-> PathIn(c, s, h[1]),
                        ordinal |-> h[2], raw |-> Hunk(c, h)]
        Layers(fs)  == FlattenSeq([i \in DOMAIN rows |->
                           IF rows[i].cohort = fs
                           THEN <<[id |-> layerOf[i], units |-> rows[i].units]>> ELSE <<>>])
        Cohorts(order) == [k \in DOMAIN order |-> [id |-> cohortOf[order[k]], layers |-> Layers(order[k])]]
    IN  [review |-> ReviewID(PlanIdentity(c, s, rows, plan, cohortOf, layerOf, paths, audits)),
         mode  |-> IF plan.structured THEN "structured" ELSE "direct",
         scope |-> [kind |-> kind, base |-> s.base, head |-> s.head],
         paths |-> [f \in FilesOf(c) |-> paths[f] @@ [path |-> f, status |-> RawPathRecord(c, f).status]],
         units |-> FlattenSeq([i \in DOMAIN rows |-> [j \in DOMAIN rows[i].packed |->
                      [id |-> rows[i].units[j], cohort |-> cohortOf[rows[i].cohort], layer |-> layerOf[i],
                       hunks |-> [k \in DOMAIN rows[i].packed[j].hunks |->
                                     UnitHunk(rows[i].packed[j].hunks[k])]]]]),
         cohorts |-> IF plan.structured THEN Cohorts(CohortOrder(c)) ELSE <<>>,
         audits |-> audits]

\* Build: what the planner displays, under the digest of what it decided.
PlanOf(c, kind, force) ==
    LET Named(s, rows, plan, cohortOf) ==
            Displayed(c, kind, s, rows, plan, cohortOf, LayerIds(rows, cohortOf),
                      PlanPaths(c, s, plan), PlanAudits(c, s, plan, cohortOf))
        Grouped(s, rows, plan) == Named(s, rows, plan, CohortIds(s, rows, DOMAIN plan.layers))
        Scoped(s) == Grouped(s, RowsOf(c, s), BuildPlan(c, force))
    IN  Scoped(ScopeOf(c, kind))

\* The diff with the symbols its sources yield at this moment.
ReadNow == [asked.diff EXCEPT !.files =
              [f \in FilesOf(asked.diff) |-> [asked.diff.files[f] EXCEPT !.symbols = sources[f]]]]

Build ==
    /\ planned = None
    /\ planned' = PlanOf(ReadNow, asked.scope, asked.force)
    /\ UNCHANGED <<asked, sources, bundle, honest, verdict>>

\* The editor; what a commit holds does not change.
Edit ==
    /\ asked.scope = "workspace" /\ planned # None /\ bundle = None
    /\ \E f \in FilesOf(asked.diff) :
        /\ asked.diff.files[f].text /\ sources[f] = asked.diff.files[f].symbols
        /\ sources' = [sources EXCEPT ![f] = IF @ = {} THEN {"signature"} ELSE {}]
    /\ UNCHANGED <<asked, planned, bundle, honest, verdict>>

-----------------------------------------------------------------------------
(* The artifacts (unit.go).  The identity is computed anew from the capture *)
(* and what the plan displays; it has to be the one the plan is named for.  *)

OwnedHunks(plan) == UNION {{h.id : h \in Range(u.hunks)} : u \in Range(plan.units)}

UnitsAgain(c, s, plan) ==
    LET Again(u, hunks) ==
            [id |-> IF IdOfUnit("normal", hunks) = u.id THEN u.id ELSE IdOfUnit("oversized_atomic", hunks),
             hunks |-> hunks,
             files |-> {h.path.of[2].path : h \in Range(u.hunks)}]
    IN  [i \in DOMAIN plan.units |->
            Again(plan.units[i],
                  [k \in DOMAIN plan.units[i].hunks |->
                      LET h == plan.units[i].hunks[k] IN HunkIn(c, s, <<h.path.of[2].path, h.ordinal>>)])]

\* The layers of the cohorts, each with the units that touch its files.
CohortsAgain(c, s, units) ==
    LET In(fs) == FlattenSeq([i \in DOMAIN units |->
                                 IF units[i].files \cap fs # {} THEN <<units[i].id>> ELSE <<>>])
        Layers(cohort, layers) ==
            [n \in DOMAIN layers |-> [cohort |-> cohort, units |-> In(layers[n]),
                                      layer |-> IdOfLayer(cohort, n, In(layers[n]))]]
        All(order) == FlattenSeq([i \in DOMAIN order |->
            Layers(IdOfCohort(s, order[i], In(order[i])), dependencyLayers(c, order[i]))])
    IN  All(CohortOrder(c))

\* The identity and the ids that the replay computes.
Replay(c, plan, s, units, cohorts) ==
    LET targets == IF plan.mode # "structured" THEN {}
                   ELSE UNION {{IdOfTarget(k, PathIn(c, s, f)) : k \in c.files[f].symbols} : f \in FilesOf(c)}
    IN  [ids |-> {PathIn(c, s, f) : f \in FilesOf(c)} \cup {HunkIn(c, s, h) : h \in HunksOf(c)}
                    \cup {units[i].id : i \in DOMAIN units} \cup targets
                    \cup UNION {{row.cohort, row.layer} : row \in Range(cohorts)},
         known |-> \A i \in DOMAIN units :
                      /\ units[i].id = plan.units[i].id
                      /\ units[i].hunks = [k \in DOMAIN plan.units[i].hunks |-> plan.units[i].hunks[k].id],
         identity |->
            [scope |-> s, signature |-> Indexed(c),
             paths |-> [f \in FilesOf(c) |-> [id |-> PathIn(c, s, f), class |-> plan.paths[f].class,
                           coverage |-> plan.paths[f].coverage, roles |-> plan.paths[f].roles]],
             hunks |-> FlattenSeq([f \in FilesOf(c) |-> [i \in DOMAIN c.files[f].hunks |->
                           [id |-> HunkIn(c, s, <<f, i>>),
                            reviewable |-> HunkIn(c, s, <<f, i>>) \in OwnedHunks(plan)]]]),
             units |-> [i \in DOMAIN units |->
                           [id |-> units[i].id, kind |-> units[i].id.of[1], hunks |-> units[i].hunks,
                            signals |-> UNION {c.files[f].symbols : f \in units[i].files}]],
             cohorts |-> cohorts, audits |-> plan.audits]]

Replayed(c, plan, kind) ==
    LET Grouped(s, units) == Replay(c, plan, s, units, CohortsAgain(c, s, units))
        Scoped(s) == Grouped(s, UnitsAgain(c, s, plan))
    IN  Scoped(ScopeOf(c, kind))

MandatoryOf(plan) == [id \in {u.id : u \in Range(plan.units)} |->
                         CHOOSE u \in Range(plan.units) : u.id = id]

\* What is stored when the replay agrees.
ArtifactsOf(plan, replay) ==
    LET InWorkspace(x) == IF plan.scope.kind = "workspace" THEN x ELSE None
    IN  [plan |-> plan, identity |-> replay.identity, bytes |-> replay.identity,
         records |-> {[public |-> id, canonical |-> id.of] : id \in replay.ids},
         mandatory |-> MandatoryOf(plan), citations |-> replay.ids,
         candidates |-> {u.id : u \in Range(plan.units)}, signature |-> replay.identity.signature,
         fingerprint |-> InWorkspace(plan.scope.head), capture |-> InWorkspace("capture")]

TargetsOf(plan) == UNION {Range(a.targets) : a \in Range(plan.audits)}
Agrees(plan, replay) ==
    /\ replay.known /\ TargetsOf(plan) \subseteq replay.ids
    /\ ReviewID(replay.identity) = plan.review

replayArtifacts ==
    /\ planned # None /\ bundle = None /\ verdict = None
    /\ LET replay == Replayed(ReadNow, planned, asked.scope) IN
        IF Agrees(planned, replay)
        THEN bundle' = ArtifactsOf(planned, replay) /\ honest' = {bundle'} /\ UNCHANGED verdict
        ELSE verdict' = "replay differs" /\ UNCHANGED <<bundle, honest>>
    /\ UNCHANGED <<asked, sources, planned>>

-----------------------------------------------------------------------------
(* Verification (persist.go; model.go, Plan.Validate).                     *)

validateScopeSides(scope) ==
    /\ scope.base.kind = "git_oid"
    /\ scope.head.kind = IF scope.kind = "workspace" THEN "workspace_sha256" ELSE "git_oid"

PlanValidate(plan) ==
    /\ validateScopeSides(plan.scope) /\ plan.paths # <<>>
    /\ \A u \in Range(plan.units) : u.hunks # <<>>
    /\ IF plan.mode = "structured"
       THEN /\ plan.cohorts # <<>> /\ \A co \in Range(plan.cohorts) : co.layers # <<>>
            /\ Range(AuditOrder) = {a.audit : a \in Range(plan.audits)}
       ELSE plan.cohorts = <<>> /\ plan.audits = <<>>

verifyFingerprints(b) ==
    IF b.plan.scope.kind = "workspace"
    THEN b.fingerprint = b.plan.scope.head /\ b.capture # None
    ELSE b.fingerprint = None /\ b.capture = None

\* Every id has the kind of its place.
KindsFit(b) ==
    LET plan == b.plan IN
    /\ \A p \in Range(plan.paths) : p.id.kind = "p"
    /\ \A co \in Range(plan.cohorts) : co.id.kind = "c" /\ \A l \in Range(co.layers) : l.id.kind = "l"
    /\ \A u \in Range(plan.units) :
        /\ u.id.kind = "u" /\ u.cohort.kind = "c" /\ u.layer.kind = "l"
        /\ \A h \in Range(u.hunks) : h.path.kind = "p"
    /\ \A t \in TargetsOf(plan) : t.kind \in {"h", "p", "c", "u", "t"}
    /\ \A id \in b.candidates \cup DOMAIN b.mandatory : id.kind = "u"

collectPlanIDs(b) ==
    {p.id : p \in Range(b.plan.paths)}
      \cup UNION {{co.id} \cup UNION {{l.id} \cup Range(l.units) : l \in Range(co.layers)} : co \in Range(b.plan.cohorts)}
      \cup UNION {{u.id, u.cohort, u.layer} \cup {h.path : h \in Range(u.hunks)} : u \in Range(b.plan.units)}
      \cup TargetsOf(b.plan) \cup b.citations \cup b.candidates \cup DOMAIN b.mandatory

\* addPlanToRegistry, with verifyRecords: a record for each id and no other.
RegistryMatches(b) ==
    /\ \A r \in b.records : Id(r.public.kind, r.canonical) = r.public
    /\ KindsFit(b) /\ collectPlanIDs(b) = {r.public : r \in b.records}

Recorded(b) == {r.public : r \in b.records}

PathsBound(b) ==
    LET pi == b.identity IN
    /\ Len(pi.paths) = Len(b.plan.paths)
    /\ \A i \in DOMAIN pi.paths :
        LET e == pi.paths[i]  p == b.plan.paths[i] IN
        /\ e.id = p.id /\ p.id \in Recorded(b)
        /\ e.class = p.class /\ e.coverage = p.coverage /\ e.roles = p.roles
        /\ p.id.of[2].path = p.path /\ p.id.of[2].status = p.status
        /\ p.id.of[1] = pi.scope
    /\ pi.scope = Scope(b.plan.scope.kind, b.plan.scope.base, b.plan.scope.head,
                        [i \in DOMAIN pi.paths |-> b.plan.paths[i].id.of[2]])

UnitsBound(b) ==
    LET pi == b.identity IN
    /\ Len(pi.units) = Len(b.plan.units)
    /\ \A i \in DOMAIN pi.units :
        LET e == pi.units[i]  u == b.plan.units[i] IN
        /\ e.id = u.id /\ u.id \in Recorded(b) /\ Len(e.hunks) = Len(u.hunks)
        /\ \A j \in DOMAIN u.hunks :
            LET h == u.hunks[j] IN
            /\ h.path \in Recorded(b) /\ IdOfHunk(pi.scope, h.path, h.ordinal, h.raw) = e.hunks[j]
            /\ h.id = e.hunks[j] /\ h.id \in Recorded(b)

verifyDirectIdentityCohorts(b) ==
    LET rows == b.identity.cohorts
        units == FlattenSeq([i \in DOMAIN rows |->
                     [j \in DOMAIN rows[i].units |-> [id |-> rows[i].units[j], row |-> rows[i]]]])
    IN  /\ IsInjective([i \in DOMAIN rows |-> <<rows[i].cohort, rows[i].layer>>])
        /\ \A row \in Range(rows) : {row.cohort, row.layer} \subseteq Recorded(b)
        /\ Len(units) = Len(b.plan.units)
        /\ \A i \in DOMAIN units :
            LET u == b.plan.units[i] IN
            units[i].id = u.id /\ u.cohort = units[i].row.cohort /\ u.layer = units[i].row.layer

Flattened(plan) ==
    FlattenSeq([i \in DOMAIN plan.cohorts |-> [n \in DOMAIN plan.cohorts[i].layers |->
        [cohort |-> plan.cohorts[i].id, layer |-> plan.cohorts[i].layers[n].id,
         units |-> plan.cohorts[i].layers[n].units]]])

CohortsBound(b) == IF b.plan.mode = "direct" THEN verifyDirectIdentityCohorts(b)
                   ELSE b.identity.cohorts = Flattened(b.plan)

Embedded(pi) ==
    {e.id : e \in Range(pi.paths)} \cup {e.id : e \in Range(pi.hunks)} \cup {e.id : e \in Range(pi.units)}
      \cup UNION {{e.cohort, e.layer} : e \in Range(pi.cohorts)}
      \cup UNION {Range(a.targets) : a \in Range(pi.audits)}

verifyIdentityBinding(b) ==
    /\ b.identity = b.bytes
    /\ PathsBound(b) /\ UnitsBound(b) /\ CohortsBound(b)
    /\ b.identity.audits = b.plan.audits
    /\ Embedded(b.identity) = Recorded(b)

validateMandatoryUnits(b) ==
    /\ DOMAIN b.mandatory = {u.id : u \in Range(b.plan.units)}
    /\ \A u \in Range(b.plan.units) : b.mandatory[u.id] = u

verifyArtifactIntegrity(b) ==
    verifyIdentityBinding(b) /\ b.signature = b.identity.signature /\ validateMandatoryUnits(b)

verifyPlanIdentity(b) == b.plan.review = ReviewID(b.bytes)

Accepts(b) ==
    /\ PlanValidate(b.plan) /\ verifyPlanIdentity(b)
    /\ verifyFingerprints(b) /\ RegistryMatches(b) /\ verifyArtifactIntegrity(b)

Save ==
    /\ bundle # None /\ verdict = None
    /\ verdict' = IF Accepts(bundle) THEN "accepted" ELSE "refused"
    /\ UNCHANGED <<asked, sources, planned, bundle, honest>>

\* What Check verifies once more of the bundle that was loaded (check.go): the
\* audits one by one, and not the fingerprints.
validatePlanAuditManifest(plan) ==
    plan.mode = "structured" =>
        /\ Len(plan.audits) = Len(AuditOrder)
        /\ IsInjective([i \in DOMAIN plan.audits |-> plan.audits[i].audit])
        /\ \A i \in DOMAIN plan.audits :
            plan.audits[i].audit \in Range(AuditOrder) /\ IsInjective(plan.audits[i].targets)

verifyLoadedCheckArtifacts(b) ==
    /\ PlanValidate(b.plan) /\ validatePlanAuditManifest(b.plan)
    /\ b.identity = b.bytes /\ verifyPlanIdentity(b)
    /\ verifyArtifactIntegrity(b) /\ RegistryMatches(b)

-----------------------------------------------------------------------------
(* A bundle put together from the parts of two: one part is another's,      *)
(* alone or together with the records of its ids.                          *)

Requests == [diff : Diffs, scope : {"workspace", "commit"}, force : BOOLEAN]
Stored(r) == LET Kept(plan) == ArtifactsOf(plan, Replayed(r.diff, plan, r.scope))
             IN  Kept(PlanOf(r.diff, r.scope, r.force))
PlanParts   == {"review", "mode", "scope", "paths", "units", "cohorts", "audits"}
BundleParts == {"identity", "bytes", "records", "mandatory", "citations", "candidates",
                "signature", "fingerprint", "capture"}

\* The bundle with some parts of the donor's.
Mixed(donor, parts) ==
    [[part \in DOMAIN bundle |-> IF part \in parts THEN donor[part] ELSE bundle[part]]
        EXCEPT !.plan = [part \in DOMAIN bundle.plan |->
                            IF part \in parts THEN donor.plan[part] ELSE bundle.plan[part]]]

Mix ==
    /\ bundle # None /\ verdict = None /\ honest = {bundle}
    /\ \E donor \in {Stored(r) : r \in Requests}, part \in PlanParts \cup BundleParts, more \in {{}, {"records"}} :
        /\ bundle' = Mixed(donor, {part} \cup more) /\ bundle' # bundle
        /\ honest' = {bundle, donor}
    /\ UNCHANGED <<asked, sources, planned, verdict>>

\* A plan displayed with a member of a list left out, repeated or moved to
\* the end, with the lines of another hunk, or with another coverage.
Rearranged(list) ==
    UNION {{RemoveAt(list, i), Append(list, list[i]), Append(RemoveAt(list, i), list[i])} : i \in DOMAIN list}
Altered(plan) ==
    UNION {{[plan EXCEPT ![part] = list] : list \in Rearranged(plan[part])}
              : part \in {"paths", "units", "cohorts", "audits"}}
      \cup UNION {{[plan EXCEPT !.units[i].hunks = list] : list \in Rearranged(plan.units[i].hunks)}
              : i \in DOMAIN plan.units}
      \cup UNION {{[plan EXCEPT !.units[i].hunks[1].raw = h.raw] : h \in Range(plan.units[j].hunks)}
              : i, j \in DOMAIN plan.units}
      \cup {[plan EXCEPT !.paths[i].coverage = "none"] : i \in DOMAIN plan.paths}

Alter ==
    /\ bundle # None /\ verdict = None /\ honest = {bundle}
    /\ \E plan \in Altered(bundle.plan) :
        bundle' = [bundle EXCEPT !.plan = plan, !.mandatory = MandatoryOf(plan)]
    /\ bundle' # bundle
    /\ UNCHANGED <<asked, sources, planned, honest, verdict>>

Next == Build \/ Edit \/ replayArtifacts \/ Save \/ Mix \/ Alter

Spec == Init /\ [][Next]_vars
-----------------------------------------------------------------------------
(* What a reader of the plan acts on.  The cohort a unit of a structured    *)
(* plan names and the review id it repeats are not part of it: nothing      *)
(* binds them.                                                              *)
Bearing(plan) ==
    [plan EXCEPT !.cohorts = Flattened(plan),
                 !.units = [i \in DOMAIN plan.units |->
                     [plan.units[i] EXCEPT !.cohort = IF plan.mode = "direct" THEN @ ELSE None,
                                           !.layer  = IF plan.mode = "direct" THEN @ ELSE None]]]

(* The planner and the replay agree on the identity of a plan unless a      *)
(* source they both read was edited in between; the store accepts what they *)
(* made; and whatever bundle it accepts under a review id shows the plan    *)
(* that has this id: no part of it comes from another plan, is left out or  *)
(* stands elsewhere (persist.go:1036, unit.go:656).  What the store accepts *)
(* Check does not refuse, and its own verification binds the plan as well   *)
(* (check.go:254).                                                         *)
Binds(b, parts) ==
    \E h \in honest :
        /\ h.plan.review = b.plan.review /\ Bearing(h.plan) = Bearing(b.plan)
        /\ \A p \in parts : h[p] = b[p]

PlanIsBound ==
    /\ (\A f \in FilesOf(asked.diff) : sources[f] = asked.diff.files[f].symbols)
            => verdict # "replay differs" /\ (verdict = "refused" => bundle \notin honest)
    /\ verdict = "accepted" =>
        /\ Binds(bundle, {"records", "mandatory", "signature", "fingerprint"})
        /\ verifyLoadedCheckArtifacts(bundle)
    /\ bundle # None /\ verifyLoadedCheckArtifacts(bundle)
            => Binds(bundle, {"records", "mandatory", "signature"})
=============================================================================
