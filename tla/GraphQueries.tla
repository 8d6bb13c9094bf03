---------------------------- MODULE GraphQueries ----------------------------
(***************************************************************************)
(* The queries of internal/query and internal/store over the dependency     *)
(* graph: who depends on a file, from which entry points it is reached,     *)
(* which tests cover it, which files form a subsystem, and where a project   *)
(* starts.                                                                  *)
(*                                                                         *)
(* A file is its place in path order.  Between two questions a refresh may  *)
(* publish another graph.  Samples that the code cuts at 15, 20 or 25 are   *)
(* cut at Sample, and the component of 25 files that is split by folder is  *)
(* one of BlobFiles.                                                        *)
(***************************************************************************)
EXTENDS Integers, SequencesExt

CONSTANTS
    N,          \* number of files
    Folder,     \* Folder[f]: the folders above file f, outermost first
    Language, Role,
    Tests,      \* files that isTestPath recognises
    Covers,     \* <<t, f>>: t is by its name the test of f
    Candidates, \* the edges the resolver may store, [src, dst, kind, line], by source and line
    Sample, BlobFiles,
    None

VARIABLES edges,   \* the resolved edges of the published generation
          answer   \* the last answer: [query, file, result], or None

vars == <<edges, answer>>

Files == 1..N
DataLanguages == {"json", "yaml", "toml", "markdown"}
blastKinds == {"includes", "references", "execs", "binds", "autostarts", "instantiates", "uses", "pkg"}

ByPath(set) == SelectSeq([i \in Files |-> i], LAMBDA f : f \in set)
Cut(seq, n) == SubSeq(seq, 1, IF n < Len(seq) THEN n ELSE Len(seq))
Sorted(set, Rank(_)) == SortSeq(ByPath(set), LAMBDA a, b : Rank(a) < Rank(b) \/ (Rank(a) = Rank(b) /\ a < b))

-----------------------------------------------------------------------------
(* internal/store/queries.go *)

FileDepEdges == {e \in edges : e.kind # "resource"}
ResourceFileLinks == {e \in edges : e.kind = "resource"}

ByLine(set) == SelectSeq(Candidates, LAMBDA e : e \in set)
IncomingEdges(f, kinds) == ByLine({e \in FileDepEdges : e.dst = f /\ e.kind \in kinds})
EdgesFromFile(f, kinds) == ByLine({e \in FileDepEdges : e.src = f /\ e.kind \in kinds})

\* A bug in depAdjacency: the package edges are left out.
DirectAdjacency(reverse) ==
    [f \in Files |->
        {IF reverse THEN e.src ELSE e.dst :
            e \in {x \in FileDepEdges : (IF reverse THEN x.dst ELSE x.src) = f /\ x.kind # "pkg"}}]

depAdjacency(reverse) ==
    [f \in Files |->
        {IF reverse THEN e.src ELSE e.dst :
            e \in {x \in FileDepEdges : (IF reverse THEN x.dst ELSE x.src) = f /\ x.kind \in blastKinds}}]

RECURSIVE Bfs(_, _, _)
Bfs(queue, depth, adj) ==
    IF queue = <<>> THEN depth
    ELSE LET cur == Head(queue)
             unseen == adj[cur] \ DOMAIN depth
         IN  Bfs(Tail(queue) \o ByPath(unseen),
                 [f \in DOMAIN depth \cup unseen |-> IF f \in unseen THEN depth[cur] + 1 ELSE depth[f]], adj)

traverseDeps(f, reverse) ==
    LET depth == Bfs(<<f>>, [x \in {f} |-> 0], depAdjacency(reverse))
        order == Sorted(DOMAIN depth \ {f}, LAMBDA x : depth[x])
    IN  [i \in DOMAIN order |-> [file |-> order[i], depth |-> depth[order[i]]]]

TransitiveDependents(f) == traverseDeps(f, TRUE)
AncestorsToward(f) == traverseDeps(f, FALSE)

ImmediateGraphNeighbors(f, limit) ==
    Cut(ByPath({e.dst : e \in {x \in FileDepEdges : x.src = f /\ x.kind \in blastKinds}} \cup
               {e.src : e \in {x \in FileDepEdges : x.dst = f /\ x.kind \in blastKinds}}), limit)

OrphanFiles(role) ==
    ByPath({f \in Files : Role[f] = role /\
              IncomingEdges(f, {"includes", "execs", "binds", "autostarts", "references"}) = <<>>})

-----------------------------------------------------------------------------
(* internal/query/query.go *)

FindCallers(f) == IncomingEdges(f, blastKinds)
FindCallees(f) == EdgesFromFile(f, blastKinds \ {"pkg"})

subsystem(f) == SubSeq(Folder[f], 1, IF Len(Folder[f]) < 2 THEN Len(Folder[f]) ELSE 2)
PathsOf(deps) == {deps[i].file : i \in DOMAIN deps}

\* How many of each subsystem, the largest first, the smallest cut off.  Equals
\* are in one order, always the same: by name in the code, by first file here.
BlastSummarize(f) ==
    LET deps   == TransitiveDependents(f)
        direct == {deps[i].file : i \in {j \in DOMAIN deps : deps[j].depth = 1}}
        count(d) == Cardinality({g \in PathsOf(deps) : subsystem(g) = subsystem(d)})
        first  == {d \in PathsOf(deps) : \A g \in PathsOf(deps) : subsystem(g) = subsystem(d) => d <= g}
        dirs   == Cut(Sorted(first, LAMBDA d : -count(d)), Sample)
    IN  [total |-> Len(deps), direct |-> Cardinality(direct),
         bySubsystem |-> [i \in DOMAIN dirs |-> [subsystem |-> subsystem(dirs[i]), count |-> count(dirs[i])]],
         directFiles |-> Cut(ByPath(direct), Sample)]

EntrypointsFor(f) ==
    LET deps  == TransitiveDependents(f)
        roots == {d \in PathsOf(deps) : IncomingEdges(d, blastKinds) = <<>>}
    IN  IF deps = <<>> THEN [count |-> 1, entrypoints |-> <<f>>]
        ELSE [count |-> Cardinality(roots),
              entrypoints |-> Cut(Sorted(roots, LAMBDA r : Len(Folder[r])), Sample)]

\* Tests beside the file, else tests that import it, else what launches it.
TestsFor(f) ==
    LET beside    == {t \in Tests \ {f} : Folder[t] = Folder[f]}
        importing == {FindCallers(f)[i].src : i \in DOMAIN FindCallers(f)} \cap (Tests \ {f})
        found     == IF beside # {} THEN beside ELSE importing
    IN  IF found # {}
        THEN [tests |-> Cut(Sorted(found, LAMBDA t : IF <<t, f>> \in Covers THEN 0 ELSE 1), Sample), runners |-> <<>>]
        ELSE [tests |-> <<>>, runners |-> IncomingEdges(f, {"execs", "binds", "autostarts"})]

-----------------------------------------------------------------------------
(* internal/query/overview.go *)

\* The disjoint sets, a tree of parents; find walks to the root.
RECURSIVE find(_, _)
find(uf, x) == IF uf.parent[x] = x THEN x ELSE find(uf, uf.parent[x])

\* The smaller tree is hung under the larger; its members are counted there.
union(uf, a, b) ==
    LET ra == find(uf, a)
        rb == find(uf, b)
        root  == IF uf.size[ra] < uf.size[rb] THEN rb ELSE ra
        child == IF root = ra THEN rb ELSE ra
    IN  IF ra = rb THEN uf
        ELSE [parent |-> [uf.parent EXCEPT ![child] = root],
              size   |-> [uf.size EXCEPT ![root] = @ + uf.size[child]]]

groups(uf) == {{x \in Files : find(uf, x) = r} : r \in {find(uf, x) : x \in Files}}

newUnionFind == [parent |-> [f \in Files |-> f], size |-> [f \in Files |-> 1]]

Connected == FoldLeft(LAMBDA uf, e : union(uf, e.src, e.dst), newUnionFind,
                      ByLine(FileDepEdges) \o ByLine(ResourceFileLinks))

\* The most common folder, and language.  Among equals one is taken, always
\* the same: the code takes the first by name.
clusterLabel(members) ==
    CHOOSE s \in {subsystem(m) : m \in members} :
        \A t \in {subsystem(m) : m \in members} :
            Cardinality({m \in members : subsystem(m) = s}) >= Cardinality({m \in members : subsystem(m) = t})

dominantLang(members) ==
    CHOOSE l \in {Language[m] : m \in members} :
        \A k \in {Language[m] : m \in members} :
            Cardinality({m \in members : Language[m] = l}) >= Cardinality({m \in members : Language[m] = k})

\* One component that holds 70 in 100 of the grouped files becomes its folders.
splitBlobCluster(clusters) ==
    LET big   == CHOOSE c \in clusters : \A d \in clusters : Cardinality(c) >= Cardinality(d)
        byDir == {{m \in big : subsystem(m) = s} : s \in {subsystem(m) : m \in big}}
    IN  IF clusters = {} THEN clusters
        ELSE IF \/ Cardinality(big) < BlobFiles
                \/ Cardinality(big) * 100 < Cardinality(UNION clusters) * 70
                \/ Cardinality(byDir) < 2
             THEN clusters
             ELSE (clusters \ {big}) \cup {fs \in byDir : Cardinality(fs) >= 2}

Clusters ==
    {[label |-> clusterLabel(m), lang |-> dominantLang(m), files |-> m] :
        m \in splitBlobCluster({g \in groups(Connected) : Cardinality(g) >= 2})}

eligible(f) == Language[f] \notin DataLanguages /\ f \notin Tests

\* Where a program may start: it needs something, and no program code needs it.
OverviewContext ==
    LET importers(f) == {e.src : e \in {x \in FileDepEdges : x.dst = f}}
        outDegree(f) == Cardinality({e \in FileDepEdges : e.src = f})
        starts == {f \in Files : eligible(f) /\ outDegree(f) > 0 /\ ~ \E i \in importers(f) : eligible(i)}
    IN  [roles       |-> [r \in {Role[f] : f \in Files} |-> Cardinality({f \in Files : Role[f] = r})],
         entrypoints |-> Cut(SortSeq(ByPath(starts), LAMBDA a, b :
                             \/ outDegree(a) > outDegree(b)
                             \/ /\ outDegree(a) = outDegree(b)
                                /\ \/ Len(Folder[a]) < Len(Folder[b])
                                   \/ Len(Folder[a]) = Len(Folder[b]) /\ a < b), Sample),
         count       |-> Cardinality(starts),
         clusters    |-> Clusters]

-----------------------------------------------------------------------------
Init == edges \in SUBSET Range(Candidates) /\ answer = None

Answered(query, f, result) ==
    /\ answer' = [query |-> query, file |-> f, result |-> result]
    /\ UNCHANGED edges

\* A refresh published another graph.
Publish(e) ==
    /\ edges' = IF e \in edges THEN edges \ {e} ELSE edges \cup {e}
    /\ answer' = None

Impact(f)      == Answered("impact", f, TransitiveDependents(f))
Ancestors(f)   == Answered("ancestors", f, AncestorsToward(f))
Summary(f)     == Answered("summary", f, BlastSummarize(f))
Entrypoints(f) == Answered("entrypoints", f, EntrypointsFor(f))
Neighbors(f)   == Answered("neighbors", f, ImmediateGraphNeighbors(f, Sample))
TestFiles(f)   == Answered("tests", f, TestsFor(f))
Overview       == Answered("overview", None, OverviewContext)
Orphans        == Answered("orphans", None, OrphanFiles("script"))

Next ==
    \/ \E f \in Files : Impact(f) \/ Ancestors(f) \/ Summary(f) \/ Entrypoints(f) \/ Neighbors(f) \/ TestFiles(f)
    \/ Overview
    \/ Orphans
    \/ \E e \in Range(Candidates) : Publish(e)

Spec == Init /\ [][Next]_vars

-----------------------------------------------------------------------------
(* What the answers mean, by definition.                                    *)

\* Pairs of files k dependencies apart; the distance is the least such k.
Needs == {<<e.src, e.dst>> : e \in {x \in edges : x.kind \in blastKinds}}
Through(first, second) == {<<p[1], q[2]>> : <<p, q>> \in {<<x, y>> \in first \X second : x[2] = y[1]}}
Same == {<<f, f>> : f \in Files}
Distances ==
    LET apart == FoldLeft(LAMBDA ks, k : Append(ks, Through(ks[k], Needs)), <<Same>>, [k \in Files |-> k])
        met   == UNION Range(apart)
    IN  [p \in Files \X Files |->
            IF p \notin met THEN None
            ELSE CHOOSE k \in 0..N : p \in apart[k + 1] /\ \A j \in 1..k : p \notin apart[j]]

\* Files tied by any reference or shared value, in either direction.
Linked == LET ties == {<<e.src, e.dst>> : e \in edges} \cup {<<e.dst, e.src>> : e \in edges}
          IN  FoldLeft(LAMBDA near, k : near \cup Through(near, ties), Same, [k \in Files |-> k])

\* All and only the files that need f, or that f needs, each at its least
\* distance, the nearest first and in path order.
ExactlyReachable(f, deps, distance, Pair(_)) ==
    /\ PathsOf(deps) = {g \in Files \ {f} : distance[Pair(g)] # None}
    /\ \A i \in DOMAIN deps : deps[i].depth = distance[Pair(deps[i].file)]
    /\ \A i, j \in DOMAIN deps : i < j =>
         \/ deps[i].depth < deps[j].depth
         \/ deps[i].depth = deps[j].depth /\ deps[i].file < deps[j].file

\* Each count is of the subsystem it stands with.  All that need f are counted
\* unless the list is full, and then none that is left out is larger.
CountsAreRight(counts, needing) ==
    LET of(dir) == Cardinality({g \in needing : subsystem(g) = dir}) IN
    /\ \A i, j \in DOMAIN counts : counts[i].subsystem = counts[j].subsystem => i = j
    /\ \A i \in DOMAIN counts : counts[i].count = of(counts[i].subsystem)
    /\ \A g \in needing :
         \/ \E i \in DOMAIN counts : counts[i].subsystem = subsystem(g)
         \/ Len(counts) = Sample /\ \A i \in DOMAIN counts : counts[i].count >= of(subsystem(g))

ReachIsRight ==
    LET f == answer.file
        r == answer.result
        distance == Distances
        needing == {g \in Files \ {f} : distance[<<g, f>>] # None}
    IN  CASE answer.query = "impact"    -> ExactlyReachable(f, r, distance, LAMBDA g : <<g, f>>)
          [] answer.query = "ancestors" -> ExactlyReachable(f, r, distance, LAMBDA g : <<f, g>>)
          [] answer.query = "summary"   ->
               /\ r.total = Cardinality(needing)
               /\ CountsAreRight(r.bySubsystem, needing)
               /\ Range(r.directFiles) \subseteq {g \in needing : <<g, f>> \in Needs}
               /\ r.direct = Cardinality({g \in needing : <<g, f>> \in Needs})
          [] answer.query = "entrypoints" ->
               \* an entry point needs f and nothing needs it; a file nothing needs is its own
               /\ \A g \in Range(r.entrypoints) : distance[<<g, f>>] # None /\ \A h \in Files : <<h, g>> \notin Needs
               /\ r.count = Cardinality({g \in needing \cup {f} : \A h \in Files : <<h, g>> \notin Needs})
          [] answer.query = "neighbors" ->
               Range(r) \subseteq {g \in Files : distance[<<g, f>>] = 1 \/ distance[<<f, g>>] = 1}
          [] answer.query = "tests" ->
               \* what it says launches the file is then an entry into it
               /\ \A i \in DOMAIN r.runners : r.runners[i].src \in needing
               /\ r.tests = <<>> => \A t \in Tests \ {f} : <<t, f>> \notin Needs
          [] OTHER -> TRUE

\* The groups are the connected files, none in two of them; a component cut
\* into folders loses only files alone in theirs.  A start of the project is
\* needed by no program code, and an orphan script is launched by nothing.
MapIsRight ==
    LET r == answer.result IN
    CASE answer.query = "overview" ->
           /\ \A c, d \in r.clusters : c = d \/ c.files \cap d.files = {}
           /\ \A c \in r.clusters : \A a, b \in c.files : <<a, b>> \in Linked
           /\ \A a, b \in Files :
                (<<a, b>> \in Linked /\ a # b /\ subsystem(a) = subsystem(b)) =>
                    \E c \in r.clusters : {a, b} \subseteq c.files
           /\ \A f \in Range(r.entrypoints) : \A g \in Files :
                <<g, f>> \in Needs => g \in Tests \/ Language[g] \in DataLanguages
           /\ \A f \in Files : eligible(f) /\ (\E g \in Files : <<f, g>> \in Needs)
                               /\ (\A g \in Files : <<g, f>> \notin Needs) => r.count > 0
      [] answer.query = "orphans" ->
           \A f \in Range(r) : TestsFor(f).runners = <<>>
      [] OTHER -> TRUE

\* Every answer about the graph is what the published edges mean.
GraphAnswersRight == answer # None => ReachIsRight /\ MapIsRight
=============================================================================
