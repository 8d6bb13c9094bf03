---------------------------- MODULE ContextPacking ----------------------------
(***************************************************************************)
(* internal/context: what a search of the context compiles and what a get   *)
(* fetches of it.  Knowledge, full text chunks, their neighbours in the      *)
(* graph and the files whose path names the question become candidates; they *)
(* are scored, diversified by file and packed into a budget.                 *)
(*                                                                         *)
(* Chunks and documents are numbered in the order of their IDs, documents    *)
(* first, and a chunk carries the evidence the question finds in it.  Scores *)
(* are in sixtieths of a point.  The full text engine is external.           *)
(***************************************************************************)
EXTENDS Integers, SequencesExt

CONSTANTS
    Documents,  \* [lexical, path, confidence, compact, standard, full]
    Chunks,     \* [file, line, lexical, compact, full]
    Class,      \* Class[f]: "", "docs", or another class of low signal the question does not name
    Path,       \* Path[f]: the evidence in the path of a file named for the concept, or 0
    Defines,    \* the files that define a symbol the question names
    Generations,\* the sets of chunks an index may hold
    Neighbors,  \* Neighbors[f]: the files next to file f in the graph, in order
    Statuses,   \* what the check of an anchor answers
    Anchors,    \* anchors of each document
    Hits,       \* the ranked lists the full text index may answer
    Requests,   \* [mode, budget]; budget 0: the default
    Default,    \* the default budget, 1800 in the code
    MaxRelated, \* neighbours and path candidates, 8 in the code
    None

VARIABLES indexed, \* the chunks of the published index
          anchor,  \* anchor[d]: the status of each anchor of document d
          packet   \* the last packet and the candidates it was packed of, or None

vars == <<indexed, anchor, packet>>

Files  == DOMAIN Path
docs   == Len(Documents)
Chunk(id) == Chunks[id - docs]
InIndex == {c + docs : c \in indexed}
InOrder(S) == SelectSeq([f \in Files |-> f], LAMBDA f : f \in S)

-----------------------------------------------------------------------------
(* Retrieval                                                                *)

\* The last anchor that is not current names the freshness of a document.
DocumentFreshness(d) ==
    FoldLeft(LAMBDA f, status : IF status # "current" THEN status ELSE f,
             IF Anchors[d] = 0 THEN "unverified" ELSE "current", anchor[d])

\* A candidate of the compiler, without the evidence of the question.
Knowledge(d) ==
    [id |-> d, source |-> -d, score |-> Documents[d].lexical, class |-> "", knowledge |-> TRUE,
     freshness |-> DocumentFreshness(d), confidence |-> Documents[d].confidence, distance |-> 0,
     symbol |-> FALSE, path |-> FALSE, direct |-> FALSE, semantic |-> 0]
Source(id) ==
    [Knowledge(1) EXCEPT !.id = id, !.source = Chunk(id).file, !.score = 0, !.knowledge = FALSE,
                         !.freshness = "current", !.confidence = 60]

\* Documents that say something of the question.
knowledgeCandidates == SelectSeq([d \in 1..docs |-> Knowledge(d)], LAMBDA c : c.score > 0)
sourceCandidates(hits) ==
    [k \in DOMAIN hits |-> [Source(hits[k]) EXCEPT !.score = Chunk(hits[k]).lexical, !.class = Class[Chunk(hits[k]).file]]]

\* The chunk of a file that starts first.
FirstChunk(file) ==
    LET of == {id \in InIndex : Chunk(id).file = file}
    IN  IF of = {} THEN None ELSE CHOOSE id \in of : \A other \in of : Chunk(id).line <= Chunk(other).line
FirstChunks(files) == SelectSeq([k \in DOMAIN files |-> FirstChunk(files[k])], LAMBDA id : id # None)

\* Neighbours of the files found, as many of each as are still missing.
graphCandidates(direct) ==
    LET found   == {direct[k].source : k \in DOMAIN direct}
        Near(related, k) ==
            LET next == Neighbors[direct[k].source]
                room == MaxRelated - Cardinality(related)
            IN  related \cup {next[i] : i \in {i \in DOMAIN next : i <= room /\ next[i] \notin found}}
        related == FoldLeft(Near, {}, [k \in DOMAIN direct |-> k])
        ids     == FirstChunks(InOrder(related))
    IN  [k \in DOMAIN ids |-> [Source(ids[k]) EXCEPT !.distance = 1]]

\* Files named for the concept that nothing found yet, the best named first.
pathCandidates(covered) ==
    LET files == SortSeq(InOrder({f \in Files \ covered : Path[f] > 0}),
                         LAMBDA f, g : Path[f] > Path[g] \/ (Path[f] = Path[g] /\ f < g))
        ids   == FirstChunks(SubSeq(files, 1, IF MaxRelated < Len(files) THEN MaxRelated ELSE Len(files)))
    IN  [k \in DOMAIN ids |-> Source(ids[k])]

\* applySymbolMatch and applyPathMatch, over all the candidates.
Matched(c) ==
    LET path == IF c.knowledge THEN Documents[c.id].path ELSE Path[c.source]
    IN  [c EXCEPT !.symbol = c.source \in Defines, !.path = path > 0, !.score = @ + path]

\* What a reranker answers: a permutation, too few, one twice, or an error.
Order(reply, n) ==
    CASE reply = "reversed" -> [r \in 1..n |-> n - r + 1]
      [] reply = "short"    -> [r \in 1..(n - 1) |-> r]
      [] reply = "repeated" -> [r \in 1..n |-> 1]

\* Scores of a permutation of all the candidates; anything else scores none.
applySemanticScores(pool, reply) ==
    LET n     == Len(pool)
        order == Order(reply, n)
        \* the last of the positions that candidates of one ID have
        Rank(c) == Max({r \in 1..n : pool[order[r]].id = c.id})
    IN  IF reply = None \/ n = 0 THEN pool
        ELSE IF Len(order) # n \/ ~ IsInjective(order) THEN pool
        ELSE [k \in 1..n |-> [pool[k] EXCEPT !.semantic = ((n - Rank(pool[k]) + 1) * 720) \div n]]

-----------------------------------------------------------------------------
(* Ranking and packing                                                      *)

Dampened(c) == IF c.class = "" \/ c.direct THEN c.score
               ELSE IF c.class = "docs" THEN c.score \div 2 ELSE (7 * c.score) \div 20
Points(c) ==
    LET Given(condition, points) == IF condition THEN 60 * points ELSE 0
        signal == c.class = "" /\ ~ c.direct
    IN  Dampened(c) + c.semantic + 5 * c.confidence - 120 * c.distance
        + Given(c.direct, 100) + Given(c.knowledge, 15)
        + Given(c.freshness = "current", 10) - Given(c.freshness = "stale", 20)
        + Given(signal /\ c.symbol, 8) + Given(signal /\ c.path, 8)

RankCandidates(pool) ==
    LET order == SortSeq([k \in DOMAIN pool |-> k],
                    LAMBDA j, k : \/ Points(pool[j]) > Points(pool[k])
                                  \/ Points(pool[j]) = Points(pool[k])
                                     /\ (pool[j].id < pool[k].id \/ (pool[j].id = pool[k].id /\ j < k)))
    IN  [k \in DOMAIN pool |-> pool[order[k]]]

\* The first candidate of every file, then the others.
diversify(ranked) ==
    LET isFirst(k) == \A j \in 1..(k - 1) : ranked[j].source # ranked[k].source
        all     == [k \in DOMAIN ranked |-> k]
        order   == SelectSeq(all, isFirst) \o SelectSeq(all, LAMBDA k : ~ isFirst(k))
    IN  [k \in DOMAIN order |-> ranked[order[k]]]

\* The cost of a candidate's content: empty content falls through to the next mode.
Cost(c, mode) ==
    LET d == IF c.knowledge THEN Documents[c.id]
             ELSE [compact |-> Chunk(c.id).compact, standard |-> Chunk(c.id).full, full |-> Chunk(c.id).full]
    IN  CASE mode = "full" /\ d.full > 0 -> d.full
          [] mode \in {"full", "standard"} /\ d.standard > 0 -> d.standard
          [] OTHER -> d.compact

\* A bug in Pack: the compact content is packed without asking whether it fits.
PackUnchecked(request, pool) ==
    LET ranked == diversify(RankCandidates(pool))
        Add(p, c) ==
            LET cost == IF p.spent + Cost(c, request.mode) > request.budget THEN Cost(c, "compact") ELSE Cost(c, request.mode)
            IN  IF \E k \in DOMAIN p.items : p.items[k].id = c.id THEN [p EXCEPT !.duplicate = @ + 1]
                ELSE [p EXCEPT !.items = Append(@, c), !.spent = @ + cost]
    IN  FoldLeft(Add, [items |-> <<>>, seen |-> {}, spent |-> 0, duplicate |-> 0, budget |-> 0], ranked)

Pack(request, pool) ==
    LET budget == IF request.budget = 0 THEN Default ELSE request.budget
        Add(p, c) ==
            LET fitting == {m \in {request.mode, "compact"} : p.spent + Cost(c, m) <= budget}
                mode    == IF request.mode \in fitting THEN request.mode ELSE "compact"
            IN  IF c.id \in p.seen THEN [p EXCEPT !.duplicate = @ + 1]
                ELSE IF fitting = {} THEN [p EXCEPT !.seen = @ \cup {c.id}, !.budget = @ + 1]
                ELSE [p EXCEPT !.seen = @ \cup {c.id}, !.items = Append(@, c), !.spent = @ + Cost(c, mode)]
    IN  FoldLeft(Add, [items |-> <<>>, seen |-> {}, spent |-> 0, duplicate |-> 0, budget |-> 0],
                 diversify(RankCandidates(pool)))

\* Full content asks for a budget.
Valid(request) == request.mode = "full" => request.budget > 0

-----------------------------------------------------------------------------
Init ==
    /\ indexed \in Generations
    /\ anchor \in [1..docs -> UNION {[1..n -> Statuses] : n \in {Anchors[d] : d \in 1..docs}}]
    /\ \A d \in 1..docs : Len(anchor[d]) = Anchors[d]
    /\ packet = None

Compiled(query, request, pool, missing) ==
    LET p == Pack(request, pool)
    IN  /\ packet' = [query |-> query, of |-> request, pool |-> pool, items |-> p.items, spent |-> p.spent,
                      duplicate |-> p.duplicate, omitted |-> p.budget, missing |-> missing,
                      moved |-> packet # None /\ packet.query = "moved"]
        /\ UNCHANGED <<indexed, anchor>>

\* The documents and chunks of the text, their neighbours, and then the paths.
Search(request, hits, reply) ==
    /\ packet = None
    /\ Valid(request)
    /\ LET sources == sourceCandidates(SelectSeq(hits, LAMBDA id : id \in InIndex))
           found   == knowledgeCandidates \o sources \o graphCandidates(sources)
           pool    == found \o pathCandidates({found[k].source : k \in DOMAIN found})
       IN  Compiled("search", request, applySemanticScores([k \in DOMAIN pool |-> Matched(pool[k])], reply), 0)

\* Fetches what the last search selected, and the first of it again, from the
\* index as it is now.
Get(request, again) ==
    /\ packet # None /\ packet.query \in {"search", "moved"}
    /\ Valid(request) /\ packet.items # <<>>
    /\ LET all  == [k \in DOMAIN packet.items |-> packet.items[k].id]
           ids  == IF again THEN Append(all, all[1]) ELSE all
           here == SelectSeq(ids, LAMBDA id : id <= docs \/ id \in InIndex)
           \* no evidence of a question: the ID is what matches
           Fetched(id) == IF id <= docs THEN [Knowledge(id) EXCEPT !.score = 0, !.direct = TRUE]
                          ELSE [Source(id) EXCEPT !.direct = TRUE]
       IN  Compiled("get", request, [k \in DOMAIN here |-> Fetched(here[k])], Len(ids) - Len(here))

\* A refresh publishes another generation before the selected is fetched.
Reindex ==
    /\ packet # None /\ packet.query = "search"
    /\ indexed' \in Generations \ {indexed}
    /\ packet' = [packet EXCEPT !.query = "moved"]
    /\ UNCHANGED anchor

Read == packet # None /\ packet' = None /\ UNCHANGED <<indexed, anchor>>

Next ==
    \/ \E request \in Requests, hits \in Hits, reply \in {"reversed", "short", "repeated", None} :
          Search(request, hits, reply)
    \/ \E request \in Requests, again \in BOOLEAN : Get(request, again)
    \/ Reindex
    \/ Read

Spec == Init /\ [][Next]_vars
-----------------------------------------------------------------------------
\* Every candidate is in the packet, counted as a duplicate or counted as
\* beyond the budget, no ID is packed twice, the packet stays in the budget,
\* and nothing that was left out would still fit.
PacketAccounts ==
    LET budget == IF packet.of.budget = 0 THEN Default ELSE packet.of.budget
        packed == {packet.items[k].id : k \in DOMAIN packet.items}
    IN  /\ Len(packet.items) + packet.duplicate + packet.omitted = Len(packet.pool)
        /\ Cardinality(packed) = Len(packet.items)
        /\ packet.spent <= budget
        /\ \A k \in DOMAIN packet.pool : packet.pool[k].id \notin packed =>
             \A m \in {packet.of.mode, "compact"} : packet.spent + Cost(packet.pool[k], m) > budget

\* A file is not shown twice before every file that is shown has been shown
\* once.  Of two files the one with the better evidence, or the same evidence
\* of a better kind, comes first, whatever a reranker that fails answered.
Signal(c) == IF c.class = "" THEN 2 ELSE IF c.class = "docs" THEN 1 ELSE 0
Fresh(c)  == IF c.freshness = "current" THEN 2 ELSE IF c.freshness = "stale" THEN 0 ELSE 1
Better(c, d) ==
    /\ c.knowledge = d.knowledge /\ c.direct = d.direct
    /\ c.score > d.score /\ Signal(c) >= Signal(d) /\ Fresh(c) >= Fresh(d)
    /\ c.semantic >= d.semantic /\ c.confidence >= d.confidence /\ c.distance <= d.distance
    /\ d.symbol => c.symbol
    /\ d.path => c.path
PacketOrdered ==
    \A j, k \in DOMAIN packet.items : j < k =>
        LET new(i) == \A h \in 1..(i - 1) : packet.items[h].source # packet.items[i].source
        IN  /\ new(k) => new(j)
            /\ new(k) => ~ Better(packet.items[k], packet.items[j])

\* What a search selected can be fetched until another generation is published.
SelectionFetchable ==
    /\ packet.query = "get" => packet.missing = 0 \/ packet.moved
    /\ packet.query # "get" => packet.duplicate = 0

PacketRight == packet # None => PacketAccounts /\ PacketOrdered /\ SelectionFetchable
=============================================================================
