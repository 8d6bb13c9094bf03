---------------------------- MODULE SearchRanking ----------------------------
(***************************************************************************)
(* How internal/query and internal/store order what a search finds: the      *)
(* tiers of the full text index and its fallbacks, the fusion with nearest   *)
(* vectors, the appendix of documentation, the reranking by a model, and     *)
(* the symbols of find with its typo-tolerant last resort.                   *)
(*                                                                         *)
(* The full text and vector engines are external: Found gives, for a text,   *)
(* the ranked list each of them answers.  A chunk is a number, a name is a   *)
(* sequence of letters, and letters are numbers.                             *)
(***************************************************************************)
EXTENDS Integers, SequencesExt

CONSTANTS
    Tier,       \* Tier[c]: 0 source, 1 test, 2 documentation, 3 vendored
    PathScore,  \* PathScore[c]: how strongly the path of chunk c names the concept
    Found,      \* the lists of a text: [phrase, all, any, substring, path, docs, near]
    Rewritten,  \* the lists of the texts the model may rewrite it to
    Replies,    \* the orders a model may reply with
    Symbols,    \* [name, path, auxiliary, vendored], by name and then by path
    Names,      \* names asked for
    Limit,      \* DefaultLimit, 50 in the code
    SmartLimit, \* candidates of a smart search, 20
    Floor, Cap, \* docRecallFloor 11 and docRecallCap 3
    ShortName, LongName, \* names of 4 and of 8 letters
    None

VARIABLES matches, \* the lists for the text asked and for its rewriting
          tools,   \* the model there is: "none", "agent" or "local", and whether vectors are ready
          answer   \* the last answer: [query, of, base, docs, result], or None

vars == <<matches, tools, answer>>

Cut(seq, n) == SubSeq(seq, 1, IF n < Len(seq) THEN n ELSE Len(seq))
Concat(lists) == FlattenSeq(lists)
Dedup(seq) == FoldLeft(LAMBDA kept, c : IF Contains(kept, c) THEN kept ELSE Append(kept, c), <<>>, seq)
IndexIn(seq, x) == CHOOSE i \in DOMAIN seq : seq[i] = x /\ \A j \in 1..(i - 1) : seq[j] # x

\* sort.SliceStable by a key that is a number.
Stable(seq, Key(_)) ==
    LET order == SortSeq([i \in DOMAIN seq |-> i],
                         LAMBDA i, j : Key(seq[i]) < Key(seq[j]) \/ (Key(seq[i]) = Key(seq[j]) /\ i < j))
    IN  [i \in DOMAIN seq |-> seq[order[i]]]

-----------------------------------------------------------------------------
(* Chunks                                                                   *)

\* Phrase, all terms, any term, then the literal fallback.
SearchChunks(m, limit) == Cut(Dedup(Concat(<<m.phrase, m.all, m.any, m.substring>>)), limit)

\* Project code first, then what the path names.
searchChunksRanked(m, limit) ==
    Cut(Stable(Dedup(SearchChunks(m, 4 * limit) \o m.path), LAMBDA c : 10 * Tier[c] - PathScore[c]), limit)

\* Reciprocal ranks, 1/(60 + rank), over a common denominator.
Denominator == FoldLeft(LAMBDA p, i : p * (60 + i), 1, [i \in 1..Limit |-> i])
Score(lists, c) ==
    FoldLeft(LAMBDA sum, list : IF Contains(list, c) THEN sum + Denominator \div (60 + IndexIn(list, c)) ELSE sum,
             0, lists)
fuseRRF(limit, lists) == Cut(Stable(Dedup(Concat(lists)), LAMBDA c : -Score(lists, c)), limit)

\* A bug in mergeDocRecall: the documentation comes first.
RecallFirst(base, docs, limit) ==
    LET misses == SelectSeq(Dedup(docs), LAMBDA c : ~ Contains(base, c))
    IN  Cut(Cut(Stable(misses, LAMBDA c : Tier[c]), Cap) \o Dedup(base), limit)

\* At most Cap chunks that only the documentation finds, below the window that
\* is read first.
mergeDocRecall(base, docs, limit) ==
    LET out    == Dedup(base)
        misses == Stable(SelectSeq(Dedup(docs), LAMBDA c : ~ Contains(base, c)), LAMBDA c : Tier[c])
        ins    == IF Floor - 1 < Len(out) THEN Floor - 1 ELSE Len(out)
    IN  Cut(SubSeq(out, 1, ins) \o Cut(misses, Cap) \o SubSeq(out, ins + 1, Len(out)), limit)

\* The vectors and the words; the words alone when the text cannot be embedded.
Base(m, limit, embedded) ==
    IF tools.model # "none" /\ tools.vectors /\ embedded
    THEN fuseRRF(limit, <<Cut(m.near, limit), searchChunksRanked(m, limit)>>)
    ELSE searchChunksRanked(m, limit)

Candidates(m, limit, embedded) == mergeDocRecall(Base(m, limit, embedded), Cut(Dedup(m.docs), limit), limit)

\* The permutation in what a model replied: its first mention of each position,
\* then the positions it did not mention.
parseOrder(reply, n) ==
    LET said == SelectSeq(Dedup(reply), LAMBDA i : i \in 1..n)
    IN  said \o SelectSeq([i \in 1..n |-> i], LAMBDA i : ~ Contains(said, i))

-----------------------------------------------------------------------------
(* Symbols                                                                  *)

\* The rows of optimal string alignment, two of them kept.
osaDistance(a, b) ==
    LET Cell(rows, c, i, j) ==
            LET near == {rows.prev[j + 1] + 1, c[j] + 1, rows.prev[j] + (IF a[i] = b[j] THEN 0 ELSE 1)}
                swap == IF i > 1 /\ j > 1 /\ a[i] = b[j - 1] /\ a[i - 1] = b[j] THEN {rows.prev2[j - 1] + 1} ELSE {}
            IN  Min(near \cup swap)
        Row(rows, i) == [prev2 |-> rows.prev,
                         prev  |-> FoldLeft(LAMBDA c, j : Append(c, Cell(rows, c, i, j)), <<i>>, [j \in DOMAIN b |-> j])]
    IN  IF a = <<>> THEN Len(b) ELSE IF b = <<>> THEN Len(a)
        ELSE Last(FoldLeft(Row, [prev2 |-> <<>>, prev |-> [j \in 1..(Len(b) + 1) |-> j - 1]],
                           [i \in DOMAIN a |-> i]).prev)

maxDist(name) == IF Len(name) >= LongName THEN 2 ELSE 1

\* The nearest names, then the first by name, until Limit symbols have them.
fuzzySymbols(name) ==
    LET d(i) == osaDistance(name, Symbols[i].name)
        near == Stable(SelectSeq([i \in DOMAIN Symbols |-> i], LAMBDA i : d(i) \in 1..maxDist(name)), d)
    IN  IF Len(name) < ShortName THEN <<>>
        ELSE SelectSeq(near, LAMBDA i : Limit > Cardinality({j \in Range(near) :
                                Symbols[j].name # Symbols[i].name /\ IndexIn(near, j) < IndexIn(near, i)}))

findRank(i) == (IF Symbols[i].auxiliary THEN 1 ELSE 0) + (IF Symbols[i].vendored THEN 2 ELSE 0)

\* Exact names, what the full text index says, then names that contain it.
FindSymbol(name, indexed) ==
    LET all   == [i \in DOMAIN Symbols |-> i]
        exact == SelectSeq(all, LAMBDA i : Symbols[i].name = name)
        part  == Stable(SelectSeq(all, LAMBDA i : \E s \in SubSeqs(Symbols[i].name) : s = name),
                        LAMBDA i : 100 * Len(Symbols[i].name) + Symbols[i].path)
        out   == Dedup(Cut(exact, Limit) \o Cut(indexed, Limit))
        found == IF Len(out) < Limit THEN Dedup(out \o Cut(part, Limit)) ELSE out
    IN  IF found = <<>> THEN fuzzySymbols(name) ELSE Stable(found, findRank)

-----------------------------------------------------------------------------
Init ==
    /\ matches \in [asked : Found, rewritten : Rewritten]
    /\ tools \in [model : {"none", "agent", "local"}, vectors : BOOLEAN]
    /\ answer = None

Answered(query, of, base, docs, result) ==
    /\ answer = None
    /\ answer' = [query |-> query, of |-> of, base |-> base, docs |-> docs, result |-> result]
    /\ UNCHANGED <<matches, tools>>

\* Only a local model embeds.
Embeds == IF tools.model = "local" THEN BOOLEAN ELSE {FALSE}

SimilarCode(embedded) ==
    LET m == matches.asked
    IN  Answered("search", None, Base(m, Limit, embedded), m.docs, Candidates(m, Limit, embedded))

\* The model rewrites the text or fails to, and orders the candidates or fails to.
SmartSearch(text, embedded, reply) ==
    LET m     == matches[text]
        cand  == Candidates(m, SmartLimit, embedded)
        order == parseOrder(reply, Len(cand))
    IN  IF tools.model = "none"
        THEN Answered("search", None, Base(matches.asked, Limit, FALSE), matches.asked.docs,
                      Candidates(matches.asked, Limit, FALSE))
        ELSE Answered("smart", reply, cand, <<>>,
                      IF reply = None THEN cand ELSE [i \in DOMAIN cand |-> cand[order[i]]])

Find(name, indexed) == Answered("find", name, indexed, <<>>, FindSymbol(name, indexed))

Read == answer # None /\ answer' = None /\ UNCHANGED <<matches, tools>>

Next ==
    \/ \E embedded \in Embeds : SimilarCode(embedded)
    \/ \E text \in {"asked", "rewritten"}, embedded \in Embeds, reply \in Replies \cup {None} :
          SmartSearch(text, embedded, reply)
    \/ \E name \in Names, indexed \in {<<>>} \cup {<<i>> : i \in DOMAIN Symbols} : Find(name, indexed)
    \/ Read

Spec == Init /\ [][Next]_vars

-----------------------------------------------------------------------------
\* The distance by definition.
RECURSIVE Edits(_, _)
Edits(a, b) ==
    IF a = <<>> \/ b = <<>> THEN Len(a) + Len(b)
    ELSE Min({Edits(Tail(a), b) + 1, Edits(a, Tail(b)) + 1,
              Edits(Tail(a), Tail(b)) + (IF Head(a) = Head(b) THEN 0 ELSE 1)}
             \cup (IF Len(a) > 1 /\ Len(b) > 1 /\ a[1] = b[2] /\ a[2] = b[1]
                   THEN {Edits(Tail(Tail(a)), Tail(Tail(b))) + 1} ELSE {}))

Before(seq, x, y) == IndexIn(seq, x) < IndexIn(seq, y)

\* No chunk is answered twice.  What is read first is the ranking without the
\* documentation, whose order the whole answer keeps; all the chunks only the
\* documentation finds, up to the cap, are in it.  Words alone put project code
\* before tests before prose before vendored code; with vectors, what both find
\* comes before what one finds.  A model can only permute.
SearchIsRanked ==
    LET r == answer.result
        b == answer.base
        misses == {c \in Range(answer.docs) : ~ Contains(b, c)}
        words  == searchChunksRanked(matches.asked, Limit)
        near   == Cut(matches.asked.near, Limit)
    IN  CASE answer.query = "search" ->
               /\ IsInjective(r) /\ Len(r) <= Limit
               /\ \A i \in 1..(Floor - 1) : i \in DOMAIN b => r[i] = b[i]
               /\ \A c, d \in Range(r) \cap Range(b) : Before(r, c, d) => Before(b, c, d) \/ c = d
               /\ Cardinality(Range(r) \cap misses) = (IF Cardinality(misses) < Cap THEN Cardinality(misses) ELSE Cap)
               /\ b = words => \A c, d \in Range(b) : Tier[c] < Tier[d] => Before(b, c, d)
               /\ b # words => \A c, d \in Range(b) :
                     (Contains(words, c) /\ Contains(near, c) /\ ~ (Contains(words, d) /\ Contains(near, d))) => Before(b, c, d)
          [] answer.query = "smart" ->
               /\ IsInjective(r) /\ Range(r) = Range(b)
               /\ answer.of = None => r = b
          [] OTHER -> TRUE

\* The symbols of that name come first among their kind, code before entries
\* and the project before its vendored code.  Only when nothing matches are near
\* names answered, each within the distance, the nearest first.
FindIsRanked ==
    LET r == answer.result
        name == answer.of
        holding == {i \in DOMAIN Symbols : \E s \in SubSeqs(Symbols[i].name) : s = name}
        named   == {i \in holding : Symbols[i].name = name}
        distance == [i \in DOMAIN Symbols |-> Edits(name, Symbols[i].name)]
        near    == {i \in DOMAIN Symbols : distance[i] <= maxDist(name)}
    IN  /\ IsInjective(r)
        /\ IF answer.base # <<>> \/ holding # {}
           THEN /\ Cardinality(named) <= Limit => named \subseteq Range(r)
                /\ \A j, k \in Range(r) :
                     /\ findRank(j) < findRank(k) => Before(r, j, k)
                     /\ (j \in named /\ k \notin named /\ findRank(j) = findRank(k)) => Before(r, j, k)
           ELSE /\ Len(name) < ShortName => r = <<>>
                /\ Len(name) >= ShortName => (r # <<>>) = (near # {})
                /\ Range(r) \subseteq near
                /\ \A j \in near, k \in Range(r) : distance[j] < distance[k] => Contains(r, j) /\ Before(r, j, k)

RankingRight == answer # None => IF answer.query = "find" THEN FindIsRanked ELSE SearchIsRanked
=============================================================================
