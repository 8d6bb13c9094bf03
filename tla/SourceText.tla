----------------------------- MODULE SourceText -----------------------------
(***************************************************************************)
(* One source file as the index keeps it and as the questions about its     *)
(* symbols read it: the chunks of parse/extract, the outline and the call   *)
(* sites, which come from the rows, and the span, the definition and the    *)
(* lines of internal/query, which use the rows' line numbers on the bytes    *)
(* that are on disk by then.                                                *)
(*                                                                         *)
(* A text is its lines, and a line is code, a note (a comment line) or       *)
(* blank; every code line calls the symbol that is asked about.  The parser  *)
(* is external: it reports any ranges of the text.                          *)
(***************************************************************************)
EXTENDS Integers, SequencesExt

CONSTANTS
    Texts,      \* the texts the file may hold
    MaxSymbols, \* bound of this model: symbols of a text
    Window,     \* lines of a chunk, 40 in the code
    MaxDoc,     \* lines of a doc comment, 15 in the code
    MaxBody,    \* DefinitionMaxLines and PeekMaxLines, 200 in the code
    MaxSites,   \* call sites of an answer, 40 in the code
    Gone, None

VARIABLES disk,   \* the text on disk, or Gone
          rows,   \* the published rows: [text, symbols, chunks], or None
          answer  \* the last answer: [query, of, result], or None

vars == <<disk, rows, answer>>

Least(a, b) == IF a < b THEN a ELSE b
Most(a, b) == IF a > b THEN a ELSE b
Lines(r) == r.a..r.b

\* What the parser may report of a text, ordered by first line: functions, which
\* begin and end with code, or a component, whose range is the placeholder 1-1.
Ranges(text) ==
    {r \in [a : DOMAIN text, b : DOMAIN text, kind : {"function"}] :
        r.a <= r.b /\ text[r.a] = "code" /\ text[r.b] = "code"}
Symbols(text) ==
    {s \in SeqOf(Ranges(text), MaxSymbols) : \A i, j \in DOMAIN s : i < j => s[i].a <= s[j].a}
        \cup {<<[a |-> 1, b |-> 1, kind |-> "component"]>>}

-----------------------------------------------------------------------------
(* internal/parse/extract: chunks and doc comments                          *)

Split(a, b) == [i \in 1..((b - a) \div Window + 1) |->
                  [a |-> a + (i - 1) * Window, b |-> Least(a + i * Window - 1, b)]]

\* Overlapping ranges become one; the symbols come sorted by first line.
mergeSymbolSpans(symbols) ==
    FoldLeft(LAMBDA merged, s :
                 IF merged # <<>> /\ s.a <= Last(merged).b
                 THEN Append(Front(merged), [a |-> Last(merged).a, b |-> Most(s.b, Last(merged).b)])
                 ELSE Append(merged, [a |-> s.a, b |-> s.b]),
             <<>>, symbols)

\* A bug in buildAtoms: the gap before a symbol is forgotten.
AtomsWithoutGaps(regions, n) ==
    LET tiled == FoldLeft(LAMBDA t, r :
                     [atoms  |-> t.atoms \o (IF r.b - r.a + 1 <= 2 * Window THEN <<r>> ELSE Split(r.a, r.b)),
                      cursor |-> r.b + 1],
                     [atoms |-> <<>>, cursor |-> 1], regions)
    IN  tiled.atoms \o (IF tiled.cursor <= n THEN Split(tiled.cursor, n) ELSE <<>>)

buildAtoms(regions, n) ==
    LET tiled == FoldLeft(LAMBDA t, r :
                     [atoms  |-> t.atoms \o (IF r.a > t.cursor THEN Split(t.cursor, r.a - 1) ELSE <<>>)
                                         \o (IF r.b - r.a + 1 <= 2 * Window THEN <<r>> ELSE Split(r.a, r.b)),
                      cursor |-> r.b + 1],
                     [atoms |-> <<>>, cursor |-> 1], regions)
    IN  tiled.atoms \o (IF tiled.cursor <= n THEN Split(tiled.cursor, n) ELSE <<>>)

chunkStructured(text, symbols) ==
    LET packed == FoldLeft(LAMBDA out, at :
                      IF out # <<>> /\ at.b - Last(out).a + 1 <= Window
                      THEN Append(Front(out), [a |-> Last(out).a, b |-> at.b])
                      ELSE Append(out, at),
                      <<>>, buildAtoms(mergeSymbolSpans(symbols), Len(text)))
    IN  SelectSeq(packed, LAMBDA c : \E l \in Lines(c) : text[l] # "blank")

\* The comment lines directly above start.  A start two lines past the end of
\* the file indexes past the lines: the process panics.
DocCommentStart(text, start) ==
    LET above == {s \in 1..start : start - s <= MaxDoc /\ \A l \in s..(start - 1) : text[l] = "note"}
    IN  CHOOSE s \in above : \A t \in above : s <= t
DocPanics(text, start) == start > Len(text) + 1

-----------------------------------------------------------------------------
(* internal/query                                                           *)

\* readSpan: the range is pinned inside the file as it is now.
readSpan(text, s) ==
    LET n     == Len(text)
        start == Least(s.a, n)
        last  == IF s.kind = "component" /\ s.b <= 1 THEN n ELSE s.b
        end   == Least(Most(last, start), n)
    IN  [start |-> start, end |-> end, body |-> SubSeq(text, start, end)]

\* Definition: only the end is pinned.
readDefinition(text, s) ==
    LET last  == Most(s.b, s.a)
        end   == Least(IF s.kind = "component" /\ last <= 1 THEN Len(text) ELSE last, Len(text))
        start == DocCommentStart(text, s.a)
    IN  IF DocPanics(text, s.a) THEN [start |-> s.a, end |-> end, body |-> None]
        ELSE [start |-> start, end |-> end, body |-> SubSeq(text, start, Least(end, start + MaxBody - 1))]

PeekLines(text, first, last) ==
    LET start == Least(Most(first, 1), Len(text))
        end   == Most(IF last <= 0 \/ last > Len(text) THEN Len(text) ELSE last, start)
        cut   == Least(end, start + MaxBody - 1)
    IN  [start |-> start, end |-> cut, body |-> SubSeq(text, start, cut)]

\* The depth of each symbol: a stack of those that enclose the next one.
OutlineDepths(symbols) ==
    LET Pop[stack \in SeqOf(DOMAIN symbols, Len(symbols)), i \in DOMAIN symbols] ==
            IF stack = <<>> \/ (symbols[Last(stack)].a < symbols[i].a /\ symbols[i].b <= symbols[Last(stack)].b)
            THEN stack ELSE Pop[Front(stack), i]
    IN  FoldLeft(LAMBDA o, i : LET stack == Pop[o.stack, i]
                               IN  [stack |-> Append(stack, i), depths |-> Append(o.depths, Len(stack))],
                 [stack |-> <<>>, depths |-> <<>>], [i \in DOMAIN symbols |-> i]).depths

\* The innermost symbol around a line, the first of equals.
enclosingName(symbols, line) ==
    LET around == {i \in DOMAIN symbols : line \in Lines(symbols[i])}
        size(i) == symbols[i].b - symbols[i].a
    IN  IF around = {} THEN None
        ELSE CHOOSE i \in around : \A j \in around : size(i) < size(j) \/ (size(i) = size(j) /\ i <= j)

\* Where symbol i is called, chunk by chunk; its own body is no usage.
CallSites(i) ==
    LET sites(c) == SelectSeq([k \in 1..(c.b - c.a + 1) |-> c.a + k - 1],
                       LAMBDA l : /\ l \notin Lines(rows.symbols[i])
                                  /\ rows.text[l] = "code"
                                  /\ \A j \in DOMAIN rows.symbols : rows.symbols[j].a # l)
        all == FoldLeft(LAMBDA found, c : found \o sites(c), <<>>, rows.chunks)
    IN  [k \in 1..Least(Len(all), MaxSites) |-> [line |-> all[k], in |-> enclosingName(rows.symbols, all[k])]]

-----------------------------------------------------------------------------
Init == /\ disk \in Texts
        /\ rows = None
        /\ answer = None

\* Someone deletes or creates the file, or changes one of its lines, its
\* beginning or its end.
Edits(text) ==
    IF text = Gone THEN Texts
    ELSE {Gone} \cup {t \in Texts :
            \/ IsSuffix(t, text) \/ IsSuffix(text, t) \/ IsPrefix(t, text) \/ IsPrefix(text, t)
            \/ Len(t) = Len(text) /\ Cardinality({l \in DOMAIN t : t[l] # text[l]}) = 1}
Edit ==
    /\ answer = None
    /\ disk' \in Edits(disk) \ {disk}
    /\ UNCHANGED <<rows, answer>>

\* A refresh publishes the rows of the text it read.
Index(symbols) ==
    /\ answer = None /\ disk # Gone
    /\ rows' = [text |-> disk, symbols |-> symbols, chunks |-> chunkStructured(disk, symbols)]
    /\ UNCHANGED <<disk, answer>>

Answered(query, i, result) ==
    /\ answer' = [query |-> query, of |-> i, result |-> result]
    /\ UNCHANGED <<disk, rows>>

Asked(i) == answer = None /\ rows # None /\ i \in DOMAIN rows.symbols

\* A file removed since it was indexed is not a span, and no definition.
Span(i)       == Asked(i) /\ disk # Gone /\ Answered("span", i, readSpan(disk, rows.symbols[i]))
Definition(i) == Asked(i) /\ disk # Gone /\ Answered("definition", i, readDefinition(disk, rows.symbols[i]))
References(i) == Asked(i) /\ Answered("references", i, CallSites(i))
Outline       == answer = None /\ rows # None /\ Answered("outline", 0, OutlineDepths(rows.symbols))
\* The lines of a file need no row; the bound asks for them before there is one.
Peek(a, b)    == answer = None /\ rows = None /\ disk # Gone /\ Answered("peek", 0, PeekLines(disk, a, b))

Read == answer # None /\ answer' = None /\ UNCHANGED <<disk, rows>>

Next ==
    \/ Read
    \/ Edit
    \/ disk # Gone /\ \E s \in Symbols(disk) : Index(s)
    \/ \E i \in 1..MaxSymbols : Span(i) \/ Definition(i) \/ References(i)
    \/ Outline
    \/ \E a, b \in 0..MaxBody + 2 : Peek(a, b)

Spec == Init /\ [][Next]_vars

-----------------------------------------------------------------------------
\* Every line that says something lies in one chunk and no other.  A chunk is
\* longer than the window only to keep symbols whole, and a symbol that no
\* other overlaps is cut only when it is longer than two windows.
ChunksTile ==
    rows # None =>
        /\ \A l \in DOMAIN rows.text : rows.text[l] # "blank" =>
             Cardinality({k \in DOMAIN rows.chunks : l \in Lines(rows.chunks[k])}) = 1
        /\ \A k \in DOMAIN rows.chunks :
             \/ Cardinality(Lines(rows.chunks[k])) <= Window
             \/ \E i \in DOMAIN rows.symbols : rows.symbols[i].a = rows.chunks[k].a
        /\ \A i \in DOMAIN rows.symbols :
             ( /\ Cardinality(Lines(rows.symbols[i])) <= 2 * Window
               /\ \A j \in DOMAIN rows.symbols \ {i} : Lines(rows.symbols[i]) \cap Lines(rows.symbols[j]) = {}
               /\ \E l \in Lines(rows.symbols[i]) : rows.text[l] # "blank" )
             => \E k \in DOMAIN rows.chunks : Lines(rows.symbols[i]) \subseteq Lines(rows.chunks[k])

\* A span or a window of lines is a range of the file as it is now and its
\* bytes; while the file is as it was indexed, the span is the symbol's own.
\* A definition is such a range too, cut at MaxBody lines: of the file as it was
\* indexed, the symbol under the comment above it.  The one exception: of a file
\* that has become shorter than the line before the symbol there is no answer,
\* the process panics (definition.go:92, doc.go:28).
\* Call sites are each reported once, outside the symbol, in the symbol around
\* them.  A symbol is one deeper than the nearest one around it.
AnswersCite ==
    LET r == answer.result IN
    answer # None =>
    CASE answer.query \in {"span", "peek"} ->
           /\ 1 <= r.start /\ r.start <= r.end /\ r.end <= Len(disk)
           /\ r.body = SubSeq(disk, r.start, r.end)
           /\ (answer.query = "span" /\ disk = rows.text) =>
                LET s == rows.symbols[answer.of]
                IN  Lines([a |-> r.start, b |-> r.end]) = (IF s.kind = "component" THEN DOMAIN disk ELSE Lines(s))
           /\ answer.query = "peek" => r.end - r.start < MaxBody
      [] answer.query = "definition" ->
           LET s == rows.symbols[answer.of] IN
           \/ r.body = None /\ s.a > Len(disk) + 1
           \/ /\ 1 <= r.start /\ r.start <= s.a /\ r.end <= Len(disk)
              /\ r.body = SubSeq(disk, r.start, Least(r.end, r.start + MaxBody - 1))
              /\ disk = rows.text =>
                   /\ (IF s.kind = "component" THEN DOMAIN disk ELSE Lines(s)) \subseteq r.start..r.end
                   /\ \A l \in r.start..r.end : l \in Lines(s) \/ s.kind = "component" \/ disk[l] = "note"
      [] answer.query = "references" ->
           /\ \A j, k \in DOMAIN r : r[j].line = r[k].line => j = k
           /\ \A k \in DOMAIN r : r[k].line \notin Lines(rows.symbols[answer.of])
           /\ \A l \in DOMAIN rows.text :
                (rows.text[l] = "code" /\ \A i \in DOMAIN rows.symbols : l \notin Lines(rows.symbols[i]))
                  => Len(r) = MaxSites \/ \E k \in DOMAIN r : r[k] = [line |-> l, in |-> None]
      [] answer.query = "outline" ->
           LET over(i) == {j \in DOMAIN rows.symbols : j < i /\ Lines(rows.symbols[i]) \subseteq Lines(rows.symbols[j])}
           IN  (\A i, j \in DOMAIN rows.symbols : i < j =>
                   /\ rows.symbols[i].a < rows.symbols[j].a
                   /\ rows.symbols[j].a <= rows.symbols[i].b => rows.symbols[j].b <= rows.symbols[i].b)
               => \A i \in DOMAIN rows.symbols : r[i] = Cardinality(over(i))

TextAnswersRight == ChunksTile /\ AnswersCite
=============================================================================
