--------------------------- MODULE KnowledgeBundle ---------------------------
(***************************************************************************)
(* The knowledge bundle of internal/knowledge between two decisions: the    *)
(* documents a person and Prowl both write, the anchors that tie them to    *)
(* lines of a source file, the block Prowl owns in index.md, and what lint, *)
(* repair and the index rows say of them.                                   *)
(*                                                                         *)
(* A source file is the sequence of its lines and the hash of a region is   *)
(* the region.  A document on disk is its front matter -- the pairs at the  *)
(* top level and those under prowl:, each with keys Prowl knows and others  *)
(* -- its anchors and the links of its body.  How a decision survives a     *)
(* crash is KnowledgeDecision; here it is one step.                         *)
(***************************************************************************)
EXTENDS Integers, Sequences, SequencesExt

CONSTANTS Contents,      \* what the source file may hold (sequences of lines)
          Candidates,    \* documents that may be proposed, each for a path
          HandWritten,   \* documents that may be put there by hand, or removed
          Paths,         \* 1..n, the documents' names in the order of a walk
          Budget,        \* maxRelocationBytes, in lines
          MaxEdits,      \* edits by hand
          Gone           \* no such file

VARIABLES source, bundle, proposal, index, told, edits

vars == <<source, bundle, proposal, index, told, edits>>

Nothing == [op |-> "nothing"]
PathSet == Range(Paths)

(***************************************************************************)
(* The codec (okfv01): known fields are read out of the pairs and written   *)
(* back into them; the other pairs stay where they are.                     *)
(***************************************************************************)
keyIndex(mapping, key) == SelectInSeq(mapping, LAMBDA pair : pair[1] = key)
scalar(mapping, key) == IF keyIndex(mapping, key) = 0 THEN "" ELSE mapping[keyIndex(mapping, key)][2]
setScalar(mapping, key, value) ==
    LET at == keyIndex(mapping, key) IN
    CASE value = "" /\ at = 0 -> mapping
      [] value = "" /\ at > 0 -> RemoveAt(mapping, at)
      [] value # "" /\ at = 0 -> Append(mapping, <<key, value>>)
      [] OTHER                -> ReplaceAt(mapping, at, <<key, value>>)

TopFields   == <<"type", "title", "resource">>
ProwlFields == <<"id", "status", "valid_from", "valid_to", "related">>
Misplaced   == {"anchors", "status", "confidence", "valid_from", "valid_to", "related"}

\* An anchor without what the codec does not know of it.
Known(anchor) == [anchor EXCEPT !.note = FALSE]
Parsed(anchors) == [i \in DOMAIN anchors |-> Known(anchors[i])]
Fields(mapping, names) == [i \in DOMAIN names |-> scalar(mapping, names[i])]

Parses(file) ==
    /\ \A pair \in Range(file.top) : pair[1] \notin Misplaced
    /\ scalar(file.top, "type") # ""
Parse(file) ==
    [top |-> Fields(file.top, TopFields), prowl |-> Fields(file.prowl, ProwlFields),
     anchors |-> Parsed(file.anchors), links |-> file.links, frontmatter |-> file]
hasProwl(doc) == doc.anchors # <<>> \/ \E i \in DOMAIN doc.prowl : doc.prowl[i] # ""
SetFields(mapping, names, values) ==
    FoldLeft(LAMBDA m, i : setScalar(m, names[i], values[i]), mapping, [i \in DOMAIN names |-> i])
\* Anchors that are not what the document had are all written anew.
Marshal(doc) ==
    [top |-> SetFields(doc.frontmatter.top, TopFields, doc.top),
     prowl |-> IF hasProwl(doc) \/ doc.frontmatter.prowl # <<>>
               THEN SetFields(doc.frontmatter.prowl, ProwlFields, doc.prowl) ELSE <<>>,
     anchors |-> IF Parsed(doc.frontmatter.anchors) = doc.anchors THEN doc.frontmatter.anchors ELSE doc.anchors,
     links |-> doc.links]

Field(doc, name) ==
    IF name \in Range(TopFields) THEN doc.top[SelectInSeq(TopFields, LAMBDA f : f = name)]
    ELSE doc.prowl[SelectInSeq(ProwlFields, LAMBDA f : f = name)]

(***************************************************************************)
(* Anchors against the source file as it is.                                *)
(***************************************************************************)
Written(anchor) == anchor.first >= 1 /\ anchor.last >= anchor.first
Inside(lines, first, last) == first >= 1 /\ last >= first /\ last <= Len(lines)
hash(lines, first, last) == IF Inside(lines, first, last) THEN SubSeq(lines, first, last) ELSE <<>>

\* The first symbol of that name: its line and the code under it (external).
SymbolRange(lines, symbol) ==
    LET first == SelectInSeq(lines, LAMBDA line : line = symbol)
        ends  == {i \in first..Len(lines) : \A k \in first + 1..i : lines[k] \in {"x", "y"}}
    IN  IF first = 0 THEN <<>> ELSE <<first, CHOOSE i \in ends : \A k \in ends : k <= i>>

\* Mutant: the first place in the file.
relocateFirst(lines, want, span, origin) ==
    LET places == SelectSeq([k \in 1..Len(lines) |-> k], LAMBDA s : s + span - 1 <= Len(lines) /\ SubSeq(lines, s, s + span - 1) = want)
    IN  IF want = <<>> \/ span > Len(lines) \/ places = <<>> THEN 0 ELSE places[1]

\* Where the wanted lines are now: the nearest place, of two as near the later,
\* among those the budget allows to look at.
relocateRegion(lines, want, span, origin) ==
    LET last   == Len(lines) - span + 1
        from   == IF origin < 1 THEN 1 ELSE IF origin > last THEN last ELSE origin
        order  == [k \in 1..2 * Len(lines) + 1 |-> IF k % 2 = 0 THEN from + k \div 2 ELSE from - k \div 2]
        probes == SelectSeq(order, LAMBDA s : s \in 1..last)
        seen   == SubSeq(probes, 1, IF Budget \div span < Len(probes) THEN Budget \div span ELSE Len(probes))
        hits   == SelectSeq(seen, LAMBDA s : SubSeq(lines, s, s + span - 1) = want)
    IN  IF want = <<>> \/ span > Len(lines) \/ hits = <<>> THEN 0 ELSE hits[1]

anchorRegion(anchor, lines, resolving) ==
    IF anchor.symbol # "" /\ resolving THEN SymbolRange(lines, anchor.symbol)
    ELSE IF Written(anchor) THEN <<anchor.first, anchor.last>> ELSE <<>>

Check(anchor, status, first, last) == [anchor |-> anchor, status |-> status, first |-> first, last |-> last]
CheckAnchorResolved(anchor, lines, resolving) ==
    LET region == anchorRegion(anchor, lines, resolving)
        sized(first, last) == relocateRegion(lines, anchor.hash, last - first + 1, first)
        own(status) == Check(anchor, status, anchor.first, anchor.last)
        moved(first, last) == Check(anchor, "moved", sized(first, last), sized(first, last) + last - first)
    IN  CASE anchor.path = "outside" -> own("invalid")
          [] anchor.path # "outside" /\ lines = Gone -> own("missing")
          [] OTHER ->
             IF region = <<>> THEN
                CASE anchor.symbol = "" -> own("invalid")
                  [] anchor.symbol # "" /\ Written(anchor) /\ sized(anchor.first, anchor.last) > 0 ->
                        moved(anchor.first, anchor.last)
                  [] OTHER -> own("missing")
             ELSE CASE ~Inside(lines, region[1], region[2]) -> own("invalid")
                    [] hash(lines, region[1], region[2]) = anchor.hash -> own("current")
                    [] OTHER -> IF sized(region[1], region[2]) > 0 THEN moved(region[1], region[2]) ELSE own("stale")

\* An anchor without a hash gets that of the region as it stands.
FillMissingAnchorHashes(doc, lines) ==
    LET filled(anchor) ==
            LET region == anchorRegion(anchor, lines, TRUE) IN
            IF anchor.hash # <<>> \/ anchor.path = "outside" \/ lines = Gone \/ region = <<>> THEN anchor
            ELSE [anchor EXCEPT !.hash = hash(lines, region[1], region[2])]
    IN  [doc EXCEPT !.anchors = [i \in DOMAIN @ |-> filled(@[i])]]

(***************************************************************************)
(* The documents of the bundle, in the order of the walk.                   *)
(***************************************************************************)
Files   == SelectSeq(Paths, LAMBDA p : bundle[p] # Gone)
Lists   == \A p \in Range(Files) : Parses(bundle[p])
Readable == SelectSeq(Files, LAMBDA p : Parses(bundle[p]))
DocAt(p) == Parse(bundle[p])

Block(listed) ==
    <<[kind |-> "start", of |-> 0]>> \o
    (IF listed = <<>> THEN <<[kind |-> "none", of |-> 0]>> ELSE [i \in DOMAIN listed |-> [kind |-> "entry", of |-> listed[i]]])
    \o <<[kind |-> "end", of |-> 0]>>
\* Mutant: what follows the block is part of it.
replaceToEnd(data, block) ==
    LET start == SelectInSeq(data, LAMBDA piece : piece.kind = "start") IN
    IF start = 0 THEN data \o block ELSE SubSeq(data, 1, start - 1) \o block
\* The block between the first start marker and the first end after it is
\* replaced; without both the block is appended.
replaceOwnedBlock(data, block) ==
    LET start == SelectInSeq(data, LAMBDA piece : piece.kind = "start")
        ends  == {i \in DOMAIN data : start > 0 /\ i > start /\ data[i].kind = "end"}
    IN  IF ends = {} THEN data \o block
        ELSE SubSeq(data, 1, start - 1) \o block \o
             SubSeq(data, (CHOOSE i \in ends : \A k \in ends : i <= k) + 1, Len(data))

(***************************************************************************)
(* Lint.                                                                    *)
(***************************************************************************)
Dates == [none |-> 0, d1 |-> 1, d2 |-> 2, bad |-> 9]
DateOf(text) == IF text = "" THEN 0 ELSE Dates[text]
validTemporal(doc) ==
    LET from == DateOf(Field(doc, "valid_from"))
        to   == DateOf(Field(doc, "valid_to"))
    IN  from # 9 /\ to # 9 /\ (from > 0 /\ to > 0 => from <= to)

AnchorCodes == [stale |-> "stale_anchor", moved |-> "moved_anchor", missing |-> "missing_anchor", invalid |-> "invalid_anchor"]
Existing(link) == link \in PathSet /\ bundle[link] # Gone
Owner(id) == SelectSeq(Readable, LAMBDA p : Field(DocAt(p), "id") = id)[1]
LintOf(p) ==
    LET doc == DocAt(p)
        id  == Field(doc, "id")
        checks == [i \in DOMAIN doc.anchors |-> CheckAnchorResolved(doc.anchors[i], source, TRUE)]
        Says(code) == {<<p, code>>}
        When(condition, code) == IF condition THEN Says(code) ELSE {}
    IN  When(id # "" /\ Owner(id) # p, "duplicate_id") \cup
        When(id # "" /\ Owner(id) # p /\ Field(DocAt(Owner(id)), "status") # Field(doc, "status"), "contradiction") \cup
        When(~validTemporal(doc), "invalid_temporal_range") \cup
        When(Field(doc, "resource") = "relative", "invalid_resource") \cup
        When(\E link \in Range(doc.links) : ~Existing(link), "broken_link") \cup
        UNION {Says(AnchorCodes[checks[i].status]) : i \in {i \in DOMAIN checks : checks[i].status # "current"}} \cup
        When(Field(doc, "status") = "accepted" /\ Field(doc, "resource") = "" /\ doc.anchors = <<>>, "missing_evidence") \cup
        When(/\ Len(Readable) > 1 /\ doc.links = <<>> /\ Field(doc, "related") = ""
             /\ \A q \in Range(Readable) : p \notin Range(DocAt(q).links), "orphan")
LintFindings ==
    UNION {LintOf(p) : p \in Range(Readable)} \cup
    {<<p, "invalid_document">> : p \in {p \in Range(Files) : ~Parses(bundle[p])}}

(***************************************************************************)
(* The operations.                                                          *)
(***************************************************************************)
Init ==
    /\ source \in Contents
    /\ bundle = [p \in PathSet |-> Gone]
    /\ proposal = Nothing
    /\ index = <<[kind |-> "human", of |-> 1]>> \o Block(<<>>)
    /\ told = Nothing
    /\ edits = 0

\* Propose parses the candidate and completes its anchors.
Propose(candidate) ==
    /\ proposal = Nothing
    /\ Parses(candidate.file)
    /\ proposal' = [op |-> "create", path |-> candidate.path,
                    file |-> Marshal(FillMissingAnchorHashes(Parse(candidate.file), source))]
    /\ told' = Nothing
    /\ UNCHANGED <<source, bundle, index, edits>>

\* acceptResults lists the whole bundle: one document it cannot read, and
\* nothing can be accepted.
Accept ==
    /\ proposal # Nothing
    /\ told' = [op |-> IF Lists THEN "accepted" ELSE "failed"]
    /\ IF Lists
       THEN /\ bundle' = [bundle EXCEPT ![proposal.path] = Marshal(Parse(proposal.file))]
            /\ index' = replaceOwnedBlock(index, Block(SelectSeq(Paths, LAMBDA p : p = proposal.path \/ bundle[p] # Gone)))
            /\ proposal' = Nothing
       ELSE UNCHANGED <<bundle, index, proposal>>
    /\ UNCHANGED <<source, edits>>

Lint ==
    /\ told' = [op |-> "linted", findings |-> LintFindings]
    /\ UNCHANGED <<source, bundle, proposal, index, edits>>

\* Mutant: only the first line is moved.
RepairedFirst(doc) ==
    LET check(i) == CheckAnchorResolved(doc.anchors[i], source, TRUE) IN
    [doc EXCEPT !.anchors = [i \in DOMAIN @ |->
        IF check(i).status # "moved" THEN @[i] ELSE [@[i] EXCEPT !.first = check(i).first]]]
\* RepairAnchors writes the new lines of every moved anchor back.
Repaired(doc) ==
    LET check(i) == CheckAnchorResolved(doc.anchors[i], source, TRUE) IN
    [doc EXCEPT !.anchors = [i \in DOMAIN @ |->
        IF check(i).status # "moved" THEN @[i] ELSE [@[i] EXCEPT !.first = check(i).first, !.last = check(i).last]]]
Repair ==
    /\ Lists
    /\ bundle' = [p \in PathSet |->
          IF bundle[p] = Gone \/ Repaired(DocAt(p)) = DocAt(p) THEN bundle[p] ELSE Marshal(Repaired(DocAt(p)))]
    /\ told' = [op |-> "repaired"]
    /\ UNCHANGED <<source, proposal, index, edits>>

\* SyncStore rebuilds the rows; it resolves no symbols.
RowsOf(p) ==
    LET doc == DocAt(p) IN
    [i \in DOMAIN doc.anchors |->
        LET check == CheckAnchorResolved(doc.anchors[i], source, FALSE) IN
        [of |-> p, status |-> check.status, first |-> check.first, last |-> check.last, hash |-> check.anchor.hash]]
SyncStore ==
    /\ Lists
    /\ told' = [op |-> "synced", rows |-> FlattenSeq([i \in DOMAIN Files |-> RowsOf(Files[i])])]
    /\ UNCHANGED <<source, bundle, proposal, index, edits>>

\* People edit the source, put documents of their own in the bundle, and edit
\* index.md: a line more at its end, or Prowl's end marker cut away.
EditSource ==
    /\ source' \in (Contents \cup {Gone}) \ {source}
    /\ UNCHANGED <<bundle, proposal, index>>
EditBundle ==
    /\ \E written \in HandWritten : bundle' = [bundle EXCEPT ![written.path] = written.file]
    /\ UNCHANGED <<source, proposal, index>>
EditIndex ==
    /\ index' \in {Append(index, [kind |-> "human", of |-> 2]), SelectSeq(index, LAMBDA piece : piece.kind # "end")} \ {index}
    /\ UNCHANGED <<source, bundle, proposal>>
Edit ==
    /\ edits < MaxEdits
    /\ edits' = edits + 1
    /\ EditSource \/ EditBundle \/ EditIndex
    /\ told' = Nothing

Next ==
    \/ \E candidate \in Candidates : Propose(candidate)
    \/ Accept \/ Lint \/ Repair \/ SyncStore \/ Edit

(***************************************************************************)
(* Properties.                                                              *)
(***************************************************************************)
Holds(first, last, wanted) == Inside(source, first, last) /\ SubSeq(source, first, last) = wanted
Distance(a, b) == IF a < b THEN b - a ELSE a - b
LineAnchor(anchor) == anchor.symbol = "" /\ anchor.path # "outside" /\ Written(anchor) /\ anchor.hash # <<>>

\* What is said of an anchor by its lines is what the file holds: current if the
\* lines are there, moved to the nearest place they are at, stale if nowhere.
Judged(anchor, check) ==
    LET span   == anchor.last - anchor.first
        places == {s \in 1..Len(source) : Holds(s, s + span, anchor.hash)}
        from   == IF anchor.first + span > Len(source) THEN Len(source) - span ELSE anchor.first
    IN  CASE check.status = "current" -> Holds(anchor.first, anchor.last, anchor.hash)
          [] check.status = "moved"   ->
                /\ anchor.first \notin places /\ check.first \in places /\ check.last = check.first + span
                /\ \A s \in places : Distance(s, from) >= Distance(check.first, from)
          [] check.status = "stale"   -> places = {} \/ Len(source) * (span + 1) > Budget
          [] OTHER                    -> ~Inside(source, anchor.first, anchor.last)
AnchorsJudged ==
    source # Gone => \A p \in Range(Readable) : \A i \in DOMAIN bundle[p].anchors :
        LineAnchor(bundle[p].anchors[i]) =>
            Judged(bundle[p].anchors[i], CheckAnchorResolved(bundle[p].anchors[i], source, TRUE))

\* What a document says survives being written back, what Prowl does not know
\* of it included.
RoundTrip ==
    \A p \in Range(Readable) : Marshal(DocAt(p)) = bundle[p]

\* A repair writes the documents with an anchor that moved and no other.  In those
\* it changes the line numbers of anchors, to lines that hold what was anchored:
\* no line anchor is moved after it.  Everything else stays, what Prowl does not
\* know of the document included, but for the fields it does not know of an
\* anchor: all anchors of the document lose them (codec.go:330, although
\* anchor_repair.go:29 speaks of "preserving its unknown frontmatter").
RepairOnlyMoves ==
    [][told'.op = "repaired" => \A p \in Range(Files) :
        LET old == bundle[p]
            new == bundle'[p]
            moved(i) == CheckAnchorResolved(Known(old.anchors[i]), source, TRUE).status = "moved"
        IN  /\ (\A i \in DOMAIN old.anchors : ~moved(i)) => new = old
            /\ new.top = old.top /\ new.prowl = old.prowl /\ new.links = old.links
            /\ DOMAIN new.anchors = DOMAIN old.anchors
            /\ new # old => \A i \in DOMAIN new.anchors :
                 /\ new.anchors[i] = [Known(old.anchors[i]) EXCEPT !.first = new.anchors[i].first, !.last = new.anchors[i].last]
                 /\ moved(i) => Holds(new.anchors[i].first, new.anchors[i].last, old.anchors[i].hash)
                 /\ ~moved(i) => new.anchors[i] = Known(old.anchors[i])
            /\ \A i \in DOMAIN new.anchors :
                 LineAnchor(new.anchors[i]) => CheckAnchorResolved(new.anchors[i], source, TRUE).status # "moved"]_vars

\* What an acceptance writes names every document once, and keeps every line of
\* a person's while the markers of the block are a pair.
Human(data) == SelectSeq(data, LAMBDA piece : piece.kind = "human")
Paired(data) ==
    LET start == SelectInSeq(data, LAMBDA piece : piece.kind = "start")
        end   == SelectInSeq(data, LAMBDA piece : piece.kind = "end")
    IN  start > 0 /\ end > start /\ \A i \in start..end : data[i].kind # "human"
IndexKeepsPeople ==
    [][told'.op = "accepted" =>
        /\ Paired(index) => Human(index') = Human(index) /\ Paired(index')
        /\ \A p \in PathSet : bundle'[p] # Gone =>
              \E i \in DOMAIN index' : index'[i] = [kind |-> "entry", of |-> p]]_vars

\* The rows cite lines that hold what was anchored, or do not call it current.
RowsCite ==
    [][told'.op = "synced" => \A row \in Range(told'.rows) :
        /\ row.status \in {"current", "moved"} => Holds(row.first, row.last, row.hash)
        /\ bundle[row.of] # Gone]_vars

\* Findings relate documents truly: a stable id used twice, a contradiction, a
\* concept nothing leads to, a document that cannot be read; and evidence whose
\* lines are not where the anchor says is never passed over.
Reported(code) == {finding[1] : finding \in {f \in told.findings : f[2] = code}}
FindingsTrue ==
    LET docs == Range(Readable) IN
    /\ \A p, q \in docs :
         /\ p < q /\ Field(DocAt(p), "id") # "" /\ Field(DocAt(p), "id") = Field(DocAt(q), "id")
         => q \in Reported("duplicate_id")
    /\ \A q \in Reported("contradiction") : \E p \in docs :
          p < q /\ Field(DocAt(p), "id") = Field(DocAt(q), "id") /\ Field(DocAt(p), "status") # Field(DocAt(q), "status")
    /\ \A p \in docs : p \in Reported("orphan") =>
          ~\E q \in docs : p \in Range(DocAt(q).links) \/ (q = p /\ DocAt(p).links # <<>>)
    /\ source # Gone => \A p \in docs :
          (\E i \in DOMAIN bundle[p].anchors : LineAnchor(bundle[p].anchors[i]) /\ bundle[p].anchors[i].last <= Len(source)
              /\ ~Holds(bundle[p].anchors[i].first, bundle[p].anchors[i].last, bundle[p].anchors[i].hash))
          <=> \E i \in DOMAIN bundle[p].anchors :
                LineAnchor(bundle[p].anchors[i]) /\ CheckAnchorResolved(bundle[p].anchors[i], source, TRUE).status \in {"moved", "stale"}
    /\ Reported("invalid_document") = Range(Files) \ docs

\* Lines that an edit above shifted are still the evidence: they are found, and
\* the anchor is not called broken.
ShiftedIsMoved ==
    source # Gone => \A p \in Range(Readable) : \A i \in DOMAIN bundle[p].anchors :
        LET anchor == bundle[p].anchors[i] IN
        LineAnchor(anchor) /\ (\E s \in 1..Len(source) : Holds(s, s + anchor.last - anchor.first, anchor.hash))
            => CheckAnchorResolved(anchor, source, TRUE).status \in {"current", "moved"}

KnowledgeJudged == told.op = "linted" => AnchorsJudged /\ RoundTrip /\ FindingsTrue
BundleKept      == RepairOnlyMoves /\ IndexKeepsPeople /\ RowsCite

Spec == Init /\ [][Next]_vars
=============================================================================
