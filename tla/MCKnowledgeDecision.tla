------------------------- MODULE MCKnowledgeDecision -------------------------
(***************************************************************************)
(* Instances of KnowledgeDecision and KnowledgeBundle for TLC.  Both write  *)
(* to the bundle: the one with every step of a decision and one revision    *)
(* for a document, the other with what is in the documents and a decision   *)
(* as one step; a behaviour explores one of them.                           *)
(***************************************************************************)
EXTENDS KnowledgeDecision, TLC

CONSTANTS p1, p2, d1, d2

VARIABLES source, documents, pending, contents, told, handEdits,
          which   \* the part this behaviour explores

\* Two proposals about two documents: they share index.md and log.md.
TwoTargets == (p1 :> d1) @@ (p2 :> d2)

\* The verdicts compete over one of them.
Competing == {<<p1, "accepted">>, <<p1, "rejected">>, <<p2, "accepted">>}

Symmetry == Permutations(Clients)

At(symbol, first, last, region) ==
    [path |-> "a", symbol |-> symbol, first |-> first, last |-> last, hash |-> region, note |-> TRUE]
Concept(fields, prowl, anchors, links) ==
    [top |-> <<<<"owner", "me">>, <<"type", "note">>>> \o fields, prowl |-> prowl, anchors |-> anchors, links |-> links]
To(path, file) == [path |-> path, file |-> file]
Believed == <<<<"status", "accepted">>, <<"weight", "1">>>>

\* Two paths; the anchors have lines, a symbol or both, one leads outside, one
\* has nothing; of the documents written by hand the first has a field at the
\* wrong level and cannot be read, and the last has an anchor with its hash.
Bundle == INSTANCE KnowledgeBundle WITH
    Contents <- {<<"f", "x">>, <<"f", "x", "_", "f", "x">>, <<"x", "_", "f", "x", "_", "x">>, <<"f", "y">>},
    Candidates <- {
        To(1, Concept(<<>>, Believed, <<At("", 1, 2, <<>>), [At("", 1, 1, <<>>) EXCEPT !.path = "outside"]>>, <<>>)),
        To(2, Concept(<<<<"title", "t">>>>, <<<<"id", "i">>>>, <<At("f", 0, 0, <<>>), At("f", 1, 2, <<"f", "x">>)>>, <<1>>)),
        To(1, Concept(<<>>, <<<<"id", "i">>, <<"status", "draft">>>>, <<At("", 3, 4, <<>>), At("", 0, 0, <<>>)>>, <<>>))},
    HandWritten <- {
        To(2, Concept(<<<<"status", "accepted">>>>, <<>>, <<>>, <<>>)), To(1, NoFile),
        To(2, Concept(<<<<"resource", "relative">>>>, Believed \o <<<<"valid_from", "d2">>, <<"valid_to", "d1">>>>, <<At("", 1, 2, <<"f", "x">>)>>, <<3>>))},
    Paths <- <<1, 2>>, Budget <- 6, MaxEdits <- 2, Gone <- NoFile,
    bundle <- documents, proposal <- pending, index <- contents, edits <- handEdits

bundleVars == <<source, documents, pending, contents, told, handEdits>>

BundleRest ==
    /\ source = NoFile /\ documents = NoFile /\ pending = NoFile /\ contents = NoFile
    /\ told = Bundle!Nothing /\ handEdits = 0

KnowledgeInit ==
    /\ Init
    /\ \/ which = "decision" /\ BundleRest
       \/ which = "bundle" /\ Bundle!Init /\ source = <<"x", "_", "f", "x", "_", "x">>

KnowledgeNext ==
    /\ \/ which = "decision" /\ Next /\ UNCHANGED bundleVars
       \/ which = "bundle" /\ Bundle!Next /\ UNCHANGED vars
    /\ UNCHANGED which

KnowledgeSpec == KnowledgeInit /\ [][KnowledgeNext]_<<vars, bundleVars, which>>

\* Only what people and Prowl do to documents.
BundleSpec ==
    which = "bundle" /\ Init /\ Bundle!Init /\ [][KnowledgeNext]_<<vars, bundleVars, which>>

KnowledgeJudged == which = "bundle" => Bundle!KnowledgeJudged
BundleKept      == Bundle!BundleKept
ShiftedIsMoved  == Bundle!ShiftedIsMoved
=============================================================================
