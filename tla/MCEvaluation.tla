----------------------------- MODULE MCEvaluation -----------------------------
(***************************************************************************)
(* The answers prowl-agent gives and their evaluation.                      *)
(*                                                                         *)
(* An agent asks one published index: its graph, the text of one file, what *)
(* a search finds and the packet it is given.  Evaluation runs reviews on   *)
(* the corpora that CorpusPreparation prepares.  A behaviour explores one   *)
(* of these six, the others at rest.                                        *)
(*                                                                         *)
(* Evaluation: case 1 with two truths, case 2 clean or with one, and three  *)
(* variants of one problem.                                                 *)
(* CorpusPreparation: request 1 forks from commit 1, request 5 starts at    *)
(* its base, 2 has ends whose common ancestor is beyond the depth fetched,  *)
(* 7 has no human comment; the second version of the source has a comment   *)
(* on the wrong side and a small change.                                    *)
(***************************************************************************)
EXTENDS Integers, Sequences, TLC

CONSTANTS None, Gone

VARIABLES graph, asked,                \* GraphQueries
          disk, rows, told,            \* SourceText
          matches, tools, ranked,      \* SearchRanking
          indexed, anchor, packet,     \* ContextPacking
          which                        \* the part this behaviour explores

VARIABLES manifest, scoring, prepared, prowl, run, input, collection, verdict, report, evaluated,
          pin, cached, served, objects, proofs, ancestry, rejections, files, job, checked, runs, happened

(***************************************************************************)
(* The answers.                                                             *)
(***************************************************************************)
\* Five files, one of them a test and one data, and edges they may have.
Edge(src, dst, kind, line) == [src |-> src, dst |-> dst, kind |-> kind, line |-> line]
Queries == INSTANCE GraphQueries WITH
    N <- 5, edges <- graph, answer <- asked, Sample <- 2, BlobFiles <- 4,
    Folder <- <<<<>>, <<"lib">>, <<"lib">>, <<"lib", "ui">>, <<"web">>>>,
    Language <- <<"go", "go", "go", "bash", "json">>,
    Role <- <<"source", "source", "test", "script", "config">>,
    Tests <- {3}, Covers <- {<<3, 2>>},
    Candidates <- <<Edge(1, 2, "includes", 1), Edge(1, 4, "binds", 2), Edge(2, 4, "execs", 1),
                    Edge(3, 2, "pkg", 1), Edge(4, 1, "instantiates", 2), Edge(4, 2, "includes", 1),
                    Edge(5, 3, "resource", 2)>>

\* Up to three lines, and the longer ones that windows and components cut.
Text == INSTANCE SourceText WITH
    Texts <- UNION {[1..n -> {"code", "note"}] : n \in 1..3} \cup
             {<<"code", "blank", "code">>, <<"note", "code", "blank">>,
              <<"code", "code", "code", "code", "code">>,
              <<"code", "note", "code", "blank", "blank", "code">>,
              <<"note", "note", "code", "code", "code">>},
    MaxSymbols <- 2, Window <- 2, MaxDoc <- 1, MaxBody <- 2, MaxSites <- 2, answer <- told

\* Chunk 5 is vendored, 3 a test and 4 prose; symbol 1 is vendored and 2 auxiliary.
Named(name, path, auxiliary, vendored) == [name |-> name, path |-> path, auxiliary |-> auxiliary, vendored |-> vendored]
Ranking == INSTANCE SearchRanking WITH
    Tier <- <<0, 0, 1, 2, 3, 0, 1>>, PathScore <- <<0, 2, 0, 1, 0, 0, 0>>,
    Found <- [phrase : {<<>>}, all : {<<>>, <<3, 1>>, <<5, 4>>}, any : {<<3, 1, 4, 5>>},
              substring : {<<2, 6>>}, path : {<<>>, <<2>>}, docs : {<<>>, <<6, 3, 2>>, <<4, 7, 6>>},
              near : {<<2, 4, 1, 3, 5>>, <<1, 6>>}],
    Rewritten <- {[phrase |-> <<>>, all |-> <<2>>, any |-> <<2, 3>>, substring |-> <<>>, path |-> <<1>>,
                   docs |-> <<6>>, near |-> <<5, 2>>]},
    Replies <- {<<>>, <<2, 9, 2, 1>>}, Limit <- 4, SmartLimit <- 3, Floor <- 3, Cap <- 1, ShortName <- 2, LongName <- 4,
    Names <- {<<1>>, <<1, 2>>, <<2, 1>>, <<2, 2, 1>>, <<1, 1, 2, 3>>, <<3, 3>>},
    Symbols <- <<Named(<<1, 1, 3>>, 2, FALSE, TRUE), Named(<<1, 2>>, 1, TRUE, FALSE), Named(<<1, 2>>, 3, FALSE, FALSE),
                 Named(<<1, 2, 1, 3>>, 1, FALSE, FALSE), Named(<<2, 1, 2>>, 2, FALSE, FALSE)>>,
    answer <- ranked

\* Two documents, the first with two anchors; file 2 is prose, file 3 a test.
Document(lexical, path, confidence, sizes) ==
    [lexical |-> lexical, path |-> path, confidence |-> confidence,
     compact |-> sizes[1], standard |-> sizes[2], full |-> sizes[3]]
Piece(file, line, lexical, compact, full) ==
    [file |-> file, line |-> line, lexical |-> lexical, compact |-> compact, full |-> full]
Packing == INSTANCE ContextPacking WITH
    Documents <- <<Document(300, 0, 60, <<1, 2, 4>>), Document(300, 300, 42, <<2, 0, 3>>)>>,
    Chunks <- <<Piece(1, 1, 300, 1, 3), Piece(1, 4, 900, 1, 2), Piece(2, 1, 600, 2, 2), Piece(3, 1, 900, 1, 2), Piece(4, 1, 300, 1, 3)>>,
    Class <- <<"", "docs", "test", "", "">>, Path <- <<0, 600, 0, 300, 900>>, Defines <- {1, 3},
    Generations <- {{1, 2, 3, 4, 5}, {1, 3, 5}},
    Neighbors <- <<<<2, 4>>, <<1>>, <<1, 5>>, <<1>>, <<3>>>>,
    Statuses <- {"current", "stale", "moved"}, Anchors <- <<2, 0>>,
    Hits <- {<<3, 4, 5>>, <<5, 6, 7, 4>>, <<>>},
    Requests <- {[mode |-> "compact", budget |-> 3], [mode |-> "standard", budget |-> 6],
                 [mode |-> "full", budget |-> 0], [mode |-> "full", budget |-> 7]},
    Default <- 5, MaxRelated <- 2

graphVars   == <<graph, asked>>
textVars    == <<disk, rows, told>>
searchVars  == <<matches, tools, ranked>>
packingVars == <<indexed, anchor, packet>>
answerVars  == <<graphVars, textVars, searchVars, packingVars>>

GraphRest   == graph = {} /\ asked = None
TextRest    == disk = Gone /\ rows = None /\ told = None
SearchRest  == matches = None /\ tools = None /\ ranked = None
PackingRest == indexed = {} /\ anchor = None /\ packet = None
AnswersRest == GraphRest /\ TextRest /\ SearchRest /\ PackingRest

AnswersInit ==
    \/ which = "graph"   /\ Queries!Init /\ TextRest /\ SearchRest /\ PackingRest
    \/ which = "text"    /\ Text!Init /\ GraphRest /\ SearchRest /\ PackingRest
    \/ which = "search"  /\ Ranking!Init /\ GraphRest /\ TextRest /\ PackingRest
    \/ which = "packing" /\ Packing!Init /\ GraphRest /\ TextRest /\ SearchRest

AnswersNext ==
    /\ \/ which = "graph" /\ Queries!Next /\ UNCHANGED <<textVars, searchVars, packingVars>>
       \/ which = "text" /\ Text!Next /\ UNCHANGED <<graphVars, searchVars, packingVars>>
       \/ which = "search" /\ Ranking!Next /\ UNCHANGED <<graphVars, textVars, packingVars>>
       \/ which = "packing" /\ Packing!Next /\ UNCHANGED <<graphVars, textVars, searchVars>>
    /\ UNCHANGED which

\* What an index answers is what its rows, its graph and its files say; what a
\* search returns and a packet holds is what was found, in the order it earned.
IndexAnswersRight == Queries!GraphAnswersRight /\ Text!TextAnswersRight
RetrievalRight    == Ranking!RankingRight /\ Packing!PacketRight

(***************************************************************************)
(* The evaluation and its corpora.                                          *)
(***************************************************************************)
Base(id, truth) == [id |-> id, identity |-> id, family |-> "f", large |-> TRUE, clean |-> truth = {}, truth |-> truth, meta |-> FALSE]
Variant(id) == [Base(id, {3}) EXCEPT !.meta = TRUE]
Protocol(tuning, heldOut, triples) == [tuning |-> tuning, heldOut |-> heldOut, triples |-> triples]
Triple == [id |-> "x", truth |-> 3, cases |-> <<3, 4, 5>>]
Manifests ==
    {Protocol(<<>>, <<Base(1, {1, 2})>>, <<>>),
     Protocol(<<Base(2, {})>>, <<Base(1, {1, 2})>>, <<>>),
     Protocol(<<Base(2, {1})>>, <<Base(1, {1, 2})>>, <<>>),
     Protocol(<<Base(2, {}), Variant(3), Variant(4), Variant(5)>>, <<Base(1, {1, 2})>>, <<Triple>>),
     Protocol(<<Base(2, {}), Variant(3)>>, <<Base(1, {1, 2}), Variant(4), Variant(5)>>, <<Triple>>)}
Config(base, triples) == [base |-> base, clients |-> <<"omp">>, triples |-> triples, repetitions |-> 1]
Said(accepted, recommendation, artifacts) ==
    [printed |-> TRUE, completed |-> TRUE, accepted |-> accepted, recommendation |-> recommendation, artifacts |-> artifacts]
Silent == [Said({}, "comment", None) EXCEPT !.printed = FALSE]
Artifacts(accepted, recommendation) ==
    [stored |-> TRUE, bound |-> TRUE, scope |-> TRUE, covered |-> 2, status |-> "complete", now |-> "complete",
     report |-> [recommendation |-> recommendation, findings |-> accepted]]
Reviewed(accepted, recommendation) == Said(accepted, recommendation, Artifacts(accepted, recommendation))
Flawed ==
    LET said == Reviewed({1}, "approve") IN
    {[said EXCEPT !.artifacts.stored = FALSE], [said EXCEPT !.artifacts.now = "incomplete"],
     [said EXCEPT !.artifacts.status = "incomplete", !.artifacts.now = "incomplete", !.artifacts.covered = 1],
     [said EXCEPT !.artifacts.scope = FALSE], [said EXCEPT !.accepted = {1, 3}]}
FullOutcomes ==
    [control   |-> {Silent, Said({1, 2}, "approve", None), Reviewed({}, "approve")},
     treatment |-> {Reviewed({1, 2}, "request_changes"), Reviewed({2}, "approve"), Reviewed({1, 3}, "comment")}
                   \cup Flawed]
FewOutcomes ==
    [control   |-> {Said({}, "approve", None)},
     treatment |-> {Silent, Reviewed({1}, "comment")}]

Evaluating == INSTANCE Evaluation WITH
    Minimum <- [base |-> 1, clients |-> 1, triples |-> 0, repetitions |-> 1],
    Configs <- {Config(<<1>>, <<>>), Config(<<2>>, <<>>), Config(<<2, 1>>, <<>>), Config(<<2>>, <<"x">>)},
    Sets <- {"tuning", "held_out"}, Findings <- 1..3, MaxEvents <- 1,
    Source <- <<"x", "nl", "x">>, EndLine <- <<1, 2, 3>>,
    TruthOf <- 1 :> <<{"cross"}, {}>> @@ 2 :> <<>> @@ [c \in {3, 4, 5} |-> 3 :> {"deletion"}],
    Outcomes <- 1 :> FullOutcomes @@ [c \in 2..5 |-> FewOutcomes],
    events <- evaluated

evaluationVars == <<manifest, scoring, prepared, prowl, run, input, collection, verdict, report, evaluated>>

Comment(pr, base, last, side, from, to) ==
    [pr |-> pr, base |-> base, head |-> last, side |-> side, path |-> "a", from |-> from, to |-> to,
     human |-> TRUE, label |-> 1, churn |-> 9]
Fork == Comment(1, 2, 4, "right", 2, 3)
Hunk(body) == <<[old |-> "a", new |-> "a", hunks |-> <<[old |-> 1, new |-> 1, body |-> body]>>]>>
NativeDiff == <<1, 4>> :> Hunk(<<"-", "+", "+", "+">>) @@ <<1, 3>> :> Hunk(<<" ", "+">>) @@
              <<3, 4>> :> Hunk(<<"-", "-", " ", "+">>) @@ <<4, 6>> :> Hunk(<<"+">>)
SmallSource ==
    <<[id |-> 8, introduced |-> TRUE, base |-> 3, commits |-> <<4, 6>>, changes |-> <<6, 2>>],
      [id |-> 9, introduced |-> FALSE, base |-> 1, commits |-> <<3>>, changes |-> <<>>]>>

Rules == INSTANCE CorpusRules WITH Diff <- NativeDiff, BinEdges <- <<1, 3, 9>>, TuningSize <- 1, HeldOutSize <- 2
Preparing == INSTANCE CorpusPreparation WITH
    Diff <- NativeDiff, BinEdges <- <<1, 3, 9>>, TuningSize <- 1, HeldOutSize <- 2,
    Payloads <- <<
        <<Fork, [Fork EXCEPT !.human = FALSE], [Fork EXCEPT !.label = 0], Comment(2, 5, 6, "right", 1, 1),
          Comment(5, 3, 4, "left", 1, 1), [Comment(7, 2, 3, "right", 1, 1) EXCEPT !.human = FALSE]>>,
        <<[Fork EXCEPT !.side = "left"], Comment(3, 1, 3, "right", 1, 1)>> >>,
    Parents <- <<{}, {1}, {1}, {3}, {7}, {4}, {8}, {1}>>, Tree <- [c \in 1..8 |-> {"a"}],
    SmallSource <- SmallSource, SmallCases <- Rules!ImportSmall(SmallSource),
    Steps <- <<1, 1>>, MaxRuns <- 2, MaxEvents <- 1, events <- happened

corpusVars == <<pin, cached, served, objects, proofs, ancestry, rejections, files, job, checked, runs, happened>>

EvaluationRest ==
    /\ Evaluating!Init /\ manifest.tuning = <<>> /\ scoring = Config(<<1>>, <<>>)
    /\ Preparing!CorpusInit

EvaluationInit ==
    \/ AnswersInit /\ EvaluationRest
    \/ which = "evaluation" /\ Evaluating!Init /\ Preparing!CorpusInit /\ AnswersRest
    \/ which = "preparation" /\ EvaluationRest /\ AnswersRest

EvaluationNext ==
    \/ AnswersNext /\ UNCHANGED <<evaluationVars, corpusVars>>
    \/ /\ \/ which = "evaluation" /\ Evaluating!Next /\ UNCHANGED corpusVars
          \/ which = "preparation" /\ Preparing!CorpusNext /\ UNCHANGED evaluationVars
       /\ UNCHANGED <<answerVars, which>>

EvaluationSpec == EvaluationInit /\ [][EvaluationNext]_<<answerVars, evaluationVars, corpusVars, which>>

EvaluationSound  == Evaluating!EvaluationSound
PreparationSound == Preparing!PreparationSound
=============================================================================
