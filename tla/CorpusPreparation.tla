--------------------------- MODULE CorpusPreparation ---------------------------
(***************************************************************************)
(* Preparation of the benchmark corpora (internal/revieweval): discover     *)
(* derives a candidate pool, its two partitions and an audit packet for     *)
(* each source row from a pinned download and from the commits a remote     *)
(* still serves; prepare reads the frozen files, derives them again, online *)
(* or from the caches alone, and reports on them only where nothing         *)
(* differs.                                                                 *)
(*                                                                         *)
(* Between and during the runs the remote withdraws commits, people reject  *)
(* requests, repin the source, approve cases and edit the frozen files; a   *)
(* run ends anywhere (a crash, a transport failure) and leaves its caches.  *)
(***************************************************************************)
EXTENDS CorpusRules

CONSTANTS
    Payloads,    \* [version of the pinned download -> Seq(raw comment)]
    SmallSource, SmallCases,   \* the other download, and the frozen cases made of it
    Parents, Tree,             \* [commit -> set], the history and the paths of the commits
    Steps,       \* <<8, 32, 128>>
    MaxRuns, MaxEvents         \* bounds

Commits == DOMAIN Parents
Versions == DOMAIN Payloads

VARIABLES
    pin,         \* the version the sources manifest pins
    cached,      \* the version in the cache of downloads, 0 where it is damaged, or None
    served,      \* the commits the remote hands out
    objects, proofs,   \* the pinned repository: its commits, and its hydration proofs
    ancestry,    \* [request -> None or the isolated repository of its history]
    rejections,  \* candidate_rejections.json
    files,       \* the frozen files: pool, tuning, held_out, packets and the scoring freeze
    job,         \* the run under way, or None
    checked,     \* what the last preparation reported on, or None
    runs, events

corpusVars == <<pin, cached, served, objects, proofs, ancestry, rejections, files, job, checked, runs, events>>
caches == <<cached, objects, proofs, ancestry>>
inputs == <<pin, served, rejections>>

Rows(version) == ImportRows(Payloads[version])
Requests == UNION {{r.pr : r \in Rows(v)} : v \in Versions}
NoFiles == [pool |-> None, tuning |-> None, held_out |-> None, packets |-> None, freeze |-> None]

(***************************************************************************)
(* A shallow history: a commit shows its parents only while it is nearer to *)
(* the two ends than the depth fetched so far.                              *)
(***************************************************************************)
Ancestors(commit, shows) ==
    LET walk[n \in Nat] == IF n = 0 THEN {commit} ELSE walk[n - 1] \cup UNION {shows[c] : c \in walk[n - 1]}
    IN  walk[Cardinality(Commits)]
Near(row, depth) ==
    LET walk[n \in Nat] == IF n = 0 THEN {row.base, row.head} ELSE walk[n - 1] \cup UNION {Parents[c] : c \in walk[n - 1]}
    IN  IF depth = 0 THEN {} ELSE walk[depth - 1]
Visible(row, depth) == [c \in Commits |-> IF c \in Near(row, depth) THEN Parents[c] ELSE {}]
MergeBases(row, shows) ==
    LET common == Ancestors(row.base, shows) \cap Ancestors(row.head, shows)
    IN  {c \in common : \A d \in common \ {c} : c \notin Ancestors(d, shows)}

\* What a marker of exhaustion is bound to: the commits the fetches stopped at.
Boundary(row, depth) ==
    LET shows == Visible(row, depth)
    IN  {c \in Ancestors(row.base, shows) \cup Ancestors(row.head, shows) : shows[c] # Parents[c]}
Exhausted == FoldLeft(LAMBDA n, k : n + k, 0, Steps)

(***************************************************************************)
(* The beginning of a run.                                                  *)
(***************************************************************************)
\* The download of the pinned version, from the cache where it still is that.
FetchSource(offline) ==
    IF cached = pin THEN UNCHANGED cached
    ELSE ~offline /\ cached' = pin

SameSources(f) ==
    /\ \A file \in {f.pool, f.tuning, f.held_out, f.packets, rejections} : file.sources = pin
    /\ f.freeze.sources = pin /\ f.freeze.pool = f.pool
Loadable(f) ==
    /\ \A name \in DOMAIN f : f[name] # None
    /\ ValidPool(f.pool) /\ RejectedStayOut(f.pool, rejections) /\ SameSources(f)
    /\ rejections.of \subseteq {r.pr : r \in Rows(pin)}
    /\ {r.row : r \in f.pool.records} \subseteq Rows(pin)
    /\ ValidPartitions(f.tuning, f.held_out, SmallCases, f.pool)
    /\ ValidPackets(f.packets, Rows(pin), rejections, f.pool, f.tuning, f.held_out)
    /\ SmallCases \subseteq ImportSmall(SmallSource)

NewJob(kind, offline, frozen) ==
    [kind |-> kind, offline |-> offline, frozen |-> frozen, stage |-> "discover", rejections |-> None, pin |-> None,
     todo |-> <<>>, need |-> <<>>, base |-> None, tries |-> 0, packets |-> {}, records |-> {}, outputs |-> <<>>, found |-> None]
Start(kind, offline, frozen) ==
    /\ job = None /\ runs < MaxRuns /\ runs' = runs + 1
    /\ FetchSource(offline)
    /\ job' = NewJob(kind, offline, frozen)
    /\ UNCHANGED <<inputs, objects, proofs, ancestry, files, checked, events>>

StartDiscover(offline) == Start("discover", offline, None)
StartPrepare(offline)  == Loadable(files) /\ Start("prepare", offline, files)

\* Discovery reads the manifests for itself, also within a preparation.
BeginDiscovery ==
    /\ job # None /\ job.stage = "discover"
    /\ rejections.sources = pin /\ rejections.of \subseteq {r.pr : r \in Rows(pin)} /\ cached = pin
    /\ job' = [job EXCEPT !.stage = "row", !.rejections = rejections, !.pin = pin,
                          !.todo = SetToSortSeq(Rows(pin), LAMBDA a, b : a.pr < b.pr)]
    /\ UNCHANGED <<inputs, caches, files, checked, runs, events>>

(***************************************************************************)
(* One source row.                                                          *)
(***************************************************************************)
Row == Head(job.todo)
At(stage) == job # None /\ job.stage = stage /\ job.todo # <<>>
Continue == UNCHANGED <<inputs, files, checked, runs, events>>

Decided(packet, records) ==
    [job EXCEPT !.stage = "row", !.todo = Tail(@), !.need = <<>>, !.base = None, !.tries = 0,
                !.packets = @ \cup {packet}, !.records = @ \cup records]
Quarantine(blocker, audits) == Decided(Packet(Row, "quarantined", blocker, job.base, audits), {})

TakeRow ==
    /\ At("row")
    /\ job' = IF Row.pr \in job.rejections.of THEN Decided(RejectedPacket(Row), {})
              ELSE IF ~HumanClaim(Row) THEN Quarantine("no_human_claim", {})
              ELSE [job EXCEPT !.stage = "hydrate", !.need = <<Row.base, Row.head>>]
    /\ Continue /\ UNCHANGED caches

\* A commit is trusted offline where the object and the proof of its fetch are
\* both there; online it is fetched again.  Only a refusal by the remote is a
\* fact about the row; every other failure ends the run.
HydrateRow ==
    /\ At("hydrate")
    /\ LET commit == Head(job.need)
           ready  == [job EXCEPT !.need = Tail(@),
                                 !.stage = IF Len(job.need) > 1 THEN @ ELSE IF job.base = None THEN "ancestry" ELSE "classify"]
       IN  IF job.offline
           THEN commit \in objects \cap proofs /\ job' = ready /\ UNCHANGED <<objects, proofs>>
           ELSE IF commit \in served
           THEN job' = ready /\ objects' = objects \cup {commit} /\ proofs' = proofs \cup {commit}
           ELSE /\ job' = Quarantine(IF job.base = None THEN "source_oid_unavailable" ELSE "native_base_unavailable", {})
                /\ UNCHANGED <<objects, proofs>>
    /\ Continue /\ UNCHANGED <<cached, ancestry>>

\* Online the isolated history is always built anew, its marker gone.
OpenAncestry ==
    /\ At("ancestry")
    /\ IF job.offline THEN ancestry[Row.pr] # None /\ UNCHANGED ancestry
       ELSE ancestry' = [ancestry EXCEPT ![Row.pr] = [row |-> Row, depth |-> 0, marker |-> None]]
    /\ job' = [job EXCEPT !.stage = "merge"]
    /\ Continue /\ UNCHANGED <<cached, objects, proofs>>

History == ancestry[Row.pr]
Seen == MergeBases(Row, Visible(Row, History.depth))

ResolveMergeBase ==
    /\ At("merge")
    /\ Cardinality(Seen) = 1
    /\ job' = [job EXCEPT !.stage = "hydrate", !.base = CHOOSE c \in Seen : TRUE, !.need = <<CHOOSE c \in Seen : TRUE>>]
    /\ Continue /\ UNCHANGED caches

MarkerHolds == History.marker # None /\ History.marker = Boundary(Row, History.depth)
BoundedByMarker ==
    /\ At("merge") /\ Seen = {} /\ job.tries = 0 /\ MarkerHolds
    /\ job' = Quarantine("merge_base_bounded", {})
    /\ Continue /\ UNCHANGED caches

Deepen ==
    /\ At("merge") /\ Seen = {} /\ ~(job.tries = 0 /\ MarkerHolds)
    /\ ~job.offline /\ job.tries < Len(Steps)
    /\ {Row.base, Row.head} \subseteq served
    /\ ancestry' = [ancestry EXCEPT ![Row.pr].depth = @ + Steps[job.tries + 1]]
    /\ job' = [job EXCEPT !.tries = @ + 1]
    /\ Continue /\ UNCHANGED <<cached, objects, proofs>>

GiveUpDeepening ==
    /\ At("merge") /\ Seen = {} /\ job.tries = Len(Steps)
    /\ ancestry' = [ancestry EXCEPT ![Row.pr].marker = Boundary(Row, History.depth)]
    /\ job' = Quarantine("merge_base_bounded", {})
    /\ Continue /\ UNCHANGED <<cached, objects, proofs>>

Classify ==
    /\ At("classify")
    /\ LET audits == AuditOf(Row, job.base, Tree)
       IN  job' = IF Churn(<<job.base, Row.head>>) <= LargeChurn THEN Quarantine("churn_not_large", {})
                  ELSE IF EligibleClaims(Row, job.base, Tree) = {} THEN Quarantine("no_eligible_human_claim", audits)
                  ELSE Decided(CandidatePacket(Row, job.base, Tree), {RecordOf(Row, job.base, Tree)})
    /\ Continue /\ UNCHANGED caches

(***************************************************************************)
(* The end of a discovery.                                                  *)
(***************************************************************************)
Derived ==
    LET pool  == [sources |-> job.pin, records |-> job.records]
        queue(set) == [sources |-> job.pin, pool |-> pool, queue |-> Partition(pool)[set], cases |-> {}]
    IN  [pool |-> pool, tuning |-> queue("tuning"), held_out |-> queue("held_out"),
         packets |-> [sources |-> job.pin, rejections |-> job.rejections, pool |-> pool, packets |-> job.packets,
                      deficits |-> <<TuningSize - TuningCount(pool), HeldOutSize - HeldOutCount(pool)>>]]

FinishDiscovery ==
    /\ job # None /\ job.stage = "row" /\ job.todo = <<>>
    /\ ValidPool(Derived.pool) /\ RejectedStayOut(Derived.pool, job.rejections)
    /\ ValidPackets(Derived.packets, Rows(job.pin), job.rejections, Derived.pool, Derived.tuning, Derived.held_out)
    /\ job' = IF job.kind = "discover"
              THEN [job EXCEPT !.stage = "write", !.found = Derived, !.outputs = <<"pool", "tuning", "held_out", "packets">>]
              ELSE [job EXCEPT !.stage = "compare", !.found = Derived]
    /\ Continue /\ UNCHANGED caches

\* The four files are replaced one after the other.
WriteOutput ==
    /\ job # None /\ job.stage = "write"
    /\ files' = [files EXCEPT ![Head(job.outputs)] = job.found[Head(job.outputs)]]
    /\ job' = IF Len(job.outputs) = 1 THEN None ELSE [job EXCEPT !.outputs = Tail(@)]
    /\ UNCHANGED <<inputs, caches, checked, runs, events>>

(***************************************************************************)
(* The end of a preparation.                                                *)
(***************************************************************************)
\* MUTANT of Regenerated: the packets are not derived again.
SamePool(found, frozen) == found.pool = frozen.pool
Regenerated(found, frozen) == found.pool = frozen.pool /\ found.packets = frozen.packets

Ranged(f) == {r.facts.patch : r \in f.pool.records} \cup {c.facts.patch : c \in f.tuning.cases \cup f.held_out.cases}
             \cup {c.facts.patch : c \in SmallCases}
Wanted(f) == UNION {{range[1], range[2]} : range \in Ranged(f)} \cup {r.row.base : r \in f.pool.records}
Reproduced(record) ==
    /\ record.facts = Facts(record.facts.patch)
    /\ record.eligible = EligibleClaims(record.row, record.facts.base, Tree)
    /\ ancestry[record.id] # None
    /\ MergeBases(record.row, Visible(record.row, ancestry[record.id].depth)) = {record.facts.base}

VerifyFrozen ==
    /\ job # None /\ job.stage = "compare"
    /\ Regenerated(job.found, job.frozen)
    /\ IF job.offline THEN Wanted(job.frozen) \subseteq objects \cap proofs /\ UNCHANGED <<objects, proofs>>
       ELSE /\ Wanted(job.frozen) \subseteq served
            /\ objects' = objects \cup Wanted(job.frozen) /\ proofs' = proofs \cup Wanted(job.frozen)
    /\ \A r \in job.frozen.pool.records : Reproduced(r)
    /\ \A c \in job.frozen.tuning.cases \cup job.frozen.held_out.cases \cup SmallCases : c.facts = Facts(c.facts.patch)
    /\ checked' = [files |-> job.frozen, pin |-> job.pin, rejections |-> job.rejections]
    /\ job' = None
    /\ UNCHANGED <<inputs, cached, ancestry, files, runs, events>>

\* A check of the run fails, or it dies: what it cached stays, a fetched commit
\* perhaps without its proof.
Stop ==
    /\ job # None /\ job' = None
    /\ \/ UNCHANGED objects
       \/ At("hydrate") /\ Head(job.need) \in served /\ objects' = objects \cup {Head(job.need)}
    /\ UNCHANGED <<inputs, cached, proofs, ancestry, files, checked, runs, events>>

(***************************************************************************)
(* What others do.                                                          *)
(***************************************************************************)
Event == events < MaxEvents /\ events' = events + 1 /\ UNCHANGED <<objects, proofs, ancestry, job, checked, runs>>

Withdraw == /\ Event /\ \E c \in served : served' = served \ {c}
            /\ UNCHANGED <<pin, cached, rejections, files>>
Damage   == /\ Event /\ cached # None /\ cached' = 0
            /\ UNCHANGED <<inputs, files>>
Repin    == /\ Event /\ pin + 1 \in Versions /\ pin' = pin + 1
            /\ UNCHANGED <<cached, served, rejections, files>>
Reject   == /\ Event /\ \E r \in Rows(pin) : rejections' = [sources |-> pin, of |-> rejections.of \cup {r.pr}]
            /\ UNCHANGED <<pin, cached, served, files>>
Edit(f)  == Event /\ files' = f /\ UNCHANGED <<inputs, cached>>

\* Someone writes the scoring freeze for the pool there is, by hand.
Freeze ==
    /\ job = None /\ files.pool # None
    /\ files' = [files EXCEPT !.freeze = [sources |-> pin, pool |-> files.pool]] /\ files' # files
    /\ UNCHANGED <<inputs, caches, job, checked, runs, events>>

\* Another reason is given for a quarantine.
Relabel ==
    /\ files.packets # None
    /\ \E p \in files.packets.packets :
           /\ p.disposition = "quarantined" /\ p.blocker # "merge_base_bounded"
           /\ Edit([files EXCEPT !.packets.packets = (@ \ {p}) \cup {Packet(p.row, "quarantined", "merge_base_bounded", None, {})}])

\* A candidate is taken out of all four files, and its packet says why.
Drop ==
    /\ files.packets # None /\ files.pool # None
    /\ \E r \in files.pool.records :
           LET pool == [files.pool EXCEPT !.records = @ \ {r}]
               keep(set) == [files[set] EXCEPT !.pool = pool, !.queue = Partition(pool)[set]]
           IN  /\ files.tuning.pool = files.pool /\ files.held_out.pool = files.pool
               /\ Edit([pool |-> pool, tuning |-> keep("tuning"), held_out |-> keep("held_out"), freeze |-> files.freeze,
                        packets |-> [files.packets EXCEPT
                            !.pool = pool, !.deficits = <<TuningSize - TuningCount(pool), HeldOutSize - HeldOutCount(pool)>>,
                            !.packets = {p \in @ : p.row.pr # r.id}
                                        \cup {Packet(r.row, "quarantined", "source_oid_unavailable", None, {})}]])

\* Two reviewers answer for a queued candidate; where they differ a third decides.
Decision(actor, role, says, case) ==
    [actor |-> actor, role |-> role, says |-> says, case |-> case.id, findings |-> case.truth,
     patch |-> case.facts.patch, row |-> case.row]
CaseOf(r) == [id |-> r.id, row |-> r.row, facts |-> r.facts,
              truth |-> {[ordinal |-> c.ordinal, path |-> c.path, from |-> c.from, to |-> c.to] :
                            c \in {c \in r.row.claims : c.ordinal \in r.eligible}}]
Resolve ==
    /\ files.tuning # None
    /\ \E r \in files.tuning.queue, second \in {"approved", "rejected"}, third \in {None, "approved", "rejected"} :
           LET case == CaseOf(r)
               approved == case @@ [decisions |-> <<Decision(1, "reviewer", "approved", case), Decision(2, "reviewer", second, case)>>,
                                    adjudication |-> IF third = None THEN None ELSE Decision(3, "adjudicator", third, case)]
           IN  Edit([files EXCEPT !.tuning.queue = @ \ {r}, !.tuning.cases = @ \cup {approved}])

CorpusInit ==
    /\ pin = 1 /\ cached = None /\ served = Commits /\ objects = {} /\ proofs = {}
    /\ ancestry = [r \in Requests |-> None]
    /\ rejections = [sources |-> 1, of |-> {}]
    /\ files = NoFiles /\ job = None /\ checked = None /\ runs = 0 /\ events = 0

CorpusNext ==
    \/ \E offline \in BOOLEAN : StartDiscover(offline) \/ StartPrepare(offline)
    \/ BeginDiscovery \/ TakeRow \/ HydrateRow \/ OpenAncestry
    \/ ResolveMergeBase \/ BoundedByMarker \/ Deepen \/ GiveUpDeepening \/ Classify
    \/ FinishDiscovery \/ WriteOutput \/ VerifyFrozen \/ Stop
    \/ Withdraw \/ Damage \/ Repin \/ Reject \/ Freeze \/ Relabel \/ Drop \/ Resolve

CorpusSpec == CorpusInit /\ [][CorpusNext]_corpusVars

(***************************************************************************)
(* A preparation that reports has seen every source row accounted for by a  *)
(* reason that is true: a request is rejected where its evidence says so, a *)
(* candidate has a base in the history of both its ends and a human claim   *)
(* inside what changed between them, and a quarantine states a fact of the  *)
(* history, of the change or of the remote - never an interrupted run, a    *)
(* stale cache or an edited file.  And no candidate is in both partitions.  *)
(***************************************************************************)
TrueQuarantine(p) ==
    CASE p.blocker = "no_human_claim"          -> ~\E c \in p.row.claims : c.human
      [] p.blocker = "source_oid_unavailable"  -> ~({p.row.base, p.row.head} \subseteq served)
      [] p.blocker = "native_base_unavailable" -> p.base \notin served
      [] p.blocker = "merge_base_bounded"      ->
             Ancestors(p.row.base, Visible(p.row, Exhausted)) \cap Ancestors(p.row.head, Visible(p.row, Exhausted)) = {}
      [] p.blocker = "churn_not_large"         -> Len(ChangedLines(<<p.base, p.row.head>>, "both")) <= LargeChurn
      [] p.blocker = "no_eligible_human_claim" ->
             ~\E c \in p.row.claims : /\ c.human /\ c.side = "right" /\ c.path \in Tree[p.row.head]
                                      /\ InChangedRange(c, ChangedRanges(<<p.base, p.row.head>>, "right"))
TrueCandidate(r) ==
    /\ r.facts.base \in Ancestors(r.row.base, Parents) \cap Ancestors(r.row.head, Parents)
    /\ \E c \in r.row.claims : c.human /\ InChangedRange(c, ChangedRanges(r.facts.patch, c.side))
PreparationSound ==
    checked # None =>
        /\ \A row \in Rows(checked.pin) : \E p \in checked.files.packets.packets :
              /\ p.row = row
              /\ p.disposition = "rejected" <=> row.pr \in checked.rejections.of
              /\ p.disposition = "quarantined" => TrueQuarantine(p)
              /\ p.disposition = "audit_required" =>
                    \E r \in checked.files.pool.records : r.row = row /\ r.facts.base = p.base /\ TrueCandidate(r)
        /\ \A r \in checked.files.tuning.queue, s \in checked.files.held_out.queue : r.id < s.id
=============================================================================
