----------------------------- MODULE ReviewCapture -----------------------------
(***************************************************************************)
(* One capture of a change (internal/review/capture.go) while an editor     *)
(* works in the checkout.  A workspace capture pins HEAD, asks Git which    *)
(* tracked paths differ from the base and which paths are not tracked, and  *)
(* then reads every new side itself: it looks at the path, opens it without *)
(* following a link, asks the descriptor for its size and reads.  Between   *)
(* any two of these steps a file may grow, be replaced, be removed, be      *)
(* staged or unstaged, and HEAD may move.  A committed capture reads two    *)
(* trees and nothing of the checkout.                                       *)
(*                                                                         *)
(* A path names a node, as a directory entry names an inode: an open        *)
(* descriptor keeps its node when the path is given another one.  Contents  *)
(* are records [v, size, nul]: a line is one byte long, and two contents    *)
(* with different v have no line in common.  Git's calls are whole or fail  *)
(* (GitCommand); the executable bit and reads torn by a writer are left out.*)
(***************************************************************************)
EXTENDS Integers, Sequences, FiniteSetsExt, SequencesExt

CONSTANTS
    None,
    Paths,                        \* 1..n, in the order of their names
    Recognized,                   \* paths whose name is that of an indexed format
    Modules,                      \* paths of submodules
    Oids,                         \* commits of the submodules
    BaseTree, HeadTree,           \* what the two trees hold: a side for every path
    Texts,                        \* contents the editor writes
    Starts,                       \* checkouts a capture begins in: <<nodes, disk, staged>>
    FileCap, TotalCap, PatchCap, PathCap,
    MaxEdits                      \* bound: steps of the editor

VARIABLES
    nodes,      \* files there have been: sequence of [kind, data]
    disk,       \* path -> its node, 0 when there is none
    staged,     \* path -> "file", the staged commit of a submodule, or None
    checkedOut, \* path -> the commit a submodule's checkout is at
    moved,      \* HEAD is no longer the base
    edits,
    cap         \* the capture

vars == <<nodes, disk, staged, checkedOut, moved, edits, cap>>

Side(kind, data) == [kind |-> kind, data |-> data]

(* What a tree, a directory entry and the index can hold.                   *)
TreeSides == [kind : {"regular", "symlink"}, data : Texts] \cup [kind : {"gitlink"}, data : Oids]
Nodes     == [kind : {"regular", "symlink", "special"}, data : Texts]
Entries   == Oids \cup {"file", None}
Sides     == TreeSides \cup Nodes \cup [kind : {"special", "gitlink"}, data : {None}]

ConstantsTyped ==
    /\ Paths \subseteq Nat /\ Modules \subseteq Paths /\ IsFiniteSet(Oids)
    /\ None \notin Paths /\ None \notin Oids /\ None \notin {"head", "trees"} /\ None \notin Sides
    /\ Texts \subseteq [v : Nat, size : Nat, nul : BOOLEAN]
    /\ BaseTree \in [Paths -> TreeSides \cup {None}]
    /\ \A start \in Starts :
        /\ start[1] \in Seq(Nodes) /\ start[2] \in [Paths -> 0..Len(start[1])]
        /\ \A p, q \in Paths : start[2][p] = start[2][q] /\ start[2][p] # 0 => p = q
        /\ start[3] \in [Paths -> Entries] /\ \A p \in Modules : start[3][p] \in Oids

Blob(side) == side # None /\ side.kind \in {"regular", "symlink"}

(* What a reader of path p finds now: the side the capture would record.    *)
There(p) == IF p \in Modules THEN Side("gitlink", staged[p])
            ELSE IF disk[p] = 0 THEN None
            ELSE IF nodes[disk[p]].kind = "special" THEN Side("special", None)
            ELSE nodes[disk[p]]

Idle == [pc |-> "idle", of |-> None, queue |-> {}, change |-> None, node |-> 0, size |-> 0,
         total |-> 0, patch |-> 0, records |-> <<>>, past |-> [p \in Paths |-> {}], index |-> [p \in Paths |-> {}]]

Init ==
    /\ \E start \in Starts : nodes = start[1] /\ disk = start[2] /\ staged = start[3]
    /\ checkedOut = [p \in Paths |-> IF p \in Modules THEN staged[p] ELSE None]
    /\ moved = FALSE /\ edits = 0 /\ cap = Idle

Busy  == cap.pc \notin {"idle", "done", "failed"}
At(pc) == cap.pc = pc
Quiet == UNCHANGED <<nodes, disk, staged, checkedOut, moved, edits>>
Now(c) == Quiet /\ cap' = c
Fails == Now([Idle EXCEPT !.pc = "failed"])

(***************************************************************************)
(* The editor.  While a capture runs, past and index keep what every path   *)
(* was and how it was staged.                                               *)
(***************************************************************************)
Edit == edits < MaxEdits /\ edits' = edits + 1
Witnessed ==
    cap' = IF Busy THEN [cap EXCEPT !.past = [p \in Paths |-> @[p] \cup {There(p)'}],
                                    !.index = [p \in Paths |-> @[p] \cup {staged[p]'}]]
           ELSE cap

Write(p, text) ==
    /\ Edit /\ disk[p] # 0 /\ nodes[disk[p]].kind = "regular" /\ nodes[disk[p]].data # text
    /\ nodes' = [nodes EXCEPT ![disk[p]].data = text]
    /\ UNCHANGED <<disk, staged, checkedOut, moved>> /\ Witnessed
Replace(p, kind, text) ==
    /\ Edit /\ p \notin Modules
    /\ nodes' = Append(nodes, Side(kind, text))
    /\ disk' = [disk EXCEPT ![p] = Len(nodes')]
    /\ UNCHANGED <<staged, checkedOut, moved>> /\ Witnessed
Unlink(p) ==
    /\ Edit /\ disk[p] # 0
    /\ disk' = [disk EXCEPT ![p] = 0]
    /\ UNCHANGED <<nodes, staged, checkedOut, moved>> /\ Witnessed
Restage(p, entry) ==
    /\ Edit /\ staged[p] # entry
    /\ entry \in IF p \in Modules THEN Oids ELSE {None, "file"}
    /\ entry = "file" => disk[p] # 0
    /\ staged' = [staged EXCEPT ![p] = entry]
    /\ UNCHANGED <<nodes, disk, checkedOut, moved>> /\ Witnessed
CheckOut(p, oid) ==
    /\ Edit /\ p \in Modules /\ checkedOut[p] # oid
    /\ checkedOut' = [checkedOut EXCEPT ![p] = oid]
    /\ UNCHANGED <<nodes, disk, staged, moved>> /\ Witnessed
MoveHead ==
    /\ Edit /\ ~moved /\ moved' = TRUE
    /\ UNCHANGED <<nodes, disk, staged, checkedOut>> /\ Witnessed

(***************************************************************************)
(* What Git lists.  A tracked path whose side differs from the base is a    *)
(* change; an addition with the content of a deletion is its rename.  A     *)
(* submodule checked out elsewhere than staged has no commit in the list.   *)
(***************************************************************************)
Tracked(p) ==
    IF p \in Modules THEN Side("gitlink", IF checkedOut[p] = staged[p] THEN staged[p] ELSE None)
    ELSE IF staged[p] = None THEN None ELSE There(p)

(* The records of git diff --raw between the tree `from` and the sides `to`.*)
RawStatus(from, to) ==
    LET added   == {p \in Paths : from[p] = None /\ to[p] # None}
        deleted == {p \in Paths : from[p] # None /\ to[p] = None}
        Least(S, side, tree) == Min({p \in S : tree[p] = side})
        renamed == {p \in added : /\ \E q \in deleted : from[q] = to[p]
                                  /\ p = Least(added, to[p], to)}
        source  == [p \in renamed |-> Least(deleted, to[p], from)]
        listed  == {p \in Paths : from[p] # to[p]} \ {source[p] : p \in renamed}
        Change(p) ==
            [status |-> IF p \in renamed THEN "R" ELSE IF p \in added THEN "A"
                        ELSE IF p \in deleted THEN "D" ELSE "M",
             untracked |-> FALSE,
             old |-> IF p \in renamed THEN source[p] ELSE IF p \in added THEN None ELSE p,
             new |-> IF p \in deleted THEN None ELSE p,
             side |-> to[p]] IN
    {Change(p) : p \in listed}

Untracked(p) == [status |-> "A", untracked |-> TRUE, old |-> None, new |-> p, side |-> None]

(* The order changes are read in: those Git tracks, then the others.        *)
Name(change) == IF change.new = None THEN change.old ELSE change.new
Earlier(a, b) == \/ ~a.untracked /\ b.untracked
                 \/ a.untracked = b.untracked /\ Name(a) < Name(b)

(***************************************************************************)
(* assemble: one record from its two sides.                                 *)
(***************************************************************************)
Opaque(side) == side # None /\ side.kind \in {"special", "gitlink"}

ThresholdText(old, new, before, after) ==
    \/ before # None /\ (old \in Recognized \/ ~before.data.nul)
    \/ after # None /\ (new \in Recognized \/ ~after.data.nul)

Size(side) == IF side = None THEN 0 ELSE side.data.size
SameData(a, b) == \/ a = None /\ b = None
                  \/ a = None /\ b # None /\ b.data.size = 0
                  \/ b = None /\ a # None /\ a.data.size = 0
                  \/ a # None /\ b # None /\ a.data = b.data

(* diffSides: two contents without a common line, or the same content.      *)
Churn(a, b) == IF SameData(a, b) THEN [dels |-> 0, adds |-> 0]
               ELSE [dels |-> Size(a), adds |-> Size(b)]

Assemble(change, before, after) ==
    LET text  == /\ ~Opaque(before) /\ ~Opaque(after)
                 /\ ThresholdText(change.old, change.new, before, after)
        churn == IF text THEN Churn(before, after) ELSE [dels |-> 0, adds |-> 0] IN
    [untracked |-> change.untracked, status |-> change.status, old |-> change.old,
     new |-> change.new, before |-> before, after |-> after, text |-> text,
     dels |-> churn.dels, adds |-> churn.adds]

OldSide(change) == IF change.old = None THEN None ELSE BaseTree[change.old]

Overflows(c, record) == c.patch + record.dels + record.adds > PatchCap
Recorded(c, change, record) ==
    [c EXCEPT !.records = Append(@, record), !.patch = @ + record.dels + record.adds,
              !.queue = @ \ {change}, !.change = None, !.pc = "side", !.node = 0, !.size = 0]

(* The new side of a change is read: record it.                             *)
Record(c, change, after) ==
    LET record == Assemble(change, OldSide(change), after) IN
    IF Overflows(c, record) THEN Fails ELSE Now(Recorded(c, change, record))

(***************************************************************************)
(* A workspace capture.                                                     *)
(***************************************************************************)
Begin(pc) ==
    /\ At("idle")
    /\ Now([cap EXCEPT !.pc = pc, !.of = pc, !.past = [p \in Paths |-> {There(p)}],
                       !.index = [p \in Paths |-> {staged[p]}]])

RevParseHead == At("head") /\ IF moved THEN Fails ELSE Now([cap EXCEPT !.pc = "status"])

ListTracked ==
    /\ At("status")
    /\ Now([cap EXCEPT !.pc = "others",
                       !.queue = RawStatus(BaseTree, [p \in Paths |-> Tracked(p)])])

ListUntracked ==
    /\ At("others")
    /\ LET others == {p \in Paths \ Modules : staged[p] = None /\ Blob(There(p))}
           queue  == cap.queue \cup {Untracked(p) : p \in others} IN
       IF Cardinality(queue) > PathCap THEN Fails
       ELSE Now([cap EXCEPT !.pc = "side", !.queue = queue])

Taking(change) ==
    /\ At("side") /\ change \in cap.queue
    /\ \A other \in cap.queue \ {change} : Earlier(change, other)

(* A deletion has no new side to read.                                      *)
NoNewSide(change) == Taking(change) /\ change.new = None /\ Record(cap, change, None)

(* gitlinkWorkspaceNewSide: the index is read again and has to agree.       *)
Gitlink(change) ==
    /\ Taking(change) /\ change.new \in Modules
    /\ IF change.side.data \in {None} \cup (Oids \ {staged[change.new]}) THEN Fails
       ELSE Record(cap, change, Side("gitlink", staged[change.new]))

Lstat(change) ==
    /\ Taking(change) /\ change.new \in Paths \ Modules
    /\ LET node == disk[change.new]
           Goes(pc) == Now([cap EXCEPT !.pc = pc, !.change = change]) IN
       IF node = 0 THEN Fails
       ELSE CASE nodes[node].kind = "special" -> Record(cap, change, Side("special", None))
              [] nodes[node].kind = "symlink" -> Goes("readlink")
              [] nodes[node].kind = "regular" -> Goes("open")

Path == cap.change.new

(* accountUntracked, after the bytes are in memory.                         *)
Counted(data) == IF cap.change.untracked THEN [cap EXCEPT !.total = @ + data.size] ELSE cap

ReadLink ==
    /\ At("readlink")
    /\ IF disk[Path] = 0 \/ (disk[Path] # 0 /\ nodes[disk[Path]].kind # "symlink") THEN Fails
       ELSE LET c == Counted(nodes[disk[Path]].data) IN
            IF c.total > TotalCap THEN Fails ELSE Record(c, cap.change, nodes[disk[Path]])

OpenRegular ==
    /\ At("open")
    /\ IF disk[Path] = 0 \/ (disk[Path] # 0 /\ nodes[disk[Path]].kind # "regular") THEN Fails
       ELSE LET size == nodes[disk[Path]].data.size IN
            IF cap.change.untracked /\ (size > FileCap \/ cap.total + size > TotalCap) THEN Fails
            ELSE Now([cap EXCEPT !.pc = "read", !.node = disk[Path], !.size = size])

\* The size asked before the read is taken for the size of what was read.
ReadAsSized ==
    /\ At("read")
    /\ LET c == Counted([size |-> cap.size]) IN
       IF cap.change.untracked /\ c.total > TotalCap THEN Fails
       ELSE Record(c, cap.change, nodes[cap.node])
ReadRegular ==
    /\ At("read")
    /\ LET data == nodes[cap.node].data
           c    == Counted(data) IN
       IF cap.change.untracked /\ (data.size > FileCap \/ c.total > TotalCap) THEN Fails
       ELSE Record(c, cap.change, nodes[cap.node])

Finish == At("side") /\ cap.queue = {} /\ Now([cap EXCEPT !.pc = "done"])

GitFails == cap.pc \in {"head", "status", "others", "trees"} /\ Fails

(* A committed capture: both sides of every change come out of the trees.   *)
CaptureCommitted ==
    /\ At("trees")
    /\ LET changes == RawStatus(BaseTree, HeadTree)
           Both(change) ==
               Assemble(change, OldSide(change), IF change.new = None THEN None ELSE HeadTree[change.new])
           Churned(patch, record) == patch + record.dels + record.adds
           records == LET sorted == SetToSortSeq(changes, Earlier) IN
                      [i \in DOMAIN sorted |-> Both(sorted[i])]
           patch   == FoldLeft(Churned, 0, records) IN
       IF Cardinality(changes) > PathCap \/ patch > PatchCap THEN Fails
       ELSE Now([cap EXCEPT !.pc = "done", !.records = records, !.patch = patch])

Editor == \/ \E p \in Paths, text \in Texts : Write(p, text)
          \/ \E p \in Paths, text \in Texts, kind \in {"regular", "symlink", "special"} :
                Replace(p, kind, text)
          \/ \E p \in Paths : Unlink(p)
          \/ \E p \in Paths, entry \in Oids \cup {None, "file"} : Restage(p, entry)
          \/ \E p \in Paths, oid \in Oids : CheckOut(p, oid)
          \/ MoveHead

Next == \/ Begin("head") \/ Begin("trees")
        \/ RevParseHead \/ ListTracked \/ ListUntracked
        \/ \E change \in cap.queue : NoNewSide(change) \/ Gitlink(change) \/ Lstat(change)
        \/ ReadLink \/ OpenRegular \/ ReadRegular
        \/ Finish \/ GitFails \/ CaptureCommitted
        \/ Editor

Spec == Init /\ [][Next]_vars

(***************************************************************************)
(* A finished capture of the workspace shows the checkout as it was while   *)
(* the capture ran, whatever the editor did meanwhile: each new side it     *)
(* records was at its path at some moment; a path that differed from the    *)
(* base all along, and was staged the same way all along, is recorded with  *)
(* its base side and with a new side it had; no path is recorded twice      *)
(* unless its staging changed; and the untracked bytes and the patch that   *)
(* it holds are counted, not estimated, and within their limits.            *)
(***************************************************************************)
Settled(p) == Cardinality(cap.index[p]) = 1
Recordings == Range(cap.records)
SidesWereThere == \A r \in Recordings : r.new # None => r.after \in cap.past[r.new]
NothingLeftOut ==
    \A p \in {p \in Paths : Settled(p) /\ BaseTree[p] \notin cap.past[p]} :
        /\ BaseTree[p] # None => \E r \in Recordings : r.old = p /\ r.before = BaseTree[p]
        /\ None \notin cap.past[p] /\ (None \in cap.index[p] => \A s \in cap.past[p] : Blob(s))
               => \E r \in Recordings : r.new = p
RecordedOnce ==
    \A i, j \in DOMAIN cap.records :
        i # j /\ cap.records[i].new # None /\ cap.records[i].new = cap.records[j].new
            => ~Settled(cap.records[i].new)
Total(S, value(_)) == MapThenSumSet(value, S)
WithinLimits ==
    LET held == {i \in DOMAIN cap.records : cap.records[i].untracked /\ Blob(cap.records[i].after)}
        bytes(i) == cap.records[i].after.data.size IN
    /\ Total(held, bytes) <= TotalCap
    /\ \A i \in held : cap.records[i].after.kind = "regular" => bytes(i) <= FileCap
    /\ Total(DOMAIN cap.records, LAMBDA i : cap.records[i].dels + cap.records[i].adds) <= PatchCap
    /\ Len(cap.records) <= PathCap
CheckoutShown ==
    At("done") /\ cap.of = "head" => SidesWereThere /\ NothingLeftOut /\ RecordedOnce
CaptureSound == CheckoutShown /\ (At("done") => WithinLimits)
=============================================================================
