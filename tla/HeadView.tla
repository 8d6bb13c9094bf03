------------------------------- MODULE HeadView -------------------------------
(***************************************************************************)
(* The view of the head a committed review is planned on, and the reader of *)
(* single sources (internal/review/snapshot.go).  The tree of the head is   *)
(* listed by Git as a stream that arrives in pieces, every object is sized, *)
(* and only then the objects are read in waves and written below a private  *)
(* directory, which is indexed.  Between the sizes and the waves the object *)
(* store may lose objects, a call of Git or a write may fail, and the       *)
(* caller may give up; what was written is then removed.                    *)
(*                                                                         *)
(* A record of the stream is [mode, type, oid, path], of mode "torn" when   *)
(* it cannot be parsed; its path is a sequence of components.  An object is *)
(* [type, size, nul].  A Git call answers wholly or fails (GitCommand).     *)
(***************************************************************************)
EXTENDS Integers, Sequences, FiniteSetsExt, SequencesExt, Functions

CONSTANTS
    None,
    Trees,          \* the streams Git may send: sequences of records
    Objects,        \* oid -> [type, size, nul]: what these commits were made of
    Files,          \* <<[kind, size], ...>>: files the checkout has had
    MaxEntries, MaxBlobBytes, MaxTotalBytes, MaxSymlinkBytes,
    snapshotContentBatchBytes,
    MaxTurns        \* bound: steps of the object store and of the editor

VARIABLES
    tree,       \* the stream for the head
    objects,    \* the oids the object store holds
    view,       \* the materialization
    snapshot,   \* the private directory: path -> what is there; None without one
    nodes,      \* the files of the checkout now
    live,       \* the file a path of the checkout names, 0 for none
    source,     \* the reader of one source
    turns

vars == <<tree, objects, view, snapshot, nodes, live, source, turns>>
sourceVars == <<nodes, live, source>>
viewVars   == <<tree, view, snapshot>>

Unopened == [pc |-> "idle", rest |-> <<>>, buf |-> <<>>, entries |-> <<>>, err |-> None,
             sizes |-> <<>>, start |-> 1, skip |-> {}, omissions |-> {}]
NoSource == [pc |-> "idle", of |-> None, size |-> 0, bound |-> 0, answer |-> None]

Init ==
    /\ tree \in Trees /\ objects = DOMAIN Objects
    /\ view = Unopened /\ snapshot = None
    /\ nodes = Files /\ live = 1 /\ source = NoSource /\ turns = 0

-----------------------------------------------------------------------------
(* One record (classifyEntry, safeTreePath, ancestorPaths).                 *)

classifyEntry(mode, type) ==
    CASE mode = "040000" /\ type = "tree" -> "tree"
      [] mode = "160000" /\ type = "commit" -> "gitlink"
      [] mode \in {"100644", "100755"} /\ type = "blob" -> "regular"
      [] mode = "120000" /\ type = "blob" -> "symlink"
      [] OTHER -> None
isBlobMode(mode) == mode \in {"100644", "100755", "120000"}

\* A component "bad" has a byte no path may have.
safeTreePath(path) == path # <<>> /\ Range(path) \cap {"", ".", "..", "bad"} = {}
ancestorPaths(path) == {SubSeq(path, 1, n) : n \in 1..Len(path) - 1}

isFullOID(oid) == oid # "short"

PathsIn(entries)       == {e.path : e \in Range(entries)}
DirectoriesIn(entries) == UNION {ancestorPaths(e.path) : e \in Range(entries)}

\* Why the parser refuses a record after these entries, or None.
Refuses(entries, rec) ==
    CASE rec.mode = "torn" -> "malformed stream"
      [] rec.mode # "torn" /\ (\/ classifyEntry(rec.mode, rec.type) = None \/ ~isFullOID(rec.oid)
                                \/ ~safeTreePath(rec.path)
                                \/ rec.path \in PathsIn(entries) \cup DirectoriesIn(entries)
                                \/ ancestorPaths(rec.path) \cap PathsIn(entries) # {}) -> "unsafe entry"
      [] OTHER -> None

consume(p, rec) ==
    LET entries == IF Refuses(p.entries, rec) = None THEN Append(p.entries, rec) ELSE p.entries
    IN  [p EXCEPT !.entries = entries,
                  !.err = IF Refuses(p.entries, rec) # None THEN Refuses(p.entries, rec)
                          ELSE IF Len(entries) > MaxEntries THEN "too many entries" ELSE None]

\* The stream: every record and then the NUL, written <<>>, that ends it.
Stream(records) == FlattenSeq([i \in DOMAIN records |-> << <<records[i]>>, <<>> >>])

\* One token of a chunk; a record may be spread over several chunks.
Write(p, token) ==
    IF p.err # None THEN p
    ELSE IF token # <<>> THEN [p EXCEPT !.buf = p.buf \o token]
    ELSE IF Len(p.buf) # 1 THEN [p EXCEPT !.err = "malformed stream"]
    ELSE [consume(p, p.buf[1]) EXCEPT !.buf = <<>>]

-----------------------------------------------------------------------------
(* Opening the view.                                                       *)

Fail(why) ==
    /\ view' = [view EXCEPT !.pc = "failed", !.err = why]
    /\ snapshot' = None

\* materializeHeadView: the private directory, then the listing of the tree,
\* which may end in the middle of a record.  (The two parts share nothing but
\* the objects: a behaviour opens the view or reads a source.)
Open ==
    /\ view.pc = "idle" /\ source = NoSource
    /\ \E lost \in {0, 1} :
        /\ lost <= Len(Stream(tree))
        /\ view' = [view EXCEPT !.pc = "list", !.rest = SubSeq(Stream(tree), 1, Len(Stream(tree)) - lost)]
    /\ snapshot' = <<>>
    /\ UNCHANGED <<tree, objects, turns>> /\ UNCHANGED sourceVars

\* A piece of the stream; an error stops the producer.
Chunk ==
    /\ view.pc = "list" /\ view.err = None
    /\ \E n \in 1..Len(view.rest) :
        view' = [FoldLeft(Write, view, SubSeq(view.rest, 1, n)) EXCEPT !.rest = SubSeq(view.rest, n + 1, Len(view.rest))]
    /\ UNCHANGED <<tree, objects, snapshot, turns>> /\ UNCHANGED sourceVars

\* The stream has ended, or the parser ended it (result).
Listed ==
    /\ view.pc = "list"
    /\ \/ view.err # None /\ Fail(view.err)
       \/ view.err = None /\ view.rest = <<>> /\ view.buf # <<>> /\ Fail("malformed stream")
       \/ /\ view.err = None /\ view.rest = <<>> /\ view.buf = <<>>
          /\ view' = [view EXCEPT !.pc = "check"] /\ UNCHANGED snapshot
    /\ UNCHANGED <<tree, objects, turns>> /\ UNCHANGED sourceVars

\* batchCheck: one answer for each oid, and nothing is fetched.
Sizes(oids) == [o \in oids |-> IF o \in objects THEN Objects[o] ELSE None]

BlobOids(entries) == {e.oid : e \in {e \in Range(entries) : isBlobMode(e.mode)}}

\* The preflight over the entries, in their order.
Preflight(entries, sizes) ==
    LET Sized(s, i) ==
            LET e == entries[i] IN
            IF s.err # None \/ ~isBlobMode(e.mode) THEN s
            ELSE IF sizes[e.oid] = None THEN [s EXCEPT !.err = "object missing"]
            ELSE IF sizes[e.oid].type # "blob" THEN [s EXCEPT !.err = "malformed stream"]
            ELSE IF e.mode = "120000" /\ sizes[e.oid].size > MaxSymlinkBytes
                 THEN [s EXCEPT !.skip = s.skip \cup {i}]
            ELSE IF e.mode # "120000" /\ sizes[e.oid].size > MaxBlobBytes
                 THEN [s EXCEPT !.err = "blob too large"]
            ELSE IF sizes[e.oid].size > s.left THEN [s EXCEPT !.err = "total too large"]
            ELSE [s EXCEPT !.left = s.left - sizes[e.oid].size]
    IN  FoldLeft(Sized, [err |-> None, skip |-> {}, left |-> MaxTotalBytes], [i \in DOMAIN entries |-> i])

Check ==
    /\ view.pc = "check"
    /\ LET sizes == Sizes(BlobOids(view.entries))
           p == Preflight(view.entries, sizes)
       IN  IF p.err # None THEN Fail(p.err)
           ELSE /\ view' = [view EXCEPT !.pc = "write", !.sizes = sizes, !.skip = p.skip,
                              !.omissions = {view.entries[i].path : i \in p.skip}]
                /\ UNCHANGED snapshot
    /\ UNCHANGED <<tree, objects, turns>> /\ UNCHANGED sourceVars

-----------------------------------------------------------------------------
(* The waves.                                                              *)

Written(i) == isBlobMode(view.entries[i].mode) /\ i \notin view.skip

\* batchBlobs: all of them, or an error.
Held(oids) == oids \subseteq objects

\* From start on, as many objects as fit; one always does.
Wave(start) ==
    LET Packed(w, i) ==
            LET o == view.entries[i].oid IN
            IF w.full \/ i < start THEN w
            ELSE IF ~Written(i) \/ o \in w.oids THEN [w EXCEPT !.end = i]
            ELSE IF w.oids # {} /\ view.sizes[o].size > w.left THEN [w EXCEPT !.full = TRUE]
            ELSE [w EXCEPT !.oids = w.oids \cup {o}, !.left = w.left - view.sizes[o].size, !.end = i]
    IN  FoldLeft(Packed, [oids |-> {}, left |-> snapshotContentBatchBytes, end |-> start - 1, full |-> FALSE],
                 [i \in DOMAIN view.entries |-> i])

\* writeBlob: what an entry becomes, None for a link no file system can hold.
Blob(e) ==
    IF e.mode = "120000" THEN IF Objects[e.oid].nul THEN None ELSE [kind |-> "symlink", of |-> e.oid]
    ELSE [kind |-> IF e.mode = "100755" THEN "executable" ELSE "regular", of |-> e.oid]

WriteWave ==
    /\ view.pc = "write" /\ view.start <= Len(view.entries)
    /\ LET wave == Wave(view.start)
           due  == {i \in view.start..wave.end : Written(i)}
           made == {i \in due : Blob(view.entries[i]) # None}
       IN  IF ~Held(wave.oids) THEN Fail("object missing")
           ELSE /\ snapshot' = [p \in DOMAIN snapshot \cup {view.entries[i].path : i \in made} |->
                        IF p \in DOMAIN snapshot THEN snapshot[p]
                        ELSE Blob(view.entries[CHOOSE i \in made : view.entries[i].path = p])]
                /\ view' = [view EXCEPT !.start = wave.end + 1,
                        !.omissions = view.omissions \cup {view.entries[i].path : i \in due \ made}]
    /\ UNCHANGED <<tree, objects, turns>> /\ UNCHANGED sourceVars

\* The directory is indexed and handed over.
Ready ==
    /\ view.pc = "write" /\ view.start > Len(view.entries)
    /\ view' = [view EXCEPT !.pc = "ready"]
    /\ UNCHANGED <<tree, objects, snapshot, turns>> /\ UNCHANGED sourceVars

Close ==
    /\ view.pc = "ready"
    /\ view' = [view EXCEPT !.pc = "closed"] /\ snapshot' = None
    /\ UNCHANGED <<tree, objects, turns>> /\ UNCHANGED sourceVars

\* A call of Git, a write or the indexing fails, or the caller gives up; a
\* failed wave has written some of its files.
Abandon ==
    /\ view.pc \in {"list", "check", "write"}
    /\ Fail("abandoned")
    /\ UNCHANGED <<tree, objects, turns>> /\ UNCHANGED sourceVars

\* git gc: the objects of a commit nothing refers to any more.
Prune ==
    /\ turns < MaxTurns /\ view.pc \in {"check", "write"}
    /\ \E o \in objects : objects' = objects \ {o}
    /\ turns' = turns + 1
    /\ UNCHANGED viewVars /\ UNCHANGED sourceVars

-----------------------------------------------------------------------------
(* One source (sideSourceResolver.Read): of a tree, or of the checkout when *)
(* that is what is reviewed.                                               *)

Told(kind, of) == [kind |-> kind, of |-> of, bytes |-> 0]
Bytes(kind, n)  == [kind |-> kind, of |-> None, bytes |-> n]
At(path) == {e \in Range(tree) : e.mode # "torn" /\ e.path = path}

\* gitTreeResolver.read: what the tree records, then the size of the object.
ReadTree ==
    /\ source.pc = "idle" /\ view.pc = "idle" /\ IsInjective(tree)
    /\ \E path \in PathsIn(tree) \cup {<<"nowhere">>}, bound \in {0, 1} :
        LET here == At(path)  e == CHOOSE e \in here : TRUE
            kind == IF here = {} THEN "absent" ELSE classifyEntry(e.mode, e.type)
            size == IF e.oid \in objects THEN Objects[e.oid].size ELSE 0
            Say(answer) == source' = [NoSource EXCEPT !.pc = "done", !.of = path, !.bound = bound, !.answer = answer]
        IN  /\ Cardinality(here) <= 1
            /\ CASE ~safeTreePath(path) -> Say(Told("unsafe entry", None))
                 [] safeTreePath(path) /\ here = {} -> Say(Told("absent", None))
                 [] safeTreePath(path) /\ here # {} /\ (kind = None \/ ~isFullOID(e.oid)) ->
                        Say(Told("unsafe entry", None))
                 [] safeTreePath(path) /\ here # {} /\ isFullOID(e.oid) /\ kind \in {"tree", "gitlink"} ->
                        Say(Told(kind, e.oid))
                 [] safeTreePath(path) /\ here # {} /\ isFullOID(e.oid) /\ kind \in {"regular", "symlink"} ->
                        IF e.oid \notin objects THEN Say(Told("object missing", None))
                        ELSE IF Objects[e.oid].type # "blob" THEN Say(Told("malformed stream", None))
                        ELSE IF bound > 0 /\ size > bound THEN Say(Told("too large", None))
                        ELSE source' = [NoSource EXCEPT !.pc = "blob", !.of = path, !.size = size, !.bound = bound]
    /\ UNCHANGED <<objects, nodes, live, turns>> /\ UNCHANGED viewVars

\* readBlob: the bytes, which have to be as many as were announced.
ReadBlob ==
    /\ source.pc = "blob"
    /\ LET e == CHOOSE e \in At(source.of) : TRUE IN
        source' = [source EXCEPT !.pc = "done",
            !.answer = IF e.oid \notin objects THEN Told("object missing", None)
                       ELSE IF Objects[e.oid].size # source.size THEN Told("malformed stream", None)
                       ELSE Told(classifyEntry(e.mode, e.type), e.oid)]
    /\ UNCHANGED <<objects, nodes, live, turns>> /\ UNCHANGED viewVars

\* fsHeadResolver.read: a look at the path, then the descriptor of a regular
\* file, its size, and at most that many bytes as the bound says.
LookLive ==
    /\ source.pc = "idle" /\ view.pc = "idle"
    /\ \E bound \in {0, 2} :
        source' = CASE live = 0 -> [NoSource EXCEPT !.pc = "done", !.bound = bound, !.answer = Told("absent", None)]
            [] live # 0 /\ nodes[live].kind = "special" ->
                 [NoSource EXCEPT !.pc = "done", !.bound = bound, !.answer = Told("special", None)]
            [] live # 0 /\ nodes[live].kind # "special" ->
                 [NoSource EXCEPT !.pc = nodes[live].kind, !.bound = bound]
    /\ UNCHANGED <<objects, nodes, live, turns>> /\ UNCHANGED viewVars

\* Without following a link: another kind of file by now is refused.
OpenLive ==
    /\ source.pc \in {"regular", "symlink"}
    /\ source' = IF live = 0 THEN [source EXCEPT !.pc = "done", !.answer = Told("gone", None)]
                 ELSE IF nodes[live].kind # source.pc
                      THEN [source EXCEPT !.pc = "done", !.answer = Told("refused", None)]
                 ELSE IF source.pc = "symlink"
                      THEN [source EXCEPT !.pc = "done", !.answer = Bytes("symlink", nodes[live].size)]
                 ELSE IF source.bound > 0 /\ nodes[live].size > source.bound
                      THEN [source EXCEPT !.pc = "done", !.answer = Told("too large", None)]
                 ELSE [source EXCEPT !.pc = "bytes", !.of = live]
    /\ UNCHANGED <<objects, nodes, live, turns>> /\ UNCHANGED viewVars

ReadLive ==
    /\ source.pc = "bytes"
    /\ source' = [source EXCEPT !.pc = "done",
            !.answer = IF source.bound > 0 /\ nodes[source.of].size > source.bound
                       THEN Told("too large", None) ELSE Bytes("regular", nodes[source.of].size)]
    /\ UNCHANGED <<objects, nodes, live, turns>> /\ UNCHANGED viewVars

\* The editor: another file under the name, or more bytes in a file.
Edit ==
    /\ turns < MaxTurns /\ source.pc \in {"regular", "symlink", "bytes"}
    /\ \/ live' \in (0..Len(nodes)) \ {live} /\ UNCHANGED nodes
       \/ \E n \in DOMAIN nodes : /\ nodes[n].kind = "regular" /\ nodes' = [nodes EXCEPT ![n].size = 3]
                                  /\ nodes' # nodes
          /\ UNCHANGED live
    /\ turns' = turns + 1
    /\ UNCHANGED <<objects, source>> /\ UNCHANGED viewVars

Next ==
    \/ Open \/ Chunk \/ Listed \/ Check \/ WriteWave \/ Ready \/ Close \/ Abandon \/ Prune
    \/ ReadTree \/ ReadBlob \/ LookLive \/ OpenLive \/ ReadLive \/ Edit

Spec == Init /\ [][Next]_vars
-----------------------------------------------------------------------------
Omitted(e) == e.mode = "120000" /\ (Objects[e.oid].nul \/ Objects[e.oid].size > MaxSymlinkBytes)
BlobsOf(records) == {e \in Range(records) : isBlobMode(e.mode)}

(* A view that opens shows every file of the head's tree, with the object   *)
(* and the kind the tree names, whichever pieces the listing arrived in:    *)
(* only links no file system can hold are left out, and each is named as an *)
(* omission.  Nothing is written before the whole tree was found safe, of   *)
(* one file per path, and within the caps; and when opening fails or the    *)
(* view is closed nothing stays on the disk (snapshot.go:715, :383, :650).  *)
ViewIsHead ==
    /\ view.pc = "ready" =>
        LET blobs == BlobsOf(tree) IN
        /\ DOMAIN snapshot = {e.path : e \in {e \in blobs : ~Omitted(e)}}
        /\ view.omissions = {e.path : e \in {e \in blobs : Omitted(e)}}
        /\ \A e \in blobs : ~Omitted(e) => snapshot[e.path] = Blob(e)
    /\ view.pc \in {"idle", "failed", "closed"} => snapshot = None
    /\ snapshot \notin {None, <<>>} =>
        /\ view.entries = tree /\ Len(tree) <= MaxEntries
        /\ \A e \in Range(tree) : safeTreePath(e.path) /\ ancestorPaths(e.path) \cap PathsIn(tree) = {}
        /\ FoldFunction(+, 0, [p \in DOMAIN snapshot |-> Objects[snapshot[p].of].size]) <= MaxTotalBytes

(* A source that is told is the one its side has: of a tree the entry the   *)
(* tree names for the path; and it never has more bytes than were asked     *)
(* for, also when the file grew after it was looked at (snapshot.go:120,    *)
(* :242, :295).                                                            *)
SourceIsBound ==
    source.pc = "done" /\ source.answer.kind \in {"regular", "symlink"} =>
        IF source.answer.of # None
        THEN /\ \E e \in At(source.of) : /\ e.oid = source.answer.of
                                         /\ source.answer.kind = classifyEntry(e.mode, e.type)
             /\ source.bound > 0 => Objects[source.answer.of].size <= source.bound
        ELSE source.answer.kind = "regular" /\ source.bound > 0 => source.answer.bytes <= source.bound
=============================================================================
