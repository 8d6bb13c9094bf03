--------------------------- MODULE GraphResolution ---------------------------
(***************************************************************************)
(* The reference graph of one index across incremental refreshes:           *)
(* internal/graph/resolve.go with the rows it works on (internal/store) and *)
(* the refresh that replaces the rows of changed files (internal/index).    *)
(*                                                                         *)
(* A refresh parses only the files whose content changed, drops the rows of *)
(* vanished ones and then resolves the whole edge table again, pass by      *)
(* pass.  IndexGeneration shows that a refresh is atomic, so it is a step.  *)
(*                                                                         *)
(* An extractor is a function from a text to [refs, decls]: references are  *)
(* [kind, raw, words], declarations [kind, name], a name a sequence.        *)
(*                                                                         *)
(* A path is [dir, stem, ext], its directory a sequence of segments.  What  *)
(* is referenced, raw, is [at, up, segs, ext, dotted]: "at" is how it begins *)
(*   "here" ./ or ../ (up counts the latter)   "dots" Python's leading dots *)
(*   "crate" "mod" of Rust   "package" of Dart   "home" ~/  "config"        *)
(*   "root" /   "name" with none of these;                                  *)
(* a dotted reference (a.b, a::b) is no literal path.                       *)
(***************************************************************************)
EXTENDS Naturals, SequencesExt

CONSTANTS
    Projects,    \* sequences of paths, in the order of their names
    Texts,
    Gone,        \* no such file
    Parse,       \* Parse[path][text], what the extractor finds
    Tests,       \* the stems that end in _test
    Workspace    \* the metadata: crates, tsPackages, dartPackages, aliases

VARIABLES
    project,     \* the project of this behaviour
    disk,        \* the text of each of its files
    hash,        \* the text each row of files was parsed from, or Gone
    rows,        \* the files with rows, those inserted last at the end
    edges,       \* the stored references, [file, kind, raw, words]
    link,        \* what each resolved to
    pkg          \* the synthetic package edges, pairs of files
graphVars == <<project, disk, hash, rows, edges, link, pkg>>

(***************************************************************************)
(* Which indexed file a reference names.                                    *)
(***************************************************************************)
Language == [go |-> "go", cs |-> "csharp", ex |-> "elixir", qml |-> "qml", swift |-> "swift",
             java |-> "java", kt |-> "kotlin", php |-> "php", dart |-> "dart", rs |-> "rust",
             py |-> "python", lua |-> "lua", rb |-> "ruby", sh |-> "bash",
             ts |-> "typescript", tsx |-> "tsx", js |-> "javascript", conf |-> "conf"]
LangOf(p) == Language[p.ext]

ScriptLangs == {"typescript", "tsx", "javascript"}
ScriptExts  == <<"ts", "tsx", "js", "jsx", "mjs", "cjs">>

Whole(p) == Append(p.dir, p.stem)
PathAt(segs, ext) == [dir |-> Front(segs), stem |-> Last(segs), ext |-> ext]

\* path.Clean(path.Join(dir, ../.. , segs)); a path above the root is no file's.
Joined(dir, up, segs) ==
    IF up > Len(dir) THEN <<"..">> \o segs ELSE SubSeq(dir, 1, Len(dir) - up) \o segs

\* path.Dir repeated, which stays at the root.
Ancestor(dir, up) == SubSeq(dir, 1, IF up > Len(dir) THEN 0 ELSE Len(dir) - up)

Each(seq, Op(_)) == FlattenSeq([i \in DOMAIN seq |-> Op(seq[i])])
Product(bases, forms, ext) ==
    Each(bases, LAMBDA b : [i \in DOMAIN forms |-> PathAt(b \o forms[i], ext)])
LongestFirst(segs) == [i \in 1..Len(segs) |-> SubSeq(segs, 1, Len(segs) + 1 - i)]

First(files, candidates) ==
    LET i == SelectInSeq(candidates, LAMBDA c : c \in files)
    IN  IF i = 0 THEN {} ELSE {candidates[i]}

\* The extension of a script import stands for any source extension.
ScriptStem(raw) == raw.ext = "" \/ \E i \in DOMAIN ScriptExts : ScriptExts[i] = raw.ext

CrateRoot(dir) ==
    LET k == SelectInSubSeq(dir, 2, Len(dir), LAMBDA s : s = "src")
    IN  IF k = 0 THEN <<"src">> ELSE SubSeq(dir, 1, k)

ModuleFiles(raw, init) == <<raw.segs, Append(raw.segs, init)>>

LanguageCandidates(from, raw) ==
    LET lang == LangOf(from) IN
    CASE lang = "lua" /\ (raw.dotted \/ Len(raw.segs) = 1) ->
            Product(<<<<>>, <<"lua">>, from.dir, Append(from.dir, "lua")>>, ModuleFiles(raw, "init"), "lua")
      [] lang \in ScriptLangs /\ raw.at = "here" ->
            LET base == Joined(from.dir, raw.up, raw.segs) IN
            <<PathAt(base, raw.ext)>> \o
            IF ~ScriptStem(raw) THEN <<>>
            ELSE Each(ScriptExts, LAMBDA e : <<PathAt(base, e), PathAt(Append(base, "index"), e)>>)
      [] lang = "rust" /\ raw.at = "crate" ->
            LET root == CrateRoot(from.dir) IN
            Each(LongestFirst(raw.segs), LAMBDA m : Product(<<root>>, <<m, Append(m, "mod")>>, "rs"))
              \o Product(<<root>>, <<<<"lib">>, <<"main">>>>, "rs")
      [] lang = "rust" /\ raw.at = "mod" ->
            Product(IF from.stem \in {"mod", "lib", "main"} THEN <<from.dir>>
                    ELSE <<from.dir, Whole(from)>>, ModuleFiles(raw, "mod"), "rs")
      [] lang = "python" /\ raw.at = "dots" ->
            Product(<<Ancestor(from.dir, raw.up - 1)>>, ModuleFiles(raw, "__init__"), "py")
      [] lang = "python" /\ raw.at # "dots" ->
            Product(<<<<>>, <<"src">>>>, ModuleFiles(raw, "__init__"), "py")
      [] lang = "java" ->
            Product(<<<<>>, <<"src", "main", "java">>, <<"src">>>>, <<raw.segs>>, "java")
      [] lang = "ruby" ->
            (IF raw.at = "name" THEN Product(<<<<>>, <<"lib">>>>, <<raw.segs>>, "rb") ELSE <<>>)
              \o <<PathAt(Joined(from.dir, raw.up, raw.segs), "rb")>>
      [] OTHER -> <<>>

LiteralCandidates(from, raw) ==
    IF raw.dotted THEN <<>>
    ELSE CASE raw.at = "config" -> <<PathAt(raw.segs, raw.ext), PathAt(<<".config">> \o raw.segs, raw.ext)>>
           [] raw.at \in {"home", "root"} -> <<PathAt(raw.segs, raw.ext)>>
           [] raw.at = "name" -> <<PathAt(from.dir \o raw.segs, raw.ext), PathAt(raw.segs, raw.ext)>>
           [] raw.at = "here" -> <<PathAt(Joined(from.dir, raw.up, raw.segs), raw.ext)>>
           [] OTHER -> <<>>

pathCandidates(from, raw) == LanguageCandidates(from, raw) \o LiteralCandidates(from, raw)

\* The only file whose path ends in the reference.
UniqueSuffix(files, raw) ==
    LET ending == {f \in files : f.ext = raw.ext /\ IsSuffix(raw.segs, Whole(f))}
    IN  IF raw.dotted \/ raw.at \notin {"config", "home", "root", "name", "here"} \/ raw.up > 0
           \/ Cardinality(ending) # 1
        THEN {} ELSE ending

\* resolvePath: the target, as a set of at most one file.
PathTarget(files, candidates, raw) ==
    LET direct == First(files, candidates)
    IN  IF direct # {} THEN direct ELSE UniqueSuffix(files, raw)

resolvePath(files, from, raw) == PathTarget(files, pathCandidates(from, raw), raw)

\* A command: a sequence of words, each a reference.  The bare first word
\* names the only file with that base name, else the first word that looks
\* like a path and resolves.
resolveCommandTarget(files, from, words) ==
    LET named  == IF words[1].at = "name" /\ Len(words[1].segs) = 1
                  THEN {f \in files : f.stem = words[1].segs[1] /\ f.ext = words[1].ext} ELSE {}
        script == {i \in DOMAIN words : Len(words[i].segs) > 1 \/ words[i].at # "name"
                                        \/ words[i].ext \in {"sh", "py", "lua"}}
        target == [i \in script |-> PathTarget(files, LiteralCandidates(from, words[i]), words[i])]
        found  == {i \in script : target[i] # {}}
    IN  IF Cardinality(named) = 1 THEN named
        ELSE UNION {target[i] : i \in {j \in found : \A k \in found : j <= k}}

\* tsPackageFile and tsModuleFile over the directories to look in.
scriptFile(files, bases, raw, literal) ==
    First(files, (IF ~ScriptStem(raw) THEN <<>>
                  ELSE Each(bases, LAMBDA b :
                         [i \in DOMAIN ScriptExts |-> PathAt(b, ScriptExts[i])] \o
                         [i \in DOMAIN ScriptExts |-> PathAt(Append(b, "index"), ScriptExts[i])]))
                 \o Each(literal, LAMBDA b : <<PathAt(b, raw.ext)>>))

\* The package path of a Java or Kotlin file: what follows its source root.
javaPkgPath(p) ==
    LET s == SelectInSeq(p.dir, LAMBDA d : d = "src")
        after == SubSeq(p.dir, s + 1, Len(p.dir))
        Root(set) == SelectInSubSeq(after, 2, Len(after), LAMBDA d : d = set)
        k == IF Root("kotlin") # 0 THEN Root("kotlin") ELSE Root("java")
    IN  IF s = 0 THEN Whole(p) ELSE SubSeq(after, k + 1, Len(after)) \o <<p.stem>>

sharedPrefixLen(a, b) ==
    LET common == {n \in 0..Len(a) : n <= Len(b) /\ SubSeq(a, 1, n) = SubSeq(b, 1, n)}
    IN  CHOOSE n \in common : \A m \in common : m <= n

(***************************************************************************)
(* The stored graph.                                                        *)
(***************************************************************************)
Unresolved == [type |-> "none"]
File(p)     == [type |-> "file", to |-> p]
Package     == [type |-> "package"]
Declaration(p, name) == [type |-> "resource", to |-> p, name |-> name]

RefsOf(p, text)  == {[file |-> p, kind |-> r.kind, raw |-> r.raw, words |-> r.words] :
                       r \in Parse[p][text].refs}

-----------------------------------------------------------------------------
(* The tables one resolution reads. *)

Present(h) == {p \in DOMAIN h : h[p] # Gone}
Declares(h, p, kind, name) == [kind |-> kind, name |-> name] \in Parse[p][h[p]].decls

\* AllResources and NamespaceFiles: the declaring files, oldest row first.
Declaring(h, order, name) ==
    SelectSeq(order, LAMBDA p : \E d \in Parse[p][h[p]].decls :
                        d.name = name /\ d.kind \notin {"struct", "class", "enum", "protocol"})
NamespaceFiles(h, order, name) ==
    SelectSeq(order, LAMBDA p : Declares(h, p, "namespace", name))

\* swiftTypeIndex: kind by kind, the files in the order of their paths.
swiftTypeIndex(h, byPath, name) ==
    Each(<<"struct", "class", "enum", "protocol">>, LAMBDA kind :
        SelectSeq(byPath, LAMBDA p : h[p] # Gone /\ LangOf(p) = "swift" /\ Declares(h, p, kind, name)))

firstOther(files, self) ==
    LET others == SelectSeq(files, LAMBDA p : p # self)
    IN  IF others = <<>> THEN {} ELSE {others[1]}

\* The only component of that name, the one of the same directory, or the
\* first of those that share the longest prefix.
resolveQMLComponent(h, byPath, from, name) ==
    LET cands == SelectSeq(byPath, LAMBDA p : h[p] # Gone /\ p.ext = "qml" /\ <<p.stem>> = name)
        Score(p) == IF p.dir = from.dir THEN 99 ELSE sharedPrefixLen(p.dir, from.dir)
        best == SelectInSeq(cands, LAMBDA p : \A i \in DOMAIN cands : Score(cands[i]) <= Score(p))
    IN  IF best = 0 THEN {} ELSE {cands[best]}

-----------------------------------------------------------------------------
(* The passes for imports that pass 1 left unresolved, by language.         *)

GoFiles(h, dir) ==
    {p \in Present(h) : LangOf(p) = "go" /\ p.stem \notin Tests /\ p.dir = dir}

\* moduleImportDir: only an import that begins with the module's path.
GoImport(h, e) == IF e.raw.at = "module" THEN GoFiles(h, e.raw.segs) ELSE {}
NamespaceImport(h, order, e) ==
    {p \in Range(NamespaceFiles(h, order, e.raw.segs)) : LangOf(p) = LangOf(e.file)}

Fanout(h, order, e) ==
    CASE LangOf(e.file) = "go" -> GoImport(h, e)
      [] LangOf(e.file) \in {"csharp", "elixir"} -> NamespaceImport(h, order, e)
      [] OTHER -> {}

\* A wildcard names every file of the package and stays unresolved itself.
JVM(h) == {p \in Present(h) : LangOf(p) \in {"java", "kotlin"}}
IsWildcard(e) == LangOf(e.file) \in {"java", "kotlin"} /\ Last(e.raw.segs) = "*"
Wildcard(h, e) == IF IsWildcard(e) THEN {p \in JVM(h) : Front(javaPkgPath(p)) = Front(e.raw.segs)} ELSE {}

\* The class, or the class that encloses it: exact first, then shorter; of
\* several files of a class the last.
JVMTarget(h, byPath, e) ==
    LET named(n, ext) == SelectSeq(byPath, LAMBDA p : p \in JVM(h) /\ p.ext = ext
                                              /\ javaPkgPath(p) = SubSeq(e.raw.segs, 1, n))
        chosen(n) == IF named(n, "java") # <<>> THEN {Last(named(n, "java"))}
                     ELSE IF named(n, "kt") # <<>> THEN {Last(named(n, "kt"))} ELSE {}
        fit == {n \in 1..Len(e.raw.segs) : chosen(n) \ {e.file} # {}}
    IN  IF IsWildcard(e) \/ fit = {} THEN {} ELSE chosen(Max(fit))

RustTarget(h, e) ==
    IF e.raw.segs[1] \notin DOMAIN Workspace.crates THEN {}
    ELSE LET src == Workspace.crates[e.raw.segs[1]]
         IN  First(Present(h) \ {e.file},
                   Each(LongestFirst(Tail(e.raw.segs)), LAMBDA m : Product(<<src>>, <<m, Append(m, "mod")>>, "rs"))
                     \o Product(<<src>>, <<<<"lib">>, <<"main">>>>, "rs"))

TSPackageTarget(h, e) ==
    IF e.raw.at # "name" \/ e.raw.segs[1] \notin DOMAIN Workspace.tsPackages THEN {}
    ELSE LET dir == Workspace.tsPackages[e.raw.segs[1]]
             sub == IF Len(e.raw.segs) = 1 THEN <<"index">> ELSE Tail(e.raw.segs)
             at  == <<Append(dir, "src") \o sub, dir \o sub>>
         IN  scriptFile(Present(h), at, e.raw, IF Len(e.raw.segs) = 1 THEN <<>> ELSE at)

\* The nearest configuration above the file, its longest alias, its targets
\* in order until one is another file.
TSAliasTarget(h, e) ==
    LET above == {c \in Workspace.aliases : IsPrefix(c.dir, e.file.dir)}
        near  == {c \in above : \A d \in above : Len(d.dir) <= Len(c.dir)}
        fit   == {a \in UNION {c.aliases : c \in near} : IsPrefix(a.prefix, e.raw.segs)}
        best  == {a \in fit : \A b \in fit : Len(b.prefix) <= Len(a.prefix)}
        Tried(a) == LET base(i) == a.targets[i] \o SubSeq(e.raw.segs, Len(a.prefix) + 1, Len(e.raw.segs))
                        ok == {i \in DOMAIN a.targets :
                                 scriptFile(Present(h), <<base(i)>>, e.raw, <<base(i)>>) \ {e.file} # {}}
                    IN  IF ok = {} THEN {}
                        ELSE LET i == CHOOSE i \in ok : \A j \in ok : i <= j
                             IN  scriptFile(Present(h), <<base(i)>>, e.raw, <<base(i)>>)
    IN  IF e.raw.at # "name" THEN {} ELSE UNION {Tried(a) : a \in best}

PHPTarget(h, order, e) ==
    IF Len(e.raw.segs) < 2 THEN {}
    ELSE firstOther(SelectSeq(NamespaceFiles(h, order, Front(e.raw.segs)),
                              LAMBDA p : LangOf(p) = "php" /\ p.stem = Last(e.raw.segs)), e.file)

DartTarget(h, e) ==
    IF e.raw.at # "package" \/ Len(e.raw.segs) < 2 \/ e.raw.segs[1] \notin DOMAIN Workspace.dartPackages THEN {}
    ELSE First(Present(h), <<PathAt(Append(Workspace.dartPackages[e.raw.segs[1]], "lib") \o Tail(e.raw.segs), e.raw.ext)>>)

ImportTarget(h, byPath, order, e) ==
    LET lang == LangOf(e.file) IN
    CASE lang \in {"java", "kotlin"} -> JVMTarget(h, byPath, e)
      [] lang = "rust" -> RustTarget(h, e)
      [] lang \in ScriptLangs ->
            IF TSPackageTarget(h, e) \ {e.file} # {} THEN TSPackageTarget(h, e) ELSE TSAliasTarget(h, e)
      [] lang = "php"  -> PHPTarget(h, order, e)
      [] lang = "dart" -> DartTarget(h, e)
      [] OTHER -> {}

-----------------------------------------------------------------------------
(* Resolve. *)

\* One pass: point the unresolved edges of these kinds at the file found, if
\* it is another file.
Pass(l, kinds, Target(_)) ==
    [e \in DOMAIN l |->
        IF l[e] # Unresolved \/ e.kind \notin kinds \/ Target(e) \ {e.file} = {} THEN l[e]
        ELSE File(CHOOSE p \in Target(e) : TRUE)]

\* A bug in ResetResolution: only the edges of replaced rows start unresolved.
ReplacedReset(old, oldPkg) == [link |-> old, pkg |-> {}]

ResetResolution(old, oldPkg) == [link |-> [e \in DOMAIN old |-> Unresolved], pkg |-> {}]

DeleteUnresolvedEdges(l, kind) ==
    [e \in {e \in DOMAIN l : e.kind # kind \/ l[e] # Unresolved} |-> l[e]]

ResourcePass(h, order, l) ==
    [e \in DOMAIN l |->
        IF l[e] # Unresolved \/ e.kind \notin {"uses_resource", "declares_resource"}
           \/ Declaring(h, order, e.raw.segs) = <<>> THEN l[e]
        ELSE Declaration(Declaring(h, order, e.raw.segs)[1], e.raw.segs)]

\* Packages and namespaces: the import is marked, its files get an edge each.
PackagePass(h, order, state) ==
    LET open == {e \in DOMAIN state.link : state.link[e] = Unresolved /\ e.kind = "includes"}
    IN  [link |-> [e \in DOMAIN state.link |->
                     IF e \in open /\ Fanout(h, order, e) # {} THEN Package ELSE state.link[e]],
         pkg  |-> state.pkg \cup UNION {{<<e.file, p>> : p \in (Fanout(h, order, e) \cup Wildcard(h, e)) \ {e.file}}
                                          : e \in open}]

Resolve(h, byPath, order, old, oldPkg) ==
    LET reset == ResetResolution(old, oldPkg)
        files == Present(h)
        paths == Pass(reset.link, {"includes", "references"},
                      LAMBDA e : resolvePath(files, e.file, e.raw))
        execs == Pass(paths, {"execs", "binds", "autostarts"},
                      LAMBDA e : resolveCommandTarget(files, e.file, e.words))
        named == ResourcePass(h, order, execs)
        parts == DeleteUnresolvedEdges(
                   Pass(named, {"instantiates"},
                        LAMBDA e : resolveQMLComponent(h, byPath, e.file, e.raw.segs)), "instantiates")
        types == DeleteUnresolvedEdges(
                   Pass(parts, {"uses"},
                        LAMBDA e : IF LangOf(e.file) = "qml" THEN resolveQMLComponent(h, byPath, e.file, e.raw.segs)
                                   ELSE firstOther(swiftTypeIndex(h, byPath, e.raw.segs), e.file)), "uses")
        packages == PackagePass(h, order, [link |-> types, pkg |-> reset.pkg])
    IN  [link |-> Pass(packages.link, {"includes"}, LAMBDA e : ImportTarget(h, byPath, order, e)),
         pkg  |-> packages.pkg]

-----------------------------------------------------------------------------
Empty == [p \in {} |-> Gone]

Init ==
    /\ project \in Projects
    /\ disk \in [Range(project) -> Texts \cup {Gone}]
    /\ hash = [p \in Range(project) |-> Gone]
    /\ rows = <<>> /\ edges = {} /\ link = Empty /\ pkg = {}

Edit(p, text) ==
    /\ disk[p] # text
    /\ disk' = [disk EXCEPT ![p] = text]
    /\ UNCHANGED <<project, hash, rows, edges, link, pkg>>

\* Changed files are parsed and their rows replaced in the order of the walk,
\* vanished ones deleted with their rows; the rest keep theirs.
Refresh ==
    LET changed == {p \in DOMAIN disk : disk[p] \notin {Gone, hash[p]}}
        kept    == {p \in DOMAIN disk : hash[p] # Gone /\ disk[p] = hash[p]}
        stored  == {e \in edges : e.file \in kept} \cup UNION {RefsOf(p, disk[p]) : p \in changed}
        order   == SelectSeq(rows, LAMBDA p : p \in kept) \o SelectSeq(project, LAMBDA p : p \in changed)
        after   == Resolve(disk, project, order,
                           [e \in stored |-> IF e \in edges /\ e.file \in kept THEN link[e] ELSE Unresolved],
                           {d \in pkg : d[1] \in kept})
    IN  /\ disk # hash
        /\ hash' = disk
        /\ rows' = order
        /\ edges' = DOMAIN after.link /\ link' = after.link /\ pkg' = after.pkg
        /\ UNCHANGED <<project, disk>>

Next == Refresh \/ \E p \in DOMAIN disk, text \in Texts \cup {Gone} : Edit(p, text)

Spec == Init /\ [][Next]_graphVars

-----------------------------------------------------------------------------
(* The graph an index built from nothing out of the same texts would have.  *)
Fresh ==
    LET all == UNION {RefsOf(p, hash[p]) : p \in Present(hash)}
    IN  Resolve(hash, project, SelectSeq(project, LAMBDA p : hash[p] # Gone),
                [e \in all |-> Unresolved], {})

\* A name that several files declare goes to the row inserted first, which
\* an incremental refresh changes.
Contested(e) ==
    \/ Len(Declaring(hash, rows, e.raw.segs)) > 1
    \/ LangOf(e.file) = "php" /\ Len(NamespaceFiles(hash, rows, Front(e.raw.segs))) > 1

\* Incremental refreshing is exact: every stored reference resolves as in an
\* index built from nothing, the package edges are the same, and no other
\* reference is missing than the component and type references that once
\* named nothing.  (Pass 4's deletion is what the exception is about.)
IncrementalIsExact ==
    LET fresh == Fresh IN
    /\ pkg = fresh.pkg
    /\ \A e \in edges : e \in DOMAIN fresh.link /\ (link[e] = fresh.link[e] \/ Contested(e))
    /\ \A e \in DOMAIN fresh.link \ edges : e.kind \in {"instantiates", "uses"}

\* "Resolution is global and idempotent: it re-resolves the whole edge set
\* each run, so incremental re-parsing of changed files stays correct"
\* (resolve.go:3).
ResolutionComplete == DOMAIN Fresh.link \subseteq edges
=============================================================================
