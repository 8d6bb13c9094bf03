------------------------------- MODULE MCIndex -------------------------------
(***************************************************************************)
(* One index as its refreshes and as its embedding passes see it.  A pass   *)
(* holds the refresh lock from its first statement to its last, which       *)
(* IndexGeneration shows to be exclusive, so each is explored with the      *)
(* other at rest.  Processes 1 and 2 run the models "m" and "n".  The graph *)
(* that a refresh derives is explored apart, over small projects, one for   *)
(* each way a reference finds its file, with texts that make files appear,  *)
(* vanish, come back and change what they declare.                          *)
(***************************************************************************)
EXTENDS MCIndexGeneration, VectorBacklog, Sequences

VARIABLES project, texts, hash, rows, edges, link, pkg,
          which   \* the part this behaviour explores

In(dir, stem, ext) == [dir |-> dir, stem |-> stem, ext |-> ext]

To(at, up, segs, ext, dotted) == [at |-> at, up |-> up, segs |-> segs, ext |-> ext, dotted |-> dotted]
Bare(name)    == To("name", 0, <<name>>, "", FALSE)
Import(segs)  == To("name", 0, segs, "", TRUE)
Ref(kind, raw) == [kind |-> kind, raw |-> raw, words |-> <<>>]
Command(words) == [kind |-> "execs", raw |-> words[1], words |-> words]
Says(refs, decls) == [refs |-> refs, decls |-> {[kind |-> d[1], name |-> d[2]] : d \in decls}]
Nothing == Says({}, {})

\* The two texts of every file.
Parses ==
    \* two components of one name, used from beside one of them, and a colour
    In(<<"ui">>, "Main", "qml") :>
        <<Says({Ref("instantiates", Bare("Button")), Ref("uses_resource", Bare("accent"))}, {}), Nothing>>
 @@ In(<<"ui">>, "Button", "qml") :> <<Says({}, {<<"color", <<"accent">>>>}), Nothing>>
 @@ In(<<"lib">>, "Button", "qml") :>
        <<Says({Ref("declares_resource", Bare("accent"))}, {<<"color", <<"accent">>>>}), Nothing>>
    \* a type declared here or there
 @@ In(<<>>, "App", "swift")   :> <<Says({Ref("uses", Bare("Card"))}, {}), Says({}, {<<"class", <<"Card">>>>})>>
 @@ In(<<>>, "Model", "swift") :> <<Says({}, {<<"struct", <<"Card">>>>}), Nothing>>
    \* a package of two files and its test
 @@ In(<<>>, "main", "go") :> <<Says({Ref("includes", To("module", 0, <<"store">>, "", TRUE))}, {}), Nothing>>
 @@ In(<<"store">>, "db", "go")      :> <<Nothing, Nothing>>
 @@ In(<<"store">>, "db_test", "go") :> <<Says({Ref("includes", To("module", 0, <<"store">>, "", TRUE))}, {}), Nothing>>
    \* a namespace that moves between files
 @@ In(<<>>, "Program", "cs") :> <<Says({Ref("includes", Import(<<"Shop", "Cart">>))}, {}), Nothing>>
 @@ In(<<>>, "Cart", "cs")    :> <<Says({}, {<<"namespace", <<"Shop", "Cart">>>>}), Nothing>>
 @@ In(<<>>, "Total", "cs")   :> <<Says({Ref("includes", Import(<<"Shop", "Cart">>))},
                                        {<<"namespace", <<"Shop", "Cart">>>>}), Nothing>>
    \* an enclosing class in Java or Kotlin, and a wildcard
 @@ In(<<"app", "src", "main", "java", "com">>, "Use", "java") :>
        <<Says({Ref("includes", Import(<<"com", "Outer", "Inner">>))}, {}),
          Says({Ref("includes", Import(<<"com", "*">>))}, {})>>
 @@ In(<<"core", "src", "main", "kotlin", "com">>, "Outer", "kt") :> <<Nothing, Nothing>>
 @@ In(<<"core", "src", "main", "java", "com">>, "Outer", "java") :> <<Nothing, Nothing>>
    \* crates
 @@ In(<<"cli", "src">>, "main", "rs") :>
        <<Says({Ref("includes", Import(<<"core", "model", "Item">>))}, {}),
          Says({Ref("includes", To("mod", 0, <<"model">>, "", TRUE)),
                Ref("includes", To("crate", 0, <<"model", "Item">>, "", TRUE))}, {})>>
 @@ In(<<"core", "src">>, "lib", "rs")   :> <<Nothing, Nothing>>
 @@ In(<<"core", "src", "model">>, "mod", "rs") :> <<Nothing, Nothing>>
 @@ In(<<"cli", "src">>, "model", "rs")  :> <<Nothing, Nothing>>
    \* a workspace package, an alias and a relative import
 @@ In(<<"web">>, "page", "ts") :>
        <<Says({Ref("includes", To("name", 0, <<"@shop/kit", "cart">>, "", FALSE)),
                Ref("includes", To("name", 0, <<"@", "cart">>, "", FALSE))}, {}),
          Says({Ref("includes", To("here", 1, <<"kit", "src", "cart">>, "js", FALSE))}, {})>>
 @@ In(<<"kit", "src">>, "cart", "ts")          :> <<Nothing, Nothing>>
 @@ In(<<"web", "src", "cart">>, "index", "ts") :> <<Nothing, Nothing>>
    \* a class of a PHP namespace, a Dart package, Python modules
 @@ In(<<"a">>, "Cart", "php") :> <<Says({}, {<<"namespace", <<"Shop">>>>}), Nothing>>
 @@ In(<<"b">>, "Cart", "php") :> <<Says({}, {<<"namespace", <<"Shop">>>>}), Nothing>>
 @@ In(<<>>, "index", "php")   :> <<Says({Ref("includes", Import(<<"Shop", "Cart">>))}, {}), Nothing>>
 @@ In(<<"lib">>, "app", "dart") :> <<Says({Ref("includes", To("package", 0, <<"shop", "cart">>, "dart", FALSE))}, {}), Nothing>>
 @@ In(<<"lib">>, "cart", "dart") :> <<Nothing, Nothing>>
 @@ In(<<"pkg", "sub">>, "use", "py") :>
        <<Says({Ref("includes", To("dots", 2, <<"cart">>, "", TRUE))}, {}),
          Says({Ref("includes", Import(<<"cart">>))}, {})>>
 @@ In(<<"pkg", "cart">>, "__init__", "py") :> <<Nothing, Nothing>>
 @@ In(<<"src">>, "cart", "py") :> <<Nothing, Nothing>>
    \* a command by its base name, a script by its path, a file by its suffix
 @@ In(<<"hypr">>, "keys", "conf") :>
        <<Says({Command(<<To("name", 0, <<"lock">>, "sh", FALSE)>>)}, {}),
          Says({Command(<<Bare("bash"), To("home", 0, <<"bin", "lock">>, "sh", FALSE)>>),
                Ref("references", To("config", 0, <<"bin", "lock">>, "sh", FALSE))}, {})>>
 @@ In(<<"bin">>, "lock", "sh")      :> <<Nothing, Nothing>>
 @@ In(<<"old", "bin">>, "lock", "sh") :> <<Nothing, Nothing>>

GraphProjects ==
    {<<In(<<"lib">>, "Button", "qml"), In(<<"ui">>, "Button", "qml"), In(<<"ui">>, "Main", "qml")>>,
     <<In(<<>>, "App", "swift"), In(<<>>, "Model", "swift")>>,
     <<In(<<>>, "main", "go"), In(<<"store">>, "db", "go"), In(<<"store">>, "db_test", "go")>>,
     <<In(<<>>, "Cart", "cs"), In(<<>>, "Program", "cs"), In(<<>>, "Total", "cs")>>,
     <<In(<<"app", "src", "main", "java", "com">>, "Use", "java"),
       In(<<"core", "src", "main", "java", "com">>, "Outer", "java"),
       In(<<"core", "src", "main", "kotlin", "com">>, "Outer", "kt")>>,
     <<In(<<"cli", "src">>, "main", "rs"), In(<<"cli", "src">>, "model", "rs"),
       In(<<"core", "src">>, "lib", "rs"), In(<<"core", "src", "model">>, "mod", "rs")>>,
     <<In(<<"kit", "src">>, "cart", "ts"), In(<<"web">>, "page", "ts"), In(<<"web", "src", "cart">>, "index", "ts")>>,
     <<In(<<"a">>, "Cart", "php"), In(<<"b">>, "Cart", "php"), In(<<>>, "index", "php")>>,
     <<In(<<"lib">>, "app", "dart"), In(<<"lib">>, "cart", "dart")>>,
     <<In(<<"pkg", "cart">>, "__init__", "py"), In(<<"pkg", "sub">>, "use", "py"), In(<<"src">>, "cart", "py")>>,
     <<In(<<"bin">>, "lock", "sh"), In(<<"hypr">>, "keys", "conf"), In(<<"old", "bin">>, "lock", "sh")>>}

GraphWorkspace ==
    [crates       |-> "core" :> <<"core", "src">>,
     tsPackages   |-> "@shop/kit" :> <<"kit">>,
     dartPackages |-> "shop" :> <<>>,
     aliases      |-> {[dir |-> <<>>, aliases |-> {}],
                       [dir |-> <<"web">>, aliases |-> {[prefix |-> <<"@">>,
                           targets |-> <<<<"web", "gen">>, <<"web", "src">>>>]}]}]

\* Processes 1 and 2.
MCModelOf == <<"m", "n">>

Graph == INSTANCE GraphResolution WITH
    Projects <- GraphProjects \cup {<<>>}, Texts <- {1, 2}, Parse <- Parses,
    Tests <- {"db_test"}, Workspace <- GraphWorkspace, disk <- texts

graphVars == <<project, texts, hash, rows, edges, link, pkg>>

IndexInit ==
    /\ Init /\ BacklogInit /\ Graph!Init
    /\ \/ which = "refresh"
       \/ which = "embed"
       \/ which = "graph"
    /\ which # "refresh" => db = Unindexed /\ \A f \in Files : tree[f].content = Gone
    /\ (which = "graph") = (project # <<>>)

IndexNext ==
    /\ \/ which = "refresh" /\ Next /\ UNCHANGED <<backlogVars, graphVars>>
       \/ which = "embed" /\ BacklogNext /\ UNCHANGED <<vars, graphVars>>
       \/ which = "graph" /\ Graph!Next /\ UNCHANGED <<vars, backlogVars>>
    /\ UNCHANGED which

IndexSpec == IndexInit /\ [][IndexNext]_<<vars, backlogVars, graphVars, which>>

IncrementalIsExact == Graph!IncrementalIsExact
ResolutionComplete == Graph!ResolutionComplete
=============================================================================
