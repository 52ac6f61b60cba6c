-------------------------------- MODULE MCGates --------------------------------
(***************************************************************************)
(* The walks of CheckEvaluation, and the runs of eval-quality-gates in     *)
(* each of the worlds below: for each gate one in which it passes and what *)
(* departs from that in one place.  A behaviour is of one or the other.    *)
(***************************************************************************)
EXTENDS CheckEvaluation, Gates

Tok(text) == [text |-> text, inline |-> <<>>]

Stated(value) == [text |-> "--config", inline |-> <<value>>]

(* What a command line may hold after the gate.                            *)
MCTails == <<
    <<Tok("--config"), Tok("own.json")>>,
    <<Stated("own.json"), Tok("--config"), Tok("own.json")>>,
    <<Stated("own.json"), Stated("eval-quality.config.json")>>,
    <<Tok("--config")>>, <<Tok("--config"), Tok("-x")>>, <<Stated("")>>, <<Tok("own.json")>>,
    <<Stated("other.json")>>, <<Stated("own.json"), Tok("--help")>> >>

MCHeads == << <<>>, <<Tok("-h")>>, <<Tok("help")>>, <<Stated("own.json")>>, <<Tok("unknown")>> >>

NoFile == [p \in {} |-> {}]

NoTree == [files |-> NoFile, dirs |-> {<<>>}, links |-> {}, closed |-> {}]

(* A world in which there is the configuration of one gate and nothing else *)
World(for, rules) ==
    [argv |-> <<Tok(for)>>, configs |-> DefaultConfig :> (for :> rules), locks |-> NoFile,
     caches |-> NoFile, markers |-> {}, family |-> NoFile, now |-> 10, scanner |-> TRUE,
     tree |-> NoTree, manifest |-> <<>>]

-----------------------------------------------------------------------------
(* lockfile-age: two lockfiles that share a package; one more version of   *)
(* it that the cache has; a package under an exclusion in one of them.     *)
Entry(name, version) ==
    [name |-> name, version |-> version, root |-> FALSE, link |-> FALSE,
     resolved |-> <<name, version>>, declared |-> TRUE, ways |-> {{"mit"}}, optional |-> FALSE]

Locked(entries) == [shaped |-> TRUE, holed |-> FALSE, entries |-> entries]

Row(key, lockfiles) == [key |-> key, lockfiles |-> lockfiles]

AgeRules ==
    [lockfiles |-> <<"a", "b">>, window |-> 7, cache |-> <<"times">>, rows |-> <<Row("new", <<"b">>)>>]

Root == [Entry("self", "1") EXCEPT !.root = TRUE, !.resolved = <<>>]

Link == [Entry("work", "") EXCEPT !.link = TRUE, !.resolved = <<>>]

AgeLocks ==
    "a" :> Locked(<<Root, Entry("dep", "1"), Entry("dep", "2"), Entry("lib", "1"), Link>>)
    @@ "b" :> Locked(<<Entry("dep", "1"), Entry("new", "3")>>)

Aging ==
    [World("lockfile-age", AgeRules) EXCEPT
        !.locks = AgeLocks,
        !.caches = "times" :> [sound |-> TRUE, times |-> <<"dep", "2">> :> 3]]

AgeDepartures == <<
    [Aging EXCEPT !.caches["times"].sound = FALSE],
    [Aging EXCEPT !.caches = NoFile],
    [Aging EXCEPT !.caches["times"].times = <<"dep", "1">> :> 1 @@ <<"dep", "2">> :> 2 @@ <<"lib", "1">> :> 3],
    [Aging EXCEPT !.caches["times"].times = <<"dep", "1">> :> 1 @@ <<"dep", "2">> :> 4 @@ <<"lib", "1">> :> 3],
    [Aging EXCEPT !.locks = "a" :> AgeLocks["a"]],
    [Aging EXCEPT !.locks["b"].shaped = FALSE],
    [Aging EXCEPT !.locks["b"].holed = TRUE],
    [Aging EXCEPT !.locks["b"].entries[2].name = "dep"],
    [Aging EXCEPT !.locks["b"].entries[2].resolved = <<"other", "3">>],
    [Aging EXCEPT !.locks["a"].entries[4].resolved = <<"lib", "2">>] >>

AgeSections == <<
    [AgeRules EXCEPT !.cache = <<>>],
    [AgeRules EXCEPT !.window = 0],
    [AgeRules EXCEPT !.lockfiles = <<>>],
    [AgeRules EXCEPT !.rows = <<Row("new", <<"a", "b">>)>>],
    [AgeRules EXCEPT !.rows = <<Row("new", <<"b">>), Row("new", <<"b">>)>>],
    [AgeRules EXCEPT !.rows = <<Row("new", <<"b">>), Row("dep", <<"a">>)>>],
    [AgeRules EXCEPT !.rows = <<Row("new", <<"c">>)>>] >>

With(world0, for, sections) ==
    [i \in DOMAIN sections |-> [world0 EXCEPT !.configs[DefaultConfig][for] = sections[i]]]

(* What the registry says of a package, of whatever version it is asked.   *)
MCReplies == {NoFile, "1" :> 3 @@ "3" :> 3, "1" :> 4, "1" :> Garbled}

-----------------------------------------------------------------------------
(* licences: an entry that the list allows, one that one lockfile allows   *)
(* besides, one that is tolerated and one that is read by evidence.        *)
LicenceRules ==
    [lockfiles |-> <<"a", "b">>, allowlist |-> {"mit", "isc"}, also |-> "b" :> {"mpl"},
     tolerances |-> <<[lockfiles |-> {"a"}, prefix |-> "img-", license |-> "lgpl",
                       optional |-> TRUE, marker |-> <<"pinned">>]>>,
     rows |-> <<[key |-> "old", readAs |-> "isc", lockfiles |-> <<"a">>]>>]

Under(entry, ways) == [entry EXCEPT !.ways = ways]

Silent(entry) == [entry EXCEPT !.declared = FALSE, !.ways = {}]

Image == [Under(Entry("img-x", "1"), {{"mit", "lgpl"}}) EXCEPT !.optional = TRUE]

Licensing ==
    [World("licences", LicenceRules) EXCEPT
        !.locks = "a" :> Locked(<<Root, Under(Entry("dep", "1"), {{"gpl"}, {"mit", "isc"}}),
                                  Image, Silent(Entry("old", "1")), Link>>)
                  @@ "b" :> Locked(<<Under(Entry("dep", "2"), {{"mpl"}})>>),
        !.markers = {"pinned"},
        !.family = "img-" :> {"img-x"} @@ "old" :> {"old", "old-new"}]

Third(entry) == [Licensing EXCEPT !.locks["a"].entries[3] = entry]

LicenceDepartures == <<
    [Licensing EXCEPT !.markers = {}],
    Third([Image EXCEPT !.optional = FALSE]), Third(Under(Image, {{"lgpl", "agpl"}})),
    Third(Under(Image, {})), Third([Image EXCEPT !.resolved = <<"img-x", "2">>]),
    Third(Silent(Image)), Third(Silent(Entry("old-new", "1"))),
    [Licensing EXCEPT !.locks["a"].entries[4] = Entry("old", "1")],
    [Licensing EXCEPT !.locks["a"].entries[4].resolved = <<"other", "1">>],
    [Licensing EXCEPT !.locks["a"].entries[2].ways = {{"mpl"}}],
    [Licensing EXCEPT !.locks["b"].entries[1].ways = {{"gpl"}}],
    [Licensing EXCEPT !.locks["b"].entries[1].ways = {{"gpl"}}, !.locks["a"].entries[4] = Entry("old", "1")],
    [Licensing EXCEPT !.locks["b"].entries[1].ways = {{"gpl"}}, !.locks["a"].shaped = FALSE] >>

LicenceSections == <<
    [LicenceRules EXCEPT !.rows[1].readAs = "mpl"],
    [LicenceRules EXCEPT !.rows = Append(@, [@[1] EXCEPT !.readAs = "gpl"])],
    [LicenceRules EXCEPT !.rows = Append(@, [@[1] EXCEPT !.key = "img-"])],
    [LicenceRules EXCEPT !.also = "c" :> {"mpl"}],
    [LicenceRules EXCEPT !.tolerances[1].lockfiles = {"c"}],
    [LicenceRules EXCEPT !.tolerances[1].marker = <<>>],
    [LicenceRules EXCEPT !.allowlist = {}] >>

-----------------------------------------------------------------------------
(* The three gates over one tree of src/core and src/app.                  *)
Src == <<"src">>

Core == <<"src", "core">>

App == <<"src", "app">>

CoreA == <<"src", "core", "a.ts">>

CoreIndex == <<"src", "core", "index.ts">>

Main == <<"src", "app", "main.ts">>

Dep(form, up, down) ==
    [form |-> form, relative |-> TRUE, up |-> up, down |-> down, module |-> "", binds |-> ""]

External(form, module, binds) ==
    [form |-> form, relative |-> FALSE, up |-> 0, down |-> <<>>, module |-> module, binds |-> binds]

Line(comment, words) == [comment |-> comment, words |-> words]

Mark(name, as) == [name |-> name, as |-> as]

File(stem, deps, lines, marks) ==
    [stem |-> stem, ext |-> ".ts", shut |-> FALSE, garbled |-> FALSE,
     deps |-> deps, uses |-> {}, lines |-> lines, marks |-> marks]

MCTree ==
    [files |->
        CoreA :> File(<<"src", "core", "a">>, {External("import", "zod", "")},
                      <<Line(TRUE, <<"one">>), Line(FALSE, <<"x">>), Line(FALSE, <<"y">>)>>,
                      {Mark("chain", "assigns"), Mark("edits", "mints")})
        @@ CoreIndex :> File(<<"src", "core", "index">>, {Dep("import", 0, <<"a">>)},
                             <<Line(TRUE, <<"one">>), Line(TRUE, <<"two">>)>>, {Mark("chain", "reads")})
        @@ Main :> [File(<<"src", "app", "main">>,
                         {Dep("export", 1, <<"core">>), Dep("dynamic", 1, <<"core", "a.ts">>),
                          External("import", "node:fs", "readFile"), External("library", "dom", "")},
                         <<Line(FALSE, <<"two">>)>>, {}) EXCEPT !.uses = {"Date"}],
     dirs |-> {<<>>, Src, Core, App}, links |-> {}, closed |-> {}]

Layer(name, match, path, imports, policy, modules) ==
    [name |-> name, match |-> match, path |-> path, imports |-> imports,
     policy |-> policy, modules |-> modules]

DirectionRules ==
    [roots |-> <<[path |-> Src, extensions |-> <<".ts">>]>>,
     layers |-> <<Layer("core", "prefix", Core, {"core"}, "allow", {"zod"}),
                  Layer("main", "exact", Main, {"core"}, "deny", {}),
                  Layer("rest", "prefix", Src, {}, "unrestricted", {})>>,
     exemptions |-> <<[file |-> Main, module |-> "node:fs", binding |-> "readFile"]>>,
     pure |-> {"core"}, banned |-> {"Date"}, commonjs |-> "forbid", reportOnly |-> FALSE]

Directing == [World("dependency-direction", DirectionRules) EXCEPT !.tree = MCTree]

Planted(world0, path, dep) == [world0 EXCEPT !.tree.files[path].deps = @ \cup {dep}]

Also(world0, path, file) == [world0 EXCEPT !.tree.files = path :> file @@ @]

OneFile == [NoTree EXCEPT !.files = Src :> MCTree.files[CoreA]]

(* A link is among the directories when it leads to one.                   *)
TreeDepartures(world0) == <<
    [world0 EXCEPT !.scanner = FALSE],
    [world0 EXCEPT !.tree = NoTree],
    [world0 EXCEPT !.tree = OneFile],
    [world0 EXCEPT !.tree.links = {<<"src", "core", "link">>}],
    [world0 EXCEPT !.tree.links = {Src}],
    [world0 EXCEPT !.tree.links = {Core}],
    [world0 EXCEPT !.tree = [NoTree EXCEPT !.links = {Src}]],
    [world0 EXCEPT !.tree.closed = {App}],
    [world0 EXCEPT !.tree.files[CoreA].shut = TRUE],
    [world0 EXCEPT !.tree.files[CoreA].garbled = TRUE],
    [world0 EXCEPT !.tree.files = NoFile] >>

DirectionDepartures == <<
    [Directing EXCEPT !.tree.files[CoreA].uses = {"Date"}],
    Planted(Directing, CoreA, Dep("import", 1, <<"app", "main">>)),
    [Planted(Directing, CoreA, Dep("import", 1, <<"app", "main">>)) EXCEPT !.tree.links = {Src}],
    Planted(Directing, CoreA, Dep("import", 0, <<"none">>)),
    Planted(Directing, CoreA, Dep("import", 2, <<"lib", "x">>)),
    Planted(Directing, CoreA, Dep("path", 0, <<"index.ts">>)),
    Planted(Directing, CoreA, Dep("path", 1, <<"app", "main.ts">>)),
    Planted(Directing, CoreA, Dep("require", 0, <<"index">>)),
    Planted(Directing, CoreA, External("types", "node", "")),
    Planted(Directing, CoreA, External("unknown", "", "")),
    Planted(Directing, CoreA, External("unreadable", "", "")),
    Planted(Directing, CoreA, External("import", "zod/v4", "")),
    Planted(Directing, Main, External("dynamic", "node:fs", "")),
    Planted(Directing, Main, External("import", "node:fs", "")),
    Planted(Directing, Main, External("import", "zod", "z")),
    Also(Directing, <<"src", "app", "new.ts">>,
         File(<<"src", "app", "new">>, {External("import", "any", "")}, <<>>, {})),
    Also(Directing, <<"src", "app", "new.ts">>,
         File(<<"src", "app", "new">>, {Dep("import", 0, <<"main">>)}, <<>>, {})) >>

Layered(rows) == [DirectionRules EXCEPT !.layers = rows]

LayerRows == DirectionRules.layers

(* A row over the whole tree, listed before the narrower ones.             *)
Inverted ==
    Layered(<<Layer("top", "prefix", Src, {"top"}, "allow", {"zod", "node:fs"}),
              LayerRows[1], LayerRows[2]>>)

DirectionSections == <<
    [DirectionRules EXCEPT !.commonjs = "check"],
    [DirectionRules EXCEPT !.roots = <<[path |-> Core, extensions |-> <<".ts">>], @[1]>>],
    [DirectionRules EXCEPT !.roots = <<[path |-> Src, extensions |-> <<".cjs">>]>>],
    Layered(<<LayerRows[1], LayerRows[2]>>), Layered(<<LayerRows[1], LayerRows[3]>>),
    Layered(<<LayerRows[3], LayerRows[1], LayerRows[2]>>),
    Layered(<<Layer("top", "prefix", Src, {"core", "main"}, "deny", {}), LayerRows[1], LayerRows[2]>>),
    Layered(Append(LayerRows, Layer("none", "exact", Main, {}, "deny", {}))),
    Layered(Append(LayerRows, LayerRows[1])),
    [DirectionRules EXCEPT !.exemptions[1].file = CoreA],
    [DirectionRules EXCEPT !.exemptions[1].file = <<"src", "app", "new.ts">>],
    [DirectionRules EXCEPT !.pure = {"none"}] >>

Required(form, sections) ==
    With(Planted(Directing, CoreA, Dep(form, 0, <<"index">>)), "dependency-direction", sections)

Unplaced ==
    Also(Directing, <<"src", "app", "new.ts">>, File(<<"src", "app", "new">>, {}, <<>>, {}))

MCDirection ==
    << Directing >> \o TreeDepartures(Directing) \o DirectionDepartures
    \o With(Directing, "dependency-direction", DirectionSections)
    \o With(Unplaced, "dependency-direction", <<Layered(<<LayerRows[1], LayerRows[2]>>)>>)
    \o With(Planted(Directing, CoreA, Dep("import", 1, <<"app", "main">>)),
             "dependency-direction", << Inverted >>)
    \o Required("require", <<DirectionSections[1]>>)
    \o Required("computed", <<DirectionSections[1]>>)
    \o Required("alias", <<DirectionSections[1]>>)
    \o With(Planted(Directing, CoreA, Dep("import", 0, <<"none">>)), "dependency-direction",
             <<[DirectionRules EXCEPT !.reportOnly = TRUE]>>)
    \o With([Directing EXCEPT !.tree.files[CoreA].garbled = TRUE], "dependency-direction",
             <<[DirectionRules EXCEPT !.reportOnly = TRUE]>>)

-----------------------------------------------------------------------------
BoundaryRules ==
    [paths |-> <<[path |-> Core, recursive |-> FALSE, extensions |-> {".ts"}, optional |-> FALSE],
                 [path |-> <<"notes">>, recursive |-> TRUE, extensions |-> {}, optional |-> TRUE]>>,
     fields |-> {"exports"}, bound |-> 4,
     patterns |-> <<[name |-> "p", words |-> <<"two", "one">>], [name |-> "q", words |-> <<"onetwo">>]>>]

Bounding ==
    [World("package-boundary", BoundaryRules) EXCEPT
        !.tree = [MCTree EXCEPT !.files[CoreIndex].lines = <<Line(TRUE, <<"one">>)>>],
        !.manifest = << "exports" :> [null |-> FALSE, lines |-> {<<"./two">>}] >>]

Reading(lines) == [Bounding EXCEPT !.tree.files[CoreA].lines = lines]

MCBoundary ==
    << Bounding >> \o TreeDepartures(Bounding) \o <<
    Reading(<<Line(FALSE, <<"x", "two", "one">>)>>),
    Reading(<<Line(TRUE, <<"x", "two">>), Line(TRUE, <<"one">>)>>),
    Reading(<<Line(TRUE, <<"x", "one">>), Line(TRUE, <<"two">>)>>),
    Reading(<<Line(TRUE, <<"two">>), Line(FALSE, <<"one">>)>>),
    Reading(<<Line(FALSE, <<"one">>), Line(FALSE, <<"two">>)>>),
    Reading(<<Line(TRUE, <<"one", "one">>), Line(TRUE, <<"one", "one">>), Line(TRUE, <<"one">>)>>),
    [Bounding EXCEPT !.manifest = <<>>],
    [Bounding EXCEPT !.manifest = << NoFile >>],
    [Bounding EXCEPT !.manifest[1]["exports"].null = TRUE],
    [Bounding EXCEPT !.manifest[1]["exports"].lines = {<<"two", "one">>}],
    [Also(Bounding, <<"notes", "deep", "x.md">>,
          [File(<<"notes", "deep", "x">>, {}, <<Line(FALSE, <<"two", "one">>)>>, {}) EXCEPT !.ext = ".md"])
        EXCEPT !.tree.dirs = @ \cup {<<"notes">>, <<"notes", "deep">>}],
    [Bounding EXCEPT !.tree.links = {<<"notes">>}] >>
    \o With(Bounding, "package-boundary", <<
        [BoundaryRules EXCEPT !.patterns[2].name = "p"],
        [BoundaryRules EXCEPT !.patterns[2].name = "line-exceeds-scan-bound"],
        [BoundaryRules EXCEPT !.fields = {}],
        [BoundaryRules EXCEPT !.paths = <<[@[1] EXCEPT !.path = CoreA]>>],
        [BoundaryRules EXCEPT !.paths = <<[@[1] EXCEPT !.path = <<"none">>]>>] >>)

-----------------------------------------------------------------------------
OwnershipRules ==
    [paths |-> <<[path |-> Src, recursive |-> TRUE, extensions |-> {".ts"}, optional |-> FALSE]>>,
     fields |-> {"chain", "edits"}, helpers |-> {"seal"}, declared |-> {Main}, writers |-> {CoreA}]

Owning == [World("field-ownership", OwnershipRules) EXCEPT !.tree = MCTree]

Marked(path, mark) == [Owning EXCEPT !.tree.files[path].marks = @ \cup {mark}]

MCOwnership ==
    << Owning >> \o TreeDepartures(Owning) \o <<
    Marked(Main, Mark("chain", "assigns")), Marked(CoreIndex, Mark("chain", "assigns")),
    Marked(CoreIndex, Mark("edits", "mints")), Marked(CoreIndex, Mark("edits", "string")),
    Marked(CoreIndex, Mark("seal", "reads")), Marked(CoreIndex, Mark("seal", "string")),
    [Owning EXCEPT !.tree.files[CoreA].marks = {Mark("chain", "assigns"), Mark("edits", "shape")}] >>
    \o With(Owning, "field-ownership", <<
        [OwnershipRules EXCEPT !.helpers = {"chain"}],
        [OwnershipRules EXCEPT !.writers = @ \cup {<<"src", "core", "none.ts">>}],
        [OwnershipRules EXCEPT !.paths[1].extensions = {".js"}] >>)

-----------------------------------------------------------------------------
Asking(argv) ==
    [Owning EXCEPT !.argv = argv,
        !.configs = "own.json" :> ("field-ownership" :> OwnershipRules) @@ "other.json" :> NoFile]

MCWorlds ==
    << Aging >> \o AgeDepartures \o With(Aging, "lockfile-age", AgeSections)
    \o << Licensing >> \o LicenceDepartures \o With(Licensing, "licences", LicenceSections)
    \o MCDirection \o MCBoundary \o MCOwnership
    \o [i \in DOMAIN MCHeads |-> Asking(MCHeads[i])]
    \o [i \in DOMAIN MCTails |-> Asking(<<Tok("field-ownership")>> \o MCTails[i])]

-----------------------------------------------------------------------------
(* The gates run where no walk is under way: at first, or after a fault.   *)
MCInit == GatesInit /\ ((Init /\ world = Aging) \/ (stack = <<>> /\ result = Faulted))

MCNext ==
    \/ Next /\ UNCHANGED gateVars
    \/ result = Faulted /\ GatesNext /\ UNCHANGED vars

MCSpec == MCInit /\ [][MCNext]_<<vars, gateVars>>

================================================================================
