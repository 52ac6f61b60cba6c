------------------------------- MODULE TreeGates -------------------------------
(***************************************************************************)
(* The gates of eval-quality-gates that read a tree: what a scan finds     *)
(* (scanned-paths.ts, discover-source-files.ts) and what dependency-       *)
(* direction, package-boundary and field-ownership make of it.             *)
(*                                                                         *)
(* A path is the sequence of its segments.  A tree is                      *)
(*   files   for the path of each file [stem, ext, shut, garbled, deps,    *)
(*           uses, lines, marks]: the path without its extension, whether  *)
(*           it cannot be read, whether the tokenizer gives up on it       *)
(*           (token-scan.ts), and what each gate reads in it               *)
(*   dirs    the directories                                               *)
(*   links   the symbolic links                                            *)
(*   closed  the directories that cannot be listed                         *)
(* A path is the name of what the operating system finds by it: a link to  *)
(* a directory, in the repository or out of it, is among the directories   *)
(* too, what is there has its path through the link as well, and a link    *)
(* that leads nowhere is a link alone.                                     *)
(* A dependency is [form, relative, up, down, module, binds]: how it is    *)
(* written (see Statements), then how many directories up from the file    *)
(* and which segments down, or the external module; and the one name that  *)
(* its import clause binds, "" when the clause is anything else.           *)
(***************************************************************************)
EXTENDS Naturals, Sequences, FiniteSets, SequencesExt

Above(dir, path) == Len(dir) < Len(path) /\ \A i \in DOMAIN dir : path[i] = dir[i]

AtOrBelow(dir, path) == path = dir \/ Above(dir, path)

(* What of a set of paths lies in a directory, directly or at any depth.   *)
Inside(dir, paths, deep) ==
    {path \in paths : Above(dir, path) /\ (deep \/ Len(path) = Len(dir) + 1)}

-----------------------------------------------------------------------------
(* The two walks.  A scan is [fails, found]: "no", or how it failed, and   *)
(* the files that it read.                                                 *)
Failed(how) == [fails |-> how, found |-> {}]

Read(found) == [fails |-> "no", found |-> found]

(* Mutant: a link is passed over.                                          *)
LinksSkipped(tree, dir, deep) ==
    dir \in tree.closed \/ (deep /\ Inside(dir, tree.closed, deep) # {})

(* A directory or a link on the way that keeps a walk from reading on.     *)
Obstructed(tree, dir, deep) ==
    \/ dir \in tree.closed
    \/ Inside(dir, tree.links, deep) # {}
    \/ deep /\ Inside(dir, tree.closed, deep) # {}

(* discoverSourceFiles, one root of it.  A link is an error below the      *)
(* root; the root is listed as it stands, with no look at what it is, and  *)
(* a link to a directory is followed.  What cannot be listed or read is an *)
(* error, and so is a root in which nothing was read.                      *)
SourceRoot(tree, root) ==
    LET found == {path \in Inside(root.path, DOMAIN tree.files, TRUE) :
                    tree.files[path].ext \in Range(root.extensions)} IN
    IF \/ root.path \notin tree.dirs
       \/ Obstructed(tree, root.path, TRUE)
       \/ \E path \in found : tree.files[path].shut
       \/ found = {}
    THEN Failed("root") ELSE Read(found)

(* discoverEntries, one declared path of it, which may be no link itself,  *)
(* nor lie below a file.                                                   *)
DeclaredPath(tree, declared) ==
    LET path == declared.path
        found == {p \in Inside(path, DOMAIN tree.files, declared.recursive) :
                    \/ declared.extensions = {}
                    \/ tree.files[p].ext \in declared.extensions} IN
    IF path \in tree.links \/ \E p \in DOMAIN tree.files : Above(p, path)
    THEN Failed("unreadable")
    ELSE CASE path \in DOMAIN tree.files ->
                IF tree.files[path].shut THEN Failed("raw") ELSE Read({path})
           [] path \in tree.dirs ->
                IF Obstructed(tree, path, declared.recursive) THEN Failed("unreadable")
                ELSE IF \E p \in found : tree.files[p].shut THEN Failed("raw")
                ELSE IF found = {} /\ ~declared.optional THEN Failed("path")
                ELSE Read(found)
           [] OTHER -> IF declared.optional THEN Read({}) ELSE Failed("path")

-----------------------------------------------------------------------------
(* dependency-direction.  Layers are rows in an order, and the first that  *)
(* matches a path is its layer.                                            *)
Matches(layer, path) ==
    IF layer.match = "exact" THEN path = layer.path ELSE Above(layer.path, path)

Matching(layers, path) == {i \in DOMAIN layers : Matches(layers[i], path)}

Classify(layers, path) == Min(Matching(layers, path))

(* Every path that the row matches is matched by the earlier one.          *)
Swallows(earlier, layer) ==
    /\ earlier.match = "prefix"
    /\ \/ Above(earlier.path, layer.path)
       \/ layer.match = "prefix" /\ layer.path = earlier.path

(* Mutant: only a row that repeats the path of an earlier one is refused.  *)
NoPathTwice(layers) ==
    \A i \in DOMAIN layers : \A j \in 1 .. i - 1 : layers[j].path # layers[i].path

NarrowerFirst(layers) ==
    \A i \in DOMAIN layers : \A j \in 1 .. i - 1 : ~Swallows(layers[j], layers[i])

(* DependencyDirectionSection.superRefine.                                 *)
DirectionAccepted(section) ==
    LET layers == section.layers
        names == {layers[i].name : i \in DOMAIN layers} IN
    /\ \A i, j \in DOMAIN section.roots :
          i # j => ~AtOrBelow(section.roots[j].path, section.roots[i].path)
    /\ Cardinality(names) = Len(layers)
    /\ \A i \in DOMAIN layers :
          /\ \E root \in Range(section.roots) : AtOrBelow(root.path, layers[i].path)
          /\ layers[i].imports \subseteq names
    /\ NarrowerFirst(layers)
    /\ \A e \in Range(section.exemptions) :
          /\ Matching(layers, e.file) # {}
          /\ layers[Classify(layers, e.file)].policy # "unrestricted"
    /\ section.pure \subseteq names


(* resolveRelative: what a specifier denotes among the files scanned, the  *)
(* file itself before the stem with one of the extensions that any root    *)
(* reads, in their order, before an index file below it.                   *)
Joined(from, dep) == SubSeq(from, 1, Len(from) - 1 - dep.up) \o dep.down

Escapes(section, from, dep) ==
    \/ dep.up >= Len(from)
    \/ ~\E root \in Range(section.roots) : AtOrBelow(root.path, Joined(from, dep))

Spelt(section, tree, scanned, stem) ==
    LET exts == FlattenSeq([i \in DOMAIN section.roots |-> section.roots[i].extensions])
        as(ext) == {path \in scanned : tree.files[path].stem = stem /\ tree.files[path].ext = ext}
        first == SelectInSeq(exts, LAMBDA ext : as(ext) # {})
    IN IF first = 0 THEN {} ELSE as(exts[first])

Denoted(section, tree, scanned, from, dep) ==
    LET joined == Joined(from, dep)
        spelt == Spelt(section, tree, scanned, joined) IN
    CASE joined \in scanned -> {joined}
      [] joined \notin scanned /\ spelt # {} -> spelt
      [] OTHER -> Spelt(section, tree, scanned, joined \o <<"index">>)

(* handleRelative: fails closed on what resolves to no scanned file, and   *)
(* on a file of no layer; no layer may import itself unless it says so.    *)
RelativeBreaks(section, tree, scanned, from, dep) ==
    \/ Escapes(section, from, dep)
    \/ LET to == Denoted(section, tree, scanned, from, dep) IN
       \/ to = {}
       \/ \E path \in to :
            \/ Matching(section.layers, path) = {}
            \/ section.layers[Classify(section.layers, path)].name
                   \notin section.layers[Classify(section.layers, from)].imports

(* checkExternalSpecifier: an exemption opens a static import of the one   *)
(* binding, and closes every other way to the module.                      *)
ExternalBreaks(section, from, dep) ==
    LET layer == section.layers[Classify(section.layers, from)]
        exempt == {i \in DOMAIN section.exemptions :
                     /\ section.exemptions[i].file = from
                     /\ section.exemptions[i].module = dep.module} IN
    /\ layer.policy # "unrestricted"
    /\ IF exempt # {}
       THEN ~(dep.form = "import" /\ dep.binds = section.exemptions[Min(exempt)].binding)
       ELSE ~(layer.policy = "allow" /\ dep.module \in layer.modules)

(* How a dependency is written.  A statement: "import", "export" (with a   *)
(* `from`), "dynamic", or "unreadable" when its specifier is no literal or *)
(* is not found.  A CommonJS form: "require" with a literal, "computed"    *)
(* without, "alias" for import-equals; a member or method that is named    *)
(* require is none.  A reference directive: "path", "types", "library" or  *)
(* "unknown".                                                              *)
Statements == {"import", "export", "dynamic", "unreadable"}

CommonJs == {"require", "computed", "alias"}

SpecifierBreaks(section, tree, scanned, from, dep) ==
    IF dep.relative THEN RelativeBreaks(section, tree, scanned, from, dep)
    ELSE ExternalBreaks(section, from, dep)

StatementBreaks(section, tree, scanned, from, dep) ==
    \/ dep.form = "unreadable"
    \/ SpecifierBreaks(section, tree, scanned, from, dep)

(* An alias is no edge of its own: the require that it goes with is.       *)
CommonJsBreaks(section, tree, scanned, from, dep) ==
    \/ section.commonjs = "forbid"
    \/ dep.form = "computed"
    \/ dep.form = "require" /\ SpecifierBreaks(section, tree, scanned, from, dep)

(* A library is no edge in any graph; a path is relative however written.  *)
ReferenceBreaks(section, tree, scanned, from, dep) ==
    CASE dep.form = "path" -> RelativeBreaks(section, tree, scanned, from, dep)
      [] dep.form = "types" -> ExternalBreaks(section, from, dep)
      [] OTHER -> dep.form # "library"

DependencyBreaks(section, tree, scanned, from, dep) ==
    CASE dep.form \in Statements -> StatementBreaks(section, tree, scanned, from, dep)
      [] dep.form \in CommonJs -> CommonJsBreaks(section, tree, scanned, from, dep)
      [] OTHER -> ReferenceBreaks(section, tree, scanned, from, dep)

(* scanFile: fails closed on a file of no layer, which it reads no         *)
(* further.  `uses` are await, async functions, new Date and the listed    *)
(* members that the file holds.                                            *)
DirectionBreaks(section, tree, scanned, path) ==
    \/ Matching(section.layers, path) = {}
    \/ \E dep \in tree.files[path].deps : DependencyBreaks(section, tree, scanned, path, dep)
    \/ /\ section.layers[Classify(section.layers, path)].name \in section.pure
       /\ tree.files[path].uses \cap section.banned # {}

-----------------------------------------------------------------------------
(* package-boundary.  A line is [comment, words].  The lines of a run of   *)
(* comment lines are one logical line, joined once with spaces and once    *)
(* with nothing, where the last word of a line runs into the first of the  *)
(* next.  Every other line stands alone.                                   *)
Runs(lines) ==
    {run \in (DOMAIN lines) \X (DOMAIN lines) :
        LET i == run[1]  j == run[2] IN
        \/ i = j /\ ~lines[i].comment
        \/ /\ i <= j /\ \A k \in i .. j : lines[k].comment
           /\ i - 1 \in DOMAIN lines => ~lines[i - 1].comment
           /\ j + 1 \in DOMAIN lines => ~lines[j + 1].comment}

Abuts(text, more) ==
    IF text = <<>> \/ more = <<>> THEN text \o more
    ELSE Front(text) \o <<Last(text) \o Head(more)>> \o Tail(more)

Occurs(words, text) ==
    \E i \in 0 .. Len(text) - Len(words) : words = SubSeq(text, i + 1, i + Len(words))

(* A violation is reported under the name of its pattern.                  *)
BoundaryAccepted(section) ==
    LET names == {p.name : p \in Range(section.patterns)} IN
    Cardinality(names) = Len(section.patterns) /\ "line-exceeds-scan-bound" \notin names

(* scanPackageBoundary: a logical line that is too long to be matched is   *)
(* reported for that, an empty one is skipped.                             *)
LineBreaks(section, parts) ==
    LET text == FlattenSeq(parts)  tight == FoldLeft(Abuts, <<>>, parts) IN
    /\ text # <<>>
    /\ \/ Len(text) > section.bound
       \/ \E p \in Range(section.patterns) : Occurs(p.words, text) \/ Occurs(p.words, tight)

BoundaryBreaks(section, lines) ==
    \E run \in Runs(lines) :
        LineBreaks(section, [k \in 1 .. run[2] - run[1] + 1 |-> lines[run[1] + k - 1].words])

(* manifestEntries: a field that is not there, or null, is refused; every  *)
(* key below it is a line of its own.  The manifest is <<>>, or its fields *)
(* as <<[null, lines]>>.                                                   *)
ManifestRefused(section, manifest) ==
    /\ section.fields # {}
    /\ \/ manifest = <<>>
       \/ \E field \in section.fields :
             field \notin DOMAIN manifest[1] \/ manifest[1][field].null

ManifestBreaks(section, manifest) ==
    \E field \in section.fields :
        \E line \in manifest[1][field].lines : LineBreaks(section, <<line>>)

-----------------------------------------------------------------------------
(* field-ownership.  A mark is [name, as]: a name in a file and what it    *)
(* does there: "assigns", "mints" (a field given a value in a literal),    *)
(* "shorthand", "shape" (a type's field), "string" or "reads".  `declared` *)
(* stands for the files under the declared prefixes.                       *)
OwnershipAccepted(section) == section.fields \cap section.helpers = {}

Permitted(section, path) == path \in section.declared \cup section.writers

Written(tree, path) ==
    {mark.name : mark \in {m \in tree.files[path].marks : m.as \in {"assigns", "mints"}}}

(* scanFile: a helper is reported wherever an identifier names it, a field *)
(* where it is written, shaped or spelt.                                   *)
MarkBreaks(section, mark) ==
    \/ mark.name \in section.fields /\ mark.as # "reads"
    \/ mark.name \in section.helpers /\ mark.as # "string"

(* scanFieldOwnership: both ways, over the whole tree.                     *)
OwnershipBreaks(section, tree, scanned) ==
    \/ \E path \in scanned :
          /\ ~Permitted(section, path)
          /\ \E mark \in tree.files[path].marks : MarkBreaks(section, mark)
    \/ \E writer \in section.writers :
          writer \notin scanned \/ ~(section.fields \subseteq Written(tree, writer))
================================================================================
