--------------------------------- MODULE Gates ---------------------------------
(***************************************************************************)
(* scripts/gates-cli.ts: one run of eval-quality-gates, the binary that    *)
(* the package ships beside eval-quality.  It reads its command line and   *)
(* the section of its gate, audits one lockfile after the other            *)
(* (audit-lockfile-age.mjs, check-licenses.mjs) or walks the trees that    *)
(* the section names (TreeGates), and exits 0, 1 or 64.                    *)
(*                                                                         *)
(* lockfile-age asks the registry for the publication times of the names   *)
(* that its cache leaves open, `Concurrency` names at a time and each up   *)
(* to `MaxRetries` times; the registry answers as it likes.                *)
(*                                                                         *)
(* An entry of a lockfile is                                               *)
(*   [name, version, root, link, resolved, declared, ways, optional]       *)
(* with version "" for none; resolved is <<name, version>> for the tarball *)
(* that the registry has for them.  declared says that its licence field   *)
(* holds something; ways are the sets of identifiers each of which meets   *)
(* its expression, none for a field in a shape that is not read.           *)
(***************************************************************************)
EXTENDS TreeGates

CONSTANTS
    Worlds,       \* a sequence of what runs may find: [argv, configs, locks,
                  \* caches, markers, family, now, scanner, tree, manifest]
    Replies,      \* the maps from versions to times that an answer may hold
    Concurrency, MaxRetries

VARIABLES
    world, pc,
    section,      \* <<the gate's section>> once it was read
    cache,        \* the publication times that were read of the cache
    at,           \* the place of the lockfile or path that is read next
    requests,     \* for each lockfile opened: a request for each name asked,
                  \* under the place of the first entry that asks for it
    passed,
    pending,      \* the rows that reached no entry yet: <<row, lockfile>>
    scanned,      \* the files read
    exit

gateVars == <<world, pc, section, cache, at, requests, passed, pending, scanned, exit>>

ASSUME GatesAssumption ==
    Concurrency \in Nat \ {0} /\ MaxRetries \in Nat \ {0}

Passed == 0
GateFailed == 1
UsageError == 64

LockfileGates == {"lockfile-age", "licences"}

TreeReaders == {"dependency-direction", "package-boundary", "field-ownership"}

Gate == world.argv[1].text

Rules == section[1]

-----------------------------------------------------------------------------
(* parseArguments.  A token is [text, inline], inline <<>> or, for a flag, *)
(* the value after its first "=".  A value is never shaped like a flag,    *)
(* and two different ones are refused.                                     *)
IsHelp(token) == token.text \in {"--help", "-h"} /\ token.inline = <<>>

FlagShaped(token) == token.inline # <<>> \/ token.text \in {"--help", "-h", "--config", "-x"}

Parsing(kind, next, path) == [kind |-> kind, next |-> next, path |-> path]

Refused == Parsing("usage-error", 0, <<>>)

(* One turn of the loop over what follows the gate.                        *)
ParseFlag(rest, so) ==
    LET i == so.next
        inline == rest[i].inline # <<>>
        value == IF inline THEN rest[i].inline[1] ELSE rest[i + 1].text IN
    IF i > Len(rest) THEN Parsing("run", i, so.path)
    ELSE IF IsHelp(rest[i]) THEN Parsing("help", i, <<>>)
    ELSE IF \/ rest[i].text # "--config"
            \/ ~inline /\ (i = Len(rest) \/ FlagShaped(rest[i + 1]))
            \/ value = ""
            \/ so.path \notin {<<>>, <<value>>}
         THEN Refused
         ELSE Parsing("more", IF inline THEN i + 1 ELSE i + 2, <<value>>)

ParseArguments(argv) ==
    LET rest == Tail(argv)
        after[turn \in 0 .. Len(argv)] ==
            IF turn = 0 THEN Parsing("more", 1, <<>>)
            ELSE IF after[turn - 1].kind = "more" THEN ParseFlag(rest, after[turn - 1])
            ELSE after[turn - 1]
    IN CASE argv = <<>> -> Refused
         [] argv # <<>> /\ (IsHelp(argv[1]) \/ argv[1].text = "help") -> Parsing("help", 0, <<>>)
         [] argv # <<>> /\ argv[1].text \in LockfileGates \cup TreeReaders -> after[Len(argv)]
         [] OTHER -> Refused

DefaultConfig == "eval-quality.config.json"

-----------------------------------------------------------------------------
(* What the sections may not say beyond their types.  A row speaks for one *)
(* name or prefix, its `key`, in the lockfiles it lists: declared ones,    *)
(* and no other row for the same there.                                    *)
RowsAccepted(rules) ==
    /\ \A row \in Range(rules.rows) : Range(row.lockfiles) \subseteq Range(rules.lockfiles)
    /\ \A i, j \in DOMAIN rules.rows :
          \A p \in DOMAIN rules.rows[i].lockfiles, q \in DOMAIN rules.rows[j].lockfiles :
             /\ rules.rows[i].key = rules.rows[j].key
             /\ rules.rows[i].lockfiles[p] = rules.rows[j].lockfiles[q]
             => i = j /\ p = q

(* A window of no days would admit what is published this instant.         *)
AgeAccepted(rules) == rules.lockfiles # <<>> /\ rules.window >= 1 /\ RowsAccepted(rules)

LicencesAccepted(rules) ==
    /\ rules.lockfiles # <<>> /\ rules.allowlist # {}
    /\ DOMAIN rules.also \subseteq Range(rules.lockfiles)
    /\ \A t \in Range(rules.tolerances) : t.lockfiles \subseteq Range(rules.lockfiles)
    /\ RowsAccepted(rules)

Accepted(for, rules) ==
    CASE for = "lockfile-age" -> AgeAccepted(rules)
      [] for = "licences" -> LicencesAccepted(rules)
      [] for = "dependency-direction" -> DirectionAccepted(rules)
      [] for = "package-boundary" -> BoundaryAccepted(rules)
      [] OTHER -> OwnershipAccepted(rules)

RowsOf(for, rules) ==
    IF for \in LockfileGates
    THEN UNION {{<<i, lockfile>> : lockfile \in Range(rules.rows[i].lockfiles)} :
                   i \in DOMAIN rules.rows}
    ELSE {}

-----------------------------------------------------------------------------
(* One lockfile, the n-th: [shaped, holed, entries], whether it has an     *)
(* object of packages, whether one of them is null, and what they are.     *)
(* What is absent, unreadable or no JSON is not in the world.              *)
Named(n) == Rules.lockfiles[n]

Lock(n) == world.locks[Named(n)]

(* The root and links are installed from nowhere, and lockfile-age passes  *)
(* over what has no version.                                               *)
Entries(n) ==
    {e \in Range(Lock(n).entries) :
        ~e.root /\ ~e.link /\ (Gate = "lockfile-age" => e.version # "")}

RowsFor(n) == {i \in DOMAIN Rules.rows : Named(n) \in Range(Rules.rows[i].lockfiles)}

OffRegistry(e) == e.resolved # <<e.name, e.version>>

(* An exclusion is of the package's name, whatever its version.            *)
Excluded(n, e) == \E i \in RowsFor(n) : Rules.rows[i].key = e.name

Cached(e) == <<e.name, e.version>> \in DOMAIN cache

(* The entries whose names are asked, the first of each name.              *)
Open(n, e) ==
    e \in Entries(n) /\ ~OffRegistry(e) /\ ~Excluded(n, e) /\ ~Cached(e)

Asked(n) ==
    LET entries == Lock(n).entries IN
    {i \in DOMAIN entries :
        /\ Gate = "lockfile-age" /\ Open(n, entries[i])
        /\ \A j \in 1 .. i - 1 : Open(n, entries[j]) => entries[j].name # entries[i].name}

Waiting(name) == [name |-> name, state |-> "waiting", tries |-> 0, times |-> <<>>]

(* The time published, <<>> when no metadata gives one; a time that does   *)
(* not parse is Garbled.                                                   *)
Garbled == 0

PublishedAt(n, e) ==
    LET answers == {r \in {requests[n][k] : k \in DOMAIN requests[n]} :
                      r.name = e.name /\ r.state = "answered" /\ e.version \in DOMAIN r.times}
    IN IF Cached(e) THEN <<cache[<<e.name, e.version>>]>>
       ELSE IF answers = {} THEN <<>>
       ELSE <<(CHOOSE r \in answers : TRUE).times[e.version]>>

Unfetchable(n, e) == PublishedAt(n, e) \in {<<>>, <<Garbled>>}

Young(n, e) == ~Unfetchable(n, e) /\ PublishedAt(n, e)[1] + Rules.window > world.now

(* Mutant: an excluded entry is not looked at any further.                 *)
AgeBreaksUnlessExcluded(n, e) ==
    ~Excluded(n, e) /\ (OffRegistry(e) \/ Unfetchable(n, e) \/ Young(n, e))

AgeBreaks(n, e) ==
    \/ OffRegistry(e)
    \/ ~Excluded(n, e) /\ (Unfetchable(n, e) \/ Young(n, e))

-----------------------------------------------------------------------------
(* licences.  A prefix stands for the names that begin with it.            *)
Covers(prefix, e) == e.name \in world.family[prefix]

Allowlist(n) ==
    IF Named(n) \in DOMAIN Rules.also
    THEN Rules.allowlist \cup Rules.also[Named(n)] ELSE Rules.allowlist

IsAllowed(ways, allowlist) == \E way \in ways : way \subseteq allowlist

(* Read before each lockfile.                                              *)
MarkerHolds(t) == t.marker = <<>> \/ t.marker[1] \in world.markers

IsTolerated(n, e) ==
    \E t \in Range(Rules.tolerances) :
        /\ Named(n) \in t.lockfiles
        /\ MarkerHolds(t)
        /\ Covers(t.prefix, e)
        /\ t.optional => e.optional
        /\ IsAllowed(e.ways, Allowlist(n) \cup {t.license})

ReadByEvidence(n, e) ==
    \E i \in RowsFor(n) :
        Covers(Rules.rows[i].key, e) /\ Rules.rows[i].readAs \in Allowlist(n)

LicenceBreaks(n, e) ==
    \/ OffRegistry(e)
    \/ ~e.declared /\ ~ReadByEvidence(n, e)
    \/ e.declared /\ ~IsAllowed(e.ways, Allowlist(n)) /\ ~IsTolerated(n, e)

(* A row reaches an entry before its tarball is looked at.                 *)
Reaches(i, e) ==
    IF Gate = "lockfile-age" THEN Rules.rows[i].key = e.name
    ELSE ~e.declared /\ Covers(Rules.rows[i].key, e)

ReachedIn(n) ==
    {<<i, Named(n)>> : i \in {k \in RowsFor(n) : \E e \in Entries(n) : Reaches(k, e)}}

Breaks(n, e) == IF Gate = "lockfile-age" THEN AgeBreaks(n, e) ELSE LicenceBreaks(n, e)

-----------------------------------------------------------------------------
(* Sequences are sequences and times are numbers; a pattern asks for some  *)
(* words.  In a tree a file is no directory, a link is neither, and what   *)
(* stands in a directory has one, the root of the tree at last.            *)
IsSequence(s) == s \in Seq(Range(s))

LocksFit(w) == \A file \in DOMAIN w.locks : IsSequence(w.locks[file].entries)

TimesFit(w) ==
    /\ w.now \in Nat
    /\ \A file \in DOMAIN w.caches : \A key \in DOMAIN w.caches[file].times :
          w.caches[file].times[key] \in Nat

SectionFits(for, rules) ==
    /\ for \in LockfileGates => IsSequence(rules.lockfiles)
    /\ for = "lockfile-age" => rules.window \in Nat
    /\ for = "dependency-direction" =>
          /\ IsSequence(rules.layers) /\ IsSequence(rules.roots) /\ IsSequence(rules.exemptions)
          /\ \A layer \in Range(rules.layers) :
                IsSequence(layer.path) /\ layer.match \in {"exact", "prefix"}
          /\ \A root \in Range(rules.roots) : IsSequence(root.path)
    /\ for \in {"package-boundary", "field-ownership"} =>
          /\ IsSequence(rules.paths)
          /\ \A path \in Range(rules.paths) : IsSequence(path.path)
    /\ for = "package-boundary" =>
          \A p \in Range(rules.patterns) : IsSequence(p.words) /\ p.words # <<>>

(* What has a path lies in directories, each under its path.               *)
TreeFits(tree) ==
    /\ \A path \in (DOMAIN tree.files) \cup tree.dirs \cup tree.links :
          /\ IsSequence(path)
          /\ \A k \in 0 .. Len(path) - 1 : [i \in 1 .. k |-> path[i]] \in tree.dirs
    /\ (DOMAIN tree.files) \cap tree.dirs = {}
    /\ <<>> \in tree.dirs \ tree.links
    /\ \A path \in DOMAIN tree.files :
          /\ IsSequence(tree.files[path].lines)
          /\ \A line \in Range(tree.files[path].lines) : IsSequence(line.words)

ASSUME WorldsAssumption ==
    /\ \A times \in Replies : \A version \in DOMAIN times : times[version] \in Nat
    /\ \A i \in DOMAIN Worlds :
          /\ LocksFit(Worlds[i]) /\ TimesFit(Worlds[i]) /\ TreeFits(Worlds[i].tree)
          /\ \A config \in DOMAIN Worlds[i].configs : \A for \in DOMAIN Worlds[i].configs[config] :
                SectionFits(for, Worlds[i].configs[config][for])

-----------------------------------------------------------------------------
GatesInit ==
    /\ \E i \in DOMAIN Worlds : world = Worlds[i]
    /\ pc = "parsing"
    /\ section = <<>> /\ cache = <<>> /\ at = 1 /\ requests = <<>>
    /\ passed = TRUE /\ pending = {} /\ scanned = {} /\ exit = <<>>

Exit(code) == pc' = "done" /\ exit' = <<code>>

Goto(label) == pc' = label /\ UNCHANGED exit

Parse ==
    /\ pc = "parsing"
    /\ CASE ParseArguments(world.argv).kind = "help" -> Exit(Passed)
         [] ParseArguments(world.argv).kind = "usage-error" -> Exit(UsageError)
         [] OTHER -> Goto("loading")
    /\ UNCHANGED <<world, section, cache, at, requests, passed, pending, scanned>>

(* findSection and loadSection: a section is there when it has the types   *)
(* that its schema asks for.                                               *)
Config ==
    LET named == ParseArguments(world.argv).path IN
    IF named = <<>> THEN DefaultConfig ELSE named[1]

Declares(config, for) ==
    config \in DOMAIN world.configs /\ for \in DOMAIN world.configs[config]

After(for) ==
    CASE for = "lockfile-age" -> "caching"
      [] for = "licences" -> "opening"
      [] for = "package-boundary" -> "walking"
      [] OTHER -> "probing"

LoadSection ==
    /\ pc = "loading"
    /\ IF Declares(Config, Gate) /\ Accepted(Gate, world.configs[Config][Gate])
       THEN /\ section' = <<world.configs[Config][Gate]>>
            /\ pending' = RowsOf(Gate, world.configs[Config][Gate])
            /\ Goto(After(Gate))
       ELSE Exit(UsageError) /\ UNCHANGED <<section, pending>>
    /\ UNCHANGED <<world, cache, at, requests, passed, scanned>>

(* readCache: sound says that every key and every time of it is one.       *)
ReadCache ==
    /\ pc = "caching"
    /\ CASE Rules.cache = <<>> -> Goto("opening") /\ UNCHANGED cache
         [] Rules.cache # <<>> /\ Rules.cache[1] \in DOMAIN world.caches
                /\ world.caches[Rules.cache[1]].sound ->
                cache' = world.caches[Rules.cache[1]].times /\ Goto("opening")
         [] OTHER -> Exit(UsageError) /\ UNCHANGED cache
    /\ UNCHANGED <<world, section, at, requests, passed, pending, scanned>>

(* A lockfile that cannot be audited ends the run, whatever was found in   *)
(* those before it.                                                        *)
OpenLockfile ==
    /\ pc = "opening" /\ at <= Len(Rules.lockfiles)
    /\ CASE Named(at) \notin DOMAIN world.locks -> Exit(UsageError) /\ UNCHANGED requests
         [] Named(at) \in DOMAIN world.locks /\ ~Lock(at).shaped ->
                Exit(UsageError) /\ UNCHANGED requests
         [] Named(at) \in DOMAIN world.locks /\ Lock(at).shaped /\ Lock(at).holed ->
                Exit(GateFailed) /\ UNCHANGED requests
         [] OTHER -> /\ requests' = [n \in 1 .. at |->
                                       IF n < at THEN requests[n]
                                       ELSE [k \in Asked(n) |-> Waiting(Lock(n).entries[k].name)]]
                     /\ Goto("asking")
    /\ UNCHANGED <<world, section, cache, at, passed, pending, scanned>>

(* mapWithConcurrency, fetchWithRetry: a worker keeps its place while it   *)
(* waits to try again.                                                     *)
InState(n, state) == {k \in DOMAIN requests[n] : requests[n][k].state = state}

Update(k, request) ==
    /\ requests' = [requests EXCEPT ![at][k] = request]
    /\ UNCHANGED <<world, pc, section, cache, at, passed, pending, scanned, exit>>

Ask ==
    /\ pc = "asking" /\ Cardinality(InState(at, "active")) < Concurrency
    /\ \E k \in InState(at, "waiting") :
          /\ \A j \in InState(at, "waiting") : k <= j
          /\ Update(k, [requests[at][k] EXCEPT !.state = "active", !.tries = 1])

AnswerArrives ==
    /\ pc = "asking"
    /\ \E k \in InState(at, "active"), times \in Replies :
          Update(k, [requests[at][k] EXCEPT !.state = "answered", !.times = times])

(* 429, a status from 500, a timeout, a broken connection or body.         *)
TransientFailure ==
    /\ pc = "asking"
    /\ \E k \in InState(at, "active") :
          Update(k, IF requests[at][k].tries < MaxRetries
                    THEN [requests[at][k] EXCEPT !.tries = @ + 1]
                    ELSE [requests[at][k] EXCEPT !.state = "failed"])

(* Any other status, or a body that is null.                               *)
RequestRefused ==
    /\ pc = "asking"
    /\ \E k \in InState(at, "active") :
          Update(k, [requests[at][k] EXCEPT !.state = "failed"])

Audited(n) == InState(n, "waiting") = {} /\ InState(n, "active") = {}

CloseLockfile ==
    /\ pc = "asking" /\ Audited(at)
    /\ passed' = (passed /\ \A e \in Entries(at) : ~Breaks(at, e))
    /\ pending' = pending \ ReachedIn(at)
    /\ at' = at + 1
    /\ Goto("opening")
    /\ UNCHANGED <<world, section, cache, requests, scanned>>

(* exitAfter: a finding outranks a row that reached nothing.               *)
Report ==
    /\ pc = "opening" /\ at > Len(Rules.lockfiles)
    /\ Exit(IF ~passed THEN GateFailed ELSE IF pending # {} THEN UsageError ELSE Passed)
    /\ UNCHANGED <<world, section, cache, at, requests, passed, pending, scanned>>

-----------------------------------------------------------------------------
(* The gates that read a tree.  The optional peer comes first.             *)
LoadScanner ==
    /\ pc = "probing"
    /\ IF world.scanner THEN Goto("walking") ELSE Exit(UsageError)
    /\ UNCHANGED <<world, section, cache, at, requests, passed, pending, scanned>>

Paths == IF Gate = "dependency-direction" THEN Rules.roots ELSE Rules.paths

Scan(n) ==
    IF Gate = "dependency-direction" THEN SourceRoot(world.tree, Paths[n])
    ELSE DeclaredPath(world.tree, Paths[n])

WalkPath ==
    /\ pc = "walking" /\ at <= Len(Paths)
    /\ CASE Scan(at).fails = "no" -> /\ scanned' = scanned \cup Scan(at).found
                                     /\ at' = at + 1 /\ Goto("walking")
         [] Scan(at).fails \in {"root", "path"} -> Exit(UsageError) /\ UNCHANGED <<at, scanned>>
         [] OTHER -> Exit(GateFailed) /\ UNCHANGED <<at, scanned>>
    /\ UNCHANGED <<world, section, cache, requests, passed, pending>>

(* What a tokenizer that gives up throws carries no code, so that it fails *)
(* a run that only reports, too.                                           *)
DirectionExit ==
    CASE \E path \in scanned :
            world.tree.files[path].garbled /\ Matching(Rules.layers, path) # {} -> GateFailed
      [] \A path \in scanned :
            ~world.tree.files[path].garbled \/ Matching(Rules.layers, path) = {} ->
            IF \/ Rules.reportOnly
               \/ \A path \in scanned : ~DirectionBreaks(Rules, world.tree, scanned, path)
            THEN Passed ELSE GateFailed

BoundaryExit ==
    IF ManifestRefused(Rules, world.manifest) THEN UsageError
    ELSE IF \/ ManifestBreaks(Rules, world.manifest)
            \/ \E path \in scanned : BoundaryBreaks(Rules, world.tree.files[path].lines)
         THEN GateFailed ELSE Passed

OwnershipExit ==
    IF \/ \E path \in scanned : world.tree.files[path].garbled
       \/ OwnershipBreaks(Rules, world.tree, scanned)
    THEN GateFailed ELSE Passed

Judge ==
    /\ pc = "walking" /\ at > Len(Paths)
    /\ Exit(CASE Gate = "dependency-direction" -> DirectionExit
              [] Gate = "package-boundary" -> BoundaryExit
              [] OTHER -> OwnershipExit)
    /\ UNCHANGED <<world, section, cache, at, requests, passed, pending, scanned>>

Ended == pc = "done" /\ UNCHANGED gateVars

GatesNext ==
    \/ Parse \/ LoadSection \/ ReadCache \/ OpenLockfile
    \/ Ask \/ AnswerArrives \/ TransientFailure \/ RequestRefused
    \/ CloseLockfile \/ Report
    \/ LoadScanner \/ WalkPath \/ Judge
    \/ Ended

GatesSpec == GatesInit /\ [][GatesNext]_gateVars

-----------------------------------------------------------------------------
(* An entry is vouched for when what npm would fetch is the registry's     *)
(* tarball for it and, for the one gate, its package is excluded in this   *)
(* very lockfile or was published before the window began; for the other,  *)
(* its licence is allowed as it stands, or with one identifier more that   *)
(* some tolerance adds, or is read, where none is declared, as one that    *)
(* the same list allows.                                                   *)
Vouched(n, e) ==
    /\ e.resolved = <<e.name, e.version>>
    /\ CASE Gate = "lockfile-age" ->
              \/ \E row \in Range(Rules.rows) : row.key = e.name /\ Named(n) \in Range(row.lockfiles)
              \/ \E time \in Range(PublishedAt(n, e)) :
                    time # Garbled /\ time + Rules.window <= world.now
         [] Gate = "licences" /\ e.declared ->
              \/ \E way \in e.ways : way \subseteq Allowlist(n)
              \/ \E way \in e.ways, t \in Range(Rules.tolerances) :
                    /\ way \ {t.license} \subseteq Allowlist(n)
                    /\ Named(n) \in t.lockfiles /\ MarkerHolds(t)
                    /\ Covers(t.prefix, e) /\ (e.optional \/ ~t.optional)
         [] OTHER ->
              \E row \in Range(Rules.rows) :
                 /\ Named(n) \in Range(row.lockfiles) /\ Covers(row.key, e)
                 /\ row.readAs \in Allowlist(n)

AllVouched(n) == \A e \in Entries(n) : Vouched(n, e)

AllReached ==
    \A i \in DOMAIN Rules.rows : \A lockfile \in Range(Rules.rows[i].lockfiles) :
        \E n \in DOMAIN Rules.lockfiles :
            Named(n) = lockfile /\ \E e \in Entries(n) : Reaches(i, e)

Auditable(n) == Named(n) \in DOMAIN world.locks /\ Lock(n).shaped

CacheSound ==
    Gate = "lockfile-age" /\ Rules.cache # <<>> =>
        Rules.cache[1] \in DOMAIN world.caches /\ world.caches[Rules.cache[1]].sound

(* The exit of a lockfile gate says what every lockfile holds: 0 only when *)
(* each entry of each is vouched for and each row holds something in each  *)
(* of its lockfiles; 1 only for an entry that is not, or that cannot be    *)
(* read; 64 for what cannot be audited at all, and otherwise only when     *)
(* there was nothing to find but a row that nobody holds.                  *)
LockfilesEarned ==
    section # <<>> /\ Gate \in LockfileGates /\ exit # <<>> =>
        CASE exit[1] = Passed ->
                /\ \A n \in DOMAIN Rules.lockfiles : Auditable(n) /\ ~Lock(n).holed /\ AllVouched(n)
                /\ AllReached
          [] exit[1] = GateFailed ->
                \E n \in DOMAIN Rules.lockfiles :
                    Auditable(n) /\ (Lock(n).holed \/ (n < at /\ ~AllVouched(n)))
          [] OTHER ->
                \/ ~CacheSound \/ \E n \in DOMAIN Rules.lockfiles : ~Auditable(n)
                \/ (\A n \in DOMAIN Rules.lockfiles : AllVouched(n)) /\ ~AllReached

(* The registry is asked sparingly: in each lockfile at most once for a    *)
(* name, only for one with an audited version that the cache leaves open,  *)
(* no more often and no more at a time than the limits say.                *)
AskedSparingly ==
    section # <<>> =>
        \A n \in DOMAIN requests :
            /\ Cardinality(InState(n, "active")) <= Concurrency
            /\ \A k \in DOMAIN requests[n] :
                  LET r == requests[n][k] IN
                  /\ r.tries <= MaxRetries
                  /\ \A j \in DOMAIN requests[n] : requests[n][j].name = r.name => j = k
                  /\ \E e \in Entries(n) :
                        /\ e.name = r.name /\ <<e.name, e.version>> \notin DOMAIN cache
                        /\ ~\E row \in Range(Rules.rows) :
                               row.key = e.name /\ Named(n) \in Range(row.lockfiles)

LockfilesAudited == LockfilesEarned /\ AskedSparingly

-----------------------------------------------------------------------------
Narrowest(layers, path) ==
    {i \in Matching(layers, path) :
        \A j \in Matching(layers, path) : Len(layers[j].path) <= Len(layers[i].path)}

(* What the narrowest row that matches a file says of what it depends on,  *)
(* whatever the order of the rows.                                         *)
Held(path, i, dep) ==
    LET layer == Rules.layers[i]
        inward == \E to \in Denoted(Rules, world.tree, scanned, path, dep) :
                     \E j \in Narrowest(Rules.layers, to) : Rules.layers[j].name \in layer.imports
        outward == \/ layer.policy = "unrestricted"
                   \/ layer.policy = "allow" /\ dep.module \in layer.modules
                   \/ \E x \in Range(Rules.exemptions) :
                         /\ x.file = path /\ x.module = dep.module
                         /\ dep.form = "import" /\ dep.binds = x.binding
    IN /\ dep.form \notin {"unreadable", "computed", "unknown"}
       /\ dep.form \notin {"library", "alias"} =>
             IF dep.form = "path" \/ (dep.relative /\ dep.form # "types") THEN inward ELSE outward

(* Each pattern, where it stands or wrapped once in a comment of two lines *)
(* between its words or within one.                                        *)
Carries(lines) ==
    \E p \in Range(Rules.patterns) :
        \/ \E i \in DOMAIN lines : Occurs(p.words, lines[i].words)
        \/ \E i \in 1 .. Len(lines) - 1 :
              /\ {j \in i - 1 .. i + 2 : j \in DOMAIN lines /\ lines[j].comment} = {i, i + 1}
              /\ \/ Occurs(p.words, lines[i].words \o lines[i + 1].words)
                 \/ Occurs(p.words, Abuts(lines[i].words, lines[i + 1].words))

Witnessed(for) == section # <<>> /\ Gate = for /\ exit = <<Passed>>

Deep(n) == Gate = "dependency-direction" \/ Paths[n].recursive

Wanted(n, path) ==
    LET ext == world.tree.files[path].ext  wanted == Paths[n].extensions IN
    IF Gate = "dependency-direction" THEN ext \in Range(wanted) ELSE wanted = {} \/ ext \in wanted

(* What the section names was there and was read whole: no link and no     *)
(* wanted file below it was passed over, and there was a file unless there *)
(* need be none.  A path that is itself a link is read by dependency-      *)
(* direction alone.                                                        *)
TreesRead ==
    \A gate \in TreeReaders : Witnessed(gate) =>
        \A n \in DOMAIN Paths :
            LET path == Paths[n].path IN
            /\ path \in world.tree.links => gate = "dependency-direction"
            /\ Inside(path, world.tree.links, Deep(n)) = {}
            /\ \A p \in Inside(path, DOMAIN world.tree.files, Deep(n)) : Wanted(n, p) => p \in scanned
            /\ gate = "dependency-direction" \/ ~Paths[n].optional =>
                  \E p \in scanned : AtOrBelow(path, p)

(* Each dependency of each file is one that the narrowest row for the file *)
(* allows.                                                                 *)
DirectionHeld ==
    Witnessed("dependency-direction") /\ ~Rules.reportOnly =>
        \A path \in scanned :
            \E i \in Narrowest(Rules.layers, path) :
                \A dep \in world.tree.files[path].deps : Held(path, i, dep)

(* No forbidden words are carried.                                         *)
BoundaryHeld ==
    Witnessed("package-boundary") =>
        \A path \in scanned : ~Carries(world.tree.files[path].lines)

(* The fields are written by every writer, and by nobody else but below    *)
(* the declared paths.                                                     *)
OwnershipHeld ==
    Witnessed("field-ownership") =>
        /\ \A path \in scanned : \A mark \in world.tree.files[path].marks :
              mark.name \in Rules.fields /\ mark.as \in {"assigns", "mints"} =>
                  path \in Rules.declared \cup Rules.writers
        /\ \A writer \in Rules.writers, field \in Rules.fields :
              writer \in scanned /\ field \in Written(world.tree, writer)

(* A gate over a tree that passes has read all there was to read, and what *)
(* it read is as the section wants it.                                     *)
TreesHeld == TreesRead /\ DirectionHeld /\ BoundaryHeld /\ OwnershipHeld

================================================================================
