# eval-quality in TLA+

`eval-quality` decides how well an *evaluator* (a person or a program that tests a
system) detects defects. It compiles a contract, seals it, checks before a run that a
system under test can show what it is supposed to show, scores the record of an
evaluator's run, and aggregates the strength of several runs. The package is a pure
core (`src/src/core`), an application layer that awaits ports
(`src/src/application`), adapters that start processes and read files
(`src/src/adapters`) and a command line (`src/src/cli`). It ships a second binary,
`eval-quality-gates` (`src/scripts`), which holds a repository to rules of its own.

Three things in it are hard to get right and hard to test. The adapters run targets that
fork, hang, ignore signals and outlive their parents, while a timer, an output cap, a
caller's abort and the death of the host itself may come in any order. The score stage
turns many small facts about many trials into one word and one exit code, over tables
in which the first row that holds wins. And an artifact that one stage accepted is
read by the next with rules written apart: what compiles must be fit to be sealed,
probed and scored, what is minted must be fit to be aggregated, and what is written must
be what the exit code says. The modules follow these three.

Paths below are relative to the repository; `src/src/adapters/process-group.ts` is
the package's `src/adapters/process-group.ts`.

## The system

### Process-group ownership: `adapters/process-group.ts`

*State.* The host's `WatchedChild` keeps `#ended`, `#killed`, its open streams and a
socket pair, the lifeline; the watchdog, a second Node process, keeps `released`, the
target it spawned and whether it reported its end. The target's group is the
kernel's.
*Operations.* `spawnInGroup`, `killGroup`, `release`, the handlers of the lifeline's
data and close, of stream closes and of errors, `trackProcessGroup`'s exit hook; in the
watchdog `start`, `killTarget`, `failAndExit`, the line and close handlers.
*Interaction.* Host and watchdog speak over the lifeline only: a specification and at
most one `release` down, `spawned`, `exit` and `error` up. The end of file of the
lifeline is how either learns that the other is gone.
*Hard.* Three processes, any of which may be killed between any two steps; one
`killpg` may miss a child being forked; messages in flight when the lifeline goes.
*Correct when* an abandoned group dies, a released one is never touched, and an end is
called the target's own only if nothing here killed it.

### Port calls: `adapters/port-boundary.ts`, `application/invoke-port.ts`

*State.* The caller's `AbortSignal`, one listener on it, one raced promise per await.
*Operations.* `invokePort` around `runPortMethod`: parse, precheck, mechanism raced
with the abort, postcheck raced likewise, assembly, response parse.
*Hard.* Abort and settlement in the same tick, a mechanism that never settles, an
abort inside the mechanism's synchronous part, an error the abort itself caused.
*Correct when* whichever came first decides, the caller is told promptly, no listener
is left on a signal that spans a whole run, and every end is a declared fault.

### Command-line adapter: `adapters/command-line-adapter.ts`

*State.* A run's timer, abort listener, per-stream byte counts, caught state and the
artifacts read after it.
*Operations.* `runChildProcess` and its handlers of `spawn`, `error`, data, `exit`,
`close`, the timer and the abort; the artifact reads.
*Hard.* A timer armed twice; a kill for the cap, timeout or abort whose `close` looks
like the target's own end; concurrent reads of which one is cut short.
*Correct when* an observation is the whole of what the target wrote, nothing is left
running or armed, and every run settles.

### MCP adapter: `adapters/mcp-adapter.ts`

*State.* A session: requests pending by id, one failure promise, a timer, whether the
handshake was done.
*Operations.* `startSession`, `request`, line framing, the close handler, the
`finally` of `callToolOverStdio`.
*Hard.* Answers before their requests or twice, a server that ends before or after
the handshake, a teardown that races a `spawn`.
*Correct when* an answer is the answer to its own request, the observation "the server
ended" is about the server's own end, and every session is decided and torn down.

### Scoring: `core/score`, `application/score.ts`, `cli/exit-codes.ts`

*State.* Within one call of `score`: the oracles' outcomes, one vote per trial,
the pooled conditions. Nothing survives the call.
*Operations.* `matchProbeWitness` and `mapFindings` (does a finding witness the seeded
defect), `resolveOutcome` (twenty rows, first match wins, then a waiver),
`reduceTrialSet` (a strict majority of the votes), `resolveProductionVerdict` and
`resolveContractVerdict` (five rungs, worst first), `verdictExit`.
*Interaction.* Pure calls in the order trials → witness → oracles → vote → reduction
→ ladder → exit code.
*Hard.* Row order: an earlier row may hide a condition that a later stage needs; a
trial's vote drops the states of its other oracles; conditions are pooled over trials.
*Correct when* a catch was earned, a miss shows, no invalidating condition is hidden
by any stage after it, and running again never improves a verdict.

### Check evaluation: `core/evaluate`

*State.* None kept; the recursion of `resolveCheck` over a check's expression.
*Operations.* `resolveNode` and the handlers of `not`, `all`, `any`, the three
quantifiers and the leaf operators; `coversByKey`; `regexMatch` over an interpreter of
patterns of its own (`bounded-regex.ts`), which keeps sets of positions and never
backtracks.
*Hard.* Three truth values, of which the third, `insufficient-evidence`, must be
neither vacuous truth nor lost: `any` over a check that holds and one that examined
nothing, `not` of an empty quantifier, a quantifier inside a connective, a collection
that was not observed at all. In
`coversByKey` rows without the key, and two rows with the same one, in a map whose
emptied size stands for equal cardinality. In a pattern a repetition that stops at the
first turn which reaches nothing new, and two gates, at compilation and at scoring.
*Correct when* what a check decides it would have decided whatever the unobserved
collections hold, coverage is a pairing of the rows, and a pattern means what the native
RegExp means by it.

### Order of the plan and selection: `core/compile/bindings.ts`, `scripting-bound.ts`, `core/score/binding-order.ts`, `bindings.ts`

*State.* Within one compilation Tarjan's orders, links and stack; within one trial the
map of what each captured binding resolved to.
*Operations.* `checkNestedTemporalClause`, `checkScriptingBound`, `checkBindingCycle`;
`bindingOrder`, `resolveCapturedBindings`, `selectWithBindings`.
*Interaction.* Compilation throws on a plan that cannot be ordered; scoring sorts
whatever it is given into tiers with another algorithm and leaves out, without an
error, what it cannot place.
*Hard.* Two edge kinds in one graph, two algorithms that must agree on it; a capture
whose source is anchored by a clause on a step that captures too; records in which the
use of a value comes before its source.
*Correct when* what is compiled can be placed, declaration order decides nothing, and
selected evidence is causal.

### Authoring: `core/compile`, `core/seal`, `core/coverage`, `core/lineage`

*State.* None in the code; a contract is compiled, sealed and covered by pure functions,
and its revisions carry each their parent's digest.
*Operations.* `compile` (thirty-three codes in a fixed order, the first that refuses is
the one that is heard), `seal` (a direction for every oracle, whose prose names steps
without their identifiers), `evaluateCoverage` (seven disciplines, each with a relevance
and a satisfaction), `reviseArtifact`, `validateLineageChain` (nine local checks).
*Interaction.* `compile` decides by declarations what pre-flight's projection, the
evaluator's reader and scoring will find; coverage is read by `score` of a contract that
was parsed and never compiled.
*Hard.* Two rules about one thing in two modules: pointer reachability against the
projection, legs against the planner, relevance against satisfaction; an order of
declarations that shows through in a brief; an edited, repeated or missing revision.
*Correct when* what compiles reads live evidence and can be planned, a brief tells its
steps apart and nothing of its order, no hole goes unreported, and a chain's report
passes exactly for a whole history.

### Pre-flight: `core/preflight`, `application/preflight.ts`

*State.* A fixture outside the process, which legs and seeded defects change; the
answers so far.
*Operations.* `planPreflight`, the loop that issues one leg after another, the entry point
for observations made elsewhere, `reducePreflight` and its six checks, the projections.
*Hard.* Legs depend on each other through the fixture; a leg may throw in the middle or
be misanswered; identifiers that the planner mints may meet identifiers that it was given.
*Correct when* a verdict that passes is evidence of what each check stands for, over a
delivery that is whole.

### Reporting: `application/score.ts`, `core/ingest`, `core/score/qualification.ts`, `core/emit`, `core/aggregate`, `core/score/strength.ts`, `cli`

*State.* Files; within a process what it parsed, read and got back.
*Operations.* `parseArguments`, the order in which inputs are read, held against `--out`
and resolved under a corpus root; `runScore`'s parses, `ingest` and the quotation audit,
`qualifyProbe`, `score`, `emit`; `aggregateStrength` with its refusals, `decide` per class,
`compareDominance`; `writeArtifact` and the exit code.
*Hard.* Five artifacts that have to agree, checked at five places; rules of `emit` and
of `aggregate-strength` over one artifact, written apart; a floor over probes that nobody
reached; two processes over one file; a write that fails half way; an input that is also
the output under another path.
*Correct when* a minted artifact rests on sincere, agreeing records, can be aggregated,
does not depend on the order of arguments, and exit code and files say the same.

### Target policies, HTTP probe and conformance kit: `core/probe`, `adapters/*-target-policy.ts`, `testing`

*State.* The policies keep none. A probe keeps the target and the authorization of the hop
it is at, its count of redirects, a timer and a controller; the kit the outcomes noted so
far.
*Operations.* The parse of an operator's mapping; `parseAddress` and the three default-deny
decisions; `runProbe` with its validation of every hop; `runConformance` with four shared
scenarios per method and the assertions of each arm.
*Interaction.* A probe is the mechanism of a port call. The kit builds a fresh subject for
each step, makes one call, counts what the subject did underneath and disposes of it; it
looks for flaws in the fixture with rules of its own, beside those of the policy.
*Hard.* One machine under many spellings; a host that resolves otherwise the second time, a
redirect into another authorization's terms; a cap and an abort that race a hop; a kit
whose fixture does not ask what it claims, so that a subject passes for the wrong reason.
*Correct when* a hop is made exactly if the mapping names it, nothing is in flight once the
caller was answered, and a report passes exactly for a subject that broke no rule.

### Canonical form and digests: `core/canonical`

*State.* None kept.
*Operations.* `assertHashedArtifactValue` checks a value in memory, `serialize` writes it
out and checks as it goes, `scanJson` reads a text, `digestArtifact`, `digestJson` and
`digestComposite` put them together.
*Interaction.* Every stage refers to artifacts by digest; lineage, aggregation and scoring
compare digests where they mean artifacts.
*Hard.* A Proxy or a getter that shows one thing when it is checked and another when it is
written; three statements of one domain, written apart; keys in any order or twice, a
number that rounds, a zero with a sign.
*Correct when* two artifacts have one digest exactly if they say the same, by whichever
entry they come.

### Repository gates: `scripts/gates-cli.ts` and what it calls

*State.* A run's configuration section, the cache of publication times, a request per name
that the cache leaves open, the rows of the section that reached nothing yet, the files read.
*Operations.* `parseArguments`; the sections' own refusals; `auditLockfileAge` with
`fetchWithRetry`, `checkLicenses` with its tolerances and rows of evidence;
`discoverSourceFiles` and `discoverEntries`; `runDependencyDirection`,
`runPackageBoundary`, `runFieldOwnership`; the exit code.
*Interaction.* One gate per run over one configuration; the audits of lockfiles share the
cache and the rows between lockfiles; the gates over trees share the two walks.
*Hard.* Names asked for at once, retried and refused, of which another lockfile may hold
another version; a row that excuses an entry in one lockfile and not in the next; a walk that
reads less than it was told to and finds nothing there; rows of layers of which the first
match decides; a pattern that a wrapped comment splits.
*Correct when* exit 0 says that everything named was read and everything read is as the
section wants it, and 1 and 64 say what was not.

### The rest

| part | kept state and operations | status |
|---|---|---|
| corpus, file-system and clock adapters | none; `runPortMethod` around one call | `PortCall` with a postcheck; the corpus adapter's path checks in `CommandLine` |
| schemas | none; declarations for the parser | that of a contract in whole, as `ContractFits` in `Authoring`, and those of target policies in `TargetPolicy`; the other artifacts' are a flag of each |
| the gates over documents (`doc-invocations`, `doc-counts`, `doc-claims`) | none; they run commands and import modules of the repository that they hold to its documents | not modelled |
| build scripts, tutorials | build tooling and worked examples | not modelled |

`PROJECT.json` lists every part with its sources, and under "hazards" each place where
the code could go wrong in a way a unit test would hardly reach, with the properties
that would show it.

## The modules

| module | models | extends |
|---|---|---|
| `GroupedChild` | the interface of a spawned child, abstractly: one `spawn`, one end, one `close` | |
| `ProcessGroup` | `process-group.ts`, host, watchdog and target concurrently; the refinement mapping to `GroupedChild`, the inductive invariant | `GroupedChild` by `INSTANCE` |
| `AdapterProofs` | theorems on the three parties, the refinement of `GroupedChild` among them; lemmas on addresses and rulings, the theorem on what a mapping names | `ProcessGroup`, `Conformance` |
| `PortCall` | `invokePort` around `runPortMethod` | |
| `PortCallProofs` | its inductive invariant and `RaceDecides` | `PortCall` |
| `CommandProbe` | the command-line adapter's mechanism inside a port call, over a child | `GroupedChild`, `PortCall` |
| `CommandProbeProofs` | theorems: the observation, the child, the port call | `CommandProbe`, `PortCallProofs` |
| `McpProbe` | the MCP adapter's, likewise | `GroupedChild`, `PortCall` |
| `McpProbeProofs` | theorems, likewise | `McpProbe`, `PortCallProofs` |
| `TargetPolicy` | `target-policy.ts`, its two siblings, `probe-address.ts`, `probe-policy.ts`: how a mapping parses and decides | |
| `ApiProbe` | the HTTP adapter's chain of hops inside a port call | `PortCall`, `TargetPolicy` |
| `Conformance` | the conformance kit: a run over a subject; an operator's questions to a mapping | `ApiProbe` |
| `OutcomeRules` | `outcome.ts`: the three tables as sequences of rows; `reduce-trials.ts` | |
| `ProbeWitness` | `witness.ts` and the class rules of `qualification.ts` | |
| `VerdictLadder` | `ladder.ts`, `exit-codes.ts` | `OutcomeRules` |
| `ScoreStage` | `score.ts`: the loop over trials and oracles | `ProbeWitness`, `VerdictLadder` |
| `ScoringProofs` | theorems on the rule tables, lemmas on the ladder, the invariants and theorems of the score stage and of the command line | `ScoreStage`, `CommandLine` |
| `CheckEvaluation` | `resolution.ts`: the walk of `resolveNode` and its leaves, `operators.ts` with `coversByKey` | |
| `ScriptingBound` | `scripting-bound.ts` | |
| `StepSelection` | `compile/bindings.ts`, `binding-order.ts`; `selection.ts`, `score/bindings.ts` | `ScriptingBound` |
| `ArtifactInput` | the version and shape checks that every stage begins with | |
| `PreflightPlan` | `preflight/plan.ts` | |
| `Preflight` | `application/preflight.ts`, `reduce.ts`, `projection.ts`, `witness-evidence.ts` | `PreflightPlan`, `ArtifactInput` |
| `PreflightProofs` | its invariant and theorems, lemmas on the plan | `Preflight` |
| `RegexSubset` | `bounded-regex.ts`, its parser: the patterns that compile, level by level of nesting | |
| `BoundedRegex` | `bounded-regex.ts`, its matcher, the two gates before it, a test of a pattern, what the native RegExp means | `RegexSubset` |
| `Canonical` | `core/canonical`: values that answer reads, texts as tokens, their digests, and what either says | |
| `ExpressionChecks` | `plan-index.ts`, `declared-inputs.ts`, `reachability.ts`: what a pointer names; `expression-legality.ts`, `oracle-alignment.ts`, `qualification.ts` over it | `RegexSubset` by `INSTANCE` |
| `Compile` | the other checks of `core/compile`, one by one, and `compile.ts`: their order and what they yield; `derived-reference.ts`: steps spoken of without names | `ExpressionChecks`, `ArtifactInput`, `ScriptingBound` |
| `Coverage` | `core/coverage` | `ExpressionChecks` |
| `Authoring` | `application/compile.ts`, `seal.ts`, coverage, revisions (`chain.ts`) as a system | `Compile`, `Coverage`; `PreflightPlan` by `INSTANCE` |
| `ContractProofs` | theorems on Tarjan's walk, on the tiers, on what is selected, on coverage and on lineage | `StepSelection`, `Authoring` |
| `Evidence` | `emit.ts`, `aggregate-strength.ts`, `strength.ts`, `reduction-consistency.ts` | `OutcomeRules` |
| `ScoreIntake` | `ingest.ts`, `conditions.ts`, `quotation.ts`; `application/score.ts` around `ingest`, `score` and `emit` | `Evidence`, `VerdictLadder`, `ArtifactInput`; `ExpressionChecks`, `ProbeWitness` by `INSTANCE` |
| `CommandArguments` | `arguments.ts` | |
| `CommandLine` | `run.ts`, `main.ts`: processes over a disk | `ScoreIntake`, `CommandArguments` |
| `TreeGates` | `scanned-paths.ts`, `discover-source-files.ts`, `check-dependency-direction.ts` with `dependency-direction.ts`, `package-boundary.ts`, `lineage-ownership.ts`: the two walks and three gates over a tree, as operators | |
| `Gates` | `gates-cli.ts`, `gate-config.ts`, `audit-lockfile-age.mjs`, `check-licenses.mjs`: one run of `eval-quality-gates` | `TreeGates` |
| `CheckAndGatesProofs` | the invariants and theorems of both systems of `MCGates` | `CheckEvaluation`, `Gates` |
| `MC*` | the constants of a TLC run, where they are more than a line | |

`ProcessGroup`, `CommandProbe` and `McpProbe` have no data to enumerate and are run as they
stand, under a `.cfg` of their name. `MCGates` runs two systems that share nothing,
`CheckEvaluation` and `Gates`, one or the other in each behaviour.

How the parts compose: `ProcessGroup` is shown to implement `GroupedChild`
(`ImplementsGroupedChild`), and the two adapters are modelled against `GroupedChild`
rather than against the three processes again. `ObeysChild` closes the loop: the
adapter takes only the steps the interface allows its user (`HostStop` never after
`release`, `release` only at `close`), which `ProcessGroup` assumes of its caller. Both
adapters extend `PortCall`, so one step of theirs is one step of the adapter's event
loop together with what it does to the promise being raced. `Conformance` has one caller of
`PortCall` per behaviour: an application, the HTTP probe, the kit, or an operator who only
asks the mapping.

### State and actions against the code

`ProcessGroup`. `host*` variables are the fields of `WatchedChild`; `ended` is
`#ended` together with the path that set it (`own`: an `exit` report; `killed`,
`lost`: the lifeline's close after a kill of ours, or without one; `failed`: an
error). `down` and `up` are the lifeline's directions. `wdTarget` says how far the
watchdog's `start` got, because the listeners it attaches last are what keeps a failed
start from being reported as an exit. `proc` and `holders` are the kernel's: who is in
the group, who left it with `setsid`, who holds the inherited pipes. Each handler is
one action, with the calls it makes (`HostLifelineClose` includes `#end`, `#fail` and
`#maybeClose`). The kill loops take one attempt per step, since they are timers.

`PortCall`. `stage` is the await at which `runPortMethod` is suspended, `race` which
promise settled the `Promise.race`; a settlement is one step and the code after the
await another. Schema parses, prechecks and assembly are choices among the ends the
code has.

`CommandProbe`, `McpProbe`. `run` and `session` are the life of one call; `timer`,
`watching`, `past` its timer, abort listener and caps. `Finish` and `Fail` are
`finish()` and `fail()`: the first caller wins. The awaits' continuations
(`RunReturned`, `Continue`, `Boundary`) are steps of their own, so any event may come
before one.

`TargetPolicy` is the grammar and the decisions, as operators. An address is kept as it is
spelled, piece by piece; what it means is `Means` in `Conformance`, where the properties are:
the machine that the notation names, as eight groups counted from either end of `::`, and not
computed by `ParseAddress`. A mapping is a sequence, of which the decisions take the least
place that allows.
`ApiProbe`: `visits` is every target resolved and how it was decided, `inForce` the
authorization of the last one allowed; `hop` is the request on the wire, which the world
may answer, cut, fail, redirect or leave alone; `inner` is what settled the race of the
chain and the elapsed cap, `stopped` the controller's abort, `cleaned` that the `finally`
has run. A hop's resolution is chosen anew each time.

`Conformance`: `at` is the step of the run, `built` that its subject exists; a scenario is
a call of `PortCall` whose `outcome` the kit hears, an arm's assertion one request that the
subject decides (`Result`) and the kit checks (`ArmPassed`, with the fixture's complaint
first). `deviated` is a history variable: the subject has broken a rule, by a standing
defect, by a fixture that asks something else, or in one of its calls. At most one rule is
broken in a run, so that a report which passes shows which deviation went unnoticed.
`Load` and `Rules` are the operator's parse of a mapping and one decision over it.

`ScoreStage`. Inputs are chosen: what was observed and filed when a trial opens
(`OpenTrial`), what was answered when an oracle is resolved (`ResolveOracle`).
`CloseTrial` casts the vote, `ReduceTrials` reduces. `Verdict` is computed from what has
been scored so far, so the properties can compare the verdict with one more trial
with the verdict without it. `facts` is a history variable: what each trial really
showed, computed without the code's rules. An identifier survives only as the fact
that the rules read of it, a severity as "reaches the floor".

`CheckEvaluation`. `stack` holds the connectives and quantifiers that `resolveNode` is
inside of, innermost last; the expression is not given but chosen as it is walked, so
that one run visits every expression of a depth and arity. A resolution is the truth
value with three facts that the code does not compute and the properties need: `full`,
what the value would have been had the unobserved collections been observed, `blind`,
that something unexamined stands beside no defect, and `missing`, that `coversByKey`
took a missing collection for a defect. What a leaf answers over two values that it
compares is a choice; whether it may answer at all, and what becomes of empty, absent
and faulty operands, is the code's. `coversByKey` is modelled by its algorithm.

`StepSelection`. `frames` is the call stack of Tarjan's `connect`;
`FollowEdge` is one turn of its loop, `LeaveStep` its return. Edges are taken in any
order, the code's being that of parameter names. `resolved` is the map of
`resolveCapturedBindings` and `placed`, `tier` where its loops stand; `Selections` is
`selectWithBindings` for every step, with the recursion through `after` unrolled as
often as there are steps, which is where the code's guard against a cycle ends it. An
observation is the set of steps it fits by operation and by bindings other than
captures, what it sends under the captured key and what a captured pointer finds in
it.

`PreflightPlan`, `Preflight`. `setting` is what the caller hands over and how the world
behaves, `dirty` the fixture, `answers` what the port said, `misanswers` how often it
said something else. `Issue` is one turn of the loop in `preflight.ts`: the environment
does what it does and `invokePort` returns; `IssueThrows` ends the run as its exception
does. `Hand` is the other entry point, in which somebody delivers observations, again and
in any order. What a relation says of two answers is reduced to whether they differ or show
a defect, after the projection that the code applies.

`Authoring`. A draft is parsed, compiled, sealed and covered by one action each, whose
result is computed by `CompileFault`, `SealFault`, `Seal` and `EvaluateCoverage`. Contracts
are records of what the checks read; an expression is the sequence of its operand-carrying
nodes. `Rearrange` is the author, who writes a sealed contract down in another order;
`Mint`, `Revise` and `Edit` make an archive of revisions, of which `Present` presents any
sequence. `Parse` lets through what the contract's schema does (`ContractFits`: the Zod schemas
of `core/schemas`, rule by rule, with what they ask of texts reduced to which texts there are,
and the rest of that a flag of the draft); `Misfits` of `MCAuthoring` are contracts that break
one of its rules each. `Score` is a scorer who holds evidence against the contract, compiled or
not, in the patterns that its checks test. `phase` is how far the contract came; the archive is nobody's contract,
and a draft has as many revisions as it says. `MCAuthoring` composes it with `BoundedRegex`,
whose `TestPattern` is what a `Score` asks of one pattern, and with `Canonical`, whose `Digest`
is somebody's who has a value, the fields of a composite or a text digested: each has a
variable of its own (`tested`, `digested`), which keeps what was asked and what came of it.

`BoundedRegex`. A pattern is its syntax tree, with a flag for what the native RegExp
refuses. `Repeated` is the loop of a repetition, over sets of positions, as the code has it;
`NativeTest` says what a pattern means by relations between positions, without a loop.
`RegexSubset` has what the parser refuses (`OutsideSubset`, `Capturing`), over the terms of the
tree level by level; `NestedQuantifier` and `Marks`
what `regexMatch` reads off the text before it. The work counter may run out in any test.

`Canonical`. An object in memory has faces, of which every read shows one; an honest one
has one. `SerializeNode` reads three times, as the code does (the prototype, one snapshot
of the descriptors, an array's length), and its value is the set of texts that may come
out. `Scan*` are the scanner's methods, over tokens. What a text means is said a second
time by its grammar, as a set of readings without a position or an order (`SaidBy`), and
what a value means by functions on its keys (`Said`).

`ScoreIntake`, `Evidence` are operators, one per
function of the code; `CommandLine` calls them. A process is a sequence of its own steps
(`Parse`, `CheckInput` per input, `ReadInput` per file, `Call`, `ResolveReference` per
reference, `Open`, `Write`), because another process, a failing disk or a signal may come
between any two. `Read` inputs are kept by their place, as the code keeps them by key. A
file carries who opened it last and whether it is whole.

`TreeGates`. A path is the sequence of its segments, and names what the operating system finds
by it: a link that leads to a directory, in the repository or out of it, is among `links` and
among `dirs`, what is behind it has its paths through it, and a link that leads nowhere is
among `links` alone. A scan is how it fails and what it read; `SourceRoot` and `DeclaredPath`
are the two walks. Both refuse a link below where they start. Where they start
`DeclaredPath` refuses one too (`lstat`), and reads an optional path that is not there as
nothing; `SourceRoot` lists the root without looking and so follows a link there. A gate's
verdict on a file is the set of what breaks its section. `Runs` puts the comment lines of a
file together as `package-boundary.ts` does; what a file holds is what its scanner tells of
it, or that it gives up.

`Gates`. `world` is what a run may find, the registry's answers excepted, which are chosen as
they come; `at` is the place of the lockfile or path that is read next, `requests` the
requests of each lockfile that was opened, `pending` the rows that reached no entry yet,
`scanned` what the walks read. `Ask`, `AnswerArrives`, `TransientFailure` and
`RequestRefused` are `fetchWithRetry` under
`mapWithConcurrency`; `OpenLockfile` and `CloseLockfile` the
turns of the loop over lockfiles, `Report` what is left to say after the last; `WalkPath` one
walk, `Judge` the three gates.

## What is checked

Runs are small instances explored exhaustively.

| run | bounds | shows |
|---|---|---|
| `process_group` | a leader and two descendants, two streams, three kill attempts, watchdog crashes allowed | `HonestEnd`: an end called the target's own was not our kill; `WatchdogOutlivesGroup`: a watchdog does not exit over a group it must end; `LeftoversSurvive`: after a release nobody is killed; `AbandonedGroupDies`: a group given up dies and stays dead; `ImplementsGroupedChild`: the refinement, liveness included |
| `conformance` | an application's call, adapter or supplied port, with or without a postcheck; a probe over two mappings, four requests and seven redirect locations, with hosts of up to three spellings; 19 operator's mappings; 44 subjects of six ports, with a defect or a fixture that asks something else | `RaceDecides`: whichever of settlement and abort came first decides, an abort is told as one, and no listener stays; `PromptAbort`; `OnlyWhatIsNamed`: a hop, a command or a tool call goes through exactly when the mapping names it, however it is spelled; `NothingInFlight`: an answered probe leaves no hop and no timer; `VerdictExact`: a report passes exactly for a subject that broke no rule |
| `command_probe` | one run, two streams, two artifacts | `WholeObservation`, `NothingLeftBehind` (no group, timer or listener), `ObeysChild`, `RunSettles` |
| `mcp_probe` | one session, both requests, two streams | `AnswersCorrelated`: an answer is its own request's, and "the server ended" is the server's own end; `SessionEnds`: every session is decided, and its server torn down |
| `score_stage` | up to two trials, two oracles, ten settings, five records, seven filings | `CatchIsWitnessed`, `MissIsVisible`; `ConditionsTell`: an invalidating condition is masked by no stage (`NothingMasked`), and strict mode spares thin evidence (`StrictSparesThinEvidence`); `NoRetryImproves` |
| `check_and_gates` | checks of depth three and arity two, collections over three keys of up to three rows; 152 worlds of the gates, two requests at a time, two tries each | `DecisionsEarned`: what was decided holds whatever the unobserved collections hold (`DecidedStaysDecided`), and something unexamined is outranked by a defect and by nothing else (`OnlyADefectOutranks`); `CoverageIsBijection`; `LockfilesAudited`: the exit of an audit is earned by what every lockfile holds, and the registry is asked sparingly; `TreesHeld`: a gate over a tree that passes has read all there was to read, and what it read is as the section wants it |
| `step_selection` | four steps; every plan of three steps with at most one capture each is compiled, the plans of two families are scored over every record of up to three observations and two values | `CompiledPlansOrdered`: components and tiers agree; `CausalEvidence`: a selected observation follows what anchors it and what it uses, and resolving again changes nothing |
| `preflight` | contracts of one to three operations, no defect to two, eighteen kinds of world, one misanswer, up to five observations handed over | `ResetProven`: a reset that passed restored what was seen; `OutcomeEarned`: a verdict that passes is evidence of what each check stands for, over a delivery that is whole, and minted identifiers meet no others |
| `authoring` | contracts around one that compiles, each varied in a place that a check, a rung of the ladder of references or a discipline looks at; chains of up to three revisions; 225 patterns against 22 strings; 211 values and 1140 texts | `NoDeadEvidence`: what compiles reads what can be there; `CompiledPlansRun`: it can be planned; `BriefReadsAlone`: a brief tells its steps apart and nothing of its order; `CoverageVacuous`: no hole goes unreported; `ReportExact`: a report passes exactly for a whole history; `RegexExact`: a compiled pattern is refused for its cost only and answers as the native RegExp; `DigestExact`: one digest exactly for what says the same |
| `reporting` | 188 scenarios of one or two processes: every command line form, every artifact spoiled, and two trials, a manifest, a contract, a probe, a policy or a piece of evidence departing in one place each | `InputsKept`: what was named as an input is never overwritten; `ExitTells`: the code says what the files hold; `MintedIsChecked`: an artifact rests on sincere and agreeing records, and what score mints aggregate takes; `StrengthEarned`: a floor that is met is met over every probe that counts, and one artifact dominates another exactly by catching what that did not; `OrderFree`: the order of arguments decides nothing |
| `partial_result` | an application's call, as in `conformance` | a violation, see Findings |
| `filed_finding` | as `score_stage` | a violation, see Findings |

Why the bounds suffice.

- *Three processes*: a leader, a child that may leave the group, and a child forked
  while the group is being killed, in every combination; the theorems below need no
  bound.
- *Three kill attempts* stand for 100 (`MaxTries`): a loop that runs out is a loop
  that gave up, and with two descendants a group can be re-populated at most twice,
  so the bound of three is never what decides; with the code's 100 the same holds
  of a target that forks fewer than 100 times within the loop. A target that forks
  faster than it can be killed for the half second that 100 attempts take is outside this result.
- *Two streams, two artifacts, two caps*: the smallest number in which one stream or
  read ends, fails or passes its cap and the other does not.
- *Two trials*: `NoRetryImproves` compares a run with the same run and one more
  trial; `MinimumTrials` is two, so that a first trial falls short. The cap on
  invalidated attempts is one, so that a single invalidated attempt is within it.
  The threshold is one half, so that one catch in two votes is the tie.
- *Two oracles*: one designated and severe, one neither.
- *Ten settings*: the ordinary run and each departure that a rule reads - no
  designated oracle, a designation that dangles, a clean control, a canary, an unknown home operation with a
  fault, a malformed judge, either waiver, a probe that does not qualify with a
  failed pre-flight, contract-scoring mode. The records and filings give every one of
  the six witness results and every bucket, two findings on one oracle, an
  uncited one and one that cites the oracle which is not designated.

- *Depth three, arity two*: a quantifier inside a connective inside a `not` is the
  deepest nesting in which a value that was rewritten is rewritten again; the theorems
  need no bound.
- *Three keys, three rows*: a row with a key twice, one without it and one that does
  not match, at once.
- *Four steps*: a capture from a step that is anchored by a step that captures, with
  its own source, is the smallest plan whose tiers a forgotten clause reorders. Three
  observations give a use before, at and after its source and a source that matches
  twice. `WidthMax` is one where the code has two, so that three steps reach it; the
  three other ceilings are the code's and out of this run's reach.

- *Worlds of pre-flight*: every combination of a fixture that changes, a reset that works
  and a defect that fires on its input, on every call or later; and each other way in which
  a world can be amiss, alone. One leg is misanswered, since every check reads its legs
  one by one. `MaxHanded` is five: the four legs of a contract with one operation and a
  repetition.
- *Contracts of authoring*: a write, what is read after it, a read that stands alone; the
  two-token pointers reach everything that a declaration describes. The constants of the
  scripting bound are smaller than the code's (`WidthMax` two, `SharedAnchorMax` two,
  `DisjointPairMax` one, `StepCountMax` six), so that plans of five steps pass each; the
  checks compare with them and do nothing else. Chains have up to three revisions, the
  smallest that has a middle; the run was also made once with four.
- *Patterns*: every sort of group around seven bodies, alone, repeated and in company, whole
  and not, and each construct that is refused; nesting up to three (`REGEX_DEPTH_LIMIT`, 64
  in the code) and one beyond. Strings of up to three characters, over a letter in either
  case and a newline, are long enough for a repetition to reach its fixed point below and
  above a minimum of three. The budget of nine (`RegexMatchStepBudget`) turns the longest of
  them away from a pattern with three marks or more, and no other.
- *Values and texts*: each departure that either traversal looks for, in an object that is
  sound but for it; objects with two faces at the top and below an object that holds one
  twice; each emitted text with one token taken out, put in or put in place of another.
  Nesting up to two (`MAX_NESTING_DEPTH`, 1024 in the code) and one beyond. A double has two
  digits: a size is in halves, the largest safe integer is three (`SafeIntegerMax` is six
  halves), and `Binary64` rounds what lies between, some of it to an unsafe integer and some
  to infinity.
- *Scenarios of reporting*: two trials and a minimum of two make every comparison between
  records and every shortfall possible; two pieces of evidence make a class with a probe
  that was reached and one that was not. A departure is alone but where a fault is masked
  by another artifact that departs alike. Two processes make every race over a file.

- *Mappings and subjects of conformance*: two authorizations of one interface that differ in
  scheme, host, port, family of address and redirect bound, so that a redirect may lead into
  the other's terms and back; bounds of zero to two are the smallest of which one is passed
  after a change of authorization. The spellings are one of each form that `parseAddress`
  rewrites (mapped, compatible, abbreviated, zoned, malformed). The subjects are those of
  the repository's own tests, each defect that the kit has an assertion for, and each flaw
  of a fixture that it looks for; the four shared scenarios take every deviation.

- *Worlds of the gates*: for each gate one world in which it passes and each departure that a
  check looks for, alone or, where one could hide another, with that other. Two lockfiles
  share a package, of which the first holds a version that the cache has and one that it has
  not; three names open at once in one lockfile are one more than may be asked at a time, and
  `MaxRetries` is the number of tries, two where the code has three.

Every property has a mutant in `PROJECT.json`: a definition of the model changed as a
plausible bug would change the code, under which the property fails. The mutated
forms stand in the modules, before what they mutate, marked as such.

### Fairness

`ProcessGroup`: each party's event loop keeps running while its process lives (weak
fairness on every handler and on each kill loop's next attempt). Nothing is assumed of
the target, of what the caller asks for or of who dies when. `PortCall`: microtasks
run, so the code after a settled await does; the mechanism, the checks and a supplied
port may never settle. `CommandProbe` and `McpProbe`: timers fire and microtasks run;
of the child only what `GroupedChild` promises of one that was stopped is assumed,
and that promise is the one checked in `ImplementsGroupedChild`; nothing is assumed of
a server's answers or of the file system. `ApiProbe` and `Conformance`: microtasks
run, the elapsed timer fires once it is armed, and a socket destroyed with its controller
reports its end; a server, and a port that an author supplied, may never answer. All other
modules are computations or sequences of an author's or operator's steps; their properties
are safety and they need no fairness. Of the registry that `Gates` asks nothing is assumed: a
request may never be answered.

## What is proved

Every theorem is about the specification for every value of its constants, from the
named assumptions only; TLC evaluates each of those on the runs. Where a property is
not inductive, the invariant that carries it was first checked by TLC on all states of
the property's run.

### The three parties of a process group: `AdapterProofs`

For every set of processes and streams, every bound on the kill loops and with watchdog
crashes or without. Assumed: the leader is one of the processes, a kill loop makes at
least one attempt, `WatchdogMayCrash` is a Boolean.

- `HonestInvariant`, `TypeCorrect`, `HonestEndHolds`: `Spec => []` of `HonestInv`, `TypeOK`
  and `HonestEnd`; `LeftoversSurviveHolds`: `Spec => LeftoversSurvive`.
- `ImplementsChildSteps`: the safety half of the refinement. Under the mapping of
  `ProcessGroup` every step of host, watchdog, target or kernel is a step of
  `GroupedChild` or a stutter.
- `WatchdogOutlivesGroupHolds`: `Spec => []WatchdogOutlivesGroup`, for a finite group
  of at most `MaxTries` processes (`FewProcs`, a hypothesis of the theorem).

`HonestEnd` is not inductive. It says of a state that the leader *exited*; that no later
step turns the report into a lie depends on who could have killed before it. `HonestInv`
adds: `KillersKnown`, a kill loop runs only once the lifeline is destroyed or the start
faulted, so a leader that is killed was killed after the host could last read a report,
or is one whose exit is never reported; `ReportsTrue`, an `exit` report in flight is
about a leader that had exited, and only such a report makes an end `own`; `EndKnown`, a
closed child has an end and an end by kill has a kill; and `ReleaseHeld`, after a release
nothing was killed, and as long as the watchdog runs it has the release or will read it
before it can see the lifeline's end. `LeftoversSurvive` rests on the last: every action
that can kill contradicts one of its conjuncts.

`WatchdogOutlivesGroup` is a counting argument. An attempt leaves the group standing only
where a child was caught in mid-fork, and that child took an identity that was free;
`WatchInv` says that a loop has an attempt left for every identity still free. `FewProcs`
is therefore needed and tight: with three processes and two attempts TLC finds the
property violated. The code makes 100 attempts (`process-group.ts:332`), so the theorem
covers targets that fork less often than that while they are being killed.

### Port calls and the adapters: `PortCallProofs`, `CommandProbeProofs`, `McpProbeProofs`

For every set of streams and artifacts, with no assumption.

- `RaceDecidesHolds`: `PortSpec => []RaceDecides`, from `PortInvariant`. `RaceDecides`
  compares an answer with what happened before it; `PortInv` keeps what is still to be
  told apart: as long as a race is open its call is pending and nothing aborted, and what
  settled it is what the answer follows from.
- `ProbeIsPortCall`, `McpProbeIsPortCall`: a probe of either kind implements `PortCall`,
  step by step, so `RaceDecides` holds of a probe whatever its mechanism does. The
  adapters' proofs take `PortInv` from there and do not prove it again.
- `WholeObservationHolds`, `NothingLeftBehindHolds` and `ObeysChildHolds` of the
  command-line adapter, from `ProbeInvariant`; `AnswersCorrelatedHolds` and `McpObeysChild`
  of the MCP adapter, from `SessionInvariant`.

What the adapters need besides: that a kill while a run is in progress is the timer's or
the cap's (`RunKnown`), so the `close` after it is never read as a whole observation; that
a result is being read only of a run nothing cut short, and is told only once every
artifact of it was read whole (`ResultWhole`); that a session awaits the one request its
handshake is at (`SessionKnown`), and that its group is killed only once the session broke
(`ServerKnown`), so that an end heard before is the server's own.

The theorems compose. `ImplementsChildSteps` gives the adapters the child they are modelled
over; `ObeysChildHolds` and `McpObeysChild` give `ProcessGroup` the caller it assumes, one
that never stops a child it released and releases none before its close.

### What a mapping names: `AdapterProofs`

For every mapping, request, resolver and set of redirect locations. `ProbesAssumption` and
`MappingsAssumption` say what these are, before any schema has read them (an address is any
sequence of pieces, each any number; a port or a cap any integer), and that a question put to
a mapping is of its mechanism.

- `ParsedMeaning`: `ParseAddress` reads an address exactly when it names a machine, and the
  canonical form that it yields, a quad or eight groups, stands for that machine. `Means` takes
  a group's place from the nearer end of the spelling; the parser fills the gap of `::` from the
  left, so the proof follows both group by group, and a dotted tail as two of them.
- `SameMachine`: of two addresses that are read, the canonical forms are equal exactly when the
  machines are. No quad has the form of another's: two octets are told from their group
  (`JoinedOnce`), and eight groups are never what a quad is mapped to, which is where the
  rewriting of `::ffff:` is needed.
- `OnlyWhatIsNamedHolds`: `ConformanceSpec => []OnlyWhatIsNamed`, from `TargetRuling`,
  `CommandRuling` and `ToolRuling`: the decision of each mechanism allows exactly what some
  authorization names. The first place that allows is the least of a set (`LeastPlace`, by
  well-foundedness), so a mapping may be of any length.

`OnlyWhatIsNamed` looks at the targets that were visited, and a next hop depends on more.
`HopsInv` adds that as long as the chain runs its last target was allowed, that the
authorization in force is one of the mapping that names it, and that there is one hop more than
there were redirects: without the last two the bound `maxRedirects` of a redirect that is
followed would be that of an authorization unknown. `RulingInv` adds that what an operator was
told is the decision over the mapping that was parsed. A tool mapping needs more than its type:
that one interface is one server is what the parse has checked (the comparison of identifiers
in `Conforms`), and where it has not, a second server of an interface would be named and never
reached.

### Scoring: `ScoringProofs`

For every set of oracles, filings and settings and every policy, from `OraclesAssumption`
(a contract's oracles are a sequence without repetition), `PolicyAssumption` (the caps and
minima are naturals, the threshold a rational of at most one) and `AnswersAssumption` (an
answer's fields agree: an undeclared check addresses no step, an ambiguous step matched).

- `RuleTableTotal`: of the twenty rows one always holds and the first that holds is
  applied; `ResolvedState`: resolution returns a declared state, waived or not;
  `ConditionShows`: a condition found on an outcome leaves an invalidating state on it,
  but for the two that have no state of their own, and but for a canary that nobody
  witnessed.
- `ScoreInvariant`; `ScoreTypeCorrect`; `NothingMaskedHolds` and `StrictSparesHolds`, together
  `ConditionsTellHolds`; `NoRetryImprovesHolds`.
- `EarnedInvariant`; `CatchIsWitnessedHolds`, `MissIsVisibleHolds`.

`NothingMasked` speaks of a verdict and rests on every stage before it, so `ScoreInv`
carries what each left behind: the state of a vote is that of an outcome which was
recorded; an outcome with a condition shows it (`ConditionShows`, through the rule
table); only a signed probe has a witness, so a canary that qualifies is unwitnessed,
which closes the exception of `ConditionShows`. The ladder's rows are then read one by
one. `NoRetryImproves` needs that every row of the Invalid rung is monotone in the
outcomes and the pooled conditions: a trial adds to both and takes nothing away.

`CatchIsWitnessed` and `MissIsVisible` go the other way, from the verdict to what a trial
really showed. `EarnedInv` adds to `ScoreInv` that the open trial's witness is read
rightly (`ReadingTrue`), that a catch of the designated oracle, in the open trial or in a
vote, was witnessed (`CatchOpen`, `VotesEarned`), that a miss is either still to be
resolved or shown on an outcome (`MissShown`), and that only an honest waiver waives. Both
are stated of a designation that pairs (`Paired`): the designated oracle is declared. The
code does not see to that by itself, see Findings.

### The command line: `ScoringProofs`

For every set of processes, every sequence of scenarios and every way in which paths resolve to
files, from two assumptions. `ScenariosAssumption`: a command line is a sequence of tokens, no
file was opened by a process before it started, and what a command line names has a place on
the disk, with a file there or not. `FilesAssumption`: a file which is said to fit the schema
of its flag has the shapes of that schema, as far as anything rests on them (`Fits`: what is
ordered is ordered by numbers, votes and oracles are sequences, a threshold and a floor are
rationals).

- `CommandLineHolds`, the inductive invariant; `InputsKeptHolds`, `ExitTellsHolds`.
- `AnswersHold`, the stronger one; `StrengthEarnedHolds`, `MintedIsCheckedHolds`,
  `OrderFreeHolds`.

Neither `InputsKept` nor `ExitTells` is about one step. That an input is kept needs that every input was held
against `--out` before the first was read, that the file which was not there at the check may
have been made since but was not there at the start either, and that a process opens no other
file than the one at its `--out`: `CheckedInv` and `OpenedInv` say so, through every state in
which the process can be killed. That the loop over the inputs ends with all of them needs that
they are a sequence, for every command line that parses (`RunWellFormed`, `InputsAreListed`);
the parser is a recursive function over the tokens, and the argument is by a least turn at
which what it keeps were not well formed.

An exit code is decided by the call and told after the write. `SoundResult` says which codes a
call may return with which artifact, and holds whatever was read, because a score's code and
its artifact come from one rung of the ladder (`JudgedIsSound`, which rests on `RungOf`).
`DeliveryInv` carries it to the end of the write, with the file that the process emptied
either still its own or taken by a rival; once a process is done, the steps of the others
leave what it tells true (`OthersKept`). Of a rival's file nothing is promised, and
the statement says so (`Rivalled`).

What an artifact says is about data that some file held when it was read, and the file may have
changed since. `AnswerInvariant` therefore adds three parts to `CommandLineInvariant`. `GotInv`:
whatever was read under a flag and arrived, fits it. `AnsweredInv`: what came back is the result
of the call on what was read. `FileInv`: a file is the one of the start or what a process opened
and perhaps wrote, which is why `GotInv` is preserved when one process reads what another has
just written: what `score` mints fits `--evidence` (`MintedFits`) and nothing else (`Arriving`).

The three theorems then speak of one call, or of two, for any number of records, artifacts, votes
and oracles:

- `StrengthEarned`: nothing refused the artifacts, so they are of distinct probes, and each is
  what its own votes reduce to under the policy that was given. The class's count of probes is
  then one of places in the list of artifacts (`FloorOfAll`), and the cross-multiplied
  comparison of `decide` is the one that the property makes. Dominance is by cases over what
  either artifact's vector holds (`DominanceEarned`).
- `MintedIsChecked`: records of `score` are sorted by a stable sort (`InOrder`), whose result
  is a permutation of the places (`InOrderHolds`: the number of places before each is a
  bijection). What `ingest` and the gates found in a record of any trial is among the
  conditions of the artifact, so an artifact that carries none of them rests on records that
  have none; and each clause of `verifyInput` is met by what `emit` writes.
- `OrderFree`: records of distinct trials have one order by their trials, so a list and its
  reverse are sorted alike (`InOrderReversed`). Records that share a trial are not sorted
  alike, but in either order the score finds that they disagree, exits with 3 and mints
  nothing (`ReversedTrials`, `DisagreeingScore`). Artifacts of one probe twice are refused; the rest of an aggregate reads a
  set of artifacts, a set of probes, or the first of artifacts that agree
  (`ReversedAggregate`).

### Check evaluation: `CheckAndGatesProofs`

For every depth, arity, set of keys and number of rows (`BoundsAssumption`: the bounds are
naturals, and the mark of a row without the key is no key).

- `CheckWalkInvariant`; `CheckTypeCorrect`; `DecidedStaysDecidedHolds` and
  `OnlyADefectOutranksHolds`, together `DecisionsEarnedHolds`: the walk's properties.
- `CoverageIsBijectionHolds`: over expected rows with a key each and no key twice,
  `coversByKey` holds exactly when a bijection pairs them with the actual rows by key.

The properties speak of the resolution that the walk ends with; `WalkInv` says the same
of every resolution that a frame holds (`Sound`), that a frame which waits for the one
above it has an operand to come, and that no node is folded over nothing. `FoldedSound`
then carries soundness from operands to the node, one case per kind of connective, and
one lemma per kind of leaf starts it.

### Order of the plan and selection: `ContractProofs`

For every number of steps, set of plans, record and set of values (`PlanAssumption`,
`RecordAssumption`: plans and observations have their shapes, and the mark of an absent
value is no value).

- `BindingInvariant`, `CompiledPlansOrderedHolds`: compilation's components and scoring's
  tiers agree. No step of a plan that compiles is left out of the tiers, and a plan
  refused for a cycle has a capture that leads back to its own step.
- `ResolveInvariant`, `CausalEvidenceHolds`: what a step selects comes after its anchor
  and after the source of what it uses, sends the captured values, and resolving again
  changes nothing. This holds of plans with cycles and of records in any order too.

The first is a proof of Tarjan's algorithm as `bindings.ts` runs it, up to what the code
uses of it. `BindingInv` has the shape of the walk (`StackSorted`, `FramesOnStack`: the
stack is in the order of discovery and the frames are on it; `EdgesWalked`: an edge not
followed is in a frame's remainder; `AssignedClosed`: a component that is closed leads
nowhere else), and the two sides of a low link: `LinksCover`, it is below everything on the
stack that its segment leads to, and `LinksReach` with `StackReaches`, its step is reached
from there. The first side makes a closed component closed, the other makes it connected
(`ComponentsReach`). `CyclesCaught` then says of every set of steps that lead on within it
that some capture of it has both ends in one component. A cycle through clauses alone would
escape the code's test, which looks at captures only; it cannot occur, because
`checkNestedTemporalClause`, which runs before, refuses a clause on a step that is itself
anchored. Kahn's tiers stop short exactly at such a set, which is the agreement.

`CausalEvidence` is about recursive functions: `Selections` unrolls the code's recursion as
often as there are steps. Induction is not available, so every argument is by a least
counterexample (the library's `WFMin`), and that the unrolling suffices is a chain of sets
that grows by at least one step per turn or rests (`ChainExists`, `ChainRests`). `ResolveInv`
says that the tiers which are done are closed under what they depend on, and that a binding
resolved in one of them still resolves to the same value (`PlacedStable`), since later tiers
change nothing that it reads.

### Lineage and coverage: `ContractProofs`

For every set of drafts, bodies and caps. `DraftsAssumption` says what fields a draft has, and
nothing of its contract: what the schema asks of that is part of the model (`ContractFits`),
and `FitInv`, a conjunct of `AuthoringInv`, keeps that what was parsed fits it, through every
later step, `Rearrange` included, after which the contract is written and not yet parsed.
`FitsShaped` takes out of it what the proofs read: what a contract lists is a sequence, a body
requires finitely many keys, a collection is bounded by a number, and no step is named `Bound`,
the name under which a witness's own pointers stand. `CapsAssumption` says that a cap is `null`
or one number.

- `ReportExactHolds`: `AuthoringSpec => []ReportExact`. `validateLineageChain` makes nine
  local checks, none of which follows a chain; the report is empty exactly when what was
  presented is the ancestry of one artifact, each revision once.
- `CoverageVacuousHolds`: `AuthoringSpec => []CoverageVacuous`. `relevance.ts` and
  `satisfaction.ts` are written apart; rule by rule, what the one leaves out the other finds
  (`IrrelevantSite`), so a gap that is not reported is none.
- `NoDeadEvidenceHolds`: `AuthoringSpec => []NoDeadEvidence`. Compilation judges by the
  declarations of an operation whether a pointer can find anything; whatever it lets through,
  some answer that conforms to those declarations carries, and where a witness compares it,
  pre-flight's projection leaves it.

The last rests on what `CompileFault` is at the state in which a contract compiled
(`CompiledInv`), and on a contract in the order of its author being parsed before it is
compiled again (`ParsedStep`). `AnswerCarries` builds the answer: every declared key with a field
below it, or one element more than the index that is asked for, which the bound of a collection
leaves room for. That the pointer's step has one operation, which is among the contract's, is
`OnlyIn`; that a witness's checks were made for every operation is `FaultlessWitnesses`.

An ancestry is a least fixed point, the counts are numbers that anybody may have edited, and
the chain is in any order. `ArchiveInv` says what an archive keeps through minting, revision
and editing: nothing is archived twice, and a parent was archived before its child, so that no
ancestry goes in a circle whatever the counts say. The nine checks are a statement about the
set of what was presented (`LocallyWholeSet`). From there one direction is three least
counterexamples: the first archived artifact whose count is not that of its ancestry would have
a parent earlier still (`WholeCounts`); the least count that two members share would be a
root's, or that of two revisions of one parent (`WholeInjective`); and going down from the
greatest count no count is left out (`WholeIsAncestry`), so every member is met on the way. The
other direction is that of two ancestors of one artifact one is the other's ancestor
(`AncestryLinear`), which leaves room for one root and for no fork. The contract's coverage is
read once and its operations are listed in another order later: `GapsInv` holds because
`Rearrange` begins anew.

### Pre-flight: `PreflightProofs`

For every collection of settings (contracts, lists of defects, worlds, ways to arrive), any
number of wrong answers and of observations handed over, from `SettingsAssumption`: what a
contract and its probes list is a sequence, they name finitely many legs, and the leg that a
wrong answer names is none of them.

- `RunInvariant`; `OutcomeEarnedHolds`, `ResetProvenHolds`.

`OutcomeEarned` speaks of the answers that were given; the reducer looks them up by leg
identifier, among observations that came in any order, some of them wrong. What connects the
two is that an identifier stands for one leg: `Apart`, which `planPreflight` tests, and
`Kept`, that an answer names its own leg or none. So an answer that is found for a leg is the
answer to that leg (`AnswerIs`), and since a pass satisfies every presence check, every leg has
one (`AllAnswered`). Only then do the other checks say what they seem to: that the
leg of the fired check is the defect's own (`FiredShows`, through `DefectsApart`), that the scoped
check looked at another leg of that operation (`ScopedElsewhere`), that the legs of the
sensitivity check are that operation's (`SensitiveShows`). `ResetProven` adds the order of the
control legs: `ChangeShows` keeps that without a reset the fixture is dirty from the mutating
leg on, so that the last read cannot show what the first one did.

That minted identifiers never are the reason for a refusal is a statement about the plan alone
(`MintedApart`). `Mint` takes the first free spelling among one more than there are identifiers,
and there is one by the pigeonhole principle (`MintIsFree`); so a repetition in the plan is one
among the declared legs and the reset's. The plan's legs are folds again
(`FlattenSeq`), with the same kind of argument (`FlattenHolds`, `FlattenApart`).

### The gates: `CheckAndGatesProofs`

For every sequence of worlds, every set of replies and every limit on requests, from
`GatesAssumption` (at least one request at a time and one try) and `WorldsAssumption`: what
the code reads as a list is a sequence, a time is a natural number, a pattern asks for some
words (`scripts/consumer-pattern.ts` refuses an empty one), and a tree is a tree: a file is no
directory, and what has a path lies in directories under each part of it.

- `AuditInvariant`, `LockfilesAuditedHolds`: the exit of an audit is earned and the registry
  asked sparingly.
- `TreesReadHolds`, `OwnershipHeldHolds`, `DirectionHeldHolds`, `BoundaryHeldHolds`, together
  `TreesHeldHolds`: what a gate over a tree passes.

An exit says something of all lockfiles, while a run decides one at a time and forgets it.
`AuditInv` keeps what it must not have forgotten: `AuditTold`, that the one Boolean `passed`
says of every lockfile that is closed whether each of its entries is vouched for, and that
`pending` holds exactly the rows which reached nothing in any of them; `AskedInv`, that the
requests of a lockfile are those of its first entries with an open name, each in a state that
its tries and times agree with, so that a lockfile closes over answers and refusals only. The
vouching itself is said without the code's rules (`Vouched`), and the lemma that an entry
breaks nothing exactly if it is vouched for is where the rules of the two audits are read.

`Walked` keeps that `scanned` is what the scans up to `at` found, and that none of them
failed. What remains is about operators. `ScanIsWhole`: a scan that does not fail has read
every file below its path that the section asks for, passed no link there, and started from
one for `dependency-direction` only. `FirstIsNarrowest`: over rows that `NarrowerFirst` accepts the first that matches
is the narrowest, whatever else the rows are, so that the order decides nothing that the
section did not want. And that a pattern which occurs in a line, or across two comment lines
that follow each other, occurs in what `Runs` makes of the file. `Runs` and the text of a run
are folds (`FoldLeft`, `FlattenSeq`), that is recursive functions over the length of a
sequence; as in `ContractProofs` the arguments are by a least counterexample
(`LeastOf`): if a part were not where the whole has it there would be a shortest prefix
in which it is not, and one turn of the recursion finds it there (`FlattensExists`,
`PartStandsIn`, `OccursInWhole`).

## Findings

- *A partial result is not a schema mismatch* (run `partial_result`). The comment at
  `src/src/adapters/port-boundary.ts:154` says that a partial result of a mechanism
  fails like any other schema mismatch. `assemble` is called outside every `try` and
  reads into the result, so a result without its fields leaves `runPortMethod` as a
  `TypeError`.
- *A second filed finding withdraws the first* (run `filed_finding`). The comment at
  `src/src/core/score/outcome.ts:306` says that a filed finding survives a check that
  examined nothing. `score.ts` hands `resolveOutcome` no cited finding at all when two
  or more cite one oracle, so on a clean control one finding is a false positive and
  two are none.

Also noted, without a finding or a run of its own:

- Any one invalidated attempt already makes a run Invalid through the outcome that
  invalidated it, so the re-execution cap never decides a verdict alone (`NothingMasked`
  states it).
- Nothing in `src/src` calls the audit of a brief's sequence markers:
  `application/seal.ts:22` seals whatever compiles, `auditBriefScripting`
  (`core/seal/scripting-audit.ts:47`) is reached from tests only, and
  `core/schemas/sealed-evaluator-brief.ts:92` says that the audit reads the bound after
  generation.
- The collision check of `--out` covers the inputs that are named, not files below
  `--corpus-root`; and a file that comes into being after its check can be overwritten.
  `InputsKept` speaks of named inputs that were there at the start.
- A contract without oracles and a probe that does not qualify mint an artifact that
  names the probe as excluded. Comments in `core/aggregate/aggregate-strength.ts:99` say
  that the engine never writes one with an exclusion, and aggregate refuses it:
  `MintedIsChecked` excepts it.
- `score` holds the pre-flight verdict's outcome only, not its run or its contract,
  against the records.
- In pre-flight a check of scope accepts a clean leg whose answer is insufficient, and a
  reset that does nothing passes when the sensitivity legs had already dirtied the fixture;
  `ResetProven` is therefore stated of a fixture whose first read was clean.
  Observations of probes that were not planned are ignored.
- `checkBoundElementScope` walks the oracles' checks only, though
  `core/schemas/pointer.ts:233` speaks of a compile-time check of every pointer.
- The comment at `core/ingest/ingest.ts:173` says that the quotation audit indexes
  observations into a last-wins map; it keeps every observation that shares an identifier.
  The header of `core/emit/private-artifact-digest.ts` says that it has no caller yet;
  `application/score.ts` calls it.
- The conformance kit reads the first authorization of an interface and executable
  (`commandAuthorizationFor`) where the adapter tries each until one allows, and a fixture
  that is refused for another reason than its assertion's passes the denial: an
  environment-key request whose subcommand is not permitted, an unmapped executable under
  an unmapped interface. `VerdictExact` is stated of mappings that name each pair once and
  of the fixture flaws that the kit looks for.
- Of several authorizations that name one interface, executable and subcommand path, the
  first one's environment keys are the ones permitted: a later one that allows the same command
  with the keys that were asked for is not tried (`createCommandLineAdapter` checks the keys
  after `evaluateCommandTarget` has decided). `NamedBy` says so.
- `hasNestedQuantifier` strips the mark of the group it looks at (`?:`) and not those of
  groups inside it, so `^((?:a|b)c)+$` compiles and every test of it is refused at scoring
  as a nested quantifier: its comment at `core/evaluate/operators.ts:182` speaks of a group's
  own mark only. `RegexExact` allows a refusal for cost, which this is told as.
- A behaviour may list an oracle that its contract does not declare
  (`core/schemas/eval-contract.ts:68` is an identifier and nothing more), and
  `designatedOracleIdOf` (`core/score/score.ts:175`) designates it. No outcome of the run is
  then the designated one's. The settings of `score_stage` contain this case;
  `CatchIsWitnessed` and `MissIsVisible` are stated of a designation that pairs, and TLC
  finds the statement without that condition violated.
- Two `exact` rows of one path are accepted by `dependency-direction`, although the text at
  `src/scripts/check-dependency-direction.ts:218` says that a row which an earlier one already
  matches in full is refused; the later row decides nothing. `NarrowerFirst` is the check that
  the code makes, and `DirectionHeld` reads the first of such rows.
- The header of `src/scripts/discover-source-files.ts:22` says that a walk fails closed on "a
  symlink (whose target could sit outside the root, or outside the repository altogether)".
  `discoverSourceFiles` hands the root itself to `readdir` (36), which follows a link, and
  tests the entries below it only (46). A root of `dependency-direction` that is a link to a
  directory is therefore read under the root's name, and the gate may exit 0 on it: of the
  worlds of `check_and_gates` in which `src` is such a link one ends in 0, and one in 1 for a
  file behind it. `package-boundary` and `field-ownership` refuse a path that is a link
  (`src/scripts/scanned-paths.ts:162`) and follow one above it, since `lstat` looks at the
  last segment only: with `src` a link, `package-boundary` over `src/core` may exit 0.
  `TreesRead` says what holds: nothing is passed over below a path, and a path is itself a
  link for `dependency-direction` alone.
- The comment at `src/scripts/gates-cli.ts:836` says that a tree which could not be read to the
  end takes the gate's own failure code; `dependency-direction` refuses it
  as a usage error (`src/scripts/check-dependency-direction.ts:437`), the other two gates over trees answer 1.
- Making a directory over an existing file yields `EEXIST`, which is not among
  `PATH_ERROR_CODES`, so that the exit code is that of a fault and not of usage.

## What is only model-checked

- Liveness under fairness and everything that needs `ENABLED`: `AbandonedGroupDies`, the
  liveness half of the refinement (`ImplementsGroupedChild`), `PromptAbort`, `RunSettles`,
  `SessionEnds`, `NothingInFlight`. The prover has no rules for them.
- Properties of what a `RECURSIVE` operator computes: `RegexExact` and `DigestExact`, whose
  modules declare recursive operators and are out of the prover's reach.
- `CompiledPlansRun` and `BriefReadsAlone`, which speak of everything that compilation checks
  at once. The last needs every check to be one and the same for all orders
  in which a contract may be written, that is, an induction for each sequence of it.
- `VerdictExact` of conformance. It is exact only over the subjects of its run, each of which
  breaks one rule in a way that the kit's requests reveal, so it is not true of every set of
  subjects.

`TypeCorrect`, `CheckTypeCorrect` and `ScoreTypeCorrect` are proved and need no run.

## What is left out of the modelled parts

- Reuse of a process id by the kernel after a group is gone: a later attempt of a
  kill loop could reach a stranger. The code cannot tell either.
- A process that left the group with `setsid` survives by design. So does the group
  when the watchdog was itself killed and the host is gone too, or never learnt the
  target's pid; `Uncovered` names these two states and `AbandonedGroupDies` excepts
  them.
- Windows and the single executable application, where the child is Node's own: only
  in `GroupedChild`, as `direct`.
- The text of errors and messages, environment and argument building, byte decoding.
- Corroboration and the identifiers an outcome lists, which decide no state. In
  `ScoreStage` the qualification gate's legality checks are one flag; `ExpressionChecks` has
  them in full. Uniqueness of oracle and finding
  identifiers, which the contract's and the record's checks ensure, is assumed. A call
  of the stage with no trials, which the code answers with neutral values and the
  command line never makes, is left out.
- The five rows of FAIL that read a disclosure or a lineage chain: `score.ts` has no
  source for them and passes them neutral. So too an unsupported disposition, which
  reaches no row of the ladder.
- In `Compile` the budget of characters of one reference; in `Authoring` what a
  text says and the audit of prose, which are flags. Scoped resources
  are always refused by `compile`, so `seal`'s guard against duplicated references has
  nothing to find behind it.
- In `TargetPolicy` the digits of an address piece: a piece is its number, or malformed. In
  `Conformance` titles and details of an outcome, and the subjects' own servers and files.
- In `BoundedRegex` the characters of a pattern's source (its length, escapes, classes and
  counts are in its tree), named and forward references beyond a number, what one character
  class admits, and greediness, which decides no answer. Its work counter is not counted: it
  may run out in any test.
- In `Canonical` the characters of a token, UTF-8, and the hash itself: a text stands for its
  digest. `digestDirectory` has no caller in the repository's source and is left out.
- Elsewhere a digest stands for what was digested, which `DigestExact` justifies up to the
  hash being injective; and rates, thresholds and floors are rationals where the code has
  floating point; rounding is monotone, and a rate of the sizes at hand is
  compared with a threshold, never added up.
- In `TreeGates` how tokens are read off a text: a file tells its dependencies, lines and marks,
  or its scanner gives up. In `Gates` the grammar of licence expressions (an entry has the sets
  of identifiers that meet its own), the JSON of lockfiles and configurations, what is printed,
  and the three gates over documents.
- In `CommandLine` what compile and seal write is opaque: a contract that one process compiled
  is not read as another's `--contract`.
- Freezing of artifacts, rendering of diagnostics and of the coverage table.

## Plan

Done: process groups, port calls and both adapters, scoring, check evaluation, the order
of the plan and selection, pre-flight, compilation, seal, coverage and lineage, ingest,
qualification, emission, aggregation, the command line, patterns, digests, target policies, the HTTP probe and
the conformance kit, the gates over lockfiles and trees, with the theorems above. Next,
in order of what matters most:

1. The half of `VerdictExact` that holds of every subject as a theorem: one which broke no rule
   never fails.
2. The composition of selection, evaluation and `ScoreStage`: a check's resolution
   and a step's selection as derived inputs of the score stage.
3. The gates over documents, as far as they decide anything by what they read.
