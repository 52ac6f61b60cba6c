------------------------------ MODULE MCReporting ------------------------------
(***************************************************************************)
(* Two trials of one probe that are scored, artifacts that are aggregated, *)
(* and what departs from them in one place; and pairs of processes that    *)
(* share a file.                                                           *)
(***************************************************************************)
EXTENDS CommandLine

Seen(name) == [step |-> Q!Observed, channel |-> "response-body", input |-> "none",
               artifact |-> Q!NoArtifact, tail |-> <<name>>]

Shape(keys) == [required |-> keys, permitted |-> {}, types |-> [k \in keys |-> "string"]]

Lookup ==
    [iface |-> "main", id |-> "lookup", kind |-> "api", channel |-> "response-body",
     artifact |-> Q!NoArtifact, artifacts |-> {}, body |-> Shape({"name"}), collections |-> <<>>,
     request |-> [c \in Q!TransportChannels |-> Shape(IF c = "query" THEN {"id"} ELSE {})],
     volatile |-> {}, resetPointers |-> {}, signature |-> "GET"]

Compares(name) ==
    [op |-> "equality", operands |-> <<Q!At(Seen(name)), Q!Literal("text")>>, within |-> 0,
     under |-> "nothing", pattern |-> <<>>, key |-> "name"]

Contract ==
    [digest |-> "c", schema |-> 1, oracles |-> <<"O1", "O2">>,
     behaviors |-> <<[id |-> "b", severity |-> "critical", oracles |-> <<"O1">>]>>,
     rubrics |-> FALSE, gap |-> "none", ops |-> <<Lookup>>]

Probe ==
    [id |-> 1, class |-> "defect", clean |-> FALSE, route |-> "controlled-mutation",
     verified |-> TRUE, sources |-> {"controlled-mutation"}, behavior |-> "b",
     signature |-> <<[kind |-> "api", identity |-> "GET", channel |-> "response-body",
                      condition |-> <<Compares("name")>>, disjuncts |-> {},
                      selector |-> {[channel |-> "query", key |-> "id", form |-> "value"]}]>>]

Observation ==
    [id |-> "a", shows |-> "response-body" :> {"text"}, home |-> TRUE, chosen |-> TRUE,
     admitted |-> TRUE, resolves |-> "true"]

Finding ==
    [id |-> "f", type |-> "defect", oracle |-> "O1", own |-> TRUE, cites |-> {"a"},
     quotes |-> {<<"response-body", "text">>}, severity |-> "critical", sure |-> TRUE]

Stance(oracle, stance) == [oracle |-> oracle, stance |-> stance, cites |-> {"a"}]

Record(trial) ==
    [trial |-> trial, run |-> "run", contract |-> "c", configuration |-> "k",
     mode |-> "contract-scoring", recommendation |-> "PASS", observations |-> <<Observation>>,
     findings |-> <<Finding>>,
     dispositions |-> <<Stance("O1", "violated"), Stance("O2", "held")>>, judged |-> <<>>,
     reference |-> <<>>,
     answers |-> [o \in {"O1", "O2"} |-> [check |-> "true", steps |-> "some-resolved",
                                          ambiguous |-> FALSE]]]

Manifest ==
    [run |-> "run", contract |-> "c", configuration |-> "k",
     observed |-> [l \in AllowLists |-> {"x"}], allowed |-> [l \in AllowLists |-> {"x", "y"}],
     violation |-> <<>>, admitted |-> {}]

Policy == [minimum |-> 2, threshold |-> <<1, 2>>, cap |-> 0, floor |-> "material"]

Floors == [class \in StrengthClasses |-> IF class = "defect" THEN <<1, 2>> ELSE <<>>]

-----------------------------------------------------------------------------
File(value) ==
    << [whole |-> TRUE, dup |-> FALSE, digest |-> "kept", arrives |-> Sound, value |-> value,
        by |-> 0] >>

(* The two trials of probe `id` with something changed in each.            *)
ScoredWith(probe, records) ==
    LET handed(value) == [arrives |-> Sound, value |-> value]
    IN Scored([records |-> [i \in DOMAIN records |-> handed(records[i])],
               manifest |-> <<handed(Manifest)>>, configuration |-> <<handed("k")>>,
               contract |-> handed(Contract), probe |-> handed(probe),
               preflight |-> handed([passed |-> TRUE, fixture |-> "x"]),
               policy |-> handed(Policy), privates |-> <<>>, corpus |-> "corpus",
               designated |-> "none"]).artifact[1]

(* A record in which nobody reported what there was to see, one in which   *)
(* no call was made that could show it, and one that reached no step.      *)
Silent(trial) == [Record(trial) EXCEPT !.findings = <<>>]

Idle(trial) ==
    [Silent(trial) EXCEPT !.observations[1].chosen = FALSE]

Fruitless(trial) ==
    [Silent(trial) EXCEPT !.observations[1].resolves = "false",
                          !.answers["O1"].steps = "all-none"]

Control == [Probe EXCEPT !.class = "zero-action", !.clean = TRUE, !.route = "clean-control",
                         !.sources = {}, !.signature = <<>>]

Trialled ==
    "caught" :> <<Record(1), Record(2)>> @@ "missed" :> <<Silent(1), Silent(2)>>
    @@ "unmade" :> <<Idle(1), Idle(2)>> @@ "short" :> <<Record(1)>>
    @@ "unreached" :> <<Fruitless(1), Fruitless(2)>> @@ "clean" :> <<Silent(1), Silent(2)>>

(* An artifact for each probe of two and each way its trials may go.  It   *)
(* is `made`, and the disk that holds some is `kept`, wherever they go.    *)
MadeOfTrials ==
    [kind \in DOMAIN Trialled |->
        [id \in 1 .. 2 |->
            ScoredWith([(IF kind = "clean" THEN Control ELSE Probe) EXCEPT !.id = id],
                       Trialled[kind])]]

DiskOf(made) ==
    "r1" :> File(Record(1)) @@ "r2" :> File(Record(2)) @@ "man" :> File(Manifest)
    @@ "cfg" :> File("k") @@ "con" :> File(Contract) @@ "pro" :> File(Probe)
    @@ "pre" :> File([passed |-> TRUE, fixture |-> "x"]) @@ "pol" :> File(Policy)
    @@ "priv" :> File(<<[ref |-> "seed", digest |-> "kept"]>>)
    @@ "e1" :> File(made["caught"][1]) @@ "e2" :> File(made["missed"][2]) @@ "floors" :> File(Floors)
    @@ "draft" :> File("fine") @@ "below/seed" :> File("bytes") @@ "below/run" :> File("bytes")
    @@ "r3" :> <<>> @@ "new" :> <<>> @@ "dir/out" :> <<>>

Files ==
    {"r1", "r2", "r3", "s1", "s2", "man", "cfg", "con", "pro", "pre", "pol", "priv", "e1", "e2",
     "floors", "draft", "below/seed", "below/run", "new", "dir/out"}

MCNode == [path \in Files |-> path] @@ "link" :> "e1"

MCResolve == [path \in DOMAIN MCNode |-> path] @@ "./e1" :> "e1"

MCJsonPaths == DOMAIN MCResolve

MCJoined == "dir" :> [command \in Commands |-> "dir/out"]

MCStored == "seed" :> "below/seed" @@ "run" :> "below/run" @@ "lost" :> "new"

MCEscaping == {"../seed"}

-----------------------------------------------------------------------------
Tok(text) == [text |-> text, inline |-> <<>>]

Flag(name, value) == <<Tok(name), Tok(value)>>

Alone(argv, files) ==
    [argv |-> <<argv, <<Tok("--version")>> >>, stdin |-> << <<>>, <<>> >>, disk |-> files]

Both(one, other, files) ==
    [argv |-> <<one, other>>, stdin |-> << <<>>, <<>> >>, disk |-> files]

Isolated == Flag("--isolation-manifest", "man") \o Flag("--evaluator-configuration", "cfg")

ScoringOf(records, digest, rest) ==
    <<Tok("score")>> \o FlattenSeq([i \in DOMAIN records |-> Flag("--record", records[i])])
        \o Flag("--contract", "con") \o Flag("--probe", "pro")
        \o Flag("--preflight-verdict", "pre") \o Flag("--policy", "pol")
        \o Flag("--corpus-digest", digest) \o rest

Scoring(records, rest) == ScoringOf(records, "corpus", rest)

Score(rest) == Scoring(<<"r2", "r1">>, Isolated \o rest)

Aggregating(evidence, rest) ==
    <<Tok("aggregate-strength")>>
        \o FlattenSeq([i \in DOMAIN evidence |-> Flag("--evidence", evidence[i])])
        \o Flag("--floors", "floors") \o Flag("--policy", "pol") \o rest

Aggregated(rest) == Aggregating(<<"e2", "e1">>, rest)

(* Score or aggregate over each of the disks.                              *)
Over(argv, disks) == [i \in DOMAIN disks |-> Alone(argv, disks[i])]

With(on, node, value) == [on EXCEPT ![node] = File(value)]

-----------------------------------------------------------------------------
(* What the second record may say, in a place that ingest, the comparison  *)
(* of the trials, the outcome or the ladder looks at.                      *)
Second == Record(2)

Records == <<
    [Second EXCEPT !.trial = 1], [Second EXCEPT !.contract = "d"], [Second EXCEPT !.run = "b"],
    [Second EXCEPT !.configuration = "l"], [Second EXCEPT !.recommendation = "FAIL"],
    [Second EXCEPT !.mode = "production"], [Second EXCEPT !.observations = @ \o @],
    [Second EXCEPT !.findings[1].cites = {"a", "b"}],
    [Second EXCEPT !.dispositions[2].cites = {"b"}],
    [Second EXCEPT !.findings[1].quotes = {<<"response-body", "more">>}],
    [Second EXCEPT !.findings[1].quotes = {<<"response-body", "more">>},
                   !.observations = Append(@, [Observation EXCEPT
                        !.id = "b", !.shows["response-body"] = {"more"}])],
    [Second EXCEPT !.findings[1].quotes = {<<"response-headers", "text">>}],
    [Second EXCEPT !.findings[1].quotes = {<<"stdout", "text">>}, !.findings[1].type = "note"],
    [Second EXCEPT !.dispositions = Tail(@)],
    [Second EXCEPT !.dispositions = Append(@, Stance("O1", "held"))],
    [Second EXCEPT !.dispositions[1].stance = "not-attempted", !.dispositions[1].cites = {}],
    [Second EXCEPT !.findings[1].sure = FALSE], [Second EXCEPT !.findings[1].oracle = "none"],
    [Second EXCEPT !.findings[1].oracle = "O2"], [Second EXCEPT !.findings[1].own = FALSE],
    [Second EXCEPT !.findings = Append(@, [Finding EXCEPT !.id = "g", !.severity = "low"])],
    [Second EXCEPT !.answers["O2"].check = "none"],
    [Second EXCEPT !.answers["O2"].check = "insufficient-evidence"],
    [Second EXCEPT !.answers["O1"].ambiguous = TRUE],
    Silent(2), Idle(2), Fruitless(2) >>

Manifests == <<
    [Manifest EXCEPT !.violation = <<"mounted">>], [Manifest EXCEPT !.observed["tools"] = {"z"}],
    [Manifest EXCEPT !.admitted = {"answers"}], [Manifest EXCEPT !.run = "b"] >>

Contracts == <<
    [Contract EXCEPT !.gap = "critical"], [Contract EXCEPT !.gap = "low"],
    [Contract EXCEPT !.oracles = <<>>, !.behaviors = <<>>],
    [Contract EXCEPT !.behaviors[1].oracles = <<"O1", "O2">>],
    [Contract EXCEPT !.ops[1].signature = "POST"] >>

Canary == [Control EXCEPT !.class = "canary", !.clean = FALSE, !.route = "canary"]

Probes == <<
    Control, Canary, [Probe EXCEPT !.verified = FALSE],
    [Probe EXCEPT !.signature = <<>>], [Probe EXCEPT !.route = "historical"],
    [Probe EXCEPT !.sources = {"natural"}, !.route = "historical"],
    [Probe EXCEPT !.class = "gameability", !.route = "gameability"],
    [Probe EXCEPT !.signature[1].channel = "query"],
    [Probe EXCEPT !.signature[1].condition = <<Compares("size")>>],
    [Probe EXCEPT !.signature[1].selector = {[channel |-> "query", key |-> "of", form |-> "value"]}],
    [Probe EXCEPT !.signature[1].disjuncts = {[nodes |-> {}, within |-> 0]}] >>

Policies == <<
    [Policy EXCEPT !.minimum = 3], [Policy EXCEPT !.threshold = <<0, 1>>],
    [Policy EXCEPT !.cap = 2], [Policy EXCEPT !.minimum = 1] >>

Each(on, node, values) == [i \in DOMAIN values |-> With(on, node, values[i])]

Spoiled(kept, node) == <<
    [kept EXCEPT ![node] = <<>>], [kept EXCEPT ![node][1].whole = FALSE],
    [kept EXCEPT ![node][1].dup = TRUE], [kept EXCEPT ![node][1].arrives.stamp = "other"],
    [kept EXCEPT ![node][1].arrives.fits = FALSE] >>

(* Every trial says it, so that it stands against the rest.                *)
Alike(kept) == <<
    [kept EXCEPT !["r1"][1].value.contract = "d", !["r2"][1].value.contract = "d"],
    [kept EXCEPT !["r1"][1].value.contract = "d", !["r2"][1].value.contract = "d",
                 !["man"][1].value.contract = "d"],
    [kept EXCEPT !["r1"][1].value.configuration = "l", !["r2"][1].value.configuration = "l"],
    [kept EXCEPT !["r1"] = File(Silent(1)), !["r2"] = File(Silent(2))],
    [kept EXCEPT !["r1"] = File([Silent(1) EXCEPT !.judged = <<[criterion |-> "k", scored |-> FALSE]>>]),
                 !["con"] = File([Contract EXCEPT !.rubrics = TRUE])],
    [kept EXCEPT !["r1"][1].value.mode = "production", !["r2"][1].value.mode = "production",
                 !["r1"][1].value.recommendation = "CONCERNS",
                 !["r2"][1].value.recommendation = "CONCERNS"],
    [kept EXCEPT !["r1"] = File(Silent(1)), !["r2"] = File(Silent(2)), !["pro"] = File(Control)],
    [kept EXCEPT !["con"] = File(Contracts[3]), !["pro"] = File(Probes[3])],
    [kept EXCEPT !["con"] = File([Contracts[3] EXCEPT !.gap = "critical"])],
    [kept EXCEPT !["pre"][1].value.passed = FALSE] >>

ScoreDisks(kept) ==
    <<kept>> \o Each(kept, "r2", Records) \o Each(kept, "man", Manifests) \o Each(kept, "cfg", <<"l">>)
    \o Each(kept, "con", Contracts) \o Each(kept, "pro", Probes) \o Each(kept, "pol", Policies) \o Alike(kept)
    \o Spoiled(kept, "r1") \o Spoiled(kept, "pol")

-----------------------------------------------------------------------------
Tampered(artifact) == <<
    [artifact EXCEPT !.vector["defect"][1].caught = 0],
    [artifact EXCEPT !.vector["gameability"] = artifact.vector["defect"]],
    [artifact EXCEPT !.vector = [class \in StrengthClasses |-> <<>>]],
    [artifact EXCEPT !.reduced[1].caught = FALSE],
    [artifact EXCEPT !.reduced[1].votes[1].state = "missed"],
    [artifact EXCEPT !.excluded = {7}], [artifact EXCEPT !.comparable = FALSE],
    [artifact EXCEPT !.trials.attempts = <<1, 1>>],
    [artifact EXCEPT !.inputs.policy.minimum = 1], [artifact EXCEPT !.version.mode = "production"] >>

Evidence2(made) == <<
    made["caught"][2], made["unmade"][2], made["unreached"][2], made["short"][2], made["caught"][1], made["missed"][1],
    [made["caught"][2] EXCEPT !.inputs.corpus = "other", !.version.corpus = "other"],
    made["clean"][2] >>

Floored(floor) == [Floors EXCEPT !["defect"] = floor]

AggregateDisks(kept, made) ==
    <<kept>> \o Each(kept, "e2", Evidence2(made)) \o Each(kept, "e1", Tampered(made["caught"][1]))
    \o Each(kept, "e1", <<made["unmade"][1], made["missed"][1]>>) \o Each(kept, "pol", Policies)
    \o Each(kept, "floors", <<Floored(<<2, 3>>), Floored(<<0, 1>>), [Floors EXCEPT !["gameability"] = <<1, 2>>]>>)
    \o << [kept EXCEPT !["e1"] = File(made["unmade"][1]), !["e2"] = File(made["unmade"][2])] >>
    \o Spoiled(kept, "e1") \o Spoiled(kept, "floors")

(* References that have to be resolved, of a record and of a manifest.     *)
Private(ref, digest) == [Second EXCEPT !.reference = <<[ref |-> ref, digest |-> digest]>>]

Rooted == Score(Flag("--corpus-root", "below") \o Flag("--private-manifest", "priv")
                    \o Flag("--out", "new"))

Resolving(kept) ==
    <<Alone(Score(<<>>), With(kept, "r2", Private("run", "kept")))>>
    \o Over(Rooted, <<kept, With(kept, "r2", Private("run", "kept")), With(kept, "r2", Private("run", "lied")),
                      With(kept, "r2", Private("lost", "kept")), With(kept, "r2", Private("../seed", "kept")),
                      With(kept, "priv", <<[ref |-> "seed", digest |-> "lied"]>>),
                      With(kept, "priv", <<>>)>>)

(* One command line each.                                                  *)
Stated(flag, value) == <<[text |-> flag, inline |-> <<value>>]>>

Lines == <<
    <<>>, <<Tok("--help")>>, <<Tok("help"), Tok("score")>>, <<Tok("help"), Tok("new")>>,
    <<Tok("--unknown")>>, <<Tok("score"), Tok("-h")>>, <<Tok("compile"), Tok("--record")>>,
    Score(<<Tok("--strict")>>), Score(Stated("--out", "new")), Score(Stated("--out", Empty)),
    Score(<<Tok("--out")>>), Score(<<Tok("--out"), Tok("--strict")>>), Score(<<Tok("--")>>),
    Score(<<Tok("--"), Tok("new")>>), Score(Stated("--strict", "x")), Score(Flag("--out", "dir")),
    Score(Flag("--policy", "pol")), Score(Flag("--policy", "floors")),
    Score(Flag("--designated-oracle", "O1")), Score(Flag("--designated-oracle", "O2")),
    Score(Flag("--designated-oracle", "O1") \o Flag("--designated-oracle", "O1")),
    Score(Flag("--out", "r1")), Score(Flag("--out", "r2")), Score(Flag("--record", "r1")),
    Scoring(<<"r1", "r2">>, Isolated), Scoring(<<"r1">>, Isolated), Scoring(<<>>, Isolated),
    Scoring(<<"r3">>, Isolated), Scoring(<<"r1", "-">>, Isolated),
    Scoring(<<"-", "-">>, Isolated), Scoring(<<"r1", "r2">>, <<>>),
    Scoring(<<"r1", "r2">>, Flag("--evaluator-configuration", "cfg")),
    Scoring(<<"r1", "r2">>, Flag("--isolation-manifest", "man")),
    Aggregated(Flag("--out", "e1")), Aggregated(Flag("--out", "./e1")),
    Aggregated(Flag("--out", "link")), Aggregating(<<"link">>, Flag("--out", "e1")),
    Aggregating(<<"./e1", "e2">>, Flag("--out", "dir")), Aggregating(<<"e1", "e1">>, <<>>),
    Aggregated(<<Tok("--strict-inputs")>>),
    <<Tok("compile")>> \o Flag("--in", "draft") \o Flag("--out", "new"),
    <<Tok("compile")>> \o Flag("--in", "-") \o <<Tok("--no-strict-inputs")>>,
    <<Tok("seal")>>, <<Tok("seal")>> \o Flag("--in", "draft") \o <<Tok("--strict-inputs")>> >>

Preflighting(run) ==
    <<Tok("preflight")>> \o Flag("--contract", "con") \o Flag("--probes", "pro")
        \o Flag("--observations", "draft") \o Flag("--run-id", run)

Others(kept) ==
    Over(Preflighting("run") \o Flag("--out", "new"), Each(kept, "draft", <<"fine", "failed", "refused">>))
    \o Over(<<Tok("seal")>> \o Flag("--in", "draft"), Each(kept, "draft", <<"refused">>) \o Spoiled(kept, "draft"))
    \o Over(Preflighting(Blank), <<kept>>) \o Over(ScoringOf(<<"r1">>, Malformed, Isolated), <<kept>>)
    \o << [Alone(Scoring(<<"r1", "-">>, Isolated), kept) EXCEPT !.stdin[1] = File(Record(2))],
          [Alone(<<Tok("compile")>>, kept) EXCEPT !.stdin[1] = File("fine")],
          Alone(Score(<<Tok("--strict")>>), With(kept, "con", Contracts[1])),
          Alone(Score(<<Tok("--strict")>>), With(kept, "r2", Fruitless(2))),
          Alone(Score(Flag("--designated-oracle", "O2")), With(kept, "con", Contracts[4])) >>

(* Two processes at once: one scores what the other aggregates, both write *)
(* to one file, and two score one probe.                                   *)
Silence(kept) == "s1" :> File(Silent(1)) @@ "s2" :> File(Silent(2)) @@ kept

Shared(kept) == <<
    Both(Score(Flag("--out", "e1")), Aggregated(Flag("--out", "new")), kept),
    Both(Aggregated(Flag("--out", "new")), Aggregating(<<"e1">>, Flag("--out", "new")), kept),
    Both(Score(Flag("--out", "link")), Aggregating(<<"e1">>, Flag("--out", "link")), kept),
    Both(Aggregating(<<"e2">>, Flag("--out", "e1")), Aggregating(<<"e1">>, <<>>), kept),
    Both(Score(<<>>), Scoring(<<"s1", "s2">>, Isolated), Silence(kept)),
    Both(Score(<<>>), Scoring(<<"s2">>, Isolated), Silence(kept)),
    Both(Score(<<>>), Score(Flag("--policy", "pol")), Silence(kept)),
    Both(Score(<<>>), Scoring(<<"s1", "s2">>, Isolated), [Silence(kept) EXCEPT !["s2"] = File(Fruitless(2))]) >>

ScenariosOf(kept, made) ==
    Over(Score(Flag("--out", "new")), ScoreDisks(kept))
    \o Over(Aggregated(Flag("--out", "new")), AggregateDisks(kept, made))
    \o Resolving(kept) \o [i \in DOMAIN Lines |-> Alone(Lines[i], kept)]
    \o Others(kept) \o Shared(kept)

ScenariosOver(made) == ScenariosOf(DiskOf(made), made)

(* Under a name of its own, which TLC evaluates once.                      *)
AllScenarios == ScenariosOver(MadeOfTrials)

MCScenarios == AllScenarios
================================================================================
