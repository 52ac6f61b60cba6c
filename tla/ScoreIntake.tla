------------------------------ MODULE ScoreIntake ------------------------------
(***************************************************************************)
(* application/score.ts around core/ingest, core/score and core/emit: what *)
(* one call of runScore refuses, what it awaits of the corpus, and what    *)
(* its trial records come to.  ScoreStage takes the score stage apart step *)
(* by step over answers that are handed to it; here the whole call is one  *)
(* value computed from the artifacts that the command read.                *)
(*                                                                         *)
(* `o`, the options, has one delivery per artifact, [arrives, value] with  *)
(* `arrives` as in ArtifactInput; records is a sequence of deliveries, and *)
(* manifest, configuration and privates are <<>> or <<delivery>>:          *)
(*   contract   [digest, schema, oracles, behaviors, rubrics, gap, ops]:   *)
(*              behaviors a sequence of [id, severity, oracles], gap the   *)
(*              severity of its worst coverage gap or "none", the          *)
(*              operations those of ExpressionChecks                       *)
(*   probe      that of ExpressionChecks, with its `behavior`              *)
(*   record     that below, with `reference`, <<>> for a public isolation  *)
(*              manifest and <<[ref, digest]>> for a private               *)
(*              one, and `answers`, for each oracle what its check came to *)
(*              and its steps selected, [check, steps, ambiguous]; an      *)
(*              observation and a finding are those of ProbeWitness too    *)
(*   preflight  [passed, fixture];  configuration  its digest              *)
(*   policy     [minimum, threshold, cap, floor]                           *)
(*   privates   a sequence of [ref, digest]                                *)
(* designated is an oracle or "none", corpus the caller's corpus digest.   *)
(*                                                                         *)
(* A record is                                                             *)
(*   [trial, run, contract, configuration, mode, recommendation,           *)
(*    observations, findings, dispositions, judged, ...]                   *)
(* where contract and configuration are the digests it declares,           *)
(*   observations  a sequence of [id, shows], `shows` giving the texts     *)
(*                 that each channel it has contains                       *)
(*   findings      a sequence of [id, type, oracle, cites, quotes, sure],  *)
(*                 oracle being "none" when it names none and quotes a set *)
(*                 of <<channel, text>>                                    *)
(*   dispositions  a sequence of [oracle, stance, cites]                   *)
(*   judged        a sequence of [criterion, scored]                       *)
(* An isolation manifest is                                                *)
(*   [run, contract, configuration, observed, allowed, violation, admitted]*)
(* with observed and allowed one set for each of the three allowlists, and *)
(* admitted the forbidden inputs that it does not account as withheld.  An *)
(* absent artifact is <<>>, a present one <<a>>.                           *)
(***************************************************************************)
EXTENDS Evidence, VerdictLadder, ArtifactInput

Q == INSTANCE ExpressionChecks

W == INSTANCE ProbeWitness

-----------------------------------------------------------------------------
(* core/ingest and the quotation audit: the eleven conditions that one     *)
(* sealed run record fires on its own, against its isolation manifest and  *)
(* against its evaluator configuration, and the row of the ladder each of  *)
(* them reaches.                                                           *)

LOCAL NamesIn(entries, Id(_)) == [i \in DOMAIN entries |-> Id(entries[i])]

DeclaredIds(record) == {o.id : o \in ToSet(record.observations)}

(* One list per kind of entry that something else addresses by its name.   *)
AddressedLists(record) ==
    {NamesIn(record.observations, LAMBDA o : o.id),
     NamesIn(record.findings, LAMBDA f : f.id),
     NamesIn(record.dispositions, LAMBDA d : d.oracle),
     NamesIn(record.judged, LAMBDA j : j.criterion)}

RepeatsAName(record) == \E list \in AddressedLists(record) : ~ IsInjective(list)

(* Every observation with a cited identifier, two that share it included.  *)
Cited(record, finding) ==
    {o \in ToSet(record.observations) : o.id \in finding.cites}

(* A channel the observation does not have projects to nothing.            *)
Shown(observation, channel) ==
    IF channel \in DOMAIN observation.shows THEN observation.shows[channel] ELSE {}

DefectFindings(record) == {f \in ToSet(record.findings) : f.type = "defect"}

(* auditQuotation: each quotation of a defect finding has to stand in the  *)
(* channel it names of at least one observation that the finding cites.    *)
UnwitnessedQuotations(record) ==
    UNION {{quote \in finding.quotes :
               ~ \E o \in Cited(record, finding) : quote[2] \in Shown(o, quote[1])} :
           finding \in DefectFindings(record)}

DanglingFinding(record) ==
    \E f \in ToSet(record.findings) : ~ f.cites \subseteq DeclaredIds(record)

DanglingDisposition(record) ==
    \E d \in ToSet(record.dispositions) : ~ d.cites \subseteq DeclaredIds(record)

AllowLists == {"mounts", "network", "tools"}

(* The manifest's own violation, or one value outside an allowlist.        *)
IsolationBroken(manifest) ==
    \/ manifest.violation # <<>>
    \/ \E list \in AllowLists : ~ manifest.observed[list] \subseteq manifest.allowed[list]

Disagrees(record, manifest) ==
    \/ record.run # manifest.run
    \/ record.contract # manifest.contract
    \/ record.configuration # manifest.configuration

RecordConditions(record) ==
    When(RepeatsAName(record), "duplicate-record-identifier")
    \cup When(DanglingFinding(record), "dangling-citation")
    \cup When(DanglingDisposition(record), "dangling-disposition-citation")
    \cup When(UnwitnessedQuotations(record) # {}, "unwitnessed-quotation")
    \cup When(\E j \in ToSet(record.judged) : ~j.scored, "judge-result-unscored")

(* Without a manifest the checks that read it do not run, and that it is   *)
(* absent is a condition of its own.                                       *)
ManifestConditions(record, manifest) ==
    IF manifest = <<>> THEN {"isolation-manifest-absent"}
    ELSE When(IsolationBroken(manifest[1]), "isolation-manifest-violation")
         \cup When(manifest[1].admitted # {}, "forbidden-input-not-withheld")
         \cup When(Disagrees(record, manifest[1]), "cross-artifact-disagreement")

(* The digest is recomputed from the artifact; the record's declaration is *)
(* the operand.                                                            *)
ConfigurationConditions(record, configuration) ==
    IF configuration = <<>> THEN {"evaluator-configuration-absent"}
    ELSE When(configuration[1] # record.configuration,
            "evaluator-configuration-digest-mismatch")

IngestConditions(record, manifest, configuration) ==
    RecordConditions(record)
    \cup ManifestConditions(record, manifest)
    \cup ConfigurationConditions(record, configuration)

(* The row of the ladder that a condition fires: an absent manifest lands  *)
(* on the row of a broken one, every other condition on its own.           *)
LadderTarget(kind) ==
    IF kind = "isolation-manifest-absent" THEN "isolation-manifest-violation" ELSE kind

-----------------------------------------------------------------------------
(* The call and its options.                                               *)

Malformed == "malformed"

(* Mutant: the records, in the order in which they were given.             *)
TrialsAsGiven(o) == [i \in DOMAIN o.records |-> o.records[i].value]

(* The records, in the order of their trials.                              *)
Trials(o) ==
    LET at == InOrder(DOMAIN o.records, [i \in DOMAIN o.records |-> o.records[i].value.trial])
    IN [k \in DOMAIN o.records |-> o.records[at[k]].value]

Present(artifact) == [i \in DOMAIN artifact |-> artifact[i].value]

-----------------------------------------------------------------------------
(* The parses, first fault first.                                          *)
ArrivalFault(deliveries) ==
    ArrayFault([i \in DOMAIN deliveries |-> deliveries[i].arrives])

IntakeFault(o) ==
    FirstFault(<<ArrivalFault(o.records), ArrivalFault(o.manifest),
                 ArrivalFault(o.configuration), ArrivalFault(<<o.contract>>),
                 ArrivalFault(<<o.probe>>), ArrivalFault(<<o.preflight>>),
                 ArrivalFault(<<o.policy>>), ArrivalFault(o.privates),
                 IF o.corpus = Malformed THEN "schema-parse-failure" ELSE "none">>)

(* The first behavior that the contract declares under the probe's name.   *)
BehaviorOf(contract, probe) ==
    SelectSeq(contract.behaviors, LAMBDA b : b.id = probe.behavior)

Lists(behavior, oracle) == oracle \in ToSet(behavior.oracles)

(* checkDesignatedOracle; what is no oracle identifier is listed nowhere.  *)
DesignationRefused(o) ==
    LET behavior == BehaviorOf(o.contract.value, o.probe.value)
    IN /\ o.designated # "none"
       /\ \/ behavior = <<>>
          \/ ~Lists(behavior[1], o.designated)
          \/ o.designated \notin ToSet(o.contract.value.oracles)

(* A behavior that lists one oracle designates it, and any other none.     *)
DesignatedOracle(o) ==
    LET behavior == BehaviorOf(o.contract.value, o.probe.value)
    IN IF o.designated # "none" THEN o.designated
       ELSE IF behavior # <<>> /\ Len(behavior[1].oracles) = 1
            THEN behavior[1].oracles[1]
       ELSE "none"

(* What is resolved of the corpus, one after another: the entries of the   *)
(* private manifest, and then each record's own reference.                 *)
ToResolve(o) ==
    (IF o.privates = <<>> THEN <<>> ELSE o.privates[1].value)
        \o FlattenSeq([i \in DOMAIN o.records |-> Trials(o)[i].reference])

-----------------------------------------------------------------------------
IngestedConditions(o) ==
    [i \in DOMAIN o.records |->
        IngestConditions(Trials(o)[i], Present(o.manifest), Present(o.configuration))]

(* trialSetDisagreementsOf: every record against the contract, and each    *)
(* against the first.                                                      *)
TrialSetDisagrees(o) ==
    \/ \E t \in ToSet(Trials(o)) :
          \/ t.contract # o.contract.value.digest
          \/ t.configuration # Trials(o)[1].configuration
          \/ t.mode # Trials(o)[1].mode
          \/ t.recommendation # Trials(o)[1].recommendation
          \/ t.run # Trials(o)[1].run
    \/ ~ IsInjective([i \in DOMAIN o.records |-> Trials(o)[i].trial])

(* Every condition that some record shows fires a row of its own.          *)
RecordRows(o) ==
    {LadderTarget(kind) : kind \in UNION ToSet(IngestedConditions(o))}

(* Mutant: what only the comparison of the trials shows is let through.    *)
IntegrityRowsOfEach(o) == RecordRows(o)

IntegrityRows(o) ==
    RecordRows(o)
    \cup When(TrialSetDisagrees(o), "trial-set-field-disagreement")

JudgeConduct(o) ==
    IF ~o.contract.value.rubrics THEN "absent"
    ELSE IF "judge-result-unscored" \in UNION ToSet(IngestedConditions(o)) THEN "malformed"
    ELSE "conforming"

QualifiesIn(o) == Q!QualifiedProbe(o.probe.value, o.contract.value.ops)

(* The probe as its witness is matched.                                    *)
WitnessedProbe(o) ==
    LET probe == o.probe.value
        signed == ~probe.clean /\ probe.signature # <<>>
    IN [class |-> probe.class, clean |-> probe.clean, signed |-> signed,
        homed |-> signed /\ Q!HomeOperation(probe.signature[1], o.contract.value.ops) # 0]

WitnessOf(o, record) ==
    IF W!Signed(WitnessedProbe(o))
    THEN W!MatchResult(WitnessedProbe(o), ToSet(record.observations), DefectFindings(record))
    ELSE "none"

(* What a record names once; several of a kind are ambiguous, and none.    *)
Sole(S) == IF Cardinality(S) = 1 THEN S ELSE {}

CitedAgainst(record, oracle) == Sole({f \in DefectFindings(record) : f.oracle = oracle})

DispositionsOf(record, oracle) ==
    SelectSeq(record.dispositions, LAMBDA d : d.oracle = oracle)

OutcomeInputs(o, record, oracle) ==
    LET answer == record.answers[oracle]
        disposition == DispositionsOf(record, oracle)
        cited == CitedAgainst(record, oracle)
    IN [required |-> TRUE,
        disposition |-> IF Len(disposition) = 1 THEN disposition[1].stance ELSE "none",
        supported |-> Len(disposition) = 1 /\ disposition[1].cites # {},
        bucket |-> IF cited = {} THEN "none"
                   ELSE W!Bucket(WitnessedProbe(o), ToSet(record.observations),
                                 CHOOSE f \in cited : TRUE),
        witness |-> IF oracle = DesignatedOracle(o) THEN WitnessOf(o, record) ELSE "none",
        steps |-> answer.steps, ambiguous |-> answer.ambiguous, check |-> answer.check,
        class |-> o.probe.value.class, clean |-> o.probe.value.clean,
        qualified |-> QualifiesIn(o), waiver |-> "none", judge |-> JudgeConduct(o),
        fault |-> FALSE]

Highest(severities) ==
    IF severities = {} THEN "low"
    ELSE CHOOSE s \in severities : \A t \in severities : SeverityRank[t] <= SeverityRank[s]

(* severityOfBehaviourFor.                                                 *)
SeverityOf(contract, oracle) ==
    Highest({b.severity : b \in {x \in ToSet(contract.behaviors) : Lists(x, oracle)}})

(* The severity of the finding that the state was resolved from, when one  *)
(* finding has its name; else the oracle's.                                *)
OutcomeSeverity(o, record, oracle, resolution) ==
    LET cited == CitedAgainst(record, oracle)
        named == SelectSeq(record.findings, LAMBDA f : \E g \in cited : f.id = g.id)
    IN IF resolution.resolvesFrom /\ Len(named) = 1 THEN named[1].severity
       ELSE SeverityOf(o.contract.value, oracle)

(* What one trial says of an oracle, whose outcome was resolved.           *)
OutcomeOf(o, record, oracle, resolution) ==
    [trial |-> record.trial, oracle |-> oracle, state |-> resolution.state,
     waived |-> resolution.waived, conditions |-> resolution.conditions,
     severe |-> AtOrAboveFloor(OutcomeSeverity(o, record, oracle, resolution),
                               o.policy.value.floor),
     checked |-> record.answers[oracle].check # "none"]

(* One trial: the outcome of each oracle, in the contract's order.         *)
Resolutions(o, record) ==
    [i \in DOMAIN o.contract.value.oracles |->
        LET oracle == o.contract.value.oracles[i]
        IN OutcomeOf(o, record, oracle, ResolveOutcome(OutcomeInputs(o, record, oracle)))]

(* The state that votes: the designated oracle's, else the first that      *)
(* invalidates, else the first; none where the contract has no oracle.     *)
VoteOf(o, resolutions) ==
    LET designated == SelectSeq(resolutions, LAMBDA r : r.oracle = DesignatedOracle(o))
        fallen == SelectSeq(resolutions, LAMBDA r : r.state \in Invalidating)
        candidates == designated \o fallen \o resolutions
    IN IF candidates = <<>> THEN <<>>
       ELSE << [trial |-> candidates[1].trial, state |-> candidates[1].state] >>

-----------------------------------------------------------------------------
ProbeSeverity(o) ==
    LET behavior == BehaviorOf(o.contract.value, o.probe.value)
    IN IF behavior = <<>> THEN "low" ELSE behavior[1].severity

ReducedProbe(o, votes) ==
    LET again == ReduceVotes(votes, o.policy.value.threshold)
    IN [probe |-> o.probe.value.id, severity |-> ProbeSeverity(o),
        threshold |-> o.policy.value.threshold, votes |-> votes,
        exercised |-> again.exercised, caught |-> again.caught, valid |-> again.valid,
        caughtCount |-> again.caughtCount, invalidated |-> again.invalidated]

AssessmentOf(o, resolved, reduced) ==
    LET findings == UNION {ToSet(t.findings) : t \in ToSet(Trials(o))}
        policy == o.policy.value
        gap == o.contract.value.gap
    IN [outcomes |-> resolved, integrity |-> IntegrityRows(o), evidence |-> {},
        preflight |-> o.preflight.value.passed,
        invalidated |-> Len(reduced.invalidated), cap |-> policy.cap,
        recommendation |-> Trials(o)[1].recommendation,
        gap |-> gap # "none" /\ AtOrAboveFloor(gap, policy.floor),
        unsure |-> \E f \in findings : ~f.sure,
        uncited |-> \E f \in findings : f.type = "defect" /\ f.oracle = "none",
        completed |-> Len(o.records), minimum |-> policy.minimum]

(* The artifact of a run on any rung but the Invalid one.                  *)
Evidenced(o, resolved, reduced, rung) ==
    LET trials == Trials(o)
        probe == o.probe.value
    IN IF rung = "invalid" THEN <<>>
       ELSE << Emit([run |-> trials[1].run, mode |-> trials[1].mode,
                     schema |-> o.contract.value.schema, policy |-> o.policy.value,
                     probe |-> [id |-> probe.id, class |-> probe.class,
                                expectedClean |-> probe.clean],
                     qualified |-> QualifiesIn(o),
                     trials |-> [minimum |-> o.policy.value.minimum,
                                 completed |-> Len(trials),
                                 attempts |-> [i \in DOMAIN trials |-> trials[i].trial],
                                 invalidated |-> reduced.invalidated],
                     outcomes |-> {[trial |-> r.trial, oracle |-> r.oracle,
                                    probe |-> probe.id, state |-> r.state,
                                    severity |-> ProbeSeverity(o)] : r \in resolved},
                     reduced |-> reduced, verdict |-> rung,
                     exit |-> LadderExit[rung]],
                    o.corpus, o.preflight.value.fixture, trials[1].configuration) >>

Judged(o, resolved, reduced, assessment) ==
    LET mode == Trials(o)[1].mode
        rung == Rung(assessment, mode)
    IN [rung |-> rung,
        exits |-> [strict \in BOOLEAN |-> ExitCode(assessment, mode, strict)],
        artifact |-> Evidenced(o, resolved, reduced, rung)]

Concluded(o, resolved, reduced) ==
    Judged(o, resolved, reduced, AssessmentOf(o, resolved, reduced))

(* From the outcomes of each trial to the votes, and to what they come to. *)
Reached(o, each) ==
    Concluded(o, ToSet(FlattenSeq(each)),
              ReducedProbe(o, FlattenSeq([i \in DOMAIN each |-> VoteOf(o, each[i])])))

(* score, and emit.                                                        *)
Scored(o) == Reached(o, [i \in DOMAIN o.records |-> Resolutions(o, Trials(o)[i])])
================================================================================
