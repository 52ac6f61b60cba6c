------------------------------- MODULE Evidence -------------------------------
(***************************************************************************)
(* core/score/strength.ts: the rate of one probe class over the probes     *)
(* that were exercised, and the four-valued dominance of one result over   *)
(* another.  A rate is <<>> over nothing and <<caught, exercised>>         *)
(* otherwise; two rates are compared by cross-multiplication.              *)
(*                                                                         *)
(* core/score/reduction-consistency.ts, which dominance runs on both its   *)
(* sides, emit on what it built and aggregate on what it reads: the check  *)
(* that what an evidence artifact retains of its trials still yields the   *)
(* reduction it states.                                                    *)
(*                                                                         *)
(* core/emit/emit.ts, which builds an evidence artifact from what score    *)
(* came to, and core/aggregate/aggregate-strength.ts, which reads the      *)
(* artifacts of a run back, holds each to itself and to the others, and    *)
(* decides the adopter's floor for every class of probe.                   *)
(*                                                                         *)
(* A digest is the value digested: two digests are equal exactly when what *)
(* they were taken of is.  An artifact is                                  *)
(*   [run, mode, probe, excluded, inputs, version, key, attested, trials,  *)
(*    outcomes, reduced, basis, vector, comparable, verdict, exit]         *)
(* inputs being the six that `version` digests, and key the digest of the  *)
(* policy and the probes covered.  Of these                                *)
(*   trials    [minimum, completed, attempts, invalidated], where attempts *)
(*             is a sequence of trial indices and invalidated one of       *)
(*             <<trial, state>>                                            *)
(*   outcomes  a set of [trial, oracle, probe, state, severity]            *)
(*   reduced   a sequence of [probe, severity, threshold, votes, exercised,*)
(*             caught, valid, caughtCount, invalidated], where votes is a  *)
(*             sequence of [trial, state] and threshold a rational         *)
(*             <<num, den>>                                                *)
(* Probes are numbers, ordered as their identifiers are.                   *)
(* A policy is [minimum, threshold, ...] and its own digest.               *)
(***************************************************************************)
EXTENDS OutcomeRules, SequencesExt

(* The places S, by the key of each: a sort that keeps equal keys in       *)
(* their order.                                                            *)
InOrder(S, key) ==
    LET before(i) == {j \in S : key[j] < key[i] \/ (key[j] = key[i] /\ j < i)}
    IN [k \in 1 .. Cardinality(S) |-> CHOOSE i \in S : Cardinality(before(i)) = k - 1]

-----------------------------------------------------------------------------
(* reduction-consistency.ts.                                               *)

(* reduceTrialSet over votes that carry their own trial index.             *)
ReduceVotes(votes, threshold) ==
    LET states == [i \in DOMAIN votes |-> votes[i].state]
        result == ReduceTrialSet(states, threshold[1], threshold[2])
        fallen == SelectSeq(votes, LAMBDA v : v.state \in Invalidating)
    IN [exercised |-> result.exercised,
        caught |-> result.caught,
        valid |-> Cardinality(Where(states, Voted)),
        caughtCount |-> Cardinality(Where(states, {"caught"})),
        invalidated |-> [i \in DOMAIN fallen |-> <<fallen[i].trial, fallen[i].state>>]]

(* Two lists of attempts that hold the same entries as often.              *)
SameAttempts(left, right) ==
    \A entry \in ToSet(left) \cup ToSet(right) :
        Len(SelectSeq(left, LAMBDA x : x = entry))
            = Len(SelectSeq(right, LAMBDA x : x = entry))

CompletedAttempts(artifact) == ToSet(artifact.trials.attempts)

(* One identity per completed trial.                                       *)
AttemptsDistinct(artifact) ==
    /\ IsInjective(artifact.trials.attempts)
    /\ Len(artifact.trials.attempts) = artifact.trials.completed

(* A contract without oracles leaves no outcome; otherwise every completed *)
(* trial has one.                                                          *)
DetailsCoverAttempts(artifact) ==
    artifact.outcomes # {}
        => {o.trial : o \in artifact.outcomes} = CompletedAttempts(artifact)

ReducedIsTheScoredProbe(artifact) ==
    /\ Len(artifact.reduced) = 1
    /\ artifact.reduced[1].probe = artifact.probe

DetailsOf(artifact, reduced) ==
    {o \in artifact.outcomes : o.probe = reduced.probe}

(* One vote per trial, each the state of some outcome of that trial.       *)
VotesWitnessed(artifact, reduced) ==
    LET trials == [i \in DOMAIN reduced.votes |-> reduced.votes[i].trial]
    IN /\ IsInjective(trials)
       /\ \A v \in ToSet(reduced.votes) :
             \E o \in DetailsOf(artifact, reduced) :
                 o.trial = v.trial /\ o.state = v.state
       /\ IF artifact.outcomes = {} THEN reduced.votes = <<>>
          ELSE ToSet(trials) = CompletedAttempts(artifact)

ReductionRecomputed(reduced) ==
    LET again == ReduceVotes(reduced.votes, reduced.threshold)
    IN /\ reduced.exercised = again.exercised
       /\ reduced.caught = again.caught
       /\ reduced.valid = again.valid
       /\ reduced.caughtCount = again.caughtCount
       /\ SameAttempts(reduced.invalidated, again.invalidated)

(* reductionConsistencyIssuesOf reports nothing.                           *)
ReductionConsistent(artifact) ==
    /\ AttemptsDistinct(artifact)
    /\ DetailsCoverAttempts(artifact)
    /\ ReducedIsTheScoredProbe(artifact)
    /\ \A i \in DOMAIN artifact.reduced :
          LET reduced == artifact.reduced[i]
          IN /\ \A o \in DetailsOf(artifact, reduced) : o.severity = reduced.severity
             /\ VotesWitnessed(artifact, reduced)
             /\ ReductionRecomputed(reduced)
    /\ \A o \in artifact.outcomes :
          o.probe \in {artifact.reduced[i].probe : i \in DOMAIN artifact.reduced}
    /\ LET again == [i \in DOMAIN artifact.reduced |->
                         ReduceVotes(artifact.reduced[i].votes,
                                     artifact.reduced[i].threshold).invalidated]
       IN SameAttempts(artifact.trials.invalidated, FlattenSeq(again))

-----------------------------------------------------------------------------
(* strength.ts.                                                            *)

StrengthClasses == {"defect", "gameability", "zero-action"}

SeverityRank == [low |-> 1, material |-> 2, critical |-> 3]

RateOver(caught, exercised) == IF exercised = 0 THEN <<>> ELSE <<caught, exercised>>

RateAbove(left, right) == left[1] * right[2] > right[1] * left[2]

(* classStrengthOver: a class nobody is eligible for is absent; one whose  *)
(* probes were never exercised is there with no rate.                      *)
ClassStrengthOver(probes, result) ==
    IF probes = {} THEN <<>>
    ELSE LET exercised == {p \in probes : result[p].exercised}
             caught == {p \in exercised : result[p].caught}
         IN << [exercised |-> Cardinality(exercised),
                caught |-> Cardinality(caught),
                rate |-> RateOver(Cardinality(caught), Cardinality(exercised))] >>

IsComparable(trials, outcomes) ==
    /\ trials.completed >= trials.minimum
    /\ \A o \in outcomes : o.state # "unreached"

(* Canaries and clean controls stay outside every class.                   *)
VectorEligible(admitted) ==
    {p \in admitted : p.class # "canary" /\ ~p.expectedClean}

BuildStrengthVector(admitted, result) ==
    [class \in StrengthClasses |->
        ClassStrengthOver({p.id : p \in {q \in VectorEligible(admitted) : q.class = class}},
                          result)]

(* The classes present with a rate on both sides carry the comparison.     *)
Contributing(a, b) ==
    {class \in StrengthClasses :
        /\ a[class] # <<>> /\ b[class] # <<>>
        /\ a[class][1].rate # <<>> /\ b[class][1].rate # <<>>}

ComponentComparison(a, b) ==
    LET shared == Contributing(a, b)
        wins(left, right) ==
            \E class \in shared : RateAbove(left[class][1].rate, right[class][1].rate)
    IN IF shared = {} THEN "incomparable"
       ELSE IF \A class \in shared : a[class] = b[class] THEN "equivalent"
       ELSE IF wins(a, b) /\ ~wins(b, a) THEN "a-dominates-b"
       ELSE IF wins(b, a) /\ ~wins(a, b) THEN "b-dominates-a"
       ELSE "incomparable"

AtOrAboveFloor(severity, floor) == SeverityRank[severity] >= SeverityRank[floor]

(* The favoured side failed a probe at or above the floor that the other   *)
(* side caught; a probe it has no reduction of is a miss.                  *)
FavoredMisses(favored, other, floor) ==
    \E theirs \in ToSet(other.reduced) :
        /\ theirs.caught
        /\ AtOrAboveFloor(theirs.severity, floor)
        /\ ~ \E own \in ToSet(favored.reduced) : own.probe = theirs.probe /\ own.caught

(* compareDominance: the key, both comparability flags and both reductions *)
(* come before any component; the floor can only withdraw a dominance.     *)
CompareDominance(a, b, floor) ==
    LET fit == /\ a.key = b.key
               /\ a.comparable /\ b.comparable
               /\ ReductionConsistent(a) /\ ReductionConsistent(b)
        raw == ComponentComparison(a.vector, b.vector)
        withdrawn == \/ raw = "a-dominates-b" /\ FavoredMisses(a, b, floor)
                     \/ raw = "b-dominates-a" /\ FavoredMisses(b, a, floor)
    IN IF fit /\ ~withdrawn THEN raw ELSE "incomparable"

-----------------------------------------------------------------------------
CallerAttestedInputs ==
    {"corpusDigest", "fixtureDigest", "evaluatorConfigurationDigest", "mode"}

ComparabilityKey(policy, probes) == [policy |-> policy, probes |-> probes]

(* emit, of a scored run on any rung but the Invalid one.  `scored` is     *)
(* [run, mode, schema, policy, probe, qualified, trials, outcomes, reduced,*)
(* verdict, exit] with `probe` the probe scored.                           *)
Emit(scored, corpus, fixture, configuration) ==
    LET admitted == IF scored.qualified THEN {scored.probe} ELSE {}
        inputs == [schema |-> scored.schema, corpus |-> corpus, fixture |-> fixture,
                   configuration |-> configuration, policy |-> scored.policy,
                   mode |-> scored.mode]
    IN [run |-> scored.run, mode |-> scored.mode, probe |-> scored.probe.id,
        excluded |-> {scored.probe.id} \ {p.id : p \in admitted},
        inputs |-> inputs, version |-> inputs,
        key |-> ComparabilityKey(scored.policy, {p.id : p \in admitted}),
        attested |-> CallerAttestedInputs,
        trials |-> scored.trials, outcomes |-> scored.outcomes,
        reduced |-> <<scored.reduced>>, basis |-> "measured",
        vector |-> BuildStrengthVector(admitted, [p \in {scored.probe.id} |-> scored.reduced]),
        comparable |-> IsComparable(scored.trials, scored.outcomes),
        verdict |-> scored.verdict, exit |-> scored.exit]

-----------------------------------------------------------------------------
CleanControlOnly == {"passed-clean-control", "false-positive"}

ClassesOf(artifact) == {class \in StrengthClasses : artifact.vector[class] # <<>>}

ClassOf(artifact) ==
    IF ClassesOf(artifact) = {} THEN "none" ELSE CHOOSE class \in ClassesOf(artifact) : TRUE

(* The vector says what the artifact's own reduction yields, in one class  *)
(* at most, and in none when the outcomes are a clean control's.           *)
VectorFollows(artifact) ==
    /\ Cardinality(ClassesOf(artifact)) <= 1
    /\ ClassesOf(artifact) # {} =>
         /\ \A o \in artifact.outcomes : o.state \notin CleanControlOnly
         /\ artifact.vector[ClassOf(artifact)]
              = ClassStrengthOver({artifact.probe},
                                  [p \in {artifact.probe} |-> artifact.reduced[1]])

(* verifyInput.                                                            *)
AgreesWithItself(artifact) ==
    /\ ReductionConsistent(artifact)
    /\ artifact.version = artifact.inputs
    /\ artifact.excluded = {}
    /\ artifact.key = ComparabilityKey(artifact.inputs.policy, {artifact.probe})
    /\ artifact.comparable = IsComparable(artifact.trials, artifact.outcomes)
    /\ VectorFollows(artifact)

ScoredUnder(artifact, policy) ==
    /\ artifact.inputs.policy = policy
    /\ artifact.trials.minimum = policy.minimum
    /\ artifact.reduced[1].threshold = policy.threshold

(* One policy, one probe each, one scoring version, one basis and one set  *)
(* of attested inputs.                                                     *)
Agree(evidence, policy) ==
    /\ \A i \in DOMAIN evidence : ScoredUnder(evidence[i], policy)
    /\ IsInjective([i \in DOMAIN evidence |-> evidence[i].probe])
    /\ \A i, j \in DOMAIN evidence :
          /\ evidence[i].version = evidence[j].version
          /\ evidence[i].basis = evidence[j].basis
          /\ evidence[i].attested = evidence[j].attested

(* AggregationRefusal: each artifact is verified before any two are        *)
(* compared.                                                               *)
Refusal(evidence, policy) ==
    IF \E i \in DOMAIN evidence : ~AgreesWithItself(evidence[i])
    THEN "strength-input-inconsistent"
    ELSE IF ~Agree(evidence, policy) THEN "strength-inputs-disagree"
    ELSE "none"

-----------------------------------------------------------------------------
Members(evidence, class) == {a \in ToSet(evidence) : ClassOf(a) = class}

(* The class that `members` share: strength over all of them.              *)
StrengthOf(members) ==
    LET reducedOf(probe) == (CHOOSE a \in members : a.probe = probe).reduced[1]
        probes == {a.probe : a \in members}
        strength == ClassStrengthOver(probes, [p \in probes |-> reducedOf(p)])
    IN IF strength = <<>> THEN <<>>
       ELSE << [exercised |-> strength[1].exercised, caught |-> strength[1].caught,
                rate |-> strength[1].rate,
                eligible |-> Cardinality(members),
                comparable |-> \A a \in members : a.comparable] >>

AggregatedClass(evidence, class) == StrengthOf(Members(evidence, class))

(* Mutant: the floor is compared with the rate of those exercised.         *)
DecideOverExercised(floor, class) ==
    IF floor = <<>> THEN "no-floor-declared"
    ELSE IF class = <<>> THEN "no-eligible-probe"
    ELSE IF ~class[1].comparable THEN "not-comparable"
    ELSE IF class[1].rate = <<>> THEN "no-exercised-probe"
    ELSE IF RateAbove(floor, class[1].rate) THEN "rate-below-floor"
    ELSE "rate-meets-floor"

(* decide: a floor of <<>> is undeclared; only the last basis meets it.    *)
Decide(floor, class) ==
    IF floor = <<>> THEN "no-floor-declared"
    ELSE IF class = <<>> THEN "no-eligible-probe"
    ELSE IF ~class[1].comparable THEN "not-comparable"
    ELSE IF class[1].rate = <<>> THEN "no-exercised-probe"
    ELSE IF class[1].exercised < class[1].eligible THEN "unexercised-probe"
    ELSE IF RateAbove(floor, class[1].rate) THEN "rate-below-floor"
    ELSE "rate-meets-floor"

(* What is minted of artifacts that nothing refuses; `floors` gives each   *)
(* class its floor.  The order of the artifacts does not reach it.         *)
Aggregate(evidence, floors, policy) ==
    [mode |-> evidence[1].inputs.mode, version |-> evidence[1].version, policy |-> policy,
     key |-> ComparabilityKey(policy, {evidence[i].probe : i \in DOMAIN evidence}),
     basis |-> evidence[1].basis, minimum |-> policy.minimum,
     attested |-> evidence[1].attested,
     inputs |-> LET at == InOrder(DOMAIN evidence, [i \in DOMAIN evidence |-> evidence[i].probe])
                IN [k \in DOMAIN evidence |->
                    LET a == evidence[at[k]]
                    IN [probe |-> a.probe, class |-> ClassOf(a), run |-> a.run, digest |-> a]],
     classes |-> [class \in StrengthClasses |-> AggregatedClass(evidence, class)],
     floors |-> [class \in StrengthClasses |->
                    Decide(floors[class], AggregatedClass(evidence, class))]]
===============================================================================
