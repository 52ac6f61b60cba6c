------------------------------- MODULE ScoreStage -------------------------------
(***************************************************************************)
(* core/score/score.ts, one run of the score stage: every oracle of every  *)
(* trial is resolved to an outcome, each trial casts one vote for the      *)
(* probe, the votes are reduced, and the ladder turns all of it into a     *)
(* verdict.  application/score.ts mints an artifact from it or not, and    *)
(* cli/exit-codes.ts ends the process with a code.                         *)
(*                                                                         *)
(* A run's setting is fixed when it starts:                                *)
(*   probe           see ProbeWitness                                      *)
(*   designated      the oracle the probe belongs to, or "none": its       *)
(*                   behaviour lists none or several and no flag named one *)
(*   judge, waiver, fault, preflight, mode, recommendation, gap            *)
(* judgeConductOf reads every trial before the first is scored, so `judge` *)
(* is part of the setting and constrains what the trials may carry.        *)
(*                                                                         *)
(* The trials are evaluator runs, chosen freely from small sets: what was  *)
(* observed and found when a trial is opened, and then, oracle by oracle,  *)
(* what was answered for it (its disposition, its check's resolution, its  *)
(* steps' selections).                                                     *)
(***************************************************************************)
EXTENDS Naturals, Sequences, FiniteSets, OutcomeRules, ProbeWitness,
        VerdictLadder

CONSTANTS Settings,      \* the settings a run may start in
          Oracles,       \* the contract's oracles, in its own order
          SevereOracles, \* those whose behaviour's severity reaches the floor
          Records,       \* what a trial may have observed, a set of calls each
          Filings,       \* what it may have filed, a set of defect findings each
          Answers,       \* for each oracle, what may be answered for it
          Integrity,     \* the integrity rows that a trial may fire
          MaxTrials,     \* the trials of a run
          MinimumTrials, ReExecutionCap,        \* the policy
          ThresholdNum, ThresholdDen            \* the policy's catchThreshold

ASSUME OraclesAssumption ==
    /\ Oracles \in Seq(STRING)
    /\ SevereOracles \subseteq {Oracles[i] : i \in DOMAIN Oracles}
    /\ \A i, j \in DOMAIN Oracles : Oracles[i] = Oracles[j] => i = j

ASSUME PolicyAssumption ==
    /\ {MaxTrials, MinimumTrials, ThresholdDen} \subseteq Nat \ {0}
    /\ {ReExecutionCap, ThresholdNum} \subseteq Nat
    /\ ThresholdNum <= ThresholdDen

(* An answer's fields agree with each other: a check that the contract      *)
(* does not declare addresses no step, and an ambiguous step matched.       *)
ASSUME AnswersAssumption ==
    \A i \in DOMAIN Oracles : \A a \in Answers[Oracles[i]] :
                       /\ a.check = "none" => a.steps = "undeclared"
                       /\ a.ambiguous => a.steps = "some-resolved"

OracleSet == {Oracles[i] : i \in DOMAIN Oracles}

VARIABLES setting,    \* fixed for the run
          phase,      \* "between" trials, "oracles" of one, or "decided"
          trial,      \* how many trials were opened
          reading,    \* what the open trial's witness and findings came to
          next,       \* the index of the oracle to resolve
          states,     \* the open trial's outcome states, in oracle order
          outcomes,   \* every scored outcome so far
          votes,      \* one outcome state per closed trial that voted
          noted,      \* [integrity, uncited, unsure] over the opened trials
          facts,      \* history: what each trial really showed
          decision    \* the reduced result, once decided

stageVars == <<setting, phase, trial, reading, next, states, outcomes, votes, noted,
               facts, decision>>

NothingNoted == [integrity |-> {}, uncited |-> FALSE, unsure |-> FALSE]

Undecided == [exercised |-> FALSE, caught |-> FALSE, invalidated |-> {}]

Unread == [witness |-> "none", cited |-> [o \in OracleSet |-> {}]]

StageInit ==
    /\ setting \in Settings
    /\ phase = "between"
    /\ trial = 0
    /\ reading = Unread
    /\ next = 1
    /\ states = <<>>
    /\ outcomes = {}
    /\ votes = <<>>
    /\ noted = NothingNoted
    /\ facts = <<>>
    /\ decision = Undecided

(* A judge result without a score is what makes the conduct malformed, in  *)
(* a contract that has a rubric.                                           *)
JudgeAgrees(row) == row = "judge-result-unscored" => setting.judge # "conforming"

(* ingest, for the one condition that this model's own data can fire: a    *)
(* finding cites an observation that the record does not declare.          *)
DanglingCitation(obs, findings) ==
    When(\E f \in findings : ~ f.cites \subseteq Ids(obs), "dangling-citation")

(* For the history only: the calls that the evaluator chose on the home    *)
(* operation, within the selector, and that showed the seeded defect.      *)
Manifestations(obs) ==
    {o.id : o \in {x \in obs : /\ setting.probe.homed /\ x.home /\ x.chosen
                              /\ x.admitted /\ x.resolves = "true"}}

(* The witness, the findings that cite each oracle with their buckets, and *)
(* what the trial adds to the pooled conditions.                           *)
OpenTrial(obs, findings, rows) ==
    LET p == setting.probe
        truly == Manifestations(obs)
        claimed == {f \in findings : f.own /\ f.cites \cap truly # {}}
    IN
    /\ phase = "between"
    /\ trial < MaxTrials
    /\ \A row \in rows : JudgeAgrees(row)
    /\ trial' = trial + 1
    /\ reading' =
         [witness |-> IF Signed(p) THEN MatchResult(p, obs, findings) ELSE "none",
          cited |-> [o \in OracleSet |->
                       {[id |-> f.id, bucket |-> Bucket(p, obs, f), severe |-> f.severe] :
                            f \in {g \in findings : g.oracle = o}}]]
    /\ noted' =
         [integrity |-> noted.integrity \cup rows \cup DanglingCitation(obs, findings),
          uncited |-> noted.uncited \/ \E f \in findings : f.oracle = "none",
          unsure |-> noted.unsure \/ \E f \in findings : ~f.sure]
    /\ facts' = Append(facts,
         [manifested |-> truly # {}, witnessed |-> claimed # {},
          cited |-> {f.oracle : f \in findings}])
    /\ next' = 1
    /\ states' = <<>>
    /\ phase' = "oracles"
    /\ UNCHANGED <<setting, outcomes, votes, decision>>

(* Several findings on one oracle are ambiguous, and read as none at all.  *)
CitedFinding(o) ==
    IF Cardinality(reading.cited[o]) = 1 THEN reading.cited[o] ELSE {}

AnswerInputs(o, answer) ==
    [required |-> TRUE,
     disposition |-> answer.disposition,
     supported |-> answer.supported,
     bucket |-> IF CitedFinding(o) = {} THEN "none"
                ELSE (CHOOSE f \in CitedFinding(o) : TRUE).bucket,
     witness |-> IF o = setting.designated THEN reading.witness ELSE "none",
     steps |-> answer.steps,
     ambiguous |-> answer.ambiguous,
     check |-> answer.check,
     class |-> setting.probe.class,
     clean |-> setting.probe.clean,
     qualified |-> Qualified(setting.probe),
     waiver |-> setting.waiver,
     judge |-> setting.judge,
     fault |-> setting.fault]

(* The finding that the state was resolved from lends its severity; else   *)
(* the oracle's own behaviour does.                                        *)
SevereOutcome(o, resolution) ==
    IF resolution.resolvesFrom
    THEN (CHOOSE f \in CitedFinding(o) : TRUE).severe
    ELSE o \in SevereOracles

\* Mutant: a new trial replaces what the earlier ones came to.
PooledLatest(outcome) == {o \in outcomes : o.trial = trial} \cup {outcome}

Pooled(outcome) == outcomes \cup {outcome}

ResolveOracle(o, answer) ==
    LET resolution == ResolveOutcome(AnswerInputs(o, answer)) IN
    /\ phase = "oracles"
    /\ next <= Len(Oracles)
    /\ o = Oracles[next]
    /\ outcomes' = Pooled(
         [trial |-> trial, oracle |-> o, state |-> resolution.state,
          waived |-> resolution.waived, conditions |-> resolution.conditions,
          severe |-> SevereOutcome(o, resolution),
          checked |-> answer.check # "none"])
    /\ states' = Append(states, resolution.state)
    /\ next' = next + 1
    /\ UNCHANGED <<setting, phase, trial, reading, votes, noted, facts, decision>>

FirstOf(candidates) ==
    states[CHOOSE i \in candidates : \A j \in candidates : i <= j]

(* The designated oracle's state; else the first invalidating state; else  *)
(* the first state.                                                        *)
Vote ==
    LET designated == {i \in DOMAIN states : Oracles[i] = setting.designated}
        invalidating == {i \in DOMAIN states : states[i] \in Invalidating}
    IN IF designated # {} THEN FirstOf(designated)
       ELSE IF invalidating # {} THEN FirstOf(invalidating)
       ELSE FirstOf(DOMAIN states)

CloseTrial ==
    /\ phase = "oracles"
    /\ next = Len(Oracles) + 1
    /\ votes' = IF states = <<>> THEN votes ELSE Append(votes, Vote)
    /\ phase' = "between"
    /\ reading' = Unread
    /\ next' = 1
    /\ states' = <<>>
    /\ UNCHANGED <<setting, trial, outcomes, noted, facts, decision>>

Reduced == ReduceTrialSet(votes, ThresholdNum, ThresholdDen)

(* What the ladder is given when the trials scored so far are all.  The    *)
(* disclosure and the lineage chain have no source among the stage's       *)
(* inputs and arrive neutral.                                              *)
Assessment ==
    [outcomes |-> outcomes,
     integrity |-> noted.integrity,
     evidence |-> {},
     preflight |-> setting.preflight,
     invalidated |-> Cardinality(Reduced.invalidated),
     cap |-> ReExecutionCap,
     recommendation |-> setting.recommendation,
     gap |-> setting.gap,
     unsure |-> noted.unsure,
     uncited |-> noted.uncited,
     completed |-> trial,
     minimum |-> MinimumTrials]

ReduceTrials ==
    /\ phase = "between"
    /\ trial > 0
    /\ setting.judge = "malformed" => "judge-result-unscored" \in noted.integrity
    /\ decision' = Reduced
    /\ phase' = "decided"
    /\ UNCHANGED <<setting, trial, reading, next, states, outcomes, votes, noted, facts>>

(* runScore mints an artifact on every rung but the Invalid one.           *)
Verdict == Rung(Assessment, setting.mode)

ArtifactMinted == phase = "decided" /\ Verdict # "invalid"

StageNext ==
    \/ \E obs \in Records, findings \in Filings, rows \in Integrity :
            OpenTrial(obs, findings, rows)
    \/ \E o \in OracleSet : \E answer \in Answers[o] : ResolveOracle(o, answer)
    \/ CloseTrial
    \/ ReduceTrials

StageSpec == StageInit /\ [][StageNext]_stageVars
-----------------------------------------------------------------------------
(***************************************************************************)
(* What the score stage promises of a run, over ScoreStage.                *)
(***************************************************************************)

Decided == phase = "decided"

(* Every outcome has one of the twelve states, every trial at most one     *)
(* vote and every vote is the state of one of its trial's oracles.         *)
ScoreTypeOK ==
    /\ phase \in {"between", "oracles", "decided"}
    /\ trial \in 0 .. MaxTrials
    /\ next \in 1 .. Len(Oracles) + 1
    /\ states \in Seq(OutcomeStates)
    /\ \A o \in outcomes : /\ o.state \in OutcomeStates
                           /\ o.trial \in 1 .. trial
                           /\ o.oracle \in OracleSet
    /\ Len(votes) <= trial
    /\ \A i \in DOMAIN votes : \E o \in outcomes : o.state = votes[i]
    /\ votes \in Seq(OutcomeStates)
    /\ facts \in Seq([manifested : BOOLEAN, witnessed : BOOLEAN,
                      cited : SUBSET {f.oracle : f \in UNION Filings}])
    /\ Len(facts) = trial

(* A seeded probe is paired with an oracle of the contract.  Its behaviour  *)
(* may list one that the contract does not declare, which no schema and no *)
(* check of compile refuses: then it is paired with none, and no witness   *)
(* is read.                                                                *)
Paired == setting.designated \in OracleSet /\ Signed(setting.probe)

(* The catch rate is earned: a probe that is paired counts as caught only  *)
(* when, in more than the threshold's share of the trials that voted, a    *)
(* finding against this probe cites a call of the evaluator's own that     *)
(* showed the seeded defect.                                               *)
CatchIsWitnessed ==
    (Decided /\ decision.caught /\ Paired)
        => ThresholdDen * Cardinality({t \in DOMAIN facts : facts[t].witnessed})
               > ThresholdNum * Cardinality(Where(votes, Voted))

(* Non-detection is reachable: when the seeded defect of a paired probe    *)
(* showed in some trial and no finding there claimed it, the run never     *)
(* passes, and it is waived only under a waiver whose condition was met.   *)
MissIsVisible ==
    ( /\ Decided /\ Paired
      /\ \E t \in DOMAIN facts : facts[t].manifested /\ ~facts[t].witnessed )
        => /\ Verdict # "PASS"
           /\ Verdict = "WAIVED" => setting.waiver = "applied-condition-met"

(* No invalidating condition is masked by what the other oracles, the      *)
(* other trials or the vote came to: one condition anywhere (the           *)
(* unsupported disposition apart, which has no rung), or one invalidated   *)
(* attempt, and there is no verdict, no artifact and exit code 3 - even    *)
(* within the policy's re-execution cap.                                   *)
NothingMasked ==
    ( /\ Decided
      /\ \/ \E o \in outcomes : ~ o.conditions \subseteq {"unsupported-disposition"}
         \/ decision.invalidated # {}
         \/ noted.integrity # {}
         \/ ~setting.preflight )
        => /\ Verdict = "invalid"
           /\ ~ArtifactMinted
           /\ \A strict \in BOOLEAN : ExitCode(Assessment, setting.mode, strict) = 3

(* --strict promotes a statement about the system, never a thin            *)
(* measurement: with no failed oracle, gap, weak or uncited finding and no *)
(* evaluator concern in the run, strict and lenient exit alike.            *)
StrictSparesThinEvidence ==
    ( /\ Decided
      /\ \A o \in outcomes : o.state \notin BehaviouralFailures
      /\ ~setting.gap /\ ~noted.unsure /\ ~noted.uncited
      /\ setting.mode = "production" => setting.recommendation # "CONCERNS" )
        => ExitCode(Assessment, setting.mode, TRUE)
               = ExitCode(Assessment, setting.mode, FALSE)

(* What a run tells of its conditions: none is hidden, and none that is    *)
(* thin is made more of by --strict.                                       *)
ConditionsTell == NothingMasked /\ StrictSparesThinEvidence

(* Repeated runs are trials, never retries: whatever was scored so far, no *)
(* further trial improves the verdict, except by making up a trial count   *)
(* that fell short and was the only concern.                               *)
NoRetryImproves ==
    [][\/ Severity[Verdict'] >= Severity[Verdict]
       \/ RowsOf(Assessment, setting.mode, "CONCERNS") = {"below-minimum-trial-count"}
      ]_stageVars

(* "a filed finding survives" (outcome.ts:306): on a clean control, in a   *)
(* record with no integrity condition, an oracle that a defect finding     *)
(* cites resolves false-positive, unless an earlier row of the table made  *)
(* it invalid or unreached.                                                *)
FiledFindingSurvives ==
    (setting.probe.clean /\ noted.integrity = {}) =>
        \A o \in outcomes :
            o.oracle \in facts[o.trial].cited
                => o.state \in {"false-positive", "unreached"} \cup Invalidating
=================================================================================
