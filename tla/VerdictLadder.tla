----------------------------- MODULE VerdictLadder -----------------------------
(***************************************************************************)
(* core/score/ladder.ts: the verdict over one assessment `a`, in two       *)
(* modes, and the exit code that cli/exit-codes.ts takes from it.          *)
(*                                                                         *)
(* a.outcomes is the set of scored outcomes of every trial, each           *)
(* [trial, oracle, state, waived, conditions, severe, checked], `severe`   *)
(* saying that its severity reaches the policy's floor; every one is       *)
(* required, as score.ts sets it.  a.integrity and a.evidence hold the     *)
(* rows that the record's own conditions fire: a.integrity the ingest      *)
(* conditions, the quotation audit and the trial-set comparison, each an   *)
(* Invalid row of its own, a.evidence the five disclosure and lineage rows *)
(* of FAIL.  The rest are the policy's and the run's scalars.              *)
(* A rung is computed from every row; a row fired is its identifier.       *)
(***************************************************************************)
EXTENDS Naturals, FiniteSets, OutcomeRules

BehaviouralFailures == {"missed", "abstained", "bypassed", "false-positive"}

Severity == [PASS |-> 0, WAIVED |-> 1, CONCERNS |-> 2, FAIL |-> 3, invalid |-> 4]

When(guard, row) == IF guard THEN {row} ELSE {}

\* Mutant: an outcome of a trial that did not vote is not an outcome.
InvalidRowsNamedOnly(a) ==
    a.integrity
    \cup When(~a.preflight, "failed-preflight")
    \cup When(a.invalidated > a.cap, "re-execution-cap-breach")
    \cup When(\E o \in a.outcomes : "disposition-missing" \in o.conditions,
              "disposition-missing")
    \cup When(\E o \in a.outcomes : ~o.checked, "required-check-unresolved")
    \cup When(\E o \in a.outcomes : "selector-ambiguity" \in o.conditions,
              "selector-ambiguity")
    \cup When(\E o \in a.outcomes : "unwitnessed-detection-claim" \in o.conditions,
              "unwitnessed-claim")

(* Eighteen rows: eleven arrive as a.integrity.                            *)
InvalidRows(a) ==
    a.integrity
    \cup When(\E o \in a.outcomes : o.state \in Invalidating, "invalidating-state")
    \cup When(~a.preflight, "failed-preflight")
    \cup When(a.invalidated > a.cap, "re-execution-cap-breach")
    \cup When(\E o \in a.outcomes : "disposition-missing" \in o.conditions,
              "disposition-missing")
    \cup When(\E o \in a.outcomes : ~o.checked, "required-check-unresolved")
    \cup When(\E o \in a.outcomes : "selector-ambiguity" \in o.conditions,
              "selector-ambiguity")
    \cup When(\E o \in a.outcomes : "unwitnessed-detection-claim" \in o.conditions,
              "unwitnessed-claim")

FailRows(a) ==
    a.evidence
    \cup When(\E o \in a.outcomes : o.state \in BehaviouralFailures /\ o.severe,
              "behavioural-failure-at-or-above-floor")

(* The production ladder alone promotes the evaluator's recommendation.    *)
RecommendationFail(a, mode) ==
    When(mode = "production" /\ a.recommendation = "FAIL",
         "evaluator-recommendation-fail")

RecommendationConcerns(a, mode) ==
    When(mode = "production" /\ a.recommendation = "CONCERNS",
         "evaluator-recommendation-concerns")

EvidenceConditions == {"below-minimum-trial-count", "oracle-unreached"}

ConcernRows(a) ==
    When(\E o \in a.outcomes : o.state \in BehaviouralFailures /\ ~o.severe,
         "behavioural-failure-below-floor")
    \cup When(a.gap, "coverage-gap-at-or-above-floor")
    \cup When(a.unsure, "finding-confidence-below-threshold")
    \cup When(a.uncited, "uncited-defect-finding")
    \cup When(a.completed < a.minimum, "below-minimum-trial-count")
    \cup When(\E o \in a.outcomes : o.state = "unreached", "oracle-unreached")

WaivedRows(a) == When(\E o \in a.outcomes : o.waived, "waiver-honoured")

RowsOf(a, mode, rung) ==
    IF rung = "invalid" THEN InvalidRows(a)
    ELSE IF rung = "FAIL" THEN FailRows(a) \cup RecommendationFail(a, mode)
    ELSE IF rung = "CONCERNS" THEN ConcernRows(a) \cup RecommendationConcerns(a, mode)
    ELSE IF rung = "WAIVED" THEN WaivedRows(a)
    ELSE {}

RungPrecedence == <<"invalid", "FAIL", "CONCERNS", "WAIVED", "PASS">>

(* The first rung with a row fired; PASS when there is none.               *)
Rung(a, mode) ==
    RungPrecedence[CHOOSE i \in 1 .. 5 :
        /\ i = 5 \/ RowsOf(a, mode, RungPrecedence[i]) # {}
        /\ \A j \in 1 .. (i - 1) : RowsOf(a, mode, RungPrecedence[j]) = {}]

\* Mutant: --strict promotes whatever concern fired.
StrictPromotableAlways(a, mode) == TRUE

(* Meaningful on CONCERNS alone: some row there is not an evidence         *)
(* condition.                                                              *)
StrictPromotable(a, mode) ==
    Rung(a, mode) = "CONCERNS"
        => ~ RowsOf(a, mode, "CONCERNS") \subseteq EvidenceConditions

LadderExit == [PASS |-> 0, WAIVED |-> 0, CONCERNS |-> 0, FAIL |-> 2, invalid |-> 3]

(* verdictExit of cli/exit-codes.ts.                                       *)
ExitCode(a, mode, strict) ==
    IF Rung(a, mode) = "CONCERNS" /\ strict /\ StrictPromotable(a, mode)
    THEN 1 ELSE LadderExit[Rung(a, mode)]
================================================================================
