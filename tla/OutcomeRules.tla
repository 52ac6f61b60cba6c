----------------------------- MODULE OutcomeRules -----------------------------
(***************************************************************************)
(* The reference decision procedure of core/score/outcome.ts: the one      *)
(* place that assigns an outcome state to an oracle.                       *)
(*                                                                         *)
(* The fifteen declared inputs arrive as one record `in`.  A value the     *)
(* source spells null is spelled "none" here, and an identifier is kept    *)
(* only as the fact the rules read of it:                                  *)
(*   required     the oracle is required                                   *)
(*   disposition  "none", "held", "violated" or "not-attempted"            *)
(*   supported    the disposition cites at least one observation           *)
(*   bucket       the cited finding's bucket, or "none": no cited finding  *)
(*   witness      the probe witness result, or "none"                      *)
(*   steps        "undeclared", "all-none" or "some-resolved"              *)
(*   ambiguous    a step matched several under a single-valued cardinality *)
(*   check        the check root's resolution, or "none": it never ran     *)
(*   class, clean, qualified        the probe                              *)
(*   waiver, judge, fault           what the caller or the run declares    *)
(*                                                                         *)
(* The three tables are sequences of rows in the source's own order.       *)
(* Corroboration, which never decides a state, is not modelled.            *)
(***************************************************************************)
EXTENDS Naturals, Sequences, FiniteSets

Invalidating == {"oracle-error", "judge-error", "infrastructure-error"}

Unvoted == {"not-applicable", "unreached"}

Voted == {"caught", "confirmed", "missed", "abstained", "bypassed",
          "passed-clean-control", "false-positive"}

OutcomeStates == Invalidating \cup Unvoted \cup Voted

Cites(in) == in.bucket # "none"

ProbeUnqualified(in) == ~in.qualified

DispositionUnsupported(in) ==
    in.disposition \in {"held", "violated"} /\ ~in.supported

CanaryUndetected(in) ==
    in.class = "canary" /\ in.steps = "some-resolved" /\ ~Cites(in)

(* Stage A: ten conditions, each evaluated on its own.                     *)
ConditionRows(in) == <<
    [id |-> "evaluation-fault", holds |-> in.fault],
    [id |-> "judge-malformed", holds |-> in.judge = "malformed"],
    [id |-> "unqualified-probe-in-sealed-set", holds |-> ProbeUnqualified(in)],
    [id |-> "dangling-probe-citation", holds |-> in.bucket = "dangling"],
    [id |-> "unwitnessed-detection-claim",
        holds |-> in.witness = "unwitnessed-claim"],
    [id |-> "vacuous-signature", holds |-> in.witness = "vacuous"],
    [id |-> "selector-ambiguity", holds |-> in.ambiguous],
    [id |-> "canary-non-detection", holds |-> CanaryUndetected(in)],
    [id |-> "unsupported-disposition", holds |-> DispositionUnsupported(in)],
    [id |-> "disposition-missing",
        holds |-> in.required /\ in.disposition = "none"] >>

InvalidatingConditions(in) ==
    {row.id : row \in {ConditionRows(in)[i] : i \in
                       {j \in DOMAIN ConditionRows(in) : ConditionRows(in)[j].holds}}}

StepsUnreached(in) ==
    /\ in.witness \in {"none", "not-triggered"}
    /\ in.steps = "all-none"

OracleCitedDefect(in) == in.witness = "none" /\ in.bucket = "mapped"

ZeroActionDetected(in) ==
    in.class = "zero-action" /\ ~in.clean /\ in.witness = "matched"

WitnessIs(in, result) == in.witness = result /\ ~in.clean

CleanControlFalsePositive(in) == in.clean /\ Cites(in)

CleanControlPassed(in) == in.clean /\ in.check # "insufficient-evidence"

CanaryDetected(in) == in.class = "canary" /\ Cites(in)

(* The last row's guard, written out as the negation of the others.        *)
OutcomeClear(in) ==
    /\ ~in.fault
    /\ in.judge # "malformed"
    /\ ~ProbeUnqualified(in)
    /\ in.bucket # "dangling"
    /\ in.witness \notin {"unwitnessed-claim", "vacuous"}
    /\ ~in.ambiguous
    /\ ~WitnessIs(in, "unexercised")
    /\ ~StepsUnreached(in)
    /\ ~ZeroActionDetected(in)
    /\ ~CleanControlFalsePositive(in)
    /\ ~CleanControlPassed(in)
    /\ ~CanaryDetected(in)
    /\ ~CanaryUndetected(in)
    /\ ~WitnessIs(in, "matched")
    /\ ~WitnessIs(in, "manifested-unclaimed")
    /\ ~OracleCitedDefect(in)
    /\ in.check # "insufficient-evidence"
    /\ in.witness # "not-triggered"

Row(guard, state, cites) == [holds |-> guard, state |-> state, cites |-> cites]

(* Stage B: the first row that holds decides.  `cites`: the row read the   *)
(* cited finding to reach its state.                                       *)
RuleRows(in) == <<
    Row(in.fault, "oracle-error", FALSE),
    Row(in.judge = "malformed", "judge-error", FALSE),
    Row(ProbeUnqualified(in), "infrastructure-error", FALSE),
    Row(in.bucket = "dangling", "infrastructure-error", TRUE),
    Row(in.witness = "unwitnessed-claim", "infrastructure-error", FALSE),
    Row(in.witness = "vacuous", "infrastructure-error", FALSE),
    Row(in.ambiguous, "infrastructure-error", FALSE),
    Row(WitnessIs(in, "unexercised"), "not-applicable", FALSE),
    Row(StepsUnreached(in), "unreached", FALSE),
    Row(ZeroActionDetected(in), "caught", FALSE),
    Row(CleanControlFalsePositive(in), "false-positive", TRUE),
    Row(CleanControlPassed(in), "passed-clean-control", FALSE),
    Row(CanaryDetected(in), "caught", TRUE),
    Row(CanaryUndetected(in), "infrastructure-error", FALSE),
    Row(WitnessIs(in, "matched"), "caught", FALSE),
    Row(WitnessIs(in, "manifested-unclaimed"), "missed", FALSE),
    Row(OracleCitedDefect(in), "caught", TRUE),
    Row(in.check = "insufficient-evidence", "abstained", FALSE),
    Row(in.witness = "not-triggered", "confirmed", FALSE),
    Row(OutcomeClear(in), "confirmed", FALSE) >>

FirstMatch(rows) ==
    rows[CHOOSE i \in DOMAIN rows :
            rows[i].holds /\ \A j \in 1 .. (i - 1) : ~rows[j].holds]

(* Stage C: a waiver moves one provisional state, `missed`, and no other.  *)
WaiverRule(in, provisional) ==
    IF provisional # "missed" THEN "none"
    ELSE IF in.waiver = "applied-condition-met" THEN "waiver-honoured"
    ELSE IF in.waiver = "applied-condition-unmet" THEN "waiver-bypassed"
    ELSE "none"

WaivedState(rule, provisional) ==
    IF rule = "waiver-honoured" THEN "not-applicable"
    ELSE IF rule = "waiver-bypassed" THEN "bypassed"
    ELSE provisional

(* resolvesFrom: the record's resolvedFrom names the cited finding.        *)
ResolveOutcome(in) ==
    LET rule == FirstMatch(RuleRows(in))
        waiverRule == WaiverRule(in, rule.state)
    IN [state |-> WaivedState(waiverRule, rule.state),
        waived |-> waiverRule = "waiver-honoured",
        resolvesFrom |-> Cites(in) /\ rule.cites,
        conditions |-> InvalidatingConditions(in)]

-----------------------------------------------------------------------------
(* core/score/reduce-trials.ts: one probe's trial votes folded into one    *)
(* result.  A vote is an outcome state; its position is the trial's index. *)
(* The source divides caughtCount by validCount and compares the quotient  *)
(* with the policy's threshold; here the threshold is the rational         *)
(* num / den and the comparison is cross-multiplied.                       *)

Where(votes, states) == {i \in DOMAIN votes : votes[i] \in states}

(* The strict majority that an unexercised set can never reach.            *)
Majority(votes, num, den) ==
    /\ Where(votes, Voted) # {}
    /\ den * Cardinality(Where(votes, {"caught"}))
           > num * Cardinality(Where(votes, Voted))

ReduceTrialSet(votes, num, den) ==
    [exercised |-> Where(votes, Voted) # {},
     caught |-> Majority(votes, num, den),
     invalidated |-> Where(votes, Invalidating)]
===============================================================================
