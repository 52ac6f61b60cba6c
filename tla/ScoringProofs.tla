------------------------------ MODULE ScoringProofs ------------------------------
(***************************************************************************)
(* What the score stage promises for every contract, policy, number of     *)
(* trials and evaluator: its types, that no invalidating condition is      *)
(* masked, and that no further trial improves a verdict.  And what the     *)
(* command line that delivers the verdict does for any number of processes *)
(* on one disk: it keeps its inputs, its exit code tells what was written, *)
(* an evidence artifact rests on records that bear it out, a strength that *)
(* is reported was measured, and the order of the arguments is no matter.  *)
(***************************************************************************)
EXTENDS ScoreStage, CommandLine, FiniteSetTheorems, SequenceTheorems, WellFoundedInduction, TLAPS

-----------------------------------------------------------------------------
(* What the decision procedure of outcome.ts decides for every input: it   *)
(* always decides, in one of its twelve states, and no invalidating        *)
(* condition that it detects is lost between the tables.                   *)

(* A nonempty set of naturals has a least element: what "first" means in   *)
(* outcome.ts's find over the rows and in score.ts's choice of a vote.     *)
LEMMA LeastElement ==
    ASSUME NEW T \in SUBSET Nat, T # {}
    PROVE  \E i \in T : \A j \in T : i <= j
<1> DEFINE R == OpToRel(<, Nat)
<1>1. \A x, y \in Nat : <<x, y>> \in R <=> x < y
  BY DEF OpToRel
<1>2. IsWellFoundedOn(R, Nat)
  BY NatLessThanWellFounded
<1> HIDE DEF R
<1>3. PICK x \in T : \A y \in T : ~ (<<y, x>> \in R)
  BY <1>2, WFMin
<1>4. \A y \in T : ~ (y < x)
  BY <1>1, <1>3
<1>5. \A y \in T : x <= y
  BY <1>4
<1> QED BY <1>5

(* The first row that holds, of a table in which some row does.            *)
LEMMA FirstMatchHolds ==
    ASSUME NEW rows, NEW n \in Nat, DOMAIN rows = 1 .. n,
           \E i \in 1 .. n : rows[i].holds
    PROVE  \E i \in 1 .. n : /\ FirstMatch(rows) = rows[i]
                             /\ rows[i].holds
                             /\ \A j \in 1 .. (i - 1) : ~rows[j].holds
<1> DEFINE T == {i \in 1 .. n : rows[i].holds}
           First(i) == rows[i].holds /\ \A j \in 1 .. (i - 1) : ~rows[j].holds
<1>1. T \in SUBSET Nat /\ T # {}
  OBVIOUS
<1>2. PICK i \in T : \A j \in T : i <= j
  BY <1>1, LeastElement
<1>3. \A j \in 1 .. (i - 1) : j \in 1 .. n /\ ~(i <= j)
  BY <1>2
<1>4. i \in DOMAIN rows /\ First(i)
  BY <1>2, <1>3
<1>5. FirstMatch(rows) = rows[CHOOSE k \in DOMAIN rows : First(k)]
  BY DEF FirstMatch
<1>6. (CHOOSE k \in DOMAIN rows : First(k)) \in DOMAIN rows
      /\ First(CHOOSE k \in DOMAIN rows : First(k))
  BY <1>4
<1> QED BY <1>5, <1>6

(* The twenty guards of the rule table, each at its place.                 *)
LEMMA RowGuards ==
    ASSUME NEW in
    PROVE  /\ DOMAIN RuleRows(in) = 1 .. 20
           /\ RuleRows(in)[1].holds <=> in.fault
           /\ RuleRows(in)[2].holds <=> in.judge = "malformed"
           /\ RuleRows(in)[3].holds <=> ProbeUnqualified(in)
           /\ RuleRows(in)[4].holds <=> in.bucket = "dangling"
           /\ RuleRows(in)[5].holds <=> in.witness = "unwitnessed-claim"
           /\ RuleRows(in)[6].holds <=> in.witness = "vacuous"
           /\ RuleRows(in)[7].holds <=> in.ambiguous
           /\ RuleRows(in)[8].holds <=> WitnessIs(in, "unexercised")
           /\ RuleRows(in)[9].holds <=> StepsUnreached(in)
           /\ RuleRows(in)[10].holds <=> ZeroActionDetected(in)
           /\ RuleRows(in)[11].holds <=> CleanControlFalsePositive(in)
           /\ RuleRows(in)[12].holds <=> CleanControlPassed(in)
           /\ RuleRows(in)[13].holds <=> CanaryDetected(in)
           /\ RuleRows(in)[14].holds <=> CanaryUndetected(in)
           /\ RuleRows(in)[15].holds <=> WitnessIs(in, "matched")
           /\ RuleRows(in)[16].holds <=> WitnessIs(in, "manifested-unclaimed")
           /\ RuleRows(in)[17].holds <=> OracleCitedDefect(in)
           /\ RuleRows(in)[18].holds <=> in.check = "insufficient-evidence"
           /\ RuleRows(in)[19].holds <=> in.witness = "not-triggered"
           /\ RuleRows(in)[20].holds <=> OutcomeClear(in)
<1> DEFINE H(i) == RuleRows(in)[i].holds
<1>1. /\ DOMAIN RuleRows(in) = 1 .. 20
      /\ H(1) = (in.fault)
      /\ H(2) = (in.judge = "malformed")
      /\ H(3) = (ProbeUnqualified(in))
      /\ H(4) = (in.bucket = "dangling")
      /\ H(5) = (in.witness = "unwitnessed-claim")
      /\ H(6) = (in.witness = "vacuous")
      /\ H(7) = (in.ambiguous)
      /\ H(8) = (WitnessIs(in, "unexercised"))
      /\ H(9) = (StepsUnreached(in))
      /\ H(10) = (ZeroActionDetected(in))
      /\ H(11) = (CleanControlFalsePositive(in))
      /\ H(12) = (CleanControlPassed(in))
      /\ H(13) = (CanaryDetected(in))
      /\ H(14) = (CanaryUndetected(in))
      /\ H(15) = (WitnessIs(in, "matched"))
      /\ H(16) = (WitnessIs(in, "manifested-unclaimed"))
      /\ H(17) = (OracleCitedDefect(in))
      /\ H(18) = (in.check = "insufficient-evidence")
      /\ H(19) = (in.witness = "not-triggered")
      /\ H(20) = (OutcomeClear(in))
  BY DEF RuleRows, Row
<1>2. /\ H(1) <=> in.fault
      /\ H(7) <=> in.ambiguous
  BY <1>1
<1> HIDE DEF H
<1>3. QED BY <1>1, <1>2 DEF H

(* ... and the state each of them gives.                                   *)
LEMMA RowStates ==
    ASSUME NEW in
    PROVE  LET r == RuleRows(in) IN
           /\ r[1].state = "oracle-error" /\ r[2].state = "judge-error"
           /\ \A i \in 3 .. 7 : r[i].state = "infrastructure-error"
           /\ r[8].state = "not-applicable" /\ r[9].state = "unreached"
           /\ r[10].state = "caught" /\ r[11].state = "false-positive"
           /\ r[12].state = "passed-clean-control" /\ r[13].state = "caught"
           /\ r[14].state = "infrastructure-error" /\ r[15].state = "caught"
           /\ r[16].state = "missed" /\ r[17].state = "caught"
           /\ r[18].state = "abstained"
           /\ r[19].state = "confirmed" /\ r[20].state = "confirmed"
  BY DEF RuleRows, Row

(* The rules that a provisional state came from: some row decides, and     *)
(* none before it held.                                                    *)
Decides(in, i) ==
    /\ FirstMatch(RuleRows(in)) = RuleRows(in)[i]
    /\ RuleRows(in)[i].holds
    /\ \A j \in 1 .. (i - 1) : ~RuleRows(in)[j].holds

(* The table is total: the last row, written out as the negation of the    *)
(* others (outcome.ts, outcome-clear), leaves no input without a row.      *)
THEOREM RuleTableTotal ==
    ASSUME NEW in
    PROVE  \E i \in 1 .. 20 : Decides(in, i)
<1> DEFINE H(i) == RuleRows(in)[i].holds
<1>1. \/ H(1) \/ H(2) \/ H(3) \/ H(4) \/ H(5)
      \/ H(6) \/ H(7) \/ H(8) \/ H(9) \/ H(10)
      \/ H(11) \/ H(12) \/ H(13) \/ H(14) \/ H(15)
      \/ H(16) \/ H(17) \/ H(18) \/ H(19) \/ H(20)
  BY RowGuards DEF OutcomeClear
<1>2. \E i \in 1 .. 20 : H(i)
  <2> HIDE DEF H
  <2> QED BY <1>1
<1> QED BY <1>2, RowGuards, FirstMatchHolds DEF Decides

(* Every oracle is resolved to one of the twelve states, a waiver applied  *)
(* or not.                                                                 *)
THEOREM ResolvedState ==
    ASSUME NEW in
    PROVE  ResolveOutcome(in).state \in OutcomeStates
<1>1. PICK i \in 1 .. 20 : Decides(in, i)
  BY RuleTableTotal
<1>2. RuleRows(in)[i].state \in OutcomeStates
  BY RowStates DEF OutcomeStates, Invalidating, Unvoted, Voted
<1>3. FirstMatch(RuleRows(in)).state \in OutcomeStates
  BY <1>1, <1>2 DEF Decides
<1> QED BY <1>3 DEF ResolveOutcome, WaivedState, OutcomeStates, Unvoted, Voted

(* A waiver never moves an invalidating state.                             *)
LEMMA WaiverSparesInvalid ==
    ASSUME NEW in, FirstMatch(RuleRows(in)).state \in Invalidating
    PROVE  ResolveOutcome(in).state \in Invalidating
  BY DEF ResolveOutcome, WaivedState, WaiverRule, Invalidating

(* The conditions that no row of the rule table turns into a state: the    *)
(* ladder reads the missing disposition itself, and nothing reads an       *)
(* unsupported one.                                                        *)
Stateless == {"disposition-missing", "unsupported-disposition"}

(* Each condition of the record stands for the guard of its row.           *)
LEMMA ConditionRowOf ==
    ASSUME NEW in, NEW c \in InvalidatingConditions(in)
    PROVE  \/ c = "evaluation-fault" /\ in.fault
           \/ c = "judge-malformed" /\ in.judge = "malformed"
           \/ c = "unqualified-probe-in-sealed-set" /\ ProbeUnqualified(in)
           \/ c = "dangling-probe-citation" /\ in.bucket = "dangling"
           \/ c = "unwitnessed-detection-claim" /\ in.witness = "unwitnessed-claim"
           \/ c = "vacuous-signature" /\ in.witness = "vacuous"
           \/ c = "selector-ambiguity" /\ in.ambiguous
           \/ c = "canary-non-detection" /\ CanaryUndetected(in)
           \/ c \in Stateless
<1> DEFINE rows == ConditionRows(in)
<1>1. PICK i \in DOMAIN rows : rows[i].holds /\ rows[i].id = c
  BY DEF InvalidatingConditions
<1>2. DOMAIN rows = 1 .. 10
  BY DEF ConditionRows
<1>3. /\ rows[1].id = "evaluation-fault" /\ rows[1].holds = in.fault
      /\ rows[2].id = "judge-malformed" /\ rows[2].holds = (in.judge = "malformed")
      /\ rows[3].id = "unqualified-probe-in-sealed-set"
      /\ rows[3].holds = ProbeUnqualified(in)
      /\ rows[4].id = "dangling-probe-citation"
      /\ rows[4].holds = (in.bucket = "dangling")
      /\ rows[5].id = "unwitnessed-detection-claim"
      /\ rows[5].holds = (in.witness = "unwitnessed-claim")
      /\ rows[6].id = "vacuous-signature" /\ rows[6].holds = (in.witness = "vacuous")
      /\ rows[7].id = "selector-ambiguity" /\ rows[7].holds = in.ambiguous
      /\ rows[8].id = "canary-non-detection" /\ rows[8].holds = CanaryUndetected(in)
      /\ rows[9].id = "unsupported-disposition"
      /\ rows[10].id = "disposition-missing"
  BY DEF ConditionRows
<1>4. (rows[1].holds <=> in.fault) /\ (rows[7].holds <=> in.ambiguous)
  BY <1>3
<1> HIDE DEF rows
<1>5. i \in 1 .. 10
  BY <1>1, <1>2
<1>6. i = 1 => c = "evaluation-fault" /\ in.fault
  BY <1>1, <1>3, <1>4
<1>7. i = 7 => c = "selector-ambiguity" /\ in.ambiguous
  BY <1>1, <1>3, <1>4
<1>8. i \in {9, 10} => c \in Stateless
  BY <1>1, <1>3 DEF Stateless
<1>9. /\ i = 2 => c = "judge-malformed" /\ in.judge = "malformed"
      /\ i = 3 => c = "unqualified-probe-in-sealed-set" /\ ProbeUnqualified(in)
      /\ i = 4 => c = "dangling-probe-citation" /\ in.bucket = "dangling"
      /\ i = 5 => c = "unwitnessed-detection-claim" /\ in.witness = "unwitnessed-claim"
      /\ i = 6 => c = "vacuous-signature" /\ in.witness = "vacuous"
      /\ i = 8 => c = "canary-non-detection" /\ CanaryUndetected(in)
  BY <1>1, <1>3
<1> QED BY <1>5, <1>6, <1>7, <1>8, <1>9

(* A canary that qualifies carries no signature and is no clean control.   *)
CanaryUnwitnessed(in) ==
    (in.class = "canary" /\ in.qualified) => (in.witness = "none" /\ ~in.clean)

(* Every other condition shows: no earlier row takes the oracle to a state *)
(* that a later stage would count.                                         *)
THEOREM ConditionShows ==
    ASSUME NEW in, CanaryUnwitnessed(in),
           ~ InvalidatingConditions(in) \subseteq Stateless
    PROVE  ResolveOutcome(in).state \in Invalidating
<1> DEFINE H(j) == RuleRows(in)[j].holds
<1>1. PICK i \in 1 .. 20 : Decides(in, i)
  BY RuleTableTotal
<1>2. CASE i \in (1 .. 7) \cup {14}
  <2>1. RuleRows(in)[i].state \in Invalidating
    BY <1>2, RowStates DEF Invalidating
  <2> QED BY <2>1, <1>1, WaiverSparesInvalid DEF Decides
<1>3. CASE i \notin (1 .. 7) \cup {14}
  <2>1. /\ ~H(1) /\ ~H(2) /\ ~H(3) /\ ~H(4) /\ ~H(5) /\ ~H(6) /\ ~H(7)
        /\ i >= 15 => ~H(14)
    BY <1>1, <1>3 DEF Decides
  <2>2. /\ ~in.fault /\ in.judge # "malformed" /\ ~ProbeUnqualified(in)
        /\ in.bucket # "dangling"
        /\ in.witness \notin {"unwitnessed-claim", "vacuous"} /\ ~in.ambiguous
    BY <2>1, RowGuards
  <2>3. CanaryUndetected(in)
    BY <2>2, ConditionRowOf DEF Stateless
  <2>4. i \in 8 .. 13
    <3>1. H(14)
      BY <2>3, RowGuards
    <3> HIDE DEF H
    <3> QED BY <1>3, <2>1, <3>1
  <2>5. in.witness = "none" /\ ~in.clean
    BY <2>2, <2>3 DEF CanaryUnwitnessed, CanaryUndetected, ProbeUnqualified
  <2>6. ~H(8) /\ ~H(9) /\ ~H(10) /\ ~H(11) /\ ~H(12) /\ ~H(13)
    BY <2>3, <2>5, RowGuards DEF CanaryUndetected, WitnessIs, StepsUnreached,
       ZeroActionDetected, CleanControlFalsePositive, CleanControlPassed, CanaryDetected
  <2> QED BY <1>1, <2>4, <2>6 DEF Decides
<1> QED BY <1>2, <1>3
(* A catch is read off a witness that matched, wherever a witness was      *)
(* looked for: the rows that catch without one are of a probe that has     *)
(* none.                                                                   *)
LEMMA CaughtByMatch ==
    ASSUME NEW in, CanaryUnwitnessed(in), in.witness # "none",
           ResolveOutcome(in).state = "caught"
    PROVE  in.witness = "matched"
<1>1. PICK i \in 1 .. 20 : Decides(in, i)
  BY RuleTableTotal
<1>2. RuleRows(in)[i].state = "caught"
  BY <1>1 DEF ResolveOutcome, WaivedState, Decides
<1>3. i \in {10, 13, 15, 17}
  BY <1>2, RowStates
<1>4. ~RuleRows(in)[3].holds
  BY <1>1, <1>3 DEF Decides
<1>5. i # 13
  BY <1>1, <1>4, RowGuards DEF Decides, CanaryDetected, ProbeUnqualified, CanaryUnwitnessed
<1>6. i # 17
  BY <1>1, RowGuards DEF Decides, OracleCitedDefect
<1>7. i \in {10, 15}
  BY <1>3, <1>5, <1>6
<1> QED BY <1>1, <1>7, RowGuards DEF Decides, ZeroActionDetected, WitnessIs

(* A defect that showed and was not claimed, or not truly, leaves its mark *)
(* on the oracle: an invalidating state, a miss, or a waiver of the miss.  *)
LEMMA MissLeavesMark ==
    ASSUME NEW in, CanaryUnwitnessed(in), ~in.clean,
           in.witness \in {"unwitnessed-claim", "manifested-unclaimed"}
    PROVE  LET r == ResolveOutcome(in) IN
           r.state \in Invalidating \cup {"missed", "bypassed"} \/ r.waived
<1>1. PICK i \in 1 .. 20 : Decides(in, i)
  BY RuleTableTotal
<1> DEFINE state == RuleRows(in)[i].state
<1>2. state \in Invalidating \cup {"missed"}
  <2>1. CASE in.witness = "unwitnessed-claim"
    <3>1. RuleRows(in)[5].holds
      BY <2>1, RowGuards
    <3>2. i \in 1 .. 5
      BY <1>1, <3>1 DEF Decides
    <3> QED BY <3>2, RowStates DEF Invalidating
  <2>2. CASE in.witness = "manifested-unclaimed"
    <3>1. RuleRows(in)[16].holds
      BY <2>2, RowGuards DEF WitnessIs
    <3>2. i \in 1 .. 16
      BY <1>1, <3>1 DEF Decides
    <3>3. i \notin {8, 9, 10, 11, 12, 15}
      BY <1>1, <2>2, RowGuards DEF Decides, WitnessIs, StepsUnreached, ZeroActionDetected,
         CleanControlFalsePositive, CleanControlPassed
    <3>4. i # 13
      <4> SUFFICES ASSUME i = 13 PROVE FALSE
        OBVIOUS
      <4>1. ~RuleRows(in)[3].holds /\ RuleRows(in)[13].holds
        BY <1>1 DEF Decides
      <4> QED BY <4>1, <2>2, RowGuards DEF CanaryDetected, ProbeUnqualified, CanaryUnwitnessed
    <3>5. i \in (3 .. 7) \cup {1, 2, 14, 16}
      BY <3>2, <3>3, <3>4
    <3> QED BY <3>5, RowStates DEF Invalidating
  <2> QED BY <2>1, <2>2
<1>3. FirstMatch(RuleRows(in)).state = state
  BY <1>1 DEF Decides
<1> HIDE DEF state
<1>4. CASE state = "missed"
  BY <1>3, <1>4 DEF ResolveOutcome, WaivedState, WaiverRule
<1>5. CASE state \in Invalidating
  BY <1>3, <1>5, WaiverSparesInvalid
<1> QED BY <1>2, <1>4, <1>5

(* What is waived was waived by a waiver whose condition was met.          *)
LEMMA WaivedIsWaived ==
    ASSUME NEW in, ResolveOutcome(in).waived
    PROVE  in.waiver = "applied-condition-met"
  BY DEF ResolveOutcome, WaiverRule

-----------------------------------------------------------------------------
(* The verdict ladder as a function of its assessment: which rung is       *)
(* taken, and that more of what fires a row never improves it.             *)

(* The first rung with a row fired, worst first.                           *)
LEMMA RungOf ==
    ASSUME NEW a, NEW mode
    PROVE  LET Fired(rung) == RowsOf(a, mode, rung) # {} IN
           /\ Fired("invalid") => Rung(a, mode) = "invalid"
           /\ ~Fired("invalid") /\ Fired("FAIL") => Rung(a, mode) = "FAIL"
           /\ ~Fired("invalid") /\ ~Fired("FAIL") /\ Fired("CONCERNS")
                => Rung(a, mode) = "CONCERNS"
           /\ ~Fired("invalid") /\ ~Fired("FAIL") /\ ~Fired("CONCERNS") /\ Fired("WAIVED")
                => Rung(a, mode) = "WAIVED"
           /\ ~Fired("invalid") /\ ~Fired("FAIL") /\ ~Fired("CONCERNS") /\ ~Fired("WAIVED")
                => Rung(a, mode) = "PASS"
<1> DEFINE Fired(rung) == RowsOf(a, mode, rung) # {}
           First(i) == /\ i = 5 \/ Fired(RungPrecedence[i])
                       /\ \A j \in 1 .. (i - 1) : ~Fired(RungPrecedence[j])
           c == CHOOSE i \in 1 .. 5 : First(i)
<1>1. Rung(a, mode) = RungPrecedence[c]
  BY DEF Rung
<1>2. /\ RungPrecedence[1] = "invalid" /\ RungPrecedence[2] = "FAIL"
      /\ RungPrecedence[3] = "CONCERNS" /\ RungPrecedence[4] = "WAIVED"
      /\ RungPrecedence[5] = "PASS"
  BY DEF RungPrecedence
<1>3. \A i, j \in 1 .. 5 : First(i) /\ First(j) => i = j
  <2> SUFFICES ASSUME NEW i \in 1 .. 5, NEW j \in 1 .. 5, First(i), First(j), i < j
               PROVE  FALSE
    BY DEF First
  <2> i \in 1 .. (j - 1) /\ i # 5
    OBVIOUS
  <2> QED OBVIOUS
<1>4. \A i \in 1 .. 5 : First(i) => c = i
  <2> SUFFICES ASSUME NEW i \in 1 .. 5, First(i) PROVE c = i
    OBVIOUS
  <2> c \in 1 .. 5 /\ First(c)
    OBVIOUS
  <2> QED BY <1>3
<1>5. /\ First(1) <=> Fired("invalid")
      /\ First(2) <=> ~Fired("invalid") /\ Fired("FAIL")
      /\ First(3) <=> ~Fired("invalid") /\ ~Fired("FAIL") /\ Fired("CONCERNS")
      /\ First(4) <=> /\ ~Fired("invalid") /\ ~Fired("FAIL") /\ ~Fired("CONCERNS")
                      /\ Fired("WAIVED")
      /\ First(5) <=> /\ ~Fired("invalid") /\ ~Fired("FAIL") /\ ~Fired("CONCERNS")
                      /\ ~Fired("WAIVED")
  BY <1>2
<1> HIDE DEF c, Fired, First
<1>6. /\ First(1) => c = 1
      /\ First(2) => c = 2
      /\ First(3) => c = 3
      /\ First(4) => c = 4
      /\ First(5) => c = 5
  BY <1>4
<1> QED BY <1>1, <1>2, <1>5, <1>6 DEF Fired

(* What `b` fires beyond `a` only worsens the verdict; the one row that    *)
(* may go is the count that falls short, and then only as a sole concern.  *)
LEMMA RungNeverImproves ==
    ASSUME NEW a, NEW b, NEW mode,
           InvalidRows(a) \subseteq InvalidRows(b),
           FailRows(a) \subseteq FailRows(b),
           ConcernRows(a) \ {"below-minimum-trial-count"} \subseteq ConcernRows(b),
           WaivedRows(a) \subseteq WaivedRows(b),
           a.recommendation = b.recommendation
    PROVE  \/ Severity[Rung(b, mode)] >= Severity[Rung(a, mode)]
           \/ RowsOf(a, mode, "CONCERNS") = {"below-minimum-trial-count"}
<1> SUFFICES ASSUME RowsOf(a, mode, "CONCERNS") # {"below-minimum-trial-count"}
             PROVE  Severity[Rung(b, mode)] >= Severity[Rung(a, mode)]
  OBVIOUS
<1> DEFINE A(rung) == RowsOf(a, mode, rung) # {}
           B(rung) == RowsOf(b, mode, rung) # {}
<1>1. A("invalid") => B("invalid")
  BY DEF RowsOf
<1>2. A("FAIL") => B("FAIL")
  BY DEF RowsOf, RecommendationFail
<1>3. A("CONCERNS") => B("CONCERNS")
  <2>1. RowsOf(a, mode, "CONCERNS") \ {"below-minimum-trial-count"}
            \subseteq RowsOf(b, mode, "CONCERNS")
    BY DEF RowsOf, RecommendationConcerns
  <2> QED BY <2>1
<1>4. A("WAIVED") => B("WAIVED")
  BY DEF RowsOf
<1>5. /\ Severity["PASS"] = 0 /\ Severity["WAIVED"] = 1 /\ Severity["CONCERNS"] = 2
      /\ Severity["FAIL"] = 3 /\ Severity["invalid"] = 4
  BY DEF Severity
<1>6. /\ A("invalid") => Rung(a, mode) = "invalid"
      /\ ~A("invalid") /\ A("FAIL") => Rung(a, mode) = "FAIL"
      /\ ~A("invalid") /\ ~A("FAIL") /\ A("CONCERNS") => Rung(a, mode) = "CONCERNS"
      /\ ~A("invalid") /\ ~A("FAIL") /\ ~A("CONCERNS") /\ A("WAIVED")
           => Rung(a, mode) = "WAIVED"
      /\ ~A("invalid") /\ ~A("FAIL") /\ ~A("CONCERNS") /\ ~A("WAIVED")
           => Rung(a, mode) = "PASS"
  BY RungOf
<1>7. /\ B("invalid") => Rung(b, mode) = "invalid"
      /\ ~B("invalid") /\ B("FAIL") => Rung(b, mode) = "FAIL"
      /\ ~B("invalid") /\ ~B("FAIL") /\ B("CONCERNS") => Rung(b, mode) = "CONCERNS"
      /\ ~B("invalid") /\ ~B("FAIL") /\ ~B("CONCERNS") /\ B("WAIVED")
           => Rung(b, mode) = "WAIVED"
      /\ ~B("invalid") /\ ~B("FAIL") /\ ~B("CONCERNS") /\ ~B("WAIVED")
           => Rung(b, mode) = "PASS"
  BY RungOf
<1> HIDE DEF A, B
<1> QED BY <1>1, <1>2, <1>3, <1>4, <1>5, <1>6, <1>7

(* A row of Invalid leaves no verdict, whatever else fired, and the        *)
(* process ends with exit code 3, --strict or not.                         *)
LEMMA InvalidDecides ==
    ASSUME NEW a, NEW mode, InvalidRows(a) # {}
    PROVE  /\ Rung(a, mode) = "invalid"
           /\ \A strict \in BOOLEAN : ExitCode(a, mode, strict) = 3
<1>1. RowsOf(a, mode, "invalid") # {}
  BY DEF RowsOf
<1>2. Rung(a, mode) = "invalid"
  BY <1>1, RungOf
<1>3. LadderExit["invalid"] = 3
  BY DEF LadderExit
<1> QED BY <1>2, <1>3 DEF ExitCode

(* When no concern but a thin measurement fired, --strict changes nothing. *)
LEMMA StrictPromotesNothing ==
    ASSUME NEW a, NEW mode,
           RowsOf(a, mode, "CONCERNS") \subseteq EvidenceConditions
    PROVE  ExitCode(a, mode, TRUE) = ExitCode(a, mode, FALSE)
  BY DEF ExitCode, StrictPromotable
-----------------------------------------------------------------------------
(* The score stage.                                                        *)

USE OraclesAssumption, PolicyAssumption

(* While a trial is open it has not voted, each of its states is that of a *)
(* recorded outcome, and only a signed probe has a witness.                *)
OpenInv ==
    phase = "oracles" =>
        /\ Len(votes) < trial
        /\ \A i \in DOMAIN states : \E o \in outcomes : o.state = states[i]
        /\ Signed(setting.probe) \/ reading.witness = "none"

(* A condition that the ladder does not read itself left its outcome in an *)
(* invalidating state.                                                     *)
OutcomesShow ==
    \A o \in outcomes : ~ o.conditions \subseteq Stateless => o.state \in Invalidating

DecisionInv == phase = "decided" => decision = Reduced

ScoreInv == ScoreTypeOK /\ OpenInv /\ OutcomesShow /\ DecisionInv

(* A trial's vote is one of its oracles' states.                           *)
LEMMA VoteIsAState ==
    ASSUME ScoreTypeOK, states # <<>>
    PROVE  \E i \in DOMAIN states : Vote = states[i]
<1>1. DOMAIN states \in SUBSET Nat /\ DOMAIN states # {}
  <2>1. states \in Seq(OutcomeStates)
    BY DEF ScoreTypeOK
  <2>2. Len(states) \in Nat /\ DOMAIN states = 1 .. Len(states) /\ Len(states) # 0
    BY <2>1, LenProperties, EmptySeq
  <2>3. 1 \in DOMAIN states /\ \A i \in DOMAIN states : i \in Nat
    BY <2>2
  <2> QED BY <2>3
<1>2. \A T \in SUBSET (DOMAIN states) : T # {} => \E i \in DOMAIN states : FirstOf(T) = states[i]
  <2> SUFFICES ASSUME NEW T \in SUBSET (DOMAIN states), T # {}
               PROVE  \E i \in DOMAIN states : FirstOf(T) = states[i]
    OBVIOUS
  <2>1. \E i \in T : \A j \in T : i <= j
    BY <1>1, LeastElement
  <2>2. (CHOOSE i \in T : \A j \in T : i <= j) \in DOMAIN states
    BY <2>1
  <2> QED BY <2>2 DEF FirstOf
<1> DEFINE D == {i \in DOMAIN states : Oracles[i] = setting.designated}
           I == {i \in DOMAIN states : states[i] \in Invalidating}
<1>3. Vote = IF D # {} THEN FirstOf(D) ELSE IF I # {} THEN FirstOf(I)
             ELSE FirstOf(DOMAIN states)
  BY DEF Vote
<1> QED BY <1>1, <1>2, <1>3

(* What an oracle of the open trial resolves to, and that its conditions   *)
(* show.  The qualification gate is what keeps a canary unwitnessed.       *)
LEMMA ResolutionFacts ==
    ASSUME OpenInv, phase = "oracles", NEW o, NEW answer
    PROVE  LET r == ResolveOutcome(AnswerInputs(o, answer)) IN
           /\ r.state \in OutcomeStates
           /\ ~ r.conditions \subseteq Stateless => r.state \in Invalidating
<1> DEFINE in == AnswerInputs(o, answer)
<1>1. /\ in.class = setting.probe.class /\ in.clean = setting.probe.clean
      /\ in.qualified = Qualified(setting.probe)
      /\ in.witness = IF o = setting.designated THEN reading.witness ELSE "none"
  BY DEF AnswerInputs
<1>2. CanaryUnwitnessed(in)
  BY <1>1 DEF CanaryUnwitnessed, Qualified, Signed, OpenInv
<1> HIDE DEF in
<1>3. ResolveOutcome(in).conditions = InvalidatingConditions(in)
  BY DEF ResolveOutcome
<1>4. ResolveOutcome(in).state \in OutcomeStates
  BY ResolvedState
<1>5. ~ InvalidatingConditions(in) \subseteq Stateless
        => ResolveOutcome(in).state \in Invalidating
  BY <1>2, ConditionShows
<1> QED BY <1>3, <1>4, <1>5 DEF in

LEMMA InitEstablishes == StageInit => ScoreInv
  BY DEF StageInit, ScoreInv, ScoreTypeOK, OpenInv, OutcomesShow, DecisionInv

(* Appending to a sequence, with the types that the steps below need.      *)
LEMMA AppendTyped ==
    ASSUME NEW S, NEW s \in Seq(S), NEW e \in S
    PROVE  /\ Append(s, e) \in Seq(S)
           /\ Len(Append(s, e)) = Len(s) + 1
           /\ Len(s) \in Nat /\ DOMAIN s = 1 .. Len(s)
           /\ DOMAIN Append(s, e) = 1 .. Len(s) + 1
           /\ \A i \in 1 .. Len(s) : Append(s, e)[i] = s[i]
           /\ Append(s, e)[Len(s) + 1] = e
  BY AppendProperties, LenProperties

LEMMA OpenTrialPreserves ==
    ASSUME ScoreInv,
           NEW obs \in Records, NEW findings \in Filings, NEW rows \in Integrity,
           OpenTrial(obs, findings, rows)
    PROVE  ScoreInv'
<1> USE DEF ScoreInv
<1>1. /\ phase = "between" /\ trial < MaxTrials /\ trial' = trial + 1
      /\ next' = 1 /\ states' = <<>> /\ phase' = "oracles"
      /\ UNCHANGED <<setting, outcomes, votes, decision>>
  BY DEF OpenTrial
<1>2. facts' \in Seq([manifested : BOOLEAN, witnessed : BOOLEAN,
                      cited : SUBSET {f.oracle : f \in UNION Filings}])
      /\ Len(facts') = trial'
  <2> DEFINE S == [manifested : BOOLEAN, witnessed : BOOLEAN,
                   cited : SUBSET {f.oracle : f \in UNION Filings}]
  <2>1. PICK e \in S : facts' = Append(facts, e)
    <3> DEFINE truly == Manifestations(obs)
               e == [manifested |-> truly # {},
                     witnessed |-> {f \in findings : f.own /\ f.cites \cap truly # {}} # {},
                     cited |-> {f.oracle : f \in findings}]
    <3>1. facts' = Append(facts, e)
      BY DEF OpenTrial
    <3>2. {f.oracle : f \in findings} \subseteq {f.oracle : f \in UNION Filings}
      OBVIOUS
    <3>3. e \in S
      BY <3>2
    <3> QED BY <3>1, <3>3
  <2>2. facts \in Seq(S) /\ Len(facts) = trial
    BY DEF ScoreTypeOK
  <2> QED BY <1>1, <2>1, <2>2, AppendTyped
<1>3. ScoreTypeOK'
  BY <1>1, <1>2 DEF ScoreTypeOK
<1>4. OpenInv'
  <2>1. Len(votes') < trial'
    BY <1>1, LenProperties DEF ScoreTypeOK
  <2>2. Signed(setting.probe) \/ reading'.witness = "none"
    BY DEF OpenTrial
  <2> QED BY <1>1, <2>1, <2>2 DEF OpenInv
<1>5. OutcomesShow' /\ DecisionInv'
  BY <1>1 DEF OutcomesShow, DecisionInv
<1> QED BY <1>3, <1>4, <1>5

LEMMA ResolveOraclePreserves ==
    ASSUME ScoreInv, NEW o \in OracleSet, NEW answer \in Answers[o],
           ResolveOracle(o, answer)
    PROVE  ScoreInv'
<1> USE DEF ScoreInv
<1> DEFINE r == ResolveOutcome(AnswerInputs(o, answer))
           new == [trial |-> trial, oracle |-> o, state |-> r.state,
                   waived |-> r.waived, conditions |-> r.conditions,
                   severe |-> SevereOutcome(o, r), checked |-> answer.check # "none"]
<1>1. /\ phase = "oracles" /\ next <= Len(Oracles) /\ next' = next + 1
      /\ outcomes' = outcomes \cup {new} /\ states' = Append(states, r.state)
      /\ UNCHANGED <<setting, phase, trial, reading, votes, noted, facts, decision>>
  BY DEF ResolveOracle, Pooled
<1>2. /\ r.state \in OutcomeStates
      /\ ~ r.conditions \subseteq Stateless => r.state \in Invalidating
  BY <1>1, ResolutionFacts
<1>3. /\ new.state = r.state /\ new.conditions = r.conditions
      /\ new.trial = trial /\ new.oracle = o
  OBVIOUS
<1> HIDE DEF r, new
<1>4. states \in Seq(OutcomeStates) /\ Len(Oracles) \in Nat
  BY LenProperties DEF ScoreTypeOK
<1>5. ScoreTypeOK'
  <2>1. trial \in 1 .. trial
    BY <1>1, LenProperties DEF ScoreTypeOK, OpenInv
  <2>2. states' \in Seq(OutcomeStates)
    BY <1>1, <1>2, <1>4, AppendTyped
  <2>3. \A p \in outcomes' : /\ p.state \in OutcomeStates /\ p.trial \in 1 .. trial'
                             /\ p.oracle \in OracleSet
    BY <1>1, <1>2, <1>3, <2>1 DEF ScoreTypeOK
  <2> QED BY <1>1, <1>4, <2>2, <2>3 DEF ScoreTypeOK
<1>6. OpenInv'
  <2>1. \A i \in DOMAIN states' : \E p \in outcomes' : p.state = states'[i]
    <3> SUFFICES ASSUME NEW i \in DOMAIN states'
                 PROVE  \E p \in outcomes' : p.state = states'[i]
      OBVIOUS
    <3>1. /\ Len(states) \in Nat /\ DOMAIN states = 1 .. Len(states)
          /\ i \in 1 .. Len(states) + 1
          /\ \A j \in 1 .. Len(states) : states'[j] = states[j]
          /\ states'[Len(states) + 1] = r.state
      BY <1>1, <1>2, <1>4, AppendTyped
    <3>2. CASE i = Len(states) + 1
      BY <1>1, <1>3, <3>1, <3>2
    <3>3. CASE i \in DOMAIN states
      BY <1>1, <3>1, <3>3 DEF OpenInv
    <3> QED BY <3>1, <3>2, <3>3
  <2> QED BY <1>1, <2>1 DEF OpenInv
<1>7. OutcomesShow' /\ DecisionInv'
  BY <1>1, <1>2, <1>3 DEF OutcomesShow, DecisionInv
<1> QED BY <1>5, <1>6, <1>7

LEMMA CloseTrialPreserves ==
    ASSUME ScoreInv, CloseTrial
    PROVE  ScoreInv'
<1> USE DEF ScoreInv
<1>1. /\ phase = "oracles" /\ phase' = "between" /\ next' = 1 /\ states' = <<>>
      /\ UNCHANGED <<setting, trial, outcomes, noted, facts, decision>>
  BY DEF CloseTrial
<1>2. /\ votes' \in Seq(OutcomeStates) /\ Len(votes') <= trial
      /\ \A i \in DOMAIN votes' : \E o \in outcomes : o.state = votes'[i]
  <2>1. CASE states = <<>>
    BY <1>1, <2>1 DEF CloseTrial, ScoreTypeOK
  <2>2. CASE states # <<>>
    <3>1. PICK i \in DOMAIN states : Vote = states[i]
      BY <2>2, VoteIsAState
    <3>2. Vote \in OutcomeStates /\ \E o \in outcomes : o.state = Vote
      BY <1>1, <3>1 DEF OpenInv, ScoreTypeOK
    <3>3. votes' = Append(votes, Vote) /\ votes \in Seq(OutcomeStates)
      BY <2>2 DEF CloseTrial, ScoreTypeOK
    <3>4. /\ votes' \in Seq(OutcomeStates) /\ Len(votes') = Len(votes) + 1
          /\ Len(votes) \in Nat /\ DOMAIN votes = 1 .. Len(votes)
          /\ DOMAIN votes' = 1 .. Len(votes) + 1
          /\ \A j \in 1 .. Len(votes) : votes'[j] = votes[j]
          /\ votes'[Len(votes) + 1] = Vote
      BY <3>2, <3>3, AppendTyped
    <3>5. Len(votes') <= trial
      BY <1>1, <3>4 DEF OpenInv, ScoreTypeOK
    <3>6. \A j \in DOMAIN votes' : \E o \in outcomes : o.state = votes'[j]
      <4> SUFFICES ASSUME NEW j \in DOMAIN votes'
                   PROVE  \E o \in outcomes : o.state = votes'[j]
        OBVIOUS
      <4>1. j = Len(votes) + 1 \/ j \in DOMAIN votes
        BY <3>4
      <4> QED BY <4>1, <3>2, <3>4 DEF ScoreTypeOK
    <3> QED BY <3>4, <3>5, <3>6
  <2> QED BY <2>1, <2>2
<1>3. ScoreTypeOK'
  BY <1>1, <1>2, LenProperties DEF ScoreTypeOK
<1>4. OpenInv' /\ OutcomesShow' /\ DecisionInv'
  BY <1>1 DEF OpenInv, OutcomesShow, DecisionInv
<1> QED BY <1>3, <1>4

LEMMA DecidePreserves ==
    ASSUME ScoreInv, ReduceTrials
    PROVE  ScoreInv'
<1>1. /\ phase = "between" /\ phase' = "decided" /\ decision' = Reduced
      /\ UNCHANGED <<setting, trial, reading, next, states, outcomes, votes, noted, facts>>
  BY DEF ReduceTrials
<1>2. Reduced' = Reduced
  BY <1>1 DEF Reduced
<1> QED BY <1>1, <1>2 DEF ScoreInv, ScoreTypeOK, OpenInv, OutcomesShow, DecisionInv

(* ScoreInv is inductive: one lemma above for each step.                   *)
LEMMA StepPreserves ==
    ASSUME ScoreInv, [StageNext]_stageVars
    PROVE  ScoreInv'
<1>1. CASE UNCHANGED stageVars
  <2>1. Reduced' = Reduced
    BY <1>1 DEF stageVars, Reduced
  <2> QED BY <1>1, <2>1 DEF stageVars, ScoreInv, ScoreTypeOK, OpenInv, OutcomesShow, DecisionInv
<1>2. CASE StageNext
  BY <1>2, OpenTrialPreserves, ResolveOraclePreserves, CloseTrialPreserves,
     DecidePreserves DEF StageNext
<1> QED BY <1>1, <1>2

(* The score stage's invariant.                                            *)
THEOREM ScoreInvariant == StageSpec => []ScoreInv
  BY InitEstablishes, StepPreserves, PTL DEF StageSpec

(* Every outcome has one of the twelve states, a trial votes at most once  *)
(* and a vote is the state of a recorded outcome.                          *)
THEOREM ScoreTypeCorrect == StageSpec => []ScoreTypeOK
  BY ScoreInvariant, PTL DEF ScoreInv

(* Whatever the other oracles, the other trials, the vote and the cap came *)
(* to, an invalidating condition leaves no verdict, no artifact and exit   *)
(* code 3.                                                                 *)
THEOREM NothingMaskedHolds == StageSpec => []NothingMasked
<1>1. ScoreInv => NothingMasked
  <2> DEFINE Bad == \/ \E o \in outcomes : ~ o.conditions \subseteq {"unsupported-disposition"}
                    \/ decision.invalidated # {}
                    \/ noted.integrity # {}
                    \/ ~setting.preflight
             a == Assessment
  <2> SUFFICES ASSUME ScoreInv, Decided, Bad
               PROVE  /\ Verdict = "invalid" /\ ~ArtifactMinted
                      /\ \A strict \in BOOLEAN : ExitCode(a, setting.mode, strict) = 3
    BY DEF NothingMasked
  <2>1. /\ a.outcomes = outcomes /\ a.integrity = noted.integrity
        /\ a.preflight = setting.preflight
    BY DEF Assessment
  <2> HIDE DEF a
  <2>2. (\E o \in outcomes : o.state \in Invalidating) => InvalidRows(a) # {}
    BY <2>1 DEF InvalidRows, When
  <2>3. ASSUME NEW o \in outcomes, ~ o.conditions \subseteq {"unsupported-disposition"}
        PROVE  InvalidRows(a) # {}
    <3>1. CASE "disposition-missing" \in o.conditions
      BY <2>1, <3>1 DEF InvalidRows, When
    <3>2. CASE "disposition-missing" \notin o.conditions
      <4>1. ~ o.conditions \subseteq Stateless
        BY <2>3, <3>2 DEF Stateless
      <4> QED BY <2>2, <4>1 DEF ScoreInv, OutcomesShow
    <3> QED BY <3>1, <3>2
  <2>4. ASSUME decision.invalidated # {} PROVE InvalidRows(a) # {}
    <3>1. decision.invalidated = {i \in DOMAIN votes : votes[i] \in Invalidating}
      BY DEF ScoreInv, DecisionInv, Decided, Reduced, ReduceTrialSet, Where
    <3>2. PICK i \in DOMAIN votes : votes[i] \in Invalidating
      BY <2>4, <3>1
    <3> QED BY <2>2, <3>2 DEF ScoreInv, ScoreTypeOK
  <2>5. noted.integrity # {} \/ ~setting.preflight => InvalidRows(a) # {}
    BY <2>1 DEF InvalidRows, When
  <2>6. InvalidRows(a) # {}
    <3>1. (\E o \in outcomes : ~ o.conditions \subseteq {"unsupported-disposition"})
              => InvalidRows(a) # {}
      BY <2>3
    <3> QED BY <3>1, <2>4, <2>5
  <2> QED BY <2>6, InvalidDecides DEF Verdict, ArtifactMinted, a
<1> QED BY <1>1, ScoreInvariant, PTL

(* A step only adds: outcomes, noted conditions, completed trials and      *)
(* invalidated attempts.                                                   *)
LEMMA EvidenceGrows ==
    ASSUME ScoreInv, [StageNext]_stageVars
    PROVE  /\ setting' = setting /\ outcomes \subseteq outcomes'
           /\ noted.integrity \subseteq noted'.integrity
           /\ noted.uncited => noted'.uncited
           /\ noted.unsure => noted'.unsure
           /\ Cardinality(Reduced.invalidated) \in Nat
           /\ Cardinality(Reduced'.invalidated) \in Nat
           /\ Cardinality(Reduced.invalidated) <= Cardinality(Reduced'.invalidated)
<1>1. /\ setting' = setting /\ outcomes \subseteq outcomes'
      /\ noted.integrity \subseteq noted'.integrity
      /\ noted.uncited => noted'.uncited
      /\ noted.unsure => noted'.unsure
  <2>1. ASSUME NEW obs \in Records, NEW findings \in Filings, NEW rows \in Integrity,
               OpenTrial(obs, findings, rows)
        PROVE  setting' = setting /\ outcomes' = outcomes
               /\ noted.integrity \subseteq noted'.integrity
               /\ (noted.uncited => noted'.uncited) /\ (noted.unsure => noted'.unsure)
    BY <2>1 DEF OpenTrial
  <2>2. ASSUME NEW o \in OracleSet, NEW answer \in Answers[o], ResolveOracle(o, answer)
        PROVE  setting' = setting /\ noted' = noted /\ outcomes \subseteq outcomes'
    BY <2>2 DEF ResolveOracle, Pooled
  <2>3. CloseTrial \/ ReduceTrials \/ UNCHANGED stageVars
        => setting' = setting /\ noted' = noted /\ outcomes' = outcomes
    BY DEF CloseTrial, ReduceTrials, stageVars
  <2> QED BY <2>1, <2>2, <2>3 DEF StageNext
<1> DEFINE I == Where(votes, Invalidating)
           J == Where(votes', Invalidating)
<1>2. Reduced.invalidated = I /\ Reduced'.invalidated = J
  BY DEF Reduced, ReduceTrialSet
<1>3. /\ votes \in Seq(OutcomeStates) /\ votes' \in Seq(OutcomeStates)
  BY StepPreserves DEF ScoreInv, ScoreTypeOK
<1>4. I \subseteq J
  <2>1. votes' = votes \/ votes' = Append(votes, Vote)
    BY DEF StageNext, stageVars, OpenTrial, ResolveOracle, CloseTrial, ReduceTrials
  <2>2. CASE votes' = votes
    BY <2>2
  <2>3. CASE votes' = Append(votes, Vote)
    <3>1. /\ DOMAIN votes = 1 .. Len(votes) /\ DOMAIN votes' = 1 .. Len(votes) + 1
          /\ Len(votes) \in Nat /\ \A i \in 1 .. Len(votes) : votes'[i] = votes[i]
      BY <1>3, <2>3, AppendTyped
    <3> QED BY <3>1 DEF Where
  <2> QED BY <2>1, <2>2, <2>3
<1>5. IsFiniteSet(J)
  <2>1. J \subseteq 1 .. Len(votes') /\ Len(votes') \in Nat
    BY <1>3, LenProperties DEF Where
  <2>2. IsFiniteSet(1 .. Len(votes'))
    <3>1. 1 \in Int /\ Len(votes') \in Int
      BY <2>1
    <3> QED BY <3>1, FS_Interval
  <2> QED BY <2>1, <2>2, FS_Subset
<1> HIDE DEF I, J
<1>6. /\ IsFiniteSet(I) /\ Cardinality(I) <= Cardinality(J)
  BY <1>4, <1>5, FS_Subset
<1>7. Cardinality(I) \in Nat /\ Cardinality(J) \in Nat
  BY <1>5, <1>6, FS_CardinalityType
<1> QED BY <1>1, <1>2, <1>6, <1>7

(* Running again is a further trial, never a retry: no step improves the   *)
(* verdict, but for a trial count that was the only concern.               *)
THEOREM NoRetryImprovesHolds == StageSpec => NoRetryImproves
<1> DEFINE Step == \/ Severity[Verdict'] >= Severity[Verdict]
                   \/ RowsOf(Assessment, setting.mode, "CONCERNS")
                          = {"below-minimum-trial-count"}
<1>1. ScoreInv /\ [StageNext]_stageVars => [Step]_stageVars
  <2> SUFFICES ASSUME ScoreInv, [StageNext]_stageVars PROVE Step
    OBVIOUS
  <2> DEFINE a == Assessment
             b == Assessment'
             mode == setting.mode
  <2>1. /\ setting' = setting /\ outcomes \subseteq outcomes'
        /\ noted.integrity \subseteq noted'.integrity
        /\ noted.uncited => noted'.uncited
        /\ noted.unsure => noted'.unsure
        /\ Cardinality(Reduced.invalidated) \in Nat
        /\ Cardinality(Reduced'.invalidated) \in Nat
        /\ Cardinality(Reduced.invalidated) <= Cardinality(Reduced'.invalidated)
    BY EvidenceGrows
  <2>2. /\ a.outcomes = outcomes /\ a.integrity = noted.integrity /\ a.evidence = {}
        /\ a.preflight = setting.preflight
        /\ a.invalidated = Cardinality(Reduced.invalidated) /\ a.cap = ReExecutionCap
        /\ a.recommendation = setting.recommendation /\ a.gap = setting.gap
        /\ a.unsure = noted.unsure /\ a.uncited = noted.uncited
    BY DEF Assessment
  <2>3. /\ b.outcomes = outcomes' /\ b.integrity = noted'.integrity /\ b.evidence = {}
        /\ b.preflight = setting'.preflight
        /\ b.invalidated = Cardinality(Reduced'.invalidated) /\ b.cap = ReExecutionCap
        /\ b.recommendation = setting'.recommendation /\ b.gap = setting'.gap
        /\ b.unsure = noted'.unsure /\ b.uncited = noted'.uncited
    BY DEF Assessment
  <2>4. Verdict = Rung(a, mode) /\ Verdict' = Rung(b, mode)
    BY <2>1 DEF Verdict
  <2> HIDE DEF a, b, mode
  <2>5. ReExecutionCap \in Nat
    OBVIOUS
  <2>6. InvalidRows(a) \subseteq InvalidRows(b)
    BY <2>1, <2>2, <2>3, <2>5 DEF InvalidRows, When
  <2>7. FailRows(a) \subseteq FailRows(b)
    BY <2>1, <2>2, <2>3 DEF FailRows, When
  <2>8. ConcernRows(a) \ {"below-minimum-trial-count"} \subseteq ConcernRows(b)
    BY <2>1, <2>2, <2>3 DEF ConcernRows, When
  <2>9. WaivedRows(a) \subseteq WaivedRows(b)
    BY <2>1, <2>2, <2>3 DEF WaivedRows, When
  <2>10. a.recommendation = b.recommendation
    BY <2>1, <2>2, <2>3
  <2> QED BY <2>4, <2>6, <2>7, <2>8, <2>9, <2>10, RungNeverImproves DEF a, mode
<1> QED BY <1>1, ScoreInvariant, PTL DEF StageSpec, NoRetryImproves

(* --strict spares thin evidence: with no statement about the system among *)
(* the concerns, it exits as the lenient mode does.                        *)
THEOREM StrictSparesHolds == StageSpec => []StrictSparesThinEvidence
<1>1. StrictSparesThinEvidence
  <2> SUFFICES ASSUME \A o \in outcomes : o.state \notin BehaviouralFailures,
                      ~setting.gap, ~noted.unsure, ~noted.uncited,
                      setting.mode = "production" => setting.recommendation # "CONCERNS"
               PROVE  ExitCode(Assessment, setting.mode, TRUE)
                          = ExitCode(Assessment, setting.mode, FALSE)
    BY DEF StrictSparesThinEvidence
  <2>1. RowsOf(Assessment, setting.mode, "CONCERNS") \subseteq EvidenceConditions
    BY DEF Assessment, RowsOf, ConcernRows, RecommendationConcerns, When, EvidenceConditions
  <2> QED BY <2>1, StrictPromotesNothing
<1> QED BY <1>1, PTL

(* Both, of every run.                                                     *)
THEOREM ConditionsTellHolds == StageSpec => []ConditionsTell
BY NothingMaskedHolds, StrictSparesHolds, PTL DEF ConditionsTell

-----------------------------------------------------------------------------
(* A catch was earned and a miss shows.  Of every trial the invariant      *)
(* keeps what its vote was read from, and that a defect which showed and   *)
(* was not claimed is still to be resolved or has left its mark.           *)

(* matchProbeWitness over a trial, against what the trial truly showed.    *)
LEMMA WitnessIsTrue ==
    ASSUME NEW obs, NEW findings, Signed(setting.probe)
    PROVE  LET truly == Manifestations(obs)
               claimed == {f \in findings : f.own /\ f.cites \cap truly # {}}
               result == MatchResult(setting.probe, obs, findings) IN
           /\ result # "none"
           /\ result = "matched" => claimed # {}
           /\ truly # {} /\ claimed = {}
                => result \in {"unwitnessed-claim", "manifested-unclaimed"}
<1> DEFINE p == setting.probe
           truly == Manifestations(obs)
           claimed == {f \in findings : f.own /\ f.cites \cap truly # {}}
           result == MatchResult(p, obs, findings)
           resolving == Resolving(p, obs, "true")
<1>1. resolving = truly
  BY DEF Resolving, Candidates, Exercised, OnHome, Ids, Manifestations
<1>2. result # "none"
  BY DEF MatchResult
<1>3. ASSUME result = "matched" PROVE claimed # {}
  <2>1. /\ Unwitnessed(p, obs, findings) = {}
        /\ Claims(p, obs, findings) # {}
    BY <1>3 DEF MatchResult
  <2>2. PICK f \in Claims(p, obs, findings) : f.cites \cap resolving # {}
    BY <2>1 DEF Unwitnessed
  <2>3. f \in claimed
    BY <1>1, <2>2 DEF Claims
  <2> QED BY <2>3
<1>4. ASSUME truly # {}, claimed = {}
      PROVE  result \in {"unwitnessed-claim", "manifested-unclaimed"}
  <2>1. Exercised(p, obs) # {}
    BY <1>1, <1>4 DEF Resolving, Candidates, Ids
  <2>2. CASE Unwitnessed(p, obs, findings) # {}
    BY <2>1, <2>2 DEF MatchResult
  <2>3. CASE Unwitnessed(p, obs, findings) = {}
    <3>1. Claims(p, obs, findings) = {}
      <4> SUFFICES ASSUME NEW f \in Claims(p, obs, findings) PROVE FALSE
        OBVIOUS
      <4>1. f.cites \cap resolving # {}
        BY <2>3 DEF Unwitnessed
      <4>2. f \in claimed
        BY <1>1, <4>1 DEF Claims
      <4> QED BY <1>4, <4>2
    <3> QED BY <1>1, <1>4, <2>1, <2>3, <3>1 DEF MatchResult
  <2> QED BY <2>2, <2>3
<1> QED BY <1>2, <1>3, <1>4

(* A mark that a miss leaves on an outcome.                                *)
Shows(o) == o.state \in Invalidating \cup {"missed", "bypassed"} \/ o.waived

Missed(t) == facts[t].manifested /\ ~facts[t].witnessed

(* The open trial's witness, against what the trial showed.                *)
ReadingTrue ==
    phase = "oracles" /\ Signed(setting.probe) =>
        /\ reading.witness # "none"
        /\ reading.witness = "matched" => facts[trial].witnessed
        /\ Missed(trial) => reading.witness \in {"unwitnessed-claim", "manifested-unclaimed"}

StatesPlaced == phase = "oracles" => Len(states) = next - 1

(* A catch by the paired oracle, in the open trial and in the votes.       *)
CatchOpen ==
    phase = "oracles" /\ Paired =>
        \A i \in DOMAIN states :
            Oracles[i] = setting.designated /\ states[i] = "caught" => facts[trial].witnessed

VotesEarned ==
    Paired =>
        /\ Len(votes) = IF phase = "oracles" THEN trial - 1 ELSE trial
        /\ \A t \in DOMAIN votes : votes[t] = "caught" => facts[t].witnessed

StillOpen(t) ==
    /\ t = trial /\ phase = "oracles"
    /\ \E i \in next .. Len(Oracles) : Oracles[i] = setting.designated

MissShown ==
    Paired => \A t \in 1 .. trial :
                  Missed(t) => StillOpen(t) \/ \E o \in outcomes : Shows(o)

WaiversHonest ==
    \A o \in outcomes : o.waived => setting.waiver = "applied-condition-met"

EarnedInv ==
    /\ ScoreInv /\ ReadingTrue /\ StatesPlaced /\ CatchOpen
    /\ VotesEarned /\ MissShown /\ WaiversHonest

LEMMA EarnedInit == StageInit => EarnedInv
<1> SUFFICES ASSUME StageInit PROVE EarnedInv
  OBVIOUS
<1>1. ScoreInv
  BY InitEstablishes
<1>2. /\ phase = "between" /\ trial = 0 /\ outcomes = {} /\ votes = <<>>
  BY DEF StageInit
<1>3. ReadingTrue /\ StatesPlaced /\ CatchOpen /\ WaiversHonest
  BY <1>2 DEF ReadingTrue, StatesPlaced, CatchOpen, WaiversHonest
<1>4. VotesEarned
  BY <1>2 DEF VotesEarned
<1>5. MissShown
  BY <1>2 DEF MissShown
<1> QED BY <1>1, <1>3, <1>4, <1>5 DEF EarnedInv

LEMMA OpenTrialEarned ==
    ASSUME EarnedInv,
           NEW obs \in Records, NEW findings \in Filings, NEW rows \in Integrity,
           OpenTrial(obs, findings, rows)
    PROVE  EarnedInv'
<1> DEFINE truly == Manifestations(obs)
           claimed == {f \in findings : f.own /\ f.cites \cap truly # {}}
           fact == [manifested |-> truly # {}, witnessed |-> claimed # {},
                    cited |-> {f.oracle : f \in findings}]
<1>1. /\ phase = "between" /\ trial' = trial + 1 /\ phase' = "oracles"
      /\ next' = 1 /\ states' = <<>> /\ facts' = Append(facts, fact)
      /\ UNCHANGED <<setting, outcomes, votes>>
  BY DEF OpenTrial
<1>2. ScoreInv'
  BY OpenTrialPreserves DEF EarnedInv
<1>3. /\ trial \in Nat /\ Len(facts) = trial /\ DOMAIN facts = 1 .. trial
      /\ \A t \in 1 .. trial : facts'[t] = facts[t]
      /\ facts'[trial'] = fact
  <2> DEFINE S == [manifested : BOOLEAN, witnessed : BOOLEAN,
                   cited : SUBSET {f.oracle : f \in UNION Filings}]
  <2>1. facts \in Seq(S) /\ Len(facts) = trial
    BY DEF EarnedInv, ScoreInv, ScoreTypeOK
  <2>2. fact \in S
    OBVIOUS
  <2> HIDE DEF fact, S
  <2>3. facts' = Append(facts, fact) /\ trial' = trial + 1
    BY <1>1
  <2>4. Len(facts) \in Nat /\ DOMAIN facts = 1 .. Len(facts)
    BY <2>1
  <2> QED BY <2>1, <2>2, <2>3, <2>4, AppendTyped
<1>4. /\ fact.manifested = (truly # {}) /\ fact.witnessed = (claimed # {})
  OBVIOUS
<1>5. Signed(setting.probe)
        => reading'.witness = MatchResult(setting.probe, obs, findings)
  BY DEF OpenTrial
<1> HIDE DEF fact
<1>6. ReadingTrue'
  <2> SUFFICES ASSUME Signed(setting.probe)
               PROVE  /\ reading'.witness # "none"
                      /\ reading'.witness = "matched" => facts'[trial'].witnessed
                      /\ facts'[trial'].manifested /\ ~facts'[trial'].witnessed =>
                             reading'.witness \in {"unwitnessed-claim", "manifested-unclaimed"}
    BY <1>1 DEF ReadingTrue, Missed
  <2> DEFINE result == MatchResult(setting.probe, obs, findings)
  <2>1. /\ result # "none"
        /\ result = "matched" => claimed # {}
        /\ truly # {} /\ claimed = {}
             => result \in {"unwitnessed-claim", "manifested-unclaimed"}
    BY WitnessIsTrue
  <2>2. /\ facts'[trial'].manifested = (truly # {})
        /\ facts'[trial'].witnessed = (claimed # {})
    BY <1>3, <1>4
  <2>3. reading'.witness = result
    BY <1>5
  <2> HIDE DEF result, truly, claimed
  <2> QED BY <2>1, <2>2, <2>3
<1>7. StatesPlaced' /\ CatchOpen'
  BY <1>1 DEF StatesPlaced, CatchOpen
<1>8. Paired' = Paired /\ WaiversHonest'
  BY <1>1 DEF Paired, WaiversHonest, EarnedInv
<1>9. VotesEarned'
  <2> SUFFICES ASSUME Paired
               PROVE  /\ Len(votes) = trial' - 1
                      /\ \A t \in DOMAIN votes : votes[t] = "caught" => facts'[t].witnessed
    BY <1>1, <1>8 DEF VotesEarned
  <2>1. /\ Len(votes) = trial
        /\ \A t \in DOMAIN votes : votes[t] = "caught" => facts[t].witnessed
    BY <1>1 DEF EarnedInv, VotesEarned
  <2>2. DOMAIN votes = 1 .. trial
    BY <2>1, LenProperties DEF EarnedInv, ScoreInv, ScoreTypeOK
  <2> QED BY <1>1, <1>3, <2>1, <2>2
<1>10. MissShown'
  <2> SUFFICES ASSUME Paired, NEW t \in 1 .. trial', Missed(t)'
               PROVE  StillOpen(t)' \/ \E o \in outcomes : Shows(o)
    BY <1>1, <1>8 DEF MissShown, Shows
  <2>1. CASE t = trial'
    <3>1. PICK i \in DOMAIN Oracles : Oracles[i] = setting.designated
      BY DEF Paired, OracleSet
    <3>2. i \in 1 .. Len(Oracles)
      BY LenProperties
    <3> QED BY <1>1, <2>1, <3>1, <3>2 DEF StillOpen
  <2>2. CASE t \in 1 .. trial
    <3>1. Missed(t) /\ ~StillOpen(t)
      BY <1>1, <1>3, <2>2 DEF Missed, StillOpen
    <3> QED BY <2>2, <3>1 DEF EarnedInv, MissShown
  <2> QED BY <1>1, <1>3, <2>1, <2>2
<1> QED BY <1>2, <1>6, <1>7, <1>8, <1>9, <1>10 DEF EarnedInv

(* What the paired oracle resolves to: a catch only over a claim that the  *)
(* trial bears out, and a mark when the defect showed unclaimed.           *)
LEMMA PairedResolution ==
    ASSUME EarnedInv, phase = "oracles", Paired, NEW o, NEW answer,
           o = setting.designated
    PROVE  LET r == ResolveOutcome(AnswerInputs(o, answer)) IN
           /\ r.state = "caught" => facts[trial].witnessed
           /\ Missed(trial) => r.state \in Invalidating \cup {"missed", "bypassed"} \/ r.waived
<1> DEFINE in == AnswerInputs(o, answer)
<1>1. /\ in.class = setting.probe.class /\ in.clean = setting.probe.clean
      /\ in.qualified = Qualified(setting.probe)
      /\ in.witness = reading.witness
  BY DEF AnswerInputs
<1>2. CanaryUnwitnessed(in) /\ ~in.clean
  BY <1>1 DEF CanaryUnwitnessed, Qualified, Signed, Paired
<1>3. /\ in.witness # "none"
      /\ in.witness = "matched" => facts[trial].witnessed
      /\ Missed(trial) => in.witness \in {"unwitnessed-claim", "manifested-unclaimed"}
  BY <1>1 DEF EarnedInv, ReadingTrue, Paired
<1> HIDE DEF in
<1>4. ResolveOutcome(in).state = "caught" => facts[trial].witnessed
  BY <1>2, <1>3, CaughtByMatch
<1>5. Missed(trial) => \/ ResolveOutcome(in).state \in Invalidating \cup {"missed", "bypassed"}
                       \/ ResolveOutcome(in).waived
  BY <1>2, <1>3, MissLeavesMark
<1> QED BY <1>4, <1>5 DEF in

LEMMA ResolveOracleEarned ==
    ASSUME EarnedInv, NEW o \in OracleSet, NEW answer \in Answers[o],
           ResolveOracle(o, answer)
    PROVE  EarnedInv'
<1> DEFINE r == ResolveOutcome(AnswerInputs(o, answer))
           new == [trial |-> trial, oracle |-> o, state |-> r.state,
                   waived |-> r.waived, conditions |-> r.conditions,
                   severe |-> SevereOutcome(o, r), checked |-> answer.check # "none"]
<1>1. /\ phase = "oracles" /\ next <= Len(Oracles) /\ next' = next + 1
      /\ o = Oracles[next]
      /\ outcomes' = outcomes \cup {new} /\ states' = Append(states, r.state)
      /\ UNCHANGED <<setting, phase, trial, reading, votes, noted, facts, decision>>
  BY DEF ResolveOracle, Pooled
<1>2. ScoreInv'
  BY ResolveOraclePreserves DEF EarnedInv
<1>3. r.state \in OutcomeStates
  BY <1>1, ResolutionFacts DEF EarnedInv, ScoreInv
<1>4. /\ Paired /\ o = setting.designated /\ r.state = "caught" => facts[trial].witnessed
      /\ Paired /\ o = setting.designated /\ Missed(trial) =>
             r.state \in Invalidating \cup {"missed", "bypassed"} \/ r.waived
  BY <1>1, PairedResolution
<1>5. r.waived => setting.waiver = "applied-condition-met"
  <2>1. AnswerInputs(o, answer).waiver = setting.waiver
    BY DEF AnswerInputs
  <2> QED BY <2>1, WaivedIsWaived
<1>6. new.state = r.state /\ new.waived = r.waived
  OBVIOUS
<1> HIDE DEF r, new
<1>7. /\ Len(states) = next - 1 /\ next \in Nat /\ next >= 1 /\ Len(Oracles) \in Nat
      /\ DOMAIN states = 1 .. next - 1 /\ DOMAIN states' = 1 .. next
      /\ \A i \in 1 .. next - 1 : states'[i] = states[i]
      /\ states'[next] = r.state /\ Len(states') = next
  <2>1. /\ states \in Seq(OutcomeStates) /\ next \in 1 .. Len(Oracles) + 1
        /\ Len(states) = next - 1 /\ Len(Oracles) \in Nat
    BY <1>1, LenProperties DEF EarnedInv, ScoreInv, ScoreTypeOK, StatesPlaced
  <2>2. next \in Nat /\ next >= 1 /\ Len(states) + 1 = next
    BY <2>1
  <2>3. /\ DOMAIN states = 1 .. Len(states) /\ DOMAIN states' = 1 .. Len(states) + 1
        /\ \A i \in 1 .. Len(states) : states'[i] = states[i]
        /\ states'[Len(states) + 1] = r.state /\ Len(states') = Len(states) + 1
    BY <1>1, <1>3, <2>1, AppendTyped
  <2> QED BY <2>1, <2>2, <2>3
<1>8. ReadingTrue' /\ StatesPlaced'
  BY <1>1, <1>7 DEF EarnedInv, ReadingTrue, StatesPlaced, Missed
<1>9. Paired' = Paired /\ VotesEarned'
  BY <1>1 DEF EarnedInv, Paired, VotesEarned
<1>10. CatchOpen'
  <2> SUFFICES ASSUME Paired, NEW i \in 1 .. next,
                      Oracles[i] = setting.designated, states'[i] = "caught"
               PROVE  facts[trial].witnessed
    BY <1>1, <1>7, <1>9 DEF CatchOpen
  <2>1. CASE i = next
    BY <1>1, <1>4, <1>7, <2>1
  <2>2. CASE i \in 1 .. next - 1
    BY <1>1, <1>7, <2>2 DEF EarnedInv, CatchOpen
  <2> QED BY <1>7, <2>1, <2>2
<1>11. MissShown'
  <2> SUFFICES ASSUME Paired, NEW t \in 1 .. trial, Missed(t),
                      ~ \E q \in outcomes' : Shows(q)
               PROVE  StillOpen(t)'
    BY <1>1, <1>9 DEF MissShown, Missed, Shows
  <2>1. ~Shows(new) /\ ~ \E q \in outcomes : Shows(q)
    BY <1>1
  <2>2. StillOpen(t)
    BY <2>1 DEF EarnedInv, MissShown
  <2>3. PICK i \in next .. Len(Oracles) : Oracles[i] = setting.designated
    BY <2>2 DEF StillOpen
  <2>4. t = trial
    BY <2>2 DEF StillOpen
  <2>5. i # next
    BY <1>1, <1>4, <1>6, <2>1, <2>3, <2>4 DEF Shows
  <2>6. i \in next + 1 .. Len(Oracles)
    BY <1>7, <2>3, <2>5
  <2> QED BY <1>1, <2>3, <2>4, <2>6 DEF StillOpen
<1>12. WaiversHonest'
  BY <1>1, <1>5, <1>6 DEF EarnedInv, WaiversHonest
<1> QED BY <1>2, <1>8, <1>9, <1>10, <1>11, <1>12 DEF EarnedInv
(* The vote of a trial with the paired oracle is that oracle's state.      *)
LEMMA VoteOfPaired ==
    ASSUME NEW d \in DOMAIN states, Oracles[d] = setting.designated,
           DOMAIN states \subseteq DOMAIN Oracles, DOMAIN states \subseteq Nat
    PROVE  Vote = states[d]
<1> DEFINE D == {i \in DOMAIN states : Oracles[i] = setting.designated}
<1>1. D = {d}
  OBVIOUS
<1>2. (CHOOSE i \in {d} : \A j \in {d} : i <= j) = d
  <2>1. d \in {d} /\ \A j \in {d} : d <= j
    OBVIOUS
  <2> QED BY <2>1
<1>3. Vote = FirstOf(D)
  BY <1>1 DEF Vote
<1> QED BY <1>1, <1>2, <1>3 DEF FirstOf

LEMMA CloseTrialEarned ==
    ASSUME EarnedInv, CloseTrial
    PROVE  EarnedInv'
<1>1. /\ phase = "oracles" /\ next = Len(Oracles) + 1 /\ phase' = "between"
      /\ votes' = IF states = <<>> THEN votes ELSE Append(votes, Vote)
      /\ UNCHANGED <<setting, trial, outcomes, noted, facts, decision>>
  BY DEF CloseTrial
<1>2. ScoreInv'
  BY CloseTrialPreserves DEF EarnedInv
<1>3. ReadingTrue' /\ StatesPlaced' /\ CatchOpen' /\ WaiversHonest'
  BY <1>1 DEF EarnedInv, ReadingTrue, StatesPlaced, CatchOpen, WaiversHonest
<1>4. Paired' = Paired
  BY <1>1 DEF Paired
<1>5. /\ Len(Oracles) \in Nat /\ DOMAIN Oracles = 1 .. Len(Oracles)
      /\ Len(states) = Len(Oracles) /\ DOMAIN states = DOMAIN Oracles
  BY <1>1, LenProperties DEF EarnedInv, ScoreInv, ScoreTypeOK, StatesPlaced
<1>6. VotesEarned'
  <2> SUFFICES ASSUME Paired
               PROVE  /\ Len(votes') = trial
                      /\ \A t \in DOMAIN votes' : votes'[t] = "caught" => facts[t].witnessed
    BY <1>1, <1>4 DEF VotesEarned
  <2>1. PICK d \in DOMAIN Oracles : Oracles[d] = setting.designated
    BY DEF Paired, OracleSet
  <2>2. Vote = states[d]
    BY <1>5, <2>1, VoteOfPaired
  <2>3. states # <<>>
    <3>1. 1 <= Len(states)
      BY <1>5, <2>1
    <3> QED BY <3>1
  <2>4. /\ Len(votes) = trial - 1 /\ trial \in Nat
        /\ \A t \in DOMAIN votes : votes[t] = "caught" => facts[t].witnessed
    BY <1>1 DEF EarnedInv, VotesEarned, ScoreInv, ScoreTypeOK
  <2>5. Vote \in OutcomeStates /\ votes \in Seq(OutcomeStates)
    BY <1>5, <2>1, <2>2 DEF EarnedInv, ScoreInv, ScoreTypeOK
  <2>6. /\ votes' = Append(votes, Vote) /\ Len(votes') = Len(votes) + 1
        /\ DOMAIN votes = 1 .. Len(votes) /\ DOMAIN votes' = 1 .. Len(votes) + 1
        /\ \A i \in 1 .. Len(votes) : votes'[i] = votes[i]
        /\ votes'[Len(votes) + 1] = Vote
    BY <1>1, <2>3, <2>5, AppendTyped
  <2>7. Vote = "caught" => facts[trial].witnessed
    BY <1>1, <1>5, <2>1, <2>2 DEF EarnedInv, CatchOpen
  <2> QED BY <2>4, <2>6, <2>7
<1>7. MissShown'
  <2> SUFFICES ASSUME Paired, NEW t \in 1 .. trial, Missed(t)
               PROVE  \E o \in outcomes : Shows(o)
    BY <1>1, <1>4 DEF MissShown, Missed, Shows
  <2>1. ~StillOpen(t)
    BY <1>1, <1>5 DEF StillOpen
  <2> QED BY <2>1 DEF EarnedInv, MissShown
<1> QED BY <1>2, <1>3, <1>6, <1>7 DEF EarnedInv

(* Nothing else that moves a run touches what EarnedInv reads.             *)
LEMMA DecideEarned ==
    ASSUME EarnedInv, ReduceTrials
    PROVE  EarnedInv'
<1>1. /\ phase = "between" /\ phase' = "decided"
      /\ UNCHANGED <<setting, trial, reading, next, states, outcomes, votes, noted, facts>>
  BY DEF ReduceTrials
<1>2. ScoreInv'
  BY DecidePreserves DEF EarnedInv
<1>3. ReadingTrue' /\ StatesPlaced' /\ CatchOpen' /\ WaiversHonest'
  BY <1>1 DEF EarnedInv, ReadingTrue, StatesPlaced, CatchOpen, WaiversHonest
<1>4. VotesEarned'
  BY <1>1 DEF EarnedInv, VotesEarned, Paired
<1>5. MissShown'
  BY <1>1 DEF EarnedInv, MissShown, Missed, Shows, StillOpen, Paired
<1> QED BY <1>2, <1>3, <1>4, <1>5 DEF EarnedInv

LEMMA StutterEarned ==
    ASSUME EarnedInv, UNCHANGED stageVars
    PROVE  EarnedInv'
<1>1. ScoreInv'
  BY StepPreserves DEF EarnedInv
<1>2. ReadingTrue' /\ StatesPlaced' /\ CatchOpen' /\ WaiversHonest'
  BY DEF stageVars, EarnedInv, ReadingTrue, StatesPlaced, CatchOpen, WaiversHonest, Paired, Missed
<1>3. VotesEarned'
  BY DEF stageVars, EarnedInv, VotesEarned, Paired
<1>4. MissShown'
  BY DEF stageVars, EarnedInv, MissShown, Missed, Shows, StillOpen, Paired
<1> QED BY <1>1, <1>2, <1>3, <1>4 DEF EarnedInv

(* EarnedInv is inductive.                                                 *)
THEOREM EarnedInvariant == StageSpec => []EarnedInv
<1>1. ASSUME EarnedInv, [StageNext]_stageVars PROVE EarnedInv'
  <2>1. CASE UNCHANGED stageVars
    BY <1>1, <2>1, StutterEarned
  <2>2. CASE StageNext
    BY <1>1, <2>2, OpenTrialEarned, ResolveOracleEarned, CloseTrialEarned, DecideEarned
    DEF StageNext
  <2> QED BY <1>1, <2>1, <2>2
<1> QED BY <1>1, EarnedInit, PTL DEF StageSpec

(* A catch is earned: in more than the threshold's share of the trials     *)
(* that voted, the evaluator's own finding cites the defect it saw.        *)
THEOREM CatchIsWitnessedHolds == StageSpec => []CatchIsWitnessed
<1>1. ASSUME EarnedInv, Decided, decision.caught, Paired
      PROVE  ThresholdDen * Cardinality({t \in DOMAIN facts : facts[t].witnessed})
                 > ThresholdNum * Cardinality(Where(votes, Voted))
  <2> DEFINE Seers == {t \in DOMAIN facts : facts[t].witnessed}
             C == Where(votes, {"caught"})
             V == Where(votes, Voted)
  <2>1. ThresholdDen * Cardinality(C) > ThresholdNum * Cardinality(V)
    BY <1>1 DEF EarnedInv, ScoreInv, DecisionInv, Decided, Reduced, ReduceTrialSet, Majority
  <2>2. /\ Len(votes) = trial /\ Len(facts) = trial /\ trial \in Nat
        /\ DOMAIN votes = 1 .. trial /\ DOMAIN facts = 1 .. trial
    BY <1>1, LenProperties DEF EarnedInv, VotesEarned, ScoreInv, ScoreTypeOK, Decided
  <2>3. C \subseteq Seers
    BY <1>1, <2>2 DEF EarnedInv, VotesEarned, Where
  <2>4. Seers \subseteq 1 .. trial /\ V \subseteq 1 .. trial
    BY <2>2 DEF Where
  <2>5. IsFiniteSet(1 .. trial)
    <3>1. 1 \in Int /\ trial \in Int
      BY <2>2
    <3> QED BY <3>1, FS_Interval
  <2> HIDE DEF Seers, C, V
  <2>6. /\ IsFiniteSet(Seers) /\ IsFiniteSet(V) /\ IsFiniteSet(C)
        /\ Cardinality(C) <= Cardinality(Seers)
    BY <2>3, <2>4, <2>5, FS_Subset
  <2>7. Cardinality(Seers) \in Nat /\ Cardinality(V) \in Nat /\ Cardinality(C) \in Nat
    BY <2>6, FS_CardinalityType
  <2>8. ThresholdDen * Cardinality(C) <= ThresholdDen * Cardinality(Seers)
    <3>1. \A d, c, k \in Nat : d * c <= d * (c + k)
      OBVIOUS
    <3>2. PICK k \in Nat : Cardinality(Seers) = Cardinality(C) + k
      <4>1. Cardinality(Seers) - Cardinality(C) \in Nat
        BY <2>6, <2>7
      <4> QED BY <4>1, <2>7
    <3> QED BY <3>1, <3>2, <2>7, PolicyAssumption
  <2>9. ThresholdDen * Cardinality(Seers) > ThresholdNum * Cardinality(V)
    <3>1. \A x, y, z \in Int : x > z /\ x <= y => y > z
      OBVIOUS
    <3>2. /\ ThresholdDen * Cardinality(C) \in Int /\ ThresholdDen * Cardinality(Seers) \in Int
          /\ ThresholdNum * Cardinality(V) \in Int
      BY <2>7
    <3> QED BY <2>1, <2>8, <3>1, <3>2
  <2> QED BY <2>9 DEF Seers, V
<1>2. EarnedInv => CatchIsWitnessed
  BY <1>1 DEF CatchIsWitnessed
<1> QED BY <1>2, EarnedInvariant, PTL

(* A defect of a paired probe that showed and was not claimed never ends   *)
(* in a pass, and is waived only where the waiver's condition was met.     *)
THEOREM MissIsVisibleHolds == StageSpec => []MissIsVisible
<1>1. ASSUME EarnedInv, Decided, Paired,
             NEW t \in DOMAIN facts, facts[t].manifested, ~facts[t].witnessed
      PROVE  /\ Verdict # "PASS"
             /\ Verdict = "WAIVED" => setting.waiver = "applied-condition-met"
  <2> DEFINE a == Assessment
             Fired(rung) == RowsOf(a, setting.mode, rung) # {}
  <2>1. PICK o \in outcomes : Shows(o)
    <3>1. t \in 1 .. trial
      <4>1. DOMAIN facts = 1 .. Len(facts) /\ Len(facts) = trial
        BY <1>1, LenProperties DEF EarnedInv, ScoreInv, ScoreTypeOK
      <4> QED BY <4>1
    <3>2. ~StillOpen(t)
      BY <1>1 DEF StillOpen, Decided
    <3> QED BY <1>1, <3>1, <3>2 DEF EarnedInv, MissShown, Missed
  <2>2. a.outcomes = outcomes
    BY DEF Assessment
  <2>3. Verdict = Rung(a, setting.mode)
    BY DEF Verdict
  <2> HIDE DEF a
  <2>4. o.state \in Invalidating => Fired("invalid")
    BY <2>2 DEF RowsOf, InvalidRows, When
  <2>5. o.state \in {"missed", "bypassed"} => Fired("FAIL") \/ Fired("CONCERNS")
    <3>1. o.state \in {"missed", "bypassed"} => o.state \in BehaviouralFailures
      BY DEF BehaviouralFailures
    <3>2. CASE o.severe
      BY <2>2, <3>1, <3>2 DEF RowsOf, FailRows, When
    <3>3. CASE ~o.severe
      BY <2>2, <3>1, <3>3 DEF RowsOf, ConcernRows, When
    <3> QED BY <3>2, <3>3
  <2>6. o.waived => Fired("WAIVED")
    BY <2>2 DEF RowsOf, WaivedRows, When
  <2>7. Fired("WAIVED") => setting.waiver = "applied-condition-met"
    BY <1>1, <2>2 DEF RowsOf, WaivedRows, When, EarnedInv, WaiversHonest
  <2>8. Fired("invalid") \/ Fired("FAIL") \/ Fired("CONCERNS") \/ Fired("WAIVED")
    BY <2>1, <2>4, <2>5, <2>6 DEF Shows
  <2>9. /\ Fired("invalid") => Rung(a, setting.mode) = "invalid"
        /\ ~Fired("invalid") /\ Fired("FAIL") => Rung(a, setting.mode) = "FAIL"
        /\ ~Fired("invalid") /\ ~Fired("FAIL") /\ Fired("CONCERNS")
             => Rung(a, setting.mode) = "CONCERNS"
        /\ ~Fired("invalid") /\ ~Fired("FAIL") /\ ~Fired("CONCERNS") /\ Fired("WAIVED")
             => Rung(a, setting.mode) = "WAIVED"
    BY RungOf
  <2> HIDE DEF Fired
  <2> QED BY <2>3, <2>7, <2>8, <2>9
<1>2. EarnedInv => MissIsVisible
  BY <1>1 DEF MissIsVisible
<1> QED BY <1>2, EarnedInvariant, PTL

-----------------------------------------------------------------------------
(* Sequences, for the command line's flags and inputs.                     *)

(* A sequence, whatever its elements are.                                  *)
IsList(seq) == seq \in Seq(ToSet(seq))

(* A list is the function of its places.                                   *)
LEMMA ListIs ==
    ASSUME NEW seq, IsList(seq)
    PROVE  /\ Len(seq) \in Nat /\ DOMAIN seq = 1 .. Len(seq)
           /\ \A e : e \in ToSet(seq) <=> \E i \in 1 .. Len(seq) : e = seq[i]
<1>1. Len(seq) \in Nat /\ DOMAIN seq = 1 .. Len(seq)
  BY LenProperties DEF IsList
<1> QED BY <1>1 DEF ToSet

(* A list that is not empty has a first place.                             *)
LEMMA ListBegins ==
    ASSUME NEW seq, IsList(seq), seq # <<>>
    PROVE  1 \in DOMAIN seq /\ seq[1] \in ToSet(seq)
<1>1. Len(seq) \in Nat /\ DOMAIN seq = 1 .. Len(seq) /\ seq \in Seq(ToSet(seq))
  BY ListIs DEF IsList
<1>2. Len(seq) # 0
  BY <1>1, EmptySeq
<1> QED BY <1>1, <1>2, ListIs

(* A sequence over any set is a list.                                      *)
LEMMA ListOf ==
    ASSUME NEW Elements, NEW seq \in Seq(Elements)
    PROVE  IsList(seq)
<1>1. /\ Len(seq) \in Nat /\ seq \in [1 .. Len(seq) -> Elements] /\ DOMAIN seq = 1 .. Len(seq)
  BY LenProperties
<1>2. seq \in [1 .. Len(seq) -> ToSet(seq)]
  BY <1>1 DEF ToSet
<1> QED BY <1>1, <1>2, SeqDef DEF IsList

(* What two lists joined hold, and where.                                  *)
LEMMA ListJoined ==
    ASSUME NEW s, NEW t, IsList(s), IsList(t)
    PROVE  /\ IsList(s \o t) /\ Len(s \o t) = Len(s) + Len(t)
           /\ \A i \in 1 .. Len(s) : (s \o t)[i] = s[i]
           /\ \A i \in 1 .. Len(t) : (s \o t)[Len(s) + i] = t[i]
           /\ \A i \in 1 .. Len(s) + Len(t) :
                 \/ i \in 1 .. Len(s)
                 \/ i - Len(s) \in 1 .. Len(t) /\ (s \o t)[i] = t[i - Len(s)]
           /\ ToSet(s \o t) = ToSet(s) \cup ToSet(t)
<1> DEFINE Elements == ToSet(s) \cup ToSet(t)
<1>1. s \in Seq(Elements) /\ t \in Seq(Elements)
  BY SeqMonotonic DEF IsList
<1> HIDE DEF Elements
<1>2. Len(s) \in Nat /\ Len(t) \in Nat
  BY ListIs
<1>3. /\ s \o t \in Seq(Elements) /\ Len(s \o t) = Len(s) + Len(t)
      /\ \A i \in 1 .. Len(s) + Len(t) :
            (s \o t)[i] = IF i <= Len(s) THEN s[i] ELSE t[i - Len(s)]
  BY <1>1, ConcatProperties
<1>4. IsList(s \o t)
  BY <1>3, ListOf
<1>5. /\ \A i \in 1 .. Len(s) : (s \o t)[i] = s[i]
      /\ \A i \in 1 .. Len(t) : (s \o t)[Len(s) + i] = t[i]
      /\ \A i \in 1 .. Len(s) + Len(t) :
            \/ i \in 1 .. Len(s)
            \/ i - Len(s) \in 1 .. Len(t) /\ (s \o t)[i] = t[i - Len(s)]
  BY <1>2, <1>3
<1>6. ToSet(s \o t) = ToSet(s) \cup ToSet(t)
  <2> DEFINE u == s \o t
  <2>1. \A e : e \in ToSet(u) <=> \E i \in 1 .. Len(u) : e = u[i]
    BY <1>4, ListIs
  <2>2. /\ \A e : e \in ToSet(s) <=> \E i \in 1 .. Len(s) : e = s[i]
        /\ \A e : e \in ToSet(t) <=> \E i \in 1 .. Len(t) : e = t[i]
    BY ListIs
  <2>3. /\ \A i \in 1 .. Len(s) : i \in 1 .. Len(u) /\ u[i] = s[i]
        /\ \A i \in 1 .. Len(t) : Len(s) + i \in 1 .. Len(u) /\ u[Len(s) + i] = t[i]
        /\ \A i \in 1 .. Len(u) :
              \/ i \in 1 .. Len(s)
              \/ i - Len(s) \in 1 .. Len(t) /\ u[i] = t[i - Len(s)]
    BY <1>2, <1>3, <1>5
  <2> HIDE DEF u
  <2>4. \A e : e \in ToSet(u) <=> e \in ToSet(s) \/ e \in ToSet(t)
    <3>1. ASSUME NEW e \in ToSet(s) PROVE e \in ToSet(u)
      BY <2>1, <2>2, <2>3
    <3>2. ASSUME NEW e \in ToSet(t) PROVE e \in ToSet(u)
      <4>1. PICK i \in 1 .. Len(t) : e = t[i]
        BY <2>2
      <4>2. Len(s) + i \in 1 .. Len(u) /\ u[Len(s) + i] = e
        BY <2>3, <4>1
      <4> QED BY <2>1, <4>2
    <3>3. ASSUME NEW e \in ToSet(u) PROVE e \in ToSet(s) \/ e \in ToSet(t)
      <4>1. PICK i \in 1 .. Len(u) : e = u[i]
        BY <2>1
      <4> QED BY <2>2, <2>3, <4>1
    <3> QED BY <3>1, <3>2, <3>3
  <2>5. ToSet(u) = ToSet(s) \cup ToSet(t)
    BY <2>4
  <2> QED BY <2>5 DEF u
<1> QED BY <1>3, <1>4, <1>5, <1>6

(* A list with one more element is a list.                                 *)
LEMMA ListAppended ==
    ASSUME NEW s, IsList(s), NEW e
    PROVE  /\ IsList(Append(s, e)) /\ Len(Append(s, e)) = Len(s) + 1
           /\ \A i \in 1 .. Len(s) : Append(s, e)[i] = s[i]
           /\ Append(s, e)[Len(s) + 1] = e
           /\ ToSet(Append(s, e)) = ToSet(s) \cup {e}
<1>1. s \in Seq(ToSet(s) \cup {e})
  BY SeqMonotonic DEF IsList
<1>2. Len(s) \in Nat
  BY ListIs
<1>3. /\ Append(s, e) \in Seq(ToSet(s) \cup {e}) /\ Len(Append(s, e)) = Len(s) + 1
      /\ \A i \in 1 .. Len(s) : Append(s, e)[i] = s[i]
      /\ Append(s, e)[Len(s) + 1] = e
  BY <1>1, AppendProperties
<1>4. IsList(Append(s, e))
  BY <1>3, ListOf
<1>5. ToSet(Append(s, e)) = ToSet(s) \cup {e}
  <2> DEFINE u == Append(s, e)
  <2>1. \A x : x \in ToSet(u) <=> \E i \in 1 .. Len(u) : x = u[i]
    BY <1>4, ListIs
  <2>2. \A x : x \in ToSet(s) <=> \E i \in 1 .. Len(s) : x = s[i]
    BY ListIs
  <2>3. /\ \A i \in 1 .. Len(s) : i \in 1 .. Len(u) /\ u[i] = s[i]
        /\ Len(s) + 1 \in 1 .. Len(u) /\ u[Len(s) + 1] = e
        /\ \A i \in 1 .. Len(u) : i \in 1 .. Len(s) \/ i = Len(s) + 1
    BY <1>2, <1>3
  <2> HIDE DEF u
  <2>4. \A x : x \in ToSet(u) <=> x \in ToSet(s) \/ x = e
    BY <2>1, <2>2, <2>3
  <2>5. ToSet(u) = ToSet(s) \cup {e}
    BY <2>4
  <2> QED BY <2>5 DEF u
<1> QED BY <1>3, <1>4, <1>5

(* g[i] is the first i parts, joined.                                      *)
Flattens(g, parts, n) ==
    g = [i \in 1 .. n |-> IF i = 1 THEN parts[i] ELSE g[i - 1] \o parts[i]]

(* There is such a g up to every place: there is no least one without.     *)
LEMMA FlattensExists ==
    ASSUME NEW parts, NEW n \in Nat
    PROVE  \E g : Flattens(g, parts, n)
<1> DEFINE T == {m \in Nat : ~\E g : Flattens(g, parts, m)}
<1> SUFFICES ASSUME T # {} PROVE FALSE
  OBVIOUS
<1>1. T \in SUBSET Nat
  OBVIOUS
<1>2. PICK m \in T : \A j \in T : m <= j
  BY <1>1, LeastElement
<1>3. CASE m = 0
  <2> DEFINE h == [i \in 1 .. 0 |-> parts[i]]
  <2>1. h = [i \in 1 .. 0 |-> IF i = 1 THEN parts[i] ELSE h[i - 1] \o parts[i]]
    OBVIOUS
  <2> HIDE DEF h
  <2>2. Flattens(h, parts, 0)
    BY <2>1 DEF Flattens
  <2> QED BY <1>2, <1>3, <2>2
<1>4. CASE m # 0
  <2>1. m \in Nat \ {0} /\ m - 1 \in Nat /\ ~(m <= m - 1)
    BY <1>2, <1>4
  <2>2. PICK g : Flattens(g, parts, m - 1)
    BY <1>2, <2>1
  <2>3. \A i \in 1 .. m - 1 : g[i] = IF i = 1 THEN parts[i] ELSE g[i - 1] \o parts[i]
    BY <2>2 DEF Flattens
  <2> DEFINE last == IF m = 1 THEN parts[m] ELSE g[m - 1] \o parts[m]
             h == [i \in 1 .. m |-> IF i = m THEN last ELSE g[i]]
  <2>4. \A i \in 1 .. m : h[i] = IF i = 1 THEN parts[i] ELSE h[i - 1] \o parts[i]
    <3> TAKE i \in 1 .. m
    <3>1. CASE i = m /\ m = 1
      BY <3>1
    <3>2. CASE i = m /\ m # 1
      <4>1. m - 1 \in 1 .. m /\ m - 1 # m
        BY <2>1, <3>2
      <4>2. h[m - 1] = g[m - 1] /\ h[m] = g[m - 1] \o parts[m]
        BY <2>1, <3>2, <4>1
      <4> HIDE DEF h
      <4> QED BY <3>2, <4>2
    <3>3. CASE i # m
      <4>1. i \in 1 .. m - 1 /\ h[i] = g[i]
        BY <2>1, <3>3
      <4>2. CASE i = 1
        BY <2>3, <4>1, <4>2
      <4>3. CASE i # 1
        <5>1. i - 1 \in 1 .. m /\ i - 1 # m
          BY <2>1, <4>1, <4>3
        <5>2. h[i - 1] = g[i - 1]
          BY <5>1
        <5> HIDE DEF h
        <5> QED BY <2>3, <4>1, <4>3, <5>2
      <4> QED BY <4>2, <4>3
    <3> QED BY <3>1, <3>2, <3>3
  <2>5. h = [i \in 1 .. m |-> IF i = 1 THEN parts[i] ELSE h[i - 1] \o parts[i]]
    <3>1. h = [i \in 1 .. m |-> h[i]]
      OBVIOUS
    <3> HIDE DEF h
    <3> QED BY <2>4, <3>1
  <2> HIDE DEF h
  <2>6. Flattens(h, parts, m)
    BY <2>5 DEF Flattens
  <2> QED BY <1>2, <2>6
<1> QED BY <1>3, <1>4

(* FlattenSeq is the last of the joined lists, one part at a time.         *)
LEMMA FlattenSeqIs ==
    ASSUME NEW parts, NEW n \in Nat \ {0}, Len(parts) = n
    PROVE  \E g : Flattens(g, parts, n) /\ FlattenSeq(parts) = g[n]
<1> DEFINE f == CHOOSE g : Flattens(g, parts, n)
<1>1. Flattens(f, parts, n)
  BY FlattensExists
<1>2. FlattenSeq(parts) = f[n]
  BY DEF FlattenSeq, Flattens
<1> QED BY <1>1, <1>2

(* What is joined holds what the parts hold.                               *)
LEMMA FlattenHolds ==
    ASSUME NEW parts, IsList(parts), \A i \in DOMAIN parts : IsList(parts[i])
    PROVE  /\ IsList(FlattenSeq(parts))
           /\ \A e : e \in ToSet(FlattenSeq(parts))
                        <=> \E i \in DOMAIN parts : e \in ToSet(parts[i])
<1> DEFINE n == Len(parts)
<1>1. n \in Nat /\ DOMAIN parts = 1 .. n
  BY ListIs
<1>2. CASE n = 0
  <2>1. FlattenSeq(parts) = parts
    BY <1>2 DEF FlattenSeq
  <2> QED BY <1>1, <1>2, <2>1, ListIs
<1>3. CASE n # 0
  <2>0. n \in Nat \ {0}
    BY <1>1, <1>3
  <2>1. PICK g : Flattens(g, parts, n) /\ FlattenSeq(parts) = g[n]
    BY <2>0, FlattenSeqIs
  <2>2. \A i \in 1 .. n : g[i] = IF i = 1 THEN parts[i] ELSE g[i - 1] \o parts[i]
    BY <2>1 DEF Flattens
  <2> DEFINE Upto(m) == \A e : e \in ToSet(g[m]) <=> \E i \in 1 .. m : e \in ToSet(parts[i])
             T == {m \in 1 .. n : ~(IsList(g[m]) /\ Upto(m))}
  <2>3. T = {}
    <3> SUFFICES ASSUME T # {} PROVE FALSE
      OBVIOUS
    <3>1. T \in SUBSET Nat
      OBVIOUS
    <3> HIDE DEF T
    <3>2. PICK m \in T : \A j \in T : m <= j
      BY <3>1, LeastElement
    <3>3. m \in 1 .. n /\ ~(IsList(g[m]) /\ Upto(m))
      BY <3>2 DEF T
    <3>4. CASE m = 1
      <4>1. g[m] = parts[m] /\ \A i \in 1 .. m : i = m
        BY <2>2, <3>3, <3>4
      <4> QED BY <1>1, <3>3, <3>4, <4>1
    <3>5. CASE m # 1
      <4>1. m - 1 \in 1 .. n /\ ~(m <= m - 1)
        BY <1>1, <3>3, <3>5
      <4>2. IsList(g[m - 1]) /\ Upto(m - 1)
        BY <3>2, <4>1 DEF T
      <4>3. g[m] = g[m - 1] \o parts[m] /\ IsList(parts[m])
        BY <1>1, <2>2, <3>3, <3>5
      <4>4. IsList(g[m]) /\ ToSet(g[m]) = ToSet(g[m - 1]) \cup ToSet(parts[m])
        BY <4>2, <4>3, ListJoined
      <4>5. \A i : i \in 1 .. m <=> i \in 1 .. m - 1 \/ i = m
        BY <1>1, <3>3, <3>5
      <4>6. Upto(m)
        BY <4>2, <4>4, <4>5
      <4> QED BY <3>3, <4>4, <4>6
    <3> QED BY <3>4, <3>5
  <2>4. n \in 1 .. n
    BY <2>0
  <2>5. IsList(g[n]) /\ Upto(n)
    BY <2>3, <2>4
  <2> QED BY <1>1, <2>1, <2>5
<1> QED BY <1>2, <1>3

-----------------------------------------------------------------------------
(* arguments.ts: what a command line that parses comes to.                 *)

(* What the loop over the tokens keeps.                                    *)
WellParsed(x) ==
    /\ x = [at |-> x.at, ended |-> x.ended, given |-> x.given,
            strict |-> x.strict, strictInputs |-> x.strictInputs]
    /\ x.ended # <<>> => x.ended[1].kind \in {"usage-error", "help"}
    /\ x.given = [flag \in Flags |-> x.given[flag]]
    /\ \A flag \in Flags : IsList(x.given[flag])
    /\ x.strict \in BOOLEAN

(* The empty sequence is a list.                                           *)
LEMMA EmptyIsList == IsList(<<>>)
<1>1. <<>> \in Seq({})
  OBVIOUS
<1> QED BY <1>1, ListOf

(* So is one of a single element,                                          *)
LEMMA SingleIsList == \A x : IsList(<<x>>)
<1> SUFFICES ASSUME NEW x PROVE IsList(<<x>>)
  OBVIOUS
<1>1. <<x>> \in Seq({x})
  OBVIOUS
<1> QED BY <1>1, ListOf

(* of three, as the flags of preflight and aggregate-strength are,         *)
LEMMA ThreeAreList == \A a, b, c : IsList(<<a, b, c>>)
<1> SUFFICES ASSUME NEW a, NEW b, NEW c PROVE IsList(<<a, b, c>>)
  OBVIOUS
<1>1. <<a, b, c>> \in Seq({a, b, c})
  OBVIOUS
<1> QED BY <1>1, ListOf

(* and of eight, as those of score are.                                    *)
LEMMA EightAreList ==
    \A a, b, c, d, e, f, g, h : IsList(<<a, b, c, d, e, f, g, h>>)
<1> SUFFICES ASSUME NEW a, NEW b, NEW c, NEW d, NEW e, NEW f, NEW g, NEW h
             PROVE  IsList(<<a, b, c, d, e, f, g, h>>)
  OBVIOUS
<1>1. <<a, b, c, d, e, f, g, h>> \in Seq({a, b, c, d, e, f, g, h})
  OBVIOUS
<1> QED BY <1>1, ListOf

(* The loop over the tokens starts from a parsing well formed.             *)
LEMMA ParsingStarts == WellParsed(Parsing(1))
  BY EmptyIsList DEF WellParsed, Parsing

(* A refusal leaves it so.                                                 *)
LEMMA RefusedWell ==
    ASSUME NEW x, WellParsed(x)
    PROVE  WellParsed(Refused(x))
<1> DEFINE y == Refused(x)
<1>1. y = [at |-> x.at, ended |-> <<UsageError>>, given |-> x.given,
           strict |-> x.strict, strictInputs |-> x.strictInputs]
  BY DEF WellParsed, Refused
<1> HIDE DEF y
<1>2. /\ y.at = x.at /\ y.ended = <<UsageError>> /\ y.given = x.given
      /\ y.strict = x.strict /\ y.strictInputs = x.strictInputs
  BY <1>1
<1>3. y.ended[1].kind = "usage-error"
  BY <1>2 DEF UsageError
<1>4. WellParsed(y)
  BY <1>1, <1>2, <1>3 DEF WellParsed
<1> QED BY <1>4 DEF y

(* So does a flag with its value (takeValue).                              *)
LEMMA FlagTaken ==
    ASSUME NEW x, WellParsed(x), NEW tokens, tokens[x.at].text \in Flags
    PROVE  WellParsed(TakeFlag(x, tokens))
<1> DEFINE flag == tokens[x.at].text
           taken == Taken(tokens, x.at)
<1>1. CASE taken = <<>> \/ RefusesRepeat(x.given, flag, taken[1].value)
  BY <1>1, RefusedWell DEF TakeFlag
<1>2. CASE ~(taken = <<>> \/ RefusesRepeat(x.given, flag, taken[1].value))
  <2> DEFINE y == TakeFlag(x, tokens)
             given == [x.given EXCEPT ![flag] = Append(@, taken[1].value)]
  <2>1. y = [x EXCEPT !.at = taken[1].next, !.given[flag] = Append(@, taken[1].value)]
    BY <1>2 DEF TakeFlag
  <2>2. y = [at |-> taken[1].next, ended |-> x.ended, given |-> given,
             strict |-> x.strict, strictInputs |-> x.strictInputs]
    BY <2>1 DEF WellParsed
  <2>3. /\ given = [f \in Flags |-> given[f]]
        /\ \A f \in Flags : IsList(given[f])
    <3>1. IsList(Append(x.given[flag], taken[1].value))
      BY ListAppended DEF WellParsed
    <3>2. \A f \in Flags : given[f] = IF f = flag THEN Append(x.given[flag], taken[1].value)
                                      ELSE x.given[f]
      BY DEF WellParsed
    <3>3. DOMAIN given = Flags
      BY DEF WellParsed
    <3>4. given = [f \in Flags |-> given[f]]
      BY <3>3
    <3> QED BY <3>1, <3>2, <3>4 DEF WellParsed
  <2> HIDE DEF y, given
  <2>4. /\ y.at = taken[1].next /\ y.ended = x.ended /\ y.given = given
        /\ y.strict = x.strict /\ y.strictInputs = x.strictInputs
    BY <2>2
  <2>5. WellParsed(y)
    BY <2>2, <2>3, <2>4 DEF WellParsed
  <2> QED BY <2>5 DEF y
<1> QED BY <1>1, <1>2

(* So does --strict,                                                       *)
LEMMA StrictSet ==
    ASSUME NEW x, WellParsed(x), NEW s \in BOOLEAN
    PROVE  WellParsed([x EXCEPT !.strict = s])
<1> DEFINE y == [x EXCEPT !.strict = s]
<1>1. y = [at |-> x.at, ended |-> x.ended, given |-> x.given,
           strict |-> s, strictInputs |-> x.strictInputs]
  BY DEF WellParsed
<1> HIDE DEF y
<1>2. /\ y.at = x.at /\ y.ended = x.ended /\ y.given = x.given
      /\ y.strict = s /\ y.strictInputs = x.strictInputs
  BY <1>1
<1>3. WellParsed(y)
  BY <1>1, <1>2 DEF WellParsed
<1> QED BY <1>3 DEF y

(* and so do --strict-inputs and --no-strict-inputs.                       *)
LEMMA StrictInputsSet ==
    ASSUME NEW x, WellParsed(x), NEW s
    PROVE  WellParsed([x EXCEPT !.strictInputs = s])
<1> DEFINE y == [x EXCEPT !.strictInputs = s]
<1>1. y = [at |-> x.at, ended |-> x.ended, given |-> x.given,
           strict |-> x.strict, strictInputs |-> s]
  BY DEF WellParsed
<1> HIDE DEF y
<1>2. /\ y.at = x.at /\ y.ended = x.ended /\ y.given = x.given
      /\ y.strict = x.strict /\ y.strictInputs = s
  BY <1>1
<1>3. WellParsed(y)
  BY <1>1, <1>2 DEF WellParsed
<1> QED BY <1>3 DEF y

(* So does any turn of the loop.                                           *)
LEMMA TokenTaken ==
    ASSUME NEW command \in Commands, NEW x, WellParsed(x), NEW tokens
    PROVE  WellParsed(TakeToken(command, x, tokens))
<1> DEFINE token == tokens[x.at]
           following == [x EXCEPT !.at = @ + 1]
<1>1. WellParsed(following)
  <2>1. following = [at |-> x.at + 1, ended |-> x.ended, given |-> x.given,
                strict |-> x.strict, strictInputs |-> x.strictInputs]
    BY DEF WellParsed
  <2> HIDE DEF following
  <2>2. /\ following.at = x.at + 1 /\ following.ended = x.ended /\ following.given = x.given
        /\ following.strict = x.strict /\ following.strictInputs = x.strictInputs
    BY <2>1
  <2> QED BY <2>1, <2>2 DEF WellParsed
<1>2. WellParsed([x EXCEPT !.ended = <<[kind |-> "help"]>>])
  <2> DEFINE y == [x EXCEPT !.ended = <<[kind |-> "help"]>>]
  <2>1. y = [at |-> x.at, ended |-> <<[kind |-> "help"]>>, given |-> x.given,
             strict |-> x.strict, strictInputs |-> x.strictInputs]
    BY DEF WellParsed
  <2> HIDE DEF y
  <2>2. /\ y.at = x.at /\ y.ended = <<[kind |-> "help"]>> /\ y.given = x.given
        /\ y.strict = x.strict /\ y.strictInputs = x.strictInputs
    BY <2>1
  <2>3. WellParsed(y)
    BY <2>1, <2>2 DEF WellParsed
  <2> QED BY <2>3 DEF y
<1>3. WellParsed([following EXCEPT !.strict = TRUE])
  BY <1>1, StrictSet
<1>4. WellParsed([following EXCEPT !.strictInputs = (token.text = "--strict-inputs")])
  BY <1>1, StrictInputsSet
<1>5. token.text \in ValueFlags(command) => WellParsed(TakeFlag(x, tokens))
  BY FlagTaken DEF Flags
<1>6. WellParsed(Refused(x))
  BY RefusedWell
<1> HIDE DEF following
<1> QED BY <1>1, <1>2, <1>3, <1>4, <1>5, <1>6 DEF TakeToken, following

(* The parsing after each turn of the loop, up to the n-th.                *)
Turns(g, command, tokens, n) ==
    g = [i \in 0 .. n |-> IF i = 0 THEN Parsing(1) ELSE TakeToken(command, g[i - 1], tokens)]

(* There are such turns for every number of tokens.                        *)
LEMMA TurnsExist ==
    ASSUME NEW command, NEW tokens, NEW n \in Nat
    PROVE  \E g : Turns(g, command, tokens, n)
<1> DEFINE T == {m \in Nat : ~\E g : Turns(g, command, tokens, m)}
<1> SUFFICES ASSUME T # {} PROVE FALSE
  OBVIOUS
<1>1. T \in SUBSET Nat
  OBVIOUS
<1>2. PICK m \in T : \A j \in T : m <= j
  BY <1>1, LeastElement
<1>3. CASE m = 0
  <2> DEFINE h == [i \in 0 .. 0 |-> Parsing(1)]
  <2>1. h = [i \in 0 .. 0 |-> IF i = 0 THEN Parsing(1) ELSE TakeToken(command, h[i - 1], tokens)]
    OBVIOUS
  <2> HIDE DEF h
  <2>2. Turns(h, command, tokens, 0)
    BY <2>1 DEF Turns
  <2> QED BY <1>2, <1>3, <2>2
<1>4. CASE m # 0
  <2>1. m \in Nat \ {0} /\ m - 1 \in Nat /\ ~(m <= m - 1)
    BY <1>2, <1>4
  <2>2. PICK g : Turns(g, command, tokens, m - 1)
    BY <1>2, <2>1
  <2> DEFINE last == TakeToken(command, g[m - 1], tokens)
             h == [i \in 0 .. m |-> IF i = m THEN last ELSE g[i]]
  <2>3. \A i \in 0 .. m - 1 :
           g[i] = IF i = 0 THEN Parsing(1) ELSE TakeToken(command, g[i - 1], tokens)
    BY <2>2 DEF Turns
  <2>4. \A i \in 0 .. m :
           h[i] = IF i = 0 THEN Parsing(1) ELSE TakeToken(command, h[i - 1], tokens)
    <3> TAKE i \in 0 .. m
    <3>1. CASE i = m
      <4>1. m - 1 \in 0 .. m /\ m - 1 # m /\ m \in 0 .. m
        BY <2>1
      <4>2. h[m - 1] = g[m - 1] /\ h[m] = last
        BY <4>1
      <4> HIDE DEF h
      <4> QED BY <2>1, <3>1, <4>2
    <3>2. CASE i # m
      <4>1. i \in 0 .. m - 1 /\ h[i] = g[i]
        BY <2>1, <3>2
      <4>2. CASE i = 0
        BY <2>3, <4>1, <4>2
      <4>3. CASE i # 0
        <5>1. i - 1 \in 0 .. m /\ i - 1 # m
          BY <2>1, <4>1, <4>3
        <5>2. h[i - 1] = g[i - 1]
          BY <5>1
        <5> HIDE DEF h
        <5> QED BY <2>3, <4>1, <4>3, <5>2
      <4> QED BY <4>2, <4>3
    <3> QED BY <3>1, <3>2
  <2>5. h = [i \in 0 .. m |-> IF i = 0 THEN Parsing(1) ELSE TakeToken(command, h[i - 1], tokens)]
    <3>1. h = [i \in 0 .. m |-> h[i]]
      OBVIOUS
    <3> HIDE DEF h
    <3> QED BY <2>4, <3>1
  <2> HIDE DEF h
  <2>6. Turns(h, command, tokens, m)
    BY <2>5 DEF Turns
  <2> QED BY <1>2, <2>6
<1> QED BY <1>3, <1>4

(* What the loop comes to is well formed.                                  *)
LEMMA ParsedWell ==
    ASSUME NEW command \in Commands, NEW tokens, Len(tokens) \in Nat
    PROVE  WellParsed(Parsed(command, tokens))
<1> DEFINE n == Len(tokens)
           f == CHOOSE g : Turns(g, command, tokens, n)
<1>1. Turns(f, command, tokens, n)
  BY TurnsExist
<1>2. Parsed(command, tokens) = f[n]
  BY DEF Parsed, Turns
<1> HIDE DEF f
<1>3. \A i \in 0 .. n :
         f[i] = IF i = 0 THEN Parsing(1) ELSE TakeToken(command, f[i - 1], tokens)
  BY <1>1 DEF Turns
<1>4. \A i \in 0 .. n : WellParsed(f[i])
  <2> DEFINE T == {i \in 0 .. n : ~WellParsed(f[i])}
  <2> SUFFICES ASSUME T # {} PROVE FALSE
    OBVIOUS
  <2>1. T \in SUBSET Nat
    OBVIOUS
  <2> HIDE DEF T
  <2>2. PICK i \in T : \A j \in T : i <= j
    BY <2>1, LeastElement
  <2>3. i \in 0 .. n /\ ~WellParsed(f[i])
    BY <2>2 DEF T
  <2>4. i # 0
    BY <1>3, <2>3, ParsingStarts
  <2>5. i - 1 \in 0 .. n /\ ~(i <= i - 1)
    BY <2>3, <2>4
  <2>6. WellParsed(f[i - 1])
    BY <2>2, <2>5 DEF T
  <2> QED BY <1>3, <2>3, <2>4, <2>6, TokenTaken
<1> QED BY <1>2, <1>4

(* The invocations that run something.                                     *)
WellFormed(run) ==
    /\ run.command \in Commands /\ run.strict \in BOOLEAN
    /\ \A flag \in DOMAIN run.inputs : IsList(run.inputs[flag])

(* A command line that parses to a run parses to a well-formed one.        *)
LEMMA RunWellFormed ==
    ASSUME NEW argv, IsList(argv), ParseArguments(argv).kind = "run"
    PROVE  WellFormed(ParseArguments(argv))
<1> DEFINE run == ParseArguments(argv)
           command == argv[1].text
           tokens == Tail(argv)
           parsed == Parsed(command, tokens)
<1>1. command \in Commands /\ run = ParseCommand(command, tokens) /\ argv # <<>>
  BY DEF ParseArguments, UsageError, Commands
<1>2. Len(tokens) \in Nat
  <2>1. argv \in Seq(ToSet(argv)) /\ argv # <<>>
    BY <1>1 DEF IsList
  <2> HIDE DEF tokens
  <2>2. tokens \in Seq(ToSet(argv))
    BY <2>1, HeadTailProperties DEF tokens
  <2> QED BY <2>2, LenProperties
<1>3. WellParsed(parsed)
  BY <1>1, <1>2, ParsedWell
<1> HIDE DEF run, command, tokens, parsed
<1>4. parsed.ended = <<>>
  BY <1>1, <1>3 DEF ParseCommand, WellParsed, parsed, run
<1>5. /\ run.command = command /\ run.strict = parsed.strict
      /\ run.inputs = InputsOf(command, parsed.given)
  BY <1>1, <1>4 DEF ParseCommand, parsed, run, UsageError
<1>6. ASSUME NEW flag \in DOMAIN run.inputs PROVE IsList(run.inputs[flag])
  <2>1. /\ flag \in ToSet(InputKeys(command))
        /\ run.inputs[flag] = IF flag \in RepeatableInputKeys THEN parsed.given[flag]
                              ELSE <<Last(parsed.given[flag])>>
    BY <1>5, <1>6 DEF InputsOf
  <2>2. flag \in Flags
    BY <1>1, <2>1 DEF Flags, ValueFlags
  <2> QED BY <1>3, <2>1, <2>2, SingleIsList DEF WellParsed
<1> QED BY <1>1, <1>3, <1>5, <1>6 DEF WellFormed, WellParsed, run

(* The inputs of a run are a sequence, whichever flags it was given.       *)
LEMMA InputsAreListed ==
    ASSUME NEW run, WellFormed(run)
    PROVE  /\ IsList(Inputs(run))
           /\ \A flag \in ToSet(InputKeys(run.command)) :
                 flag \in DOMAIN run.inputs /\ run.inputs[flag] # <<>> =>
                    \E input \in ToSet(Inputs(run)) : input.flag = flag
<1> DEFINE keys == InputKeys(run.command)
           given(flag) == IF flag \in DOMAIN run.inputs THEN run.inputs[flag]
                          ELSE IF flag = "--in" THEN <<Stdin>> ELSE <<>>
           under(flag) == [i \in DOMAIN given(flag) |-> [flag |-> flag, path |-> given(flag)[i]]]
           parts == [i \in DOMAIN keys |-> under(keys[i])]
<1>1. IsList(keys)
  <2> SUFFICES ASSUME NEW command \in Commands PROVE IsList(InputKeys(command))
    BY DEF WellFormed
  <2>1. CASE command \in {"compile", "seal"}
    <3>1. InputKeys(command) = <<"--in">>
      BY <2>1 DEF InputKeys
    <3> QED BY <3>1, SingleIsList, ThreeAreList, EightAreList
  <2>2. CASE command = "preflight"
    <3>1. InputKeys(command) = <<"--contract", "--probes", "--observations">>
      BY <2>2 DEF InputKeys
    <3> QED BY <3>1, SingleIsList, ThreeAreList, EightAreList
  <2>3. CASE command = "score"
    <3>1. InputKeys(command) = <<"--record", "--isolation-manifest", "--evaluator-configuration", "--contract",
              "--probe", "--preflight-verdict", "--policy", "--private-manifest">>
      BY <2>3 DEF InputKeys
    <3> QED BY <3>1, SingleIsList, ThreeAreList, EightAreList
  <2>4. CASE command = "aggregate-strength"
    <3>1. InputKeys(command) = <<"--evidence", "--floors", "--policy">>
      BY <2>4 DEF InputKeys
    <3> QED BY <3>1, SingleIsList, ThreeAreList, EightAreList
  <2> QED BY <2>1, <2>2, <2>3, <2>4 DEF Commands
<1>2. ASSUME NEW flag PROVE IsList(under(flag))
  <2>1. IsList(given(flag))
    BY EmptyIsList, SingleIsList DEF WellFormed
  <2>2. Len(given(flag)) \in Nat /\ DOMAIN given(flag) = 1 .. Len(given(flag))
    BY <2>1, ListIs
  <2> DEFINE s == under(flag)
  <2>3. \E n \in Nat : s \in [1 .. n -> ToSet(s)]
    <3>1. s = [i \in 1 .. Len(given(flag)) |-> s[i]]
      BY <2>2
    <3> HIDE DEF s, given
    <3>2. DOMAIN s = 1 .. Len(given(flag))
      BY <3>1
    <3>3. s \in [1 .. Len(given(flag)) -> ToSet(s)]
      BY <3>1, <3>2 DEF ToSet
    <3> QED BY <2>2, <3>3
  <2> HIDE DEF s
  <2>4. s \in Seq(ToSet(s))
    BY <2>3, SeqDef
  <2> QED BY <2>4 DEF IsList, s
<1>3. IsList(parts) /\ \A i \in DOMAIN parts : IsList(parts[i])
  <2>1. Len(keys) \in Nat /\ DOMAIN keys = 1 .. Len(keys)
    BY <1>1, ListIs
  <2>2. parts = [i \in 1 .. Len(keys) |-> parts[i]]
    BY <2>1
  <2>3. \A i \in DOMAIN parts : IsList(parts[i])
    BY <1>2
  <2> HIDE DEF parts
  <2>4. parts \in [1 .. Len(keys) -> ToSet(parts)]
    BY <2>2 DEF ToSet
  <2>5. parts \in Seq(ToSet(parts))
    BY <2>1, <2>4, SeqDef
  <2> QED BY <2>3, <2>5 DEF IsList
<1>4. Inputs(run) = FlattenSeq(parts)
  BY DEF Inputs
<1>5. ASSUME NEW flag \in ToSet(keys), flag \in DOMAIN run.inputs, run.inputs[flag] # <<>>
      PROVE  \E i \in DOMAIN parts : \E input \in ToSet(parts[i]) : input.flag = flag
  <2>1. PICK i \in DOMAIN keys : keys[i] = flag
    BY <1>5 DEF ToSet
  <2>2. 1 \in DOMAIN run.inputs[flag]
    BY <1>5, ListBegins DEF WellFormed
  <2>3. i \in DOMAIN parts /\ parts[i] = under(flag) /\ given(flag) = run.inputs[flag]
    BY <1>5, <2>1
  <2>4. under(flag)[1] \in ToSet(under(flag)) /\ under(flag)[1].flag = flag
    BY <2>2, <2>3 DEF ToSet
  <2> QED BY <2>3, <2>4
<1> HIDE DEF parts
<1>6. /\ IsList(FlattenSeq(parts))
      /\ \A e : e \in ToSet(FlattenSeq(parts)) <=> \E i \in DOMAIN parts : e \in ToSet(parts[i])
  BY <1>3, FlattenHolds
<1> QED BY <1>4, <1>5, <1>6

-----------------------------------------------------------------------------
(* The processes of run.ts that share a disk.                              *)

(* What a call returns, and the exit code that goes with it: an artifact   *)
(* comes with the codes that stand for one, and with no other.             *)
SoundResult(run, r) ==
    /\ r.exit \in {0, 1, 2} =>
          /\ r.artifact # <<>>
          /\ run.command = "preflight" => r.artifact[1].passed
    /\ r.exit \in {1, 2} =>
          /\ run.command = "score"
          /\ r.artifact[1].verdict = IF r.exit = 1 THEN "CONCERNS" ELSE "FAIL"
          /\ r.exit = 1 => run.strict
    /\ r.exit = 3 =>
          IF run.command = "preflight" THEN r.artifact # <<>> /\ ~r.artifact[1].passed
          ELSE r.artifact = <<>>
    /\ r.exit \in {StructuralFailure, Usage} => r.artifact = <<>>

(* An input that is not the file at --out, or is the one that was not      *)
(* there when the processes started.                                       *)
Clear(p, input) ==
    input.path # Stdin /\ Node[Resolve[input.path]] = TargetNode(p)
        => Scenarios[scenario].disk[TargetNode(p)] = <<>>

AllClear(p) == \A i \in DOMAIN InputsRead(p) : Clear(p, InputsRead(p)[i])

HasOut(p) == invocation[p].out # <<>>

(* What p has parsed, and where it can be with it.                         *)
ParsedInv(p) ==
    /\ invocation[p] \in {UsageError, ParseArguments(Scenarios[scenario].argv[p])}
    /\ pc[p] \in {"parsing", "checking", "reading", "resolving", "opening", "writing", "done",
                  "killed"}
    /\ pc[p] = "parsing" => invocation[p] = UsageError
    /\ pc[p] \in {"checking", "reading", "resolving", "opening", "writing"} => Running(p)
    /\ pc[p] \in {"checking", "opening", "writing"} => HasOut(p)
    /\ pc[p] = "resolving" => Command(p) = "score"

(* The inputs that were held against --out before the first is read.       *)
CheckedInv(p) ==
    /\ checked[p] \in Nat
    /\ pc[p] = "parsing" => checked[p] = 0
    /\ pc[p] = "checking" =>
          /\ checked[p] <= Len(InputsRead(p))
          /\ \A i \in 1 .. checked[p] : Clear(p, InputsRead(p)[i])
    /\ pc[p] \in {"reading", "resolving", "opening", "writing"} /\ HasOut(p) => AllClear(p)

(* A file that p opened is the one at its --out.                           *)
OpenedInv(p) ==
    \A node \in DOMAIN disk : OpenedBy(p, node) =>
        /\ pc[p] \in {"writing", "done", "killed"}
        /\ Running(p) /\ HasOut(p) /\ node = TargetNode(p) /\ AllClear(p)
        /\ returned[p].artifact # <<>>

(* What came back, on its way to stdout or to the file.                    *)
DeliveryInv(p) ==
    /\ printed[p] # <<>> => pc[p] = "done" /\ printed[p] = returned[p].artifact
    /\ pc[p] \in {"opening", "writing"} =>
          SoundResult(invocation[p], returned[p]) /\ returned[p].artifact # <<>>
    /\ pc[p] = "writing" =>
          disk[TargetNode(p)] # <<>> /\ (disk[TargetNode(p)][1].by = p \/ Rivalled(p))

Told(p) ==
    LET exit == exitCode[p][1] IN
    /\ exit \in {0, 1, 2} /\ Running(p) =>
          /\ Delivered(p)
          /\ Command(p) = "preflight" => MintedBy(p).passed
    /\ exit \in {1, 2} =>
          /\ Minted(p, "score")
          /\ MintedBy(p).verdict = IF exit = 1 THEN "CONCERNS" ELSE "FAIL"
          /\ exit = 1 => invocation[p].strict
    /\ exit = 3 =>
          IF Command(p) = "preflight" THEN Delivered(p) /\ ~MintedBy(p).passed
          ELSE ~Touched(p)
    /\ exit \in {StructuralFailure, Usage} => ~Touched(p)

DiskInv ==
    /\ DOMAIN disk = DOMAIN Scenarios[scenario].disk
    /\ \A node \in DOMAIN disk :
          Scenarios[scenario].disk[node] # <<>> => disk[node] # <<>>

ByProcess ==
    /\ pc = [p \in Procs |-> pc[p]]
    /\ invocation = [p \in Procs |-> invocation[p]]
    /\ checked = [p \in Procs |-> checked[p]]
    /\ returned = [p \in Procs |-> returned[p]]
    /\ printed = [p \in Procs |-> printed[p]]
    /\ exitCode = [p \in Procs |-> exitCode[p]]

ProcInv(p) ==
    /\ ParsedInv(p) /\ CheckedInv(p) /\ OpenedInv(p) /\ DeliveryInv(p)
    /\ pc[p] = "done" => Told(p) /\ (exitCode[p][1] = 3 => Running(p))

(* What holds between any two steps of the processes.                      *)
CommandLineInvariant ==
    /\ scenario \in DOMAIN Scenarios
    /\ DiskInv
    /\ ByProcess
    /\ \A p \in Procs : ProcInv(p)

(* A score's exit code goes with its artifact, whatever the assessment.    *)
LEMMA JudgedIsSound ==
    ASSUME NEW run, run.command = "score", run.strict \in BOOLEAN,
           NEW o, NEW resolved, NEW reduced, NEW a
    PROVE  SoundResult(run, Returned(Judged(o, resolved, reduced, a), run.strict))
<1> DEFINE mode == Trials(o)[1].mode
           rung == Rung(a, mode)
           artifact == Evidenced(o, resolved, reduced, rung)
           exit == ExitCode(a, mode, run.strict)
           scored == Judged(o, resolved, reduced, a)
           r == Returned(scored, run.strict)
<1>1. rung \in {"invalid", "FAIL", "CONCERNS", "WAIVED", "PASS"}
  BY RungOf
<1>2. scored.exits[run.strict] = exit /\ scored.artifact = artifact
  BY DEF Judged
<1>3. IF rung = "invalid" THEN artifact = <<>>
      ELSE artifact # <<>> /\ artifact[1].verdict = rung
  BY DEF Evidenced, Emit
<1>4. /\ rung = "invalid" => exit = 3
      /\ rung = "FAIL" => exit = 2
      /\ rung = "CONCERNS" => exit = 0 \/ (exit = 1 /\ run.strict)
      /\ rung \in {"WAIVED", "PASS"} => exit = 0
  BY DEF ExitCode, LadderExit
<1> HIDE DEF rung, artifact, exit, scored, r
<1>5. \/ r.exit = Fault /\ r.artifact = <<>>
      \/ r.exit = exit /\ r.artifact = artifact
  BY <1>2 DEF Returned, Rejected, r
<1>6. CASE r.exit = Fault
  BY <1>6 DEF SoundResult, Fault, StructuralFailure, Usage, r, scored
<1>7. CASE r.exit = exit /\ r.artifact = artifact
  BY <1>1, <1>3, <1>4, <1>7 DEF SoundResult, StructuralFailure, Usage, r, scored
<1> QED BY <1>5, <1>6, <1>7

(* A rejection comes without an artifact.                                  *)
LEMMA RejectedIsSound ==
    ASSUME NEW run, NEW n \in {StructuralFailure, Fault, Usage}
    PROVE  SoundResult(run, Rejected(n))
<1>1. Rejected(n).exit = n /\ Rejected(n).artifact = <<>>
  BY DEF Rejected
<1>2. n \in {4, 5, 64}
  BY DEF StructuralFailure, Fault, Usage
<1> QED BY <1>1, <1>2 DEF SoundResult

(* So a score's result is sound, whatever was read.                        *)
LEMMA ScoreResultIsSound ==
    ASSUME NEW p, Command(p) = "score", invocation[p].strict \in BOOLEAN
    PROVE  SoundResult(invocation[p], ScoreResult(p))
<1> DEFINE o == ScoreOptions(p)
           each == [i \in DOMAIN o.records |-> Resolutions(o, Trials(o)[i])]
<1>1. ScoreResult(p) = Returned(Reached(o, each), invocation[p].strict)
  BY DEF ScoreResult, Scored
<1> HIDE DEF o, each
<1>2. PICK resolved, reduced : Reached(o, each) = Concluded(o, resolved, reduced)
  BY DEF Reached
<1>3. Concluded(o, resolved, reduced)
        = Judged(o, resolved, reduced, AssessmentOf(o, resolved, reduced))
  BY DEF Concluded
<1> QED BY <1>1, <1>2, <1>3, JudgedIsSound DEF Command

(* An aggregate comes with 0, and only with 0.                             *)
LEMMA AggregateResultIsSound ==
    ASSUME NEW p, Command(p) = "aggregate-strength"
    PROVE  SoundResult(invocation[p], AggregateResult(p))
<1>1. \/ \E n \in {StructuralFailure, Fault, Usage} : AggregateResult(p) = Rejected(n)
      \/ \E x : AggregateResult(p) = [exit |-> 0, artifact |-> <<x>>]
  BY DEF AggregateResult
<1>2. ASSUME NEW x PROVE SoundResult(invocation[p], [exit |-> 0, artifact |-> <<x>>])
  <2> DEFINE r == [exit |-> 0, artifact |-> <<x>>]
  <2>1. r.exit = 0 /\ r.artifact # <<>> /\ invocation[p].command # "preflight"
    BY DEF Command
  <2> HIDE DEF r
  <2>2. SoundResult(invocation[p], r)
    BY <2>1 DEF SoundResult, StructuralFailure, Usage
  <2> QED BY <2>2 DEF r
<1> QED BY <1>1, <1>2, RejectedIsSound

(* Of the other three commands a pre-flight alone has a verdict to deny.   *)
LEMMA OtherResultIsSound ==
    ASSUME NEW p
    PROVE  SoundResult(invocation[p], OtherResult(p))
<1> DEFINE passing == [exit |-> 0, artifact |-> <<[passed |-> TRUE]>>]
           failing == [exit |-> 3, artifact |-> <<[passed |-> FALSE]>>]
<1>1. \/ \E n \in {StructuralFailure, Fault, Usage} : OtherResult(p) = Rejected(n)
      \/ OtherResult(p) = failing /\ Command(p) = "preflight"
      \/ OtherResult(p) = passing
  BY DEF OtherResult
<1>2. SoundResult(invocation[p], passing)
  <2>1. passing.exit = 0 /\ passing.artifact # <<>> /\ passing.artifact[1].passed = TRUE
    OBVIOUS
  <2> HIDE DEF passing
  <2> QED BY <2>1 DEF SoundResult, StructuralFailure, Usage
<1>3. Command(p) = "preflight" => SoundResult(invocation[p], failing)
  <2>1. failing.exit = 3 /\ failing.artifact # <<>> /\ failing.artifact[1].passed = FALSE
    OBVIOUS
  <2> HIDE DEF failing
  <2> QED BY <2>1 DEF SoundResult, StructuralFailure, Usage, Command
<1> QED BY <1>1, <1>2, <1>3, RejectedIsSound

-----------------------------------------------------------------------------
(* What p runs, whatever step is next.                                     *)
LEMMA RunIs ==
    ASSUME CommandLineInvariant, NEW p \in Procs, Running(p)
    PROVE  /\ WellFormed(invocation[p]) /\ IsList(InputsRead(p))
           /\ HasOut(p) => TargetNode(p) \in DOMAIN disk
<1> DEFINE argv == Scenarios[scenario].argv[p]
           run == invocation[p]
<1>1. run = ParseArguments(argv) /\ run.kind = "run"
  BY DEF CommandLineInvariant, ProcInv, ParsedInv, Running, UsageError
<1>2. /\ IsList(argv)
      /\ ParseArguments(argv).kind = "run"
            => NamedNodes(ParseArguments(argv)) \subseteq DOMAIN Scenarios[scenario].disk
  BY ScenariosAssumption DEF CommandLineInvariant, IsList
<1> HIDE DEF argv
<1>3. WellFormed(run)
  BY <1>1, <1>2, RunWellFormed
<1>4. IsList(InputsRead(p))
  BY <1>1, <1>3, InputsAreListed DEF InputsRead
<1>5. HasOut(p) => TargetNode(p) \in DOMAIN disk
  <2> SUFFICES ASSUME run.out # <<>> PROVE Node[Target(run)] \in DOMAIN disk
    BY DEF HasOut, TargetNode
  <2>1. Node[Target(run)] \in NamedNodes(run)
    BY DEF NamedNodes
  <2>2. DOMAIN disk = DOMAIN Scenarios[scenario].disk
    BY DEF CommandLineInvariant, DiskInv
  <2> QED BY <1>1, <1>2, <2>1, <2>2
<1> QED BY <1>3, <1>4, <1>5

(* A step that is none of q's.                                             *)
Apart(q) ==
    /\ pc'[q] = pc[q] /\ invocation'[q] = invocation[q] /\ checked'[q] = checked[q]
    /\ returned'[q] = returned[q] /\ printed'[q] = printed[q] /\ exitCode'[q] = exitCode[q]

(* What a step of p does to the disk: nothing, or it leaves its own file.  *)
DiskStep(p) ==
    \/ disk' = disk
    \/ /\ Running(p) /\ HasOut(p)
       /\ \E file : file.by = p /\ disk' = [disk EXCEPT ![TargetNode(p)] = <<file>>]

(* No process that runs something comes to run something else.             *)
RunsKept == \A r \in Procs : Running(r) => invocation'[r] = invocation[r]

(* A step changes one file at most, the one at the --out of who took it.   *)
LEMMA DiskKept ==
    ASSUME CommandLineInvariant, NEW p \in Procs, DiskStep(p), scenario' = scenario
    PROVE  /\ DiskInv' /\ DOMAIN disk' = DOMAIN disk
           /\ \A node \in DOMAIN disk : disk[node] # <<>> => disk'[node] # <<>>
           /\ \A node \in DOMAIN disk : disk'[node] # disk[node] =>
                 /\ Running(p) /\ HasOut(p) /\ node = TargetNode(p)
                 /\ disk'[node] # <<>> /\ disk'[node][1].by = p
<1>1. DiskInv
  BY DEF CommandLineInvariant
<1>2. CASE disk' = disk
  BY <1>1, <1>2 DEF DiskInv
<1>3. CASE disk' # disk
  <2>1. PICK file : file.by = p /\ disk' = [disk EXCEPT ![TargetNode(p)] = <<file>>]
    BY <1>3 DEF DiskStep
  <2>2. Running(p) /\ HasOut(p)
    BY <1>3 DEF DiskStep
  <2>3. DOMAIN disk' = DOMAIN disk
    BY <2>1
  <2>4. \A node \in DOMAIN disk :
           disk'[node] = IF node = TargetNode(p) THEN <<file>> ELSE disk[node]
    BY <2>1
  <2>5. <<file>> # <<>> /\ <<file>>[1] = file
    OBVIOUS
  <2> QED BY <1>1, <2>1, <2>2, <2>3, <2>4, <2>5 DEF DiskInv
<1> QED BY <1>2, <1>3

(* What depends on the invocation alone stays with the invocation.         *)
LEMMA SameRun ==
    ASSUME NEW q, invocation'[q] = invocation[q], scenario' = scenario
    PROVE  /\ Running(q)' = Running(q) /\ Command(q)' = Command(q)
           /\ HasOut(q)' = HasOut(q) /\ TargetNode(q)' = TargetNode(q)
           /\ InputsRead(q)' = InputsRead(q) /\ AllClear(q)' = AllClear(q)
           /\ \A input : Clear(q, input)' = Clear(q, input)
<1>1. /\ Running(q)' = Running(q) /\ Command(q)' = Command(q)
      /\ HasOut(q)' = HasOut(q) /\ TargetNode(q)' = TargetNode(q)
      /\ InputsRead(q)' = InputsRead(q)
  BY DEF Running, Command, HasOut, TargetNode, InputsRead
<1>2. \A input : Clear(q, input)' = Clear(q, input)
  BY <1>1 DEF Clear
<1> QED BY <1>1, <1>2 DEF AllClear

(* A rival that runs remains one.                                          *)
LEMMA RivalKept ==
    ASSUME NEW q \in Procs, scenario' = scenario, invocation'[q] = invocation[q], RunsKept,
           Rivalled(q)
    PROVE  Rivalled(q)'
<1>1. PICK r \in Procs \ {q} : /\ Running(r) /\ invocation[r].out # <<>>
                               /\ TargetNode(r) = TargetNode(q)
  BY DEF Rivalled
<1>2. invocation'[r] = invocation[r]
  BY <1>1 DEF RunsKept
<1>3. Running(r)' /\ invocation'[r].out # <<>> /\ TargetNode(r)' = TargetNode(q)'
  BY <1>1, <1>2 DEF Running, TargetNode
<1> QED BY <1>3 DEF Rivalled

(* What holds of a process keeps holding while another one takes a step.   *)
LEMMA OthersKept ==
    ASSUME CommandLineInvariant, NEW p \in Procs, NEW q \in Procs, q # p,
           Apart(q), scenario' = scenario, DiskStep(p), RunsKept
    PROVE  ProcInv(q)'
<1>1. ProcInv(q)
  BY DEF CommandLineInvariant
<1>2. /\ DOMAIN disk' = DOMAIN disk
      /\ \A node \in DOMAIN disk : disk[node] # <<>> => disk'[node] # <<>>
      /\ \A node \in DOMAIN disk : disk'[node] # disk[node] =>
            /\ Running(p) /\ HasOut(p) /\ node = TargetNode(p)
            /\ disk'[node] # <<>> /\ disk'[node][1].by = p
  BY DiskKept
<1>3. /\ Running(q)' = Running(q) /\ Command(q)' = Command(q)
      /\ HasOut(q)' = HasOut(q) /\ TargetNode(q)' = TargetNode(q)
      /\ InputsRead(q)' = InputsRead(q) /\ AllClear(q)' = AllClear(q)
      /\ \A input : Clear(q, input)' = Clear(q, input)
  BY SameRun DEF Apart
<1>4. Rivalled(q) => Rivalled(q)'
  BY RivalKept DEF Apart
<1>5. ASSUME NEW node \in DOMAIN disk, disk'[node] # disk[node], node = TargetNode(q)
      PROVE  Rivalled(q)'
  <2>1. Running(p) /\ HasOut(p) /\ TargetNode(p) = TargetNode(q)
    BY <1>2, <1>5
  <2>2. invocation'[p] = invocation[p]
    BY <2>1 DEF RunsKept
  <2>3. Running(p)' /\ invocation'[p].out # <<>> /\ TargetNode(p)' = TargetNode(q)'
    BY <1>3, <2>1, <2>2 DEF Running, HasOut, TargetNode
  <2> QED BY <2>3 DEF Rivalled
<1>6. \A node \in DOMAIN disk : OpenedBy(q, node)' => OpenedBy(q, node)
  BY <1>2 DEF OpenedBy
<1>7. ParsedInv(q)'
  BY <1>1, <1>3 DEF ProcInv, ParsedInv, Apart
<1>8. CheckedInv(q)'
  BY <1>1, <1>3 DEF ProcInv, CheckedInv, Apart
<1>9. OpenedInv(q)'
  BY <1>1, <1>2, <1>3, <1>6 DEF ProcInv, OpenedInv, Apart
<1>10. DeliveryInv(q)'
  <2>1. pc[q] = "writing" => TargetNode(q) \in DOMAIN disk
    BY <1>1, RunIs DEF ProcInv, ParsedInv
  <2>2. ASSUME pc[q] = "writing"
        PROVE  /\ disk'[TargetNode(q)] # <<>>
               /\ disk'[TargetNode(q)][1].by = q \/ Rivalled(q)'
    <3>1. disk[TargetNode(q)] # <<>> /\ (disk[TargetNode(q)][1].by = q \/ Rivalled(q))
      BY <1>1, <2>2 DEF ProcInv, DeliveryInv
    <3>2. CASE disk'[TargetNode(q)] = disk[TargetNode(q)]
      BY <1>4, <3>1, <3>2
    <3>3. CASE disk'[TargetNode(q)] # disk[TargetNode(q)]
      BY <1>2, <1>5, <2>1, <2>2, <3>3
    <3> QED BY <3>2, <3>3
  <2>3. /\ printed'[q] = printed[q] /\ returned'[q] = returned[q]
        /\ invocation'[q] = invocation[q] /\ pc'[q] = pc[q]
    BY DEF Apart
  <2>4. TargetNode(q)' = TargetNode(q)
    BY <1>3
  <2>5. printed'[q] # <<>> => pc'[q] = "done" /\ printed'[q] = returned'[q].artifact
    BY <1>1, <2>3 DEF ProcInv, DeliveryInv
  <2>6. pc'[q] \in {"opening", "writing"} =>
           SoundResult(invocation'[q], returned'[q]) /\ returned'[q].artifact # <<>>
    BY <1>1, <2>3 DEF ProcInv, DeliveryInv
  <2>7. SoundResult(invocation'[q], returned'[q]) = SoundResult(invocation[q], returned[q])'
    OBVIOUS
  <2>8. pc'[q] = "writing" =>
           disk'[TargetNode(q)'] # <<>> /\ (disk'[TargetNode(q)'][1].by = q \/ Rivalled(q)')
    BY <2>2, <2>3, <2>4
  <2> QED BY <2>5, <2>6, <2>8 DEF DeliveryInv
<1>11. ASSUME pc'[q] = "done" PROVE Told(q)' /\ (exitCode'[q][1] = 3 => Running(q)')
  <2>1. pc[q] = "done" /\ Told(q)
    BY <1>1, <1>11 DEF ProcInv, Apart
  <2>2. Touched(q)' => Touched(q)
    BY <1>2, <1>6 DEF Touched, Apart
  <2>3. Running(q) /\ HasOut(q) => TargetNode(q) \in DOMAIN disk
    BY RunIs
  <2>4. Running(q) /\ Delivered(q) => Delivered(q)'
    <3> SUFFICES ASSUME Running(q), Delivered(q) PROVE Delivered(q)'
      OBVIOUS
    <3>1. CASE ~HasOut(q)
      BY <3>1 DEF Delivered, Apart, HasOut
    <3>2. CASE HasOut(q) /\ Rivalled(q)
      BY <1>4, <3>2 DEF Delivered, Apart, HasOut
    <3>3. CASE HasOut(q) /\ OpenedBy(q, TargetNode(q)) /\ disk[TargetNode(q)][1].whole
      <4>1. CASE disk'[TargetNode(q)] # disk[TargetNode(q)]
        BY <1>5, <2>3, <3>3, <4>1 DEF Delivered, Apart, HasOut
      <4>2. CASE disk'[TargetNode(q)] = disk[TargetNode(q)]
        BY <1>3, <3>3, <4>2 DEF Delivered, Apart, HasOut, OpenedBy
      <4> QED BY <4>1, <4>2
    <3> QED BY <3>1, <3>2, <3>3 DEF Delivered, HasOut
  <2>5. Minted(q, "score")' = Minted(q, "score") /\ MintedBy(q)' = MintedBy(q)
    BY <1>3 DEF Minted, MintedBy, Apart
  <2>6. exitCode'[q] = exitCode[q] /\ invocation'[q].strict = invocation[q].strict
    BY DEF Apart
  <2>7. exitCode[q][1] = 3 => Running(q)
    BY <1>1, <2>1 DEF ProcInv
  <2>8. exitCode'[q][1] = 3 => Running(q)'
    BY <1>3, <2>6, <2>7
  <2>9. Told(q)'
    BY <1>3, <2>1, <2>2, <2>4, <2>5, <2>6, <2>7 DEF Told
  <2> QED BY <2>8, <2>9
<1> QED BY <1>7, <1>8, <1>9, <1>10, <1>11 DEF ProcInv

(* Every command line comes to one of the four outcomes.                   *)
LEMMA KindIs ==
    ASSUME NEW argv, IsList(argv)
    PROVE  ParseArguments(argv).kind \in {"usage-error", "help", "version", "run"}
<1> DEFINE command == argv[1].text
           tokens == Tail(argv)
           parsed == Parsed(command, tokens)
           run == ParseArguments(argv)
<1>1. \/ run.kind \in {"usage-error", "help", "version"}
      \/ command \in Commands /\ run = ParseCommand(command, tokens) /\ argv # <<>>
  BY DEF ParseArguments, UsageError, Commands
<1>2. CASE command \in Commands /\ run = ParseCommand(command, tokens) /\ argv # <<>>
  <2>1. Len(tokens) \in Nat
    <3>1. argv \in Seq(ToSet(argv)) /\ argv # <<>>
      BY <1>2 DEF IsList
    <3> HIDE DEF tokens
    <3>2. tokens \in Seq(ToSet(argv))
      BY <3>1, HeadTailProperties DEF tokens
    <3> QED BY <3>2, LenProperties
  <2>2. WellParsed(parsed)
    BY <1>2, <2>1, ParsedWell
  <2> HIDE DEF parsed, command, tokens
  <2>3. parsed.ended # <<>> => parsed.ended[1].kind \in {"usage-error", "help"}
    BY <2>2 DEF WellParsed
  <2>4. \/ parsed.ended # <<>> /\ run = parsed.ended[1]
        \/ run = UsageError
        \/ run.kind = "run"
    BY <1>2 DEF ParseCommand, parsed
  <2> QED BY <2>3, <2>4 DEF UsageError
<1> QED BY <1>1, <1>2

(* What is left to show of a step of p: what holds of p itself after it.   *)
LEMMA StepHolds ==
    ASSUME CommandLineInvariant, NEW p \in Procs, scenario' = scenario, DiskStep(p), RunsKept,
           \A q \in Procs \ {p} : Apart(q), ByProcess', ProcInv(p)'
    PROVE  CommandLineInvariant'
<1>1. DiskInv'
  BY DiskKept
<1>2. \A q \in Procs : ProcInv(q)'
  <2> SUFFICES ASSUME NEW q \in Procs, q # p PROVE ProcInv(q)'
    OBVIOUS
  <2> QED BY OthersKept
<1>3. scenario' \in DOMAIN Scenarios
  BY DEF CommandLineInvariant
<1> QED BY <1>1, <1>2, <1>3 DEF CommandLineInvariant

(* The state of a process that took no step.                               *)
LEMMA StillHolds ==
    ASSUME CommandLineInvariant,
           UNCHANGED <<scenario, disk, pc, invocation, checked, returned, printed, exitCode>>
    PROVE  CommandLineInvariant'
<1>1. DiskInv'
  BY DEF CommandLineInvariant, DiskInv
<1>2. ByProcess'
  BY DEF CommandLineInvariant, ByProcess
<1>3. ASSUME NEW p \in Procs PROVE ProcInv(p)'
  <2>1. ProcInv(p)
    BY DEF CommandLineInvariant
  <2>2. /\ Running(p)' = Running(p) /\ Command(p)' = Command(p)
        /\ HasOut(p)' = HasOut(p) /\ TargetNode(p)' = TargetNode(p)
        /\ InputsRead(p)' = InputsRead(p) /\ AllClear(p)' = AllClear(p)
        /\ \A input : Clear(p, input)' = Clear(p, input)
    BY SameRun
  <2>3. Rivalled(p) => Rivalled(p)'
    BY RivalKept DEF RunsKept
  <2>4. \A node \in DOMAIN disk : OpenedBy(p, node)' = OpenedBy(p, node)
    BY DEF OpenedBy
  <2>5. ParsedInv(p)' /\ CheckedInv(p)' /\ OpenedInv(p)'
    BY <2>1, <2>2, <2>4 DEF ProcInv, ParsedInv, CheckedInv, OpenedInv
  <2>6. DeliveryInv(p)'
    BY <2>1, <2>2, <2>3 DEF ProcInv, DeliveryInv
  <2>7. Delivered(p) => Delivered(p)'
    BY <2>2, <2>3 DEF Delivered, OpenedBy
  <2>8. Touched(p)' => Touched(p)
    BY <2>4 DEF Touched
  <2>9. Minted(p, "score")' = Minted(p, "score") /\ MintedBy(p)' = MintedBy(p)
    BY <2>2 DEF Minted, MintedBy
  <2>10. pc'[p] = "done" => Told(p)' /\ (exitCode'[p][1] = 3 => Running(p)')
    BY <2>1, <2>2, <2>7, <2>8, <2>9 DEF ProcInv, Told
  <2> QED BY <2>5, <2>6, <2>10 DEF ProcInv
<1> QED BY <1>1, <1>2, <1>3 DEF CommandLineInvariant

(* An exit before anything was written, and a fault at any time.           *)
LEMMA EndsEarly ==
    ASSUME CommandLineInvariant, NEW p \in Procs, NEW n \in {Usage, Fault}, Exit(p, n),
           n = Fault \/ pc[p] \notin {"writing", "done", "killed"},
           pc[p] # "done", Running(p),
           UNCHANGED <<scenario, disk, invocation, checked, returned, printed>>
    PROVE  CommandLineInvariant'
<1>1. ByProcess /\ ProcInv(p)
  BY DEF CommandLineInvariant
<1>2. /\ pc'[p] = "done" /\ exitCode'[p] = <<n>>
      /\ \A q \in Procs \ {p} : Apart(q)
      /\ ByProcess'
  BY <1>1 DEF ByProcess, Exit, Apart
<1>3. /\ Running(p)' = Running(p) /\ Command(p)' = Command(p)
      /\ HasOut(p)' = HasOut(p) /\ TargetNode(p)' = TargetNode(p)
      /\ InputsRead(p)' = InputsRead(p) /\ AllClear(p)' = AllClear(p)
  BY SameRun
<1>4. ParsedInv(p)' /\ CheckedInv(p)'
  BY <1>1, <1>2, <1>3 DEF ProcInv, ParsedInv, CheckedInv
<1>5. \A node \in DOMAIN disk : OpenedBy(p, node)' = OpenedBy(p, node)
  BY DEF OpenedBy
<1>6. OpenedInv(p)'
  BY <1>1, <1>2, <1>3, <1>5 DEF ProcInv, OpenedInv
<1>7. printed'[p] = <<>>
  BY <1>1 DEF ProcInv, DeliveryInv
<1>8. DeliveryInv(p)'
  BY <1>2, <1>7 DEF DeliveryInv
<1>9. n # Fault => ~Touched(p)'
  BY <1>1, <1>5, <1>7 DEF Touched, ProcInv, OpenedInv
<1>10. exitCode'[p][1] = n /\ n \in {5, 64}
  BY <1>2 DEF Usage, Fault
<1>11. Told(p)' /\ exitCode'[p][1] # 3
  BY <1>9, <1>10 DEF Told, Usage, Fault, StructuralFailure
<1>12. ProcInv(p)'
  BY <1>4, <1>6, <1>8, <1>11 DEF ProcInv
<1> QED BY <1>2, <1>12, StepHolds DEF DiskStep, RunsKept

(* parseArguments.                                                         *)
LEMMA ParseHolds ==
    ASSUME CommandLineInvariant, NEW p \in Procs, Parse(p)
    PROVE  CommandLineInvariant'
<1> DEFINE argv == Scenarios[scenario].argv[p]
           parsed == ParseArguments(argv)
<1>1. ByProcess /\ ProcInv(p) /\ pc[p] = "parsing" /\ invocation[p] = UsageError
  BY DEF CommandLineInvariant, ProcInv, ParsedInv, Parse
<1>2. parsed.kind \in {"usage-error", "help", "version", "run"}
  <2>1. IsList(argv)
    BY ScenariosAssumption DEF CommandLineInvariant, IsList
  <2> HIDE DEF argv
  <2> QED BY <2>1, KindIs
<1>3. /\ scenario' = scenario /\ disk' = disk /\ checked' = checked /\ returned' = returned
      /\ printed' = printed /\ invocation'[p] = parsed
  BY <1>1 DEF Parse, ByProcess
<1>4. /\ IF parsed.kind = "run"
         THEN pc'[p] = (IF parsed.out = <<>> THEN "reading" ELSE "checking")
         ELSE /\ pc'[p] = "done"
              /\ exitCode'[p] = <<IF parsed.kind = "usage-error" THEN Usage ELSE 0>>
      /\ \A q \in Procs \ {p} : Apart(q)
      /\ ByProcess'
  <2> HIDE DEF parsed
  <2>1. /\ invocation' = [invocation EXCEPT ![p] = parsed]
        /\ CASE parsed.kind = "usage-error" -> Exit(p, Usage)
             [] parsed.kind \in {"help", "version"} -> Exit(p, 0)
             [] parsed.kind = "run" ->
                  /\ pc' = [pc EXCEPT ![p] = IF parsed.out = <<>> THEN "reading" ELSE "checking"]
                  /\ UNCHANGED exitCode
    BY DEF Parse, parsed
  <2>2. CASE parsed.kind = "usage-error"
    <3>1. Exit(p, Usage)
      BY <2>1, <2>2
    <3> QED BY <1>1, <1>3, <2>1, <2>2, <3>1 DEF Exit, ByProcess, Apart
  <2>3. CASE parsed.kind \in {"help", "version"}
    <3>1. Exit(p, 0)
      BY <2>1, <2>3
    <3> QED BY <1>1, <1>3, <2>1, <2>3, <3>1 DEF Exit, ByProcess, Apart
  <2>4. CASE parsed.kind = "run"
    <3>1. /\ pc' = [pc EXCEPT ![p] = IF parsed.out = <<>> THEN "reading" ELSE "checking"]
          /\ exitCode' = exitCode
      BY <2>1, <2>4
    <3> QED BY <1>1, <1>3, <2>1, <2>4, <3>1 DEF ByProcess, Apart
  <2> QED BY <1>2, <2>2, <2>3, <2>4
<1>5. ~Running(p) /\ (Running(p)' <=> parsed.kind = "run")
  BY <1>1, <1>3 DEF Running, UsageError
<1> HIDE DEF parsed
<1>6. ParsedInv(p)'
  BY <1>3, <1>4, <1>5 DEF ParsedInv, HasOut, parsed, argv
<1>7. CheckedInv(p)'
  <2>1. checked'[p] = 0
    BY <1>1, <1>3 DEF ProcInv, CheckedInv
  <2>2. pc'[p] = "checking" => 0 <= Len(InputsRead(p)')
    <3> SUFFICES ASSUME pc'[p] = "checking" PROVE Len(InputsRead(p)') \in Nat
      OBVIOUS
    <3>1. parsed.kind = "run"
      BY <1>4
    <3>2. InputsRead(p)' = Inputs(parsed)
      BY <1>3, <3>1 DEF InputsRead
    <3>3. WellFormed(parsed)
      BY <3>1, RunWellFormed, ScenariosAssumption DEF CommandLineInvariant, IsList, parsed
    <3> QED BY <3>2, <3>3, InputsAreListed, ListIs
  <2>3. pc'[p] \in {"reading", "resolving", "opening", "writing"} => ~HasOut(p)'
    BY <1>3, <1>4 DEF HasOut
  <2> QED BY <2>1, <2>2, <2>3 DEF CheckedInv
<1>8. \A node \in DOMAIN disk' : ~OpenedBy(p, node)'
  BY <1>1, <1>3 DEF ProcInv, OpenedInv, OpenedBy
<1>9. OpenedInv(p)'
  BY <1>8 DEF OpenedInv
<1>10. printed'[p] = <<>>
  BY <1>1, <1>3 DEF ProcInv, DeliveryInv
<1>11. DeliveryInv(p)'
  BY <1>4, <1>10 DEF DeliveryInv
<1>12. ~Touched(p)'
  BY <1>8, <1>10 DEF Touched
<1>13. pc'[p] = "done" => Told(p)' /\ (exitCode'[p][1] = 3 => Running(p)')
  <2> SUFFICES ASSUME pc'[p] = "done" PROVE Told(p)' /\ exitCode'[p][1] # 3
    OBVIOUS
  <2>1. ~Running(p)' /\ exitCode'[p][1] \in {0, 64}
    BY <1>4, <1>5 DEF Usage
  <2> QED BY <1>12, <2>1 DEF Told
<1>14. ProcInv(p)'
  BY <1>6, <1>7, <1>9, <1>11, <1>13 DEF ProcInv
<1> QED BY <1>3, <1>4, <1>5, <1>14, StepHolds DEF DiskStep, RunsKept, Apart

(* One input is held against --out (collides).                             *)
LEMMA CheckInputHolds ==
    ASSUME CommandLineInvariant, NEW p \in Procs, CheckInput(p)
    PROVE  CommandLineInvariant'
<1>1. /\ ByProcess /\ ProcInv(p) /\ pc[p] = "checking" /\ Running(p) /\ HasOut(p)
      /\ UNCHANGED <<scenario, disk, invocation, returned, printed>>
  BY DEF CommandLineInvariant, ProcInv, ParsedInv, CheckInput
<1>2. /\ Len(InputsRead(p)) \in Nat /\ DOMAIN InputsRead(p) = 1 .. Len(InputsRead(p))
      /\ checked[p] \in 0 .. Len(InputsRead(p))
      /\ \A i \in 1 .. checked[p] : Clear(p, InputsRead(p)[i])
      /\ TargetNode(p) \in DOMAIN disk
  BY <1>1, RunIs, ListIs DEF ProcInv, CheckedInv
<1> DEFINE input == InputsRead(p)[checked[p] + 1]
<1>3. CASE checked[p] # Len(InputsRead(p)) /\ Collides(input, invocation[p])
  <2>1. Exit(p, Usage) /\ UNCHANGED checked
    BY <1>3 DEF CheckInput
  <2> QED BY <1>1, <2>1, EndsEarly
<1>4. CASE ~(checked[p] # Len(InputsRead(p)) /\ Collides(input, invocation[p]))
  <2>1. /\ exitCode' = exitCode
        /\ IF checked[p] = Len(InputsRead(p))
           THEN pc' = [pc EXCEPT ![p] = "reading"] /\ checked' = checked
           ELSE checked' = [checked EXCEPT ![p] = @ + 1] /\ pc' = pc
    BY <1>4 DEF CheckInput
  <2>2. /\ \A q \in Procs \ {p} : Apart(q)
        /\ ByProcess'
        /\ IF checked[p] = Len(InputsRead(p))
           THEN pc'[p] = "reading" /\ checked'[p] = checked[p]
           ELSE checked'[p] = checked[p] + 1 /\ pc'[p] = "checking"
    BY <1>1, <2>1 DEF ByProcess, Apart
  <2>3. /\ Running(p)' = Running(p) /\ Command(p)' = Command(p)
        /\ HasOut(p)' = HasOut(p) /\ TargetNode(p)' = TargetNode(p)
        /\ InputsRead(p)' = InputsRead(p) /\ AllClear(p)' = AllClear(p)
        /\ \A x : Clear(p, x)' = Clear(p, x)
    BY <1>1, SameRun
  <2>4. ParsedInv(p)'
    BY <1>1, <2>2, <2>3 DEF ProcInv, ParsedInv
  <2>5. checked[p] # Len(InputsRead(p)) => Clear(p, input)
    <3> SUFFICES ASSUME ~Collides(input, invocation[p]) PROVE Clear(p, input)
      BY <1>4
    <3>1. DiskInv
      BY DEF CommandLineInvariant
    <3> HIDE DEF input
    <3>2. input.path # Stdin /\ Node[Resolve[input.path]] = TargetNode(p)
             => disk[TargetNode(p)] = <<>>
      BY DEF Collides, TargetNode
    <3> QED BY <1>2, <3>1, <3>2 DEF Clear, DiskInv
  <2>6. CheckedInv(p)'
    <3>1. CASE checked[p] = Len(InputsRead(p))
      <4>1. AllClear(p)
        BY <1>2, <3>1 DEF AllClear
      <4> QED BY <1>1, <1>2, <2>2, <2>3, <3>1, <4>1 DEF CheckedInv
    <3>2. CASE checked[p] # Len(InputsRead(p))
      <4>1. \A i \in 1 .. checked[p] + 1 : i \in 1 .. checked[p] \/ i = checked[p] + 1
        BY <1>2
      <4>2. \A i \in 1 .. checked[p] + 1 : Clear(p, InputsRead(p)[i])
        BY <1>2, <2>5, <3>2, <4>1
      <4>3. checked[p] + 1 \in Nat /\ checked[p] + 1 <= Len(InputsRead(p))
        BY <1>2, <3>2
      <4> QED BY <1>1, <2>2, <2>3, <3>2, <4>2, <4>3 DEF CheckedInv
    <3> QED BY <3>1, <3>2
  <2>7. OpenedInv(p)'
    BY <1>1 DEF ProcInv, OpenedInv, OpenedBy
  <2>8. DeliveryInv(p)'
    BY <1>1, <2>2 DEF ProcInv, DeliveryInv
  <2>9. ProcInv(p)'
    BY <2>2, <2>4, <2>6, <2>7, <2>8 DEF ProcInv
  <2> QED BY <1>1, <2>2, <2>9, StepHolds DEF DiskStep, RunsKept
<1> QED BY <1>3, <1>4

(* A file is read, or the read fails.                                      *)
LEMMA ReadHolds ==
    ASSUME CommandLineInvariant, NEW p \in Procs,
           (\E i \in Readable(p) : ReadInput(p, i)) \/ ReadFails(p)
    PROVE  CommandLineInvariant'
<1>1. pc[p] = "reading" /\ Running(p)
  BY DEF CommandLineInvariant, ProcInv, ParsedInv, ReadInput, ReadFails
<1>2. /\ UNCHANGED <<scenario, disk, invocation, checked, returned, printed>>
      /\ (\E n \in {Usage, Fault} : Exit(p, n)) \/ UNCHANGED <<pc, exitCode>>
  BY DEF ReadInput, ReadFails
<1>3. CASE \E n \in {Usage, Fault} : Exit(p, n)
  BY <1>1, <1>2, <1>3, EndsEarly
<1>4. CASE UNCHANGED <<pc, exitCode>>
  BY <1>2, <1>4, StillHolds
<1> QED BY <1>2, <1>3, <1>4

(* What a sound call returned is delivered, or on its way to the file.     *)
LEMMA DeliverHolds ==
    ASSUME CommandLineInvariant, NEW p \in Procs, NEW outcome,
           SoundResult(invocation[p], outcome), Deliver(p, outcome),
           pc[p] \in {"reading", "resolving"},
           UNCHANGED <<scenario, disk, invocation, checked>>
    PROVE  CommandLineInvariant'
<1>1. ByProcess /\ ProcInv(p) /\ Running(p)
  BY DEF CommandLineInvariant, ProcInv, ParsedInv
<1> DEFINE kept == outcome.artifact # <<>> /\ HasOut(p)
<1>2. /\ returned'[p] = outcome
      /\ \A q \in Procs \ {p} : Apart(q)
      /\ ByProcess'
      /\ IF kept THEN pc'[p] = "opening" /\ printed'[p] = printed[p]
         ELSE /\ pc'[p] = "done" /\ printed'[p] = outcome.artifact
              /\ exitCode'[p] = <<outcome.exit>>
  BY <1>1 DEF Deliver, Exit, ByProcess, Apart, HasOut
<1>3. /\ Running(p)' = Running(p) /\ Command(p)' = Command(p)
      /\ HasOut(p)' = HasOut(p) /\ TargetNode(p)' = TargetNode(p)
      /\ InputsRead(p)' = InputsRead(p) /\ AllClear(p)' = AllClear(p)
      /\ \A x : Clear(p, x)' = Clear(p, x)
  BY SameRun
<1>4. ParsedInv(p)'
  BY <1>1, <1>2, <1>3 DEF ProcInv, ParsedInv
<1>5. CheckedInv(p)'
  BY <1>1, <1>2, <1>3 DEF ProcInv, CheckedInv
<1>6. \A node \in DOMAIN disk' : ~OpenedBy(p, node)'
  BY <1>1 DEF ProcInv, OpenedInv, OpenedBy
<1>7. OpenedInv(p)'
  BY <1>6 DEF OpenedInv
<1>8. printed[p] = <<>>
  BY <1>1 DEF ProcInv, DeliveryInv
<1>9. SoundResult(invocation[p], returned[p])'
  BY <1>2 DEF SoundResult
<1>10. DeliveryInv(p)'
  BY <1>2, <1>8, <1>9 DEF DeliveryInv
<1>11. ASSUME pc'[p] = "done" PROVE Told(p)' /\ (exitCode'[p][1] = 3 => Running(p)')
  <2>1. /\ ~kept /\ printed'[p] = outcome.artifact /\ returned'[p] = outcome
        /\ exitCode'[p][1] = outcome.exit
    BY <1>2, <1>11
  <2>2. outcome.artifact = <<>> => ~Touched(p)'
    BY <1>6, <2>1 DEF Touched
  <2>3. outcome.artifact # <<>> => Delivered(p)'
    BY <1>3, <2>1 DEF Delivered, HasOut
  <2>4. Command(p)' = invocation[p].command /\ invocation'[p].strict = invocation[p].strict
    BY DEF Command
  <2>5. /\ MintedBy(p)' = outcome.artifact[1]
        /\ Command(p) = "score" /\ outcome.artifact # <<>> => Minted(p, "score")'
    BY <1>1, <1>3, <2>1 DEF Minted, MintedBy
  <2>6. Told(p)'
    BY <1>3, <2>1, <2>2, <2>3, <2>4, <2>5 DEF Told, SoundResult, Command
  <2> QED BY <1>1, <1>3, <2>6
<1>12. ProcInv(p)'
  BY <1>4, <1>5, <1>7, <1>10, <1>11 DEF ProcInv
<1> QED BY <1>2, <1>12, StepHolds DEF DiskStep, RunsKept

(* The one call into application/, and what becomes of what it returns.    *)
LEMMA CallHolds ==
    ASSUME CommandLineInvariant, NEW p \in Procs, Call(p)
    PROVE  CommandLineInvariant'
<1>1. /\ ByProcess /\ ProcInv(p) /\ pc[p] = "reading" /\ Running(p)
      /\ UNCHANGED <<scenario, disk, invocation, checked>>
  BY DEF CommandLineInvariant, ProcInv, ParsedInv, Call
<1>2. Command(p) \in Commands /\ invocation[p].strict \in BOOLEAN
  BY <1>1, RunIs DEF WellFormed, Command
<1> DEFINE early == /\ Command(p) = "score" /\ ScoreRefusal(p) = 0
                    /\ ToResolve(ScoreOptions(p)) # <<>>
<1>3. CASE early
  <2>1. pc' = [pc EXCEPT ![p] = "resolving"] /\ UNCHANGED <<returned, printed, exitCode>>
    BY <1>3 DEF Call
  <2>2. /\ pc'[p] = "resolving"
        /\ \A q \in Procs \ {p} : Apart(q)
        /\ ByProcess'
    BY <1>1, <2>1 DEF ByProcess, Apart
  <2>3. /\ Running(p)' = Running(p) /\ Command(p)' = Command(p)
        /\ HasOut(p)' = HasOut(p) /\ TargetNode(p)' = TargetNode(p)
        /\ InputsRead(p)' = InputsRead(p) /\ AllClear(p)' = AllClear(p)
        /\ \A x : Clear(p, x)' = Clear(p, x)
    BY <1>1, SameRun
  <2>4. ParsedInv(p)' /\ CheckedInv(p)'
    BY <1>1, <1>3, <2>2, <2>3 DEF ProcInv, ParsedInv, CheckedInv
  <2>5. OpenedInv(p)'
    BY <1>1, <2>2 DEF ProcInv, OpenedInv, OpenedBy
  <2>6. DeliveryInv(p)'
    BY <1>1, <2>1, <2>2 DEF ProcInv, DeliveryInv
  <2>7. ProcInv(p)'
    BY <2>2, <2>4, <2>5, <2>6 DEF ProcInv
  <2> QED BY <1>1, <2>2, <2>7, StepHolds DEF DiskStep, RunsKept
<1>4. CASE ~early
  <2> DEFINE outcome ==
        CASE Command(p) = "aggregate-strength" -> AggregateResult(p)
          [] Command(p) \in {"compile", "seal", "preflight"} -> OtherResult(p)
          [] Command(p) = "score" ->
               IF ScoreRefusal(p) # 0 THEN Rejected(ScoreRefusal(p)) ELSE ScoreResult(p)
  <2>1. Deliver(p, outcome)
    BY <1>4 DEF Call
  <2>2. ScoreRefusal(p) \in {0, Usage, Fault}
    BY DEF ScoreRefusal
  <2>3. SoundResult(invocation[p], outcome)
    <3>1. CASE Command(p) = "aggregate-strength"
      BY <3>1, AggregateResultIsSound
    <3>2. CASE Command(p) \in {"compile", "seal", "preflight"}
      BY <3>2, OtherResultIsSound
    <3>3. CASE Command(p) = "score"
      <4>1. outcome = IF ScoreRefusal(p) # 0 THEN Rejected(ScoreRefusal(p)) ELSE ScoreResult(p)
        BY <3>3
      <4> HIDE DEF outcome
      <4> QED BY <1>2, <2>2, <3>3, <4>1, ScoreResultIsSound, RejectedIsSound
    <3> QED BY <1>2, <3>1, <3>2, <3>3 DEF Commands
  <2> HIDE DEF outcome
  <2> QED BY <1>1, <2>1, <2>3, DeliverHolds
<1> QED BY <1>3, <1>4

(* One reference below the corpus root is resolved.                        *)
LEMMA ResolveHolds ==
    ASSUME CommandLineInvariant, NEW p \in Procs, ResolveReference(p)
    PROVE  CommandLineInvariant'
<1>1. /\ pc[p] = "resolving" /\ Running(p) /\ Command(p) = "score"
      /\ UNCHANGED <<scenario, disk, invocation, checked>>
  BY DEF CommandLineInvariant, ProcInv, ParsedInv, ResolveReference
<1>2. \/ Deliver(p, Rejected(Fault))
      \/ Deliver(p, ScoreResult(p))
      \/ UNCHANGED <<pc, returned, printed, exitCode>>
  BY DEF ResolveReference
<1>3. invocation[p].strict \in BOOLEAN
  BY <1>1, RunIs DEF WellFormed
<1>4. /\ SoundResult(invocation[p], Rejected(Fault))
      /\ SoundResult(invocation[p], ScoreResult(p))
  BY <1>1, <1>3, RejectedIsSound, ScoreResultIsSound
<1> QED BY <1>1, <1>2, <1>4, DeliverHolds, StillHolds

(* writeArtifact empties the file at --out and no other.                   *)
LEMMA OpenHolds ==
    ASSUME CommandLineInvariant, NEW p \in Procs, Open(p)
    PROVE  CommandLineInvariant'
<1>1. /\ ByProcess /\ ProcInv(p) /\ pc[p] = "opening" /\ Running(p) /\ HasOut(p)
      /\ UNCHANGED <<scenario, invocation, checked, returned, printed, exitCode>>
  BY DEF CommandLineInvariant, ProcInv, ParsedInv, Open
<1>2. Cut(p).by = p
  BY DEF Cut
<1>3. DiskStep(p)
  <2>1. disk' = [disk EXCEPT ![TargetNode(p)] = <<Cut(p)>>]
    BY DEF Open
  <2> QED BY <1>1, <1>2, <2>1 DEF DiskStep
<1>4. TargetNode(p) \in DOMAIN disk
  BY <1>1, RunIs
<1>5. /\ disk'[TargetNode(p)] = <<Cut(p)>>
      /\ disk'[TargetNode(p)] # <<>> /\ disk'[TargetNode(p)][1].by = p
  <2>1. disk'[TargetNode(p)] = <<Cut(p)>>
    BY <1>4 DEF Open
  <2> QED BY <1>2, <2>1
<1>6. /\ pc'[p] = "writing"
      /\ \A q \in Procs \ {p} : Apart(q)
      /\ ByProcess'
  BY <1>1 DEF ByProcess, Apart, Open
<1>7. /\ Running(p)' = Running(p) /\ Command(p)' = Command(p)
      /\ HasOut(p)' = HasOut(p) /\ TargetNode(p)' = TargetNode(p)
      /\ InputsRead(p)' = InputsRead(p) /\ AllClear(p)' = AllClear(p)
      /\ \A x : Clear(p, x)' = Clear(p, x)
  BY <1>1, SameRun
<1>8. ParsedInv(p)' /\ CheckedInv(p)'
  BY <1>1, <1>6, <1>7 DEF ProcInv, ParsedInv, CheckedInv
<1>9. OpenedInv(p)'
  <2> SUFFICES ASSUME NEW node \in DOMAIN disk', OpenedBy(p, node)'
               PROVE  node = TargetNode(p)
    BY <1>1, <1>6, <1>7 DEF OpenedInv, ProcInv, CheckedInv, DeliveryInv
  <2>1. node # TargetNode(p) => node \in DOMAIN disk /\ OpenedBy(p, node)
    BY <1>3, DiskKept, <1>1 DEF OpenedBy
  <2> QED BY <1>1, <2>1 DEF ProcInv, OpenedInv
<1>10. DeliveryInv(p)'
  <2>1. SoundResult(invocation[p], returned[p]) /\ returned[p].artifact # <<>>
    BY <1>1 DEF ProcInv, DeliveryInv
  <2>2. SoundResult(invocation[p], returned[p])'
    BY <1>1, <2>1 DEF SoundResult
  <2>3. printed'[p] = <<>>
    BY <1>1 DEF ProcInv, DeliveryInv
  <2> QED BY <1>1, <1>5, <1>6, <1>7, <2>1, <2>2, <2>3 DEF DeliveryInv
<1>11. ProcInv(p)'
  BY <1>6, <1>8, <1>9, <1>10 DEF ProcInv
<1> QED BY <1>1, <1>3, <1>6, <1>11, StepHolds DEF RunsKept

(* What is written then is whole, unless another process writes there too. *)
LEMMA WriteHolds ==
    ASSUME CommandLineInvariant, NEW p \in Procs, Write(p)
    PROVE  CommandLineInvariant'
<1>1. /\ ByProcess /\ ProcInv(p) /\ pc[p] = "writing" /\ Running(p) /\ HasOut(p)
      /\ Exit(p, returned[p].exit)
      /\ UNCHANGED <<scenario, invocation, checked, returned, printed>>
  BY DEF CommandLineInvariant, ProcInv, ParsedInv, Write
<1>2. TargetNode(p) \in DOMAIN disk
  BY <1>1, RunIs
<1>3. PICK file : /\ disk' = [disk EXCEPT ![TargetNode(p)] = <<file>>]
                  /\ file = Written(p) \/ (file = Cut(p) /\ disk[TargetNode(p)][1].by # p)
  BY DEF Write
<1>4. file.by = p /\ (file.whole \/ Rivalled(p))
  <2>1. Cut(p).by = p /\ Written(p).by = p /\ Written(p).whole
    BY DEF Cut, Written
  <2>2. disk[TargetNode(p)][1].by = p \/ Rivalled(p)
    BY <1>1 DEF ProcInv, DeliveryInv
  <2> QED BY <1>3, <2>1, <2>2
<1>5. DiskStep(p)
  BY <1>1, <1>3, <1>4 DEF DiskStep
<1>6. /\ disk'[TargetNode(p)] = <<file>> /\ disk'[TargetNode(p)] # <<>>
      /\ disk'[TargetNode(p)][1].by = p
      /\ disk'[TargetNode(p)][1].whole = file.whole
  <2>1. disk'[TargetNode(p)] = <<file>>
    BY <1>2, <1>3
  <2> QED BY <1>4, <2>1
<1>7. /\ pc'[p] = "done" /\ exitCode'[p] = <<returned[p].exit>>
      /\ \A q \in Procs \ {p} : Apart(q)
      /\ ByProcess'
  BY <1>1 DEF ByProcess, Apart, Exit
<1>8. /\ Running(p)' = Running(p) /\ Command(p)' = Command(p)
      /\ HasOut(p)' = HasOut(p) /\ TargetNode(p)' = TargetNode(p)
      /\ InputsRead(p)' = InputsRead(p) /\ AllClear(p)' = AllClear(p)
      /\ \A x : Clear(p, x)' = Clear(p, x)
  BY <1>1, SameRun
<1>9. ParsedInv(p)' /\ CheckedInv(p)'
  BY <1>1, <1>7, <1>8 DEF ProcInv, ParsedInv, CheckedInv
<1>10. OpenedInv(p)'
  <2> SUFFICES ASSUME NEW node \in DOMAIN disk', OpenedBy(p, node)'
               PROVE  node = TargetNode(p)
    BY <1>1, <1>7, <1>8 DEF OpenedInv, ProcInv, CheckedInv, DeliveryInv
  <2>1. node # TargetNode(p) => node \in DOMAIN disk /\ OpenedBy(p, node)
    BY <1>5, DiskKept, <1>1 DEF OpenedBy
  <2> QED BY <1>1, <2>1 DEF ProcInv, OpenedInv
<1>11. /\ printed'[p] = <<>> /\ returned'[p] = returned[p]
       /\ returned[p].artifact # <<>> /\ SoundResult(invocation[p], returned[p])
  BY <1>1 DEF ProcInv, DeliveryInv
<1>12. DeliveryInv(p)'
  BY <1>7, <1>11 DEF DeliveryInv
<1>13. Delivered(p)'
  <2>1. Rivalled(p) => Rivalled(p)'
    BY <1>1, RivalKept DEF RunsKept
  <2> QED BY <1>1, <1>4, <1>6, <1>8, <1>11, <2>1 DEF Delivered, OpenedBy, HasOut
<1>14. Told(p)' /\ (exitCode'[p][1] = 3 => Running(p)')
  <2>1. exitCode'[p][1] = returned[p].exit
    BY <1>7
  <2>2. MintedBy(p)' = returned[p].artifact[1]
    BY <1>11 DEF MintedBy
  <2>3. Command(p) = "score" => Minted(p, "score")'
    BY <1>1, <1>8, <1>11 DEF Minted
  <2>4. invocation'[p].strict = invocation[p].strict /\ Command(p) = invocation[p].command
    BY <1>1 DEF Command
  <2>5. Told(p)'
    BY <1>8, <1>11, <1>13, <2>1, <2>2, <2>3, <2>4 DEF Told, SoundResult
  <2> QED BY <1>1, <1>8, <2>5
<1>15. ProcInv(p)'
  BY <1>7, <1>9, <1>10, <1>12, <1>14 DEF ProcInv
<1> QED BY <1>1, <1>5, <1>7, <1>15, StepHolds DEF RunsKept

(* A process is killed between two steps.                                  *)
LEMMA KillHolds ==
    ASSUME CommandLineInvariant, NEW p \in Procs, Kill(p)
    PROVE  CommandLineInvariant'
<1>1. /\ ByProcess /\ ProcInv(p) /\ pc[p] \notin {"done", "killed"}
      /\ UNCHANGED <<scenario, disk, invocation, checked, returned, printed, exitCode>>
  BY DEF CommandLineInvariant, Kill
<1>2. /\ pc'[p] = "killed"
      /\ \A q \in Procs \ {p} : Apart(q)
      /\ ByProcess'
  BY <1>1 DEF ByProcess, Apart, Kill
<1>3. /\ Running(p)' = Running(p) /\ HasOut(p)' = HasOut(p)
      /\ TargetNode(p)' = TargetNode(p) /\ AllClear(p)' = AllClear(p)
  BY <1>1, SameRun
<1>4. ParsedInv(p)' /\ CheckedInv(p)' /\ DeliveryInv(p)'
  BY <1>1, <1>2 DEF ProcInv, ParsedInv, CheckedInv, DeliveryInv
<1>5. OpenedInv(p)'
  BY <1>1, <1>2, <1>3 DEF ProcInv, OpenedInv, OpenedBy
<1>6. ProcInv(p)'
  BY <1>2, <1>4, <1>5 DEF ProcInv
<1> QED BY <1>1, <1>2, <1>6, StepHolds DEF DiskStep, RunsKept

(* The file cannot be opened, or not be written.                           *)
LEMMA FailHolds ==
    ASSUME CommandLineInvariant, NEW p \in Procs, OpenFails(p) \/ WriteFails(p)
    PROVE  CommandLineInvariant'
<1>1. /\ Running(p) /\ pc[p] \in {"opening", "writing"}
      /\ UNCHANGED <<scenario, disk, invocation, checked, returned, printed>>
  BY DEF CommandLineInvariant, ProcInv, ParsedInv, OpenFails, WriteFails
<1>2. PICK n \in {Usage, Fault} : Exit(p, n) /\ (n = Fault \/ pc[p] = "opening")
  BY DEF OpenFails, WriteFails
<1> QED BY <1>1, <1>2, EndsEarly

(* When the processes start.                                               *)
LEMMA InitHolds ==
    ASSUME Init
    PROVE  CommandLineInvariant
<1>1. ByProcess
  BY DEF Init, ByProcess
<1>2. DiskInv
  BY DEF Init, DiskInv
<1>3. ASSUME NEW p \in Procs PROVE ProcInv(p)
  <2>1. /\ pc[p] = "parsing" /\ invocation[p] = UsageError /\ checked[p] = 0
        /\ printed[p] = <<>>
    BY DEF Init
  <2>2. ParsedInv(p) /\ CheckedInv(p) /\ DeliveryInv(p)
    BY <2>1 DEF ParsedInv, CheckedInv, DeliveryInv
  <2>3. \A node \in DOMAIN disk : ~OpenedBy(p, node)
    BY ScenariosAssumption DEF Init, OpenedBy
  <2> QED BY <2>1, <2>2, <2>3 DEF ProcInv, OpenedInv
<1> QED BY <1>1, <1>2, <1>3 DEF CommandLineInvariant, Init

(* Whatever the processes are and however they interleave, fail and are    *)
(* killed: what each has parsed, held against its --out, opened and        *)
(* delivered fit together (cli/run.ts).                                    *)
THEOREM CommandLineHolds == Spec => []CommandLineInvariant
<1>1. Init => CommandLineInvariant
  BY InitHolds
<1>2. CommandLineInvariant /\ [Next]_vars => CommandLineInvariant'
  <2> SUFFICES ASSUME CommandLineInvariant, [Next]_vars PROVE CommandLineInvariant'
    OBVIOUS
  <2>1. CASE Next
    <3>1. PICK p \in Procs :
             \/ Parse(p) \/ CheckInput(p)
             \/ (\E i \in Readable(p) : ReadInput(p, i)) \/ ReadFails(p)
             \/ Call(p) \/ ResolveReference(p) \/ Open(p) \/ OpenFails(p)
             \/ Write(p) \/ WriteFails(p) \/ Kill(p)
      BY <2>1 DEF Next
    <3> QED BY <3>1, ParseHolds, CheckInputHolds, ReadHolds, CallHolds, ResolveHolds,
               OpenHolds, FailHolds, WriteHolds, KillHolds
  <2>2. CASE UNCHANGED vars
    BY <2>2, StillHolds DEF vars
  <2> QED BY <2>1, <2>2
<1> QED BY <1>1, <1>2, PTL DEF Spec

(* No process changes a file that was there when they started and that it  *)
(* names as an input, however the path is spelled (run.ts, collides).      *)
THEOREM InputsKeptHolds == Spec => []InputsKept
<1>1. CommandLineInvariant => InputsKept
  <2> SUFFICES ASSUME CommandLineInvariant, NEW p \in Procs, NEW input \in ToSet(InputsRead(p)),
                      input.path # Stdin,
                      Scenarios[scenario].disk[Node[Resolve[input.path]]] # <<>>,
                      OpenedBy(p, Node[Resolve[input.path]])
               PROVE  FALSE
    BY DEF InputsKept
  <2> DEFINE node == Node[Resolve[input.path]]
  <2>1. ProcInv(p)
    BY DEF CommandLineInvariant
  <2>2. Running(p)
    <3>1. InputsRead(p) # <<>>
      BY DEF ToSet
    <3> QED BY <3>1 DEF InputsRead, Running
  <2>3. node \in DOMAIN disk
    <3>1. input \in ToSet(Inputs(invocation[p]))
      BY <2>2 DEF InputsRead, Running
    <3>2. invocation[p] = ParseArguments(Scenarios[scenario].argv[p])
      BY <2>1, <2>2 DEF ProcInv, ParsedInv, Running, UsageError
    <3>3. node \in NamedNodes(invocation[p])
      BY <3>1 DEF NamedNodes
    <3>4. NamedNodes(invocation[p]) \subseteq DOMAIN Scenarios[scenario].disk
      BY <2>2, <3>2, ScenariosAssumption DEF CommandLineInvariant, Running
    <3> QED BY <3>3, <3>4 DEF CommandLineInvariant, DiskInv
  <2>4. node = TargetNode(p) /\ AllClear(p)
    BY <2>1, <2>3 DEF ProcInv, OpenedInv
  <2>5. Clear(p, input)
    BY <2>4 DEF AllClear, ToSet
  <2> QED BY <2>4, <2>5 DEF Clear
<1> QED BY <1>1, CommandLineHolds, PTL

(* The exit code tells what was written (main.ts, exit-codes.ts): 0, 1 and *)
(* 2 come with a whole artifact and 1 and 2 with the verdict that they     *)
(* stand for, 3 with none but a failed pre-flight's, 4 and 64 with none.   *)
THEOREM ExitTellsHolds == Spec => []ExitTells
<1>1. CommandLineInvariant => ExitTells
  <2> SUFFICES ASSUME CommandLineInvariant, NEW p \in Procs, pc[p] = "done" PROVE Told(p)
    BY DEF ExitTells, Told
  <2> QED BY DEF CommandLineInvariant, ProcInv
<1> QED BY <1>1, CommandLineHolds, PTL

-----------------------------------------------------------------------------
(* What the assumptions on a single stage say is of no use from here on.   *)
HIDE PolicyAssumption
HIDE OraclesAssumption

(* A stable sort, by which score.ts takes the records by trial and         *)
(* aggregate-strength.ts the artifacts by probe.                           *)

(* What comes before a place in such an order.                             *)
Before(S, key, i) == {j \in S : key[j] < key[i] \/ (key[j] = key[i] /\ j < i)}

(* Of two places the one comes before the other, and then so does whatever *)
(* comes before that one.                                                  *)
LEMMA BeforeIsOrder ==
    ASSUME NEW S \in SUBSET Nat, NEW key, \A i \in S : key[i] \in Int
    PROVE  /\ \A i \in S : i \notin Before(S, key, i) /\ Before(S, key, i) \subseteq S
           /\ \A i, j \in S : i # j => i \in Before(S, key, j) \/ j \in Before(S, key, i)
           /\ \A i, j \in S : i \in Before(S, key, j) =>
                 Before(S, key, i) \subseteq Before(S, key, j)
<1>1. S \subseteq Int
  OBVIOUS
<1>2. \A i \in S : i \notin Before(S, key, i) /\ Before(S, key, i) \subseteq S
  BY <1>1 DEF Before
<1>3. ASSUME NEW i \in S, NEW j \in S, i # j
      PROVE  i \in Before(S, key, j) \/ j \in Before(S, key, i)
  <2>1. i \in Int /\ j \in Int /\ key[i] \in Int /\ key[j] \in Int
    BY <1>1
  <2> QED BY <1>3, <2>1 DEF Before
<1>4. ASSUME NEW i \in S, NEW j \in S, i \in Before(S, key, j), NEW k \in Before(S, key, i)
      PROVE  k \in Before(S, key, j)
  <2>1. k \in S /\ i \in Int /\ j \in Int /\ k \in Int
    BY <1>1 DEF Before
  <2>2. key[i] \in Int /\ key[j] \in Int /\ key[k] \in Int
    BY <2>1
  <2>3. /\ key[k] < key[i] \/ (key[k] = key[i] /\ k < i)
        /\ key[i] < key[j] \/ (key[i] = key[j] /\ i < j)
    BY <1>4 DEF Before
  <2>4. key[k] < key[j] \/ (key[k] = key[j] /\ k < j)
    BY <2>1, <2>2, <2>3
  <2> QED BY <2>1, <2>4 DEF Before
<1> QED BY <1>2, <1>3, <1>4

(* The order holds every place once, and by its key.                       *)
LEMMA InOrderHolds ==
    ASSUME NEW S \in SUBSET Nat, IsFiniteSet(S), NEW key, \A i \in S : key[i] \in Int
    PROVE  LET at == InOrder(S, key)
               n == Cardinality(S)
           IN /\ n \in Nat /\ DOMAIN at = 1 .. n
              /\ \A k \in 1 .. n : at[k] \in S /\ Cardinality(Before(S, key, at[k])) = k - 1
              /\ \A i \in S : Cardinality(Before(S, key, i)) + 1 \in 1 .. n
                              /\ at[Cardinality(Before(S, key, i)) + 1] = i
<1> DEFINE at == InOrder(S, key)
           n == Cardinality(S)
           rank == [i \in S |-> Cardinality(Before(S, key, i))]
<1>1. n \in Nat
  BY FS_CardinalityType
<1>2. ASSUME NEW i \in S
      PROVE  IsFiniteSet(Before(S, key, i)) /\ rank[i] \in 0 .. n - 1
  <2>1. Before(S, key, i) \in SUBSET S /\ Before(S, key, i) # S
    BY BeforeIsOrder
  <2> HIDE DEF rank
  <2>2. /\ IsFiniteSet(Before(S, key, i)) /\ Cardinality(Before(S, key, i)) <= n
        /\ Cardinality(Before(S, key, i)) # n
    BY <2>1, FS_Subset
  <2>3. Cardinality(Before(S, key, i)) \in Nat
    BY <2>2, FS_CardinalityType
  <2>4. rank[i] = Cardinality(Before(S, key, i))
    BY DEF rank
  <2> QED BY <1>1, <2>2, <2>3, <2>4
<1>3. ASSUME NEW i \in S, NEW j \in S, i \in Before(S, key, j) PROVE rank[i] # rank[j]
  <2>1. /\ Before(S, key, i) \in SUBSET Before(S, key, j)
        /\ i \notin Before(S, key, i)
    BY <1>3, BeforeIsOrder
  <2>2. Cardinality(Before(S, key, j)) # Cardinality(Before(S, key, i))
    BY <1>2, <1>3, <2>1, FS_Subset
  <2> QED BY <2>2
<1>4. \A i, j \in S : rank[i] = rank[j] => i = j
  BY <1>3, BeforeIsOrder
<1>5. rank \in Injection(S, 0 .. n - 1)
  <2>1. rank \in [S -> 0 .. n - 1]
    <3>1. rank = [i \in S |-> rank[i]]
      OBVIOUS
    <3> HIDE DEF rank
    <3> QED BY <1>2, <3>1
  <2> HIDE DEF rank
  <2> QED BY <1>4, <2>1 DEF Injection, IsInjective
<1>6. \A k \in 0 .. n - 1 : \E i \in S : rank[i] = k
  <2>1. IsFiniteSet(0 .. n - 1) /\ Cardinality(0 .. n - 1) = n
    <3>1. 0 \in Int /\ n - 1 \in Int
      BY <1>1
    <3>2. /\ IsFiniteSet(0 .. n - 1)
          /\ Cardinality(0 .. n - 1) = IF 0 > n - 1 THEN 0 ELSE (n - 1) - 0 + 1
      BY <3>1, FS_Interval
    <3> QED BY <1>1, <3>2
  <2> HIDE DEF rank
  <2>2. rank \in Surjection(S, 0 .. n - 1)
    BY <1>5, <2>1, FS_Injection
  <2> QED BY <2>2 DEF Surjection
<1>7. at = [k \in 1 .. n |-> CHOOSE i \in S : Cardinality(Before(S, key, i)) = k - 1]
  BY DEF InOrder, Before
<1>8. ASSUME NEW k \in 1 .. n
      PROVE  at[k] \in S /\ Cardinality(Before(S, key, at[k])) = k - 1
  <2>1. k - 1 \in 0 .. n - 1
    BY <1>1
  <2>2. \E i \in S : Cardinality(Before(S, key, i)) = k - 1
    BY <1>6, <2>1
  <2>3. at[k] = CHOOSE i \in S : Cardinality(Before(S, key, i)) = k - 1
    BY <1>7
  <2> HIDE DEF at, rank
  <2> QED BY <2>2, <2>3
<1>9. \A k \in 1 .. n : at[k] \in S /\ Cardinality(Before(S, key, at[k])) = k - 1
  BY <1>8
<1>10. \A i \in S : rank[i] = Cardinality(Before(S, key, i))
  OBVIOUS
<1>11. ASSUME NEW i \in S
      PROVE  rank[i] + 1 \in 1 .. n /\ at[rank[i] + 1] = i
  <2>1. rank[i] \in 0 .. n - 1
    BY <1>2
  <2> HIDE DEF rank, at
  <2>2. rank[i] + 1 \in 1 .. n /\ rank[i] + 1 - 1 = rank[i]
    BY <1>1, <2>1
  <2>3. PICK k \in 1 .. n : k = rank[i] + 1 /\ k - 1 = rank[i]
    BY <1>1, <2>1, <2>2
  <2>4. at[k] \in S /\ Cardinality(Before(S, key, at[k])) = k - 1
    BY <1>9
  <2>5. rank[at[k]] = rank[i]
    BY <1>10, <2>3, <2>4
  <2>6. at[k] = i
    BY <1>4, <2>4, <2>5
  <2> QED BY <2>3, <2>6
<1>12. DOMAIN at = 1 .. n
  BY <1>7
<1> HIDE DEF rank
<1>13. \A i \in S : Cardinality(Before(S, key, i)) + 1 \in 1 .. n
                     /\ at[Cardinality(Before(S, key, i)) + 1] = i
  BY <1>10, <1>11
<1>14. /\ n \in Nat /\ DOMAIN at = 1 .. n
       /\ \A k \in 1 .. n : at[k] \in S /\ Cardinality(Before(S, key, at[k])) = k - 1
       /\ \A i \in S : Cardinality(Before(S, key, i)) + 1 \in 1 .. n
                       /\ at[Cardinality(Before(S, key, i)) + 1] = i
  <2> HIDE DEF at, n
  <2> QED BY <1>1, <1>9, <1>12, <1>13
<1> QED BY <1>14

-----------------------------------------------------------------------------
(* The faults of the parses, in the order in which the code meets them.    *)

(* A function of the places 1 to n is a list of that length.               *)
LEMMA PlacesAreList ==
    ASSUME NEW n \in Nat, NEW f, f = [i \in 1 .. n |-> f[i]]
    PROVE  IsList(f) /\ Len(f) = n /\ DOMAIN f = 1 .. n
<1>1. DOMAIN f = 1 .. n
  OBVIOUS
<1>2. f \in [1 .. n -> ToSet(f)]
  BY <1>1 DEF ToSet
<1>3. f \in Seq(ToSet(f))
  BY <1>2, SeqDef
<1>4. Len(f) \in Nat /\ DOMAIN f = 1 .. Len(f)
  BY <1>3, LenProperties
<1>5. Len(f) = n
  BY <1>1, <1>4
<1> QED BY <1>1, <1>3, <1>5 DEF IsList

(* The first fault is one that is thrown, with none before it.             *)
LEMMA FirstFaultIs ==
    ASSUME NEW faults, DOMAIN faults \in SUBSET Nat
    PROVE  \/ FirstFault(faults) = "none" /\ \A i \in DOMAIN faults : faults[i] = "none"
           \/ \E i \in DOMAIN faults : /\ FirstFault(faults) = faults[i] /\ faults[i] # "none"
                                       /\ \A j \in DOMAIN faults : j < i => faults[j] = "none"
<1> DEFINE thrown == {i \in DOMAIN faults : faults[i] # "none"}
<1>1. CASE thrown = {}
  BY <1>1 DEF FirstFault
<1>2. CASE thrown # {}
  <2>1. thrown \in SUBSET Nat
    OBVIOUS
  <2> HIDE DEF thrown
  <2>2. PICK i \in thrown : \A j \in thrown : i <= j
    BY <1>2, <2>1, LeastElement
  <2>3. Min(thrown) \in thrown /\ \A j \in thrown : Min(thrown) <= j
    BY <2>2 DEF Min
  <2>4. FirstFault(faults) = faults[Min(thrown)]
    BY <1>2 DEF FirstFault, thrown
  <2>5. \A j \in DOMAIN faults : j < Min(thrown) => j \notin thrown
    BY <2>1, <2>3 DEF thrown
  <2> QED BY <2>3, <2>4, <2>5 DEF thrown
<1> QED BY <1>1, <1>2

(* Every stamp is read before anything is parsed, whichever comes first.   *)
LEMMA ArrayFaultIs ==
    ASSUME NEW artifacts, IsList(artifacts)
    PROVE  ArrayFault(artifacts) =
              IF \E i \in DOMAIN artifacts : artifacts[i].stamp = "other"
              THEN "schema-version-mismatch"
              ELSE IF \E i \in DOMAIN artifacts : ~artifacts[i].fits
              THEN "schema-parse-failure"
              ELSE "none"
<1> DEFINE n == Len(artifacts)
           stamps == [i \in DOMAIN artifacts |-> VersionFault(artifacts[i])]
           parses == [i \in DOMAIN artifacts |-> ParseFault(artifacts[i])]
           faults == stamps \o parses
<1>1. n \in Nat /\ DOMAIN artifacts = 1 .. n
  BY ListIs
<1>2. stamps = [i \in 1 .. n |-> stamps[i]] /\ parses = [i \in 1 .. n |-> parses[i]]
  BY <1>1
<1>3. /\ \A i \in 1 .. n : stamps[i] = IF artifacts[i].stamp = "other"
                                       THEN "schema-version-mismatch" ELSE "none"
      /\ \A i \in 1 .. n : parses[i] = IF artifacts[i].fits THEN "none"
                                       ELSE "schema-parse-failure"
  BY <1>1 DEF VersionFault, ParseFault
<1> HIDE DEF stamps, parses, n
<1>4. IsList(stamps) /\ IsList(parses) /\ Len(stamps) = n /\ Len(parses) = n
  BY <1>1, <1>2, PlacesAreList
<1>5. /\ IsList(faults) /\ Len(faults) = n + n
      /\ \A i \in 1 .. n : faults[i] = stamps[i] /\ faults[n + i] = parses[i]
      /\ \A i \in 1 .. n + n : i \in 1 .. n \/ (i - n \in 1 .. n /\ faults[i] = parses[i - n])
  BY <1>4, ListJoined
<1>6. DOMAIN faults = 1 .. n + n /\ DOMAIN faults \in SUBSET Nat
  BY <1>1, <1>5, ListIs
<1>7. ArrayFault(artifacts) = FirstFault(faults)
  BY DEF ArrayFault, stamps, parses
<1> HIDE DEF faults
<1>8. CASE \E i \in 1 .. n : artifacts[i].stamp = "other"
  <2>1. PICK k \in 1 .. n : faults[k] = "schema-version-mismatch"
    BY <1>3, <1>5, <1>8
  <2>2. k \in DOMAIN faults /\ faults[k] # "none"
    BY <1>1, <1>6, <2>1
  <2>3. PICK i \in DOMAIN faults :
           /\ FirstFault(faults) = faults[i] /\ faults[i] # "none"
           /\ \A j \in DOMAIN faults : j < i => faults[j] = "none"
    BY <1>6, <2>2, FirstFaultIs
  <2>4. ~(k < i)
    BY <2>2, <2>3
  <2>5. i \in 1 .. n
    BY <1>1, <1>6, <2>4
  <2>6. faults[i] = "schema-version-mismatch"
    BY <1>3, <1>5, <2>3, <2>5
  <2> QED BY <1>1, <1>7, <1>8, <2>3, <2>6
<1>9. CASE ~ \E i \in 1 .. n : artifacts[i].stamp = "other"
  <2>1. \A i \in DOMAIN faults :
           \/ faults[i] = "none"
           \/ faults[i] = "schema-parse-failure" /\ \E j \in 1 .. n : ~artifacts[j].fits
    BY <1>3, <1>5, <1>6, <1>9
  <2>2. \A j \in 1 .. n : ~artifacts[j].fits =>
           n + j \in DOMAIN faults /\ faults[n + j] # "none"
    BY <1>1, <1>3, <1>5, <1>6
  <2>3. CASE FirstFault(faults) = "none" /\ \A i \in DOMAIN faults : faults[i] = "none"
    BY <1>1, <1>7, <1>9, <2>2, <2>3
  <2>4. CASE \E i \in DOMAIN faults : FirstFault(faults) = faults[i] /\ faults[i] # "none"
    BY <1>1, <1>7, <1>9, <2>1, <2>4
  <2> QED BY <1>6, <2>3, <2>4, FirstFaultIs
<1> QED BY <1>8, <1>9

(* What arrives without a fault fits.                                      *)
LEMMA ArrivedFits ==
    ASSUME NEW deliveries, IsList(deliveries), ArrivalFault(deliveries) = "none"
    PROVE  \A i \in DOMAIN deliveries : deliveries[i].arrives.fits
<1> DEFINE arrived == [i \in DOMAIN deliveries |-> deliveries[i].arrives]
<1>1. Len(deliveries) \in Nat /\ DOMAIN deliveries = 1 .. Len(deliveries)
  BY ListIs
<1>2. arrived = [i \in 1 .. Len(deliveries) |-> arrived[i]]
  BY <1>1
<1>3. \A i \in DOMAIN deliveries : arrived[i] = deliveries[i].arrives
  OBVIOUS
<1>4. ArrayFault(arrived) = "none"
  BY DEF ArrivalFault
<1> HIDE DEF arrived
<1>5. IsList(arrived) /\ DOMAIN arrived = DOMAIN deliveries
  BY <1>1, <1>2, PlacesAreList
<1>6. \A i \in DOMAIN arrived : arrived[i].fits
  BY <1>4, <1>5, ArrayFaultIs
<1> QED BY <1>3, <1>5, <1>6

-----------------------------------------------------------------------------
(* What a command reads under its flags, and that it fits.                 *)

(* A flag that a command requires was given.                               *)
LEMMA RequiredGiven ==
    ASSUME NEW argv, ParseArguments(argv).kind = "run", IsList(argv),
           NEW flag \in ToSet(InputKeys(ParseArguments(argv).command)) \ OptionalInputKeys
    PROVE  \E input \in ToSet(Inputs(ParseArguments(argv))) : input.flag = flag
<1> DEFINE run == ParseArguments(argv)
           command == argv[1].text
           tokens == Tail(argv)
           parsed == Parsed(command, tokens)
           given == parsed.given
<1>1. command \in Commands /\ run = ParseCommand(command, tokens) /\ argv # <<>>
  BY DEF ParseArguments, UsageError, Commands
<1>2. Len(tokens) \in Nat
  <2>1. argv \in Seq(ToSet(argv)) /\ argv # <<>>
    BY <1>1 DEF IsList
  <2> HIDE DEF tokens
  <2>2. tokens \in Seq(ToSet(argv))
    BY <2>1, HeadTailProperties DEF tokens
  <2> QED BY <2>2, LenProperties
<1>3. WellParsed(parsed)
  BY <1>1, <1>2, ParsedWell
<1>4. WellFormed(run)
  BY RunWellFormed
<1> HIDE DEF run, command, tokens, parsed
<1>5. parsed.ended = <<>>
  BY <1>1, <1>3 DEF ParseCommand, WellParsed, parsed, run
<1>6. Missing(command, given) = {}
  BY <1>1, <1>5 DEF ParseCommand, parsed, run, UsageError
<1>7. run.command = command /\ run.inputs = InputsOf(command, given)
  BY <1>1, <1>5 DEF ParseCommand, parsed, run, UsageError
<1>8. flag \in ToSet(InputKeys(command)) /\ flag \in RequiredFlags(command)
  BY <1>7 DEF RequiredFlags, run
<1>9. given[flag] # <<>>
  BY <1>6, <1>8 DEF Missing
<1>10. /\ flag \in DOMAIN run.inputs
       /\ run.inputs[flag] = IF flag \in RepeatableInputKeys THEN given[flag]
                             ELSE <<Last(given[flag])>>
  BY <1>7, <1>8, <1>9 DEF InputsOf
<1>11. run.inputs[flag] # <<>>
  BY <1>9, <1>10
<1>12. flag \in ToSet(InputKeys(run.command))
  BY <1>7, <1>8
<1> QED BY <1>4, <1>10, <1>11, <1>12, InputsAreListed DEF run

(* The files under a flag are those read at its places, in their order.    *)
LEMMA ReadIs ==
    ASSUME NEW p, IsList(InputsRead(p)), Pending(p) = {}, NEW flag
    PROVE  LET places == {i \in DOMAIN InputsRead(p) : InputsRead(p)[i].flag = flag}
               files == Read(p, flag)
           IN /\ IsList(files)
              /\ \A k \in DOMAIN files : \E i \in places : i \in DOMAIN got[p] /\ files[k] = got[p][i]
              /\ places # {} => files # <<>> /\ 1 \in DOMAIN files
<1> DEFINE places == {i \in DOMAIN InputsRead(p) : InputsRead(p)[i].flag = flag}
           n == Cardinality(places)
           at == InOrder(places, [i \in places |-> i])
           files == Read(p, flag)
<1>1. DOMAIN InputsRead(p) = 1 .. Len(InputsRead(p)) /\ Len(InputsRead(p)) \in Nat
  BY ListIs
<1>2. places \in SUBSET Nat /\ IsFiniteSet(places)
  <2>1. \A i \in places : i \in Nat /\ i <= Len(InputsRead(p))
    BY <1>1
  <2> HIDE DEF places
  <2> QED BY <1>1, <2>1, FS_BoundedSetOfNaturals
<1>3. DOMAIN InputsRead(p) \subseteq DOMAIN got[p]
  BY DEF Pending
<1>4. n \in Nat /\ DOMAIN at = 1 .. n /\ \A k \in 1 .. n : at[k] \in places
  <2> DEFINE key == [i \in places |-> i]
  <2>1. \A i \in places : key[i] \in Int
    BY <1>2
  <2> HIDE DEF places, key
  <2> QED BY <1>2, <2>1, InOrderHolds DEF key
<1>5. files = [k \in DOMAIN at |-> got[p][at[k]]]
  BY DEF Read
<1>6. places # {} => n # 0
  <2> HIDE DEF places
  <2> QED BY <1>2, FS_EmptySet
<1> HIDE DEF places, at, n
<1>7. files = [k \in 1 .. n |-> files[k]]
  BY <1>4, <1>5
<1>8. \A k \in 1 .. n : files[k] = got[p][at[k]]
  BY <1>4, <1>5
<1> HIDE DEF files
<1>9. IsList(files) /\ Len(files) = n /\ DOMAIN files = 1 .. n
  BY <1>4, <1>7, PlacesAreList
<1>10. \A k \in DOMAIN files : \E i \in places : i \in DOMAIN got[p] /\ files[k] = got[p][i]
  <2>1. places \subseteq DOMAIN got[p]
    BY <1>3 DEF places
  <2> QED BY <1>4, <1>8, <1>9, <2>1
<1>11. places # {} => files # <<>> /\ 1 \in DOMAIN files
  <2> SUFFICES ASSUME places # {} PROVE files # <<>> /\ 1 \in DOMAIN files
    OBVIOUS
  <2>1. 1 \in DOMAIN files
    BY <1>4, <1>6, <1>9
  <2>2. Len(<<>>) = 0 /\ Len(files) # 0
    BY <1>4, <1>6, <1>9
  <2> QED BY <2>1, <2>2
<1> QED BY <1>9, <1>10, <1>11 DEF places, files

-----------------------------------------------------------------------------
(* What one call of score.ts comes to, step by step.                       *)

EachOf(o) == [i \in DOMAIN o.records |-> Resolutions(o, Trials(o)[i])]

ResolvedOf(o) == ToSet(FlattenSeq(EachOf(o)))

VoteLists(o) == [i \in DOMAIN EachOf(o) |-> VoteOf(o, EachOf(o)[i])]

VotesOf(o) == FlattenSeq(VoteLists(o))

ReducedOf(o) == ReducedProbe(o, VotesOf(o))

AssessedOf(o) == AssessmentOf(o, ResolvedOf(o), ReducedOf(o))

RungReached(o) == Rung(AssessedOf(o), Trials(o)[1].mode)

(* The probe scored, as emit admits it to a strength vector.               *)
ProbeScored(o) ==
    [id |-> o.probe.value.id, class |-> o.probe.value.class, expectedClean |-> o.probe.value.clean]

Admitted(o) == IF QualifiesIn(o) THEN {ProbeScored(o)} ELSE {}

(* The call, and what it judges.                                           *)
LEMMA ScoredIs ==
    ASSUME NEW o
    PROVE  /\ Scored(o) = Judged(o, ResolvedOf(o), ReducedOf(o), AssessedOf(o))
           /\ Scored(o).artifact = Evidenced(o, ResolvedOf(o), ReducedOf(o), RungReached(o))
           /\ Scored(o).exits = [strict \in BOOLEAN |->
                                    ExitCode(AssessedOf(o), Trials(o)[1].mode, strict)]
<1>1. Scored(o) = Reached(o, EachOf(o))
  BY DEF Scored, EachOf
<1>2. Scored(o) = Concluded(o, ResolvedOf(o), ReducedOf(o))
  BY <1>1 DEF Reached, ResolvedOf, ReducedOf, VotesOf, VoteLists
<1>3. Scored(o) = Judged(o, ResolvedOf(o), ReducedOf(o), AssessedOf(o))
  BY <1>2 DEF Concluded, AssessedOf
<1> QED BY <1>3 DEF Judged, RungReached

(* The one probe's reduction: the policy's part of it and the votes'.      *)
LEMMA ReducedIs ==
    ASSUME NEW o, NEW ballots
    PROVE  LET r == ReducedProbe(o, ballots)
               again == ReduceVotes(ballots, o.policy.value.threshold)
           IN /\ r.probe = o.probe.value.id /\ r.severity = ProbeSeverity(o)
              /\ r.threshold = o.policy.value.threshold /\ r.votes = ballots
              /\ r.exercised = again.exercised /\ r.caught = again.caught
              /\ r.exercised \in BOOLEAN /\ r.caught \in BOOLEAN
              /\ r.caught => r.exercised
              /\ r.invalidated = again.invalidated
<1> DEFINE again == ReduceVotes(ballots, o.policy.value.threshold)
<1>1. /\ again.exercised \in BOOLEAN /\ again.caught \in BOOLEAN
      /\ again.caught => again.exercised
  BY DEF ReduceVotes, ReduceTrialSet, Majority
<1> HIDE DEF again
<1> QED BY <1>1 DEF ReducedProbe, again

(* What an artifact holds that was minted at all.                          *)
LEMMA EvidenceIs ==
    ASSUME NEW o, Scored(o).artifact # <<>>
    PROVE  LET e == Scored(o).artifact[1]
               policy == o.policy.value
           IN /\ RungReached(o) # "invalid"
              /\ e.run = Trials(o)[1].run /\ e.probe = o.probe.value.id
              /\ e.excluded = {o.probe.value.id} \ {p.id : p \in Admitted(o)}
              /\ e.version = e.inputs /\ e.inputs.policy = policy
              /\ e.key = ComparabilityKey(policy, {p.id : p \in Admitted(o)})
              /\ e.trials = [minimum |-> policy.minimum, completed |-> Len(Trials(o)),
                             attempts |-> [i \in DOMAIN Trials(o) |-> Trials(o)[i].trial],
                             invalidated |-> ReducedOf(o).invalidated]
              /\ e.outcomes = {[trial |-> r.trial, oracle |-> r.oracle,
                                probe |-> o.probe.value.id, state |-> r.state,
                                severity |-> ProbeSeverity(o)] : r \in ResolvedOf(o)}
              /\ e.reduced = <<ReducedOf(o)>>
              /\ e.vector = BuildStrengthVector(Admitted(o),
                                [p \in {o.probe.value.id} |-> ReducedOf(o)])
              /\ e.comparable = IsComparable(e.trials, e.outcomes)
              /\ Scored(o).artifact = <<e>>
<1> DEFINE policy == o.policy.value
           reduced == ReducedOf(o)
           rung == RungReached(o)
           trials == [minimum |-> policy.minimum, completed |-> Len(Trials(o)),
                      attempts |-> [i \in DOMAIN Trials(o) |-> Trials(o)[i].trial],
                      invalidated |-> reduced.invalidated]
           graded == {[trial |-> r.trial, oracle |-> r.oracle,
                       probe |-> o.probe.value.id, state |-> r.state,
                       severity |-> ProbeSeverity(o)] : r \in ResolvedOf(o)}
           scored == [run |-> Trials(o)[1].run, mode |-> Trials(o)[1].mode,
                      schema |-> o.contract.value.schema, policy |-> policy,
                      probe |-> ProbeScored(o), qualified |-> QualifiesIn(o),
                      trials |-> trials, outcomes |-> graded,
                      reduced |-> reduced, verdict |-> rung, exit |-> LadderExit[rung]]
           e == Emit(scored, o.corpus, o.preflight.value.fixture, Trials(o)[1].configuration)
<1>1. rung # "invalid" /\ Scored(o).artifact = <<e>>
  <2>1. Scored(o).artifact = Evidenced(o, ResolvedOf(o), reduced, rung)
    BY ScoredIs
  <2>2. rung # "invalid"
    BY <2>1 DEF Evidenced
  <2> HIDE DEF rung, reduced
  <2>3. Evidenced(o, ResolvedOf(o), reduced, rung) = <<e>>
    BY <2>2 DEF Evidenced, ProbeScored
  <2> QED BY <2>1, <2>2, <2>3
<1> HIDE DEF rung, reduced, trials, graded
<1>2. /\ scored.run = Trials(o)[1].run /\ scored.policy = policy /\ scored.trials = trials
      /\ scored.outcomes = graded /\ scored.reduced = reduced
      /\ scored.probe = ProbeScored(o) /\ scored.qualified = QualifiesIn(o)
  OBVIOUS
<1>3. ProbeScored(o).id = o.probe.value.id
  BY DEF ProbeScored
<1> HIDE DEF scored
<1>4. /\ e.run = scored.run /\ e.probe = scored.probe.id
      /\ e.version = e.inputs /\ e.inputs.policy = scored.policy
      /\ e.trials = scored.trials /\ e.outcomes = scored.outcomes
      /\ e.reduced = <<scored.reduced>>
      /\ e.comparable = IsComparable(scored.trials, scored.outcomes)
  BY DEF Emit
<1>5. /\ e.excluded = {o.probe.value.id} \ {p.id : p \in Admitted(o)}
      /\ e.key = ComparabilityKey(policy, {p.id : p \in Admitted(o)})
      /\ e.vector = BuildStrengthVector(Admitted(o), [p \in {o.probe.value.id} |-> reduced])
  BY <1>2, <1>3 DEF Emit, Admitted
<1>6. Scored(o).artifact[1] = e
  BY <1>1
<1> HIDE DEF e
<1> QED BY <1>1, <1>2, <1>3, <1>4, <1>5, <1>6 DEF rung, reduced, trials, graded

-----------------------------------------------------------------------------
(* What a call that comes to an artifact was given: a stronger invariant,  *)
(* of what each process read and of what each file holds.                  *)

(* What p read fits the flag under which it was read.                      *)
GotInv(p) ==
    /\ pc[p] = "parsing" => got[p] = <<>>
    /\ \A i \in DOMAIN got[p] :
          got[p][i].arrives.fits => Fits(InputsRead(p)[i].flag, got[p][i].value)

(* What came back is the result of the call on what was read.              *)
AnsweredInv(p) ==
    /\ pc[p] \in {"parsing", "checking", "reading", "resolving"} => returned[p].artifact = <<>>
    /\ pc[p] = "resolving" => Pending(p) = {} /\ ScoreRefusal(p) = 0
    /\ returned[p].artifact # <<>> =>
          /\ Running(p) /\ Pending(p) = {}
          /\ Command(p) = "score" => ScoreRefusal(p) = 0 /\ returned[p] = ScoreResult(p)
          /\ Command(p) = "aggregate-strength" => returned[p] = AggregateResult(p)

(* A file is the one that was there, or the one that a process opened and  *)
(* perhaps wrote.                                                          *)
FileInv ==
    \A node \in DOMAIN disk : disk[node] # <<>> =>
        \/ disk[node] = Scenarios[scenario].disk[node]
        \/ \E q \in Procs : OpenedBy(q, node) /\ disk[node] \in {<<Cut(q)>>, <<Written(q)>>}

AnswerInvariant ==
    /\ CommandLineInvariant
    /\ got = [p \in Procs |-> got[p]]
    /\ FileInv
    /\ \A p \in Procs : GotInv(p) /\ AnsweredInv(p)

(* A call whose parses went through was given nothing that does not fit.   *)
LEMMA IntakeIs ==
    ASSUME NEW o, IntakeFault(o) = "none"
    PROVE  /\ ArrivalFault(o.records) = "none" /\ ArrivalFault(<<o.contract>>) = "none"
           /\ ArrivalFault(<<o.probe>>) = "none" /\ ArrivalFault(<<o.policy>>) = "none"
<1> DEFINE faults == <<ArrivalFault(o.records), ArrivalFault(o.manifest),
                       ArrivalFault(o.configuration), ArrivalFault(<<o.contract>>),
                       ArrivalFault(<<o.probe>>), ArrivalFault(<<o.preflight>>),
                       ArrivalFault(<<o.policy>>), ArrivalFault(o.privates),
                       IF o.corpus = Malformed THEN "schema-parse-failure" ELSE "none">>
<1>1. FirstFault(faults) = "none"
  BY DEF IntakeFault
<1>2. /\ DOMAIN faults = 1 .. 9
      /\ faults[1] = ArrivalFault(o.records) /\ faults[4] = ArrivalFault(<<o.contract>>)
      /\ faults[5] = ArrivalFault(<<o.probe>>) /\ faults[7] = ArrivalFault(<<o.policy>>)
  OBVIOUS
<1> HIDE DEF faults
<1>3. \A i \in 1 .. 9 : faults[i] = "none"
  <2>1. DOMAIN faults \in SUBSET Nat
    BY <1>2
  <2> QED BY <1>1, <1>2, <2>1, FirstFaultIs
<1> QED BY <1>2, <1>3

(* A flag that its command requires has a place among the inputs.          *)
LEMMA InputGiven ==
    ASSUME CommandLineInvariant, NEW p \in Procs, Running(p),
           NEW flag \in ToSet(InputKeys(Command(p))) \ OptionalInputKeys
    PROVE  \E i \in DOMAIN InputsRead(p) : InputsRead(p)[i].flag = flag
<1> DEFINE argv == Scenarios[scenario].argv[p]
<1>1. invocation[p] = ParseArguments(argv) /\ ParseArguments(argv).kind = "run"
  BY DEF CommandLineInvariant, ProcInv, ParsedInv, Running, UsageError
<1>2. IsList(argv)
  BY ScenariosAssumption DEF CommandLineInvariant, IsList
<1> HIDE DEF argv
<1>3. flag \in ToSet(InputKeys(ParseArguments(argv).command)) \ OptionalInputKeys
  BY <1>1 DEF Command
<1>4. \E input \in ToSet(Inputs(ParseArguments(argv))) : input.flag = flag
  BY <1>1, <1>2, <1>3, RequiredGiven
<1>5. InputsRead(p) = Inputs(ParseArguments(argv))
  BY <1>1 DEF InputsRead
<1> QED BY <1>4, <1>5 DEF ToSet

(* What was read under a flag is a list of files that fit that flag.       *)
LEMMA ReadFits ==
    ASSUME CommandLineInvariant, NEW p \in Procs, Running(p), Pending(p) = {}, GotInv(p), NEW flag
    PROVE  /\ IsList(Read(p, flag))
           /\ \A k \in DOMAIN Read(p, flag) :
                 Read(p, flag)[k].arrives.fits => Fits(flag, Read(p, flag)[k].value)
           /\ flag \in ToSet(InputKeys(Command(p))) \ OptionalInputKeys =>
                 Read(p, flag) # <<>> /\ 1 \in DOMAIN Read(p, flag)
<1> DEFINE files == Read(p, flag)
           places == {i \in DOMAIN InputsRead(p) : InputsRead(p)[i].flag = flag}
<1>1. IsList(InputsRead(p))
  BY RunIs
<1>2. /\ IsList(files)
      /\ \A k \in DOMAIN files : \E i \in places : i \in DOMAIN got[p] /\ files[k] = got[p][i]
      /\ places # {} => files # <<>> /\ 1 \in DOMAIN files
  BY <1>1, ReadIs
<1>3. flag \in ToSet(InputKeys(Command(p))) \ OptionalInputKeys => places # {}
  BY InputGiven
<1> HIDE DEF files
<1>4. ASSUME NEW k \in DOMAIN files, files[k].arrives.fits PROVE Fits(flag, files[k].value)
  <2>1. PICK i \in places : i \in DOMAIN got[p] /\ files[k] = got[p][i]
    BY <1>2
  <2>2. InputsRead(p)[i].flag = flag
    OBVIOUS
  <2> QED BY <1>4, <2>1, <2>2 DEF GotInv
<1> HIDE DEF places
<1> QED BY <1>2, <1>3, <1>4 DEF files

(* The keys of a score that are required.                                  *)
LEMMA ScoreKeys ==
    /\ \A flag \in {"--record", "--contract", "--probe", "--preflight-verdict", "--policy"} :
          flag \in ToSet(InputKeys("score")) \ OptionalInputKeys
    /\ \A flag \in {"--evidence", "--floors", "--policy"} :
          flag \in ToSet(InputKeys("aggregate-strength")) \ OptionalInputKeys
<1> DEFINE s == InputKeys("score")
           a == InputKeys("aggregate-strength")
<1>1. /\ DOMAIN s = 1 .. 8 /\ s[1] = "--record" /\ s[4] = "--contract" /\ s[5] = "--probe"
      /\ s[6] = "--preflight-verdict" /\ s[7] = "--policy"
  BY DEF InputKeys
<1>2. DOMAIN a = 1 .. 3 /\ a[1] = "--evidence" /\ a[2] = "--floors" /\ a[3] = "--policy"
  BY DEF InputKeys
<1> HIDE DEF s, a
<1>3. \A flag \in {"--record", "--contract", "--probe", "--preflight-verdict", "--policy"} :
         flag \in ToSet(s)
  BY <1>1 DEF ToSet
<1>4. \A flag \in {"--evidence", "--floors", "--policy"} : flag \in ToSet(a)
  BY <1>2 DEF ToSet
<1> QED BY <1>3, <1>4 DEF OptionalInputKeys, s, a

(* What a score that went through its parses was given.                    *)
LEMMA OptionsFit ==
    ASSUME CommandLineInvariant, NEW p \in Procs, Running(p), Pending(p) = {}, GotInv(p),
           Command(p) = "score", IntakeFault(ScoreOptions(p)) = "none"
    PROVE  LET o == ScoreOptions(p)
           IN /\ IsList(o.records) /\ o.records # <<>>
              /\ \A k \in DOMAIN o.records : o.records[k].value.trial \in Int
              /\ IsList(o.contract.value.oracles)
              /\ o.probe.value.id \in Int /\ o.policy.value.threshold \in Nat \X Nat
<1> DEFINE o == ScoreOptions(p)
           only(flag) == Read(p, flag)[1]
<1>1. /\ o.records = Read(p, "--record") /\ o.contract = only("--contract")
      /\ o.probe = only("--probe") /\ o.policy = only("--policy")
  BY DEF ScoreOptions
<1> HIDE DEF o
<1>2. /\ ArrivalFault(o.records) = "none" /\ ArrivalFault(<<o.contract>>) = "none"
      /\ ArrivalFault(<<o.probe>>) = "none" /\ ArrivalFault(<<o.policy>>) = "none"
  BY IntakeIs DEF o
<1>3. ASSUME NEW d, ArrivalFault(<<d>>) = "none" PROVE d.arrives.fits
  <2> DEFINE s == <<d>>
  <2>1. IsList(s) /\ 1 \in DOMAIN s /\ s[1] = d
    BY SingleIsList
  <2> HIDE DEF s
  <2>2. \A i \in DOMAIN s : s[i].arrives.fits
    BY <1>3, <2>1, ArrivedFits DEF s
  <2> QED BY <2>1, <2>2
<1>4. ASSUME NEW flag \in {"--contract", "--probe", "--policy"}, only(flag).arrives.fits
      PROVE  Fits(flag, only(flag).value)
  <2>1. flag \in ToSet(InputKeys(Command(p))) \ OptionalInputKeys
    BY ScoreKeys
  <2>2. 1 \in DOMAIN Read(p, flag)
    BY <2>1, ReadFits
  <2> QED BY <1>4, <2>2, ReadFits
<1>5. /\ Fits("--contract", o.contract.value) /\ Fits("--probe", o.probe.value)
      /\ Fits("--policy", o.policy.value)
  BY <1>1, <1>2, <1>3, <1>4
<1>6. IsList(o.records) /\ o.records # <<>>
  <2>1. "--record" \in ToSet(InputKeys(Command(p))) \ OptionalInputKeys
    BY ScoreKeys
  <2> QED BY <1>1, <2>1, ReadFits
<1>7. \A k \in DOMAIN o.records : Fits("--record", o.records[k].value)
  <2>1. \A k \in DOMAIN o.records : o.records[k].arrives.fits
    BY <1>2, <1>6, ArrivedFits
  <2> QED BY <1>1, <2>1, ReadFits
<1>8. /\ \A k \in DOMAIN o.records : o.records[k].value.trial \in Int
      /\ IsList(o.contract.value.oracles)
      /\ o.probe.value.id \in Int /\ o.policy.value.threshold \in Nat \X Nat
  BY <1>5, <1>7 DEF Fits, IsList
<1> QED BY <1>6, <1>8 DEF o

(* What score minted, and of what.                                         *)
LEMMA MintedScore ==
    ASSUME CommandLineInvariant, NEW p \in Procs, GotInv(p), AnsweredInv(p), Minted(p, "score")
    PROVE  LET o == ScoreOptions(p)
           IN /\ Running(p) /\ Command(p) = "score" /\ Pending(p) = {}
              /\ ScoreRefusal(p) = 0 /\ IntakeFault(o) = "none"
              /\ Scored(o).artifact # <<>> /\ MintedBy(p) = Scored(o).artifact[1]
              /\ ReductionConsistent(MintedBy(p))
<1> DEFINE o == ScoreOptions(p)
           scored == Scored(o)
<1>1. /\ Running(p) /\ Command(p) = "score" /\ returned[p].artifact # <<>>
      /\ Pending(p) = {} /\ ScoreRefusal(p) = 0
      /\ returned[p] = Returned(scored, invocation[p].strict)
  BY DEF Minted, AnsweredInv, ScoreResult
<1>2. IntakeFault(o) = "none"
  BY <1>1 DEF ScoreRefusal, Fault, Usage
<1> HIDE DEF scored
<1>3. /\ returned[p].artifact = scored.artifact
      /\ scored.artifact # <<>> /\ ReductionConsistent(scored.artifact[1])
  BY <1>1 DEF Returned, Rejected
<1> QED BY <1>1, <1>2, <1>3 DEF scored, MintedBy

(* The votes of a score are a list.                                        *)
LEMMA VotesAreList ==
    ASSUME NEW o, IsList(o.records)
    PROVE  /\ IsList(VoteLists(o)) /\ DOMAIN VoteLists(o) = DOMAIN o.records
           /\ DOMAIN EachOf(o) = DOMAIN o.records
           /\ \A i \in DOMAIN VoteLists(o) : IsList(VoteLists(o)[i])
           /\ IsList(VotesOf(o))
<1> DEFINE n == Len(o.records)
<1>1. n \in Nat /\ DOMAIN o.records = 1 .. n
  BY ListIs
<1>2. DOMAIN EachOf(o) = 1 .. n
  BY <1>1 DEF EachOf
<1>3. VoteLists(o) = [i \in 1 .. n |-> VoteOf(o, EachOf(o)[i])]
  BY <1>2 DEF VoteLists
<1>4. VoteLists(o) = [i \in 1 .. n |-> VoteLists(o)[i]]
  BY <1>3
<1>5. IsList(VoteLists(o)) /\ DOMAIN VoteLists(o) = 1 .. n
  BY <1>1, <1>4, PlacesAreList
<1>6. ASSUME NEW resolutions PROVE IsList(VoteOf(o, resolutions))
  <2>1. \/ VoteOf(o, resolutions) = <<>>
        \/ \E x : VoteOf(o, resolutions) = <<x>>
    BY DEF VoteOf
  <2> QED BY <2>1, EmptyIsList, SingleIsList
<1>7. \A i \in DOMAIN VoteLists(o) : IsList(VoteLists(o)[i])
  BY <1>3, <1>5, <1>6
<1>8. IsList(VotesOf(o))
  BY <1>5, <1>7, FlattenHolds DEF VotesOf
<1> QED BY <1>1, <1>2, <1>5, <1>7, <1>8

(* It fits what aggregate-strength reads as evidence.                      *)
LEMMA MintedFits ==
    ASSUME CommandLineInvariant, NEW p \in Procs, GotInv(p), AnsweredInv(p), Minted(p, "score")
    PROVE  Fits("--evidence", MintedBy(p))
<1> DEFINE o == ScoreOptions(p)
           e == MintedBy(p)
           r == ReducedOf(o)
<1>1. /\ Running(p) /\ Command(p) = "score" /\ Pending(p) = {} /\ IntakeFault(o) = "none"
      /\ Scored(o).artifact # <<>> /\ e = Scored(o).artifact[1]
  BY MintedScore
<1>2. IsList(o.records) /\ o.probe.value.id \in Int
  BY <1>1, OptionsFit
<1> HIDE DEF o
<1>3. e.probe = o.probe.value.id /\ e.reduced = <<r>>
  BY <1>1, EvidenceIs
<1>4. r.votes = VotesOf(o)
  BY ReducedIs DEF ReducedOf
<1> HIDE DEF e, r
<1>5. IsList(<<r>>) /\ DOMAIN <<r>> = 1 .. 1 /\ <<r>>[1] = r
  BY SingleIsList
<1>6. IsList(e.reduced) /\ \A i \in DOMAIN e.reduced : IsList(e.reduced[i].votes)
  BY <1>2, <1>3, <1>4, <1>5, VotesAreList
<1>7. Fits("--evidence", e)
  BY <1>2, <1>3, <1>6 DEF Fits, IsList
<1> QED BY <1>7 DEF e

-----------------------------------------------------------------------------
(* The stronger invariant, step by step.                                   *)

(* What a call rests on stays with the invocation and the files read.      *)
LEMMA SameCall ==
    ASSUME NEW q, invocation'[q] = invocation[q], got'[q] = got[q], scenario' = scenario
    PROVE  /\ Running(q)' = Running(q) /\ Command(q)' = Command(q)
           /\ InputsRead(q)' = InputsRead(q) /\ Pending(q)' = Pending(q)
           /\ \A flag : Read(q, flag)' = Read(q, flag)
           /\ ScoreOptions(q)' = ScoreOptions(q)
           /\ ScoreRefusal(q)' = ScoreRefusal(q)
           /\ ScoreResult(q)' = ScoreResult(q)
           /\ AggregateResult(q)' = AggregateResult(q)
<1>1. /\ Running(q)' = Running(q) /\ Command(q)' = Command(q) /\ InputsRead(q)' = InputsRead(q)
  BY SameRun
<1>2. Pending(q)' = Pending(q)
  BY <1>1 DEF Pending
<1>3. \A flag : Read(q, flag)' = Read(q, flag)
  BY <1>1 DEF Read
<1>4. ScoreOptions(q)' = ScoreOptions(q)
  BY <1>3 DEF ScoreOptions
<1>5. ScoreRefusal(q)' = ScoreRefusal(q)
  BY <1>4 DEF ScoreRefusal
<1>6. ScoreResult(q)' = ScoreResult(q)
  BY <1>4 DEF ScoreResult
<1>7. AggregateResult(q)' = AggregateResult(q)
  BY <1>3 DEF AggregateResult
<1> QED BY <1>1, <1>2, <1>3, <1>4, <1>5, <1>6, <1>7

(* A process that neither reads nor answers keeps what it read and         *)
(* answered.                                                               *)
LEMMA AnswerKept ==
    ASSUME NEW q, GotInv(q), AnsweredInv(q),
           invocation'[q] = invocation[q], got'[q] = got[q], scenario' = scenario,
           returned'[q] = returned[q],
           pc'[q] = pc[q] \/ pc'[q] \in {"opening", "writing", "done", "killed"}
              \/ (pc[q] = "checking" /\ pc'[q] = "reading")
    PROVE  GotInv(q)' /\ AnsweredInv(q)'
<1>1. /\ Running(q)' = Running(q) /\ Command(q)' = Command(q)
      /\ InputsRead(q)' = InputsRead(q) /\ Pending(q)' = Pending(q)
      /\ ScoreRefusal(q)' = ScoreRefusal(q)
      /\ ScoreResult(q)' = ScoreResult(q)
      /\ AggregateResult(q)' = AggregateResult(q)
  BY SameCall
<1>2. \A flag, value : Fits(flag, value)' = Fits(flag, value)
  BY DEF Fits
<1>3. GotInv(q)'
  BY <1>1 DEF GotInv
<1>4. AnsweredInv(q)'
  BY <1>1 DEF AnsweredInv
<1> QED BY <1>3, <1>4

(* The files of processes that have answered stay theirs.                  *)
LEMMA FilesKept ==
    ASSUME CommandLineInvariant, FileInv, scenario' = scenario,
           NEW node \in DOMAIN disk, disk'[node] = disk[node],
           \A q \in Procs : returned[q].artifact # <<>> => returned'[q] = returned[q],
           disk'[node] # <<>>
    PROVE  \/ disk'[node] = Scenarios[scenario].disk[node]
           \/ \E q \in Procs : OpenedBy(q, node)' /\ disk'[node] \in {<<Cut(q)>>, <<Written(q)'>>}
<1>1. CASE disk[node] = Scenarios[scenario].disk[node]
  BY <1>1
<1>2. CASE \E q \in Procs : OpenedBy(q, node) /\ disk[node] \in {<<Cut(q)>>, <<Written(q)>>}
  <2>1. PICK q \in Procs : OpenedBy(q, node) /\ disk[node] \in {<<Cut(q)>>, <<Written(q)>>}
    BY <1>2
  <2>2. returned[q].artifact # <<>>
    BY <2>1 DEF CommandLineInvariant, ProcInv, OpenedInv
  <2>3. Written(q)' = Written(q)
    BY <2>2 DEF Written, Cut
  <2>4. OpenedBy(q, node)'
    BY <2>1 DEF OpenedBy
  <2> QED BY <2>1, <2>3, <2>4
<1> QED BY <1>1, <1>2 DEF FileInv

(* What is left to show of a step of p.                                    *)
LEMMA AnswerStep ==
    ASSUME AnswerInvariant, NEW p \in Procs, CommandLineInvariant', scenario' = scenario,
           \A q \in Procs \ {p} : /\ invocation'[q] = invocation[q] /\ pc'[q] = pc[q]
                                  /\ returned'[q] = returned[q] /\ got'[q] = got[q],
           got' = [q \in Procs |-> got'[q]],
           returned[p].artifact # <<>> => returned'[p] = returned[p],
           disk' = disk \/ FileInv',
           GotInv(p)' /\ AnsweredInv(p)'
    PROVE  AnswerInvariant'
<1>1. ASSUME NEW q \in Procs PROVE GotInv(q)' /\ AnsweredInv(q)'
  <2>1. CASE q = p
    BY <2>1
  <2>2. CASE q # p
    <3>1. GotInv(q) /\ AnsweredInv(q)
      BY DEF AnswerInvariant
    <3> QED BY <2>2, <3>1, AnswerKept
  <2> QED BY <2>1, <2>2
<1>2. FileInv'
  <2> SUFFICES ASSUME disk' = disk PROVE FileInv'
    OBVIOUS
  <2>1. \A q \in Procs : returned[q].artifact # <<>> => returned'[q] = returned[q]
    OBVIOUS
  <2>2. CommandLineInvariant /\ FileInv
    BY DEF AnswerInvariant
  <2>3. ASSUME NEW node \in DOMAIN disk, disk'[node] # <<>>
        PROVE  \/ disk'[node] = Scenarios'[scenario'].disk[node]
               \/ \E q \in Procs : /\ OpenedBy(q, node)'
                                   /\ disk'[node] \in {<<Cut(q)>>, <<Written(q)'>>}
    BY <2>1, <2>2, <2>3, FilesKept
  <2>4. \A q : Cut(q)' = Cut(q)
    BY DEF Cut
  <2> QED BY <2>3, <2>4 DEF FileInv
<1> QED BY <1>1, <1>2 DEF AnswerInvariant

(* A step by which p neither reads a file nor answers nor writes.          *)
LEMMA QuietStep ==
    ASSUME AnswerInvariant, NEW p \in Procs, CommandLineInvariant',
           UNCHANGED <<scenario, disk, invocation, got, returned>>,
           \A q \in Procs \ {p} : pc'[q] = pc[q],
           \/ pc'[p] = pc[p]
           \/ pc'[p] \in {"opening", "writing", "done", "killed"}
           \/ pc[p] = "checking" /\ pc'[p] = "reading"
    PROVE  AnswerInvariant'
<1>1. /\ GotInv(p) /\ AnsweredInv(p) /\ got = [q \in Procs |-> got[q]]
  BY DEF AnswerInvariant
<1>2. GotInv(p)' /\ AnsweredInv(p)'
  BY <1>1, AnswerKept
<1> QED BY <1>1, <1>2, AnswerStep

(* parseArguments.                                                         *)
LEMMA ParseAnswers ==
    ASSUME AnswerInvariant, NEW p \in Procs, Parse(p)
    PROVE  AnswerInvariant'
<1>1. /\ CommandLineInvariant /\ ByProcess /\ GotInv(p) /\ AnsweredInv(p)
      /\ got = [q \in Procs |-> got[q]]
      /\ pc[p] = "parsing" /\ UNCHANGED <<scenario, disk, got, returned>>
  BY DEF AnswerInvariant, CommandLineInvariant, Parse
<1>2. CommandLineInvariant'
  BY <1>1, ParseHolds
<1>3. invocation' = [invocation EXCEPT ![p] = ParseArguments(Scenarios[scenario].argv[p])]
  BY DEF Parse
<1>4. \A q \in Procs \ {p} : invocation'[q] = invocation[q]
  BY <1>1, <1>3 DEF ByProcess
<1>5. \E at \in {"reading", "checking", "done"} : pc' = [pc EXCEPT ![p] = at]
  <2> DEFINE parsed == ParseArguments(Scenarios[scenario].argv[p])
  <2>1. parsed.kind \in {"usage-error", "help", "version", "run"}
    <3>1. IsList(Scenarios[scenario].argv[p])
      BY <1>1, ScenariosAssumption DEF CommandLineInvariant, IsList
    <3> QED BY <3>1, KindIs
  <2> HIDE DEF parsed
  <2>2. /\ CASE parsed.kind = "usage-error" -> Exit(p, Usage)
            [] parsed.kind \in {"help", "version"} -> Exit(p, 0)
            [] parsed.kind = "run" ->
                 /\ pc' = [pc EXCEPT ![p] = IF parsed.out = <<>> THEN "reading" ELSE "checking"]
                 /\ UNCHANGED exitCode
    BY DEF Parse, parsed
  <2>3. \/ \E n : Exit(p, n)
        \/ pc' = [pc EXCEPT ![p] = IF parsed.out = <<>> THEN "reading" ELSE "checking"]
    BY <2>1, <2>2
  <2> QED BY <2>3 DEF Exit
<1>6. got'[p] = <<>> /\ returned'[p].artifact = <<>> /\ pc'[p] \notin {"parsing", "resolving"}
  BY <1>1, <1>5 DEF GotInv, AnsweredInv, ByProcess
<1>7. \A q \in Procs \ {p} : pc'[q] = pc[q]
  BY <1>1, <1>5 DEF ByProcess
<1>8. GotInv(p)' /\ AnsweredInv(p)'
  BY <1>6 DEF GotInv, AnsweredInv
<1> QED BY <1>1, <1>2, <1>4, <1>7, <1>8, AnswerStep

(* One input is held against --out.                                        *)
LEMMA CheckInputAnswers ==
    ASSUME AnswerInvariant, NEW p \in Procs, CheckInput(p)
    PROVE  AnswerInvariant'
<1>1. /\ CommandLineInvariant /\ ByProcess
      /\ pc[p] = "checking" /\ UNCHANGED <<scenario, disk, invocation, got, returned>>
  BY DEF AnswerInvariant, CommandLineInvariant, CheckInput
<1>2. CommandLineInvariant'
  BY <1>1, CheckInputHolds
<1>3. pc' = pc \/ \E at \in {"reading", "done"} : pc' = [pc EXCEPT ![p] = at]
  BY DEF CheckInput, Exit
<1>4. /\ \A q \in Procs \ {p} : pc'[q] = pc[q]
      /\ pc'[p] = pc[p] \/ pc'[p] \in {"reading", "done"}
  BY <1>1, <1>3 DEF ByProcess
<1> QED BY <1>1, <1>2, <1>4, QuietStep

(* An exit that delivers nothing.                                          *)
LEMMA ExitAnswers ==
    ASSUME AnswerInvariant, NEW p \in Procs, CommandLineInvariant', NEW n, Exit(p, n),
           UNCHANGED <<scenario, disk, invocation, got, returned>>
    PROVE  AnswerInvariant'
<1>1. ByProcess
  BY DEF AnswerInvariant, CommandLineInvariant
<1>2. (\A q \in Procs \ {p} : pc'[q] = pc[q]) /\ pc'[p] = "done"
  BY <1>1 DEF ByProcess, Exit
<1> QED BY <1>2, QuietStep

(* What a process wrote, entry by entry.                                   *)
LEMMA WrittenIs ==
    ASSUME NEW q
    PROVE  Written(q) = [whole |-> TRUE, dup |-> FALSE, digest |-> "written", arrives |-> Sound,
                         value |-> MintedBy(q), by |-> q]
<1> DEFINE c == [whole |-> FALSE, dup |-> FALSE, digest |-> "cut", arrives |-> Sound,
                 value |-> <<>>, by |-> q]
           v == returned[q].artifact[1]
           w == [whole |-> TRUE, dup |-> FALSE, digest |-> "written", arrives |-> Sound,
                 value |-> v, by |-> q]
<1>1. Cut(q) = c
  BY DEF Cut
<1> HIDE DEF v
<1>2. [c EXCEPT !.whole = TRUE, !.digest = "written", !.value = v] = w
  <2> DEFINE e == [c EXCEPT !.whole = TRUE, !.digest = "written", !.value = v]
  <2>1. /\ DOMAIN c = {"whole", "dup", "digest", "arrives", "value", "by"}
        /\ c.dup = FALSE /\ c.arrives = Sound /\ c.by = q
    OBVIOUS
  <2>2. DOMAIN w = {"whole", "dup", "digest", "arrives", "value", "by"}
    OBVIOUS
  <2>3. /\ w.whole = TRUE /\ w.digest = "written" /\ w.value = v
        /\ w.dup = FALSE /\ w.arrives = Sound /\ w.by = q
    OBVIOUS
  <2>4. w = [x \in DOMAIN w |-> w[x]]
    OBVIOUS
  <2> HIDE DEF c, w
  <2>5. e = [x \in DOMAIN c |-> e[x]]
    OBVIOUS
  <2>6. /\ e.whole = TRUE /\ e.digest = "written" /\ e.value = v
        /\ e.dup = FALSE /\ e.arrives = Sound /\ e.by = q
    BY <2>1
  <2> HIDE DEF e
  <2>7. \A x \in DOMAIN w : w[x] = e[x]
    BY <2>2, <2>3, <2>6
  <2> QED BY <2>1, <2>2, <2>4, <2>5, <2>7 DEF e
<1>3. Written(q) = [Cut(q) EXCEPT !.whole = TRUE, !.digest = "written", !.value = v]
  BY DEF Written, v
<1> QED BY <1>1, <1>2, <1>3 DEF MintedBy, v

(* What is read fits, whether it was there or a process left it.           *)
LEMMA ContentsFit ==
    ASSUME AnswerInvariant, NEW p \in Procs, Running(p), NEW i \in DOMAIN InputsRead(p)
    PROVE  LET input == InputsRead(p)[i]
               file == Contents(p, input.path)
               arriving == Arriving(file[1], input.flag)
           IN file # <<>> /\ file[1].whole /\ arriving.arrives.fits =>
                 Fits(input.flag, arriving.value)
<1> DEFINE input == InputsRead(p)[i]
           file == Contents(p, input.path)
           arriving == Arriving(file[1], input.flag)
           argv == Scenarios[scenario].argv[p]
           named == IF input.path = Stdin THEN Scenarios[scenario].stdin[p]
                    ELSE Scenarios[scenario].disk[Node[Resolve[input.path]]]
<1>1. CommandLineInvariant /\ FileInv /\ scenario \in DOMAIN Scenarios
  BY DEF AnswerInvariant, CommandLineInvariant
<1>2. invocation[p] = ParseArguments(argv) /\ ParseArguments(argv).kind = "run"
  BY <1>1 DEF CommandLineInvariant, ProcInv, ParsedInv, Running, UsageError
<1>3. input \in ToSet(Inputs(ParseArguments(argv)))
  BY <1>2 DEF InputsRead, ToSet
<1>4. SUFFICES ASSUME file # <<>>, file[1].whole, arriving.arrives.fits
               PROVE  Fits(input.flag, arriving.value)
  OBVIOUS
<1>5. named # <<>> /\ named[1].arrives.fits => Fits(input.flag, named[1].value)
  BY <1>1, <1>2, <1>3, FilesAssumption
<1>6. named # <<>> => named[1].by \notin Procs
  <2>1. CASE input.path = Stdin
    BY <1>1, <2>1, ScenariosAssumption
  <2>2. CASE input.path # Stdin
    <3>1. Node[Resolve[input.path]] \in NamedNodes(ParseArguments(argv))
      BY <1>3, <2>2 DEF NamedNodes
    <3>2. NamedNodes(ParseArguments(argv)) \subseteq DOMAIN Scenarios[scenario].disk
      BY <1>1, <1>2, ScenariosAssumption
    <3>3. \A q \in Procs : named # <<>> => named[1].by # q
      BY <1>1, <2>2, <3>1, <3>2, ScenariosAssumption
    <3> QED BY <3>3
  <2> QED BY <2>1, <2>2
<1>7. CASE file = named
  <2>1. arriving = named[1]
    <3> HIDE DEF file, named
    <3>1. file[1].by \notin Procs /\ file[1] = named[1]
      BY <1>4, <1>6, <1>7
    <3> QED BY <3>1 DEF Arriving
  <2> HIDE DEF file, arriving, named
  <2> QED BY <1>4, <1>5, <1>7, <2>1
<1>8. CASE file # named
  <2> DEFINE node == Node[Resolve[input.path]]
  <2>1. input.path # Stdin /\ file = disk[node]
    BY <1>8 DEF Contents
  <2>2. node \in DOMAIN disk
    <3>1. node \in NamedNodes(ParseArguments(argv))
      BY <1>3, <2>1 DEF NamedNodes
    <3>2. NamedNodes(ParseArguments(argv)) \subseteq DOMAIN Scenarios[scenario].disk
      BY <1>1, <1>2, ScenariosAssumption
    <3> QED BY <1>1, <3>1, <3>2 DEF CommandLineInvariant, DiskInv
  <2>3. PICK q \in Procs : OpenedBy(q, node) /\ disk[node] \in {<<Cut(q)>>, <<Written(q)>>}
    BY <1>1, <1>4, <1>8, <2>1, <2>2 DEF FileInv
  <2>4. /\ file[1] = [whole |-> TRUE, dup |-> FALSE, digest |-> "written", arrives |-> Sound,
                      value |-> MintedBy(q), by |-> q]
    <3>1. Cut(q).whole = FALSE
      BY DEF Cut
    <3>2. Written(q) = [whole |-> TRUE, dup |-> FALSE, digest |-> "written", arrives |-> Sound,
                        value |-> MintedBy(q), by |-> q]
      BY WrittenIs
    <3> HIDE DEF file
    <3>3. file = <<Written(q)>>
      BY <1>4, <2>1, <2>3, <3>1
    <3>4. file[1] = Written(q)
      BY <3>3
    <3> QED BY <3>2, <3>4
  <2> DEFINE w == [whole |-> TRUE, dup |-> FALSE, digest |-> "written", arrives |-> Sound,
                   value |-> MintedBy(q), by |-> q]
  <2>5. Running(q) /\ returned[q].artifact # <<>>
    BY <1>1, <2>2, <2>3 DEF CommandLineInvariant, ProcInv, OpenedInv
  <2>6. input.flag \in ReadAs(Command(q)) /\ arriving = w
    <3>1. w.by = q /\ w.arrives = Sound /\ "arrives" \in DOMAIN w
      OBVIOUS
    <3> HIDE DEF w, file, arriving, input
    <3>2. file[1] = w
      BY <2>4 DEF w
    <3>3. arriving = IF input.flag \notin ReadAs(Command(q))
                     THEN [w EXCEPT !.arrives.fits = FALSE] ELSE w
      BY <3>1, <3>2 DEF Arriving, arriving
    <3>4. [w EXCEPT !.arrives.fits = FALSE].arrives.fits = FALSE
      BY <3>1 DEF Sound
    <3> QED BY <1>4, <3>3, <3>4
  <2>7. arriving.value = MintedBy(q)
    BY <2>6
  <2>8. CASE Command(q) = "score"
    <3>1. input.flag = "--evidence"
      BY <2>6, <2>8 DEF ReadAs
    <3>2. Minted(q, "score")
      BY <2>5, <2>8 DEF Minted
    <3>3. Fits("--evidence", MintedBy(q))
      BY <1>1, <3>2, MintedFits DEF AnswerInvariant
    <3> QED BY <2>7, <3>1, <3>3
  <2>9. CASE Command(q) # "score"
    <3>1. input.flag = "--preflight-verdict"
      BY <2>6, <2>9 DEF ReadAs
    <3> QED BY <3>1 DEF Fits
  <2> QED BY <2>8, <2>9
<1> QED BY <1>7, <1>8

(* A file is read, or the read fails.                                      *)
LEMMA ReadAnswers ==
    ASSUME AnswerInvariant, NEW p \in Procs,
           (\E i \in Readable(p) : ReadInput(p, i)) \/ ReadFails(p)
    PROVE  AnswerInvariant'
<1>1. /\ CommandLineInvariant /\ GotInv(p) /\ AnsweredInv(p)
      /\ got = [q \in Procs |-> got[q]] /\ pc[p] = "reading" /\ Running(p)
      /\ UNCHANGED <<scenario, disk, invocation, returned>>
  BY DEF AnswerInvariant, CommandLineInvariant, ProcInv, ParsedInv, ReadInput, ReadFails
<1>2. CommandLineInvariant'
  BY <1>1, ReadHolds
<1>3. CASE \E n : Exit(p, n) /\ got' = got
  BY <1>1, <1>2, <1>3, ExitAnswers
<1>4. CASE ~\E n : Exit(p, n) /\ got' = got
  <2>1. PICK i \in Readable(p) : ReadInput(p, i)
    BY <1>4 DEF ReadFails
  <2> DEFINE input == InputsRead(p)[i]
             file == Contents(p, input.path)
             arriving == Arriving(file[1], input.flag)
             read == [j \in DOMAIN got[p] \cup {i} |->
                         IF j = i THEN arriving ELSE got[p][j]]
  <2>2. /\ file # <<>> /\ file[1].whole
        /\ got' = [got EXCEPT ![p] = read] /\ UNCHANGED <<pc, exitCode>>
    <3> HIDE DEF file, input
    <3>1. /\ CASE file = <<>> -> Exit(p, Usage) /\ UNCHANGED got
               [] file # <<>> /\ (~file[1].whole \/ (file[1].dup /\ input.flag \in ScannedInputs)) ->
                    Exit(p, Fault) /\ UNCHANGED got
               [] OTHER ->
                    /\ got' = [got EXCEPT ![p] = [j \in DOMAIN @ \cup {i} |->
                                  IF j = i THEN Arriving(file[1], input.flag) ELSE @[j]]]
                    /\ UNCHANGED <<pc, exitCode>>
      BY <2>1 DEF ReadInput, file, input
    <3>2. file # <<>>
      BY <1>4, <3>1
    <3>3. ~(~file[1].whole \/ (file[1].dup /\ input.flag \in ScannedInputs))
      BY <1>4, <3>1, <3>2
    <3> QED BY <3>1, <3>2, <3>3
  <2>3. i \in DOMAIN InputsRead(p)
    BY DEF Readable, Pending
  <2>4. arriving.arrives.fits => Fits(input.flag, arriving.value)
    BY <1>1, <2>2, <2>3, ContentsFit
  <2> HIDE DEF arriving, file
  <2>5. got'[p] = read /\ \A q \in Procs \ {p} : got'[q] = got[q]
    BY <1>1, <2>2
  <2>6. got' = [q \in Procs |-> got'[q]]
    BY <1>1, <2>2
  <2>7. ASSUME NEW j \in DOMAIN read, read[j].arrives.fits
        PROVE  Fits(InputsRead(p)[j].flag, read[j].value)
    BY <1>1, <2>4, <2>7 DEF GotInv
  <2>8. InputsRead(p)' = InputsRead(p)
    BY <1>1, SameRun
  <2> HIDE DEF read
  <2>9. \A flag, value : Fits(flag, value)' = Fits(flag, value)
    BY DEF Fits
  <2>10. GotInv(p)'
    BY <1>1, <2>2, <2>5, <2>7, <2>8 DEF GotInv
  <2>11. AnsweredInv(p)'
    BY <1>1, <2>2 DEF AnsweredInv
  <2>12. \A q \in Procs \ {p} : /\ invocation'[q] = invocation[q] /\ pc'[q] = pc[q]
                                /\ returned'[q] = returned[q] /\ got'[q] = got[q]
    BY <1>1, <2>2, <2>5
  <2> QED BY <1>1, <1>2, <2>6, <2>10, <2>11, <2>12, AnswerStep
<1> QED BY <1>3, <1>4

(* A call is answered: what comes back is what the call comes to.          *)
LEMMA DeliverAnswers ==
    ASSUME AnswerInvariant, NEW p \in Procs, CommandLineInvariant', NEW outcome,
           Deliver(p, outcome), pc[p] \in {"reading", "resolving"}, Running(p), Pending(p) = {},
           UNCHANGED <<scenario, disk, invocation, got>>,
           outcome.artifact # <<>> =>
              /\ Command(p) = "score" => ScoreRefusal(p) = 0 /\ outcome = ScoreResult(p)
              /\ Command(p) = "aggregate-strength" => outcome = AggregateResult(p)
    PROVE  AnswerInvariant'
<1>1. /\ GotInv(p) /\ AnsweredInv(p) /\ got = [q \in Procs |-> got[q]] /\ ByProcess
      /\ returned[p].artifact = <<>>
  BY DEF AnswerInvariant, CommandLineInvariant, AnsweredInv
<1>2. /\ returned'[p] = outcome /\ \A q \in Procs \ {p} : returned'[q] = returned[q]
      /\ pc'[p] \in {"opening", "done"} /\ \A q \in Procs \ {p} : pc'[q] = pc[q]
  BY <1>1 DEF Deliver, Exit, ByProcess
<1>3. /\ Running(p)' = Running(p) /\ Command(p)' = Command(p)
      /\ InputsRead(p)' = InputsRead(p) /\ Pending(p)' = Pending(p)
      /\ ScoreRefusal(p)' = ScoreRefusal(p)
      /\ ScoreResult(p)' = ScoreResult(p)
      /\ AggregateResult(p)' = AggregateResult(p)
  BY SameCall
<1>4. \A flag, value : Fits(flag, value)' = Fits(flag, value)
  BY DEF Fits
<1>5. GotInv(p)'
  BY <1>1, <1>2, <1>3 DEF GotInv
<1>6. AnsweredInv(p)'
  BY <1>2, <1>3 DEF AnsweredInv
<1> QED BY <1>1, <1>2, <1>5, <1>6, AnswerStep

(* The one call into application/.                                         *)
LEMMA CallAnswers ==
    ASSUME AnswerInvariant, NEW p \in Procs, Call(p)
    PROVE  AnswerInvariant'
<1>1. /\ CommandLineInvariant /\ ByProcess /\ GotInv(p) /\ AnsweredInv(p)
      /\ got = [q \in Procs |-> got[q]]
      /\ pc[p] = "reading" /\ Running(p) /\ Pending(p) = {}
      /\ UNCHANGED <<scenario, disk, invocation, got>>
  BY DEF AnswerInvariant, CommandLineInvariant, ProcInv, ParsedInv, Call
<1>2. CommandLineInvariant'
  BY <1>1, CallHolds
<1> DEFINE early == /\ Command(p) = "score" /\ ScoreRefusal(p) = 0
                    /\ ToResolve(ScoreOptions(p)) # <<>>
<1>3. CASE early
  <2>1. pc' = [pc EXCEPT ![p] = "resolving"] /\ returned' = returned
    BY <1>3 DEF Call
  <2>2. pc'[p] = "resolving" /\ \A q \in Procs \ {p} : pc'[q] = pc[q]
    BY <1>1, <2>1 DEF ByProcess
  <2>3. /\ Running(p)' = Running(p) /\ Command(p)' = Command(p)
        /\ InputsRead(p)' = InputsRead(p) /\ Pending(p)' = Pending(p)
        /\ ScoreRefusal(p)' = ScoreRefusal(p)
    BY <1>1, SameCall
  <2>4. \A flag, value : Fits(flag, value)' = Fits(flag, value)
    BY DEF Fits
  <2>5. GotInv(p)'
    BY <1>1, <2>2, <2>3 DEF GotInv
  <2>6. AnsweredInv(p)'
    BY <1>1, <1>3, <2>1, <2>2, <2>3 DEF AnsweredInv
  <2> QED BY <1>1, <1>2, <2>1, <2>2, <2>5, <2>6, AnswerStep
<1>4. CASE ~early
  <2> DEFINE outcome ==
        CASE Command(p) = "aggregate-strength" -> AggregateResult(p)
          [] Command(p) \in {"compile", "seal", "preflight"} -> OtherResult(p)
          [] Command(p) = "score" ->
               IF ScoreRefusal(p) # 0 THEN Rejected(ScoreRefusal(p)) ELSE ScoreResult(p)
  <2>1. Deliver(p, outcome)
    BY <1>4 DEF Call
  <2>2. Command(p) = "aggregate-strength" => outcome = AggregateResult(p)
    OBVIOUS
  <2>3. Command(p) = "score" =>
          outcome = IF ScoreRefusal(p) # 0 THEN Rejected(ScoreRefusal(p)) ELSE ScoreResult(p)
    OBVIOUS
  <2> HIDE DEF outcome
  <2>4. outcome.artifact # <<>> /\ Command(p) = "score" =>
           ScoreRefusal(p) = 0 /\ outcome = ScoreResult(p)
    BY <2>3 DEF Rejected
  <2> QED BY <1>1, <1>2, <2>1, <2>2, <2>4, DeliverAnswers
<1> QED BY <1>3, <1>4

(* One reference below the corpus root is resolved.                        *)
LEMMA ResolveAnswers ==
    ASSUME AnswerInvariant, NEW p \in Procs, ResolveReference(p)
    PROVE  AnswerInvariant'
<1>1. /\ CommandLineInvariant /\ pc[p] = "resolving" /\ Running(p) /\ Command(p) = "score"
      /\ Pending(p) = {} /\ ScoreRefusal(p) = 0
      /\ UNCHANGED <<scenario, disk, invocation, got>>
  BY DEF AnswerInvariant, AnsweredInv, CommandLineInvariant, ProcInv, ParsedInv, ResolveReference
<1>2. CommandLineInvariant'
  BY <1>1, ResolveHolds
<1>3. \/ Deliver(p, Rejected(Fault))
      \/ Deliver(p, ScoreResult(p))
      \/ UNCHANGED <<pc, returned, printed, exitCode>>
  BY DEF ResolveReference
<1>4. CASE Deliver(p, Rejected(Fault))
  <2>1. Rejected(Fault).artifact = <<>>
    BY DEF Rejected
  <2> QED BY <1>1, <1>2, <1>4, <2>1, DeliverAnswers
<1>5. CASE Deliver(p, ScoreResult(p))
  BY <1>1, <1>2, <1>5, DeliverAnswers
<1>6. CASE UNCHANGED <<pc, returned, printed, exitCode>>
  BY <1>1, <1>2, <1>6, QuietStep
<1> QED BY <1>3, <1>4, <1>5, <1>6

(* The file at --out is opened, or written, and no other.                  *)
LEMMA WriteAnswers ==
    ASSUME AnswerInvariant, NEW p \in Procs, CommandLineInvariant', pc[p] \in {"opening", "writing"},
           NEW file \in {Cut(p), Written(p)},
           disk' = [disk EXCEPT ![TargetNode(p)] = <<file>>],
           NEW at \in {"writing", "done"}, pc' = [pc EXCEPT ![p] = at],
           UNCHANGED <<scenario, invocation, got, returned>>
    PROVE  AnswerInvariant'
<1>1. /\ CommandLineInvariant /\ FileInv /\ ByProcess /\ GotInv(p) /\ AnsweredInv(p)
      /\ got = [q \in Procs |-> got[q]] /\ Running(p)
      /\ invocation[p].out # <<>> /\ DOMAIN disk' = DOMAIN disk
  BY DEF AnswerInvariant, CommandLineInvariant, ProcInv, ParsedInv, HasOut
<1>2. pc'[p] = at /\ \A q \in Procs \ {p} : pc'[q] = pc[q]
  BY <1>1 DEF ByProcess
<1>3. GotInv(p)' /\ AnsweredInv(p)'
  BY <1>1, <1>2, AnswerKept
<1>4. file.by = p
  BY WrittenIs DEF Cut
<1>5. \A q : Cut(q)' = Cut(q) /\ Written(q)' = Written(q)
  BY DEF Cut, Written
<1>6. ASSUME NEW node \in DOMAIN disk, disk'[node] # <<>>
      PROVE  \/ disk'[node] = Scenarios[scenario].disk[node]
             \/ \E q \in Procs : OpenedBy(q, node)' /\ disk'[node] \in {<<Cut(q)>>, <<Written(q)>>}
  <2>1. CASE node = TargetNode(p)
    <3>1. disk'[node] = <<file>>
      BY <2>1
    <3>2. OpenedBy(p, node)'
      BY <1>4, <1>6, <3>1 DEF OpenedBy
    <3> QED BY <3>1, <3>2
  <2>2. CASE node # TargetNode(p)
    <3>1. disk'[node] = disk[node]
      BY <2>2
    <3> QED BY <1>1, <1>5, <1>6, <3>1, FilesKept
  <2> QED BY <2>1, <2>2
<1>7. FileInv'
  BY <1>1, <1>5, <1>6 DEF FileInv
<1> QED BY <1>1, <1>2, <1>3, <1>7, AnswerStep

(* Between any two steps, every file fits what reads it, and every call    *)
(* that came to an artifact came to the one that what it read comes to     *)
(* (run.ts).                                                               *)
THEOREM AnswersHold == Spec => []AnswerInvariant
<1>1. Init => AnswerInvariant
  <2> SUFFICES ASSUME Init PROVE AnswerInvariant
    OBVIOUS
  <2>1. CommandLineInvariant
    BY InitHolds
  <2>2. FileInv
    BY DEF Init, FileInv
  <2>3. ASSUME NEW p \in Procs PROVE GotInv(p) /\ AnsweredInv(p)
    <3>1. pc[p] = "parsing" /\ got[p] = <<>> /\ returned[p].artifact = <<>>
      BY DEF Init, NothingYet
    <3>2. GotInv(p)
      BY <3>1 DEF GotInv
    <3> QED BY <3>1, <3>2 DEF AnsweredInv
  <2> QED BY <2>1, <2>2, <2>3 DEF AnswerInvariant, Init
<1>2. AnswerInvariant /\ [Next]_vars => AnswerInvariant'
  <2> SUFFICES ASSUME AnswerInvariant, [Next]_vars PROVE AnswerInvariant'
    OBVIOUS
  <2>1. CASE Next
    <3>1. PICK p \in Procs :
             \/ Parse(p) \/ CheckInput(p)
             \/ (\E i \in Readable(p) : ReadInput(p, i)) \/ ReadFails(p)
             \/ Call(p) \/ ResolveReference(p) \/ Open(p) \/ OpenFails(p)
             \/ Write(p) \/ WriteFails(p) \/ Kill(p)
      BY <2>1 DEF Next
    <3>2. CommandLineInvariant /\ ByProcess
      BY DEF AnswerInvariant, CommandLineInvariant
    <3>3. CASE Open(p)
      <4>1. CommandLineInvariant'
        BY <3>2, <3>3, OpenHolds
      <4> QED BY <3>3, <4>1, WriteAnswers DEF Open
    <3>4. CASE Write(p)
      <4>1. CommandLineInvariant'
        BY <3>2, <3>4, WriteHolds
      <4>2. PICK file \in {Cut(p), Written(p)} : disk' = [disk EXCEPT ![TargetNode(p)] = <<file>>]
        BY <3>4 DEF Write
      <4> QED BY <3>4, <4>1, <4>2, WriteAnswers DEF Write, Exit
    <3>5. CASE OpenFails(p) \/ WriteFails(p)
      <4>1. CommandLineInvariant'
        BY <3>2, <3>5, FailHolds
      <4> QED BY <3>5, <4>1, ExitAnswers DEF OpenFails, WriteFails
    <3>6. CASE Kill(p)
      <4>1. CommandLineInvariant'
        BY <3>2, <3>6, KillHolds
      <4>2. pc'[p] = "killed" /\ \A q \in Procs \ {p} : pc'[q] = pc[q]
        BY <3>2, <3>6 DEF Kill, ByProcess
      <4> QED BY <3>6, <4>1, <4>2, QuietStep DEF Kill
    <3> QED BY <3>1, <3>3, <3>4, <3>5, <3>6, ParseAnswers, CheckInputAnswers, ReadAnswers,
               CallAnswers, ResolveAnswers
  <2>2. CASE UNCHANGED vars
    <3>1. CommandLineInvariant'
      BY <2>2, StillHolds DEF AnswerInvariant, vars
    <3>2. ASSUME NEW p \in Procs PROVE GotInv(p)' /\ AnsweredInv(p)'
      BY <2>2, AnswerKept DEF AnswerInvariant, vars
    <3>3. FileInv'
      <4>1. \A q : Cut(q)' = Cut(q) /\ Written(q)' = Written(q)
        BY <2>2 DEF Cut, Written, vars
      <4> QED BY <2>2, <4>1 DEF AnswerInvariant, FileInv, OpenedBy, vars
    <3> QED BY <2>2, <3>1, <3>2, <3>3 DEF AnswerInvariant, vars
  <2> QED BY <2>1, <2>2
<1> QED BY <1>1, <1>2, PTL DEF Spec

-----------------------------------------------------------------------------
(* Dominance (strength.ts), of artifacts that score minted.                *)

(* The strength of the class of the one probe that an artifact measured.   *)
OwnStrength(e) == ClassStrengthOver({e.probe}, [p \in {e.probe} |-> e.reduced[1]])

(* What every artifact that score mints looks like: one reduction, and the *)
(* class `home` of its probe filled in when that probe counts.             *)
OneProbe(e, home) ==
    /\ ToSet(e.reduced) = {e.reduced[1]}
    /\ e.reduced[1].exercised \in BOOLEAN /\ e.reduced[1].caught \in BOOLEAN
    /\ e.reduced[1].caught => e.reduced[1].exercised
    /\ ReductionConsistent(e)
    /\ e.comparable = IsComparable(e.trials, e.outcomes)
    /\ \A class \in StrengthClasses :
          e.vector[class] = IF class = home THEN OwnStrength(e) ELSE <<>>
    /\ home \in StrengthClasses => e.key = ComparabilityKey(e.inputs.policy, {e.probe})

(* One probe is exercised or not, and caught or not.                       *)
LEMMA OwnStrengthIs ==
    ASSUME NEW e, e.reduced[1].exercised \in BOOLEAN, e.reduced[1].caught \in BOOLEAN
    PROVE  LET caught == IF e.reduced[1].caught THEN 1 ELSE 0
           IN OwnStrength(e) =
                 << IF e.reduced[1].exercised
                    THEN [exercised |-> 1, caught |-> caught, rate |-> <<caught, 1>>]
                    ELSE [exercised |-> 0, caught |-> 0, rate |-> <<>>] >>
<1> DEFINE x == e.probe
           r == e.reduced[1]
           result == [p \in {x} |-> r]
           exercised == {p \in {x} : result[p].exercised}
           caught == {p \in exercised : result[p].caught}
<1>1. /\ exercised = IF r.exercised THEN {x} ELSE {}
      /\ caught = IF r.exercised /\ r.caught THEN {x} ELSE {}
  OBVIOUS
<1>2. OwnStrength(e) = << [exercised |-> Cardinality(exercised), caught |-> Cardinality(caught),
                           rate |-> RateOver(Cardinality(caught), Cardinality(exercised))] >>
  BY DEF OwnStrength, ClassStrengthOver
<1>3. Cardinality({x}) = 1 /\ Cardinality({}) = 0
  BY FS_Singleton, FS_EmptySet
<1> HIDE DEF exercised, caught, r, x
<1>4. CASE ~r.exercised
  BY <1>1, <1>2, <1>3, <1>4 DEF RateOver, r
<1>5. CASE r.exercised /\ r.caught
  BY <1>1, <1>2, <1>3, <1>5 DEF RateOver, r
<1>6. CASE r.exercised /\ ~r.caught
  BY <1>1, <1>2, <1>3, <1>6 DEF RateOver, r
<1> QED BY <1>4, <1>5, <1>6 DEF r

(* The one class of such an artifact.                                      *)
LEMMA OneClass ==
    ASSUME NEW e, NEW home, OneProbe(e, home)
    PROVE  /\ ClassesOf(e) = {home} \cap StrengthClasses
           /\ ClassOf(e) = IF home \in StrengthClasses THEN home ELSE "none"
<1>1. OwnStrength(e) # <<>>
  BY DEF OwnStrength, ClassStrengthOver
<1>2. ClassesOf(e) = {home} \cap StrengthClasses
  BY <1>1 DEF ClassesOf, OneProbe
<1> QED BY <1>2 DEF ClassOf

(* Dominance between two of them.                                          *)
LEMMA DominanceOfOne ==
    ASSUME NEW a, NEW b, NEW h, NEW k, NEW floor, OneProbe(a, h), OneProbe(b, k)
    PROVE  LET measured(x) == /\ x.comparable /\ ClassesOf(x) # {} /\ x.reduced[1].exercised
               alike == /\ measured(a) /\ measured(b)
                        /\ a.probe = b.probe /\ ClassOf(a) = ClassOf(b)
                        /\ a.inputs.policy = b.inputs.policy
           IN CompareDominance(a, b, floor) =
                 IF ~alike THEN "incomparable"
                 ELSE IF a.reduced[1].caught = b.reduced[1].caught THEN "equivalent"
                 ELSE IF a.reduced[1].caught THEN "a-dominates-b" ELSE "b-dominates-a"
<1> DEFINE measured(x) == /\ x.comparable /\ ClassesOf(x) # {} /\ x.reduced[1].exercised
           alike == /\ measured(a) /\ measured(b)
                    /\ a.probe = b.probe /\ ClassOf(a) = ClassOf(b)
                    /\ a.inputs.policy = b.inputs.policy
           ra == a.reduced[1]
           rb == b.reduced[1]
           one(r) == IF r.caught THEN 1 ELSE 0
           strength(r) == << IF r.exercised
                             THEN [exercised |-> 1, caught |-> one(r), rate |-> <<one(r), 1>>]
                             ELSE [exercised |-> 0, caught |-> 0, rate |-> <<>>] >>
           shared == Contributing(a.vector, b.vector)
           raw == ComponentComparison(a.vector, b.vector)
<1> SUFFICES CompareDominance(a, b, floor) =
                IF ~alike THEN "incomparable"
                ELSE IF ra.caught = rb.caught THEN "equivalent"
                ELSE IF ra.caught THEN "a-dominates-b" ELSE "b-dominates-a"
  OBVIOUS
<1>1. /\ ra.exercised \in BOOLEAN /\ ra.caught \in BOOLEAN
      /\ rb.exercised \in BOOLEAN /\ rb.caught \in BOOLEAN
      /\ ToSet(a.reduced) = {ra} /\ ToSet(b.reduced) = {rb}
  BY DEF OneProbe
<1>2. \A class \in StrengthClasses :
         /\ a.vector[class] = IF class = h THEN strength(ra) ELSE <<>>
         /\ b.vector[class] = IF class = k THEN strength(rb) ELSE <<>>
  BY OwnStrengthIs DEF OneProbe
<1>3. /\ ClassesOf(a) = {h} \cap StrengthClasses /\ ClassesOf(b) = {k} \cap StrengthClasses
      /\ ClassOf(a) = IF h \in StrengthClasses THEN h ELSE "none"
      /\ ClassOf(b) = IF k \in StrengthClasses THEN k ELSE "none"
  BY OneClass
<1>4. /\ strength(ra) # <<>> /\ strength(rb) # <<>>
      /\ strength(ra)[1].rate = (IF ra.exercised THEN <<one(ra), 1>> ELSE <<>>)
      /\ strength(rb)[1].rate = (IF rb.exercised THEN <<one(rb), 1>> ELSE <<>>)
  OBVIOUS
<1>5. shared = IF h = k /\ h \in StrengthClasses /\ ra.exercised /\ rb.exercised THEN {h} ELSE {}
  <2> HIDE DEF strength
  <2>1. \A class : class \in shared <=>
           /\ class \in StrengthClasses /\ class = h /\ class = k
           /\ ra.exercised /\ rb.exercised
    BY <1>2, <1>4 DEF Contributing
  <2> HIDE DEF shared
  <2> QED BY <2>1
<1>6. CASE shared = {}
  <2>1. raw = "incomparable"
    BY <1>6 DEF ComponentComparison
  <2>2. ~alike
    BY <1>3, <1>5, <1>6
  <2> HIDE DEF alike, raw
  <2> QED BY <2>1, <2>2 DEF CompareDominance, raw, alike
<1>7. CASE shared # {}
  <2>1. /\ h = k /\ h \in StrengthClasses /\ ra.exercised /\ rb.exercised /\ shared = {h}
    BY <1>5, <1>7
  <2>2. /\ a.key = ComparabilityKey(a.inputs.policy, {a.probe})
        /\ b.key = ComparabilityKey(b.inputs.policy, {b.probe})
    BY <2>1 DEF OneProbe
  <2>3. a.key = b.key <=> a.inputs.policy = b.inputs.policy /\ a.probe = b.probe
    <3>1. a.key.policy = a.inputs.policy /\ b.key.policy = b.inputs.policy
          /\ a.key.probes = {a.probe} /\ b.key.probes = {b.probe}
      BY <2>2 DEF ComparabilityKey
    <3> QED BY <2>2, <3>1
  <2>4. alike <=> a.comparable /\ b.comparable /\ a.key = b.key
    BY <1>3, <2>1, <2>3
  <2>5. /\ a.vector[h] = <<[exercised |-> 1, caught |-> one(ra), rate |-> <<one(ra), 1>>]>>
        /\ b.vector[h] = <<[exercised |-> 1, caught |-> one(rb), rate |-> <<one(rb), 1>>]>>
    BY <1>2, <2>1
  <2>6. /\ RateAbove(a.vector[h][1].rate, b.vector[h][1].rate) <=> one(ra) > one(rb)
        /\ RateAbove(b.vector[h][1].rate, a.vector[h][1].rate) <=> one(rb) > one(ra)
    <3>1. /\ a.vector[h][1].rate = <<one(ra), 1>> /\ b.vector[h][1].rate = <<one(rb), 1>>
          /\ one(ra) \in {0, 1} /\ one(rb) \in {0, 1}
      BY <2>5
    <3> HIDE DEF one
    <3> QED BY <3>1 DEF RateAbove
  <2>7. a.vector[h] = b.vector[h] <=> ra.caught = rb.caught
    <3>1. a.vector[h][1].caught = one(ra) /\ b.vector[h][1].caught = one(rb)
      BY <2>5
    <3>2. one(ra) = one(rb) <=> ra.caught = rb.caught
      BY <1>1
    <3> HIDE DEF one
    <3> QED BY <2>5, <3>1, <3>2
  <2>8. raw = IF ra.caught = rb.caught THEN "equivalent"
              ELSE IF ra.caught THEN "a-dominates-b" ELSE "b-dominates-a"
    <3>1. /\ (one(ra) > one(rb)) <=> (ra.caught /\ ~rb.caught)
          /\ (one(rb) > one(ra)) <=> (rb.caught /\ ~ra.caught)
      BY <1>1
    <3> HIDE DEF one, shared
    <3>2. raw = IF a.vector[h] = b.vector[h] THEN "equivalent"
                ELSE IF one(ra) > one(rb) /\ ~(one(rb) > one(ra)) THEN "a-dominates-b"
                ELSE IF one(rb) > one(ra) /\ ~(one(ra) > one(rb)) THEN "b-dominates-a"
                ELSE "incomparable"
      BY <2>1, <2>6 DEF ComponentComparison, shared
    <3> QED BY <1>1, <2>7, <3>1, <3>2
  <2>9. /\ raw = "a-dominates-b" => ~FavoredMisses(a, b, floor)
        /\ raw = "b-dominates-a" => ~FavoredMisses(b, a, floor)
    <3> HIDE DEF raw
    <3>1. /\ raw = "a-dominates-b" => ~rb.caught
          /\ raw = "b-dominates-a" => ~ra.caught
      BY <1>1, <2>8
    <3> QED BY <1>1, <3>1 DEF FavoredMisses
  <2>10. ReductionConsistent(a) /\ ReductionConsistent(b)
    BY DEF OneProbe
  <2> HIDE DEF raw, alike
  <2> QED BY <2>4, <2>8, <2>9, <2>10 DEF CompareDominance, raw
<1> QED BY <1>6, <1>7

(* What score minted has that shape.                                       *)
LEMMA MintedIsOneProbe ==
    ASSUME AnswerInvariant, NEW p \in Procs, Minted(p, "score")
    PROVE  \E home : OneProbe(MintedBy(p), home)
<1> DEFINE o == ScoreOptions(p)
           e == MintedBy(p)
           r == ReducedOf(o)
           probe == ProbeScored(o)
           home == IF QualifiesIn(o) /\ o.probe.value.class # "canary" /\ ~o.probe.value.clean
                   THEN o.probe.value.class ELSE "none"
<1>1. /\ Scored(o).artifact # <<>> /\ e = Scored(o).artifact[1] /\ ReductionConsistent(e)
  BY MintedScore DEF AnswerInvariant
<1> HIDE DEF o
<1> HIDE DEF e, r
<1>2. /\ e.probe = o.probe.value.id /\ e.inputs.policy = o.policy.value
      /\ e.key = ComparabilityKey(o.policy.value, {q.id : q \in Admitted(o)})
      /\ e.reduced = <<r>> /\ e.comparable = IsComparable(e.trials, e.outcomes)
      /\ e.vector = BuildStrengthVector(Admitted(o), [q \in {e.probe} |-> r])
  <2> DEFINE minted == Scored(o).artifact[1]
  <2>1. /\ minted.probe = o.probe.value.id /\ minted.inputs.policy = o.policy.value
        /\ minted.key = ComparabilityKey(o.policy.value, {q.id : q \in Admitted(o)})
    BY <1>1, EvidenceIs
  <2>2. /\ minted.reduced = <<r>>
        /\ minted.comparable = IsComparable(minted.trials, minted.outcomes)
        /\ minted.vector = BuildStrengthVector(Admitted(o), [q \in {o.probe.value.id} |-> r])
    BY <1>1, EvidenceIs DEF r
  <2> HIDE DEF minted
  <2>3. e = minted
    BY <1>1 DEF minted
  <2> QED BY <2>1, <2>2, <2>3
<1>3. /\ r.exercised \in BOOLEAN /\ r.caught \in BOOLEAN
      /\ r.caught => r.exercised
  BY ReducedIs DEF ReducedOf, r
<1>4. e.reduced[1] = r /\ ToSet(e.reduced) = {r}
  <2>1. DOMAIN <<r>> = 1 .. 1 /\ <<r>>[1] = r
    BY SingleIsList
  <2> QED BY <1>2, <2>1 DEF ToSet
<1>5. /\ probe.id = e.probe /\ probe.class = o.probe.value.class
      /\ probe.expectedClean = o.probe.value.clean
  BY <1>2 DEF ProbeScored
<1> HIDE DEF probe
<1>6. Admitted(o) = IF QualifiesIn(o) THEN {probe} ELSE {}
  BY DEF Admitted, probe
<1>7. ASSUME NEW class \in StrengthClasses
      PROVE  e.vector[class] = IF class = home THEN OwnStrength(e) ELSE <<>>
  <2> DEFINE ids == {x.id : x \in {q \in VectorEligible(Admitted(o)) : q.class = class}}
  <2>1. e.vector[class] = ClassStrengthOver(ids, [q \in {e.probe} |-> r])
    BY <1>2 DEF BuildStrengthVector
  <2>2. ids = IF class = home THEN {e.probe} ELSE {}
    <3>1. class # "none"
      BY DEF StrengthClasses
    <3> QED BY <1>5, <1>6, <3>1 DEF VectorEligible
  <2> HIDE DEF ids, home
  <2>3. CASE class = home
    BY <1>4, <2>1, <2>2, <2>3 DEF OwnStrength
  <2>4. CASE class # home
    BY <2>1, <2>2, <2>4 DEF ClassStrengthOver
  <2> QED BY <2>3, <2>4
<1>8. home \in StrengthClasses => e.key = ComparabilityKey(e.inputs.policy, {e.probe})
  <2>1. home \in StrengthClasses => QualifiesIn(o)
    BY DEF StrengthClasses
  <2>2. QualifiesIn(o) => {q.id : q \in Admitted(o)} = {e.probe}
    BY <1>5, <1>6
  <2> QED BY <1>2, <2>1, <2>2
<1> HIDE DEF home
<1>9. \A class \in StrengthClasses :
         e.vector[class] = IF class = home THEN OwnStrength(e) ELSE <<>>
  BY <1>7
<1>10. OneProbe(e, home)
  <2>1. /\ e.reduced[1].exercised \in BOOLEAN /\ e.reduced[1].caught \in BOOLEAN
        /\ e.reduced[1].caught => e.reduced[1].exercised
    BY <1>3, <1>4
  <2>2. ToSet(e.reduced) = {e.reduced[1]}
    BY <1>4
  <2> QED BY <1>1, <1>2, <1>8, <1>9, <2>1, <2>2 DEF OneProbe
<1> QED BY <1>10 DEF e

(* Between any two artifacts that were minted, dominance is a catch.       *)
LEMMA DominanceEarned ==
    ASSUME AnswerInvariant
    PROVE  DominanceIsCatch
<1> SUFFICES ASSUME NEW p \in Procs, NEW q \in Procs, Minted(p, "score"), Minted(q, "score"), p # q
             PROVE  LET a == MintedBy(p)
                        b == MintedBy(q)
                        measured(x) == /\ x.trials.completed >= x.trials.minimum
                                       /\ ClassesOf(x) # {} /\ x.reduced[1].exercised
                                       /\ \A o \in x.outcomes : o.state # "unreached"
                        alike == /\ measured(a) /\ measured(b)
                                 /\ a.probe = b.probe /\ ClassOf(a) = ClassOf(b)
                                 /\ a.inputs.policy = b.inputs.policy
                        floor == a.inputs.policy.floor
                    IN /\ CompareDominance(a, b, floor) = "a-dominates-b"
                             <=> alike /\ a.reduced[1].caught /\ ~b.reduced[1].caught
                       /\ CompareDominance(a, b, floor) = "b-dominates-a"
                             <=> CompareDominance(b, a, floor) = "a-dominates-b"
                       /\ CompareDominance(a, b, floor) = "equivalent"
                             <=> alike /\ a.reduced[1].caught = b.reduced[1].caught
  BY DEF DominanceIsCatch
<1> DEFINE a == MintedBy(p)
           b == MintedBy(q)
           floor == a.inputs.policy.floor
           measured(x) == x.comparable /\ ClassesOf(x) # {} /\ x.reduced[1].exercised
           alike == /\ measured(a) /\ measured(b)
                    /\ a.probe = b.probe /\ ClassOf(a) = ClassOf(b)
                    /\ a.inputs.policy = b.inputs.policy
<1>1. PICK h, k : OneProbe(a, h) /\ OneProbe(b, k)
  BY MintedIsOneProbe
<1> HIDE DEF a, b, floor
<1>2. /\ a.reduced[1].caught \in BOOLEAN /\ b.reduced[1].caught \in BOOLEAN
      /\ a.comparable = IsComparable(a.trials, a.outcomes)
      /\ b.comparable = IsComparable(b.trials, b.outcomes)
  BY <1>1 DEF OneProbe
<1>3. CompareDominance(a, b, floor) =
         IF ~alike THEN "incomparable"
         ELSE IF a.reduced[1].caught = b.reduced[1].caught THEN "equivalent"
         ELSE IF a.reduced[1].caught THEN "a-dominates-b" ELSE "b-dominates-a"
  BY <1>1, DominanceOfOne
<1>4. CompareDominance(b, a, floor) =
         IF ~alike THEN "incomparable"
         ELSE IF a.reduced[1].caught = b.reduced[1].caught THEN "equivalent"
         ELSE IF b.reduced[1].caught THEN "a-dominates-b" ELSE "b-dominates-a"
  BY <1>1, DominanceOfOne
<1>5. \A x \in {a, b} :
         measured(x) <=> /\ x.trials.completed >= x.trials.minimum
                         /\ ClassesOf(x) # {} /\ x.reduced[1].exercised
                         /\ \A o \in x.outcomes : o.state # "unreached"
  BY <1>2 DEF IsComparable
<1> HIDE DEF measured
<1> QED BY <1>2, <1>3, <1>4, <1>5 DEF a, b, floor

-----------------------------------------------------------------------------
(* A floor that is met (aggregate-strength.ts).                            *)

(* What is told apart by f is counted as often as what it was.             *)
LEMMA ImageCount ==
    ASSUME NEW S, IsFiniteSet(S), NEW f, \A x, y \in S : f[x] = f[y] => x = y
    PROVE  LET T == {f[x] : x \in S}
           IN IsFiniteSet(T) /\ Cardinality(T) = Cardinality(S) /\ Cardinality(T) \in Nat
<1> DEFINE T == {f[x] : x \in S}
           g == [x \in S |-> f[x]]
<1>1. g \in Bijection(S, T)
  BY DEF Bijection, Injection, Surjection, IsInjective
<1>2. ExistsBijection(S, T)
  BY <1>1 DEF ExistsBijection
<1>3. IsFiniteSet(T) /\ Cardinality(T) = Cardinality(S)
  BY <1>2, FS_Bijection
<1> QED BY <1>3, FS_CardinalityType

(* The votes of a trial set that witnesses them, counted by their states.  *)
LEMMA VotesCounted ==
    ASSUME NEW e, NEW r, VotesWitnessed(e, r), ReductionRecomputed(r), IsList(r.votes),
           r.threshold \in Nat \X Nat
    PROVE  LET cast(among) == Cardinality({v \in ToSet(r.votes) : v.state \in among})
           IN /\ cast(Voted) \in Nat /\ cast({"caught"}) \in Nat
              /\ r.exercised <=> cast(Voted) > 0
              /\ r.exercised =>
                    (r.caught <=> cast({"caught"}) * r.threshold[2] > cast(Voted) * r.threshold[1])
<1> DEFINE ballots == r.votes
           n == Len(ballots)
           named == [i \in DOMAIN ballots |-> ballots[i].state]
           at(among) == Where(named, among)
           of(among) == {v \in ToSet(ballots) : v.state \in among}
<1>1. n \in Nat /\ DOMAIN ballots = 1 .. n
  BY ListIs
<1>2. IsFiniteSet(1 .. n)
  BY <1>1, FS_Interval
<1>3. \A i, j \in DOMAIN ballots : ballots[i] = ballots[j] => i = j
  BY DEF VotesWitnessed, IsInjective
<1>4. ASSUME NEW among
      PROVE  /\ IsFiniteSet(at(among)) /\ Cardinality(of(among)) = Cardinality(at(among))
             /\ Cardinality(of(among)) \in Nat
             /\ at(among) # {} <=> Cardinality(of(among)) > 0
  <2>1. at(among) = {i \in DOMAIN ballots : ballots[i].state \in among}
    BY DEF Where
  <2>2. of(among) = {ballots[i] : i \in at(among)}
    BY <2>1 DEF ToSet
  <2>3. IsFiniteSet(at(among))
    BY <1>1, <1>2, <2>1, FS_Subset
  <2>4. \A i, j \in at(among) : ballots[i] = ballots[j] => i = j
    BY <1>3, <2>1
  <2> HIDE DEF at, of, ballots
  <2>5. Cardinality(of(among)) = Cardinality(at(among)) /\ Cardinality(of(among)) \in Nat
    BY <2>2, <2>3, <2>4, ImageCount
  <2>6. Cardinality(at(among)) = 0 <=> at(among) = {}
    BY <2>3, FS_EmptySet
  <2> QED BY <2>3, <2>5, <2>6
<1> DEFINE again == ReduceTrialSet(named, r.threshold[1], r.threshold[2])
<1>5. r.exercised = again.exercised /\ r.caught = again.caught
  BY DEF ReductionRecomputed, ReduceVotes
<1>6. /\ again.exercised = (at(Voted) # {})
      /\ again.caught = Majority(named, r.threshold[1], r.threshold[2])
  BY DEF ReduceTrialSet
<1>7. Majority(named, r.threshold[1], r.threshold[2]) <=>
         /\ at(Voted) # {}
         /\ r.threshold[2] * Cardinality(at({"caught"})) > r.threshold[1] * Cardinality(at(Voted))
  BY DEF Majority
<1>8. PICK num, den \in Nat : r.threshold[1] = num /\ r.threshold[2] = den
  OBVIOUS
<1>9. PICK c, v \in Nat : /\ Cardinality(of({"caught"})) = c /\ Cardinality(of(Voted)) = v
                          /\ Cardinality(at({"caught"})) = c /\ Cardinality(at(Voted)) = v
  BY <1>4
<1> HIDE DEF again, at, of, named
<1>10. r.exercised <=> v > 0
  BY <1>4, <1>5, <1>6, <1>9
<1>11. r.exercised => (r.caught <=> c * den > v * num)
  <2>1. Majority(named, r.threshold[1], r.threshold[2]) <=> at(Voted) # {} /\ den * c > num * v
    BY <1>7, <1>8, <1>9
  <2>2. den * c > num * v <=> c * den > v * num
    OBVIOUS
  <2>3. r.exercised <=> at(Voted) # {}
    BY <1>5, <1>6
  <2>4. r.caught <=> Majority(named, r.threshold[1], r.threshold[2])
    BY <1>5, <1>6
  <2> QED BY <2>1, <2>2, <2>3, <2>4
<1> QED BY <1>8, <1>9, <1>10, <1>11 DEF of, ballots

(* What decides that a floor is met.                                       *)
LEMMA MetMeans ==
    ASSUME NEW floor, NEW class, Decide(floor, class) = "rate-meets-floor"
    PROVE  /\ floor # <<>> /\ class # <<>> /\ class[1].comparable /\ class[1].rate # <<>>
           /\ ~(class[1].exercised < class[1].eligible)
           /\ ~RateAbove(floor, class[1].rate)
BY DEF Decide

(* The floor is met by all that the class counts.                          *)
FloorMet(E, n, policy, floor, class) ==
    LET counted == {i \in 1 .. n : E[i].vector[class] # <<>>}
            ballots(i) == E[i].reduced[1].votes
            cast(i, among) == Cardinality({v \in ToSet(ballots(i)) : v.state \in among})
            caught == {i \in counted : cast(i, {"caught"}) * policy.threshold[2]
                                          > cast(i, Voted) * policy.threshold[1]}
        IN /\ counted # {}
           /\ \A i \in counted :
                 /\ cast(i, Voted) > 0
                 /\ E[i].trials.completed >= policy.minimum
                 /\ \A o \in E[i].outcomes : o.state # "unreached"
                 /\ \A j \in counted \ {i} : E[i].probe # E[j].probe
           /\ Cardinality(caught) * floor[2] >= Cardinality(counted) * floor[1]

(* A set of at most one element.                                           *)
LEMMA OneAtMost ==
    ASSUME NEW T, IsFiniteSet(T), Cardinality(T) <= 1, NEW x \in T, NEW y \in T
    PROVE  x = y
<1> SUFFICES ASSUME x # y PROVE FALSE
  OBVIOUS
<1>1. Cardinality({x, y}) <= Cardinality(T) /\ Cardinality(T) \in Nat
  <2>1. {x, y} \in SUBSET T
    OBVIOUS
  <2> QED BY <2>1, FS_Subset, FS_CardinalityType
<1>2. Cardinality({x, y}) = 2
  <2>1. {x, y} = {x} \cup {y} /\ y \notin {x}
    OBVIOUS
  <2>2. IsFiniteSet({x}) /\ Cardinality({x}) = 1
    BY FS_Singleton
  <2>3. Cardinality({x} \cup {y}) = 1 + 1
    BY <2>1, <2>2, FS_AddElement
  <2>4. Cardinality({x, y}) = Cardinality({x} \cup {y})
    BY <2>1
  <2> QED BY <2>3, <2>4
<1> QED BY <1>1, <1>2

(* A floor that is met, of any artifacts that nothing refuses.             *)
LEMMA FloorOfAll ==
    ASSUME NEW n \in Nat, NEW E, DOMAIN E = 1 .. n, NEW policy, NEW floor,
           NEW class \in StrengthClasses,
           Refusal(E, policy) = "none", policy.threshold \in Nat \X Nat,
           floor # <<>> => floor \in Nat \X Nat,
           \A i \in 1 .. n : IsList(E[i].reduced) /\ IsList(E[i].reduced[1].votes),
           Decide(floor, AggregatedClass(E, class)) = "rate-meets-floor"
    PROVE  FloorMet(E, n, policy, floor, class)
<1> DEFINE counted == {i \in 1 .. n : E[i].vector[class] # <<>>}
           ballots(i) == E[i].reduced[1].votes
           cast(i, among) == Cardinality({v \in ToSet(ballots(i)) : v.state \in among})
           caught == {i \in counted : cast(i, {"caught"}) * policy.threshold[2]
                                         > cast(i, Voted) * policy.threshold[1]}
           members == Members(E, class)
           probes == {a.probe : a \in members}
           reducedOf(probe) == (CHOOSE a \in members : a.probe = probe).reduced[1]
           result == [q \in probes |-> reducedOf(q)]
           exercisedIn == {q \in probes : result[q].exercised}
           caughtIn == {q \in exercisedIn : result[q].caught}
           probeOf == [i \in 1 .. n |-> E[i].probe]
           strength == AggregatedClass(E, class)
<1>1. /\ \A i \in 1 .. n : AgreesWithItself(E[i]) /\ ScoredUnder(E[i], policy)
      /\ \A i, j \in 1 .. n : E[i].probe = E[j].probe => i = j
  BY DEF Refusal, Agree, IsInjective
(* Who counts. *)
<1>2. ASSUME NEW i \in 1 .. n PROVE ClassOf(E[i]) = class <=> i \in counted
  <2> DEFINE classes == ClassesOf(E[i])
  <2>1. /\ classes \subseteq StrengthClasses /\ IsFiniteSet(StrengthClasses)
        /\ class \in classes <=> E[i].vector[class] # <<>>
    <3>1. IsFiniteSet(StrengthClasses)
      <4>1. StrengthClasses = ({"defect"} \cup {"gameability"}) \cup {"zero-action"}
        BY DEF StrengthClasses
      <4>2. IsFiniteSet({"defect"} \cup {"gameability"})
        BY FS_Singleton, FS_AddElement
      <4> QED BY <4>1, <4>2, FS_AddElement
    <3> QED BY <3>1 DEF ClassesOf
  <2>2. Cardinality(classes) <= 1
    BY <1>1 DEF AgreesWithItself, VectorFollows
  <2>3. \A x, y \in classes : x = y
    <3> HIDE DEF classes
    <3> QED BY <2>1, <2>2, FS_Subset, OneAtMost
  <2>4. ClassOf(E[i]) = class <=> class \in classes
    <3>1. class # "none"
      BY DEF StrengthClasses
    <3> QED BY <2>3, <3>1 DEF ClassOf
  <2> QED BY <2>1, <2>4
<1>3. members = {E[i] : i \in counted}
  BY <1>2 DEF Members, ToSet
<1>4. probes = {probeOf[i] : i \in counted}
  <2> HIDE DEF members
  <2> QED BY <1>3
<1>5. \A i \in counted : result[E[i].probe] = E[i].reduced[1]
  <2> SUFFICES ASSUME NEW i \in counted PROVE result[E[i].probe] = E[i].reduced[1]
    OBVIOUS
  <2>1. E[i].probe \in probes /\ E[i] \in members
    BY <1>3
  <2>2. \A a \in members : a.probe = E[i].probe => a = E[i]
    BY <1>1, <1>3
  <2> HIDE DEF members
  <2>3. (CHOOSE a \in members : a.probe = E[i].probe) = E[i]
    BY <2>1, <2>2
  <2>4. result[E[i].probe] = reducedOf(E[i].probe)
    BY <2>1
  <2> QED BY <2>3, <2>4
<1>6. /\ IsFiniteSet(counted)
      /\ IsFiniteSet(probes) /\ Cardinality(probes) = Cardinality(counted)
      /\ Cardinality(members) = Cardinality(counted) /\ Cardinality(counted) \in Nat
  <2>1. IsFiniteSet(counted)
    <3>1. IsFiniteSet(1 .. n)
      BY FS_Interval
    <3> QED BY <3>1, FS_Subset
  <2>2. /\ \A i, j \in counted : probeOf[i] = probeOf[j] => i = j
        /\ \A i, j \in counted : E[i] = E[j] => i = j
    BY <1>1
  <2> HIDE DEF counted, probes, probeOf, members
  <2>3. IsFiniteSet(probes) /\ Cardinality(probes) = Cardinality(counted)
    BY <1>4, <2>1, <2>2, ImageCount
  <2>4. Cardinality(members) = Cardinality(counted) /\ Cardinality(members) \in Nat
    BY <1>3, <2>1, <2>2, ImageCount
  <2> QED BY <2>1, <2>3, <2>4
(* What the decision says of them. *)
<1>7. strength # <<>> => /\ probes # {}
                         /\ strength[1].exercised = Cardinality(exercisedIn)
                         /\ strength[1].caught = Cardinality(caughtIn)
                         /\ strength[1].rate = RateOver(Cardinality(caughtIn), Cardinality(exercisedIn))
                         /\ strength[1].eligible = Cardinality(members)
                         /\ strength[1].comparable = \A a \in members : a.comparable
  <2> DEFINE over == ClassStrengthOver(probes, result)
  <2>1. strength = IF over = <<>> THEN <<>>
                   ELSE << [exercised |-> over[1].exercised, caught |-> over[1].caught,
                            rate |-> over[1].rate, eligible |-> Cardinality(members),
                            comparable |-> \A a \in members : a.comparable] >>
    BY DEF AggregatedClass, StrengthOf
  <2>2. over = IF probes = {} THEN <<>>
               ELSE << [exercised |-> Cardinality(exercisedIn), caught |-> Cardinality(caughtIn),
                        rate |-> RateOver(Cardinality(caughtIn), Cardinality(exercisedIn))] >>
    BY DEF ClassStrengthOver
  <2> HIDE DEF over, strength, members, probes, exercisedIn, caughtIn
  <2> QED BY <2>1, <2>2
<1>8. /\ floor \in Nat \X Nat /\ probes # {}
      /\ \A a \in members : a.comparable
      /\ ~(Cardinality(exercisedIn) < Cardinality(members))
      /\ RateOver(Cardinality(caughtIn), Cardinality(exercisedIn)) # <<>>
      /\ ~RateAbove(floor, RateOver(Cardinality(caughtIn), Cardinality(exercisedIn)))
  <2>1. /\ floor # <<>> /\ strength # <<>> /\ strength[1].comparable /\ strength[1].rate # <<>>
        /\ ~(strength[1].exercised < strength[1].eligible)
        /\ ~RateAbove(floor, strength[1].rate)
    BY MetMeans
  <2> HIDE DEF strength, members, probes, exercisedIn, caughtIn
  <2> QED BY <1>7, <2>1
<1>9. exercisedIn = probes
  <2>1. exercisedIn \in SUBSET probes
    OBVIOUS
  <2> HIDE DEF exercisedIn, probes, members, counted
  <2>2. Cardinality(exercisedIn) <= Cardinality(probes) /\ Cardinality(exercisedIn) \in Nat
    BY <1>6, <2>1, FS_Subset, FS_CardinalityType
  <2> QED BY <1>6, <1>8, <2>1, <2>2, FS_Subset
<1>10. \A i \in counted : E[i].reduced[1].exercised /\ E[i].comparable
  <2>1. \A i \in counted : E[i].probe \in probes /\ E[i] \in members
    BY <1>3
  <2> QED BY <1>5, <1>8, <1>9, <2>1
<1>11. ASSUME NEW i \in counted
       PROVE  /\ cast(i, Voted) > 0
              /\ E[i].reduced[1].caught <=>
                    cast(i, {"caught"}) * policy.threshold[2] > cast(i, Voted) * policy.threshold[1]
  <2> DEFINE r == E[i].reduced[1]
  <2>1. 1 \in DOMAIN E[i].reduced
    <3>1. Len(E[i].reduced) = 1
      BY <1>1 DEF AgreesWithItself, ReductionConsistent, ReducedIsTheScoredProbe
    <3> QED BY <3>1, ListIs
  <2>2. VotesWitnessed(E[i], r) /\ ReductionRecomputed(r)
    BY <1>1, <2>1 DEF AgreesWithItself, ReductionConsistent
  <2>3. r.threshold = policy.threshold
    BY <1>1 DEF ScoredUnder
  <2>4. r.exercised /\ IsList(r.votes)
    BY <1>10
  <2> HIDE DEF r
  <2> DEFINE of(among) == Cardinality({v \in ToSet(r.votes) : v.state \in among})
  <2>5. /\ r.exercised <=> of(Voted) > 0
        /\ r.exercised =>
              (r.caught <=> of({"caught"}) * r.threshold[2] > of(Voted) * r.threshold[1])
    BY <2>2, <2>3, <2>4, VotesCounted
  <2> QED BY <2>3, <2>4, <2>5 DEF r
<1>12. Cardinality(caught) = Cardinality(caughtIn) /\ Cardinality(caught) \in Nat
  <2>1. caughtIn = {probeOf[i] : i \in caught}
    <3>1. caughtIn = {q \in probes : result[q].caught}
      BY <1>9
    <3>2. caught = {i \in counted : E[i].reduced[1].caught}
      BY <1>11
    <3> HIDE DEF result, probes, counted, caught, caughtIn
    <3>3. \A i \in counted : probeOf[i] = E[i].probe
      BY DEF counted
    <3> HIDE DEF probeOf
    <3> QED BY <1>4, <1>5, <3>1, <3>2, <3>3
  <2>2. /\ \A i, j \in caught : probeOf[i] = probeOf[j] => i = j
        /\ caught \in SUBSET counted
    BY <1>1
  <2> HIDE DEF counted, caught, caughtIn, probeOf
  <2>3. IsFiniteSet(caught)
    BY <1>6, <2>2, FS_Subset
  <2> QED BY <2>1, <2>2, <2>3, ImageCount
<1>13. Cardinality(caught) * floor[2] >= Cardinality(counted) * floor[1]
  <2>1. PICK num, den \in Nat : floor[1] = num /\ floor[2] = den
    BY <1>8
  <2> HIDE DEF counted, caught, caughtIn, exercisedIn, probes
  <2>2. PICK c, m \in Nat : /\ Cardinality(caught) = c /\ Cardinality(caughtIn) = c
                            /\ Cardinality(counted) = m /\ Cardinality(exercisedIn) = m
    BY <1>6, <1>9, <1>12
  <2>3. RateOver(c, m) = <<c, m>>
    BY <1>8, <2>2 DEF RateOver
  <2>4. ~(num * m > c * den)
    BY <1>8, <2>1, <2>2, <2>3 DEF RateAbove
  <2>5. c * den >= m * num
    BY <2>4
  <2> QED BY <2>1, <2>2, <2>5
<1>14. counted # {}
  BY <1>4, <1>8
<1>15. ASSUME NEW i \in counted
       PROVE  /\ E[i].trials.completed >= policy.minimum
              /\ \A o \in E[i].outcomes : o.state # "unreached"
              /\ \A j \in counted \ {i} : E[i].probe # E[j].probe
  <2>1. IsComparable(E[i].trials, E[i].outcomes)
    BY <1>1, <1>10 DEF AgreesWithItself
  <2>2. E[i].trials.minimum = policy.minimum
    BY <1>1 DEF ScoredUnder
  <2> QED BY <1>1, <2>1, <2>2 DEF IsComparable
<1> QED BY <1>11, <1>13, <1>14, <1>15 DEF FloorMet

(* What aggregate-strength minted, and of what.                            *)
LEMMA MintedAggregate ==
    ASSUME AnswerInvariant, NEW p \in Procs, Minted(p, "aggregate-strength")
    PROVE  LET evidence == Read(p, "--evidence")
               floors == Read(p, "--floors")[1]
               policy == Read(p, "--policy")[1]
               artifacts == [i \in DOMAIN evidence |-> evidence[i].value]
           IN /\ Running(p) /\ Command(p) = "aggregate-strength" /\ Pending(p) = {}
              /\ IsList(evidence)
              /\ \A i \in DOMAIN evidence : Fits("--evidence", evidence[i].value)
              /\ Fits("--floors", floors.value) /\ Fits("--policy", policy.value)
              /\ Refusal(artifacts, policy.value) = "none"
              /\ MintedBy(p) = Aggregate(artifacts, floors.value, policy.value)
<1> DEFINE evidence == Read(p, "--evidence")
           floors == Read(p, "--floors")[1]
           policy == Read(p, "--policy")[1]
           artifacts == [i \in DOMAIN evidence |-> evidence[i].value]
           arrived == [i \in DOMAIN evidence |-> evidence[i].arrives]
           faults == <<ArrayFault(arrived), ParseFault(floors.arrives), InputFault(policy.arrives)>>
           minted == Aggregate(artifacts, floors.value, policy.value)
<1>1. /\ Running(p) /\ Command(p) = "aggregate-strength" /\ returned[p].artifact # <<>>
      /\ Pending(p) = {} /\ returned[p] = AggregateResult(p)
      /\ CommandLineInvariant /\ GotInv(p)
  BY DEF AnswerInvariant, Minted, AnsweredInv
<1>2. AggregateResult(p) =
         IF FirstFault(faults) # "none" THEN Rejected(Fault)
         ELSE IF Refusal(artifacts, policy.value) # "none" THEN Rejected(StructuralFailure)
         ELSE [exit |-> 0, artifact |-> <<minted>>]
  BY DEF AggregateResult
<1> HIDE DEF minted, artifacts, faults, policy
<1>3. /\ FirstFault(faults) = "none" /\ Refusal(artifacts, policy.value) = "none"
      /\ returned[p].artifact = <<minted>>
  BY <1>1, <1>2 DEF Rejected
<1>4. MintedBy(p) = minted
  BY <1>3 DEF MintedBy
<1>5. \A flag \in {"--evidence", "--floors", "--policy"} :
         /\ IsList(Read(p, flag)) /\ 1 \in DOMAIN Read(p, flag)
         /\ \A k \in DOMAIN Read(p, flag) :
               Read(p, flag)[k].arrives.fits => Fits(flag, Read(p, flag)[k].value)
  BY <1>1, ReadFits, ScoreKeys
<1>6. /\ ArrayFault(arrived) = "none" /\ ParseFault(floors.arrives) = "none"
      /\ InputFault(policy.arrives) = "none"
  <2>1. /\ DOMAIN faults = 1 .. 3 /\ faults[1] = ArrayFault(arrived)
        /\ faults[2] = ParseFault(floors.arrives) /\ faults[3] = InputFault(policy.arrives)
    BY DEF faults
  <2>2. DOMAIN faults \in SUBSET Nat /\ 1 \in 1 .. 3 /\ 2 \in 1 .. 3 /\ 3 \in 1 .. 3
    BY <2>1
  <2>3. \A i \in DOMAIN faults : faults[i] = "none"
    BY <1>3, <2>2, FirstFaultIs
  <2> QED BY <2>1, <2>2, <2>3
<1>7. IsList(evidence) /\ \A i \in DOMAIN evidence : Fits("--evidence", evidence[i].value)
  <2>1. IsList(evidence)
    BY <1>5
  <2>2. ArrivalFault(evidence) = "none"
    BY <1>6 DEF ArrivalFault
  <2>3. \A i \in DOMAIN evidence : evidence[i].arrives.fits
    BY <2>1, <2>2, ArrivedFits
  <2> QED BY <1>5, <2>1, <2>3
<1>8. Fits("--floors", floors.value)
  <2>1. floors.arrives.fits
    BY <1>6 DEF ParseFault
  <2> QED BY <1>5, <2>1
<1>9. Fits("--policy", policy.value)
  <2> DEFINE only == <<policy.arrives>>
  <2>1. IsList(only) /\ 1 \in DOMAIN only /\ only[1] = policy.arrives
    BY SingleIsList
  <2>2. ArrayFault(only) = "none"
    BY <1>6 DEF InputFault
  <2> HIDE DEF only
  <2>3. policy.arrives.fits
    BY <2>1, <2>2, ArrayFaultIs
  <2> QED BY <1>5, <2>3 DEF policy
<1> QED BY <1>1, <1>3, <1>4, <1>7, <1>8, <1>9 DEF minted, artifacts, policy

(* Whatever aggregate-strength minted, a floor it says is met is earned.   *)
LEMMA FloorEarned ==
    ASSUME AnswerInvariant
    PROVE  FloorMeansAll
<1> SUFFICES ASSUME NEW p \in Procs, Minted(p, "aggregate-strength"),
                    NEW class \in StrengthClasses,
                    MintedBy(p).floors[class] = "rate-meets-floor"
             PROVE  LET evidence == Read(p, "--evidence")
                        policy == Read(p, "--policy")[1].value
                        floors == Read(p, "--floors")[1].value
                        counted == {i \in DOMAIN evidence : evidence[i].value.vector[class] # <<>>}
                        ballots(i) == evidence[i].value.reduced[1].votes
                        cast(i, among) == Cardinality({v \in ToSet(ballots(i)) : v.state \in among})
                        caught == {i \in counted :
                                     cast(i, {"caught"}) * policy.threshold[2]
                                         > cast(i, Voted) * policy.threshold[1]}
                    IN /\ counted # {}
                       /\ \A i \in counted :
                             /\ cast(i, Voted) > 0
                             /\ evidence[i].value.trials.completed >= policy.minimum
                             /\ \A o \in evidence[i].value.outcomes : o.state # "unreached"
                             /\ \A j \in counted \ {i} :
                                   evidence[i].value.probe # evidence[j].value.probe
                       /\ Cardinality(caught) * floors[class][2]
                             >= Cardinality(counted) * floors[class][1]
  BY DEF FloorMeansAll
<1> DEFINE evidence == Read(p, "--evidence")
           policy == Read(p, "--policy")[1].value
           floors == Read(p, "--floors")[1].value
           E == [i \in DOMAIN evidence |-> evidence[i].value]
           n == Len(evidence)
<1>1. /\ IsList(evidence) /\ Refusal(E, policy) = "none"
      /\ \A i \in DOMAIN evidence : Fits("--evidence", evidence[i].value)
      /\ Fits("--floors", floors) /\ Fits("--policy", policy)
      /\ MintedBy(p) = Aggregate(E, floors, policy)
  BY MintedAggregate
<1> HIDE DEF evidence, policy, floors
<1>2. n \in Nat /\ DOMAIN evidence = 1 .. n
  BY <1>1, ListIs
<1>3. DOMAIN E = 1 .. n /\ \A i \in 1 .. n : E[i] = evidence[i].value
  BY <1>2
<1> HIDE DEF E, n
<1>4. Decide(floors[class], AggregatedClass(E, class)) = "rate-meets-floor"
  BY <1>1 DEF Aggregate
<1>5. /\ policy.threshold \in Nat \X Nat
      /\ floors[class] # <<>> => floors[class] \in Nat \X Nat
  BY <1>1 DEF Fits
<1>6. \A i \in 1 .. n : IsList(E[i].reduced) /\ IsList(E[i].reduced[1].votes)
  <2> SUFFICES ASSUME NEW i \in 1 .. n
               PROVE  IsList(E[i].reduced) /\ IsList(E[i].reduced[1].votes)
    OBVIOUS
  <2>1. IsList(E[i].reduced) /\ \A k \in DOMAIN E[i].reduced : IsList(E[i].reduced[k].votes)
    BY <1>1, <1>2, <1>3 DEF Fits, IsList
  <2>2. AgreesWithItself(E[i])
    BY <1>1, <1>3 DEF Refusal
  <2>3. Len(E[i].reduced) = 1
    BY <2>2 DEF AgreesWithItself, ReductionConsistent, ReducedIsTheScoredProbe
  <2>4. 1 \in DOMAIN E[i].reduced
    BY <2>1, <2>3, ListIs
  <2> QED BY <2>1, <2>4
<1> DEFINE counted == {i \in 1 .. n : E[i].vector[class] # <<>>}
           ballots(i) == E[i].reduced[1].votes
           cast(i, among) == Cardinality({v \in ToSet(ballots(i)) : v.state \in among})
           caught == {i \in counted : cast(i, {"caught"}) * policy.threshold[2]
                                         > cast(i, Voted) * policy.threshold[1]}
<1>7. /\ counted # {}
      /\ \A i \in counted :
            /\ cast(i, Voted) > 0
            /\ E[i].trials.completed >= policy.minimum
            /\ \A o \in E[i].outcomes : o.state # "unreached"
            /\ \A j \in counted \ {i} : E[i].probe # E[j].probe
      /\ Cardinality(caught) * floors[class][2] >= Cardinality(counted) * floors[class][1]
  <2> DEFINE floor == floors[class]
  <2> HIDE DEF floor
  <2>1. /\ n \in Nat /\ DOMAIN E = 1 .. n /\ class \in StrengthClasses
        /\ Refusal(E, policy) = "none" /\ policy.threshold \in Nat \X Nat
        /\ floor # <<>> => floor \in Nat \X Nat
        /\ Decide(floor, AggregatedClass(E, class)) = "rate-meets-floor"
    BY <1>1, <1>2, <1>3, <1>4, <1>5 DEF floor
  <2>2. FloorMet(E, n, policy, floor, class)
    BY <1>6, <2>1, FloorOfAll
  <2> QED BY <2>2 DEF floor, FloorMet
<1>8. counted = {i \in DOMAIN evidence : evidence[i].value.vector[class] # <<>>}
  BY <1>2, <1>3
<1>9. caught = {i \in counted :
                  Cardinality({v \in ToSet(evidence[i].value.reduced[1].votes) :
                                  v.state \in {"caught"}}) * policy.threshold[2]
                      > Cardinality({v \in ToSet(evidence[i].value.reduced[1].votes) :
                                  v.state \in Voted}) * policy.threshold[1]}
  BY <1>3
<1> HIDE DEF counted, caught
<1>10. \A i \in counted : i \in 1 .. n /\ E[i] = evidence[i].value
  BY <1>3 DEF counted
<1>11. \A i \in counted :
          /\ Cardinality({v \in ToSet(evidence[i].value.reduced[1].votes) : v.state \in Voted}) > 0
          /\ evidence[i].value.trials.completed >= policy.minimum
          /\ \A o \in evidence[i].value.outcomes : o.state # "unreached"
          /\ \A j \in counted \ {i} : evidence[i].value.probe # evidence[j].value.probe
  BY <1>7, <1>10
<1> QED BY <1>7, <1>8, <1>9, <1>11 DEF evidence, policy, floors

(* Whatever the processes are and however they interleave, what is said of *)
(* an evaluator's strength was measured (aggregate-strength.ts and         *)
(* strength.ts): a floor that is met is met by all probes that count, and  *)
(* a dominance is one by catches.                                          *)
THEOREM StrengthEarnedHolds == Spec => []StrengthEarned
<1>1. AnswerInvariant => StrengthEarned
  BY FloorEarned, DominanceEarned DEF StrengthEarned
<1> QED BY <1>1, AnswersHold, PTL

-----------------------------------------------------------------------------
(* What an evidence artifact rests on (application/score.ts, ladder.ts).   *)

(* The trials are the records in another order, each of them once.         *)
LEMMA TrialsAre ==
    ASSUME NEW o, IsList(o.records), \A k \in DOMAIN o.records : o.records[k].value.trial \in Int
    PROVE  /\ DOMAIN Trials(o) = DOMAIN o.records
           /\ \A k \in DOMAIN o.records : \E i \in DOMAIN o.records : Trials(o)[k] = o.records[i].value
           /\ \E place : \A i \in DOMAIN o.records :
                 /\ place[i] \in DOMAIN o.records /\ Trials(o)[place[i]] = o.records[i].value
                 /\ \A j \in DOMAIN o.records : place[i] = place[j] => i = j
<1> DEFINE n == Len(o.records)
           S == DOMAIN o.records
           key == [i \in S |-> o.records[i].value.trial]
           at == InOrder(S, key)
           place == [i \in S |-> Cardinality(Before(S, key, i)) + 1]
<1>1. n \in Nat /\ S = 1 .. n
  BY ListIs
<1>2. IsFiniteSet(S) /\ Cardinality(S) = n /\ S \in SUBSET Nat
  <2>1. IsFiniteSet(1 .. n) /\ Cardinality(1 .. n) = n
    BY <1>1, FS_Interval
  <2> QED BY <1>1, <2>1
<1>3. \A i \in S : key[i] \in Int
  OBVIOUS
<1> HIDE DEF S, key
<1>4. /\ \A k \in 1 .. n : at[k] \in S
      /\ \A i \in S : place[i] \in 1 .. n /\ at[place[i]] = i
  <2>1. /\ \A k \in 1 .. Cardinality(S) : at[k] \in S
        /\ \A i \in S : /\ Cardinality(Before(S, key, i)) + 1 \in 1 .. Cardinality(S)
                        /\ at[Cardinality(Before(S, key, i)) + 1] = i
    BY <1>2, <1>3, InOrderHolds
  <2> QED BY <1>2, <2>1
<1>5. Trials(o) = [k \in S |-> o.records[at[k]].value]
  BY DEF Trials, S, key
<1> HIDE DEF place, at
<1>6. \A k \in S : Trials(o)[k] = o.records[at[k]].value /\ at[k] \in S
  BY <1>1, <1>4, <1>5
<1>7. \A i \in S : /\ place[i] \in S /\ Trials(o)[place[i]] = o.records[i].value
                   /\ \A j \in S : place[i] = place[j] => i = j
  BY <1>1, <1>4, <1>6
<1>8. DOMAIN Trials(o) = S
  BY <1>5
<1> QED BY <1>6, <1>7, <1>8 DEF S

(* Every trial has an outcome for every oracle, and there are no others.   *)
LEMMA ResolvedAre ==
    ASSUME NEW o, IsList(o.records), IsList(o.contract.value.oracles)
    PROVE  \A r : r \in ResolvedOf(o) <=>
              \E k \in DOMAIN o.records, j \in DOMAIN o.contract.value.oracles :
                 LET oracle == o.contract.value.oracles[j]
                     in == OutcomeInputs(o, Trials(o)[k], oracle)
                 IN r = OutcomeOf(o, Trials(o)[k], oracle, ResolveOutcome(in))
<1> DEFINE n == Len(o.records)
           oracles == o.contract.value.oracles
           m == Len(oracles)
           each == EachOf(o)
           outcome(k, j) == OutcomeOf(o, Trials(o)[k], oracles[j],
                                ResolveOutcome(OutcomeInputs(o, Trials(o)[k], oracles[j])))
<1>1. n \in Nat /\ DOMAIN o.records = 1 .. n /\ m \in Nat /\ DOMAIN oracles = 1 .. m
  BY ListIs
<1>2. each = [k \in 1 .. n |-> Resolutions(o, Trials(o)[k])]
  BY <1>1 DEF EachOf
<1>3. each = [k \in 1 .. n |-> each[k]]
  BY <1>2
<1>4. IsList(each) /\ DOMAIN each = 1 .. n
  <2> HIDE DEF each, n
  <2> QED BY <1>1, <1>3, PlacesAreList
<1>5. ASSUME NEW k \in 1 .. n
      PROVE  IsList(each[k]) /\ \A r : r \in ToSet(each[k]) <=> \E j \in 1 .. m : r = outcome(k, j)
  <2> DEFINE row == Resolutions(o, Trials(o)[k])
  <2>1. row = [j \in 1 .. m |-> outcome(k, j)]
    BY <1>1 DEF Resolutions
  <2> HIDE DEF outcome
  <2>2. row = [j \in 1 .. m |-> row[j]] /\ DOMAIN row = 1 .. m
        /\ \A j \in 1 .. m : row[j] = outcome(k, j)
    BY <2>1
  <2>3. each[k] = row
    BY <1>2
  <2> HIDE DEF row, each
  <2>4. IsList(row)
    BY <1>1, <2>2, PlacesAreList
  <2>5. \A r : r \in ToSet(row) <=> \E j \in 1 .. m : r = outcome(k, j)
    BY <2>2 DEF ToSet
  <2> QED BY <2>3, <2>4, <2>5
<1> HIDE DEF each, outcome
<1>6. \A r : r \in ToSet(FlattenSeq(each)) <=> \E k \in 1 .. n : r \in ToSet(each[k])
  BY <1>4, <1>5, FlattenHolds
<1>7. \A r : r \in ToSet(FlattenSeq(each)) <=> \E k \in 1 .. n, j \in 1 .. m : r = outcome(k, j)
  <2>1. \A k \in 1 .. n : \A r : r \in ToSet(each[k]) <=> \E j \in 1 .. m : r = outcome(k, j)
    BY <1>5
  <2> HIDE DEF n, m
  <2>2. ASSUME NEW r, r \in ToSet(FlattenSeq(each))
        PROVE  \E k \in 1 .. n, j \in 1 .. m : r = outcome(k, j)
    <3>1. PICK k \in 1 .. n : r \in ToSet(each[k])
      BY <1>6, <2>2
    <3>2. PICK j \in 1 .. m : r = outcome(k, j)
      BY <2>1, <3>1
    <3> QED BY <3>2
  <2>3. ASSUME NEW k \in 1 .. n, NEW j \in 1 .. m
        PROVE  outcome(k, j) \in ToSet(FlattenSeq(each))
    <3>1. outcome(k, j) \in ToSet(each[k])
      BY <2>1
    <3> QED BY <1>6, <3>1
  <2> QED BY <2>2, <2>3
<1> QED BY <1>1, <1>7 DEF ResolvedOf, each, outcome

(* On any rung but the invalid one, no row of that one fired.              *)
LEMMA NothingInvalid ==
    ASSUME NEW o, RungReached(o) # "invalid"
    PROVE  /\ IntegrityRows(o) = {} /\ o.preflight.value.passed
           /\ \A r \in ResolvedOf(o) : /\ r.state \notin Invalidating
                                       /\ "disposition-missing" \notin r.conditions
<1> DEFINE a == AssessedOf(o)
<1>1. InvalidRows(a) = {}
  <2> HIDE DEF a
  <2> QED BY InvalidDecides DEF RungReached, a
<1>2. /\ a.integrity = IntegrityRows(o) /\ a.outcomes = ResolvedOf(o)
      /\ a.preflight = o.preflight.value.passed
  BY DEF AssessedOf, AssessmentOf
<1> HIDE DEF a
<1>3. /\ a.integrity = {} /\ a.preflight
      /\ ~\E r \in a.outcomes : r.state \in Invalidating
      /\ ~\E r \in a.outcomes : "disposition-missing" \in r.conditions
  BY <1>1 DEF InvalidRows, When
<1> QED BY <1>2, <1>3

(* When nothing that ingest looks for fired, no record shows any of it.    *)
LEMMA NothingIngested ==
    ASSUME NEW o, IntegrityRows(o) = {}
    PROVE  /\ \A k \in DOMAIN o.records :
                 IngestConditions(Trials(o)[k], Present(o.manifest), Present(o.configuration)) = {}
           /\ ~TrialSetDisagrees(o)
<1>1. ~TrialSetDisagrees(o)
  BY DEF IntegrityRows, When
<1>2. ASSUME NEW k \in DOMAIN o.records, NEW kind \in IngestedConditions(o)[k]
      PROVE  FALSE
  <2>1. k \in DOMAIN IngestedConditions(o)
    BY DEF IngestedConditions
  <2> DEFINE all == IngestedConditions(o)
  <2> HIDE DEF all
  <2>2. kind \in UNION ToSet(all)
    BY <2>1 DEF ToSet, all
  <2>3. LadderTarget(kind) \in IntegrityRows(o)
    BY <2>2 DEF IntegrityRows, RecordRows, all
  <2> QED BY <2>3
<1>3. \A k \in DOMAIN o.records :
         IngestedConditions(o)[k] =
            IngestConditions(Trials(o)[k], Present(o.manifest), Present(o.configuration))
  BY DEF IngestedConditions
<1> QED BY <1>1, <1>2, <1>3

(* A record that shows none of it is sincere, and of the manifest and the  *)
(* configuration.                                                          *)
LEMMA NothingShown ==
    ASSUME NEW record, NEW manifest, NEW configuration,
           IngestConditions(record, manifest, configuration) = {}
    PROVE  /\ Sincere(record)
           /\ manifest # <<>> /\ manifest[1].violation = <<>> /\ manifest[1].admitted = {}
           /\ manifest[1].run = record.run
           /\ configuration # <<>> /\ record.configuration = configuration[1]
<1>1. /\ RecordConditions(record) = {} /\ ManifestConditions(record, manifest) = {}
      /\ ConfigurationConditions(record, configuration) = {}
  BY DEF IngestConditions
<1>2. Sincere(record)
  <2>1. /\ ~DanglingFinding(record) /\ ~DanglingDisposition(record)
        /\ UnwitnessedQuotations(record) = {}
    BY <1>1 DEF RecordConditions, When
  <2>2. ASSUME NEW f \in DefectFindings(record), NEW quote \in f.quotes
        PROVE  \E seen \in ToSet(record.observations) :
                  /\ seen.id \in f.cites /\ quote[1] \in DOMAIN seen.shows
                  /\ quote[2] \in seen.shows[quote[1]]
    <3>1. \E seen \in Cited(record, f) : quote[2] \in Shown(seen, quote[1])
      BY <2>1 DEF UnwitnessedQuotations
    <3> QED BY <3>1 DEF Cited, Shown
  <2> QED BY <2>1, <2>2 DEF Sincere, DanglingFinding, DanglingDisposition, DeclaredIds
<1>3. /\ manifest # <<>> /\ manifest[1].violation = <<>> /\ manifest[1].admitted = {}
      /\ manifest[1].run = record.run
  BY <1>1 DEF ManifestConditions, When, IsolationBroken, Disagrees
<1>4. configuration # <<>> /\ record.configuration = configuration[1]
  BY <1>1 DEF ConfigurationConditions, When
<1> QED BY <1>2, <1>3, <1>4

(* What is present, of an artifact that may be absent.                     *)
LEMMA PresentIs ==
    ASSUME NEW artifact, IsList(artifact), Present(artifact) # <<>>
    PROVE  artifact # <<>> /\ Present(artifact)[1] = artifact[1].value
<1>1. artifact # <<>>
  <2> SUFFICES ASSUME artifact = <<>> PROVE Present(artifact) = <<>>
    OBVIOUS
  <2>1. DOMAIN artifact = 1 .. 0
    OBVIOUS
  <2>2. Present(artifact) = [i \in 1 .. 0 |-> Present(artifact)[i]]
    BY <2>1 DEF Present
  <2>3. IsList(Present(artifact)) /\ Len(Present(artifact)) = 0
    BY <2>2, PlacesAreList
  <2> QED BY <2>3, EmptySeq DEF IsList
<1>2. 1 \in DOMAIN artifact
  BY <1>1, ListBegins
<1> QED BY <1>1, <1>2 DEF Present

(* The disposition and the state of an outcome, from the record.           *)
LEMMA OutcomeShows ==
    ASSUME NEW o, NEW record, NEW oracle
    PROVE  LET in == OutcomeInputs(o, record, oracle)
               r == OutcomeOf(o, record, oracle, ResolveOutcome(in))
           IN /\ r.oracle = oracle /\ r.trial = record.trial
              /\ "disposition-missing" \notin r.conditions => Len(DispositionsOf(record, oracle)) = 1
              /\ ~QualifiesIn(o) => r.state \in Invalidating
              /\ ~o.probe.value.clean => r.state \notin CleanControlOnly
<1> DEFINE in == OutcomeInputs(o, record, oracle)
           resolution == ResolveOutcome(in)
           r == OutcomeOf(o, record, oracle, resolution)
<1>1. /\ r.oracle = oracle /\ r.trial = record.trial
      /\ r.state = resolution.state /\ r.conditions = resolution.conditions
  BY DEF OutcomeOf
<1>2. /\ in.required = TRUE /\ in.fault = FALSE
      /\ in.clean = o.probe.value.clean /\ in.qualified = QualifiesIn(o)
      /\ Len(DispositionsOf(record, oracle)) # 1 => in.disposition = "none"
  BY DEF OutcomeInputs
<1> HIDE DEF in, r
<1>3. ASSUME in.required, in.disposition = "none"
      PROVE  "disposition-missing" \in InvalidatingConditions(in)
  <2> DEFINE rows == ConditionRows(in)
  <2>1. DOMAIN rows = 1 .. 10
    BY DEF ConditionRows
  <2>2. /\ rows[10].id = "disposition-missing"
        /\ rows[10].holds = (in.required /\ in.disposition = "none")
    BY DEF ConditionRows
  <2> HIDE DEF rows
  <2>3. rows[10].holds <=> (in.required /\ in.disposition = "none")
    BY <2>2
  <2>4. 10 \in {j \in DOMAIN rows : rows[j].holds}
    BY <1>3, <2>1, <2>3
  <2>5. rows[10] \in {rows[i] : i \in {j \in DOMAIN rows : rows[j].holds}}
    BY <2>4
  <2>6. rows[10].id \in {row.id : row \in {rows[i] : i \in {j \in DOMAIN rows : rows[j].holds}}}
    BY <2>5
  <2> QED BY <2>2, <2>6 DEF InvalidatingConditions, rows
<1>4. PICK i \in 1 .. 20 : Decides(in, i)
  BY RuleTableTotal
<1>5. /\ FirstMatch(RuleRows(in)).state = RuleRows(in)[i].state
      /\ RuleRows(in)[i].holds
      /\ \A j \in 1 .. (i - 1) : ~RuleRows(in)[j].holds
  BY <1>4 DEF Decides
<1>6. ASSUME ~in.qualified PROVE resolution.state \in Invalidating
  <2>1. RuleRows(in)[3].holds
    BY <1>6, RowGuards DEF ProbeUnqualified
  <2>2. i \in 1 .. 3
    BY <1>5, <2>1
  <2>3. RuleRows(in)[i].state \in Invalidating
    BY <2>2, RowStates DEF Invalidating
  <2> QED BY <1>5, <2>3, WaiverSparesInvalid
<1>7. ASSUME ~in.clean PROVE resolution.state \notin CleanControlOnly
  <2>1. i # 11 /\ i # 12
    BY <1>5, <1>7, RowGuards DEF CleanControlFalsePositive, CleanControlPassed
  <2>2. RuleRows(in)[i].state \notin CleanControlOnly
    BY <2>1, RowStates DEF CleanControlOnly
  <2> QED BY <1>5, <2>2 DEF ResolveOutcome, WaivedState, CleanControlOnly
<1>8. resolution.conditions = InvalidatingConditions(in)
  BY DEF ResolveOutcome
<1> HIDE DEF resolution
<1> QED BY <1>1, <1>2, <1>3, <1>6, <1>7, <1>8 DEF in, r, resolution

(* What score minted rests on its records.                                 *)
LEMMA MintedRests ==
    ASSUME AnswerInvariant
    PROVE  MintedRestsOnRecords
<1> SUFFICES ASSUME NEW p \in Procs, Minted(p, "score")
             PROVE  LET o == ScoreOptions(p)
                        records == [i \in DOMAIN o.records |-> o.records[i].value]
                    IN /\ o.preflight.value.passed
                       /\ o.manifest # <<>> /\ o.configuration # <<>>
                       /\ LET manifest == o.manifest[1].value IN
                          /\ manifest.violation = <<>> /\ manifest.admitted = {}
                          /\ \A i, j \in DOMAIN records :
                                /\ Sincere(records[i])
                                /\ i # j => records[i].trial # records[j].trial
                                /\ records[i].contract = o.contract.value.digest
                                /\ records[i].configuration = o.configuration[1].value
                                /\ manifest.run = records[i].run
                                /\ \A oracle \in ToSet(o.contract.value.oracles) :
                                      Len(DispositionsOf(records[i], oracle)) = 1
                                /\ \A outcome \in MintedBy(p).outcomes :
                                      outcome.state \notin Invalidating
  BY DEF MintedRestsOnRecords
<1> DEFINE o == ScoreOptions(p)
           e == MintedBy(p)
           manifest == Present(o.manifest)
           configuration == Present(o.configuration)
<1>1. /\ Running(p) /\ Command(p) = "score" /\ Pending(p) = {} /\ IntakeFault(o) = "none"
      /\ Scored(o).artifact # <<>> /\ e = Scored(o).artifact[1]
      /\ CommandLineInvariant /\ GotInv(p)
  BY MintedScore DEF AnswerInvariant
<1>2. /\ IsList(o.records) /\ o.records # <<>>
      /\ \A k \in DOMAIN o.records : o.records[k].value.trial \in Int
      /\ IsList(o.contract.value.oracles)
  BY <1>1, OptionsFit
<1>3. IsList(o.manifest) /\ IsList(o.configuration)
  BY <1>1, ReadFits DEF ScoreOptions
<1> HIDE DEF o
<1>4. /\ RungReached(o) # "invalid"
      /\ e.outcomes = {[trial |-> r.trial, oracle |-> r.oracle,
                        probe |-> o.probe.value.id, state |-> r.state,
                        severity |-> ProbeSeverity(o)] : r \in ResolvedOf(o)}
  BY <1>1, EvidenceIs
<1> HIDE DEF e, manifest, configuration
<1>5. /\ IntegrityRows(o) = {} /\ o.preflight.value.passed
      /\ \A r \in ResolvedOf(o) : /\ r.state \notin Invalidating
                                  /\ "disposition-missing" \notin r.conditions
  BY <1>4, NothingInvalid
<1>6. /\ \A k \in DOMAIN o.records : IngestConditions(Trials(o)[k], manifest, configuration) = {}
      /\ ~TrialSetDisagrees(o)
  BY <1>5, NothingIngested DEF manifest, configuration
<1>7. PICK place : \A i \in DOMAIN o.records :
         /\ place[i] \in DOMAIN o.records /\ Trials(o)[place[i]] = o.records[i].value
         /\ \A j \in DOMAIN o.records : place[i] = place[j] => i = j
  BY <1>2, TrialsAre
<1>8. 1 \in DOMAIN o.records
  BY <1>2, ListBegins
<1>9. /\ manifest # <<>> /\ manifest[1].violation = <<>> /\ manifest[1].admitted = {}
      /\ configuration # <<>>
  <2>1. IngestConditions(Trials(o)[place[1]], manifest, configuration) = {}
    BY <1>6, <1>7, <1>8
  <2> QED BY <2>1, NothingShown
<1>10. /\ o.manifest # <<>> /\ manifest[1] = o.manifest[1].value
       /\ o.configuration # <<>> /\ configuration[1] = o.configuration[1].value
  BY <1>3, <1>9, PresentIs DEF manifest, configuration
<1>11. ASSUME NEW i \in DOMAIN o.records
       PROVE  /\ Sincere(o.records[i].value)
              /\ o.records[i].value.contract = o.contract.value.digest
              /\ o.records[i].value.configuration = configuration[1]
              /\ manifest[1].run = o.records[i].value.run
              /\ \A oracle \in ToSet(o.contract.value.oracles) :
                    Len(DispositionsOf(o.records[i].value, oracle)) = 1
  <2> DEFINE k == place[i]
             record == Trials(o)[k]
  <2>1. k \in DOMAIN o.records /\ record = o.records[i].value
    BY <1>7
  <2>2. k \in DOMAIN Trials(o)
    BY <1>2, <2>1, TrialsAre
  <2> HIDE DEF k
  <2>3. record.contract = o.contract.value.digest
    BY <1>6, <2>2 DEF TrialSetDisagrees, ToSet
  <2>4. IngestConditions(record, manifest, configuration) = {}
    BY <1>6, <2>1
  <2>5. ASSUME NEW oracle \in ToSet(o.contract.value.oracles)
        PROVE  Len(DispositionsOf(record, oracle)) = 1
    <3>1. PICK j \in DOMAIN o.contract.value.oracles : oracle = o.contract.value.oracles[j]
      BY DEF ToSet
    <3> DEFINE r == OutcomeOf(o, record, oracle, ResolveOutcome(OutcomeInputs(o, record, oracle)))
    <3>2. r \in ResolvedOf(o)
      BY <1>2, <2>1, <3>1, ResolvedAre
    <3>3. "disposition-missing" \notin r.conditions
      BY <1>5, <3>2
    <3> QED BY <3>3, OutcomeShows
  <2> HIDE DEF record
  <2>6. /\ Sincere(record) /\ record.configuration = configuration[1]
        /\ manifest[1].run = record.run
    BY <2>4, NothingShown
  <2> QED BY <2>1, <2>3, <2>5, <2>6
<1>12. ASSUME NEW i \in DOMAIN o.records, NEW j \in DOMAIN o.records, i # j
       PROVE  o.records[i].value.trial # o.records[j].value.trial
  <2>1. IsInjective([k \in DOMAIN o.records |-> Trials(o)[k].trial])
    BY <1>6 DEF TrialSetDisagrees
  <2>2. \A k, l \in DOMAIN o.records : Trials(o)[k].trial = Trials(o)[l].trial => k = l
    BY <2>1 DEF IsInjective
  <2>3. /\ place[i] \in DOMAIN o.records /\ place[j] \in DOMAIN o.records
        /\ place[i] # place[j]
        /\ Trials(o)[place[i]] = o.records[i].value /\ Trials(o)[place[j]] = o.records[j].value
    BY <1>7, <1>12
  <2> QED BY <2>2, <2>3
<1>13. \A outcome \in e.outcomes : outcome.state \notin Invalidating
  BY <1>4, <1>5
<1> DEFINE records == [i \in DOMAIN o.records |-> o.records[i].value]
<1>14. DOMAIN records = DOMAIN o.records /\ \A i \in DOMAIN o.records : records[i] = o.records[i].value
  OBVIOUS
<1> HIDE DEF records
<1>15. \A i, j \in DOMAIN records :
          /\ Sincere(records[i])
          /\ i # j => records[i].trial # records[j].trial
          /\ records[i].contract = o.contract.value.digest
          /\ records[i].configuration = o.configuration[1].value
          /\ o.manifest[1].value.run = records[i].run
          /\ \A oracle \in ToSet(o.contract.value.oracles) :
                Len(DispositionsOf(records[i], oracle)) = 1
          /\ \A outcome \in e.outcomes : outcome.state \notin Invalidating
  BY <1>10, <1>11, <1>12, <1>13, <1>14
<1>16. /\ o.preflight.value.passed
       /\ o.manifest # <<>> /\ o.configuration # <<>>
       /\ o.manifest[1].value.violation = <<>> /\ o.manifest[1].value.admitted = {}
  BY <1>5, <1>9, <1>10
<1> QED BY <1>15, <1>16 DEF o, e, records

(* What score minted, aggregate-strength takes, the one exception apart.   *)
LEMMA MintedTaken ==
    ASSUME AnswerInvariant
    PROVE  MintedIsAccepted
<1> SUFFICES ASSUME NEW p \in Procs, Minted(p, "score")
             PROVE  \/ Refusal(<<MintedBy(p)>>, Read(p, "--policy")[1].value) = "none"
                    \/ /\ Read(p, "--contract")[1].value.oracles = <<>>
                       /\ MintedBy(p).excluded # {}
  BY DEF MintedIsAccepted
<1> DEFINE o == ScoreOptions(p)
           e == MintedBy(p)
           policy == Read(p, "--policy")[1].value
           oracles == Read(p, "--contract")[1].value.oracles
<1>1. /\ Running(p) /\ Command(p) = "score" /\ Pending(p) = {} /\ IntakeFault(o) = "none"
      /\ Scored(o).artifact # <<>> /\ e = Scored(o).artifact[1]
      /\ ReductionConsistent(e) /\ CommandLineInvariant /\ GotInv(p)
  BY MintedScore DEF AnswerInvariant
<1>2. /\ IsList(o.records) /\ o.records # <<>> /\ IsList(o.contract.value.oracles)
  BY <1>1, OptionsFit
<1>3. o.policy.value = policy /\ o.contract.value.oracles = oracles
  BY DEF ScoreOptions
<1> HIDE DEF o, oracles
<1> HIDE DEF e, policy
<1>4. /\ RungReached(o) # "invalid" /\ e.probe = o.probe.value.id
      /\ e.excluded = {e.probe} \ {q.id : q \in Admitted(o)}
      /\ e.version = e.inputs /\ e.inputs.policy = policy
      /\ e.key = ComparabilityKey(policy, {q.id : q \in Admitted(o)})
      /\ e.trials.minimum = policy.minimum
      /\ e.reduced = <<ReducedOf(o)>>
      /\ e.comparable = IsComparable(e.trials, e.outcomes)
  <2> DEFINE minted == Scored(o).artifact[1]
  <2>1. /\ RungReached(o) # "invalid" /\ minted.probe = o.probe.value.id
        /\ minted.excluded = {o.probe.value.id} \ {q.id : q \in Admitted(o)}
        /\ minted.version = minted.inputs
        /\ minted.key = ComparabilityKey(o.policy.value, {q.id : q \in Admitted(o)})
    BY <1>1, EvidenceIs
  <2>2. /\ minted.inputs.policy = o.policy.value
        /\ minted.trials = [minimum |-> o.policy.value.minimum, completed |-> Len(Trials(o)),
                            attempts |-> [i \in DOMAIN Trials(o) |-> Trials(o)[i].trial],
                            invalidated |-> ReducedOf(o).invalidated]
    BY <1>1, EvidenceIs
  <2>3. /\ minted.reduced = <<ReducedOf(o)>>
        /\ minted.comparable = IsComparable(minted.trials, minted.outcomes)
    BY <1>1, EvidenceIs
  <2>4. minted.trials.minimum = o.policy.value.minimum
    BY <2>2
  <2> HIDE DEF minted
  <2>5. e = minted
    BY <1>1 DEF minted
  <2> QED BY <1>3, <2>1, <2>2, <2>3, <2>4, <2>5
<1>5. e.outcomes = {[trial |-> r.trial, oracle |-> r.oracle,
                     probe |-> o.probe.value.id, state |-> r.state,
                     severity |-> ProbeSeverity(o)] : r \in ResolvedOf(o)}
  BY <1>1, EvidenceIs
<1>6. /\ ~QualifiesIn(o) => Admitted(o) = {}
      /\ QualifiesIn(o) => {q.id : q \in Admitted(o)} = {e.probe}
  <2> DEFINE probe == ProbeScored(o)
  <2>1. probe.id = e.probe
    BY <1>4 DEF ProbeScored
  <2> HIDE DEF probe
  <2>2. Admitted(o) = IF QualifiesIn(o) THEN {probe} ELSE {}
    BY DEF Admitted, probe
  <2> QED BY <2>1, <2>2
<1>7. \A r \in ResolvedOf(o) : r.state \notin Invalidating
  BY <1>4, NothingInvalid
<1>8. CASE ~QualifiesIn(o)
  <2>1. e.excluded # {}
    BY <1>4, <1>6, <1>8
  <2>2. ASSUME oracles # <<>> PROVE FALSE
    <3>1. 1 \in DOMAIN o.records /\ 1 \in DOMAIN oracles
      BY <1>2, <1>3, <2>2, ListBegins
    <3> DEFINE record == Trials(o)[1]
               r == OutcomeOf(o, record, oracles[1],
                        ResolveOutcome(OutcomeInputs(o, record, oracles[1])))
    <3>2. r \in ResolvedOf(o)
      BY <1>2, <1>3, <3>1, ResolvedAre
    <3>3. r.state \in Invalidating
      BY <1>8, OutcomeShows
    <3> QED BY <1>7, <3>2, <3>3
  <2> QED BY <2>1, <2>2 DEF e, oracles
<1>9. CASE QualifiesIn(o)
  <2>1. PICK home : OneProbe(e, home)
    BY MintedIsOneProbe DEF e
  <2>2. ClassesOf(e) # {} => ~o.probe.value.clean
    <3> SUFFICES ASSUME o.probe.value.clean PROVE ClassesOf(e) = {}
      OBVIOUS
    <3>1. e.vector = BuildStrengthVector(Admitted(o), [q \in {o.probe.value.id} |-> ReducedOf(o)])
      BY <1>1, EvidenceIs DEF e
    <3>2. VectorEligible(Admitted(o)) = {}
      BY DEF VectorEligible, Admitted, ProbeScored
    <3>3. \A class \in StrengthClasses : e.vector[class] = <<>>
      BY <3>1, <3>2 DEF BuildStrengthVector, ClassStrengthOver
    <3> QED BY <3>3 DEF ClassesOf
  <2>3. ~o.probe.value.clean => \A x \in e.outcomes : x.state \notin CleanControlOnly
    <3> SUFFICES ASSUME ~o.probe.value.clean, NEW r \in ResolvedOf(o)
                 PROVE  r.state \notin CleanControlOnly
      BY <1>5
    <3>1. PICK k \in DOMAIN o.records, j \in DOMAIN o.contract.value.oracles :
             LET oracle == o.contract.value.oracles[j]
                 in == OutcomeInputs(o, Trials(o)[k], oracle)
             IN r = OutcomeOf(o, Trials(o)[k], oracle, ResolveOutcome(in))
      BY <1>2, ResolvedAre
    <3> QED BY <3>1, OutcomeShows
  <2>4. VectorFollows(e)
    <3>1. Cardinality(ClassesOf(e)) <= 1
      <4>1. ClassesOf(e) = {home} \cap StrengthClasses
        BY <2>1, OneClass
      <4>2. ClassesOf(e) = {} \/ ClassesOf(e) = {home}
        BY <4>1
      <4>3. Cardinality({}) = 0 /\ Cardinality({home}) = 1
        BY FS_EmptySet, FS_Singleton
      <4>4. CASE ClassesOf(e) = {}
        BY <4>3, <4>4
      <4>5. CASE ClassesOf(e) = {home}
        BY <4>3, <4>5
      <4> QED BY <4>2, <4>4, <4>5
    <3>2. ClassesOf(e) # {} => e.vector[ClassOf(e)] = OwnStrength(e)
      BY <2>1, OneClass DEF OneProbe
    <3> QED BY <2>2, <2>3, <3>1, <3>2 DEF VectorFollows, OwnStrength
  <2>5. AgreesWithItself(e)
    BY <1>1, <1>4, <1>6, <1>9, <2>4 DEF AgreesWithItself, e
  <2>6. ScoredUnder(e, policy)
    <3>1. e.reduced[1] = ReducedOf(o)
      BY <1>4
    <3>2. ReducedOf(o).threshold = policy.threshold
      BY <1>3, ReducedIs DEF ReducedOf
    <3> QED BY <1>4, <3>1, <3>2 DEF ScoredUnder
  <2> DEFINE only == <<e>>
  <2>7. DOMAIN only = {1} /\ only[1] = e
    OBVIOUS
  <2> HIDE DEF only
  <2>8. Agree(only, policy)
    BY <2>6, <2>7 DEF Agree, IsInjective
  <2>9. Refusal(only, policy) = "none"
    BY <2>5, <2>7, <2>8 DEF Refusal
  <2> QED BY <2>9 DEF only, e, policy
<1> QED BY <1>8, <1>9

(* Whatever the processes are and however they interleave, an evidence     *)
(* artifact rests on records that are sincere, of distinct trials of one   *)
(* run, on a pre-flight that passed and on one answer per trial and        *)
(* oracle; and aggregate-strength takes it (application/score.ts,          *)
(* aggregate-strength.ts).                                                 *)
THEOREM MintedIsCheckedHolds == Spec => []MintedIsChecked
<1>1. AnswerInvariant => MintedIsChecked
  BY MintedRests, MintedTaken DEF MintedIsChecked
<1> QED BY <1>1, AnswersHold, PTL

-----------------------------------------------------------------------------
(* The order in which the artifacts are named (application/score.ts,       *)
(* aggregate-strength.ts).                                                 *)

(* Two sets of options that differ in the order of the records at most.    *)
Alike(o, w) ==
    /\ w.contract = o.contract /\ w.probe = o.probe /\ w.preflight = o.preflight
    /\ w.manifest = o.manifest /\ w.configuration = o.configuration
    /\ w.policy = o.policy /\ w.privates = o.privates
    /\ w.corpus = o.corpus /\ w.designated = o.designated
    /\ DOMAIN w.records = DOMAIN o.records /\ Len(w.records) = Len(o.records)

(* From the same trials, the same outcomes.                                *)
LEMMA SameResolutions ==
    ASSUME NEW o, NEW w, Alike(o, w), Trials(w) = Trials(o)
    PROVE  /\ IngestedConditions(w) = IngestedConditions(o)
           /\ IntegrityRows(w) = IntegrityRows(o)
           /\ QualifiesIn(w) = QualifiesIn(o) /\ ProbeSeverity(w) = ProbeSeverity(o)
           /\ EachOf(w) = EachOf(o) /\ ResolvedOf(w) = ResolvedOf(o)
           /\ ReducedOf(w) = ReducedOf(o)
<1> USE DEF Alike
<1>1. IngestedConditions(w) = IngestedConditions(o)
  BY DEF IngestedConditions
<1>2. IntegrityRows(w) = IntegrityRows(o)
  BY <1>1 DEF IntegrityRows, RecordRows, TrialSetDisagrees
<1>3. /\ QualifiesIn(w) = QualifiesIn(o) /\ ProbeSeverity(w) = ProbeSeverity(o)
      /\ DesignatedOracle(w) = DesignatedOracle(o) /\ WitnessedProbe(w) = WitnessedProbe(o)
  BY DEF QualifiesIn, ProbeSeverity, DesignatedOracle, WitnessedProbe
<1>4. JudgeConduct(w) = JudgeConduct(o)
  BY <1>1 DEF JudgeConduct
<1>5. ASSUME NEW record, NEW oracle
      PROVE  OutcomeInputs(w, record, oracle) = OutcomeInputs(o, record, oracle)
  <2>1. WitnessOf(w, record) = WitnessOf(o, record)
    BY <1>3 DEF WitnessOf
  <2> QED BY <1>3, <1>4, <2>1 DEF OutcomeInputs
<1>6. ASSUME NEW record, NEW oracle, NEW resolution
      PROVE  OutcomeOf(w, record, oracle, resolution) = OutcomeOf(o, record, oracle, resolution)
  <2>1. OutcomeSeverity(w, record, oracle, resolution) = OutcomeSeverity(o, record, oracle, resolution)
    BY DEF OutcomeSeverity
  <2> QED BY <2>1 DEF OutcomeOf
<1>7. ASSUME NEW record PROVE Resolutions(w, record) = Resolutions(o, record)
  BY <1>5, <1>6 DEF Resolutions
<1>8. EachOf(w) = EachOf(o)
  BY <1>7 DEF EachOf
<1>9. ASSUME NEW resolutions PROVE VoteOf(w, resolutions) = VoteOf(o, resolutions)
  BY <1>3 DEF VoteOf
<1>10. VoteLists(w) = VoteLists(o)
  BY <1>8, <1>9 DEF VoteLists
<1>11. ReducedOf(w) = ReducedOf(o)
  BY <1>3, <1>10 DEF ReducedOf, ReducedProbe, VotesOf
<1> QED BY <1>1, <1>2, <1>3, <1>8, <1>11 DEF ResolvedOf

(* From the same trials, the same call.                                    *)
LEMMA SameTrialsSameScore ==
    ASSUME NEW o, NEW w, Alike(o, w), Trials(w) = Trials(o)
    PROVE  Scored(w).exits = Scored(o).exits /\ Scored(w).artifact = Scored(o).artifact
<1>1. /\ IntegrityRows(w) = IntegrityRows(o)
      /\ QualifiesIn(w) = QualifiesIn(o) /\ ProbeSeverity(w) = ProbeSeverity(o)
      /\ ResolvedOf(w) = ResolvedOf(o) /\ ReducedOf(w) = ReducedOf(o)
  BY SameResolutions
<1>2. AssessedOf(w) = AssessedOf(o)
  BY <1>1 DEF Alike, AssessedOf, AssessmentOf
<1>3. RungReached(w) = RungReached(o)
  BY <1>2 DEF RungReached
<1>4. Scored(w).exits = Scored(o).exits
  BY <1>2, ScoredIs
<1>5. Evidenced(w, ResolvedOf(w), ReducedOf(w), RungReached(w))
        = Evidenced(o, ResolvedOf(o), ReducedOf(o), RungReached(o))
  BY <1>1, <1>3 DEF Alike, Evidenced
<1> QED BY <1>4, <1>5, ScoredIs

(* Trials that disagree leave no verdict, and no artifact.                 *)
LEMMA DisagreeingScore ==
    ASSUME NEW o, TrialSetDisagrees(o)
    PROVE  Scored(o).exits = [strict \in BOOLEAN |-> 3] /\ Scored(o).artifact = <<>>
<1> DEFINE a == AssessedOf(o)
           mode == Trials(o)[1].mode
<1>1. a.integrity = IntegrityRows(o)
  BY DEF AssessedOf, AssessmentOf
<1> HIDE DEF a, mode
<1>2. a.integrity # {}
  BY <1>1 DEF IntegrityRows, When
<1>3. InvalidRows(a) # {}
  BY <1>2 DEF InvalidRows
<1>4. Rung(a, mode) = "invalid" /\ \A strict \in BOOLEAN : ExitCode(a, mode, strict) = 3
  BY <1>3, InvalidDecides
<1>5. Scored(o).exits = [strict \in BOOLEAN |-> 3]
  BY <1>4, ScoredIs DEF a, mode
<1>6. RungReached(o) = "invalid"
  BY <1>4 DEF RungReached, a, mode
<1> QED BY <1>5, <1>6, ScoredIs DEF Evidenced

(* The one has what the other has, in reverse.                             *)
Reversed(n, f, g) ==
    \A i \in 1 .. n : n + 1 - i \in 1 .. n /\ g[i] = f[n + 1 - i] /\ f[i] = g[n + 1 - i]

(* Of distinct keys, named in reverse, the order is the same.              *)
LEMMA InOrderReversed ==
    ASSUME NEW n \in Nat, NEW key, NEW yek,
           Reversed(n, key, yek), \A i \in 1 .. n : key[i] \in Int,
           \A i, j \in 1 .. n : key[i] = key[j] => i = j
    PROVE  \A k \in 1 .. n : /\ InOrder(1 .. n, key)[k] \in 1 .. n
                             /\ InOrder(1 .. n, yek)[k] = n + 1 - InOrder(1 .. n, key)[k]
<1> DEFINE S == 1 .. n
           f == [i \in S |-> n + 1 - i]
           at == InOrder(S, key)
           ta == InOrder(S, yek)
<1>1. S \in SUBSET Nat /\ IsFiniteSet(S) /\ Cardinality(S) = n
  BY FS_Interval
<1>2. \A i \in S : /\ f[i] \in S /\ f[i] = n + 1 - i /\ f[f[i]] = i
                   /\ yek[i] = key[f[i]] /\ key[i] = yek[f[i]]
  BY DEF Reversed
<1>3. \A i \in S : key[i] \in Int /\ yek[i] \in Int
  BY <1>2
<1> HIDE DEF f
<1>4. ASSUME NEW i \in S
      PROVE  Cardinality(Before(S, yek, f[i])) = Cardinality(Before(S, key, i))
  <2>1. \A j \in S : j \in Before(S, key, i) <=> key[j] < key[i]
    BY <1>3 DEF Before
  <2>2. \A j \in S : j \in Before(S, yek, f[i]) <=> key[f[j]] < key[i]
    <3>1. \A j \in S : yek[j] = yek[f[i]] => j = f[i]
      BY <1>2
    <3>2. \A j \in S : j \in Before(S, yek, f[i]) <=> yek[j] < yek[f[i]]
      BY <1>1, <1>2, <1>3, <3>1 DEF Before
    <3> QED BY <1>2, <3>2
  <2>3. Before(S, yek, f[i]) = {f[j] : j \in Before(S, key, i)}
    <3>1. \A j \in Before(S, yek, f[i]) : j \in S
      BY DEF Before
    <3>2. \A j \in Before(S, key, i) : j \in S
      BY DEF Before
    <3> HIDE DEF S
    <3>3. ASSUME NEW j \in Before(S, yek, f[i])
          PROVE  j \in {f[k] : k \in Before(S, key, i)}
      <4>1. f[j] \in Before(S, key, i) /\ f[f[j]] = j
        BY <1>2, <2>1, <2>2, <3>1
      <4> QED BY <4>1
    <3>4. ASSUME NEW k \in Before(S, key, i)
          PROVE  f[k] \in Before(S, yek, f[i])
      BY <1>2, <2>1, <2>2, <3>2
    <3> QED BY <3>3, <3>4
  <2>4. IsFiniteSet(Before(S, key, i))
    <3>1. Before(S, key, i) \subseteq S
      BY DEF Before
    <3> QED BY <1>1, <3>1, FS_Subset
  <2>5. \A j, k \in Before(S, key, i) : f[j] = f[k] => j = k
    <3>1. Before(S, key, i) \subseteq S
      BY DEF Before
    <3> QED BY <1>2, <3>1
  <2> QED BY <2>3, <2>4, <2>5, ImageCount
<1> HIDE DEF S
<1>5. /\ \A k \in 1 .. n : at[k] \in S /\ Cardinality(Before(S, key, at[k])) = k - 1
      /\ \A i \in S : ta[Cardinality(Before(S, yek, i)) + 1] = i
  <2>1. \A k \in 1 .. Cardinality(S) : at[k] \in S /\ Cardinality(Before(S, key, at[k])) = k - 1
    BY <1>1, <1>3, InOrderHolds
  <2>2. \A i \in S : ta[Cardinality(Before(S, yek, i)) + 1] = i
    BY <1>1, <1>3, InOrderHolds
  <2> QED BY <1>1, <2>1, <2>2
<1> HIDE DEF at, ta
<1>6. ASSUME NEW k \in 1 .. n PROVE at[k] \in S /\ ta[k] = n + 1 - at[k]
  <2>1. at[k] \in S /\ Cardinality(Before(S, key, at[k])) = k - 1
    BY <1>5
  <2>2. Cardinality(Before(S, yek, f[at[k]])) + 1 = k
    <3>1. Cardinality(Before(S, yek, f[at[k]])) = k - 1
      BY <1>4, <2>1
    <3> QED BY <3>1
  <2>3. f[at[k]] \in S /\ f[at[k]] = n + 1 - at[k]
    BY <1>2, <2>1
  <2>4. ta[Cardinality(Before(S, yek, f[at[k]])) + 1] = f[at[k]]
    BY <1>5, <2>3
  <2> QED BY <2>1, <2>2, <2>3, <2>4
<1> QED BY <1>6 DEF at, ta, S

(* A list in reverse holds the same, in as many places.                    *)
LEMMA ReverseIs ==
    ASSUME NEW s, IsList(s)
    PROVE  LET n == Len(s)
               r == Reverse(s)
           IN /\ n \in Nat /\ DOMAIN s = 1 .. n
              /\ IsList(r) /\ Len(r) = n /\ DOMAIN r = 1 .. n
              /\ Reversed(n, s, r)
<1> DEFINE n == Len(s)
           r == Reverse(s)
<1>1. n \in Nat /\ DOMAIN s = 1 .. n
  BY ListIs
<1>2. r = [i \in 1 .. n |-> s[(n - i) + 1]]
  BY DEF Reverse
<1> HIDE DEF n, r
<1>3. r = [i \in 1 .. n |-> r[i]]
  BY <1>2
<1>4. IsList(r) /\ Len(r) = n /\ DOMAIN r = 1 .. n
  BY <1>1, <1>3, PlacesAreList
<1>5. \A i \in 1 .. n : r[i] = s[(n - i) + 1]
  BY <1>2
<1>6. ASSUME NEW i \in 1 .. n
      PROVE  n + 1 - i \in 1 .. n /\ r[i] = s[n + 1 - i] /\ s[i] = r[n + 1 - i]
  <2>1. /\ (n - i) + 1 = n + 1 - i /\ n + 1 - i \in 1 .. n
        /\ (n - (n + 1 - i)) + 1 = i
    BY <1>1
  <2>2. r[i] = s[(n - i) + 1] /\ r[n + 1 - i] = s[(n - (n + 1 - i)) + 1]
    BY <1>5, <2>1
  <2> QED BY <2>1, <2>2
<1>7. Reversed(n, s, r)
  BY <1>6 DEF Reversed
<1> QED BY <1>1, <1>4, <1>7 DEF n, r

(* Records named in reverse: of distinct trials, the same trials; and of   *)
(* any others, trials that disagree.                                       *)
LEMMA ReversedTrials ==
    ASSUME NEW o, NEW w, IsList(o.records), w.records = Reverse(o.records),
           \A k \in DOMAIN o.records : o.records[k].value.trial \in Int
    PROVE  Trials(w) = Trials(o) \/ (TrialSetDisagrees(o) /\ TrialSetDisagrees(w))
<1> DEFINE n == Len(o.records)
           key == [i \in DOMAIN o.records |-> o.records[i].value.trial]
           yek == [i \in DOMAIN w.records |-> w.records[i].value.trial]
           at == InOrder(1 .. n, key)
           ta == InOrder(1 .. n, yek)
<1>1. /\ n \in Nat /\ DOMAIN o.records = 1 .. n /\ IsList(w.records) /\ DOMAIN w.records = 1 .. n
      /\ Reversed(n, o.records, w.records)
  <2> HIDE DEF n
  <2>1. /\ n \in Nat /\ DOMAIN o.records = 1 .. n /\ Reversed(n, o.records, Reverse(o.records))
        /\ IsList(Reverse(o.records)) /\ DOMAIN Reverse(o.records) = 1 .. n
    BY ReverseIs DEF n
  <2> QED BY <2>1
<1>2. /\ Trials(o) = [k \in 1 .. n |-> o.records[at[k]].value]
      /\ Trials(w) = [k \in 1 .. n |-> w.records[ta[k]].value]
  BY <1>1 DEF Trials
<1>3. \A i \in 1 .. n : key[i] = o.records[i].value.trial /\ yek[i] = w.records[i].value.trial
  BY <1>1
<1> HIDE DEF n, key, yek
<1>4. /\ Reversed(n, key, yek) /\ \A i \in 1 .. n : key[i] \in Int
      /\ \A i \in 1 .. n : yek[i] \in Int
  <2>1. ASSUME NEW i \in 1 .. n
        PROVE  /\ n + 1 - i \in 1 .. n /\ yek[i] = key[n + 1 - i] /\ key[i] = yek[n + 1 - i]
               /\ key[i] \in Int
    <3>1. /\ n + 1 - i \in 1 .. n /\ w.records[i] = o.records[n + 1 - i]
          /\ o.records[i] = w.records[n + 1 - i]
      BY <1>1 DEF Reversed
    <3> QED BY <1>1, <1>3, <3>1
  <2> QED BY <2>1 DEF Reversed
<1>5. CASE \A i, j \in 1 .. n : key[i] = key[j] => i = j
  <2>1. \A k \in 1 .. n : at[k] \in 1 .. n /\ ta[k] = n + 1 - at[k]
    BY <1>1, <1>4, <1>5, InOrderReversed
  <2> HIDE DEF at, ta
  <2>2. \A k \in 1 .. n : w.records[ta[k]].value = o.records[at[k]].value
    BY <1>1, <2>1 DEF Reversed
  <2> QED BY <1>2, <2>2
<1>6. CASE ~ \A i, j \in 1 .. n : key[i] = key[j] => i = j
  <2>1. PICK i \in 1 .. n, j \in 1 .. n : key[i] = key[j] /\ i # j
    BY <1>6
  <2>2. ASSUME NEW x, IsList(x.records), \A k \in DOMAIN x.records : x.records[k].value.trial \in Int,
               NEW a \in DOMAIN x.records, NEW b \in DOMAIN x.records, a # b,
               x.records[a].value.trial = x.records[b].value.trial
        PROVE  TrialSetDisagrees(x)
    <3> DEFINE named == [k \in DOMAIN x.records |-> Trials(x)[k].trial]
    <3>1. PICK place : \A k \in DOMAIN x.records :
             /\ place[k] \in DOMAIN x.records /\ Trials(x)[place[k]] = x.records[k].value
             /\ \A l \in DOMAIN x.records : place[k] = place[l] => k = l
      BY <2>2, TrialsAre
    <3>2. /\ place[a] \in DOMAIN named /\ place[b] \in DOMAIN named /\ place[a] # place[b]
          /\ named[place[a]] = named[place[b]]
      BY <2>2, <3>1
    <3> HIDE DEF named
    <3>3. ~IsInjective(named)
      BY <3>2 DEF IsInjective
    <3> QED BY <3>3 DEF TrialSetDisagrees, named
  <2>3. TrialSetDisagrees(o)
    BY <1>1, <1>3, <2>1, <2>2
  <2>4. /\ n + 1 - i \in DOMAIN w.records /\ n + 1 - j \in DOMAIN w.records
        /\ n + 1 - i # n + 1 - j
        /\ w.records[n + 1 - i].value.trial = w.records[n + 1 - j].value.trial
    BY <1>1, <1>3, <2>1 DEF Reversed
  <2>5. \A k \in DOMAIN w.records : w.records[k].value.trial \in Int
    BY <1>1, <1>3, <1>4
  <2>6. TrialSetDisagrees(w)
    BY <1>1, <2>2, <2>4, <2>5
  <2> QED BY <2>3, <2>6
<1> QED BY <1>5, <1>6

(* Artifacts named in reverse come to the same aggregate.                  *)
LEMMA ReversedAggregate ==
    ASSUME NEW E, IsList(E), E # <<>>, NEW policy, NEW floors, Refusal(E, policy) = "none",
           \A i \in DOMAIN E : E[i].probe \in Int
    PROVE  /\ Refusal(Reverse(E), policy) = "none"
           /\ Aggregate(Reverse(E), floors, policy) = Aggregate(E, floors, policy)
<1> DEFINE n == Len(E)
           R == Reverse(E)
<1>1. /\ n \in Nat /\ DOMAIN E = 1 .. n /\ DOMAIN R = 1 .. n
      /\ Reversed(n, E, R)
  BY ReverseIs
<1> HIDE DEF n, R
<1>2. 1 \in 1 .. n /\ n \in 1 .. n
  BY <1>1, ListBegins
<1>3. (\A i \in DOMAIN E : AgreesWithItself(E[i])) /\ Agree(E, policy)
  BY DEF Refusal
<1>4. /\ \A i \in 1 .. n : ScoredUnder(E[i], policy)
      /\ \A i, j \in 1 .. n : E[i].probe = E[j].probe => i = j
      /\ \A i, j \in 1 .. n : /\ E[i].version = E[j].version /\ E[i].basis = E[j].basis
                              /\ E[i].attested = E[j].attested
  <2> DEFINE probes == [i \in DOMAIN E |-> E[i].probe]
  <2>1. \A i \in 1 .. n : probes[i] = E[i].probe
    BY <1>1
  <2>2. DOMAIN probes = 1 .. n
    BY <1>1
  <2>3. \A i, j \in DOMAIN probes : probes[i] = probes[j] => i = j
    BY <1>3 DEF Agree, IsInjective
  <2> HIDE DEF probes
  <2>4. \A i, j \in 1 .. n : E[i].probe = E[j].probe => i = j
    BY <2>1, <2>2, <2>3
  <2> QED BY <1>1, <1>3, <2>4 DEF Agree
<1>5. Refusal(R, policy) = "none"
  <2>1. \A i \in DOMAIN R : AgreesWithItself(R[i])
    BY <1>1, <1>3 DEF Reversed
  <2>2. \A i \in DOMAIN R : ScoredUnder(R[i], policy)
    BY <1>1, <1>4 DEF Reversed
  <2>3. ASSUME NEW i \in 1 .. n, NEW j \in 1 .. n, R[i].probe = R[j].probe PROVE i = j
    <3>1. n + 1 - i = n + 1 - j
      BY <1>1, <1>4, <2>3 DEF Reversed
    <3> QED BY <1>1, <3>1
  <2>4. IsInjective([i \in DOMAIN R |-> R[i].probe])
    BY <1>1, <2>3 DEF IsInjective
  <2>5. \A i, j \in DOMAIN R : /\ R[i].version = R[j].version /\ R[i].basis = R[j].basis
                               /\ R[i].attested = R[j].attested
    <3> SUFFICES ASSUME NEW i \in 1 .. n, NEW j \in 1 .. n
                 PROVE  /\ R[i].version = R[j].version /\ R[i].basis = R[j].basis
                        /\ R[i].attested = R[j].attested
      BY <1>1
    <3>1. \E k, l \in 1 .. n : R[i] = E[k] /\ R[j] = E[l]
      BY <1>1 DEF Reversed
    <3> QED BY <1>4, <3>1
  <2>6. Agree(R, policy)
    BY <2>2, <2>4, <2>5 DEF Agree
  <2> QED BY <2>1, <2>6 DEF Refusal
<1>6. /\ R[1].version = E[1].version /\ R[1].basis = E[1].basis
      /\ R[1].attested = E[1].attested /\ R[1].inputs.mode = E[1].inputs.mode
  <2>1. /\ R[1].version = E[1].version /\ R[1].basis = E[1].basis
        /\ R[1].attested = E[1].attested
    BY <1>1, <1>2, <1>4 DEF Reversed
  <2>2. AgreesWithItself(R[1]) /\ AgreesWithItself(E[1])
    BY <1>1, <1>2, <1>3 DEF Reversed
  <2>3. R[1].version = R[1].inputs /\ E[1].version = E[1].inputs
    BY <2>2 DEF AgreesWithItself
  <2> QED BY <2>1, <2>3
<1>7. ToSet(R) = ToSet(E)
  <2>1. ASSUME NEW x \in ToSet(R) PROVE x \in ToSet(E)
    <3>1. PICK i \in 1 .. n : x = R[i]
      BY <1>1 DEF ToSet
    <3> QED BY <1>1, <3>1 DEF ToSet, Reversed
  <2>2. ASSUME NEW x \in ToSet(E) PROVE x \in ToSet(R)
    <3>1. PICK i \in 1 .. n : x = E[i]
      BY <1>1 DEF ToSet
    <3> QED BY <1>1, <3>1 DEF ToSet, Reversed
  <2> QED BY <2>1, <2>2
<1>8. {R[i].probe : i \in DOMAIN R} = {E[i].probe : i \in DOMAIN E}
  <2>1. {R[i].probe : i \in DOMAIN R} = {x.probe : x \in ToSet(R)}
    BY DEF ToSet
  <2>2. {E[i].probe : i \in DOMAIN E} = {x.probe : x \in ToSet(E)}
    BY DEF ToSet
  <2> QED BY <1>7, <2>1, <2>2
<1>9. \A class : AggregatedClass(R, class) = AggregatedClass(E, class)
  <2>1. \A class : Members(R, class) = Members(E, class)
    BY <1>7 DEF Members
  <2> QED BY <2>1 DEF AggregatedClass
<1> DEFINE key == [i \in DOMAIN E |-> E[i].probe]
           yek == [i \in DOMAIN R |-> R[i].probe]
           at == InOrder(DOMAIN E, key)
           ta == InOrder(DOMAIN R, yek)
           named(a) == [probe |-> a.probe, class |-> ClassOf(a), run |-> a.run, digest |-> a]
<1>10. [k \in DOMAIN R |-> named(R[ta[k]])] = [k \in DOMAIN E |-> named(E[at[k]])]
  <2>1. \A i \in 1 .. n : key[i] = E[i].probe /\ yek[i] = R[i].probe
    BY <1>1
  <2> HIDE DEF key, yek
  <2>2. Reversed(n, key, yek) /\ \A i \in 1 .. n : key[i] \in Int
    <3>1. ASSUME NEW i \in 1 .. n
          PROVE  n + 1 - i \in 1 .. n /\ yek[i] = key[n + 1 - i] /\ key[i] = yek[n + 1 - i]
      <4>1. n + 1 - i \in 1 .. n /\ R[i] = E[n + 1 - i] /\ E[i] = R[n + 1 - i]
        BY <1>1 DEF Reversed
      <4> QED BY <2>1, <4>1
    <3> QED BY <1>1, <2>1, <3>1 DEF Reversed
  <2>3. \A i, j \in 1 .. n : key[i] = key[j] => i = j
    BY <1>4, <2>1
  <2>4. \A k \in 1 .. n : at[k] \in 1 .. n /\ ta[k] = n + 1 - at[k]
    BY <1>1, <2>2, <2>3, InOrderReversed
  <2> HIDE DEF at, ta, named
  <2>5. \A k \in 1 .. n : R[ta[k]] = E[at[k]]
    BY <1>1, <2>4 DEF Reversed
  <2> QED BY <1>1, <2>5
<1> HIDE DEF key, yek
<1>11. Aggregate(R, floors, policy) = Aggregate(E, floors, policy)
  BY <1>6, <1>8, <1>9, <1>10 DEF Aggregate, key, yek
<1> QED BY <1>5, <1>11 DEF R

(* What arrives in reverse has the same fault.                             *)
LEMMA ReversedArrival ==
    ASSUME NEW s, IsList(s)
    PROVE  ArrivalFault(Reverse(s)) = ArrivalFault(s)
<1> DEFINE n == Len(s)
           r == Reverse(s)
           f == [i \in DOMAIN s |-> s[i].arrives]
           g == [i \in DOMAIN r |-> r[i].arrives]
<1>1. n \in Nat /\ DOMAIN s = 1 .. n /\ DOMAIN r = 1 .. n /\ Reversed(n, s, r)
  BY ReverseIs
<1>2. f = [i \in 1 .. n |-> f[i]] /\ g = [i \in 1 .. n |-> g[i]]
  BY <1>1
<1>3. \A i \in 1 .. n : f[i] = s[i].arrives /\ g[i] = r[i].arrives
  BY <1>1
<1>4. ArrivalFault(s) = ArrayFault(f) /\ ArrivalFault(r) = ArrayFault(g)
  BY DEF ArrivalFault
<1> HIDE DEF n, r, f, g
<1>5. IsList(f) /\ DOMAIN f = 1 .. n /\ IsList(g) /\ DOMAIN g = 1 .. n
  BY <1>1, <1>2, PlacesAreList
<1>6. /\ \A i \in 1 .. n : \E j \in 1 .. n : g[i] = f[j]
      /\ \A i \in 1 .. n : \E j \in 1 .. n : f[i] = g[j]
  BY <1>1, <1>3 DEF Reversed
<1>7. /\ (\E i \in 1 .. n : g[i].stamp = "other") <=> (\E i \in 1 .. n : f[i].stamp = "other")
      /\ (\E i \in 1 .. n : ~g[i].fits) <=> (\E i \in 1 .. n : ~f[i].fits)
  <2>1. /\ (\E i \in 1 .. n : g[i].stamp = "other") => (\E i \in 1 .. n : f[i].stamp = "other")
        /\ (\E i \in 1 .. n : ~g[i].fits) => (\E i \in 1 .. n : ~f[i].fits)
    BY <1>6
  <2>2. /\ (\E i \in 1 .. n : f[i].stamp = "other") => (\E i \in 1 .. n : g[i].stamp = "other")
        /\ (\E i \in 1 .. n : ~f[i].fits) => (\E i \in 1 .. n : ~g[i].fits)
    BY <1>6
  <2> QED BY <2>1, <2>2
<1> QED BY <1>4, <1>5, <1>7, ArrayFaultIs DEF r

(* The order of --record and of --evidence reaches no verdict.             *)
LEMMA OrderReachesNothing ==
    ASSUME AnswerInvariant
    PROVE  OrderFree
<1> SUFFICES ASSUME NEW p \in Procs, Running(p), Pending(p) = {}
             PROVE  CASE Command(p) = "score" ->
                           LET o == ScoreOptions(p)
                               reversed == [o EXCEPT !.records = Reverse(@)]
                           IN /\ IntakeFault(reversed) = IntakeFault(o)
                              /\ IntakeFault(o) = "none" =>
                                    /\ Scored(reversed).exits = Scored(o).exits
                                    /\ Scored(reversed).artifact = Scored(o).artifact
                      [] Command(p) = "aggregate-strength" ->
                           LET artifacts == [i \in DOMAIN Read(p, "--evidence") |->
                                                Read(p, "--evidence")[i].value]
                               policy == Read(p, "--policy")[1].value
                           IN returned[p].artifact # <<>> =>
                                /\ Refusal(Reverse(artifacts), policy) = "none"
                                /\ Aggregate(Reverse(artifacts), Read(p, "--floors")[1].value, policy)
                                      = MintedBy(p)
                      [] OTHER -> TRUE
  BY DEF OrderFree
<1>1. CommandLineInvariant /\ GotInv(p)
  BY DEF AnswerInvariant
<1>2. ASSUME Command(p) = "score"
      PROVE  LET o == ScoreOptions(p)
                 reversed == [o EXCEPT !.records = Reverse(@)]
             IN /\ IntakeFault(reversed) = IntakeFault(o)
                /\ IntakeFault(o) = "none" =>
                      /\ Scored(reversed).exits = Scored(o).exits
                      /\ Scored(reversed).artifact = Scored(o).artifact
  <2> DEFINE o == ScoreOptions(p)
             w == [o EXCEPT !.records = Reverse(@)]
  <2>1. IsList(o.records)
    BY <1>1, <1>2, ReadFits, ScoreKeys DEF ScoreOptions
  <2>2. /\ w.records = Reverse(o.records)
        /\ w.contract = o.contract /\ w.probe = o.probe /\ w.preflight = o.preflight
        /\ w.manifest = o.manifest /\ w.configuration = o.configuration
        /\ w.policy = o.policy /\ w.privates = o.privates
        /\ w.corpus = o.corpus /\ w.designated = o.designated
    BY DEF ScoreOptions
  <2>3. ASSUME IntakeFault(o) = "none"
        PROVE  \A k \in DOMAIN o.records : o.records[k].value.trial \in Int
    BY <1>1, <1>2, <2>3, OptionsFit
  <2> HIDE DEF o, w
  <2>4. /\ DOMAIN w.records = DOMAIN o.records /\ Len(w.records) = Len(o.records)
    BY <2>1, <2>2, ReverseIs
  <2>5. Alike(o, w)
    BY <2>2, <2>4 DEF Alike
  <2>6. IntakeFault(w) = IntakeFault(o)
    <3>1. ArrivalFault(w.records) = ArrivalFault(o.records)
      BY <2>1, <2>2, ReversedArrival
    <3> QED BY <2>2, <3>1 DEF IntakeFault
  <2>7. ASSUME IntakeFault(o) = "none"
        PROVE  Scored(w).exits = Scored(o).exits /\ Scored(w).artifact = Scored(o).artifact
    <3>1. Trials(w) = Trials(o) \/ (TrialSetDisagrees(o) /\ TrialSetDisagrees(w))
      BY <2>1, <2>2, <2>3, <2>7, ReversedTrials
    <3>2. CASE Trials(w) = Trials(o)
      BY <2>5, <3>2, SameTrialsSameScore
    <3>3. CASE TrialSetDisagrees(o) /\ TrialSetDisagrees(w)
      <4>1. Scored(o).exits = [strict \in BOOLEAN |-> 3] /\ Scored(o).artifact = <<>>
        BY <3>3, DisagreeingScore
      <4>2. Scored(w).exits = [strict \in BOOLEAN |-> 3] /\ Scored(w).artifact = <<>>
        BY <3>3, DisagreeingScore
      <4> QED BY <4>1, <4>2
    <3> QED BY <3>1, <3>2, <3>3
  <2> QED BY <2>6, <2>7 DEF o, w
<1>3. ASSUME Command(p) = "aggregate-strength", returned[p].artifact # <<>>
      PROVE  LET artifacts == [i \in DOMAIN Read(p, "--evidence") |->
                                  Read(p, "--evidence")[i].value]
                 policy == Read(p, "--policy")[1].value
             IN /\ Refusal(Reverse(artifacts), policy) = "none"
                /\ Aggregate(Reverse(artifacts), Read(p, "--floors")[1].value, policy)
                      = MintedBy(p)
  <2> DEFINE evidence == Read(p, "--evidence")
             artifacts == [i \in DOMAIN evidence |-> evidence[i].value]
             policy == Read(p, "--policy")[1].value
             floors == Read(p, "--floors")[1].value
             n == Len(evidence)
  <2>1. Minted(p, "aggregate-strength")
    BY <1>3 DEF Minted
  <2>2. /\ IsList(evidence) /\ Refusal(artifacts, policy) = "none"
        /\ \A i \in DOMAIN evidence : Fits("--evidence", evidence[i].value)
        /\ MintedBy(p) = Aggregate(artifacts, floors, policy)
    BY <2>1, MintedAggregate
  <2>3. evidence # <<>>
    BY <1>1, <1>3, ReadFits, ScoreKeys
  <2> HIDE DEF evidence, policy, floors
  <2>4. n \in Nat /\ DOMAIN evidence = 1 .. n /\ 1 \in DOMAIN evidence
    BY <2>2, <2>3, ListIs, ListBegins
  <2>5. artifacts = [i \in 1 .. n |-> artifacts[i]] /\ \A i \in 1 .. n : artifacts[i] = evidence[i].value
    BY <2>4
  <2> HIDE DEF artifacts, n
  <2>6. IsList(artifacts) /\ DOMAIN artifacts = 1 .. n
    BY <2>4, <2>5, PlacesAreList
  <2>7. artifacts # <<>>
    <3>1. DOMAIN artifacts # {}
      BY <2>4, <2>6
    <3> QED BY <3>1
  <2>8. \A i \in DOMAIN artifacts : artifacts[i].probe \in Int
    BY <2>2, <2>4, <2>5, <2>6 DEF Fits
  <2> QED BY <2>2, <2>6, <2>7, <2>8, ReversedAggregate DEF artifacts, evidence, policy, floors
<1> QED BY <1>2, <1>3

(* Whatever the processes are and however they interleave, the order in    *)
(* which records or evidence are named reaches neither the artifact nor    *)
(* the exit code (application/score.ts, aggregate-strength.ts).            *)
THEOREM OrderFreeHolds == Spec => []OrderFree
<1> QED BY OrderReachesNothing, AnswersHold, PTL
=================================================================================
