------------------------------- MODULE Preflight -------------------------------
(***************************************************************************)
(* application/preflight.ts and core/preflight/reduce.ts: a plan's legs    *)
(* are issued one after another to an environment that remembers what was  *)
(* done to it, and the answers are reduced to a verdict.  A caller with a  *)
(* harness of its own hands over observations instead: some, repeated and  *)
(* in any order.                                                           *)
(*                                                                         *)
(* The environment is not this repository's: `world` says what it does.    *)
(*   mutates, resets  whether the marked operations change the fixture,    *)
(*                    and the reset restores it                            *)
(*   sees             whether a read shows the fixture's state             *)
(*   sensitive        whether an answer depends on the inputs              *)
(*   fires            when a seeded defect shows: on its witness's inputs, *)
(*                    on every call, on none, or on any call but the       *)
(*                    operation's first                                    *)
(*   errors, header   an error's body, json or text; whether a header      *)
(*                    names the call                                       *)
(* An answer is [probe, op, kind, ok, body, value, state, shown, minted,   *)
(* header, digestible]; `shown` is the defects that it shows, `digestible` *)
(* whether its body has a canonical form.                                  *)
(***************************************************************************)
EXTENDS PreflightPlan, ArtifactInput

(* A setting is a contract, the defects of its probes, how the contract    *)
(* and the probe arrive, a world, the entry point, `mode`, and how many    *)
(* answers the port gets wrong.                                            *)
CONSTANTS Settings, MaxHanded  \* observations that a caller hands over

ASSUME PreflightAssumption == MaxHanded \in Nat

(* The probe that a wrong answer may name: no leg of any contract's.       *)
Unasked == <<"unasked", 1>>

(* What a contract and its probes list is a sequence, and they name        *)
(* finitely many legs.                                                     *)
ASSUME SettingsAssumption ==
    \A s \in Settings :
        LET listed(seq) == seq \in Seq(ToSet(seq))
            named == DeclaredLegIds(s.contract, s.defects)
        IN /\ listed(s.contract.ops) /\ listed(s.defects)
           /\ \A i \in DOMAIN s.contract.ops : listed(s.contract.ops[i].witness)
           /\ IsFiniteSet(named) /\ Unasked \notin named

VARIABLES setting, stage, dirty, answers, misanswers, observations, verdict

vars == <<setting, stage, dirty, answers, misanswers, observations, verdict>>

contract == setting.contract

defects == setting.defects

world == setting.world

mode == setting.mode

plan == PlannedLegs(contract, defects)

NoVerdict == [passed |-> FALSE, checks |-> {}, fault |-> "none"]

Fault(code) == [NoVerdict EXCEPT !.fault = code]

-----------------------------------------------------------------------------
(* What the environment does with one leg.                                 *)
Manifest(leg) ==
    {d \in Witnessed(defects) :
        /\ FaultOp(contract, defects[d]) = leg.op
        /\ \/ world.fires = "every"
           \/ world.fires = "input" /\ leg.inputs = defects[d].inputs
           \/ world.fires = "later" /\ \E k \in DOMAIN answers : answers[k].op = leg.op}

Restores(leg) ==
    /\ world.resets /\ contract.reset # NoReset
    /\ leg.op = OpOf(contract, contract.reset.iface, contract.reset.name)

Truthful(leg) ==
    [probe |-> leg.id, op |-> leg.op, kind |-> contract.ops[leg.op].kind,
     ok |-> leg.inputs.value # "refused",
     body |-> IF leg.inputs.value = "refused" THEN world.errors ELSE "json",
     value |-> IF world.sensitive THEN leg.inputs.value ELSE "same",
     state |-> world.sees /\ dirty, shown |-> Manifest(leg), minted |-> Len(answers),
     header |-> IF world.header THEN Len(answers) ELSE 0, digestible |-> TRUE]

Misanswered(answer) ==
    {[answer EXCEPT !.kind = CHOOSE k \in SupportedKinds : k # answer.kind],
     [answer EXCEPT !.op = 0],
     [answer EXCEPT !.digestible = FALSE],
     [answer EXCEPT !.probe = Unasked]}

-----------------------------------------------------------------------------
(* projection.ts: the body loses what the operation declares volatile, and *)
(* headers are outside.                                                    *)
Projected(answer, op) ==
    [op |-> answer.op, ok |-> answer.ok, body |-> answer.body, value |-> answer.value,
     state |-> answer.state, shown |-> answer.shown,
     minted |-> IF op.volatile /\ answer.body = "json" THEN 0 ELSE answer.minted]

(* Mutant: with pointers declared, the pointers are all that is compared   *)
(* and a state field that none of them names is lost.                      *)
StateResetProjectionBlind(answer, op) ==
    IF op.pointers /\ answer.body = "json" THEN [ok |-> answer.ok]
    ELSE Projected(answer, op)

StateResetProjection(answer, op) ==
    IF op.pointers /\ answer.body = "json"
    THEN [op |-> answer.op, ok |-> answer.ok, state |-> answer.state]
    ELSE Projected(answer, op)

(* witness-evidence.ts: what a relation can address, headers among it.     *)
EvidenceOf(answer, leg, op) ==
    [projected |-> Projected(answer, op), inputs |-> leg.inputs, header |-> answer.header]

(* resolveWitnessRelation, for the relations that the contracts declare:   *)
(* two legs' bodies differ in a value; a body carries a manifestation.     *)
Differs(left, right) ==
    IF "text" \in {left.projected.body, right.projected.body} THEN "insufficient-evidence"
    ELSE IF left.projected.value # right.projected.value THEN "true" ELSE "false"

Shows(evidence, d) ==
    IF evidence.projected.body = "text" THEN "insufficient-evidence"
    ELSE IF d \in evidence.projected.shown THEN "true" ELSE "false"

-----------------------------------------------------------------------------
(* reduce.ts.  `states`: the answer to each planned leg that has one.      *)
Answering(obs, leg) == {k \in DOMAIN obs : obs[k].probe = leg.id}

Answered(obs) == {i \in DOMAIN plan : Answering(obs, plan[i]) # {}}

States(obs) ==
    [i \in Answered(obs) |-> obs[CHOOSE k \in Answering(obs, plan[i]) : TRUE]]

OpOfLeg(i) == contract.ops[plan[i].op]

Evidence(states, i) == EvidenceOf(states[i], plan[i], OpOfLeg(i))

LegsOf(check) == {i \in DOMAIN plan : plan[i].id \in check.legs}

(* One request and one answer under two labels.                            *)
AnsweredAlike(states, i, j) ==
    /\ plan[i].inputs.digestible /\ plan[j].inputs.digestible
    /\ plan[i].op = plan[j].op /\ plan[i].inputs = plan[j].inputs
    /\ Evidence(states, i) = Evidence(states, j)

Present(states, check) ==
    \A i \in LegsOf(check) : i \in DOMAIN states /\ states[i].op = plan[i].op

Sensitive(states, check) ==
    LET op == contract.ops[check.op] IN
    IF op.witness = <<>> THEN op.keys = "none"
    ELSE /\ LegsOf(check) \subseteq DOMAIN states
         /\ \E i, j \in LegsOf(check) :
                i < j /\ Differs(Evidence(states, i), Evidence(states, j)) = "true"

SameFixtureState(states, check) ==
    /\ LegsOf(check) \subseteq DOMAIN states
    /\ \A i, j \in LegsOf(check) :
        StateResetProjection(states[i], OpOfLeg(i)) = StateResetProjection(states[j], OpOfLeg(j))

CleanControl(states, check) ==
    \A i \in LegsOf(check) : i \in DOMAIN states /\ states[i].ok

DefectOf(check) == CHOOSE d \in DOMAIN defects : defects[d].leg = check.fault

(* The legs that ask another question than the defect's own, or got        *)
(* another answer; one that was not answered is among them.                *)
Examined(states, check) ==
    LET own == CHOOSE i \in DOMAIN plan : plan[i].id = check.fault IN
    {i \in LegsOf(check) :
        ~({i, own} \subseteq DOMAIN states /\ AnsweredAlike(states, i, own))}

(* Mutant: a check that examined nothing is satisfied.                     *)
ScopedVacuously(states, check) ==
    \A i \in Examined(states, check) :
        i \in DOMAIN states => Shows(Evidence(states, i), DefectOf(check)) # "true"

Scoped(states, check) ==
    /\ Examined(states, check) # {}
    /\ \A i \in Examined(states, check) :
        i \in DOMAIN states => Shows(Evidence(states, i), DefectOf(check)) # "true"

Fired(states, check) ==
    /\ check.fault # Unwitnessed.leg
    /\ \E i \in DOMAIN states :
        plan[i].id = check.fault /\ Shows(Evidence(states, i), DefectOf(check)) = "true"

Satisfied(states, check) ==
    CASE check.kind = "interface-present" -> Present(states, check)
      [] check.kind = "input-sensitivity" -> Sensitive(states, check)
      [] check.kind = "state-reset" -> SameFixtureState(states, check)
      [] check.kind = "clean-control" -> CleanControl(states, check)
      [] check.kind = "seeded-faults-scoped" -> Scoped(states, check)
      [] check.kind = "seeded-fault-fired" -> Fired(states, check)

(* `checks` is those that failed.                                          *)
ReducePreflight(obs) ==
    LET states == States(obs)
        failed == {c \in PlannedChecks(contract, defects) : ~Satisfied(states, c)}
    IN IF \/ ~IsInjective([k \in DOMAIN obs |-> obs[k].probe])
          \/ \E i \in DOMAIN states : states[i].kind # OpOfLeg(i).kind
          \/ states = <<>>
       THEN Fault("port-contract-violation")
       ELSE IF \E i \in DOMAIN states : ~states[i].digestible THEN Fault("non-canonicalizable-value")
       ELSE [passed |-> failed = {}, checks |-> failed, fault |-> "none"]

-----------------------------------------------------------------------------
Init ==
    /\ setting \in Settings /\ stage = "read" /\ dirty = FALSE /\ answers = <<>> /\ misanswers = 0
    /\ observations = <<>> /\ verdict = NoVerdict

(* parseContract and parseProbes, in both entry points.                    *)
Parse ==
    /\ stage = "read"
    /\ LET fault == FirstFault(<<InputFault(setting.arrived.contract),
                                ArrayFault(<<setting.arrived.probe>>)>>)
       IN IF fault = "none" THEN stage' = "parsed" /\ UNCHANGED verdict
          ELSE stage' = "ended" /\ verdict' = Fault(fault)
    /\ UNCHANGED <<setting, dirty, answers, misanswers, observations>>

(* planPreflight, in both entry points.                                    *)
Plan ==
    /\ stage = "parsed"
    /\ IF Refusal(contract, defects) = "none"
       THEN stage' = "issuing" /\ UNCHANGED verdict
       ELSE stage' = "ended" /\ verdict' = Fault(Refusal(contract, defects))
    /\ UNCHANGED <<setting, dirty, answers, misanswers, observations>>

(* The environment executes the next leg, and the port answers with what   *)
(* it saw or with something else.                                          *)
Issue ==
    /\ stage = "issuing" /\ Len(answers) < Len(plan)
    /\ LET leg == plan[Len(answers) + 1] IN
        /\ dirty' = IF Restores(leg) THEN FALSE
                    ELSE dirty \/ (contract.ops[leg.op].marker /\ world.mutates)
        /\ \/ /\ answers' = Append(answers, Truthful(leg))
              /\ UNCHANGED misanswers
           \/ /\ misanswers < setting.misanswers
              /\ \E a \in Misanswered(Truthful(leg)) : answers' = Append(answers, a)
              /\ misanswers' = misanswers + 1
        /\ observations' = IF mode = "port" THEN answers' ELSE observations
    /\ UNCHANGED <<setting, stage, verdict>>

(* invokePort throws: the run ends where it stands, with no verdict.       *)
IssueThrows ==
    /\ stage = "issuing" /\ mode = "port" /\ Len(answers) < Len(plan)
    /\ stage' = "ended" /\ verdict' = Fault("port-fault")
    /\ UNCHANGED <<setting, dirty, answers, misanswers, observations>>

(* A caller's own harness hands over an answer, perhaps not for the first  *)
(* time.                                                                   *)
Hand ==
    /\ stage = "issuing" /\ mode = "observations" /\ Len(answers) = Len(plan)
    /\ Len(observations) < MaxHanded
    /\ \E k \in DOMAIN answers : observations' = Append(observations, answers[k])
    /\ UNCHANGED <<setting, stage, dirty, answers, misanswers, verdict>>

Reduce ==
    /\ stage = "issuing" /\ Len(answers) = Len(plan)
    /\ verdict' = ReducePreflight(observations)
    /\ stage' = "ended"
    /\ UNCHANGED <<setting, dirty, answers, misanswers, observations>>

Next == Parse \/ Plan \/ Issue \/ IssueThrows \/ Hand \/ Reduce

Spec == Init /\ [][Next]_vars

-----------------------------------------------------------------------------
(* Where the leg of a defect stands in the plan.                           *)
Own(d) == CHOOSE i \in DOMAIN plan : plan[i].id = defects[d].leg

(* A verdict that passes is evidence of what it stands for: the answer to  *)
(* each defect's own leg showed the defect, and another leg of that        *)
(* operation was answered without it; and for every operation that takes   *)
(* inputs, two answers differed.  Each check reads answers that others are *)
(* responsible for: a leg that was not answered shows nothing to the       *)
(* scoped check, and only the presence check refuses it (reduce.ts,        *)
(* reduceCheck).                                                           *)
PassIsEvidence ==
    verdict.passed =>
        /\ \A d \in DOMAIN defects :
            /\ d \in Witnessed(defects) /\ d \in answers[Own(d)].shown
            /\ \E i \in DOMAIN plan :
                plan[i].op = plan[Own(d)].op /\ (d \notin answers[i].shown \/ answers[i].body = "text")
        /\ \A op \in DOMAIN contract.ops :
            contract.ops[op].keys # "none" =>
                \E i, j \in DOMAIN plan :
                    /\ plan[i].op = op /\ plan[j].op = op
                    /\ answers[i].value # answers[j].value

(* A verdict that passes over a fixture that a control leg changed, from   *)
(* the state that the first read showed, means that the reset undid the    *)
(* change: the reset that is never carried out is found out (projection.ts,*)
(* stateResetProjection, and the order of planPreflight's control legs).   *)
ResetProven ==
    LET first == Len(SensitivityLegs(contract)) + 1
        control == ControlLegs(contract, defects)
    IN (verdict.passed /\ Len(control) = 4 /\ world.mutates /\ world.sees
            /\ ~answers[first].state) => world.resets

(* No verdict passes over a delivery that is not whole: each planned leg   *)
(* was answered exactly once, by an answer of its kind and to its          *)
(* operation, whatever the order, and nothing is lost or repeated on the   *)
(* way from a caller's harness (reduce.ts, the index by probeId).          *)
PassIsWhole ==
    verdict.passed =>
        \A i \in DOMAIN plan :
            \E k \in DOMAIN observations :
                /\ observations[k].probe = plan[i].id
                /\ observations[k].op = plan[i].op
                /\ observations[k].kind = OpOfLeg(i).kind
                /\ \A n \in DOMAIN observations : observations[n].probe = plan[i].id => n = k

(* A plan is refused for a repeated leg identifier only if the contract    *)
(* and its probes declare one twice: the identifiers that are minted for   *)
(* control legs avoid all of those (plan.ts, mintLegId).                   *)
MintedNeverCollides ==
    verdict.fault = "malformed-operator-expression" =>
        LET control == ControlLegs(contract, defects)
            reset == SubSeq(control, 3, Len(control) - 1)
            declared == SensitivityLegs(contract) \o reset \o FaultLegs(contract, defects)
        IN ~IsInjective([i \in DOMAIN declared |-> declared[i].id])

(* The outcome of pre-flight is earned: a pass by the evidence of each     *)
(* check over a delivery that is whole, a refusal for a repeated name by   *)
(* its author's repetition (reduce.ts, reducePreflight; plan.ts).          *)
OutcomeEarned == PassIsEvidence /\ PassIsWhole /\ MintedNeverCollides
=============================================================================
