----------------------------- MODULE PreflightPlan -----------------------------
(***************************************************************************)
(* core/preflight/plan.ts: from a contract and its probes to the legs that *)
(* are sent to the environment, in order, and the checks that are read off *)
(* their answers.                                                          *)
(*                                                                         *)
(*   contract  ops      Seq of operations [iface, name, kind, marker, keys,*)
(*                      witness, volatile, pointers]                       *)
(*             reset    the fixture reset [leg, iface, name, inputs]       *)
(*             steps    the identifiers of the interaction plan            *)
(*   defects   Seq of [leg, iface, name, inputs, probe] or Unwitnessed     *)
(*   inputs    [kind, legal, digestible, value], `legal` if the            *)
(*             operation's request shape declares what they supply         *)
(* A leg identifier is <<base, n>>: the text of base, then "-n" for n > 1. *)
(***************************************************************************)
EXTENDS SequencesExt

Unwitnessed == [leg |-> <<"none", 1>>]

NoReset == [leg |-> <<"none", 1>>]

SupportedKinds == {"api", "cli", "mcp"}

Named(contract, iface, name) ==
    {i \in DOMAIN contract.ops : contract.ops[i].iface = iface /\ contract.ops[i].name = name}

(* The first operation of that name, 0 if there is none.                   *)
OpOf(contract, iface, name) ==
    IF Named(contract, iface, name) = {} THEN 0
    ELSE CHOOSE i \in Named(contract, iface, name) :
            \A j \in Named(contract, iface, name) : i <= j

FirstIn(S) == IF S = {} THEN 0 ELSE CHOOSE i \in S : \A j \in S : i <= j

Leg(id, purpose, op, inputs) ==
    [id |-> id, purpose |-> purpose, op |-> op, inputs |-> inputs]

EmptyInputs(op) == [kind |-> op.kind, legal |-> TRUE, digestible |-> TRUE, value |-> "empty"]

(* An operation can be given inputs: its witness's, or none if it requires *)
(* none.                                                                   *)
CanBeSent(op) == op.witness # <<>> \/ op.keys # "required"

ControlInputs(op) == IF op.witness # <<>> THEN op.witness[1].inputs ELSE EmptyInputs(op)

-----------------------------------------------------------------------------
(* The control legs' targets: the first read anywhere, the first mutation  *)
(* on the interface that the reset names.                                  *)
Observed(contract) ==
    FirstIn({i \in DOMAIN contract.ops : ~contract.ops[i].marker /\ CanBeSent(contract.ops[i])})

Mutating(contract) ==
    IF contract.reset = NoReset THEN 0
    ELSE FirstIn({i \in DOMAIN contract.ops :
                    /\ contract.ops[i].iface = contract.reset.iface
                    /\ contract.ops[i].marker /\ CanBeSent(contract.ops[i])})

Witnessed(defects) == {i \in DOMAIN defects : defects[i] # Unwitnessed}

DeclaredLegIds(contract, defects) ==
    contract.steps
        \cup {l.id : l \in UNION {ToSet(contract.ops[i].witness) : i \in DOMAIN contract.ops}}
        \cup ({contract.reset.leg} \ {NoReset.leg})
        \cup {defects[i].leg : i \in Witnessed(defects)}

(* The first spelling of a base that is not taken.                         *)
Mint(base, taken) ==
    <<base, CHOOSE n \in 1 .. Cardinality(taken) + 1 :
                /\ <<base, n>> \notin taken
                /\ \A m \in 1 .. n - 1 : <<base, m>> \in taken>>

-----------------------------------------------------------------------------
SensitivityLegs(contract) ==
    FlattenSeq([i \in DOMAIN contract.ops |->
        [k \in DOMAIN contract.ops[i].witness |->
            Leg(contract.ops[i].witness[k].id, "sensitivity", i,
                contract.ops[i].witness[k].inputs)]])

(* Observe, mutate and reset if there is something to mutate, observe.     *)
ControlLegs(contract, defects) ==
    LET o == Observed(contract)
        m == Mutating(contract)
        ids == DeclaredLegIds(contract, defects)
        first == Mint("control-observe", ids)
        mutate == Mint("control-mutate", ids \cup {first})
        last == Mint("control-observe",
                     ids \cup {first} \cup (IF m # 0 THEN {mutate} ELSE {}))
        look(id) == <<Leg(id, "control-observe", o, ControlInputs(contract.ops[o]))>>
    IN IF o = 0 THEN <<>>
       ELSE look(first)
            \o (IF m = 0 THEN <<>>
                ELSE <<Leg(mutate, "control-mutate", m, ControlInputs(contract.ops[m])),
                       Leg(contract.reset.leg, "control-reset",
                           OpOf(contract, contract.reset.iface, contract.reset.name),
                           contract.reset.inputs)>>)
            \o look(last)

FaultOp(contract, d) == OpOf(contract, d.iface, d.name)

FaultLegs(contract, defects) ==
    FlattenSeq([i \in DOMAIN defects |->
        IF defects[i] = Unwitnessed THEN <<>>
        ELSE <<Leg(defects[i].leg, "seeded-fault", FaultOp(contract, defects[i]),
                   defects[i].inputs)>>])

PlannedLegs(contract, defects) ==
    SensitivityLegs(contract) \o ControlLegs(contract, defects) \o FaultLegs(contract, defects)

-----------------------------------------------------------------------------
Of(legs, op) == {legs[i].id : i \in {j \in DOMAIN legs : legs[j].op = op}}

(* Mutant: presence is asked of the legs that come before the defects'.    *)
PresenceChecksEarly(contract, defects) ==
    LET legs == SensitivityLegs(contract) \o ControlLegs(contract, defects) IN
    {[kind |-> "interface-present", op |-> i, legs |-> Of(legs, i)] :
        i \in {legs[k].op : k \in DOMAIN legs}}

PresenceChecks(contract, defects) ==
    LET legs == PlannedLegs(contract, defects) IN
    {[kind |-> "interface-present", op |-> i, legs |-> Of(legs, i)] :
        i \in {legs[k].op : k \in DOMAIN legs}}

SensitivityChecks(contract) ==
    {[kind |-> "input-sensitivity", op |-> i,
      legs |-> {l.id : l \in ToSet(contract.ops[i].witness)}] : i \in DOMAIN contract.ops}

ControlChecks(contract, defects) ==
    LET control == ControlLegs(contract, defects) IN
    IF control = <<>> THEN {}
    ELSE {[kind |-> "state-reset", op |-> 0,
           legs |-> {control[1].id, control[Len(control)].id}],
          [kind |-> "clean-control", op |-> 0, legs |-> {l.id : l \in ToSet(control)}]}

(* A defect's clean legs are those of its operation that come before its   *)
(* own, the other defects' among them.                                     *)
CleanLegs(contract, defects, d) ==
    LET legs == PlannedLegs(contract, defects)
        own == CHOOSE i \in DOMAIN legs :
                  legs[i].purpose = "seeded-fault" /\ legs[i].id = defects[d].leg
    IN Of(SubSeq(legs, 1, own - 1), FaultOp(contract, defects[d]))

FaultChecks(contract, defects) ==
    {[kind |-> "seeded-faults-scoped", op |-> FaultOp(contract, defects[d]),
      fault |-> defects[d].leg, legs |-> CleanLegs(contract, defects, d)] :
        d \in Witnessed(defects)}
    \cup {[kind |-> "seeded-fault-fired", op |-> 0, fault |-> defects[d].leg, legs |-> {}] :
        d \in DOMAIN defects}

PlannedChecks(contract, defects) ==
    PresenceChecks(contract, defects) \cup SensitivityChecks(contract)
        \cup ControlChecks(contract, defects) \cup FaultChecks(contract, defects)

-----------------------------------------------------------------------------
(* requestOf: the inputs' spelling is that of the operation's kind.        *)
Mismatched(contract, legs) ==
    \E i \in DOMAIN legs :
        legs[i].op # 0 /\ legs[i].inputs.kind # contract.ops[legs[i].op].kind

(* planPreflight refuses, in this order; "none" for a plan.                *)
Refusal(contract, defects) ==
    LET sensitivity == SensitivityLegs(contract)
        control == ControlLegs(contract, defects)
        faults == FaultLegs(contract, defects)
        legs == PlannedLegs(contract, defects)
    IN IF contract.duplicated THEN "duplicate-interface-identifier"
       ELSE IF \E i \in DOMAIN contract.ops : contract.ops[i].kind \notin SupportedKinds
       THEN "unsupported-interface-kind"
       ELSE IF Mismatched(contract, sensitivity) THEN "undeclared-mandatory-input"
       ELSE IF \E i \in DOMAIN control : control[i].op = 0 THEN "unreachable-check-evidence"
       ELSE IF Mismatched(contract, control) THEN "undeclared-mandatory-input"
       ELSE IF \E i \in DOMAIN faults : faults[i].op = 0 THEN "unreachable-check-evidence"
       ELSE IF Mismatched(contract, faults) \/ \E i \in DOMAIN faults : ~faults[i].inputs.legal
       THEN "undeclared-mandatory-input"
       ELSE IF ~IsInjective([i \in DOMAIN legs |-> legs[i].id])
       THEN "malformed-operator-expression"
       ELSE IF legs = <<>> THEN "unreachable-check-evidence"
       ELSE "none"
=============================================================================
