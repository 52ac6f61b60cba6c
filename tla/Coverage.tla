-------------------------------- MODULE Coverage --------------------------------
(***************************************************************************)
(* core/coverage: the seven disciplines.  A rule is relevant to a contract *)
(* by its declarations, and satisfied if every site that the declarations  *)
(* give it is witnessed by an oracle; the gaps are the rules that are      *)
(* relevant and not satisfied.                                             *)
(*                                                                         *)
(* An operation has besides                                                *)
(*   indicator  <<tail>> of its success indicator, or <<>>                 *)
(*   roles      <<a function from tails to roles>>, or <<>>                *)
(*   listed     whether it has a list of collection locations at all       *)
(* and a contract `siblings`, <<>> or <<[operations, parameters]>>: sets   *)
(* of groups, which are sets of <<interface, operation>> or of keys.  A    *)
(* behavior's `oracles` are identifiers.                                   *)
(***************************************************************************)
EXTENDS ExpressionChecks

DisciplineRules ==
    {"success-indicator-separation", "whole-body", "malformed-input", "per-record",
     "sibling-cross-check", "omission-and-completeness", "state-change-read-back"}

SiblingGroupMinimum == 2

Ops(c) == {c.ops[i] : i \in DOMAIN c.ops}

-----------------------------------------------------------------------------
(* relevance.ts, and what its predicates ask of one operation.             *)

Separable(op) ==
    op.indicator = <<>> \/ op.roles = <<>> \/ DOMAIN op.roles[1] \ {op.indicator[1]} # {}

DeclaresRequestKey(op) == ~DeclaresNoRequestKeys(op)

ReferenceSetNamed(op) == ~op.listed \/ \E k \in ToSet(op.collections) : k.set # "none"

RelevantSite(rule, op) ==
    CASE rule = "success-indicator-separation" -> Separable(op)
      [] rule = "whole-body" -> Cardinality(op.body.required) > 1
      [] rule = "malformed-input" -> DeclaresRequestKey(op)
      [] rule = "per-record" -> ~op.listed \/ op.collections # <<>>
      [] rule = "omission-and-completeness" -> ReferenceSetNamed(op)
      [] rule = "state-change-read-back" -> op.marker

(* A declaration that is absent makes its rule relevant.                   *)
Relevant(c, rule) ==
    IF rule = "sibling-cross-check"
    THEN \/ c.siblings = <<>>
         \/ c.siblings[1].operations # {} \/ c.siblings[1].parameters # {}
    ELSE c.ops = <<>> \/ \E op \in Ops(c) : RelevantSite(rule, op)

-----------------------------------------------------------------------------
(* satisfaction.ts: pointers, rooted at a step.                            *)

Root(step, channel, input, artifact, tail) ==
    [step |-> step, channel |-> channel, input |-> input, artifact |-> artifact, tail |-> tail]

(* bodyPointer.                                                            *)
BodyPointer(op, step, tail) ==
    Root(step, DescriptorChannelOf(op), "none",
         IF DescriptorChannelOf(op) = "artifact" THEN op.artifact ELSE NoArtifact, tail)

Addresses(p, root) ==
    /\ p.step = root.step /\ p.channel = root.channel
    /\ p.input = root.input /\ p.artifact = root.artifact
    /\ IsPrefix(root.tail, p.tail)

DirectionPointers(o) == UNION {d.targets : d \in ToSet(o.direction)}

BothChannelsAddress(o, root) ==
    /\ \E p \in DirectionPointers(o) : Addresses(p, root)
    /\ \E p \in Targets(o.check) : Addresses(p, root)

(* stepsUsing.                                                             *)
StepsUsing(c, iface, id) ==
    {c.steps[i].id : i \in {k \in DOMAIN c.steps : c.steps[k].iface = iface /\ c.steps[k].op = id}}

StepsOf(c, op) == StepsUsing(c, op.iface, op.id)

Oracles(c) == {c.oracles[i] : i \in DOMAIN c.oracles}

Linked(c) == UNION {ToSet(c.behaviors[i].oracles) : i \in DOMAIN c.behaviors}

LinkedOracles(c) == {o \in Oracles(c) : o.id \in Linked(c)}

-----------------------------------------------------------------------------
(* scalarCommandWitnessed: a command with nothing but a text and an exit   *)
(* code, both compared with a literal in one check.                        *)
ScalarCommand(op) ==
    /\ op.kind = "cli" /\ DescriptorChannelOf(op) = "stdout"
    /\ Keys(op.body) = {} /\ DOMAIN op.body.types = {}
    /\ op.roles # <<>> =>
          \A tail \in DOMAIN op.roles[1] : tail = <<>> /\ op.roles[1][tail] = "payload"

(* scalarEqualities, one of the two.                                       *)
Equated(e, root, value) ==
    \E n \in DOMAIN e :
        /\ e[n].within = 0 /\ e[n].under \in {"nothing", "all"}
        /\ e[n].op \in {"equality", "deep-equality"}
        /\ \E i, j \in DOMAIN e[n].operands : e[n].operands[i] = At(root) /\ e[n].operands[j] = Literal(value)

ScalarWitnessed(c, op) ==
    /\ ScalarCommand(op)
    /\ \E s \in StepsOf(c, op), o \in LinkedOracles(c) :
        LET exit == Root(s, "exit-code", "none", NoArtifact, <<>>)
            out == Root(s, "stdout", "none", NoArtifact, <<>>)
        IN /\ o.polarity = "expects-hold"
           /\ \E d \in ToSet(o.direction) : d.polarity = "expects-hold" /\ {exit, out} \subseteq d.targets
           /\ Equated(o.check, exit, "zero") /\ Equated(o.check, out, "text")

(* Mutant: an operation that gives no other pointer a role is a site that  *)
(* nothing can witness.                                                    *)
SuccessIndicatorWitnessedStrictly(c, op) ==
    IF op.indicator = <<>> THEN ScalarWitnessed(c, op)
    ELSE /\ op.roles # <<>>
         /\ \E s \in StepsOf(c, op), o \in LinkedOracles(c) :
               /\ BothChannelsAddress(o, BodyPointer(op, s, op.indicator[1]))
               /\ \E tail \in DOMAIN op.roles[1] \ {op.indicator[1]} :
                    /\ op.roles[1][tail] # "success-indicator"
                    /\ BothChannelsAddress(o, BodyPointer(op, s, tail))

SuccessIndicatorWitnessed(c, op) ==
    IF op.indicator = <<>> THEN ScalarWitnessed(c, op)
    ELSE /\ op.roles # <<>>
         /\ \/ DOMAIN op.roles[1] \subseteq {op.indicator[1]}
            \/ \E s \in StepsOf(c, op), o \in LinkedOracles(c) :
                /\ BothChannelsAddress(o, BodyPointer(op, s, op.indicator[1]))
                /\ \E tail \in DOMAIN op.roles[1] \ {op.indicator[1]} :
                    /\ op.roles[1][tail] # "success-indicator"
                    /\ BothChannelsAddress(o, BodyPointer(op, s, tail))

(* One oracle covers every required key, at one step.                      *)
WholeBodyWitnessed(c, op) ==
    \/ Cardinality(op.body.required) <= 1
    \/ \E s \in StepsOf(c, op), o \in Oracles(c) :
        \A key \in op.body.required : BothChannelsAddress(o, BodyPointer(op, s, <<key>>))

BindsTypeViolating(step) == \E b \in ToSet(step.binds) : b.form = "type-violating"

MalformedInputWitnessed(c, op) ==
    \/ ~DeclaresRequestKey(op)
    \/ \E i \in DOMAIN c.steps, o \in Oracles(c) :
        /\ c.steps[i].iface = op.iface /\ c.steps[i].op = op.id
        /\ BindsTypeViolating(c.steps[i])
        /\ \E p \in Targets(o.check) : p.step = c.steps[i].id

(* Every collection is quantified over, and exactly it.                    *)
PerRecordWitnessed(c, op) ==
    /\ op.listed
    /\ \A k \in ToSet(op.collections) : \E s \in StepsOf(c, op), o \in Oracles(c) :
        \E n \in DOMAIN o.check :
            /\ o.check[n].op \in Quantifiers
            /\ Roots(o.check)[n] = BodyPointer(op, s, k.tail)

(* reconciles: a bijection with the reference set where the cardinality is *)
(* exact, else every element a member of it.                               *)
Reconciles(e, n, collection, k) ==
    IF k.mode = "exact"
    THEN /\ e[n].op = "covers-by-key" /\ e[n].operands[1] = Set(k.set)
         /\ e[n].operands[2].form = "pointer"
         /\ Substituted(e[n].operands[2].pointer, Roots(e)[e[n].within]) = collection
    ELSE /\ e[n].op = "for-all" /\ Roots(e)[n] = collection
         /\ \E m \in DOMAIN e :
                /\ e[m].within = n /\ e[m].under = "nothing"
                /\ e[m].op = "set-membership" /\ e[m].operands[2] = Set(k.set)

CompletenessWitnessed(c, op) ==
    /\ op.listed
    /\ \A k \in ToSet(op.collections) :
        k.set # "none" =>
            \E s \in StepsOf(c, op), o \in Oracles(c) :
                \E n \in DOMAIN o.check : Reconciles(o.check, n, BodyPointer(op, s, k.tail), k)

(* readBackStepsFor: the steps after the write that change nothing, each   *)
(* with its operation.                                                     *)
ReadBackSteps(c, write) ==
    {r \in (DOMAIN c.steps) \X (DOMAIN c.ops) :
        /\ c.steps[r[1]].id # write /\ c.steps[r[1]].after = write
        /\ OperationOf(c, c.steps[r[1]]) = r[2] /\ ~c.ops[r[2]].marker}

(* One node reads what the write was sent and what the read answered.      *)
ReadBackWitnessed(c, op) ==
    \/ ~op.marker
    \/ \E write \in StepsOf(c, op) : \E r \in ReadBackSteps(c, write), o \in Oracles(c) :
        \E n \in DOMAIN o.check :
            LET read == {Substituted(p, Roots(o.check)[o.check[n].within]) : p \in PointersOf(o.check[n])}
            IN /\ \E p \in read : p.step = write /\ p.channel = "call-inputs"
               /\ \E p \in read : Addresses(p, BodyPointer(c.ops[r[2]], c.steps[r[1]].id, <<>>))

SiteWitnessed(c, rule, op) ==
    CASE rule = "success-indicator-separation" -> SuccessIndicatorWitnessed(c, op)
      [] rule = "whole-body" -> WholeBodyWitnessed(c, op)
      [] rule = "malformed-input" -> MalformedInputWitnessed(c, op)
      [] rule = "per-record" -> PerRecordWitnessed(c, op)
      [] rule = "omission-and-completeness" -> CompletenessWitnessed(c, op)
      [] rule = "state-change-read-back" -> ReadBackWitnessed(c, op)

-----------------------------------------------------------------------------
(* siblingCrossCheckSatisfaction: one oracle addresses two of each group,  *)
(* an operation by any of its steps, a parameter by any input of any step. *)
StepAddressed(o, step) ==
    /\ \E p \in DirectionPointers(o) : p.step = step
    /\ \E p \in Targets(o.check) : p.step = step

OperationAddressed(c, o, member) ==
    \E s \in StepsUsing(c, member[1], member[2]) : StepAddressed(o, s)

ParameterAddressed(c, o, key) ==
    \E i \in DOMAIN c.steps, channel \in TransportChannels \cup CommandChannels \cup McpChannels :
        BothChannelsAddress(o, Root(c.steps[i].id, "call-inputs", channel, NoArtifact, <<key>>))

SiblingsWitnessed(c) ==
    /\ c.siblings # <<>>
    /\ \A group \in c.siblings[1].operations : \E o \in Oracles(c) :
        Cardinality({m \in group : OperationAddressed(c, o, m)}) >= SiblingGroupMinimum
    /\ \A group \in c.siblings[1].parameters : \E o \in Oracles(c) :
        Cardinality({m \in group : ParameterAddressed(c, o, m)}) >= SiblingGroupMinimum

Satisfied(c, rule) ==
    IF rule = "sibling-cross-check" THEN SiblingsWitnessed(c)
    ELSE c.ops # <<>> /\ \A op \in Ops(c) : SiteWitnessed(c, rule, op)

-----------------------------------------------------------------------------
(* coverage.ts: every gap is as severe as the worst behavior.              *)
SeverityLevels == <<"low", "material", "critical">>

CoverageSeverity(c) ==
    SeverityLevels[CHOOSE n \in DOMAIN SeverityLevels :
        /\ \E i \in DOMAIN c.behaviors : c.behaviors[i].severity = SeverityLevels[n]
        /\ \A i \in DOMAIN c.behaviors, m \in DOMAIN SeverityLevels :
              c.behaviors[i].severity = SeverityLevels[m] => m <= n]

EvaluateCoverage(c) ==
    {[rule |-> rule, severity |-> CoverageSeverity(c)] :
        rule \in {r \in DisciplineRules : Relevant(c, r) /\ ~Satisfied(c, r)}}
=============================================================================
