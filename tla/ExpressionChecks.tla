---------------------------- MODULE ExpressionChecks ----------------------------
(***************************************************************************)
(* What a pointer into the evidence names, and whether the declared        *)
(* interfaces can produce it: core/seal/plan-index.ts,                     *)
(* core/declared-inputs.ts and core/compile/reachability.ts.               *)
(*                                                                         *)
(*   pointer    [step, channel, input, artifact, tail]; step Bound for the *)
(*              element that a quantifier binds                            *)
(*   shape      [required, permitted, types]: sets of keys, and for some   *)
(*              keys a type of JsonTypes or "unstated"                     *)
(*   operation  [iface, id, kind, channel, artifact, artifacts, body,      *)
(*              collections, request, volatile, resetPointers, ...]: the   *)
(*              channel that `body`, its descriptor, describes (and which  *)
(*              artifact of `artifacts`), the collections it declares, a   *)
(*              shape for each request channel, the tails of its volatile  *)
(*              and its state-reset pointers; a collection is [tail, bound,*)
(*              set, mode]                                                 *)
(*   contract   [steps, ops, ...]: the plan, and the operations in the     *)
(*              order of their interfaces                                  *)
(***************************************************************************)
EXTENDS SequencesExt

Subset == INSTANCE RegexSubset

Bound == "@"

NoArtifact == "none"

Wildcard == "*"

(* The array indices among the tokens.                                     *)
Index == [token \in {"0", "1", "2"} |->
            CASE token = "0" -> 0 [] token = "1" -> 1 [] token = "2" -> 2]

TransportChannels == {"path", "query", "header", "body"}

CommandChannels == {"argument", "option", "environment", "stdin"}

McpChannels == {"arguments"}

InputChannelsOf(op) ==
    CASE op.kind = "cli" -> CommandChannels
      [] op.kind = "mcp" -> McpChannels
      [] OTHER -> TransportChannels

(* descriptorChannelOf: a command nominates its own.                       *)
DescriptorChannelOf(op) == IF op.kind = "cli" THEN op.channel ELSE "response-body"

TargetsDescribedChannel(op, p) ==
    /\ p.channel = DescriptorChannelOf(op)
    /\ p.channel = "artifact" => p.artifact = op.artifact

DeclaresNoRequestKeys(op) ==
    \A c \in DOMAIN op.request :
        /\ op.request[c].required \cup op.request[c].permitted = {}
        /\ DOMAIN op.request[c].types = {}

-----------------------------------------------------------------------------
(* buildPlanIndex, with what is declared twice left unresolved: the step,  *)
(* or the operation, as a position, and 0 for none.                        *)
Only(S) == IF Cardinality(S) = 1 THEN CHOOSE i \in S : TRUE ELSE 0

StepOf(contract, id) == Only({i \in DOMAIN contract.steps : contract.steps[i].id = id})

OperationOf(contract, step) ==
    Only({i \in DOMAIN contract.ops :
            contract.ops[i].iface = step.iface /\ contract.ops[i].id = step.op})

(* The operation of a pointer's step.                                      *)
Addressed(contract, p) ==
    LET s == StepOf(contract, p.step) IN
    IF s = 0 THEN 0 ELSE OperationOf(contract, contract.steps[s])

-----------------------------------------------------------------------------
JsonTypes == {"string", "number", "boolean", "null", "object", "array"}

ScalarTypes == JsonTypes \ {"object", "array"}

Keys(shape) == shape.required \cup shape.permitted

DescendsIntoDeclaredScalar(shape, tail) ==
    /\ Len(tail) > 1
    /\ Head(tail) \in DOMAIN shape.types /\ shape.types[Head(tail)] \in ScalarTypes

RootCollections(op) == {i \in DOMAIN op.collections : op.collections[i].tail = <<>>}

(* The bound of the first of them, which is the one that is looked at.     *)
RootBounds(op) ==
    {op.collections[i].bound : i \in {j \in RootCollections(op) : \A k \in RootCollections(op) : j <= k}}

(* Mutant: an index is compared with the last one there may be.            *)
DescendThroughDescriptorOffByOne(op, tail) ==
    \/ tail = <<>>
    \/ IF RootCollections(op) # {} /\ Head(tail) \in DOMAIN Index
       THEN \E bound \in RootBounds(op) : Index[Head(tail)] <= bound
       ELSE Head(tail) \in Keys(op.body) /\ ~DescendsIntoDeclaredScalar(op.body, tail)

DescendThroughDescriptor(op, tail) ==
    \/ tail = <<>>
    \/ IF RootCollections(op) # {} /\ Head(tail) \in DOMAIN Index
       THEN \E bound \in RootBounds(op) : Index[Head(tail)] < bound
       ELSE Head(tail) \in Keys(op.body) /\ ~DescendsIntoDeclaredScalar(op.body, tail)

InputReachable(op, p) ==
    /\ p.input \in DOMAIN op.request
    /\ \/ p.tail = <<>>
       \/ /\ Head(p.tail) \in Keys(op.request[p.input])
          /\ ~DescendsIntoDeclaredScalar(op.request[p.input], p.tail)

(* evaluateReachabilityAgainstOperation.                                   *)
ReachableOn(op, p) ==
    \/ p.step = Bound
    \/ /\ p.channel = "artifact" /\ p.artifact \in op.artifacts
       /\ IF p.artifact = op.artifact
          THEN DescendThroughDescriptor(op, p.tail) ELSE p.tail = <<>>
    \/ /\ p.channel = DescriptorChannelOf(op) /\ p.channel # "artifact"
       /\ DescendThroughDescriptor(op, p.tail)
    \/ /\ p.channel \notin {"artifact", DescriptorChannelOf(op)}
       /\ op.kind = "mcp" => p.channel \notin {"response-headers", "stdout", "stderr"}
       /\ op.kind = "cli" =>
             p.channel \notin {"response-body", "response-headers", "response-status"}
       /\ p.channel \in {"stdout", "stderr"} => p.tail = <<>>
       /\ p.channel = "call-inputs" => InputReachable(op, p)

(* evaluatePointerReachability.                                            *)
Reachable(contract, p) ==
    \/ p.step = Bound
    \/ Addressed(contract, p) # 0 /\ ReachableOn(contract.ops[Addressed(contract, p)], p)

(* A volatile pointer covers what lies at it and below.                    *)
Covers(volatile, tail) ==
    /\ Len(volatile) <= Len(tail)
    /\ \A i \in DOMAIN volatile : volatile[i] \in {Wildcard, tail[i]}

(* checkExpressionLegChannel: the channels that pre-flight fills in a leg. *)
LegChannels(op) ==
    {DescriptorChannelOf(op), "call-inputs"} \cup
        CASE op.kind = "cli" -> {"exit-code"}
          [] op.kind = "mcp" -> {"response-status", "exit-code"}
          [] OTHER -> {"response-headers", "response-status"}

OnLeg(op, p) ==
    \/ p.step = Bound
    \/ /\ p.channel \in LegChannels(op)
       /\ p.channel = "artifact" => p.artifact = op.artifact

(* checkExpressionVolatility: the projection has removed it.               *)
PrunedFromLeg(op, p) ==
    /\ p.step # Bound /\ TargetsDescribedChannel(op, p)
    /\ \E v \in op.volatile : Covers(v, p.tail)

(* checkStateResetPointers, one pointer.                                   *)
ComparesNothing(op, tail) ==
    (\E v \in op.volatile : Covers(v, tail)) \/ ~DescendThroughDescriptor(op, tail)

(* A pointer that a witness's relation may carry: checkExpression-         *)
(* EvidenceReachability, LegChannel and Volatility.                        *)
WitnessPointerLegal(op, p) == ReachableOn(op, p) /\ OnLeg(op, p) /\ ~PrunedFromLeg(op, p)

-----------------------------------------------------------------------------
(***************************************************************************)
(* The checks of one expression: core/compile/expression-legality.ts and   *)
(* oracle-alignment.ts.                                                    *)
(*                                                                         *)
(* An expression is the sequence of its nodes that carry operands, in the  *)
(* order of the walk, its connectives left out.  A node is                 *)
(*   op        the operator                                                *)
(*   operands  of a quantifier, its collection; an operand is [form,       *)
(*             pointer, set], form "pointer", "literal" or "referenceSet"  *)
(*   within    the position of the quantifier in whose predicate it        *)
(*             stands, 0 for none                                          *)
(*   under     the connectives between it and there: "nothing", "all" if   *)
(*             every one is an `all`, or "other"                           *)
(*   pattern   a regex's pattern, as in BoundedRegex                       *)
(*   key       the expectedKey of covers-by-key                            *)
(* `sets` is the declared reference sets: [keys, members], a member a      *)
(* function on its keys.                                                   *)
(***************************************************************************)
Quantifiers == {"for-all", "for-any"}

Literal(value) == [form |-> "literal", value |-> value]

At(pointer) == [form |-> "pointer", pointer |-> pointer]

Set(id) == [form |-> "referenceSet", set |-> id]

(* A pointer's operands of a node, and an expression's.                    *)
PointersOf(node) ==
    {node.operands[i].pointer : i \in {k \in DOMAIN node.operands :
                                          node.operands[k].form = "pointer"}}

AllPointers(e) == UNION {PointersOf(e[n]) : n \in DOMAIN e}

(* checkBoundElementScope.                                                 *)
BoundOutsideQuantifier(e) ==
    \E n \in DOMAIN e : e[n].within = 0 /\ \E p \in PointersOf(e[n]) : p.step = Bound

-----------------------------------------------------------------------------
(* OPERAND_LEGALITY; set-membership's second operand is the schema's.      *)
LegalForms(op, i) ==
    CASE op \in {"equality", "deep-equality"} -> {"pointer", "literal"}
      [] op = "containment" /\ i = 2 -> {"pointer", "literal", "referenceSet"}
      [] op = "set-membership" /\ i = 2 -> {"literal", "referenceSet"}
      [] op = "covers-by-key" /\ i = 1 -> {"referenceSet"}
      [] OTHER -> {"pointer"}

(* "ordering" reads what was observed, never what was sent.                *)
IllegalOperand(node, i) ==
    \/ node.operands[i].form \notin LegalForms(node.op, i)
    \/ /\ node.op = "ordering" /\ node.operands[i].form = "pointer"
       /\ node.operands[i].pointer.step # Bound
       /\ node.operands[i].pointer.channel = "call-inputs"

(* set-membership reads a set's one key, of every member.                  *)
IllegalMembership(node, sets) ==
    /\ node.op = "set-membership" /\ node.operands[2].form = "referenceSet"
    /\ node.operands[2].set \in DOMAIN sets
    /\ LET set == sets[node.operands[2].set] IN
        \/ Len(set.keys) # 1
        \/ \E i \in DOMAIN set.members : set.keys[1] \notin DOMAIN set.members[i]

(* covers-by-key reads its key of every member, and no value twice.        *)
IllegalCoverage(node, sets) ==
    /\ node.op = "covers-by-key" /\ node.operands[1].form = "referenceSet"
    /\ node.operands[1].set \in DOMAIN sets
    /\ LET members == sets[node.operands[1].set].members IN
        \E i, j \in DOMAIN members :
            \/ node.key \notin DOMAIN members[i]
            \/ /\ node.key \in DOMAIN members[i] \cap DOMAIN members[j]
               /\ i # j /\ members[i][node.key] = members[j][node.key]

OperandsIllegal(e, sets) ==
    \E n \in DOMAIN e :
        \/ \E i \in DOMAIN e[n].operands : IllegalOperand(e[n], i)
        \/ IllegalMembership(e[n], sets)
        \/ IllegalCoverage(e[n], sets)

RegexRejected(e) ==
    \E n \in DOMAIN e : e[n].op = "regex" /\ ~Subset!CompileAccepts(e[n].pattern)

(* checkQuantifierNesting.                                                 *)
NestingExceeded(e) ==
    \E n \in DOMAIN e : e[n].within # 0 /\ e[n].op \in Quantifiers \cup {"covers-by-key"}

SetUnresolved(e, sets) ==
    \E n \in DOMAIN e : \E i \in DOMAIN e[n].operands :
        e[n].operands[i].form = "referenceSet" /\ e[n].operands[i].set \notin DOMAIN sets

-----------------------------------------------------------------------------
(* substitutePointer: what a bound pointer denotes under its quantifier's  *)
(* collection; `root` is NoRoot for none.                                  *)
NoRoot == [step |-> Bound, channel |-> "none", tail |-> <<>>]

Substituted(p, root) ==
    IF p.step # Bound \/ root = NoRoot THEN p ELSE [root EXCEPT !.tail = @ \o p.tail]

(* The substituted collection of every quantifier; 0 is outside of all.    *)
Roots(e) ==
    LET root[n \in 0 .. Len(e)] ==
            IF n = 0 THEN NoRoot
            ELSE IF e[n].op \notin Quantifiers \/ e[n].operands[1].form # "pointer" THEN NoRoot
            ELSE Substituted(e[n].operands[1].pointer, root[e[n].within])
    IN root

(* collectTargets: the pointers of a check, rooted.                        *)
Targets(e) ==
    UNION {{Substituted(p, Roots(e)[e[n].within]) : p \in PointersOf(e[n])} : n \in DOMAIN e}

(* checkQuantifiersAgainst: the collections quantified over, and what an   *)
(* operation that answers one of them may declare it to be.                *)
Quantified(e) ==
    {Roots(e)[n] : n \in {i \in DOMAIN e : e[i].op \in Quantifiers /\ Roots(e)[i].step # Bound}}

NonCollection(op, p) ==
    /\ TargetsDescribedChannel(op, p)
    /\ Len(p.tail) = 1 /\ p.tail[1] \in DOMAIN op.body.types
    /\ op.body.types[p.tail[1]] \in JsonTypes \ {"array"}

(* checkOracleAlignment: the direction asks of nothing that the check does *)
(* not.  `ops` is the operators of the check, the connectives included.    *)
Misaligned(oracle) ==
    \/ ~(oracle.direction.targets \subseteq Targets(oracle.check))
    \/ oracle.direction.relation \notin oracle.ops
    \/ oracle.direction.polarity # oracle.polarity

-----------------------------------------------------------------------------
(***************************************************************************)
(* core/score/qualification.ts: the gate a probe passes before it may      *)
(* enter a sealed set.                                                     *)
(*                                                                         *)
(* A probe is [id, class, clean, route, verified, sources, signature]:     *)
(* whether the evidence of its route is verified, and the set of the       *)
(* sources of its defects, "natural" or "controlled-mutation".             *)
(* A signature is <<>> or <<[kind, identity, channel, condition, disjuncts,*)
(* selector]>>:                                                            *)
(*   identity   of the operation it is about, as SameOperation renders it  *)
(*   channel    the channel in which the defect shows                      *)
(*   condition  an expression, as below                                    *)
(*   disjuncts  for each operand of an `any`, [nodes, within]: the nodes   *)
(*              of the condition it holds, and the quantifier in whose     *)
(*              predicate that `any` stands, 0 for none                    *)
(*   selector   a set of [channel, key, form], form "raw" for a raw body   *)
(* Operations are those above.                                             *)
(***************************************************************************)
Observed == "observed"

ApiResponseChannels == {"response-body", "response-headers", "response-status"}

CommandResponseChannels == {"stdout", "stderr", "exit-code", "artifact"}

ResponseSide == ApiResponseChannels \cup CommandResponseChannels

Family(kind) == IF kind \in {"cli", "mcp"} THEN kind ELSE "api"

(* The first operation of the signature's family that it identifies; 0 for *)
(* none.                                                                   *)
HomeOperation(signature, ops) ==
    LET homes == {i \in DOMAIN ops : /\ Family(ops[i].kind) = Family(signature.kind)
                                     /\ ops[i].signature = signature.identity}
    IN IF homes = {} THEN 0 ELSE CHOOSE i \in homes : \A j \in homes : i <= j

(* What an interface of the kind never produces.                           *)
ForeignChannels(kind) ==
    CASE kind = "cli" -> ApiResponseChannels
      [] kind = "mcp" -> (CommandResponseChannels \ {"exit-code"}) \cup {"response-headers"}
      [] OTHER -> CommandResponseChannels

-----------------------------------------------------------------------------
AdmissibleRoutes(probe) ==
    CASE probe.clean -> IF probe.class = "zero-action" THEN {"clean-control"} ELSE {}
      [] ~probe.clean /\ probe.class \in {"gameability", "canary"} -> {probe.class}
      [] OTHER ->
           IF probe.sources = {} THEN {}
           ELSE (IF "controlled-mutation" \in probe.sources THEN {} ELSE {"historical"})
                \cup (IF "natural" \in probe.sources THEN {} ELSE {"controlled-mutation"})

LOCAL If(guard, code) == IF guard THEN {code} ELSE {}

RouteFailures(probe) ==
    If(/\ ~probe.clean /\ probe.class \notin {"gameability", "canary"}
       /\ Cardinality(probe.sources) > 1, "qualification-defect-sources-mixed")
    \cup If(probe.route \notin AdmissibleRoutes(probe), "qualification-route-incompatible")
    \cup If(probe.route \in {"historical", "controlled-mutation"} /\ ~probe.verified,
            "qualification-evidence-unverified")

(* A canary seeds nothing and signs nothing; every other seeding class     *)
(* signs.                                                                  *)
SignatureFailures(probe) ==
    IF probe.clean THEN {}
    ELSE If(probe.class = "canary" /\ probe.signature # <<>>, "signature-present-on-canary")
         \cup If(probe.class # "canary" /\ probe.signature = <<>>, "signature-absent")

-----------------------------------------------------------------------------
Rooted(condition) == {p \in AllPointers(condition) : p.step # Bound}

(* The channels that the condition names from its one root.                *)
ChannelsOf(condition) ==
    {p.channel : p \in {q \in Rooted(condition) : q.step = Observed}}

OperandFailures(signature) ==
    LET e == signature.condition IN
    If(\E n \in DOMAIN e : \E i \in DOMAIN e[n].operands :
            e[n].operands[i].form = "referenceSet", "condition-reference-set-operand")
    \cup If(\E p \in Rooted(e) : p.step # Observed, "condition-pointer-not-observation-rooted")
    \cup If("artifact" \in ChannelsOf(e), "condition-artifact-channel-contract-local")
    \cup If(ChannelsOf(e) \cap ForeignChannels(signature.kind) # {},
            "condition-text-channel-on-api")

ObservableChannelFailures(signature) ==
    IF signature.channel \notin ResponseSide
    THEN {"signature-observable-channel-not-response-side"}
    ELSE If(signature.channel \in ForeignChannels(signature.kind),
            "condition-text-channel-on-api")

(* The condition names the channel in which the defect shows, or two       *)
(* channels of which one came back.                                        *)
ChannelsUnderspecified(signature) ==
    LET named == ChannelsOf(signature.condition) IN
    /\ ~(signature.channel \in ResponseSide /\ signature.channel \in named)
    /\ ~(Cardinality(named) >= 2 /\ named \cap ResponseSide # {})

(* The channel of the elements that the quantifier at n binds.             *)
CollectionChannel(e, n) ==
    IF n = 0 THEN {}
    ELSE {p.channel : p \in {q \in PointersOf(e[n]) : q.step # Bound}}

ChannelsNamedBy(e, disjunct) ==
    UNION {IF p.step = Bound THEN CollectionChannel(e, disjunct.within) ELSE {p.channel} :
               p \in UNION {PointersOf(e[n]) : n \in disjunct.nodes}}

(* Some operand of an `any` can satisfy the condition without looking at   *)
(* anything that came back.                                                *)
DisjunctBlind(signature) ==
    \E d \in signature.disjuncts :
        ChannelsNamedBy(signature.condition, d) \cap ResponseSide = {}

(* One binding of the selector that no call on the operation can match.    *)
SelectorKeyUndeclared(op, binding) ==
    LET declares == binding.channel \in DOMAIN op.request IN
    IF binding.form = "raw" THEN ~declares
    ELSE \/ ~declares
         \/ binding.key \notin Keys(op.request[binding.channel])
         \/ /\ binding.form = "type-violating"
            /\ \/ binding.key \notin DOMAIN op.request[binding.channel].types
               \/ op.request[binding.channel].types[binding.key] = "unstated"

(* LEGALITY_CHECKS: four on the condition alone, two against the operation *)
(* when there is one.                                                      *)
LegalityFailures(signature) ==
    LET e == signature.condition IN
    If(BoundOutsideQuantifier(e), "condition-bound-element-outside-quantifier")
    \cup If(OperandsIllegal(e, <<>>), "condition-operand-illegal")
    \cup If(RegexRejected(e), "condition-regex-illegal")
    \cup If(NestingExceeded(e), "condition-quantifier-nesting")

OperationFailures(signature, op) ==
    LET e == signature.condition IN
    If(\E b \in signature.selector : SelectorKeyUndeclared(op, b),
       "condition-selector-key-undeclared")
    \cup If(\E p \in Quantified(e) : p.step = Observed /\ NonCollection(op, p),
            "condition-quantifier-over-non-collection")
    \cup If(\E p \in AllPointers(e) : ~ReachableOn(op, p), "condition-pointer-unwritable")

(* A signature-less probe is judged on its route alone; the checks against *)
(* the operation run only when the contract declares it.                   *)
QualificationFailures(probe, ops) ==
    RouteFailures(probe) \cup SignatureFailures(probe)
    \cup IF probe.clean \/ probe.signature = <<>> THEN {}
         ELSE LET signature == probe.signature[1]
                  home == HomeOperation(signature, ops)
              IN If(signature.kind = "web", "signature-interface-kind-unsupported")
                 \cup ObservableChannelFailures(signature)
                 \cup OperandFailures(signature)
                 \cup If(ChannelsUnderspecified(signature), "condition-channels-underspecified")
                 \cup If(DisjunctBlind(signature), "condition-disjunct-without-response-channel")
                 \cup LegalityFailures(signature)
                 \cup IF home = 0 THEN {} ELSE OperationFailures(signature, ops[home])

QualifiedProbe(probe, ops) == QualificationFailures(probe, ops) = {}
=================================================================================
