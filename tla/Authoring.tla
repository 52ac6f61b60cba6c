------------------------------- MODULE Authoring -------------------------------
(***************************************************************************)
(* The life of a contract before any evaluator sees it: application/       *)
(* compile.ts and seal.ts over core/compile and core/seal, the coverage    *)
(* that score.ts reads off it, and the chain of its revisions.             *)
(*                                                                         *)
(* A draft is [contract, stamp, fits, strict, revisions].  Its author may  *)
(* write a sealed contract down in another order and submit it again, and  *)
(* mints revisions, of which somebody presents a chain.  A scorer meets    *)
(* the contract, compiled or not, in the patterns that its checks test.    *)
(***************************************************************************)
EXTENDS Compile, Coverage

CONSTANTS
    Drafts,
    Bodies,   \* the contents that a revision may have
    Caps      \* the remediation caps that a policy may declare, <<>> for null

-----------------------------------------------------------------------------
(***************************************************************************)
(* core/schemas: what the schema of a contract asks of it.  Whatever       *)
(* compile() has a code for fits.  Texts are told apart and not read: of   *)
(* the charset of an identifier there is left that it is none of the words *)
(* that stand for something else.                                          *)
(***************************************************************************)
Listed(seq) == seq \in Seq(ToSet(seq))

Identifier(id) == id \notin {"", Bound, NoStep, Wildcard}

KeyedShape(shape) ==
    /\ IsFiniteSet(shape.required) /\ IsFiniteSet(shape.permitted)
    /\ "" \notin Keys(shape) \cup DOMAIN shape.types
    /\ \A k \in DOMAIN shape.types : shape.types[k] \in JsonTypes \cup {"unstated"}

-----------------------------------------------------------------------------
(* pointer.ts: the spellings of a pointer.  A volatile pointer alone may   *)
(* have a wildcard in it.                                                  *)
EvidenceChannels ==
    {"response-body", "response-headers", "response-status", "call-inputs",
     "stdout", "stderr", "exit-code", "artifact"}

ScalarChannels == {"response-status", "exit-code"}

InputChannels == TransportChannels \cup CommandChannels \cup McpChannels

PlainTail(tail) == Listed(tail) /\ Wildcard \notin ToSet(tail)

InteractionPointer(p) ==
    /\ Identifier(p.step) /\ p.channel \in EvidenceChannels /\ PlainTail(p.tail)
    /\ p.channel \in ScalarChannels => p.tail = <<>>
    /\ p.input \in IF p.channel = "call-inputs" THEN InputChannels ELSE {"none"}
    /\ (p.channel = "artifact") <=> (p.artifact # NoArtifact)

(* "@/" is the element itself: no tail.                                    *)
BoundElementPointer(p) == p.step = Bound /\ PlainTail(p.tail)

EvidencePointer(p) == InteractionPointer(p) \/ BoundElementPointer(p)

-----------------------------------------------------------------------------
(* expression.ts: the tree of a check, of which a node has its operator's  *)
(* arity, whatever its operands are of.                                    *)
OperatorNames ==
    {"equality", "deep-equality", "containment", "existence", "absence", "regex",
     "set-membership", "ordering", "count-tolerance", "shape", "covers-by-key"}

RelationVocabulary == OperatorNames \cup {"all", "any", "not"} \cup Quantifiers

Polarities == {"expects-hold", "expects-violation"}

TupleArity ==
    [op \in OperatorNames \cup Quantifiers |->
        IF op \in {"equality", "deep-equality", "containment", "set-membership", "covers-by-key"}
        THEN 2 ELSE 1]

OperandFits(operand) ==
    /\ operand.form \in {"pointer", "literal", "referenceSet"}
    /\ operand.form = "pointer" => EvidencePointer(operand.pointer)
    /\ operand.form = "referenceSet" => Identifier(operand.set)

(* A declared set, or an array with something in it: the one position that *)
(* the schema narrows.                                                     *)
SetOperand(operand) ==
    operand.form = "referenceSet" \/ (operand.form = "literal" /\ operand.value = "array")

(* By its first and its last character, so that the alternatives between   *)
(* them need not be anchored; and what is no pattern may be.               *)
AnchoredPattern(pattern) ==
    pattern.legal =>
        LET first == Head(pattern.branches)
            last == Last(pattern.branches)
        IN /\ first # <<>> /\ Head(first).kind = "start"
           /\ last # <<>> /\ Last(last) \in {[kind |-> "end"], [kind |-> "atom", chars |-> {"$"}]}

(* A node stands in the predicate of a quantifier or in none.              *)
PlaceFits(e, n) ==
    /\ e[n].within \in 0 .. n - 1 /\ e[n].under \in {"nothing", "all", "other"}
    /\ e[n].within # 0 => e[e[n].within].op \in Quantifiers

NodeFits(e, n) ==
    LET node == e[n] IN
    /\ node.op \in DOMAIN TupleArity /\ DOMAIN node.operands = 1 .. TupleArity[node.op]
    /\ \A i \in DOMAIN node.operands : OperandFits(node.operands[i])
    /\ node.op = "set-membership" => SetOperand(node.operands[2])
    /\ node.op = "regex" => AnchoredPattern(node.pattern)
    /\ node.key # ""

ExpressionFits(e) == e # <<>> /\ \A n \in DOMAIN e : NodeFits(e, n) /\ PlaceFits(e, n)

-----------------------------------------------------------------------------
(* sensitivity-witness.ts: what a leg sends, in the channels of one kind.  *)
InputForms(kind) ==
    CASE kind = "api" -> {"json", "raw", "absent"}
      [] kind = "cli" -> {"json", "text", "absent"}
      [] kind = "mcp" -> {"json"}

InputsFit(inputs) ==
    /\ inputs.kind \in SupportedInterfaceKinds /\ inputs.form \in InputForms(inputs.kind)
    /\ DOMAIN inputs.supplied = InputChannelsOf(inputs)
    /\ \A channel \in {"header", "environment"} \cap DOMAIN inputs.supplied :
          "" \notin DOMAIN inputs.supplied[channel]

(* No witness differs in a header alone.                                   *)
WitnessFits(w) ==
    /\ w.channel \in InputChannels \ {"header"}
    /\ Listed(w.legs) /\ Len(w.legs) = 2
    /\ \A i \in DOMAIN w.legs : Identifier(w.legs[i].id) /\ InputsFit(w.legs[i].inputs)
    /\ ExpressionFits(w.relation)

ResetFits(reset) ==
    /\ Identifier(reset.id) /\ Identifier(reset.iface) /\ Identifier(reset.op)
    /\ InputsFit(reset.inputs)

-----------------------------------------------------------------------------
(* interface.ts: an operation declares as its interface's kind does.       *)
CollectionFits(k) ==
    /\ PlainTail(k.tail) /\ Identifier(k.set)
    /\ k.mode \in {"exact", "at-most", "page-bounded"} /\ k.bound \in Nat

ChannelRoles == {"success-indicator", "diagnostic", "payload", "collection"}

DescriptorFits(op) ==
    /\ KeyedShape(op.body)
    /\ \A tail \in ToSet(op.indicator) : PlainTail(tail)
    /\ \A roles \in ToSet(op.roles) : \A tail \in DOMAIN roles :
          PlainTail(tail) /\ roles[tail] \in ChannelRoles
    /\ Listed(op.collections) /\ \A k \in ToSet(op.collections) : CollectionFits(k)
    /\ op.listed \/ op.collections = <<>>

RequestFits(op) ==
    /\ DOMAIN op.request = InputChannelsOf(op)
    /\ \A channel \in DOMAIN op.request : KeyedShape(op.request[channel])

(* A command alone nominates the channel that its descriptor describes,    *)
(* and writes files.                                                       *)
NominationFits(op) ==
    /\ op.channel \in IF op.kind = "cli" THEN {"stdout", "stderr", "artifact"} ELSE {"response-body"}
    /\ (op.channel = "artifact") <=> (op.artifact # NoArtifact)
    /\ op.kind # "cli" => op.artifacts = {}

(* Where an answer varies, and where it tells the state of the fixture.    *)
PointersFit(op) ==
    /\ \A tail \in op.volatile : Listed(tail)
    /\ \A tail \in op.resetPointers : PlainTail(tail)

OperationFits(c, op) ==
    /\ Identifier(op.id) /\ op.marker \in BOOLEAN
    /\ \E i \in DOMAIN c.interfaces : c.interfaces[i].id = op.iface /\ c.interfaces[i].kind = op.kind
    /\ RequestFits(op) /\ DescriptorFits(op) /\ NominationFits(op) /\ PointersFit(op)
    /\ op.witness # <<>> => Len(op.witness) = 1 /\ WitnessFits(op.witness[1])

InterfaceFits(interface) ==
    Identifier(interface.id) /\ interface.kind \in SupportedInterfaceKinds \cup {"web"}

-----------------------------------------------------------------------------
(* plan.ts: a step binds in the channels of one kind, a key once, and raw  *)
(* bytes for the whole of a body.                                          *)
BindingFits(b) ==
    /\ b.form \in {"literal", "any", "type-violating", "captured", "principal", "raw"}
    /\ IF b.form = "raw" THEN b.channel = "body" ELSE b.key # ""
    /\ b.form = "principal" => Identifier(b.value)
    /\ IF b.form = "captured" THEN Len(b.from) = 1 /\ InteractionPointer(b.from[1]) ELSE b.from = <<>>

BindingsFit(binds) ==
    /\ \A i \in DOMAIN binds : BindingFits(binds[i])
    /\ \E channels \in {TransportChannels, CommandChannels, McpChannels} :
          \A i \in DOMAIN binds : binds[i].channel \in channels
    /\ \A i, j \in DOMAIN binds :
          i # j /\ binds[i].channel = binds[j].channel =>
              binds[i].key # binds[j].key /\ "raw" \notin {binds[i].form, binds[j].form}

StepFits(step) ==
    /\ Identifier(step.id) /\ Identifier(step.iface) /\ Identifier(step.op)
    /\ step.after = NoStep \/ Identifier(step.after)
    /\ BindingsFit(step.binds)

-----------------------------------------------------------------------------
(* oracle.ts, rubric.ts, reference-set.ts and waiver.ts.                   *)
DirectionFits(d) ==
    /\ \A p \in d.targets : InteractionPointer(p)
    /\ d.relation \in RelationVocabulary /\ d.polarity \in Polarities

OracleFits(o) ==
    /\ o.polarity \in Polarities
    /\ \A d \in ToSet(o.direction) : DirectionFits(d)
    /\ o.check # <<>> => ExpressionFits(o.check)

RubricFits(r) ==
    /\ \A i \in DOMAIN r.levels : r.levels[i].level \in Int
    /\ \A i \in DOMAIN r.criteria : InteractionPointer(r.criteria[i].evidence)

ReferenceSetFits(set) == set.keys # <<>> /\ "" \notin ToSet(set.keys)

Waivers == [rule : BOOLEAN, rationale : BOOLEAN, approval : BOOLEAN, expires : BOOLEAN]

-----------------------------------------------------------------------------
(* eval-contract.ts.                                                       *)
BehaviorFits(b) ==
    /\ b.linked \in BOOLEAN /\ b.criterion \in BOOLEAN
    /\ b.severity \in {"low", "material", "critical"}

(* A group lists two members or more, of which one may be there twice.     *)
SiblingsFit(siblings) ==
    /\ {} \notin siblings.operations \cup siblings.parameters
    /\ \A group \in siblings.parameters : "" \notin group

ContractFits(c) ==
    /\ c.behaviors # <<>> /\ \A i \in DOMAIN c.behaviors : BehaviorFits(c.behaviors[i])
    /\ \A i \in DOMAIN c.oracles : OracleFits(c.oracles[i])
    /\ \A i \in DOMAIN c.rubrics : RubricFits(c.rubrics[i])
    /\ ToSet(c.waivers) \subseteq Waivers
    /\ \A i \in DOMAIN c.interfaces : InterfaceFits(c.interfaces[i])
    /\ Listed(c.ops) /\ \A op \in Ops(c) : OperationFits(c, op)
    /\ \A id \in DOMAIN c.sets : Identifier(id) /\ ReferenceSetFits(c.sets[id])
    /\ \A siblings \in ToSet(c.siblings) : SiblingsFit(siblings)
    /\ Listed(c.steps) /\ \A i \in DOMAIN c.steps : StepFits(c.steps[i])
    /\ c.forbidden \subseteq ForbiddenInputFloor
    /\ \A name \in c.principals : Identifier(name)
    /\ \A bound \in ToSet(c.bound) : bound \in Nat
    /\ Listed(c.reset) /\ Len(c.reset) <= 1 /\ \A reset \in ToSet(c.reset) : ResetFits(reset)

-----------------------------------------------------------------------------
(* `fits` is what the texts of a draft are asked, whatever else they are.  *)
ASSUME DraftsAssumption ==
    \A d \in Drafts :
        d \in [contract : {d.contract}, stamp : Stamps, fits : BOOLEAN, strict : BOOLEAN,
               revisions : Nat]

ASSUME CapsAssumption == \A cap \in Caps : cap \in Seq(Nat) /\ Len(cap) <= 1

VARIABLES draft, phase, fault, brief, earlier, gaps, archive, presented

authoringVars == <<draft, phase, fault, brief, earlier, gaps, archive, presented>>

contract == draft.contract

NoBrief == [contract |-> <<>>]

NothingPresented == [chain |-> <<>>, declared |-> 0, cap |-> <<>>, findings |-> {"nothing"}]

-----------------------------------------------------------------------------
(***************************************************************************)
(* core/lineage/chain.ts: how a revision of an artifact is minted, and how *)
(* a presented chain of revisions is read.                                 *)
(*                                                                         *)
(* An artifact is [body, parent, count]: its content with the schema       *)
(* version it is stamped with, its parent's digest, and its revision count.*)
(* A digest is taken to tell any two contents apart, so that it is modelled*)
(* by the artifact: `parent` is <<>> for null, or <<artifact>>.            *)
(***************************************************************************)
CountsFromRoot(artifact) == (artifact.count = 0) <=> (artifact.parent = <<>>)

FirstIssue(body) == [body |-> body, parent |-> <<>>, count |-> 0]

(* reviseArtifact's preconditions, each of which throws.                   *)
Revisable(parent, body) == CountsFromRoot(parent) /\ body.version = parent.body.version

Revised(parent, body) == [body |-> body, parent |-> <<parent>>, count |-> parent.count + 1]

(* readMembers throws before anything else is looked at.                   *)
ForeignVersion(chain, version) == \E i \in DOMAIN chain : chain[i].body.version # version

Presented(chain, digest) == \E i \in DOMAIN chain : chain[i] = digest

ParentAbsent(chain, member) == \E p \in ToSet(member.parent) : ~Presented(chain, p)

NotSuccessor(chain, member) ==
    \E p \in ToSet(member.parent) : Presented(chain, p) /\ member.count # p.count + 1

(* Mutant: only neighbours in the presented order are compared.            *)
ConflictingNeighbours(chain) ==
    \E i, j \in DOMAIN chain :
        /\ chain[i].parent # <<>> /\ chain[i].parent = chain[j].parent
        /\ chain[i].count = chain[j].count /\ chain[i] # chain[j] /\ j = i + 1

(* Two members of one parent and one count that differ.                    *)
Conflicting(chain) ==
    \E i, j \in DOMAIN chain :
        /\ chain[i].parent # <<>> /\ chain[i].parent = chain[j].parent
        /\ chain[i].count = chain[j].count /\ chain[i] # chain[j]

RootsOf(chain) == {i \in DOMAIN chain : chain[i].count = 0}

(* validateLineageChain: every finding; the cap is <<n>>, or <<>> for null.*)
Findings(chain, declared, cap) ==
    {code \in {"lineage-root-invalid", "lineage-duplicate-artifact", "lineage-no-root",
               "lineage-multiple-roots", "lineage-parent-absent", "lineage-revision-not-successor",
               "lineage-revision-conflict", "lineage-length-inconsistent",
               "lineage-remediation-cap-exceeded"} :
        CASE code = "lineage-root-invalid" -> \E i \in DOMAIN chain : ~CountsFromRoot(chain[i])
          [] code = "lineage-duplicate-artifact" -> ~IsInjective(chain)
          [] code = "lineage-no-root" -> RootsOf(chain) = {}
          [] code = "lineage-multiple-roots" -> Cardinality(RootsOf(chain)) > 1
          [] code = "lineage-parent-absent" -> \E i \in DOMAIN chain : ParentAbsent(chain, chain[i])
          [] code = "lineage-revision-not-successor" ->
                \E i \in DOMAIN chain : NotSuccessor(chain, chain[i])
          [] code = "lineage-revision-conflict" -> Conflicting(chain)
          [] code = "lineage-length-inconsistent" -> Len(chain) # declared + 1
          [] code = "lineage-remediation-cap-exceeded" -> \E n \in ToSet(cap) : declared > n}

-----------------------------------------------------------------------------
(* seal.ts: what its preconditions refuse in a contract that compiled.     *)
SealFault(c) ==
    IF \/ Repeats(Ids(c.steps))
       \/ Repeats([i \in DOMAIN c.ops |-> <<c.ops[i].iface, c.ops[i].id>>])
       \/ \E d \in DirectionTargets(c) : d.targets = {}
       \/ Repeats(Ids(c.oracles))
    THEN "schema-parse-failure"
    ELSE "none"

(* renderDirectionText: the relation, of what, as expected.  What an author *)
(* wrote into it goes as it stands.                                        *)
Direction(c, d) ==
    [relation |-> d.relation, polarity |-> d.polarity,
     evidence |-> EvidenceReferences(c, d.targets)]

(* What is sorted is a set; the contract itself stands for its digest.     *)
Seal(c) ==
    [contract |-> c,
     behaviors |-> c.behaviors,
     directions |-> {[oracle |-> c.oracles[i].id,
                      text |-> Direction(c, c.oracles[i].direction[1])] : i \in DOMAIN c.oracles},
     interfaces |-> {<<c.interfaces[i].id, c.interfaces[i].kind>> : i \in DOMAIN c.interfaces},
     principals |-> c.principals,
     bound |-> c.bound,
     parent |-> <<>>, count |-> 0]

-----------------------------------------------------------------------------
AuthoringInit ==
    /\ draft \in Drafts
    /\ phase = "written" /\ fault = "none"
    /\ brief = NoBrief /\ earlier = NoBrief /\ gaps = <<>>
    /\ archive = <<>> /\ presented = NothingPresented

(* checkContractVersion and the schema, in every entry point.              *)
Parse ==
    /\ phase = "written"
    /\ fault' = InputFault([stamp |-> draft.stamp, fits |-> draft.fits /\ ContractFits(contract)])
    /\ phase' = IF fault' = "none" THEN "parsed" ELSE "refused"
    /\ UNCHANGED <<draft, brief, earlier, gaps, archive, presented>>

CompileStage ==
    /\ phase = "parsed"
    /\ fault' = CompileFault(contract, draft.strict)
    /\ phase' = IF fault' = "none" THEN "compiled" ELSE "refused"
    /\ UNCHANGED <<draft, brief, earlier, gaps, archive, presented>>

SealStage ==
    /\ phase = "compiled"
    /\ fault' = SealFault(contract)
    /\ IF fault' = "none"
       THEN phase' = "sealed" /\ brief' = Seal(contract)
       ELSE phase' = "refused" /\ UNCHANGED brief
    /\ UNCHANGED <<draft, earlier, gaps, archive, presented>>

(* scoreRun reads the coverage of a contract that is parsed and need not   *)
(* compile.                                                                *)
Cover ==
    /\ phase = "parsed" /\ gaps = <<>>
    /\ gaps' = <<EvaluateCoverage(contract)>>
    /\ UNCHANGED <<draft, phase, fault, brief, earlier, archive, presented>>

(* The author: the same declarations, listed in another order.             *)
Reordered(seq) == {[i \in DOMAIN seq |-> seq[p[i]]] : p \in Bijection(DOMAIN seq, DOMAIN seq)}

Rearrange ==
    /\ phase = "sealed" /\ earlier = NoBrief
    /\ \E steps \in Reordered(contract.steps), oracles \in {contract.oracles, Reverse(contract.oracles)},
          ops \in {contract.ops, Reverse(contract.ops)} :
        draft' = [draft EXCEPT !.contract.steps = steps, !.contract.oracles = oracles,
                               !.contract.ops = ops]
    /\ earlier' = brief /\ brief' = NoBrief /\ phase' = "written" /\ gaps' = <<>>
    /\ UNCHANGED <<fault, archive, presented>>

-----------------------------------------------------------------------------
Archivable == Len(archive) < draft.revisions

Keep(artifact) ==
    /\ artifact \notin ToSet(archive)
    /\ archive' = Append(archive, artifact)
    /\ UNCHANGED <<draft, phase, fault, brief, earlier, gaps, presented>>

Mint ==
    /\ Archivable
    /\ \E body \in Bodies : Keep(FirstIssue(body))

(* reviseArtifact.                                                         *)
Revise ==
    /\ Archivable
    /\ \E i \in DOMAIN archive, body \in Bodies :
        Revisable(archive[i], body) /\ Keep(Revised(archive[i], body))

(* Somebody edits an artifact where it lies.                               *)
Edit ==
    /\ Archivable
    /\ \E i \in DOMAIN archive :
        \/ Keep([archive[i] EXCEPT !.count = @ + 1])
        \/ Keep([archive[i] EXCEPT !.parent = <<>>])

(* validateLineageChain, over artifacts that somebody presents, one or     *)
(* another perhaps twice; a foreign version throws, with no report.        *)
Present ==
    /\ archive # <<>> /\ presented = NothingPresented
    /\ \E n \in 0 .. draft.revisions : \E picked \in [1 .. n -> DOMAIN archive], cap \in Caps,
          declared \in {n - 1, n} \cap Nat :
        LET chain == [i \in 1 .. n |-> archive[picked[i]]] IN
        /\ ~ForeignVersion(chain, archive[1].body.version)
        /\ presented' = [chain |-> chain, declared |-> declared, cap |-> cap,
                         findings |-> Findings(chain, declared, cap)]
    /\ UNCHANGED <<draft, phase, fault, brief, earlier, gaps, archive>>

(* What a scorer holds the evidence against: regexMatch is called with     *)
(* each of these.                                                          *)
Patterns(c) ==
    UNION {{e[n].pattern : n \in {k \in DOMAIN e : e[k].op = "regex"}} : e \in Checks(c)}

Score ==
    /\ phase \in {"parsed", "compiled"} /\ earlier = NoBrief
    /\ phase' = "scored"
    /\ UNCHANGED <<draft, fault, brief, earlier, gaps, archive, presented>>

AuthoringNext ==
    \/ Parse \/ CompileStage \/ SealStage \/ Cover \/ Rearrange
    \/ Mint \/ Revise \/ Edit \/ Present \/ Score

AuthoringSpec == AuthoringInit /\ [][AuthoringNext]_authoringVars

-----------------------------------------------------------------------------
(* What an answer that conforms to a declaration has, one or two tokens    *)
(* deep: every required key, a field below a value unless it is a scalar;  *)
(* and no more elements than a collection is bounded by.                   *)
Tokens(c) ==
    (UNION {UNION {ToSet(p.tail) : p \in AllPointers(e)} : e \in Expressions(c)}) \cup {"0"}

ObjectAnswers(op, tokens) ==
    LET below(k) == IF TypeAt(op.body, k) \in ScalarTypes THEN {} ELSE {<<k, t>> : t \in tokens}
    IN {{<<>>} \cup UNION {{<<k>>} \cup below(k) : k \in keys} :
           keys \in {s \in SUBSET Keys(op.body) : op.body.required \subseteq s}}

ArrayAnswers(op, tokens) ==
    UNION {{{<<>>} \cup UNION {{<<i>>} \cup {<<i, t>> : t \in tokens} :
                                  i \in {j \in DOMAIN Index : Index[j] < n}} : n \in 0 .. bound} :
              bound \in RootBounds(op)}

Answers(op, tokens) == ObjectAnswers(op, tokens) \cup ArrayAnswers(op, tokens)

(* What pre-flight's projection leaves of an answer.                       *)
Left(op, answer) == {tail \in answer : ~\E v \in op.volatile : Covers(v, tail)}

Compiled == phase \in {"compiled", "sealed"}

(* A contract that compiles reads no dead evidence: whatever its checks    *)
(* read of a described channel some conforming answer carries, and what a  *)
(* sensitivity witness compares is still there when pre-flight has taken   *)
(* the volatile fields out of it.  A relation over what is not there is    *)
(* decided alike on every run (core/compile/reachability.ts against        *)
(* core/preflight/projection.ts).                                          *)
NoDeadEvidence ==
    Compiled =>
        /\ \A e \in Checks(contract) : \A p \in AllPointers(e) :
            \A op \in ToSet(AnsweredBy(contract, p)) :
                TargetsDescribedChannel(op, p) /\ Len(p.tail) <= 2 =>
                    \E answer \in Answers(op, Tokens(contract)) : p.tail \in answer
        /\ \A op \in WitnessedOps(contract) : \A p \in AllPointers(Relation(op)) :
            TargetsDescribedChannel(op, p) /\ p.step # Bound /\ Len(p.tail) <= 2 =>
                \E answer \in Answers(op, Tokens(contract)) : p.tail \in Left(op, answer)

-----------------------------------------------------------------------------
(* The contract as core/preflight/plan.ts reads it.                        *)
Planner == INSTANCE PreflightPlan

Sent(op, inputs) ==
    [kind |-> inputs.kind, legal |-> ~InputsIllegal(inputs, op), digestible |-> TRUE,
     value |-> inputs.supplied]

KeysOf(op) ==
    IF DeclaresNoRequestKeys(op) THEN "none"
    ELSE IF \E channel \in DOMAIN op.request : op.request[channel].required # {}
    THEN "required" ELSE "optional"

PlannedOp(op) ==
    [iface |-> op.iface, name |-> op.id, kind |-> op.kind, marker |-> op.marker,
     keys |-> KeysOf(op), volatile |-> op.volatile # {}, pointers |-> op.resetPointers # {},
     witness |-> IF op.witness = <<>> THEN <<>>
                 ELSE [k \in 1 .. 2 |-> [id |-> <<LegsOf(op)[k].id, 1>>,
                                         inputs |-> Sent(op, LegsOf(op)[k].inputs)]]]

PlannedContract(c) ==
    [ops |-> [i \in DOMAIN c.ops |-> PlannedOp(c.ops[i])],
     reset |-> IF c.reset = <<>> THEN Planner!NoReset
               ELSE [leg |-> <<c.reset[1].id, 1>>, iface |-> c.reset[1].iface,
                     name |-> c.reset[1].op, inputs |-> Sent(c.ops[ResetOp(c)], c.reset[1].inputs)],
     steps |-> {<<c.steps[i].id, 1>> : i \in DOMAIN c.steps},
     duplicated |-> Repeats(Ids(c.interfaces))]

(* What compiles under strict inputs can be planned: pre-flight, which     *)
(* checks inputs, identifiers and the reset by rules of its own and in     *)
(* another order, refuses it for nothing but having no leg to send         *)
(* (core/compile/sensitivity-witness.ts against core/preflight/plan.ts).   *)
CompiledPlansRun ==
    Compiled /\ draft.strict =>
        LET planned == PlannedContract(contract) IN
        Planner!PlannedLegs(planned, <<>>) = <<>> \/ Planner!Refusal(planned, <<>>) = "none"

-----------------------------------------------------------------------------
(* A sealed direction tells the steps that it speaks of apart, though it   *)
(* names none: each step's reference is found on a ladder of its own and   *)
(* compared with those of its own operation only (derived-reference.ts,    *)
(* renderStepReference).                                                   *)
StepsToldApart ==
    phase = "sealed" =>
        \A d \in DirectionTargets(contract) : \A s, t \in NamedSteps(contract, d.targets) :
            s # t => Reference(contract, d.targets, s) # Reference(contract, d.targets, t)

(* A contract that was sealed is sealed again in whatever order it is      *)
(* written, to the same brief but for the digest of the contract itself:   *)
(* an order that showed through would tell the evaluator the plan          *)
(* (derived-reference.ts, renderEvidenceReferences; seal.ts, sortedByKey). *)
BriefOrderFree ==
    earlier # NoBrief =>
        /\ phase # "refused"
        /\ phase = "sealed" =>
              [brief EXCEPT !.contract = <<>>] = [earlier EXCEPT !.contract = <<>>]

(* A brief can be read by one who has not seen the contract, and does not  *)
(* give it away: its steps are told apart and its order is its own.        *)
BriefReadsAlone == StepsToldApart /\ BriefOrderFree

-----------------------------------------------------------------------------
(* What coverage reports is every discipline that no evidence meets:       *)
(* relevance and satisfaction are written apart, and a rule that the one   *)
(* leaves out must be one that the other finds satisfied, or a hole in a   *)
(* contract would go unsaid (coverage.ts:41-43, table.ts, STATE_VERDICTS). *)
CoverageVacuous ==
    \A found \in ToSet(gaps) :
        {gap.rule : gap \in found} = {rule \in DisciplineRules : ~Satisfied(contract, rule)}

-----------------------------------------------------------------------------
(* The ancestry of an artifact, itself included: what is in every set of   *)
(* archived artifacts that holds it, and with each artifact its parent.    *)
HoldsParents(artifacts) == \A a \in artifacts : ToSet(a.parent) \subseteq artifacts

Ancestry(artifact) ==
    {a \in ToSet(archive) :
        \A kept \in SUBSET ToSet(archive) : artifact \in kept /\ HoldsParents(kept) => a \in kept}

(* What is presented is one artifact's whole history, each revision once.  *)
IsHistory(chain) ==
    \E i \in DOMAIN chain :
        /\ ToSet(chain) = Ancestry(chain[i])
        /\ IsInjective(chain)
        /\ \A a \in ToSet(chain) : a.count = Cardinality(Ancestry(a)) - 1

(* The report on a chain passes if and only if what was presented is the   *)
(* whole history of one artifact, each revision once and in whatever       *)
(* order, of the declared length and within the cap: nine local checks,    *)
(* none of which follows a chain, find every omission, repetition, fork    *)
(* and edit between them, and nothing else (chain.ts,                      *)
(* validateLineageChain).                                                  *)
ReportExact ==
    presented # NothingPresented =>
        (presented.findings = {}) <=>
            /\ IsHistory(presented.chain)
            /\ Len(presented.chain) = presented.declared + 1
            /\ \A n \in ToSet(presented.cap) : presented.declared <= n

=============================================================================
