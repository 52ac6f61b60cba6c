-------------------------------- MODULE Compile --------------------------------
(***************************************************************************)
(* compile(): every check of core/compile, in the order in which it makes  *)
(* them, the first that refuses being the one that is heard.               *)
(*                                                                         *)
(* Beside `steps` and `ops` (ExpressionChecks), a contract has             *)
(*   interfaces  Seq of [id, kind]; each operation is on one of them       *)
(*   behaviors   Seq of [id, linked, criterion, severity]                  *)
(*   oracles     Seq of [id, behavior, polarity, expects, direction,       *)
(*               check, ops]: `check` an expression, `ops` its operators;  *)
(*               direction <<>> or <<[targets, relation, polarity]>>, and  *)
(*               check <<>> where a channel is not written                 *)
(*   rubrics     Seq of [id, levels, bounded, penalties, criteria], texts  *)
(*               being "blank", "plain" or "reasoning"                     *)
(*   sets, principals, excluded, floor, resources, waivers, reset, bound   *)
(* A step is [id, iface, op, after, binds, twoTypes]: `binds` a sequence   *)
(* of [channel, key, form, value, from] in the order of channels and keys, *)
(* and `twoTypes` a Content-Type header beside a raw body.  A witness is   *)
(* [channel, legs, relation], a leg [id, inputs], and inputs are [kind,    *)
(* form, twoTypes, supplied], `supplied` a function of values for each     *)
(* channel that this kind has.                                             *)
(***************************************************************************)
EXTENDS ExpressionChecks, ArtifactInput, ScriptingBound

G == INSTANCE Graphs

-----------------------------------------------------------------------------
(***************************************************************************)
(* core/seal/derived-reference.ts: how a direction speaks of the steps     *)
(* whose evidence it is about, without their identifiers.  A phrase is a   *)
(* value in place of its text, and what the code sorts is a set.           *)
(*                                                                         *)
(* A binding is [channel, key, form, value, from], form "literal", "raw",  *)
(* "any", "type-violating", "captured" or "principal", and `from` <<>> or  *)
(* <<the pointer that is captured>>.  The budget on the characters of one  *)
(* reference is not spent on plans of this size.                           *)
(***************************************************************************)

(* The identifiers of steps, in the order of their text.                   *)
CONSTANT Alphabet

ASSUME AlphabetAssumption == IsInjective(Alphabet)

Precedes(a, b) == SelectInSeq(Alphabet, LAMBDA x : x = a) < SelectInSeq(Alphabet, LAMBDA x : x = b)

FirstOf(ids) == CHOOSE a \in ids : \A b \in ids \ {a} : Precedes(a, b)

Levels == <<"generic", "kind", "literal">>

(* localTargetPhrase: the channel, which input or artifact, and the named  *)
(* fields.                                                                 *)
LocalPhrase(p) ==
    [channel |-> p.channel,
     of |-> IF p.channel = "call-inputs" THEN p.input
            ELSE IF p.channel = "artifact" THEN p.artifact ELSE NoArtifact,
     field |-> IF p.channel \in {"response-status", "exit-code"} THEN <<>>
               ELSE SelectSeq(p.tail, LAMBDA token : token # "")]

Noun(kind) == CASE kind = "cli" -> "command" [] kind = "mcp" -> "tool" [] OTHER -> "endpoint"

(* operationReference: the interface is named where another one has an     *)
(* operation of that name.                                                 *)
OperationPhrase(c, op) ==
    LET sharing == {i \in DOMAIN c.ops : c.ops[i].id = op.id /\ c.ops[i].iface # op.iface} IN
    <<op.id, Noun(op.kind), IF sharing = {} THEN "" ELSE op.iface>>

EntryName(b) == <<b.channel, b.key>>

(* renderBindingValue.                                                     *)
ValuePhrase(b, level) ==
    CASE b.form = "type-violating" -> <<"malformed", EntryName(b)>>
      [] b.form = "any" \/ level = "generic" -> <<"supplied", EntryName(b)>>
      [] b.form = "principal" -> <<"of the account", EntryName(b), b.value>>
      [] b.form = "captured" -> <<"obtained earlier", EntryName(b)>>
      [] level = "kind" -> <<"stated", EntryName(b)>>
      [] OTHER -> <<"literally", EntryName(b), b.value>>

(* Only what violates its type is named, where something does.             *)
Chosen(s) ==
    LET malformed == SelectSeq(s.binds, LAMBDA b : b.form = "type-violating")
    IN ToSet(IF malformed = <<>> THEN s.binds ELSE malformed)

(* The steps that a clause expands: captured from, resolved, and not on    *)
(* the path already.                                                       *)
Expanded(c, b, level, path) ==
    /\ level = "literal" /\ b.form = "captured"
    /\ b.from[1].step \notin path /\ Addressed(c, b.from[1]) # 0

(* stepReferenceAtLevel: the operation, and the clause of what the step    *)
(* binds.  At the last level each step captured from is referred to once,  *)
(* for all that is captured from it.                                       *)
StepReference(c, step, level) ==
    LET Refer[s \in DOMAIN c.steps, path \in SUBSET {c.steps[i].id : i \in DOMAIN c.steps}] ==
            LET here == path \cup {c.steps[s].id}
                expanded == {b \in Chosen(c.steps[s]) : Expanded(c, b, level, here)}
                sources == {b.from[1].step : b \in expanded}
                group(source) ==
                    <<"obtained as",
                      {<<EntryName(b), LocalPhrase(b.from[1])>> :
                          b \in {x \in expanded : x.from[1].step = source}},
                      Refer[StepOf(c, source), here]>>
            IN <<OperationPhrase(c, c.ops[OperationOf(c, c.steps[s])]),
                 {ValuePhrase(b, level) : b \in Chosen(c.steps[s]) \ expanded},
                 {group(source) : source \in sources}>>
    IN Refer[step, {}]

-----------------------------------------------------------------------------
(* The steps that a direction's targets name, and those on one operation.  *)
NamedSteps(c, targets) == {StepOf(c, p.step) : p \in targets}

Siblings(c, targets, step) ==
    {s \in NamedSteps(c, targets) :
        c.steps[s].iface = c.steps[step].iface /\ c.steps[s].op = c.steps[step].op}

Apart(c, siblings, level) ==
    \A s, t \in siblings : s # t => StepReference(c, s, level) # StepReference(c, t, level)

(* The levels at which siblings are told apart, least first.               *)
Telling(c, siblings) == SelectSeq(Levels, LAMBDA l : Apart(c, siblings, l))

Irreducible(c, targets) ==
    \E s \in NamedSteps(c, targets) : Telling(c, Siblings(c, targets, s)) = <<>>

(* renderStepReference.                                                    *)
Reference(c, targets, step) ==
    StepReference(c, step, Head(Telling(c, Siblings(c, targets, step))))

-----------------------------------------------------------------------------
(* groupResolvedTargets: two steps with one target each, one of them after *)
(* the other, are compared with each other.  compile() refuses longer      *)
(* chains, so that a step that comes after another has none after itself.  *)
SingleTargets(c, targets) ==
    {s \in NamedSteps(c, targets) :
        Cardinality({p \in targets : StepOf(c, p.step) = s}) = 1}

Successors(c, targets, s) ==
    {t \in SingleTargets(c, targets) :
        s \in SingleTargets(c, targets) /\ c.steps[t].after = c.steps[s].id}

(* Mutant: of several successors, the one that is declared first.          *)
PartnerAsDeclared(c, targets, s) ==
    CHOOSE t \in Successors(c, targets, s) : \A u \in Successors(c, targets, s) : t <= u

(* Of several successors, the one whose identifier sorts first.            *)
Partner(c, targets, s) ==
    StepOf(c, FirstOf({c.steps[t].id : t \in Successors(c, targets, s)}))

Paired(c, targets) ==
    {<<s, Partner(c, targets, s)>> : s \in {x \in NamedSteps(c, targets) :
                                               Successors(c, targets, x) # {}}}

(* fullTargetPhrase.                                                       *)
FullPhrase(c, targets, p) ==
    <<LocalPhrase(p), Reference(c, targets, StepOf(c, p.step))>>

(* What a direction says of its targets: one phrase for a pair, one for    *)
(* every other step, and how often each.                                   *)
EvidenceReferences(c, targets) ==
    LET at(s) == {p \in targets : StepOf(c, p.step) = s}
        pairs == Paired(c, targets)
        rest == NamedSteps(c, targets) \ UNION {ToSet(pair) : pair \in pairs}
        groups == pairs \cup {<<s>> : s \in rest}
        phrase(group) ==
            IF Len(group) = 2
            THEN <<"compared", {FullPhrase(c, targets, p) : p \in at(group[1]) \cup at(group[2])}>>
            ELSE <<"of", {LocalPhrase(p) : p \in at(group[1])}, Reference(c, targets, group[1])>>
    IN [said \in {phrase(group) : group \in groups} |->
           Cardinality({group \in groups : phrase(group) = said})]

-----------------------------------------------------------------------------

NoStep == "-"

SupportedInterfaceKinds == {"api", "cli", "mcp"}

(* The operation that answers a pointer's step: a sequence of one or none. *)
AnsweredBy(c, p) ==
    LET o == Addressed(c, p) IN IF o = 0 THEN <<>> ELSE <<c.ops[o]>>

Checks(c) == {c.oracles[i].check : i \in DOMAIN c.oracles}

DirectionTargets(c) ==
    UNION {ToSet(c.oracles[i].direction) : i \in DOMAIN c.oracles}

(* The operations that declare a witness.                                  *)
WitnessedOps(c) == {c.ops[i] : i \in {k \in DOMAIN c.ops : c.ops[k].witness # <<>>}}

LegsOf(op) == op.witness[1].legs

LegIds(op) == {leg.id : leg \in ToSet(LegsOf(op))}

Relation(op) == op.witness[1].relation

Criteria(c) == UNION {ToSet(c.rubrics[i].criteria) : i \in DOMAIN c.rubrics}

Repeats(seq) == ~IsInjective(seq)

Ids(seq) == [i \in DOMAIN seq |-> seq[i].id]

-----------------------------------------------------------------------------
(* declarations.ts, interface-inventory.ts                                 *)

Unlinked(c) == \E i \in DOMAIN c.behaviors : ~c.behaviors[i].linked

Uncriterioned(c) == \E i \in DOMAIN c.behaviors : ~c.behaviors[i].criterion

WritesNot(op, p) ==
    p.step # Bound /\ p.channel = "artifact" /\ p.artifact \notin op.artifacts

(* A relation's pointer is asked of its own operation, any other of the    *)
(* operation of its step; one that names neither is another check's.       *)
ArtifactUnresolved(c) ==
    LET byPlan == (UNION {AllPointers(e) : e \in Checks(c)})
                      \cup (UNION {d.targets : d \in DirectionTargets(c)})
                      \cup {k.evidence : k \in Criteria(c)}
    IN \/ \E i \in DOMAIN c.ops : c.ops[i].artifact \notin c.ops[i].artifacts \cup {NoArtifact}
       \/ \E p \in byPlan : \E op \in ToSet(AnsweredBy(c, p)) : WritesNot(op, p)
       \/ \E op \in WitnessedOps(c) : \E p \in AllPointers(Relation(op)) :
             p.step \in LegIds(op) /\ WritesNot(op, p)

(* api and web render their transport identity alike.                      *)
SignatureRepeated(c) ==
    Repeats([i \in DOMAIN c.ops |-> <<Family(c.ops[i].kind), c.ops[i].signature>>])

(* checkUndeclaredMandatoryInput.                                          *)
BindsUndeclared(c) ==
    \E i \in DOMAIN c.steps :
        LET s == c.steps[i]
            o == OperationOf(c, s)
            unknown(b) ==
                /\ b.form # "raw"
                /\ \/ b.channel \notin DOMAIN c.ops[o].request
                   \/ b.key \notin Keys(c.ops[o].request[b.channel])
                   \/ b.form = "principal" /\ b.value \notin c.principals
        IN o # 0 /\ (s.twoTypes \/ \E b \in ToSet(s.binds) : unknown(b))

UnsupportedKind(c) ==
    \E i \in DOMAIN c.interfaces : c.interfaces[i].kind \notin SupportedInterfaceKinds

-----------------------------------------------------------------------------
(* reachability.ts, over the contract                                      *)

EvidenceUnreachable(c) ==
    \E e \in Checks(c) : \E p \in AllPointers(e) : ~Reachable(c, p)

ResetPointerComparesNothing(c) ==
    \E i \in DOMAIN c.ops : \E tail \in c.ops[i].resetPointers : ComparesNothing(c.ops[i], tail)

-----------------------------------------------------------------------------
(* bindings.ts: what a step captures from an earlier one.                  *)

Captures(c) ==
    UNION {{[step |-> c.steps[i], bind |-> b, pointer |-> b.from[1]] :
              b \in {x \in ToSet(c.steps[i].binds) : x.form = "captured"}} : i \in DOMAIN c.steps}

TypeAt(shape, key) == IF key \in DOMAIN shape.types THEN shape.types[key] ELSE "unstated"

(* capturedType: one named field of a scalar type, or "undecided".         *)
CapturedType(op, p) ==
    IF Len(p.tail) # 1 \/ p.tail[1] \in DOMAIN Index THEN "undecided"
    ELSE IF TypeAt(op.body, p.tail[1]) \in ScalarTypes THEN TypeAt(op.body, p.tail[1])
    ELSE "undecided"

(* boundParameterType abstains on what is not declared.                    *)
Abstains(c, capture) ==
    LET o == OperationOf(c, capture.step) IN
    \/ o = 0
    \/ capture.bind.channel \notin DOMAIN c.ops[o].request
    \/ capture.bind.key \notin Keys(c.ops[o].request[capture.bind.channel])

BoundType(c, capture) ==
    TypeAt(c.ops[OperationOf(c, capture.step)].request[capture.bind.channel], capture.bind.key)

CaptureUnreachable(c) ==
    \E capture \in Captures(c) :
        LET p == capture.pointer IN
        \/ Addressed(c, p) = 0
        \/ LET op == c.ops[Addressed(c, p)] IN
            /\ TargetsDescribedChannel(op, p)
            /\ \/ ~ReachableOn(op, p)
               \/ CapturedType(op, p) = "undecided"
               \/ ~Abstains(c, capture) /\ BoundType(c, capture) # CapturedType(op, p)

CaptureOffDescriptor(c) ==
    \E capture \in Captures(c) :
        \/ Addressed(c, capture.pointer) = 0 /\ capture.pointer.channel # "response-body"
        \/ \E op \in ToSet(AnsweredBy(c, capture.pointer)) :
              ~TargetsDescribedChannel(op, capture.pointer)

(* The capture and temporal-clause edges, between identifiers; a capture   *)
(* is in a cycle if its source leads back.                                 *)
BindingCycle(c) ==
    LET ids == {c.steps[i].id : i \in DOMAIN c.steps}
        captured == {<<k.step.id, k.pointer.step>> : k \in Captures(c)} \cap (ids \X ids)
        after == {<<c.steps[i].id, c.steps[i].after>> : i \in DOMAIN c.steps} \cap (ids \X ids)
        leads == G!ConnectionsIn([node |-> ids, edge |-> captured \cup after])
    IN \E e \in captured : leads[e[2], e[1]]

-----------------------------------------------------------------------------
(* scripting-bound.ts is in ScriptingBound, over positions; 0 is none.     *)

PlanShape(c) == [i \in DOMAIN c.steps |-> [after |-> StepOf(c, c.steps[i].after)]]

-----------------------------------------------------------------------------
(* expression-legality.ts and oracle-alignment.ts, over the contract: the  *)
(* checks, and the relations of the witnesses.                             *)

Expressions(c) == (Checks(c) \ {<<>>}) \cup {Relation(op) : op \in WitnessedOps(c)}

QuantifierMisplaced(c) ==
    \/ \E e \in Checks(c) : \E p \in Quantified(e) :
          \E op \in ToSet(AnsweredBy(c, p)) : NonCollection(op, p)
    \/ \E op \in WitnessedOps(c) : \E p \in Quantified(Relation(op)) :
          p.step \in LegIds(op) /\ NonCollection(op, p)

ChannelMissing(c) ==
    \E i \in DOMAIN c.oracles : c.oracles[i].direction = <<>> \/ c.oracles[i].check = <<>>

(* After ChannelMissing, every oracle has both.                            *)
DirectionMisaligned(c) ==
    \E i \in DOMAIN c.oracles :
        Misaligned([c.oracles[i] EXCEPT !.direction = @[1]])

-----------------------------------------------------------------------------
(* rubrics.ts                                                              *)

RubricRepeated(c) ==
    \/ Repeats(Ids(c.rubrics))
    \/ \E i \in DOMAIN c.rubrics : Repeats(Ids(c.rubrics[i].criteria))

Anchors(r) == {r.levels[i].anchor : i \in DOMAIN r.levels}

Texts(r) == {k.text : k \in ToSet(r.criteria)}

ScoresReasoning(c) ==
    \E i \in DOMAIN c.rubrics :
        LET r == c.rubrics[i] IN
        "reasoning" \in Anchors(r) \cup Texts(r) \cup ToSet(r.penalties) \cup ToSet(r.descriptions)

Unanchored(c) ==
    \E i \in DOMAIN c.rubrics :
        LET r == c.rubrics[i] IN
        \/ r.levels = <<>>
        \/ Repeats([k \in DOMAIN r.levels |-> r.levels[k].level])
        \/ ~r.bounded \/ r.penalties = <<>>
        \/ "blank" \in Anchors(r) \cup Texts(r) \cup ToSet(r.penalties)

RubricEvidenceUnreachable(c) == \E k \in Criteria(c) : ~Reachable(c, k.evidence)

-----------------------------------------------------------------------------
(* step-reference.ts                                                       *)

StepsIrreducible(c) == \E d \in DirectionTargets(c) : Irreducible(c, d.targets)

-----------------------------------------------------------------------------
(* sensitivity-witness.ts                                                  *)

SuppliedKeys(inputs, channel) ==
    IF channel \notin DOMAIN inputs.supplied THEN {} ELSE DOMAIN inputs.supplied[channel]

(* Raw bytes are in a body, opaque text on a standard input.               *)
ByteChannel(inputs) ==
    CASE inputs.form = "raw" -> {"body"} [] inputs.form = "text" -> {"stdin"} [] OTHER -> {}

(* checkInputsAgainstShape.                                                *)
InputsIllegal(inputs, op) ==
    \/ inputs.kind # Family(op.kind)
    \/ inputs.form = "raw" /\ inputs.twoTypes
    \/ \E channel \in DOMAIN op.request :
        LET shape == op.request[channel] IN
        IF channel \in ByteChannel(inputs)
        THEN channel = "stdin" /\ Cardinality(shape.required) # 1
        ELSE ~(shape.required \subseteq SuppliedKeys(inputs, channel)
                   /\ SuppliedKeys(inputs, channel) \subseteq Keys(shape))

(* checkSensitivityWitnessDeclared.                                        *)
WitnessUndeclared(c) ==
    \/ \E i \in DOMAIN c.ops : c.ops[i].witness = <<>> /\ ~DeclaresNoRequestKeys(c.ops[i])
    \/ \E op \in WitnessedOps(c) : \E leg \in ToSet(LegsOf(op)) : InputsIllegal(leg.inputs, op)

(* Mutant: the reset is no leg.                                            *)
ClaimedIdsOfWitnesses(c) ==
    FlattenSeq([i \in DOMAIN c.ops |->
                   IF c.ops[i].witness = <<>> THEN <<>> ELSE Ids(LegsOf(c.ops[i]))])

(* Every leg of the contract, the fixture reset last.                      *)
ClaimedIds(c) ==
    FlattenSeq([i \in DOMAIN c.ops |->
                   IF c.ops[i].witness = <<>> THEN <<>> ELSE Ids(LegsOf(c.ops[i]))])
        \o Ids(c.reset)

(* checkWitnessLegIdentifiers.                                             *)
LegIdsCollide(c) ==
    \/ Repeats(ClaimedIds(c))
    \/ ToSet(ClaimedIds(c)) \cap {c.steps[i].id : i \in DOMAIN c.steps} # {}

WitnessChannels(op) ==
    CASE op.kind = "cli" -> CommandChannels
      [] op.kind = "mcp" -> McpChannels
      [] OTHER -> IF op.marker THEN {"body"} ELSE {"path", "query"}

(* One witness: its channel, that its legs differ there, that its relation *)
(* is about both of them, and what its pointers read.                      *)
WitnessMalformed(op) ==
    LET w == op.witness[1]
        left == w.legs[1].inputs
        right == w.legs[2].inputs
    IN \/ w.channel \notin WitnessChannels(op)
       \/ \E leg \in ToSet(w.legs) : w.channel \notin DOMAIN leg.inputs.supplied
       \/ /\ left.supplied[w.channel] = right.supplied[w.channel]
          /\ w.channel \in {"body", "stdin"} => left.form = right.form

WitnessFault(op) ==
    LET addressed == {p.step : p \in Rooted(Relation(op))} IN
    IF WitnessMalformed(op) THEN "malformed-operator-expression"
    ELSE IF ~(addressed \subseteq LegIds(op)) THEN "unreachable-check-evidence"
    ELSE IF addressed # LegIds(op) THEN "malformed-operator-expression"
    ELSE IF \E p \in Rooted(Relation(op)) : ~WitnessPointerLegal(op, p) THEN "unreachable-check-evidence"
    ELSE "none"

(* The first interface of that name, and on it the first operation.        *)
ResetOp(c) ==
    LET r == c.reset[1]
        found == {i \in DOMAIN c.ops : c.ops[i].iface = r.iface /\ c.ops[i].id = r.op}
    IN IF found = {} THEN 0 ELSE CHOOSE i \in found : \A j \in found : i <= j

ResetFault(c) ==
    IF c.reset = <<>> THEN "none"
    ELSE IF ResetOp(c) = 0 THEN "unreachable-check-evidence"
    ELSE IF ~c.ops[ResetOp(c)].marker THEN "malformed-operator-expression"
    ELSE IF InputsIllegal(c.reset[1].inputs, c.ops[ResetOp(c)]) THEN "undeclared-mandatory-input"
    ELSE "none"

(* checkWitnessLegality.                                                   *)
WitnessesFault(c) ==
    FirstFault([i \in DOMAIN c.ops |->
                    IF c.ops[i].witness = <<>> THEN "none" ELSE WitnessFault(c.ops[i])]
                   \o <<ResetFault(c)>>)

-----------------------------------------------------------------------------
(* forbidden-inputs.ts, excluded-content.ts, waivers.ts                    *)

ForbiddenInputFloor ==
    {"original-spec", "source-code", "repository", "builder-transcript",
     "implementation-logs", "comparator-results", "human-labels"}

WaiverIncomplete(c) == \E w \in ToSet(c.waivers) : FALSE \in {w.rule, w.rationale, w.approval, w.expires}

-----------------------------------------------------------------------------
(* compile(): the code of the first check that refuses.  A check is read   *)
(* only where those before it are silent, and may presume what they saw.   *)
CompileFault(c, strict) ==
    IF c.stamp # "equal" THEN "schema-version-mismatch"
    ELSE IF Repeats(Ids(c.interfaces)) THEN "duplicate-interface-identifier"
    ELSE IF Unlinked(c) THEN "missing-requirement-linkage"
    ELSE IF Uncriterioned(c) THEN "no-observable-success-criterion"
    ELSE IF ArtifactUnresolved(c) THEN "unresolved-artifact-reference"
    ELSE IF \/ EvidenceUnreachable(c) \/ ResetPointerComparesNothing(c) \/ CaptureUnreachable(c)
    THEN "unreachable-check-evidence"
    ELSE IF \/ \E e \in Checks(c) : BoundOutsideQuantifier(e)
            \/ \E e \in Expressions(c) : OperandsIllegal(e, c.sets) \/ RegexRejected(e)
    THEN "malformed-operator-expression"
    ELSE IF QuantifierMisplaced(c) THEN "quantifier-over-non-collection"
    ELSE IF \E e \in Expressions(c) : NestingExceeded(e) THEN "quantifier-nesting-exceeded"
    ELSE IF \E e \in Expressions(c) : SetUnresolved(e, c.sets) THEN "unresolved-reference-set"
    ELSE IF SignatureRepeated(c) THEN "duplicate-operation-signature"
    ELSE IF strict /\ (BindsUndeclared(c) \/ WitnessUndeclared(c)) THEN "undeclared-mandatory-input"
    ELSE IF ChannelMissing(c) THEN "oracle-missing-channel"
    ELSE IF DirectionMisaligned(c) THEN "direction-check-misaligned"
    ELSE IF UnsupportedKind(c) THEN "unsupported-interface-kind"
    ELSE IF NestedTemporalClause(PlanShape(c)) THEN "nested-temporal-clause"
    ELSE IF ExceedsScriptingBound(PlanShape(c)) THEN "plan-exceeds-scripting-bound"
    ELSE IF BindingCycle(c) THEN "binding-cycle"
    ELSE IF CaptureOffDescriptor(c) THEN "captured-channel-undeclared"
    ELSE IF RubricRepeated(c) THEN "rubric-unanchored"
    ELSE IF ScoresReasoning(c) THEN "rubric-scores-reasoning-prose"
    ELSE IF Unanchored(c) THEN "rubric-unanchored"
    ELSE IF RubricEvidenceUnreachable(c) THEN "rubric-evidence-unreachable"
    ELSE IF ~(ForbiddenInputFloor \subseteq c.forbidden) THEN "forbidden-input-floor-incomplete"
    ELSE IF c.excluded THEN "excluded-content-in-declaration"
    ELSE IF c.scoped # {} \/ c.resources # {} THEN "scoped-reference-resolves-forbidden"
    ELSE IF WaiverIncomplete(c) THEN "waiver-incomplete"
    ELSE IF StepsIrreducible(c) THEN "irreducible-step-reference"
    ELSE IF LegIdsCollide(c) THEN "malformed-operator-expression"
    ELSE WitnessesFault(c)
================================================================================
