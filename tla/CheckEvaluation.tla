---------------------------- MODULE CheckEvaluation ----------------------------
(***************************************************************************)
(* core/evaluate/resolution.ts: the walk that turns a check expression     *)
(* into one of three values.  The walk descends into every operand, never  *)
(* stops at a value that settles the node, and stops at the first fault.   *)
(*                                                                         *)
(* The expression and the evidence are not given beforehand: each step     *)
(* chooses the node that the walk meets next and, at a leaf, what its      *)
(* operands resolved to, so that the walks are those over every expression *)
(* up to the bounds.  `stack` holds the connectives and quantifiers that   *)
(* are being resolved, innermost last; a quantifier over n elements is n   *)
(* resolutions of its predicate.                                           *)
(*                                                                         *)
(* A resolution is kept with three facts about it that the code does not   *)
(* compute:                                                                *)
(*   full     what the same walk would have given, had every declared      *)
(*            collection been observed                                     *)
(*   blind    something below was not examined, and no conjunction that it *)
(*            stands in found a defect beside it                           *)
(*   missing  below, covers-by-key took a missing collection for a defect  *)
(*                                                                         *)
(* The eleven leaf operators of a check (core/evaluate/operators.ts) and   *)
(* the interception that precedes them (core/evaluate/resolution.ts): a    *)
(* leaf over a collection in which nothing was observed does not answer.   *)
(*                                                                         *)
(* An operand is a record:                                                 *)
(*   form   "pointer", "bound" (a pointer into the quantified element),    *)
(*          "literal" or "reference"                                       *)
(*   typed  the channel's descriptor declares a collection at the pointer  *)
(*   value  what it resolved to: "absent", "empty", "array" or "other"     *)
(* What an operator answers over values that it does compare is a choice,  *)
(* except for covers-by-key, whose algorithm is below.                     *)
(***************************************************************************)
EXTENDS Naturals, Sequences, FiniteSets

CONSTANTS MaxDepth, MaxArity,  \* of an expression
          Keys, MaxRows        \* of the collections given to covers-by-key

-----------------------------------------------------------------------------
(* The leaves: operands, what the operators answer, the interception.      *)

(* evidence-resolution.ts: a literal is itself, a compiled reference set   *)
(* has members, a bound pointer never denotes a declared collection.       *)
Operand(forms) ==
    {o \in [form : forms, typed : BOOLEAN,
            value : {"absent", "empty", "array", "other"}] :
        /\ o.form = "literal" => o.value # "absent"
        /\ o.form = "reference" => o.value \in {"empty", "array"}
        /\ o.form # "pointer" => ~o.typed}

IsArray(o) == o.value \in {"empty", "array"}

(* A declared collection of which nothing at all was observed.             *)
Unobserved(o) == o.value = "absent" /\ o.form = "pointer" /\ o.typed

(* The operators that answer from the presence or the size of a collection *)
Total == {"existence", "absence", "count-tolerance"}

Unary == Total \cup {"regex", "ordering", "shape"}

Binary == {"equality", "deep-equality", "containment", "set-membership"}

(* Mutant: an operator that is total over "empty" is total over "absent".   *)
DenotesEmptyIfMember(op, o) ==
    op \notin Total /\ (o.value = "empty" \/ Unobserved(o))

DenotesEmpty(op, o) ==
    \/ o.value = "empty" /\ op \notin Total
    \/ Unobserved(o)

(* The answers of a binary operator over values that it may compare; values *)
(* of a type that it does not take are a plain "false".                     *)
PairAnswers(op, os) ==
    IF \/ \E i \in 1 .. 2 : os[i].value = "absent"
       \/ op = "containment" /\ IsArray(os[2]) /\ ~IsArray(os[1])
    THEN {FALSE} ELSE BOOLEAN

(* The answers of an operator that was not intercepted.                     *)
Answers(op, os) ==
    CASE op = "existence" -> {os[1].value # "absent"}
      [] op = "absence" -> {os[1].value = "absent"}
      [] op \in {"ordering", "count-tolerance"} ->
            IF IsArray(os[1]) THEN BOOLEAN ELSE {FALSE}
      [] op \in {"regex", "shape"} ->
            IF os[1].value = "other" THEN BOOLEAN ELSE {FALSE}
      [] OTHER -> PairAnswers(op, os)

(* What the operand may turn out to be once that collection is observed.   *)
Observed(o) ==
    IF Unobserved(o) THEN {[o EXCEPT !.value = v] : v \in {"empty", "array", "other"}}
    ELSE {o}

Truth(b) == IF b THEN "true" ELSE "false"

(* A leaf's resolutions: intercepted by any one operand, or its answer.    *)
LeafValues(op, os) ==
    IF \E i \in DOMAIN os : DenotesEmpty(op, os[i])
    THEN {"insufficient-evidence"}
    ELSE {Truth(b) : b \in Answers(op, os)}

(***************************************************************************)
(* covers-by-key.  A collection is the sequence of its rows' keys, Keyless *)
(* for a row that carries none.  The code fills a map from the rows found, *)
(* one slot each, and deletes a slot for each row expected.                *)
(***************************************************************************)
Keyless == 0

Slot(rows, i) == IF rows[i] = Keyless THEN <<"row", i>> ELSE <<"key", rows[i]>>

(* Mutant: a row without the key takes no slot.                            *)
SlotsOfKeyed(rows) == {Slot(rows, i) : i \in {j \in DOMAIN rows : rows[j] # Keyless}}

Slots(rows) == {Slot(rows, i) : i \in DOMAIN rows}

CoversByKey(expected, actual) ==
    /\ \A i, j \in DOMAIN actual : Slot(actual, i) = Slot(actual, j) => i = j
    /\ \A i \in DOMAIN expected :
          /\ expected[i] # Keyless
          /\ <<"key", expected[i]>> \in Slots(actual)
          /\ \A j \in DOMAIN expected : expected[i] = expected[j] => i = j
    /\ Slots(actual) \ {<<"key", expected[i]>> : i \in DOMAIN expected} = {}

(* The one operator for which a missing collection is a detected defect;   *)
(* an empty one is no evidence as for the others.                          *)
CoversValues(expected, actual) ==
    IF \/ expected.value = "absent" \/ ~IsArray(actual)
    THEN {"false"}
    ELSE IF expected.value = "empty" \/ actual.value = "empty"
         THEN {"insufficient-evidence"}
         ELSE {"true", "false"}

-----------------------------------------------------------------------------
(* The walk.                                                               *)

ASSUME BoundsAssumption ==
    /\ MaxDepth \in Nat /\ MaxArity \in Nat /\ MaxRows \in Nat
    /\ Keyless \notin Keys

VARIABLES stack, result

vars == <<stack, result>>

Values == {"true", "false", "insufficient-evidence"}

Resolutions == [value : Values, full : Values, blind : BOOLEAN, missing : BOOLEAN]

Connectives == {"all", "any"}

Quantifiers == {"for-all", "for-any"}

Conjunctive == {"all", "for-all"}

Unresolved == [value |-> "none"]

Faulted == [value |-> "fault"]

NotOf(v) ==
    CASE v = "insufficient-evidence" -> "insufficient-evidence"
      [] v = "true" -> "false"
      [] v = "false" -> "true"

AllOf(vs) ==
    IF "false" \in vs THEN "false"
    ELSE IF "insufficient-evidence" \in vs THEN "insufficient-evidence"
    ELSE "true"

(* Mutant: the strong disjunction, in which one true sibling is enough.    *)
AnyOfStrong(vs) ==
    IF "true" \in vs THEN "true"
    ELSE IF "insufficient-evidence" \in vs THEN "insufficient-evidence"
    ELSE "false"

AnyOf(vs) ==
    IF "insufficient-evidence" \in vs THEN "insufficient-evidence"
    ELSE IF "true" \in vs THEN "true"
    ELSE "false"

Fold(op, vs) ==
    CASE op = "not" -> NotOf(CHOOSE v \in vs : TRUE)
      [] op \in Conjunctive -> AllOf(vs)
      [] OTHER -> AnyOf(vs)

(* A frame's result once all its operands are resolved.                    *)
Folded(op, done) ==
    [value |-> Fold(op, {d.value : d \in done}),
     full  |-> Fold(op, {d.full : d \in done}),
     blind |-> /\ \E d \in done : d.blind
               /\ ~(op \in Conjunctive /\ \E d \in done : d.value = "false"),
     missing |-> \E d \in done : d.missing]

Leaf(v, full, missing) ==
    [value |-> v, full |-> full, missing |-> missing,
     blind |-> v = "insufficient-evidence"]

(* An operator's leaf on these operands; `qs` is what they are once every  *)
(* declared collection is observed.                                        *)
LeavesOf(op, os, qs) ==
    {r \in {Leaf(v, full, FALSE) : v \in LeafValues(op, os), full \in LeafValues(op, qs)} :
        os = qs => r.full = r.value}

UnaryLeaves ==
    UNION {UNION {LeavesOf(op, <<o>>, <<q>>) : q \in Observed(o)} :
              op \in Unary, o \in Operand({"pointer", "bound"})}

(* The schema gives set-membership a reference set or a filled literal.    *)
SecondOperands(op) ==
    CASE op = "set-membership" ->
            {p \in Operand({"literal", "reference"}) :
                p.form = "literal" => p.value = "array"}
      [] op = "containment" -> Operand({"pointer", "bound", "literal", "reference"})
      [] OTHER -> Operand({"pointer", "bound", "literal"})

BinaryLeaves ==
    UNION {UNION {UNION {LeavesOf(op, <<o, p>>, <<q, r>>) :
                            q \in Observed(o), r \in Observed(p)} :
                     p \in SecondOperands(op)} :
              op \in Binary, o \in Operand({"pointer", "bound"})}

CoversLeaves ==
    UNION {{r \in {Leaf(v, full, Unobserved(a)) :
                     v \in CoversValues(e, a),
                     full \in UNION {CoversValues(e, q) : q \in Observed(a)}} :
               ~r.missing => r.full = r.value} :
              e \in Operand({"reference"}), a \in Operand({"pointer"})}

(* A quantifier over nothing: absent, no array or empty, whatever the      *)
(* pointer's descriptor says of it.  Only an absent one is unobserved.     *)
EmptyQuantifiers ==
    UNION {{Leaf("insufficient-evidence", full, FALSE) :
               full \in IF o.value = "absent" THEN Values ELSE {"insufficient-evidence"}} :
              o \in {c \in Operand({"pointer", "literal"}) : c.value # "array"}}

Init == stack = <<>> /\ result = Unresolved

(* Hand a resolution to the node that asked for it, or to the caller.      *)
Deliver(below, r) ==
    IF below = <<>>
    THEN stack' = below /\ result' = r
    ELSE /\ stack' = [below EXCEPT ![Len(below)].left = @ - 1,
                                   ![Len(below)].done = @ \cup {r}]
         /\ UNCHANGED result

(* The walk is about to resolve another node.                              *)
Descending ==
    /\ result = Unresolved
    /\ stack # <<>> => stack[Len(stack)].left > 0

UnderQuantifier == \E i \in DOMAIN stack : stack[i].op \in Quantifiers

Push(op, arity) ==
    /\ Descending /\ Len(stack) < MaxDepth
    /\ stack' = Append(stack, [op |-> op, left |-> arity, done |-> {}])
    /\ UNCHANGED result

EnterNot == Push("not", 1)

(* The schema requires two operands of a connective.                       *)
EnterConnective == \E op \in Connectives, n \in 2 .. MaxArity : Push(op, n)

(* A quantifier that has elements; compilation refuses one inside another. *)
EnterQuantifier ==
    /\ ~UnderQuantifier
    /\ \E op \in Quantifiers, n \in 1 .. MaxArity : Push(op, n)

ResolveQuantifier ==
    Descending /\ ~UnderQuantifier /\ \E r \in EmptyQuantifiers : Deliver(stack, r)

ResolveUnary == Descending /\ \E r \in UnaryLeaves : Deliver(stack, r)

ResolveBinary == Descending /\ \E r \in BinaryLeaves : Deliver(stack, r)

(* Never inside a quantifier's predicate.                                  *)
ResolveCovers ==
    Descending /\ ~UnderQuantifier /\ \E r \in CoversLeaves : Deliver(stack, r)

(* A regex over a string runs out of its budget: the fault leaves the      *)
(* whole walk, whatever was resolved so far.                               *)
RegexFaults ==
    /\ Descending
    /\ stack' = <<>>
    /\ result' = Faulted

Return ==
    /\ result = Unresolved /\ stack # <<>>
    /\ LET top == stack[Len(stack)] IN
          /\ top.left = 0
          /\ Deliver(SubSeq(stack, 1, Len(stack) - 1), Folded(top.op, top.done))

Resolved == result # Unresolved /\ UNCHANGED vars

Next ==
    \/ EnterNot
    \/ EnterConnective
    \/ EnterQuantifier
    \/ ResolveQuantifier
    \/ ResolveUnary
    \/ ResolveBinary
    \/ ResolveCovers
    \/ RegexFaults
    \/ Return
    \/ Resolved

Spec == Init /\ [][Next]_vars

-----------------------------------------------------------------------------
(* Every resolution the walk holds: handed back, or waiting in a frame.    *)
Known ==
    (UNION {stack[i].done : i \in DOMAIN stack}) \cup ({result} \ {Unresolved, Faulted})

(* Frames, counts and resolutions keep their types; a node is folded over  *)
(* at least one operand, and a negation over exactly one.                  *)
CheckTypeOK ==
    /\ stack \in Seq([op : {"not"} \cup Connectives \cup Quantifiers,
                      left : Nat, done : SUBSET Resolutions])
    /\ result \in Resolutions \cup {Unresolved, Faulted}
    /\ \A i \in DOMAIN stack :
          LET frame == stack[i] IN
          /\ frame.left = 0 => frame.done # {}
          /\ frame.op = "not" =>
                \/ frame.left = 1 /\ frame.done = {}
                \/ frame.left = 0 /\ \E r \in frame.done : frame.done = {r}

(* A decided check stays decided: whatever the declared collections that   *)
(* were not observed hold, a check or any part of one that resolved true   *)
(* or false would have resolved the same - except below covers-by-key,     *)
(* which takes a missing collection for a defect.                          *)
DecidedStaysDecided ==
    \A r \in Known :
        (r.value # "insufficient-evidence" /\ ~r.missing) => r.full = r.value

(* Nothing passes or fails unexamined: a check is decided exactly when     *)
(* every examination below that came up empty stands in a conjunction      *)
(* beside a detected defect.  A sibling that holds never rescues one that  *)
(* examined nothing, under any nesting of not, all, any and quantifiers.   *)
OnlyADefectOutranks ==
    \A r \in Known : r.value = "insufficient-evidence" <=> r.blind

(* A decision is earned: nothing that was not examined could have undone   *)
(* it, and nothing but a detected defect makes up for it.                  *)
DecisionsEarned == DecidedStaysDecided /\ OnlyADefectOutranks

(* covers-by-key is a bijection: over rows of an expected set with a key   *)
(* each and no key twice, it holds of what was found exactly when the two  *)
(* collections can be paired off, every row with one row of the same key.  *)
CoverageIsBijection ==
    stack = <<>> /\ result = Unresolved =>
        \A expected, actual \in UNION {[1 .. n -> {Keyless} \cup Keys] : n \in 0 .. MaxRows} :
            (/\ Keyless \notin {expected[i] : i \in DOMAIN expected}
             /\ \A i, j \in DOMAIN expected : expected[i] = expected[j] => i = j)
            => (CoversByKey(expected, actual) <=>
                    \E pairing \in [DOMAIN expected -> DOMAIN actual] :
                        /\ \A i \in DOMAIN expected : actual[pairing[i]] = expected[i]
                        /\ \A i, j \in DOMAIN expected : pairing[i] = pairing[j] => i = j
                        /\ \A k \in DOMAIN actual : \E i \in DOMAIN expected : pairing[i] = k)
================================================================================
