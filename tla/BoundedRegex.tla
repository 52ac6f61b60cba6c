----------------------------- MODULE BoundedRegex -----------------------------
(***************************************************************************)
(* core/evaluate/bounded-regex.ts, the interpreter of the patterns that    *)
(* RegexSubset describes, and before it regexMatch of                      *)
(* core/evaluate/operators.ts.  The interpreter's work counter may run out *)
(* at any time and is not counted; greediness is not kept.                 *)
(***************************************************************************)
EXTENDS Integers, RegexSubset

CONSTANTS
    Strings,  \* what a pattern may be held against, sequences of characters
    RegexMatchStepBudget

VARIABLE tested  \* the last test, or <<>>

(* The characters that the flag i takes for one: one letter stands for all.*)
Cases == [a |-> {"A"}, A |-> {"a"}]

(* POSITIVE_INFINITY, as a maximum.                                        *)
Unbounded == -1

Newline == "\n"

-----------------------------------------------------------------------------
(* boundedRegexTest: from where a node starts, the set of where it may end.*)

(* The flags inside a group.                                               *)
Under(flags, term) == (flags \cup term.on) \ term.off

(* An atom of one character is left to the native RegExp.                  *)
Admits(term, flags, char) ==
    CASE term.kind = "any" -> char # Newline \/ "s" \in flags
      [] term.kind = "atom" ->
            char \in term.chars \/ ("i" \in flags /\ char \in DOMAIN Cases /\ Cases[char] \cap term.chars # {})
      [] term.kind = "backref" -> FALSE

HoldsAt(term, flags, value, at) ==
    CASE term.kind = "start" -> at = 0 \/ ("m" \in flags /\ value[at] = Newline)
      [] term.kind = "end" ->
            at = Len(value) \/ ("m" \in flags /\ value[at + 1] = Newline)

RECURSIVE MatchBranches(_, _, _, _), MatchTerm(_, _, _, _)

MatchAll(term, flags, value, positions) ==
    UNION {MatchTerm(term, flags, value, p) : p \in positions}

(* The kind "sequence": the ends of one child are the starts of the next.  *)
MatchSequence(terms, flags, value, start) ==
    LET after[i \in 0 .. Len(terms)] ==
            IF i = 0 THEN {start} ELSE MatchAll(terms[i], flags, value, after[i - 1])
    IN after[Len(terms)]

(* The kind "choice".                                                      *)
MatchBranches(branches, flags, value, start) ==
    UNION {MatchSequence(branches[i], flags, value, start) : i \in DOMAIN branches}

(* Mutant: a fixed point that is reached below the minimum matches nothing.*)
RepeatedNoMerge(term, flags, value, start) ==
    LET turns[count \in 1 .. Len(value) + 2, current \in SUBSET (0 .. Len(value))] ==
            LET next == MatchAll(term.of, flags, value, current)
                found == IF count >= term.min THEN next ELSE {}
            IN  IF term.max # Unbounded /\ count > term.max THEN {}
                ELSE IF next = {} \/ next = current THEN found
                ELSE found \cup turns[count + 1, next]
    IN  (IF term.min = 0 THEN {start} ELSE {}) \cup turns[1, {start}]

(* The kind "repeat": turn by turn, until no end is left, or the ends stay *)
(* the same, which stands for every later turn.                            *)
Repeated(term, flags, value, start) ==
    LET turns[count \in 1 .. Len(value) + 2, current \in SUBSET (0 .. Len(value))] ==
            LET next == MatchAll(term.of, flags, value, current)
                found == IF count >= term.min THEN next ELSE {}
            IN  IF term.max # Unbounded /\ count > term.max THEN {}
                ELSE IF next = {} THEN found
                ELSE IF next = current THEN next
                ELSE found \cup turns[count + 1, next]
    IN  (IF term.min = 0 THEN {start} ELSE {}) \cup turns[1, {start}]

(* A group that is no assertion is its choice, under its own flags.        *)
Grouped(term, flags, value, start) ==
    LET ends == MatchBranches(term.of, Under(flags, term), value, start) IN
    CASE term.sort = "ahead" -> IF ends # {} THEN {start} ELSE {}
      [] term.sort = "not-ahead" -> IF ends = {} THEN {start} ELSE {}
      [] OTHER -> ends

MatchTerm(term, flags, value, start) ==
    CASE term.kind = "group" -> Grouped(term, flags, value, start)
      [] term.kind = "repeat" -> Repeated(term, flags, value, start)
      [] term.kind \in {"start", "end"} -> {p \in {start} : HoldsAt(term, flags, value, p)}
      [] OTHER -> {p \in {start + 1} : p <= Len(value) /\ Admits(term, flags, value[p])}

(* An unanchored pattern may start anywhere; one whose first atom is `^`   *)
(* is tried at the beginning only.                                         *)
Starts(branches, value) ==
    IF Len(branches) = 1 /\ branches[1] # <<>> /\ branches[1][1].kind = "start"
    THEN {0} ELSE 0 .. Len(value)

BoundedRegexTest(pattern, value) ==
    \E start \in Starts(pattern.branches, value) :
        MatchBranches(pattern.branches, {}, value, start) # {}

-----------------------------------------------------------------------------
(* regexMatch: what stands before the interpreter.                         *)

(* QUANTIFIER_MARKER, over the text: the mark of a group, (?: or the like, *)
(* holds a character that is a quantifier elsewhere.                       *)
RECURSIVE Marks(_)
TermMarks(term) ==
    CASE term.kind = "repeat" -> 1 + Marks(<< <<term.of>> >>)
      [] term.kind = "group" -> (IF term.sort = "capturing" THEN 0 ELSE 1) + Marks(term.of)
      [] OTHER -> 0
Marks(branches) == FoldLeft(LAMBDA n, term : n + TermMarks(term), 0, FlattenSeq(branches))

(* hasNestedQuantifier: a group that is repeated and holds a mark itself.  *)
RECURSIVE NestedQuantifier(_)
TermNested(term) ==
    \/ /\ term.kind = "repeat"
       /\ \/ term.of.kind = "group" /\ Marks(term.of.of) > 0
          \/ NestedQuantifier(<< <<term.of>> >>)
    \/ term.kind = "group" /\ NestedQuantifier(term.of)
NestedQuantifier(branches) == \E term \in ToSet(FlattenSeq(branches)) : TermNested(term)

EstimatedSteps(pattern, value) == (1 + Marks(pattern.branches)) * Len(value)

(* The outcomes of one test of a string.                                   *)
RegexMatch(pattern, value, budget) ==
    IF ~pattern.legal THEN {"operator-cannot-accept-operand"}
    ELSE IF NestedQuantifier(pattern.branches) \/ EstimatedSteps(pattern, value) > budget
    THEN {"budget-exhausted"}
    ELSE IF Unparsed(pattern) THEN {"operator-cannot-accept-operand"}
    ELSE {"budget-exhausted", IF BoundedRegexTest(pattern, value) THEN "true" ELSE "false"}

-----------------------------------------------------------------------------
(* What the native RegExp means by a pattern: the pairs of positions that  *)
(* a term spans.                                                           *)
Compose(r, s) == {<<p[1], q[2]>> : <<p, q>> \in {<<p, q>> \in r \X s : p[2] = q[1]}}

Stay(value) == {<<p, p>> : p \in 0 .. Len(value)}

RECURSIVE Spans(_, _, _)

Times(r, n, value) ==
    LET power[k \in 0 .. n] == IF k = 0 THEN Stay(value) ELSE Compose(power[k - 1], r)
    IN power[n]

(* Beyond the minimum, one turn per character reaches what any number does.*)
RepeatSpans(r, term, value) ==
    UNION {Times(r, n, value) :
              n \in term.min .. (IF term.max = Unbounded THEN term.min + Len(value) ELSE term.max)}

GroupSpans(term, flags, value) ==
    LET inner == Spans(term.of, Under(flags, term), value)
        from == {<<p, p>> : p \in {span[1] : span \in inner}}
    IN  CASE term.sort = "ahead" -> from
          [] term.sort = "not-ahead" -> Stay(value) \ from
          [] OTHER -> inner

TermSpans(term, flags, value) ==
    CASE term.kind = "group" -> GroupSpans(term, flags, value)
      [] term.kind = "repeat" ->
            RepeatSpans(Spans(<< <<term.of>> >>, flags, value), term, value)
      [] term.kind \in {"start", "end"} ->
            {span \in Stay(value) : HoldsAt(term, flags, value, span[1])}
      [] OTHER -> {<<p - 1, p>> : p \in {q \in DOMAIN value : Admits(term, flags, value[q])}}

Spans(branches, flags, value) ==
    UNION {FoldLeft(LAMBDA r, term : Compose(r, TermSpans(term, flags, value)),
                    Stay(value), branches[i]) : i \in DOMAIN branches}

NativeTest(pattern, value) == Spans(pattern.branches, {}, value) # {}
-----------------------------------------------------------------------------
(* regexMatch is called on a pattern that compilation let pass or, where   *)
(* a contract is scored that never compiled, on any.                       *)
TestPattern(pattern, compiled) ==
    \E value \in Strings : \E outcome \in RegexMatch(pattern, value, RegexMatchStepBudget) :
        tested' = <<[pattern |-> pattern, value |-> value, outcome |-> outcome,
                     compiled |-> compiled]>>

(* What compiles is never refused when it is scored, but for its cost: the *)
(* interpreter takes every pattern that compilation let pass.  And it      *)
(* answers as the native RegExp would, a set of ends at a time, though it  *)
(* stops a repetition at the first turn that adds none (bounded-regex.ts,  *)
(* boundedRegexTest; operators.ts, regexMatch).                            *)
RegexExact ==
    \A test \in ToSet(tested) :
        /\ test.compiled => test.outcome # "operator-cannot-accept-operand"
        /\ test.outcome \in {"true", "false"} =>
             (test.outcome = "true") = NativeTest(test.pattern, test.value)
=============================================================================
