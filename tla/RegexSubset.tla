------------------------------ MODULE RegexSubset ------------------------------
(***************************************************************************)
(* What a pattern may be: parseBoundedRegex of core/evaluate/              *)
(* bounded-regex.ts, as far as it refuses, and regexRejection of           *)
(* core/compile/expression-legality.ts, which asks it.                     *)
(*                                                                         *)
(* A pattern is [branches, legal]: its syntax tree as the native RegExp    *)
(* reads it, and whether that takes it and its source keeps the limit.  A  *)
(* branch is a sequence of terms, each one of                              *)
(*   [kind |-> "atom", chars]                 a character or a class       *)
(*   [kind |-> "any" | "start" | "end"]       `.`, `^`, `$`                *)
(*   [kind |-> "backref", to]                 `\n`, with a digit           *)
(*   [kind |-> "group", sort, on, off, of]    in parentheses, `of` being   *)
(*            branches, on and off flags, and the sort one of "capturing", *)
(*            "named", "plain", "ahead", "not-ahead" and "lookbehind"      *)
(*   [kind |-> "repeat", of, min, max]        `of` being a term            *)
(***************************************************************************)
EXTENDS SequencesExt

(* A bound of the model: 64 in the source.                                 *)
REGEX_DEPTH_LIMIT == 3

(* Terms side by side, with the number of groups that they stand in.       *)
Placed(terms, depth) == [i \in DOMAIN terms |-> [term |-> terms[i], depth |-> depth]]

Inside(place) ==
    CASE place.term.kind = "group" -> Placed(FlattenSeq(place.term.of), place.depth + 1)
      [] place.term.kind = "repeat" -> Placed(<<place.term.of>>, place.depth)
      [] OTHER -> <<>>

AllInside(places) == FlattenSeq([i \in DOMAIN places |-> Inside(places[i])])

(* Every term of a pattern: its own, those inside them, and so on until    *)
(* there are none.                                                         *)
Places(branches) ==
    LET level[n \in Nat] ==
            IF n = 0 THEN Placed(FlattenSeq(branches), 0) ELSE AllInside(level[n - 1])
        below[n \in Nat] == IF level[n] = <<>> THEN <<>> ELSE level[n] \o below[n + 1]
    IN below[0]

Capturing(place) == place.term.kind = "group" /\ place.term.sort \in {"capturing", "named"}

(* A reference to a group, be it a later one, is none of the subset; that  *)
(* to a group the pattern has not is a character (captureCounts).          *)
OutsideSubset(branches) ==
    LET places == Places(branches)
        captures == Len(SelectSeq(places, Capturing))
    IN \E place \in ToSet(places) :
          \/ /\ place.term.kind = "group"
             /\ place.term.sort = "lookbehind" \/ place.depth >= REGEX_DEPTH_LIMIT
          \/ place.term.kind = "backref" /\ place.term.to <= captures

Unparsed(pattern) == ~pattern.legal \/ OutsideSubset(pattern.branches)

(* regexRejection.                                                         *)
Anchored(branches) ==
    /\ Len(branches) = 1 /\ branches[1] # <<>>
    /\ branches[1][1].kind = "start" /\ branches[1][Len(branches[1])].kind = "end"

CompileAccepts(pattern) == Anchored(pattern.branches) /\ ~Unparsed(pattern)
================================================================================
