--------------------------- MODULE MCStepSelection ---------------------------
(***************************************************************************)
(* Every plan of three steps that capture at most one value and have any   *)
(* clause is compiled, with a fourth step that stands alone; some of those *)
(* and some plans over four steps are scored too.                          *)
(***************************************************************************)
EXTENDS StepSelection

MCN == 4

Step(captures, after, cardinality) ==
    [captures |-> captures, after |-> after, cardinality |-> cardinality]

Alone == Step({}, None, "any")

(* Every ordering of three steps.                                          *)
Triples ==
    {<<a, b, c, Alone>> :
        a, b, c \in {Step(cs, p, "any") :
                        cs \in {{}} \cup {{s} : s \in 1 .. 3}, p \in {1, 2, 3, None}}}

(* An anchor with a capture of its own, and a step that captures from what *)
(* comes after the anchor, declared before and behind it.                  *)
Anchored(card) ==
    {<<Step({4}, None, card), Step({}, 1, card), Step({2}, None, card), Alone>>,
     <<Step({2}, None, card), Step({}, 3, card), Step({4}, None, card), Alone>>}

(* A chain, a step with two captures, one source for two, a capture beside *)
(* a clause, a dangling capture, a dangling clause and cycles.             *)
Shapes(card) ==
    {<<Step({2}, None, card), Step({3}, None, card), Step({}, None, card), Alone>>,
     <<Step({}, None, card), Step({}, None, card), Step({1, 2}, None, card), Alone>>,
     <<Step({}, None, card), Step({1}, None, card), Step({1}, 2, card), Alone>>,
     <<Step({}, None, card), Step({Nowhere}, None, card), Step({}, Nowhere, card), Alone>>,
     <<Step({}, 2, card), Step({}, 1, card), Step({1}, None, card), Alone>>,
     <<Step({2}, None, card), Step({}, 1, card), Step({}, 2, card), Alone>>}

MCScored == UNION {Anchored(card) \cup Shapes(card) : card \in {"any", "exactly-one"}}

MCPlans == Triples \cup MCScored

MCObservations ==
    [fits : {{1}, {2}, {3}, {4}, {1, 2}}, given : {"a", "b"}, body : {"a", "b"}]
        \cup {[fits |-> {1, 2, 3}, given |-> "missing", body |-> "missing"]}
=============================================================================
