----------------------------- MODULE MCPreflight -----------------------------
(***************************************************************************)
(* One read and one write, with a reset beside them or not; witnesses,     *)
(* required keys, volatile and reset pointers; no defect, one, two, and    *)
(* one with no witness, under names that the control legs would take.      *)
(***************************************************************************)
EXTENDS Preflight

In(value) == [kind |-> "api", legal |-> TRUE, digestible |-> TRUE, value |-> value]

Op(name, marker, keys, witness, volatile, pointers) ==
    [iface |-> "main", name |-> name, kind |-> "api", marker |-> marker, keys |-> keys,
     witness |-> witness, volatile |-> volatile, pointers |-> pointers]

Pair(a, b) == <<[id |-> <<"left", 1>>, inputs |-> In(a)], [id |-> <<"right", 1>>, inputs |-> In(b)]>>

Reads ==
    {Op("read", FALSE, "required", Pair("a", "b"), volatile, pointers) :
        volatile, pointers \in BOOLEAN}
    \cup {Op("read", FALSE, "none", <<>>, TRUE, FALSE),
          Op("read", FALSE, "optional", <<>>, TRUE, FALSE),
          Op("read", FALSE, "required", Pair("a", "refused"), TRUE, FALSE)}

Write == Op("write", TRUE, "none", <<>>, TRUE, FALSE)

Clear == Op("clear", TRUE, "none", <<>>, TRUE, FALSE)

Reset(name, id) == [leg |-> id, iface |-> "main", name |-> name, inputs |-> EmptyInputs(Clear)]

Contract(ops, reset) == [ops |-> ops, reset |-> reset, steps |-> {}, duplicated |-> FALSE]

Writable ==
    {Contract(<<r, Write, Clear>>, Reset("clear", id)) :
        r \in Reads, id \in {<<"reset", 1>>, <<"control-observe", 1>>}}

ReadOnly == {Contract(<<r>>, NoReset) : r \in Reads}

Defect(leg, op, value) ==
    [leg |-> leg, iface |-> "main", name |-> op, inputs |-> In(value)]

DefectLists ==
    {<<>>, <<Unwitnessed>>, <<Defect(<<"fault", 1>>, "read", "b")>>,
     <<Defect(<<"fault", 1>>, "read", "c")>>, <<Defect(<<"control-observe", 2>>, "read", "b")>>,
     <<Defect(<<"fault", 1>>, "read", "c"), Defect(<<"fault", 2>>, "read", "b")>>,
     <<Defect(<<"left", 1>>, "read", "c")>>, <<Defect(<<"fault", 1>>, "write", "w")>>,
     <<Defect(<<"fault", 1>>, "write", "empty")>>, <<Defect(<<"fault", 1>>, "lost", "c")>>}

(* What planPreflight refuses before it looks at legs.                     *)
Refused ==
    {Contract(<<[Write EXCEPT !.kind = "web"]>>, NoReset),
     Contract(<<Op("read", FALSE, "required", <<>>, TRUE, FALSE)>>, NoReset),
     Contract(<<Write>>, NoReset),
     Contract(<<Op("read", FALSE, "none", <<>>, TRUE, FALSE), Write>>, Reset("lost", <<"reset", 1>>)),
     [Contract(<<Write>>, NoReset) EXCEPT !.duplicated = TRUE]}

Honest ==
    [mutates |-> TRUE, resets |-> TRUE, sees |-> TRUE, sensitive |-> TRUE,
     fires |-> "input", errors |-> "json", header |-> FALSE]

(* Every fixture, and every way but one in which a world can be amiss.     *)
Worlds ==
    {[Honest EXCEPT !.mutates = m, !.resets = r, !.fires = f] :
        m, r \in BOOLEAN, f \in {"input", "every", "later"}}
    \cup {[Honest EXCEPT !.sees = FALSE, !.resets = FALSE], [Honest EXCEPT !.sensitive = FALSE],
          [Honest EXCEPT !.fires = "never"], [Honest EXCEPT !.errors = "text"],
          [Honest EXCEPT !.header = TRUE], [Honest EXCEPT !.header = TRUE, !.fires = "every"]}

Whole == [contract |-> Sound, probe |-> Sound]

Issued(contracts, lists, worlds, n) ==
    [contract : contracts, defects : lists, arrived : {Whole}, world : worlds,
     mode : {"port"}, misanswers : {n}]

Short == Contract(<<Op("read", FALSE, "none", <<>>, TRUE, FALSE)>>, NoReset)

MCSettings ==
    Issued(Writable \cup ReadOnly, DefectLists, Worlds, 0)
        \cup Issued(Refused, {<<>>}, {Honest}, 0)
        \cup Issued(Writable \cup ReadOnly, DefectLists, {Honest}, 1)
        \cup [contract : {Short}, defects : {<<>>}, world : {Honest}, mode : {"port"},
              arrived : [contract : Artifacts, probe : Artifacts], misanswers : {0}]
        \cup [contract : {Short}, defects : DefectLists, arrived : {Whole}, world : {Honest},
              mode : {"observations"}, misanswers : {1}]
=============================================================================
