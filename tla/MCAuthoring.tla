----------------------------- MODULE MCAuthoring -----------------------------
(***************************************************************************)
(* Contracts around one that compiles: a write, what is read after it, and *)
(* a read that stands alone.  Each varies it in a place that some check,   *)
(* some rung of the ladder or some discipline looks at.                    *)
(***************************************************************************)
EXTENDS Authoring, BoundedRegex, Canonical

Shape(required, permitted, types) == [required |-> required, permitted |-> permitted, types |-> types]

Only1(key) == Shape({key}, {}, [k \in {key} |-> "string"])

Request(kind, given) ==
    [ch \in InputChannelsOf([kind |-> kind]) |->
        IF ch \in DOMAIN given THEN given[ch] ELSE Shape({}, {}, <<>>)]

Pt(step, channel, input, tail) ==
    [step |-> step, channel |-> channel, input |-> input, artifact |-> NoArtifact, tail |-> tail]

Body(step, tail) == Pt(step, "response-body", "none", tail)

Sends(step, input, key) == Pt(step, "call-inputs", input, <<key>>)

Node(op, operands) ==
    [op |-> op, operands |-> operands, within |-> 0, under |-> "nothing", pattern |-> <<>>,
     key |-> "name"]

Compared(p, q) == <<Node("equality", <<At(p), At(q)>>)>>

Inputs(kind, ch, key, value) ==
    [kind |-> kind, form |-> "json", twoTypes |-> FALSE,
     supplied |-> [x \in InputChannelsOf([kind |-> kind]) |-> IF x = ch THEN [k \in {key} |-> value] ELSE <<>>]]

Witness(a, b, kind, ch, key, field) ==
    [channel |-> ch, relation |-> Compared(Body(a, field), Body(b, field)),
     legs |-> <<[id |-> a, inputs |-> Inputs(kind, ch, key, "x")],
                [id |-> b, inputs |-> Inputs(kind, ch, key, "y")]>>]

ReadOp ==
    [iface |-> "main", id |-> "read", kind |-> "api", channel |-> "response-body",
     artifact |-> NoArtifact, artifacts |-> {},
     body |-> Shape({"name"}, {"tags"}, "name" :> "string" @@ "tags" :> "array"),
     collections |-> <<>>, request |-> Request("api", "query" :> Only1("id")),
     volatile |-> {}, resetPointers |-> {}, signature |-> "GET", marker |-> FALSE,
     witness |-> <<Witness("left", "right", "api", "query", "id", <<"name">>)>>,
     indicator |-> <<>>, roles |-> <<>>, listed |-> TRUE]

WriteOp ==
    [ReadOp EXCEPT !.id = "write", !.body = Only1("id"), !.request = Request("api", "body" :> Only1("name")),
                 !.signature = "POST", !.marker = TRUE,
                 !.witness = <<Witness("first", "second", "api", "body", "name", <<"id">>)>>]

(* A command that prints one text, of which it reads nothing.              *)
Version ==
    [ReadOp EXCEPT !.id = "version", !.iface = "tool", !.kind = "cli", !.channel = "stdout",
                 !.body = Shape({}, {}, <<>>), !.request = Request("cli", <<>>),
                 !.signature = "version", !.witness = <<>>]

Bind(ch, key, form, value) == [channel |-> ch, key |-> key, form |-> form, value |-> value, from |-> <<>>]

Captured(ch, key, p) == [Bind(ch, key, "captured", "none") EXCEPT !.from = <<p>>]

Step(id, op, after, binds) ==
    [id |-> id, iface |-> "main", op |-> op, after |-> after, binds |-> binds, twoTypes |-> FALSE]

Asks(id, after, form, value) == Step(id, "read", after, <<Bind("query", "id", form, value)>>)

Follows(id, after, p) == Step(id, "read", after, <<Captured("query", "id", p)>>)

Stores(id, value) == Step(id, "write", NoStep, <<Bind("body", "name", "literal", value)>>)

Oracle(id, targets, check) ==
    [id |-> id, behavior |-> "b", polarity |-> "expects-hold", expects |-> TRUE,
     direction |-> <<[targets |-> targets, relation |-> "equality", polarity |-> "expects-hold"]>>,
     check |-> check, ops |-> {"equality"}]

Comparing(id, p, q) == Oracle(id, {p, q}, Compared(p, q))

Rubric ==
    [id |-> "r", levels |-> <<[level |-> 0, anchor |-> "plain"], [level |-> 1, anchor |-> "plain"]>>,
     bounded |-> TRUE, penalties |-> <<"plain">>, descriptions |-> <<>>,
     criteria |-> <<[id |-> "k", text |-> "plain", evidence |-> Body("s3", <<"name">>)]>>]

Base ==
    [interfaces |-> <<[id |-> "main", kind |-> "api"], [id |-> "tool", kind |-> "cli"]>>,
     behaviors |-> <<[id |-> "b", linked |-> TRUE, criterion |-> TRUE, severity |-> "material", oracles |-> <<"o1">>]>>,
     ops |-> <<WriteOp, ReadOp>>,
     steps |-> <<Stores("s1", "n"), Follows("s2", "s1", Body("s1", <<"id">>)), Asks("s3", NoStep, "literal", "n")>>,
     oracles |-> <<Comparing("o1", Sends("s1", "body", "name"), Body("s2", <<"name">>)),
                   Comparing("o2", Body("s2", <<"name">>), Body("s3", <<"name">>))>>,
     rubrics |-> <<Rubric>>, sets |-> "names" :> [keys |-> <<"name">>, members |-> <<"name" :> "n", "name" :> "m">>],
     principals |-> {"owner"}, forbidden |-> ForbiddenInputFloor, excluded |-> FALSE,
     scoped |-> {}, resources |-> {}, waivers |-> <<>>, reset |-> <<>>, bound |-> <<>>,
     siblings |-> <<[operations |-> {}, parameters |-> {}]>>, stamp |-> "equal"]

-----------------------------------------------------------------------------
WithRead(op) == [Base EXCEPT !.ops = <<WriteOp, op>>]

(* What the read declares and what the checks and a relation ask of it.    *)
Asked(op, tail) ==
    [WithRead(op) EXCEPT !.oracles = <<Comparing("o1", Sends("s1", "body", "name"), Body("s3", tail))>>]

Collection(bound) == [tail |-> <<>>, bound |-> bound, set |-> "names", mode |-> "exact"]

Listing(bound) == [ReadOp EXCEPT !.collections = <<Collection(bound)>>]

Described ==
    {Asked(op, tail) :
        op \in {ReadOp, Listing(1), Listing(2), [ReadOp EXCEPT !.body.types = <<>>],
                [ReadOp EXCEPT !.collections = <<Collection(1), Collection(2)>>]},
        tail \in {<<>>, <<"0">>, <<"1">>, <<"1", "name">>, <<"name">>, <<"name", "0">>, <<"tags", "0">>, <<"size">>}}

Volatile ==
    {WithRead([ReadOp EXCEPT !.volatile = {v}, !.resetPointers = resets,
                           !.witness = <<Witness("left", "right", "api", "query", "id", tail)>>]) :
        v \in {<<"tags">>, <<"tags", Wildcard>>, <<"name">>}, resets \in {{}, {<<"tags", "0">>}},
        tail \in {<<"tags">>, <<"tags", "0">>}}

-----------------------------------------------------------------------------
(* One fault each, in the order in which compile() looks for them.         *)
WithCheck(e) == [Base EXCEPT !.oracles[1].check = e \o @]

Every(p, predicate) == <<Node("for-all", <<At(p)>>), [predicate EXCEPT !.within = 1]>>

Element(tail) == [Body(Bound, tail) EXCEPT !.channel = "none"]

Unchecked == WithCheck(<<Node("equality", <<At(Element(<<>>)), Literal("text")>>)>>)

Legs(op, f) == [op EXCEPT !.witness[1] = f]

Faulty ==
    {[Base EXCEPT !.interfaces = @ \o @], [Base EXCEPT !.behaviors[1].linked = FALSE],
     [Base EXCEPT !.behaviors[1].criterion = FALSE],
     [Base EXCEPT !.oracles[1].check = Compared(Body("s9", <<>>), Body("s2", <<>>))],
     [Base EXCEPT !.steps[2].binds[1].from[1] = Body("s1", <<"name">>)],
     Unchecked, WithCheck(<<Node("ordering", <<Literal("zero")>>)>>),
     WithCheck(Every(Body("s2", <<"name">>), Node("equality", <<At(Element(<<>>)), Literal("text")>>))),
     WithCheck(Every(Body("s2", <<"tags">>), Node("for-all", <<At(Element(<<>>))>>))),
     WithCheck(<<Node("set-membership", <<At(Body("s2", <<"name">>)), Set("lost")>>)>>),
     [Base EXCEPT !.ops[2].signature = "POST"], [Base EXCEPT !.ops[2].witness = <<>>],
     [Base EXCEPT !.oracles[1].direction = <<>>], [Base EXCEPT !.oracles[1].direction[1].relation = "ordering"],
     [Base EXCEPT !.interfaces[1].kind = "web", !.ops[1].kind = "web", !.ops[2].kind = "web"],
     [Base EXCEPT !.steps[3].after = "s2"],
     [Base EXCEPT !.steps = @ \o <<Asks("s4", "s3", "literal", "m")>>],
     [Base EXCEPT !.steps[1] = [Stores("s1", "n") EXCEPT !.binds[1] = Captured("body", "name", Body("s2", <<"name">>))]],
     [Base EXCEPT !.steps[2].binds[1].from[1] = Pt("s1", "response-headers", "none", <<"etag">>)],
     [Base EXCEPT !.rubrics = @ \o @], [Base EXCEPT !.rubrics[1].penalties = <<"reasoning">>],
     [Base EXCEPT !.rubrics[1].bounded = FALSE],
     [Base EXCEPT !.rubrics[1].criteria[1].evidence = Body("s3", <<"size">>)],
     [Base EXCEPT !.forbidden = @ \ {"repository"}], [Base EXCEPT !.excluded = TRUE],
     [Base EXCEPT !.resources = {"repository"}],
     [Base EXCEPT !.waivers = <<[rule |-> TRUE, rationale |-> TRUE, approval |-> FALSE, expires |-> TRUE]>>],
     [Base EXCEPT !.oracles = @ \o @],
     [Base EXCEPT !.ops = @ \o <<[Version EXCEPT !.channel = "artifact", !.artifact = "report"]>>],
     WithRead(Legs(ReadOp, [ReadOp.witness[1] EXCEPT !.channel = "body"])),
     WithRead(Legs(ReadOp, [ReadOp.witness[1] EXCEPT !.relation = Compared(Body("left", <<>>), Body("left", <<>>))])),
     WithRead(Legs(ReadOp, [ReadOp.witness[1] EXCEPT !.relation = Compared(Body("left", <<>>), Body("first", <<>>))]))}

-----------------------------------------------------------------------------
(* Inputs, identifiers and the reset, which pre-flight checks again.       *)
Reset(id, op, inputs) == <<[id |-> id, iface |-> "main", op |-> op, inputs |-> inputs]>>

Named == Inputs("api", "body", "name", "n")

Resets ==
    {[Base EXCEPT !.reset = Reset(id, op, inputs)] :
        id \in {"reset", "left", "s1"}, op \in {"write", "read", "lost"},
        inputs \in {Named, Inputs("api", "query", "id", "n"), Inputs("mcp", "arguments", "id", "n"),
                    [Named EXCEPT !.form = "raw"], [Named EXCEPT !.form = "raw", !.twoTypes = TRUE]}}
    \cup {WithRead([ReadOp EXCEPT !.witness = <<Witness(a, "right", "api", "query", "id", <<"name">>)>>]) :
             a \in {"left", "first", "right", "s3"}}
    \cup {WithRead([ReadOp EXCEPT !.witness = <<Witness("left", "right", "mcp", "arguments", "id", <<"name">>)>>]),
          WithRead([ReadOp EXCEPT !.request = Request("api", "query" :> Shape({}, {"id"}, <<>>)), !.witness = <<>>])}

-----------------------------------------------------------------------------
(* Steps on one operation that a direction speaks of together.             *)
All(ids) == {Body(id, <<"name">>) : id \in ids}

Together(steps, ids) ==
    [Base EXCEPT !.steps = steps, !.rubrics = <<>>,
                 !.oracles = <<[Comparing("o1", Body("s1", <<"name">>), Body("s2", <<"name">>)) EXCEPT
                                   !.direction[1].targets = All(ids),
                                   !.check = FlattenSeq([i \in 1 .. 3 |-> Compared(Body("s1", <<"name">>), Body(<<"s1", "s2", "s3">>[i], <<"name">>))])]>>]

Askings == {<<"literal", "n">>, <<"literal", "m">>, <<"any", "n">>, <<"type-violating", "n">>, <<"principal", "owner">>}

Tellings ==
    {Together(<<Asks("s1", NoStep, a[1], a[2]), Asks("s2", after, b[1], b[2]), Asks("s3", after, d[1], d[2])>>,
              ids) :
        a \in {<<"literal", "n">>, <<"principal", "owner">>}, b, d \in Askings, after \in {NoStep, "s1"}, ids \in {{"s1", "s2"}, {"s1", "s2", "s3"}}}
    \cup {Together(<<Follows("s1", NoStep, Body(a, <<"id">>)), Follows("s2", NoStep, Body(b, <<"id">>)),
                     Asks("s3", NoStep, "literal", "n"), Stores("s4", "n"), Stores("s5", v)>>,
                   {"s1", "s2", "s3"}) :
             a, b \in {"s4", "s5"}, v \in {"n", "m"}}

-----------------------------------------------------------------------------
(* The declarations of each discipline, absent, empty, met and unmet.      *)
Stored == [WriteOp EXCEPT !.indicator = <<<<"id">>>>, !.roles = <<<<"id">> :> "success-indicator">>]

Indicated ==
    {[Base EXCEPT !.ops = <<Stored, read>>] : read \in {[ReadOp EXCEPT !.indicator = indicator, !.roles = roles, !.collections = collections,
                           !.body.required = required] :
        indicator \in {<<>>, <<<<"name">>>>},
        roles \in {<<>>, <<<<>>>>, <<<<"name">> :> "success-indicator">>,
                   <<<<"name">> :> "success-indicator" @@ <<"tags">> :> "payload">>},
        collections \in {<<>>, <<[Collection(1) EXCEPT !.set = "none"]>>, <<Collection(1)>>},
        required \in {{"name"}, {"name", "tags"}}}}
    \cup {WithRead([ReadOp EXCEPT !.listed = FALSE]), [Base EXCEPT !.ops = <<>>],
          [Base EXCEPT !.ops = <<Version>>, !.siblings = <<>>],
          [Base EXCEPT !.siblings = <<[operations |-> {{<<"main", "read">>, <<"main", "write">>}}, parameters |-> {}]>>],
          [Base EXCEPT !.siblings = <<[operations |-> {}, parameters |-> {{"id", "name"}}]>>]}

(* The same disciplines with what meets them: all that the read declares   *)
(* is asked of one step, and of the malformed one beside it.               *)
Met ==
    LET whole == {Body("s3", <<"name">>), Body("s3", <<"tags">>)}
        asked == Compared(Body("s3", <<"name">>), Body("s3", <<"tags">>))
        malformed == <<Asks("s4", NoStep, "type-violating", "n"),
                       [Stores("s5", "n") EXCEPT !.binds[1].form = "type-violating"]>>
    IN {[[WithRead(op) EXCEPT !.oracles[2] = Oracle("o1", whole, asked \o extra)] EXCEPT
              !.oracles[1].id = "o2", !.ops[1] = Stored, !.steps = @ \o malformed] :
          op \in {[ReadOp EXCEPT !.indicator = <<<<"name">>>>, !.body.required = {"name", "tags"},
                               !.roles = <<<<"name">> :> "success-indicator" @@ <<"tags">> :> "payload">>,
                               !.collections = <<[Collection(1) EXCEPT !.mode = mode]>>] :
                     mode \in {"exact", "at-most"}},
          extra \in {<<>>,
                     <<Node("covers-by-key", <<Set("names"), At(Body("s3", <<>>))>>),
                       Node("equality", <<At(Pt("s4", "response-status", "none", <<>>)), At(Body("s5", <<>>))>>)>>,
                     <<Node("for-all", <<At(Body("s3", <<>>))>>),
                       [Node("set-membership", <<At(Element(<<"name">>)), Set("names")>>) EXCEPT !.within = 2]>>}}

-----------------------------------------------------------------------------
(* Two operations of one name, of which the first is taken; and operations *)
(* that are not called over a transport.                                   *)
Twin(marker) ==
    [WriteOp EXCEPT !.signature = "PUT", !.marker = marker, !.witness = <<>>,
                  !.request = Request("api", "body" :> Shape({}, {}, <<>>))]

Tool ==
    [ReadOp EXCEPT !.id = "call", !.iface = "tool", !.kind = "mcp", !.signature = "call",
                 !.request = Request("mcp", "arguments" :> Only1("id")),
                 !.witness = <<Witness("call-a", "call-b", "mcp", "arguments", "id", <<"name">>)>>]

Command ==
    [Version EXCEPT !.request = Request("cli", "stdin" :> Only1("id")),
                    !.witness = <<[Witness("run-a", "run-b", "cli", "stdin", "id", <<>>) EXCEPT
                                     !.relation = Compared(Pt("run-a", "stdout", "none", <<>>),
                                                           Pt("run-b", "exit-code", "none", <<>>)),
                                     !.legs[1].inputs.form = "text"]>>]

Kinds ==
    {[Base EXCEPT !.ops = <<ReadOp>> \o twins, !.steps = <<@[3]>>, !.rubrics = <<>>,
                  !.oracles = <<Comparing("o2", Body("s3", <<>>), Body("s3", <<"name">>))>>,
                  !.reset = Reset("reset", "write", inputs)] :
        twins \in {<<Twin(TRUE), WriteOp>>, <<WriteOp, Twin(TRUE)>>, <<Twin(FALSE), WriteOp>>},
        inputs \in {Named, [Named EXCEPT !.supplied.body = <<>>]}}
    \cup {[Base EXCEPT !.interfaces[2].kind = op.kind, !.ops = @ \o <<op>>, !.reset = Reset("reset", "write", Named)] :
             op \in {Tool, Command, Version, Legs(Command, [Command.witness[1] EXCEPT !.channel = "option"]),
                     [Tool EXCEPT !.marker = TRUE]}}

-----------------------------------------------------------------------------
(* Patterns: every sort of group around every body, alone, repeated, and   *)
(* before or after something else, whole or not.                           *)
Atom(chars) == [kind |-> "atom", chars |-> chars]

Mark(kind) == [kind |-> kind]

BackRef == [kind |-> "backref", to |-> 1]

Group(sort, on, off, of) == [kind |-> "group", sort |-> sort, on |-> on, off |-> off, of |-> of]

Turns(term, min, max) == [kind |-> "repeat", of |-> term, min |-> min, max |-> max]

Bodies1 ==
    {<<<<Atom({"a"})>>, <<Atom({"A"}), Mark("any")>>>>, <<<<Atom({"a"})>>, <<>>>>,
     <<<<Turns(Atom({"a", "\n"}), 0, Unbounded)>>>>, <<<<Mark("start"), Atom({"a"})>>>>,
     <<<<Atom({"a"}), Mark("end")>>>>, <<<<Group("plain", {}, {"i"}, <<<<Atom({"a"})>>>>), Mark("any")>>>>,
     <<<<Group("ahead", {}, {}, <<<<Atom({"a"}), Atom({"A"})>>>>)>>, <<Atom({"A"})>>>>}

GroupedAtom ==
    {Group(sort, {}, {}, of) : sort \in {"capturing", "ahead", "not-ahead"}, of \in Bodies1}
    \cup {Group("plain", on, {}, of) : on \in {{"i"}, {"m", "s"}}, of \in Bodies1}

Around(g) ==
    {<<g>>, <<Turns(g, 1, Unbounded)>>, <<Turns(g, 3, 4)>>, <<Mark("any"), g>>,
     <<g, Turns(Mark("any"), 0, 1)>>}

Nest[n \in 0 .. 4] ==
    IF n = 0 THEN <<<<Atom({"a"})>>>> ELSE <<<<Group("plain", {}, {}, Nest[n - 1])>>>>

Odd ==
    {<<Group("lookbehind", {}, {}, <<<<Atom({"a"})>>>>)>>, <<BackRef, Mark("any")>>,
     <<BackRef, Group("capturing", {}, {}, <<<<Atom({"a"})>>>>)>>, <<Turns(Atom({"a"}), 0, 0)>>,
     <<Turns(Group("plain", {}, {}, <<<<Turns(Atom({"a"}), 1, 2)>>>>), 1, 2)>>}
    \cup {Nest[n][1] : n \in {3, 4}}

Pattern(branches) == [branches |-> branches, legal |-> TRUE]

Whole(body) == <<Mark("start")>> \o body \o <<Mark("end")>>

Regexes ==
    LET bodies == (UNION {Around(g) : g \in GroupedAtom}) \cup Odd IN
    {Pattern(<<Whole(body)>>) : body \in bodies}
    \cup {Pattern(<<<<Mark("start")>> \o body, <<Mark("end")>>>>) : body \in Odd \cup {<<g>> : g \in GroupedAtom}}
    \cup {Pattern(<<<<Mark("start"), Atom({"a"}), Atom({"$"})>>>>), [branches |-> <<>>, legal |-> FALSE]}

Tests(pattern) ==
    [Base EXCEPT !.ops = <<ReadOp>>, !.steps = <<@[3]>>, !.rubrics = <<>>,
                 !.oracles = <<Oracle("o2", {Body("s3", <<"name">>)},
                                      <<Node("existence", <<At(Body("s3", <<>>))>>),
                                        [Node("regex", <<At(Body("s3", <<"name">>))>>) EXCEPT !.pattern = pattern]>>)>>]

Patterned == {Tests(pattern) : pattern \in Regexes}

MCStrings == {s \in BoundedSeq({"a", "A", "\n"}, 3) : Len(s) < 3 \/ s[1] = "a"}

-----------------------------------------------------------------------------
(* What is digested.  Sizes are in halves, and a double has two digits; -1 *)
(* is Infinite.                                                          *)
MCBinary64 == [size \in 0 .. 9 |-> CASE size = 5 -> 4 [] size = 7 -> 8 [] size = 9 -> -1 [] OTHER -> size]

MCKeyOrder == <<"0", "1", "B", "a", "protocol">>

Is(is) == [type |-> "literal", is |-> is]
Number(neg, size) == [type |-> "number", neg |-> neg, size |-> size]
Text(text) == [type |-> "string", text |-> text]

Scalars ==
    {Is("null"), Is("true"), Text("a"), Text(Lone), Undefined}
    \cup {Number(neg, size) : neg \in BOOLEAN, size \in {0, 3, 6, 8, Infinite}}

Some == {Is("null"), Number(TRUE, 0), Number(FALSE, 0), Undefined}

Object(id, props) == PlainObject(id, props)
Array(id, items) == PlainArray(id, items)

Face(value) == CHOOSE face \in value.faces : TRUE

With(value, face) == [value EXCEPT !.faces = {face}]

Pair(k, x, l, y) == Object(1, <<Field(k, x), Field(l, y)>>)

Flat ==
    {Array(1, items) : items \in BoundedSeq(Some, 2)}
    \cup {Object(1, <<Field(k, x)>>) : k \in {"a", "protocol", Lone}, x \in Some}
    \cup {Pair(k[1], x, k[2], y) : k \in {<<"a", "B">>, <<"B", "a">>}, x, y \in Some}

(* Each departure that either traversal looks for, in an object that is    *)
(* sound but for it.                                                       *)
Departing ==
    LET list == Array(1, <<Is("null"), Is("true")>>)
        map == Pair("a", Is("null"), "B", Is("true"))
        last == Field("1", Is("true"))
    IN {With(value, face) : value \in {list, map},
           face \in UNION {{[Face(v) EXCEPT !.plain = FALSE], [Face(v) EXCEPT !.symbols = TRUE],
                            [Face(v) EXCEPT !.props[1].kind = "accessor"],
                            [Face(v) EXCEPT !.props[2].kind = "hidden"]} : v \in {list, map}}}
       \cup {With(list, [Face(list) EXCEPT !.length = 3]), With(list, [Face(list) EXCEPT !.props = <<last>>]),
             With(list, [Face(list) EXCEPT !.length = 1]),
             With(list, [Face(list) EXCEPT !.length = 1, !.props = <<Field("a", Is("null"))>>]),
             With(list, [Face(list) EXCEPT !.props = <<@[1], Field("a", Is("null"))>>])}

Nested ==
    LET inner == {Array(2, <<Number(TRUE, 0)>>), Object(2, <<Field("a", Number(FALSE, 0))>>), Array(1, <<>>),
                  Array(2, <<Array(3, <<>>)>>), Object(2, <<Field("a", Array(1, <<>>))>>)}
    IN {Array(1, <<v>>) : v \in inner} \cup {Array(1, <<v, v>>) : v \in inner}
       \cup {Pair(k[1], v, k[2], Is("null")) : k \in {<<"a", "B">>, <<"B", "a">>}, v \in inner}

(* Objects that show one of two faces at every read.                       *)
Liars ==
    LET faces(v) == {Face(v), [Face(v) EXCEPT !.props[1].value = Text("a")], [Face(v) EXCEPT !.plain = FALSE],
                     [Face(v) EXCEPT !.symbols = TRUE], [Face(v) EXCEPT !.props[1].kind = "accessor"],
                     [Face(v) EXCEPT !.length = @ + 1], [Face(v) EXCEPT !.props = <<@[1]>>]}
        liars == UNION {{[v EXCEPT !.faces = {face, other}] : face, other \in faces(v)} :
                           v \in {Array(1, <<Is("null"), Is("true")>>), Pair("a", Is("null"), "B", Is("true"))}}
    IN liars \cup {Object(0, <<Field("B", liar), Field("a", liar)>>) : liar \in {l \in liars : Cardinality(l.faces) = 2}}

MCValues == Scalars \cup Flat \cup Departing \cup Nested \cup Liars

NumberToken(neg, size, whole) == [lex |-> "number", neg |-> neg, size |-> size, whole |-> whole]
StringToken(text, escaped) == [lex |-> "string", text |-> text, escaped |-> escaped]

Tokens1 ==
    {[lex |-> ch] : ch \in {"{", "}", "[", "]", ":", ",", "blank", "broken", "undecodable"}}
    \cup {NumberToken(TRUE, 0, TRUE), NumberToken(FALSE, 2, FALSE), NumberToken(FALSE, 5, FALSE),
          NumberToken(FALSE, 7, FALSE), NumberToken(FALSE, 8, TRUE), NumberToken(FALSE, 9, FALSE)}
    \cup {StringToken("a", TRUE), StringToken("B", FALSE), StringToken(Lone, TRUE)}

(* What is emitted, and with one token taken out, put in or put in place   *)
(* of another.                                                             *)
Written ==
    UNION {Serialize(v) : v \in {Pair("a", Is("null"), "B", Array(2, <<Is("true"), Number(FALSE, 3)>>)),
                                   Array(1, <<Array(2, <<>>), Object(2, <<>>)>>), Is("null"),
                                   Object(1, <<Field("a", Object(2, <<Field("a", Text("a"))>>))>>)}}

Edited(text) ==
    {RemoveAt(text, i) : i \in DOMAIN text}
    \cup {InsertAt(text, i, token) : i \in 1 .. Len(text) + 1, token \in Tokens1}
    \cup {ReplaceAt(text, i, token) : i \in DOMAIN text, token \in Tokens1}

MCDocuments == Written \cup UNION {Edited(text) : text \in Written}

-----------------------------------------------------------------------------
(* What the schema refuses, among it what compile() would not.             *)
Among(value) == WithCheck(<<Node("set-membership", <<At(Body("s2", <<"name">>)), Literal(value)>>)>>)

Misfits ==
    {[Base EXCEPT !.behaviors = <<>>], [Base EXCEPT !.siblings[1].parameters = {{}}],
     [Base EXCEPT !.steps[1].binds = @ \o <<Bind("body", "bytes", "raw", "n")>>],
     [Base EXCEPT !.steps[1].binds = @ \o @], [Base EXCEPT !.steps[1].binds = @ \o <<Bind("option", "id", "any", "n")>>],
     [Base EXCEPT !.oracles[1].check = Compared(Body("s2", <<Wildcard>>), Body("s2", <<"name">>))],
     [Base EXCEPT !.oracles[1].check = Compared(Pt("s2", "response-status", "none", <<"name">>), Body("s2", <<"name">>))],
     WithCheck(<<Node("existence", <<At(Body("s2", <<>>)), At(Body("s3", <<>>))>>)>>), Among("text"),
     WithRead([ReadOp EXCEPT !.kind = "cli"]), WithRead([ReadOp EXCEPT !.artifacts = {"report"}]),
     WithRead([ReadOp EXCEPT !.resetPointers = {<<"tags", Wildcard>>}]),
     WithRead(Legs(ReadOp, [ReadOp.witness[1] EXCEPT !.channel = "header"])),
     WithRead(Legs(ReadOp, [ReadOp.witness[1] EXCEPT !.legs = <<@[1]>>])),
     Tests(Pattern(<<<<Group("plain", {}, {}, <<Whole(<<Mark("any")>>)>>)>>>>)), Tests(Pattern(<<<<Mark("any")>>>>))}

Draft(c, strict) ==
    [contract |-> c, stamp |-> "equal", fits |-> TRUE, strict |-> strict, revisions |-> 0]

Unfit == [Draft(Base, TRUE) EXCEPT !.fits = FALSE]

Revising == [Unfit EXCEPT !.revisions = 3]

Stale == [Draft(Base, TRUE) EXCEPT !.stamp = "other"]

MCDrafts ==
    {Draft(c, TRUE) : c \in {Base} \cup Described \cup Volatile \cup Faulty \cup Resets \cup Tellings \cup Indicated \cup Met \cup Kinds \cup Patterned \cup Misfits \cup {Among("array")}}
    \cup {Draft([Base EXCEPT !.bound = <<0>>], TRUE)}
    \cup {Draft(c, FALSE) : c \in Resets \cup Faulty}
    \cup {Stale, Revising}

MCBodies == {[version |-> 1, text |-> "a"], [version |-> 1, text |-> "b"]}

MCCaps == {<<>>, <<1>>}

MCAlphabet == <<"s1", "s2", "s3", "s4", "s5", "s9">>

-----------------------------------------------------------------------------
(* A contract that is scored has a pattern of its own tested; papers are   *)
(* digested beside a draft that was refused at once.                       *)
allVars == <<authoringVars, tested, digested>>

MCInit == AuthoringInit /\ tested = <<>> /\ digested = <<>>

TestOperand ==
    Score /\ \E pattern \in Patterns(contract) : TestPattern(pattern, phase = "compiled")

MCNext ==
    \/ AuthoringNext /\ UNCHANGED <<tested, digested>>
    \/ TestOperand /\ UNCHANGED digested
    \/ draft = Stale /\ phase = "refused" /\ Digest /\ UNCHANGED <<authoringVars, tested>>

MCSpec == MCInit /\ [][MCNext]_allVars
=============================================================================
