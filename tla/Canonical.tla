------------------------------- MODULE Canonical -------------------------------
(***************************************************************************)
(* core/canonical: what a value is digested as (canonicalize.ts and        *)
(* digest.ts), the text that it is read from (scan-json.ts), and the check *)
(* of a value in memory (value-domain.ts).                                 *)
(*                                                                         *)
(* A value in memory is one of                                             *)
(*   [type |-> "literal", is]       null, true or false                    *)
(*   [type |-> "number", neg, size] a binary64: its sign and its size in   *)
(*                                  halves, Infinite for one that is not   *)
(*                                  finite                                 *)
(*   [type |-> "string", text]                                             *)
(*   [type |-> "other"]             undefined, a function and the like     *)
(*   [type |-> "array" | "object", id, faces]                              *)
(* A face is what a read of an object shows: [plain, symbols, length,      *)
(* props], whether its prototype is the plain one, whether it has symbol   *)
(* keys, an array's length, and its properties in order, [key, kind,       *)
(* value] with the kind "data", "accessor" or "hidden".  A Proxy shows     *)
(* another face at every read.  An object that stands below one with its   *)
(* own id closes a cycle.                                                  *)
(*                                                                         *)
(* A text is a sequence of tokens [lex, ...]: punctuation, "blank",        *)
(* [lex |-> "literal", is], [lex |-> "string", text, escaped],             *)
(* [lex |-> "number", neg, size, whole] with the size as it is spelled and *)
(* whether it is spelled as an integer, "broken" for what no rule of the   *)
(* scanner reads, and "undecodable" for bytes that are not UTF-8.          *)
(***************************************************************************)
EXTENDS Integers, SequencesExt

CONSTANTS
    MAX_NESTING_DEPTH,
    KeyOrder,       \* the strings, in the order of their code units
    SafeIntegerMax, \* in halves
    Binary64,       \* for each size that can be spelled, the nearest double
    Values,         \* values in memory
    Documents       \* texts

VARIABLE digested  \* what was digested last, or <<>>

Infinite == -1

Lone == "lone-surrogate"

Objects == {"array", "object"}

Punctuation(ch) == [lex |-> ch]

(* Where a traversal throws non-canonicalizable-value, instead of a text.  *)
Fault == [lex |-> "fault"]

IsText(text) == Fault \notin ToSet(text)

-----------------------------------------------------------------------------
(* value-domain.ts.                                                        *)
IsInteger(size) == size % 2 = 0

(* assertDomainNumber, assertDomainString.                                 *)
DomainNumber(size) == size # Infinite /\ (IsInteger(size) => size <= SafeIntegerMax)

DomainString(text) == text # Lone

Undefined == [type |-> "other"]

IndexKey(i) == ToString(i - 1)

(* The element that value.entries() gives: of a hole, nothing.             *)
ElementAt(face, i) ==
    LET there == SelectSeq(face.props, LAMBDA p : p.key = IndexKey(i))
    IN IF there = <<>> THEN Undefined ELSE there[1].value

PlainData(face) ==
    face.plain /\ ~face.symbols /\ \A i \in DOMAIN face.props : face.props[i].kind = "data"

RECURSIVE Admitted(_, _, _)

(* visit, of an object that shows one face.                                *)
AdmittedFace(face, type, ancestors, depth) ==
    /\ PlainData(face)
    /\ IF type = "array"
       THEN /\ Len(face.props) = face.length
            /\ \A i \in 1 .. face.length : Admitted(ElementAt(face, i), ancestors, depth)
       ELSE \A i \in DOMAIN face.props :
               DomainString(face.props[i].key) /\ Admitted(face.props[i].value, ancestors, depth)

Admitted(value, ancestors, depth) ==
    CASE value.type = "literal" -> TRUE
      [] value.type = "number" -> DomainNumber(value.size)
      [] value.type = "string" -> DomainString(value.text)
      [] value.type = "other" -> FALSE
      [] value.type \in Objects ->
            /\ depth < MAX_NESTING_DEPTH
            /\ value.id \notin ancestors
            /\ \A face \in value.faces :
                  AdmittedFace(face, value.type, ancestors \cup {value.id}, depth + 1)

(* assertHashedArtifactValue.                                              *)
HashedArtifactValue(value) == Admitted(value, {}, 0)

-----------------------------------------------------------------------------
(* canonicalize.ts.                                                        *)

(* JSON.stringify of a scalar: zero has no sign.                           *)
Stringified(value) ==
    CASE value.type = "literal" -> [lex |-> "literal", is |-> value.is]
      [] value.type = "number" ->
            [lex |-> "number", neg |-> value.neg /\ value.size # 0, size |-> value.size,
             whole |-> IsInteger(value.size)]
      [] value.type = "string" -> [lex |-> "string", text |-> value.text, escaped |-> FALSE]

SerializedScalar(value) ==
    IF \/ value.type = "other"
       \/ value.type = "number" /\ ~DomainNumber(value.size)
       \/ value.type = "string" /\ ~DomainString(value.text)
    THEN Fault ELSE Stringified(value)

Rank(key) == CHOOSE i \in DOMAIN KeyOrder : KeyOrder[i] = key

(* Mutant: properties stay in the order of the object.                     *)
InsertionOrder(props) == props

CodeUnitOrder(props) == SortSeq(props, LAMBDA p, q : Rank(p.key) < Rank(q.key))

(* The array's elements are the properties 0, 1, ... and nothing else.     *)
Dense(face, length) ==
    /\ \A i \in DOMAIN face.props : face.props[i].key = IndexKey(i)
    /\ Len(face.props) = length

(* Each read is of a face of its own: the prototype, the one snapshot of   *)
(* descriptors, and an array's length.                                     *)
Refused(type, first, snapshot, last) ==
    \/ ~first.plain
    \/ snapshot.symbols
    \/ \E i \in DOMAIN snapshot.props : snapshot.props[i].kind # "data"
    \/ type = "array" /\ ~Dense(snapshot, last.length)
    \/ type = "object" /\ \E i \in DOMAIN snapshot.props : ~DomainString(snapshot.props[i].key)

Joined(open, parts, close) ==
    LET tail == FlattenSeq([i \in 1 .. 2 * Len(parts) - 1 |->
                                IF i % 2 = 0 THEN <<Punctuation(",")>> ELSE parts[(i + 1) \div 2]])
    IN <<Punctuation(open)>> \o tail \o <<Punctuation(close)>>

RECURSIVE SerializeNode(_, _, _)

(* One text of each property's value, in every combination.                *)
EntryTexts(props, ancestors, depth) ==
    LET texts == [i \in DOMAIN props |-> SerializeNode(props[i].value, ancestors, depth)]
    IN {pick \in [DOMAIN props -> UNION {texts[i] : i \in DOMAIN props}] :
           \A i \in DOMAIN props : pick[i] \in texts[i]}

ArrayTexts(props, ancestors, depth) ==
    {Joined("[", pick, "]") : pick \in EntryTexts(props, ancestors, depth)}

ObjectTexts(props, ancestors, depth) ==
    LET entry(key, text) ==
            <<[lex |-> "string", text |-> key, escaped |-> FALSE], Punctuation(":")>> \o text
    IN {Joined("{", [i \in DOMAIN props |-> entry(props[i].key, pick[i])], "}") :
           pick \in EntryTexts(props, ancestors, depth)}

(* serializeNode: the texts that may come out, of a Proxy one per answer.  *)
SerializeNode(value, ancestors, depth) ==
    IF value.type \notin Objects THEN {<<SerializedScalar(value)>>}
    ELSE IF depth >= MAX_NESTING_DEPTH \/ value.id \in ancestors THEN {<<Fault>>}
    ELSE UNION {
        IF Refused(value.type, first, snapshot, last) THEN {<<Fault>>}
        ELSE IF value.type = "array"
        THEN ArrayTexts(snapshot.props, ancestors \cup {value.id}, depth + 1)
        ELSE ObjectTexts(CodeUnitOrder(snapshot.props), ancestors \cup {value.id}, depth + 1) :
            first, snapshot, last \in value.faces}

(* serialize, and digestArtifact: a digest stands for the text digested.   *)
Serialize(value) == SerializeNode(value, {}, 0)

-----------------------------------------------------------------------------
(* digest.ts.                                                              *)
COMPOSITE_PROTOCOL_TAG == [type |-> "string", text |-> "eval-quality/composite/v1"]

Field(key, value) == [key |-> key, kind |-> "data", value |-> value]

PlainObject(id, props) ==
    [type |-> "object", id |-> id,
     faces |-> {[plain |-> TRUE, symbols |-> FALSE, length |-> 0, props |-> props]}]

(* Object.keys and the spread see what is enumerable; the spread reads a   *)
(* getter, and takes symbol keys along.  It keeps the id: a cycle through  *)
(* the fields is refused, in the code one turn later.                      *)
Enumerable(face) == SelectSeq(face.props, LAMBDA p : p.kind # "hidden")

SpreadInto(id, face) ==
    [type |-> "object", id |-> id,
     faces |-> {[plain |-> TRUE, symbols |-> face.symbols, length |-> 0,
                 props |-> <<Field("protocol", COMPOSITE_PROTOCOL_TAG)>>
                              \o [i \in DOMAIN Enumerable(face) |->
                                     [Enumerable(face)[i] EXCEPT !.kind = "data"]]]}]

(* digestComposite, of fields that show one face: the TypeErrors are       *)
(* Faults too.                                                             *)
DigestComposite(id, face) ==
    IF Enumerable(face) = <<>> \/ \E i \in DOMAIN face.props : face.props[i].key = "protocol"
    THEN {<<Fault>>}
    ELSE Serialize(SpreadInto(id, face))

-----------------------------------------------------------------------------
(* scan-json.ts: recursive descent over the tokens, blanks skipped between *)
(* any two of them.                                                        *)
Malformed == [fault |-> "schema-parse-failure"]
OutOfDomain == [fault |-> "non-canonicalizable-value"]

Read(value, at) == [fault |-> "none", value |-> value, at |-> at]

LexAt(text, at) == IF at \in DOMAIN text THEN text[at].lex ELSE "end"

(* scanNumber: the digits of an integer are compared as they are spelled,  *)
(* every number by the double that it is nearest to.                       *)
ScanNumber(token, at) ==
    LET size == Binary64[token.size]
    IN IF (token.whole /\ token.size > SafeIntegerMax) \/ ~DomainNumber(size) THEN OutOfDomain
       ELSE Read([type |-> "number", neg |-> token.neg, size |-> size], at + 1)

ScanScalar(token, at) ==
    CASE token.lex = "literal" -> Read([type |-> "literal", is |-> token.is], at + 1)
      [] token.lex = "number" -> ScanNumber(token, at)
      [] token.lex = "string" ->
            IF DomainString(token.text) THEN Read([type |-> "string", text |-> token.text], at + 1)
            ELSE OutOfDomain

RECURSIVE ScanValue(_, _, _), ScanMembers(_, _, _, _), ScanItems(_, _, _, _)

(* scanObject from a key on.  What is read is new, and told apart from     *)
(* what it stands in by its depth.                                         *)
ScanMembers(text, at, depth, members) ==
    LET key == ScanScalar(text[at], at)
        item == ScanValue(text, at + 2, depth)
        read == Append(members, Field(text[at].text, item.value))
    IN  IF LexAt(text, at) # "string" THEN Malformed
        ELSE IF key.fault # "none" \/ \E m \in ToSet(members) : m.key = text[at].text THEN OutOfDomain
        ELSE IF LexAt(text, at + 1) # ":" THEN Malformed
        ELSE IF item.fault # "none" THEN item
        ELSE CASE LexAt(text, item.at) = "," -> ScanMembers(text, item.at + 1, depth, read)
               [] LexAt(text, item.at) = "}" -> Read(PlainObject(depth, read), item.at + 1)
               [] OTHER -> Malformed

Elements(items) == [i \in DOMAIN items |-> Field(IndexKey(i), items[i])]

PlainArray(id, items) ==
    [type |-> "array", id |-> id,
     faces |-> {[plain |-> TRUE, symbols |-> FALSE, length |-> Len(items), props |-> Elements(items)]}]

(* scanArray from an item on.                                              *)
ScanItems(text, at, depth, items) ==
    LET item == ScanValue(text, at, depth)
        read == Append(items, item.value)
    IN  IF item.fault # "none" THEN item
        ELSE CASE LexAt(text, item.at) = "," -> ScanItems(text, item.at + 1, depth, read)
               [] LexAt(text, item.at) = "]" -> Read(PlainArray(depth, read), item.at + 1)
               [] OTHER -> Malformed

ScanValue(text, at, depth) ==
    CASE LexAt(text, at) \in {"literal", "number", "string"} -> ScanScalar(text[at], at)
      [] LexAt(text, at) \in {"{", "["} /\ depth = MAX_NESTING_DEPTH -> OutOfDomain
      [] LexAt(text, at) = "{" /\ depth # MAX_NESTING_DEPTH ->
            IF LexAt(text, at + 1) = "}" THEN Read(PlainObject(depth + 1, <<>>), at + 2)
            ELSE ScanMembers(text, at + 1, depth + 1, <<>>)
      [] LexAt(text, at) = "[" /\ depth # MAX_NESTING_DEPTH ->
            IF LexAt(text, at + 1) = "]" THEN Read(PlainArray(depth + 1, <<>>), at + 2)
            ELSE ScanItems(text, at + 1, depth + 1, <<>>)
      [] OTHER -> Malformed

(* scanDocument, the bytes decoded first.                                  *)
ScanJson(bytes) ==
    LET text == SelectSeq(bytes, LAMBDA token : token.lex # "blank")
        document == ScanValue(text, 1, 0)
    IN IF \E token \in ToSet(bytes) : token.lex = "undecodable" THEN Malformed
       ELSE IF document.fault = "none" /\ document.at <= Len(text) THEN Malformed
       ELSE document

-----------------------------------------------------------------------------
(* digestArtifact, digestComposite and digestJson.  The text that is       *)
(* digested stands for the digest.                                         *)
Digested(given, what, text) == digested' = <<[given |-> given, what |-> what, text |-> text]>>

DigestOfArtifact == \E value \in Values : \E text \in Serialize(value) : Digested("value", value, text)

DigestOfComposite ==
    \E fields \in {value \in Values : value.type = "object"} : \E face \in fields.faces :
        \E text \in DigestComposite(fields.id, face) : Digested("fields", face, text)

DigestOfJson ==
    \E text \in Documents :
        LET document == ScanJson(text) IN
        IF document.fault # "none" THEN Digested("text", text, <<Fault>>)
        ELSE \E emitted \in Serialize(document.value) : Digested("text", text, emitted)

Digest == digested = <<>> /\ (DigestOfArtifact \/ DigestOfComposite \/ DigestOfJson)

-----------------------------------------------------------------------------
(* An object that shows one face at every read, down to the last.          *)
RECURSIVE Honest(_)
Honest(value) ==
    value.type \in Objects =>
        /\ Cardinality(value.faces) = 1
        /\ \A face \in value.faces : \A p \in ToSet(face.props) : Honest(p.value)

(* What a value says, apart from how it is held: the objects as functions  *)
(* on their keys, and the sign of a zero left out.                         *)
RECURSIVE Said(_)
Said(value) ==
    CASE value.type = "number" -> [value EXCEPT !.neg = @ /\ value.size # 0]
      [] value.type \in Objects ->
            LET props == (CHOOSE face \in value.faces : TRUE).props
            IN [type |-> value.type,
                entries |-> [key \in {p.key : p \in ToSet(props)} |->
                                Said((CHOOSE p \in ToSet(props) : p.key = key).value)]]
      [] OTHER -> value

(* What a text says by the grammar of JSON, as a set: nothing if it is no  *)
(* JSON, has a key twice, or holds a number or a string out of the domain. *)
SaidByScalar(token) ==
    CASE token.lex = "literal" -> {[type |-> "literal", is |-> token.is]}
      [] token.lex = "string" -> {[type |-> "string", text |-> token.text]} \ {[type |-> "string", text |-> Lone]}
      [] token.lex = "number" ->
            {[type |-> "number", neg |-> token.neg /\ size # 0, size |-> size] :
                size \in {s \in {Binary64[token.size]} : DomainNumber(s)}}
      [] OTHER -> {}

Brackets(text, open, close) ==
    Len(text) >= 2 /\ text[1].lex = open /\ text[Len(text)].lex = close

RECURSIVE SaidBy(_), SaidByItems(_), SaidByMembers(_)

Splits(text) == {i \in DOMAIN text : text[i].lex = ","}

SaidByItems(text) ==
    {<<v>> : v \in SaidBy(text)}
    \cup UNION {{Append(vs, v) : vs \in SaidByItems(SubSeq(text, 1, i - 1)),
                                 v \in SaidBy(SubSeq(text, i + 1, Len(text)))} : i \in Splits(text)}

SaidByMember(text) ==
    IF Len(text) >= 3 /\ text[1].lex = "string" /\ text[1].text # Lone /\ text[2].lex = ":"
    THEN {[key \in {text[1].text} |-> v] : v \in SaidBy(SubSeq(text, 3, Len(text)))}
    ELSE {}

SaidByMembers(text) ==
    SaidByMember(text)
    \cup UNION {{ms @@ m : <<ms, m>> \in
                    {<<ms, m>> \in SaidByMembers(SubSeq(text, 1, i - 1))
                                     \X SaidByMember(SubSeq(text, i + 1, Len(text))) :
                        DOMAIN ms \cap DOMAIN m = {}}} : i \in Splits(text)}

SaidBy(text) ==
    LET inner == SubSeq(text, 2, Len(text) - 1)
        empty(type) == IF inner = <<>> THEN {[type |-> type, entries |-> <<>>]} ELSE {}
    IN CASE Len(text) = 1 -> SaidByScalar(text[1])
         [] Brackets(text, "[", "]") ->
               empty("array") \cup
               {[type |-> "array", entries |-> [key \in {IndexKey(i) : i \in DOMAIN vs} |->
                    vs[CHOOSE i \in DOMAIN vs : IndexKey(i) = key]]] : vs \in SaidByItems(inner)}
         [] Brackets(text, "{", "}") ->
               empty("object") \cup {[type |-> "object", entries |-> ms] : ms \in SaidByMembers(inner)}
         [] OTHER -> {}

(* How deep a text nests.                                                  *)
NestsWithin(text, limit) ==
    \A i \in DOMAIN text :
        LET opened == Cardinality({j \in 1 .. i : text[j].lex \in {"[", "{"}})
            closed == Cardinality({j \in 1 .. i : text[j].lex \in {"]", "}"}})
        IN opened - closed <= limit
-----------------------------------------------------------------------------
(* A text that is digested, be it a Proxy's that shows something else at   *)
(* every read, is one that would be read back and digested as itself.      *)
ReadsBack(text) ==
    LET document == ScanJson(text)
    IN document.fault = "none" /\ Serialize(document.value) = {text}

(* A value is digested when the check of values passes it, and as what it  *)
(* says: in whatever order, and by whatever objects, it says it.           *)
DigestSays(value, text) ==
    /\ IsText(text) <=> HashedArtifactValue(value)
    /\ IsText(text) =>
         /\ Said(ScanJson(text).value) = Said(value)
         /\ \A other \in Values :
              /\ Honest(other) /\ HashedArtifactValue(other)
              /\ Said(other) = Said(value)
              => Serialize(other) = {text}

(* A text is digested when the grammar of JSON gives it one meaning within *)
(* the domain, and as that.                                                *)
DigestReads(given, text) ==
    LET tokens == SelectSeq(given, LAMBDA token : token.lex # "blank")
    IN /\ IsText(text) <=> SaidBy(tokens) # {} /\ NestsWithin(tokens, MAX_NESTING_DEPTH)
       /\ IsText(text) => SaidBy(tokens) = {Said(ScanJson(text).value)}

(* Two artifacts have one digest exactly when they say the same, whichever *)
(* of the three entries they come by: what is validated is what is         *)
(* emitted, and what is emitted is what is read (canonicalize.ts:11-17,    *)
(* scan-json.ts).                                                          *)
DigestExact ==
    \A d \in ToSet(digested) :
        /\ IsText(d.text) => ReadsBack(d.text)
        /\ d.given = "value" /\ Honest(d.what) => DigestSays(d.what, d.text)
        /\ d.given = "text" => DigestReads(d.what, d.text)
        /\ d.given = "fields" /\ IsText(d.text) =>
             LET entries == Said(ScanJson(d.text).value).entries
             IN  /\ entries["protocol"] = COMPOSITE_PROTOCOL_TAG
                 /\ DOMAIN entries = {"protocol"} \cup {p.key : p \in ToSet(Enumerable(d.what))}
=============================================================================
