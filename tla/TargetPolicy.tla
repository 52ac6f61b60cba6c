---------------------------- MODULE TargetPolicy ----------------------------
(***************************************************************************)
(* The operator's mapping from the interfaces that a contract names to     *)
(* targets, and the default-deny decision over it, one per mechanism:      *)
(* core/probe/target-policy.ts over core/schemas/probe-address.ts for      *)
(* HTTP, adapters/command-target-policy.ts, adapters/mcp-target-policy.ts, *)
(* and the parse of core/schemas/probe-policy.ts that stands before them.  *)
(*                                                                         *)
(* An address is kept as it is spelled: a pair of brackets, a zone, and    *)
(* either the pieces of a dotted quad or the halves around `::`, each a    *)
(* sequence of pieces.  A number stands for a well-formed piece whatever   *)
(* its digits, Malformed for one that the piece's pattern refuses.  A host *)
(* is a name with its case and its trailing dots.  Arrays that are only    *)
(* searched for a member are sets.                                         *)
(***************************************************************************)
EXTENDS Integers, SequencesExt

Malformed == -1

Byte == {n \in Nat : n < 256}
Word == {n \in Nat : n < 65536}

Unparseable == [ok |-> FALSE, addressClass |-> "unparseable"]

-----------------------------------------------------------------------------
(* The address grammar.                                                    *)

Piece == [hex : Int] \cup [quad : Seq(Int)]

Address ==
    LET zones == {"none", "one", "malformed"} IN
    [octets : Seq(Int), zone : zones] \cup [halves : Seq(Seq(Piece)), zone : zones]

Host == [name : STRING, mixed : BOOLEAN, dots : Nat]

(* Numbers as they are read, before the schema has seen them.              *)
Authorization ==
    [interfaceId : STRING, scheme : STRING, host : Host, port : Int,
     addresses : SUBSET Address, methods : SUBSET STRING, safeMethods : SUBSET STRING,
     maxRedirects : Int, maxElapsedMs : Int, maxRequestBytes : Int, maxResponseBytes : Int]

Origin == [scheme : STRING, host : Host, port : Int]

ResolvedTarget ==
    [interfaceId : STRING, scheme : STRING, host : Host, port : Int, address : Address,
     method : STRING]

(* parseIpv4Octets.                                                        *)
IsQuad(pieces) == Len(pieces) = 4 /\ \A i \in 1 .. 4 : pieces[i] \in Byte

Dotted(piece) == "quad" \in DOMAIN piece

(* toGroups: a dotted quad is legal in the last piece only.                *)
Legible(pieces, dottedAllowed) ==
    \A i \in DOMAIN pieces :
        IF Dotted(pieces[i])
        THEN dottedAllowed /\ i = Len(pieces) /\ IsQuad(pieces[i].quad)
        ELSE pieces[i].hex \in Word

Joined(high, low) == 256 * high + low

GroupsOf(piece) ==
    IF ~Dotted(piece) THEN <<piece.hex>>
    ELSE <<Joined(piece.quad[1], piece.quad[2]), Joined(piece.quad[3], piece.quad[4])>>

(* Only the last piece may have two.                                       *)
Groups(pieces) ==
    IF pieces = <<>> THEN <<>>
    ELSE [i \in 1 .. Len(pieces) - 1 |-> pieces[i].hex] \o GroupsOf(pieces[Len(pieces)])

(* `::` stands for at least one zero group.                                *)
Expanded(head, tail) ==
    IF Len(head) + Len(tail) > 7 THEN <<>>
    ELSE head \o [i \in 1 .. 8 - Len(head) - Len(tail) |-> 0] \o tail

(* parseIpv6Groups, <<>> for undefined.                                    *)
ParseIpv6Groups(halves) ==
    CASE Len(halves) = 1 /\ Legible(halves[1], TRUE) ->
            IF Len(Groups(halves[1])) = 8 THEN Groups(halves[1]) ELSE <<>>
      [] Len(halves) = 2 /\ Legible(halves[1], FALSE) /\ Legible(halves[2], TRUE) ->
            Expanded(Groups(halves[1]), Groups(halves[2]))
      [] OTHER -> <<>>

LowOctets(groups) ==
    <<groups[7] \div 256, groups[7] % 256, groups[8] \div 256, groups[8] % 256>>

Zero(groups, last) == \A i \in 1 .. last : groups[i] = 0

(* mappedIpv4Octets: `::ffff:` alone is rewritten to the IPv4 address.     *)
Mapped(groups) == Zero(groups, 5) /\ groups[6] = 65535

OnHost6(groups) == Zero(groups, 7) /\ groups[8] \in {0, 1}

(* translatedIpv4Octets: these are classified as their IPv4 address.       *)
Translated6(groups) ==
    \/ groups[1] = 100 /\ groups[2] = 65435 /\ \A i \in 3 .. 6 : groups[i] = 0
    \/ Zero(groups, 6) /\ ~OnHost6(groups)

(* classifyIpv4: metadata lies inside the link-local range.                *)
ClassifyIpv4(o) ==
    CASE o = <<169, 254, 169, 254>> -> "metadata"
      [] o[1] = 127 \/ o = <<0, 0, 0, 0>> -> "loopback"
      [] o[1] = 169 /\ o[2] = 254 /\ o # <<169, 254, 169, 254>> -> "link-local"
      [] \/ o[1] = 10
         \/ o[1] = 172 /\ o[2] \in 16 .. 31
         \/ o[1] = 192 /\ o[2] = 168
         \/ o[1] = 100 /\ o[2] \in 64 .. 127 -> "private"
      [] OTHER -> "public"

Ipv6Metadata == <<64768, 3778, 0, 0, 0, 0, 0, 596>>

ClassifyIpv6(groups) ==
    IF groups = Ipv6Metadata THEN "metadata"
    ELSE IF Translated6(groups) THEN ClassifyIpv4(LowOctets(groups))
    ELSE CASE OnHost6(groups) -> "loopback"
           [] groups[1] \div 64 = 1018 -> "link-local"
           [] groups[1] \div 512 = 126 -> "private"
           [] OTHER -> "public"

Ipv4Address(octets) ==
    IF ~IsQuad(octets) THEN Unparseable
    ELSE [ok |-> TRUE, canonical |-> octets, addressClass |-> ClassifyIpv4(octets)]

(* A zone is read on a link-local address only.                            *)
Ipv6Address(groups, zoned, class) ==
    IF zoned /\ class # "link-local" THEN Unparseable
    ELSE [ok |-> TRUE, canonical |-> groups, addressClass |-> class]

ReadIpv6(groups, zoned) ==
    IF groups = <<>> \/ (zoned /\ Mapped(groups)) THEN Unparseable
    ELSE IF Mapped(groups) THEN Ipv4Address(LowOctets(groups))
    ELSE Ipv6Address(groups, zoned, ClassifyIpv6(groups))

(* Brackets come off, then the zone, then an `::ffff:` prefix.             *)
ParseAddress(address) ==
    IF address.zone = "malformed" THEN Unparseable
    ELSE IF "octets" \in DOMAIN address
    THEN IF address.zone = "none" THEN Ipv4Address(address.octets) ELSE Unparseable
    ELSE ReadIpv6(ParseIpv6Groups(address.halves), address.zone = "one")

(* A translated form leaves the host whatever address it carries.          *)
StaysOnHost(address) ==
    LET parsed == ParseAddress(address) IN
    /\ parsed.ok /\ parsed.addressClass = "loopback"
    /\ Len(parsed.canonical) = 4 \/ OnHost6(parsed.canonical)

-----------------------------------------------------------------------------
(* The HTTP decision.                                                      *)

(* One trailing dot comes off.                                             *)
NormalizeHost(host) ==
    [name |-> host.name, dots |-> IF host.dots = 0 THEN 0 ELSE host.dots - 1]

NamesAddress(authorization, parsed) ==
    \E entry \in {ParseAddress(a) : a \in authorization.addresses} :
        entry.ok /\ entry.canonical = parsed.canonical

(* evaluateAgainst: the reason is the first check that fails.              *)
Objection(authorization, target, parsed) ==
    IF authorization.scheme # target.scheme THEN "scheme-not-authorized"
    ELSE IF NormalizeHost(authorization.host) # NormalizeHost(target.host)
    THEN "host-not-authorized"
    ELSE IF authorization.port # target.port THEN "port-not-authorized"
    ELSE IF ~parsed.ok THEN "address-unparseable"
    ELSE IF ~NamesAddress(authorization, parsed) THEN "address-not-authorized"
    ELSE IF target.method \notin authorization.methods THEN "method-not-authorized"
    ELSE "none"

Denied(reason) == [allowed |-> FALSE, reason |-> reason]

Allowed(authorization) == [allowed |-> TRUE, authorization |-> authorization]

(* Mutant: the first authorization of the interface decides.               *)
OnlyFirst(mapping, candidates, target, parsed) ==
    LET first == mapping[Min(candidates)] IN
    IF candidates = {} THEN Denied("interface-not-authorized")
    ELSE IF Objection(first, target, parsed) = "none" THEN Allowed(first)
    ELSE Denied(Objection(first, target, parsed))

(* Each authorization of the interface in turn, by its place: the first    *)
(* that allows wins and else the first one's denial is reported.           *)
FirstAllowing(mapping, candidates, target, parsed) ==
    LET allowing == {i \in candidates : Objection(mapping[i], target, parsed) = "none"} IN
    IF allowing # {} THEN Allowed(mapping[Min(allowing)])
    ELSE IF candidates = {} THEN Denied("interface-not-authorized")
    ELSE Denied(Objection(mapping[Min(candidates)], target, parsed))

(* The authorizations of an interface.                                     *)
OfInterface(mapping, interfaceId) == {i \in DOMAIN mapping : mapping[i].interfaceId = interfaceId}

EvaluateTarget(mapping, target) ==
    FirstAllowing(mapping, OfInterface(mapping, target.interfaceId), target,
                  ParseAddress(target.address))

IsSafeMethod(authorization, method) ==
    method \in authorization.methods \cap authorization.safeMethods

-----------------------------------------------------------------------------
(* The command and the tool decision.                                      *)

(* evaluateCommandTarget, over the interface and the executable together.  *)
EvaluateCommandTarget(mapping, request) ==
    LET pair == {i \in OfInterface(mapping, request.interfaceId) :
                   mapping[i].executable = request.executable}
        allowing == {i \in pair : request.subcommandPath
                                    \in mapping[i].permittedSubcommandPaths}
    IN  IF allowing # {} THEN Allowed(mapping[Min(allowing)])
        ELSE IF pair # {} THEN Denied("subcommand-not-authorized")
        ELSE IF OfInterface(mapping, request.interfaceId) # {} THEN Denied("executable-not-authorized")
        ELSE Denied("interface-not-authorized")

(* buildEnv: PATH under any spelling is refused again, whatever the        *)
(* mapping says.  A key is a name and its case.                            *)
EnvironmentPermitted(keys, authorization) ==
    \A key \in keys : key.name # "PATH" /\ key \in authorization.permittedEnvironmentKeys

(* What createCommandLineAdapter does before it runs anything.             *)
DecideCommand(mapping, request) ==
    LET decision == EvaluateCommandTarget(mapping, request) IN
    IF decision.allowed /\ ~EnvironmentPermitted(request.environment, decision.authorization)
    THEN Denied("environment-key-not-authorized")
    ELSE decision

(* evaluateMcpTarget: an interface is one server.                          *)
EvaluateMcpTarget(mapping, request) ==
    LET server == OfInterface(mapping, request.interfaceId) IN
    IF server = {} THEN Denied("interface-not-authorized")
    ELSE IF request.toolName \in mapping[Min(server)].tools
    THEN Allowed(mapping[Min(server)])
    ELSE Denied("tool-not-authorized")

-----------------------------------------------------------------------------
(* The parse of a mapping read from disk.                                  *)

TimerMax == 2147483647

(* ProbeTargetAuthorization.                                               *)
ConformsProbe(a) ==
    /\ a.scheme \in {"http", "https"}
    /\ a.host.name # ""
    /\ a.port \in 1 .. 65535
    /\ a.addresses # {} /\ \A entry \in a.addresses : ParseAddress(entry).ok
    /\ a.methods # {}
    /\ a.maxRedirects >= 0 /\ a.maxElapsedMs >= 1
    /\ a.maxRequestBytes >= 1 /\ a.maxResponseBytes >= 1

(* CommandTargetAuthorization.                                             *)
ConformsCommand(a) ==
    /\ a.permittedSubcommandPaths # {}
    /\ \A key \in a.permittedEnvironmentKeys : key.name # "PATH"
    /\ a.maxElapsedMs \in 1 .. TimerMax /\ a.maxOutputBytes >= 1

(* McpTargetAuthorization.                                                 *)
ConformsMcp(a) ==
    a.tools # {} /\ a.maxElapsedMs \in 1 .. TimerMax /\ a.maxOutputBytes >= 1

(* ProbeTargetPolicy, CommandTargetPolicy, McpTargetPolicy.                *)
Conforms(mechanism, authorizations) ==
    CASE mechanism = "api" -> \A i \in DOMAIN authorizations : ConformsProbe(authorizations[i])
      [] mechanism = "cli" -> \A i \in DOMAIN authorizations : ConformsCommand(authorizations[i])
      [] mechanism = "mcp" ->
            /\ \A i \in DOMAIN authorizations : ConformsMcp(authorizations[i])
            /\ \A i, j \in DOMAIN authorizations :
                  authorizations[i].interfaceId = authorizations[j].interfaceId => i = j

(* safeParseTargetPolicy.  A strict object refuses every key it does not   *)
(* declare; a record takes any identifier, and skips a key `__proto__`,    *)
(* which ownPrototypeKeyIssue looks for at each level.                     *)
StrayKeys(mechanism, stray) ==
    \/ stray.policy # {} \/ stray.authorization # {}
    \/ mechanism # "api" /\ "__proto__" \in stray.record

(* parseTargetPolicy: a mapping or the one fault, an accessor of the       *)
(* input's own that throws included.                                       *)
ParseTargetPolicy(mechanism, mapping) ==
    IF ~mapping.readable \/ StrayKeys(mechanism, mapping.stray)
         \/ ~Conforms(mechanism, mapping.authorizations)
    THEN "schema-parse-failure"
    ELSE "parsed"
=============================================================================
