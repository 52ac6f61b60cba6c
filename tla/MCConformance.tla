--------------------------- MODULE MCConformance ---------------------------
(***************************************************************************)
(* Conformance for TLC: two mappings of one interface, whose servers       *)
(* redirect within it, outside it and back; the mappings an operator loads *)
(* with one flaw each; and the repository's own subjects, with each defect *)
(* and each inconsistent fixture that the kit is to find.                  *)
(***************************************************************************)
EXTENDS Conformance

(* Addresses, and the machine that each means.                             *)
V6(head, tail) == [halves |-> <<head, tail>>, zone |-> "none"]
Hex(n) == [hex |-> n]

Loopback == Quad(127, 0, 0, 1)
MappedLoopback == V6(<<>>, <<Hex(65535), [quad |-> <<127, 0, 0, 1>>]>>)
CompatLoopback == V6(<<>>, <<[quad |-> <<127, 0, 0, 1>>]>>)
Docs == <<8193, 3512, 0, 0, 0, 0, 0, 1>>
DocsShort == V6(<<Hex(8193), Hex(3512)>>, <<Hex(1)>>)
DocsFull == [halves |-> <<[i \in 1 .. 8 |-> Hex(Docs[i])]>>, zone |-> "none"]
DocsZoned == [DocsShort EXCEPT !.zone = "one"]
LinkLocal == V6(<<Hex(65152)>>, <<Hex(1)>>)
LinkZoned == [LinkLocal EXCEPT !.zone = "one"]
NotAnAddress == Quad(256, 0, 0, 1)

ASSUME MeaningsAssumption ==
    /\ {Means(a) : a \in {Loopback, MappedLoopback}} = {<<0, 0, 0, 0, 0, 65535, 32512, 1>>}
    /\ Means(CompatLoopback) = <<0, 0, 0, 0, 0, 0, 32512, 1>>
    /\ {Means(a) : a \in {DocsShort, DocsFull}} = {Docs}
    /\ {Means(a) : a \in {LinkLocal, LinkZoned}} = {<<65152, 0, 0, 0, 0, 0, 0, 1>>}
    /\ {Means(a) : a \in {DocsZoned, NotAnAddress}} = {<<>>}

Svc(bound) ==
    [AuthorizationOf("svc", "svc", Loopback, {"GET"}) EXCEPT !.maxRedirects = bound]
Cdn(bound) ==
    [AuthorizationOf("svc", "cdn", DocsFull, {"GET"}) EXCEPT
       !.scheme = "https", !.port = 443, !.maxRedirects = bound]

MCPolicies == {<<Svc(1), Cdn(2)>>, <<Cdn(1), Svc(0)>>}
MCRequests ==
    {[interfaceId |-> "svc", method |-> "GET", bytes |-> 1],
     [interfaceId |-> "svc", method |-> "DELETE", bytes |-> 1],
     [interfaceId |-> "svc", method |-> "GET", bytes |-> 9],
     [interfaceId |-> "other", method |-> "GET", bytes |-> 1]}
MCTargets ==
    [id \in {"svc"} |->
       [scheme |-> "http", host |-> [HostNamed("svc") EXCEPT !.mixed = TRUE], port |-> 80]]
MCResolver ==
    [name \in {"svc", "cdn", "evil"} |->
       CASE name = "svc" -> {Loopback, MappedLoopback, CompatLoopback}
         [] name = "cdn" -> {DocsShort, DocsZoned}
         [] OTHER -> {Loopback}]
To(scheme, host, number) ==
    [relative |-> FALSE, scheme |-> scheme, host |-> host, port |-> number]
MCLocations ==
    {[relative |-> TRUE], To("https", HostNamed("cdn"), 0), To("http", HostNamed("cdn"), 0),
     To("http", [name |-> "svc", mixed |-> TRUE, dots |-> 1], 80),
     To("http", [name |-> "svc", mixed |-> FALSE, dots |-> 2], 0),
     To("http", HostNamed("evil"), 0), To("http", HostNamed("gone"), 0)}

-----------------------------------------------------------------------------
(* Mappings as an operator writes them.                                    *)

Unstrayed == [policy |-> {}, authorization |-> {}, record |-> {}]
Written(mechanism, authorizations, queries) ==
    [mechanism |-> mechanism, queries |-> queries,
     mapping |-> [readable |-> TRUE, stray |-> Unstrayed, authorizations |-> authorizations]]

Query(address, method) ==
    [kind |-> "api", interfaceId |-> "svc", scheme |-> "http", host |-> HostNamed("svc"),
     port |-> 80, address |-> address, method |-> method]
ApiQueries ==
    {Query(a, m) : a \in {Loopback, MappedLoopback, CompatLoopback, LinkLocal, LinkZoned,
                          DocsShort, DocsZoned, NotAnAddress}, m \in {"GET", "PUT"}}
ApiMappings ==
    {Written("api", <<[Svc(0) EXCEPT !.addresses = entries]>>, ApiQueries) :
       entries \in {{Loopback}, {MappedLoopback, LinkZoned}, {LinkLocal, DocsFull},
                    {CompatLoopback}, {NotAnAddress}, {DocsZoned}, {}}}
    \cup {Written("api", <<[Svc(0) EXCEPT !.port = 0], Cdn(1)>>, ApiQueries),
          Written("api", <<[Svc(0) EXCEPT !.methods = {"PUT"}], Svc(0)>>, ApiQueries)}

Path == [name |-> "PATH", mixed |-> TRUE]
CommandQueries ==
    {[CommandRequest("echo") EXCEPT !.environment = keys, !.subcommandPath = path] :
       keys \in SUBSET {Path, Key("PROBE_MODE")}, path \in {<<>>, <<"danger">>}}
CommandMappings ==
    {Written("cli", <<[CommandPolicy[1] EXCEPT !.permittedEnvironmentKeys = keys,
                                               !.maxElapsedMs = elapsed]>>, CommandQueries) :
       keys \in {{Path}, {Key("PROBE_MODE")}}, elapsed \in {0, TimerMax}}
    \cup {Written("cli", <<CommandPolicy[1],
             [CommandPolicy[1] EXCEPT !.permittedSubcommandPaths = {<<"danger">>}]>>,
             CommandQueries),
          Written("cli", <<[CommandPolicy[1] EXCEPT !.permittedEnvironmentKeys = {}],
                           CommandPolicy[1]>>, CommandQueries)}

McpQueries ==
    {[McpRequest(tool, "echo") EXCEPT !.interfaceId = id] :
       tool \in {"search_notes", "hanging_tool"}, id \in {"notes-tool-server", "unmapped"}}
McpMappings ==
    {Written("mcp", McpPolicy, McpQueries),
     Written("mcp", <<McpPolicy[1], [McpPolicy[2] EXCEPT !.interfaceId = "notes-tool-server"]>>,
             McpQueries),
     [Written("mcp", McpPolicy, McpQueries) EXCEPT !.mapping.stray.record = {"__proto__"}],
     [Written("mcp", McpPolicy, McpQueries) EXCEPT !.mapping.readable = FALSE]}

MCMappings == ApiMappings \cup CommandMappings \cup McpMappings

-----------------------------------------------------------------------------
(* Subjects.                                                               *)

Plain(p) == [port |-> p, defect |-> "none", policy |-> <<>>, requests |-> <<>>]

Defective(s, defects) == {[s EXCEPT !.defect = d] : d \in defects}

Asking(s, id, requests) == {[s EXCEPT !.requests[id] = r] : r \in requests}

Inconsistent ==
    {[ApiSubject EXCEPT !.policy[1].maxRedirects = 2]}
    \cup Asking(ApiSubject, "cap-redirects", {ApiRequest("unmapped", Loopback, "chain")})
    \cup Asking(CommandSubject, "deny-unmapped-interface",
                {[CommandRequest("echo") EXCEPT !.subcommandPath = <<"danger">>]})
    \cup Asking(CommandSubject, "deny-unmapped-executable",
                {[CommandRequest("echo") EXCEPT !.subcommandPath = <<"danger">>],
                 McpRequest("search_notes", "echo")})
    \cup Asking(CommandSubject, "deny-unauthorized-subcommand",
                {[CommandRequest("echo") EXCEPT !.executable = "npm"],
                 [CommandRequest("echo") EXCEPT !.environment = {Key("OTHER")}],
                 McpRequest("search_notes", "echo")})
    \cup Asking(CommandSubject, "deny-unauthorized-environment-key",
                {CommandRequest("echo"),
                 [CommandRequest("echo") EXCEPT !.environment = {Key("PROBE_MODE")}],
                 [CommandRequest("echo") EXCEPT !.interfaceId = "unmapped"]})
    \cup Asking(McpSubject, "deny-unmapped-interface", {McpRequest("env_tool", "echo")})
    \cup Asking(McpSubject, "deny-unauthorized-tool",
                {McpRequest("search_notes", "echo"), CommandRequest("echo"),
                 [McpRequest("env_tool", "echo") EXCEPT !.interfaceId = "unmapped-server"]})
    \cup Asking(McpSubject, "observe-error-result", {McpRequest("search_notes", "result")})

MCSubjects ==
    {Plain("clock"), Plain("corpus"), Plain("filesystem"), ApiSubject, CommandSubject,
     McpSubject}
    \cup Defective(ApiSubject,
           {"denies-all", "interface-not-authorized", "loopback", "private", "link-local",
            "metadata", "method-not-authorized", "scheme-not-authorized", "follows",
            "unbounded", "cap-as-denial", "throws-on-anomaly", "drops-content"})
    \cup Defective(CommandSubject,
           {"interface-not-authorized", "executable-not-authorized",
            "subcommand-not-authorized", "environment-key-not-authorized", "drops-content"})
    \cup Defective(McpSubject,
           {"denies-all", "tool-not-authorized", "unbounded", "throws-on-anomaly"})
    \cup Inconsistent
=============================================================================
