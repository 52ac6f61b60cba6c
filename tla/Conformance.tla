---------------------------- MODULE Conformance ----------------------------
(***************************************************************************)
(* The conformance kit that an adapter's author runs: testing/             *)
(* conformance.ts and testing/probe-conformance.ts.                        *)
(*                                                                         *)
(* A run builds a fresh subject for each scenario and each assertion, makes *)
(* one call of the port, counts what the subject did underneath, disposes  *)
(* of it and notes whether the assertion passed.  The four shared          *)
(* scenarios are calls through PortCall, of a shipped boundary or of a     *)
(* port an author supplied; an arm's assertions are requests against the   *)
(* subject's own mapping (TargetPolicy) and the fixture behind it.         *)
(*                                                                         *)
(* The subject breaks one rule at most: it has a standing defect, or its   *)
(* fixture does not ask what it says it asks, or one call of it deviates.  *)
(***************************************************************************)
EXTENDS ApiProbe

CONSTANTS
  Subjects,   \* [port, defect, policy, requests]: what a run may be given
  Mappings    \* [mechanism, mapping, queries]: what an operator may load and ask

ASSUME MappingsAssumption ==
    \A m \in Mappings :
        LET authorizations == m.mapping.authorizations IN
        /\ m.mechanism \in {"api", "cli", "mcp"}
        /\ authorizations \in Seq(ToSet(authorizations))
        /\ \A query \in m.queries : query.kind = m.mechanism
        /\ m.mechanism = "api" =>
              /\ authorizations \in Seq(Authorization)
              /\ \A query \in m.queries : query.host \in Host /\ query.address \in Address

VARIABLES
  caller,     \* "application", "probe" or "kit" calls the port; "operator" only asks
  ruling,     \* the operator's mapping, how it parsed, and the last decision over it
  subject,
  at,         \* the step of the run
  built,      \* the subject of this step is built, and its call may be made
  outcomes,   \* the outcomes noted, [id, passed]
  deviated    \* the subject has broken a rule

kitVars == <<subject, at, built, outcomes, deviated>>

Denial == "forbidden-target"
Cap    == "budget-exhausted"

-----------------------------------------------------------------------------
(* What a run consists of.                                                 *)

(* CONFORMANCE_OUTCOME_COUNTS.                                             *)
OutcomeCounts ==
    [corpus |-> 6, clock |-> 6, filesystem |-> 12,
     environment |-> 19, command |-> 16, mcp |-> 14]

Methods(p) ==
    CASE p = "corpus" -> <<"resolve">>
      [] p = "clock" -> <<"read">>
      [] p = "filesystem" -> <<"readFile", "writeFile">>
      [] OTHER -> <<"probe">>

SharedIds ==
    <<"typed-fault", "single-underlying-call-on-success", "single-underlying-call-on-failure",
      "prompt-abort", "no-in-band-error", "schema-valid-return">>

Resolves(id, checked) ==
    [id |-> id, expects |-> "value", checked |-> checked, pinned |-> FALSE]
Rejects(id, code, pinned) ==
    [id |-> id, expects |-> code, checked |-> FALSE, pinned |-> pinned]

(* PROBE_ASSERTIONS.                                                       *)
ProbeAssertions ==
    <<Resolves("allow-authorized-loopback", FALSE),
      Resolves("observe-anomalous-status", TRUE),
      Rejects("deny-unmapped-interface", Denial, TRUE),
      Rejects("deny-unauthorized-loopback", Denial, TRUE),
      Rejects("deny-private", Denial, TRUE),
      Rejects("deny-link-local", Denial, TRUE),
      Rejects("deny-metadata", Denial, TRUE),
      Rejects("deny-unauthorized-method", Denial, TRUE),
      Rejects("deny-unauthorized-scheme", Denial, TRUE),
      Rejects("deny-on-redirect", Denial, TRUE),
      Rejects("cap-redirects", Cap, TRUE),
      Rejects("cap-response-bytes", Cap, FALSE),
      Rejects("cap-elapsed", Cap, FALSE)>>

(* COMMAND_ASSERTIONS.                                                     *)
CommandAssertions ==
    <<Resolves("allow-authorized-invocation", FALSE),
      Resolves("observe-nonzero-exit", TRUE),
      Rejects("deny-unmapped-interface", Denial, TRUE),
      Rejects("deny-unmapped-executable", Denial, TRUE),
      Rejects("deny-unauthorized-subcommand", Denial, TRUE),
      Rejects("deny-unauthorized-environment-key", Denial, TRUE),
      Resolves("argument-passed-literally", TRUE),
      Resolves("capture-declared-artifact", TRUE),
      Rejects("cap-elapsed", Cap, FALSE),
      Rejects("cap-output-bytes", Cap, FALSE)>>

(* MCP_ASSERTIONS.                                                         *)
McpAssertions ==
    <<Resolves("allow-authorized-tool-call", FALSE),
      Resolves("observe-error-result", TRUE),
      Rejects("deny-unmapped-interface", Denial, TRUE),
      Rejects("deny-unauthorized-tool", Denial, TRUE),
      Resolves("arguments-passed-as-declared", TRUE),
      Resolves("observe-declared-result-channel", TRUE),
      Rejects("cap-elapsed", Cap, FALSE),
      Rejects("cap-result-bytes", Cap, FALSE)>>

ArmOf(p) ==
    CASE p = "environment" -> ProbeAssertions
      [] p = "command" -> CommandAssertions
      [] p = "mcp" -> McpAssertions
      [] OTHER -> <<>>

(* The scenarios in the order they are built.                              *)
Scenarios(method) ==
    [i \in 1 .. 4 |-> [method |-> method,
                       scenario |-> <<"resolves", "fails", "hangs", "in-band-error">>[i]]]

Steps(p) == FlattenSeq([i \in DOMAIN Methods(p) |-> Scenarios(Methods(p)[i])]) \o ArmOf(p)

AllSteps == [p \in DOMAIN OutcomeCounts |-> Steps(p)]

Step == AllSteps[subject.port][at]
Over == at > Len(AllSteps[subject.port])
Shared == ~Over /\ "scenario" \in DOMAIN Step

(* A scenario's own assertions, in the order they are noted.               *)
Ids(scenario) ==
    CASE scenario = "resolves" -> <<"single-underlying-call-on-success", "schema-valid-return">>
      [] scenario = "fails" -> <<"typed-fault", "single-underlying-call-on-failure">>
      [] scenario = "hangs" -> <<"prompt-abort">>
      [] OTHER -> <<"no-in-band-error">>

Note(ids, passed) ==
    outcomes' = outcomes \o [i \in DOMAIN ids |-> [id |-> ids[i], passed |-> passed[i]]]

(* reportOf: the count is part of the verdict.                             *)
Passed ==
    /\ Len(outcomes) = OutcomeCounts[subject.port]
    /\ \A i \in DOMAIN outcomes : outcomes[i].passed

-----------------------------------------------------------------------------
(* The four shared scenarios.                                              *)

(* What the subject does besides the call itself, in one of its calls.     *)
Oddities == {"none", "retried", "uncounted", "undisposed", "pathless", "invalid"}

(* A call came to a value or to a fault's code, "escaped" for one that is  *)
(* not declared.  A dispose that throws fails what had passed.             *)
Counted(odd) == odd \notin {"retried", "uncounted", "undisposed"}

(* resolvesOutcomes.                                                       *)
ResolvesPassed(came, odd) ==
    <<came = "value" /\ Counted(odd), came = "value" /\ odd \notin {"undisposed", "invalid"}>>

(* failsOutcomes.                                                          *)
FailsPassed(came, odd) ==
    <<came \notin {"value", "escaped"} /\ odd \notin {"undisposed", "pathless"}, Counted(odd)>>

(* abortOutcome.                                                           *)
AbortPassed(came, odd) == <<came = "aborted" /\ odd # "undisposed">>

(* inBandOutcome.                                                          *)
InBandPassed(came, odd) == <<came \notin {"value", "escaped"} /\ odd # "undisposed">>

SharedPassed(scenario, came, odd) ==
    CASE scenario = "resolves" -> ResolvesPassed(came, odd)
      [] scenario = "fails" -> FailsPassed(came, odd)
      [] scenario = "hangs" -> AbortPassed(came, odd)
      [] OTHER -> InBandPassed(came, odd)

(* The rule of the port contract that a scenario puts to the test.         *)
KeepsContract(scenario, came) ==
    CASE scenario = "resolves" -> came = "value"
      [] scenario = "hangs" -> came = "aborted"
      [] OTHER -> came \notin {"value", "escaped"}

(* An oddity breaks a rule only where a scenario is about it.              *)
Tells(scenario, odd) ==
    CASE odd = "none" -> FALSE
      [] odd = "undisposed" -> TRUE
      [] odd \in {"retried", "uncounted"} -> scenario \in {"resolves", "fails"}
      [] odd = "pathless" -> scenario = "fails"
      [] odd = "invalid" -> scenario = "resolves"

(* buildScenario: a fresh subject, or a step whose assertions all fail.    *)
Build ==
    /\ ~Over /\ ~built
    /\ built' = TRUE
    /\ aborted' = FALSE /\ stage' = "entry" /\ call' = "none" /\ race' = "none"
    /\ listening' = FALSE /\ outcome' = "none" /\ answer' = "none"
    /\ UNCHANGED <<port, postchecked, subject, at, outcomes, deviated>>

Unbuilt ==
    /\ ~Over /\ ~built /\ ~deviated
    /\ LET ids == IF Shared THEN Ids(Step.scenario) ELSE <<Step.id>> IN
       Note(ids, [i \in DOMAIN ids |-> FALSE])
    /\ at' = at + 1 /\ deviated' = TRUE
    /\ UNCHANGED <<portVars, subject, built>>

Call ==
    /\ Shared /\ built /\ stage = "entry" /\ answer = "none" /\ UNCHANGED aborted
    /\ \/ port = "adapter" /\ Enter("pending")
       \/ /\ port = "supplied" /\ stage' = "mechanism" /\ call' = "pending"
          /\ UNCHANGED <<race, listening, outcome>>
    /\ UNCHANGED <<port, postchecked, answer, kitVars>>

(* The signal is aborted once the call is in flight.                       *)
KitAborts ==
    /\ Shared /\ built /\ Step.scenario = "hangs" /\ stage # "entry"
    /\ Abort /\ UNCHANGED kitVars

Proceeds(came, ids, passed, breaks) ==
    /\ deviated => ~breaks
    /\ deviated' = (deviated \/ breaks)
    /\ answer' = came
    /\ Note(ids, passed)
    /\ at' = at + 1 /\ built' = FALSE
    /\ UNCHANGED <<aborted, port, postchecked, stage, call, race, listening, outcome, subject>>

(* The budget expires before the aborted call has settled.                 *)
Lapses ==
    /\ Shared /\ built /\ Step.scenario = "hangs" /\ aborted /\ stage \notin {"entry", "done"}
    /\ port = "supplied"
    /\ Proceeds("lapsed", <<"prompt-abort">>, <<FALSE>>, TRUE)

(* A port supplied may throw any fault of its own.                         *)
Came ==
    IF outcome = "declared" /\ port = "supplied" /\ aborted
    THEN {"declared", "aborted"} ELSE {outcome}

Hears ==
    /\ Shared /\ built /\ stage = "done" /\ (Step.scenario = "hangs" => aborted)
    /\ \E came \in Came, odd \in Oddities :
          /\ odd = "invalid" => port = "supplied"
          /\ Proceeds(came, Ids(Step.scenario), SharedPassed(Step.scenario, came, odd),
                      ~KeepsContract(Step.scenario, came) \/ Tells(Step.scenario, odd))

(* A step of the call in flight.  Once the subject has broken its one rule *)
(* it comes to what the scenario asks, and a call that hangs stays so.     *)
InFlight(step) ==
    /\ caller = "kit" /\ Shared /\ built /\ step
    /\ deviated /\ stage' = "done" => \E came \in Came' : KeepsContract(Step.scenario, came)
    /\ deviated /\ call' # call => Step.scenario # "hangs" \/ call' = "pending"

-----------------------------------------------------------------------------
(* An arm's assertion: one request against the subject's own mapping.      *)

Mechanism(p) == CASE p = "environment" -> "api" [] p = "command" -> "cli" [] OTHER -> p

Decide(policyOf, request) ==
    CASE request.kind = "api" -> EvaluateTarget(policyOf, request)
      [] request.kind = "cli" -> DecideCommand(policyOf, request)
      [] request.kind = "mcp" -> EvaluateMcpTarget(policyOf, request)

(* A request of another mechanism names no interface of this mapping.      *)
Decision(s, request) ==
    IF request.kind # Mechanism(s.port) THEN Denied("interface-not-authorized")
    ELSE Decide(s.policy, request)

(* A subject may fail to enforce one refusal, or one class of address.     *)
Refuses(s, request, decision) ==
    \/ s.defect = "denies-all"
    \/ /\ ~decision.allowed /\ s.defect # decision.reason
       /\ decision.reason = "address-not-authorized" =>
            ParseAddress(request.address).addressClass # s.defect

Returned(came, calls, carries) ==
    [came |-> came, calls |-> calls, carries |-> carries,
     valid |-> TRUE, echoed |-> TRUE, counted |-> TRUE, disposed |-> TRUE]

Capped(s) ==
    CASE s.defect = "unbounded" -> "value" [] s.defect = "cap-as-denial" -> Denial [] OTHER -> Cap

(* A chain is followed as far as the authorization's bound.                *)
Chained(s, hops, bound) ==
    IF hops > bound /\ s.defect # "unbounded" THEN Returned(Capped(s), bound + 1, "nothing")
    ELSE Returned("value", hops + 1, "nothing")

(* What the fixture behind an admitted request makes of it.                *)
Admitted(s, request, decision) ==
    CASE request.meets = "overrun" -> Returned(Capped(s), 1, "nothing")
      [] request.meets = "bounce" ->
            IF s.defect = "follows" THEN Returned("value", 2, "nothing")
            ELSE Returned(Denial, 1, "nothing")
      [] request.meets = "chain" -> Chained(s, request.hops, decision.authorization.maxRedirects)
      [] request.meets = "anomaly" /\ s.defect = "throws-on-anomaly" ->
            Returned("port-failure", 1, "nothing")
      [] OTHER -> Returned("value", 1, IF s.defect = "drops-content" THEN "nothing"
                                       ELSE request.meets)

Result(s, request, decision) ==
    IF Refuses(s, request, decision) THEN Returned(Denial, 0, "nothing")
    ELSE Admitted(s, request, decision)

-----------------------------------------------------------------------------
(* What the kit asks of it.                                                *)

(* What an assertion's own check reads in the observation.                 *)
Wanted(id) ==
    CASE id \in {"observe-anomalous-status", "observe-nonzero-exit", "observe-error-result"} ->
            "anomaly"
      [] id \in {"argument-passed-literally", "arguments-passed-as-declared"} -> "literal"
      [] id = "capture-declared-artifact" -> "artifact"
      [] id = "observe-declared-result-channel" -> "result"

(* checkResolvedFor: the schema, then the echo, then the check.            *)
CheckResolved(assertion, kind, request, res) ==
    /\ res.valid /\ res.echoed
    /\ assertion.checked => request.kind = kind /\ res.carries = Wanted(assertion.id)

(* commandAuthorizationFor, and its like for a server or a target.         *)
CommandAuthorizationsFor(s, request) ==
    SelectSeq(s.policy, LAMBDA a : /\ a.interfaceId = request.interfaceId
                                   /\ a.executable = request.executable)
AuthorizationsFor(s, request) ==
    SelectSeq(s.policy, LAMBDA a : a.interfaceId = request.interfaceId)

CommandComplaint(s, id, request) ==
    IF id = "deny-unmapped-interface" THEN AuthorizationsFor(s, request) # <<>>
    ELSE \/ request.kind # "cli"
         \/ LET pair == CommandAuthorizationsFor(s, request) IN
            CASE id = "deny-unmapped-executable" -> pair # <<>>
              [] id = "deny-unauthorized-subcommand" ->
                    \/ pair = <<>>
                    \/ request.subcommandPath \in pair[1].permittedSubcommandPaths
              [] id = "deny-unauthorized-environment-key" ->
                    \/ pair = <<>>
                    \/ request.environment \subseteq pair[1].permittedEnvironmentKeys

McpComplaint(s, id, request) ==
    LET named == AuthorizationsFor(s, request) IN
    IF id = "deny-unmapped-interface" THEN named # <<>>
    ELSE request.kind # "mcp" \/ named = <<>> \/ request.toolName \in named[1].tools

(* Mutant: the fixture's own request is taken at its word.                 *)
TrustsFixture(s, id, request) == id = "cap-redirects" /\ AuthorizationsFor(s, request) = <<>>

(* The request is not the one that its name says, which a denial or a      *)
(* count would otherwise pass for the wrong reason.                        *)
Complaint(s, id, request) ==
    CASE s.port = "command" -> CommandComplaint(s, id, request)
      [] s.port = "mcp" -> McpComplaint(s, id, request)
      [] OTHER -> id = "cap-redirects" /\ AuthorizationsFor(s, request) = <<>>

ExpectedCalls(s, id, request) ==
    CASE id = "deny-on-redirect" -> 1
      [] id = "cap-redirects" -> AuthorizationsFor(s, request)[1].maxRedirects + 1
      [] OTHER -> 0

(* checkCallCount.                                                         *)
CheckCallCount(s, assertion, request, res) ==
    assertion.pinned =>
        /\ ~Complaint(s, assertion.id, request)
        /\ res.counted /\ res.calls = ExpectedCalls(s, assertion.id, request)

(* runArmAssertion, from the settled call on.                              *)
ArmPassed(s, assertion, request, res) ==
    /\ IF assertion.expects = "value"
       THEN res.came = "value" /\ CheckResolved(assertion, Mechanism(s.port), request, res)
       ELSE res.came = assertion.expects
    /\ CheckCallCount(s, assertion, request, res)
    /\ res.disposed

ArmOddities == {"none", "untyped", "miscoded", "invalid", "uncorrelated", "garbled",
                "retried", "uncounted", "undisposed"}

(* One call that comes to something else than the rest of them would.      *)
With(odd, res) ==
    CASE odd = "none" -> res
      [] odd = "untyped" -> [res EXCEPT !.came = "escaped"]
      [] odd = "miscoded" -> [res EXCEPT !.came = "declared"]
      [] odd = "invalid" -> [res EXCEPT !.came = "value", !.valid = FALSE]
      [] odd = "uncorrelated" -> [res EXCEPT !.came = "value", !.echoed = FALSE]
      [] odd = "garbled" -> [res EXCEPT !.carries = "nothing"]
      [] odd = "retried" -> [res EXCEPT !.calls = @ + 1]
      [] odd = "uncounted" -> [res EXCEPT !.counted = FALSE]
      [] odd = "undisposed" -> [res EXCEPT !.disposed = FALSE]

(* A retry is looked for where a count is pinned, content where it is read. *)
Strays(assertion, odd) ==
    CASE odd = "none" -> FALSE
      [] odd = "garbled" -> assertion.checked
      [] odd \in {"retried", "uncounted"} -> assertion.pinned
      [] OTHER -> TRUE

Asserts ==
    /\ caller = "kit" /\ ~Over /\ ~Shared /\ built
    /\ \E request \in {subject.requests[Step.id]} :
       \E decision \in {Decision(subject, request)}, odd \in ArmOddities :
          \E res \in {With(odd, Result(subject, request, decision))} :
             Proceeds(res.came, <<Step.id>>, <<ArmPassed(subject, Step, request, res)>>,
                      Strays(Step, odd))

-----------------------------------------------------------------------------
(* The subjects that the repository tests its own adapters as.             *)

Quad(a, b, c, d) == [octets |-> <<a, b, c, d>>, zone |-> "none"]
HostNamed(name) == [name |-> name, mixed |-> FALSE, dots |-> 0]
Unreached == Quad(198, 51, 100, 10)

AuthorizationOf(id, host, address, methods) ==
    [interfaceId |-> id, scheme |-> "http", host |-> HostNamed(host), port |-> 80,
     addresses |-> {address}, methods |-> methods, safeMethods |-> methods,
     maxRedirects |-> 1, maxElapsedMs |-> 250, maxRequestBytes |-> 2, maxResponseBytes |-> 1]

(* buildSubjectPolicy: one entry that is reached and six that each deny.   *)
ApiPolicy ==
    <<AuthorizationOf("authorized", "localhost", Quad(127, 0, 0, 1), {"GET", "HEAD"})>>
    \o [i \in 1 .. 6 |->
          LET id == <<"loopback", "private", "link-local", "metadata", "method", "scheme">>[i]
          IN  AuthorizationOf(id, id, Unreached, {"GET"})]

ApiRequest(id, address, meets) ==
    [kind |-> "api", interfaceId |-> id, method |-> "GET", scheme |-> "http", port |-> 80,
     host |-> HostNamed(IF id = "authorized" THEN "localhost" ELSE id),
     address |-> address, meets |-> meets, hops |-> 2]

AtServer(meets) == ApiRequest("authorized", Quad(127, 0, 0, 1), meets)

ApiSubject ==
    [port |-> "environment", defect |-> "none", policy |-> ApiPolicy,
     requests |->
       [id \in {ProbeAssertions[i].id : i \in DOMAIN ProbeAssertions} |->
          CASE id = "allow-authorized-loopback" -> AtServer("echo")
            [] id = "observe-anomalous-status" -> AtServer("anomaly")
            [] id = "deny-unmapped-interface" ->
                  ApiRequest("unmapped", Quad(127, 0, 0, 1), "echo")
            [] id = "deny-unauthorized-loopback" ->
                  ApiRequest("loopback", Quad(127, 0, 0, 9), "echo")
            [] id = "deny-private" -> ApiRequest("private", Quad(10, 1, 2, 3), "echo")
            [] id = "deny-link-local" -> ApiRequest("link-local", Quad(169, 254, 1, 1), "echo")
            [] id = "deny-metadata" -> ApiRequest("metadata", Quad(169, 254, 169, 254), "echo")
            [] id = "deny-unauthorized-method" ->
                  [ApiRequest("method", Unreached, "echo") EXCEPT !.method = "DELETE"]
            [] id = "deny-unauthorized-scheme" ->
                  [ApiRequest("scheme", Unreached, "echo") EXCEPT !.scheme = "https"]
            [] id = "deny-on-redirect" -> AtServer("bounce")
            [] id = "cap-redirects" -> AtServer("chain")
            [] OTHER -> AtServer("overrun")]]

Key(name) == [name |-> name, mixed |-> FALSE]

CommandPolicy ==
    <<[interfaceId |-> "devtools", executable |-> "probe-cli",
       permittedSubcommandPaths |-> {<<>>},
       permittedEnvironmentKeys |-> {Key("PROBE_MODE"), Key("PROBE_RUN_ID")},
       maxElapsedMs |-> 1500, maxOutputBytes |-> 4096]>>

CommandRequest(meets) ==
    [kind |-> "cli", interfaceId |-> "devtools", executable |-> "probe-cli",
     subcommandPath |-> <<>>, environment |-> {}, meets |-> meets]

CommandSubject ==
    [port |-> "command", defect |-> "none", policy |-> CommandPolicy,
     requests |->
       [id \in {CommandAssertions[i].id : i \in DOMAIN CommandAssertions} |->
          CASE id = "allow-authorized-invocation" ->
                  [CommandRequest("echo") EXCEPT
                     !.environment = {Key("PROBE_MODE"), Key("PROBE_RUN_ID")}]
            [] id = "observe-nonzero-exit" -> CommandRequest("anomaly")
            [] id = "deny-unmapped-interface" ->
                  [CommandRequest("echo") EXCEPT !.interfaceId = "unmapped"]
            [] id = "deny-unmapped-executable" ->
                  [CommandRequest("echo") EXCEPT !.executable = "npm"]
            [] id = "deny-unauthorized-subcommand" ->
                  [CommandRequest("echo") EXCEPT !.subcommandPath = <<"danger">>]
            [] id = "deny-unauthorized-environment-key" ->
                  [CommandRequest("echo") EXCEPT
                     !.environment = {Key("PROBE_MODE"), Key("PROBE_RUN_ID_2")}]
            [] id = "argument-passed-literally" -> CommandRequest("literal")
            [] id = "capture-declared-artifact" -> CommandRequest("artifact")
            [] OTHER -> CommandRequest("overrun")]]

McpPolicy ==
    <<[interfaceId |-> "notes-tool-server",
       tools |-> {"search_notes", "failing_tool", "oversize_tool"},
       maxElapsedMs |-> 5000, maxOutputBytes |-> 8192],
      [interfaceId |-> "slow-tool-server", tools |-> {"hanging_tool"},
       maxElapsedMs |-> 300, maxOutputBytes |-> 8192]>>

McpRequest(tool, meets) ==
    [kind |-> "mcp", interfaceId |-> "notes-tool-server", toolName |-> tool, meets |-> meets]

McpSubject ==
    [port |-> "mcp", defect |-> "none", policy |-> McpPolicy,
     requests |->
       [id \in {McpAssertions[i].id : i \in DOMAIN McpAssertions} |->
          CASE id = "allow-authorized-tool-call" -> McpRequest("search_notes", "echo")
            [] id = "observe-error-result" -> McpRequest("failing_tool", "anomaly")
            [] id = "deny-unmapped-interface" ->
                  [McpRequest("search_notes", "echo") EXCEPT !.interfaceId = "unmapped-server"]
            [] id = "deny-unauthorized-tool" -> McpRequest("env_tool", "echo")
            [] id = "arguments-passed-as-declared" -> McpRequest("search_notes", "literal")
            [] id = "observe-declared-result-channel" -> McpRequest("search_notes", "result")
            [] id = "cap-elapsed" ->
                  [McpRequest("hanging_tool", "overrun") EXCEPT !.interfaceId = "slow-tool-server"]
            [] OTHER -> McpRequest("oversize_tool", "overrun")]]

-----------------------------------------------------------------------------
(* The operator's own questions.                                           *)

(* parseTargetPolicy, and then a decision at a time over what it returned. *)
Load ==
    /\ caller = "operator" /\ ruling = Nowhere
    /\ \E m \in Mappings :
          ruling' = [mapping |-> m, parsed |-> ParseTargetPolicy(m.mechanism, m.mapping),
                     query |-> Nowhere, decision |-> Nowhere]
    /\ UNCHANGED <<portVars, probeVars, kitVars, caller>>

Rules ==
    /\ caller = "operator" /\ ruling # Nowhere /\ ruling.parsed = "parsed"
    /\ \E query \in ruling.mapping.queries :
          ruling' = [ruling EXCEPT !.query = query,
                                   !.decision = Decide(ruling.mapping.mapping.authorizations,
                                                       query)]
    /\ UNCHANGED <<portVars, probeVars, kitVars, caller>>

-----------------------------------------------------------------------------
(* One caller at a time.                                                   *)

(* The refusal that an assertion is named for.                             *)
NamedFor(id) ==
    CASE id = "deny-unmapped-interface" -> "interface-not-authorized"
      [] id = "deny-unmapped-executable" -> "executable-not-authorized"
      [] id = "deny-unauthorized-subcommand" -> "subcommand-not-authorized"
      [] id = "deny-unauthorized-environment-key" -> "environment-key-not-authorized"
      [] id = "deny-unauthorized-tool" -> "tool-not-authorized"
      [] id = "deny-unauthorized-method" -> "method-not-authorized"
      [] id = "deny-unauthorized-scheme" -> "scheme-not-authorized"
      [] OTHER -> "address-not-authorized"

(* What an assertion that resolves, and one that is denied, need asked.    *)
AsksToResolve(assertion, request, decision) ==
    decision.allowed /\ (assertion.checked => request.meets = Wanted(assertion.id))

AsksForDenial(assertion, decision) ==
    ~decision.allowed /\ decision.reason = NamedFor(assertion.id)

(* The request of an assertion really asks what the assertion is about.    *)
Asks(assertion, request, decision) ==
    CASE assertion.expects = "value" -> AsksToResolve(assertion, request, decision)
      [] assertion.id = "cap-redirects" ->
            /\ decision.allowed /\ request.meets = "chain"
            /\ request.hops > decision.authorization.maxRedirects
      [] assertion.expects = Cap -> decision.allowed /\ request.meets = "overrun"
      [] assertion.id = "deny-on-redirect" -> decision.allowed /\ request.meets = "bounce"
      [] OTHER -> AsksForDenial(assertion, decision)

Sound(s) ==
    /\ s.defect = "none"
    /\ \A i \in DOMAIN ArmOf(s.port) :
          LET assertion == ArmOf(s.port)[i] IN
          Asks(assertion, s.requests[assertion.id], Decision(s, s.requests[assertion.id]))

ConformanceInit ==
    /\ caller \in {"application", "probe", "operator", "kit"}
    /\ PortInit /\ (caller = "probe" => port = "adapter" /\ ~postchecked)
    /\ IF caller = "probe" THEN ProbeInit
       ELSE /\ policy = <<>> /\ asked = Nowhere
            /\ visits = <<>> /\ inForce = Nowhere /\ redirects = 0
            /\ hop = "none" /\ location = Nowhere /\ work = "none"
            /\ timer = "unarmed" /\ inner = "none" /\ stopped = FALSE /\ cleaned = FALSE
    /\ ruling = Nowhere
    /\ IF caller = "kit"
       THEN subject \in Subjects /\ deviated = ~Sound(subject)
       ELSE subject = Nowhere /\ deviated = FALSE
    /\ at = 1 /\ built = FALSE /\ outcomes = <<>>

OnlyPort == UNCHANGED <<probeVars, kitVars, caller, ruling>>
OnlyProbe == UNCHANGED <<kitVars, caller, ruling>>
OnlyKit == UNCHANGED <<probeVars, caller, ruling>>

ConformanceVars == <<portVars, probeVars, kitVars, caller, ruling>>

ConformanceNext ==
    \/ caller = "application" /\ PortNext /\ OnlyPort
    \/ caller = "probe" /\ ProbeNext /\ OnlyProbe
    \/ Load
    \/ Rules
    \/ caller = "kit" /\ (Build \/ Unbuilt \/ KitAborts \/ Lapses \/ Hears) /\ OnlyKit
    \/ Asserts /\ OnlyKit
    \/ InFlight(Call) /\ OnlyKit
    \/ InFlight(Resume \/ ResumePostcheck \/ SupplierSettles \/ \E r \in Settled : Settle(r))
       /\ UNCHANGED kitVars /\ OnlyKit

(* Microtasks run, armed timers fire and a destroyed socket reports.  What *)
(* the other side does, an author's own port included, may never happen.   *)
ConformanceFairness ==
    /\ WF_ConformanceVars(Resume /\ caller = "application" /\ OnlyPort)
    /\ WF_ConformanceVars(ResumePostcheck /\ caller = "application" /\ OnlyPort)
    /\ WF_ConformanceVars(Answer /\ caller = "application" /\ OnlyPort)
    /\ WF_ConformanceVars(caller = "probe" /\ Boundary /\ OnlyProbe)
    /\ WF_ConformanceVars(caller = "probe" /\ (Resumed \/ MechanismEnds) /\ OnlyProbe)
    /\ WF_ConformanceVars(caller = "probe" /\ (ElapsedFires \/ Destroyed) /\ OnlyProbe)
    /\ WF_ConformanceVars(InFlight(Resume \/ ResumePostcheck) /\ UNCHANGED kitVars /\ OnlyKit)
    /\ WF_ConformanceVars(caller = "kit" /\ Hears /\ OnlyKit)

ConformanceSpec ==
    ConformanceInit /\ [][ConformanceNext]_ConformanceVars /\ ConformanceFairness

-----------------------------------------------------------------------------
(* What the two promise.                                                   *)

(* The machine that an address means, however it is spelled, as the eight  *)
(* groups of its IPv6 address: from the left those of the first half, from *)
(* the right those of the second, and an IPv4 address under `::ffff:`.     *)
MeantGroups(halves) ==
    LET head == Groups(halves[1])
        tail == IF Len(halves) = 2 THEN Groups(halves[2]) ELSE <<>>
    IN [k \in 1 .. 8 |-> IF k <= Len(head) THEN head[k]
                         ELSE IF k > 8 - Len(tail) THEN tail[k - (8 - Len(tail))] ELSE 0]

Spells(halves) ==
    \/ Len(halves) = 1 /\ Legible(halves[1], TRUE) /\ Len(Groups(halves[1])) = 8
    \/ /\ Len(halves) = 2 /\ Legible(halves[1], FALSE) /\ Legible(halves[2], TRUE)
       /\ Len(Groups(halves[1])) + Len(Groups(halves[2])) < 8

Means(address) ==
    IF "octets" \in DOMAIN address
    THEN LET o == address.octets IN
         IF address.zone = "none" /\ IsQuad(o)
         THEN <<0, 0, 0, 0, 0, 65535, Joined(o[1], o[2]), Joined(o[3], o[4])>> ELSE <<>>
    ELSE LET g == MeantGroups(address.halves) IN
         IF /\ Spells(address.halves)
            /\ \/ address.zone = "none"
               \/ address.zone = "one" /\ ~Mapped(g) /\ ClassifyIpv6(g) = "link-local"
         THEN g ELSE <<>>

SameHost(h, k) == h.name = k.name /\ (h.dots = k.dots \/ {h.dots, k.dots} \subseteq {0, 1})

(* An authorization names a target, whatever the spelling of either.       *)
Names(a, t) ==
    /\ a.interfaceId = t.interfaceId /\ a.scheme = t.scheme /\ a.port = t.port
    /\ SameHost(a.host, t.host) /\ t.method \in a.methods
    /\ Means(t.address) # <<>> /\ \E entry \in a.addresses : Means(entry) = Means(t.address)

NamesCommand(a, query) ==
    /\ a.interfaceId = query.interfaceId /\ a.executable = query.executable
    /\ query.subcommandPath \in a.permittedSubcommandPaths

(* Of several authorizations that name a command, the first one's          *)
(* environment is the one permitted.                                       *)
NamedBy(mapping, query) ==
    \E j \in DOMAIN mapping :
        CASE query.kind = "api" -> Names(mapping[j], query)
          [] query.kind = "cli" ->
                /\ NamesCommand(mapping[j], query)
                /\ \A k \in 1 .. j - 1 : ~NamesCommand(mapping[k], query)
                /\ query.environment \subseteq mapping[j].permittedEnvironmentKeys
                /\ \A key \in query.environment : key.name # "PATH"
          [] query.kind = "mcp" ->
                mapping[j].interfaceId = query.interfaceId /\ query.toolName \in mapping[j].tools

(* Default deny, under redirects and a resolver that answers otherwise     *)
(* each time: a hop is made exactly when one authorization of the mapping  *)
(* names all of its scheme, host, port, method and the machine that its    *)
(* address means, however it is spelled; a refused one is the last; and a  *)
(* mapping once parsed rules the same way on a target, a command or a tool *)
(* call (core/probe/target-policy.ts, its two siblings, probe-subject.ts). *)
HopsAreNamed ==
    \A i \in DOMAIN visits :
        /\ visits[i].allowed <=> \E j \in DOMAIN policy : Names(policy[j], visits[i].target)
        /\ ~visits[i].allowed => i = Len(visits) /\ work = Denial
        /\ i > 1 => \E j \in DOMAIN policy : /\ Names(policy[j], visits[i - 1].target)
                                             /\ i - 1 <= policy[j].maxRedirects

RulingsAreNamed ==
    ruling # Nowhere /\ ruling.query # Nowhere =>
        (ruling.decision.allowed
            <=> NamedBy(ruling.mapping.mapping.authorizations, ruling.query))

OnlyWhatIsNamed == HopsAreNamed /\ RulingsAreNamed

(* Once a probe's caller has its answer, by whichever of the chain, the    *)
(* elapsed cap and the abort, the hop in flight is torn down, none is made *)
(* any more, and no timer is left to hold the process                      *)
(* (probe-subject.ts, the mechanism's finally).                            *)
NothingInFlight == caller = "probe" /\ stage = "done" ~> [](hop # "open" /\ timer # "armed")

(* A conformance report passes exactly when the subject broke no rule in   *)
(* any call of the run and its fixture asked what it claimed to: no defect *)
(* is certified, an inconsistent fixture is not either, and a subject that *)
(* keeps the contract is never failed (conformance.ts,                     *)
(* probe-conformance.ts).                                                  *)
VerdictExact == caller = "kit" /\ Over => (Passed <=> ~deviated)
=============================================================================
