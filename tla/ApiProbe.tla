------------------------------ MODULE ApiProbe ------------------------------
(***************************************************************************)
(* One probe through the HTTP adapter that the repository keeps for its    *)
(* own conformance kit: tests/adapters/probe-subject.ts.                   *)
(*                                                                         *)
(* The mechanism of the port call (PortCall, always an adapter here) is a  *)
(* chain of hops.  Each is validated against the operator's mapping before *)
(* it is made, every redirect included, and what a server or a resolver    *)
(* answers is not under control: a host may resolve differently each time, *)
(* a hop may be redirected anywhere, cut, failed or never answered.  One   *)
(* timer and the caller's signal stop the chain at any step.               *)
(***************************************************************************)
EXTENDS PortCall, TargetPolicy

CONSTANTS
  Policies,   \* mappings, each a sequence of authorizations
  Requests,   \* [interfaceId, method, bytes]
  Targets,    \* the target that an interface starts from
  Resolver,   \* the addresses a host's name may resolve to
  Locations   \* where a redirect may lead

ASSUME ProbesAssumption ==
    /\ Policies \subseteq Seq(Authorization)
    /\ Requests \subseteq [interfaceId : STRING, method : STRING, bytes : Int]
    /\ \A id \in DOMAIN Targets : Targets[id] \in Origin
    /\ \A name \in DOMAIN Resolver : Resolver[name] \subseteq Address
    /\ Locations \subseteq [relative : {TRUE}]
                    \cup [relative : {FALSE}, scheme : STRING, host : Host, port : Int]

VARIABLES
  policy,     \* the mapping the adapter was created with
  asked,      \* the request
  visits,     \* each target resolved, and how it was decided
  inForce,    \* the authorization of the last allowed one
  redirects,
  hop,        \* "none", "open", or what came back of the last one
  location,   \* where it was redirected
  work,       \* runProbe: "none", "running", or what it settled as
  timer,      \* the elapsed cap: "unarmed", "armed" or "off"
  inner,      \* which settled Promise.race: "none", "work" or "elapsed"
  stopped,    \* the mechanism's own controller was aborted
  cleaned     \* the mechanism's finally has run

probeVars == <<policy, asked, visits, inForce, redirects, hop, location, work, timer, inner,
               stopped, cleaned>>

Nowhere == <<>>

ProbeInit ==
    /\ policy \in Policies /\ asked \in Requests
    /\ visits = <<>> /\ inForce = Nowhere /\ redirects = 0
    /\ hop = "none" /\ location = Nowhere /\ work = "none"
    /\ timer = "unarmed" /\ inner = "none" /\ stopped = FALSE /\ cleaned = FALSE

-----------------------------------------------------------------------------
(* runProbe.                                                               *)

WorkSettles(result) ==
    /\ work' = result
    /\ inner' = IF inner = "none" THEN "work" ELSE inner

Refused(visit) ==
    /\ visits' = Append(visits, visit)
    /\ WorkSettles("forbidden-target")
    /\ UNCHANGED <<inForce, hop, timer>>

(* The authorization that allowed the first hop arms the elapsed cap, and  *)
(* each hop is under the caps of the one that allowed it.  A hop begun     *)
(* after the controller was aborted fails at once.                         *)
Granted(visit, authorization) ==
    /\ visits' = Append(visits, visit)
    /\ inForce' = authorization
    /\ timer' = IF timer = "unarmed" THEN "armed" ELSE timer
    /\ IF asked.bytes > authorization.maxRequestBytes
       THEN WorkSettles("budget-exhausted") /\ UNCHANGED hop
       ELSE /\ hop' = IF stopped THEN "error" ELSE "open"
            /\ work' = "running" /\ UNCHANGED inner

Ruled(target, decision) ==
    IF decision.allowed
    THEN Granted([target |-> target, allowed |-> TRUE], decision.authorization)
    ELSE Refused([target |-> target, allowed |-> FALSE])

(* validate: the host is resolved here and nowhere else.                   *)
Visit(target) ==
    IF target.host.name \notin DOMAIN Resolver
    THEN WorkSettles("forbidden-target") /\ UNCHANGED <<visits, inForce, hop, timer>>
    ELSE \E address \in Resolver[target.host.name] :
            LET resolved == [interfaceId |-> asked.interfaceId, method |-> asked.method,
                             scheme |-> target.scheme, host |-> target.host,
                             port |-> target.port, address |-> address]
            IN  \E decision \in {EvaluateTarget(policy, resolved)} : Ruled(resolved, decision)

(* The URL parser lowers a host's case and leaves out a default port.      *)
NextTarget(from) ==
    IF location.relative THEN from
    ELSE [scheme |-> location.scheme, host |-> [location.host EXCEPT !.mixed = FALSE],
          port |-> IF location.port # 0 THEN location.port
                   ELSE IF location.scheme = "https" THEN 443 ELSE 80]

Start ==
    IF asked.interfaceId \notin DOMAIN Targets
    THEN WorkSettles("forbidden-target") /\ UNCHANGED <<visits, inForce, hop, timer>>
    ELSE Visit(Targets[asked.interfaceId])

(* The code after the awaited hop.                                         *)
Resumed ==
    /\ work = "running" /\ hop \in {"answered", "truncated", "error", "redirected"}
    /\ \/ hop = "error" /\ WorkSettles("error")
          /\ UNCHANGED <<redirects, visits, inForce, hop, timer>>
       \/ hop = "truncated" /\ WorkSettles("budget-exhausted")
          /\ UNCHANGED <<redirects, visits, inForce, hop, timer>>
       \/ hop = "answered" /\ WorkSettles("value")
          /\ UNCHANGED <<redirects, visits, inForce, hop, timer>>
       \/ /\ hop = "redirected" /\ redirects' = redirects + 1
          /\ IF redirects' > inForce.maxRedirects
             THEN WorkSettles("budget-exhausted") /\ UNCHANGED <<visits, inForce, hop, timer>>
             ELSE Visit(NextTarget(Last(visits).target))
    /\ UNCHANGED <<portVars, policy, asked, location, stopped, cleaned>>

-----------------------------------------------------------------------------
(* nodeHttpMechanism, as far as a hop's end is concerned.                  *)

Answers(kind) ==
    /\ hop = "open" /\ hop' = kind
    /\ IF kind = "redirected" THEN location' \in Locations ELSE UNCHANGED location
    /\ UNCHANGED <<portVars, policy, asked, visits, inForce, redirects, work, timer, inner,
                   stopped, cleaned>>

(* The socket of a hop under an aborted controller is destroyed.           *)
Destroyed ==
    /\ hop = "open" /\ stopped /\ hop' = "error"
    /\ UNCHANGED <<portVars, policy, asked, visits, inForce, redirects, location, work, timer,
                   inner, stopped, cleaned>>

-----------------------------------------------------------------------------
(* The mechanism around it.                                                *)

Probe ==
    /\ stage = "entry" /\ UNCHANGED aborted /\ Invoke("pending")
    /\ \/ stage' = "mechanism" /\ Start
          /\ UNCHANGED <<policy, asked, redirects, location, stopped, cleaned>>
       \/ stage' = "done" /\ outcome' = "schema-parse-failure" /\ UNCHANGED probeVars
       \/ stage' = "entry" /\ UNCHANGED probeVars

SignalAborts ==
    /\ Abort
    /\ stopped' = (stopped \/ (work # "none" /\ ~cleaned))
    /\ UNCHANGED <<policy, asked, visits, inForce, redirects, hop, location, work, timer, inner,
                   cleaned>>

ElapsedFires ==
    /\ timer = "armed" /\ timer' = "off"
    /\ inner' = IF inner = "none" THEN "elapsed" ELSE inner
    /\ UNCHANGED <<portVars, policy, asked, visits, inForce, redirects, hop, location, work,
                   stopped, cleaned>>

(* The fault or the value that the mechanism ends in.                      *)
Ending == IF inner = "elapsed" THEN "budget-exhausted" ELSE work

MechanismResult ==
    CASE Ending = "value" -> "ok" [] Ending = "error" -> "error" [] OTHER -> "fault"

(* Mutant: the finally leaves the hop to itself.                           *)
CleansTimerOnly == timer' = "off" /\ UNCHANGED stopped

Cleans == timer' = "off" /\ stopped' = TRUE

(* The code after the race of the chain and the cap, its finally included. *)
MechanismEnds ==
    /\ inner # "none" /\ ~cleaned /\ cleaned' = TRUE
    /\ Cleans
    /\ IF stage = "mechanism" THEN Settle(MechanismResult) ELSE UNCHANGED portVars
    /\ UNCHANGED <<policy, asked, visits, inForce, redirects, hop, location, work, inner>>

Boundary == (Resume \/ Answer) /\ outcome' # "escaped" /\ UNCHANGED probeVars

ProbeNext ==
    \/ Probe
    \/ SignalAborts
    \/ Resumed
    \/ \E kind \in {"answered", "truncated", "error", "redirected"} : Answers(kind)
    \/ Destroyed
    \/ ElapsedFires
    \/ MechanismEnds
    \/ Boundary
=============================================================================
