------------------------------ MODULE PortCall ------------------------------
(***************************************************************************)
(* One awaited port call: invokePort (application/invoke-port.ts) around a *)
(* port that is either a shipped adapter, whose every method is            *)
(* runPortMethod (adapters/port-boundary.ts), or one the caller supplied.  *)
(*                                                                         *)
(* The abort may come between any two steps.  Each await is a step of its  *)
(* own: a promise settles in one step and the code after the await runs in *)
(* a later one, so an abort, or a second settlement, may fall in between.  *)
(* Outcomes are fault codes; "declared" is a RuntimeFault the mechanism or *)
(* a check threw itself, "escaped" any other error.                        *)
(***************************************************************************)

VARIABLES
  aborted,      \* signal.aborted
  port,         \* "adapter" or "supplied"
  postchecked,  \* the adapter's method has a postcheck
  stage,        \* runPortMethod: "entry", "mechanism", "postcheck", "done"
  call,         \* the promise being raced
  race,         \* which promise settled Promise.race: "none", "call", "abort"
  listening,    \* raceAbort's listener is on the signal
  outcome,      \* how runPortMethod ended
  answer        \* how invokePort ended

signalVars == <<aborted, race, listening>>
portVars   == <<port, postchecked, stage, call, outcome, answer, signalVars>>

Settled == {"ok", "fault", "error"}
Codes   == {"aborted", "schema-parse-failure", "port-failure",
            "port-contract-violation", "declared"}

PortInit ==
  /\ aborted = FALSE /\ port \in {"adapter", "supplied"}
  /\ postchecked \in {FALSE, port = "adapter"}
  /\ stage = "entry" /\ call = "none" /\ race = "none" /\ listening = FALSE
  /\ outcome = "none" /\ answer = "none"

\* Mutant: the listener rejects nothing.
AbortUnheard ==
  /\ ~aborted
  /\ aborted' = TRUE /\ listening' = FALSE
  /\ UNCHANGED <<port, postchecked, stage, call, race, outcome, answer>>

\* The once-only listener rejects the promise raced against the call.
Abort ==
  /\ ~aborted
  /\ aborted' = TRUE /\ listening' = FALSE
  /\ race' = IF listening /\ race = "none" THEN "abort" ELSE race
  /\ UNCHANGED <<port, postchecked, stage, call, outcome, answer>>

\* runPortMethod returns or throws, raceAbort's finally included.
End(code) == stage' = "done" /\ outcome' = code /\ listening' = FALSE

-----------------------------------------------------------------------------
(* raceAbort and runPortMethod.                                            *)

\* A signal aborted by the time the work has begun is not raced.
Race(next, promise) ==
  /\ call' = promise
  /\ IF aborted'
       THEN End("aborted") /\ race' = "abort"
       ELSE /\ stage' = next /\ listening' = TRUE
            /\ race' = IF promise = "pending" THEN "none" ELSE "call"
            /\ UNCHANGED outcome

\* Response parse, after an assembly that may itself throw.
Assemble == \E code \in {"value", "port-contract-violation", "escaped"} : End(code)

\* Mutant: the catch asks the signal before it looks at the fault.
SignalFirst == IF aborted THEN "aborted" ELSE IF call = "fault" THEN "declared" ELSE "port-failure"

\* A declared fault passes unchanged; another error is the abort's or a failure.
Translated == IF call = "fault" THEN "declared" ELSE IF aborted THEN "aborted" ELSE "port-failure"

\* The code after the raced mechanism.
Resume ==
  /\ port = "adapter" /\ stage = "mechanism" /\ race # "none"
  /\ UNCHANGED <<aborted, port, postchecked, answer>>
  /\ \/ race = "abort" /\ End("aborted") /\ UNCHANGED <<call, race>>
     \/ /\ race = "call" /\ call # "ok" /\ UNCHANGED <<call, race>>
        /\ End(Translated)
     \/ /\ race = "call" /\ call = "ok" /\ ~postchecked
        /\ Assemble /\ UNCHANGED <<call, race>>
     \/ race = "call" /\ call = "ok" /\ postchecked /\ Race("postcheck", "pending")

\* The code after the raced postcheck, whose catch does not ask the signal.
ResumePostcheck ==
  /\ stage = "postcheck" /\ race # "none"
  /\ \/ race = "abort" /\ End("aborted")
     \/ race = "call" /\ call = "fault" /\ End("declared")
     \/ race = "call" /\ call = "error" /\ End("port-failure")
     \/ race = "call" /\ call = "ok" /\ Assemble
  /\ UNCHANGED <<aborted, port, postchecked, call, race, answer>>

\* The request reaches the adapter: parse, precheck, and the one call of the
\* mechanism, whose synchronous part may end the signal.
Enter(promise) ==
  \/ /\ \E code \in {"schema-parse-failure", "declared", "port-failure"} : End(code)
     /\ UNCHANGED <<aborted, call, race>>
  \/ aborted' \in {aborted, TRUE} /\ Race("mechanism", promise)

-----------------------------------------------------------------------------
(* invokePort.                                                             *)

\* The synchronous part, down to the port's own.
Invoke(promise) ==
  /\ stage = "entry" /\ answer = "none"
  /\ \/ /\ aborted /\ answer' = "aborted"
        /\ UNCHANGED <<aborted, stage, call, race, listening, outcome>>
     \/ /\ ~aborted /\ answer' = "schema-parse-failure"
        /\ UNCHANGED <<aborted, stage, call, race, listening, outcome>>
     \/ ~aborted /\ port = "adapter" /\ Enter(promise) /\ UNCHANGED answer
     \/ /\ ~aborted /\ port = "supplied" /\ stage' = "mechanism" /\ call' = "pending"
        /\ UNCHANGED <<aborted, race, listening, outcome, answer>>
  /\ UNCHANGED <<port, postchecked>>

\* The code after the awaited port.
Answer ==
  /\ stage = "done" /\ answer = "none"
  /\ \/ outcome = "value" /\ answer' \in {"value", "port-contract-violation"}
     \/ outcome = "escaped" /\ answer' = (IF aborted THEN "aborted" ELSE "port-failure")
     \/ outcome \in Codes /\ answer' = outcome
  /\ UNCHANGED <<port, postchecked, stage, call, outcome, signalVars>>

-----------------------------------------------------------------------------
(* The promise in flight: the mechanism's or the postcheck's.              *)

Settle(result) ==
  /\ port = "adapter" /\ stage \in {"mechanism", "postcheck"} /\ call = "pending"
  /\ call' = result
  /\ race' = IF race = "none" THEN "call" ELSE race
  /\ UNCHANGED <<aborted, port, postchecked, stage, listening, outcome, answer>>

\* What a caller's own port does, abort or not, if it settles at all.
SupplierSettles ==
  /\ port = "supplied" /\ stage = "mechanism"
  /\ stage' = "done" /\ outcome' \in {"value", "declared", "escaped"}
  /\ UNCHANGED <<port, postchecked, call, answer, signalVars>>

PortNext ==
  \/ Abort
  \/ \E p \in Settled \cup {"pending"} : Invoke(p)
  \/ \E r \in Settled : Settle(r)
  \/ Resume
  \/ ResumePostcheck
  \/ SupplierSettles
  \/ Answer

\* Microtasks run; a mechanism, a check or a supplied port may never settle.
PortFairness == WF_portVars(Resume) /\ WF_portVars(ResumePostcheck) /\ WF_portVars(Answer)

PortSpec == PortInit /\ [][PortNext]_portVars /\ PortFairness
-----------------------------------------------------------------------------
(* What the boundary promises.                                             *)

\* "An aborted signal rejects promptly": through an adapter, whatever its mechanism
\* does, the caller of invokePort has an answer.
PromptAbort == aborted /\ port = "adapter" /\ stage # "entry" ~> answer # "none"

\* Whichever of the mechanism and the abort came first decides, at both layers: a
\* declared fault is not repainted as an abort that came after it, nothing the
\* mechanism does after an abort reaches the caller, "aborted" is only told of a
\* signal that did abort, and the listener goes with the race, whoever won it.
RaceDecides ==
  /\ stage = "done" /\ race = "abort" => outcome = "aborted" /\ answer \in {"none", "aborted"}
  /\ stage = "done" /\ race = "call" /\ call = "fault" =>
       outcome = "declared" /\ answer \in {"none", "declared"}
  /\ "aborted" \in {answer, outcome} => aborted
  /\ stage = "done" => ~listening

\* "A partial result or an in-band error object fails here like any other schema
\* mismatch" (port-boundary.ts:154): an adapter's method never ends in an error
\* that is not one of the declared faults.
EndsDeclared == port = "adapter" => outcome # "escaped"
=============================================================================
