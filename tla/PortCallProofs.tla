---------------------------- MODULE PortCallProofs ----------------------------
(***************************************************************************)
(* One awaited port call, for every mechanism, check and supplied port:    *)
(* PortInv is inductive and implies RaceDecides.  The probes of a command  *)
(* and of a tool server make such a call, and their proofs cite these      *)
(* lemmas for the part of their steps that it takes.                       *)
(***************************************************************************)
EXTENDS PortCall, TLAPS

PortTypeOK ==
  /\ aborted \in BOOLEAN /\ listening \in BOOLEAN /\ postchecked \in BOOLEAN
  /\ port \in {"adapter", "supplied"}
  /\ stage \in {"entry", "mechanism", "postcheck", "done"}
  /\ call \in Settled \cup {"none", "pending"}
  /\ race \in {"none", "call", "abort"}
  /\ outcome \in Codes \cup {"none", "value", "escaped"}
  /\ answer \in Codes \cup {"none", "value"}

\* Before the port is reached nothing is raced; while it works an adapter's race is
\* open exactly until its promise settles or the signal aborts.
RaceOpen ==
  /\ stage = "entry" => call = "none" /\ race = "none" /\ ~listening /\ outcome = "none"
  /\ stage \in {"mechanism", "postcheck"} => call # "none" /\ outcome = "none" /\ answer = "none"
  /\ stage = "postcheck" => port = "adapter"
  /\ port = "adapter" /\ stage \in {"mechanism", "postcheck"} /\ race = "none" =>
       call = "pending" /\ listening /\ ~aborted
  /\ port = "supplied" => race = "none" /\ ~listening /\ call \in {"none", "pending"}
  /\ race = "call" => call \in Settled
  /\ race = "abort" => aborted

\* What a call that is over tells its caller.
AnswersFollow ==
  /\ stage = "done" => outcome # "none" /\ ~listening
  /\ answer # "none" => stage \in {"entry", "done"}
  /\ stage = "done" /\ answer # "none" =>
       /\ outcome \in Codes => answer = outcome
       /\ outcome = "value" => answer \in {"value", "port-contract-violation"}
       /\ outcome = "escaped" => answer \in {"aborted", "port-failure"}
  /\ stage = "entry" => answer \in {"none", "aborted", "schema-parse-failure"}
  /\ stage = "done" /\ race = "abort" => outcome = "aborted"
  /\ stage = "done" /\ race = "call" /\ call = "fault" => outcome = "declared"
  /\ outcome = "value" /\ port = "adapter" => call = "ok"
  /\ "aborted" \in {answer, outcome} => aborted

PortInv == PortTypeOK /\ RaceOpen /\ AnswersFollow

LEMMA PortInitInv == PortInit => PortInv
BY DEF PortInit, PortInv, PortTypeOK, RaceOpen, AnswersFollow, Settled, Codes

-----------------------------------------------------------------------------
(* One lemma for each action.                                              *)

\* The abort comes.
LEMMA AbortKeeps == PortInv /\ Abort => PortInv'
<1> SUFFICES ASSUME PortInv, Abort PROVE PortInv'
  OBVIOUS
<1>1. /\ ~aborted /\ aborted' = TRUE /\ listening' = FALSE
      /\ UNCHANGED <<port, postchecked, stage, call, outcome, answer>>
      /\ race' = IF listening /\ race = "none" THEN "abort" ELSE race
  BY DEF Abort
<1>2. PortTypeOK'
  BY <1>1 DEF PortInv, PortTypeOK
<1>3. RaceOpen'
  BY <1>1 DEF PortInv, PortTypeOK, RaceOpen
<1>4. AnswersFollow'
  <2>1. stage = "done" => ~listening
    BY DEF PortInv, AnswersFollow
  <2> QED BY <1>1, <2>1 DEF PortInv, PortTypeOK, AnswersFollow
<1> QED BY <1>2, <1>3, <1>4 DEF PortInv

\* A call that ends: what the rest of a proof needs of End.
LEMMA EndKeeps ==
  ASSUME PortInv, answer = "none", answer' = "none",
         NEW code \in Codes \cup {"value", "escaped"}, End(code),
         UNCHANGED <<port, postchecked>>, aborted' \in BOOLEAN,
         aborted => aborted',
         call' \in Settled \cup {"none", "pending"}, race' \in {"none", "call", "abort"},
         port = "supplied" => race' = "none" /\ call' \in {"none", "pending"},
         race' = "call" => call' \in Settled,
         race' = "abort" => aborted' /\ code = "aborted",
         race' = "call" /\ call' = "fault" => code = "declared",
         code = "value" /\ port = "adapter" => call' = "ok",
         code = "aborted" => aborted'
  PROVE  PortInv'
<1>1. stage' = "done" /\ outcome' = code /\ listening' = FALSE
  BY DEF End
<1>2. PortTypeOK'
  BY <1>1 DEF PortInv, PortTypeOK
<1>3. RaceOpen'
  BY <1>1 DEF PortInv, PortTypeOK, RaceOpen
<1>4. AnswersFollow'
  BY <1>1 DEF PortInv, PortTypeOK, AnswersFollow, Codes
<1> QED BY <1>2, <1>3, <1>4 DEF PortInv

\* A promise that is raced, from the request or from the raced mechanism.
LEMMA RaceKeeps ==
  ASSUME PortInv, answer = "none", answer' = "none", outcome = "none", port = "adapter",
         NEW next \in {"mechanism", "postcheck"}, NEW promise \in Settled \cup {"pending"},
         Race(next, promise),
         UNCHANGED <<port, postchecked>>, aborted' \in BOOLEAN, aborted => aborted'
  PROVE  PortInv'
<1>1. CASE aborted'
  <2>1. /\ call' = promise /\ End("aborted") /\ race' = "abort" /\ "aborted" \in Codes
    BY <1>1 DEF Race, Codes
  <2>2. port \in {"adapter", "supplied"} /\ port # "supplied"
    OBVIOUS
  <2> QED BY <1>1, <2>1, <2>2, EndKeeps
<1>2. CASE ~aborted'
  <2>1. /\ call' = promise /\ stage' = next /\ listening' = TRUE /\ outcome' = "none"
        /\ race' = IF promise = "pending" THEN "none" ELSE "call"
    BY <1>2 DEF Race
  <2>2. PortTypeOK'
    BY <1>2, <2>1 DEF PortInv, PortTypeOK
  <2>3. RaceOpen'
    BY <1>2, <2>1 DEF PortInv, PortTypeOK, RaceOpen, Settled
  <2>4. AnswersFollow'
    BY <1>2, <2>1 DEF PortInv, PortTypeOK, AnswersFollow
  <2> QED BY <2>2, <2>3, <2>4 DEF PortInv
<1> QED BY <1>1, <1>2

\* The request, down to the mechanism's synchronous part.
LEMMA InvokeKeeps ==
  ASSUME PortInv, NEW p \in Settled \cup {"pending"}, Invoke(p)
  PROVE  PortInv'
<1>1. /\ stage = "entry" /\ answer = "none" /\ UNCHANGED <<port, postchecked>>
      /\ call = "none" /\ race = "none" /\ ~listening /\ outcome = "none"
  BY DEF Invoke, PortInv, RaceOpen
<1>2. CASE /\ \/ aborted /\ answer' = "aborted"
              \/ answer' = "schema-parse-failure"
           /\ UNCHANGED <<aborted, stage, call, race, listening, outcome>>
  <2>1. PortTypeOK'
    BY <1>1, <1>2 DEF PortInv, PortTypeOK, Codes
  <2>2. RaceOpen'
    BY <1>1, <1>2 DEF PortInv, PortTypeOK, RaceOpen
  <2>3. AnswersFollow'
    BY <1>1, <1>2 DEF PortInv, PortTypeOK, AnswersFollow
  <2> QED BY <2>1, <2>2, <2>3 DEF PortInv
<1>3. CASE ~aborted /\ port = "adapter" /\ Enter(p) /\ UNCHANGED answer
  <2>1. CASE /\ \E code \in {"schema-parse-failure", "declared", "port-failure"} : End(code)
             /\ UNCHANGED <<aborted, call, race>>
    BY <1>1, <1>3, <2>1, EndKeeps DEF Codes, PortInv, PortTypeOK
  <2>2. CASE aborted' \in {aborted, TRUE} /\ Race("mechanism", p)
    <3>1. aborted' = FALSE \/ aborted' = TRUE
      BY <1>3, <2>2 DEF PortInv, PortTypeOK
    <3>2. aborted' \in BOOLEAN /\ (aborted => aborted')
      BY <1>3, <3>1
    <3> QED BY <1>1, <1>3, <2>2, <3>2, RaceKeeps
  <2> QED BY <1>3, <2>1, <2>2 DEF Enter
<1>4. CASE /\ port = "supplied" /\ stage' = "mechanism" /\ call' = "pending"
           /\ UNCHANGED <<aborted, race, listening, outcome, answer>>
  <2>1. PortTypeOK'
    BY <1>1, <1>4 DEF PortInv, PortTypeOK
  <2>2. RaceOpen'
    BY <1>1, <1>4 DEF PortInv, PortTypeOK, RaceOpen
  <2>3. AnswersFollow'
    BY <1>1, <1>4 DEF PortInv, PortTypeOK, AnswersFollow
  <2> QED BY <2>1, <2>2, <2>3 DEF PortInv
<1> QED BY <1>2, <1>3, <1>4 DEF Invoke

\* The code after the raced mechanism.
LEMMA ResumeKeeps == PortInv /\ Resume => PortInv'
<1> SUFFICES ASSUME PortInv, Resume PROVE PortInv'
  OBVIOUS
<1>1. /\ port = "adapter" /\ stage = "mechanism" /\ race # "none"
      /\ UNCHANGED <<aborted, port, postchecked, answer>>
      /\ answer = "none" /\ outcome = "none"
      /\ aborted \in BOOLEAN /\ race \in {"none", "call", "abort"}
      /\ call \in Settled \cup {"none", "pending"}
      /\ race = "call" => call \in Settled
      /\ race = "abort" => aborted
      /\ port # "supplied"
  BY DEF Resume, PortInv, PortTypeOK, RaceOpen
<1>2. CASE race = "abort" /\ End("aborted") /\ UNCHANGED <<call, race>>
  <2>1. "aborted" \in Codes
    BY DEF Codes
  <2> QED BY <1>1, <1>2, <2>1, EndKeeps
<1>3. CASE race = "call" /\ call # "ok" /\ UNCHANGED <<call, race>> /\ End(Translated)
  <2>1. /\ Translated \in Codes /\ Translated # "value"
        /\ call = "fault" => Translated = "declared"
        /\ Translated = "aborted" => aborted
    BY DEF Translated, Codes
  <2>2. \A code \in Codes : End(code) /\ code # "value"
          /\ (call = "fault" => code = "declared") /\ (code = "aborted" => aborted) => PortInv'
    BY <1>1, <1>3, EndKeeps
  <2> QED BY <1>3, <2>1, <2>2
<1>4. CASE race = "call" /\ call = "ok" /\ Assemble /\ UNCHANGED <<call, race>>
  <2>1. PICK code \in {"value", "port-contract-violation", "escaped"} : End(code)
    BY <1>4 DEF Assemble
  <2>2. code \in Codes \cup {"value", "escaped"}
    BY DEF Codes
  <2> QED BY <1>1, <1>4, <2>1, <2>2, EndKeeps
<1>5. CASE race = "call" /\ call = "ok" /\ Race("postcheck", "pending")
  BY <1>1, <1>5, RaceKeeps
<1> QED BY <1>2, <1>3, <1>4, <1>5 DEF Resume

\* The code after the raced postcheck.
LEMMA ResumePostcheckKeeps == PortInv /\ ResumePostcheck => PortInv'
<1> SUFFICES ASSUME PortInv, ResumePostcheck PROVE PortInv'
  OBVIOUS
<1>1. /\ port = "adapter" /\ port # "supplied" /\ stage = "postcheck" /\ race # "none"
      /\ UNCHANGED <<aborted, port, postchecked, call, race, answer>>
      /\ answer = "none" /\ outcome = "none"
      /\ aborted \in BOOLEAN /\ race \in {"none", "call", "abort"}
      /\ call \in Settled \cup {"none", "pending"}
      /\ race = "call" => call \in Settled
      /\ race = "abort" => aborted
  BY DEF ResumePostcheck, PortInv, PortTypeOK, RaceOpen
<1>2. PICK code \in Codes \cup {"value", "escaped"} :
         /\ End(code)
         /\ \/ race = "abort" /\ code = "aborted"
            \/ race = "call" /\ call = "fault" /\ code = "declared"
            \/ race = "call" /\ call = "error" /\ code = "port-failure"
            \/ /\ race = "call" /\ call = "ok"
               /\ code \in {"value", "port-contract-violation", "escaped"}
  BY DEF ResumePostcheck, Assemble, Codes
<1> QED BY <1>1, <1>2, EndKeeps

\* invokePort's own answer, from how the port ended.
LEMMA AnswerKeeps == PortInv /\ Answer => PortInv'
<1> SUFFICES ASSUME PortInv, Answer PROVE PortInv'
  OBVIOUS
<1>1. /\ stage = "done" /\ answer = "none"
      /\ UNCHANGED <<port, postchecked, stage, call, outcome, aborted, race, listening>>
  BY DEF Answer, signalVars
<1>2. /\ answer' \in Codes \cup {"value"}
      /\ outcome \in Codes => answer' = outcome
      /\ outcome = "value" => answer' \in {"value", "port-contract-violation"}
      /\ outcome = "escaped" => answer' \in {"aborted", "port-failure"}
      /\ answer' = "aborted" => aborted
  <2>1. outcome = "aborted" => aborted
    BY DEF PortInv, AnswersFollow
  <2> QED BY <2>1 DEF Answer, Codes
<1>3. PortTypeOK'
  BY <1>1, <1>2 DEF PortInv, PortTypeOK
<1>4. RaceOpen'
  BY <1>1 DEF PortInv, RaceOpen
<1>5. AnswersFollow'
  BY <1>1, <1>2 DEF PortInv, AnswersFollow
<1> QED BY <1>3, <1>4, <1>5 DEF PortInv

\* The promise in flight settles; the abort may have been first.
LEMMA SettleKeeps ==
  ASSUME PortInv, NEW r \in Settled, Settle(r)
  PROVE  PortInv'
<1>1. /\ port = "adapter" /\ stage \in {"mechanism", "postcheck"} /\ call = "pending"
      /\ call' = r /\ race' = IF race = "none" THEN "call" ELSE race
      /\ UNCHANGED <<aborted, port, postchecked, stage, listening, outcome, answer>>
  BY DEF Settle
<1>2. PortTypeOK'
  BY <1>1 DEF PortInv, PortTypeOK
<1>3. RaceOpen'
  BY <1>1 DEF PortInv, PortTypeOK, RaceOpen, Settled
<1>4. AnswersFollow'
  BY <1>1 DEF PortInv, RaceOpen, AnswersFollow
<1> QED BY <1>2, <1>3, <1>4 DEF PortInv

\* A caller's own port settles.
LEMMA SupplierKeeps == PortInv /\ SupplierSettles => PortInv'
<1> SUFFICES ASSUME PortInv, SupplierSettles PROVE PortInv'
  OBVIOUS
<1>1. /\ port = "supplied" /\ stage = "mechanism" /\ stage' = "done"
      /\ outcome' \in {"value", "declared", "escaped"}
      /\ UNCHANGED <<port, postchecked, call, answer, aborted, race, listening>>
      /\ answer = "none" /\ race = "none" /\ ~listening
  BY DEF SupplierSettles, signalVars, PortInv, RaceOpen
<1>2. PortTypeOK'
  BY <1>1 DEF PortInv, PortTypeOK, Codes
<1>3. RaceOpen'
  BY <1>1 DEF PortInv, RaceOpen
<1>4. AnswersFollow'
  BY <1>1 DEF PortInv, AnswersFollow
<1> QED BY <1>2, <1>3, <1>4 DEF PortInv

\* Every step of a port call keeps PortInv.
LEMMA PortStepKeeps == PortInv /\ [PortNext]_portVars => PortInv'
<1> SUFFICES ASSUME PortInv, [PortNext]_portVars PROVE PortInv'
  OBVIOUS
<1>1. CASE UNCHANGED portVars
  BY <1>1 DEF portVars, signalVars, PortInv, PortTypeOK, RaceOpen, AnswersFollow
<1>2. CASE PortNext
  BY <1>2, AbortKeeps, InvokeKeeps, SettleKeeps, ResumeKeeps, ResumePostcheckKeeps,
     SupplierKeeps, AnswerKeeps DEF PortNext
<1> QED BY <1>1, <1>2

LEMMA PortInvDecides == PortInv => RaceDecides
BY DEF PortInv, PortTypeOK, RaceOpen, AnswersFollow, RaceDecides, Codes

\* The types of a port call and what its race keeps, for every execution.
THEOREM PortInvariant == PortSpec => []PortInv
<1>1. PortSpec => PortInit /\ [][PortNext]_portVars
  BY DEF PortSpec
<1> QED BY <1>1, PortInitInv, PortStepKeeps, PTL

\* Whichever of the mechanism and the abort came first decides, at both layers,
\* whatever settles when.
THEOREM RaceDecidesHolds == PortSpec => []RaceDecides
BY PortInvariant, PortInvDecides, PTL
=============================================================================
