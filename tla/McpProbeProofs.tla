---------------------------- MODULE McpProbeProofs ----------------------------
(***************************************************************************)
(* One probe of a tool server, whatever the server writes and whenever the *)
(* abort comes: SessionInv is inductive, answers are matched to requests   *)
(* and an end that is told is the server's own.  A probe is a port call,   *)
(* and the adapter obeys what its child's specification asks of an owner.  *)
(***************************************************************************)
EXTENDS McpProbe, PortCallProofs

SessionTypeOK ==
  /\ session \in {"idle", "open", "torn"}
  /\ pending \subseteq Ids /\ waiting \in Ids \cup {"none"}
  /\ got \in Answers \cup {"none", "failure"}
  /\ failure \in {"none", "error", "fault", "ended"}
  /\ verdict \in {"none", "answered", "error", "fault", "ended"}
  /\ broken \in BOOLEAN /\ handshaken \in BOOLEAN /\ launched \in BOOLEAN

\* A session in progress awaits the one request that its handshake is at, and one that
\* is over has failed or was never launched; what it lost a race to is a failure.
SessionKnown ==
  /\ session = "idle" => ~launched /\ ~broken /\ ~handshaken /\ failure = "none"
  /\ session # "torn" => verdict = "none"
  /\ session = "open" => launched /\ waiting \in Ids /\ (waiting = "tools/call" <=> handshaken)
  /\ session = "open" /\ got \in Answers => waiting \notin pending
  /\ session = "torn" => broken \/ ~launched
  /\ ~launched => timer = "off" /\ ~watching
  /\ failure # "none" => broken
  /\ got = "failure" => failure # "none"

\* The group is killed only after the session broke, unless the watchdog was lost, so
\* an end heard before the session broke is the server's own.
ServerKnown ==
  /\ alive = TRUE /\ ~released
  /\ phase \in {"pending", "running", "ended", "closed"}
  /\ how = "none" <=> phase \in {"pending", "running"}
  /\ how = "killed" => killed
  /\ killed => broken \/ how = "lost"
  /\ how = "failed" => broken
  /\ how \in {"none", "own", "killed", "lost", "failed"}
  /\ failure = "ended" => how = "own" /\ phase = "closed"

\* What a session adds to the port call it is the mechanism of.
ServerInv  == SessionTypeOK /\ SessionKnown /\ ServerKnown /\ AnswersCorrelated
SessionInv == PortInv /\ ServerInv

-----------------------------------------------------------------------------
(* A probe is a port call.                                                 *)

\* A teardown settles the promise the boundary races, if it still races it.
LEMMA TeardownPort ==
  ASSUME NEW v \in {"answered", "ended", "error", "fault"}, Teardown(v)
  PROVE  [PortNext]_portVars
<1>1. Settlement(v) \in Settled
  BY DEF Settlement, Settled
<1> QED BY <1>1 DEF Teardown, PortNext

\* What a request that lost its race tells.
LEMMA ThrownKnown ==
  ASSUME ServerInv, got = "failure"
  PROVE  Thrown \in {"ended", "error", "fault"}
BY DEF ServerInv, SessionTypeOK, SessionKnown, Thrown

\* Every step of a probe is a step of the port call or leaves it alone.
LEMMA McpPortStep == ServerInv /\ [Next]_vars => [PortNext]_portVars
<1> SUFFICES ASSUME ServerInv, [Next]_vars PROVE [PortNext]_portVars
  OBVIOUS
<1>1. CASE Probe
  <2>1. \E p \in Settled \cup {"pending"} : Invoke(p)
    BY <1>1 DEF Probe, Settled
  <2> QED BY <2>1 DEF PortNext
<1>2. CASE SignalAborts
  BY <1>2 DEF SignalAborts, PortNext
<1>3. CASE Boundary
  BY <1>3 DEF Boundary, PortNext
<1>4. CASE Continue
  <2>1. UNCHANGED portVars \/ \E v \in {"answered", "ended", "error", "fault"} : Teardown(v)
    BY <1>4, ThrownKnown DEF Continue
  <2> QED BY <2>1, TeardownPort
<1>5. CASE \/ Elapsed \/ Spawned \/ MalformedLine \/ Closed
           \/ \E s \in Streams : OutputPastCap(s)
           \/ \E id \in Ids, reply \in Answers : AnswerLine(id, reply)
           \/ \E h \in ChildHows : Ended(h)
  BY <1>5 DEF Elapsed, Spawned, MalformedLine, Closed, OutputPastCap, AnswerLine, Ended
<1>6. CASE UNCHANGED vars
  BY <1>6 DEF vars
<1> QED BY <1>1, <1>2, <1>3, <1>4, <1>5, <1>6 DEF Next

-----------------------------------------------------------------------------
(* One lemma for each action.                                              *)

LEMMA SessionInitInv == Init => SessionInv
<1> SUFFICES ASSUME Init PROVE SessionInv
  OBVIOUS
<1>1. PortInv
  BY PortInitInv DEF Init
<1>2. SessionTypeOK /\ SessionKnown
  BY DEF Init, SessionTypeOK, SessionKnown, Answers
<1>3. ServerKnown /\ AnswersCorrelated
  BY DEF Init, ChildInit, ServerKnown, AnswersCorrelated
<1> QED BY <1>1, <1>2, <1>3 DEF SessionInv, ServerInv

\* What fail() changes: nothing once the session broke, and otherwise the one failure
\* every request awaited from now on loses its race to.
LEMMA FailKnown ==
  ASSUME ServerInv, NEW why \in {"error", "fault", "ended"}, Fail(why)
  PROVE  \/ broken /\ UNCHANGED <<broken, failure, got>>
         \/ /\ ~broken /\ broken' = TRUE /\ failure' = why
            /\ got' \in {got, "failure"}
BY DEF Fail

\* A failure of an open or finished session keeps the invariant, whatever it is, if
\* only an own end at its 'close' is told as the server's end.
LEMMA FailKeeps ==
  ASSUME ServerInv, launched, NEW why \in {"error", "fault", "ended"}, Fail(why),
         UNCHANGED <<session, launched, pending, waiting, handshaken, verdict>>,
         alive' = TRUE, UNCHANGED released,
         how' \in {"none", "own", "killed", "lost", "failed"},
         how # "none" => how' = how,
         phase' \in {"pending", "running", "ended", "closed"},
         how' = "none" <=> phase' \in {"pending", "running"},
         phase = "closed" => phase' = "closed",
         how' = "killed" => killed',
         killed' => killed \/ how' = "lost",
         why = "ended" /\ ~broken => how' = "own" /\ phase' = "closed"
  PROVE  ServerInv'
<1>1. /\ broken' = TRUE
      /\ \/ broken /\ UNCHANGED <<failure, got>>
         \/ ~broken /\ failure' = why /\ got' \in {got, "failure"}
  BY FailKnown DEF ServerInv, SessionTypeOK
<1>2. SessionTypeOK'
  BY <1>1 DEF ServerInv, SessionTypeOK
<1>3. SessionKnown'
  BY <1>1 DEF ServerInv, SessionTypeOK, SessionKnown, Answers
<1>4. ServerKnown'
  BY <1>1 DEF ServerInv, ServerKnown, SessionKnown
<1>5. AnswersCorrelated'
  BY DEF ServerInv, AnswersCorrelated, ServerKnown
<1> QED BY <1>2, <1>3, <1>4, <1>5 DEF ServerInv

\* A step that changes nothing the invariant speaks of.
LEMMA StillKeeps ==
  ASSUME ServerInv, UNCHANGED childVars,
         UNCHANGED <<session, launched, pending, waiting, got, broken, failure, handshaken, verdict>>,
         ~launched /\ timer = "off" /\ ~watching => timer' = "off" /\ ~watching'
  PROVE  ServerInv'
BY DEF ServerInv, SessionTypeOK, SessionKnown, ServerKnown, AnswersCorrelated, childVars

\* The abort, the timer, a cap and a line that is no message fail the session.
LEMMA FailuresKeep ==
  ASSUME SessionInv,
         SignalAborts \/ Elapsed \/ MalformedLine \/ \E s \in Streams : OutputPastCap(s)
  PROVE  ServerInv'
<1>1. /\ UNCHANGED childVars
      /\ UNCHANGED <<session, launched, pending, waiting, handshaken, verdict>>
  BY DEF SignalAborts, Elapsed, MalformedLine, OutputPastCap
<1>2. \/ UNCHANGED <<broken, failure, got>>
      \/ \E why \in {"error", "fault"} : Fail(why)
  BY DEF SignalAborts, Elapsed, MalformedLine, OutputPastCap
<1>3. CASE UNCHANGED <<broken, failure, got>>
  <2>1. ~launched /\ timer = "off" /\ ~watching => timer' = "off" /\ ~watching'
    BY DEF SignalAborts, Elapsed, MalformedLine, OutputPastCap
  <2> QED BY <1>1, <1>3, <2>1, StillKeeps DEF SessionInv
<1>4. CASE \E why \in {"error", "fault"} : Fail(why)
  <2>1. PICK why \in {"error", "fault"} : Fail(why)
    BY <1>4
  <2>2. /\ alive' = TRUE /\ UNCHANGED <<released, how, phase, killed>>
        /\ how' \in {"none", "own", "killed", "lost", "failed"}
        /\ phase' \in {"pending", "running", "ended", "closed"}
        /\ how' = "none" <=> phase' \in {"pending", "running"}
        /\ how' = "killed" => killed'
    BY <1>1 DEF SessionInv, ServerInv, ServerKnown, childVars
  <2>3. CASE launched
    BY <1>1, <2>1, <2>2, <2>3, FailKeeps DEF SessionInv
  <2>4. CASE ~launched
    <3>1. UNCHANGED <<broken, failure, got>> /\ (timer = "off" /\ ~watching => timer' = "off" /\ ~watching')
      BY <2>4 DEF SessionInv, ServerInv, SessionKnown, SignalAborts, Elapsed, MalformedLine,
         OutputPastCap, Readable
    <3> QED BY <1>1, <3>1, StillKeeps DEF SessionInv
  <2> QED BY <2>3, <2>4
<1> QED BY <1>2, <1>3, <1>4

\* An answer settles only the request it answers.
LEMMA AnswerLineKeeps ==
  ASSUME SessionInv, NEW id \in Ids, NEW reply \in Answers, AnswerLine(id, reply)
  PROVE  ServerInv'
<1> USE DEF SessionInv, ServerInv
<1>1. /\ id \in pending /\ pending' = pending \ {id}
      /\ got' = IF got = "none" /\ id = waiting THEN reply ELSE got
      /\ UNCHANGED <<direct, alive, phase, how, killed, stopped, released>>
      /\ UNCHANGED <<session, launched, waiting, broken, failure, handshaken, verdict>>
      /\ UNCHANGED <<timer, watching>>
  BY DEF AnswerLine, childVars
<1>2. SessionTypeOK'
  BY <1>1 DEF SessionTypeOK
<1>3. SessionKnown'
  BY <1>1 DEF SessionTypeOK, SessionKnown, Answers
<1>4. ServerKnown' /\ AnswersCorrelated'
  BY <1>1 DEF ServerKnown, AnswersCorrelated
<1> QED BY <1>2, <1>3, <1>4

\* The request, denied or sent to a server.
LEMMA McpProbeKeeps == SessionInv /\ Probe => ServerInv'
<1> SUFFICES ASSUME SessionInv, Probe PROVE ServerInv'
  OBVIOUS
<1> USE DEF SessionInv, ServerInv
<1>1. /\ session = "idle" /\ ~launched /\ ~broken /\ ~handshaken /\ failure = "none"
      /\ UNCHANGED <<direct, alive, phase, how, killed, stopped, released>>
      /\ UNCHANGED <<broken, failure, handshaken, past, verdict>> /\ verdict = "none"
  BY DEF Probe, childVars, SessionKnown
<1>2. ServerKnown'
  BY <1>1 DEF ServerKnown
<1>3. AnswersCorrelated'
  BY <1>1 DEF AnswersCorrelated
<1>4. CASE /\ session' \in {"idle", "torn"}
           /\ UNCHANGED <<launched, pending, waiting, got, timer, watching>>
  <2>1. SessionTypeOK' /\ SessionKnown'
    BY <1>1, <1>4 DEF SessionTypeOK, SessionKnown
  <2> QED BY <1>2, <1>3, <2>1
<1>5. CASE session' = "open" /\ launched' = TRUE /\ Request("initialize")
  <2>1. /\ waiting' = "initialize" /\ pending' = pending \cup {"initialize"} /\ got' = "none"
        /\ "initialize" \in Ids
    BY <1>1, <1>5 DEF Request, Ids
  <2>2. SessionTypeOK' /\ SessionKnown'
    BY <1>1, <1>5, <2>1 DEF SessionTypeOK, SessionKnown, Answers
  <2> QED BY <1>2, <1>3, <2>2
<1>6. \/ session' \in {"idle", "torn"} /\ UNCHANGED <<launched, pending, waiting, got, timer, watching>>
      \/ session' = "open" /\ launched' = TRUE /\ Request("initialize")
  BY <1>1 DEF Probe
<1> QED BY <1>4, <1>5, <1>6

\* The server's 'spawn'.
LEMMA McpSpawnedKeeps == SessionInv /\ Spawned => ServerInv'
<1> SUFFICES ASSUME SessionInv, Spawned PROVE ServerInv'
  OBVIOUS
<1> USE DEF SessionInv, ServerInv
<1>1. /\ launched /\ phase = "pending" /\ phase' = "running"
      /\ UNCHANGED <<alive, how, killed, stopped, released>>
      /\ UNCHANGED <<session, launched, pending, waiting, got, broken, failure, handshaken, verdict>>
  BY DEF Spawned, ChildStart
<1>2. SessionTypeOK' /\ SessionKnown'
  BY <1>1 DEF SessionTypeOK, SessionKnown
<1>3. ServerKnown' /\ AnswersCorrelated'
  BY <1>1 DEF ServerKnown, AnswersCorrelated
<1> QED BY <1>2, <1>3

\* The server's end, and the 'close' that may come with it: before the session broke
\* nothing was killed, so it is a lost watchdog's or the server's own.
LEMMA McpEndedKeeps == SessionInv /\ (\E h \in ChildHows : Ended(h)) => ServerInv'
<1> SUFFICES ASSUME SessionInv, NEW h \in ChildHows, Ended(h) PROVE ServerInv'
  OBVIOUS
<1>1. /\ launched /\ phase \in {"pending", "running"} /\ phase' \in {"ended", "closed"}
      /\ how = "none" /\ how' = h /\ h \in {"own", "killed", "lost", "failed"}
      /\ UNCHANGED released /\ alive' = TRUE
      /\ UNCHANGED <<session, launched, pending, waiting, handshaken, timer, watching, verdict>>
  BY DEF Ended, ChildEnd, ChildHows, SessionInv, ServerInv, ServerKnown
<1>2. /\ h = "killed" => killed
      /\ killed' => killed \/ h = "lost"
      /\ killed => killed' /\ broken
  <2>1. \/ UNCHANGED killed /\ (h = "killed" => killed) /\ h # "lost"
        \/ killed' = TRUE /\ h = "lost"
    BY DEF Ended, ChildEnd
  <2>2. killed => broken
    BY <1>1 DEF SessionInv, ServerInv, ServerKnown
  <2>3. CASE UNCHANGED killed /\ (h = "killed" => killed) /\ h # "lost"
    BY <2>2, <2>3
  <2>4. CASE killed' = TRUE /\ h = "lost"
    BY <2>2, <2>4
  <2> QED BY <2>1, <2>3, <2>4
<1>3. \A why \in {"error", "fault", "ended"} :
        Fail(why) /\ (why = "ended" /\ ~broken => h = "own" /\ phase' = "closed") => ServerInv'
  BY <1>1, <1>2, FailKeeps DEF SessionInv
<1>4. CASE h = "failed" /\ Fail("error")
  BY <1>3, <1>4
<1>5. CASE h # "failed" /\ phase' = "closed" /\ OnClose
  <2>1. CASE h = "lost"
    BY <1>1, <1>3, <1>5, <2>1 DEF OnClose
  <2>2. CASE h # "lost"
    BY <1>1, <1>2, <1>3, <1>5, <2>2 DEF OnClose
  <2> QED BY <2>1, <2>2
<1>6. CASE h # "failed" /\ phase' # "closed" /\ UNCHANGED <<broken, failure, got>>
  <2>1. SessionTypeOK' /\ SessionKnown'
    BY <1>1, <1>6 DEF SessionInv, ServerInv, SessionTypeOK, SessionKnown
  <2>2. ServerKnown' /\ AnswersCorrelated'
    BY <1>1, <1>2, <1>6 DEF SessionInv, ServerInv, ServerKnown, AnswersCorrelated
  <2> QED BY <2>1, <2>2 DEF ServerInv
<1> QED BY <1>4, <1>5, <1>6 DEF Ended

\* 'close', the server's streams having outlived it.
LEMMA McpClosedKeeps == SessionInv /\ Closed => ServerInv'
<1> SUFFICES ASSUME SessionInv, Closed PROVE ServerInv'
  OBVIOUS
<1>1. /\ launched /\ phase = "ended" /\ phase' = "closed" /\ alive' = TRUE
      /\ UNCHANGED <<how, killed, released>> /\ OnClose
      /\ UNCHANGED <<session, launched, pending, waiting, handshaken, timer, watching, verdict>>
  BY DEF Closed, ChildClose, SessionInv, ServerInv, ServerKnown
<1>2. /\ how \in {"own", "killed", "lost", "failed"}
      /\ how = "killed" => killed
      /\ killed => broken \/ how = "lost"
      /\ how = "failed" => broken
  BY <1>1 DEF SessionInv, ServerInv, ServerKnown
<1>3. \A why \in {"error", "fault", "ended"} :
        Fail(why) /\ (why = "ended" /\ ~broken => how = "own") => ServerInv'
  BY <1>1, <1>2, FailKeeps DEF SessionInv
<1>4. CASE how = "lost"
  BY <1>1, <1>3, <1>4 DEF OnClose
<1>5. CASE how # "lost"
  BY <1>1, <1>2, <1>3, <1>5 DEF OnClose
<1> QED BY <1>4, <1>5

\* The session is over, by what it came to.
LEMMA TeardownKeeps ==
  ASSUME SessionInv, session = "open", NEW v \in {"answered", "ended", "error", "fault"},
         Teardown(v), UNCHANGED <<launched, failure>>,
         v = "answered" => handshaken /\ "tools/call" \notin pending,
         v = "ended" => handshaken /\ how = "own" /\ phase = "closed"
  PROVE  ServerInv'
<1> USE DEF SessionInv, ServerInv
<1>1. /\ session' = "torn" /\ broken' = TRUE /\ verdict' = v /\ killed' = TRUE
      /\ timer' = "off" /\ watching' = FALSE
      /\ UNCHANGED <<alive, phase, how, released, pending, waiting, got, handshaken>>
  BY DEF Teardown
<1>2. SessionTypeOK' /\ SessionKnown'
  BY <1>1 DEF SessionTypeOK, SessionKnown
<1>3. ServerKnown' /\ AnswersCorrelated'
  BY <1>1 DEF ServerKnown, AnswersCorrelated
<1> QED BY <1>2, <1>3

\* What runs after each await.
LEMMA ContinueKeeps == SessionInv /\ Continue => ServerInv'
<1> SUFFICES ASSUME SessionInv, Continue PROVE ServerInv'
  OBVIOUS
<1> USE DEF SessionInv, ServerInv
<1>1. /\ session = "open" /\ got # "none" /\ UNCHANGED <<launched, failure, past>>
      /\ launched /\ waiting \in {"initialize", "tools/call"} /\ (waiting = "tools/call" <=> handshaken)
      /\ got \in Answers => waiting \notin pending
      /\ got \in Answers \cup {"failure"}
  BY DEF Continue, SessionTypeOK, SessionKnown, Ids
<1>2. CASE got = "failure" /\ Teardown(Thrown)
  <2>1. Thrown = "ended" => handshaken /\ how = "own" /\ phase = "closed"
    BY DEF Thrown, ServerKnown
  <2>2. Thrown \in {"ended", "error", "fault"}
    BY <1>2, ThrownKnown
  <2>3. \A v \in {"ended", "error", "fault"} :
          Teardown(v) /\ (v = "ended" => handshaken /\ how = "own" /\ phase = "closed") => ServerInv'
    BY <1>1, TeardownKeeps
  <2> QED BY <1>2, <2>1, <2>2, <2>3
<1>3. CASE Teardown("error")
  BY <1>1, <1>3, TeardownKeeps
<1>4. CASE got # "failure" /\ waiting = "tools/call" /\ Teardown("answered")
  BY <1>1, <1>4, TeardownKeeps
<1>5. CASE /\ got = "result" /\ waiting = "initialize"
           /\ handshaken' = TRUE
           /\ Request("tools/call")
           /\ UNCHANGED <<childVars, portVars, session, broken, timer, watching, verdict>>
  <2>1. /\ waiting' = "tools/call" /\ pending' = pending \cup {"tools/call"}
        /\ got' = (IF failure = "none" THEN "none" ELSE "failure")
        /\ "tools/call" \in Ids /\ "initialize" \notin pending /\ "initialize" # "tools/call"
    BY <1>1, <1>5 DEF Request, Ids, Answers
  <2>2. UNCHANGED <<alive, phase, how, killed, released>>
    BY <1>5 DEF childVars
  <2>3. SessionTypeOK' /\ SessionKnown'
    BY <1>1, <1>5, <2>1 DEF SessionTypeOK, SessionKnown, Answers
  <2>4. ServerKnown' /\ AnswersCorrelated'
    BY <1>1, <1>5, <2>1, <2>2 DEF ServerKnown, AnswersCorrelated, SessionKnown
  <2> QED BY <2>3, <2>4
<1> QED BY <1>2, <1>3, <1>4, <1>5 DEF Continue

\* Every step of a probe keeps SessionInv.
LEMMA SessionStepKeeps == SessionInv /\ [Next]_vars => SessionInv'
<1> SUFFICES ASSUME SessionInv, [Next]_vars PROVE SessionInv'
  OBVIOUS
<1>1. PortInv'
  BY McpPortStep, PortStepKeeps DEF SessionInv
<1>2. CASE Boundary \/ UNCHANGED vars
  BY <1>1, <1>2, StillKeeps DEF Boundary, vars, sessionVars, SessionInv
<1>3. CASE Next /\ ~Boundary
  <2>1. ServerInv'
    BY <1>3, McpProbeKeeps, FailuresKeep, McpSpawnedKeeps, AnswerLineKeeps, McpEndedKeeps,
       McpClosedKeeps, ContinueKeeps DEF Next
  <2> QED BY <1>1, <2>1 DEF SessionInv
<1> QED BY <1>2, <1>3

-----------------------------------------------------------------------------
(* What a probe of a tool server promises, for every server and every abort. *)

\* The types of a probe, what is known of its session and of its server.
THEOREM SessionInvariant == Spec => []SessionInv
<1>1. Spec => Init /\ [][Next]_vars
  BY DEF Spec
<1> QED BY <1>1, SessionInitInv, SessionStepKeeps, PTL

\* A tool's answer is the answer to tools/call, sent after initialize was answered, and
\* an end that is told is the server's own, never this package's kill.
THEOREM AnswersCorrelatedHolds == Spec => []AnswersCorrelated
<1>1. SessionInv => AnswersCorrelated
  BY DEF SessionInv, ServerInv
<1> QED BY <1>1, SessionInvariant, PTL

\* A probe is a port call, so whichever of its mechanism and the abort came first
\* decides.
THEOREM McpProbeIsPortCall == Spec => PortInit /\ [][PortNext]_portVars /\ []RaceDecides
<1>1. Spec => Init /\ [][Next]_vars
  BY DEF Spec
<1>2. Init => PortInit
  BY DEF Init
<1>3. SessionInv => RaceDecides /\ ServerInv
  BY PortInvDecides DEF SessionInv
<1> QED BY <1>1, <1>2, <1>3, McpPortStep, SessionInvariant, PTL

\* Every step of a probe is a step its child's specification allows.
LEMMA McpChildStep == SessionInv /\ [Next]_vars => [ChildNext]_childVars
<1> SUFFICES ASSUME SessionInv, [Next]_vars PROVE [ChildNext]_childVars
  OBVIOUS
<1>1. CASE Continue
  <2>1. UNCHANGED childVars \/ \E v : Teardown(v)
    BY <1>1 DEF Continue
  <2>2. \A v : Teardown(v) => ChildStop
    BY DEF Teardown, ChildStop, SessionInv, ServerInv, ServerKnown
  <2> QED BY <2>1, <2>2 DEF ChildNext
<1>2. CASE Spawned
  BY <1>2 DEF Spawned, ChildNext, ChildEvent
<1>3. CASE \E h \in ChildHows : Ended(h)
  BY <1>3 DEF Ended, ChildHows, ChildNext, ChildEvent
<1>4. CASE Closed
  BY <1>4 DEF Closed, ChildNext, ChildEvent
<1>5. CASE \/ Probe \/ SignalAborts \/ Elapsed \/ MalformedLine \/ Boundary
           \/ \E s \in Streams : OutputPastCap(s)
           \/ \E id \in Ids, reply \in Answers : AnswerLine(id, reply)
  BY <1>5 DEF Probe, SignalAborts, Elapsed, MalformedLine, Boundary, OutputPastCap, AnswerLine
<1>6. CASE UNCHANGED vars
  BY <1>6 DEF vars
<1> QED BY <1>1, <1>2, <1>3, <1>4, <1>5, <1>6 DEF Next

\* The adapter obeys the child's specification: it stops its server once, in the
\* finally, and never releases it.
THEOREM McpObeysChild == Spec => [][ChildNext]_childVars
<1>1. Spec => [][Next]_vars
  BY DEF Spec
<1> QED BY <1>1, SessionInvariant, McpChildStep, PTL
===============================================================================
