------------------------------ MODULE McpProbe ------------------------------
(***************************************************************************)
(* One probe through the MCP adapter: src/src/adapters/mcp-adapter.ts.     *)
(*                                                                         *)
(* The mechanism of the port call is a session with a server run as a      *)
(* GroupedChild: initialize, then tools/call, each racing its answer       *)
(* against one failure promise that a cap, an abort, the timer, a line     *)
(* that is no message, a failed spawn and the server's end all reject.     *)
(* The awaits' continuations run in a microtask, so a second line of the   *)
(* same chunk or an abort may come before them; the model lets any event   *)
(* come between.  Teardown is in a finally and always kills the group.     *)
(***************************************************************************)
EXTENDS GroupedChild, PortCall

Streams == {"stdout", "stderr"}
Ids     == {"initialize", "tools/call"}

VARIABLES
  session,     \* "idle", "open", "torn"
  launched,    \* spawnInGroup returned a child
  pending,     \* requests sent and not answered
  waiting,     \* the request the caller awaits
  got,         \* what settled that request's race first
  broken,      \* fail() has nothing more to do
  failure,     \* what fail() rejected with
  handshaken,
  timer,       \* "off", armed with the start allowance ("start") or the "budget" alone
  past,        \* streams whose bytes passed maxOutputBytes
  watching,    \* the session's own listener is on the signal
  verdict      \* how callToolOverStdio ended

sessionVars == <<session, launched, pending, waiting, got, broken, failure, handshaken,
                 timer, past, watching, verdict>>
vars        == <<childVars, portVars, sessionVars>>

Answers  == {"result", "refusal", "neither"}

Init ==
  /\ ChildInit /\ PortInit /\ port = "adapter" /\ ~postchecked
  /\ session = "idle" /\ launched = FALSE /\ pending = {} /\ waiting = "none" /\ got = "none"
  /\ broken = FALSE /\ failure = "none" /\ handshaken = FALSE
  /\ timer = "off" /\ past = {} /\ watching = FALSE /\ verdict = "none"

-----------------------------------------------------------------------------
(* startSession.                                                           *)

\* fail(): the first failure rejects, and a request being awaited loses its race.
Fail(why) ==
  IF broken THEN UNCHANGED <<broken, failure, got>>
  ELSE /\ broken' = TRUE /\ failure' = why
       /\ got' = IF session = "open" /\ got = "none" THEN "failure" ELSE got

\* request(): sent, and raced against a failure that may have come already.
Request(id) ==
  /\ waiting' = id
  /\ pending' = pending \cup {id}
  /\ got' = IF failure = "none" THEN "none" ELSE "failure"

\* The call reaches the mechanism: a denial, a direct spawn that throws, or a server
\* launched and asked to initialize.
Probe ==
  /\ session = "idle"
  /\ UNCHANGED aborted
  /\ \/ /\ \E p \in {"fault", "error"} : (p = "error" => direct) /\ Invoke(p)
        /\ session' = IF stage' = "mechanism" THEN "torn" ELSE session
        /\ UNCHANGED <<launched, pending, waiting, got, timer, watching>>
     \/ /\ Invoke("pending") /\ stage' = "mechanism"
        /\ session' = "open" /\ launched' = TRUE
        /\ timer' = "start" /\ watching' = TRUE
        /\ Request("initialize")
  /\ UNCHANGED <<childVars, broken, failure, handshaken, past, verdict>>

SignalAborts ==
  /\ Abort
  /\ watching' = FALSE
  /\ IF watching THEN Fail("error") ELSE UNCHANGED <<broken, failure, got>>
  /\ UNCHANGED <<childVars, session, launched, pending, waiting, handshaken, timer, past, verdict>>

Elapsed ==
  /\ timer # "off"
  /\ timer' = "off"
  /\ Fail("fault")
  /\ UNCHANGED <<childVars, portVars, session, launched, pending, waiting, handshaken, past,
                 watching, verdict>>

\* 'spawn'.
Spawned ==
  /\ launched /\ ChildStart
  /\ timer' = IF broken THEN timer ELSE "budget"
  /\ UNCHANGED <<portVars, session, launched, pending, waiting, got, broken, failure,
                 handshaken, past, watching, verdict>>

\* The server's output reaches the host until this end is destroyed.
Readable == launched /\ phase # "closed" /\ ~stopped

\* A chunk takes a stream's bytes past the cap; what it holds is not read.
OutputPastCap(s) ==
  /\ Readable /\ s \notin past
  /\ past' = past \cup {s}
  /\ Fail("fault")
  /\ UNCHANGED <<childVars, portVars, session, launched, pending, waiting, handshaken, timer,
                 watching, verdict>>

\* Mutant: an answer settles the request being awaited, whichever it answers.
LineUncorrelated(id, reply) ==
  /\ Readable /\ "stdout" \notin past
  /\ pending' = pending \ {id}
  /\ got' = IF got = "none" THEN reply ELSE got
  /\ UNCHANGED <<childVars, portVars, session, launched, waiting, broken, failure, handshaken,
                 timer, past, watching, verdict>>

\* A line that answers a request by its id, the residual line at 'end' included; an
\* answer nobody waits for, before its request or after, is dropped.
AnswerLine(id, reply) ==
  /\ Readable /\ "stdout" \notin past
  /\ id \in pending
  /\ pending' = pending \ {id}
  /\ got' = IF got = "none" /\ id = waiting THEN reply ELSE got
  /\ UNCHANGED <<childVars, portVars, session, launched, waiting, broken, failure, handshaken,
                 timer, past, watching, verdict>>

\* A line that is not a JSON-RPC message.
MalformedLine ==
  /\ Readable /\ "stdout" \notin past
  /\ Fail("error")
  /\ UNCHANGED <<childVars, portVars, session, launched, pending, waiting, handshaken, timer,
                 past, watching, verdict>>

\* The handler of 'close'.
OnClose == IF how' = "lost" THEN Fail("error") ELSE Fail("ended")

\* The handler of 'error', if the child failed, and of a 'close' that comes with it.
Ended(h) ==
  /\ launched /\ ChildEnd(h) /\ UNCHANGED released
  /\ \/ h = "failed" /\ Fail("error")
     \/ h # "failed" /\ phase' = "closed" /\ OnClose
     \/ h # "failed" /\ phase' # "closed" /\ UNCHANGED <<broken, failure, got>>
  /\ UNCHANGED <<portVars, session, launched, pending, waiting, handshaken, timer, past,
                 watching, verdict>>

Closed ==
  /\ launched /\ ChildClose /\ UNCHANGED released
  /\ OnClose
  /\ UNCHANGED <<portVars, session, launched, pending, waiting, handshaken, timer, past,
                 watching, verdict>>

-----------------------------------------------------------------------------
(* callToolOverStdio: what runs after each await.                          *)

\* The promise the boundary races, by how the session ended.
Settlement(v) == IF v \in {"answered", "ended"} THEN "ok" ELSE v

\* Mutant: the group is killed and this end of the streams left open.
TeardownKillOnly(v) ==
  /\ session' = "torn" /\ broken' = TRUE /\ timer' = "off" /\ watching' = FALSE
  /\ killed' = TRUE /\ UNCHANGED <<direct, alive, phase, how, stopped, released>>
  /\ verdict' = v
  /\ IF stage = "mechanism" THEN Settle(Settlement(v)) ELSE UNCHANGED portVars
  /\ UNCHANGED <<pending, waiting, got, handshaken>>

\* The finally: close() ends stdin, kills the group and destroys both streams.
Teardown(v) ==
  /\ session' = "torn" /\ broken' = TRUE /\ timer' = "off" /\ watching' = FALSE
  /\ killed' = TRUE /\ stopped' = TRUE /\ UNCHANGED <<direct, alive, phase, how, released>>
  /\ verdict' = v
  /\ IF stage = "mechanism" THEN Settle(Settlement(v)) ELSE UNCHANGED portVars
  /\ UNCHANGED <<pending, waiting, got, handshaken>>

\* The process ending is an observation once the session was open, a fault before.
Thrown == IF failure # "ended" THEN failure ELSE IF handshaken THEN "ended" ELSE "error"

Continue ==
  /\ session = "open" /\ got # "none"
  /\ \/ got = "failure" /\ Teardown(Thrown)
     \/ got \in {"refusal", "neither"} /\ waiting = "initialize" /\ Teardown("error")
     \/ got # "failure" /\ waiting = "tools/call" /\ Teardown("answered")
     \/ /\ got = "result" /\ waiting = "initialize"
        /\ handshaken' = TRUE
        /\ Request("tools/call")
        /\ UNCHANGED <<childVars, portVars, session, broken, timer, watching, verdict>>
  /\ UNCHANGED <<launched, failure, past>>

Boundary == (Resume \/ Answer) /\ UNCHANGED <<childVars, sessionVars>>

ChildHows == {"own", "killed", "lost", "failed"}

Next ==
  \/ Probe
  \/ SignalAborts
  \/ Elapsed
  \/ Spawned
  \/ \E s \in Streams : OutputPastCap(s)
  \/ \E id \in Ids, reply \in Answers : AnswerLine(id, reply)
  \/ MalformedLine
  \/ \E h \in ChildHows : Ended(h)
  \/ Closed
  \/ Continue
  \/ Boundary

\* Timers fire and microtasks run; nothing is assumed of the server.
Fairness == WF_vars(Elapsed) /\ WF_vars(Continue) /\ WF_vars(Boundary)

Spec == Init /\ [][Next]_vars /\ Fairness
-----------------------------------------------------------------------------
(* What a probe of a tool server promises.                                 *)

\* Answers are matched to requests and ends to the server: the session is open only
\* once initialize was answered, a tool's answer is the answer to tools/call, sent after
\* that, and an end that is told is the server's own after the handshake, never this
\* package's kill or a lost watchdog.
AnswersCorrelated ==
  /\ handshaken => "initialize" \notin pending
  /\ verdict = "answered" => handshaken /\ "tools/call" \notin pending
  /\ verdict = "ended" => handshaken /\ how = "own" /\ phase = "closed"

\* A session is decided, though the server may answer nothing and never end.
SessionDecided == session = "open" ~> verdict # "none"

\* When the caller has its answer, promptly after an abort included, the server's
\* group is being killed and this end of its streams is gone.
ServerTornDown == launched /\ answer # "none" ~> killed /\ stopped

\* Whatever the server does, a session comes to its decision and the server does not
\* outlive it.
SessionEnds == SessionDecided /\ ServerTornDown
=============================================================================
