-------------------------- MODULE CommandProbeProofs --------------------------
(***************************************************************************)
(* One probe of a command, for every set of streams and of artifacts:      *)
(* ProbeInv is inductive, and from it an observation is whole, the adapter *)
(* obeys what ProcessGroup asks of its callers and nothing is left behind. *)
(* Every step is also a step of PortCall or a stutter, so its lemmas carry *)
(* over and RaceDecides holds of a probe too.                              *)
(***************************************************************************)
EXTENDS CommandProbe, PortCallProofs

ProbeTypeOK ==
  /\ run \in {"idle", "running", "settled", "reading", "over"}
  /\ verdict \in {"none", "result", "budget", "error", "too-large", "abort"}
  /\ timer \in {"off", "start", "budget"}
  /\ launched \in BOOLEAN /\ timedOut \in BOOLEAN /\ overCap \in BOOLEAN /\ watching \in BOOLEAN
  /\ past \subseteq Streams
  /\ artifact \in [Artifacts -> {"unread", "whole", "truncated", "failed"}]
  /\ phase \in {"pending", "running", "ended", "closed"}
  /\ how \in {"none", "own", "killed", "lost", "failed"}
  /\ direct \in BOOLEAN /\ killed \in BOOLEAN /\ stopped \in BOOLEAN /\ released \in BOOLEAN

\* A child that was not launched does nothing; one that was ends once, a kill is this
\* side's, and only the run's end releases it.
ChildKnown ==
  /\ alive = TRUE
  /\ how = "none" <=> phase \in {"pending", "running"}
  /\ how = "killed" => killed
  /\ released => phase = "closed" /\ run # "running"
  /\ ~launched => phase = "pending" /\ ~killed

\* A run in progress is watched, raced and not over; one that is over armed nothing,
\* and killed its child unless the child was over first; a kill while it is in
\* progress is the timer's or the cap's, unless the watchdog was lost.
RunKnown ==
  /\ port = "adapter" /\ ~postchecked
  /\ run = "running" =>
       /\ launched /\ watching /\ stage = "mechanism" /\ race = "none"
       /\ how # "failed" /\ phase # "closed"
       /\ killed /\ how # "lost" => timedOut \/ overCap
  /\ run # "running" => timer = "off" /\ ~watching
  /\ run = "idle" => ~launched /\ ~timedOut /\ stage \in {"entry", "done"} /\ call = "none"
  /\ timedOut => timer = "off"
  /\ overCap <=> past # {}
  /\ launched /\ run # "running" => killed \/ phase = "closed" \/ how = "failed"

\* A result is of a run nothing cut short, and the promise succeeds only once every
\* artifact of it was read whole.
Whole == \A a \in Artifacts : artifact[a] = "whole"

ResultWhole ==
  /\ verdict = "result" =>
       /\ how \in {"own", "lost"} /\ phase = "closed"
       /\ past = {} /\ ~timedOut /\ run \notin {"idle", "running"}
  /\ run \in {"idle", "running", "settled"} => \A a \in Artifacts : artifact[a] = "unread"
  /\ run = "reading" =>
       verdict = "result" /\ \A a \in Artifacts : artifact[a] \in {"unread", "whole"}
  /\ call = "ok" => run = "over" /\ verdict = "result" /\ Whole

\* What a probe adds to the port call it is the mechanism of.
RunInv   == ProbeTypeOK /\ ChildKnown /\ RunKnown /\ ResultWhole
ProbeInv == PortInv /\ RunInv

-----------------------------------------------------------------------------
(* A probe is a port call.                                                 *)

\* The settled promise is the call's, if anyone still waits for it.
LEMMA SettlesAsPort ==
  ASSUME NEW r \in Settled, MechanismSettles(r)
  PROVE  [PortNext]_portVars
BY DEF MechanismSettles, PortNext

\* Every step of a probe is a step of the port call or leaves it alone.
LEMMA ProbePortStep == [Next]_vars => [PortNext]_portVars
<1> SUFFICES ASSUME [Next]_vars PROVE [PortNext]_portVars
  OBVIOUS
<1>1. CASE Probe
  <2>1. \E p \in Settled \cup {"pending"} : Invoke(p)
    BY <1>1 DEF Probe, Settled
  <2> QED BY <2>1 DEF PortNext
<1>2. CASE SignalAborts
  BY <1>2 DEF SignalAborts, PortNext
<1>3. CASE Boundary
  BY <1>3 DEF Boundary, PortNext
<1>4. CASE RunReturned
  <2>1. UNCHANGED portVars \/ \E r \in Settled : MechanismSettles(r)
    BY <1>4 DEF RunReturned, Settled
  <2> QED BY <2>1, SettlesAsPort
<1>5. CASE \E a \in Artifacts, read \in {"whole", "truncated", "failed"} : ArtifactRead(a, read)
  <2>1. UNCHANGED portVars \/ \E r \in Settled : MechanismSettles(r)
    BY <1>5 DEF ArtifactRead, Settled
  <2> QED BY <2>1, SettlesAsPort
<1>6. CASE \/ Elapsed \/ Spawned \/ Closed
           \/ \E s \in Streams : OutputPastCap(s)
           \/ \E h \in ChildHows : Ended(h)
  BY <1>6 DEF Elapsed, Spawned, OutputPastCap, Ended, Closed
<1>7. CASE UNCHANGED vars
  BY <1>7 DEF vars
<1> QED BY <1>1, <1>2, <1>3, <1>4, <1>5, <1>6, <1>7 DEF Next

-----------------------------------------------------------------------------
(* One lemma for each action.                                              *)

LEMMA ProbeInitInv == Init => ProbeInv
<1> SUFFICES ASSUME Init PROVE ProbeInv
  OBVIOUS
<1>1. PortInv
  BY PortInitInv DEF Init
<1>2. ProbeTypeOK
  BY DEF Init, ChildInit, Unread, ProbeTypeOK
<1>3. ChildKnown /\ RunKnown
  BY DEF Init, ChildInit, PortInit, ChildKnown, RunKnown
<1>4. ResultWhole
  BY DEF Init, ChildInit, PortInit, Unread, ResultWhole
<1> QED BY <1>1, <1>2, <1>3, <1>4 DEF ProbeInv, RunInv

\* The request, denied or run.
LEMMA ProbeKeeps == ProbeInv /\ Probe => RunInv'
<1> SUFFICES ASSUME ProbeInv, Probe PROVE RunInv'
  OBVIOUS
<1> USE DEF ProbeInv, RunInv
<1>1. /\ run = "idle" /\ UNCHANGED <<aborted, port, postchecked, timedOut, overCap, past, artifact>>
      /\ UNCHANGED <<direct, alive, phase, how, killed, stopped, released>>
      /\ stage = "entry" /\ call = "none" /\ race = "none"
  BY DEF Probe, Invoke, childVars, PortInv, RaceOpen
<1>2. CASE /\ Invoke("fault")
           /\ run' = IF stage' = "mechanism" THEN "over" ELSE run
           /\ UNCHANGED <<launched, verdict, timer, watching>>
  <2>1. /\ call' # "ok"
        /\ \/ stage' = "mechanism"
           \/ stage' \in {"entry", "done"} /\ call' = "none"
    BY <1>1, <1>2 DEF Invoke, Enter, Race, End
  <2>2. ProbeTypeOK'
    BY <1>1, <1>2 DEF ProbeTypeOK
  <2>3. ChildKnown'
    BY <1>1, <1>2 DEF ChildKnown
  <2>4. RunKnown'
    BY <1>1, <1>2, <2>1 DEF RunKnown
  <2>5. ResultWhole'
    BY <1>1, <1>2, <2>1 DEF RunKnown, ResultWhole
  <2> QED BY <2>2, <2>3, <2>4, <2>5
<1>3. CASE /\ Invoke("pending") /\ stage' = "mechanism"
           /\ \/ /\ run' = "running" /\ launched' = TRUE
                 /\ timer' = "start" /\ watching' = TRUE
                 /\ UNCHANGED verdict
              \/ /\ direct /\ run' = "settled" /\ verdict' \in {"error", "too-large"}
                 /\ UNCHANGED <<launched, timer, watching>>
  <2>1. call' = "pending" /\ race' = "none"
    BY <1>1, <1>3 DEF Invoke, Enter, Race, End, RunKnown
  <2>2. /\ run' \in {"running", "settled"} /\ run' # "idle"
        /\ verdict' # "result"
    BY <1>1, <1>3 DEF ResultWhole
  <2>3. ProbeTypeOK'
    BY <1>1, <1>3 DEF ProbeTypeOK
  <2>4. ChildKnown'
    BY <1>1, <1>3 DEF ChildKnown, RunKnown
  <2>5. RunKnown'
    BY <1>1, <1>3, <2>1 DEF ChildKnown, RunKnown
  <2>6. ResultWhole'
    BY <1>1, <2>1, <2>2 DEF ResultWhole
  <2> QED BY <2>3, <2>4, <2>5, <2>6
<1> QED BY <1>2, <1>3 DEF Probe

\* The abort stops a run in progress before anything else.
LEMMA SignalAbortsKeeps == ProbeInv /\ SignalAborts => RunInv'
<1> SUFFICES ASSUME ProbeInv, SignalAborts PROVE RunInv'
  OBVIOUS
<1> USE DEF ProbeInv, RunInv
<1>1. /\ UNCHANGED <<port, postchecked, stage, call, launched, timedOut, overCap, past, artifact>>
      /\ run # "running" => race' = race \/ race' = "abort"
  BY DEF SignalAborts, Abort
<1>2. CASE watching
  <2>1. run = "running"
    BY <1>2 DEF RunKnown
  <2>2. /\ run' = "settled" /\ verdict' = "abort" /\ timer' = "off" /\ watching' = FALSE
        /\ killed' = TRUE /\ stopped' = TRUE /\ UNCHANGED <<direct, alive, phase, how, released>>
    BY <1>2, <2>1 DEF SignalAborts, Stop, Finish
  <2>3. ProbeTypeOK'
    BY <1>1, <2>2 DEF ProbeTypeOK
  <2>4. ChildKnown'
    BY <1>1, <2>1, <2>2 DEF ChildKnown, RunKnown
  <2>5. RunKnown'
    BY <1>1, <2>1, <2>2 DEF RunKnown
  <2>6. ResultWhole'
    BY <1>1, <2>1, <2>2 DEF ResultWhole
  <2> QED BY <2>3, <2>4, <2>5, <2>6
<1>3. CASE ~watching
  <2>1. run # "running"
    BY <1>3 DEF RunKnown
  <2>2. UNCHANGED <<direct, alive, phase, how, killed, stopped, released, run, verdict, timer, watching>>
    BY <1>3 DEF SignalAborts, childVars
  <2>3. ProbeTypeOK'
    BY <1>1, <2>2 DEF ProbeTypeOK
  <2>4. ChildKnown'
    BY <1>1, <2>2 DEF ChildKnown
  <2>5. RunKnown'
    BY <1>1, <2>1, <2>2 DEF RunKnown
  <2>6. ResultWhole'
    BY <1>1, <2>2 DEF ResultWhole, Whole
  <2> QED BY <2>3, <2>4, <2>5, <2>6
<1> QED BY <1>2, <1>3

\* The timer fires: the run is stopped and settles when its child ends.
LEMMA ElapsedKeeps == ProbeInv /\ Elapsed => RunInv'
<1> SUFFICES ASSUME ProbeInv, Elapsed PROVE RunInv'
  OBVIOUS
<1> USE DEF ProbeInv, RunInv
<1>1. /\ run = "running" /\ timer' = "off" /\ timedOut' = TRUE /\ killed' = TRUE /\ stopped' = TRUE
      /\ UNCHANGED <<direct, alive, phase, how, released>>
      /\ UNCHANGED <<port, postchecked, stage, call, race>>
      /\ UNCHANGED <<run, launched, verdict, overCap, past, watching, artifact>>
  BY DEF Elapsed, Stop, RunKnown, portVars, signalVars
<1>2. ProbeTypeOK'
  BY <1>1 DEF ProbeTypeOK
<1>3. ChildKnown'
  BY <1>1 DEF ChildKnown, RunKnown
<1>4. RunKnown'
  BY <1>1 DEF RunKnown
<1>5. ResultWhole'
  BY <1>1 DEF ResultWhole, Whole
<1> QED BY <1>2, <1>3, <1>4, <1>5

\* The child's 'spawn'.
LEMMA SpawnedKeeps == ProbeInv /\ Spawned => RunInv'
<1> SUFFICES ASSUME ProbeInv, Spawned PROVE RunInv'
  OBVIOUS
<1> USE DEF ProbeInv, RunInv
<1>1. /\ launched /\ phase = "pending" /\ phase' = "running"
      /\ timer' = IF run # "running" \/ timedOut THEN timer ELSE "budget"
      /\ UNCHANGED <<direct, alive, how, killed, stopped, released>>
      /\ UNCHANGED <<port, postchecked, stage, call, race>>
      /\ UNCHANGED <<run, launched, verdict, timedOut, overCap, past, watching, artifact>>
  BY DEF Spawned, ChildStart, portVars, signalVars
<1>2. ProbeTypeOK'
  BY <1>1 DEF ProbeTypeOK
<1>3. ChildKnown'
  BY <1>1 DEF ChildKnown
<1>4. RunKnown'
  BY <1>1 DEF RunKnown
<1>5. ResultWhole'
  BY <1>1 DEF ResultWhole, Whole
<1> QED BY <1>2, <1>3, <1>4, <1>5

\* A stream passes its cap: the first to do so stops the run.
LEMMA OutputPastCapKeeps == ProbeInv /\ (\E s \in Streams : OutputPastCap(s)) => RunInv'
<1> SUFFICES ASSUME ProbeInv, NEW s \in Streams, OutputPastCap(s) PROVE RunInv'
  OBVIOUS
<1> USE DEF ProbeInv, RunInv
<1>1. /\ launched /\ phase # "closed" /\ past' = past \cup {s} /\ past' # {} /\ overCap' = TRUE
      /\ killed' \in BOOLEAN /\ (killed => killed') /\ stopped' \in BOOLEAN
      /\ UNCHANGED <<direct, alive, phase, how, released>>
      /\ UNCHANGED <<port, postchecked, stage, call, race>>
      /\ UNCHANGED <<run, launched, verdict, timer, timedOut, watching, artifact>>
  <2>1. overCap \in BOOLEAN /\ killed \in BOOLEAN /\ stopped \in BOOLEAN
    BY DEF ProbeTypeOK
  <2>2. CASE overCap
    BY <2>1, <2>2 DEF OutputPastCap, childVars, portVars, signalVars
  <2>3. CASE ~overCap
    BY <2>1, <2>3 DEF OutputPastCap, Stop, portVars, signalVars
  <2> QED BY <2>2, <2>3
<1>2. ProbeTypeOK'
  BY <1>1 DEF ProbeTypeOK
<1>3. ChildKnown'
  BY <1>1 DEF ChildKnown
<1>4. RunKnown'
  BY <1>1 DEF RunKnown
<1>5. ResultWhole'
  BY <1>1 DEF ResultWhole, Whole
<1> QED BY <1>2, <1>3, <1>4, <1>5

\* The handler of 'close', for a child that has just closed.
LEMMA OnCloseKeeps ==
  ASSUME ProbeInv, launched, phase' = "closed", OnClose,
         alive' = TRUE, UNCHANGED direct,
         how' \in {"own", "killed", "lost"}, how' = "killed" => killed,
         how # "none" => how' = how,
         killed' \in BOOLEAN, stopped' \in BOOLEAN, killed => killed',
         killed' => killed \/ how' = "lost",
         UNCHANGED portVars, UNCHANGED <<launched, timedOut, overCap, past, artifact>>
  PROVE  RunInv'
<1> USE DEF ProbeInv, RunInv
<1>1. UNCHANGED <<port, postchecked, stage, call, race>>
  BY DEF portVars, signalVars
<1>2. CASE run = "running" /\ ~timedOut /\ ~overCap
  <2>1. /\ run' = "settled" /\ verdict' = "result" /\ timer' = "off" /\ watching' = FALSE
        /\ released' \in BOOLEAN
    BY <1>2 DEF OnClose, Finish, Release, ProbeTypeOK
  <2>2. how' \in {"own", "lost"} /\ past = {}
    BY <1>2 DEF ProbeTypeOK, ChildKnown, RunKnown
  <2>3. ProbeTypeOK'
    BY <2>1 DEF ProbeTypeOK
  <2>4. ChildKnown'
    BY <2>1 DEF ChildKnown
  <2>5. RunKnown'
    BY <1>1, <1>2, <2>1 DEF RunKnown
  <2>6. ResultWhole'
    BY <1>1, <1>2, <2>1, <2>2 DEF ResultWhole
  <2> QED BY <2>3, <2>4, <2>5, <2>6
<1>3. CASE run = "running" /\ (timedOut \/ overCap)
  <2>1. /\ run' = "settled" /\ verdict' = "budget" /\ timer' = "off" /\ watching' = FALSE
        /\ UNCHANGED released
    BY <1>3 DEF OnClose, Finish
  <2>2. ProbeTypeOK'
    BY <2>1 DEF ProbeTypeOK
  <2>3. ChildKnown'
    BY <1>3, <2>1 DEF ChildKnown
  <2>4. RunKnown'
    BY <1>1, <1>3, <2>1 DEF RunKnown
  <2>5. ResultWhole'
    BY <1>1, <1>3, <2>1 DEF ResultWhole
  <2> QED BY <2>2, <2>3, <2>4, <2>5
<1>4. CASE run # "running"
  <2>1. UNCHANGED <<run, verdict, timer, watching, released>>
    BY <1>4 DEF OnClose, Finish
  <2>2. ProbeTypeOK'
    BY <2>1 DEF ProbeTypeOK
  <2>3. ChildKnown'
    BY <1>4, <2>1 DEF ChildKnown
  <2>4. RunKnown'
    BY <1>1, <1>4, <2>1 DEF RunKnown
  <2>5. ResultWhole'
    BY <1>1, <1>4, <2>1 DEF ChildKnown, ResultWhole, Whole
  <2> QED BY <2>2, <2>3, <2>4, <2>5
<1> QED BY <1>2, <1>3, <1>4

\* 'close', the streams having outlived the child.
LEMMA ClosedKeeps == ProbeInv /\ Closed => RunInv'
<1> SUFFICES ASSUME ProbeInv, Closed PROVE RunInv'
  OBVIOUS
<1>1. /\ launched /\ phase = "ended" /\ phase' = "closed" /\ OnClose
      /\ UNCHANGED <<direct, alive, how, killed, stopped>>
      /\ UNCHANGED portVars /\ UNCHANGED <<launched, timedOut, overCap, past, artifact>>
  BY DEF Closed, ChildClose
<1>2. CASE how = "failed"
  <2>1. run # "running" /\ ~(run = "running" /\ ~timedOut /\ ~overCap)
    BY <1>2 DEF ProbeInv, RunInv, RunKnown
  <2>2. UNCHANGED <<run, verdict, timer, watching, released>>
    BY <1>1, <2>1 DEF OnClose, Finish
  <2>3. UNCHANGED <<port, postchecked, stage, call, race>>
    BY <1>1 DEF portVars, signalVars
  <2>4. ProbeTypeOK'
    BY <1>1, <2>2 DEF ProbeInv, RunInv, ProbeTypeOK
  <2>5. ChildKnown'
    BY <1>1, <1>2, <2>1, <2>2 DEF ProbeInv, RunInv, ChildKnown
  <2>6. RunKnown'
    BY <1>1, <2>1, <2>2, <2>3 DEF ProbeInv, RunInv, RunKnown
  <2>7. ResultWhole'
    BY <1>1, <2>2, <2>3 DEF ProbeInv, RunInv, ResultWhole, Whole
  <2> QED BY <2>4, <2>5, <2>6, <2>7 DEF RunInv
<1>3. CASE how # "failed"
  <2>1. /\ how' \in {"own", "killed", "lost"} /\ (how' = "killed" => killed) /\ how' = how
        /\ killed' \in BOOLEAN /\ stopped' \in BOOLEAN /\ killed' = killed /\ alive' = TRUE
    BY <1>1, <1>3 DEF ProbeInv, RunInv, ProbeTypeOK, ChildKnown
  <2> QED BY <1>1, <2>1, OnCloseKeeps
<1> QED BY <1>2, <1>3

\* 'exit' or 'error', and the 'close' that may come with it.
LEMMA EndedKeeps == ProbeInv /\ (\E h \in ChildHows : Ended(h)) => RunInv'
<1> SUFFICES ASSUME ProbeInv, NEW h \in ChildHows, Ended(h) PROVE RunInv'
  OBVIOUS
<1>1. /\ launched /\ phase \in {"pending", "running"} /\ phase' \in {"ended", "closed"}
      /\ how = "none" /\ how' = h /\ UNCHANGED <<direct, alive>> /\ alive' = TRUE
      /\ UNCHANGED <<launched, timedOut, overCap, past, artifact>> /\ UNCHANGED portVars
      /\ UNCHANGED <<port, postchecked, stage, call, race>>
  BY DEF Ended, ChildEnd, ProbeInv, RunInv, ChildKnown, portVars, signalVars
<1>2. /\ killed' \in BOOLEAN /\ stopped' \in BOOLEAN
      /\ h = "killed" => killed
      /\ killed' => killed \/ h = "lost"
      /\ h = "lost" => killed'
      /\ killed => killed'
      /\ ~released
  <2>1. /\ \/ h = "own" /\ UNCHANGED <<killed, stopped>>
           \/ h = "killed" /\ killed /\ UNCHANGED <<killed, stopped>>
           \/ h = "lost" /\ killed' = TRUE /\ UNCHANGED stopped
           \/ h = "failed" /\ stopped' \in {stopped, TRUE} /\ UNCHANGED killed
        /\ killed \in BOOLEAN /\ stopped \in BOOLEAN
    BY DEF Ended, ChildEnd, ProbeInv, RunInv, ProbeTypeOK
  <2>2. killed' \in BOOLEAN
    BY <2>1
  <2>3. stopped' \in BOOLEAN
    <3>1. stopped' = stopped \/ stopped' = TRUE
      BY <2>1
    <3> QED BY <2>1, <3>1
  <2>4. ~released
    BY <1>1 DEF ProbeInv, RunInv, ChildKnown
  <2>5. CASE UNCHANGED killed /\ h # "lost"
    BY <2>1, <2>2, <2>3, <2>4, <2>5
  <2>6. CASE killed' = TRUE /\ h = "lost"
    BY <2>1, <2>2, <2>3, <2>4, <2>6
  <2>7. (UNCHANGED killed /\ h # "lost") \/ (killed' = TRUE /\ h = "lost")
    BY <2>1
  <2> QED BY <2>5, <2>6, <2>7
<1>3. verdict # "result"
  BY <1>1 DEF ProbeInv, RunInv, ResultWhole
<1>4. CASE h # "failed" /\ phase' = "closed" /\ OnClose
  <2>1. how' \in {"own", "killed", "lost"}
    BY <1>1, <1>4 DEF ChildHows
  <2> QED BY <1>1, <1>2, <1>4, <2>1, OnCloseKeeps
<1>5. CASE h = "failed" /\ UNCHANGED released /\ \E v \in {"error", "too-large"} : Finish(v)
  <2>1. /\ run' = (IF run = "running" THEN "settled" ELSE run)
        /\ verdict' \in {verdict, "error", "too-large"}
        /\ timer' = "off" /\ watching' = FALSE
    BY <1>5 DEF Finish, ProbeInv, RunInv, RunKnown, ProbeTypeOK
  <2>2. ProbeTypeOK'
    BY <1>1, <1>2, <1>5, <2>1 DEF ProbeInv, RunInv, ProbeTypeOK, ChildHows
  <2>3. ChildKnown'
    BY <1>1, <1>2, <1>5, <2>1 DEF ProbeInv, RunInv, ChildKnown
  <2>4. RunKnown'
    BY <1>1, <1>5, <2>1 DEF ProbeInv, RunInv, RunKnown
  <2>5. ResultWhole'
    BY <1>1, <1>3, <2>1 DEF ProbeInv, RunInv, ResultWhole, Whole
  <2> QED BY <2>2, <2>3, <2>4, <2>5 DEF RunInv
<1>6. CASE h # "failed" /\ phase' # "closed" /\ UNCHANGED <<released, run, verdict, timer, watching>>
  <2>1. ProbeTypeOK'
    BY <1>1, <1>2, <1>6 DEF ProbeInv, RunInv, ProbeTypeOK, ChildHows
  <2>2. ChildKnown'
    BY <1>1, <1>2, <1>6 DEF ProbeInv, RunInv, ChildKnown, ChildHows
  <2>3. RunKnown'
    BY <1>1, <1>2, <1>6 DEF ProbeInv, RunInv, RunKnown
  <2>4. ResultWhole'
    BY <1>1, <1>3, <1>6 DEF ProbeInv, RunInv, ResultWhole, Whole
  <2> QED BY <2>1, <2>2, <2>3, <2>4 DEF RunInv
<1> QED BY <1>1, <1>4, <1>5, <1>6 DEF Ended

\* What a settled promise changes of the port call, if it is still raced.
LEMMA SettlementPart ==
  ASSUME NEW r, MechanismSettles(r)
  PROVE  UNCHANGED <<port, postchecked, stage>> /\ (call' = call \/ call' = r)
BY DEF MechanismSettles, Settle, portVars, signalVars

\* The code after the run.
LEMMA RunReturnedKeeps == ProbeInv /\ RunReturned => RunInv'
<1> SUFFICES ASSUME ProbeInv, RunReturned PROVE RunInv'
  OBVIOUS
<1> USE DEF ProbeInv, RunInv
<1>1. /\ run = "settled" /\ run' \in {"reading", "over"}
      /\ UNCHANGED <<direct, alive, phase, how, killed, stopped, released>>
      /\ UNCHANGED <<launched, verdict, timer, timedOut, overCap, past, watching, artifact>>
  BY DEF RunReturned, childVars
<1>2. /\ UNCHANGED <<port, postchecked, stage>>
      /\ call' = "ok" => call = "ok" \/ (verdict = "result" /\ run' = "over" /\ Artifacts = {})
  <2>1. CASE UNCHANGED portVars
    BY <2>1 DEF portVars, signalVars
  <2>2. CASE /\ run' = "over" /\ ~(verdict = "result" /\ Artifacts # {})
             /\ MechanismSettles(CASE verdict = "result" -> "ok"
                                   [] verdict \in {"budget", "too-large"} -> "fault"
                                   [] OTHER -> "error")
    BY <2>2, SettlementPart
  <2> QED BY <2>1, <2>2 DEF RunReturned
<1>3. ProbeTypeOK'
  BY <1>1 DEF ProbeTypeOK
<1>4. ChildKnown'
  BY <1>1 DEF ChildKnown
<1>5. RunKnown'
  BY <1>1, <1>2 DEF RunKnown
<1>6. ResultWhole'
  <2>1. run' = "reading" => verdict = "result"
    BY <1>1 DEF RunReturned
  <2> QED BY <1>1, <1>2, <2>1 DEF ResultWhole, Whole
<1> QED BY <1>3, <1>4, <1>5, <1>6

\* One of the concurrent reads ends.
LEMMA ArtifactReadKeeps ==
  ASSUME ProbeInv, NEW a \in Artifacts, NEW read \in {"whole", "truncated", "failed"},
         ArtifactRead(a, read)
  PROVE  RunInv'
<1> USE DEF ProbeInv, RunInv
<1>1. /\ run = "reading" /\ run' \in {"reading", "over"}
      /\ artifact' = [artifact EXCEPT ![a] = read]
      /\ UNCHANGED <<direct, alive, phase, how, killed, stopped, released>>
      /\ UNCHANGED <<launched, verdict, timer, timedOut, overCap, past, watching>>
      /\ call # "ok" /\ verdict = "result"
  BY DEF ArtifactRead, childVars, ResultWhole
<1>2. artifact' \in [Artifacts -> {"unread", "whole", "truncated", "failed"}]
  BY <1>1 DEF ProbeTypeOK
<1>3. \A b \in Artifacts : artifact'[b] = IF b = a THEN read ELSE artifact[b]
  BY <1>1 DEF ProbeTypeOK
<1>4. /\ UNCHANGED <<port, postchecked, stage>>
      /\ call' = "ok" => /\ run' = "over" /\ read = "whole"
                         /\ \A b \in Artifacts : artifact'[b] # "unread"
      /\ run' = "reading" => read = "whole"
  <2>1. CASE read = "truncated" /\ run' = "over" /\ MechanismSettles("fault")
    BY <1>1, <2>1, SettlementPart
  <2>2. CASE read = "failed" /\ run' = "over" /\ MechanismSettles("error")
    BY <1>1, <2>2, SettlementPart
  <2>3. CASE /\ read = "whole" /\ \A b \in Artifacts : artifact'[b] # "unread"
             /\ run' = "over" /\ MechanismSettles("ok")
    BY <1>1, <2>3, SettlementPart
  <2>4. CASE read = "whole" /\ UNCHANGED <<run, portVars>>
    BY <1>1, <2>4 DEF portVars, signalVars
  <2> QED BY <2>1, <2>2, <2>3, <2>4 DEF ArtifactRead
<1>5. ProbeTypeOK'
  BY <1>1, <1>2 DEF ProbeTypeOK
<1>6. ChildKnown'
  BY <1>1 DEF ChildKnown
<1>7. RunKnown'
  BY <1>1, <1>4 DEF RunKnown
<1>8. ResultWhole'
  <2>1. \A b \in Artifacts : artifact[b] \in {"unread", "whole"}
    BY <1>1 DEF ResultWhole
  <2>2. read = "whole" => \A b \in Artifacts : artifact'[b] \in {"unread", "whole"}
    BY <1>3, <2>1
  <2>3. call' = "ok" => Whole'
    BY <1>4, <2>2 DEF Whole
  <2> QED BY <1>1, <1>4, <2>2, <2>3 DEF ResultWhole
<1> QED BY <1>5, <1>6, <1>7, <1>8

\* The boundary's own microtasks, with the adapter's method that has no postcheck.
LEMMA BoundaryKeeps == ProbeInv /\ Boundary => RunInv'
<1> SUFFICES ASSUME ProbeInv, Boundary PROVE RunInv'
  OBVIOUS
<1> USE DEF ProbeInv, RunInv
<1>1. /\ UNCHANGED <<direct, alive, phase, how, killed, stopped, released>>
      /\ UNCHANGED <<run, launched, verdict, timer, timedOut, overCap, past, watching, artifact>>
  BY DEF Boundary, childVars, runVars
<1>2. /\ UNCHANGED <<port, postchecked, call, race>>
      /\ stage' = stage \/ (stage' = "done" /\ race # "none")
  <2>1. CASE Resume
    BY <2>1 DEF Resume, Assemble, End, RunKnown
  <2>2. CASE Answer
    BY <2>2 DEF Answer, signalVars
  <2> QED BY <2>1, <2>2 DEF Boundary
<1>3. ProbeTypeOK' /\ ChildKnown'
  BY <1>1 DEF ProbeTypeOK, ChildKnown
<1>4. RunKnown'
  BY <1>1, <1>2 DEF RunKnown
<1>5. ResultWhole'
  BY <1>1, <1>2 DEF ResultWhole, Whole
<1> QED BY <1>3, <1>4, <1>5

\* Every step of a probe keeps ProbeInv.
LEMMA ProbeStepKeeps == ProbeInv /\ [Next]_vars => ProbeInv'
<1> SUFFICES ASSUME ProbeInv, [Next]_vars PROVE ProbeInv'
  OBVIOUS
<1>1. PortInv'
  BY ProbePortStep, PortStepKeeps DEF ProbeInv
<1>2. CASE UNCHANGED vars
  <2>1. /\ UNCHANGED <<direct, alive, phase, how, killed, stopped, released>>
        /\ UNCHANGED <<port, postchecked, stage, call, race>>
        /\ UNCHANGED <<run, launched, verdict, timer, timedOut, overCap, past, watching, artifact>>
    BY <1>2 DEF vars, childVars, portVars, signalVars, runVars
  <2>2. ProbeTypeOK' /\ ChildKnown'
    BY <2>1 DEF ProbeInv, RunInv, ProbeTypeOK, ChildKnown
  <2>3. RunKnown' /\ ResultWhole'
    BY <2>1 DEF ProbeInv, RunInv, RunKnown, ResultWhole, Whole
  <2> QED BY <2>2, <2>3, <1>1 DEF ProbeInv, RunInv
<1>3. CASE Next
  <2>1. RunInv'
    BY <1>3, ProbeKeeps, SignalAbortsKeeps, ElapsedKeeps, SpawnedKeeps, OutputPastCapKeeps,
       EndedKeeps, ClosedKeeps, RunReturnedKeeps, ArtifactReadKeeps, BoundaryKeeps DEF Next
  <2> QED BY <1>1, <2>1 DEF ProbeInv
<1> QED BY <1>2, <1>3

-----------------------------------------------------------------------------
(* The adapter's use of its child.                                         *)

\* A stop, whenever the run is in progress or the child is not closed, is the owner's.
LEMMA StopObeys == ProbeInv /\ Stop /\ (run = "running" \/ phase # "closed") => ChildNext
BY DEF ProbeInv, RunInv, ChildKnown, Stop, ChildNext, ChildStop

\* Every step of a probe is a step its child's specification allows.
LEMMA ProbeChildStep == ProbeInv /\ [Next]_vars => [ChildNext]_childVars
<1> SUFFICES ASSUME ProbeInv, [Next]_vars PROVE [ChildNext]_childVars
  OBVIOUS
<1>1. CASE SignalAborts
  <2>1. watching => run = "running"
    BY DEF ProbeInv, RunInv, RunKnown
  <2> QED BY <1>1, <2>1, StopObeys DEF SignalAborts
<1>2. CASE Elapsed
  <2>1. timer # "off" => run = "running"
    BY DEF ProbeInv, RunInv, RunKnown
  <2> QED BY <1>2, <2>1, StopObeys DEF Elapsed
<1>3. CASE \E s \in Streams : OutputPastCap(s)
  BY <1>3, StopObeys DEF OutputPastCap
<1>4. CASE Spawned
  BY <1>4 DEF Spawned, ChildNext, ChildEvent
<1>5. OnClose => UNCHANGED released \/ Release
  BY DEF OnClose
<1>6. CASE \E h \in ChildHows : Ended(h)
  BY <1>5, <1>6 DEF Ended, ChildHows, ChildNext, ChildEvent
<1>7. CASE Closed
  BY <1>5, <1>7 DEF Closed, ChildClose, ChildNext, ChildEvent
<1>8. CASE \/ Probe \/ RunReturned \/ Boundary
           \/ \E a \in Artifacts, read \in {"whole", "truncated", "failed"} : ArtifactRead(a, read)
  BY <1>8 DEF Probe, RunReturned, Boundary, ArtifactRead
<1>9. CASE UNCHANGED vars
  BY <1>9 DEF vars
<1> QED BY <1>1, <1>2, <1>3, <1>4, <1>6, <1>7, <1>8, <1>9 DEF Next

-----------------------------------------------------------------------------
(* What a probe of a command promises, for every target and every abort.   *)

LEMMA InvIsWhole == ProbeInv => WholeObservation
<1> SUFFICES ASSUME ProbeInv, "value" \in {outcome, answer} PROVE
      /\ verdict = "result" /\ how \in {"own", "lost"} /\ phase = "closed"
      /\ past = {} /\ ~timedOut /\ \A a \in Artifacts : artifact[a] = "whole"
  BY DEF WholeObservation
<1>1. port = "adapter"
  BY DEF ProbeInv, RunInv, RunKnown
<1>2. outcome = "value"
  BY DEF ProbeInv, PortInv, PortTypeOK, RaceOpen, AnswersFollow, Codes
<1>3. call = "ok"
  BY <1>1, <1>2 DEF ProbeInv, PortInv, AnswersFollow
<1> QED BY <1>3 DEF ProbeInv, RunInv, ResultWhole, Whole

LEMMA InvLeavesNothing == ProbeInv => NothingLeftBehind
BY DEF ProbeInv, RunInv, RunKnown, NothingLeftBehind

\* The types of a probe, what is known of its child, its run and its result.
THEOREM ProbeInvariant == Spec => []ProbeInv
<1>1. Spec => Init /\ [][Next]_vars
  BY DEF Spec
<1> QED BY <1>1, ProbeInitInv, ProbeStepKeeps, PTL

\* An observation is the whole of what a run that nothing cut short left, every
\* artifact included.
THEOREM WholeObservationHolds == Spec => []WholeObservation
BY ProbeInvariant, InvIsWhole, PTL

\* A probe that is over has killed its target or seen it end, armed no timer and
\* kept no listener.
THEOREM NothingLeftBehindHolds == Spec => []NothingLeftBehind
BY ProbeInvariant, InvLeavesNothing, PTL

\* The adapter obeys the child's specification in every order of timers, chunks,
\* aborts and events.
THEOREM ObeysChildHolds == Spec => ObeysChild
<1>1. Spec => [][Next]_vars
  BY DEF Spec
<1> QED BY <1>1, ProbeInvariant, ProbeChildStep, PTL DEF ObeysChild

\* A probe is a port call, so whichever of its mechanism and the abort came first
\* decides.
THEOREM ProbeIsPortCall == Spec => PortInit /\ [][PortNext]_portVars /\ []RaceDecides
<1>1. Spec => Init /\ [][Next]_vars
  BY DEF Spec
<1>2. Init => PortInit
  BY DEF Init
<1>3. ProbeInv => RaceDecides
  BY PortInvDecides DEF ProbeInv
<1> QED BY <1>1, <1>2, <1>3, ProbePortStep, ProbeInvariant, PTL
=============================================================================
