---------------------------- MODULE CommandProbe ----------------------------
(***************************************************************************)
(* One probe through the command-line adapter:                             *)
(* src/src/adapters/command-line-adapter.ts.                               *)
(*                                                                         *)
(* The mechanism of the port call (PortCall, always an adapter here) is a  *)
(* run of a target as a GroupedChild: a timer armed twice, an abort        *)
(* listener, an output cap per stream and the child's events each may      *)
(* settle it, and whichever comes first does.  The artifacts are read      *)
(* after it.  The host's own end is ProcessGroup's subject: here it lives. *)
(***************************************************************************)
EXTENDS GroupedChild, PortCall

CONSTANTS
  Streams,   \* stdout and stderr
  Artifacts  \* the artifacts the authorization declares

VARIABLES
  run,        \* "idle", "running", "settled", "reading", "over"
  launched,   \* spawnInGroup returned a child
  verdict,    \* what the run settled as
  timer,      \* "off", armed with the start allowance ("start") or the "budget" alone
  timedOut,
  overCap,
  past,       \* streams whose bytes passed maxOutputBytes
  watching,   \* the run's own listener is on the signal
  artifact    \* what reading each artifact came to

runVars == <<run, launched, verdict, timer, timedOut, overCap, past, watching, artifact>>
vars    == <<childVars, portVars, runVars>>

Unread == [a \in Artifacts |-> "unread"]

Init ==
  /\ ChildInit /\ PortInit /\ port = "adapter" /\ ~postchecked
  /\ run = "idle" /\ launched = FALSE /\ verdict = "none" /\ timer = "off"
  /\ timedOut = FALSE /\ overCap = FALSE /\ past = {} /\ watching = FALSE
  /\ artifact = Unread

-----------------------------------------------------------------------------
(* runChildProcess.                                                        *)

\* Mutant: the timer outlives the run.
FinishTicking(v) ==
  IF run = "running"
    THEN run' = "settled" /\ verdict' = v /\ watching' = FALSE /\ UNCHANGED timer
    ELSE UNCHANGED <<run, verdict, timer, watching>>

\* finish(): the first to settle the run wins and clears the timer and the listener.
Finish(v) ==
  IF run = "running"
    THEN run' = "settled" /\ verdict' = v /\ timer' = "off" /\ watching' = FALSE
    ELSE UNCHANGED <<run, verdict, timer, watching>>

\* Mutant: this end of the streams is left open.
StopKillOnly == killed' = TRUE /\ UNCHANGED <<direct, alive, phase, how, stopped, released>>

\* stop(): kill the group and destroy this end of the streams.
Stop == /\ killed' = TRUE /\ stopped' = TRUE
        /\ UNCHANGED <<direct, alive, phase, how, released>>

\* The call reaches the mechanism: a request of another kind, a target or an
\* environment key not authorized are denied before anything starts; a direct
\* child's spawn may throw.
Probe ==
  /\ run = "idle"
  /\ UNCHANGED aborted
  /\ \/ /\ Invoke("fault")
        /\ run' = IF stage' = "mechanism" THEN "over" ELSE run
        /\ UNCHANGED <<launched, verdict, timer, watching>>
     \/ /\ Invoke("pending") /\ stage' = "mechanism"
        /\ \/ /\ run' = "running" /\ launched' = TRUE
              /\ timer' = "start" /\ watching' = TRUE
              /\ UNCHANGED verdict
           \/ /\ direct /\ run' = "settled" /\ verdict' \in {"error", "too-large"}
              /\ UNCHANGED <<launched, timer, watching>>
  /\ UNCHANGED <<childVars, timedOut, overCap, past, artifact>>

\* The signal aborts, at any step: the run's listener, and then raceAbort's.
SignalAborts ==
  /\ Abort
  /\ IF watching THEN Stop /\ Finish("abort")
                 ELSE UNCHANGED <<childVars, run, verdict, timer, watching>>
  /\ UNCHANGED <<launched, timedOut, overCap, past, artifact>>

Elapsed ==
  /\ timer # "off"
  /\ timer' = "off" /\ timedOut' = TRUE
  /\ Stop
  /\ UNCHANGED <<portVars, run, launched, verdict, overCap, past, watching, artifact>>

\* Mutant: armed again whatever happened before.
SpawnRearms ==
  /\ launched /\ ChildStart
  /\ timer' = "budget"
  /\ UNCHANGED <<portVars, run, launched, verdict, timedOut, overCap, past, watching, artifact>>

\* 'spawn'.
Spawned ==
  /\ launched /\ ChildStart
  /\ timer' = IF run # "running" \/ timedOut THEN timer ELSE "budget"
  /\ UNCHANGED <<portVars, run, launched, verdict, timedOut, overCap, past, watching, artifact>>

\* A chunk takes a stream's bytes past the cap; a stopped child's streams are gone.
OutputPastCap(s) ==
  /\ launched /\ phase # "closed" /\ ~stopped /\ s \notin past
  /\ past' = past \cup {s}
  /\ IF overCap THEN UNCHANGED <<overCap, childVars>> ELSE overCap' = TRUE /\ Stop
  /\ UNCHANGED <<portVars, run, launched, verdict, timer, timedOut, watching, artifact>>

\* Mutant: a kill for the cap is read as the target's own end.
CloseUncapped ==
  IF run = "running" /\ ~timedOut
    THEN Release /\ Finish("result")
    ELSE UNCHANGED released /\ Finish("budget")

\* The handler of 'close'.
OnClose ==
  IF run = "running" /\ ~timedOut /\ ~overCap
    THEN Release /\ Finish("result")
    ELSE UNCHANGED released /\ Finish("budget")

\* 'exit' has no listener; 'error' settles the run, E2BIG told apart later.
Ended(h) ==
  /\ launched /\ ChildEnd(h)
  /\ \/ /\ h = "failed" /\ UNCHANGED released
        /\ \E v \in {"error", "too-large"} : Finish(v)
     \/ h # "failed" /\ phase' = "closed" /\ OnClose
     \/ h # "failed" /\ phase' # "closed" /\ UNCHANGED <<released, run, verdict, timer, watching>>
  /\ UNCHANGED <<portVars, launched, timedOut, overCap, past, artifact>>

Closed ==
  /\ launched /\ ChildClose
  /\ OnClose
  /\ UNCHANGED <<portVars, launched, timedOut, overCap, past, artifact>>

-----------------------------------------------------------------------------
(* The adapter's mechanism, after the run.                                 *)

\* The promise the boundary races settles, or nobody is waiting for it any more.
MechanismSettles(result) == IF stage = "mechanism" THEN Settle(result) ELSE UNCHANGED portVars

RunReturned ==
  /\ run = "settled"
  /\ IF verdict = "result" /\ Artifacts # {}
       THEN run' = "reading" /\ UNCHANGED portVars
       ELSE /\ run' = "over"
            /\ MechanismSettles(CASE verdict = "result" -> "ok"
                                  [] verdict \in {"budget", "too-large"} -> "fault"
                                  [] OTHER -> "error")
  /\ UNCHANGED <<childVars, launched, verdict, timer, timedOut, overCap, past, watching, artifact>>

\* Mutant: the reads are raced, not all awaited.
ArtifactFirst(a, read) ==
  /\ run = "reading" /\ artifact[a] = "unread"
  /\ artifact' = [artifact EXCEPT ![a] = read]
  /\ run' = "over" /\ MechanismSettles("ok")
  /\ UNCHANGED <<childVars, launched, verdict, timer, timedOut, overCap, past, watching>>

\* One of the concurrent reads ends; the first failure or the last success settles.
ArtifactRead(a, read) ==
  /\ run = "reading" /\ artifact[a] = "unread"
  /\ artifact' = [artifact EXCEPT ![a] = read]
  /\ \/ read = "truncated" /\ run' = "over" /\ MechanismSettles("fault")
     \/ read = "failed" /\ run' = "over" /\ MechanismSettles("error")
     \/ /\ read = "whole" /\ \A b \in Artifacts : artifact'[b] # "unread"
        /\ run' = "over" /\ MechanismSettles("ok")
     \/ /\ read = "whole" /\ \E b \in Artifacts : artifact'[b] = "unread"
        /\ UNCHANGED <<run, portVars>>
  /\ UNCHANGED <<childVars, launched, verdict, timer, timedOut, overCap, past, watching>>

Boundary == (Resume \/ Answer) /\ UNCHANGED <<childVars, runVars>>

ChildHows == {"own", "killed", "lost", "failed"}

Next ==
  \/ Probe
  \/ SignalAborts
  \/ Elapsed
  \/ Spawned
  \/ \E s \in Streams : OutputPastCap(s)
  \/ \E h \in ChildHows : Ended(h)
  \/ Closed
  \/ RunReturned
  \/ \E a \in Artifacts, read \in {"whole", "truncated", "failed"} : ArtifactRead(a, read)
  \/ Boundary

\* Timers fire and microtasks run; of the child only what GroupedChild promises of
\* a stopped one is assumed, and nothing of the file system.
Fairness ==
  /\ WF_vars(Elapsed)
  /\ WF_vars(RunReturned)
  /\ WF_vars(Boundary)
  /\ WF_vars(stopped /\ (Closed \/ \E h \in {"killed", "failed"} : Ended(h)))

Spec == Init /\ [][Next]_vars /\ Fairness
-----------------------------------------------------------------------------
(* What a probe of a command promises.                                     *)

\* An observation is the whole of what the target wrote, every artifact included,
\* of a run that ended without a cap, a timeout or an abort having touched it.
WholeObservation ==
  "value" \in {outcome, answer} =>
    /\ verdict = "result" /\ how \in {"own", "lost"} /\ phase = "closed"
    /\ past = {} /\ ~timedOut
    /\ \A a \in Artifacts : artifact[a] = "whole"

\* The adapter uses its child as ProcessGroup needs it used: no stop after a
\* release, a release only at 'close', whatever order timers, chunks and aborts come in.
ObeysChild == [][ChildNext]_childVars

\* A call leaves nothing behind: when the caller has its answer the target was
\* killed or the child is over; a settled run, or one already timed out, arms no
\* timer again, whichever events of the child are still to come, and keeps no
\* listener on the caller's signal (command-line-adapter.ts, settle and arm).
NothingLeftBehind ==
  /\ stage = "done" /\ launched => killed \/ phase = "closed" \/ how = "failed"
  /\ launched /\ run # "running" => timer = "off" /\ ~watching
  /\ timedOut => timer = "off"

\* A run settles, though the target may never start, never end, ignore everything
\* or leave its streams to a process outside the group.
RunSettles == run = "running" ~> run # "running"
=============================================================================
