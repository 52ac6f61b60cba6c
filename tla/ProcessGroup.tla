---------------------------- MODULE ProcessGroup ----------------------------
(***************************************************************************)
(* Ownership of a spawned target's process group on POSIX:                 *)
(* src/src/adapters/process-group.ts.                                      *)
(*                                                                         *)
(* Three parties run concurrently.  The host (class WatchedChild, one      *)
(* event at a time) owns one end of a socket pair, the lifeline.  The      *)
(* watchdog (WATCHDOG_SOURCE) owns the other end, starts the target as the *)
(* leader of a new group and reports over the lifeline.  The target forks, *)
(* lets children leave the group (setsid), drops its streams and exits     *)
(* when it likes.  The host may die at any step, the watchdog too.         *)
(*                                                                         *)
(* The lifeline is two FIFO channels, down (host to watchdog) and up; the  *)
(* kernel delivers what was written before an end of file.  A message too  *)
(* large for the socket buffer may be cut when the host's end goes, which  *)
(* only the first one, the target's spec, can be.                          *)
(***************************************************************************)
EXTENDS Naturals, Sequences

CONSTANTS
  Procs,            \* identities the target and its descendants may take
  Leader,           \* the target itself, its group's leader
  Streams,          \* the host's read ends: stdout and stderr
  MaxTries,         \* kill attempts of one loop; 100 in the code
  WatchdogMayCrash  \* whether something else may SIGKILL the watchdog

ASSUME LeaderAssumption == Leader \in Procs
ASSUME TriesAssumption  == MaxTries \in Nat \ {0}
ASSUME CrashAssumption  == WatchdogMayCrash \in BOOLEAN

VARIABLES
  host,         \* "running" or "dead"
  lifeline,     \* the host's end: "open", "ended" by release, or "destroyed"
  closeSeen,    \* the host got the lifeline's 'close'
  pidKnown,     \* 'spawn' was emitted
  ended,        \* #ended, and by which path it was set
  killed,       \* #killed
  released,     \* release() took effect
  closed,       \* 'close' was emitted; the child is tracked until then
  openStreams,  \* #openStreams, as the set of streams still open
  destroyed,    \* this end of the streams was destroyed
  hostTries,    \* next attempt of the host's kill loop, 0 when none runs
  down, up,     \* the lifeline's two directions
  watchdog,     \* "running", "unstarted", "exited" or "crashed"
  wdTarget,     \* how far start() got
  wdReleased,   \* the watchdog's released
  wdReported,   \* the target's exit was reported
  wdTries,      \* next attempt of each of the watchdog's kill loops, 0 when none
  proc,         \* what each process is
  holders       \* processes holding the inherited stdout and stderr

hostVars   == <<host, lifeline, closeSeen, pidKnown, ended, killed, released,
                closed, openStreams, destroyed, hostTries>>
wdVars     == <<watchdog, wdTarget, wdReleased, wdReported, wdTries>>
targetVars == <<proc, holders>>
vars       == <<hostVars, down, up, wdVars, targetVars>>

KillReasons == {"close", "fail"}

TypeOK ==
  /\ host \in {"running", "dead"}
  /\ lifeline \in {"open", "ended", "destroyed"}
  /\ ended \in {"no", "own", "killed", "lost", "failed"}
  /\ closeSeen \in BOOLEAN /\ pidKnown \in BOOLEAN /\ killed \in BOOLEAN
  /\ released \in BOOLEAN /\ closed \in BOOLEAN /\ destroyed \in BOOLEAN
  /\ wdReleased \in BOOLEAN /\ wdReported \in BOOLEAN
  /\ openStreams \subseteq Streams
  /\ hostTries \in 0..MaxTries
  /\ down \in Seq({"spec", "release"})
  /\ up \in Seq({"spawned", "exit", "error"})
  /\ watchdog \in {"running", "unstarted", "exited", "crashed"}
  /\ wdTarget \in {"none", "starting", "started", "faulted"}
  /\ wdTries \in [KillReasons -> 0..MaxTries]
  /\ proc \in [Procs -> {"absent", "group", "outside", "exited", "killed"}]
  /\ holders \subseteq Procs

Alive(p)  == proc[p] \in {"group", "outside"}
GroupGone == \A p \in Procs : proc[p] # "group"

\* The watchdog holds the host's pipes until start() has put /dev/null over its
\* copies; a live process holds them unless it closed its own.
PipeHeld ==
  \/ watchdog = "running" /\ wdTarget \in {"none", "faulted"}
  \/ \E p \in holders : Alive(p)

-----------------------------------------------------------------------------
(* One killpg with SIGKILL, and the bounded loop around it.                *)

Slain == [p \in Procs |-> IF proc[p] = "group" THEN "killed" ELSE proc[p]]

\* Every member dies, except that one child caught mid-fork may be missed.
KillPg ==
  \/ /\ proc' = Slain
     /\ UNCHANGED holders
  \/ \E p, q \in Procs :
       /\ proc[p] = "group" /\ proc[q] = "absent"
       /\ proc' = [Slain EXCEPT ![q] = "group"]
       /\ holders' = IF p \in holders THEN holders \cup {q} ELSE holders

\* killpg on a group that is gone throws ESRCH and touches nothing.
Attempt      == IF GroupGone THEN UNCHANGED targetVars ELSE KillPg
LoopOnce(k)      == TRUE         \* mutant: a single killpg, as 4.1.1 sent
LoopOver(k)  == GroupGone \/ k >= MaxTries
NextTry(k)   == IF LoopOver(k) THEN 0 ELSE k + 1

-----------------------------------------------------------------------------
(* Host: the class WatchedChild.                                           *)

HostCanRead == host = "running" /\ lifeline # "destroyed"

Report(message) == up' = IF HostCanRead THEN Append(up, message) ELSE up

\* #end, #fail and #maybeClose: the first of exit and error wins, and 'close'
\* follows once no stream is open.
EndsAs(how, open) ==
  /\ ended'  = IF ended = "no" THEN how ELSE ended
  /\ closed' = (closed \/ (ended' # "no" /\ open = {}))

\* The host's end of the lifeline goes; what it had not read goes with it, and
\* a spec still leaving the host's buffer may be cut short.
DropLifeline ==
  /\ lifeline' = "destroyed"
  /\ up' = <<>>
  /\ \/ UNCHANGED down
     \/ down = <<"spec">> /\ down' = <<>>

\* Mutant: only a pid already reported is killed, the lifeline stays.
KillKnownPid ==
  /\ killed' = TRUE
  /\ IF pidKnown THEN Attempt /\ hostTries' = NextTry(1)
                 ELSE UNCHANGED <<targetVars, hostTries>>
  /\ UNCHANGED <<lifeline, up, down>>

\* killGroup(), with the first attempt of killGroupUntilGone.
KillGroup ==
  /\ killed' = TRUE
  /\ IF pidKnown THEN Attempt /\ hostTries' = NextTry(1)
                 ELSE UNCHANGED <<targetVars, hostTries>>
  /\ DropLifeline

Init ==
  /\ host = "running" /\ lifeline = "open"
  /\ closeSeen = FALSE /\ pidKnown = FALSE /\ ended = "no"
  /\ killed = FALSE /\ released = FALSE /\ closed = FALSE
  /\ openStreams = Streams /\ destroyed = FALSE /\ hostTries = 0
  /\ down = <<"spec">> /\ up = <<>>
  /\ watchdog \in {"running", "unstarted"}
  /\ wdTarget = "none" /\ wdReleased = FALSE /\ wdReported = FALSE
  /\ wdTries = [r \in KillReasons |-> 0]
  /\ proc = [p \in Procs |-> "absent"] /\ holders = {}

\* One report off the lifeline: #receive.
HostReceive ==
  /\ HostCanRead /\ up # <<>>
  /\ up' = Tail(up)
  /\ CASE Head(up) = "spawned" -> pidKnown' = TRUE /\ UNCHANGED <<ended, closed>>
       [] Head(up) = "exit"    -> EndsAs("own", openStreams) /\ UNCHANGED pidKnown
       [] Head(up) = "error"   -> EndsAs("failed", openStreams) /\ UNCHANGED pidKnown
  /\ UNCHANGED <<host, lifeline, closeSeen, killed, released, openStreams,
                 destroyed, hostTries, down, wdVars, targetVars>>

\* The watchdog itself could not be spawned.
HostWatchdogError ==
  /\ host = "running" /\ watchdog = "unstarted" /\ ended = "no"
  /\ EndsAs("failed", openStreams)
  /\ UNCHANGED <<host, lifeline, closeSeen, pidKnown, killed, released, openStreams,
                 destroyed, hostTries, down, up, wdVars, targetVars>>

\* A stream reaches end of file, or was destroyed on this end.
HostStreamClose(s) ==
  /\ host = "running" /\ s \in openStreams
  /\ destroyed \/ ~PipeHeld
  /\ openStreams' = openStreams \ {s}
  /\ EndsAs(ended, openStreams')
  /\ UNCHANGED <<host, lifeline, closeSeen, pidKnown, killed, released,
                 destroyed, hostTries, down, up, wdVars, targetVars>>

\* Mutant: the close of a lifeline this side destroyed no longer ends the child.
HostLifelineCloseSilent ==
  /\ host = "running" /\ ~closeSeen
  /\ lifeline = "destroyed" \/ (up = <<>> /\ watchdog # "running")
  /\ closeSeen' = TRUE
  /\ \/ /\ ended # "no" \/ killed
        /\ UNCHANGED <<ended, closed, killed, destroyed, lifeline, hostTries,
                       down, up, targetVars>>
     \/ /\ ended = "no" /\ ~killed /\ ~pidKnown
        /\ destroyed' = TRUE
        /\ EndsAs("failed", openStreams)
        /\ UNCHANGED <<killed, lifeline, hostTries, down, up, targetVars>>
     \/ /\ ended = "no" /\ ~killed /\ pidKnown
        /\ KillGroup
        /\ EndsAs("lost", openStreams)
        /\ UNCHANGED destroyed
  /\ UNCHANGED <<host, pidKnown, released, openStreams, wdVars>>

\* The lifeline's 'close', after everything in it was read or it was destroyed.
HostLifelineClose ==
  /\ host = "running" /\ ~closeSeen
  /\ lifeline = "destroyed" \/ (up = <<>> /\ watchdog # "running")
  /\ closeSeen' = TRUE
  /\ \/ /\ ended # "no"
        /\ UNCHANGED <<ended, closed, killed, destroyed, lifeline, hostTries,
                       down, up, targetVars>>
     \/ /\ ended = "no" /\ killed
        /\ EndsAs("killed", openStreams)
        /\ UNCHANGED <<killed, destroyed, lifeline, hostTries, down, up, targetVars>>
     \/ /\ ended = "no" /\ ~killed /\ ~pidKnown
        /\ destroyed' = TRUE
        /\ EndsAs("failed", openStreams)
        /\ UNCHANGED <<killed, lifeline, hostTries, down, up, targetVars>>
     \/ /\ ended = "no" /\ ~killed /\ pidKnown
        /\ KillGroup
        /\ EndsAs("lost", openStreams)
        /\ UNCHANGED destroyed
  /\ UNCHANGED <<host, pidKnown, released, openStreams, wdVars>>

\* A later attempt of the host's kill loop.
HostTry ==
  /\ host = "running" /\ hostTries > 0
  /\ Attempt
  /\ hostTries' = NextTry(hostTries)
  /\ UNCHANGED <<host, lifeline, closeSeen, pidKnown, ended, killed, released,
                 closed, openStreams, destroyed, down, up, wdVars>>

\* A cap, an abort or a teardown: both adapters kill the group and destroy this
\* end of the streams together, and never after release().
HostStop ==
  /\ host = "running" /\ ~released
  /\ KillGroup
  /\ destroyed' = TRUE
  /\ UNCHANGED <<host, closeSeen, pidKnown, ended, released, closed, openStreams, wdVars>>

\* release(), called when the run settled on the target's own exit.
HostRelease ==
  /\ host = "running" /\ closed /\ ~released
  /\ ended # "failed" /\ ~killed
  /\ released' = TRUE
  /\ IF lifeline = "open" /\ ~closeSeen
       THEN lifeline' = "ended" /\ down' = Append(down, "release")
       ELSE UNCHANGED <<lifeline, down>>
  /\ UNCHANGED <<host, closeSeen, pidKnown, ended, killed, closed, openStreams,
                 destroyed, hostTries, up, wdVars, targetVars>>

\* The host is gone without a word: SIGKILL, or a crash.
HostDie ==
  /\ host = "running"
  /\ host' = "dead" /\ hostTries' = 0
  /\ DropLifeline
  /\ UNCHANGED <<closeSeen, pidKnown, ended, killed, released, closed, openStreams,
                 destroyed, wdVars, targetVars>>

\* process.exit() or an uncaught exception: the exit hook of trackProcessGroup
\* kills a child still tracked, with one attempt, and the host is gone.
HostExit ==
  /\ host = "running" /\ ~closed
  /\ host' = "dead" /\ hostTries' = 0
  /\ killed' = TRUE
  /\ IF pidKnown THEN Attempt ELSE UNCHANGED targetVars
  /\ DropLifeline
  /\ UNCHANGED <<closeSeen, pidKnown, ended, released, closed, openStreams,
                 destroyed, wdVars>>

-----------------------------------------------------------------------------
(* Watchdog: the program of WATCHDOG_SOURCE.                               *)

\* What killTarget's caller does once the loop ends: exit, and failAndExit
\* reports its error first.
WdThen(r) ==
  /\ watchdog' = "exited"
  /\ wdTries' = [q \in KillReasons |-> 0]
  /\ IF r = "fail" THEN Report("error") ELSE UNCHANGED up

\* The k-th attempt of killTarget for reason r.
WdAttempt(r, k) ==
  /\ Attempt
  /\ IF LoopOver(k) THEN WdThen(r)
     ELSE /\ wdTries' = [wdTries EXCEPT ![r] = k + 1]
          /\ UNCHANGED <<watchdog, up>>

\* start(spec).  The spawn succeeds, is refused, or succeeds and putting
\* /dev/null over the watchdog's copies of the streams throws.
WdStart ==
  /\ watchdog = "running" /\ wdTarget = "none" /\ down # <<>> /\ Head(down) = "spec"
  /\ down' = Tail(down)
  /\ \/ /\ wdTarget' = "starting"
        /\ proc' = [proc EXCEPT ![Leader] = "group"]
        /\ holders' = holders \cup {Leader}
        /\ UNCHANGED <<watchdog, wdTries, up>>
     \/ /\ WdThen("fail")
        /\ UNCHANGED <<wdTarget, targetVars>>
     \/ /\ wdTarget' = "faulted"
        /\ wdTries' = [wdTries EXCEPT !["fail"] = 1]
        /\ proc' = [proc EXCEPT ![Leader] = "group"]
        /\ holders' = holders \cup {Leader}
        /\ UNCHANGED <<watchdog, up>>
  /\ UNCHANGED <<hostVars, wdReleased, wdReported>>

\* The target's 'spawn', before any later event of the watchdog's loop.
WdReportSpawned ==
  /\ watchdog = "running" /\ wdTarget = "starting"
  /\ wdTarget' = "started"
  /\ Report("spawned")
  /\ UNCHANGED <<hostVars, down, watchdog, wdReleased, wdReported, wdTries, targetVars>>

\* Mutant: the 'exit' listener attached before the streams are replaced.
WdReportExitEarly ==
  /\ watchdog = "running" /\ wdTarget \in {"started", "faulted"} /\ ~wdReported
  /\ proc[Leader] \in {"exited", "killed"}
  /\ wdReported' = TRUE
  /\ Report("exit")
  /\ UNCHANGED <<hostVars, down, watchdog, wdTarget, wdReleased, wdTries, targetVars>>

\* The target's 'exit'; a faulted start never attached the listener.
WdReportExit ==
  /\ watchdog = "running" /\ wdTarget = "started" /\ ~wdReported
  /\ proc[Leader] \in {"exited", "killed"}
  /\ wdReported' = TRUE
  /\ Report("exit")
  /\ UNCHANGED <<hostVars, down, watchdog, wdTarget, wdReleased, wdTries, targetVars>>

WdReadRelease ==
  /\ watchdog = "running" /\ wdTarget # "starting"
  /\ down # <<>> /\ Head(down) = "release"
  /\ down' = Tail(down)
  /\ wdReleased' = TRUE
  /\ UNCHANGED <<hostVars, up, watchdog, wdTarget, wdReported, wdTries, targetVars>>

\* Mutant: the close handler does not look at released.
WdCloseKills ==
  /\ watchdog = "running" /\ wdTarget # "starting"
  /\ lifeline # "open" /\ down = <<>> /\ wdTries["close"] = 0
  /\ IF wdTarget = "none" THEN WdThen("close") /\ UNCHANGED targetVars
                          ELSE WdAttempt("close", 1)
  /\ UNCHANGED <<hostVars, down, wdTarget, wdReleased, wdReported>>

\* The lifeline's 'close' on the watchdog's end, after everything in it was read.
WdClose ==
  /\ watchdog = "running" /\ wdTarget # "starting"
  /\ lifeline # "open" /\ down = <<>> /\ wdTries["close"] = 0
  /\ IF wdReleased \/ wdTarget = "none"
       THEN WdThen("close") /\ UNCHANGED targetVars
       ELSE WdAttempt("close", 1)
  /\ UNCHANGED <<hostVars, down, wdTarget, wdReleased, wdReported>>

\* A later attempt of one of the watchdog's kill loops.
WdTry(r) ==
  /\ watchdog = "running" /\ wdTries[r] > 0
  /\ WdAttempt(r, wdTries[r])
  /\ UNCHANGED <<hostVars, down, wdTarget, wdReleased, wdReported>>

WdCrash ==
  /\ WatchdogMayCrash /\ watchdog = "running"
  /\ watchdog' = "crashed"
  /\ wdTries' = [r \in KillReasons |-> 0]
  /\ UNCHANGED <<hostVars, down, up, wdTarget, wdReleased, wdReported, targetVars>>

-----------------------------------------------------------------------------
(* Target: what a process outside the package may do.                      *)

TargetFork(p, q) ==
  /\ Alive(p) /\ proc[q] = "absent"
  /\ proc' = [proc EXCEPT ![q] = proc[p]]
  /\ holders' = IF p \in holders THEN holders \cup {q} ELSE holders
  /\ UNCHANGED <<hostVars, down, up, wdVars>>

\* setsid, which the group's leader cannot call.
TargetEscape(p) ==
  /\ proc[p] = "group" /\ p # Leader
  /\ proc' = [proc EXCEPT ![p] = "outside"]
  /\ UNCHANGED <<hostVars, down, up, wdVars, holders>>

TargetExit(p) ==
  /\ Alive(p)
  /\ proc' = [proc EXCEPT ![p] = "exited"]
  /\ UNCHANGED <<hostVars, down, up, wdVars, holders>>

TargetDropStreams(p) ==
  /\ Alive(p) /\ p \in holders
  /\ holders' = holders \ {p}
  /\ UNCHANGED <<hostVars, down, up, wdVars, proc>>

-----------------------------------------------------------------------------

HostEvent ==
  \/ HostReceive
  \/ HostWatchdogError
  \/ \E s \in Streams : HostStreamClose(s)
  \/ HostLifelineClose
  \/ HostTry

WatchdogEvent ==
  \/ WdStart
  \/ WdReportSpawned
  \/ WdReportExit
  \/ WdReadRelease
  \/ WdClose
  \/ \E r \in KillReasons : WdTry(r)

Target ==
  \/ \E p, q \in Procs : TargetFork(p, q)
  \/ \E p \in Procs : TargetEscape(p)
  \/ \E p \in Procs : TargetExit(p)
  \/ \E p \in Procs : TargetDropStreams(p)

Next ==
  \/ HostEvent
  \/ HostStop
  \/ HostRelease
  \/ HostDie
  \/ HostExit
  \/ WatchdogEvent
  \/ WdCrash
  \/ Target

\* Both event loops keep running while their process does.  Nothing is assumed
\* of the target, of what the host's caller asks for, or of who dies when.
Fairness ==
  /\ WF_vars(HostReceive)
  /\ WF_vars(HostWatchdogError)
  /\ \A s \in Streams : WF_vars(HostStreamClose(s))
  /\ WF_vars(HostLifelineClose)
  /\ WF_vars(HostTry)
  /\ WF_vars(WdStart)
  /\ WF_vars(WdReportSpawned)
  /\ WF_vars(WdReportExit)
  /\ WF_vars(WdReadRelease)
  /\ WF_vars(WdClose)
  /\ \A r \in KillReasons : WF_vars(WdTry(r))

Spec == Init /\ [][Next]_vars /\ Fairness
-----------------------------------------------------------------------------
(***************************************************************************)
(* What the process-group machinery owes its two adapters and the operator *)
(* of the host, and how it implements GroupedChild.                        *)
(***************************************************************************)

\* A run reported to have ended on the target's own account was not ended by a
\* kill of this package: process-group.ts tells the two apart with #killed,
\* watchdogLost and the order in which start() attaches its listeners.
HonestEnd == ended = "own" => proc[Leader] = "exited"

\* What a target left running after its run settled is untouched: once release()
\* took effect no process is ever killed, though the host may die or exit and the
\* watchdog may be killed at any later step.
LeftoversSurvive ==
  [][released => \A p \in Procs : proc'[p] = "killed" => proc[p] = "killed"]_vars

\* The watchdog never exits by its own decision over a group it has to end: what
\* is left when it is gone was either released or is nothing, for now and for good.
WatchdogOutlivesGroup ==
  watchdog = "exited" /\ ~wdReleased => GroupGone /\ wdTries = [r \in KillReasons |-> 0]

\* The group was given up: a stop, or the end of a host that had not released it.
Abandoned == killed \/ (host = "dead" /\ ~released)

\* The two gaps the design leaves: the watchdog itself was killed, and the host
\* is gone as well or never learnt the target's pid.
Uncovered == watchdog = "crashed" /\ (host = "dead" \/ ~pidKnown)

\* "A cap, an abort, or the host's own end, SIGKILL included, kills the process
\* group": an abandoned group dies and stays dead, a target still to be started
\* by the watchdog included, whatever it forks meanwhile.
AbandonedGroupDies == Abandoned ~> [](GroupGone \/ Uncovered)

Child == INSTANCE GroupedChild WITH
  direct   <- FALSE,
  alive    <- host = "running",
  phase    <- IF closed THEN "closed" ELSE IF ended # "no" THEN "ended"
              ELSE IF pidKnown THEN "running" ELSE "pending",
  how      <- IF ended = "no" THEN "none" ELSE ended,
  killed   <- killed,
  stopped  <- destroyed,
  released <- released

\* The class implements the interface its adapters rely on: one 'spawn', one end,
\* one 'close', in that order, an end that is the target's own only when nothing
\* here killed it, and a 'close' that follows every stop.
ImplementsGroupedChild == Child!ChildSpec
-----------------------------------------------------------------------------
(* The inductive strengthening behind HonestEnd and LeftoversSurvive.      *)

Down(d) == d \in {<<>>, <<"spec">>, <<"release">>, <<"spec", "release">>}

\* A release still on its way keeps the channel from looking drained.
ReleasePending == down \in {<<"release">>, <<"spec", "release">>}

\* Who may be killing, and what the lifeline looks like then.
KillersKnown ==
  /\ hostTries > 0 => killed /\ lifeline = "destroyed"
  /\ wdTries["close"] > 0 => lifeline = "destroyed" /\ ~released
  /\ wdTries["fail"] > 0 => wdTarget = "faulted"
  /\ lifeline = "destroyed" => killed \/ host = "dead"
  /\ host = "dead" => lifeline = "destroyed"
  /\ proc[Leader] = "killed" => lifeline = "destroyed" \/ wdTarget = "faulted"

\* A release in force: nothing was killed, and the watchdog has it or will read it.
ReleaseHeld ==
  /\ Down(down)
  /\ lifeline = "open" => down \in {<<>>, <<"spec">>}
  /\ lifeline = "ended" => released
  /\ released => ended = "own" /\ closed /\ ~killed
  /\ released /\ watchdog = "running" => wdReleased \/ ReleasePending
  /\ closeSeen => watchdog # "running" \/ killed \/ lifeline = "destroyed"

\* A child closed has an end, and an end by kill has a kill.
EndKnown ==
  /\ closed => ended # "no"
  /\ ended \in {"killed", "lost"} => killed

\* An 'exit' report is about a leader that exited by itself, and no other path
\* sets ended to "own".
ReportsTrue ==
  /\ wdReported => wdTarget = "started"
  /\ wdTarget = "faulted" => ~wdReported
  /\ \A i \in DOMAIN up : up[i] = "exit" => wdReported /\ proc[Leader] = "exited"
  /\ ended = "own" => wdReported /\ proc[Leader] = "exited"

HonestInv == TypeOK /\ KillersKnown /\ ReleaseHeld /\ EndKnown /\ ReportsTrue
=============================================================================
