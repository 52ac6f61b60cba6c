---------------------------- MODULE GroupedChild ----------------------------
(***************************************************************************)
(* What a spawned child promises the adapters that run one: the interface  *)
(* GroupedChild of src/src/adapters/process-group.ts, without the watchdog *)
(* and the group behind it.  ProcessGroup implements this specification;   *)
(* CommandProbe and McpProbe are written against it.                       *)
(*                                                                         *)
(* A child emits at most one 'spawn', then exactly one of 'exit' and       *)
(* 'error', then one 'close'.  It is reported to have ended on its own     *)
(* only if nothing on this side killed it.  Once its owner has stopped it, *)
(* its end and its 'close' come whatever the target does; before that they *)
(* may never come, since anything may hold the streams open.               *)
(*                                                                         *)
(* On Windows and in a single executable application the child is direct:  *)
(* Node's own, with no watchdog to lose.  Its 'spawn' comes on the next    *)
(* tick whatever was killed before, it may have exited by itself before a  *)
(* kill reached it, and release() does nothing.                            *)
(***************************************************************************)

VARIABLES
  direct,    \* no watchdog stands between the host and the child
  alive,     \* the host process exists
  phase,     \* the last event: none ("pending"), 'spawn', 'exit' or 'error', 'close'
  how,       \* how the child ended: on its own, killed, watchdog lost, or failed
  killed,    \* its group was asked to be killed
  stopped,   \* this end of its streams was destroyed
  released   \* what it left running is left alone

childVars == <<direct, alive, phase, how, killed, stopped, released>>

ChildInit ==
  /\ direct \in BOOLEAN
  /\ alive = TRUE /\ phase = "pending" /\ how = "none"
  /\ killed = FALSE /\ stopped = FALSE /\ released = FALSE

ChildStart ==
  /\ alive /\ phase = "pending" /\ (killed => direct)
  /\ phase' = "running"
  /\ UNCHANGED <<direct, alive, how, killed, stopped, released>>

\* 'exit' or 'error', and the 'close' with it when both streams were closed before.
ChildEnd(h) ==
  /\ alive /\ phase \in {"pending", "running"}
  /\ phase' \in {"ended", "closed"}
  /\ how' = h
  /\ \/ h = "own" /\ phase = "running" /\ (killed => direct) /\ UNCHANGED <<killed, stopped>>
     \/ h = "killed" /\ killed /\ UNCHANGED <<killed, stopped>>
     \/ /\ h = "lost" /\ phase = "running" /\ ~killed /\ ~direct
        /\ killed' = TRUE /\ UNCHANGED stopped
     \/ h = "failed" /\ phase = "pending" /\ stopped' \in {stopped, TRUE} /\ UNCHANGED killed
  /\ UNCHANGED <<direct, alive>>

ChildClose ==
  /\ alive /\ phase = "ended"
  /\ phase' = "closed"
  /\ UNCHANGED <<direct, alive, how, killed, stopped>>

\* release() does nothing for a child that failed or was killed.
Release == released' = (released \/ (how' = "own" /\ ~killed' /\ ~direct))

\* The owner's stop: kill the group and destroy this end of the streams.
ChildStop ==
  /\ alive /\ ~released
  /\ killed' = TRUE /\ stopped' = TRUE
  /\ UNCHANGED <<direct, alive, phase, how, released>>

ChildRelease ==
  /\ alive /\ phase = "closed"
  /\ Release
  /\ UNCHANGED <<direct, alive, phase, how, killed, stopped>>

\* The host ends; its exit hook, when it runs, kills a child not yet closed.
HostEnds ==
  /\ alive
  /\ alive' = FALSE
  /\ killed' \in {killed, killed \/ phase # "closed"}
  /\ UNCHANGED <<direct, phase, how, stopped, released>>

\* The owner may release the child in the handler of its 'close'.
ChildEvent ==
  \/ ChildStart
  \/ /\ (\E h \in {"own", "killed", "lost", "failed"} : ChildEnd(h)) \/ ChildClose
     /\ UNCHANGED released \/ (phase' = "closed" /\ Release)

ChildNext ==
  \/ ChildEvent
  \/ ChildStop
  \/ ChildRelease
  \/ HostEnds

\* A stopped child comes to its end, and to its 'close'.
StoppedChildProgress ==
  /\ stopped /\ ChildEvent
  /\ (\E h \in {"killed", "failed"} : ChildEnd(h)) \/ ChildClose

ChildSpec ==
  /\ ChildInit /\ [][ChildNext]_childVars
  /\ WF_childVars(StoppedChildProgress)
=============================================================================
