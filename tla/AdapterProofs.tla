---------------------------- MODULE AdapterProofs ----------------------------
(***************************************************************************)
(* What stands under the adapters and before them.                         *)
(*                                                                         *)
(* First the process group a command runs in: HonestEnd and                *)
(* LeftoversSurvive hold of ProcessGroup for any number of processes and   *)
(* streams and any bound on the kill attempts, watchdog crashes included.  *)
(* HonestInv is inductive and implies the first; the second follows from   *)
(* it step by step.                                                        *)
(*                                                                         *)
(* Then the mapping that admits a target: OnlyWhatIsNamed holds of         *)
(* Conformance for every mapping, request, resolver and redirect.  An      *)
(* address parsed is the machine that its spelling means, a decision       *)
(* allows what some authorization names, and HopsInv and RulingInv carry   *)
(* both along a chain of hops and an operator's questions.                 *)
(***************************************************************************)
EXTENDS ProcessGroup, Conformance, FiniteSets, FiniteSetTheorems, SequenceTheorems,
        WellFoundedInduction, TLAPS

USE LeaderAssumption, TriesAssumption, CrashAssumption

\* The lifeline's few possible contents under Head, Tail and Append.
LEMMA TailFacts ==
  /\ Tail(<<"spec">>) = <<>> /\ Tail(<<"release">>) = <<>>
  /\ Tail(<<"spec", "release">>) = <<"release">>
  /\ Head(<<"spec">>) = "spec" /\ Head(<<"release">>) = "release"
  /\ Head(<<"spec", "release">>) = "spec"
<1>1. Tail(<<"spec">>) = <<>> /\ Tail(<<"release">>) = <<>>
  OBVIOUS
<1>2. Tail(<<"spec", "release">>) = <<"release">>
  OBVIOUS
<1> QED BY <1>1, <1>2

\* The line release() queues (process-group.ts:471) goes behind the one that start()
\* wrote, or stands alone.
LEMMA AppendFacts ==
  /\ Append(<<>>, "release") = <<"release">>
  /\ Append(<<"spec">>, "release") = <<"spec", "release">>
<1> DEFINE s == Append(<<"spec">>, "release")
           t == <<"spec", "release">>
<1>1. s \in Seq({"spec", "release"}) /\ t \in Seq({"spec", "release"})
  OBVIOUS
<1>2. Len(s) = 2 /\ Len(t) = 2
  OBVIOUS
<1>3. s[1] = t[1] /\ s[2] = t[2]
  OBVIOUS
<1>4. Append(<<>>, "release") = <<"release">>
  OBVIOUS
<1> HIDE DEF s, t
<1>5. \A i \in 1..Len(s) : s[i] = t[i]
  BY <1>2, <1>3
<1>6. s = t
  BY <1>1, <1>2, <1>5, SeqEqual
<1> QED BY <1>4, <1>6 DEF s, t

\* What the lifeline may hold tells its states apart: nothing, the specification,
\* the release, or both.
LEMMA DistinctContents ==
  /\ <<"spec">> # <<>> /\ <<"release">> # <<>> /\ <<"spec", "release">> # <<>>
  /\ <<"spec">> # <<"release">> /\ <<"spec">> # <<"spec", "release">>
<1>1. <<"spec">> # <<>> /\ <<"release">> # <<>> /\ <<"spec", "release">> # <<>>
  OBVIOUS
<1>2. <<"spec">> # <<"release">> /\ <<"spec">> # <<"spec", "release">>
  OBVIOUS
<1> QED BY <1>1, <1>2

\* An attempt to kill the group keeps the types and never touches a leader that
\* had exited.
LEMMA AttemptEffect ==
  ASSUME TypeOK, Attempt
  PROVE  /\ proc' \in [Procs -> {"absent", "group", "outside", "exited", "killed"}]
         /\ holders' \subseteq Procs
         /\ proc[Leader] = "exited" => proc'[Leader] = "exited"
<1>1. CASE GroupGone
  BY <1>1 DEF Attempt, TypeOK, targetVars
<1>2. CASE ~GroupGone
  <2>1. KillPg
    BY <1>2 DEF Attempt
  <2>2. proc' \in [Procs -> {"absent", "group", "outside", "exited", "killed"}]
    BY <2>1 DEF KillPg, Slain, TypeOK
  <2>3. holders' \subseteq Procs
    BY <2>1 DEF KillPg, Slain, TypeOK
  <2>4. proc[Leader] = "exited" => proc'[Leader] = "exited"
    BY <2>1 DEF KillPg, Slain, TypeOK
  <2> QED BY <2>2, <2>3, <2>4
<1> QED BY <1>1, <1>2

\* The bounded loop's counter stays within its bound.
LEMMA NextTryType == \A k \in 1..MaxTries : NextTry(k) \in 0..MaxTries
BY DEF NextTry, LoopOver

\* What a report adds to the channel to the host.
LEMMA ReportEffect ==
  ASSUME TypeOK, NEW m \in {"spawned", "exit", "error"}, Report(m)
  PROVE  /\ up' \in Seq({"spawned", "exit", "error"})
         /\ \A i \in DOMAIN up' : up'[i] = m \/ (i \in DOMAIN up /\ up'[i] = up[i])
BY DEF Report, TypeOK

\* What is left of the channel once its first report is read.
LEMMA ReadEffect ==
  ASSUME TypeOK, up # <<>>, up' = Tail(up)
  PROVE  /\ up' \in Seq({"spawned", "exit", "error"})
         /\ \A i \in DOMAIN up' : i + 1 \in DOMAIN up /\ up'[i] = up[i + 1]
         /\ 1 \in DOMAIN up /\ Head(up) = up[1]
BY DEF TypeOK

\* Dropping the lifeline empties what comes up and may cut the spec short.
LEMMA DropEffect ==
  ASSUME TypeOK, Down(down), DropLifeline
  PROVE  /\ lifeline' = "destroyed" /\ up' = <<>>
         /\ up' \in Seq({"spawned", "exit", "error"}) /\ DOMAIN up' = {}
         /\ down' \in Seq({"spec", "release"}) /\ Down(down')
         /\ down' = down \/ (down = <<"spec">> /\ down' = <<>>)
<1>1. lifeline' = "destroyed" /\ up' = <<>>
  BY DEF DropLifeline
<1>2. up' \in Seq({"spawned", "exit", "error"}) /\ DOMAIN up' = {}
  BY <1>1
<1>3. down' = down \/ (down = <<"spec">> /\ down' = <<>>)
  BY DEF DropLifeline
<1>4. <<>> \in Seq({"spec", "release"})
  OBVIOUS
<1>5. down' \in Seq({"spec", "release"})
  BY <1>3, <1>4 DEF TypeOK
<1>6. Down(down')
  BY <1>3 DEF Down
<1> QED BY <1>1, <1>2, <1>3, <1>5, <1>6

\* A stop, from whichever handler it comes.
LEMMA KillEffect ==
  ASSUME TypeOK, Down(down), KillGroup
  PROVE  /\ killed' = TRUE /\ hostTries' \in 0..MaxTries
         /\ lifeline' = "destroyed" /\ DOMAIN up' = {}
         /\ up' \in Seq({"spawned", "exit", "error"})
         /\ down' \in Seq({"spec", "release"}) /\ Down(down')
         /\ down' = down \/ (down = <<"spec">> /\ down' = <<>>)
         /\ proc' \in [Procs -> {"absent", "group", "outside", "exited", "killed"}]
         /\ holders' \subseteq Procs
         /\ proc[Leader] = "exited" => proc'[Leader] = "exited"
<1>1. DropLifeline /\ killed' = TRUE
  BY DEF KillGroup
<1>2. /\ hostTries' \in 0..MaxTries
      /\ proc' \in [Procs -> {"absent", "group", "outside", "exited", "killed"}]
      /\ holders' \subseteq Procs
      /\ proc[Leader] = "exited" => proc'[Leader] = "exited"
  <2>1. CASE pidKnown
    BY <2>1, AttemptEffect, NextTryType DEF KillGroup
  <2>2. CASE ~pidKnown
    BY <2>2 DEF KillGroup, targetVars, TypeOK
  <2> QED BY <2>1, <2>2
<1> QED BY <1>1, <1>2, DropEffect

\* The first end wins, and 'close' needs one.
LEMMA SettleEffect ==
  ASSUME TypeOK, NEW h \in {"no", "own", "killed", "lost", "failed"}, NEW S, EndsAs(h, S)
  PROVE  /\ ended' \in {"no", "own", "killed", "lost", "failed"} /\ closed' \in BOOLEAN
         /\ ended # "no" => ended' = ended
         /\ ended = "no" => ended' = h
         /\ closed => closed'
         /\ closed' /\ ~closed => ended' # "no"
<1>1. /\ ended' \in {"no", "own", "killed", "lost", "failed"}
      /\ ended # "no" => ended' = ended
      /\ ended = "no" => ended' = h
  BY DEF EndsAs, TypeOK
<1>2. /\ closed' \in BOOLEAN
      /\ closed => closed'
      /\ closed' /\ ~closed => ended' # "no"
  BY DEF EndsAs, TypeOK
<1> QED BY <1>1, <1>2

\* The initial states satisfy it.
LEMMA HonestInit == Init => HonestInv
<1> SUFFICES ASSUME Init PROVE HonestInv
  OBVIOUS
<1>1. up \in Seq({"spawned", "exit", "error"}) /\ DOMAIN up = {}
  BY DEF Init
<1>2. down \in Seq({"spec", "release"}) /\ down = <<"spec">>
  BY DEF Init
<1>3. TypeOK
  <2>1. wdTries \in [KillReasons -> 0..MaxTries]
    BY DEF Init
  <2>2. proc \in [Procs -> {"absent", "group", "outside", "exited", "killed"}]
    BY DEF Init
  <2>3. hostTries \in 0..MaxTries
    BY DEF Init
  <2> QED BY <1>1, <1>2, <2>1, <2>2, <2>3 DEF Init, TypeOK
<1>4. KillersKnown
  BY DEF Init, KillersKnown, KillReasons
<1>5. ReleaseHeld
  BY <1>2 DEF Init, ReleaseHeld, Down
<1>6. EndKnown
  BY DEF Init, EndKnown
<1>7. ReportsTrue
  BY <1>1 DEF Init, ReportsTrue
<1> QED BY <1>3, <1>4, <1>5, <1>6, <1>7 DEF HonestInv

-----------------------------------------------------------------------------
(* One lemma per action: each keeps the types, what is known of who kills,  *)
(* what a release holds and what a report says.                            *)

\* HostReceive keeps HonestInv.
LEMMA HostReceivePreserves == HonestInv /\ HostReceive => HonestInv'
<1> SUFFICES ASSUME HonestInv, HostReceive PROVE HonestInv'
  OBVIOUS
<1> USE DEF HonestInv, HostReceive, hostVars, wdVars, targetVars
<1>r. /\ up' \in Seq({"spawned", "exit", "error"})
      /\ \A i \in DOMAIN up' : i + 1 \in DOMAIN up /\ up'[i] = up[i + 1]
      /\ 1 \in DOMAIN up /\ Head(up) = up[1]
  BY ReadEffect
<1>h. Head(up) \in {"spawned", "exit", "error"}
  BY <1>r DEF TypeOK
<1>e. /\ ended' \in {"no", "own", "killed", "lost", "failed"} /\ closed' \in BOOLEAN
      /\ pidKnown' \in BOOLEAN
      /\ closed => closed'
      /\ closed' => ended' # "no"
      /\ ended # "no" => ended' = ended
      /\ ended = "no" => ended' \in {"no", "own", "failed"}
      /\ ended' = "own" => ended = "own" \/ Head(up) = "exit"
  <2>1. CASE Head(up) = "spawned"
    BY <2>1 DEF TypeOK, EndKnown
  <2>2. CASE Head(up) = "exit"
    <3>1. EndsAs("own", openStreams) /\ pidKnown' = pidKnown
      BY <2>2
    <3> QED BY <2>2, <3>1, SettleEffect DEF TypeOK, EndKnown
  <2>3. CASE Head(up) = "error"
    <3>1. EndsAs("failed", openStreams) /\ pidKnown' = pidKnown
      BY <2>3
    <3> QED BY <2>3, <3>1, SettleEffect DEF TypeOK, EndKnown
  <2> QED BY <1>h, <2>1, <2>2, <2>3
<1>1. TypeOK'
  BY <1>r, <1>e DEF TypeOK, KillReasons
<1>2. KillersKnown'
  BY DEF KillersKnown, TypeOK, KillReasons
<1>3. ReleaseHeld'
  BY <1>e DEF ReleaseHeld, ReleasePending, Down, TypeOK
<1>4. ReportsTrue'
  BY <1>r, <1>e DEF ReportsTrue, TypeOK
<1>5. EndKnown'
  BY <1>r, <1>e DEF EndKnown, TypeOK
<1> QED BY <1>1, <1>2, <1>3, <1>4, <1>5

\* HostWatchdogError keeps HonestInv.
LEMMA HostWatchdogErrorPreserves == HonestInv /\ HostWatchdogError => HonestInv'
<1> SUFFICES ASSUME HonestInv, HostWatchdogError PROVE HonestInv'
  OBVIOUS
<1> USE DEF HonestInv, HostWatchdogError, hostVars, wdVars, targetVars
<1>e. /\ ended' \in {"no", "own", "killed", "lost", "failed"} /\ closed' \in BOOLEAN
      /\ ended' = "failed"
      /\ closed => closed'
      /\ closed' => ended' # "no"
  BY SettleEffect DEF EndKnown
<1>1. TypeOK'
  BY <1>e DEF TypeOK, KillReasons
<1>2. KillersKnown'
  BY DEF KillersKnown, TypeOK, KillReasons
<1>3. ReleaseHeld'
  BY <1>e DEF ReleaseHeld, ReleasePending, Down, TypeOK
<1>4. ReportsTrue'
  BY <1>e DEF ReportsTrue, TypeOK
<1>5. EndKnown'
  BY <1>e DEF EndKnown, TypeOK
<1> QED BY <1>1, <1>2, <1>3, <1>4, <1>5

\* HostStreamClose keeps HonestInv.
LEMMA HostStreamClosePreserves == HonestInv /\ (\E s \in Streams : HostStreamClose(s)) => HonestInv'
<1> SUFFICES ASSUME HonestInv, (\E s \in Streams : HostStreamClose(s)) PROVE HonestInv'
  OBVIOUS
<1> USE DEF HonestInv, HostStreamClose, hostVars, wdVars, targetVars
<1>e. /\ ended' \in {"no", "own", "killed", "lost", "failed"} /\ closed' \in BOOLEAN
      /\ ended' = ended
      /\ closed => closed'
      /\ closed' => ended' # "no"
  BY SettleEffect DEF TypeOK, EndKnown
<1>1. TypeOK'
  BY <1>e DEF TypeOK, KillReasons
<1>2. KillersKnown'
  BY DEF KillersKnown, TypeOK, KillReasons
<1>3. ReleaseHeld'
  BY <1>e DEF ReleaseHeld, ReleasePending, Down, TypeOK
<1>4. ReportsTrue'
  BY <1>e DEF ReportsTrue, TypeOK
<1>5. EndKnown'
  BY <1>e DEF EndKnown, TypeOK
<1> QED BY <1>1, <1>2, <1>3, <1>4, <1>5

\* HostTry keeps HonestInv.
LEMMA HostTryPreserves == HonestInv /\ HostTry => HonestInv'
<1> SUFFICES ASSUME HonestInv, HostTry PROVE HonestInv'
  OBVIOUS
<1> USE DEF HonestInv, HostTry, hostVars, wdVars, targetVars
<1>k. /\ hostTries' \in 0..MaxTries
      /\ proc' \in [Procs -> {"absent", "group", "outside", "exited", "killed"}]
      /\ holders' \subseteq Procs
      /\ proc[Leader] = "exited" => proc'[Leader] = "exited"
  BY AttemptEffect, NextTryType DEF TypeOK
<1>1. TypeOK'
  BY <1>k DEF TypeOK, KillReasons
<1>2. KillersKnown'
  BY <1>k DEF KillersKnown, TypeOK, KillReasons
<1>3. ReleaseHeld'
  BY DEF ReleaseHeld, ReleasePending, Down, TypeOK
<1>4. ReportsTrue'
  BY <1>k DEF ReportsTrue, TypeOK
<1>5. EndKnown'
  BY <1>k DEF EndKnown, TypeOK
<1> QED BY <1>1, <1>2, <1>3, <1>4, <1>5

\* HostStop keeps HonestInv.
LEMMA HostStopPreserves == HonestInv /\ HostStop => HonestInv'
<1> SUFFICES ASSUME HonestInv, HostStop PROVE HonestInv'
  OBVIOUS
<1> USE DEF HonestInv, HostStop, hostVars, wdVars, targetVars
<1>k. /\ killed' = TRUE /\ hostTries' \in 0..MaxTries
      /\ lifeline' = "destroyed" /\ DOMAIN up' = {}
      /\ up' \in Seq({"spawned", "exit", "error"})
      /\ down' \in Seq({"spec", "release"}) /\ Down(down')
      /\ down' = down \/ (down = <<"spec">> /\ down' = <<>>)
      /\ proc' \in [Procs -> {"absent", "group", "outside", "exited", "killed"}]
      /\ holders' \subseteq Procs
      /\ proc[Leader] = "exited" => proc'[Leader] = "exited"
  BY KillEffect DEF ReleaseHeld
<1>1. TypeOK'
  BY <1>k DEF TypeOK, KillReasons
<1>2. KillersKnown'
  BY <1>k DEF KillersKnown, TypeOK, KillReasons
<1>3. ReleaseHeld'
  BY <1>k DEF ReleaseHeld, ReleasePending, Down, TypeOK
<1>4. ReportsTrue'
  BY <1>k DEF ReportsTrue, TypeOK
<1>5. EndKnown'
  BY <1>k DEF EndKnown, TypeOK
<1> QED BY <1>1, <1>2, <1>3, <1>4, <1>5

\* HostRelease keeps HonestInv.
LEMMA HostReleasePreserves == HonestInv /\ HostRelease => HonestInv'
<1> SUFFICES ASSUME HonestInv, HostRelease PROVE HonestInv'
  OBVIOUS
<1> USE DEF HonestInv, HostRelease, hostVars, wdVars, targetVars
<1>d. /\ down' \in Seq({"spec", "release"})
      /\ Down(down')
      /\ lifeline = "open" /\ ~closeSeen => down' \in {<<"release">>, <<"spec", "release">>}
  <2>1. CASE lifeline = "open" /\ ~closeSeen
    <3>1. down \in {<<>>, <<"spec">>} /\ down' = Append(down, "release")
      BY <2>1 DEF ReleaseHeld
    <3>2. down' \in {<<"release">>, <<"spec", "release">>}
      BY <3>1, AppendFacts
    <3>3. <<"release">> \in Seq({"spec", "release"})
      OBVIOUS
    <3>4. <<"spec", "release">> \in Seq({"spec", "release"})
      OBVIOUS
    <3> QED BY <3>2, <3>3, <3>4 DEF Down
  <2>2. CASE ~(lifeline = "open" /\ ~closeSeen)
    BY <2>2 DEF TypeOK, ReleaseHeld
  <2> QED BY <2>1, <2>2
<1>o. ended = "own"
  BY DEF TypeOK, EndKnown
<1>l. lifeline = "open"
  BY DEF TypeOK, KillersKnown, ReleaseHeld
<1>1. TypeOK'
  BY <1>d DEF TypeOK, KillReasons
<1>2. KillersKnown'
  BY DEF KillersKnown, TypeOK, KillReasons
<1>3. ReleaseHeld'
  BY <1>d, <1>l, <1>o DEF ReleaseHeld, ReleasePending, Down, TypeOK
<1>4. ReportsTrue'
  BY <1>o DEF ReportsTrue, TypeOK
<1>5. EndKnown'
  BY <1>d DEF EndKnown, TypeOK
<1> QED BY <1>1, <1>2, <1>3, <1>4, <1>5

\* HostDie keeps HonestInv.
LEMMA HostDiePreserves == HonestInv /\ HostDie => HonestInv'
<1> SUFFICES ASSUME HonestInv, HostDie PROVE HonestInv'
  OBVIOUS
<1> USE DEF HonestInv, HostDie, hostVars, wdVars, targetVars
<1>d. /\ lifeline' = "destroyed" /\ DOMAIN up' = {}
      /\ up' \in Seq({"spawned", "exit", "error"})
      /\ down' \in Seq({"spec", "release"}) /\ Down(down')
      /\ down' = down \/ (down = <<"spec">> /\ down' = <<>>)
  BY DropEffect DEF ReleaseHeld
<1>1. TypeOK'
  BY <1>d DEF TypeOK, KillReasons
<1>2. KillersKnown'
  BY <1>d DEF KillersKnown, TypeOK, KillReasons
<1>3. ReleaseHeld'
  BY <1>d, DistinctContents DEF ReleaseHeld, ReleasePending, Down, TypeOK
<1>4. ReportsTrue'
  BY <1>d DEF ReportsTrue, TypeOK
<1>5. EndKnown'
  BY <1>d DEF EndKnown, TypeOK
<1> QED BY <1>1, <1>2, <1>3, <1>4, <1>5

\* HostExit keeps HonestInv.
LEMMA HostExitPreserves == HonestInv /\ HostExit => HonestInv'
<1> SUFFICES ASSUME HonestInv, HostExit PROVE HonestInv'
  OBVIOUS
<1> USE DEF HonestInv, HostExit, hostVars, wdVars, targetVars
<1>d. /\ lifeline' = "destroyed" /\ DOMAIN up' = {}
      /\ up' \in Seq({"spawned", "exit", "error"})
      /\ down' \in Seq({"spec", "release"}) /\ Down(down')
      /\ down' = down \/ (down = <<"spec">> /\ down' = <<>>)
  BY DropEffect DEF ReleaseHeld
<1>k. /\ proc' \in [Procs -> {"absent", "group", "outside", "exited", "killed"}]
      /\ holders' \subseteq Procs
      /\ proc[Leader] = "exited" => proc'[Leader] = "exited"
  BY AttemptEffect DEF TypeOK
<1>1. TypeOK'
  BY <1>d, <1>k DEF TypeOK, KillReasons
<1>2. KillersKnown'
  BY <1>d DEF KillersKnown, TypeOK, KillReasons
<1>3. ReleaseHeld'
  BY <1>d, DistinctContents DEF ReleaseHeld, ReleasePending, Down, TypeOK
<1>4. ReportsTrue'
  BY <1>d, <1>k DEF ReportsTrue, TypeOK
<1>5. EndKnown'
  BY <1>d, <1>k DEF EndKnown, TypeOK
<1> QED BY <1>1, <1>2, <1>3, <1>4, <1>5

\* WdReportSpawned keeps HonestInv.
LEMMA WdReportSpawnedPreserves == HonestInv /\ WdReportSpawned => HonestInv'
<1> SUFFICES ASSUME HonestInv, WdReportSpawned PROVE HonestInv'
  OBVIOUS
<1> USE DEF HonestInv, WdReportSpawned, hostVars, wdVars, targetVars
<1>r. /\ up' \in Seq({"spawned", "exit", "error"})
      /\ \A i \in DOMAIN up' : up'[i] = "spawned" \/ (i \in DOMAIN up /\ up'[i] = up[i])
  BY ReportEffect
<1>1. TypeOK'
  BY <1>r DEF TypeOK, KillReasons
<1>2. KillersKnown'
  BY DEF KillersKnown, TypeOK, KillReasons
<1>3. ReleaseHeld'
  BY DEF ReleaseHeld, ReleasePending, Down, TypeOK
<1>4. ReportsTrue'
  BY <1>r DEF ReportsTrue, TypeOK
<1>5. EndKnown'
  BY <1>r DEF EndKnown, TypeOK
<1> QED BY <1>1, <1>2, <1>3, <1>4, <1>5

\* WdReportExit keeps HonestInv.
LEMMA WdReportExitPreserves == HonestInv /\ WdReportExit => HonestInv'
<1> SUFFICES ASSUME HonestInv, WdReportExit PROVE HonestInv'
  OBVIOUS
<1> USE DEF HonestInv, WdReportExit, hostVars, wdVars, targetVars
<1>r. /\ up' \in Seq({"spawned", "exit", "error"})
      /\ \A i \in DOMAIN up' : up'[i] = "exit" \/ (i \in DOMAIN up /\ up'[i] = up[i])
  BY ReportEffect
<1>u. up' = up \/ proc[Leader] = "exited"
  BY DEF Report, HostCanRead, KillersKnown, ReportsTrue
<1>1. TypeOK'
  BY <1>r DEF TypeOK, KillReasons
<1>2. KillersKnown'
  BY DEF KillersKnown, TypeOK, KillReasons
<1>3. ReleaseHeld'
  BY DEF ReleaseHeld, ReleasePending, Down, TypeOK
<1>4. ReportsTrue'
  BY <1>r, <1>u DEF ReportsTrue, TypeOK
<1>5. EndKnown'
  BY <1>r DEF EndKnown, TypeOK
<1> QED BY <1>1, <1>2, <1>3, <1>4, <1>5

\* WdReadRelease keeps HonestInv.
LEMMA WdReadReleasePreserves == HonestInv /\ WdReadRelease => HonestInv'
<1> SUFFICES ASSUME HonestInv, WdReadRelease PROVE HonestInv'
  OBVIOUS
<1> USE DEF HonestInv, WdReadRelease, hostVars, wdVars, targetVars
<1>1. TypeOK'
  BY TailFacts DEF TypeOK, KillReasons
<1>2. KillersKnown'
  BY DEF KillersKnown, TypeOK, KillReasons
<1>3. ReleaseHeld'
  BY TailFacts, DistinctContents DEF ReleaseHeld, ReleasePending, Down, TypeOK
<1>4. ReportsTrue'
  BY DEF ReportsTrue, TypeOK
<1>5. EndKnown'
  BY TailFacts DEF EndKnown, TypeOK
<1> QED BY <1>1, <1>2, <1>3, <1>4, <1>5

\* WdCrash keeps HonestInv.
LEMMA WdCrashPreserves == HonestInv /\ WdCrash => HonestInv'
<1> SUFFICES ASSUME HonestInv, WdCrash PROVE HonestInv'
  OBVIOUS
<1> USE DEF HonestInv, WdCrash, hostVars, wdVars, targetVars
<1>1. TypeOK'
  BY DEF TypeOK, KillReasons
<1>2. KillersKnown'
  BY DEF KillersKnown, TypeOK, KillReasons
<1>3. ReleaseHeld'
  BY DEF ReleaseHeld, ReleasePending, Down, TypeOK
<1>4. ReportsTrue'
  BY DEF ReportsTrue, TypeOK
<1>5. EndKnown'
  BY DEF EndKnown, TypeOK
<1> QED BY <1>1, <1>2, <1>3, <1>4, <1>5

\* TargetFork keeps HonestInv.
LEMMA TargetForkPreserves == HonestInv /\ (\E p, q \in Procs : TargetFork(p, q)) => HonestInv'
<1> SUFFICES ASSUME HonestInv, (\E p, q \in Procs : TargetFork(p, q)) PROVE HonestInv'
  OBVIOUS
<1> USE DEF HonestInv, TargetFork, hostVars, wdVars, targetVars
<1>1. TypeOK'
  BY DEF TypeOK, KillReasons
<1>2. KillersKnown'
  BY DEF KillersKnown, TypeOK, KillReasons, Alive
<1>3. ReleaseHeld'
  BY DEF ReleaseHeld, ReleasePending, Down, TypeOK
<1>4. ReportsTrue'
  BY DEF ReportsTrue, TypeOK
<1>5. EndKnown'
  BY DEF EndKnown, TypeOK
<1> QED BY <1>1, <1>2, <1>3, <1>4, <1>5

\* TargetEscape keeps HonestInv.
LEMMA TargetEscapePreserves == HonestInv /\ (\E p \in Procs : TargetEscape(p)) => HonestInv'
<1> SUFFICES ASSUME HonestInv, (\E p \in Procs : TargetEscape(p)) PROVE HonestInv'
  OBVIOUS
<1> USE DEF HonestInv, TargetEscape, hostVars, wdVars, targetVars
<1>1. TypeOK'
  BY DEF TypeOK, KillReasons
<1>2. KillersKnown'
  BY DEF KillersKnown, TypeOK, KillReasons
<1>3. ReleaseHeld'
  BY DEF ReleaseHeld, ReleasePending, Down, TypeOK
<1>4. ReportsTrue'
  BY DEF ReportsTrue, TypeOK
<1>5. EndKnown'
  BY DEF EndKnown, TypeOK
<1> QED BY <1>1, <1>2, <1>3, <1>4, <1>5

\* TargetExit keeps HonestInv.
LEMMA TargetExitPreserves == HonestInv /\ (\E p \in Procs : TargetExit(p)) => HonestInv'
<1> SUFFICES ASSUME HonestInv, (\E p \in Procs : TargetExit(p)) PROVE HonestInv'
  OBVIOUS
<1> USE DEF HonestInv, TargetExit, hostVars, wdVars, targetVars
<1>1. TypeOK'
  BY DEF TypeOK, KillReasons
<1>2. KillersKnown'
  BY DEF KillersKnown, TypeOK, KillReasons
<1>3. ReleaseHeld'
  BY DEF ReleaseHeld, ReleasePending, Down, TypeOK
<1>4. ReportsTrue'
  BY DEF ReportsTrue, TypeOK
<1>5. EndKnown'
  BY DEF EndKnown, TypeOK
<1> QED BY <1>1, <1>2, <1>3, <1>4, <1>5

\* TargetDropStreams keeps HonestInv.
LEMMA TargetDropStreamsPreserves ==
  HonestInv /\ (\E p \in Procs : TargetDropStreams(p)) => HonestInv'
<1> SUFFICES ASSUME HonestInv, (\E p \in Procs : TargetDropStreams(p)) PROVE HonestInv'
  OBVIOUS
<1> USE DEF HonestInv, TargetDropStreams, hostVars, wdVars, targetVars
<1>1. TypeOK'
  BY DEF TypeOK, KillReasons
<1>2. KillersKnown'
  BY DEF KillersKnown, TypeOK, KillReasons
<1>3. ReleaseHeld'
  BY DEF ReleaseHeld, ReleasePending, Down, TypeOK
<1>4. ReportsTrue'
  BY DEF ReportsTrue, TypeOK
<1>5. EndKnown'
  BY DEF EndKnown, TypeOK
<1> QED BY <1>1, <1>2, <1>3, <1>4, <1>5

\* HostLifelineClose keeps HonestInv.
LEMMA HostLifelineClosePreserves == HonestInv /\ HostLifelineClose => HonestInv'
<1> SUFFICES ASSUME HonestInv, HostLifelineClose PROVE HonestInv'
  OBVIOUS
<1> USE DEF HonestInv, hostVars, wdVars, targetVars
<1>0. /\ closeSeen' = TRUE
      /\ lifeline = "destroyed" \/ watchdog # "running"
      /\ UNCHANGED <<host, pidKnown, released, openStreams, wdVars>>
  BY DEF HostLifelineClose
<1>1. CASE /\ ended # "no"
           /\ UNCHANGED <<ended, closed, killed, destroyed, lifeline, hostTries,
                          down, up, targetVars>>
  <2>1. TypeOK'
    BY <1>0, <1>1 DEF TypeOK
  <2>2. KillersKnown' /\ EndKnown'
    BY <1>0, <1>1 DEF KillersKnown, EndKnown
  <2>3. ReleaseHeld'
    BY <1>0, <1>1 DEF ReleaseHeld, ReleasePending
  <2>4. ReportsTrue'
    BY <1>0, <1>1 DEF ReportsTrue
  <2> QED BY <2>1, <2>2, <2>3, <2>4
<1>2. CASE \E h \in {"killed", "failed"} :
             /\ ended = "no" /\ (h = "killed" => killed)
             /\ destroyed' \in BOOLEAN
             /\ EndsAs(h, openStreams)
             /\ UNCHANGED <<killed, lifeline, hostTries, down, up, targetVars>>
  <2>1. /\ ended' \in {"killed", "failed"} /\ closed' \in BOOLEAN
        /\ ended' = "killed" => killed
        /\ ended = "no"
        /\ destroyed' \in BOOLEAN
        /\ UNCHANGED <<killed, lifeline, hostTries, down, up, targetVars>>
    BY <1>2, SettleEffect
  <2>2. TypeOK'
    BY <1>0, <2>1 DEF TypeOK
  <2>3. KillersKnown' /\ EndKnown'
    BY <1>0, <2>1 DEF KillersKnown, EndKnown
  <2>4. ReleaseHeld'
    BY <1>0, <2>1 DEF ReleaseHeld, ReleasePending
  <2>5. ReportsTrue'
    BY <1>0, <2>1 DEF ReportsTrue
  <2> QED BY <2>2, <2>3, <2>4, <2>5
<1>3. CASE /\ ended = "no" /\ ~killed /\ pidKnown
           /\ KillGroup
           /\ EndsAs("lost", openStreams)
           /\ UNCHANGED destroyed
  <2>1. /\ killed' = TRUE /\ hostTries' \in 0..MaxTries
        /\ lifeline' = "destroyed" /\ DOMAIN up' = {}
        /\ up' \in Seq({"spawned", "exit", "error"})
        /\ down' \in Seq({"spec", "release"}) /\ Down(down')
        /\ proc' \in [Procs -> {"absent", "group", "outside", "exited", "killed"}]
        /\ holders' \subseteq Procs
    BY <1>3, KillEffect DEF ReleaseHeld
  <2>2. ended' = "lost" /\ closed' \in BOOLEAN
    BY <1>3, SettleEffect
  <2>3. ~released
    BY <1>3 DEF ReleaseHeld
  <2>4. TypeOK'
    BY <1>0, <1>3, <2>1, <2>2 DEF TypeOK
  <2>5. KillersKnown' /\ EndKnown'
    BY <1>0, <2>1, <2>2, <2>3 DEF KillersKnown, EndKnown
  <2>6. ReleaseHeld'
    BY <1>0, <2>1, <2>3 DEF ReleaseHeld
  <2>7. ReportsTrue'
    BY <1>0, <2>1, <2>2 DEF ReportsTrue
  <2> QED BY <2>4, <2>5, <2>6, <2>7
<1> QED BY <1>0, <1>1, <1>2, <1>3 DEF HostLifelineClose, TypeOK

\* WdStart keeps HonestInv.
LEMMA WdStartPreserves == HonestInv /\ WdStart => HonestInv'
<1> SUFFICES ASSUME HonestInv, WdStart PROVE HonestInv'
  OBVIOUS
<1> USE DEF HonestInv, hostVars, wdVars, targetVars
<1>1. /\ watchdog = "running" /\ wdTarget = "none"
      /\ UNCHANGED <<hostVars, wdReleased, wdReported>>
  BY DEF WdStart
<1>2. /\ down' \in Seq({"spec", "release"}) /\ Down(down')
      /\ lifeline = "open" => down' \in {<<>>, <<"spec">>}
      /\ ReleasePending => down' \in {<<"release">>, <<"spec", "release">>}
  <2>1. down \in {<<"spec">>, <<"spec", "release">>}
    BY TailFacts DEF WdStart, ReleaseHeld, Down
  <2>2. down' = Tail(down) /\ down' \in {<<>>, <<"release">>}
    BY <2>1, TailFacts DEF WdStart
  <2>3. <<>> \in Seq({"spec", "release"}) /\ <<"release">> \in Seq({"spec", "release"})
    OBVIOUS
  <2> QED BY <2>1, <2>2, <2>3, TailFacts, DistinctContents DEF ReleaseHeld, ReleasePending, Down
<1>3. ~wdReported /\ ended # "own" /\ ~released
  BY <1>1 DEF ReportsTrue, ReleaseHeld
<1>4. CASE WdThen("fail") /\ UNCHANGED <<wdTarget, targetVars>>
  <2>1. /\ up' \in Seq({"spawned", "exit", "error"})
        /\ \A i \in DOMAIN up' : up'[i] = "error" \/ (i \in DOMAIN up /\ up'[i] = up[i])
        /\ watchdog' = "exited"
        /\ wdTries' = [r \in KillReasons |-> 0]
    BY <1>4, ReportEffect DEF WdThen
  <2>2. wdTries' \in [KillReasons -> 0..MaxTries]
    BY <2>1
  <2>3. TypeOK'
    BY <1>1, <1>2, <1>4, <2>1, <2>2 DEF TypeOK
  <2>4. KillersKnown' /\ EndKnown'
    BY <1>1, <1>4, <2>1 DEF KillersKnown, EndKnown, KillReasons
  <2>5. ReleaseHeld'
    BY <1>1, <1>2, <1>3, <2>1 DEF ReleaseHeld
  <2>6. ReportsTrue'
    BY <1>1, <1>3, <1>4, <2>1 DEF ReportsTrue
  <2> QED BY <2>3, <2>4, <2>5, <2>6
<1>5. CASE /\ wdTarget' \in {"starting", "faulted"}
           /\ proc' = [proc EXCEPT ![Leader] = "group"]
           /\ holders' = holders \cup {Leader}
           /\ UNCHANGED <<watchdog, up>>
           /\ \/ UNCHANGED wdTries
              \/ wdTarget' = "faulted" /\ wdTries' = [wdTries EXCEPT !["fail"] = 1]
  <2>1. /\ wdTries' \in [KillReasons -> 0..MaxTries]
        /\ wdTries'["close"] = wdTries["close"]
        /\ wdTries'["fail"] > 0 => wdTarget' = "faulted"
    BY <1>1, <1>5 DEF TypeOK, KillReasons, KillersKnown
  <2>2. TypeOK'
    BY <1>1, <1>2, <1>5, <2>1 DEF TypeOK
  <2>3. KillersKnown' /\ EndKnown'
    BY <1>1, <1>5, <2>1 DEF KillersKnown, EndKnown, TypeOK
  <2>4. ReleaseHeld'
    BY <1>1, <1>2, <1>3, <1>5 DEF ReleaseHeld
  <2>5. ReportsTrue'
    BY <1>1, <1>3, <1>5 DEF ReportsTrue
  <2> QED BY <2>2, <2>3, <2>4, <2>5
<1> QED BY <1>4, <1>5 DEF WdStart

\* An attempt by the watchdog for a reason it may act on.
LEMMA WdAttemptPreserves ==
  ASSUME HonestInv, NEW r \in KillReasons, NEW k \in 1..MaxTries,
         WdAttempt(r, k),
         UNCHANGED <<hostVars, down, wdTarget, wdReleased, wdReported>>,
         r = "close" => lifeline = "destroyed" /\ ~released,
         r = "fail" => wdTarget = "faulted",
         watchdog = "running"
  PROVE  HonestInv'
<1> USE DEF HonestInv, hostVars
<1>1. /\ proc' \in [Procs -> {"absent", "group", "outside", "exited", "killed"}]
      /\ holders' \subseteq Procs
      /\ proc[Leader] = "exited" => proc'[Leader] = "exited"
  BY AttemptEffect DEF WdAttempt
<1>2. CASE LoopOver(k)
  <2>1. WdThen(r)
    BY <1>2 DEF WdAttempt
  <2>2. /\ watchdog' = "exited" /\ wdTries' = [q \in KillReasons |-> 0]
        /\ up' \in Seq({"spawned", "exit", "error"})
        /\ \A i \in DOMAIN up' : up'[i] = "error" \/ (i \in DOMAIN up /\ up'[i] = up[i])
    <3>1. CASE r = "fail"
      BY <2>1, <3>1, ReportEffect DEF WdThen
    <3>2. CASE r # "fail"
      BY <2>1, <3>2 DEF WdThen, TypeOK
    <3> QED BY <3>1, <3>2
  <2>3. wdTries' \in [KillReasons -> 0..MaxTries]
    BY <2>2
  <2>4. TypeOK'
    BY <1>1, <2>2, <2>3 DEF TypeOK
  <2>5. KillersKnown' /\ EndKnown'
    BY <1>1, <2>2 DEF KillersKnown, EndKnown, KillReasons
  <2>6. ReleaseHeld'
    BY <2>2 DEF ReleaseHeld
  <2>7. ReportsTrue'
    BY <1>1, <2>2 DEF ReportsTrue
  <2> QED BY <2>4, <2>5, <2>6, <2>7
<1>3. CASE ~LoopOver(k)
  <2>1. /\ wdTries' = [wdTries EXCEPT ![r] = k + 1]
        /\ UNCHANGED <<watchdog, up>>
    BY <1>3 DEF WdAttempt
  <2>2. k + 1 \in 0..MaxTries
    BY <1>3 DEF LoopOver
  <2>3. wdTries' \in [KillReasons -> 0..MaxTries]
    BY <2>1, <2>2 DEF TypeOK
  <2>4. TypeOK'
    BY <1>1, <2>1, <2>3 DEF TypeOK
  <2>5. KillersKnown'
    BY <1>1, <2>1 DEF KillersKnown, KillReasons, TypeOK
  <2>6. ReleaseHeld' /\ EndKnown'
    BY <2>1 DEF ReleaseHeld, ReleasePending, EndKnown
  <2>7. ReportsTrue'
    BY <1>1, <2>1 DEF ReportsTrue
  <2> QED BY <2>4, <2>5, <2>6, <2>7
<1> QED BY <1>2, <1>3

\* WdTry keeps HonestInv.
LEMMA WdTryPreserves == HonestInv /\ (\E r \in KillReasons : WdTry(r)) => HonestInv'
<1> SUFFICES ASSUME HonestInv, NEW r \in KillReasons, WdTry(r) PROVE HonestInv'
  OBVIOUS
<1>1. wdTries[r] \in 1..MaxTries
  BY DEF WdTry, HonestInv, TypeOK
<1>2. /\ r = "close" => lifeline = "destroyed" /\ ~released
      /\ r = "fail" => wdTarget = "faulted"
  BY <1>1 DEF HonestInv, KillersKnown
<1> QED BY <1>1, <1>2, WdAttemptPreserves DEF WdTry

\* The close handler acts only on a lifeline that was destroyed, or after a release.
LEMMA WdClosePreserves == HonestInv /\ WdClose => HonestInv'
<1> SUFFICES ASSUME HonestInv, WdClose PROVE HonestInv'
  OBVIOUS
<1> USE DEF hostVars
<1>1. /\ watchdog = "running" /\ lifeline # "open" /\ down = <<>>
      /\ UNCHANGED <<hostVars, down, wdTarget, wdReleased, wdReported>>
  BY DEF WdClose
<1>2. CASE wdReleased \/ wdTarget = "none"
  <2>1. /\ watchdog' = "exited" /\ wdTries' = [q \in KillReasons |-> 0]
        /\ UNCHANGED <<up, targetVars>>
    BY <1>2 DEF WdClose, WdThen
  <2>2. wdTries' \in [KillReasons -> 0..MaxTries]
    BY <2>1
  <2>3. TypeOK'
    BY <1>1, <2>1, <2>2 DEF HonestInv, TypeOK, targetVars
  <2>4. KillersKnown' /\ EndKnown'
    BY <1>1, <2>1 DEF HonestInv, KillersKnown, EndKnown, KillReasons, targetVars
  <2>5. ReleaseHeld'
    BY <1>1, <2>1 DEF HonestInv, ReleaseHeld
  <2>6. ReportsTrue'
    BY <1>1, <2>1 DEF HonestInv, ReportsTrue, targetVars
  <2> QED BY <2>3, <2>4, <2>5, <2>6 DEF HonestInv
<1>3. CASE ~(wdReleased \/ wdTarget = "none")
  <2>1. WdAttempt("close", 1)
    BY <1>3 DEF WdClose
  <2>2. ~released
    BY <1>1, <1>3, DistinctContents DEF HonestInv, ReleaseHeld, ReleasePending
  <2>3. lifeline = "destroyed"
    BY <1>1, <2>2 DEF HonestInv, TypeOK, ReleaseHeld
  <2>4. 1 \in 1..MaxTries /\ "close" \in KillReasons
    BY DEF KillReasons
  <2> QED BY <1>1, <2>1, <2>2, <2>3, <2>4, WdAttemptPreserves
<1> QED BY <1>2, <1>3

\* A stuttering step keeps it.
LEMMA StutterPreserves == HonestInv /\ UNCHANGED vars => HonestInv'
BY DEF HonestInv, TypeOK, KillersKnown, ReleaseHeld, ReleasePending, EndKnown, ReportsTrue,
   vars, hostVars, wdVars, targetVars

\* Every step keeps HonestInv.
LEMMA NextPreserves == HonestInv /\ [Next]_vars => HonestInv'
<1> SUFFICES ASSUME HonestInv, [Next]_vars PROVE HonestInv'
  OBVIOUS
<1>1. CASE HostEvent
  BY <1>1, HostReceivePreserves, HostWatchdogErrorPreserves, HostStreamClosePreserves,
     HostLifelineClosePreserves, HostTryPreserves DEF HostEvent
<1>2. CASE WatchdogEvent
  BY <1>2, WdStartPreserves, WdReportSpawnedPreserves, WdReportExitPreserves,
     WdReadReleasePreserves, WdClosePreserves, WdTryPreserves DEF WatchdogEvent
<1>3. CASE Target
  BY <1>3, TargetForkPreserves, TargetEscapePreserves, TargetExitPreserves,
     TargetDropStreamsPreserves DEF Target
<1>4. CASE HostStop \/ HostRelease \/ HostDie \/ HostExit \/ WdCrash
  BY <1>4, HostStopPreserves, HostReleasePreserves, HostDiePreserves, HostExitPreserves,
     WdCrashPreserves
<1> QED BY <1>1, <1>2, <1>3, <1>4, StutterPreserves DEF Next

\* The types, and what the two theorems below rest on, hold of every execution.
THEOREM HonestInvariant == Spec => []HonestInv
<1>1. Spec => Init /\ [][Next]_vars
  BY DEF Spec
<1> QED BY <1>1, HonestInit, NextPreserves, PTL

\* Every variable keeps its type, the two bounded kill loops their bound.
THEOREM TypeCorrect == Spec => []TypeOK
<1>1. HonestInv => TypeOK
  BY DEF HonestInv
<1> QED BY <1>1, HonestInvariant, PTL

\* A run reported to have ended on the target's own account was not ended by a
\* kill of this package.
THEOREM HonestEndHolds == Spec => []HonestEnd
<1>1. HonestInv => HonestEnd
  BY DEF HonestInv, ReportsTrue, HonestEnd
<1> QED BY <1>1, HonestInvariant, PTL

\* No step kills a process once release() took effect.
THEOREM LeftoversSurviveHolds == Spec => LeftoversSurvive
<1> DEFINE Kept == released => \A p \in Procs : proc'[p] = "killed" => proc[p] = "killed"
<1>1. HonestInv /\ [Next]_vars => Kept
  <2> SUFFICES ASSUME HonestInv, [Next]_vars, released PROVE Kept
    OBVIOUS
  <2> USE DEF HonestInv, hostVars, wdVars, targetVars
  <2>1. ended = "own" /\ closed /\ ~killed /\ wdReported /\ wdTarget = "started"
    BY DEF ReleaseHeld, ReportsTrue
  <2>2. CASE UNCHANGED proc
    BY <2>2
  <2>3. CASE HostEvent
    <3>1. UNCHANGED proc
      BY <2>1, <2>3 DEF HostEvent, HostReceive, HostWatchdogError, HostStreamClose,
         HostLifelineClose, HostTry, KillersKnown, TypeOK
    <3> QED BY <3>1
  <2>4. CASE WatchdogEvent
    <3>1. ASSUME WdClose PROVE UNCHANGED proc
      <4>1. wdReleased
        BY <3>1, DistinctContents DEF WdClose, ReleaseHeld, ReleasePending
      <4> QED BY <3>1, <4>1 DEF WdClose
    <3>2. ASSUME NEW r \in KillReasons, WdTry(r) PROVE FALSE
      BY <2>1, <3>2 DEF WdTry, KillersKnown, KillReasons
    <3>3. ASSUME WdStart PROVE FALSE
      BY <2>1, <3>3 DEF WdStart
    <3> QED BY <2>4, <3>1, <3>2, <3>3 DEF WatchdogEvent, WdReportSpawned, WdReportExit,
            WdReadRelease
  <2>5. CASE Target
    <3>1. ASSUME NEW p \in Procs, NEW q \in Procs, TargetFork(p, q) PROVE Kept
      BY <3>1 DEF TargetFork, Alive, TypeOK
    <3>2. ASSUME NEW p \in Procs, TargetEscape(p) PROVE Kept
      BY <3>2 DEF TargetEscape, TypeOK
    <3>3. ASSUME NEW p \in Procs, TargetExit(p) PROVE Kept
      BY <3>3 DEF TargetExit, TypeOK
    <3>4. ASSUME NEW p \in Procs, TargetDropStreams(p) PROVE Kept
      BY <3>4 DEF TargetDropStreams
    <3> QED BY <2>5, <3>1, <3>2, <3>3, <3>4 DEF Target
  <2>6. CASE HostStop \/ HostRelease \/ HostDie \/ HostExit \/ WdCrash
    <3>1. UNCHANGED proc
      BY <2>1, <2>6 DEF HostStop, HostRelease, HostDie, HostExit, WdCrash, TypeOK
    <3> QED BY <3>1
  <2>7. CASE UNCHANGED vars
    BY <2>7 DEF vars
  <2> QED BY <2>3, <2>4, <2>5, <2>6, <2>7 DEF Next
<1>2. Spec => [][Kept]_vars
  <2>1. Spec => []HonestInv /\ [][Next]_vars
    BY HonestInvariant DEF Spec
  <2>2. HonestInv /\ [Next]_vars => [Kept]_vars
    BY <1>1
  <2> QED BY <2>1, <2>2, PTL
<1> QED BY <1>2 DEF LeftoversSurvive
-----------------------------------------------------------------------------
(* The class implements GroupedChild, step by step.  What HonestInv does    *)
(* not say and the interface promises is an order: 'spawn' comes before the *)
(* end, and a child that failed never had one.                              *)

\* The reports come up in order: an exit behind the 'spawned' it belongs to, an
\* error only from a watchdog that never reported one.
SpawnKnown ==
  /\ killed => lifeline = "destroyed"
  /\ pidKnown => wdTarget = "started"
  /\ watchdog = "unstarted" => wdTarget = "none"
  /\ wdTarget = "started" /\ lifeline # "destroyed" =>
       pidKnown \/ \E i \in DOMAIN up : up[i] = "spawned"
  /\ \A i \in DOMAIN up :
       /\ up[i] = "spawned" => wdTarget = "started"
       /\ up[i] = "error" => watchdog # "running" /\ wdTarget # "started"
       /\ up[i] = "exit" => pidKnown \/ \E j \in 1 .. i - 1 : up[j] = "spawned"

LEMMA SpawnInit == Init => SpawnKnown
<1> SUFFICES ASSUME Init PROVE SpawnKnown
  OBVIOUS
<1>1. DOMAIN up = {}
  BY DEF Init
<1> QED BY <1>1 DEF Init, SpawnKnown

\* A report appended to the channel, for as long as the host can read it.
LEMMA ReportPlace ==
  ASSUME HonestInv, NEW m \in {"spawned", "exit", "error"}, Report(m)
  PROVE  \/ up' = up /\ lifeline = "destroyed"
         \/ /\ Len(up) \in Nat /\ DOMAIN up = 1 .. Len(up)
            /\ DOMAIN up' = 1 .. Len(up) + 1
            /\ \A i \in 1 .. Len(up) : up'[i] = up[i]
            /\ up'[Len(up) + 1] = m
BY LenProperties, AppendProperties DEF Report, HostCanRead, HonestInv, TypeOK, KillersKnown

\* Reading a report keeps the order of the others.
LEMMA HostReceiveOrder == HonestInv /\ SpawnKnown /\ HostReceive => SpawnKnown'
<1> SUFFICES ASSUME HonestInv, SpawnKnown, HostReceive PROVE SpawnKnown'
  OBVIOUS
<1>1. /\ up # <<>> /\ up' = Tail(up)
      /\ pidKnown' = IF Head(up) = "spawned" THEN TRUE ELSE pidKnown
      /\ UNCHANGED <<killed, lifeline, wdVars>>
  <2>1. up # <<>> /\ up' = Tail(up) /\ UNCHANGED <<killed, lifeline, wdVars>>
    BY DEF HostReceive
  <2>2. Head(up) \in {"spawned", "exit", "error"}
    BY <2>1, ReadEffect DEF HonestInv, TypeOK
  <2>3. Head(up) = "spawned" => pidKnown' = TRUE
    BY DEF HostReceive
  <2>4. Head(up) \in {"exit", "error"} => pidKnown' = pidKnown
    BY DEF HostReceive
  <2> QED BY <2>1, <2>2, <2>3, <2>4
<1>2. /\ \A i \in DOMAIN up' : i + 1 \in DOMAIN up /\ up'[i] = up[i + 1]
      /\ 1 \in DOMAIN up /\ Head(up) = up[1]
  BY <1>1, ReadEffect DEF HonestInv
<1>3. /\ Len(up) \in Nat /\ DOMAIN up = 1 .. Len(up) /\ DOMAIN up' = 1 .. Len(up) - 1
  BY <1>1, LenProperties DEF HonestInv, TypeOK
<1>4. \A j \in DOMAIN up : up[j] = "spawned" =>
         pidKnown' \/ (j - 1 \in DOMAIN up' /\ up'[j - 1] = "spawned")
  <2> SUFFICES ASSUME NEW j \in DOMAIN up, up[j] = "spawned", j # 1
               PROVE  j - 1 \in DOMAIN up' /\ up'[j - 1] = "spawned"
    BY <1>1, <1>2
  <2>1. j - 1 \in DOMAIN up' /\ (j - 1) + 1 = j
    BY <1>3
  <2> QED BY <1>2, <2>1
<1>5. pidKnown => pidKnown'
  BY <1>1
<1>6. pidKnown' => wdTarget' = "started"
  BY <1>1, <1>2 DEF SpawnKnown, wdVars
<1>7. wdTarget' = "started" /\ lifeline' # "destroyed" =>
        pidKnown' \/ \E i \in DOMAIN up' : up'[i] = "spawned"
  BY <1>1, <1>4, <1>5 DEF SpawnKnown, wdVars
<1>8. ASSUME NEW i \in DOMAIN up'
      PROVE  /\ up'[i] = "spawned" => wdTarget' = "started"
             /\ up'[i] = "error" => watchdog' # "running" /\ wdTarget' # "started"
             /\ up'[i] = "exit" => pidKnown' \/ \E j \in 1 .. i - 1 : up'[j] = "spawned"
  <2>1. i + 1 \in DOMAIN up /\ up'[i] = up[i + 1] /\ i \in Nat
    BY <1>2, <1>3
  <2>2. ASSUME up'[i] = "exit", ~pidKnown'
        PROVE  \E j \in 1 .. i - 1 : up'[j] = "spawned"
    <3>1. PICK j \in 1 .. (i + 1) - 1 : up[j] = "spawned"
      BY <1>5, <2>1, <2>2 DEF SpawnKnown
    <3>2. j \in DOMAIN up
      BY <1>3, <2>1, <3>1
    <3>3. j - 1 \in DOMAIN up' /\ up'[j - 1] = "spawned"
      BY <1>4, <2>2, <3>1, <3>2
    <3>4. j - 1 \in 1 .. i - 1
      BY <1>3, <2>1, <3>1, <3>3
    <3> QED BY <3>3, <3>4
  <2>3. /\ up[i + 1] = "spawned" => wdTarget = "started"
        /\ up[i + 1] = "error" => watchdog # "running" /\ wdTarget # "started"
    BY <2>1 DEF SpawnKnown
  <2> QED BY <1>1, <2>1, <2>2, <2>3 DEF wdVars
<1> QED BY <1>1, <1>6, <1>7, <1>8 DEF SpawnKnown, wdVars

\* A step that puts no report on the lifeline.
LEMMA QuietOrder ==
  ASSUME SpawnKnown, UNCHANGED pidKnown,
         up' = up \/ (up' = <<>> /\ lifeline' = "destroyed"),
         lifeline = "destroyed" => lifeline' = "destroyed",
         killed' => killed \/ lifeline' = "destroyed",
         watchdog' = watchdog \/ watchdog' \in {"exited", "crashed"},
         wdTarget' = wdTarget \/ (watchdog = "running" /\ wdTarget = "none" /\ wdTarget' # "started")
  PROVE  SpawnKnown'
<1>1. CASE up' = up
  BY <1>1 DEF SpawnKnown
<1>2. CASE up' = <<>> /\ lifeline' = "destroyed"
  <2>1. DOMAIN up' = {}
    BY <1>2
  <2> QED BY <1>2, <2>1 DEF SpawnKnown
<1> QED BY <1>1, <1>2
\* A step that puts one report on it.
LEMMA ReportOrder ==
  ASSUME HonestInv, SpawnKnown, NEW m \in {"spawned", "exit", "error"}, Report(m),
         UNCHANGED hostVars, watchdog = "running",
         watchdog' \in {"running", "exited"},
         \/ m = "spawned" /\ wdTarget = "starting" /\ wdTarget' = "started"
         \/ m = "exit" /\ wdTarget = "started" /\ wdTarget' = "started"
         \/ m = "error" /\ wdTarget # "started" /\ wdTarget' = wdTarget /\ watchdog' = "exited"
  PROVE  SpawnKnown'
<1>1. UNCHANGED <<killed, lifeline, pidKnown>>
  BY DEF hostVars
<1>2. CASE up' = up /\ lifeline = "destroyed"
  <2>1. pidKnown => wdTarget' = "started"
    BY DEF SpawnKnown
  <2> QED BY <1>1, <1>2, <2>1 DEF SpawnKnown
<1>3. CASE /\ Len(up) \in Nat /\ DOMAIN up = 1 .. Len(up)
           /\ DOMAIN up' = 1 .. Len(up) + 1
           /\ \A i \in 1 .. Len(up) : up'[i] = up[i]
           /\ up'[Len(up) + 1] = m
  <2>1. pidKnown' => wdTarget' = "started"
    BY <1>1 DEF SpawnKnown
  <2>2. wdTarget' = "started" /\ lifeline' # "destroyed" =>
          pidKnown' \/ \E i \in DOMAIN up' : up'[i] = "spawned"
    <3>1. CASE m = "spawned"
      <4>1. Len(up) + 1 \in DOMAIN up'
        BY <1>3
      <4> QED BY <1>3, <3>1, <4>1
    <3>2. CASE m # "spawned"
      BY <1>1, <1>3, <3>2 DEF SpawnKnown
    <3> QED BY <3>1, <3>2
  <2>3. ASSUME NEW i \in DOMAIN up'
        PROVE  /\ up'[i] = "spawned" => wdTarget' = "started"
               /\ up'[i] = "error" => watchdog' # "running" /\ wdTarget' # "started"
               /\ up'[i] = "exit" => pidKnown' \/ \E j \in 1 .. i - 1 : up'[j] = "spawned"
    <3>1. CASE i \in 1 .. Len(up)
      <4>1. i \in DOMAIN up /\ up'[i] = up[i] /\ \A j \in 1 .. i - 1 : up'[j] = up[j]
        BY <1>3, <3>1
      <4>2. up[i] # "error"
        BY <4>1 DEF SpawnKnown
      <4>3. up[i] = "spawned" => wdTarget' = "started"
        BY <4>1 DEF SpawnKnown
      <4>4. up[i] = "exit" => pidKnown \/ \E j \in 1 .. i - 1 : up[j] = "spawned"
        BY <4>1 DEF SpawnKnown
      <4> QED BY <1>1, <4>1, <4>2, <4>3, <4>4
    <3>2. CASE i = Len(up) + 1
      <4>1. up'[i] = m
        BY <1>3, <3>2
      <4>2. CASE m # "exit"
        BY <4>1, <4>2
      <4>3. CASE m = "exit" /\ lifeline = "destroyed"
        BY <4>1, <4>3, <1>3 DEF Report, HostCanRead
      <4>4. CASE m = "exit" /\ lifeline # "destroyed"
        <5>1. pidKnown \/ \E j \in DOMAIN up : up[j] = "spawned"
          BY <4>4 DEF SpawnKnown
        <5>2. \A j \in DOMAIN up : j \in 1 .. i - 1 /\ up'[j] = up[j]
          BY <1>3, <3>2
        <5> QED BY <1>1, <4>1, <4>4, <5>1, <5>2
      <4> QED BY <4>2, <4>3, <4>4
    <3> QED BY <1>3, <3>1, <3>2
  <2> QED BY <1>1, <2>1, <2>2, <2>3 DEF SpawnKnown
<1> QED BY <1>2, <1>3, ReportPlace

\* An attempt by the watchdog for a reason it may act on, and start()'s own failure.
LEMMA WdThenOrder ==
  ASSUME HonestInv, SpawnKnown, NEW r \in KillReasons, WdThen(r),
         UNCHANGED hostVars, watchdog = "running", UNCHANGED wdTarget,
         r = "fail" => wdTarget # "started"
  PROVE  SpawnKnown'
<1>1. CASE r = "fail"
  BY <1>1, ReportOrder DEF WdThen
<1>2. CASE r # "fail"
  BY <1>2, QuietOrder DEF WdThen, hostVars
<1> QED BY <1>1, <1>2

LEMMA WdAttemptOrder ==
  ASSUME HonestInv, SpawnKnown, NEW r \in KillReasons, NEW k, WdAttempt(r, k),
         UNCHANGED hostVars, watchdog = "running", UNCHANGED wdTarget,
         r = "fail" => wdTarget # "started"
  PROVE  SpawnKnown'
<1>1. CASE LoopOver(k)
  BY <1>1, WdThenOrder DEF WdAttempt
<1>2. CASE ~LoopOver(k)
  BY <1>2, QuietOrder DEF WdAttempt, hostVars
<1> QED BY <1>1, <1>2

LEMMA WatchdogEventOrder == HonestInv /\ SpawnKnown /\ WatchdogEvent => SpawnKnown'
<1> SUFFICES ASSUME HonestInv, SpawnKnown, WatchdogEvent PROVE SpawnKnown'
  OBVIOUS
<1>1. CASE WdStart
  <2>1. /\ watchdog = "running" /\ wdTarget = "none" /\ UNCHANGED hostVars
        /\ \/ /\ wdTarget' \in {"starting", "faulted"} /\ UNCHANGED <<watchdog, up>>
           \/ WdThen("fail") /\ UNCHANGED wdTarget
    BY <1>1 DEF WdStart
  <2>2. CASE wdTarget' \in {"starting", "faulted"} /\ UNCHANGED <<watchdog, up>>
    BY <2>1, <2>2, QuietOrder DEF hostVars
  <2>3. CASE WdThen("fail") /\ UNCHANGED wdTarget
    BY <2>1, <2>3, WdThenOrder DEF KillReasons
  <2> QED BY <2>1, <2>2, <2>3
<1>2. CASE WdReportSpawned
  BY <1>2, ReportOrder DEF WdReportSpawned
<1>3. CASE WdReportExit
  BY <1>3, ReportOrder DEF WdReportExit
<1>4. CASE WdReadRelease
  BY <1>4, QuietOrder DEF WdReadRelease, hostVars
<1>5. CASE WdClose
  <2>1. watchdog = "running" /\ UNCHANGED <<hostVars, wdTarget>> /\ "close" \in KillReasons
    BY <1>5 DEF WdClose, KillReasons
  <2>2. WdThen("close") \/ WdAttempt("close", 1)
    BY <1>5 DEF WdClose
  <2> QED BY <2>1, <2>2, WdThenOrder, WdAttemptOrder
<1>6. ASSUME NEW r \in KillReasons, WdTry(r) PROVE SpawnKnown'
  <2>1. /\ watchdog = "running" /\ UNCHANGED <<hostVars, wdTarget>>
        /\ WdAttempt(r, wdTries[r]) /\ wdTries[r] > 0
    BY <1>6 DEF WdTry
  <2>2. r = "fail" => wdTarget # "started"
    BY <2>1 DEF HonestInv, KillersKnown
  <2> QED BY <2>1, <2>2, WdAttemptOrder
<1> QED BY <1>1, <1>2, <1>3, <1>4, <1>5, <1>6 DEF WatchdogEvent

\* Every step keeps SpawnKnown.
LEMMA SpawnPreserves == HonestInv /\ SpawnKnown /\ [Next]_vars => SpawnKnown'
<1> SUFFICES ASSUME HonestInv, SpawnKnown, [Next]_vars PROVE SpawnKnown'
  OBVIOUS
<1>1. CASE HostReceive
  BY <1>1, HostReceiveOrder
<1>2. CASE WatchdogEvent
  BY <1>2, WatchdogEventOrder
<1>3. CASE \/ HostWatchdogError \/ (\E s \in Streams : HostStreamClose(s)) \/ HostLifelineClose
           \/ HostTry \/ HostStop \/ HostRelease \/ HostDie \/ HostExit
  <2>1. UNCHANGED <<pidKnown, wdVars>>
    BY <1>3 DEF HostWatchdogError, HostStreamClose, HostLifelineClose, HostTry, HostStop,
       HostRelease, HostDie, HostExit
  <2>2. /\ up' = up \/ (up' = <<>> /\ lifeline' = "destroyed")
        /\ lifeline = "destroyed" => lifeline' = "destroyed"
        /\ killed' => killed \/ lifeline' = "destroyed"
    BY <1>3 DEF HostWatchdogError, HostStreamClose, HostLifelineClose, HostTry, HostStop,
       HostRelease, HostDie, HostExit, KillGroup, DropLifeline
  <2> QED BY <2>1, <2>2, QuietOrder DEF wdVars
<1>4. CASE WdCrash \/ Target \/ UNCHANGED vars
  <2>1. UNCHANGED <<hostVars, up, wdTarget>> /\ watchdog' \in {watchdog, "crashed"}
    BY <1>4 DEF WdCrash, Target, TargetFork, TargetEscape, TargetExit, TargetDropStreams,
       vars, wdVars
  <2> QED BY <2>1, QuietOrder DEF hostVars
<1> QED BY <1>1, <1>2, <1>3, <1>4 DEF Next, HostEvent
\* What GroupedChild's clients see of a step, and its two kinds of no step at all.
LEMMA Unseen ==
  ASSUME UNCHANGED <<host, closed, ended, pidKnown, killed, destroyed, released>>
  PROVE  UNCHANGED Child!childVars
BY DEF Child!childVars

LEMMA InitSeen == Init => Child!ChildInit
BY DEF Init, Child!ChildInit

\* The end of a child, its 'close' with it or not: the two halves of EndsAs.
LEMMA SettleSeen ==
  ASSUME HonestInv, host = "running", NEW h \in {"own", "killed", "failed"},
         EndsAs(h, openStreams'), UNCHANGED <<host, pidKnown, killed, released>>,
         destroyed' = destroyed \/ (ended = "no" /\ h = "failed" /\ destroyed' = TRUE),
         ended = "no" /\ h = "own" => pidKnown /\ ~killed,
         ended = "no" /\ h = "killed" => killed,
         ended = "no" /\ h = "failed" => ~pidKnown
  PROVE  Child!ChildNext \/ UNCHANGED Child!childVars
<1>1. /\ closed \in BOOLEAN /\ closed' \in BOOLEAN
      /\ ended # "no" => ended' = ended
      /\ ended = "no" => ended' = h
      /\ closed => closed' /\ ended # "no"
  BY SettleEffect DEF HonestInv, TypeOK, EndKnown
<1>2. CASE ended = "no"
  <2>1. ~closed
    BY <1>1, <1>2
  <2>2. Child!ChildEnd(h)
    BY <1>1, <1>2, <2>1 DEF Child!ChildEnd
  <2> QED BY <2>2 DEF Child!ChildNext, Child!ChildEvent
<1>3. CASE ended # "no"
  <2>1. CASE closed' = closed
    BY <1>1, <1>3, <2>1, Unseen
  <2>2. CASE ~closed /\ closed'
    <3>1. Child!ChildClose
      BY <1>1, <1>3, <2>2 DEF Child!ChildClose
    <3> QED BY <3>1 DEF Child!ChildNext, Child!ChildEvent
  <2> QED BY <1>1, <2>1, <2>2
<1> QED BY <1>2, <1>3

\* Every step is one of GroupedChild's, or invisible to it.
LEMMA StepSeen ==
  ASSUME HonestInv, SpawnKnown, [Next]_vars
  PROVE  Child!ChildNext \/ UNCHANGED Child!childVars
<1> USE DEF hostVars
<1>1. CASE HostReceive
  <2>1. /\ host = "running" /\ lifeline # "destroyed" /\ up # <<>> /\ up' = Tail(up)
        /\ UNCHANGED <<host, killed, released, destroyed, openStreams>>
    BY <1>1 DEF HostReceive, HostCanRead
  <2>2. 1 \in DOMAIN up /\ Head(up) = up[1] /\ Head(up) \in {"spawned", "exit", "error"}
    BY <2>1, ReadEffect DEF HonestInv, TypeOK
  <2>3. ~killed
    BY <2>1 DEF SpawnKnown, HonestInv, TypeOK
  <2>4. CASE Head(up) = "spawned"
    <3>1. pidKnown' = TRUE /\ UNCHANGED <<ended, closed>>
      BY <1>1, <2>4 DEF HostReceive
    <3>2. CASE closed \/ ended # "no" \/ pidKnown
      <4>1. UNCHANGED Child!childVars
        BY <2>1, <3>1, <3>2 DEF Child!childVars, HonestInv, TypeOK, EndKnown
      <4> QED BY <4>1
    <3>3. CASE ~(closed \/ ended # "no" \/ pidKnown)
      <4>1. Child!ChildStart
        BY <2>1, <2>3, <3>1, <3>3 DEF Child!ChildStart
      <4> QED BY <4>1 DEF Child!ChildNext, Child!ChildEvent
    <3> QED BY <3>2, <3>3
  <2>5. CASE Head(up) = "exit"
    <3>1. EndsAs("own", openStreams') /\ UNCHANGED pidKnown
      BY <1>1, <2>1, <2>5 DEF HostReceive
    <3>2. pidKnown
      BY <2>2, <2>5 DEF SpawnKnown
    <3> QED BY <2>1, <2>3, <3>1, <3>2, SettleSeen
  <2>6. CASE Head(up) = "error"
    <3>1. EndsAs("failed", openStreams') /\ UNCHANGED pidKnown
      BY <1>1, <2>1, <2>6 DEF HostReceive
    <3>2. ~pidKnown
      BY <2>2, <2>6 DEF SpawnKnown, HonestInv, TypeOK
    <3> QED BY <2>1, <3>1, <3>2, SettleSeen
  <2> QED BY <2>2, <2>4, <2>5, <2>6
<1>2. CASE HostWatchdogError
  <2>1. /\ host = "running" /\ EndsAs("failed", openStreams')
        /\ UNCHANGED <<host, pidKnown, killed, released, destroyed>>
    BY <1>2 DEF HostWatchdogError
  <2>2. ~pidKnown
    BY <1>2 DEF HostWatchdogError, SpawnKnown, HonestInv, TypeOK
  <2> QED BY <2>1, <2>2, SettleSeen
<1>3. CASE \E s \in Streams : HostStreamClose(s)
  <2>1. /\ host = "running" /\ EndsAs(ended, openStreams')
        /\ UNCHANGED <<host, pidKnown, killed, released, destroyed>>
    BY <1>3 DEF HostStreamClose
  <2>2. /\ closed \in BOOLEAN /\ closed' \in BOOLEAN /\ ended' = ended
        /\ closed => closed' /\ ended # "no"
        /\ closed' /\ ~closed => ended # "no"
    BY <2>1, SettleEffect DEF HonestInv, TypeOK, EndKnown
  <2>3. CASE closed' = closed
    BY <2>1, <2>2, <2>3, Unseen
  <2>4. CASE ~closed /\ closed'
    <3>1. Child!ChildClose
      BY <2>1, <2>2, <2>4 DEF Child!ChildClose
    <3>2. UNCHANGED released
      BY <2>1
    <3> QED BY <3>1, <3>2 DEF Child!ChildNext, Child!ChildEvent
  <2> QED BY <2>2, <2>3, <2>4
<1>4. CASE HostLifelineClose
  <2>1. host = "running" /\ UNCHANGED <<host, pidKnown, released, openStreams>>
    BY <1>4 DEF HostLifelineClose
  <2>2. CASE ended # "no" /\ UNCHANGED <<ended, closed, killed, destroyed>>
    BY <2>1, <2>2, Unseen
  <2>3. CASE /\ ended = "no" /\ killed /\ EndsAs("killed", openStreams)
             /\ UNCHANGED <<killed, destroyed>>
    BY <2>1, <2>3, SettleSeen
  <2>4. CASE /\ ended = "no" /\ ~pidKnown /\ destroyed' = TRUE
             /\ EndsAs("failed", openStreams) /\ UNCHANGED killed
    BY <2>1, <2>4, SettleSeen
  <2>5. CASE /\ ended = "no" /\ ~killed /\ pidKnown
             /\ KillGroup /\ EndsAs("lost", openStreams) /\ UNCHANGED destroyed
    <3>1. /\ ended' = "lost" /\ closed' \in BOOLEAN /\ ~closed /\ killed' = TRUE
      BY <2>5, SettleEffect DEF KillGroup, HonestInv, TypeOK, EndKnown
    <3>2. Child!ChildEnd("lost")
      BY <2>1, <2>5, <3>1 DEF Child!ChildEnd
    <3> QED BY <2>1, <3>2 DEF Child!ChildNext, Child!ChildEvent
  <2> QED BY <1>4, <2>2, <2>3, <2>4, <2>5 DEF HostLifelineClose
<1>5. CASE HostStop
  <2>1. Child!ChildStop
    BY <1>5 DEF HostStop, KillGroup, Child!ChildStop
  <2> QED BY <2>1 DEF Child!ChildNext
<1>6. CASE HostRelease
  <2>1. ended = "own"
    BY <1>6 DEF HostRelease, HonestInv, TypeOK, EndKnown
  <2>2. Child!ChildRelease
    BY <1>6, <2>1 DEF HostRelease, Child!ChildRelease, Child!Release
  <2> QED BY <2>2 DEF Child!ChildNext
<1>7. CASE HostDie \/ HostExit
  <2>1. Child!HostEnds
    <3>1. /\ host = "running" /\ host' = "dead"
          /\ UNCHANGED <<closed, ended, pidKnown, destroyed, released>>
          /\ killed' = killed \/ (killed' = TRUE /\ ~closed)
      BY <1>7 DEF HostDie, HostExit
    <3>2. (IF closed THEN "closed" ELSE IF ended # "no" THEN "ended"
           ELSE IF pidKnown THEN "running" ELSE "pending") = "closed" <=> closed
      BY DEF HonestInv, TypeOK
    <3> QED BY <3>1, <3>2 DEF Child!HostEnds, HonestInv, TypeOK
  <2> QED BY <2>1 DEF Child!ChildNext
<1>8. CASE HostTry \/ WatchdogEvent \/ WdCrash \/ Target \/ UNCHANGED vars
  <2>1. UNCHANGED <<host, closed, ended, pidKnown, killed, destroyed, released>>
    BY <1>8 DEF HostTry, WatchdogEvent, WdStart, WdReportSpawned, WdReportExit,
       WdReadRelease, WdClose, WdTry, WdCrash, Target, TargetFork, TargetEscape,
       TargetExit, TargetDropStreams, vars
  <2> QED BY <2>1, Unseen
<1> QED BY <1>1, <1>2, <1>3, <1>4, <1>5, <1>6, <1>7, <1>8 DEF Next, HostEvent

\* The safety half of ImplementsGroupedChild: whatever crashes, forks and races,
\* the class emits at most one 'spawn', then one end, then one 'close', reports its
\* own end only of a child it did not kill, and releases only such a child.
THEOREM ImplementsChildSteps ==
  Spec => Child!ChildInit /\ [][Child!ChildNext]_(Child!childVars)
<1>1. Spec => Init /\ [][Next]_vars
  BY DEF Spec
<1>2. HonestInv /\ SpawnKnown /\ [Next]_vars => [Child!ChildNext]_(Child!childVars)
  BY StepSeen
<1>3. HonestInv /\ SpawnKnown /\ [Next]_vars => SpawnKnown'
  BY SpawnPreserves
<1> QED BY <1>1, <1>2, <1>3, SpawnInit, InitSeen, HonestInvariant, PTL
-----------------------------------------------------------------------------
(* The watchdog outlives its group.  An attempt leaves a group only where a *)
(* child was caught in mid-fork, and that child took an identity that was   *)
(* free: over fewer processes than attempts the loop ends with none left.   *)

Absent == {p \in Procs : proc[p] = "absent"}

FewProcs == IsFiniteSet(Procs) /\ Cardinality(Procs) <= MaxTries

\* A kill loop has an attempt left for every identity that is still free.
LoopsBounded ==
  \A r \in KillReasons : wdTries[r] > 0 =>
    /\ wdTarget # "none"
    /\ GroupGone \/ Cardinality(Absent) + wdTries[r] <= Cardinality(Procs)

WatchInv ==
  /\ wdTarget = "none" => Absent = Procs
  /\ wdTarget # "none" => Leader \notin Absent
  /\ LoopsBounded
  /\ watchdog = "exited" /\ ~wdReleased => GroupGone
  /\ watchdog # "running" => wdTries = [r \in KillReasons |-> 0]
  /\ watchdog = "unstarted" => wdTarget = "none"

LEMMA WatchInit == Init => WatchInv
<1> SUFFICES ASSUME Init PROVE WatchInv
  OBVIOUS
<1>1. Absent = Procs
  BY DEF Init, Absent
<1>2. LoopsBounded
  BY DEF Init, LoopsBounded
<1> QED BY <1>1, <1>2 DEF Init, WatchInv

\* An attempt ends the group for good or costs it a free identity.
LEMMA AttemptSpends ==
  ASSUME TypeOK, Attempt
  PROVE  /\ Absent' \subseteq Absent
         /\ GroupGone => UNCHANGED proc
         /\ GroupGone' \/ \E q \in Absent : q \notin Absent'
<1>1. CASE GroupGone
  BY <1>1 DEF Attempt, targetVars, Absent, GroupGone
<1>2. CASE ~GroupGone /\ proc' = Slain
  BY <1>2 DEF Slain, TypeOK, Absent, GroupGone
<1>3. ASSUME ~GroupGone,
             NEW p \in Procs, NEW q \in Procs,
             proc[p] = "group", proc[q] = "absent", proc' = [Slain EXCEPT ![q] = "group"]
      PROVE  Absent' \subseteq Absent /\ q \in Absent /\ q \notin Absent'
  BY <1>3 DEF Slain, TypeOK, Absent
<1> QED BY <1>1, <1>2, <1>3 DEF Attempt, KillPg

\* The sizes behind it.
LEMMA AbsentSizes ==
  ASSUME FewProcs, TypeOK, Absent' \subseteq Absent
  PROVE  /\ Cardinality(Procs) \in Nat /\ Cardinality(Absent) \in Nat
         /\ Cardinality(Absent') \in Nat
         /\ Cardinality(Absent') <= Cardinality(Absent)
         /\ Leader \notin Absent => Cardinality(Absent) + 1 <= Cardinality(Procs)
         /\ (\E q \in Absent : q \notin Absent') => Cardinality(Absent') + 1 <= Cardinality(Absent)
         /\ Cardinality(Absent) = 0 => Absent = {}
<1>1. IsFiniteSet(Procs) /\ Absent \subseteq Procs
  BY DEF FewProcs, Absent
<1>2. IsFiniteSet(Absent) /\ IsFiniteSet(Absent')
  BY <1>1, FS_Subset
<1>3. /\ Cardinality(Procs) \in Nat /\ Cardinality(Absent) \in Nat
      /\ Cardinality(Absent') \in Nat
  BY <1>1, <1>2, FS_CardinalityType
<1>4. Cardinality(Absent') <= Cardinality(Absent)
  BY <1>2, FS_Subset
<1>5. Leader \notin Absent => Cardinality(Absent) < Cardinality(Procs)
  <2> SUFFICES ASSUME Leader \notin Absent PROVE Cardinality(Absent) < Cardinality(Procs)
    OBVIOUS
  <2>1. Absent # Procs
    OBVIOUS
  <2> QED BY <1>1, <1>3, <2>1, FS_Subset
<1>6. (\E q \in Absent : q \notin Absent') => Cardinality(Absent') < Cardinality(Absent)
  <2> SUFFICES ASSUME NEW q \in Absent, q \notin Absent'
               PROVE  Cardinality(Absent') < Cardinality(Absent)
    OBVIOUS
  <2>1. Absent' # Absent
    OBVIOUS
  <2> QED BY <1>2, <1>3, <2>1, FS_Subset
<1>7. Cardinality(Absent) = 0 => Absent = {}
  BY <1>2, FS_EmptySet
<1> QED BY <1>3, <1>4, <1>5, <1>6, <1>7

\* A step of another party: free identities are only taken, a group that is gone
\* stays gone, and the loops are not touched.
LEMMA OthersKeepWatch ==
  ASSUME FewProcs, HonestInv, WatchInv, Absent' \subseteq Absent,
         GroupGone => GroupGone',
         UNCHANGED <<wdTarget, wdTries>>,
         wdTarget = "none" => UNCHANGED proc,
         UNCHANGED <<watchdog, wdReleased>>
           \/ (watchdog = "running" /\ watchdog' = "running")
  PROVE  WatchInv'
<1>1. /\ Cardinality(Procs) \in Nat /\ Cardinality(Absent) \in Nat
      /\ Cardinality(Absent') \in Nat /\ Cardinality(Absent') <= Cardinality(Absent)
  BY AbsentSizes DEF HonestInv
<1>2. LoopsBounded'
  <2> SUFFICES ASSUME NEW r \in KillReasons, wdTries[r] > 0
               PROVE  /\ wdTarget # "none"
                      /\ GroupGone' \/ Cardinality(Absent') + wdTries[r] <= Cardinality(Procs)
    BY DEF LoopsBounded
  <2>1. /\ wdTarget # "none" /\ wdTries[r] \in Nat
        /\ GroupGone \/ Cardinality(Absent) + wdTries[r] <= Cardinality(Procs)
    BY DEF WatchInv, LoopsBounded, HonestInv, TypeOK
  <2> QED BY <1>1, <2>1
<1>3. wdTarget' = "none" => Absent' = Procs
  BY DEF WatchInv, Absent
<1>4. wdTarget' # "none" => Leader \notin Absent'
  BY DEF WatchInv
<1> QED BY <1>2, <1>3, <1>4 DEF WatchInv

\* The end of the watchdog, over a group that is gone.
LEMMA WdThenKeepsWatch ==
  ASSUME HonestInv, WatchInv, NEW r \in KillReasons, WdThen(r),
         UNCHANGED <<wdTarget, wdReleased>>, Absent' \subseteq Absent,
         wdTarget = "none" => UNCHANGED proc,
         wdReleased \/ GroupGone'
  PROVE  WatchInv'
<1>1. watchdog' = "exited" /\ wdTries' = [q \in KillReasons |-> 0]
  BY DEF WdThen
<1>2. LoopsBounded'
  BY <1>1 DEF LoopsBounded
<1>3. wdTarget' = "none" => Absent' = Procs
  BY DEF WatchInv, Absent
<1> QED BY <1>1, <1>2, <1>3 DEF WatchInv

\* The k-th attempt, with an attempt left for every free identity.
LEMMA WdAttemptKeepsWatch ==
  ASSUME FewProcs, HonestInv, WatchInv, NEW r \in KillReasons, NEW k \in 1 .. MaxTries,
         WdAttempt(r, k), watchdog = "running", wdTarget # "none",
         UNCHANGED <<wdTarget, wdReleased>>,
         GroupGone \/ Cardinality(Absent) + k <= Cardinality(Procs)
  PROVE  WatchInv'
<1>1. /\ Absent' \subseteq Absent
      /\ GroupGone => UNCHANGED proc
      /\ GroupGone' \/ \E q \in Absent : q \notin Absent'
  BY AttemptSpends DEF WdAttempt, HonestInv
<1>2. GroupGone => GroupGone'
  BY <1>1 DEF GroupGone
<1>3. /\ Cardinality(Procs) \in Nat /\ Cardinality(Absent) \in Nat
      /\ Cardinality(Absent') \in Nat /\ Cardinality(Absent') <= Cardinality(Absent)
      /\ (\E q \in Absent : q \notin Absent') => Cardinality(Absent') + 1 <= Cardinality(Absent)
      /\ Cardinality(Absent) = 0 => Absent = {}
      /\ Cardinality(Procs) <= MaxTries
  BY <1>1, AbsentSizes DEF HonestInv, FewProcs
<1>4. CASE LoopOver(k)
  <2>1. GroupGone'
    <3>1. CASE GroupGone
      BY <1>2, <3>1
    <3>2. CASE ~GroupGone
      <4>1. k = MaxTries
        BY <1>4, <3>2 DEF LoopOver
      <4>2. Cardinality(Absent) = 0
        BY <1>3, <3>2, <4>1
      <4> QED BY <1>1, <1>3, <4>2
    <3> QED BY <3>1, <3>2
  <2> QED BY <1>1, <1>4, <2>1, WdThenKeepsWatch DEF WdAttempt
<1>5. CASE ~LoopOver(k)
  <2>1. /\ wdTries' = [wdTries EXCEPT ![r] = k + 1] /\ UNCHANGED <<watchdog, up>>
    BY <1>5 DEF WdAttempt
  <2>2. LoopsBounded'
    <3> SUFFICES ASSUME NEW q \in KillReasons, wdTries'[q] > 0
                 PROVE  GroupGone' \/ Cardinality(Absent') + wdTries'[q] <= Cardinality(Procs)
      BY DEF LoopsBounded
    <3>1. CASE q = r
      <4>1. wdTries'[q] = k + 1
        BY <2>1, <3>1 DEF HonestInv, TypeOK
      <4>2. ~GroupGone
        BY <1>5 DEF LoopOver
      <4> QED BY <1>1, <1>3, <4>1, <4>2
    <3>2. CASE q # r
      <4>1. wdTries'[q] = wdTries[q] /\ wdTries[q] \in Nat
        BY <2>1, <3>2 DEF HonestInv, TypeOK
      <4>2. GroupGone \/ Cardinality(Absent) + wdTries[q] <= Cardinality(Procs)
        BY <4>1 DEF WatchInv, LoopsBounded
      <4> QED BY <1>2, <1>3, <4>1, <4>2
    <3> QED BY <3>1, <3>2
  <2> QED BY <1>1, <2>1, <2>2 DEF WatchInv
<1> QED BY <1>4, <1>5
\* Every step keeps WatchInv.
LEMMA WatchPreserves ==
  ASSUME FewProcs, HonestInv, WatchInv, [Next]_vars
  PROVE  WatchInv'
<1> USE DEF wdVars, targetVars, hostVars
<1>1. CASE WdStart
  <2>1. /\ watchdog = "running" /\ wdTarget = "none" /\ Absent = Procs
        /\ UNCHANGED <<wdReleased>>
    BY <1>1 DEF WdStart, WatchInv
  <2>2. \A r \in KillReasons : wdTries[r] = 0
    BY <2>1 DEF WatchInv, LoopsBounded, HonestInv, TypeOK
  <2>3. CASE WdThen("fail") /\ UNCHANGED <<wdTarget, proc>>
    <3>1. Absent' = Absent /\ GroupGone'
      BY <2>1, <2>3 DEF Absent, GroupGone
    <3> QED BY <2>1, <2>3, <3>1, WdThenKeepsWatch DEF KillReasons
  <2>4. CASE /\ wdTarget' \in {"starting", "faulted"}
             /\ wdTries' = wdTries \/ wdTries' = [wdTries EXCEPT !["fail"] = 1]
             /\ proc' = [proc EXCEPT ![Leader] = "group"] /\ UNCHANGED watchdog
    <3>1. /\ Absent' \subseteq Absent /\ Leader \notin Absent' /\ Leader \in Absent
      BY <2>1, <2>4 DEF Absent, HonestInv, TypeOK
    <3>2. /\ Cardinality(Procs) \in Nat /\ Cardinality(Absent') \in Nat
          /\ Cardinality(Absent') + 1 <= Cardinality(Procs)
      BY <2>1, <3>1, AbsentSizes DEF HonestInv
    <3>3. \A r \in KillReasons : wdTries'[r] \in {0, 1}
      BY <2>2, <2>4 DEF HonestInv, TypeOK
    <3>4. LoopsBounded'
      BY <2>4, <3>2, <3>3 DEF LoopsBounded
    <3> QED BY <2>1, <2>4, <3>1, <3>4 DEF WatchInv
  <2> QED BY <1>1, <2>3, <2>4 DEF WdStart
<1>2. CASE WdClose
  <2>1. /\ watchdog = "running" /\ UNCHANGED <<wdTarget, wdReleased>>
        /\ "close" \in KillReasons /\ 1 \in 1 .. MaxTries
    BY <1>2 DEF WdClose, KillReasons
  <2>2. CASE wdReleased \/ wdTarget = "none"
    <3>1. WdThen("close") /\ UNCHANGED proc
      BY <1>2, <2>2 DEF WdClose
    <3>2. Absent' = Absent
      BY <3>1 DEF Absent
    <3>3. wdReleased \/ GroupGone'
      BY <2>2, <3>1 DEF WatchInv, Absent, GroupGone
    <3> QED BY <2>1, <3>1, <3>2, <3>3, WdThenKeepsWatch
  <2>3. CASE ~(wdReleased \/ wdTarget = "none")
    <3>1. WdAttempt("close", 1)
      BY <1>2, <2>3 DEF WdClose
    <3>2. Cardinality(Absent) + 1 <= Cardinality(Procs)
      <4>1. Leader \notin Absent
        BY <2>3 DEF WatchInv
      <4>2. Absent' \subseteq Absent
        BY <3>1, AttemptSpends DEF WdAttempt, HonestInv
      <4> QED BY <4>1, <4>2, AbsentSizes DEF HonestInv
    <3> QED BY <2>1, <2>3, <3>1, <3>2, WdAttemptKeepsWatch
  <2> QED BY <2>2, <2>3
<1>3. ASSUME NEW r \in KillReasons, WdTry(r) PROVE WatchInv'
  <2>1. /\ watchdog = "running" /\ UNCHANGED <<wdTarget, wdReleased>>
        /\ WdAttempt(r, wdTries[r]) /\ wdTries[r] \in 1 .. MaxTries
    BY <1>3 DEF WdTry, HonestInv, TypeOK
  <2>2. /\ wdTarget # "none"
        /\ GroupGone \/ Cardinality(Absent) + wdTries[r] <= Cardinality(Procs)
    BY <2>1 DEF WatchInv, LoopsBounded
  <2> QED BY <2>1, <2>2, WdAttemptKeepsWatch
<1>4. CASE WdReportSpawned \/ WdReportExit
  <2>1. /\ UNCHANGED <<proc, wdTries, watchdog, wdReleased>>
        /\ wdTarget # "none" /\ wdTarget' # "none" /\ watchdog = "running"
    BY <1>4 DEF WdReportSpawned, WdReportExit
  <2>2. Absent' = Absent /\ (GroupGone => GroupGone')
    BY <2>1 DEF Absent, GroupGone
  <2>3. LoopsBounded'
    BY <2>1, <2>2 DEF WatchInv, LoopsBounded
  <2> QED BY <2>1, <2>2, <2>3 DEF WatchInv
<1>5. CASE WdCrash
  <2>1. /\ watchdog' = "crashed" /\ wdTries' = [r \in KillReasons |-> 0]
        /\ UNCHANGED <<proc, wdTarget>>
    BY <1>5 DEF WdCrash
  <2>2. LoopsBounded' /\ Absent' = Absent
    BY <2>1 DEF LoopsBounded, Absent
  <2> QED BY <2>1, <2>2 DEF WatchInv
<1>6. CASE \/ HostReceive \/ HostWatchdogError \/ (\E s \in Streams : HostStreamClose(s))
           \/ HostRelease \/ HostDie \/ WdReadRelease
           \/ (\E p \in Procs : TargetDropStreams(p)) \/ UNCHANGED vars
  <2>1. /\ UNCHANGED <<proc, wdTarget, wdTries, watchdog>>
        /\ UNCHANGED wdReleased \/ watchdog = "running"
    BY <1>6 DEF HostReceive, HostWatchdogError, HostStreamClose, HostRelease, HostDie,
       WdReadRelease, TargetDropStreams, vars
  <2>2. Absent' = Absent /\ (GroupGone => GroupGone')
    BY <2>1 DEF Absent, GroupGone
  <2> QED BY <2>1, <2>2, OthersKeepWatch
<1>7. CASE HostLifelineClose \/ HostTry \/ HostStop \/ HostExit
  <2>1. UNCHANGED wdVars
    BY <1>7 DEF HostLifelineClose, HostTry, HostStop, HostExit
  <2>2. UNCHANGED proc \/ (Attempt /\ (pidKnown \/ hostTries > 0))
    BY <1>7 DEF HostLifelineClose, HostTry, HostStop, HostExit, KillGroup
  <2>3. /\ Absent' \subseteq Absent /\ (GroupGone => UNCHANGED proc)
    BY <2>2, AttemptSpends DEF HonestInv, Absent
  <2>4. wdTarget = "none" => UNCHANGED proc
    BY <2>3 DEF WatchInv, Absent, GroupGone
  <2>5. GroupGone => GroupGone'
    BY <2>3 DEF GroupGone
  <2> QED BY <2>1, <2>3, <2>4, <2>5, OthersKeepWatch
<1>8. ASSUME NEW p \in Procs,
             TargetEscape(p) \/ TargetExit(p) \/ \E q \in Procs : TargetFork(p, q)
      PROVE  WatchInv'
  <2>1. UNCHANGED wdVars
    BY <1>8 DEF TargetEscape, TargetExit, TargetFork
  <2>2. p \notin Absent
    BY <1>8 DEF TargetEscape, TargetExit, TargetFork, Alive, Absent
  <2>3. Absent' \subseteq Absent
    BY <1>8 DEF TargetEscape, TargetExit, TargetFork, Alive, Absent, HonestInv, TypeOK
  <2>4. GroupGone => GroupGone'
    BY <1>8 DEF TargetEscape, TargetExit, TargetFork, Alive, GroupGone, HonestInv, TypeOK
  <2>5. wdTarget # "none"
    BY <2>2 DEF WatchInv
  <2> QED BY <2>1, <2>3, <2>4, <2>5, OthersKeepWatch
<1> QED BY <1>1, <1>2, <1>3, <1>4, <1>5, <1>6, <1>7, <1>8
    DEF Next, HostEvent, WatchdogEvent, Target

\* The watchdog never leaves a group it has to end, as long as the target and its
\* descendants are no more than the attempts of a kill loop.
THEOREM WatchdogOutlivesGroupHolds ==
  ASSUME FewProcs
  PROVE  Spec => []WatchdogOutlivesGroup
<1>1. Spec => Init /\ [][Next]_vars
  BY DEF Spec
<1>2. HonestInv /\ WatchInv /\ [Next]_vars => WatchInv'
  BY WatchPreserves
<1>3. WatchInv => WatchdogOutlivesGroup
  BY DEF WatchInv, WatchdogOutlivesGroup
<1> QED BY <1>1, <1>2, <1>3, WatchInit, HonestInvariant, PTL

HIDE LeaderAssumption
HIDE TriesAssumption
HIDE CrashAssumption

-----------------------------------------------------------------------------
(* The address grammar.                                                    *)

(* Every set of places has a first one.                                    *)
LEMMA LeastPlace ==
    ASSUME NEW T \in SUBSET Nat, T # {}
    PROVE  Min(T) \in T /\ \A j \in T : Min(T) <= j
<1> DEFINE R == OpToRel(<, Nat)
<1>1. \A x, y \in Nat : <<x, y>> \in R <=> x < y
  BY DEF OpToRel
<1>2. IsWellFoundedOn(R, Nat)
  BY NatLessThanWellFounded
<1> HIDE DEF R
<1>3. PICK x \in T : \A y \in T : ~ (<<y, x>> \in R)
  BY <1>2, WFMin
<1>4. \A y \in T : ~ (y < x)
  BY <1>1, <1>3
<1>5. \A y \in T : x <= y
  BY <1>4
<1> QED BY <1>5 DEF Min

LEMMA WordFacts == \A x : x \in Word <=> x \in Int /\ 0 <= x /\ x <= 65535
  BY DEF Word

LEMMA ByteFacts == \A x : x \in Byte <=> x \in Int /\ 0 <= x /\ x <= 255
  BY DEF Byte

LEMMA JoinedFacts ==
    ASSUME NEW high \in Byte, NEW low \in Byte
    PROVE  /\ Joined(high, low) \in Word
           /\ Joined(high, low) \div 256 = high /\ Joined(high, low) % 256 = low
<1>1. high \in Int /\ 0 <= high /\ high <= 255 /\ low \in Int /\ 0 <= low /\ low <= 255
  BY ByteFacts
<1>2. /\ 256 * high + low \in Int
      /\ 0 <= 256 * high + low /\ 256 * high + low <= 65535
  BY <1>1
<1>3. (256 * high + low) \div 256 = high
  BY <1>1
<1>4. (256 * high + low) % 256 = low
  BY <1>1
<1> QED BY <1>2, <1>3, <1>4, WordFacts DEF Joined

LEMMA Split ==
    ASSUME NEW n \in Word
    PROVE  /\ n \div 256 \in Byte /\ n % 256 \in Byte
           /\ Joined(n \div 256, n % 256) = n
<1>1. n \in Int /\ 0 <= n /\ n <= 65535
  BY WordFacts
<1>2. n \div 256 \in Int /\ 0 <= n \div 256 /\ n \div 256 <= 255
  BY <1>1
<1>3. n % 256 \in Byte
  BY <1>1, ByteFacts
<1>4. \A m \in Int : m = 256 * (m \div 256) + (m % 256)
  BY SMT
<1>5. n = 256 * (n \div 256) + (n % 256)
  BY <1>1, <1>4
<1>6. n \div 256 \in Byte
  BY <1>2, ByteFacts
<1> QED BY <1>3, <1>5, <1>6 DEF Joined

LEMMA JoinedOnce ==
    ASSUME NEW h \in Byte, NEW l \in Byte, NEW k \in Byte, NEW m \in Byte,
           Joined(h, l) = Joined(k, m)
    PROVE  h = k /\ l = m
<1>1. h = Joined(h, l) \div 256 /\ k = Joined(k, m) \div 256
  BY JoinedFacts
<1>2. l = Joined(h, l) % 256 /\ m = Joined(k, m) % 256
  BY JoinedFacts
<1> QED BY <1>1, <1>2

LEMMA AsFunction ==
    ASSUME NEW S, NEW n \in Nat, NEW s \in Seq(S), Len(s) = n
    PROVE  s \in [1 .. n -> S]
  BY LenProperties

(* toGroups: two bytes, or a dotted quad in the last place only.           *)
LEMMA LegibleGroups ==
    ASSUME NEW pieces \in Seq(Piece), NEW dotted \in BOOLEAN, Legible(pieces, dotted)
    PROVE  Groups(pieces) \in Seq(Word)
<1>1. \A i \in 1 .. Len(pieces) : pieces[i] \in Piece /\ (Dotted(pieces[i]) => i = Len(pieces))
  BY DEF Legible
<1>2. CASE pieces = <<>>
  BY <1>2 DEF Groups
<1>3. CASE pieces # <<>>
  <2> DEFINE n == Len(pieces)
             front == [i \in 1 .. n - 1 |-> pieces[i].hex]
             last == pieces[n]
  <2>1. n \in Nat /\ n >= 1 /\ last \in Piece
    BY <1>1, <1>3
  <2>2. \A i \in 1 .. n - 1 : pieces[i].hex \in Word
    <3> SUFFICES ASSUME NEW i \in 1 .. n - 1 PROVE pieces[i].hex \in Word
      OBVIOUS
    <3>1. i \in 1 .. n /\ i # n
      BY <2>1
    <3>2. ~Dotted(pieces[i])
      BY <1>1, <3>1
    <3> QED BY <3>1, <3>2 DEF Legible
  <2>3. front \in Seq(Word)
    BY <2>1, <2>2
  <2>4. GroupsOf(last) \in Seq(Word)
    <3>1. CASE Dotted(last)
      <4>1. IsQuad(last.quad)
        BY <2>1, <3>1 DEF Legible
      <4>2. /\ last.quad[1] \in Byte /\ last.quad[2] \in Byte
            /\ last.quad[3] \in Byte /\ last.quad[4] \in Byte
        BY <4>1 DEF IsQuad
      <4>3. Joined(last.quad[1], last.quad[2]) \in Word /\ Joined(last.quad[3], last.quad[4]) \in Word
        BY <4>2, JoinedFacts
      <4> QED BY <3>1, <4>3 DEF GroupsOf
    <3>2. CASE ~Dotted(last)
      <4>1. last.hex \in Word
        BY <2>1, <3>2 DEF Legible
      <4> QED BY <3>2, <4>1 DEF GroupsOf
    <3> QED BY <3>1, <3>2
  <2>5. Groups(pieces) = front \o GroupsOf(last)
    BY <1>3 DEF Groups
  <2> HIDE DEF front, last
  <2> QED BY <2>3, <2>4, <2>5, ConcatProperties
<1> QED BY <1>2, <1>3

(* A whole sequence of eight groups is the groups it means.                *)
LEMMA WholeMeaning ==
    ASSUME NEW head \in Seq(Word), Len(head) = 8
    PROVE  head = [k \in 1 .. 8 |-> IF k <= Len(head) THEN head[k]
                                    ELSE IF k > 8 - Len(<<>>) THEN <<>>[k - (8 - Len(<<>>))] ELSE 0]
<1>1. head \in [1 .. 8 -> Word]
  BY AsFunction
<1> QED BY <1>1

(* `::` fills the middle.                                                  *)
LEMMA ExpandedMeaning ==
    ASSUME NEW head \in Seq(Word), NEW tail \in Seq(Word),
           Len(head) + Len(tail) < 8
    PROVE  /\ Expanded(head, tail) \in [1 .. 8 -> Word]
           /\ Expanded(head, tail)
                = [k \in 1 .. 8 |-> IF k <= Len(head) THEN head[k]
                                    ELSE IF k > 8 - Len(tail) THEN tail[k - (8 - Len(tail))]
                                    ELSE 0]
<1> DEFINE m == Len(head)
           n == Len(tail)
           zeros == [i \in 1 .. 8 - m - n |-> 0]
           both == head \o zeros
           all == both \o tail
<1>1. m \in Nat /\ n \in Nat /\ m + n <= 7
  OBVIOUS
<1>2. zeros \in Seq(Word) /\ Len(zeros) = 8 - m - n
  <2>1. 8 - m - n \in Nat
    BY <1>1
  <2>2. 0 \in Word
    BY WordFacts
  <2> QED BY <2>1, <2>2
<1>3. Expanded(head, tail) = all
  BY <1>1 DEF Expanded
<1>4. /\ both \in Seq(Word) /\ Len(both) = m + (8 - m - n)
      /\ \A k \in 1 .. m + (8 - m - n) : both[k] = IF k <= m THEN head[k] ELSE zeros[k - m]
  <2> HIDE DEF zeros
  <2> QED BY <1>2, ConcatProperties
<1>5. /\ all \in Seq(Word) /\ Len(all) = Len(both) + n
      /\ \A k \in 1 .. Len(both) + n :
            all[k] = IF k <= Len(both) THEN both[k] ELSE tail[k - Len(both)]
  <2> HIDE DEF both
  <2> QED BY <1>4, ConcatProperties
<1>6. \A i \in 1 .. 8 - m - n : zeros[i] = 0
  OBVIOUS
<1> HIDE DEF all, both, zeros, m, n
<1>7. Len(both) = 8 - n /\ Len(all) = 8
  BY <1>1, <1>4, <1>5
<1>8. \A k \in 1 .. 8 : all[k] = IF k <= m THEN head[k]
                                 ELSE IF k > 8 - n THEN tail[k - (8 - n)] ELSE 0
  <2> SUFFICES ASSUME NEW k \in 1 .. 8
               PROVE  all[k] = IF k <= m THEN head[k]
                               ELSE IF k > 8 - n THEN tail[k - (8 - n)] ELSE 0
    OBVIOUS
  <2>1. CASE k > 8 - n
    <3>1. k \in 1 .. Len(both) + n /\ ~(k <= Len(both)) /\ ~(k <= m)
      BY <1>1, <1>7, <2>1
    <3> QED BY <1>5, <1>7, <2>1, <3>1
  <2>2. CASE k <= m
    <3>1. /\ k \in 1 .. Len(both) + n /\ k <= Len(both)
          /\ k \in 1 .. m + (8 - m - n)
      BY <1>1, <1>7, <2>2
    <3> QED BY <1>4, <1>5, <2>2, <3>1
  <2>3. CASE ~(k <= m) /\ ~(k > 8 - n)
    <3>1. /\ k \in 1 .. Len(both) + n /\ k <= Len(both)
          /\ k \in 1 .. m + (8 - m - n) /\ k - m \in 1 .. 8 - m - n
      BY <1>1, <1>7, <2>3
    <3>2. all[k] = both[k] /\ both[k] = zeros[k - m] /\ zeros[k - m] = 0
      BY <1>4, <1>5, <1>6, <2>3, <3>1
    <3> QED BY <2>3, <3>2
  <2> QED BY <2>1, <2>2, <2>3
<1>9. all \in [1 .. 8 -> Word]
  BY <1>5, <1>7, AsFunction
<1>10. all = [k \in 1 .. 8 |-> IF k <= m THEN head[k]
                               ELSE IF k > 8 - n THEN tail[k - (8 - n)] ELSE 0]
  BY <1>8, <1>9
<1> QED BY <1>3, <1>9, <1>10 DEF m, n

(* Spelled with or without `::`, the groups read are the groups meant.     *)
LEMMA ParsedGroups ==
    ASSUME NEW halves \in Seq(Seq(Piece))
    PROVE  /\ Spells(halves) => /\ ParseIpv6Groups(halves) = MeantGroups(halves)
                                /\ MeantGroups(halves) \in [1 .. 8 -> Word]
           /\ ~Spells(halves) => ParseIpv6Groups(halves) = <<>>
<1>1. CASE Len(halves) = 1
  <2> DEFINE head == Groups(halves[1])
  <2>1. halves[1] \in Seq(Piece) /\ Len(halves) # 2
    BY <1>1
  <2>2. Spells(halves) <=> Legible(halves[1], TRUE) /\ Len(head) = 8
    BY <1>1 DEF Spells
  <2>3. ParseIpv6Groups(halves)
          = IF Legible(halves[1], TRUE) THEN IF Len(head) = 8 THEN head ELSE <<>> ELSE <<>>
    BY <1>1, <2>1 DEF ParseIpv6Groups
  <2>4. MeantGroups(halves)
          = [k \in 1 .. 8 |-> IF k <= Len(head) THEN head[k]
                              ELSE IF k > 8 - Len(<<>>) THEN <<>>[k - (8 - Len(<<>>))] ELSE 0]
    BY <2>1 DEF MeantGroups
  <2>5. Spells(halves) => head \in Seq(Word) /\ Len(head) = 8
    BY <2>1, <2>2, LegibleGroups
  <2> HIDE DEF head
  <2>6. ASSUME Spells(halves)
        PROVE  MeantGroups(halves) = head /\ head \in [1 .. 8 -> Word]
    <3>1. head \in Seq(Word) /\ Len(head) = 8
      BY <2>5, <2>6
    <3>2. head = MeantGroups(halves)
      BY <2>4, <3>1, WholeMeaning
    <3> QED BY <3>1, <3>2, AsFunction
  <2> QED BY <2>2, <2>3, <2>6
<1>2. CASE Len(halves) = 2
  <2> DEFINE head == Groups(halves[1])
             tail == Groups(halves[2])
             legible == Legible(halves[1], FALSE) /\ Legible(halves[2], TRUE)
  <2>1. halves[1] \in Seq(Piece) /\ halves[2] \in Seq(Piece) /\ Len(halves) # 1
    <3>1. 1 \in 1 .. Len(halves) /\ 2 \in 1 .. Len(halves)
      BY <1>2
    <3>2. \A i \in 1 .. Len(halves) : halves[i] \in Seq(Piece)
      OBVIOUS
    <3> QED BY <1>2, <3>1, <3>2
  <2>2. Spells(halves) <=> legible /\ Len(head) + Len(tail) < 8
    BY <1>2 DEF Spells
  <2>3. ParseIpv6Groups(halves) = IF legible THEN Expanded(head, tail) ELSE <<>>
    BY <1>2, <2>1 DEF ParseIpv6Groups
  <2>4. MeantGroups(halves)
          = [k \in 1 .. 8 |-> IF k <= Len(head) THEN head[k]
                              ELSE IF k > 8 - Len(tail) THEN tail[k - (8 - Len(tail))] ELSE 0]
    BY <1>2 DEF MeantGroups
  <2>5. legible => head \in Seq(Word) /\ tail \in Seq(Word)
    BY <2>1, LegibleGroups
  <2> HIDE DEF head, tail, legible
  <2>6. ASSUME Spells(halves)
        PROVE  ParseIpv6Groups(halves) = MeantGroups(halves)
               /\ MeantGroups(halves) \in [1 .. 8 -> Word]
    <3>1. head \in Seq(Word) /\ tail \in Seq(Word) /\ Len(head) + Len(tail) < 8 /\ legible
      BY <2>2, <2>5, <2>6
    <3>2. Expanded(head, tail) = MeantGroups(halves) /\ Expanded(head, tail) \in [1 .. 8 -> Word]
      BY <2>4, <3>1, ExpandedMeaning
    <3> QED BY <2>3, <3>1, <3>2
  <2>7. ASSUME ~Spells(halves)
        PROVE  ParseIpv6Groups(halves) = <<>>
    <3>1. CASE ~legible
      BY <2>3, <3>1
    <3>2. CASE legible
      <4>1. head \in Seq(Word) /\ tail \in Seq(Word) /\ ~(Len(head) + Len(tail) < 8)
        BY <2>2, <2>5, <2>7, <3>2
      <4>2. Len(head) + Len(tail) > 7
        BY <4>1
      <4> QED BY <2>3, <3>2, <4>2 DEF Expanded
    <3> QED BY <3>1, <3>2
  <2> QED BY <2>6, <2>7
<1>3. CASE Len(halves) # 1 /\ Len(halves) # 2
  BY <1>3 DEF Spells, ParseIpv6Groups
<1> QED BY <1>1, <1>2, <1>3

(* The four bytes under `::ffff:`, or the eight groups of another address. *)
Canonical == [1 .. 4 -> Byte] \cup {g \in [1 .. 8 -> Word] : ~Mapped(g)}

Embedded(canonical) ==
    IF Len(canonical) = 4
    THEN <<0, 0, 0, 0, 0, 65535, Joined(canonical[1], canonical[2]),
           Joined(canonical[3], canonical[4])>>
    ELSE canonical

LEMMA CanonicalLength ==
    ASSUME NEW n \in Nat, NEW S, NEW s \in [1 .. n -> S]
    PROVE  s \in Seq(S) /\ Len(s) = n
  BY LenProperties

LEMMA EmbeddedQuad ==
    ASSUME NEW c \in [1 .. 4 -> Byte]
    PROVE  /\ Embedded(c) = <<0, 0, 0, 0, 0, 65535, Joined(c[1], c[2]), Joined(c[3], c[4])>>
           /\ Mapped(Embedded(c))
<1>1. Len(c) = 4
  BY CanonicalLength
<1>2. Embedded(c) = <<0, 0, 0, 0, 0, 65535, Joined(c[1], c[2]), Joined(c[3], c[4])>>
  BY <1>1 DEF Embedded
<1> QED BY <1>2 DEF Mapped, Zero

LEMMA EmbeddedGroups ==
    ASSUME NEW g \in [1 .. 8 -> Word]
    PROVE  Embedded(g) = g
<1>1. Len(g) = 8
  BY CanonicalLength
<1> QED BY <1>1 DEF Embedded

(* Two addresses in canonical form are one machine only when they are one. *)
LEMMA EmbeddedOnce ==
    ASSUME NEW c \in Canonical, NEW d \in Canonical, Embedded(c) = Embedded(d)
    PROVE  c = d
<1>1. CASE c \in [1 .. 4 -> Byte] /\ d \in [1 .. 4 -> Byte]
  <2>1. Joined(c[1], c[2]) = Joined(d[1], d[2]) /\ Joined(c[3], c[4]) = Joined(d[3], d[4])
    BY <1>1, EmbeddedQuad
  <2>2. /\ c[1] \in Byte /\ c[2] \in Byte /\ c[3] \in Byte /\ c[4] \in Byte
        /\ d[1] \in Byte /\ d[2] \in Byte /\ d[3] \in Byte /\ d[4] \in Byte
    BY <1>1
  <2>3. c[1] = d[1] /\ c[2] = d[2] /\ c[3] = d[3] /\ c[4] = d[4]
    BY <2>1, <2>2, JoinedOnce
  <2>4. \A i \in 1 .. 4 : c[i] = d[i]
    BY <2>3
  <2> QED BY <1>1, <2>4
<1>2. CASE c \in [1 .. 4 -> Byte] /\ d \in [1 .. 8 -> Word] /\ ~Mapped(d)
  BY <1>2, EmbeddedQuad, EmbeddedGroups
<1>3. CASE d \in [1 .. 4 -> Byte] /\ c \in [1 .. 8 -> Word] /\ ~Mapped(c)
  BY <1>3, EmbeddedQuad, EmbeddedGroups
<1>4. CASE c \in [1 .. 8 -> Word] /\ d \in [1 .. 8 -> Word]
  BY <1>4, EmbeddedGroups
<1> QED BY <1>1, <1>2, <1>3, <1>4 DEF Canonical


(* What parseAddress makes of a spelling is what the spelling means.       *)
LEMMA ParsedMeaning ==
    ASSUME NEW a \in Address
    PROVE  /\ ParseAddress(a).ok \in BOOLEAN
           /\ ParseAddress(a).ok <=> Means(a) # <<>>
           /\ ParseAddress(a).ok => /\ ParseAddress(a).canonical \in Canonical
                                    /\ Means(a) = Embedded(ParseAddress(a).canonical)
<1>1. CASE "octets" \in DOMAIN a
  <2> DEFINE o == a.octets
  <2>1. o \in Seq(Int)
    BY <1>1 DEF Address
  <2>2. CASE a.zone = "none" /\ IsQuad(o)
    <3>1. ParseAddress(a) = [ok |-> TRUE, canonical |-> o, addressClass |-> ClassifyIpv4(o)]
      BY <1>1, <2>2 DEF ParseAddress, Ipv4Address
    <3>2. o \in [1 .. 4 -> Byte]
      BY <2>1, <2>2 DEF IsQuad
    <3>3. Means(a) = <<0, 0, 0, 0, 0, 65535, Joined(o[1], o[2]), Joined(o[3], o[4])>>
      BY <1>1, <2>2 DEF Means
    <3>4. Means(a) = Embedded(o)
      BY <3>2, <3>3, EmbeddedQuad
    <3>5. Means(a) # <<>>
      BY <3>3
    <3> QED BY <3>1, <3>2, <3>4, <3>5 DEF Canonical
  <2>3. CASE ~(a.zone = "none" /\ IsQuad(o))
    <3>1. ParseAddress(a) = Unparseable
      BY <1>1, <2>3 DEF ParseAddress, Ipv4Address
    <3>2. Means(a) = <<>>
      BY <1>1, <2>3 DEF Means
    <3> QED BY <3>1, <3>2 DEF Unparseable
  <2> QED BY <2>2, <2>3
<1>2. CASE ~("octets" \in DOMAIN a)
  <2> DEFINE h == a.halves
             g == MeantGroups(h)
             linked == a.zone = "none"
                       \/ (a.zone = "one" /\ ~Mapped(g) /\ ClassifyIpv6(g) = "link-local")
  <2>1. h \in Seq(Seq(Piece)) /\ a.zone \in {"none", "one", "malformed"}
    BY <1>2 DEF Address
  <2>2. Means(a) = IF Spells(h) /\ linked THEN g ELSE <<>>
    BY <1>2 DEF Means
  <2>3. ParseAddress(a) = IF a.zone = "malformed" THEN Unparseable
                          ELSE ReadIpv6(ParseIpv6Groups(h), a.zone = "one")
    BY <1>2 DEF ParseAddress
  <2>4. /\ Spells(h) => ParseIpv6Groups(h) = g /\ g \in [1 .. 8 -> Word]
        /\ ~Spells(h) => ParseIpv6Groups(h) = <<>>
    BY <2>1, ParsedGroups
  <2>5. CASE ~Spells(h) \/ a.zone = "malformed"
    <3>1. ParseAddress(a) = Unparseable
      BY <2>3, <2>4, <2>5 DEF ReadIpv6
    <3>2. Means(a) = <<>>
      BY <2>2, <2>5
    <3> QED BY <3>1, <3>2 DEF Unparseable
  <2>6. CASE Spells(h) /\ a.zone # "malformed"
    <3> HIDE DEF h, g
    <3>1. g \in [1 .. 8 -> Word] /\ g # <<>>
      <4>1. g \in [1 .. 8 -> Word]
        BY <2>4, <2>6
      <4> QED BY <4>1, CanonicalLength
    <3>2. ParseAddress(a) = ReadIpv6(g, a.zone = "one")
      BY <2>3, <2>4, <2>6
    <3>3. CASE Mapped(g) /\ a.zone = "one"
      BY <2>2, <3>1, <3>2, <3>3 DEF ReadIpv6, Unparseable
    <3>4. CASE Mapped(g) /\ a.zone # "one"
      <4> DEFINE o == LowOctets(g)
      <4>1. a.zone = "none" /\ Means(a) = g
        BY <2>1, <2>2, <2>6, <3>4
      <4>2. g[7] \in Word /\ g[8] \in Word
        BY <3>1
      <4>3. /\ o = <<g[7] \div 256, g[7] % 256, g[8] \div 256, g[8] % 256>>
            /\ o \in [1 .. 4 -> Byte] /\ IsQuad(o)
            /\ Joined(o[1], o[2]) = g[7] /\ Joined(o[3], o[4]) = g[8]
        BY <4>2, Split DEF LowOctets, IsQuad
      <4>4. ParseAddress(a) = [ok |-> TRUE, canonical |-> o, addressClass |-> ClassifyIpv4(o)]
        BY <3>1, <3>2, <3>4, <4>3 DEF ReadIpv6, Ipv4Address
      <4>5. Embedded(o) = <<0, 0, 0, 0, 0, 65535, g[7], g[8]>>
        BY <4>3, EmbeddedQuad
      <4>6. Embedded(o) = g
        BY <3>1, <3>4, <4>5 DEF Mapped, Zero
      <4> HIDE DEF o
      <4> QED BY <3>1, <4>1, <4>3, <4>4, <4>6 DEF Canonical
    <3>5. CASE ~Mapped(g)
      <4>1. ParseAddress(a) = Ipv6Address(g, a.zone = "one", ClassifyIpv6(g))
        BY <3>1, <3>2, <3>5 DEF ReadIpv6
      <4>2. linked <=> ~(a.zone = "one" /\ ClassifyIpv6(g) # "link-local")
        BY <2>1, <2>6, <3>5
      <4>3. CASE linked
        <5>1. ParseAddress(a) = [ok |-> TRUE, canonical |-> g, addressClass |-> ClassifyIpv6(g)]
          BY <4>1, <4>2, <4>3 DEF Ipv6Address
        <5>2. Means(a) = g /\ Embedded(g) = g
          BY <2>2, <2>6, <3>1, <4>3, EmbeddedGroups
        <5> QED BY <3>1, <3>5, <5>1, <5>2 DEF Canonical
      <4>4. CASE ~linked
        <5>1. ParseAddress(a) = Unparseable
          BY <4>1, <4>2, <4>4 DEF Ipv6Address
        <5>2. Means(a) = <<>>
          BY <2>2, <4>4
        <5> QED BY <5>1, <5>2 DEF Unparseable
      <4> QED BY <4>3, <4>4
    <3> QED BY <3>3, <3>4, <3>5
  <2> QED BY <2>5, <2>6
<1> QED BY <1>1, <1>2

(* Both sides parsed: one canonical form is one machine.                   *)
LEMMA SameMachine ==
    ASSUME NEW a \in Address, NEW b \in Address, ParseAddress(a).ok, ParseAddress(b).ok
    PROVE  ParseAddress(a).canonical = ParseAddress(b).canonical <=> Means(a) = Means(b)
<1>1. /\ ParseAddress(a).canonical \in Canonical /\ ParseAddress(b).canonical \in Canonical
      /\ Means(a) = Embedded(ParseAddress(a).canonical)
      /\ Means(b) = Embedded(ParseAddress(b).canonical)
  BY ParsedMeaning
<1> QED BY <1>1, EmbeddedOnce

(* One trailing dot and the case apart, two hosts are the same.            *)
LEMMA SameHostNormalized ==
    ASSUME NEW h \in Host, NEW k \in Host
    PROVE  NormalizeHost(h) = NormalizeHost(k) <=> SameHost(h, k)
<1>1. h.dots \in Nat /\ k.dots \in Nat
  BY DEF Host
<1>2. NormalizeHost(h) = NormalizeHost(k)
        <=> h.name = k.name /\ NormalizeHost(h).dots = NormalizeHost(k).dots
  BY DEF NormalizeHost
<1>3. NormalizeHost(h).dots = NormalizeHost(k).dots
        <=> h.dots = k.dots \/ (h.dots <= 1 /\ k.dots <= 1)
  BY <1>1 DEF NormalizeHost
<1>4. {h.dots, k.dots} \subseteq {0, 1} <=> h.dots <= 1 /\ k.dots <= 1
  BY <1>1
<1> QED BY <1>2, <1>3, <1>4 DEF SameHost


(* evaluateAgainst allows the targets that the authorization names.        *)
LEMMA ObjectionNamed ==
    ASSUME NEW a \in Authorization, NEW t, t.host \in Host, t.address \in Address,
           a.interfaceId = t.interfaceId
    PROVE  Objection(a, t, ParseAddress(t.address)) = "none" <=> Names(a, t)
<1> DEFINE parsed == ParseAddress(t.address)
<1>1. a.host \in Host /\ a.addresses \subseteq Address
  BY DEF Authorization
<1>2. Objection(a, t, parsed) = "none"
        <=> /\ a.scheme = t.scheme /\ NormalizeHost(a.host) = NormalizeHost(t.host)
            /\ a.port = t.port /\ parsed.ok /\ NamesAddress(a, parsed) /\ t.method \in a.methods
  BY DEF Objection
<1>3. parsed.ok <=> Means(t.address) # <<>>
  BY ParsedMeaning
<1>4. ASSUME parsed.ok
      PROVE  NamesAddress(a, parsed) <=> \E entry \in a.addresses : Means(entry) = Means(t.address)
  <2>1. NamesAddress(a, parsed)
          <=> \E entry \in a.addresses : /\ ParseAddress(entry).ok
                                         /\ ParseAddress(entry).canonical = parsed.canonical
    BY DEF NamesAddress
  <2>2. \A entry \in a.addresses :
           ParseAddress(entry).ok /\ ParseAddress(entry).canonical = parsed.canonical
             <=> Means(entry) = Means(t.address)
    <3> SUFFICES ASSUME NEW entry \in a.addresses
                 PROVE  ParseAddress(entry).ok /\ ParseAddress(entry).canonical = parsed.canonical
                          <=> Means(entry) = Means(t.address)
      OBVIOUS
    <3>1. entry \in Address /\ (ParseAddress(entry).ok <=> Means(entry) # <<>>)
      BY <1>1, ParsedMeaning
    <3>2. CASE ParseAddress(entry).ok
      BY <1>4, <3>1, <3>2, SameMachine
    <3>3. CASE ~ParseAddress(entry).ok
      BY <1>3, <1>4, <3>1, <3>3
    <3> QED BY <3>2, <3>3
  <2> HIDE DEF parsed
  <2> QED BY <2>1, <2>2
<1>5. NormalizeHost(a.host) = NormalizeHost(t.host) <=> SameHost(a.host, t.host)
  BY <1>1, SameHostNormalized
<1> HIDE DEF parsed
<1>6. Objection(a, t, parsed) = "none" <=> Names(a, t)
  BY <1>2, <1>3, <1>4, <1>5 DEF Names
<1> QED BY <1>6 DEF parsed

(* evaluateTarget: a target is allowed when some authorization of the      *)
(* mapping names it, and by one that does.                                 *)
LEMMA TargetRuling ==
    ASSUME NEW mapping \in Seq(Authorization), NEW t, t.host \in Host, t.address \in Address
    PROVE  /\ EvaluateTarget(mapping, t).allowed \in BOOLEAN
           /\ EvaluateTarget(mapping, t).allowed <=> \E j \in DOMAIN mapping : Names(mapping[j], t)
           /\ EvaluateTarget(mapping, t).allowed =>
                 \E j \in DOMAIN mapping : /\ EvaluateTarget(mapping, t).authorization = mapping[j]
                                           /\ Names(mapping[j], t)
<1> DEFINE parsed == ParseAddress(t.address)
           candidates == OfInterface(mapping, t.interfaceId)
           allowing == {i \in candidates : Objection(mapping[i], t, parsed) = "none"}
           decision == EvaluateTarget(mapping, t)
<1>1. DOMAIN mapping \subseteq Nat /\ \A i \in DOMAIN mapping : mapping[i] \in Authorization
  OBVIOUS
<1>2. \A i \in DOMAIN mapping : i \in allowing <=> Names(mapping[i], t)
  <2> SUFFICES ASSUME NEW i \in DOMAIN mapping
               PROVE  i \in allowing <=> Names(mapping[i], t)
    OBVIOUS
  <2>1. CASE mapping[i].interfaceId = t.interfaceId
    <3>1. Objection(mapping[i], t, parsed) = "none" <=> Names(mapping[i], t)
      BY <1>1, <2>1, ObjectionNamed
    <3>2. i \in candidates
      BY <2>1 DEF OfInterface
    <3> HIDE DEF parsed, candidates
    <3> QED BY <3>1, <3>2
  <2>2. CASE mapping[i].interfaceId # t.interfaceId
    <3>1. i \notin candidates
      BY <2>2 DEF OfInterface
    <3>2. ~Names(mapping[i], t)
      BY <2>2 DEF Names
    <3> HIDE DEF parsed, candidates
    <3> QED BY <3>1, <3>2
  <2> QED BY <2>1, <2>2
<1>3. allowing \subseteq DOMAIN mapping
  BY DEF OfInterface
<1>4. decision = IF allowing # {} THEN Allowed(mapping[Min(allowing)])
                 ELSE IF candidates = {} THEN Denied("interface-not-authorized")
                 ELSE Denied(Objection(mapping[Min(candidates)], t, parsed))
  BY DEF EvaluateTarget, FirstAllowing
<1> HIDE DEF allowing, candidates, parsed, decision
<1>5. CASE allowing # {}
  <2>1. Min(allowing) \in allowing
    BY <1>1, <1>3, <1>5, LeastPlace
  <2>2. decision = [allowed |-> TRUE, authorization |-> mapping[Min(allowing)]]
    BY <1>4, <1>5 DEF Allowed
  <2>3. Min(allowing) \in DOMAIN mapping /\ Names(mapping[Min(allowing)], t)
    BY <1>2, <1>3, <2>1
  <2> HIDE DEF Min
  <2> QED BY <2>2, <2>3 DEF decision
<1>6. CASE allowing = {}
  <2>1. decision.allowed = FALSE
    BY <1>4, <1>6 DEF Denied
  <2>2. ~ \E j \in DOMAIN mapping : Names(mapping[j], t)
    BY <1>2, <1>6
  <2> QED BY <2>1, <2>2 DEF decision
<1> QED BY <1>5, <1>6

(* The command's like: the first that names it, and its environment alone. *)
LEMMA CommandRuling ==
    ASSUME NEW S, NEW mapping \in Seq(S), NEW query, query.kind = "cli"
    PROVE  DecideCommand(mapping, query).allowed <=> NamedBy(mapping, query)
<1> DEFINE pair == {i \in OfInterface(mapping, query.interfaceId) :
                      mapping[i].executable = query.executable}
           allowing == {i \in pair : query.subcommandPath \in mapping[i].permittedSubcommandPaths}
           first == Min(allowing)
           decision == EvaluateCommandTarget(mapping, query)
<1>1. DOMAIN mapping \subseteq Nat /\ DOMAIN mapping = 1 .. Len(mapping) /\ Len(mapping) \in Nat
  OBVIOUS
<1>2. \A i \in DOMAIN mapping : i \in allowing <=> NamesCommand(mapping[i], query)
  BY DEF OfInterface, NamesCommand
<1>3. allowing \subseteq DOMAIN mapping
  BY DEF OfInterface
<1>4. NamedBy(mapping, query)
        <=> \E j \in DOMAIN mapping :
               /\ NamesCommand(mapping[j], query)
               /\ \A k \in 1 .. j - 1 : ~NamesCommand(mapping[k], query)
               /\ query.environment \subseteq mapping[j].permittedEnvironmentKeys
               /\ \A key \in query.environment : key.name # "PATH"
  BY DEF NamedBy
<1>5. allowing # {} => decision = Allowed(mapping[first])
  BY DEF EvaluateCommandTarget
<1>6. allowing = {} => decision.allowed = FALSE
  BY DEF EvaluateCommandTarget, Denied
<1> HIDE DEF allowing, pair, decision
<1>7. CASE allowing # {}
  <2>1. first \in allowing /\ \A i \in allowing : first <= i
    BY <1>1, <1>3, <1>7, LeastPlace
  <2> HIDE DEF first
  <2>2. first \in DOMAIN mapping /\ NamesCommand(mapping[first], query)
    BY <1>2, <1>3, <2>1
  <2>3. \A k \in 1 .. first - 1 : ~NamesCommand(mapping[k], query)
    <3> SUFFICES ASSUME NEW k \in 1 .. first - 1, NamesCommand(mapping[k], query) PROVE FALSE
      OBVIOUS
    <3>1. k \in DOMAIN mapping /\ ~(first <= k)
      BY <1>1, <2>2
    <3> QED BY <1>2, <2>1, <3>1
  <2>4. \A j \in DOMAIN mapping :
           NamesCommand(mapping[j], query) /\ (\A k \in 1 .. j - 1 : ~NamesCommand(mapping[k], query))
             => j = first
    <3> SUFFICES ASSUME NEW j \in DOMAIN mapping, NamesCommand(mapping[j], query),
                        \A k \in 1 .. j - 1 : ~NamesCommand(mapping[k], query)
                 PROVE  j = first
      OBVIOUS
    <3>1. first <= j
      BY <1>2, <2>1
    <3>2. first \notin 1 .. j - 1
      BY <2>2
    <3> QED BY <1>1, <2>2, <3>1, <3>2
  <2>5. NamedBy(mapping, query)
          <=> /\ query.environment \subseteq mapping[first].permittedEnvironmentKeys
              /\ \A key \in query.environment : key.name # "PATH"
    BY <1>4, <2>2, <2>3, <2>4
  <2>6. decision.allowed /\ decision.authorization = mapping[first]
    BY <1>5, <1>7 DEF Allowed
  <2>7. DecideCommand(mapping, query)
          = IF ~EnvironmentPermitted(query.environment, mapping[first])
            THEN Denied("environment-key-not-authorized") ELSE decision
    BY <2>6 DEF DecideCommand, decision
  <2>8. DecideCommand(mapping, query).allowed
          <=> EnvironmentPermitted(query.environment, mapping[first])
    BY <2>6, <2>7 DEF Denied
  <2> QED BY <2>5, <2>8 DEF EnvironmentPermitted
<1>8. CASE allowing = {}
  <2>1. ~NamedBy(mapping, query)
    BY <1>2, <1>4, <1>8
  <2>2. DecideCommand(mapping, query) = decision
    BY <1>6, <1>8 DEF DecideCommand, decision
  <2> QED BY <1>6, <1>8, <2>1, <2>2
<1> QED BY <1>7, <1>8

(* A mapping that conforms names a server once.                            *)
LEMMA ToolRuling ==
    ASSUME NEW S, NEW mapping \in Seq(S), NEW query, query.kind = "mcp",
           \A i, j \in DOMAIN mapping : mapping[i].interfaceId = mapping[j].interfaceId => i = j
    PROVE  EvaluateMcpTarget(mapping, query).allowed <=> NamedBy(mapping, query)
<1> DEFINE server == OfInterface(mapping, query.interfaceId)
           first == Min(server)
<1>1. server \subseteq Nat /\ server \subseteq DOMAIN mapping
  BY DEF OfInterface
<1>2. \A i \in DOMAIN mapping : i \in server <=> mapping[i].interfaceId = query.interfaceId
  BY DEF OfInterface
<1>3. NamedBy(mapping, query)
        <=> \E j \in DOMAIN mapping :
               mapping[j].interfaceId = query.interfaceId /\ query.toolName \in mapping[j].tools
  BY DEF NamedBy
<1>4. EvaluateMcpTarget(mapping, query).allowed
        <=> server # {} /\ query.toolName \in mapping[first].tools
  BY DEF EvaluateMcpTarget, Allowed, Denied
<1> HIDE DEF server
<1>5. server # {} => first \in server
  BY <1>1, LeastPlace
<1> HIDE DEF first
<1>6. server # {} => \A j \in DOMAIN mapping : j \in server => j = first
  BY <1>1, <1>2, <1>5
<1> QED BY <1>1, <1>2, <1>3, <1>4, <1>5, <1>6


-----------------------------------------------------------------------------
(* OnlyWhatIsNamed.                                                        *)

Visits == [target : ResolvedTarget, allowed : BOOLEAN]

(* Before the probe's call reaches the mechanism nothing was resolved; as  *)
(* long as it runs, the last target was admitted, by the authorization in  *)
(* force, and there is a hop for each redirect and one more.               *)
HopsInv ==
    /\ caller # "probe" => visits = <<>>
    /\ caller = "probe" =>
          /\ policy \in Policies /\ asked \in Requests /\ redirects \in Nat
          /\ visits \in Seq(Visits)
          /\ stage = "entry" => work = "none"
          /\ work = "none" => visits = <<>> /\ redirects = 0
          /\ hop = "redirected" => location \in Locations
          /\ work = "running" =>
                /\ Len(visits) = redirects + 1 /\ visits[Len(visits)].allowed
                /\ \E j \in DOMAIN policy : /\ inForce = policy[j]
                                            /\ Names(policy[j], visits[Len(visits)].target)
          /\ HopsAreNamed

(* What the operator was last told is the decision over the mapping that   *)
(* was parsed.                                                             *)
RulingInv ==
    ruling # Nowhere =>
        /\ ruling = [mapping |-> ruling.mapping, parsed |-> ruling.parsed,
                     query |-> ruling.query, decision |-> ruling.decision]
        /\ ruling.mapping \in Mappings
        /\ ruling.parsed = ParseTargetPolicy(ruling.mapping.mechanism, ruling.mapping.mapping)
        /\ ruling.query # Nowhere =>
              /\ ruling.parsed = "parsed" /\ ruling.query \in ruling.mapping.queries
              /\ ruling.decision = Decide(ruling.mapping.mapping.authorizations, ruling.query)

(* One more target, ruled as the mapping says.                             *)
LEMMA OneMoreVisit ==
    ASSUME visits \in Seq(Visits), NEW visit \in Visits, visits' = Append(visits, visit),
           policy' = policy, HopsAreNamed, work # Denial,
           visit.allowed <=> \E j \in DOMAIN policy : Names(policy[j], visit.target),
           ~visit.allowed => work' = Denial,
           visits # <<>> => \E j \in DOMAIN policy :
                               /\ Names(policy[j], visits[Len(visits)].target)
                               /\ Len(visits) <= policy[j].maxRedirects
    PROVE  visits' \in Seq(Visits) /\ HopsAreNamed'
<1> DEFINE n == Len(visits)
           Named(target) == \E j \in DOMAIN policy : Names(policy[j], target)
           Bounded(i, target) == \E j \in DOMAIN policy : /\ Names(policy[j], target)
                                                          /\ i - 1 <= policy[j].maxRedirects
<1>1. /\ n \in Nat /\ DOMAIN visits = 1 .. n
      /\ visits' \in Seq(Visits) /\ Len(visits') = n + 1 /\ DOMAIN visits' = 1 .. n + 1
      /\ \A i \in 1 .. n : visits'[i] = visits[i]
      /\ visits'[n + 1] = visit
  OBVIOUS
<1>2. \A i \in 1 .. n : /\ visits[i].allowed
                        /\ visits[i].allowed <=> Named(visits[i].target)
                        /\ i > 1 => Bounded(i, visits[i - 1].target)
  BY <1>1 DEF HopsAreNamed
<1>3. n >= 1 => Bounded(n + 1, visits[n].target)
  <2>1. n >= 1 => visits # <<>>
    BY <1>1
  <2>2. (n + 1) - 1 = n
    BY <1>1
  <2> QED BY <2>1, <2>2
<1>4. visit.allowed <=> Named(visit.target)
  OBVIOUS
<1>5. HopsAreNamed' <=>
        \A i \in 1 .. n + 1 : /\ visits'[i].allowed <=> Named(visits'[i].target)
                              /\ ~visits'[i].allowed => i = n + 1 /\ work' = Denial
                              /\ i > 1 => Bounded(i, visits'[i - 1].target)
  BY <1>1 DEF HopsAreNamed, Names
<1> HIDE DEF n, Named, Bounded
<1>6. ASSUME NEW i \in 1 .. n + 1
      PROVE  /\ visits'[i].allowed <=> Named(visits'[i].target)
             /\ ~visits'[i].allowed => i = n + 1 /\ work' = Denial
             /\ i > 1 => Bounded(i, visits'[i - 1].target)
  <2>1. CASE i \in 1 .. n
    <3>1. visits'[i] = visits[i]
      BY <1>1, <2>1
    <3>2. i > 1 => visits'[i - 1] = visits[i - 1]
      <4>1. i > 1 => i - 1 \in 1 .. n
        BY <1>1, <2>1
      <4> QED BY <1>1, <4>1
    <3> QED BY <1>2, <2>1, <3>1, <3>2
  <2>2. CASE i = n + 1
    <3>1. visits'[i] = visit
      BY <1>1, <2>2
    <3>2. i > 1 => n >= 1 /\ i - 1 = n /\ visits'[i - 1] = visits[n]
      <4>1. i > 1 => n \in 1 .. n /\ i - 1 = n
        BY <1>1, <2>2
      <4> QED BY <1>1, <4>1
    <3> QED BY <1>3, <1>4, <2>2, <3>1, <3>2
  <2> QED BY <1>1, <2>1, <2>2
<1> QED BY <1>1, <1>5, <1>6

(* validate, on the first hop or on a redirect that the bound permits.     *)
LEMMA VisitKeeps ==
    ASSUME NEW origin, origin.scheme \in STRING, origin.host \in Host, origin.port \in Int,
           Visit(origin), policy \in Policies, policy' = policy, asked \in Requests,
           visits \in Seq(Visits), HopsAreNamed, work # Denial,
           redirects' \in Nat, Len(visits) = redirects',
           visits # <<>> => \E j \in DOMAIN policy :
                               /\ Names(policy[j], visits[Len(visits)].target)
                               /\ Len(visits) <= policy[j].maxRedirects
    PROVE  /\ visits' \in Seq(Visits) /\ HopsAreNamed' /\ work' # "none"
           /\ work' = "running" =>
                /\ Len(visits') = redirects' + 1 /\ visits'[Len(visits')].allowed
                /\ \E j \in DOMAIN policy' : /\ inForce' = policy'[j]
                                             /\ Names(policy'[j], visits'[Len(visits')].target)
           /\ hop' \in {hop, "error", "open"}
<1>1. CASE origin.host.name \notin DOMAIN Resolver
  <2>1. visits' = visits /\ work' = Denial /\ hop' = hop
    BY <1>1 DEF Visit, WorkSettles, Denial
  <2>2. HopsAreNamed'
    <3> DEFINE Named(target) == \E j \in DOMAIN policy : Names(policy[j], target)
               Bounded(i, target) == \E j \in DOMAIN policy : /\ Names(policy[j], target)
                                                              /\ i - 1 <= policy[j].maxRedirects
    <3>1. \A i \in DOMAIN visits : /\ visits[i].allowed
                                   /\ visits[i].allowed <=> Named(visits[i].target)
                                   /\ i > 1 => Bounded(i, visits[i - 1].target)
      BY DEF HopsAreNamed
    <3>2. HopsAreNamed' <=>
            \A i \in DOMAIN visits' : /\ visits'[i].allowed <=> Named(visits'[i].target)
                                      /\ ~visits'[i].allowed => i = Len(visits') /\ work' = Denial
                                      /\ i > 1 => Bounded(i, visits'[i - 1].target)
      BY DEF HopsAreNamed, Names
    <3>3. visits' = visits
      BY <2>1
    <3> HIDE DEF Named, Bounded
    <3> QED BY <3>1, <3>2, <3>3
  <2> QED BY <2>1, <2>2 DEF Denial
<1>2. CASE origin.host.name \in DOMAIN Resolver
  <2>1. PICK address \in Resolver[origin.host.name] :
           LET resolved == [interfaceId |-> asked.interfaceId, method |-> asked.method,
                            scheme |-> origin.scheme, host |-> origin.host,
                            port |-> origin.port, address |-> address]
           IN  Ruled(resolved, EvaluateTarget(policy, resolved))
    BY <1>2 DEF Visit
  <2> DEFINE resolved == [interfaceId |-> asked.interfaceId, method |-> asked.method,
                          scheme |-> origin.scheme, host |-> origin.host,
                          port |-> origin.port, address |-> address]
             decision == EvaluateTarget(policy, resolved)
             visit == [target |-> resolved, allowed |-> decision.allowed]
  <2>2. resolved \in ResolvedTarget
    <3>1. address \in Address
      BY <1>2, ProbesAssumption
    <3>2. asked.interfaceId \in STRING /\ asked.method \in STRING
      BY ProbesAssumption
    <3> QED BY <3>1, <3>2 DEF ResolvedTarget
  <2>3. /\ decision.allowed \in BOOLEAN
        /\ decision.allowed <=> \E j \in DOMAIN policy : Names(policy[j], resolved)
        /\ decision.allowed => \E j \in DOMAIN policy : /\ decision.authorization = policy[j]
                                                        /\ Names(policy[j], resolved)
    <3>1. resolved.host \in Host /\ resolved.address \in Address
      BY <2>2 DEF ResolvedTarget
    <3>2. policy \in Seq(Authorization)
      BY ProbesAssumption
    <3> HIDE DEF resolved
    <3> QED BY <3>1, <3>2, TargetRuling
  <2>4. Ruled(resolved, decision)
    BY <2>1
  <2> HIDE DEF resolved, decision
  <2>5. visit \in Visits
    BY <2>2, <2>3 DEF Visits
  <2>6. CASE ~decision.allowed
    <3>1. /\ visits' = Append(visits, visit) /\ work' = Denial /\ hop' = hop
      BY <2>3, <2>4, <2>6 DEF Ruled, Refused, WorkSettles, Denial
    <3>2. visits' \in Seq(Visits) /\ HopsAreNamed'
      BY <2>3, <2>5, <2>6, <3>1, OneMoreVisit
    <3> QED BY <3>1, <3>2 DEF Denial
  <2>7. CASE decision.allowed
    <3>1. /\ visits' = Append(visits, visit) /\ inForce' = decision.authorization
          /\ work' \in {"budget-exhausted", "running"} /\ hop' \in {hop, "error", "open"}
      BY <2>3, <2>4, <2>7 DEF Ruled, Granted, WorkSettles
    <3>2. visits' \in Seq(Visits) /\ HopsAreNamed'
      BY <2>3, <2>5, <2>7, <3>1, OneMoreVisit
    <3>3. Len(visits') = redirects' + 1 /\ visits'[Len(visits')] = visit
      BY <2>5, <3>1
    <3>4. PICK j \in DOMAIN policy : decision.authorization = policy[j] /\ Names(policy[j], resolved)
      BY <2>3, <2>7
    <3>5. inForce' = policy'[j] /\ Names(policy'[j], visits'[Len(visits')].target)
      BY <3>1, <3>3, <3>4 DEF Names
    <3> QED BY <2>7, <3>1, <3>2, <3>3, <3>4, <3>5
  <2> QED BY <2>3, <2>6, <2>7
<1> QED BY <1>1, <1>2

(* A step that resolves no target keeps what was so far, also when the     *)
(* chain settles in it.                                                    *)
LEMMA HopsQuiet ==
    ASSUME HopsInv, caller = "probe", caller' = caller, policy' = policy, asked' = asked,
           visits' = visits, inForce' = inForce, redirects' \in Nat,
           \/ work' = work /\ redirects' = redirects
           \/ work = "running" /\ work' \notin {"running", "none"},
           stage' = "entry" => stage = "entry" /\ work' = work,
           hop' = "redirected" => location' \in Locations
    PROVE  HopsInv'
<1> DEFINE Named(target) == \E j \in DOMAIN policy : Names(policy[j], target)
           Bounded(i, target) == \E j \in DOMAIN policy : /\ Names(policy[j], target)
                                                          /\ i - 1 <= policy[j].maxRedirects
           admitted == /\ Len(visits) = redirects + 1 /\ visits[Len(visits)].allowed
                       /\ \E j \in DOMAIN policy : /\ inForce = policy[j]
                                                   /\ Names(policy[j], visits[Len(visits)].target)
           tried == \A i \in DOMAIN visits :
                       /\ visits[i].allowed <=> Named(visits[i].target)
                       /\ i > 1 => Bounded(i, visits[i - 1].target)
<1>1. /\ policy \in Policies /\ asked \in Requests /\ visits \in Seq(Visits)
      /\ stage = "entry" => work = "none"
      /\ work = "none" => visits = <<>> /\ redirects = 0
      /\ work = "running" => admitted
      /\ tried /\ \A i \in DOMAIN visits : ~visits[i].allowed => i = Len(visits) /\ work = Denial
  BY DEF HopsInv, HopsAreNamed
<1>2. admitted' <=> Len(visits) = redirects' + 1 /\ visits[Len(visits)].allowed
                    /\ \E j \in DOMAIN policy : /\ inForce = policy[j]
                                                /\ Names(policy[j], visits[Len(visits)].target)
  BY DEF Names
<1>3. tried' <=> tried
  <2>1. tried' <=> \A i \in DOMAIN visits' : /\ visits'[i].allowed <=> Named(visits'[i].target)
                                             /\ i > 1 => Bounded(i, visits'[i - 1].target)
    BY DEF Names
  <2> HIDE DEF Named, Bounded
  <2> QED BY <2>1
<1>4. HopsAreNamed'
        <=> tried' /\ \A i \in DOMAIN visits' : ~visits'[i].allowed => i = Len(visits') /\ work' = Denial
  BY DEF HopsAreNamed, Names
<1>5. work' = "running" => admitted'
  BY <1>1, <1>2
<1>6. work' = "none" => visits' = <<>> /\ redirects' = 0
  BY <1>1
<1> HIDE DEF tried, admitted
<1>7. HopsAreNamed'
  BY <1>1, <1>3, <1>4 DEF Denial
<1>8. HopsInv' <=>
        /\ policy' \in Policies /\ asked' \in Requests /\ redirects' \in Nat
        /\ visits' \in Seq(Visits)
        /\ stage' = "entry" => work' = "none"
        /\ work' = "none" => visits' = <<>> /\ redirects' = 0
        /\ hop' = "redirected" => location' \in Locations
        /\ work' = "running" => admitted'
        /\ HopsAreNamed'
  BY DEF HopsInv, admitted
<1> QED BY <1>1, <1>5, <1>6, <1>7, <1>8

(* The chain's state with the step's own target, as VisitKeeps leaves it.  *)
LEMMA HopsVisit ==
    ASSUME HopsInv, caller = "probe", caller' = caller, policy' = policy, asked' = asked,
           location' = location, redirects' \in Nat,
           stage' # "entry", visits' \in Seq(Visits), HopsAreNamed', work' # "none",
           work' = "running" =>
                /\ Len(visits') = redirects' + 1 /\ visits'[Len(visits')].allowed
                /\ \E j \in DOMAIN policy' : /\ inForce' = policy'[j]
                                             /\ Names(policy'[j], visits'[Len(visits')].target),
           hop' \in {hop, "error", "open"}
    PROVE  HopsInv'
  BY DEF HopsInv

(* The request reaches the mechanism: the interface's own target.          *)
LEMMA HopsProbe ==
    ASSUME HopsInv, caller = "probe", caller' = caller, Probe
    PROVE  HopsInv'
<1>1. stage = "entry" /\ work = "none" /\ visits = <<>> /\ redirects = 0
  BY DEF Probe, HopsInv
<1>2. CASE stage' = "mechanism" /\ Start /\ UNCHANGED <<policy, asked, redirects, location, stopped, cleaned>>
  <2>1. /\ policy \in Policies /\ asked \in Requests /\ visits \in Seq(Visits) /\ HopsAreNamed
        /\ redirects' \in Nat /\ Len(visits) = redirects' /\ work # Denial
        /\ hop = "redirected" => location \in Locations
    BY <1>1, <1>2 DEF HopsInv, Denial
  <2>2. CASE asked.interfaceId \notin DOMAIN Targets
    <3>1. visits' = visits /\ work' = Denial /\ hop' = hop
      BY <1>2, <2>2 DEF Start, WorkSettles, Denial
    <3>2. HopsAreNamed'
      BY <1>1, <3>1 DEF HopsAreNamed
    <3> QED BY <1>2, <2>1, <3>1, <3>2, HopsVisit DEF Denial
  <2>3. CASE asked.interfaceId \in DOMAIN Targets
    <3> DEFINE origin == Targets[asked.interfaceId]
    <3>1. Visit(origin)
      BY <1>2, <2>3 DEF Start
    <3>2. origin.scheme \in STRING /\ origin.host \in Host /\ origin.port \in Int
      BY <2>3, ProbesAssumption DEF Origin
    <3> HIDE DEF origin
    <3>3. policy' = policy /\ asked' = asked /\ location' = location /\ stage' # "entry"
      BY <1>2
    <3>4. /\ visits' \in Seq(Visits) /\ HopsAreNamed' /\ work' # "none"
          /\ work' = "running" =>
                /\ Len(visits') = redirects' + 1 /\ visits'[Len(visits')].allowed
                /\ \E j \in DOMAIN policy' : /\ inForce' = policy'[j]
                                             /\ Names(policy'[j], visits'[Len(visits')].target)
          /\ hop' \in {hop, "error", "open"}
      BY <1>1, <2>1, <3>1, <3>2, <3>3, VisitKeeps
    <3> QED BY <2>1, <3>3, <3>4, HopsVisit
  <2> QED BY <2>2, <2>3
<1>3. CASE UNCHANGED probeVars
  <2>1. /\ work' = work /\ redirects' = redirects /\ policy' = policy /\ asked' = asked
        /\ visits' = visits /\ inForce' = inForce /\ hop' = hop /\ location' = location
    BY <1>3 DEF probeVars
  <2>2. redirects \in Nat /\ (hop = "redirected" => location \in Locations)
    BY DEF HopsInv
  <2> QED BY <1>1, <2>1, <2>2, HopsQuiet
<1> QED BY <1>2, <1>3 DEF Probe

(* The URL that a redirect leads to.                                       *)
LEMMA NextOrigin ==
    ASSUME location \in Locations, NEW from \in ResolvedTarget
    PROVE  NextTarget(from).scheme \in STRING /\ NextTarget(from).host \in Host
           /\ NextTarget(from).port \in Int
<1>1. CASE location \in [relative : {TRUE}]
  BY <1>1 DEF NextTarget, ResolvedTarget
<1>2. CASE location \in [relative : {FALSE}, scheme : STRING, host : Host, port : Int]
  <2>1. [location.host EXCEPT !.mixed = FALSE] \in Host
    BY <1>2 DEF Host
  <2> DEFINE lowered == [location.host EXCEPT !.mixed = FALSE]
             number == IF location.port # 0 THEN location.port
                       ELSE IF location.scheme = "https" THEN 443 ELSE 80
  <2>2. number \in Int /\ location.scheme \in STRING /\ location.relative = FALSE
    <3>1. location.port \in Int
      BY <1>2
    <3>2. number \in {location.port, 443, 80}
      OBVIOUS
    <3>3. location.scheme \in STRING /\ location.relative = FALSE
      BY <1>2
    <3> HIDE DEF number
    <3> QED BY <3>1, <3>2, <3>3
  <2>3. NextTarget(from) = [scheme |-> location.scheme, host |-> lowered, port |-> number]
    BY <2>2 DEF NextTarget
  <2> HIDE DEF lowered, number
  <2> QED BY <2>1, <2>2, <2>3 DEF lowered
<1> QED BY <1>1, <1>2, ProbesAssumption

(* The code after an awaited hop: the chain settles, or follows where the  *)
(* bound of the authorization in force lets it.                            *)
LEMMA HopsResumed ==
    ASSUME HopsInv, caller = "probe", caller' = caller, Resumed
    PROVE  HopsInv'
<1>1. /\ work = "running" /\ stage' = stage /\ policy' = policy /\ asked' = asked
      /\ location' = location
  BY DEF Resumed, portVars
<1>2. /\ policy \in Policies /\ asked \in Requests /\ redirects \in Nat
      /\ visits \in Seq(Visits) /\ HopsAreNamed /\ stage # "entry"
      /\ hop = "redirected" => location \in Locations
      /\ Len(visits) = redirects + 1
      /\ \E j \in DOMAIN policy : /\ inForce = policy[j]
                                  /\ Names(policy[j], visits[Len(visits)].target)
  BY <1>1 DEF HopsInv
<1>3. CASE /\ work' \in {"error", "budget-exhausted", "value"} /\ redirects' \in {redirects, redirects + 1}
           /\ UNCHANGED <<visits, inForce, hop, timer>>
  <2>1. work' \notin {"running", "none"} /\ redirects' \in Nat
    BY <1>2, <1>3
  <2>2. visits' = visits /\ inForce' = inForce /\ hop' = hop
    BY <1>3
  <2> QED BY <1>1, <1>2, <2>1, <2>2, HopsQuiet
<1>4. CASE /\ hop = "redirected" /\ redirects' = redirects + 1 /\ ~(redirects' > inForce.maxRedirects)
           /\ Visit(NextTarget(Last(visits).target))
  <2> DEFINE from == visits[Len(visits)].target
             origin == NextTarget(from)
  <2>1. Visit(origin)
    BY <1>4 DEF Last
  <2>2. from \in ResolvedTarget
    <3>1. Len(visits) \in 1 .. Len(visits)
      BY <1>2
    <3>2. visits[Len(visits)] \in Visits
      BY <1>2, <3>1
    <3> QED BY <3>2 DEF Visits
  <2>3. origin.scheme \in STRING /\ origin.host \in Host /\ origin.port \in Int
    <3> HIDE DEF from
    <3> QED BY <1>2, <1>4, <2>2, NextOrigin
  <2>4. \E j \in DOMAIN policy : /\ Names(policy[j], visits[Len(visits)].target)
                                /\ Len(visits) <= policy[j].maxRedirects
    <3>1. PICK j \in DOMAIN policy : inForce = policy[j] /\ Names(policy[j], from)
      BY <1>2
    <3>2. policy[j].maxRedirects \in Int
      <4>1. policy \in Seq(Authorization)
        BY <1>2, ProbesAssumption
      <4>2. policy[j] \in Authorization
        BY <4>1
      <4> QED BY <4>2 DEF Authorization
    <3> QED BY <1>2, <1>4, <3>1, <3>2
  <2>5. redirects' \in Nat /\ Len(visits) = redirects' /\ work # Denial
    BY <1>1, <1>2, <1>4 DEF Denial
  <2> HIDE DEF origin, from
  <2>6. /\ visits' \in Seq(Visits) /\ HopsAreNamed' /\ work' # "none"
        /\ work' = "running" =>
             /\ Len(visits') = redirects' + 1 /\ visits'[Len(visits')].allowed
             /\ \E j \in DOMAIN policy' : /\ inForce' = policy'[j]
                                          /\ Names(policy'[j], visits'[Len(visits')].target)
        /\ hop' \in {hop, "error", "open"}
    BY <1>1, <1>2, <2>1, <2>3, <2>4, <2>5, VisitKeeps
  <2> QED BY <1>1, <1>2, <2>5, <2>6, HopsVisit
<1> QED BY <1>3, <1>4 DEF Resumed, WorkSettles

(* Whoever calls, a step keeps HopsInv.                                    *)
LEMMA HopsStep ==
    ASSUME HopsInv, [ConformanceNext]_ConformanceVars
    PROVE  HopsInv'
<1>1. CASE UNCHANGED probeVars /\ caller' = caller /\ (caller = "probe" => stage' = stage)
  <2>1. /\ work' = work /\ redirects' = redirects /\ policy' = policy /\ asked' = asked
        /\ visits' = visits /\ inForce' = inForce /\ hop' = hop /\ location' = location
    BY <1>1 DEF probeVars
  <2>2. CASE caller # "probe"
    BY <1>1, <2>1, <2>2 DEF HopsInv
  <2>3. CASE caller = "probe"
    <3>1. redirects \in Nat /\ (hop = "redirected" => location \in Locations)
      BY <2>3 DEF HopsInv
    <3> QED BY <1>1, <2>1, <2>3, <3>1, HopsQuiet
  <2> QED BY <2>2, <2>3
<1>2. CASE caller = "probe" /\ ProbeNext /\ OnlyProbe
  <2>1. caller' = caller /\ redirects \in Nat /\ (hop = "redirected" => location \in Locations)
    BY <1>2 DEF OnlyProbe, HopsInv
  <2>2. CASE Probe
    BY <1>2, <2>1, <2>2, HopsProbe
  <2>3. CASE Resumed
    BY <1>2, <2>1, <2>3, HopsResumed
  <2>4. ASSUME work' = work, redirects' = redirects, policy' = policy, asked' = asked,
               visits' = visits, inForce' = inForce, stage' = "entry" => stage = "entry",
               hop' = "redirected" => location' \in Locations
        PROVE  HopsInv'
    BY <1>2, <2>1, <2>4, HopsQuiet
  <2>5. CASE SignalAborts
    <3>1. stage' = stage
      BY <2>5 DEF SignalAborts, Abort
    <3> QED BY <2>1, <2>4, <2>5, <3>1 DEF SignalAborts
  <2>6. CASE \E kind \in {"answered", "truncated", "error", "redirected"} : Answers(kind)
    BY <2>1, <2>4, <2>6 DEF Answers, portVars
  <2>7. CASE Destroyed
    BY <2>1, <2>4, <2>7 DEF Destroyed, portVars
  <2>8. CASE ElapsedFires
    BY <2>1, <2>4, <2>8 DEF ElapsedFires, portVars
  <2>9. CASE MechanismEnds
    <3>1. stage' = stage
      BY <2>9 DEF MechanismEnds, Settle, portVars
    <3> QED BY <2>1, <2>4, <2>9, <3>1 DEF MechanismEnds
  <2>10. CASE Boundary
    <3>1. stage' = "entry" => stage = "entry"
      BY <2>10 DEF Boundary, Resume, Answer, End, Assemble, Race
    <3> QED BY <2>1, <2>4, <2>10, <3>1 DEF Boundary, probeVars
  <2> QED BY <1>2, <2>2, <2>3, <2>5, <2>6, <2>7, <2>8, <2>9, <2>10 DEF ProbeNext
<1>3. CASE UNCHANGED ConformanceVars
  BY <1>1, <1>3 DEF ConformanceVars, portVars
<1>4. CASE caller = "application" /\ PortNext /\ OnlyPort
  BY <1>1, <1>4 DEF OnlyPort
<1>5. CASE Load \/ Rules
  BY <1>1, <1>5 DEF Load, Rules
<1>6. CASE caller = "kit" /\ OnlyKit
  BY <1>1, <1>6 DEF OnlyKit
<1>7. Asserts => caller = "kit"
  BY DEF Asserts
<1>8. /\ InFlight(Call) => caller = "kit"
      /\ InFlight(Resume \/ ResumePostcheck \/ SupplierSettles \/ \E r \in Settled : Settle(r))
           => caller = "kit"
  BY DEF InFlight
<1> QED BY <1>2, <1>3, <1>4, <1>5, <1>6, <1>7, <1>8 DEF ConformanceNext

LEMMA HopsStart ==
    ASSUME ConformanceInit
    PROVE  HopsInv /\ RulingInv
<1>1. ruling = Nowhere
  BY DEF ConformanceInit
<1>2. CASE caller = "probe"
  <2>1. /\ policy \in Policies /\ asked \in Requests /\ visits = <<>> /\ redirects = 0
        /\ hop = "none" /\ work = "none"
    BY <1>2 DEF ConformanceInit, ProbeInit
  <2> QED BY <1>1, <1>2, <2>1 DEF HopsInv, RulingInv, HopsAreNamed
<1>3. CASE caller # "probe"
  <2>1. visits = <<>>
    BY <1>3 DEF ConformanceInit
  <2> QED BY <1>1, <1>3, <2>1 DEF HopsInv, RulingInv
<1> QED BY <1>2, <1>3

(* The operator loads a mapping once, and asks of what was parsed.         *)
LEMMA RulingStep ==
    ASSUME RulingInv, [ConformanceNext]_ConformanceVars
    PROVE  RulingInv'
<1>1. CASE ruling' = ruling
  BY <1>1 DEF RulingInv
<1>2. CASE Load
  <2>1. PICK m \in Mappings :
           ruling' = [mapping |-> m, parsed |-> ParseTargetPolicy(m.mechanism, m.mapping),
                      query |-> Nowhere, decision |-> Nowhere]
    BY <1>2 DEF Load
  <2> QED BY <2>1 DEF RulingInv
<1>3. CASE Rules
  <2> DEFINE told(query) == Decide(ruling.mapping.mapping.authorizations, query)
  <2>1. PICK query \in ruling.mapping.queries :
           ruling' = [ruling EXCEPT !.query = query, !.decision = told(query)]
    BY <1>3 DEF Rules
  <2>2. ruling # Nowhere /\ ruling.parsed = "parsed"
    BY <1>3 DEF Rules
  <2>3. /\ ruling = [mapping |-> ruling.mapping, parsed |-> ruling.parsed,
                     query |-> ruling.query, decision |-> ruling.decision]
        /\ ruling.mapping \in Mappings
        /\ ruling.parsed = ParseTargetPolicy(ruling.mapping.mechanism, ruling.mapping.mapping)
    BY <2>2 DEF RulingInv
  <2> HIDE DEF told
  <2>4. ruling' = [mapping |-> ruling.mapping, parsed |-> ruling.parsed,
                   query |-> query, decision |-> told(query)]
    BY <2>1, <2>3
  <2> QED BY <2>2, <2>3, <2>4 DEF RulingInv, told
<1> QED BY <1>1, <1>2, <1>3 DEF ConformanceNext, ConformanceVars, OnlyPort, OnlyProbe, OnlyKit

(* What the operator was told is what the mapping names.                   *)
LEMMA RulingNames ==
    ASSUME RulingInv
    PROVE  RulingsAreNamed
<1> SUFFICES ASSUME ruling # Nowhere, ruling.query # Nowhere
             PROVE  ruling.decision.allowed
                      <=> NamedBy(ruling.mapping.mapping.authorizations, ruling.query)
  BY DEF RulingsAreNamed
<1> DEFINE m == ruling.mapping
           query == ruling.query
           list == m.mapping.authorizations
<1>1. /\ m \in Mappings /\ query \in m.queries
      /\ ParseTargetPolicy(m.mechanism, m.mapping) = "parsed"
      /\ ruling.decision = Decide(list, query)
  BY DEF RulingInv
<1>2. /\ m.mechanism \in {"api", "cli", "mcp"} /\ query.kind = m.mechanism
      /\ list \in Seq(ToSet(list))
      /\ m.mechanism = "api" =>
            list \in Seq(Authorization) /\ query.host \in Host /\ query.address \in Address
  BY <1>1, MappingsAssumption
<1> HIDE DEF m, query, list
<1>3. CASE m.mechanism = "api"
  <2>1. Decide(list, query) = EvaluateTarget(list, query)
    BY <1>2, <1>3 DEF Decide
  <2>2. NamedBy(list, query) <=> \E j \in DOMAIN list : Names(list[j], query)
    BY <1>2, <1>3 DEF NamedBy
  <2>3. EvaluateTarget(list, query).allowed <=> \E j \in DOMAIN list : Names(list[j], query)
    BY <1>2, <1>3, TargetRuling
  <2>4. Decide(list, query).allowed <=> NamedBy(list, query)
    BY <2>1, <2>2, <2>3
  <2> QED BY <1>1, <2>4 DEF m, query, list
<1>4. CASE m.mechanism = "cli"
  <2>1. Decide(list, query) = DecideCommand(list, query)
    BY <1>2, <1>4 DEF Decide
  <2>2. Decide(list, query).allowed <=> NamedBy(list, query)
    BY <1>2, <1>4, <2>1, CommandRuling
  <2> QED BY <1>1, <2>2 DEF m, query, list
<1>5. CASE m.mechanism = "mcp"
  <2>1. Decide(list, query) = EvaluateMcpTarget(list, query)
    BY <1>2, <1>5 DEF Decide
  <2>2. \A i, j \in DOMAIN list : list[i].interfaceId = list[j].interfaceId => i = j
    <3>1. Conforms(m.mechanism, list)
      BY <1>1 DEF ParseTargetPolicy, list
    <3> QED BY <1>5, <3>1 DEF Conforms
  <2>3. Decide(list, query).allowed <=> NamedBy(list, query)
    BY <1>2, <1>5, <2>1, <2>2, ToolRuling
  <2> QED BY <1>1, <2>3 DEF m, query, list
<1> QED BY <1>2, <1>3, <1>4, <1>5

(* Default deny under redirects and a resolver that answers otherwise each *)
(* time: a hop is made exactly when one authorization of the mapping names *)
(* its target however its address is spelled, the bound is the one of the  *)
(* authorization in force, and an operator is told just that of a target,  *)
(* a command or a tool.                                                    *)
THEOREM OnlyWhatIsNamedHolds == ConformanceSpec => []OnlyWhatIsNamed
<1>1. ConformanceInit => HopsInv /\ RulingInv
  BY HopsStart
<1>2. HopsInv /\ RulingInv /\ [ConformanceNext]_ConformanceVars => HopsInv' /\ RulingInv'
  BY HopsStep, RulingStep
<1>3. HopsInv /\ RulingInv => OnlyWhatIsNamed
  <2>1. HopsInv => HopsAreNamed
    <3>1. CASE caller # "probe"
      BY <3>1 DEF HopsInv, HopsAreNamed
    <3>2. CASE caller = "probe"
      BY <3>2 DEF HopsInv
    <3> QED BY <3>1, <3>2
  <2> QED BY <2>1, RulingNames DEF OnlyWhatIsNamed
<1> QED BY <1>1, <1>2, <1>3, PTL DEF ConformanceSpec
=============================================================================
