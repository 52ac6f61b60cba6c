-------------------------- MODULE ContractProofs --------------------------
(***************************************************************************)
(* Of a contract's plan, that compilation and scoring agree on which plans *)
(* can be ordered, for every set of plans and every number of steps:       *)
(* Tarjan's components, as bindings.ts builds them edge by edge, against   *)
(* Kahn's tiers, as binding-order.ts sorts by them.  Of its life before    *)
(* that, that coverage says every hole and a lineage report is exact.      *)
(***************************************************************************)
EXTENDS StepSelection, Authoring, FiniteSetTheorems, SequenceTheorems, WellFoundedInduction, TLAPS

(* Every set of steps that u is in and that its edges do not leave holds v. *)
Reaches(u, v) ==
    \A R \in SUBSET Steps : u \in R /\ (\A t \in R : Edges(t) \subseteq R) => v \in R

Assigned == {s \in Steps : component[s] # Unset}

Verdicts ==
    {"none", "unreachable-check-evidence", "nested-temporal-clause",
     "plan-exceeds-scripting-bound", "binding-cycle", "accepted"}

Frame == [step : Steps, left : SUBSET Steps]

WalkType ==
    /\ plan \in Plans /\ verdict \in Verdicts
    /\ order \in [Steps -> 0 .. Unset] /\ lowLink \in [Steps -> 0 .. Unset]
    /\ component \in [Steps -> 1 .. Unset]
    /\ tarjanStack \in Seq(Steps) /\ frames \in Seq(Frame)

(* A frame of v still has its edge to w before it.                         *)
Pending(v, w) == \E k \in DOMAIN frames : frames[k].step = v /\ w \in frames[k].left

(* v was reached from frame k's step, and not through the next frame's.    *)
InSegment(v, k) ==
    /\ order[frames[k].step] <= order[v]
    /\ k < Len(frames) => order[v] < order[frames[k + 1].step]

(* The steps reached so far are those on the stack, in the order they were *)
(* reached, and those whose component is known.                            *)
StackSorted ==
    /\ \A i, j \in DOMAIN tarjanStack :
          i < j => order[tarjanStack[i]] < order[tarjanStack[j]]
    /\ \A v \in Ordered : order[v] < Cardinality(Ordered)
    /\ Ordered = OnStack \cup Assigned
    /\ OnStack \cap Assigned = {}

FramesOnStack ==
    /\ \A k \in DOMAIN frames : /\ frames[k].step \in OnStack
                                /\ frames[k].left \subseteq Edges(frames[k].step)
    /\ \A j, k \in DOMAIN frames : j < k => order[frames[j].step] < order[frames[k].step]
    /\ \A v \in OnStack : frames # <<>> /\ order[frames[1].step] <= order[v]

(* An edge that was followed leads to a step that was reached.             *)
EdgesWalked == \A v \in OnStack : \A w \in Edges(v) : w \in Ordered \/ Pending(v, w)

(* A low link is below everything on the stack that its segment leads to...*)
LinksCover ==
    \A k \in DOMAIN frames : \A v, w \in OnStack :
        InSegment(v, k) /\ w \in Edges(v) /\ ~Pending(v, w)
            => lowLink[frames[k].step] <= order[w]

(* ... and is the place of a step on the stack that its own step reaches.  *)
LinksReach ==
    \A k \in DOMAIN frames :
        /\ lowLink[frames[k].step] <= order[frames[k].step]
        /\ \E w \in OnStack : order[w] = lowLink[frames[k].step] /\ Reaches(frames[k].step, w)

StackReaches ==
    /\ \A u, v \in OnStack : order[u] <= order[v] => Reaches(u, v)
    /\ \A k \in DOMAIN frames : \A v \in OnStack : InSegment(v, k) => Reaches(v, frames[k].step)

AssignedClosed ==
    \A v \in Assigned : Edges(v) \subseteq Assigned /\ component[v] \in Assigned

ComponentsReach == \A u, v \in Assigned : component[u] = component[v] => Reaches(u, v)

(* A set of steps that each lead to another of it holds a capture whose    *)
(* two ends share a component: clauses alone make no cycle, as they do not *)
(* nest.                                                                   *)
CyclesCaught ==
    \A C \in SUBSET Assigned :
        C # {} /\ (\A s \in C : Edges(s) \cap C # {})
            => \E s \in C : \E c \in plan[s].captures \cap C : component[s] = component[c]

CapturesCycle ==
    \E s \in Steps : \E c \in plan[s].captures \cap Steps : component[s] = component[c]

Judged ==
    /\ Refused # "none" => verdict \in {"none", Refused}
    /\ verdict \in {"binding-cycle", "accepted"} =>
          /\ Ordered = Steps /\ frames = <<>>
          /\ verdict = "binding-cycle" <=> CapturesCycle

WalkShape == StackSorted /\ FramesOnStack /\ EdgesWalked /\ AssignedClosed

WalkLinks == LinksCover /\ LinksReach /\ StackReaches /\ ComponentsReach

(* What holds of the walk between any two of its steps.                    *)
BindingInv ==
    WalkType /\ WalkShape /\ WalkLinks /\ CyclesCaught /\ Judged

-----------------------------------------------------------------------------
LEMMA PlanTyped ==
    ASSUME plan \in Plans
    PROVE  /\ N \in Nat \ {0} /\ Unset \in Nat /\ Unset \notin Steps
           /\ plan \in [Steps -> StepShape]
           /\ DOMAIN plan = Steps
<1> QED BY PlanAssumption DEF Unset, Steps

LEMMA EdgesStable ==
    ASSUME plan' = plan
    PROVE  /\ \A s : Edges(s)' = Edges(s)
           /\ Refused' = Refused
           /\ \A u, v : Reaches(u, v)' <=> Reaches(u, v)
<1>1. \A s : Edges(s)' = Edges(s)
  BY DEF Edges
<1>2. Refused' = Refused
  BY DEF Refused
<1>3. \A u, v : Reaches(u, v)' <=> Reaches(u, v)
  BY <1>1 DEF Reaches
<1> QED BY <1>1, <1>2, <1>3

LEMMA ReachesItself == \A u : Reaches(u, u)
BY DEF Reaches

LEMMA ReachesOn ==
    \A u, v, w : Reaches(u, v) /\ Reaches(v, w) => Reaches(u, w)
BY DEF Reaches

LEMMA ReachesEdge == \A u, v : v \in Edges(u) => Reaches(u, v)
BY DEF Reaches

LEMMA StepsCounted ==
    ASSUME plan \in Plans, NEW T \in SUBSET Steps
    PROVE  /\ IsFiniteSet(T) /\ Cardinality(T) \in 0 .. N
           /\ \A s \in Steps \ T : /\ Cardinality(T) < N
                                   /\ Cardinality(T \cup {s}) = Cardinality(T) + 1
<1>1. N \in Nat \ {0}
  BY PlanTyped
<1>2. IsFiniteSet(Steps) /\ Cardinality(Steps) = N
  BY <1>1, FS_Interval DEF Steps
<1>3. IsFiniteSet(T) /\ Cardinality(T) \in Nat /\ Cardinality(T) <= N
  BY <1>2, FS_Subset, FS_CardinalityType
<1>4. ASSUME NEW s \in Steps \ T
      PROVE  Cardinality(T) < N /\ Cardinality(T \cup {s}) = Cardinality(T) + 1
  <2>1. Cardinality(T \cup {s}) = Cardinality(T) + 1
    BY <1>3, FS_AddElement
  <2>2. Cardinality(T \cup {s}) <= N
    BY <1>2, FS_Subset
  <2> QED BY <2>1, <2>2, <1>1, <1>3
<1> QED BY <1>1, <1>3, <1>4

-----------------------------------------------------------------------------
(* connect(s): what it changes, seen through the sets of the invariant.    *)
LEMMA ConnectView ==
    ASSUME WalkType, StackSorted, NEW s \in Steps \ Ordered, Connect(s),
           UNCHANGED <<plan, verdict>>
    PROVE  /\ WalkType'
           /\ Ordered' = Ordered \cup {s} /\ OnStack' = OnStack \cup {s}
           /\ Assigned' = Assigned /\ component' = component
           /\ s \notin OnStack /\ s \notin Assigned
           /\ \A v \in Ordered : /\ order'[v] = order[v] /\ lowLink'[v] = lowLink[v]
                                 /\ order[v] \in 0 .. N /\ order[v] < order'[s]
           /\ order'[s] \in 0 .. N /\ lowLink'[s] = order'[s]
           /\ Len(frames) \in Nat /\ Len(frames') = Len(frames) + 1
           /\ DOMAIN frames = 1 .. Len(frames) /\ DOMAIN frames' = 1 .. (Len(frames) + 1)
           /\ \A k \in DOMAIN frames : frames'[k] = frames[k]
           /\ frames'[Len(frames) + 1] = [step |-> s, left |-> Edges(s)]
           /\ StackSorted'
<1> DEFINE next == Cardinality(Ordered)
<1>1. /\ N \in Nat \ {0} /\ Unset = N + 1 /\ Ordered \in SUBSET Steps
      /\ next \in 0 .. N /\ next < N
      /\ Cardinality(Ordered \cup {s}) = next + 1
  <2> Ordered \in SUBSET Steps
    BY DEF Ordered
  <2> QED BY StepsCounted, PlanTyped DEF WalkType, Unset
<1>2. /\ order' = [order EXCEPT ![s] = next] /\ lowLink' = [lowLink EXCEPT ![s] = next]
      /\ tarjanStack' = Append(tarjanStack, s) /\ component' = component
      /\ frames' = Append(frames, [step |-> s, left |-> Edges(s)])
  BY DEF Connect
<1>3. Edges(s) \in SUBSET Steps
  BY DEF Edges
<1> HIDE DEF next
<1>4. /\ order' \in [Steps -> 0 .. Unset] /\ lowLink' \in [Steps -> 0 .. Unset]
      /\ order'[s] = next /\ lowLink'[s] = next
      /\ \A v \in Steps \ {s} : order'[v] = order[v] /\ lowLink'[v] = lowLink[v]
  BY <1>1, <1>2 DEF WalkType
<1>5. WalkType'
  BY <1>2, <1>3, <1>4 DEF WalkType, Frame
<1>6. Ordered' = Ordered \cup {s}
  BY <1>1, <1>4 DEF Ordered, Unset
<1>7. /\ Len(tarjanStack) \in Nat /\ DOMAIN tarjanStack = 1 .. Len(tarjanStack)
      /\ DOMAIN tarjanStack' = 1 .. (Len(tarjanStack) + 1)
      /\ \A i \in DOMAIN tarjanStack : tarjanStack'[i] = tarjanStack[i]
      /\ tarjanStack'[Len(tarjanStack) + 1] = s
  BY <1>2 DEF WalkType
<1>8. OnStack' = OnStack \cup {s}
  BY <1>7 DEF OnStack
<1>9. Assigned' = Assigned
  BY <1>2 DEF Assigned
<1>10. s \notin OnStack /\ s \notin Assigned
  BY DEF StackSorted
<1>11. \A v \in Ordered : order[v] \in 0 .. N /\ order[v] < next
  BY <1>1 DEF StackSorted, next, Ordered, WalkType, Unset
<1>12. /\ Len(frames) \in Nat /\ Len(frames') = Len(frames) + 1
       /\ DOMAIN frames = 1 .. Len(frames) /\ DOMAIN frames' = 1 .. (Len(frames) + 1)
       /\ \A k \in DOMAIN frames : frames'[k] = frames[k]
       /\ frames'[Len(frames) + 1] = [step |-> s, left |-> Edges(s)]
  BY <1>2 DEF WalkType
<1>13. \A v \in Ordered : order'[v] = order[v] /\ lowLink'[v] = lowLink[v]
  BY <1>1, <1>4
<1>14. StackSorted'
  <2>1. \A i, j \in DOMAIN tarjanStack' :
            i < j => order'[tarjanStack'[i]] < order'[tarjanStack'[j]]
    <3>1. \A i \in DOMAIN tarjanStack : tarjanStack[i] \in Ordered
      BY DEF StackSorted, OnStack
    <3> QED BY <3>1, <1>7, <1>13, <1>11, <1>4 DEF StackSorted
  <2>2. \A v \in Ordered' : order'[v] < Cardinality(Ordered)'
    <3>1. Cardinality(Ordered)' = next + 1
      BY <1>1, <1>6
    <3> QED BY <3>1, <1>1, <1>6, <1>11, <1>13, <1>4
  <2> QED BY <2>1, <2>2, <1>6, <1>8, <1>9, <1>10 DEF StackSorted
<1> QED BY <1>1, <1>2, <1>4, <1>5, <1>6, <1>8, <1>9, <1>10, <1>11, <1>12, <1>13, <1>14

(* The caller still has its edge to s before it; the outermost has none.   *)
LEMMA ConnectShape ==
    ASSUME WalkType, WalkShape, NEW s \in Steps \ Ordered, Connect(s),
           UNCHANGED <<plan, verdict>>, frames = <<>> \/ s \in Top.left
    PROVE  WalkShape'
<1> USE DEF WalkShape
<1>1. /\ WalkType' /\ StackSorted'
      /\ Ordered' = Ordered \cup {s} /\ OnStack' = OnStack \cup {s}
      /\ Assigned' = Assigned /\ component' = component
      /\ \A v \in Ordered : order'[v] = order[v] /\ order[v] \in 0 .. N /\ order[v] < order'[s]
      /\ order'[s] \in 0 .. N
      /\ Len(frames) \in Nat /\ Len(frames') = Len(frames) + 1
      /\ DOMAIN frames = 1 .. Len(frames) /\ DOMAIN frames' = 1 .. (Len(frames) + 1)
      /\ \A k \in DOMAIN frames : frames'[k] = frames[k]
      /\ frames'[Len(frames) + 1] = [step |-> s, left |-> Edges(s)]
  BY ConnectView
<1>2. \A v : Edges(v)' = Edges(v)
  BY EdgesStable
<1>3. OnStack \subseteq Ordered
  BY DEF StackSorted
<1>4. FramesOnStack'
  <2>1. \A k \in DOMAIN frames' : /\ frames'[k].step \in OnStack'
                                  /\ frames'[k].left \subseteq Edges(frames'[k].step)
    BY <1>1 DEF FramesOnStack
  <2>2. \A j, k \in DOMAIN frames' : j < k => order'[frames'[j].step] < order'[frames'[k].step]
    <3>1. \A k \in DOMAIN frames : frames[k].step \in Ordered
      BY <1>3 DEF FramesOnStack
    <3>2. \A j, k \in DOMAIN frames : j < k => order'[frames'[j].step] < order'[frames'[k].step]
      BY <3>1, <1>1 DEF FramesOnStack
    <3>3. \A j \in DOMAIN frames : order'[frames'[j].step] < order'[frames'[Len(frames) + 1].step]
      BY <3>1, <1>1
    <3> QED BY <3>2, <3>3, <1>1
  <2>3. \A v \in OnStack' : frames' # <<>> /\ order'[frames'[1].step] <= order'[v]
    <3>1. frames' # <<>>
      BY <1>1
    <3>2. CASE frames = <<>>
      <4>1. OnStack' = {s} /\ frames'[1].step = s
        BY <3>2, <1>1 DEF FramesOnStack
      <4> QED BY <3>1, <4>1, <1>1
    <3>3. CASE frames # <<>>
      <4>1. 1 \in DOMAIN frames
        BY <3>3, <1>1 DEF WalkType
      <4>2. frames'[1].step = frames[1].step /\ frames[1].step \in Ordered
        BY <4>1, <1>1, <1>3 DEF FramesOnStack
      <4> QED BY <3>1, <4>2, <1>1, <1>3 DEF FramesOnStack
    <3> QED BY <3>2, <3>3
  <2> QED BY <2>1, <2>2, <2>3, <1>2 DEF FramesOnStack
<1>5. EdgesWalked'
  <2>1. \A v, w : Pending(v, w) => Pending(v, w)'
    BY <1>1 DEF Pending
  <2>2. \A w \in Edges(s) : Pending(s, w)'
    BY <1>1 DEF Pending
  <2> QED BY <2>1, <2>2, <1>1, <1>2 DEF EdgesWalked
<1>6. AssignedClosed'
  BY <1>1, <1>2 DEF AssignedClosed
<1> QED BY <1>1, <1>4, <1>5, <1>6

LEMMA ConnectLinks ==
    ASSUME WalkType, WalkShape, WalkLinks, NEW s \in Steps \ Ordered, Connect(s),
           UNCHANGED <<plan, verdict>>, frames = <<>> \/ s \in Top.left
    PROVE  WalkLinks'
<1>1. /\ WalkType' /\ StackSorted'
      /\ Ordered' = Ordered \cup {s} /\ OnStack' = OnStack \cup {s}
      /\ Assigned' = Assigned /\ component' = component
      /\ s \notin OnStack
      /\ \A v \in Ordered : /\ order'[v] = order[v] /\ lowLink'[v] = lowLink[v]
                            /\ order[v] \in 0 .. N /\ order[v] < order'[s]
      /\ order'[s] \in 0 .. N /\ lowLink'[s] = order'[s]
      /\ Len(frames) \in Nat /\ Len(frames') = Len(frames) + 1
      /\ DOMAIN frames = 1 .. Len(frames) /\ DOMAIN frames' = 1 .. (Len(frames) + 1)
      /\ \A k \in DOMAIN frames : frames'[k] = frames[k]
      /\ frames'[Len(frames) + 1] = [step |-> s, left |-> Edges(s)]
  BY ConnectView DEF WalkShape
<1>2. /\ \A v : Edges(v)' = Edges(v)
      /\ \A u, v : Reaches(u, v)' <=> Reaches(u, v)
  BY EdgesStable
<1>3. /\ OnStack \subseteq Ordered
      /\ \A k \in DOMAIN frames : frames[k].step \in OnStack
  BY DEF WalkShape, StackSorted, FramesOnStack
<1> DEFINE last == Len(frames) + 1
<1>a. /\ Len(frames) \in Nat /\ DOMAIN frames = 1 .. Len(frames)
      /\ DOMAIN frames' = 1 .. last /\ Len(frames') = last
  BY <1>1
<1>b. /\ \A k \in DOMAIN frames : k + 1 \in DOMAIN frames \/ k + 1 = last
      /\ \A k \in DOMAIN frames' : k \in DOMAIN frames \/ k = last
      /\ frames'[last].step = s
  <2>1. frames'[last].step = s
    BY <1>1
  <2>2. \A n \in Nat : \A k \in 1 .. n : k + 1 \in 1 .. n \/ k + 1 = n + 1
    OBVIOUS
  <2>3. \A n \in Nat : \A k \in 1 .. (n + 1) : k \in 1 .. n \/ k = n + 1
    OBVIOUS
  <2> QED BY <1>a, <2>1, <2>2, <2>3
<1>4. /\ \A k \in DOMAIN frames : \A v \in OnStack : InSegment(v, k)' => InSegment(v, k)
      /\ \A k \in DOMAIN frames : ~InSegment(s, k)'
      /\ \A k \in {last} : \A v \in OnStack : ~InSegment(v, k)'
  <2>2. \A k \in DOMAIN frames : k < Len(frames')
    BY <1>1
  <2>3. ASSUME NEW k \in DOMAIN frames PROVE ~(order'[s] < order'[frames'[k + 1].step])
    <3>1. CASE k + 1 = last
      BY <3>1, <1>1, <1>b
    <3>2. CASE k + 1 \in DOMAIN frames
      <4>1. frames[k + 1].step \in Ordered
        BY <3>2, <1>3
      <4> QED BY <3>2, <4>1, <1>1
    <3> QED BY <3>1, <3>2, <1>b
  <2>4. \A k \in DOMAIN frames : ~InSegment(s, k)'
    BY <2>2, <2>3 DEF InSegment
  <2>5. ASSUME NEW k \in {last}, NEW v \in OnStack PROVE ~InSegment(v, k)'
    <3>1. ~(order'[frames'[k].step] <= order'[v])
      BY <1>1, <1>3, <1>b
    <3> QED BY <3>1 DEF InSegment
  <2>6. ASSUME NEW k \in DOMAIN frames, NEW v \in OnStack, InSegment(v, k)'
        PROVE  InSegment(v, k)
    <3>1. order'[frames'[k].step] = order[frames[k].step] /\ order'[v] = order[v]
      BY <1>1, <1>3
    <3>2. k < Len(frames) => k + 1 \in DOMAIN frames
      BY <1>1
    <3>3. k < Len(frames) => order'[frames'[k + 1].step] = order[frames[k + 1].step]
      BY <3>2, <1>1, <1>3
    <3> QED BY <2>2, <2>6, <3>1, <3>3 DEF InSegment
  <2> QED BY <2>4, <2>5, <2>6
<1>5. \A v, w : Pending(v, w) => Pending(v, w)'
  BY <1>1 DEF Pending
<1>6. \A w \in Edges(s) : Pending(s, w)'
  BY <1>1 DEF Pending
<1>7. LinksCover'
  <2> SUFFICES ASSUME NEW k \in DOMAIN frames', NEW v \in OnStack', NEW w \in OnStack',
                      InSegment(v, k)', w \in Edges(v), ~Pending(v, w)'
               PROVE  lowLink'[frames'[k].step] <= order'[w]
    BY <1>2 DEF LinksCover
  <2>1. v # s
    BY <1>6
  <2>a. v \in OnStack
    BY <2>1, <1>1
  <2>b. k # last
    BY <2>a, <1>4
  <2>2. v \in OnStack /\ k \in DOMAIN frames /\ InSegment(v, k)
    BY <2>a, <2>b, <1>b, <1>4
  <2>3. w # s
    <3>1. w \in Ordered \/ Pending(v, w)
      BY <2>2 DEF WalkShape, EdgesWalked
    <3> QED BY <3>1, <1>5
  <2>4. lowLink[frames[k].step] <= order[w]
    BY <2>2, <2>3, <1>1, <1>5 DEF WalkLinks, LinksCover
  <2> QED BY <2>2, <2>3, <2>4, <1>1, <1>3
<1>8. LinksReach'
  <2> SUFFICES ASSUME NEW k \in DOMAIN frames'
               PROVE  /\ lowLink'[frames'[k].step] <= order'[frames'[k].step]
                      /\ \E w \in OnStack' : /\ order'[w] = lowLink'[frames'[k].step]
                                             /\ Reaches(frames'[k].step, w)
    BY <1>2 DEF LinksReach
  <2>1. CASE k = last
    BY <2>1, <1>1, ReachesItself
  <2>2. CASE k \in DOMAIN frames
    <3>1. PICK w \in OnStack : order[w] = lowLink[frames[k].step] /\ Reaches(frames[k].step, w)
      BY <2>2 DEF WalkLinks, LinksReach
    <3>2. lowLink[frames[k].step] <= order[frames[k].step]
      BY <2>2 DEF WalkLinks, LinksReach
    <3>3. /\ lowLink'[frames'[k].step] = lowLink[frames[k].step]
          /\ order'[frames'[k].step] = order[frames[k].step]
          /\ frames'[k].step = frames[k].step /\ order'[w] = order[w] /\ w \in OnStack'
      BY <2>2, <1>1, <1>3
    <3> QED BY <3>1, <3>2, <3>3
  <2> QED BY <2>1, <2>2, <1>1
<1>9. StackReaches'
  <2>1. ASSUME NEW u \in OnStack PROVE Reaches(u, s)
    <3>1. frames # <<>>
      BY DEF WalkShape, FramesOnStack
    <3>a. Len(frames) \in DOMAIN frames
      BY <3>1 DEF WalkType
    <3>2. Len(frames) \in DOMAIN frames /\ Top.step \in OnStack /\ s \in Edges(Top.step)
      BY <3>1, <3>a DEF WalkShape, FramesOnStack, Top
    <3>3. Reaches(u, Top.step)
      <4>1. order[u] \in Nat /\ order[Top.step] \in Nat
        BY <3>2, <1>1, <1>3
      <4>2. CASE order[u] <= order[Top.step]
        BY <4>2, <3>2 DEF WalkLinks, StackReaches
      <4>3. CASE order[Top.step] <= order[u]
        <5>1. InSegment(u, Len(frames))
          <6>1. ~(Len(frames) < Len(frames))
            BY <1>a
          <6> QED BY <4>3, <6>1 DEF InSegment, Top
        <5> QED BY <5>1, <3>2 DEF WalkLinks, StackReaches, Top
      <4> QED BY <4>1, <4>2, <4>3
    <3> QED BY <3>2, <3>3, ReachesEdge, ReachesOn
  <2>2. ASSUME NEW u \in OnStack', NEW v \in OnStack', order'[u] <= order'[v]
        PROVE  Reaches(u, v)
    <3>1. CASE u = s
      <4>1. v = s
        BY <2>2, <3>1, <1>1, <1>3
      <4> QED BY <3>1, <4>1, ReachesItself
    <3>2. CASE u # s /\ v = s
      BY <3>2, <2>1, <1>1
    <3>3. CASE u # s /\ v # s
      <4>1. u \in OnStack /\ v \in OnStack /\ order[u] <= order[v]
        BY <2>2, <3>3, <1>1, <1>3
      <4> QED BY <4>1 DEF WalkLinks, StackReaches
    <3> QED BY <3>1, <3>2, <3>3
  <2>3. ASSUME NEW k \in DOMAIN frames', NEW v \in OnStack', InSegment(v, k)'
        PROVE  Reaches(v, frames'[k].step)
    <3>1. CASE k = last
      <4>1. v = s
        <5>1. v \notin OnStack
          BY <3>1, <2>3, <1>4
        <5> QED BY <5>1, <1>1
      <4> QED BY <3>1, <4>1, <1>1, ReachesItself
    <3>2. CASE k \in DOMAIN frames
      <4>1. v \in OnStack
        BY <3>2, <2>3, <1>1, <1>4
      <4>2. InSegment(v, k)
        BY <3>2, <2>3, <4>1, <1>4
      <4>3. Reaches(v, frames[k].step)
        BY <3>2, <4>1, <4>2 DEF WalkLinks, StackReaches
      <4> QED BY <3>2, <4>3, <1>1
    <3> QED BY <3>1, <3>2, <1>b
  <2> QED BY <2>2, <2>3, <1>2 DEF StackReaches
<1>10. ComponentsReach'
  BY <1>1, <1>2 DEF WalkLinks, ComponentsReach
<1> QED BY <1>7, <1>8, <1>9, <1>10 DEF WalkLinks

-----------------------------------------------------------------------------
(* An edge to a step that was reached before: the low link takes in its    *)
(* place if it is still on the stack.                                      *)
Lower(next) ==
    /\ next \in Top.left /\ next \in Ordered
    /\ lowLink' = IF Closes(next) THEN [lowLink EXCEPT ![Top.step] = Least(@, order[next])]
                  ELSE lowLink
    /\ frames' = [frames EXCEPT ![Len(frames)].left = @ \ {next}]
    /\ UNCHANGED <<plan, verdict, order, tarjanStack, component>>

LEMMA TopSegment ==
    ASSUME WalkType, FramesOnStack, frames # <<>>, NEW k \in DOMAIN frames,
           InSegment(Top.step, k)
    PROVE  k = Len(frames)
<1>1. /\ Len(frames) \in Nat /\ DOMAIN frames = 1 .. Len(frames) /\ Len(frames) \in DOMAIN frames
  BY DEF WalkType
<1> SUFFICES ASSUME k < Len(frames) PROVE FALSE
  BY <1>1
<1>2. k + 1 \in DOMAIN frames /\ (k + 1 = Len(frames) \/ k + 1 < Len(frames))
  BY <1>1
<1>3. order[Top.step] < order[frames[k + 1].step]
  BY DEF InSegment
<1>4. Top = frames[Len(frames)]
  BY DEF Top
<1>a. \A j \in DOMAIN frames : frames[j].step \in Steps
  <2>1. \A j \in DOMAIN frames : frames[j] \in Frame
    BY <1>1 DEF WalkType
  <2> QED BY <2>1 DEF Frame
<1>b. Unset \in Nat
  BY PlanTyped DEF WalkType
<1>c. \A v \in Steps : order[v] \in Nat
  BY <1>b DEF WalkType
<1>5. order[Top.step] \in Nat
  BY <1>1, <1>4, <1>a, <1>c
<1>6. order[frames[k + 1].step] \in Nat
  BY <1>2, <1>a, <1>c
<1> QED BY <1>1, <1>2, <1>3, <1>4, <1>5, <1>6 DEF FramesOnStack

LEMMA LowerView ==
    ASSUME WalkType, WalkShape, frames # <<>>, NEW next, Lower(next)
    PROVE  /\ WalkType' /\ next \in Edges(Top.step) /\ Top.step \in OnStack
           /\ Len(frames) \in DOMAIN frames /\ Top.step = frames[Len(frames)].step
           /\ Ordered' = Ordered /\ OnStack' = OnStack /\ Assigned' = Assigned
           /\ DOMAIN frames' = DOMAIN frames /\ Len(frames') = Len(frames)
           /\ \A k \in DOMAIN frames : /\ frames'[k].step = frames[k].step
                                       /\ frames'[k].left \subseteq frames[k].left
           /\ \A v, w : Pending(v, w) => Pending(v, w)' \/ (v = Top.step /\ w = next)
           /\ \A v \in Steps : v # Top.step => lowLink'[v] = lowLink[v]
           /\ ~Closes(next) => lowLink'[Top.step] = lowLink[Top.step]
           /\ Closes(next) => lowLink'[Top.step] = Least(lowLink[Top.step], order[next])
<1>1. /\ next \in Top.left /\ next \in Ordered
      /\ lowLink' = IF Closes(next) THEN [lowLink EXCEPT ![Top.step] = Least(@, order[next])]
                    ELSE lowLink
      /\ frames' = [frames EXCEPT ![Len(frames)].left = @ \ {next}]
      /\ UNCHANGED <<plan, verdict, order, tarjanStack, component>>
  BY DEF Lower
<1>2. /\ Len(frames) \in Nat /\ DOMAIN frames = 1 .. Len(frames) /\ Len(frames) \in DOMAIN frames
      /\ Top = frames[Len(frames)] /\ Top \in Frame
  BY DEF WalkType, Top
<1>3. next \in Edges(Top.step) /\ Top.step \in OnStack
  BY <1>1, <1>2 DEF WalkShape, FramesOnStack
<1>4. frames' \in Seq(Frame)
  <2>1. [Top EXCEPT !.left = @ \ {next}] \in Frame
    BY <1>2 DEF Frame
  <2>2. frames' = [frames EXCEPT ![Len(frames)] = [Top EXCEPT !.left = @ \ {next}]]
    BY <1>1, <1>2
  <2> QED BY <2>1, <2>2, <1>2 DEF WalkType
<1>5. /\ DOMAIN frames' = DOMAIN frames /\ Len(frames') = Len(frames)
      /\ \A k \in DOMAIN frames : k # Len(frames) => frames'[k] = frames[k]
      /\ frames'[Len(frames)].step = Top.step
      /\ frames'[Len(frames)].left = Top.left \ {next}
  <2>1. DOMAIN frames' = DOMAIN frames
    BY <1>1
  <2>2. Len(frames') = Len(frames)
    BY <2>1, <1>4 DEF WalkType
  <2>3. \A k \in DOMAIN frames : k # Len(frames) => frames'[k] = frames[k]
    BY <1>1
  <2>4. frames'[Len(frames)] = [Top EXCEPT !.left = @ \ {next}]
    BY <1>1, <1>2
  <2> QED BY <2>1, <2>2, <2>3, <2>4, <1>2 DEF Frame
<1>6. \A k \in DOMAIN frames : /\ frames'[k].step = frames[k].step
                               /\ frames'[k].left \subseteq frames[k].left
  BY <1>2, <1>5
<1>7. \A v, w : Pending(v, w) => Pending(v, w)' \/ (v = Top.step /\ w = next)
  BY <1>2, <1>5 DEF Pending
<1>8. Ordered' = Ordered /\ OnStack' = OnStack /\ Assigned' = Assigned
  BY <1>1 DEF Ordered, OnStack, Assigned
<1>9. lowLink' \in [Steps -> 0 .. Unset]
  BY <1>1, <1>2 DEF WalkType, Least, Frame, Ordered
<1>10. /\ \A v \in Steps : v # Top.step => lowLink'[v] = lowLink[v]
       /\ ~Closes(next) => lowLink'[Top.step] = lowLink[Top.step]
       /\ Closes(next) => lowLink'[Top.step] = Least(lowLink[Top.step], order[next])
  BY <1>1, <1>2 DEF WalkType, Frame
<1>11. WalkType'
  BY <1>1, <1>4, <1>9 DEF WalkType
<1> QED BY <1>2, <1>3, <1>5, <1>6, <1>7, <1>8, <1>10, <1>11

LEMMA LowerShape ==
    ASSUME WalkType, WalkShape, frames # <<>>, NEW next, Lower(next)
    PROVE  WalkShape'
<1> USE DEF WalkShape
<1>1. /\ next \in Ordered /\ Ordered' = Ordered /\ OnStack' = OnStack /\ Assigned' = Assigned
      /\ DOMAIN frames' = DOMAIN frames /\ Len(frames') = Len(frames)
      /\ \A k \in DOMAIN frames : /\ frames'[k].step = frames[k].step
                                  /\ frames'[k].left \subseteq frames[k].left
      /\ \A v, w : Pending(v, w) => Pending(v, w)' \/ (v = Top.step /\ w = next)
      /\ UNCHANGED <<plan, order, tarjanStack, component>>
      /\ Len(frames) \in DOMAIN frames
  BY LowerView DEF Lower
<1>2. \A v : Edges(v)' = Edges(v)
  BY <1>1, EdgesStable
<1>3. StackSorted'
  BY <1>1 DEF StackSorted
<1>4. FramesOnStack'
  <2>1. frames' # <<>>
    BY <1>1
  <2>2. 1 \in DOMAIN frames
    BY <1>1 DEF WalkType
  <2> QED BY <2>1, <2>2, <1>1, <1>2 DEF FramesOnStack
<1>5. EdgesWalked'
  BY <1>1, <1>2 DEF EdgesWalked
<1>6. AssignedClosed'
  BY <1>1, <1>2 DEF AssignedClosed
<1> QED BY <1>3, <1>4, <1>5, <1>6

LEMMA LowerLinks ==
    ASSUME WalkType, WalkShape, WalkLinks, frames # <<>>, NEW next, Lower(next)
    PROVE  WalkLinks'
<1>1. /\ next \in Edges(Top.step) /\ Top.step \in OnStack
      /\ Len(frames) \in DOMAIN frames /\ Top.step = frames[Len(frames)].step
      /\ Ordered' = Ordered /\ OnStack' = OnStack /\ Assigned' = Assigned
      /\ DOMAIN frames' = DOMAIN frames /\ Len(frames') = Len(frames)
      /\ \A k \in DOMAIN frames : frames'[k].step = frames[k].step
      /\ \A v, w : Pending(v, w) => Pending(v, w)' \/ (v = Top.step /\ w = next)
      /\ \A v \in Steps : v # Top.step => lowLink'[v] = lowLink[v]
      /\ ~Closes(next) => lowLink'[Top.step] = lowLink[Top.step]
      /\ Closes(next) => lowLink'[Top.step] = Least(lowLink[Top.step], order[next])
      /\ UNCHANGED <<plan, order, component>>
  BY LowerView DEF Lower
<1>2. /\ \A v : Edges(v)' = Edges(v)
      /\ \A u, v : Reaches(u, v)' <=> Reaches(u, v)
  BY <1>1, EdgesStable
<1>3. OnStack \subseteq Steps /\ \A k \in DOMAIN frames : frames[k].step \in OnStack
  BY DEF WalkShape, FramesOnStack, StackSorted, Ordered
<1>4. \A v \in Steps : order[v] \in Nat /\ lowLink[v] \in Nat
  BY PlanTyped DEF WalkType
<1>5. \A v \in OnStack : \A k \in DOMAIN frames : InSegment(v, k)' <=> InSegment(v, k)
  <2> TAKE v \in OnStack
  <2> TAKE k \in DOMAIN frames
  <2>1. k < Len(frames) => k + 1 \in DOMAIN frames
    BY DEF WalkType
  <2> QED BY <2>1, <1>1 DEF InSegment
<1>6. \A v \in Steps : lowLink'[v] \in Nat /\ lowLink'[v] <= lowLink[v]
  BY <1>1, <1>3, <1>4 DEF Least, Closes
<1>7. Closes(next) => lowLink'[Top.step] <= order[next]
  BY <1>1, <1>3, <1>4 DEF Least, Closes
<1>8. LinksCover'
  <2> SUFFICES ASSUME NEW k \in DOMAIN frames, NEW v \in OnStack, NEW w \in OnStack,
                      InSegment(v, k), w \in Edges(v), ~Pending(v, w)'
               PROVE  lowLink'[frames[k].step] <= order[w]
    BY <1>1, <1>2, <1>5 DEF LinksCover
  <2>1. CASE Pending(v, w)
    <3>1. v = Top.step /\ w = next
      BY <2>1, <1>1
    <3>2. k = Len(frames)
      BY <3>1, TopSegment DEF WalkShape
    <3> QED BY <3>1, <3>2, <1>1, <1>7 DEF Closes
  <2>2. CASE ~Pending(v, w)
    <3>1. lowLink[frames[k].step] <= order[w]
      BY <2>2 DEF WalkLinks, LinksCover
    <3> QED BY <3>1, <1>3, <1>4, <1>6
  <2> QED BY <2>1, <2>2
<1>9. LinksReach'
  <2> SUFFICES ASSUME NEW k \in DOMAIN frames
               PROVE  /\ lowLink'[frames[k].step] <= order[frames[k].step]
                      /\ \E w \in OnStack : /\ order[w] = lowLink'[frames[k].step]
                                            /\ Reaches(frames[k].step, w)
    BY <1>1, <1>2 DEF LinksReach
  <2> DEFINE s == frames[k].step
  <2>1. /\ lowLink[s] <= order[s]
        /\ \E w \in OnStack : order[w] = lowLink[s] /\ Reaches(s, w)
    BY DEF WalkLinks, LinksReach
  <2>2. lowLink'[s] <= order[s]
    BY <2>1, <1>3, <1>4, <1>6
  <2>3. CASE lowLink'[s] = lowLink[s]
    BY <2>1, <2>2, <2>3
  <2>4. CASE lowLink'[s] # lowLink[s]
    <3>1. s = Top.step /\ Closes(next)
      BY <2>4, <1>1, <1>3
    <3>2. lowLink'[s] = order[next]
      BY <2>4, <3>1, <1>1 DEF Least
    <3>3. Reaches(s, next)
      BY <3>1, <1>1, ReachesEdge
    <3> QED BY <2>2, <3>1, <3>2, <3>3 DEF Closes
  <2> QED BY <2>3, <2>4
<1>10. StackReaches'
  BY <1>1, <1>2, <1>5 DEF WalkLinks, StackReaches
<1>11. ComponentsReach'
  BY <1>1, <1>2 DEF WalkLinks, ComponentsReach
<1> QED BY <1>8, <1>9, <1>10, <1>11 DEF WalkLinks

-----------------------------------------------------------------------------
(* connect(s) returns.  A root's component is the stack from s on: what    *)
(* was reached after it.                                                   *)
Popped(s) == {v \in OnStack : order[s] <= order[v]}

IsRoot(s) == lowLink[s] = order[s]

LEMMA OrderTypes ==
    ASSUME WalkType
    PROVE  /\ \A v \in Steps : order[v] \in Nat /\ lowLink[v] \in Nat
           /\ OnStack \subseteq Steps
           /\ Len(frames) \in Nat /\ DOMAIN frames = 1 .. Len(frames)
           /\ \A k \in DOMAIN frames : frames[k] \in Frame /\ frames[k].step \in Steps
           /\ Len(tarjanStack) \in Nat /\ DOMAIN tarjanStack = 1 .. Len(tarjanStack)
           /\ \A i \in DOMAIN tarjanStack : tarjanStack[i] \in Steps
<1>1. \A v \in Steps : order[v] \in Nat /\ lowLink[v] \in Nat
  BY PlanTyped DEF WalkType
<1>2. /\ Len(tarjanStack) \in Nat /\ DOMAIN tarjanStack = 1 .. Len(tarjanStack)
      /\ \A i \in DOMAIN tarjanStack : tarjanStack[i] \in Steps
  BY DEF WalkType
<1>3. /\ Len(frames) \in Nat /\ DOMAIN frames = 1 .. Len(frames)
      /\ \A k \in DOMAIN frames : frames[k] \in Frame
  BY DEF WalkType
<1>4. \A k \in DOMAIN frames : frames[k].step \in Steps
  BY <1>3 DEF Frame
<1>5. OnStack \subseteq Steps
  BY <1>2 DEF OnStack
<1> QED BY <1>1, <1>2, <1>3, <1>4, <1>5

LEMMA PrefixOf ==
    ASSUME NEW S, NEW seq \in Seq(S), NEW m \in 0 .. Len(seq)
    PROVE  /\ SubSeq(seq, 1, m) \in Seq(S)
           /\ Len(SubSeq(seq, 1, m)) = m /\ DOMAIN SubSeq(seq, 1, m) = 1 .. m
           /\ \A i \in 1 .. m : i \in DOMAIN seq /\ SubSeq(seq, 1, m)[i] = seq[i]
<1>1. Len(seq) \in Nat /\ DOMAIN seq = 1 .. Len(seq) /\ \A i \in DOMAIN seq : seq[i] \in S
  OBVIOUS
<1>2. \A i \in 1 .. m : i \in DOMAIN seq /\ seq[i] \in S
  BY <1>1
<1>3. m \in Nat /\ m \in Int /\ 1 \in Int
  BY <1>1
<1>4. /\ SubSeq(seq, 1, m) \in Seq(S)
      /\ Len(SubSeq(seq, 1, m)) = IF 1 <= m THEN m - 1 + 1 ELSE 0
      /\ \A i \in 1 .. m - 1 + 1 : SubSeq(seq, 1, m)[i] = seq[1 + i - 1]
  BY <1>2, <1>3, SubSeqProperties
<1>5. Len(SubSeq(seq, 1, m)) = m /\ \A i \in 1 .. m : SubSeq(seq, 1, m)[i] = seq[i]
  BY <1>3, <1>4
<1>6. DOMAIN SubSeq(seq, 1, m) = 1 .. m
  BY <1>4, <1>5, LenProperties
<1> QED BY <1>2, <1>4, <1>5, <1>6

LEMMA PopView ==
    ASSUME WalkType, StackSorted, NEW s \in OnStack,
           NEW at \in DOMAIN tarjanStack, tarjanStack[at] = s
    PROVE  /\ \A t : (\E i \in DOMAIN tarjanStack : i >= at /\ tarjanStack[i] = t)
                       <=> t \in Popped(s)
           /\ SubSeq(tarjanStack, 1, at - 1) \in Seq(Steps)
           /\ \A i \in DOMAIN SubSeq(tarjanStack, 1, at - 1) :
                 /\ i \in DOMAIN tarjanStack
                 /\ SubSeq(tarjanStack, 1, at - 1)[i] = tarjanStack[i]
           /\ {SubSeq(tarjanStack, 1, at - 1)[i] : i \in DOMAIN SubSeq(tarjanStack, 1, at - 1)}
                = OnStack \ Popped(s)
<1> DEFINE below == SubSeq(tarjanStack, 1, at - 1)
<1>1. /\ \A v \in Steps : order[v] \in Nat
      /\ Len(tarjanStack) \in Nat /\ DOMAIN tarjanStack = 1 .. Len(tarjanStack)
      /\ \A i \in DOMAIN tarjanStack : tarjanStack[i] \in Steps
  BY OrderTypes
<1>2. at \in DOMAIN tarjanStack /\ tarjanStack[at] = s
  OBVIOUS
<1>3. \A i \in DOMAIN tarjanStack : i >= at <=> order[s] <= order[tarjanStack[i]]
  <2> TAKE i \in DOMAIN tarjanStack
  <2>1. i < at => order[tarjanStack[i]] < order[s]
    BY <1>2 DEF StackSorted
  <2>2. at < i => order[s] < order[tarjanStack[i]]
    BY <1>2 DEF StackSorted
  <2>3. i \in Nat /\ at \in Nat /\ order[tarjanStack[i]] \in Nat /\ order[s] \in Nat
    BY <1>1, <1>2
  <2> QED BY <2>1, <2>2, <2>3, <1>2
<1>4. \A t : (\E i \in DOMAIN tarjanStack : i >= at /\ tarjanStack[i] = t) <=> t \in Popped(s)
  BY <1>3 DEF Popped, OnStack
<1>5. /\ below \in Seq(Steps) /\ DOMAIN below = 1 .. (at - 1)
      /\ \A i \in 1 .. (at - 1) : below[i] = tarjanStack[i]
  <2>1. at - 1 \in 0 .. Len(tarjanStack)
    BY <1>1, <1>2
  <2>2. tarjanStack \in Seq(Steps)
    BY DEF WalkType
  <2>3. \A m \in 0 .. Len(tarjanStack) :
            /\ SubSeq(tarjanStack, 1, m) \in Seq(Steps)
            /\ DOMAIN SubSeq(tarjanStack, 1, m) = 1 .. m
            /\ \A i \in 1 .. m : SubSeq(tarjanStack, 1, m)[i] = tarjanStack[i]
    BY <2>2, PrefixOf
  <2> QED BY <2>1, <2>3
<1>6. \A i : i \in 1 .. (at - 1) <=> i \in DOMAIN tarjanStack /\ ~(i >= at)
  BY <1>1, <1>2
<1>7. \A i \in DOMAIN below : i \in DOMAIN tarjanStack /\ below[i] = tarjanStack[i]
  BY <1>5, <1>6
<1>8. {below[i] : i \in DOMAIN below} = OnStack \ Popped(s)
  <2> HIDE DEF below
  <2>1. {below[i] : i \in DOMAIN below} = {tarjanStack[i] : i \in 1 .. (at - 1)}
    BY <1>5
  <2>2. \A i \in DOMAIN tarjanStack : ~(i >= at) <=> ~(order[s] <= order[tarjanStack[i]])
    BY <1>3
  <2>3. \A t : t \in OnStack \ Popped(s)
                 <=> \E i \in DOMAIN tarjanStack : tarjanStack[i] = t /\ ~(i >= at)
    BY <2>2 DEF OnStack, Popped
  <2> QED BY <2>1, <2>3, <1>6
<1> QED BY <1>4, <1>5, <1>7, <1>8

Caller == frames[Len(frames) - 1].step

LEMMA LeaveFrames ==
    ASSUME WalkType, WalkShape, LeaveStep
    PROVE  /\ Len(frames) \in DOMAIN frames /\ Top = frames[Len(frames)] /\ Top.left = {}
           /\ frames' \in Seq(Frame) /\ Len(frames') = Len(frames) - 1
           /\ DOMAIN frames' = 1 .. (Len(frames) - 1)
           /\ \A k \in DOMAIN frames' : /\ k \in DOMAIN frames
                                        /\ frames'[k].step = frames[k].step
                                        /\ frames'[k].left \subseteq frames[k].left
           /\ \A v, w : Pending(v, w)
                          => \/ Pending(v, w)'
                             \/ v = Caller /\ w = Top.step /\ Len(frames) > 1
<1>1. /\ Len(frames) \in Nat /\ DOMAIN frames = 1 .. Len(frames) /\ frames \in Seq(Frame)
      /\ Len(frames) \in DOMAIN frames /\ Top = frames[Len(frames)] /\ Top.left = {}
      /\ \A k \in DOMAIN frames : frames[k] \in Frame
  <2>1. frames # <<>> /\ Top.left = {}
    BY DEF LeaveStep
  <2>2. Len(frames) \in DOMAIN frames
    BY <2>1 DEF WalkType
  <2> QED BY <2>1, <2>2, OrderTypes DEF Top, WalkType
<1>2. CASE Len(frames) = 1
  <2>1. frames' = <<>>
    BY <1>2 DEF LeaveStep
  <2>2. \A v, w : ~Pending(v, w)
    BY <1>1, <1>2 DEF Pending
  <2> QED BY <1>1, <1>2, <2>1, <2>2
<1>3. CASE Len(frames) # 1
  <2> DEFINE d == Len(frames) - 1
             rest == SubSeq(frames, 1, d)
             callers == [frames[d] EXCEPT !.left = @ \ {Top.step}]
  <2>1. d \in 0 .. Len(frames) /\ d \in 1 .. d /\ d \in Nat
    BY <1>1, <1>3
  <2>2. /\ rest \in Seq(Frame) /\ Len(rest) = d /\ DOMAIN rest = 1 .. d
        /\ \A k \in 1 .. d : k \in DOMAIN frames /\ rest[k] = frames[k]
    BY <1>1, <2>1, PrefixOf
  <2>3. frames' = [rest EXCEPT ![d].left = @ \ {Top.step}]
    BY <1>3 DEF LeaveStep
  <2> HIDE DEF rest, d
  <2>4. callers \in Frame /\ callers.step = frames[d].step /\ callers.left = frames[d].left \ {Top.step}
    BY <1>1, <2>1, <2>2 DEF Frame
  <2> HIDE DEF callers
  <2>5. frames' = [rest EXCEPT ![d] = callers]
    BY <2>1, <2>2, <2>3 DEF callers
  <2>6. /\ DOMAIN frames' = 1 .. d /\ frames'[d] = callers
        /\ \A k \in 1 .. d : k # d => frames'[k] = frames[k]
    BY <2>1, <2>2, <2>5
  <2>7. frames' \in Seq(Frame) /\ Len(frames') = d
    BY <2>1, <2>2, <2>4, <2>5
  <2>8. \A k \in 1 .. d : /\ k \in DOMAIN frames
                          /\ frames'[k].step = frames[k].step
                          /\ frames'[k].left \subseteq frames[k].left
    BY <2>2, <2>4, <2>6
  <2>9. ASSUME NEW v, NEW w, Pending(v, w), ~(v = Caller /\ w = Top.step)
        PROVE  Pending(v, w)'
    <3>1. PICK k \in DOMAIN frames : frames[k].step = v /\ w \in frames[k].left
      BY <2>9 DEF Pending
    <3>2. k # Len(frames)
      BY <3>1, <1>1
    <3>3. k \in 1 .. d
      BY <3>2, <1>1 DEF d
    <3>4. frames'[k].step = v /\ w \in frames'[k].left
      <4>1. CASE k = d
        BY <4>1, <3>1, <2>4, <2>6, <2>9 DEF Caller, d
      <4>2. CASE k # d
        BY <4>2, <3>1, <3>3, <2>6
      <4> QED BY <4>1, <4>2
    <3> QED BY <3>3, <3>4, <2>6 DEF Pending
  <2>10. Len(frames) > 1
    BY <1>1, <1>3
  <2> QED BY <1>1, <2>6, <2>7, <2>8, <2>9, <2>10 DEF d
<1> QED BY <1>2, <1>3

LEMMA LeaveStack ==
    ASSUME WalkType, WalkShape, LeaveStep
    PROVE  /\ UNCHANGED <<plan, verdict, order>> /\ Ordered' = Ordered
           /\ IsRoot(Top.step) =>
                 /\ OnStack' = OnStack \ Popped(Top.step)
                 /\ Assigned' = Assigned \cup Popped(Top.step)
                 /\ \A t \in Steps : component'[t] = IF t \in Popped(Top.step) THEN Top.step
                                                     ELSE component[t]
           /\ ~IsRoot(Top.step) => OnStack' = OnStack /\ Assigned' = Assigned /\ component' = component
           /\ component' \in [Steps -> 1 .. Unset] /\ tarjanStack' \in Seq(Steps)
           /\ StackSorted'
<1> DEFINE s == Top.step
           at == CHOOSE i \in DOMAIN tarjanStack : tarjanStack[i] = s
<1>1. s \in OnStack /\ s \in Steps /\ s # Unset /\ s \in 1 .. Unset
  <2>1. s \in OnStack
    BY LeaveFrames DEF WalkShape, FramesOnStack
  <2>2. s \in Steps
    BY <2>1, OrderTypes
  <2> QED BY <2>1, <2>2, PlanTyped DEF Steps, Unset, WalkType
<1>2. /\ StackSorted /\ OnStack \subseteq Steps
      /\ component \in [Steps -> 1 .. Unset] /\ tarjanStack \in Seq(Steps)
  BY OrderTypes DEF WalkType, WalkShape
<1>3. UNCHANGED <<plan, verdict, order>>
  BY DEF LeaveStep
<1>4. Ordered' = Ordered
  BY <1>3 DEF Ordered
<1>5. CASE ~IsRoot(s)
  <2>1. component' = component /\ tarjanStack' = tarjanStack
    BY <1>5 DEF LeaveStep, IsRoot
  <2>2. OnStack' = OnStack /\ Assigned' = Assigned
    BY <2>1 DEF OnStack, Assigned
  <2>3. StackSorted'
    BY <2>1, <2>2, <1>2, <1>3, <1>4 DEF StackSorted
  <2> QED BY <1>2, <1>3, <1>4, <1>5, <2>1, <2>2, <2>3
<1>6. CASE IsRoot(s)
  <2>1. /\ component' = [t \in Steps |->
                           IF \E i \in DOMAIN tarjanStack : i >= at /\ tarjanStack[i] = t
                           THEN s ELSE component[t]]
        /\ tarjanStack' = SubSeq(tarjanStack, 1, at - 1)
    BY <1>6 DEF LeaveStep, IsRoot
  <2>a. at \in DOMAIN tarjanStack /\ tarjanStack[at] = s
    BY <1>1 DEF OnStack
  <2> HIDE DEF at
  <2> DEFINE below == SubSeq(tarjanStack, 1, at - 1)
  <2>b. /\ \A t : (\E i \in DOMAIN tarjanStack : i >= at /\ tarjanStack[i] = t)
                    <=> t \in Popped(s)
        /\ below \in Seq(Steps)
        /\ \A i \in DOMAIN below : i \in DOMAIN tarjanStack /\ below[i] = tarjanStack[i]
        /\ {below[i] : i \in DOMAIN below} = OnStack \ Popped(s)
    BY <1>1, <1>2, <2>a, PopView
  <2>c. tarjanStack' = below
    BY <2>1
  <2> HIDE DEF below
  <2>2. /\ \A t : (\E i \in DOMAIN tarjanStack : i >= at /\ tarjanStack[i] = t)
                    <=> t \in Popped(s)
        /\ tarjanStack' \in Seq(Steps)
        /\ \A i \in DOMAIN tarjanStack' :
              i \in DOMAIN tarjanStack /\ tarjanStack'[i] = tarjanStack[i]
        /\ {tarjanStack'[i] : i \in DOMAIN tarjanStack'} = OnStack \ Popped(s)
    BY <2>b, <2>c
  <2>3. OnStack' = OnStack \ Popped(s)
    BY <2>2 DEF OnStack
  <2>4. \A t \in Steps : component'[t] = IF t \in Popped(s) THEN s ELSE component[t]
    BY <2>1, <2>2
  <2>5. component' \in [Steps -> 1 .. Unset]
    BY <2>1, <2>2, <1>1, <1>2
  <2>6. Assigned' = Assigned \cup Popped(s)
    BY <2>4, <1>1, <1>2 DEF Assigned, Popped, Unset
  <2>7. StackSorted'
    <3>1. OnStack \cap Assigned = {} /\ Popped(s) \subseteq OnStack
          /\ Ordered = OnStack \cup Assigned
      BY <1>2 DEF StackSorted, Popped
    <3>2. OnStack' \cap Assigned' = {} /\ Ordered' = OnStack' \cup Assigned'
      BY <3>1, <2>3, <2>6, <1>4
    <3>3. \A i, j \in DOMAIN tarjanStack' :
             i < j => order'[tarjanStack'[i]] < order'[tarjanStack'[j]]
      BY <2>2, <1>2, <1>3 DEF StackSorted
    <3>4. \A v \in Ordered' : order'[v] < Cardinality(Ordered)'
      BY <1>2, <1>3, <1>4 DEF StackSorted
    <3> QED BY <3>2, <3>3, <3>4 DEF StackSorted
  <2> QED BY <1>3, <1>4, <1>6, <2>2, <2>3, <2>4, <2>5, <2>6, <2>7
<1> QED BY <1>5, <1>6

LEMMA LeaveLinksView ==
    ASSUME WalkType, WalkShape, LeaveStep
    PROVE  /\ lowLink' \in [Steps -> 0 .. Unset]
           /\ Len(frames) = 1 => lowLink' = lowLink
           /\ Len(frames) > 1 =>
                 /\ Len(frames) - 1 \in DOMAIN frames /\ Caller \in OnStack
                 /\ order[Caller] < order[Top.step]
                 /\ lowLink'[Caller] = Least(lowLink[Caller], lowLink[Top.step])
                 /\ \A v \in Steps : v # Caller => lowLink'[v] = lowLink[v]
<1>1. /\ Len(frames) \in DOMAIN frames /\ Top = frames[Len(frames)]
      /\ Len(frames) \in Nat /\ DOMAIN frames = 1 .. Len(frames)
      /\ \A k \in DOMAIN frames : frames[k].step \in Steps
      /\ lowLink \in [Steps -> 0 .. Unset]
  BY LeaveFrames, OrderTypes DEF WalkType
<1>2. CASE Len(frames) = 1
  BY <1>1, <1>2 DEF LeaveStep
<1>3. CASE Len(frames) > 1
  <2>1. Len(frames) - 1 \in DOMAIN frames
    BY <1>1, <1>3
  <2>2. Caller \in OnStack /\ order[Caller] < order[Top.step]
    BY <2>1, <1>1 DEF WalkShape, FramesOnStack, Caller
  <2>3. Caller \in Steps /\ Top.step \in Steps
    BY <2>1, <1>1 DEF Caller
  <2>4. lowLink' = [lowLink EXCEPT ![Caller] = Least(@, lowLink[Top.step])]
    BY <1>1, <1>3 DEF LeaveStep, Caller
  <2> QED BY <1>1, <1>3, <2>1, <2>2, <2>3, <2>4 DEF Least
<1> QED BY <1>1, <1>2, <1>3

(* Nothing of the segment that is left has an edge still to follow, and    *)
(* when it is a root's, none of its edges leads below it.                  *)
LEMMA LeaveSegment ==
    ASSUME WalkType, WalkShape, WalkLinks, LeaveStep
    PROVE  /\ Top.step \in Popped(Top.step) /\ Popped(Top.step) \subseteq OnStack
           /\ \A v \in Popped(Top.step) : /\ InSegment(v, Len(frames))
                                          /\ \A w : ~Pending(v, w)
           /\ \A k \in DOMAIN frames :
                 k # Len(frames) => /\ order[frames[k].step] < order[Top.step]
                                    /\ frames[k].step \in OnStack \ Popped(Top.step)
           /\ Len(frames) = 1 => IsRoot(Top.step) /\ OnStack = Popped(Top.step)
           /\ IsRoot(Top.step) =>
                 \A v \in Popped(Top.step) : Edges(v) \subseteq Assigned \cup Popped(Top.step)
<1>1. /\ Len(frames) \in DOMAIN frames /\ Top = frames[Len(frames)] /\ Top.left = {}
      /\ Len(frames) \in Nat /\ DOMAIN frames = 1 .. Len(frames)
      /\ \A v \in Steps : order[v] \in Nat /\ lowLink[v] \in Nat
      /\ OnStack \subseteq Steps
  BY LeaveFrames, OrderTypes
<1>2. Top.step \in OnStack /\ Top.step \in Popped(Top.step) /\ Popped(Top.step) \subseteq OnStack
  BY <1>1 DEF WalkShape, FramesOnStack, Popped
<1>3. \A k \in DOMAIN frames :
         k # Len(frames) => /\ order[frames[k].step] < order[Top.step]
                            /\ frames[k].step \in OnStack \ Popped(Top.step)
  <2> SUFFICES ASSUME NEW k \in DOMAIN frames, k # Len(frames)
               PROVE  /\ order[frames[k].step] < order[Top.step]
                      /\ frames[k].step \in OnStack \ Popped(Top.step)
    OBVIOUS
  <2>1. k < Len(frames)
    BY <1>1
  <2>2. order[frames[k].step] < order[Top.step] /\ frames[k].step \in OnStack
    BY <2>1, <1>1 DEF WalkShape, FramesOnStack
  <2> QED BY <2>2, <1>1, <1>2 DEF Popped
<1>4. ASSUME NEW v \in Popped(Top.step)
      PROVE  InSegment(v, Len(frames)) /\ \A w : ~Pending(v, w)
  <2>1. ~(Len(frames) < Len(frames))
    BY <1>1
  <2>2. InSegment(v, Len(frames))
    BY <2>1, <1>1 DEF InSegment, Popped
  <2>3. \A k \in DOMAIN frames : frames[k].step = v => k = Len(frames)
    BY <1>3
  <2> QED BY <2>2, <2>3, <1>1 DEF Pending
<1>5. ASSUME Len(frames) = 1
      PROVE  IsRoot(Top.step) /\ OnStack = Popped(Top.step)
  <2>1. \A v \in OnStack : order[Top.step] <= order[v]
    BY <1>1, <1>5 DEF WalkShape, FramesOnStack
  <2>2. /\ lowLink[Top.step] <= order[Top.step]
        /\ \E w \in OnStack : order[w] = lowLink[Top.step]
    BY <1>1 DEF WalkLinks, LinksReach
  <2>3. IsRoot(Top.step)
    BY <2>1, <2>2, <1>1, <1>2 DEF IsRoot
  <2> QED BY <2>1, <2>3 DEF Popped
<1>6. ASSUME IsRoot(Top.step), NEW v \in Popped(Top.step), NEW w \in Edges(v)
      PROVE  w \in Assigned \cup Popped(Top.step)
  <2>1. w \in Ordered
    BY <1>2, <1>4 DEF WalkShape, EdgesWalked
  <2>2. CASE w \in OnStack
    <3>1. lowLink[Top.step] <= order[w]
      BY <2>2, <1>1, <1>2, <1>4 DEF WalkLinks, LinksCover
    <3> QED BY <2>2, <3>1, <1>6 DEF IsRoot, Popped
  <2>3. CASE w \in Assigned
    BY <2>3
  <2> QED BY <2>1, <2>2, <2>3 DEF WalkShape, StackSorted
<1> QED BY <1>2, <1>3, <1>4, <1>5, <1>6

LEMMA LeaveShape ==
    ASSUME WalkType, WalkShape, WalkLinks, LeaveStep
    PROVE  WalkType' /\ WalkShape'
<1> DEFINE s == Top.step
<1>1. /\ frames' \in Seq(Frame) /\ Len(frames') = Len(frames) - 1
      /\ DOMAIN frames' = 1 .. (Len(frames) - 1)
      /\ \A k \in DOMAIN frames' : /\ k \in DOMAIN frames
                                   /\ frames'[k].step = frames[k].step
                                   /\ frames'[k].left \subseteq frames[k].left
      /\ \A v, w : Pending(v, w) => Pending(v, w)' \/ w = s
  BY LeaveFrames
<1>2. /\ UNCHANGED <<plan, verdict, order>> /\ Ordered' = Ordered
      /\ IsRoot(s) =>
            /\ OnStack' = OnStack \ Popped(s) /\ Assigned' = Assigned \cup Popped(s)
            /\ \A t \in Steps : component'[t] = IF t \in Popped(s) THEN s ELSE component[t]
      /\ ~IsRoot(s) => OnStack' = OnStack /\ Assigned' = Assigned /\ component' = component
      /\ component' \in [Steps -> 1 .. Unset] /\ tarjanStack' \in Seq(Steps)
      /\ StackSorted'
  BY LeaveStack
<1>3. /\ s \in Popped(s) /\ Popped(s) \subseteq OnStack
      /\ \A v \in Popped(s) : \A w : ~Pending(v, w)
      /\ \A k \in DOMAIN frames :
            k # Len(frames) => frames[k].step \in OnStack \ Popped(s)
      /\ Len(frames) = 1 => IsRoot(s) /\ OnStack = Popped(s)
      /\ IsRoot(s) => \A v \in Popped(s) : Edges(v) \subseteq Assigned \cup Popped(s)
  BY LeaveSegment
<1>4. /\ OnStack \subseteq Ordered /\ Ordered = OnStack \cup Assigned /\ OnStack \cap Assigned = {}
      /\ Assigned \subseteq Steps
  BY DEF WalkShape, StackSorted, Assigned
<1>5. \A v : Edges(v)' = Edges(v)
  BY <1>2, EdgesStable
<1>6. Len(frames) \in Nat /\ DOMAIN frames = 1 .. Len(frames) /\ Len(frames) \in DOMAIN frames
  BY OrderTypes, LeaveFrames
<1>7. WalkType'
  BY <1>1, <1>2, LeaveLinksView DEF WalkType
<1> HIDE DEF s
<1>8. FramesOnStack'
  <2>1. \A k \in DOMAIN frames' : frames'[k].step \in OnStack'
    <3> TAKE k \in DOMAIN frames'
    <3>1. k # Len(frames) /\ k \in DOMAIN frames
      BY <1>1, <1>6
    <3> QED BY <3>1, <1>1, <1>2, <1>3
  <2>2. \A k \in DOMAIN frames' : frames'[k].left \subseteq Edges(frames'[k].step)
    BY <1>1 DEF WalkShape, FramesOnStack
  <2>3. \A j, k \in DOMAIN frames' : j < k => order'[frames'[j].step] < order'[frames'[k].step]
    BY <1>1, <1>2 DEF WalkShape, FramesOnStack
  <2>4. ASSUME NEW v \in OnStack'
        PROVE  frames' # <<>> /\ order'[frames'[1].step] <= order'[v]
    <3>1. v \in OnStack
      BY <1>2
    <3>2. Len(frames) # 1
      BY <1>2, <1>3
    <3>3. 1 \in DOMAIN frames' /\ frames' # <<>>
      BY <3>2, <1>1, <1>6
    <3> QED BY <3>1, <3>3, <1>1, <1>2 DEF WalkShape, FramesOnStack
  <2> QED BY <2>1, <2>2, <2>3, <2>4, <1>5 DEF FramesOnStack
<1>9. EdgesWalked'
  <2> SUFFICES ASSUME NEW v \in OnStack', NEW w \in Edges(v)
               PROVE  w \in Ordered' \/ Pending(v, w)'
    BY <1>5 DEF EdgesWalked
  <2>1. v \in OnStack
    BY <1>2
  <2>2. w \in Ordered \/ Pending(v, w)
    BY <2>1 DEF WalkShape, EdgesWalked
  <2>3. s \in Ordered
    BY <1>3, <1>4
  <2> QED BY <2>2, <2>3, <1>1, <1>2
<1>10. AssignedClosed'
  <2>1. CASE ~IsRoot(s)
    BY <2>1, <1>2, <1>5 DEF WalkShape, AssignedClosed
  <2>2. CASE IsRoot(s)
    <3> SUFFICES ASSUME NEW v \in Assigned'
                 PROVE  Edges(v) \subseteq Assigned' /\ component'[v] \in Assigned'
      BY <1>5 DEF AssignedClosed
    <3>1. CASE v \in Popped(s)
      <4>1. component'[v] = s
        BY <2>2, <3>1, <1>2, <1>3, <1>4 DEF Ordered
      <4> QED BY <2>2, <3>1, <4>1, <1>2, <1>3
    <3>2. CASE v \in Assigned
      <4>1. component'[v] = component[v]
        BY <2>2, <3>2, <1>2, <1>3, <1>4
      <4> QED BY <2>2, <3>2, <4>1, <1>2 DEF WalkShape, AssignedClosed
    <3> QED BY <2>2, <3>1, <3>2, <1>2
  <2> QED BY <2>1, <2>2
<1> QED BY <1>2, <1>7, <1>8, <1>9, <1>10 DEF WalkShape

(* A step that is no root leads back below itself, to its caller.          *)
LEMMA BackToCaller ==
    ASSUME WalkType, WalkShape, WalkLinks, LeaveStep, ~IsRoot(Top.step)
    PROVE  Len(frames) > 1 /\ Reaches(Top.step, Caller)
<1>1. /\ Len(frames) \in DOMAIN frames /\ Top = frames[Len(frames)]
      /\ Len(frames) \in Nat /\ DOMAIN frames = 1 .. Len(frames)
      /\ \A v \in Steps : order[v] \in Nat /\ lowLink[v] \in Nat
      /\ OnStack \subseteq Steps
  BY LeaveFrames, OrderTypes
<1>2. Len(frames) > 1
  BY <1>1, LeaveSegment
<1>3. /\ Len(frames) - 1 \in DOMAIN frames /\ Caller \in OnStack
      /\ order[Caller] < order[Top.step]
  BY <1>2, LeaveLinksView
<1>4. Top.step \in OnStack
  BY LeaveSegment
<1>5. lowLink[Top.step] <= order[Top.step]
  BY <1>1 DEF WalkLinks, LinksReach
<1>6. PICK w \in OnStack : order[w] = lowLink[Top.step] /\ Reaches(Top.step, w)
  BY <1>1 DEF WalkLinks, LinksReach
<1>7. order[w] < order[Top.step]
  BY <1>1, <1>4, <1>5, <1>6 DEF IsRoot
<1>8. Reaches(w, Caller)
  <2>1. CASE order[w] <= order[Caller]
    BY <2>1, <1>3 DEF WalkLinks, StackReaches
  <2>2. CASE order[Caller] <= order[w]
    <3>1. Len(frames) - 1 + 1 = Len(frames)
      BY <1>1
    <3>2. InSegment(w, Len(frames) - 1)
      BY <2>2, <3>1, <1>1, <1>7 DEF InSegment, Caller
    <3> QED BY <3>2, <1>3 DEF WalkLinks, StackReaches, Caller
  <2>3. order[w] \in Nat /\ order[Caller] \in Nat
    BY <1>1, <1>3
  <2> QED BY <2>1, <2>2, <2>3
<1> QED BY <1>2, <1>6, <1>8, ReachesOn

LEMMA LeaveLinks ==
    ASSUME WalkType, WalkShape, WalkLinks, LeaveStep
    PROVE  LinksCover' /\ LinksReach' /\ StackReaches'
<1> DEFINE s == Top.step
           d == Len(frames) - 1
<1>1. /\ Len(frames') = d /\ DOMAIN frames' = 1 .. d
      /\ \A k \in DOMAIN frames' : k \in DOMAIN frames /\ frames'[k].step = frames[k].step
      /\ \A v, w : Pending(v, w) => Pending(v, w)' \/ (v = Caller /\ w = s /\ Len(frames) > 1)
      /\ s = frames[Len(frames)].step /\ Len(frames) \in DOMAIN frames
  BY LeaveFrames
<1>2. /\ UNCHANGED <<plan, order>>
      /\ IsRoot(s) => OnStack' = OnStack \ Popped(s)
      /\ ~IsRoot(s) => OnStack' = OnStack
      /\ OnStack' \subseteq OnStack
  BY LeaveStack
<1>3. /\ s \in Popped(s) /\ Popped(s) \subseteq OnStack
      /\ \A v \in Popped(s) : InSegment(v, Len(frames))
      /\ \A k \in DOMAIN frames :
            k # Len(frames) => /\ order[frames[k].step] < order[s]
                               /\ frames[k].step \in OnStack \ Popped(s)
  BY LeaveSegment
<1>4. /\ Len(frames) \in Nat /\ DOMAIN frames = 1 .. Len(frames)
      /\ \A v \in Steps : order[v] \in Nat /\ lowLink[v] \in Nat
      /\ OnStack \subseteq Steps
  BY OrderTypes
<1>5. /\ Len(frames) = 1 => lowLink' = lowLink
      /\ Len(frames) > 1 =>
            /\ d \in DOMAIN frames /\ Caller \in OnStack /\ order[Caller] < order[s]
            /\ lowLink'[Caller] = Least(lowLink[Caller], lowLink[s])
            /\ \A v \in Steps : v # Caller => lowLink'[v] = lowLink[v]
  BY LeaveLinksView
<1>6. /\ \A v : Edges(v)' = Edges(v)
      /\ \A u, v : Reaches(u, v)' <=> Reaches(u, v)
  BY <1>2, EdgesStable
<1>7. Caller = frames[d].step
  BY DEF Caller
<1>8. Len(frames) = 1 \/ Len(frames) > 1
  BY <1>1, <1>4
<1>9. \A k \in DOMAIN frames' : k # Len(frames) /\ Len(frames) > 1 /\ (k = d \/ k + 1 \in DOMAIN frames')
  BY <1>1, <1>4
<1>10. s \in Steps
  BY <1>3, <1>4
<1> HIDE DEF s, d
<1>11. \A v \in Steps : lowLink'[v] \in Nat /\ lowLink'[v] <= lowLink[v]
  <2>1. CASE Len(frames) = 1
    BY <2>1, <1>4, <1>5
  <2>2. CASE Len(frames) > 1
    BY <2>2, <1>4, <1>5, <1>10 DEF Least
  <2> QED BY <2>1, <2>2, <1>8
<1>12. Len(frames) > 1 => lowLink'[Caller] <= lowLink[s]
  BY <1>4, <1>5, <1>10 DEF Least
<1>13. ASSUME NEW k \in DOMAIN frames', NEW v \in OnStack', InSegment(v, k)'
       PROVE  InSegment(v, k) \/ (k = d /\ v \in Popped(s))
  <2>1. order[frames[k].step] <= order[v]
    BY <1>13, <1>1, <1>2 DEF InSegment
  <2>2. CASE k = d
    <3>1. k + 1 = Len(frames)
      BY <2>2, <1>4 DEF d
    <3>2. order[v] < order[s] \/ order[s] <= order[v]
      BY <1>2, <1>4, <1>10
    <3> QED BY <2>1, <2>2, <3>1, <3>2, <1>1, <1>2 DEF InSegment, Popped
  <2>3. CASE k + 1 \in DOMAIN frames' /\ k # d
    <3>1. k < Len(frames')
      BY <2>3, <1>1, <1>4 DEF d
    <3>2. order[v] < order[frames[k + 1].step]
      BY <2>3, <3>1, <1>13, <1>1, <1>2 DEF InSegment
    <3> QED BY <2>1, <3>2 DEF InSegment
  <2> QED BY <2>2, <2>3, <1>9
<1>14. \A k \in DOMAIN frames : lowLink[frames[k].step] <= order[frames[k].step]
  BY DEF WalkLinks, LinksReach
<1>15. \A k \in DOMAIN frames : frames[k].step \in Steps
  BY OrderTypes
<1>16. LinksCover'
  <2> SUFFICES ASSUME NEW k \in DOMAIN frames', NEW v \in OnStack', NEW w \in OnStack',
                      InSegment(v, k)', w \in Edges(v), ~Pending(v, w)'
               PROVE  lowLink'[frames[k].step] <= order[w]
    BY <1>1, <1>2, <1>6 DEF LinksCover
  <2>1. /\ k \in DOMAIN frames /\ frames[k].step \in Steps
        /\ v \in OnStack /\ w \in OnStack /\ order[w] \in Nat
        /\ lowLink'[frames[k].step] <= lowLink[frames[k].step]
        /\ lowLink'[frames[k].step] \in Nat /\ lowLink[frames[k].step] \in Nat
    BY <1>1, <1>2, <1>4, <1>11, <1>15
  <2>2. CASE Pending(v, w)
    <3>1. v = Caller /\ w = s /\ Len(frames) > 1
      BY <2>2, <1>1
    <3>2. order[frames[k].step] <= order[Caller]
      BY <3>1, <1>1, <1>2 DEF InSegment
    <3>3. order[Caller] < order[w] /\ order[Caller] \in Nat
      BY <3>1, <1>4, <1>5
    <3>4. lowLink[frames[k].step] <= order[frames[k].step] /\ order[frames[k].step] \in Nat
      BY <2>1, <1>4, <1>14
    <3> QED BY <2>1, <3>2, <3>3, <3>4
  <2>3. CASE ~Pending(v, w) /\ InSegment(v, k)
    <3>1. lowLink[frames[k].step] <= order[w]
      BY <2>1, <2>3 DEF WalkLinks, LinksCover
    <3> QED BY <2>1, <3>1
  <2>4. CASE ~Pending(v, w) /\ k = d /\ v \in Popped(s)
    <3>1. InSegment(v, Len(frames))
      BY <2>4, <1>3
    <3>2. lowLink[s] <= order[w]
      BY <2>1, <2>4, <3>1, <1>1 DEF WalkLinks, LinksCover
    <3>3. lowLink'[frames[k].step] <= lowLink[s]
      BY <2>4, <1>7, <1>9, <1>12
    <3> QED BY <2>1, <3>2, <3>3, <1>4, <1>10
  <2> QED BY <2>2, <2>3, <2>4, <1>13
<1>17. LinksReach'
  <2> SUFFICES ASSUME NEW k \in DOMAIN frames'
               PROVE  /\ lowLink'[frames[k].step] <= order[frames[k].step]
                      /\ \E w \in OnStack' : /\ order[w] = lowLink'[frames[k].step]
                                             /\ Reaches(frames[k].step, w)
    BY <1>1, <1>2, <1>6 DEF LinksReach
  <2> DEFINE x == frames[k].step
  <2>1. /\ k \in DOMAIN frames /\ k # Len(frames) /\ x \in Steps /\ order[x] < order[s]
        /\ order[x] \in Nat /\ lowLink[x] \in Nat /\ lowLink'[x] \in Nat
        /\ lowLink'[x] <= lowLink[x] /\ lowLink[x] <= order[x]
    BY <1>1, <1>3, <1>4, <1>9, <1>11, <1>14, <1>15
  <2>2. CASE lowLink'[x] = lowLink[x]
    <3>1. PICK w \in OnStack : order[w] = lowLink[x] /\ Reaches(x, w)
      BY <2>1 DEF WalkLinks, LinksReach
    <3>2. ~(order[s] <= order[w])
      BY <2>1, <3>1, <1>4, <1>10
    <3>3. w \in OnStack'
      BY <3>2, <1>2 DEF Popped
    <3> QED BY <2>1, <2>2, <3>1, <3>3
  <2>3. CASE lowLink'[x] # lowLink[x]
    <3>1. x = Caller
      BY <2>1, <2>3, <1>5, <1>9
    <3>2. lowLink'[x] = lowLink[s]
      BY <2>3, <3>1, <1>5, <1>9 DEF Least
    <3>3. ~IsRoot(s)
      BY <2>1, <2>3, <3>2, <1>4, <1>10 DEF IsRoot
    <3>4. PICK w \in OnStack : order[w] = lowLink[s] /\ Reaches(s, w)
      BY <1>1 DEF WalkLinks, LinksReach
    <3>5. Reaches(x, s)
      <4>1. x \in OnStack /\ s \in OnStack /\ order[x] <= order[s]
        BY <2>1, <1>3, <1>4, <1>10
      <4> QED BY <4>1 DEF WalkLinks, StackReaches
    <3>6. w \in OnStack' /\ Reaches(x, w)
      BY <3>3, <3>4, <3>5, <1>2, ReachesOn
    <3>7. lowLink'[x] <= order[x]
      BY <2>1
    <3> QED BY <3>2, <3>4, <3>6, <3>7
  <2> QED BY <2>2, <2>3
<1>18. StackReaches'
  <2>1. \A u, v \in OnStack' : order[u] <= order[v] => Reaches(u, v)
    BY <1>2 DEF WalkLinks, StackReaches
  <2>2. ASSUME NEW k \in DOMAIN frames', NEW v \in OnStack', InSegment(v, k)'
        PROVE  Reaches(v, frames[k].step)
    <3>1. CASE InSegment(v, k)
      BY <3>1, <1>1, <1>2 DEF WalkLinks, StackReaches
    <3>2. CASE k = d /\ v \in Popped(s)
      <4>1. ~IsRoot(s)
        BY <3>2, <1>2
      <4>2. Reaches(s, Caller)
        BY <4>1, BackToCaller DEF s
      <4>3. Reaches(v, s)
        BY <3>2, <1>1, <1>3 DEF WalkLinks, StackReaches
      <4> QED BY <3>2, <4>2, <4>3, <1>7, ReachesOn
    <3> QED BY <2>2, <3>1, <3>2, <1>13
  <2> QED BY <2>1, <2>2, <1>1, <1>2, <1>6 DEF StackReaches
<1> QED BY <1>16, <1>17, <1>18

LEMMA LeaveComponents ==
    ASSUME WalkType, WalkShape, WalkLinks, LeaveStep
    PROVE  ComponentsReach'
<1> DEFINE s == Top.step
<1>1. /\ IsRoot(s) =>
            /\ Assigned' = Assigned \cup Popped(s)
            /\ \A t \in Steps : component'[t] = IF t \in Popped(s) THEN s ELSE component[t]
      /\ ~IsRoot(s) => Assigned' = Assigned /\ component' = component
      /\ UNCHANGED plan
  BY LeaveStack
<1>2. /\ s \in Popped(s) /\ Popped(s) \subseteq OnStack
      /\ \A v \in Popped(s) : InSegment(v, Len(frames))
      /\ s = frames[Len(frames)].step /\ Len(frames) \in DOMAIN frames
  BY LeaveSegment, LeaveFrames
<1>3. /\ OnStack \cap Assigned = {} /\ Assigned \subseteq Steps /\ OnStack \subseteq Steps
      /\ \A v \in Assigned : component[v] \in Assigned
  BY OrderTypes DEF WalkShape, StackSorted, Assigned, AssignedClosed
<1>4. \A u, v : Reaches(u, v)' <=> Reaches(u, v)
  BY <1>1, EdgesStable
<1> HIDE DEF s
<1>5. CASE ~IsRoot(s)
  BY <1>5, <1>1, <1>4 DEF WalkLinks, ComponentsReach
<1>6. CASE IsRoot(s)
  <2>1. ASSUME NEW u \in Popped(s)
        PROVE  Reaches(u, s) /\ Reaches(s, u) /\ component'[u] = s
    <3>1. Reaches(u, s)
      BY <1>2 DEF WalkLinks, StackReaches
    <3>2. Reaches(s, u)
      BY <1>2 DEF WalkLinks, StackReaches, Popped
    <3> QED BY <3>1, <3>2, <1>1, <1>2, <1>3, <1>6
  <2>2. \A v \in Assigned : component'[v] = component[v] /\ component[v] # s
    BY <1>1, <1>2, <1>3, <1>6
  <2> SUFFICES ASSUME NEW u \in Assigned', NEW v \in Assigned', component'[u] = component'[v]
               PROVE  Reaches(u, v)
    BY <1>4 DEF ComponentsReach
  <2>3. CASE u \in Popped(s) /\ v \in Popped(s)
    BY <2>1, <2>3, ReachesOn
  <2>4. CASE u \in Assigned /\ v \in Assigned
    BY <2>2, <2>4 DEF WalkLinks, ComponentsReach
  <2>5. (u \in Popped(s) <=> v \in Popped(s)) /\ (u \in Assigned \/ u \in Popped(s))
        /\ (v \in Assigned \/ v \in Popped(s))
    BY <2>1, <2>2, <1>1, <1>6
  <2> QED BY <2>3, <2>4, <2>5
<1> QED BY <1>5, <1>6

(* The clauses of a plan that was not refused do not nest, so that a set   *)
(* of steps that each lead to another of it has a capture within it.       *)
LEMMA ClausesMakeNoCycle ==
    ASSUME plan \in Plans, Refused = "none",
           NEW C \in SUBSET Steps, C # {}, \A s \in C : Edges(s) \cap C # {}
    PROVE  \E s \in C : \E c \in plan[s].captures \cap C : TRUE
<1> SUFFICES ASSUME \A s \in C : plan[s].captures \cap C = {} PROVE FALSE
  OBVIOUS
<1>1. DOMAIN plan = Steps
  BY PlanTyped
<1>2. \A s \in C : plan[s].after \in C
  BY DEF Edges
<1>3. NestedTemporalClause(plan)
  BY <1>1, <1>2 DEF NestedTemporalClause, HasParent
<1> QED BY <1>3 DEF Refused

LEMMA LeaveCycles ==
    ASSUME WalkType, WalkShape, WalkLinks, CyclesCaught, LeaveStep
    PROVE  CyclesCaught'
<1> DEFINE s == Top.step
<1>1. /\ IsRoot(s) =>
            /\ Assigned' = Assigned \cup Popped(s)
            /\ \A t \in Steps : component'[t] = IF t \in Popped(s) THEN s ELSE component[t]
      /\ ~IsRoot(s) => Assigned' = Assigned /\ component' = component
      /\ UNCHANGED plan
  BY LeaveStack
<1>2. Popped(s) \subseteq OnStack
  BY LeaveSegment
<1>3. /\ OnStack \cap Assigned = {} /\ Assigned \subseteq Steps /\ OnStack \subseteq Steps
      /\ \A v \in Assigned : Edges(v) \subseteq Assigned
  BY OrderTypes DEF WalkShape, StackSorted, Assigned, AssignedClosed
<1>4. \A v : Edges(v)' = Edges(v)
  BY <1>1, EdgesStable
<1>5. plan \in Plans /\ Refused = "none"
  BY DEF WalkType, LeaveStep, Compiling
<1> HIDE DEF s
<1>6. CASE ~IsRoot(s)
  BY <1>6, <1>1, <1>4 DEF CyclesCaught
<1>7. CASE IsRoot(s)
  <2> SUFFICES ASSUME NEW C \in SUBSET Assigned', C # {}, \A t \in C : Edges(t) \cap C # {}
               PROVE  \E t \in C : \E c \in plan[t].captures \cap C : component'[t] = component'[c]
    BY <1>1, <1>4 DEF CyclesCaught
  <2>1. CASE C \cap Assigned # {}
    <3> DEFINE D == C \cap Assigned
    <3>1. \A t \in D : Edges(t) \cap D # {}
      BY <1>3
    <3>2. PICK t \in D : \E c \in plan[t].captures \cap D : component[t] = component[c]
      BY <2>1, <3>1 DEF CyclesCaught
    <3>3. \A v \in Assigned : component'[v] = component[v]
      BY <1>1, <1>2, <1>3, <1>7
    <3> QED BY <3>2, <3>3
  <2>2. CASE C \cap Assigned = {}
    <3>1. C \subseteq Popped(s) /\ C \in SUBSET Steps
      BY <2>2, <1>1, <1>2, <1>3, <1>7
    <3>2. PICK t \in C : \E c \in plan[t].captures \cap C : TRUE
      BY <3>1, <1>5, ClausesMakeNoCycle
    <3>3. \A v \in C : component'[v] = s
      BY <3>1, <1>1, <1>7
    <3> QED BY <3>2, <3>3
  <2> QED BY <2>1, <2>2
<1> QED BY <1>6, <1>7

-----------------------------------------------------------------------------
LEMMA BindingInitInv == CompileInit => BindingInv
<1> SUFFICES ASSUME CompileInit PROVE BindingInv
  OBVIOUS
<1>1. /\ plan \in Plans /\ verdict = "none" /\ tarjanStack = <<>> /\ frames = <<>>
      /\ order = [s \in Steps |-> Unset] /\ lowLink = [s \in Steps |-> Unset]
      /\ component = [s \in Steps |-> Unset]
  BY DEF CompileInit
<1>2. /\ Unset \in 0 .. Unset /\ Unset \in 1 .. Unset /\ Len(frames) = 0
      /\ DOMAIN frames = {} /\ DOMAIN tarjanStack = {}
  BY <1>1, PlanTyped DEF Unset
<1>3. Ordered = {} /\ OnStack = {} /\ Assigned = {}
  BY <1>1, <1>2 DEF Ordered, OnStack, Assigned
<1>4. WalkType
  BY <1>1, <1>2 DEF WalkType, Verdicts
<1>5. WalkShape
  BY <1>2, <1>3 DEF WalkShape, StackSorted, FramesOnStack, EdgesWalked, AssignedClosed
<1>6. WalkLinks
  BY <1>2, <1>3 DEF WalkLinks, LinksCover, LinksReach, StackReaches, ComponentsReach
<1>7. CyclesCaught
  BY <1>3 DEF CyclesCaught
<1>8. Judged
  BY <1>1 DEF Judged
<1> QED BY <1>4, <1>5, <1>6, <1>7, <1>8 DEF BindingInv

LEMMA WalkKeepsJudged ==
    ASSUME Judged, Compiling, UNCHANGED <<plan, verdict>>
    PROVE  Judged'
<1>1. verdict' = "none"
  BY DEF Compiling
<1> QED BY <1>1 DEF Judged

LEMMA ConnectKeeps ==
    ASSUME BindingInv, Compiling, NEW s \in Steps \ Ordered, Connect(s),
           UNCHANGED <<plan, verdict>>, frames = <<>> \/ s \in Top.left
    PROVE  BindingInv'
<1> USE DEF BindingInv
<1>1. WalkShape' /\ WalkLinks' /\ Judged'
  BY ConnectShape, ConnectLinks, WalkKeepsJudged
<1>2. WalkType' /\ Assigned' = Assigned /\ component' = component
  BY ConnectView DEF WalkShape
<1>3. CyclesCaught'
  BY <1>2, EdgesStable DEF CyclesCaught
<1> QED BY <1>1, <1>2, <1>3

LEMMA CompileKeeps == BindingInv /\ Compile => BindingInv'
<1> SUFFICES ASSUME BindingInv, Compile PROVE BindingInv'
  OBVIOUS
<1>1. CASE Refuse
  <2>1. /\ verdict' = Refused /\ Refused # "none" /\ Ordered = {}
        /\ UNCHANGED <<plan, order, lowLink, tarjanStack, component, frames>>
    BY <1>1 DEF Refuse
  <2>2. /\ \A v : Edges(v)' = Edges(v)
        /\ \A u, v : Reaches(u, v)' <=> Reaches(u, v)
        /\ Refused' = Refused
    BY <2>1, EdgesStable
  <2>3. verdict' \in Verdicts /\ verdict' \notin {"binding-cycle", "accepted"}
    BY <2>1 DEF Refused, Verdicts
  <2>4. /\ Ordered' = Ordered /\ OnStack' = OnStack /\ Assigned' = Assigned
        /\ \A v, w : Pending(v, w)' <=> Pending(v, w)
        /\ \A v, k : InSegment(v, k)' <=> InSegment(v, k)
    BY <2>1 DEF Ordered, OnStack, Assigned, Pending, InSegment
  <2>5. WalkType'
    BY <2>1, <2>3 DEF BindingInv, WalkType
  <2>6. WalkShape'
    BY <2>1, <2>2, <2>4
       DEF BindingInv, WalkShape, StackSorted, FramesOnStack, EdgesWalked, AssignedClosed
  <2>7. WalkLinks'
    BY <2>1, <2>2, <2>4
       DEF BindingInv, WalkLinks, LinksCover, LinksReach, StackReaches, ComponentsReach
  <2>8. CyclesCaught'
    BY <2>1, <2>2, <2>4 DEF BindingInv, CyclesCaught
  <2>9. Judged'
    BY <2>1, <2>2, <2>3 DEF Judged
  <2> QED BY <2>5, <2>6, <2>7, <2>8, <2>9 DEF BindingInv
<1>2. CASE StartWalk
  <2>1. Compiling /\ frames = <<>> /\ UNCHANGED <<plan, verdict>>
        /\ \E s \in Steps \ Ordered : Connect(s)
    BY <1>2 DEF StartWalk
  <2> QED BY <2>1, ConnectKeeps
<1>3. CASE FollowEdge
  <2>1. Compiling /\ frames # <<>> /\ UNCHANGED <<plan, verdict>>
    BY <1>3 DEF FollowEdge
  <2>2. PICK next \in Top.left :
          IF next \notin Ordered
          THEN Connect(next)
          ELSE /\ lowLink' =
                     IF Closes(next)
                     THEN [lowLink EXCEPT ![Top.step] = Least(@, order[next])]
                     ELSE lowLink
               /\ frames' = [frames EXCEPT ![Len(frames)].left = @ \ {next}]
               /\ UNCHANGED <<order, tarjanStack, component>>
    BY <1>3 DEF FollowEdge
  <2>3. next \in Steps
    <3>1. Len(frames) \in DOMAIN frames
      BY <2>1 DEF BindingInv, WalkType
    <3> QED BY <2>2, <3>1, OrderTypes DEF BindingInv, Frame, Top
  <2>4. CASE next \notin Ordered
    BY <2>1, <2>2, <2>3, <2>4, ConnectKeeps
  <2>5. CASE next \in Ordered
    <3>1. Lower(next)
      BY <2>1, <2>2, <2>5 DEF Lower
    <3>2. WalkType' /\ Assigned' = Assigned
      BY <2>1, <3>1, LowerView DEF BindingInv
    <3>3. WalkShape' /\ WalkLinks'
      BY <2>1, <3>1, LowerShape, LowerLinks DEF BindingInv
    <3>4. component' = component /\ plan' = plan
      BY <3>1 DEF Lower
    <3>5. CyclesCaught'
      BY <3>2, <3>4, EdgesStable DEF BindingInv, CyclesCaught
    <3>6. Judged'
      BY <2>1, WalkKeepsJudged DEF BindingInv
    <3> QED BY <3>2, <3>3, <3>5, <3>6 DEF BindingInv
  <2> QED BY <2>4, <2>5
<1>4. CASE LeaveStep
  <2>1. Judged'
    BY <1>4, WalkKeepsJudged DEF BindingInv, LeaveStep
  <2> QED BY <1>4, <2>1, LeaveShape, LeaveLinks, LeaveComponents, LeaveCycles
          DEF BindingInv, WalkLinks
<1>5. CASE JudgeCycle
  <2>1. /\ Compiling /\ frames = <<>> /\ Ordered = Steps
        /\ verdict' = IF CapturesCycle THEN "binding-cycle" ELSE "accepted"
        /\ UNCHANGED <<plan, order, lowLink, tarjanStack, component, frames>>
    BY <1>5 DEF JudgeCycle, CapturesCycle
  <2>2. /\ \A v : Edges(v)' = Edges(v)
        /\ \A u, v : Reaches(u, v)' <=> Reaches(u, v)
        /\ Refused' = Refused /\ Refused = "none"
    BY <2>1, EdgesStable DEF Compiling
  <2>3. verdict' \in Verdicts
    BY <2>1 DEF Verdicts
  <2>4. /\ Ordered' = Ordered /\ OnStack' = OnStack /\ Assigned' = Assigned
        /\ \A v, w : Pending(v, w)' <=> Pending(v, w)
        /\ \A v, k : InSegment(v, k)' <=> InSegment(v, k)
        /\ CapturesCycle' <=> CapturesCycle
    BY <2>1 DEF Ordered, OnStack, Assigned, Pending, InSegment, CapturesCycle
  <2>5. WalkType'
    BY <2>1, <2>3 DEF BindingInv, WalkType
  <2>6. WalkShape'
    BY <2>1, <2>2, <2>4
       DEF BindingInv, WalkShape, StackSorted, FramesOnStack, EdgesWalked, AssignedClosed
  <2>7. WalkLinks'
    BY <2>1, <2>2, <2>4
       DEF BindingInv, WalkLinks, LinksCover, LinksReach, StackReaches, ComponentsReach
  <2>8. CyclesCaught'
    BY <2>1, <2>2, <2>4 DEF BindingInv, CyclesCaught
  <2>9. Judged'
    <3>1. verdict' = "binding-cycle" <=> CapturesCycle
      BY <2>1
    <3>2. Ordered' = Steps' /\ frames' = <<>>
      BY <2>1, <2>4 DEF Steps
    <3> QED BY <2>2, <2>4, <3>1, <3>2 DEF Judged, Steps
  <2> QED BY <2>5, <2>6, <2>7, <2>8, <2>9 DEF BindingInv
<1> QED BY <1>1, <1>2, <1>3, <1>4, <1>5 DEF Compile

LEMMA BindingStepKeeps == BindingInv /\ [Next]_vars => BindingInv'
<1> SUFFICES ASSUME BindingInv, [Next]_vars PROVE BindingInv'
  OBVIOUS
<1>1. CASE CompileStep
  BY <1>1, CompileKeeps DEF CompileStep
<1>2. CASE UNCHANGED compileVars
  <2>1. UNCHANGED <<plan, verdict, order, lowLink, tarjanStack, component, frames>>
    BY <1>2 DEF compileVars
  <2>2. /\ \A v : Edges(v)' = Edges(v)
        /\ \A u, v : Reaches(u, v)' <=> Reaches(u, v)
        /\ Refused' = Refused
    BY <2>1, EdgesStable
  <2>3. /\ Ordered' = Ordered /\ OnStack' = OnStack /\ Assigned' = Assigned
        /\ \A v, w : Pending(v, w)' <=> Pending(v, w)
        /\ \A v, k : InSegment(v, k)' <=> InSegment(v, k)
        /\ CapturesCycle' <=> CapturesCycle
    BY <2>1 DEF Ordered, OnStack, Assigned, Pending, InSegment, CapturesCycle
  <2>4. WalkType'
    BY <2>1 DEF BindingInv, WalkType
  <2>5. WalkShape'
    BY <2>1, <2>2, <2>3
       DEF BindingInv, WalkShape, StackSorted, FramesOnStack, EdgesWalked, AssignedClosed
  <2>6. WalkLinks'
    BY <2>1, <2>2, <2>3
       DEF BindingInv, WalkLinks, LinksCover, LinksReach, StackReaches, ComponentsReach
  <2>7. CyclesCaught'
    BY <2>1, <2>2, <2>3 DEF BindingInv, CyclesCaught
  <2>8. Judged'
    BY <2>1, <2>2, <2>3 DEF BindingInv, Judged
  <2> QED BY <2>4, <2>5, <2>6, <2>7, <2>8 DEF BindingInv
<1>3. CompileStep \/ UNCHANGED compileVars
  BY DEF Next, vars, OpenTrial, Observe, StartResolving, OpenTier, ResolveStep, Select, Selected
<1> QED BY <1>1, <1>2, <1>3

(* Whatever the plans, the walk over a plan's edges is Tarjan's: the low   *)
(* links bound what each open segment leads back to, and a component that  *)
(* is taken off the stack is closed.                                       *)
THEOREM BindingInvariant == Spec => []BindingInv
<1>1. Init => BindingInv
  BY BindingInitInv DEF Init
<1> QED BY <1>1, BindingStepKeeps, PTL DEF Spec
-----------------------------------------------------------------------------
(* Recursion, without induction: what a recursive function over 0 .. N is, *)
(* and that it has come to rest by N, from the least place at which it     *)
(* would not be.                                                           *)
LEMMA LeastOf ==
    ASSUME NEW T \in SUBSET Nat, T # {}
    PROVE  \E i \in T : \A j \in T : i <= j
<1> DEFINE R == OpToRel(<, Nat)
<1>1. \A x, y \in Nat : <<x, y>> \in R <=> x < y
  BY DEF OpToRel
<1>2. IsWellFoundedOn(R, Nat)
  BY NatLessThanWellFounded
<1> HIDE DEF R
<1>3. PICK x \in T : \A y \in T : ~ (<<y, x>> \in R)
  BY <1>2, WFMin
<1>4. \A y \in T : ~(y < x)
  BY <1>1, <1>3
<1>5. \A y \in T : x <= y
  BY <1>4
<1> QED BY <1>5

(* X, F[X], F[F[X]], ..., to the n-th after X.                             *)
IsChain(g, F, X, n) == g = [i \in 0 .. n |-> IF i = 0 THEN X ELSE F[g[i - 1]]]

LEMMA ChainExists ==
    ASSUME NEW F, NEW X, NEW n \in Nat
    PROVE  \E g : IsChain(g, F, X, n)
<1> DEFINE T == {m \in Nat : ~\E g : IsChain(g, F, X, m)}
<1>1. CASE T = {}
  BY <1>1
<1>2. CASE T # {}
  <2>1. T \in SUBSET Nat
    OBVIOUS
  <2>2. PICK m \in T : \A j \in T : m <= j
    BY <1>2, <2>1, LeastOf
  <2>3. CASE m = 0
    <3> DEFINE h == [i \in 0 .. 0 |-> X]
    <3>1. h = [i \in 0 .. 0 |-> IF i = 0 THEN X ELSE F[h[i - 1]]]
      OBVIOUS
    <3> HIDE DEF h
    <3>2. IsChain(h, F, X, 0)
      BY <3>1 DEF IsChain
    <3> QED BY <2>2, <2>3, <3>2
  <2>4. CASE m # 0
    <3>1. m \in Nat /\ m - 1 \in Nat /\ ~(m <= m - 1)
      BY <2>2, <2>4
    <3>2. PICK g : IsChain(g, F, X, m - 1)
      BY <2>2, <3>1
    <3> DEFINE h == [i \in 0 .. m |-> IF i = m THEN F[g[m - 1]] ELSE g[i]]
    <3>3. /\ g = [i \in 0 .. (m - 1) |-> IF i = 0 THEN X ELSE F[g[i - 1]]]
      BY <3>2 DEF IsChain
    <3>4. /\ g[0] = X
          /\ \A i \in 1 .. (m - 1) : g[i] = F[g[i - 1]]
      BY <3>1, <3>3
    <3>5. \A i \in 0 .. m : h[i] = IF i = 0 THEN X ELSE F[h[i - 1]]
      <4> TAKE i \in 0 .. m
      <4>1. CASE i = 0
        BY <4>1, <3>1, <3>4, <2>4
      <4>2. CASE i = m
        BY <4>2, <3>1, <2>4
      <4>3. CASE i # 0 /\ i # m
        <5>1. i \in 1 .. (m - 1) /\ i - 1 \in 0 .. m /\ i - 1 # m
          BY <4>3, <3>1
        <5> QED BY <5>1, <4>3, <3>4
      <4> QED BY <4>1, <4>2, <4>3
    <3>6. h = [i \in 0 .. m |-> IF i = 0 THEN X ELSE F[h[i - 1]]]
      <4>1. h = [i \in 0 .. m |-> h[i]]
        OBVIOUS
      <4> HIDE DEF h
      <4> QED BY <4>1, <3>5
    <3> HIDE DEF h
    <3>7. IsChain(h, F, X, m)
      BY <3>6 DEF IsChain
    <3> QED BY <2>2, <3>7
  <2> QED BY <2>3, <2>4
<1> QED BY <1>1, <1>2

(* A chain of sets of steps under a function that adds to them has come to *)
(* rest when it is as long as there are steps.                             *)
LEMMA ChainRests ==
    ASSUME plan \in Plans, NEW F \in [SUBSET Steps -> SUBSET Steps],
           \A Y \in SUBSET Steps : Y \subseteq F[Y],
           NEW X \in SUBSET Steps, NEW g, IsChain(g, F, X, N)
    PROVE  /\ g[N] \in SUBSET Steps /\ X \subseteq g[N] /\ F[g[N]] = g[N]
           /\ \A R \in SUBSET Steps : X \subseteq R /\ (\A Y \in SUBSET R : F[Y] \subseteq R)
                                        => g[N] \subseteq R
           /\ \A i \in 0 .. N : g[i] \in SUBSET Steps
<1>1. N \in Nat \ {0}
  BY PlanTyped
<1>2. g[0] = X /\ \A i \in 1 .. N : g[i] = F[g[i - 1]]
  BY <1>1 DEF IsChain
<1>3. ASSUME NEW R \in SUBSET Steps, X \subseteq R, \A Y \in SUBSET R : F[Y] \subseteq R
      PROVE  \A i \in 0 .. N : X \subseteq g[i] /\ g[i] \subseteq R
  <2> DEFINE T == {i \in 0 .. N : ~(X \subseteq g[i] /\ g[i] \subseteq R)}
  <2> SUFFICES ASSUME T # {} PROVE FALSE
    OBVIOUS
  <2>1. PICK i \in T : \A j \in T : i <= j
    BY LeastOf, T \in SUBSET Nat
  <2>2. i \in 0 .. N /\ ~(X \subseteq g[i] /\ g[i] \subseteq R)
    BY <2>1
  <2>3. i # 0
    BY <2>2, <1>2, <1>3
  <2>4. i \in 1 .. N /\ i - 1 \in 0 .. N /\ ~(i <= i - 1)
    BY <2>2, <2>3, <1>1
  <2>5. X \subseteq g[i - 1] /\ g[i - 1] \subseteq R
    BY <2>1, <2>4
  <2>6. g[i] = F[g[i - 1]]
    BY <2>4, <1>2
  <2> QED BY <2>2, <2>5, <2>6, <1>3
<1>4. \A i \in 0 .. N : X \subseteq g[i] /\ g[i] \subseteq Steps
  BY <1>3
<1>5. \A i \in 0 .. N : Cardinality(g[i]) \in 0 .. N
  BY <1>4, StepsCounted
<1>6. \A i \in 0 .. N : i <= Cardinality(g[i]) \/ F[g[i]] = g[i]
  <2> DEFINE T == {i \in 0 .. N : ~(i <= Cardinality(g[i]) \/ F[g[i]] = g[i])}
  <2> SUFFICES ASSUME T # {} PROVE FALSE
    OBVIOUS
  <2>1. PICK i \in T : \A j \in T : i <= j
    BY LeastOf, T \in SUBSET Nat
  <2>2. i \in 0 .. N /\ ~(i <= Cardinality(g[i])) /\ F[g[i]] # g[i]
    BY <2>1
  <2>3. i # 0
    BY <2>2, <1>5
  <2>4. i \in 1 .. N /\ i - 1 \in 0 .. N /\ ~(i <= i - 1)
    BY <2>2, <2>3, <1>1
  <2>5. i - 1 <= Cardinality(g[i - 1]) \/ F[g[i - 1]] = g[i - 1]
    BY <2>1, <2>4
  <2>6. g[i] = F[g[i - 1]] /\ g[i - 1] \subseteq g[i] /\ g[i] \subseteq Steps
    BY <2>4, <1>2, <1>4
  <2>7. g[i] # g[i - 1]
    BY <2>2, <2>6
  <2>8. PICK s \in Steps : s \in g[i] /\ s \notin g[i - 1]
    BY <2>6, <2>7
  <2>9. g[i - 1] \cup {s} \in SUBSET g[i] /\ g[i - 1] \in SUBSET Steps
    BY <2>6, <2>8, <2>4, <1>4
  <2>10. Cardinality(g[i - 1] \cup {s}) = Cardinality(g[i - 1]) + 1
    BY <2>8, <2>9, StepsCounted
  <2>11. Cardinality(g[i - 1] \cup {s}) <= Cardinality(g[i])
    BY <2>6, <2>9, StepsCounted, FS_Subset
  <2>12. i - 1 <= Cardinality(g[i - 1])
    BY <2>5, <2>6, <2>7
  <2> QED BY <2>2, <2>4, <2>10, <2>11, <2>12, <1>1, <1>5
<1>7. F[g[N]] = g[N]
  <2>1. N \in 0 .. N /\ g[N] \in SUBSET Steps /\ Cardinality(g[N]) \in 0 .. N
    BY <1>1, <1>4, <1>5
  <2>2. CASE N <= Cardinality(g[N])
    <3>1. Cardinality(g[N]) = N
      BY <2>1, <2>2, <1>1
    <3>2. g[N] = Steps
      <4>1. \A s \in Steps \ g[N] : Cardinality(g[N]) < N
        BY <2>1, StepsCounted
      <4>2. ~(N < N)
        BY <1>1
      <4>3. \A s \in Steps : s \in g[N]
        BY <3>1, <4>1, <4>2
      <4>4. g[N] \subseteq Steps
        BY <2>1
      <4> QED BY <4>3, <4>4
    <3>3. Steps \subseteq F[Steps] /\ F[Steps] \subseteq Steps
      <4>1. Steps \in SUBSET Steps
        OBVIOUS
      <4>2. F[Steps] \in SUBSET Steps
        BY <4>1
      <4> QED BY <4>1, <4>2
    <3> QED BY <3>2, <3>3
  <2> QED BY <2>1, <2>2, <1>6
<1> QED BY <1>1, <1>3, <1>4, <1>7

LEMMA ChainWithin ==
    ASSUME plan \in Plans, NEW F \in [SUBSET Steps -> SUBSET Steps],
           \A Y \in SUBSET Steps : Y \subseteq F[Y],
           NEW X \in SUBSET Steps, NEW g, IsChain(g, F, X, N),
           NEW R \in SUBSET Steps, X \subseteq R, \A Y \in SUBSET R : F[Y] \subseteq R
    PROVE  g[N] \subseteq R
<1>1. \A Q \in SUBSET Steps : X \subseteq Q /\ (\A Y \in SUBSET Q : F[Y] \subseteq Q)
                                => g[N] \subseteq Q
  BY ChainRests
<1> QED BY <1>1

(* The tiers, and what a step leads to, are such chains.                   *)
LEMMA TiersRest ==
    ASSUME plan \in Plans
    PROVE  /\ PlacedWithin[N] \in SUBSET Steps
           /\ Tier(PlacedWithin[N]) = {}
           /\ \A R \in SUBSET Steps :
                 (\A Y \in SUBSET R : Tier(Y) \subseteq R) => PlacedWithin[N] \subseteq R
<1> DEFINE F == [Y \in SUBSET Steps |-> Y \cup Tier(Y)]
<1>1. /\ N \in Nat /\ F \in [SUBSET Steps -> SUBSET Steps]
      /\ \A Y \in SUBSET Steps : Y \subseteq F[Y] /\ F[Y] = Y \cup Tier(Y)
      /\ {} \in SUBSET Steps
  BY PlanTyped DEF Tier
<1> HIDE DEF F
<1>2. PICK g : IsChain(g, F, {}, N)
  BY <1>1, ChainExists
<1>3. \A i \in 0 .. N : g[i] \in SUBSET Steps
  BY <1>1, <1>2, ChainRests
<1>4. g = [n \in 0 .. N |-> IF n = 0 THEN {} ELSE g[n - 1] \cup Tier(g[n - 1])]
  <2>1. \A n \in 0 .. N : n # 0 => n - 1 \in 0 .. N
    BY <1>1
  <2> QED BY <2>1, <1>1, <1>2, <1>3 DEF IsChain
<1> DEFINE p == PlacedWithin
<1>5. p = [n \in 0 .. N |-> IF n = 0 THEN {} ELSE p[n - 1] \cup Tier(p[n - 1])]
  BY <1>4 DEF PlacedWithin
<1> HIDE DEF p
<1>6. \A i \in 0 .. N : p[i] \in SUBSET Steps
  <2> DEFINE T == {i \in 0 .. N : p[i] \notin SUBSET Steps}
  <2> SUFFICES ASSUME T # {} PROVE FALSE
    OBVIOUS
  <2>1. PICK i \in T : \A j \in T : i <= j
    BY LeastOf, T \in SUBSET Nat
  <2>2. i \in 0 .. N /\ p[i] \notin SUBSET Steps
    BY <2>1
  <2>3. p[i] = IF i = 0 THEN {} ELSE p[i - 1] \cup Tier(p[i - 1])
    BY <2>2, <1>5
  <2>4. i # 0
    BY <2>2, <2>3
  <2>5. i - 1 \in 0 .. N /\ ~(i <= i - 1)
    BY <2>2, <2>4, <1>1
  <2>6. p[i - 1] \in SUBSET Steps
    BY <2>1, <2>5
  <2>7. p[i - 1] \cup Tier(p[i - 1]) \in SUBSET Steps
    BY <2>6 DEF Tier
  <2> QED BY <2>2, <2>3, <2>4, <2>7
<1>7. IsChain(p, F, {}, N)
  <2>1. \A n \in 0 .. N : n # 0 => n - 1 \in 0 .. N
    BY <1>1
  <2>2. \A n \in 0 .. N : n # 0 => F[p[n - 1]] = p[n - 1] \cup Tier(p[n - 1])
    BY <2>1, <1>1, <1>6
  <2>3. p = [n \in 0 .. N |-> IF n = 0 THEN {} ELSE F[p[n - 1]]]
    BY <2>2, <1>5
  <2> QED BY <2>3 DEF IsChain
<1>8. F[p[N]] = p[N] /\ p[N] \in SUBSET Steps
  BY <1>1, <1>7, ChainRests
<1>9. Tier(p[N]) = {}
  <2>1. p[N] \cup Tier(p[N]) = p[N]
    BY <1>1, <1>8
  <2> QED BY <2>1 DEF Tier
<1>10. ASSUME NEW R \in SUBSET Steps, \A Y \in SUBSET R : Tier(Y) \subseteq R
       PROVE  p[N] \subseteq R
  <2>1. \A Y \in SUBSET R : F[Y] \subseteq R
    BY <1>1, <1>10
  <2> DEFINE X == {}
  <2>2. X \in SUBSET Steps /\ X \subseteq R /\ IsChain(p, F, X, N)
    BY <1>7
  <2> HIDE DEF X
  <2>3. /\ F \in [SUBSET Steps -> SUBSET Steps]
        /\ \A Y \in SUBSET Steps : Y \subseteq F[Y]
    BY <1>1
  <2> QED BY <2>1, <2>2, <2>3, ChainWithin
<1> QED BY <1>8, <1>9, <1>10 DEF p

LEMMA LeadsToClosed ==
    ASSUME plan \in Plans, NEW c \in Steps
    PROVE  /\ c \in LeadsTo(c) /\ LeadsTo(c) \in SUBSET Steps
           /\ \A t \in LeadsTo(c) : Edges(t) \subseteq LeadsTo(c)
<1> DEFINE On(Y) == Y \cup UNION {Edges(t) : t \in Y}
           F == [Y \in SUBSET Steps |-> On(Y)]
           Walked(w) == w = [n \in 0 .. N |-> IF n = 0 THEN {c} ELSE On(w[n - 1])]
           p == CHOOSE w : Walked(w)
<1>1. /\ N \in Nat /\ {c} \in SUBSET Steps
      /\ F \in [SUBSET Steps -> SUBSET Steps]
      /\ \A Y \in SUBSET Steps : Y \subseteq F[Y] /\ F[Y] = On(Y) /\ On(Y) \in SUBSET Steps
  BY PlanTyped DEF Edges
<1>2. LeadsTo(c) = p[N]
  BY DEF LeadsTo
<1> HIDE DEF F
<1>3. PICK g : IsChain(g, F, {c}, N)
  BY <1>1, ChainExists
<1>4. \A i \in 0 .. N : g[i] \in SUBSET Steps
  BY <1>1, <1>3, ChainRests
<1>5. \A n \in 0 .. N : n # 0 => n - 1 \in 0 .. N
  BY <1>1
<1>6. Walked(g)
  <2> HIDE DEF On
  <2> QED BY <1>1, <1>3, <1>4, <1>5 DEF IsChain
<1>7. Walked(p)
  <2> HIDE DEF Walked
  <2> QED BY <1>6
<1> HIDE DEF p, On
<1>8. \A i \in 0 .. N : p[i] \in SUBSET Steps
  <2> DEFINE T == {i \in 0 .. N : p[i] \notin SUBSET Steps}
  <2> SUFFICES ASSUME T # {} PROVE FALSE
    OBVIOUS
  <2>1. PICK i \in T : \A j \in T : i <= j
    BY LeastOf, T \in SUBSET Nat
  <2>2. i \in 0 .. N /\ p[i] \notin SUBSET Steps
    BY <2>1
  <2>3. p[i] = IF i = 0 THEN {c} ELSE On(p[i - 1])
    BY <2>2, <1>7
  <2>4. i # 0
    BY <2>2, <2>3, <1>1
  <2>5. i - 1 \in 0 .. N /\ ~(i <= i - 1)
    BY <2>2, <2>4, <1>1
  <2>6. p[i - 1] \in SUBSET Steps
    BY <2>1, <2>5
  <2> QED BY <2>2, <2>3, <2>4, <2>6, <1>1
<1>9. IsChain(p, F, {c}, N)
  <2>1. \A n \in 0 .. N : n # 0 => F[p[n - 1]] = On(p[n - 1])
    BY <1>1, <1>5, <1>8
  <2> QED BY <2>1, <1>7 DEF IsChain
<1>10. F[p[N]] = p[N] /\ p[N] \in SUBSET Steps /\ c \in p[N]
  BY <1>1, <1>9, ChainRests
<1>11. \A t \in p[N] : Edges(t) \subseteq p[N]
  <2>1. On(p[N]) = p[N]
    BY <1>1, <1>10
  <2> QED BY <2>1 DEF On
<1> QED BY <1>2, <1>10, <1>11

-----------------------------------------------------------------------------
LEMMA InvIsOrdered == BindingInv => CompiledPlansOrdered
<1> SUFFICES ASSUME BindingInv PROVE CompiledPlansOrdered
  OBVIOUS
<1>1. /\ plan \in Plans /\ OnStack \subseteq Steps /\ Ordered = OnStack \cup Assigned
      /\ Assigned \subseteq Steps
  BY OrderTypes DEF BindingInv, WalkType, WalkShape, StackSorted, Assigned
<1>2. ASSUME verdict \in {"binding-cycle", "accepted"}
      PROVE  Assigned = Steps /\ (verdict = "binding-cycle" <=> CapturesCycle)
  <2>1. Ordered = Steps /\ frames = <<>> /\ (verdict = "binding-cycle" <=> CapturesCycle)
    BY <1>2 DEF BindingInv, Judged
  <2>2. OnStack = {}
    BY <2>1 DEF BindingInv, WalkShape, FramesOnStack
  <2> QED BY <2>1, <2>2, <1>1
<1>3. ASSUME verdict = "accepted" PROVE Cyclic = {}
  <2> DEFINE C == Steps \ PlacedWithin[N]
  <2>1. Cyclic = C
    BY DEF Cyclic
  <2>2. \A s \in C : Edges(s) \cap C # {}
    <3> SUFFICES ASSUME NEW s \in C, Edges(s) \cap C = {} PROVE FALSE
      OBVIOUS
    <3>1. Dependencies(s) = Edges(s) /\ Edges(s) \subseteq Steps
      BY DEF Dependencies, Edges
    <3>2. s \in Tier(PlacedWithin[N])
      BY <3>1 DEF Tier
    <3> QED BY <3>2, <1>1, TiersRest
  <2>3. Assigned = Steps /\ ~CapturesCycle
    BY <1>2, <1>3
  <2> SUFFICES ASSUME C # {} PROVE FALSE
    BY <2>1
  <2>4. \E s \in C : \E c \in plan[s].captures \cap C : component[s] = component[c]
    <3> HIDE DEF C
    <3>1. C \in SUBSET Assigned
      BY <2>3 DEF C
    <3> QED BY <2>2, <3>1 DEF BindingInv, CyclesCaught
  <2> QED BY <2>3, <2>4 DEF CapturesCycle
<1>4. ASSUME verdict = "binding-cycle"
      PROVE  \E s \in Steps : \E c \in plan[s].captures \cap Steps : s \in LeadsTo(c)
  <2>1. Assigned = Steps /\ CapturesCycle
    BY <1>2, <1>4
  <2>2. PICK s \in Steps : \E c \in plan[s].captures \cap Steps : component[s] = component[c]
    BY <2>1 DEF CapturesCycle
  <2>a. PICK c \in plan[s].captures \cap Steps : component[s] = component[c]
    BY <2>2
  <2>3. Reaches(c, s)
    BY <2>1, <2>a DEF BindingInv, WalkLinks, ComponentsReach
  <2>4. s \in LeadsTo(c)
    BY <2>3, <1>1, LeadsToClosed DEF Reaches
  <2> QED BY <2>4
<1> QED BY <1>3, <1>4 DEF CompiledPlansOrdered

(* Compilation's components and scoring's tiers agree (bindings.ts against *)
(* binding-order.ts): every step of an accepted plan is placed by the      *)
(* tiers, and a plan refused for a cycle has one.                          *)
THEOREM CompiledPlansOrderedHolds == Spec => []CompiledPlansOrdered
BY BindingInvariant, InvIsOrdered, PTL

-----------------------------------------------------------------------------
(* selection.ts over any plan, record and captured values: a walk is the   *)
(* selections after 0, 1, ..., N passes over the anchors.                  *)
OneIn(pl, rec, s, matched) ==
    IF matched = {} THEN Absent
    ELSE IF Cardinality(matched) > 1 /\ pl[s].cardinality # "any" THEN Ambiguous
    ELSE [status |-> "resolved", value |-> rec[Min(matched)].body, sequence |-> Min(matched)]

FilteredIn(pl, rec, s, anchor, values) ==
    IF (HasParent(pl, s) /\ ~IsOne(anchor)) \/ \E c \in pl[s].captures : ~IsOne(values[<<s, c>>])
    THEN {}
    ELSE {i \in DOMAIN rec :
            /\ s \in rec[i].fits
            /\ HasParent(pl, s) => i > anchor.sequence
            /\ \A c \in pl[s].captures :
                  /\ i > values[<<s, c>>].sequence
                  /\ rec[i].given # Missing
                  /\ rec[i].given = values[<<s, c>>].value}

AnchorIn(pl, rec, s, w) ==
    IF HasParent(pl, s) THEN OneIn(pl, rec, pl[s].after, w[pl[s].after]) ELSE Absent

IsWalk(pl, rec, p, values) ==
    p = [n \in 0 .. N |->
            [s \in Steps |->
                IF n = 0 THEN {} ELSE FilteredIn(pl, rec, s, AnchorIn(pl, rec, s, p[n - 1]), values)]]

LEMMA InState ==
    /\ \A s, matched : One(s, matched) = OneIn(plan, record, s, matched)
    /\ \A s, anchor, values : Filtered(s, anchor, values) = FilteredIn(plan, record, s, anchor, values)
<1>1. \A s, matched : One(s, matched) = OneIn(plan, record, s, matched)
  BY DEF One, OneIn, From
<1>2. \A s, anchor, values :
         Filtered(s, anchor, values) = FilteredIn(plan, record, s, anchor, values)
  BY DEF Filtered, FilteredIn
<1> QED BY <1>1, <1>2

LEMMA WalkExists ==
    ASSUME NEW pl, NEW rec, NEW values
    PROVE  \E p : IsWalk(pl, rec, p, values)
<1> DEFINE On(w) == [s \in Steps |-> FilteredIn(pl, rec, s, AnchorIn(pl, rec, s, w), values)]
           W == [Steps -> SUBSET DOMAIN rec]
           F == [w \in W |-> On(w)]
           X == [s \in Steps |-> {}]
<1>1. N \in Nat
  BY PlanAssumption
<1>2. \A s, anchor : FilteredIn(pl, rec, s, anchor, values) \in SUBSET DOMAIN rec
  BY DEF FilteredIn
<1>3. X \in W /\ \A w : On(w) \in W
  BY <1>2
<1> HIDE DEF On, W
<1>4. \A w \in W : F[w] = On(w)
  OBVIOUS
<1> HIDE DEF F, X
<1>5. PICK g : IsChain(g, F, X, N)
  BY <1>1, ChainExists
<1>6. g = [i \in 0 .. N |-> IF i = 0 THEN X ELSE F[g[i - 1]]]
  BY <1>5 DEF IsChain
<1>7. \A i \in 0 .. N : g[i] \in W
  <2> DEFINE T == {i \in 0 .. N : g[i] \notin W}
  <2> SUFFICES ASSUME T # {} PROVE FALSE
    OBVIOUS
  <2>1. PICK i \in T : \A j \in T : i <= j
    BY LeastOf, T \in SUBSET Nat
  <2>2. i \in 0 .. N /\ g[i] \notin W /\ g[i] = IF i = 0 THEN X ELSE F[g[i - 1]]
    BY <2>1, <1>6
  <2>3. i # 0
    BY <2>2, <1>3
  <2>4. i - 1 \in 0 .. N /\ ~(i <= i - 1)
    BY <2>2, <2>3, <1>1
  <2>5. g[i - 1] \in W
    BY <2>1, <2>4
  <2> QED BY <2>2, <2>3, <2>5, <1>3, <1>4
<1>8. \A i \in 0 .. N : g[i] = IF i = 0 THEN X ELSE On(g[i - 1])
  <2>1. \A i \in 0 .. N : i # 0 => i - 1 \in 0 .. N
    BY <1>1
  <2> QED BY <2>1, <1>4, <1>6, <1>7
<1>9. \A i \in 0 .. N :
         g[i] = [s \in Steps |->
                   IF i = 0 THEN {}
                   ELSE FilteredIn(pl, rec, s, AnchorIn(pl, rec, s, g[i - 1]), values)]
  BY <1>8 DEF X, On
<1>10. g = [i \in 0 .. N |-> g[i]]
  BY <1>6
<1>11. IsWalk(pl, rec, g, values)
  BY <1>9, <1>10 DEF IsWalk
<1> QED BY <1>11

LEMMA WalkFacts ==
    ASSUME NEW pl, NEW rec, NEW values, NEW p, IsWalk(pl, rec, p, values)
    PROVE  /\ \A s \in Steps : p[0][s] = {}
           /\ \A n \in 1 .. N : \A s \in Steps :
                 p[n][s] = FilteredIn(pl, rec, s, AnchorIn(pl, rec, s, p[n - 1]), values)
<1>1. N \in Nat
  BY PlanAssumption
<1> DEFINE Pass(n) == [s \in Steps |->
              IF n = 0 THEN {} ELSE FilteredIn(pl, rec, s, AnchorIn(pl, rec, s, p[n - 1]), values)]
<1>2. \A n \in 0 .. N : p[n] = Pass(n)
  <2> HIDE DEF Pass
  <2>1. p = [n \in 0 .. N |-> Pass(n)]
    BY DEF IsWalk, Pass
  <2> QED BY <2>1
<1>3. 0 \in 0 .. N /\ \A n \in 1 .. N : n \in 0 .. N /\ n # 0
  BY <1>1
<1> QED BY <1>2, <1>3

(* A walk is known, as far as the anchors of P go, from what P captured.   *)
LEMMA WalksAgree ==
    ASSUME NEW pl, NEW rec, NEW P \in SUBSET Steps,
           \A s \in P : HasParent(pl, s) => pl[s].after \in P,
           NEW v, NEW w, \A s \in P : \A c \in pl[s].captures : v[<<s, c>>] = w[<<s, c>>],
           NEW p, NEW q, IsWalk(pl, rec, p, v), IsWalk(pl, rec, q, w)
    PROVE  \A n \in 0 .. N : \A s \in P : p[n][s] = q[n][s]
<1> DEFINE T == {n \in 0 .. N : ~\A s \in P : p[n][s] = q[n][s]}
<1> SUFFICES ASSUME T # {} PROVE FALSE
  OBVIOUS
<1>1. PICK n \in T : \A j \in T : n <= j
  BY LeastOf, T \in SUBSET Nat
<1>2. PICK s \in P : p[n][s] # q[n][s]
  BY <1>1
<1>3. n \in 0 .. N /\ n # 0
  <2>1. p[0][s] = {}
    BY WalkFacts
  <2>2. q[0][s] = {}
    BY WalkFacts
  <2>3. n \in 0 .. N
    BY <1>1
  <2>4. n = 0 => p[n][s] = q[n][s]
    BY <2>1, <2>2
  <2> QED BY <2>3, <2>4, <1>2
<1>4. n \in 1 .. N /\ n - 1 \in 0 .. N /\ ~(n <= n - 1)
  BY <1>3, PlanAssumption
<1>5. \A t \in P : p[n - 1][t] = q[n - 1][t]
  BY <1>1, <1>4
<1>6. AnchorIn(pl, rec, s, p[n - 1]) = AnchorIn(pl, rec, s, q[n - 1])
  <2>1. HasParent(pl, s) => p[n - 1][pl[s].after] = q[n - 1][pl[s].after]
    BY <1>5
  <2> QED BY <2>1 DEF AnchorIn
<1>7. \A a : FilteredIn(pl, rec, s, a, v) = FilteredIn(pl, rec, s, a, w)
  BY DEF FilteredIn
<1>8. /\ p[n][s] = FilteredIn(pl, rec, s, AnchorIn(pl, rec, s, p[n - 1]), v)
      /\ q[n][s] = FilteredIn(pl, rec, s, AnchorIn(pl, rec, s, q[n - 1]), w)
  BY <1>4, WalkFacts
<1> QED BY <1>2, <1>6, <1>7, <1>8

(* The selections themselves: the walk's last pass.                        *)
LEMMA SelectionsWalk ==
    \A values : \E p : IsWalk(plan, record, p, values) /\ Selections(values) = p[N]
<1> TAKE values
<1> DEFINE Pass(p, n) ==
              [s \in Steps |->
                IF n = 0 THEN {}
                ELSE LET anchor == IF HasParent(plan, s)
                                   THEN One(plan[s].after, p[n - 1][plan[s].after])
                                   ELSE Absent
                     IN Filtered(s, anchor, values)]
           Walk(p) == p = [n \in 0 .. N |-> Pass(p, n)]
           p == CHOOSE w : Walk(w)
<1>1. Selections(values) = p[N]
  BY DEF Selections
<1>2. \A w : Walk(w) <=> IsWalk(plan, record, w, values)
  <2> TAKE w
  <2>1. \A n : Pass(w, n) =
          [s \in Steps |->
            IF n = 0 THEN {}
            ELSE FilteredIn(plan, record, s, AnchorIn(plan, record, s, w[n - 1]), values)]
    BY InState DEF AnchorIn
  <2> HIDE DEF Pass
  <2> QED BY <2>1 DEF IsWalk
<1> HIDE DEF Walk
<1>3. Walk(p)
  BY <1>2, WalkExists
<1> HIDE DEF p
<1> QED BY <1>1, <1>2, <1>3

(* The last pass changes nothing: an anchor chain that does not end within *)
(* N steps has come back on itself, and selects nothing.                   *)
LEMMA WalkRests ==
    ASSUME plan \in Plans, NEW rec, NEW values, NEW p, IsWalk(plan, rec, p, values)
    PROVE  \A s \in Steps :
              p[N][s] = FilteredIn(plan, rec, s, AnchorIn(plan, rec, s, p[N]), values)
<1> DEFINE On(Y) == Y \cup {s \in Steps : HasParent(plan, s) => plan[s].after \in Y}
           F == [Y \in SUBSET Steps |-> On(Y)]
<1>1. /\ N \in Nat /\ N # 0 /\ {} \in SUBSET Steps
      /\ F \in [SUBSET Steps -> SUBSET Steps]
      /\ \A Y \in SUBSET Steps : Y \subseteq F[Y] /\ F[Y] = On(Y)
  BY PlanTyped
<1>2. \A s \in Steps : HasParent(plan, s) => plan[s].after \in Steps
  BY PlanTyped DEF HasParent
<1> HIDE DEF F
<1>3. PICK a : IsChain(a, F, {}, N)
  BY <1>1, ChainExists
<1>4. /\ \A i \in 0 .. N : a[i] \in SUBSET Steps
      /\ F[a[N]] = a[N]
  BY <1>1, <1>3, ChainRests
<1>5. a[0] = {} /\ \A i \in 1 .. N : a[i] = On(a[i - 1])
  <2>1. a[0] = {} /\ \A i \in 1 .. N : a[i] = F[a[i - 1]]
    <3>1. a = [i \in 0 .. N |-> IF i = 0 THEN {} ELSE F[a[i - 1]]]
      BY <1>3 DEF IsChain
    <3>2. 0 \in 0 .. N /\ \A i \in 1 .. N : i \in 0 .. N /\ i # 0
      BY <1>1
    <3> QED BY <3>1, <3>2
  <2>2. \A i \in 1 .. N : i - 1 \in 0 .. N
    BY <1>1
  <2> QED BY <2>1, <2>2, <1>1, <1>4
<1>6. /\ \A s \in Steps : p[0][s] = {}
      /\ \A n \in 1 .. N : \A s \in Steps :
            p[n][s] = FilteredIn(plan, rec, s, AnchorIn(plan, rec, s, p[n - 1]), values)
  BY WalkFacts
<1>7. \A n \in 0 .. N : \A s \in Steps \ a[n] : p[n][s] = {}
  <2> DEFINE T == {n \in 0 .. N : ~\A s \in Steps \ a[n] : p[n][s] = {}}
  <2> SUFFICES ASSUME T # {} PROVE FALSE
    OBVIOUS
  <2>1. PICK n \in T : \A j \in T : n <= j
    BY LeastOf, T \in SUBSET Nat
  <2>2. PICK s \in Steps \ a[n] : p[n][s] # {}
    BY <2>1
  <2>3. n \in 1 .. N /\ n - 1 \in 0 .. N /\ ~(n <= n - 1)
    <3>1. n \in 0 .. N
      BY <2>1
    <3>2. n # 0
      BY <2>2, <1>6
    <3> QED BY <3>1, <3>2, <1>1
  <2>4. HasParent(plan, s) /\ plan[s].after \notin a[n - 1]
    BY <2>2, <2>3, <1>5
  <2>5. p[n - 1][plan[s].after] = {}
    BY <2>1, <2>3, <2>4, <1>2
  <2>6. ~IsOne(AnchorIn(plan, rec, s, p[n - 1]))
    <3>1. OneIn(plan, rec, plan[s].after, {}) = Absent
      BY DEF OneIn
    <3>2. AnchorIn(plan, rec, s, p[n - 1]) = Absent
      BY <2>4, <2>5, <3>1 DEF AnchorIn
    <3>3. ~IsOne(Absent)
      BY DEF IsOne, Absent
    <3> QED BY <3>2, <3>3
  <2>7. p[n][s] = {}
    BY <2>3, <2>4, <2>6, <1>6 DEF FilteredIn
  <2> QED BY <2>2, <2>7
<1>8. \A n \in 1 .. N : \A s \in a[n] : HasParent(plan, s) => plan[s].after \in a[n - 1]
  <2> DEFINE T == {n \in 1 .. N : ~\A s \in a[n] : HasParent(plan, s) => plan[s].after \in a[n - 1]}
  <2> SUFFICES ASSUME T # {} PROVE FALSE
    OBVIOUS
  <2>1. PICK n \in T : \A j \in T : n <= j
    BY LeastOf, T \in SUBSET Nat
  <2>2. PICK s \in a[n] : HasParent(plan, s) /\ plan[s].after \notin a[n - 1]
    BY <2>1
  <2>3. n \in 1 .. N
    BY <2>1
  <2>4. s \in a[n - 1]
    BY <2>2, <2>3, <1>5
  <2>5. n # 1
    BY <2>4, <1>5
  <2>6. n - 1 \in 1 .. N /\ ~(n <= n - 1)
    BY <2>3, <2>5, <1>1
  <2>7. plan[s].after \in a[n - 1 - 1]
    BY <2>1, <2>2, <2>4, <2>6
  <2>8. a[n - 1 - 1] \subseteq a[n - 1]
    BY <2>6, <1>5
  <2> QED BY <2>2, <2>7, <2>8
<1>9. \A n \in 1 .. N : \A s \in a[n - 1] : p[n][s] = p[n - 1][s]
  <2> DEFINE T == {n \in 1 .. N : ~\A s \in a[n - 1] : p[n][s] = p[n - 1][s]}
  <2> SUFFICES ASSUME T # {} PROVE FALSE
    OBVIOUS
  <2>1. PICK n \in T : \A j \in T : n <= j
    BY LeastOf, T \in SUBSET Nat
  <2>2. PICK s \in a[n - 1] : p[n][s] # p[n - 1][s]
    BY <2>1
  <2>3. n \in 1 .. N /\ n # 1
    BY <2>1, <2>2, <1>5
  <2>4. n - 1 \in 1 .. N /\ n - 1 \in 0 .. N /\ ~(n <= n - 1)
    BY <2>3, <1>1
  <2>5. s \in Steps
    BY <2>2, <2>4, <1>4
  <2>6. \A t \in a[n - 1 - 1] : p[n - 1][t] = p[n - 1 - 1][t]
    BY <2>1, <2>4
  <2>7. HasParent(plan, s) => plan[s].after \in a[n - 1 - 1]
    BY <2>2, <2>4, <1>8
  <2>8. HasParent(plan, s) => p[n - 1][plan[s].after] = p[n - 1 - 1][plan[s].after]
    BY <2>6, <2>7
  <2>9. AnchorIn(plan, rec, s, p[n - 1]) = AnchorIn(plan, rec, s, p[n - 1 - 1])
    BY <2>8 DEF AnchorIn
  <2>10. p[n][s] = p[n - 1][s]
    BY <2>3, <2>4, <2>5, <2>9, <1>6
  <2> QED BY <2>2, <2>10
<1> SUFFICES ASSUME NEW s \in Steps
             PROVE  p[N][s] = FilteredIn(plan, rec, s, AnchorIn(plan, rec, s, p[N]), values)
  OBVIOUS
<1>10. N \in 1 .. N /\ N - 1 \in 0 .. N /\ N \in 0 .. N
  BY <1>1
<1>11. p[N][s] = FilteredIn(plan, rec, s, AnchorIn(plan, rec, s, p[N - 1]), values)
  BY <1>6, <1>10
<1>12. ASSUME HasParent(plan, s) PROVE p[N][plan[s].after] = p[N - 1][plan[s].after]
  <2> DEFINE t == plan[s].after
  <2>1. t \in Steps
    BY <1>2, <1>12
  <2>2. CASE t \in a[N - 1]
    BY <2>2, <1>9, <1>10
  <2>3. CASE t \notin a[N - 1]
    <3>1. t \notin a[N]
      <4> SUFFICES ASSUME t \in a[N] PROVE FALSE
        OBVIOUS
      <4>1. s \in On(a[N])
        OBVIOUS
      <4>2. s \in a[N]
        BY <4>1, <1>1, <1>4, <1>10
      <4> QED BY <4>2, <2>3, <1>8, <1>10, <1>12
    <3>2. p[N][t] = {} /\ p[N - 1][t] = {}
      BY <2>1, <2>3, <3>1, <1>7, <1>10
    <3> QED BY <3>2
  <2> QED BY <2>2, <2>3
<1>13. AnchorIn(plan, rec, s, p[N - 1]) = AnchorIn(plan, rec, s, p[N])
  BY <1>12 DEF AnchorIn
<1> QED BY <1>11, <1>13

-----------------------------------------------------------------------------
SourceIn(pl, rec, p, c) == IF c \in Steps THEN OneIn(pl, rec, c, p[N][c]) ELSE Absent

(* The tiers done so far are closed under what they depend on...           *)
TiersClosed ==
    /\ placed \in SUBSET Steps /\ tier \in SUBSET (Steps \ placed)
    /\ \A s \in placed \cup tier : Dependencies(s) \subseteq placed
    /\ stage \in {"compile", "record"} => placed = {}
    /\ stage = "selected" => Tier(placed) = {}

(* ... and what their steps captured is still what it would resolve to.    *)
PlacedStable ==
    \E p : /\ IsWalk(plan, record, p, resolved)
           /\ \A s \in placed : \A c \in plan[s].captures :
                 resolved[<<s, c>>] = SourceIn(plan, record, p, c)

UnplacedUnlisted ==
    \A s \in Steps \ placed : \A c \in plan[s].captures : resolved[<<s, c>>] = Unlisted

ResolveInv == plan \in Plans /\ TiersClosed /\ PlacedStable /\ UnplacedUnlisted

LEMMA CapturedIn ==
    ASSUME plan \in Plans, NEW values, NEW p, IsWalk(plan, record, p, values)
    PROVE  /\ \A c : CapturedValue(c, values) = SourceIn(plan, record, p, c)
           /\ \A s \in Steps : Selections(values)[s] = p[N][s]
<1>1. PICK q : IsWalk(plan, record, q, values) /\ Selections(values) = q[N]
  BY SelectionsWalk
<1>2. \A s \in Steps : HasParent(plan, s) => plan[s].after \in Steps
  BY PlanTyped DEF HasParent
<1>3. \A n \in 0 .. N : \A s \in Steps : p[n][s] = q[n][s]
  BY <1>1, <1>2, WalksAgree
<1>4. N \in 0 .. N
  BY PlanTyped
<1>5. \A s \in Steps : Selections(values)[s] = p[N][s]
  BY <1>1, <1>3, <1>4
<1>6. \A c \in Steps : One(c, Selections(values)[c]) = OneIn(plan, record, c, p[N][c])
  BY <1>5, InState
<1>7. \A c : CapturedValue(c, values) = SourceIn(plan, record, p, c)
  BY <1>6 DEF CapturedValue, SourceIn
<1> QED BY <1>5, <1>7

LEMMA ResolveInitInv == Init => ResolveInv
<1> SUFFICES ASSUME Init PROVE ResolveInv
  OBVIOUS
<1>1. /\ plan \in Plans /\ stage = "compile" /\ placed = {} /\ tier = {}
      /\ resolved = [site \in Sites |-> Unlisted]
  BY DEF Init, CompileInit
<1>2. TiersClosed
  BY <1>1 DEF TiersClosed
<1>3. PlacedStable
  BY <1>1, WalkExists DEF PlacedStable
<1>4. \A s \in Steps : \A c \in plan[s].captures : <<s, c>> \in Sites
  BY <1>1, PlanTyped DEF StepShape, Sites
<1>5. UnplacedUnlisted
  BY <1>1, <1>4 DEF UnplacedUnlisted
<1> QED BY <1>1, <1>2, <1>3, <1>5 DEF ResolveInv

LEMMA ResolveStepKeeps == ResolveInv /\ ResolveStep => ResolveInv'
<1> SUFFICES ASSUME ResolveInv, ResolveStep PROVE ResolveInv'
  OBVIOUS
<1> DEFINE s == Min(tier)
<1>1. /\ stage = "resolve" /\ tier # {}
      /\ resolved' = [site \in Sites |->
                        IF site[1] = s /\ site[2] \in plan[s].captures
                        THEN CapturedValue(site[2], resolved)
                        ELSE resolved[site]]
      /\ tier' = tier \ {s} /\ placed' = placed \cup {s}
      /\ UNCHANGED <<plan, stage, record>>
  BY DEF ResolveStep, compileVars
<1>2. /\ plan \in Plans /\ placed \in SUBSET Steps /\ tier \in SUBSET (Steps \ placed)
      /\ \A t \in placed \cup tier : Dependencies(t) \subseteq placed
  BY DEF ResolveInv, TiersClosed
<1>3. s \in tier
  <2>1. tier \in SUBSET Nat
    BY <1>2, PlanTyped DEF Steps
  <2>2. \E i \in tier : \A j \in tier : i <= j
    BY <1>1, <2>1, LeastOf
  <2> QED BY <2>2 DEF Min
<1> HIDE DEF s
<1>4. \A t \in Steps : \A c \in plan[t].captures : <<t, c>> \in Sites
  BY <1>2, PlanTyped DEF StepShape, Sites
<1>5. \A t \in Steps \ {s} : \A c \in plan[t].captures : resolved'[<<t, c>>] = resolved[<<t, c>>]
  BY <1>1, <1>4
<1>6. \A c \in plan[s].captures : resolved'[<<s, c>>] = CapturedValue(c, resolved)
  BY <1>1, <1>2, <1>3, <1>4
<1>7. \A t : Dependencies(t)' = Dependencies(t)
  BY <1>1 DEF Dependencies
<1>8. TiersClosed'
  <2>1. placed' \in SUBSET Steps /\ tier' \in SUBSET (Steps \ placed')
    BY <1>1, <1>2, <1>3
  <2>2. \A t \in placed' \cup tier' : Dependencies(t) \subseteq placed'
    BY <1>1, <1>2, <1>3
  <2> QED BY <2>1, <2>2, <1>1, <1>7 DEF TiersClosed
<1>9. UnplacedUnlisted'
  <2> SUFFICES ASSUME NEW t \in Steps \ placed', NEW c \in plan[t].captures
               PROVE  resolved'[<<t, c>>] = Unlisted
    BY <1>1 DEF UnplacedUnlisted
  <2>1. t \in Steps \ placed /\ t # s
    BY <1>1
  <2>2. resolved[<<t, c>>] = Unlisted
    BY <2>1 DEF ResolveInv, UnplacedUnlisted
  <2> QED BY <2>1, <2>2, <1>5
<1>10. PlacedStable'
  <2>1. PICK p : /\ IsWalk(plan, record, p, resolved)
                 /\ \A t \in placed : \A c \in plan[t].captures :
                       resolved[<<t, c>>] = SourceIn(plan, record, p, c)
    BY DEF ResolveInv, PlacedStable
  <2>2. PICK q : IsWalk(plan, record, q, resolved')
    BY WalkExists
  <2>3. \A t \in placed : HasParent(plan, t) => plan[t].after \in placed
    BY <1>2, PlanTyped DEF HasParent, Dependencies
  <2>4. \A t \in placed : \A c \in plan[t].captures : resolved[<<t, c>>] = resolved'[<<t, c>>]
    BY <1>2, <1>3, <1>5
  <2>5. \A n \in 0 .. N : \A t \in placed : p[n][t] = q[n][t]
    BY <1>2, <2>1, <2>2, <2>3, <2>4, WalksAgree
  <2>6. N \in 0 .. N
    BY <1>2, PlanTyped
  <2>7. \A t \in placed \cup {s} : \A c \in plan[t].captures :
           SourceIn(plan, record, p, c) = SourceIn(plan, record, q, c)
    <3> SUFFICES ASSUME NEW t \in placed \cup {s}, NEW c \in plan[t].captures
                 PROVE  SourceIn(plan, record, p, c) = SourceIn(plan, record, q, c)
      OBVIOUS
    <3>1. c \in Steps => c \in placed
      BY <1>2, <1>3 DEF Dependencies
    <3>2. c \in Steps => p[N][c] = q[N][c]
      BY <3>1, <2>5, <2>6
    <3> QED BY <3>2 DEF SourceIn
  <2>8. \A c \in plan[s].captures : resolved'[<<s, c>>] = SourceIn(plan, record, q, c)
    BY <1>2, <1>6, <2>1, <2>7, CapturedIn
  <2>9. \A t \in placed : \A c \in plan[t].captures :
           resolved'[<<t, c>>] = SourceIn(plan, record, q, c)
    BY <2>1, <2>4, <2>7
  <2> QED BY <2>2, <2>8, <2>9, <1>1 DEF PlacedStable
<1> QED BY <1>1, <1>2, <1>8, <1>9, <1>10 DEF ResolveInv

LEMMA ResolveNextKeeps == ResolveInv /\ [Next]_vars => ResolveInv'
<1> SUFFICES ASSUME ResolveInv, [Next]_vars PROVE ResolveInv'
  OBVIOUS
<1> USE DEF ResolveInv
<1>1. CASE /\ UNCHANGED <<plan, placed, tier, resolved>> /\ stage' \in {"compile", "record", "resolve"}
           /\ record' = record \/ stage = "record"
           /\ stage' \in {"compile", "record"} => stage \in {"compile", "record"}
  <2>1. \A t : Dependencies(t)' = Dependencies(t)
    BY <1>1 DEF Dependencies
  <2>2. TiersClosed'
    BY <1>1, <2>1 DEF TiersClosed
  <2>3. UnplacedUnlisted'
    BY <1>1 DEF UnplacedUnlisted
  <2>4. PlacedStable'
    <3>1. CASE record' = record
      BY <3>1, <1>1 DEF PlacedStable
    <3>2. CASE stage = "record"
      <4>1. placed' = {}
        BY <3>2, <1>1 DEF TiersClosed
      <4> QED BY <4>1, WalkExists DEF PlacedStable
    <3> QED BY <3>1, <3>2, <1>1
  <2> QED BY <2>2, <2>3, <2>4, <1>1
<1>2. CASE OpenTier
  <2>1. /\ tier' = Tier(placed) /\ UNCHANGED <<plan, stage, record, resolved, placed>>
    BY <1>2 DEF OpenTier, compileVars
  <2>2. /\ \A t : Dependencies(t)' = Dependencies(t)
        /\ stage' = "resolve"
    BY <1>2, <2>1 DEF Dependencies, OpenTier
  <2>3. TiersClosed'
    BY <2>1, <2>2 DEF TiersClosed, Tier
  <2>4. UnplacedUnlisted' /\ PlacedStable'
    BY <2>1 DEF UnplacedUnlisted, PlacedStable
  <2> QED BY <2>1, <2>3, <2>4
<1>3. CASE ResolveStep
  BY <1>3, ResolveStepKeeps
<1>4. CASE Select \/ (UNCHANGED vars /\ stage = "selected")
  <2>1. /\ stage' = "selected" /\ Tier(placed) = {}
        /\ UNCHANGED <<plan, record, resolved, placed, tier>>
    BY <1>4 DEF Select, vars, compileVars, TiersClosed
  <2>2. \A t : Dependencies(t)' = Dependencies(t)
    BY <2>1 DEF Dependencies
  <2>3. Tier(placed)' = {}
    BY <2>1, <2>2 DEF Tier
  <2>4. TiersClosed'
    BY <2>1, <2>2, <2>3 DEF TiersClosed
  <2>5. UnplacedUnlisted' /\ PlacedStable'
    BY <2>1 DEF UnplacedUnlisted, PlacedStable
  <2> QED BY <2>1, <2>4, <2>5
<1>5. CASE UNCHANGED vars
  <2>1. UNCHANGED <<plan, stage, record, resolved, placed, tier>>
    BY <1>5 DEF vars, compileVars
  <2>2. \A t : Dependencies(t)' = Dependencies(t)
    BY <2>1 DEF Dependencies
  <2>3. Tier(placed)' = Tier(placed)
    BY <2>1, <2>2 DEF Tier
  <2>4. TiersClosed'
    BY <2>1, <2>2, <2>3 DEF TiersClosed
  <2>5. UnplacedUnlisted' /\ PlacedStable'
    BY <2>1 DEF UnplacedUnlisted, PlacedStable
  <2> QED BY <2>1, <2>4, <2>5
<1>6. CASE CompileStep
  <2>1. plan' = plan
    BY <1>6 DEF CompileStep, Compile, Refuse, StartWalk, FollowEdge, LeaveStep, JudgeCycle
  <2> QED BY <2>1, <1>1, <1>6 DEF CompileStep
<1>7. CASE OpenTrial \/ Observe \/ StartResolving
  BY <1>7, <1>1 DEF OpenTrial, Observe, StartResolving, compileVars
<1>8. CASE Selected
  BY <1>8, <1>5 DEF Selected
<1> QED BY <1>2, <1>3, <1>4, <1>5, <1>6, <1>7, <1>8 DEF Next

(* What is left out of the tiers waits for what is left out.               *)
LEMMA InvIsCausal == ResolveInv => CausalEvidence
<1> SUFFICES ASSUME ResolveInv, stage = "selected"
             PROVE  /\ Cyclic = {} => \A s \in Steps : \A c \in plan[s].captures :
                                         resolved[<<s, c>>] = CapturedValue(c, resolved)
                    /\ Causal
  BY DEF CausalEvidence, ResolutionStable, Causal
<1>1. plan \in Plans /\ placed \in SUBSET Steps /\ Tier(placed) = {}
  BY DEF ResolveInv, TiersClosed
<1>2. PICK p : /\ IsWalk(plan, record, p, resolved)
               /\ \A s \in placed : \A c \in plan[s].captures :
                     resolved[<<s, c>>] = SourceIn(plan, record, p, c)
  BY DEF ResolveInv, PlacedStable
<1>3. \A s \in placed : \A c \in plan[s].captures : resolved[<<s, c>>] = CapturedValue(c, resolved)
  <2>1. \A c : CapturedValue(c, resolved) = SourceIn(plan, record, p, c)
    BY <1>1, <1>2, CapturedIn
  <2> QED BY <2>1, <1>2
<1>4. ASSUME Cyclic = {} PROVE placed = Steps
  <2>1. \A Y \in SUBSET placed : Tier(Y) \subseteq placed
    BY <1>1 DEF Tier
  <2>2. PlacedWithin[N] \subseteq placed
    BY <1>1, <2>1, TiersRest
  <2> QED BY <2>2, <1>1, <1>4 DEF Cyclic
<1>5. Causal
  <2> DEFINE chosen == Selections(resolved)
  <2>1. \A s \in Steps : chosen[s] = p[N][s]
    BY <1>1, <1>2, CapturedIn
  <2> HIDE DEF chosen
  <2> SUFFICES ASSUME NEW s \in Steps, NEW i \in chosen[s]
               PROVE  /\ HasParent(plan, s) =>
                           LET anchor == One(plan[s].after, chosen[plan[s].after]) IN
                           IsOne(anchor) /\ anchor.sequence < i
                      /\ \A c \in plan[s].captures :
                           LET source == CapturedValue(c, resolved) IN
                           /\ IsOne(source) /\ source.sequence < i
                           /\ source.value # Missing /\ record[i].given = source.value
    BY DEF Causal, chosen
  <2>2. i \in FilteredIn(plan, record, s, AnchorIn(plan, record, s, p[N]), resolved)
    BY <1>1, <1>2, <2>1, WalkRests
  <2>3. HasParent(plan, s) =>
           AnchorIn(plan, record, s, p[N]) = One(plan[s].after, chosen[plan[s].after])
    <3>1. HasParent(plan, s) => plan[s].after \in Steps
      BY <1>1, PlanTyped DEF HasParent
    <3> QED BY <3>1, <2>1, InState DEF AnchorIn
  <2>4. /\ HasParent(plan, s) => /\ IsOne(AnchorIn(plan, record, s, p[N]))
                                 /\ i > AnchorIn(plan, record, s, p[N]).sequence
        /\ \A c \in plan[s].captures :
              /\ IsOne(resolved[<<s, c>>]) /\ i > resolved[<<s, c>>].sequence
              /\ record[i].given # Missing /\ record[i].given = resolved[<<s, c>>].value
    BY <2>2 DEF FilteredIn
  <2>5. \A c \in plan[s].captures : resolved[<<s, c>>] = CapturedValue(c, resolved)
    <3>1. CASE s \in placed
      BY <3>1, <1>3
    <3>2. CASE s \notin placed
      <4>1. \A c \in plan[s].captures : ~IsOne(resolved[<<s, c>>])
        BY <3>2 DEF ResolveInv, UnplacedUnlisted, IsOne, Unlisted
      <4> QED BY <4>1, <2>4
    <3> QED BY <3>1, <3>2
  <2>6. ASSUME HasParent(plan, s)
        PROVE  LET anchor == One(plan[s].after, chosen[plan[s].after]) IN
               IsOne(anchor) /\ anchor.sequence < i
    BY <2>3, <2>4, <2>6
  <2>7. ASSUME NEW c \in plan[s].captures
        PROVE  LET source == CapturedValue(c, resolved) IN
               /\ IsOne(source) /\ source.sequence < i
               /\ source.value # Missing /\ record[i].given = source.value
    <3> DEFINE x == resolved[<<s, c>>]
    <3>1. x = CapturedValue(c, resolved)
      BY <2>5
    <3>2. /\ IsOne(x) /\ i > x.sequence
          /\ record[i].given # Missing /\ record[i].given = x.value
      BY <2>4
    <3> HIDE DEF x
    <3>3. x.sequence < i
      BY <3>2
    <3> QED BY <3>1, <3>2, <3>3
  <2> QED BY <2>6, <2>7
<1> QED BY <1>3, <1>4, <1>5

(* Whatever the plan, the tiers done so far are closed under what they     *)
(* depend on, and resolving what they captured again gives the same.       *)
THEOREM ResolveInvariant == Spec => []ResolveInv
BY ResolveInitInv, ResolveNextKeeps, PTL DEF Spec

(* Evidence is causal (selection.ts, bindings.ts): no observation is       *)
(* selected from before its anchor or its captured values, and what was    *)
(* captured tier by tier is what the whole plan selects.                   *)
THEOREM CausalEvidenceHolds == Spec => []CausalEvidence
BY ResolveInvariant, InvIsCausal, PTL

-----------------------------------------------------------------------------
(* The chain of a contract's revisions, and the coverage of its evidence.  *)

(* No artifact is archived twice, and each is a first issue or has a       *)
(* parent that was archived before it.                                     *)
IssuedAt(j) ==
    /\ archive[j] = [body |-> archive[j].body, parent |-> archive[j].parent,
                     count |-> archive[j].count]
    /\ archive[j].count \in Nat
    /\ archive[j].parent = <<>> \/ \E k \in 1 .. j - 1 : archive[j].parent = <<archive[k]>>

ArchiveInv ==
    /\ archive \in Seq(ToSet(archive))
    /\ \A j, k \in DOMAIN archive : archive[j] = archive[k] => j = k
    /\ \A j \in DOMAIN archive : IssuedAt(j)

Archived == ToSet(archive)

(* When an artifact was archived.                                          *)
Place(a) == CHOOSE j \in DOMAIN archive : archive[j] = a

LEMMA SetOf == ASSUME NEW s PROVE ToSet(s) = {s[i] : i \in DOMAIN s}
  BY DEF ToSet

LEMMA ArchivedArtifact ==
    ASSUME ArchiveInv, NEW a \in Archived
    PROVE  /\ Place(a) \in Nat /\ Place(a) \in DOMAIN archive /\ archive[Place(a)] = a
           /\ a.count \in Nat
           /\ \/ a.parent = <<>> /\ ToSet(a.parent) = {}
              \/ \E p \in Archived : /\ a.parent = <<p>> /\ ToSet(a.parent) = {p}
                                     /\ Place(p) < Place(a)
<1>1. PICK j \in DOMAIN archive : archive[j] = a
  BY SetOf DEF Archived
<1>2. DOMAIN archive = 1 .. Len(archive) /\ Len(archive) \in Nat
  BY DEF ArchiveInv
<1>3. \A k \in DOMAIN archive : Place(archive[k]) = k
  BY DEF ArchiveInv, Place
<1>4. Place(a) = j /\ j \in Nat
  BY <1>1, <1>2, <1>3
<1>5. IssuedAt(j)
  BY <1>1 DEF ArchiveInv
<1>6. a.count \in Nat
  BY <1>1, <1>5 DEF IssuedAt
<1>7. CASE a.parent = <<>>
  <2>1. ToSet(a.parent) = {}
    BY <1>7, SetOf
  <2> QED BY <1>1, <1>4, <1>6, <1>7, <2>1
<1>8. CASE a.parent # <<>>
  <2>1. PICK k \in 1 .. j - 1 : a.parent = <<archive[k]>>
    BY <1>1, <1>5, <1>8 DEF IssuedAt
  <2>2. k \in DOMAIN archive /\ k < j
    BY <1>2, <1>4, <2>1
  <2>3. archive[k] \in Archived
    BY <2>2, SetOf DEF Archived
  <2>4. DOMAIN a.parent = {1} /\ a.parent[1] = archive[k]
    BY <2>1
  <2>5. ToSet(a.parent) = {archive[k]}
    BY <2>4, SetOf
  <2>6. Place(archive[k]) < Place(a)
    BY <1>3, <1>4, <2>2
  <2> QED BY <1>1, <1>4, <1>6, <2>1, <2>3, <2>5, <2>6
<1> QED BY <1>7, <1>8

LEMMA ArchivedFinite ==
    ASSUME ArchiveInv
    PROVE  IsFiniteSet(Archived)
<1>1. IsFiniteSet(DOMAIN archive)
  <2>1. DOMAIN archive = 1 .. Len(archive) /\ Len(archive) \in Nat
    BY DEF ArchiveInv
  <2> QED BY <2>1, FS_Interval
<1>2. Archived = {archive[i] : i \in DOMAIN archive}
  BY SetOf DEF Archived
<1>3. IsFiniteSet({archive[i] : i \in DOMAIN archive})
  <2> DEFINE f == [i \in DOMAIN archive |-> archive[i]]
             T == {archive[i] : i \in DOMAIN archive}
  <2>1. f \in Surjection(DOMAIN archive, T)
    BY DEF Surjection
  <2> QED BY <1>1, <2>1, FS_Surjection
<1> QED BY <1>2, <1>3

(* The ancestry is the least set that holds the artifact and its parents'. *)
LEMMA AncestryLeast ==
    ASSUME NEW a \in Archived
    PROVE  /\ a \in Ancestry(a) /\ Ancestry(a) \subseteq Archived
           /\ HoldsParents(Archived) => HoldsParents(Ancestry(a))
           /\ \A kept \in SUBSET Archived : a \in kept /\ HoldsParents(kept) => Ancestry(a) \subseteq kept
<1>1. Ancestry(a) =
        {b \in Archived : \A kept \in SUBSET Archived : a \in kept /\ HoldsParents(kept) => b \in kept}
  BY DEF Ancestry, Archived
<1>2. a \in Ancestry(a) /\ Ancestry(a) \subseteq Archived
  BY <1>1
<1>3. \A kept \in SUBSET Archived : a \in kept /\ HoldsParents(kept) => Ancestry(a) \subseteq kept
  BY <1>1
<1>4. ASSUME HoldsParents(Archived) PROVE HoldsParents(Ancestry(a))
  <2> SUFFICES ASSUME NEW b \in Ancestry(a), NEW p \in ToSet(b.parent) PROVE p \in Ancestry(a)
    BY DEF HoldsParents
  <2>1. p \in Archived
    BY <1>1, <1>4 DEF HoldsParents
  <2>2. \A kept \in SUBSET Archived : a \in kept /\ HoldsParents(kept) => p \in kept
    <3> TAKE kept \in SUBSET Archived
    <3> HAVE a \in kept /\ HoldsParents(kept)
    <3>1. b \in kept
      BY <1>3
    <3> QED BY <3>1 DEF HoldsParents
  <2> QED BY <1>1, <2>1, <2>2
<1> QED BY <1>2, <1>3, <1>4

LEMMA ArchiveHoldsParents ==
    ASSUME ArchiveInv
    PROVE  HoldsParents(Archived)
BY ArchivedArtifact DEF HoldsParents

(* An ancestor was archived no later, and its ancestors are ancestors.     *)
LEMMA AncestorEarlier ==
    ASSUME ArchiveInv, NEW a \in Archived, NEW b \in Ancestry(a)
    PROVE  Place(b) <= Place(a) /\ Ancestry(b) \subseteq Ancestry(a)
<1> DEFINE K == {c \in Archived : Place(c) <= Place(a)}
<1>1. \A c \in Archived : Place(c) \in Nat
  BY ArchivedArtifact
<1>2. a \in K
  BY <1>1
<1>3. HoldsParents(K)
  <2> SUFFICES ASSUME NEW c \in K, NEW p \in ToSet(c.parent) PROVE p \in K
    BY DEF HoldsParents
  <2>1. p \in Archived /\ Place(p) < Place(c)
    BY ArchivedArtifact
  <2> QED BY <1>1, <2>1
<1>4. b \in Archived /\ b \in K
  BY <1>2, <1>3, AncestryLeast
<1>5. HoldsParents(Ancestry(a)) /\ Ancestry(a) \in SUBSET Archived
  BY AncestryLeast, ArchiveHoldsParents
<1>6. Ancestry(b) \subseteq Ancestry(a)
  BY <1>4, <1>5, AncestryLeast
<1> QED BY <1>4, <1>6

(* A first issue is its own ancestry; a revision's is its parent's and it. *)
LEMMA AncestryOfFirst ==
    ASSUME ArchiveInv, NEW a \in Archived, a.parent = <<>>
    PROVE  Ancestry(a) = {a}
<1>1. ToSet(a.parent) = {}
  BY ArchivedArtifact, SetOf
<1>2. HoldsParents({a})
  BY <1>1 DEF HoldsParents
<1> QED BY <1>2, AncestryLeast

LEMMA AncestryOfRevision ==
    ASSUME ArchiveInv, NEW a \in Archived, NEW p \in Archived, a.parent = <<p>>
    PROVE  Ancestry(a) = {a} \cup Ancestry(p) /\ a \notin Ancestry(p) /\ p \in Ancestry(a)
<1>1. ToSet(a.parent) = {p} /\ Place(p) < Place(a) /\ Place(p) \in Nat /\ Place(a) \in Nat
  <2>1. \A q : <<p>> = <<q>> => p = q
    OBVIOUS
  <2>2. <<p>> # <<>>
    OBVIOUS
  <2> QED BY <2>1, <2>2, ArchivedArtifact
<1>2. /\ HoldsParents(Ancestry(p)) /\ p \in Ancestry(p) /\ Ancestry(p) \subseteq Archived
      /\ HoldsParents(Ancestry(a)) /\ a \in Ancestry(a) /\ Ancestry(a) \subseteq Archived
  BY AncestryLeast, ArchiveHoldsParents
<1>3. HoldsParents({a} \cup Ancestry(p))
  BY <1>1, <1>2 DEF HoldsParents
<1>4. Ancestry(a) \subseteq {a} \cup Ancestry(p)
  <2>1. {a} \cup Ancestry(p) \in SUBSET Archived
    BY <1>2
  <2> QED BY <1>3, <2>1, AncestryLeast
<1>5. p \in Ancestry(a)
  BY <1>1, <1>2 DEF HoldsParents
<1>6. Ancestry(p) \subseteq Ancestry(a)
  BY <1>5, AncestorEarlier
<1>7. a \notin Ancestry(p)
  BY <1>1, AncestorEarlier
<1> QED BY <1>2, <1>4, <1>5, <1>6, <1>7

LEMMA AncestryCounted ==
    ASSUME ArchiveInv, NEW a \in Archived
    PROVE  /\ IsFiniteSet(Ancestry(a)) /\ Cardinality(Ancestry(a)) \in Nat
           /\ a.parent = <<>> => Cardinality(Ancestry(a)) = 1
           /\ \A p \in Archived : a.parent = <<p>> =>
                 Cardinality(Ancestry(a)) = Cardinality(Ancestry(p)) + 1
<1>1. \A b \in Archived : IsFiniteSet(Ancestry(b)) /\ Cardinality(Ancestry(b)) \in Nat
  <2> TAKE b \in Archived
  <2>1. IsFiniteSet(Ancestry(b))
    BY ArchivedFinite, AncestryLeast, FS_Subset
  <2> QED BY <2>1, FS_CardinalityType
<1>2. ASSUME a.parent = <<>> PROVE Cardinality(Ancestry(a)) = 1
  BY <1>2, AncestryOfFirst, FS_Singleton
<1>3. ASSUME NEW p \in Archived, a.parent = <<p>>
      PROVE  Cardinality(Ancestry(a)) = Cardinality(Ancestry(p)) + 1
  <2>1. Ancestry(a) = Ancestry(p) \cup {a} /\ a \notin Ancestry(p)
    BY <1>3, AncestryOfRevision
  <2> QED BY <1>1, <2>1, FS_AddElement
<1> QED BY <1>1, <1>2, <1>3

(* Of two ancestors of one artifact one is the other's ancestor.           *)
LEMMA AncestryLinear ==
    ASSUME ArchiveInv, NEW t \in Archived, NEW a \in Ancestry(t), NEW b \in Ancestry(t)
    PROVE  b \in Ancestry(a) \/ a \in Ancestry(b)
<1> DEFINE K == {c \in Archived : c \in Ancestry(a) \/ a \in Ancestry(c)}
<1>1. a \in Archived /\ b \in Archived
  BY AncestryLeast
<1>2. t \in K
  OBVIOUS
<1>3. HoldsParents(K)
  <2> SUFFICES ASSUME NEW c \in K, NEW p \in ToSet(c.parent) PROVE p \in K
    BY DEF HoldsParents
  <2>1. p \in Archived /\ c.parent = <<p>>
    BY ArchivedArtifact
  <2>2. Ancestry(c) = {c} \cup Ancestry(p) /\ p \in Ancestry(c)
    BY <2>1, AncestryOfRevision
  <2>3. CASE c \in Ancestry(a)
    <3>1. Ancestry(c) \subseteq Ancestry(a)
      BY <1>1, <2>3, AncestorEarlier
    <3> QED BY <2>1, <2>2, <3>1
  <2>4. CASE a \in Ancestry(c) /\ a # c
    BY <2>1, <2>2, <2>4
  <2>5. CASE a = c
    BY <2>1, <2>2, <2>5
  <2> QED BY <2>3, <2>4, <2>5
<1>4. K \in SUBSET Archived
  OBVIOUS
<1>5. Ancestry(t) \subseteq K
  BY <1>2, <1>3, <1>4, AncestryLeast
<1> QED BY <1>5

(* What the checks ask of the members one by one.                          *)
LocallyWhole(chain) ==
    /\ \A i \in DOMAIN chain : CountsFromRoot(chain[i])
    /\ IsInjective(chain)
    /\ RootsOf(chain) # {} /\ ~(Cardinality(RootsOf(chain)) > 1)
    /\ \A i \in DOMAIN chain : ~ParentAbsent(chain, chain[i]) /\ ~NotSuccessor(chain, chain[i])
    /\ ~Conflicting(chain)

LEMMA NothingFound ==
    ASSUME NEW chain, NEW declared, NEW cap
    PROVE  Findings(chain, declared, cap) = {}
             <=> /\ LocallyWhole(chain) /\ Len(chain) = declared + 1
                 /\ \A n \in ToSet(cap) : ~(declared > n)
<1> DEFINE Codes == {"lineage-root-invalid", "lineage-duplicate-artifact", "lineage-no-root",
               "lineage-multiple-roots", "lineage-parent-absent", "lineage-revision-not-successor",
               "lineage-revision-conflict", "lineage-length-inconsistent",
               "lineage-remediation-cap-exceeded"}
           Found(code) ==
        CASE code = "lineage-root-invalid" -> \E i \in DOMAIN chain : ~CountsFromRoot(chain[i])
          [] code = "lineage-duplicate-artifact" -> ~IsInjective(chain)
          [] code = "lineage-no-root" -> RootsOf(chain) = {}
          [] code = "lineage-multiple-roots" -> Cardinality(RootsOf(chain)) > 1
          [] code = "lineage-parent-absent" -> \E i \in DOMAIN chain : ParentAbsent(chain, chain[i])
          [] code = "lineage-revision-not-successor" ->
                \E i \in DOMAIN chain : NotSuccessor(chain, chain[i])
          [] code = "lineage-revision-conflict" -> Conflicting(chain)
          [] code = "lineage-length-inconsistent" -> Len(chain) # declared + 1
          [] code = "lineage-remediation-cap-exceeded" -> \E n \in ToSet(cap) : declared > n
<1>1. Findings(chain, declared, cap) = {code \in Codes : Found(code)}
  BY DEF Findings
<1>2. /\ Found("lineage-root-invalid") <=> \E i \in DOMAIN chain : ~CountsFromRoot(chain[i])
      /\ Found("lineage-duplicate-artifact") <=> ~IsInjective(chain)
      /\ Found("lineage-no-root") <=> RootsOf(chain) = {}
      /\ Found("lineage-multiple-roots") <=> Cardinality(RootsOf(chain)) > 1
      /\ Found("lineage-parent-absent") <=> \E i \in DOMAIN chain : ParentAbsent(chain, chain[i])
  OBVIOUS
<1>3. /\ Found("lineage-revision-not-successor")
            <=> \E i \in DOMAIN chain : NotSuccessor(chain, chain[i])
      /\ Found("lineage-revision-conflict") <=> Conflicting(chain)
      /\ Found("lineage-length-inconsistent") <=> Len(chain) # declared + 1
      /\ Found("lineage-remediation-cap-exceeded") <=> \E n \in ToSet(cap) : declared > n
  OBVIOUS
<1> HIDE DEF Found
<1>4. Findings(chain, declared, cap) = {} <=> \A code \in Codes : ~Found(code)
  BY <1>1
<1>5. (\A code \in Codes : ~Found(code)) <=>
        /\ ~Found("lineage-root-invalid") /\ ~Found("lineage-duplicate-artifact")
        /\ ~Found("lineage-no-root") /\ ~Found("lineage-multiple-roots")
        /\ ~Found("lineage-parent-absent") /\ ~Found("lineage-revision-not-successor")
        /\ ~Found("lineage-revision-conflict") /\ ~Found("lineage-length-inconsistent")
        /\ ~Found("lineage-remediation-cap-exceeded")
  OBVIOUS
<1> HIDE DEF Codes
<1> QED BY <1>2, <1>3, <1>4, <1>5 DEF LocallyWhole

(* The members of a presented chain.                                       *)
LEMMA Members ==
    ASSUME NEW chain \in Seq(Archived)
    PROVE  /\ DOMAIN chain = 1 .. Len(chain) /\ Len(chain) \in Nat
           /\ ToSet(chain) \subseteq Archived
           /\ \A i \in DOMAIN chain : chain[i] \in ToSet(chain)
           /\ \A a \in ToSet(chain) : \E i \in DOMAIN chain : chain[i] = a
           /\ \A a : Presented(chain, a) <=> a \in ToSet(chain)
           /\ IsFiniteSet(DOMAIN chain)
<1>1. DOMAIN chain = 1 .. Len(chain) /\ Len(chain) \in Nat
  OBVIOUS
<1>2. ToSet(chain) = {chain[i] : i \in DOMAIN chain}
  BY SetOf
<1>3. ToSet(chain) \subseteq Archived
  BY <1>1, <1>2
<1>4. IsFiniteSet(DOMAIN chain)
  BY <1>1, FS_Interval
<1> QED BY <1>1, <1>2, <1>3, <1>4 DEF Presented

(* The members, in place of the sequence.                                  *)
WholeSet(S) ==
    /\ \A a \in S : (a.count = 0) <=> (a.parent = <<>>)
    /\ \E a \in S : a.count = 0
    /\ \A a, b \in S : a.count = 0 /\ b.count = 0 => a = b
    /\ \A a \in S : \A p \in ToSet(a.parent) : p \in S /\ a.count = p.count + 1
    /\ \A a, b \in S : a.parent # <<>> /\ a.parent = b.parent /\ a.count = b.count => a = b

LEMMA LocallyWholeSet ==
    ASSUME NEW chain \in Seq(Archived)
    PROVE  LocallyWhole(chain) <=> WholeSet(ToSet(chain)) /\ IsInjective(chain)
<1> DEFINE S == ToSet(chain)
<1>1. /\ \A i \in DOMAIN chain : chain[i] \in S
      /\ \A a \in S : \E i \in DOMAIN chain : chain[i] = a
      /\ \A a : Presented(chain, a) <=> a \in S
      /\ IsFiniteSet(DOMAIN chain)
  BY Members
<1> HIDE DEF S
<1>2. (\A i \in DOMAIN chain : CountsFromRoot(chain[i]))
        <=> \A a \in S : (a.count = 0) <=> (a.parent = <<>>)
  BY <1>1 DEF CountsFromRoot
<1>3. RootsOf(chain) # {} <=> \E a \in S : a.count = 0
  BY <1>1 DEF RootsOf
<1>4. (\A i \in DOMAIN chain : ~ParentAbsent(chain, chain[i]) /\ ~NotSuccessor(chain, chain[i]))
        <=> \A a \in S : \A p \in ToSet(a.parent) : p \in S /\ a.count = p.count + 1
  BY <1>1 DEF ParentAbsent, NotSuccessor
<1>5. ~Conflicting(chain)
        <=> \A a, b \in S : a.parent # <<>> /\ a.parent = b.parent /\ a.count = b.count => a = b
  BY <1>1 DEF Conflicting
<1>6. ASSUME IsInjective(chain)
      PROVE  ~(Cardinality(RootsOf(chain)) > 1)
               <=> \A a, b \in S : a.count = 0 /\ b.count = 0 => a = b
  <2>1. \A i, j \in DOMAIN chain : chain[i] = chain[j] => i = j
    BY <1>6 DEF IsInjective
  <2>2. IsFiniteSet(RootsOf(chain)) /\ Cardinality(RootsOf(chain)) \in Nat
    <3>1. RootsOf(chain) \subseteq DOMAIN chain
      BY DEF RootsOf
    <3> QED BY <1>1, <3>1, FS_Subset, FS_CardinalityType
  <2>3. ASSUME Cardinality(RootsOf(chain)) > 1, \A a, b \in S : a.count = 0 /\ b.count = 0 => a = b
        PROVE  FALSE
    <3>1. \A i, j \in RootsOf(chain) : i = j
      BY <1>1, <2>1, <2>3 DEF RootsOf
    <3>2. CASE RootsOf(chain) = {}
      BY <2>3, <3>2, FS_EmptySet
    <3>3. CASE RootsOf(chain) # {}
      <4>1. PICK i \in RootsOf(chain) : RootsOf(chain) = {i}
        BY <3>1, <3>3
      <4>2. Cardinality({i}) = 1
        BY FS_Singleton
      <4> QED BY <2>3, <4>1, <4>2
    <3> QED BY <3>2, <3>3
  <2>4. ASSUME ~(Cardinality(RootsOf(chain)) > 1), NEW a \in S, NEW b \in S,
               a.count = 0, b.count = 0, a # b
        PROVE  FALSE
    <3>1. PICK i \in DOMAIN chain : chain[i] = a
      BY <1>1
    <3>2. PICK j \in DOMAIN chain : chain[j] = b
      BY <1>1
    <3>3. {i, j} \subseteq RootsOf(chain) /\ i # j
      BY <2>4, <3>1, <3>2 DEF RootsOf
    <3>4. Cardinality({i, j}) = 2
      <4>1. IsFiniteSet({i}) /\ Cardinality({i}) = 1
        BY FS_Singleton
      <4>2. {i, j} = {i} \cup {j} /\ j \notin {i}
        BY <3>3
      <4>3. Cardinality({i} \cup {j}) = 2
        <5>1. Cardinality({i} \cup {j}) = 1 + 1
          BY <4>1, <4>2, FS_AddElement
        <5>2. 1 + 1 = 2
          OBVIOUS
        <5> QED BY <5>1, <5>2, Zenon
      <4> QED BY <4>2, <4>3, Zenon
    <3>5. Cardinality({i, j}) <= Cardinality(RootsOf(chain))
      BY <2>2, <3>3, FS_Subset
    <3> QED BY <2>2, <2>4, <3>4, <3>5
  <2> QED BY <2>3, <2>4
<1> QED BY <1>2, <1>3, <1>4, <1>5, <1>6 DEF LocallyWhole, WholeSet, S

(* In a whole set the counts are those of the ancestries.                  *)
LEMMA WholeCounts ==
    ASSUME ArchiveInv, NEW S \in SUBSET Archived, WholeSet(S)
    PROVE  /\ HoldsParents(S)
           /\ \A a \in S : Ancestry(a) \subseteq S
           /\ \A a \in S : a.count = Cardinality(Ancestry(a)) - 1
<1>1. HoldsParents(S)
  BY DEF WholeSet, HoldsParents
<1>2. \A a \in S : Ancestry(a) \subseteq S
  BY <1>1, AncestryLeast
<1>3. \A a \in S : a.count = Cardinality(Ancestry(a)) - 1
  <2> DEFINE Bad == {Place(a) : a \in {b \in S : b.count # Cardinality(Ancestry(b)) - 1}}
  <2>1. \A a \in S : a \in Archived /\ Place(a) \in Nat
    BY ArchivedArtifact
  <2>2. Bad \in SUBSET Nat
    BY <2>1
  <2>3. SUFFICES ASSUME Bad # {} PROVE FALSE
    OBVIOUS
  <2>4. PICK i \in Bad : \A j \in Bad : i <= j
    BY <2>2, <2>3, LeastOf
  <2>5. PICK a \in S : Place(a) = i /\ a.count # Cardinality(Ancestry(a)) - 1
    BY <2>4
  <2>6. CASE a.parent = <<>>
    <3>1. a.count = 0
      BY <2>6 DEF WholeSet
    <3> QED BY <2>1, <2>5, <2>6, <3>1, AncestryCounted
  <2>7. CASE a.parent # <<>>
    <3>1. PICK p \in Archived : a.parent = <<p>> /\ ToSet(a.parent) = {p} /\ Place(p) < Place(a)
      BY <2>1, <2>7, ArchivedArtifact
    <3>2. p \in S /\ a.count = p.count + 1
      BY <3>1 DEF WholeSet
    <3>3. Place(p) \notin Bad
      BY <2>1, <2>4, <2>5, <3>1, <3>2
    <3>4. p.count = Cardinality(Ancestry(p)) - 1
      BY <3>2, <3>3
    <3>5. Cardinality(Ancestry(a)) = Cardinality(Ancestry(p)) + 1 /\ Cardinality(Ancestry(p)) \in Nat
      BY <2>1, <3>1, AncestryCounted
    <3> QED BY <2>5, <3>2, <3>4, <3>5
  <2> QED BY <2>6, <2>7
<1> QED BY <1>1, <1>2, <1>3

(* And no two members have the same count: a least count that two had would*)
(* be a root's, or that of two revisions of one parent.                    *)
LEMMA WholeInjective ==
    ASSUME ArchiveInv, NEW S \in SUBSET Archived, WholeSet(S), NEW x \in S, NEW y \in S,
           x.count = y.count
    PROVE  x = y
<1> DEFINE Shared(n) == \E a, b \in S : a # b /\ a.count = n /\ b.count = n
           Bad == {n \in Nat : Shared(n)}
<1>1. \A a \in S : a \in Archived /\ a.count \in Nat
  BY ArchivedArtifact
<1>2. SUFFICES ASSUME x # y PROVE FALSE
  OBVIOUS
<1>3. Shared(x.count) /\ x.count \in Nat
  BY <1>1, <1>2
<1>4. Bad \in SUBSET Nat /\ Bad # {}
  BY <1>3
<1>5. PICK n \in Bad : \A m \in Bad : n <= m
  BY <1>4, LeastOf
<1>6. PICK a \in S, b \in S : a # b /\ a.count = n /\ b.count = n
  BY <1>5
<1>7. CASE n = 0
  BY <1>6, <1>7 DEF WholeSet
<1>8. CASE n # 0
  <2>1. a.parent # <<>> /\ b.parent # <<>>
    BY <1>6, <1>8 DEF WholeSet
  <2>2. PICK p \in Archived : a.parent = <<p>> /\ ToSet(a.parent) = {p}
    BY <1>1, <2>1, ArchivedArtifact
  <2>3. PICK q \in Archived : b.parent = <<q>> /\ ToSet(b.parent) = {q}
    BY <1>1, <2>1, ArchivedArtifact
  <2>4. p \in S /\ q \in S /\ n = p.count + 1 /\ n = q.count + 1
    BY <1>6, <2>2, <2>3 DEF WholeSet
  <2>5. p.count \in Nat /\ q.count = p.count /\ p.count < n
    BY <1>1, <2>4
  <2>6. p.count \notin Bad
    BY <1>5, <2>5
  <2>7. p = q
    BY <2>4, <2>5, <2>6
  <2> QED BY <1>6, <2>1, <2>2, <2>3, <2>7 DEF WholeSet
<1> QED BY <1>7, <1>8

(* The member of the greatest count.                                       *)
LEMMA WholeTop ==
    ASSUME ArchiveInv, NEW S \in SUBSET Archived, WholeSet(S)
    PROVE  \E top \in S : \A a \in S : a.count <= top.count
<1> DEFINE T == {n \in Nat : \A a \in S : a.count <= n}
<1>1. \A a \in S : a \in Archived /\ a.count \in Nat
  BY ArchivedArtifact
<1>2. IsFiniteSet(Archived) /\ Cardinality(Archived) \in Nat
  BY ArchivedFinite, FS_CardinalityType
<1>3. \A a \in S : a.count <= Cardinality(Archived)
  <2> TAKE a \in S
  <2>1. Cardinality(Ancestry(a)) <= Cardinality(Archived)
    <3>1. Ancestry(a) \subseteq Archived
      BY AncestryLeast
    <3> QED BY <1>2, <3>1, FS_Subset
  <2>2. a.count = Cardinality(Ancestry(a)) - 1 /\ Cardinality(Ancestry(a)) \in Nat
    BY <1>1, WholeCounts, AncestryCounted
  <2> QED BY <1>2, <2>1, <2>2
<1>4. T \in SUBSET Nat /\ T # {}
  BY <1>2, <1>3
<1>5. PICK m \in T : \A n \in T : m <= n
  BY <1>4, LeastOf
<1>6. PICK r \in S : TRUE
  BY DEF WholeSet
<1>7. \E top \in S : top.count = m
  <2> SUFFICES ASSUME \A a \in S : a.count # m PROVE FALSE
    OBVIOUS
  <2>1. \A a \in S : a.count <= m - 1
    BY <1>1, <1>5
  <2>2. m - 1 \in Nat
    BY <1>1, <1>5, <1>6, <2>1
  <2>3. m - 1 \in T
    BY <2>1, <2>2
  <2> QED BY <1>5, <2>3
<1> QED BY <1>5, <1>7

(* A whole set is the ancestry of one of its members.                      *)
LEMMA WholeIsAncestry ==
    ASSUME ArchiveInv, NEW S \in SUBSET Archived, WholeSet(S)
    PROVE  \E top \in S : S = Ancestry(top)
<1>1. \A a \in S : a \in Archived /\ a.count \in Nat
  BY ArchivedArtifact
<1>2. PICK top \in S : \A a \in S : a.count <= top.count
  BY WholeTop
<1>3. Ancestry(top) \subseteq S /\ HoldsParents(Ancestry(top)) /\ top \in Ancestry(top)
  BY <1>1, WholeCounts, AncestryLeast, ArchiveHoldsParents
<1> DEFINE Reached(k) == \E c \in Ancestry(top) : c.count = k
           Bad == {n \in Nat : n <= top.count /\ ~Reached(top.count - n)}
<1>4. Bad = {}
  <2>1. Bad \in SUBSET Nat
    OBVIOUS
  <2>2. SUFFICES ASSUME Bad # {} PROVE FALSE
    OBVIOUS
  <2>3. PICK n \in Bad : \A m \in Bad : n <= m
    BY <2>1, <2>2, LeastOf
  <2>4. n \in Nat /\ n <= top.count /\ ~Reached(top.count - n) /\ top.count \in Nat
    BY <1>1, <2>3
  <2>5. n # 0
    BY <1>3, <2>4
  <2>6. n - 1 \in Nat /\ n - 1 <= top.count /\ n - 1 \notin Bad
    BY <2>3, <2>4, <2>5
  <2>7. PICK c \in Ancestry(top) : c.count = top.count - (n - 1)
    BY <2>6
  <2>8. c \in S /\ c.count # 0
    BY <1>3, <2>4, <2>7
  <2>9. c.parent # <<>>
    BY <2>8 DEF WholeSet
  <2>10. PICK p \in Archived : c.parent = <<p>> /\ ToSet(c.parent) = {p}
    BY <1>1, <2>8, <2>9, ArchivedArtifact
  <2>11. p \in Ancestry(top) /\ p \in S /\ c.count = p.count + 1
    BY <1>3, <2>8, <2>10 DEF HoldsParents, WholeSet
  <2>12. p.count = top.count - n
    BY <1>1, <2>4, <2>7, <2>11
  <2> QED BY <2>4, <2>11, <2>12
<1>5. S \subseteq Ancestry(top)
  <2> SUFFICES ASSUME NEW b \in S PROVE b \in Ancestry(top)
    OBVIOUS
  <2>1. top.count - b.count \in Nat /\ top.count - b.count <= top.count
        /\ top.count - (top.count - b.count) = b.count
    BY <1>1, <1>2
  <2>2. top.count - b.count \notin Bad
    BY <1>4
  <2>3. Reached(b.count)
    BY <2>1, <2>2
  <2>4. PICK c \in Ancestry(top) : c.count = b.count
    BY <2>3
  <2> QED BY <1>3, <2>4, WholeInjective
<1> QED BY <1>3, <1>5

(* An ancestry whose counts are right is a whole set.                      *)
LEMMA AncestryIsWhole ==
    ASSUME ArchiveInv, NEW top \in Archived,
           \A a \in Ancestry(top) : a.count = Cardinality(Ancestry(a)) - 1
    PROVE  WholeSet(Ancestry(top))
<1> DEFINE S == Ancestry(top)
<1>1. S \subseteq Archived /\ top \in S /\ HoldsParents(S)
  BY AncestryLeast, ArchiveHoldsParents
<1>2. \A a \in S : a.parent = <<>> => a.count = 0
  BY <1>1, AncestryCounted
<1>3. \A a \in S : \A p \in Archived : a.parent = <<p>> => p \in S /\ a.count = p.count + 1
  <2> TAKE a \in S
  <2> TAKE p \in Archived
  <2> HAVE a.parent = <<p>>
  <2>1. p \in S
    <3>1. ToSet(a.parent) = {p}
      BY SetOf
    <3> QED BY <1>1, <3>1 DEF HoldsParents
  <2>2. Cardinality(Ancestry(a)) = Cardinality(Ancestry(p)) + 1 /\ Cardinality(Ancestry(p)) \in Nat
    BY <1>1, AncestryCounted
  <2>3. a.count = Cardinality(Ancestry(a)) - 1 /\ p.count = Cardinality(Ancestry(p)) - 1
    BY <2>1
  <2> QED BY <2>1, <2>2, <2>3
<1>4. \A a \in S : /\ a \in Archived /\ a.count \in Nat /\ Place(a) \in Nat
                   /\ \/ a.parent = <<>> /\ ToSet(a.parent) = {}
                      \/ \E p \in Archived : /\ a.parent = <<p>> /\ ToSet(a.parent) = {p}
                                             /\ Place(p) < Place(a)
  BY <1>1, ArchivedArtifact
<1> HIDE DEF S
<1>5. \A a \in S : (a.count = 0) <=> (a.parent = <<>>)
  <2> TAKE a \in S
  <2>1. CASE a.parent = <<>>
    BY <1>2, <2>1
  <2>2. CASE a.parent # <<>>
    <3>1. PICK p \in Archived : a.parent = <<p>>
      BY <1>4, <2>2
    <3>2. p.count \in Nat /\ a.count = p.count + 1
      BY <1>3, <1>4, <3>1
    <3> QED BY <2>2, <3>2
  <2> QED BY <2>1, <2>2
<1>6. \A a \in S : \A p \in ToSet(a.parent) : p \in S /\ a.count = p.count + 1
  BY <1>3, <1>4
<1>7. \E a \in S : a.count = 0
  <2> DEFINE T == {Place(a) : a \in S}
  <2>1. T \in SUBSET Nat /\ T # {}
    BY <1>1, <1>4
  <2>2. PICK i \in T : \A j \in T : i <= j
    BY <2>1, LeastOf
  <2>3. PICK a \in S : Place(a) = i
    BY <2>2
  <2>4. CASE a.parent = <<>>
    BY <1>2, <2>4
  <2>5. CASE a.parent # <<>>
    <3>1. PICK p \in Archived : a.parent = <<p>> /\ Place(p) < Place(a)
      BY <1>4, <2>5
    <3>2. p \in S
      BY <1>3, <3>1
    <3>3. Place(p) \in T /\ Place(p) < i
      BY <2>3, <3>1, <3>2
    <3>4. i <= Place(p) /\ i \in Nat /\ Place(p) \in Nat
      BY <2>1, <2>2, <3>3
    <3> HIDE DEF T
    <3> QED BY <3>3, <3>4
  <2> QED BY <2>4, <2>5
<1>8. \A a, b \in S : b \in Ancestry(a) \/ a \in Ancestry(b)
  BY AncestryLinear DEF S
<1>9. \A a, b \in S : a.count = 0 /\ b.count = 0 => a = b
  <2> TAKE a, b \in S
  <2> HAVE a.count = 0 /\ b.count = 0
  <2>1. Ancestry(a) = {a} /\ Ancestry(b) = {b}
    BY <1>4, <1>5, AncestryOfFirst
  <2> QED BY <1>8, <2>1
<1>10. \A a, b \in S : a.parent # <<>> /\ a.parent = b.parent => a = b
  <2> TAKE a, b \in S
  <2> HAVE a.parent # <<>> /\ a.parent = b.parent
  <2>1. PICK p \in Archived : a.parent = <<p>> /\ b.parent = <<p>>
    BY <1>4
  <2>2. /\ Ancestry(a) = {a} \cup Ancestry(p) /\ a \notin Ancestry(p)
        /\ Ancestry(b) = {b} \cup Ancestry(p) /\ b \notin Ancestry(p)
    BY <1>4, <2>1, AncestryOfRevision
  <2> QED BY <1>8, <2>2
<1> QED BY <1>5, <1>6, <1>7, <1>9, <1>10 DEF WholeSet, S

(* What the report says, of any chain of archived artifacts.               *)
LEMMA ReportSays ==
    ASSUME ArchiveInv, NEW chain \in Seq(Archived), NEW declared \in Nat, NEW cap \in Caps
    PROVE  (Findings(chain, declared, cap) = {}) <=>
             /\ IsHistory(chain)
             /\ Len(chain) = declared + 1
             /\ \A n \in ToSet(cap) : declared <= n
<1>1. Findings(chain, declared, cap) = {}
        <=> /\ LocallyWhole(chain) /\ Len(chain) = declared + 1
            /\ \A n \in ToSet(cap) : ~(declared > n)
  BY NothingFound
<1>2. (\A n \in ToSet(cap) : ~(declared > n)) <=> \A n \in ToSet(cap) : declared <= n
  <2>1. cap \in Seq(Nat)
    BY CapsAssumption
  <2>2. \A n \in ToSet(cap) : n \in Nat
    BY <2>1, SetOf
  <2> QED BY <2>2
<1>3. LocallyWhole(chain) <=> WholeSet(ToSet(chain)) /\ IsInjective(chain)
  BY LocallyWholeSet
<1> DEFINE S == ToSet(chain)
<1>4. /\ S \in SUBSET Archived
      /\ \A i \in DOMAIN chain : chain[i] \in S
      /\ \A a \in S : \E i \in DOMAIN chain : chain[i] = a
  BY Members
<1>5. ASSUME WholeSet(S), IsInjective(chain) PROVE IsHistory(chain)
  <2>1. PICK top \in S : S = Ancestry(top)
    BY <1>4, <1>5, WholeIsAncestry
  <2>2. PICK i \in DOMAIN chain : chain[i] = top
    BY <1>4
  <2>3. \A a \in S : a.count = Cardinality(Ancestry(a)) - 1
    BY <1>4, <1>5, WholeCounts
  <2> QED BY <1>5, <2>1, <2>2, <2>3 DEF IsHistory
<1>6. ASSUME IsHistory(chain) PROVE WholeSet(S) /\ IsInjective(chain)
  <2>1. PICK i \in DOMAIN chain : /\ S = Ancestry(chain[i])
                                  /\ \A a \in S : a.count = Cardinality(Ancestry(a)) - 1
    BY <1>6 DEF IsHistory
  <2>2. chain[i] \in Archived
    BY <1>4
  <2>3. WholeSet(Ancestry(chain[i]))
    BY <2>1, <2>2, AncestryIsWhole
  <2> QED BY <1>6, <2>1, <2>3 DEF IsHistory
<1> QED BY <1>1, <1>2, <1>3, <1>5, <1>6

(* What is declared irrelevant is satisfied: rule by rule, what the one    *)
(* test leaves out the other finds witnessed.                              *)
LEMMA IrrelevantSite ==
    ASSUME NEW c, NEW op, IsFiniteSet(op.body.required),
           NEW rule \in DisciplineRules \ {"sibling-cross-check"}, ~RelevantSite(rule, op)
    PROVE  SiteWitnessed(c, rule, op)
<1>1. CASE rule = "success-indicator-separation"
  <2>1. ~Separable(op)
    BY <1>1 DEF RelevantSite
  <2>2. SuccessIndicatorWitnessed(c, op)
    BY <2>1 DEF Separable, SuccessIndicatorWitnessed
  <2> QED BY <1>1, <2>2 DEF SiteWitnessed
<1>2. CASE rule = "whole-body"
  <2>1. ~(Cardinality(op.body.required) > 1) /\ Cardinality(op.body.required) \in Nat
    BY <1>2, FS_CardinalityType DEF RelevantSite
  <2>2. WholeBodyWitnessed(c, op)
    BY <2>1 DEF WholeBodyWitnessed
  <2> QED BY <1>2, <2>2 DEF SiteWitnessed
<1>3. CASE rule = "malformed-input"
  <2>1. ~DeclaresRequestKey(op)
    BY <1>3 DEF RelevantSite
  <2>2. MalformedInputWitnessed(c, op)
    BY <2>1 DEF MalformedInputWitnessed
  <2> QED BY <1>3, <2>2 DEF SiteWitnessed
<1>4. CASE rule = "per-record"
  <2>1. op.listed /\ op.collections = <<>>
    BY <1>4 DEF RelevantSite
  <2>2. ToSet(op.collections) = {}
    <3>1. DOMAIN op.collections = {}
      BY <2>1
    <3> QED BY <3>1, SetOf
  <2>3. PerRecordWitnessed(c, op)
    BY <2>1, <2>2 DEF PerRecordWitnessed
  <2> QED BY <1>4, <2>3 DEF SiteWitnessed
<1>5. CASE rule = "omission-and-completeness"
  <2>1. op.listed /\ \A k \in ToSet(op.collections) : k.set = "none"
    BY <1>5 DEF RelevantSite, ReferenceSetNamed
  <2>2. CompletenessWitnessed(c, op)
    BY <2>1 DEF CompletenessWitnessed
  <2> QED BY <1>5, <2>2 DEF SiteWitnessed
<1>6. CASE rule = "state-change-read-back"
  <2>1. ~op.marker
    BY <1>6 DEF RelevantSite
  <2>2. ReadBackWitnessed(c, op)
    BY <2>1 DEF ReadBackWitnessed
  <2> QED BY <1>6, <2>2 DEF SiteWitnessed
<1> QED BY <1>1, <1>2, <1>3, <1>4, <1>5, <1>6 DEF DisciplineRules

LEMMA IrrelevantSatisfied ==
    ASSUME NEW c, \A op \in Ops(c) : IsFiniteSet(op.body.required),
           NEW rule \in DisciplineRules, ~Relevant(c, rule)
    PROVE  Satisfied(c, rule)
<1>1. CASE rule = "sibling-cross-check"
  <2>1. c.siblings # <<>> /\ c.siblings[1].operations = {} /\ c.siblings[1].parameters = {}
    BY <1>1 DEF Relevant
  <2>2. SiblingsWitnessed(c)
    BY <2>1 DEF SiblingsWitnessed
  <2> QED BY <1>1, <2>2 DEF Satisfied
<1>2. CASE rule # "sibling-cross-check"
  <2>1. c.ops # <<>> /\ \A op \in Ops(c) : ~RelevantSite(rule, op)
    BY <1>2 DEF Relevant
  <2>2. \A op \in Ops(c) : SiteWitnessed(c, rule, op)
    BY <1>2, <2>1, IrrelevantSite
  <2> QED BY <1>2, <2>1, <2>2 DEF Satisfied
<1> QED BY <1>1, <1>2

LEMMA EveryHoleSaid ==
    ASSUME NEW c, \A op \in Ops(c) : IsFiniteSet(op.body.required)
    PROVE  {gap.rule : gap \in EvaluateCoverage(c)} = {rule \in DisciplineRules : ~Satisfied(c, rule)}
<1>1. {gap.rule : gap \in EvaluateCoverage(c)}
        = {r \in DisciplineRules : Relevant(c, r) /\ ~Satisfied(c, r)}
  <2> DEFINE T == {r \in DisciplineRules : Relevant(c, r) /\ ~Satisfied(c, r)}
             Gap(r) == [rule |-> r, severity |-> CoverageSeverity(c)]
  <2>1. EvaluateCoverage(c) = {Gap(r) : r \in T}
    BY DEF EvaluateCoverage
  <2>2. \A r : Gap(r).rule = r
    OBVIOUS
  <2> HIDE DEF T
  <2> HIDE DEF Gap
  <2>3. {gap.rule : gap \in {Gap(r) : r \in T}} = T
    BY <2>2
  <2> QED BY <2>1, <2>3 DEF T
<1>2. \A r \in DisciplineRules : Relevant(c, r) \/ Satisfied(c, r)
  BY IrrelevantSatisfied
<1> QED BY <1>1, <1>2

(* A draft stays a draft, whatever its author lists in another order, and  *)
(* the coverage that was read is that of the contract as it stands.        *)
DraftInv ==
    /\ draft = [contract |-> contract, stamp |-> draft.stamp, fits |-> draft.fits,
                strict |-> draft.strict, revisions |-> draft.revisions]
    /\ draft.revisions \in Nat

(* What has been parsed, and has coverage whatever came of it then, fits   *)
(* the schema; what is written has neither.                                *)
FitInv ==
    /\ phase \notin {"written", "refused"} \/ gaps # <<>> => ContractFits(contract)
    /\ phase = "written" => gaps = <<>>

GapsInv == gaps = <<>> \/ gaps = <<EvaluateCoverage(contract)>>

(* What is presented is a chain of archived artifacts with its report.     *)
PresentedInv ==
    \/ presented = NothingPresented
    \/ \E chain \in Seq(Archived), declared \in Nat, cap \in Caps :
          presented = [chain |-> chain, declared |-> declared, cap |-> cap,
                       findings |-> Findings(chain, declared, cap)]

AuthoringInv == DraftInv /\ FitInv /\ GapsInv /\ ArchiveInv /\ PresentedInv

LEMMA OpsOf == ASSUME NEW c PROVE Ops(c) = {c.ops[i] : i \in DOMAIN c.ops}
  BY DEF Ops

(* What is read of a contract, of all that the schema asks of it.          *)
OpShaped(op) ==
    /\ IsFiniteSet(op.body.required)
    /\ \A i \in DOMAIN op.collections : op.collections[i].bound \in Nat
    /\ op.witness # <<>> => \A p \in AllPointers(Relation(op)) : Listed(p.tail)

ContractShaped(c) ==
    /\ c.ops \in Seq(Ops(c)) /\ c.steps \in Seq(ToSet(c.steps))
    /\ \A op \in Ops(c) : OpShaped(op)
    /\ \A i \in DOMAIN c.steps : c.steps[i].id # Bound
    /\ \A e \in Checks(c) : \A p \in AllPointers(e) : Listed(p.tail)

LEMMA ExpressionShaped ==
    ASSUME NEW e, ExpressionFits(e), NEW p \in AllPointers(e)
    PROVE  Listed(p.tail)
<1>1. PICK n \in DOMAIN e : p \in PointersOf(e[n])
  BY DEF AllPointers
<1>2. PICK i \in DOMAIN e[n].operands :
        e[n].operands[i].form = "pointer" /\ p = e[n].operands[i].pointer
  BY <1>1 DEF PointersOf
<1>3. NodeFits(e, n)
  BY <1>1 DEF ExpressionFits
<1>4. OperandFits(e[n].operands[i])
  BY <1>2, <1>3 DEF NodeFits
<1>5. EvidencePointer(p)
  BY <1>2, <1>4 DEF OperandFits
<1> QED BY <1>5 DEF EvidencePointer, InteractionPointer, BoundElementPointer, PlainTail

LEMMA FitsShaped ==
    ASSUME NEW c, ContractFits(c)
    PROVE  ContractShaped(c)
<1>1. /\ c.ops \in Seq(Ops(c)) /\ c.steps \in Seq(ToSet(c.steps))
      /\ \A op \in Ops(c) : OperationFits(c, op)
      /\ \A i \in DOMAIN c.steps : StepFits(c.steps[i])
      /\ \A i \in DOMAIN c.oracles : OracleFits(c.oracles[i])
  <2>1. ToSet(c.ops) = Ops(c)
    BY SetOf, OpsOf
  <2> QED BY <2>1 DEF ContractFits, Listed
<1>2. ASSUME NEW op \in Ops(c) PROVE OpShaped(op)
  <2>1. OperationFits(c, op)
    BY <1>1
  <2>2. IsFiniteSet(op.body.required) /\ \A k \in ToSet(op.collections) : k.bound \in Nat
    BY <2>1 DEF OperationFits, DescriptorFits, KeyedShape, CollectionFits
  <2>4. \A i \in DOMAIN op.collections : op.collections[i].bound \in Nat
    BY <2>2, SetOf
  <2>3. ASSUME op.witness # <<>>, NEW p \in AllPointers(Relation(op)) PROVE Listed(p.tail)
    <3>1. WitnessFits(op.witness[1])
      BY <2>1, <2>3 DEF OperationFits
    <3>2. ExpressionFits(Relation(op))
      BY <3>1 DEF WitnessFits, Relation
    <3> QED BY <2>3, <3>2, ExpressionShaped
  <2> QED BY <2>2, <2>3, <2>4 DEF OpShaped
<1>3. \A i \in DOMAIN c.steps : c.steps[i].id # Bound
  BY <1>1 DEF StepFits, Identifier
<1>4. ASSUME NEW e \in Checks(c), NEW p \in AllPointers(e) PROVE Listed(p.tail)
  <2>1. PICK i \in DOMAIN c.oracles : e = c.oracles[i].check
    BY DEF Checks
  <2>2. e # <<>>
    BY <1>4 DEF AllPointers
  <2>3. ExpressionFits(e)
    BY <1>1, <2>1, <2>2 DEF OracleFits
  <2> QED BY <1>4, <2>3, ExpressionShaped
<1> QED BY <1>1, <1>2, <1>3, <1>4 DEF ContractShaped

LEMMA AuthoringInitially == AuthoringInit => AuthoringInv
<1> SUFFICES ASSUME AuthoringInit PROVE AuthoringInv
  OBVIOUS
<1> USE DEF AuthoringInit
<1>1. DraftInv
  <2>1. draft \in Drafts
    OBVIOUS
  <2>2. draft \in [contract : {draft.contract}, stamp : Stamps, fits : BOOLEAN, strict : BOOLEAN,
                   revisions : Nat]
    BY <2>1, DraftsAssumption
  <2> QED BY <2>2 DEF DraftInv, contract
<1>2. ArchiveInv
  <2>1. archive = <<>> /\ DOMAIN archive = {}
    OBVIOUS
  <2> QED BY <2>1 DEF ArchiveInv
<1>3. FitInv
  BY DEF FitInv
<1> QED BY <1>1, <1>2, <1>3 DEF AuthoringInv, GapsInv, PresentedInv

LEMMA FaultlessAll ==
    ASSUME NEW faults, FirstFault(faults) = "none", DOMAIN faults \in SUBSET Nat
    PROVE  \A i \in DOMAIN faults : faults[i] = "none"
<1> DEFINE thrown == {i \in DOMAIN faults : faults[i] # "none"}
<1>1. SUFFICES ASSUME thrown # {} PROVE FALSE
  OBVIOUS
<1>2. PICK i \in thrown : \A j \in thrown : i <= j
  BY <1>1, LeastOf
<1>3. \A x, y \in thrown : x <= y /\ y <= x => x = y
  OBVIOUS
<1>4. Min(thrown) = CHOOSE x \in thrown : \A y \in thrown : x <= y
  BY DEF Min
<1>5. Min(thrown) \in thrown
  BY <1>2, <1>4
<1>6. FirstFault(faults) = faults[Min(thrown)]
  BY <1>1 DEF FirstFault
<1> QED BY <1>5, <1>6

(* A draft that is parsed without a fault is one that fits.                *)
LEMMA ParsedFits ==
    ASSUME NEW artifact, InputFault(artifact) = "none"
    PROVE  artifact.fits
<1> DEFINE versions == [i \in DOMAIN <<artifact>> |-> VersionFault(<<artifact>>[i])]
           parses == [i \in DOMAIN <<artifact>> |-> ParseFault(<<artifact>>[i])]
           faults == versions \o parses
<1>1. versions = <<VersionFault(artifact)>> /\ parses = <<ParseFault(artifact)>>
  OBVIOUS
<1>2. FirstFault(faults) = "none"
  BY DEF InputFault, ArrayFault
<1>3. DOMAIN faults = 1 .. 2 /\ faults[2] = ParseFault(artifact)
  <2>1. faults = <<VersionFault(artifact)>> \o <<ParseFault(artifact)>>
    BY <1>1
  <2> HIDE DEF versions
  <2> HIDE DEF parses
  <2> QED BY <2>1
<1> HIDE DEF faults
<1>4. faults[2] = "none"
  BY <1>2, <1>3, FaultlessAll
<1> QED BY <1>3, <1>4 DEF ParseFault

LEMMA ParsedStep ==
    ASSUME FitInv, Parse
    PROVE  FitInv'
<1>1. contract' = contract /\ gaps' = gaps /\ gaps = <<>>
  BY DEF FitInv, Parse, contract
<1>2. CASE fault' = "none"
  <2> DEFINE fits == draft.fits /\ ContractFits(contract)
             parsed == [stamp |-> draft.stamp, fits |-> fits]
  <2>1. InputFault(parsed) = "none"
    BY <1>2 DEF Parse
  <2>2. ContractFits(contract)
    <3>1. parsed.fits = fits
      <4> HIDE DEF fits
      <4> QED OBVIOUS
    <3> HIDE DEF parsed
    <3>2. parsed.fits
      BY <2>1, ParsedFits
    <3> QED BY <3>1, <3>2
  <2>3. phase' = "parsed"
    BY <1>2 DEF Parse
  <2> QED BY <1>1, <2>2, <2>3 DEF FitInv
<1>3. CASE fault' # "none"
  <2>1. phase' = "refused"
    BY <1>3 DEF Parse
  <2> QED BY <1>1, <2>1 DEF FitInv
<1> QED BY <1>2, <1>3

LEMMA RearrangedDraft ==
    ASSUME DraftInv, Rearrange
    PROVE  DraftInv'
<1>1. PICK steps \in Reordered(contract.steps),
           oracles \in {contract.oracles, Reverse(contract.oracles)},
           ops \in {contract.ops, Reverse(contract.ops)} :
        draft' = [draft EXCEPT !.contract.steps = steps, !.contract.oracles = oracles,
                               !.contract.ops = ops]
  BY DEF Rearrange
<1> DEFINE c1 == [contract EXCEPT !.steps = steps]
           c2 == [c1 EXCEPT !.oracles = oracles]
           c3 == [c2 EXCEPT !.ops = ops]
<1>2. draft' = [contract |-> c3, stamp |-> draft.stamp, fits |-> draft.fits,
                strict |-> draft.strict, revisions |-> draft.revisions]
  BY <1>1 DEF DraftInv, contract
<1>3. contract' = c3
  BY <1>2 DEF contract
<1>4. draft.revisions \in Nat
  BY DEF DraftInv
<1> HIDE DEF c3
<1> QED BY <1>2, <1>3, <1>4 DEF DraftInv

(* An artifact that may be archived: of no parent, or of one in the archive*)
Issuable(artifact) ==
    /\ artifact = [body |-> artifact.body, parent |-> artifact.parent, count |-> artifact.count]
    /\ artifact.count \in Nat
    /\ artifact.parent = <<>> \/ \E k \in DOMAIN archive : artifact.parent = <<archive[k]>>

LEMMA KeptArchive ==
    ASSUME ArchiveInv, NEW artifact, Issuable(artifact), Keep(artifact)
    PROVE  ArchiveInv' /\ Archived \subseteq Archived'
<1>1. /\ archive \in Seq(Archived) /\ Len(archive) \in Nat /\ DOMAIN archive = 1 .. Len(archive)
      /\ archive' = Append(archive, artifact) /\ artifact \notin Archived
  BY DEF ArchiveInv, Keep, Archived
<1> DEFINE n == Len(archive) + 1
<1>2. /\ DOMAIN archive' = 1 .. n /\ archive'[n] = artifact
      /\ \A i \in DOMAIN archive : archive'[i] = archive[i]
      /\ Len(archive') = n
  BY <1>1
<1>3. Archived' = {archive'[i] : i \in 1 .. n}
  BY <1>2, SetOf DEF Archived
<1>4. Archived \subseteq Archived'
  BY <1>1, <1>2, <1>3, SetOf DEF Archived
<1>5. archive' \in Seq(ToSet(archive'))
  <2> DEFINE X == Archived'
  <2>1. artifact \in X
    BY <1>1, <1>2, <1>3
  <2>2. archive \in [1 .. Len(archive) -> X]
    BY <1>1, <1>4
  <2>3. archive \in Seq(X)
    BY <1>1, <2>2, SeqDef
  <2> HIDE DEF X
  <2>4. Append(archive, artifact) \in Seq(X)
    BY <2>1, <2>3
  <2> QED BY <1>1, <2>4 DEF X, Archived
<1>6. \A j, k \in DOMAIN archive' : archive'[j] = archive'[k] => j = k
  <2>1. \A j \in DOMAIN archive : archive[j] # artifact
    BY <1>1, SetOf DEF Archived
  <2>2. \A j, k \in DOMAIN archive : archive[j] = archive[k] => j = k
    BY DEF ArchiveInv
  <2>3. \A j \in DOMAIN archive' : j \in DOMAIN archive \/ j = n
    BY <1>1, <1>2
  <2> QED BY <1>2, <2>1, <2>2, <2>3
<1>7. \A j \in DOMAIN archive' : IssuedAt(j)'
  <2> TAKE j \in DOMAIN archive'
  <2>1. CASE j \in DOMAIN archive
    <3>1. IssuedAt(j)
      BY <2>1 DEF ArchiveInv
    <3>2. \A k \in 1 .. j - 1 : k \in DOMAIN archive /\ archive'[k] = archive[k]
      BY <1>1, <1>2, <2>1
    <3> QED BY <1>2, <2>1, <3>1, <3>2 DEF IssuedAt
  <2>2. CASE j = n
    <3>1. \A k \in DOMAIN archive : k \in 1 .. j - 1 /\ archive'[k] = archive[k]
      BY <1>1, <1>2, <2>2
    <3> QED BY <1>2, <2>2, <3>1 DEF IssuedAt, Issuable
  <2> QED BY <1>1, <1>2, <2>1, <2>2
<1> QED BY <1>4, <1>5, <1>6, <1>7 DEF ArchiveInv

LEMMA PresentedKept ==
    ASSUME PresentedInv, Archived \subseteq Archived', presented' = presented
    PROVE  PresentedInv'
<1>1. CASE presented = NothingPresented
  BY <1>1 DEF PresentedInv, NothingPresented
<1>2. CASE presented # NothingPresented
  <2>1. PICK chain \in Seq(Archived), declared \in Nat, cap \in Caps :
          presented = [chain |-> chain, declared |-> declared, cap |-> cap,
                       findings |-> Findings(chain, declared, cap)]
    BY <1>2 DEF PresentedInv
  <2>2. chain \in [1 .. Len(chain) -> Archived'] /\ Len(chain) \in Nat
    OBVIOUS
  <2>3. chain \in Seq(Archived')
    BY <2>2, SeqDef
  <2> QED BY <2>1, <2>3 DEF PresentedInv
<1> QED BY <1>1, <1>2

LEMMA PresentedNow ==
    ASSUME DraftInv, ArchiveInv, Present
    PROVE  PresentedInv'
<1>1. draft.revisions \in Nat /\ DOMAIN archive = 1 .. Len(archive)
      /\ Archived = {archive[i] : i \in DOMAIN archive} /\ archive' = archive
  BY SetOf DEF DraftInv, ArchiveInv, Present, Archived
<1>2. PICK n \in 0 .. draft.revisions :
        \E picked \in [1 .. n -> DOMAIN archive], cap \in Caps, declared \in {n - 1, n} \cap Nat :
            presented' = [chain |-> [i \in 1 .. n |-> archive[picked[i]]], declared |-> declared,
                          cap |-> cap,
                          findings |-> Findings([i \in 1 .. n |-> archive[picked[i]]], declared, cap)]
  BY DEF Present
<1>3. PICK picked \in [1 .. n -> DOMAIN archive], cap \in Caps, declared \in {n - 1, n} \cap Nat :
        presented' = [chain |-> [i \in 1 .. n |-> archive[picked[i]]], declared |-> declared,
                      cap |-> cap,
                      findings |-> Findings([i \in 1 .. n |-> archive[picked[i]]], declared, cap)]
  BY <1>2
<1> DEFINE chain == [i \in 1 .. n |-> archive[picked[i]]]
<1>4. chain \in [1 .. n -> Archived] /\ n \in Nat
  BY <1>1, <1>2, <1>3
<1>5. chain \in Seq(Archived)
  BY <1>4, SeqDef
<1>6. Archived' = Archived
  BY <1>1 DEF Archived
<1>7. presented' = [chain |-> chain, declared |-> declared, cap |-> cap,
                    findings |-> Findings(chain, declared, cap)] /\ declared \in Nat
  BY <1>3
<1> HIDE DEF chain
<1> QED BY <1>5, <1>6, <1>7 DEF PresentedInv

LEMMA AuthoringSteps ==
    ASSUME AuthoringInv, [AuthoringNext]_authoringVars
    PROVE  AuthoringInv'
<1> USE DEF AuthoringInv
<1>1. ASSUME UNCHANGED draft PROVE DraftInv' /\ contract' = contract
  BY <1>1 DEF DraftInv, contract
<1>2. ASSUME UNCHANGED archive PROVE ArchiveInv' /\ Archived' = Archived
  BY <1>2 DEF ArchiveInv, IssuedAt, Archived
<1>3. ASSUME UNCHANGED <<draft, gaps>> PROVE GapsInv'
  BY <1>1, <1>3 DEF GapsInv
<1>4. ASSUME UNCHANGED <<archive, presented>> PROVE PresentedInv'
  <2>1. Archived \subseteq Archived' /\ presented' = presented
    BY <1>2, <1>4
  <2> QED BY <2>1, PresentedKept
<1>5. ASSUME UNCHANGED <<draft, gaps, archive, presented>>, FitInv' PROVE AuthoringInv'
  BY <1>1, <1>2, <1>3, <1>4, <1>5
<1>6. ASSUME UNCHANGED <<draft, gaps, phase>> PROVE FitInv'
  BY <1>1, <1>6 DEF FitInv
<1>7. ASSUME UNCHANGED <<draft, gaps>>, phase \notin {"written", "refused"}, phase' # "written"
       PROVE  FitInv'
  BY <1>1, <1>7 DEF FitInv
<1>8. CASE Parse
  <2>1. FitInv'
    BY <1>8, ParsedStep
  <2> QED BY <1>5, <1>8, <2>1 DEF Parse
<1>9. CASE CompileStage
  <2>1. FitInv'
    BY <1>9, <1>7 DEF CompileStage
  <2> QED BY <1>5, <1>9, <2>1 DEF CompileStage
<1>10. CASE SealStage
  <2>1. FitInv'
    BY <1>10, <1>7 DEF SealStage
  <2> QED BY <1>5, <1>10, <2>1 DEF SealStage
<1>11. CASE Score
  <2>1. FitInv'
    BY <1>11, <1>7 DEF Score
  <2> QED BY <1>5, <1>11, <2>1 DEF Score
<1>12. CASE Cover
  <2>1. UNCHANGED <<draft, archive, presented>> /\ gaps' = <<EvaluateCoverage(contract)>>
    BY <1>12 DEF Cover
  <2>2. GapsInv'
    BY <1>1, <2>1 DEF GapsInv
  <2>3. FitInv'
    BY <1>1, <1>12, <2>1 DEF Cover, FitInv
  <2> QED BY <1>1, <1>2, <1>4, <2>1, <2>2, <2>3
<1>13. CASE Rearrange
  <2>1. DraftInv'
    BY <1>13, RearrangedDraft
  <2>2. UNCHANGED <<archive, presented>> /\ gaps' = <<>>
    BY <1>13 DEF Rearrange
  <2>3. GapsInv'
    BY <2>2 DEF GapsInv
  <2>4. FitInv'
    BY <1>13, <2>2 DEF Rearrange, FitInv
  <2> QED BY <1>2, <1>4, <2>1, <2>2, <2>3, <2>4
<1>14. ASSUME NEW artifact, Issuable(artifact), Keep(artifact) PROVE AuthoringInv'
  <2>1. UNCHANGED <<draft, gaps, phase, presented>>
    BY <1>14 DEF Keep
  <2>2. ArchiveInv' /\ Archived \subseteq Archived'
    BY <1>14, KeptArchive
  <2>3. PresentedInv'
    BY <2>1, <2>2, PresentedKept
  <2> QED BY <1>1, <1>3, <1>6, <2>1, <2>2, <2>3
<1>15. CASE Mint
  <2>1. PICK body \in Bodies : Keep(FirstIssue(body))
    BY <1>15 DEF Mint
  <2>2. Issuable(FirstIssue(body))
    BY DEF Issuable, FirstIssue
  <2> QED BY <1>14, <2>1, <2>2
<1>16. \A i \in DOMAIN archive : IssuedAt(i) /\ \A k \in 1 .. i - 1 : k \in DOMAIN archive
  <2>1. DOMAIN archive = 1 .. Len(archive) /\ Len(archive) \in Nat
    BY DEF ArchiveInv
  <2> QED BY <2>1 DEF ArchiveInv
<1>17. CASE Revise
  <2>1. PICK i \in DOMAIN archive, body \in Bodies : Keep(Revised(archive[i], body))
    BY <1>17 DEF Revise
  <2>2. Issuable(Revised(archive[i], body))
    BY <1>16 DEF Issuable, Revised, IssuedAt
  <2> QED BY <1>14, <2>1, <2>2
<1>18. CASE Edit
  <2>1. PICK i \in DOMAIN archive :
          \/ Keep([archive[i] EXCEPT !.count = @ + 1])
          \/ Keep([archive[i] EXCEPT !.parent = <<>>])
    BY <1>18 DEF Edit
  <2>2. Issuable([archive[i] EXCEPT !.count = @ + 1])
    BY <1>16 DEF Issuable, IssuedAt
  <2>3. Issuable([archive[i] EXCEPT !.parent = <<>>])
    BY <1>16 DEF Issuable, IssuedAt
  <2> QED BY <1>14, <2>1, <2>2, <2>3
<1>19. CASE Present
  <2>1. UNCHANGED <<draft, gaps, phase, archive>>
    BY <1>19 DEF Present
  <2>2. PresentedInv'
    BY <1>19, PresentedNow
  <2> QED BY <1>1, <1>2, <1>3, <1>6, <2>1, <2>2
<1>20. CASE UNCHANGED authoringVars
  BY <1>5, <1>20, <1>6 DEF authoringVars
<1> QED BY <1>8, <1>9, <1>10, <1>11, <1>12, <1>13, <1>15, <1>17, <1>18, <1>19, <1>20 DEF AuthoringNext

(* A report on a chain of revisions passes if and only if the chain is one *)
(* artifact's whole history, each revision once, of the declared length and*)
(* within the cap, whatever was minted, revised and edited (chain.ts,      *)
(* validateLineageChain).                                                  *)
THEOREM ReportExactHolds == AuthoringSpec => []ReportExact
<1>1. AuthoringInv => ReportExact
  <2> SUFFICES ASSUME AuthoringInv, presented # NothingPresented
               PROVE  (presented.findings = {}) <=>
                        /\ IsHistory(presented.chain)
                        /\ Len(presented.chain) = presented.declared + 1
                        /\ \A n \in ToSet(presented.cap) : presented.declared <= n
    BY DEF ReportExact
  <2>1. PICK chain \in Seq(Archived), declared \in Nat, cap \in Caps :
          presented = [chain |-> chain, declared |-> declared, cap |-> cap,
                       findings |-> Findings(chain, declared, cap)]
    BY DEF AuthoringInv, PresentedInv
  <2>2. /\ presented.chain = chain /\ presented.declared = declared /\ presented.cap = cap
        /\ presented.findings = Findings(chain, declared, cap)
    BY <2>1
  <2>3. (Findings(chain, declared, cap) = {}) <=>
          /\ IsHistory(chain)
          /\ Len(chain) = declared + 1
          /\ \A n \in ToSet(cap) : declared <= n
    BY ReportSays DEF AuthoringInv
  <2> QED BY <2>2, <2>3
<1> QED BY <1>1, AuthoringInitially, AuthoringSteps, PTL DEF AuthoringSpec

(* What coverage reports is every discipline that no evidence meets, of    *)
(* every contract and in whatever order it is written (coverage.ts:41-43). *)
THEOREM CoverageVacuousHolds == AuthoringSpec => []CoverageVacuous
<1>1. AuthoringInv => CoverageVacuous
  <2> SUFFICES ASSUME AuthoringInv, NEW found \in ToSet(gaps)
               PROVE  {gap.rule : gap \in found}
                        = {rule \in DisciplineRules : ~Satisfied(contract, rule)}
    BY DEF CoverageVacuous
  <2>1. ToSet(gaps) = {gaps[i] : i \in DOMAIN gaps}
    BY SetOf
  <2>2. found = EvaluateCoverage(contract)
    BY <2>1 DEF AuthoringInv, GapsInv
  <2>3. \A op \in Ops(contract) : IsFiniteSet(op.body.required)
    <3>1. gaps # <<>>
      BY <2>1
    <3>2. ContractFits(contract)
      BY <3>1 DEF AuthoringInv, FitInv
    <3> QED BY <3>2, FitsShaped DEF ContractShaped, OpShaped
  <2> QED BY <2>2, <2>3, EveryHoleSaid
<1> QED BY <1>1, AuthoringInitially, AuthoringSteps, PTL DEF AuthoringSpec

LEMMA ShortSequences ==
    ASSUME NEW X, NEW s \in Seq(X), Len(s) <= 2
    PROVE  s = <<>> \/ (\E a \in X : s = <<a>>) \/ (\E a, b \in X : s = <<a, b>>)
<1>1. Len(s) \in Nat /\ DOMAIN s = 1 .. Len(s)
  OBVIOUS
<1>2. CASE Len(s) = 0
  BY <1>2
<1>3. CASE Len(s) = 1
  <2>1. s[1] \in X
    BY <1>1, <1>3
  <2>2. s = <<s[1]>>
    BY <1>3
  <2> QED BY <2>1, <2>2
<1>4. CASE Len(s) = 2
  <2>1. s = <<s[1], s[2]>> /\ s[1] \in X /\ s[2] \in X
    BY <1>4
  <2> QED BY <2>1
<1>5. Len(s) = 0 \/ Len(s) = 1 \/ Len(s) = 2
  BY <1>1
<1> QED BY <1>2, <1>3, <1>4, <1>5

(* An answer that a descriptor declares may carry what the descriptor can  *)
(* be descended to.                                                        *)
LEMMA AnswerCarries ==
    ASSUME NEW op, NEW tokens, NEW X, NEW tail \in Seq(X), Len(tail) <= 2,
           \A i \in DOMAIN tail : tail[i] \in tokens,
           \A i \in DOMAIN op.collections : op.collections[i].bound \in Nat,
           DescendThroughDescriptor(op, tail)
    PROVE  \E answer \in Answers(op, tokens) : tail \in answer
<1> DEFINE below(k) == IF TypeAt(op.body, k) \in ScalarTypes THEN {} ELSE {<<k, t>> : t \in tokens}
           whole == {<<>>} \cup UNION {{<<k>>} \cup below(k) : k \in Keys(op.body)}
<1>1. whole \in Answers(op, tokens)
  <2>1. Keys(op.body) \in {s \in SUBSET Keys(op.body) : op.body.required \subseteq s}
    BY DEF Keys
  <2>2. ObjectAnswers(op, tokens)
          = {{<<>>} \cup UNION {{<<k>>} \cup below(k) : k \in keys} :
               keys \in {s \in SUBSET Keys(op.body) : op.body.required \subseteq s}}
    BY DEF ObjectAnswers
  <2>3. whole \in ObjectAnswers(op, tokens)
    BY <2>1, <2>2
  <2> QED BY <2>3 DEF Answers
<1>2. \/ tail = <<>>
      \/ \E h \in X : tail = <<h>> /\ Head(tail) = h
      \/ \E h \in X, t \in tokens : tail = <<h, t>> /\ Head(tail) = h /\ Len(tail) = 2
  <2>1. CASE tail = <<>>
    BY <2>1
  <2>2. CASE \E a \in X : tail = <<a>>
    BY <2>2
  <2>3. CASE \E a, b \in X : tail = <<a, b>>
    <3>1. PICK a \in X, b \in X : tail = <<a, b>>
      BY <2>3
    <3>2. Head(tail) = a /\ Len(tail) = 2 /\ 2 \in DOMAIN tail /\ tail[2] = b
      BY <3>1
    <3>3. b \in tokens
      BY <3>2
    <3> QED BY <3>1, <3>2, <3>3
  <2> QED BY <2>1, <2>2, <2>3, ShortSequences
<1> HIDE DEF below
<1>3. CASE tail = <<>>
  BY <1>1, <1>3
<1>4. CASE tail # <<>> /\ RootCollections(op) # {} /\ Head(tail) \in DOMAIN Index
  <2>1. PICK bound \in RootBounds(op) : Index[Head(tail)] < bound
    BY <1>4 DEF DescendThroughDescriptor
  <2>2. bound \in Nat
    BY DEF RootBounds, RootCollections
  <2>3. \A j \in DOMAIN Index : Index[j] \in Nat
    BY DEF Index
  <2> DEFINE n == Index[Head(tail)] + 1
             at(m) == {<<>>} \cup UNION {{<<i>>} \cup {<<i, t>> : t \in tokens} :
                                            i \in {j \in DOMAIN Index : Index[j] < m}}
  <2>4. n \in 0 .. bound
    BY <1>4, <2>1, <2>2, <2>3
  <2>5. Head(tail) \in {j \in DOMAIN Index : Index[j] < n}
    BY <1>4, <2>3
  <2> HIDE DEF n
  <2>6. at(n) \in ArrayAnswers(op, tokens)
    <3>1. ArrayAnswers(op, tokens) = UNION {{at(m) : m \in 0 .. b} : b \in RootBounds(op)}
      BY DEF ArrayAnswers
    <3> HIDE DEF at
    <3> QED BY <2>1, <2>4, <3>1
  <2>7. tail \in at(n)
    <3>1. tail = <<Head(tail)>> \/ \E t \in tokens : tail = <<Head(tail), t>>
      BY <1>2, <1>4
    <3> QED BY <2>5, <3>1
  <2> QED BY <2>6, <2>7 DEF Answers
<1>5. CASE tail # <<>> /\ ~(RootCollections(op) # {} /\ Head(tail) \in DOMAIN Index)
  <2>1. Head(tail) \in Keys(op.body) /\ ~DescendsIntoDeclaredScalar(op.body, tail)
    BY <1>5 DEF DescendThroughDescriptor
  <2>2. CASE \E h \in X : tail = <<h>> /\ Head(tail) = h
    <3>1. tail \in {<<Head(tail)>>} \cup below(Head(tail))
      BY <2>2
    <3> QED BY <1>1, <2>1, <3>1
  <2>3. CASE \E h \in X, t \in tokens : tail = <<h, t>> /\ Head(tail) = h /\ Len(tail) = 2
    <3>1. TypeAt(op.body, Head(tail)) \notin ScalarTypes
      BY <2>1, <2>3 DEF DescendsIntoDeclaredScalar, TypeAt, ScalarTypes, JsonTypes
    <3>2. tail \in below(Head(tail))
      BY <2>3, <3>1 DEF below
    <3> QED BY <1>1, <2>1, <3>2
  <2> QED BY <1>2, <1>5, <2>2, <2>3
<1> QED BY <1>3, <1>4, <1>5

LEMMA OnlyIn ==
    ASSUME NEW S, IsFiniteSet(S), Only(S) # 0
    PROVE  Only(S) \in S
<1>1. Cardinality(S) = 1
  BY DEF Only
<1>2. S # {}
  BY <1>1, FS_EmptySet
<1> QED BY <1>1, <1>2 DEF Only

(* What was found to be compiled without a fault.                          *)
LEMMA FaultlessChecks ==
    ASSUME NEW c, NEW strict, CompileFault(c, strict) = "none"
    PROVE  /\ ~Repeats(Ids(c.interfaces)) /\ ~UnsupportedKind(c)
           /\ ~EvidenceUnreachable(c) /\ ~LegIdsCollide(c) /\ WitnessesFault(c) = "none"
           /\ strict => ~WitnessUndeclared(c)
BY DEF CompileFault

LEMMA FaultlessWitnesses ==
    ASSUME NEW c, c.ops \in Seq(Ops(c)), WitnessesFault(c) = "none"
    PROVE  ResetFault(c) = "none" /\ \A op \in WitnessedOps(c) : WitnessFault(op) = "none"
<1> DEFINE each == [i \in DOMAIN c.ops |->
                      IF c.ops[i].witness = <<>> THEN "none" ELSE WitnessFault(c.ops[i])]
           faults == each \o <<ResetFault(c)>>
<1>1. DOMAIN c.ops = 1 .. Len(c.ops) /\ Len(c.ops) \in Nat
  OBVIOUS
<1>2. each \in Seq({each[i] : i \in DOMAIN c.ops}) /\ Len(each) = Len(c.ops)
  <2>1. each \in [1 .. Len(c.ops) -> {each[i] : i \in DOMAIN c.ops}]
    BY <1>1
  <2> QED BY <1>1, <2>1, SeqDef
<1> DEFINE n == Len(c.ops)
<1>3. /\ DOMAIN faults = 1 .. n + 1 /\ faults[n + 1] = ResetFault(c)
      /\ \A i \in 1 .. n : faults[i] = each[i]
  <2> HIDE DEF each
  <2> QED BY <1>1, <1>2
<1>4. FirstFault(faults) = "none"
  BY DEF WitnessesFault
<1> HIDE DEF faults
<1>5. \A i \in 1 .. n + 1 : faults[i] = "none"
  BY <1>1, <1>3, <1>4, FaultlessAll
<1>6. \A i \in 1 .. n : each[i] = "none"
  <2> HIDE DEF each
  <2> TAKE i \in 1 .. n
  <2>1. i \in 1 .. n + 1
    BY <1>1
  <2>2. faults[i] = "none" /\ faults[i] = each[i]
    BY <1>3, <1>5, <2>1
  <2> QED BY <2>2
<1>7. ASSUME NEW op \in WitnessedOps(c) PROVE WitnessFault(op) = "none"
  <2>1. PICK i \in DOMAIN c.ops : c.ops[i].witness # <<>> /\ op = c.ops[i]
    BY DEF WitnessedOps
  <2>2. each[i] = WitnessFault(op)
    BY <2>1
  <2> QED BY <1>1, <1>6, <2>1, <2>2
<1> QED BY <1>1, <1>3, <1>5, <1>7

LEMMA OpsWitnessed ==
    ASSUME NEW c, NEW op \in WitnessedOps(c)
    PROVE  op \in Ops(c) /\ op.witness # <<>>
BY DEF WitnessedOps, Ops

(* What a contract that compiles reads, some conforming answer carries.    *)
LEMMA ReadsLive ==
    ASSUME NEW c, ContractShaped(c), NEW strict, CompileFault(c, strict) = "none"
    PROVE  /\ \A e \in Checks(c) : \A p \in AllPointers(e) :
                \A op \in ToSet(AnsweredBy(c, p)) :
                    TargetsDescribedChannel(op, p) /\ Len(p.tail) <= 2 =>
                        \E answer \in Answers(op, Tokens(c)) : p.tail \in answer
           /\ \A op \in WitnessedOps(c) : \A p \in AllPointers(Relation(op)) :
                TargetsDescribedChannel(op, p) /\ p.step # Bound /\ Len(p.tail) <= 2 =>
                    \E answer \in Answers(op, Tokens(c)) : p.tail \in Left(op, answer)
<1>1. /\ ~EvidenceUnreachable(c) /\ WitnessesFault(c) = "none"
      /\ c.ops \in Seq(Ops(c)) /\ c.steps \in Seq(ToSet(c.steps))
  BY FaultlessChecks DEF ContractShaped
<1>2. \A op \in Ops(c) : \A i \in DOMAIN op.collections : op.collections[i].bound \in Nat
  BY DEF ContractShaped, OpShaped
<1>3. ASSUME NEW e \in Expressions(c), NEW p \in AllPointers(e), p.tail \in Seq(ToSet(p.tail))
      PROVE  \A i \in DOMAIN p.tail : p.tail[i] \in Tokens(c)
  <2> TAKE i \in DOMAIN p.tail
  <2> DEFINE named(x) == UNION {ToSet(q.tail) : q \in AllPointers(x)}
  <2>1. p.tail[i] \in ToSet(p.tail)
    BY SetOf
  <2>2. p.tail[i] \in named(e)
    BY <2>1
  <2>3. Tokens(c) = (UNION {named(x) : x \in Expressions(c)}) \cup {"0"}
    BY DEF Tokens
  <2> HIDE DEF named
  <2> QED BY <2>2, <2>3
<1>4. ASSUME NEW op, NEW p, TargetsDescribedChannel(op, p), p.step # Bound, ReachableOn(op, p)
      PROVE  DescendThroughDescriptor(op, p.tail)
  BY <1>4 DEF TargetsDescribedChannel, ReachableOn
<1>5. ASSUME NEW e \in Checks(c), NEW p \in AllPointers(e), NEW op \in ToSet(AnsweredBy(c, p)),
             TargetsDescribedChannel(op, p), Len(p.tail) <= 2
      PROVE  \E answer \in Answers(op, Tokens(c)) : p.tail \in answer
  <2>1. ToSet(AnsweredBy(c, p)) = {AnsweredBy(c, p)[i] : i \in DOMAIN AnsweredBy(c, p)}
    BY SetOf
  <2> DEFINE o == Addressed(c, p)
  <2>2. o # 0 /\ op = c.ops[o]
    BY <2>1 DEF AnsweredBy
  <2>3. StepOf(c, p.step) # 0 /\ o = OperationOf(c, c.steps[StepOf(c, p.step)])
    BY <2>2 DEF Addressed
  <2>4. IsFiniteSet(DOMAIN c.steps) /\ IsFiniteSet(DOMAIN c.ops)
    <3>1. /\ DOMAIN c.steps = 1 .. Len(c.steps) /\ Len(c.steps) \in Nat
          /\ DOMAIN c.ops = 1 .. Len(c.ops) /\ Len(c.ops) \in Nat
      BY <1>1
    <3> QED BY <3>1, FS_Interval
  <2>5. StepOf(c, p.step) \in DOMAIN c.steps /\ c.steps[StepOf(c, p.step)].id = p.step
    <3> DEFINE S == {i \in DOMAIN c.steps : c.steps[i].id = p.step}
    <3>1. IsFiniteSet(S)
      BY <2>4, FS_Subset
    <3>2. Only(S) \in S
      BY <2>3, <3>1, OnlyIn DEF StepOf
    <3> QED BY <3>2 DEF StepOf
  <2>6. o \in DOMAIN c.ops
    <3> DEFINE step == c.steps[StepOf(c, p.step)]
               S == {i \in DOMAIN c.ops : c.ops[i].iface = step.iface /\ c.ops[i].id = step.op}
    <3>1. IsFiniteSet(S)
      BY <2>4, FS_Subset
    <3>2. o = Only(S)
      BY <2>3 DEF OperationOf
    <3>3. Only(S) \in S
      <4> HIDE DEF S
      <4> QED BY <2>2, <3>1, <3>2, OnlyIn
    <3> QED BY <3>2, <3>3
  <2>7. op \in Ops(c)
    BY <2>2, <2>6, OpsOf
  <2>8. p.step # Bound
    BY <2>5 DEF ContractShaped
  <2>9. ReachableOn(op, p)
    BY <1>1, <2>2, <2>8, <1>5 DEF EvidenceUnreachable, Reachable
  <2>10. DescendThroughDescriptor(op, p.tail)
    BY <1>4, <1>5, <2>8, <2>9
  <2>11. e \in Expressions(c)
    <3>1. e # <<>>
      BY <1>5 DEF AllPointers
    <3> QED BY <3>1 DEF Expressions
  <2>12. p.tail \in Seq(ToSet(p.tail))
    BY DEF ContractShaped, Listed
  <2> QED BY <1>2, <1>3, <1>5, <2>7, <2>10, <2>11, <2>12, AnswerCarries
<1>6. ASSUME NEW op \in WitnessedOps(c), NEW p \in AllPointers(Relation(op)),
             TargetsDescribedChannel(op, p), p.step # Bound, Len(p.tail) <= 2
      PROVE  \E answer \in Answers(op, Tokens(c)) : p.tail \in Left(op, answer)
  <2>1. WitnessFault(op) = "none"
    BY <1>1, FaultlessWitnesses
  <2>2. WitnessPointerLegal(op, p)
    BY <1>6, <2>1 DEF WitnessFault, Rooted
  <2>3. DescendThroughDescriptor(op, p.tail) /\ ~\E v \in op.volatile : Covers(v, p.tail)
    BY <1>4, <1>6, <2>2 DEF WitnessPointerLegal, PrunedFromLeg
  <2>4. op \in Ops(c) /\ op.witness # <<>>
    BY OpsWitnessed
  <2>5. p.tail \in Seq(ToSet(p.tail))
    BY <2>4 DEF ContractShaped, OpShaped, Listed
  <2>6. Relation(op) \in Expressions(c)
    BY DEF Expressions
  <2>7. \E answer \in Answers(op, Tokens(c)) : p.tail \in answer
    BY <1>2, <1>3, <1>6, <2>3, <2>4, <2>5, <2>6, AnswerCarries
  <2> QED BY <2>3, <2>7 DEF Left
<1> QED BY <1>5, <1>6

(* What is compiled, sealed or not, was found without a fault.             *)
CompiledInv == Compiled => CompileFault(contract, draft.strict) = "none"

LEMMA CompiledSteps ==
    ASSUME CompiledInv, [AuthoringNext]_authoringVars
    PROVE  CompiledInv'
<1>1. ASSUME UNCHANGED draft
      PROVE  CompileFault(contract, draft.strict)' = CompileFault(contract, draft.strict)
  BY <1>1 DEF contract
<1>2. ASSUME UNCHANGED <<draft, phase>> PROVE CompiledInv'
  BY <1>1, <1>2 DEF CompiledInv, Compiled
<1>3. ASSUME phase' \notin {"compiled", "sealed"} PROVE CompiledInv'
  BY <1>3 DEF CompiledInv, Compiled
<1>4. CASE Parse
  BY <1>3, <1>4 DEF Parse
<1>5. CASE CompileStage
  <2>1. fault' = CompileFault(contract, draft.strict) /\ UNCHANGED draft
    BY <1>5 DEF CompileStage
  <2>2. phase' = "compiled" => fault' = "none"
    BY <1>5 DEF CompileStage
  <2>3. phase' # "sealed"
    BY <1>5 DEF CompileStage
  <2> QED BY <1>1, <2>1, <2>2, <2>3 DEF CompiledInv, Compiled
<1>6. CASE SealStage
  BY <1>1, <1>6 DEF SealStage, CompiledInv, Compiled
<1>7. CASE Rearrange
  BY <1>3, <1>7 DEF Rearrange
<1>8. CASE Score
  BY <1>3, <1>8 DEF Score
<1>9. CASE Cover
  BY <1>2, <1>9 DEF Cover
<1>10. CASE Mint \/ Revise \/ Edit
  BY <1>2, <1>10 DEF Mint, Revise, Edit, Keep
<1>11. CASE Present
  BY <1>2, <1>11 DEF Present
<1>12. CASE UNCHANGED authoringVars
  BY <1>2, <1>12 DEF authoringVars
<1> QED BY <1>4, <1>5, <1>6, <1>7, <1>8, <1>9, <1>10, <1>11, <1>12 DEF AuthoringNext

(* Whatever a contract that compiles reads of a described channel, some    *)
(* answer that conforms to its declarations carries, and pre-flight's      *)
(* projection leaves (core/compile/reachability.ts against                 *)
(* core/preflight/projection.ts).                                          *)
THEOREM NoDeadEvidenceHolds == AuthoringSpec => []NoDeadEvidence
<1>1. AuthoringInit => CompiledInv
  BY DEF AuthoringInit, CompiledInv, Compiled
<1>2. FitInv /\ CompiledInv => NoDeadEvidence
  <2> SUFFICES ASSUME FitInv, CompiledInv, Compiled PROVE NoDeadEvidence
    BY DEF NoDeadEvidence
  <2>1. ContractShaped(contract) /\ CompileFault(contract, draft.strict) = "none"
    BY FitsShaped DEF FitInv, CompiledInv, Compiled
  <2> QED BY <2>1, ReadsLive DEF NoDeadEvidence
<1>3. AuthoringInv => FitInv
  BY DEF AuthoringInv
<1> QED BY <1>1, <1>2, <1>3, AuthoringInitially, AuthoringSteps, CompiledSteps, PTL DEF AuthoringSpec
=============================================================================
