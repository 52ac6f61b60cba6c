---------------------------- MODULE StepSelection ----------------------------
(***************************************************************************)
(* The order among the steps of an interaction plan.  A step may capture   *)
(* values from other steps' observations and may be declared to come       *)
(* `after` one.  Compilation (core/compile/scripting-bound.ts and          *)
(* bindings.ts) rejects a plan whose order is unsatisfiable, by strongly   *)
(* connected components; scoring (core/score/binding-order.ts) sorts what  *)
(* it is given into tiers, and knows nothing of the other's answer.        *)
(*                                                                         *)
(* Tarjan's algorithm is modelled as the code runs it, one edge per step;  *)
(* `frames` is the call stack of `connect`, innermost last.                *)
(***************************************************************************)
EXTENDS Naturals, Sequences, ScriptingBound, FiniteSetsExt

CONSTANTS N,          \* steps 1 .. N, in declaration order
          Plans       \* the plans to be compiled

Steps == 1 .. N

Nowhere == 0   \* an identifier that no step of the plan has

None == N + 1  \* no temporal clause

Cardinalities == {"exactly-one", "at-most-one", "any"}

(* A step, by what orders it: the steps it captures from, its temporal     *)
(* clause, its declared cardinality.                                       *)
StepShape ==
    [captures : SUBSET (Steps \cup {Nowhere}), after : Steps \cup {Nowhere, None},
     cardinality : Cardinalities]

ASSUME PlanAssumption == N \in Nat \ {0} /\ Plans \subseteq [Steps -> StepShape]

VARIABLES plan,       \* the plan at hand
          verdict,    \* of its compilation, "none" before it is known
          order, lowLink, tarjanStack, component, frames

compileVars == <<plan, verdict, order, lowLink, tarjanStack, component, frames>>

Unset == N + 1

-----------------------------------------------------------------------------
(* bindings.ts: the edges of the ordering graph, and the walk over it.     *)

(* Mutant: the temporal clauses are no edges.                              *)
EdgesOfCaptures(s) == plan[s].captures \cap Steps

Edges(s) == (plan[s].captures \cup {plan[s].after}) \cap Steps

Least(a, b) == IF a < b THEN a ELSE b

Ordered == {s \in Steps : order[s] # Unset}

OnStack == {tarjanStack[i] : i \in DOMAIN tarjanStack}

(* An edge to a step that is still on the stack leads back.                *)
Closes(next) == next \in OnStack

(* connect(s), up to its loop over the edges.                              *)
Connect(s) ==
    LET next == Cardinality(Ordered) IN
    /\ order' = [order EXCEPT ![s] = next]
    /\ lowLink' = [lowLink EXCEPT ![s] = next]
    /\ tarjanStack' = Append(tarjanStack, s)
    /\ frames' = Append(frames, [step |-> s, left |-> Edges(s)])
    /\ UNCHANGED component

Top == frames[Len(frames)]

CompileInit ==
    /\ plan \in Plans
    /\ verdict = "none"
    /\ order = [s \in Steps |-> Unset] /\ lowLink = [s \in Steps |-> Unset]
    /\ component = [s \in Steps |-> Unset]
    /\ tarjanStack = <<>> /\ frames = <<>>

(* The checks that come before, in compile()'s order.                      *)
Refused ==
    IF \E s \in Steps : Nowhere \in plan[s].captures
    THEN "unreachable-check-evidence"
    ELSE IF NestedTemporalClause(plan) THEN "nested-temporal-clause"
    ELSE IF ExceedsScriptingBound(plan) THEN "plan-exceeds-scripting-bound"
    ELSE "none"

Refuse ==
    /\ verdict = "none" /\ Ordered = {} /\ Refused # "none"
    /\ verdict' = Refused
    /\ UNCHANGED <<plan, order, lowLink, tarjanStack, component, frames>>

Compiling == verdict = "none" /\ Refused = "none"

(* The next step, in declaration order, that no earlier walk reached.      *)
StartWalk ==
    /\ Compiling /\ frames = <<>>
    /\ \E s \in Steps \ Ordered :
          (\A t \in Steps \ Ordered : s <= t) /\ Connect(s)
    /\ UNCHANGED <<plan, verdict>>

(* One edge of the innermost step: descend, or lower its link.  The order  *)
(* of a step's edges is that of its parameters' names.                     *)
FollowEdge ==
    /\ Compiling /\ frames # <<>>
    /\ \E next \in Top.left :
          IF next \notin Ordered
          THEN Connect(next)
          ELSE /\ lowLink' =
                     IF Closes(next)
                     THEN [lowLink EXCEPT ![Top.step] = Least(@, order[next])]
                     ELSE lowLink
               /\ frames' = [frames EXCEPT ![Len(frames)].left = @ \ {next}]
               /\ UNCHANGED <<order, tarjanStack, component>>
    /\ UNCHANGED <<plan, verdict>>

(* connect(s) returns: a root takes its component off the stack, and the   *)
(* caller lowers its own link.                                             *)
LeaveStep ==
    /\ Compiling /\ frames # <<>> /\ Top.left = {}
    /\ LET s == Top.step
           depth == Len(frames)
           at == CHOOSE i \in DOMAIN tarjanStack : tarjanStack[i] = s
       IN
       /\ IF lowLink[s] = order[s]
          THEN /\ component' =
                     [t \in Steps |->
                         IF \E i \in DOMAIN tarjanStack : i >= at /\ tarjanStack[i] = t
                         THEN s ELSE component[t]]
               /\ tarjanStack' = SubSeq(tarjanStack, 1, at - 1)
          ELSE UNCHANGED <<component, tarjanStack>>
       /\ IF depth = 1
          THEN frames' = <<>> /\ UNCHANGED lowLink
          ELSE LET caller == frames[depth - 1].step IN
               /\ lowLink' = [lowLink EXCEPT ![caller] = Least(@, lowLink[s])]
               /\ frames' = [SubSeq(frames, 1, depth - 1) EXCEPT
                                ![depth - 1].left = @ \ {s}]
    /\ UNCHANGED <<plan, verdict, order>>

(* A capture whose two ends share a component closes a cycle.              *)
JudgeCycle ==
    /\ Compiling /\ frames = <<>> /\ Ordered = Steps
    /\ verdict' = IF \E s \in Steps : \E c \in plan[s].captures \cap Steps :
                        component[s] = component[c]
                  THEN "binding-cycle" ELSE "accepted"
    /\ UNCHANGED <<plan, order, lowLink, tarjanStack, component, frames>>

Compile == Refuse \/ StartWalk \/ FollowEdge \/ LeaveStep \/ JudgeCycle

-----------------------------------------------------------------------------
(* binding-order.ts: Kahn's tiers.                                         *)

(* Mutant: what a step is declared to come after need not be placed.       *)
DependenciesOnCaptures(s) == plan[s].captures \cap Steps

Dependencies(s) == (plan[s].captures \cup {plan[s].after}) \cap Steps

(* The tier that follows once `placed` are.                                *)
Tier(placed) == {s \in Steps \ placed : Dependencies(s) \subseteq placed}

(* The steps that are placed within the first n tiers.                     *)
PlacedWithin[n \in 0 .. N] ==
    IF n = 0 THEN {} ELSE PlacedWithin[n - 1] \cup Tier(PlacedWithin[n - 1])

Cyclic == Steps \ PlacedWithin[N]

-----------------------------------------------------------------------------
(***************************************************************************)
(* core/score/bindings.ts and selection.ts: which observations of a trial  *)
(* each step of the plan selects.  Captured values are resolved tier by    *)
(* tier, each against the values that the tiers before it left in          *)
(* `resolved`, and the selections are read off at the end.                 *)
(*                                                                         *)
(* An observation's place in `record` is its sequence number.  It is       *)
(*   fits   the steps whose operation it calls and whose bindings other    *)
(*          than captures it satisfies                                     *)
(*   given  what it sends under the key of a captured binding, or Missing  *)
(*   body   what a captured pointer finds in its response, or Missing      *)
(***************************************************************************)
CONSTANTS Scored,           \* the plans of which trials are scored
          Observations,     \* an observation of a trial is one of these
          MaxObservations,  \* of one trial
          Values, Missing

ASSUME RecordAssumption ==
    /\ MaxObservations \in Nat /\ Missing \notin Values
    /\ Observations \subseteq [fits : SUBSET Steps, given : Values \cup {Missing},
                               body : Values \cup {Missing}]

VARIABLES stage,      \* "compile", "record", "resolve" or "selected"
          record,     \* the trial's observations, by sequence
          resolved,   \* what each captured binding resolved to
          placed,     \* the steps of the tiers that are done
          tier        \* those of the current tier that are still to come

vars == <<compileVars, stage, record, resolved, placed, tier>>

Sites == Steps \X (Steps \cup {Nowhere})

Unlisted == [status |-> "unlisted"]

Absent == [status |-> "absent"]

Ambiguous == [status |-> "ambiguous"]

From(i) == [status |-> "resolved", value |-> record[i].body, sequence |-> i]

(* selectOne: a several-match binds its earliest under "any" only.         *)
One(s, matched) ==
    IF matched = {} THEN Absent
    ELSE IF Cardinality(matched) > 1 /\ plan[s].cardinality # "any" THEN Ambiguous
    ELSE From(Min(matched))

IsOne(resolution) == resolution.status = "resolved"

(* selectFiltered: what the step's own clause, captures and bindings leave *)
(* of the observations, when its anchor is `anchor`.                       *)
Filtered(s, anchor, values) ==
    IF (HasParent(plan, s) /\ ~IsOne(anchor)) \/ \E c \in plan[s].captures : ~IsOne(values[<<s, c>>])
    THEN {}
    ELSE {i \in DOMAIN record :
            /\ s \in record[i].fits
            /\ HasParent(plan, s) => i > anchor.sequence
            /\ \A c \in plan[s].captures :
                  /\ i > values[<<s, c>>].sequence
                  /\ record[i].given # Missing
                  /\ record[i].given = values[<<s, c>>].value}

(* The selection of every step.  A chain of anchors longer than the plan   *)
(* has come back to a step it passed, and the code's guard ends it there.  *)
Selections(values) ==
    LET within[n \in 0 .. N] ==
            [s \in Steps |->
                IF n = 0 THEN {}
                ELSE LET anchor == IF HasParent(plan, s)
                                   THEN One(plan[s].after, within[n - 1][plan[s].after])
                                   ELSE Absent
                     IN Filtered(s, anchor, values)]
    IN within[N]

(* resolveCapturedValue.                                                   *)
CapturedValue(c, values) == IF c \in Steps THEN One(c, Selections(values)[c]) ELSE Absent

-----------------------------------------------------------------------------
Init ==
    /\ CompileInit
    /\ stage = "compile"
    /\ record = <<>>
    /\ resolved = [site \in Sites |-> Unlisted]
    /\ placed = {} /\ tier = {}

CompileStep ==
    /\ stage = "compile" /\ Compile
    /\ UNCHANGED <<stage, record, resolved, placed, tier>>

(* Scoring takes a plan as it is, compiled or not.                         *)
OpenTrial ==
    /\ stage = "compile" /\ verdict # "none" /\ plan \in Scored
    /\ stage' = "record"
    /\ UNCHANGED <<compileVars, record, resolved, placed, tier>>

Observe ==
    /\ stage = "record" /\ Len(record) < MaxObservations
    /\ \E observation \in Observations : record' = Append(record, observation)
    /\ UNCHANGED <<compileVars, stage, resolved, placed, tier>>

StartResolving ==
    /\ stage = "record"
    /\ stage' = "resolve"
    /\ UNCHANGED <<compileVars, record, resolved, placed, tier>>

OpenTier ==
    /\ stage = "resolve" /\ tier = {}
    /\ tier' = Tier(placed)
    /\ tier' # {}
    /\ UNCHANGED <<compileVars, stage, record, resolved, placed>>

(* The captured bindings of the tier's next step, in declaration order.    *)
ResolveStep ==
    /\ stage = "resolve" /\ tier # {}
    /\ LET s == Min(tier) IN
       /\ resolved' =
              [site \in Sites |->
                  IF site[1] = s /\ site[2] \in plan[s].captures
                  THEN CapturedValue(site[2], resolved)
                  ELSE resolved[site]]
       /\ tier' = tier \ {s}
       /\ placed' = placed \cup {s}
    /\ UNCHANGED <<compileVars, stage, record>>

Select ==
    /\ stage = "resolve" /\ tier = {} /\ Tier(placed) = {}
    /\ stage' = "selected"
    /\ UNCHANGED <<compileVars, record, resolved, placed, tier>>

Selected ==
    /\ stage = "selected" \/ (stage = "compile" /\ verdict # "none" /\ plan \notin Scored)
    /\ UNCHANGED vars

Next ==
    \/ CompileStep
    \/ OpenTrial
    \/ Observe
    \/ StartResolving
    \/ OpenTier
    \/ ResolveStep
    \/ Select
    \/ Selected

Spec == Init /\ [][Next]_vars

-----------------------------------------------------------------------------
(* What a step leads to, within as many edges as the plan has steps.       *)
LeadsTo(c) ==
    LET within[n \in 0 .. N] ==
            IF n = 0 THEN {c}
            ELSE within[n - 1] \cup UNION {Edges(t) : t \in within[n - 1]}
    IN within[N]

(* A compiled plan can be ordered: the components that compilation judges  *)
(* by and the tiers that scoring sorts into agree, so that no step of an   *)
(* accepted plan is left out of the tiers, and a plan refused for a cycle  *)
(* has a capture that leads back to its own step.                          *)
CompiledPlansOrdered ==
    /\ verdict = "accepted" => Cyclic = {}
    /\ verdict = "binding-cycle" =>
          \E s \in Steps : \E c \in plan[s].captures \cap Steps : s \in LeadsTo(c)

(* A captured value is what its step is scored on: resolving any binding   *)
(* again gives what the tier walk gave.                                    *)
ResolutionStable ==
    stage = "selected" /\ Cyclic = {} =>
        \A s \in Steps : \A c \in plan[s].captures :
            resolved[<<s, c>>] = CapturedValue(c, resolved)

(* An observation that a step selects comes strictly after the one that    *)
(* its anchor selects, and after the one each captured value was read from *)
(* by that step's own selection, and sends that value.                     *)
Causal ==
    stage = "selected" =>
        LET chosen == Selections(resolved) IN
        \A s \in Steps : \A i \in chosen[s] :
            /\ HasParent(plan, s) =>
                  LET anchor == One(plan[s].after, chosen[plan[s].after]) IN
                  IsOne(anchor) /\ anchor.sequence < i
            /\ \A c \in plan[s].captures :
                  LET source == CapturedValue(c, resolved) IN
                  /\ IsOne(source) /\ source.sequence < i
                  /\ source.value # Missing /\ record[i].given = source.value

(* Evidence is causal (selection.ts, bindings.ts): what a step selects     *)
(* follows what it depends on, nothing is taken from an ambiguous or a     *)
(* missing source, and the order in which a plan declares its steps        *)
(* decides nothing.                                                        *)
CausalEvidence == ResolutionStable /\ Causal
==============================================================================
