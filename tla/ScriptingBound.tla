---------------------------- MODULE ScriptingBound ----------------------------
(***************************************************************************)
(* core/compile/scripting-bound.ts: how much order a plan may impose.  A   *)
(* plan is a sequence of steps with a field `after`, the position of the   *)
(* step that its temporal clause names; any other value is none.           *)
(***************************************************************************)
EXTENDS Naturals, FiniteSets

CONSTANTS WidthMax, SharedAnchorMax, DisjointPairMax, StepCountMax

HasParent(plan, s) == plan[s].after \in DOMAIN plan

(* checkNestedTemporalClause.                                              *)
NestedTemporalClause(plan) ==
    \E s \in DOMAIN plan : HasParent(plan, s) /\ HasParent(plan, plan[s].after)

Children(plan, p) == {s \in DOMAIN plan : plan[s].after = p}

(* Two steps, one after the other and neither tied to a third.             *)
DisjointPairs(plan) ==
    {pair \in SUBSET DOMAIN plan :
        /\ Cardinality(pair) = 2
        /\ \E s, p \in pair : s # p /\ plan[s].after = p
        /\ \A s \in DOMAIN plan, p \in DOMAIN plan :
              plan[s].after = p => (s \in pair <=> p \in pair)}

(* checkScriptingBound.                                                    *)
ExceedsScriptingBound(plan) ==
    \/ NestedTemporalClause(plan)
    \/ \E p \in DOMAIN plan : Cardinality(Children(plan, p)) > WidthMax
    \/ Cardinality({p \in DOMAIN plan : Cardinality(Children(plan, p)) >= 2}) > SharedAnchorMax
    \/ Cardinality(DisjointPairs(plan)) > DisjointPairMax
    \/ Cardinality(DOMAIN plan) > StepCountMax
=============================================================================
