----------------------------- MODULE ProbeWitness -----------------------------
(***************************************************************************)
(* core/score/witness.ts: did a finding cited against a probe witness the  *)
(* defect that the probe seeds, and into which bucket does a finding fall. *)
(*                                                                         *)
(* An observation is [id, home, chosen, admitted, resolves]: whether it is *)
(* on the signature's home operation, whether the evaluator chose the call *)
(* (and not a recorded baseline), whether the signature's selector admits  *)
(* it, and what the discriminating condition resolves to over it.          *)
(* A defect finding is [id, oracle, own, cites, severe, sure]: the oracle  *)
(* it cites ("none" for none), whether it names this probe, the            *)
(* observation identifiers it cites, and whether its severity and its      *)
(* confidence reach the policy's floor and threshold.                      *)
(* The source orders both arrays before reading them and reads no position *)
(* here, so they are sets.                                                 *)
(***************************************************************************)
EXTENDS Naturals

(* A probe is [class, clean, signed, homed, sound]: `homed` says that the  *)
(* contract declares the operation its signature names, `sound` that every *)
(* other rule of the qualification gate holds.                             *)
Signed(p) == ~p.clean /\ p.signed

(* The class rules of the gate.  The one clean control that a route admits *)
(* is a zero-action probe; a canary carries no signature and every other   *)
(* seeding class carries one.                                              *)
Qualified(p) ==
    /\ p.sound
    /\ p.clean => p.class = "zero-action"
    /\ ~p.clean => (p.signed <=> p.class # "canary")

Ids(observations) == {o.id : o \in observations}

OnHome(p, observations) == {o \in observations : p.homed /\ o.home}

\* Mutant: a harness baseline counts as the evaluator's own call.
ExercisedByAnyone(p, observations) == OnHome(p, observations)

Exercised(p, observations) == {o \in OnHome(p, observations) : o.chosen}

Candidates(p, observations) == {o \in Exercised(p, observations) : o.admitted}

Resolving(p, observations, value) ==
    Ids({o \in Candidates(p, observations) : o.resolves = value})

(* A defect finding that names this probe claims a detection only when it  *)
(* cites the home operation.                                               *)
Claims(p, observations, findings) ==
    {f \in findings : f.own /\ f.cites \cap Ids(OnHome(p, observations)) # {}}

Unwitnessed(p, observations, findings) ==
    {f \in Claims(p, observations, findings) :
        f.cites \cap Resolving(p, observations, "true") = {}}

\* Mutant: one refuting candidate outweighs a manifestation.
MatchResultRefuted(p, observations, findings) ==
    IF Exercised(p, observations) = {} THEN "unexercised"
    ELSE IF Unwitnessed(p, observations, findings) # {} THEN "unwitnessed-claim"
    ELSE IF Resolving(p, observations, "true") # {}
            /\ Claims(p, observations, findings) # {} THEN "matched"
    ELSE IF Candidates(p, observations) = {}
            \/ Resolving(p, observations, "false") # {} THEN "not-triggered"
    ELSE IF Resolving(p, observations, "true") # {} THEN "manifested-unclaimed"
    ELSE "vacuous"

(* matchProbeWitness: the six results in the order the source tries them.  *)
MatchResult(p, observations, findings) ==
    IF Exercised(p, observations) = {} THEN "unexercised"
    ELSE IF Unwitnessed(p, observations, findings) # {} THEN "unwitnessed-claim"
    ELSE IF Resolving(p, observations, "true") # {}
         THEN IF Claims(p, observations, findings) # {}
              THEN "matched" ELSE "manifested-unclaimed"
    ELSE IF Candidates(p, observations) = {}
            \/ Resolving(p, observations, "false") # {} THEN "not-triggered"
    ELSE "vacuous"

(* mapFindings, for one finding against the one probe of the set.          *)
Bucket(p, observations, f) ==
    IF ~f.own THEN "dangling"
    ELSE IF ~Signed(p) THEN "signatureless"
    ELSE IF f.cites \cap Ids(OnHome(p, observations)) # {} THEN "mapped"
    ELSE "unmapped"
===============================================================================
