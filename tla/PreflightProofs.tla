---------------------------- MODULE PreflightProofs ----------------------------
(***************************************************************************)
(* What is proved of Preflight, for every collection of contracts, probes  *)
(* and worlds and any number of observations: the outcome is earned, and a *)
(* fixture that was changed is known to have been reset.                   *)
(***************************************************************************)
EXTENDS Preflight, FiniteSetTheorems, SequenceTheorems, WellFoundedInduction, TLAPS

-----------------------------------------------------------------------------
(* Numbers and sequences.                                                  *)

(* A set of numbers that is not empty has a least one.                     *)
LEMMA LeastOf ==
    ASSUME NEW T \in SUBSET Nat, T # {}
    PROVE  Min(T) \in T /\ \A j \in T : Min(T) <= j
<1> DEFINE R == OpToRel(<, Nat)
<1>1. \A x, y \in Nat : <<x, y>> \in R <=> x < y
  BY DEF OpToRel
<1>2. IsWellFoundedOn(R, Nat)
  BY NatLessThanWellFounded
<1> HIDE DEF R
<1>3. PICK x \in T : \A y \in T : ~ (<<y, x>> \in R)
  BY <1>2, WFMin
<1>4. \A y \in T : ~(y < x)
  BY <1>1, <1>3
<1>5. \A y \in T : x <= y
  BY <1>4
<1> QED BY <1>5 DEF Min

(* A sequence, whatever its elements are.                                  *)
IsList(seq) == seq \in Seq(ToSet(seq))

LEMMA ListIs ==
    ASSUME NEW seq, IsList(seq)
    PROVE  /\ Len(seq) \in Nat /\ DOMAIN seq = 1 .. Len(seq)
           /\ \A e : e \in ToSet(seq) <=> \E i \in 1 .. Len(seq) : e = seq[i]
<1>1. Len(seq) \in Nat /\ DOMAIN seq = 1 .. Len(seq)
  BY LenProperties DEF IsList
<1> QED BY <1>1 DEF ToSet

LEMMA ListOf ==
    ASSUME NEW W, NEW seq \in Seq(W)
    PROVE  IsList(seq)
<1>1. /\ Len(seq) \in Nat /\ seq \in [1 .. Len(seq) -> W] /\ DOMAIN seq = 1 .. Len(seq)
  BY LenProperties
<1>2. seq \in [1 .. Len(seq) -> ToSet(seq)]
  BY <1>1 DEF ToSet
<1> QED BY <1>1, <1>2, SeqDef DEF IsList

LEMMA ListJoined ==
    ASSUME NEW s, NEW t, IsList(s), IsList(t)
    PROVE  /\ IsList(s \o t) /\ Len(s \o t) = Len(s) + Len(t)
           /\ \A i \in 1 .. Len(s) : (s \o t)[i] = s[i]
           /\ \A i \in 1 .. Len(t) : (s \o t)[Len(s) + i] = t[i]
           /\ \A i \in 1 .. Len(s) + Len(t) :
                 \/ i \in 1 .. Len(s)
                 \/ i - Len(s) \in 1 .. Len(t) /\ (s \o t)[i] = t[i - Len(s)]
           /\ ToSet(s \o t) = ToSet(s) \cup ToSet(t)
<1> DEFINE W == ToSet(s) \cup ToSet(t)
<1>1. s \in Seq(W) /\ t \in Seq(W)
  BY SeqMonotonic DEF IsList
<1> HIDE DEF W
<1>2. Len(s) \in Nat /\ Len(t) \in Nat
  BY ListIs
<1>3. /\ s \o t \in Seq(W) /\ Len(s \o t) = Len(s) + Len(t)
      /\ \A i \in 1 .. Len(s) + Len(t) :
            (s \o t)[i] = IF i <= Len(s) THEN s[i] ELSE t[i - Len(s)]
  BY <1>1, ConcatProperties
<1>4. IsList(s \o t)
  BY <1>3, ListOf
<1>5. /\ \A i \in 1 .. Len(s) : (s \o t)[i] = s[i]
      /\ \A i \in 1 .. Len(t) : (s \o t)[Len(s) + i] = t[i]
      /\ \A i \in 1 .. Len(s) + Len(t) :
            \/ i \in 1 .. Len(s)
            \/ i - Len(s) \in 1 .. Len(t) /\ (s \o t)[i] = t[i - Len(s)]
  BY <1>2, <1>3
<1>6. ToSet(s \o t) = ToSet(s) \cup ToSet(t)
  <2> DEFINE u == s \o t
  <2>1. \A e : e \in ToSet(u) <=> \E i \in 1 .. Len(u) : e = u[i]
    BY <1>4, ListIs
  <2>2. /\ \A e : e \in ToSet(s) <=> \E i \in 1 .. Len(s) : e = s[i]
        /\ \A e : e \in ToSet(t) <=> \E i \in 1 .. Len(t) : e = t[i]
    BY ListIs
  <2>3. /\ \A i \in 1 .. Len(s) : i \in 1 .. Len(u) /\ u[i] = s[i]
        /\ \A i \in 1 .. Len(t) : Len(s) + i \in 1 .. Len(u) /\ u[Len(s) + i] = t[i]
        /\ \A i \in 1 .. Len(u) :
              \/ i \in 1 .. Len(s)
              \/ i - Len(s) \in 1 .. Len(t) /\ u[i] = t[i - Len(s)]
    BY <1>2, <1>3, <1>5
  <2> HIDE DEF u
  <2>4. \A e : e \in ToSet(u) <=> e \in ToSet(s) \/ e \in ToSet(t)
    <3>1. ASSUME NEW e \in ToSet(s) PROVE e \in ToSet(u)
      BY <2>1, <2>2, <2>3
    <3>2. ASSUME NEW e \in ToSet(t) PROVE e \in ToSet(u)
      <4>1. PICK i \in 1 .. Len(t) : e = t[i]
        BY <2>2
      <4>2. Len(s) + i \in 1 .. Len(u) /\ u[Len(s) + i] = e
        BY <2>3, <4>1
      <4> QED BY <2>1, <4>2
    <3>3. ASSUME NEW e \in ToSet(u) PROVE e \in ToSet(s) \/ e \in ToSet(t)
      <4>1. PICK i \in 1 .. Len(u) : e = u[i]
        BY <2>1
      <4> QED BY <2>2, <2>3, <4>1
    <3> QED BY <3>1, <3>2, <3>3
  <2>5. ToSet(u) = ToSet(s) \cup ToSet(t)
    BY <2>4
  <2> QED BY <2>5 DEF u
<1> QED BY <1>3, <1>4, <1>5, <1>6

LEMMA ListAppended ==
    ASSUME NEW s, IsList(s), NEW e
    PROVE  /\ IsList(Append(s, e)) /\ Len(Append(s, e)) = Len(s) + 1
           /\ \A i \in 1 .. Len(s) : Append(s, e)[i] = s[i]
           /\ Append(s, e)[Len(s) + 1] = e
           /\ ToSet(Append(s, e)) = ToSet(s) \cup {e}
<1>1. s \in Seq(ToSet(s) \cup {e})
  BY SeqMonotonic DEF IsList
<1>2. Len(s) \in Nat
  BY ListIs
<1>3. /\ Append(s, e) \in Seq(ToSet(s) \cup {e}) /\ Len(Append(s, e)) = Len(s) + 1
      /\ \A i \in 1 .. Len(s) : Append(s, e)[i] = s[i]
      /\ Append(s, e)[Len(s) + 1] = e
  BY <1>1, AppendProperties
<1>4. IsList(Append(s, e))
  BY <1>3, ListOf
<1>5. ToSet(Append(s, e)) = ToSet(s) \cup {e}
  <2> DEFINE u == Append(s, e)
  <2>1. \A x : x \in ToSet(u) <=> \E i \in 1 .. Len(u) : x = u[i]
    BY <1>4, ListIs
  <2>2. \A x : x \in ToSet(s) <=> \E i \in 1 .. Len(s) : x = s[i]
    BY ListIs
  <2>3. /\ \A i \in 1 .. Len(s) : i \in 1 .. Len(u) /\ u[i] = s[i]
        /\ Len(s) + 1 \in 1 .. Len(u) /\ u[Len(s) + 1] = e
        /\ \A i \in 1 .. Len(u) : i \in 1 .. Len(s) \/ i = Len(s) + 1
    BY <1>2, <1>3
  <2> HIDE DEF u
  <2>4. \A x : x \in ToSet(u) <=> x \in ToSet(s) \/ x = e
    BY <2>1, <2>2, <2>3
  <2>5. ToSet(u) = ToSet(s) \cup {e}
    BY <2>4
  <2> QED BY <2>5 DEF u
<1> QED BY <1>3, <1>4, <1>5

(* g[i] is the first i parts, joined.                                      *)
Flattens(g, parts, n) ==
    g = [i \in 1 .. n |-> IF i = 1 THEN parts[i] ELSE g[i - 1] \o parts[i]]

(* There is such a g up to every place: there is no least one without.     *)
LEMMA FlattensExists ==
    ASSUME NEW parts, NEW n \in Nat
    PROVE  \E g : Flattens(g, parts, n)
<1> DEFINE T == {m \in Nat : ~\E g : Flattens(g, parts, m)}
<1> SUFFICES ASSUME T # {} PROVE FALSE
  OBVIOUS
<1>1. T \in SUBSET Nat
  OBVIOUS
<1>2. PICK m \in T : \A j \in T : m <= j
  BY <1>1, LeastOf
<1>3. CASE m = 0
  <2> DEFINE h == [i \in 1 .. 0 |-> parts[i]]
  <2>1. h = [i \in 1 .. 0 |-> IF i = 1 THEN parts[i] ELSE h[i - 1] \o parts[i]]
    OBVIOUS
  <2> HIDE DEF h
  <2>2. Flattens(h, parts, 0)
    BY <2>1 DEF Flattens
  <2> QED BY <1>2, <1>3, <2>2
<1>4. CASE m # 0
  <2>1. m \in Nat \ {0} /\ m - 1 \in Nat /\ ~(m <= m - 1)
    BY <1>2, <1>4
  <2>2. PICK g : Flattens(g, parts, m - 1)
    BY <1>2, <2>1
  <2>3. \A i \in 1 .. m - 1 : g[i] = IF i = 1 THEN parts[i] ELSE g[i - 1] \o parts[i]
    BY <2>2 DEF Flattens
  <2> DEFINE last == IF m = 1 THEN parts[m] ELSE g[m - 1] \o parts[m]
             h == [i \in 1 .. m |-> IF i = m THEN last ELSE g[i]]
  <2>4. \A i \in 1 .. m : h[i] = IF i = 1 THEN parts[i] ELSE h[i - 1] \o parts[i]
    <3> TAKE i \in 1 .. m
    <3>1. CASE i = m /\ m = 1
      BY <3>1
    <3>2. CASE i = m /\ m # 1
      <4>1. m - 1 \in 1 .. m /\ m - 1 # m
        BY <2>1, <3>2
      <4>2. h[m - 1] = g[m - 1] /\ h[m] = g[m - 1] \o parts[m]
        BY <2>1, <3>2, <4>1
      <4> HIDE DEF h
      <4> QED BY <3>2, <4>2
    <3>3. CASE i # m
      <4>1. i \in 1 .. m - 1 /\ h[i] = g[i]
        BY <2>1, <3>3
      <4>2. CASE i = 1
        BY <2>3, <4>1, <4>2
      <4>3. CASE i # 1
        <5>1. i - 1 \in 1 .. m /\ i - 1 # m
          BY <2>1, <4>1, <4>3
        <5>2. h[i - 1] = g[i - 1]
          BY <5>1
        <5> HIDE DEF h
        <5> QED BY <2>3, <4>1, <4>3, <5>2
      <4> QED BY <4>2, <4>3
    <3> QED BY <3>1, <3>2, <3>3
  <2>5. h = [i \in 1 .. m |-> IF i = 1 THEN parts[i] ELSE h[i - 1] \o parts[i]]
    <3>1. h = [i \in 1 .. m |-> h[i]]
      OBVIOUS
    <3> HIDE DEF h
    <3> QED BY <2>4, <3>1
  <2> HIDE DEF h
  <2>6. Flattens(h, parts, m)
    BY <2>5 DEF Flattens
  <2> QED BY <1>2, <2>6
<1> QED BY <1>3, <1>4

LEMMA FlattenSeqIs ==
    ASSUME NEW parts, NEW n \in Nat \ {0}, Len(parts) = n
    PROVE  \E g : Flattens(g, parts, n) /\ FlattenSeq(parts) = g[n]
<1> DEFINE f == CHOOSE g : Flattens(g, parts, n)
<1>1. Flattens(f, parts, n)
  BY FlattensExists
<1>2. FlattenSeq(parts) = f[n]
  BY DEF FlattenSeq, Flattens
<1> QED BY <1>1, <1>2

(* What is joined holds what the parts hold.                               *)
LEMMA FlattenHolds ==
    ASSUME NEW parts, IsList(parts), \A i \in DOMAIN parts : IsList(parts[i])
    PROVE  /\ IsList(FlattenSeq(parts))
           /\ \A e : e \in ToSet(FlattenSeq(parts))
                        <=> \E i \in DOMAIN parts : e \in ToSet(parts[i])
<1> DEFINE n == Len(parts)
<1>1. n \in Nat /\ DOMAIN parts = 1 .. n
  BY ListIs
<1>2. CASE n = 0
  <2>1. FlattenSeq(parts) = parts
    BY <1>2 DEF FlattenSeq
  <2> QED BY <1>1, <1>2, <2>1, ListIs
<1>3. CASE n # 0
  <2>0. n \in Nat \ {0}
    BY <1>1, <1>3
  <2>1. PICK g : Flattens(g, parts, n) /\ FlattenSeq(parts) = g[n]
    BY <2>0, FlattenSeqIs
  <2>2. \A i \in 1 .. n : g[i] = IF i = 1 THEN parts[i] ELSE g[i - 1] \o parts[i]
    BY <2>1 DEF Flattens
  <2> DEFINE Upto(m) == \A e : e \in ToSet(g[m]) <=> \E i \in 1 .. m : e \in ToSet(parts[i])
             T == {m \in 1 .. n : ~(IsList(g[m]) /\ Upto(m))}
  <2>3. T = {}
    <3> SUFFICES ASSUME T # {} PROVE FALSE
      OBVIOUS
    <3>1. T \in SUBSET Nat
      OBVIOUS
    <3> HIDE DEF T
    <3>2. PICK m \in T : \A j \in T : m <= j
      BY <3>1, LeastOf
    <3>3. m \in 1 .. n /\ ~(IsList(g[m]) /\ Upto(m))
      BY <3>2 DEF T
    <3>4. CASE m = 1
      <4>1. g[m] = parts[m] /\ \A i \in 1 .. m : i = m
        BY <2>2, <3>3, <3>4
      <4> QED BY <1>1, <3>3, <3>4, <4>1
    <3>5. CASE m # 1
      <4>1. m - 1 \in 1 .. n /\ ~(m <= m - 1)
        BY <1>1, <3>3, <3>5
      <4>2. IsList(g[m - 1]) /\ Upto(m - 1)
        BY <3>2, <4>1 DEF T
      <4>3. g[m] = g[m - 1] \o parts[m] /\ IsList(parts[m])
        BY <1>1, <2>2, <3>3, <3>5
      <4>4. IsList(g[m]) /\ ToSet(g[m]) = ToSet(g[m - 1]) \cup ToSet(parts[m])
        BY <4>2, <4>3, ListJoined
      <4>5. \A i : i \in 1 .. m <=> i \in 1 .. m - 1 \/ i = m
        BY <1>1, <3>3, <3>5
      <4>6. Upto(m)
        BY <4>2, <4>4, <4>5
      <4> QED BY <3>3, <4>4, <4>6
    <3> QED BY <3>4, <3>5
  <2>4. n \in 1 .. n
    BY <2>0
  <2>5. IsList(g[n]) /\ Upto(n)
    BY <2>3, <2>4
  <2> QED BY <1>1, <2>1, <2>5
<1> QED BY <1>2, <1>3

-----------------------------------------------------------------------------
(* The plan.                                                               *)

(* What SettingsAssumption says of one contract and its defects.           *)
Fit(c, ds) ==
    /\ IsList(c.ops) /\ IsList(ds)
    /\ \A i \in DOMAIN c.ops : IsList(c.ops[i].witness)
    /\ IsFiniteSet(DeclaredLegIds(c, ds)) /\ Unasked \notin DeclaredLegIds(c, ds)

LEMMA SettingsFit ==
    ASSUME NEW s \in Settings
    PROVE  Fit(s.contract, s.defects)
  BY SettingsAssumption DEF Fit, IsList

(* Among one more spellings of a base than there are identifiers, one is   *)
(* free.                                                                   *)
LEMMA MintIsFree ==
    ASSUME NEW base, NEW taken, IsFiniteSet(taken)
    PROVE  /\ Mint(base, taken) \notin taken
           /\ \E n \in Nat : Mint(base, taken) = <<base, n>>
<1> DEFINE C == Cardinality(taken)
           spelt == [n \in 1 .. C + 1 |-> <<base, n>>]
           T == {n \in 1 .. C + 1 : <<base, n>> \notin taken}
<1>1. C \in Nat
  BY FS_CardinalityType
<1>2. T # {}
  <2> SUFFICES ASSUME T = {} PROVE FALSE
    OBVIOUS
  <2> DEFINE places == 1 .. C + 1
  <2>1. spelt \in [places -> taken]
    OBVIOUS
  <2>2. IsFiniteSet(places) /\ Cardinality(places) = C + 1
    BY <1>1, FS_Interval
  <2>3. Cardinality(taken) < Cardinality(places)
    BY <1>1, <2>2
  <2>4. \A x, y \in places : spelt[x] = spelt[y] => x = y
    OBVIOUS
  <2> HIDE DEF spelt, places
  <2>5. \E x, y \in places : x # y /\ spelt[x] = spelt[y]
    BY <2>1, <2>2, <2>3, FS_PigeonHole
  <2> QED BY <2>4, <2>5
<1>3. T \in SUBSET Nat
  BY <1>1
<1>4. PICK n \in T : \A m \in T : n <= m
  BY <1>2, <1>3, LeastOf
<1>5. n \in 1 .. C + 1 /\ <<base, n>> \notin taken /\ \A m \in 1 .. n - 1 : <<base, m>> \in taken
  <2>1. \A m \in 1 .. n - 1 : m \in 1 .. C + 1 /\ ~(n <= m)
    BY <1>1
  <2> QED BY <1>4, <2>1
<1> QED BY <1>5 DEF Mint

LEMMA ListMade ==
    ASSUME NEW n \in Nat, NEW f, f = [i \in 1 .. n |-> f[i]]
    PROVE  IsList(f) /\ Len(f) = n
<1>1. f \in [1 .. n -> ToSet(f)]
  BY DEF ToSet
<1>2. f \in Seq(ToSet(f))
  BY <1>1, SeqDef
<1>3. Len(f) \in Nat /\ 1 .. Len(f) = 1 .. n
  BY <1>1, <1>2, LenProperties
<1> QED BY <1>2, <1>3 DEF IsList

WitnessLeg(c, i, k) ==
    Leg(c.ops[i].witness[k].id, "sensitivity", i, c.ops[i].witness[k].inputs)

DefectLeg(c, d) == Leg(d.leg, "seeded-fault", FaultOp(c, d), d.inputs)

LEMMA SensitivityAre ==
    ASSUME NEW c, NEW ds, Fit(c, ds)
    PROVE  /\ IsList(SensitivityLegs(c))
           /\ \A leg : leg \in ToSet(SensitivityLegs(c))
                    <=> \E i \in DOMAIN c.ops : \E k \in DOMAIN c.ops[i].witness :
                            leg = WitnessLeg(c, i, k)
<1> DEFINE of(i) == [k \in DOMAIN c.ops[i].witness |-> WitnessLeg(c, i, k)]
           parts == [i \in DOMAIN c.ops |-> of(i)]
<1>1. SensitivityLegs(c) = FlattenSeq(parts)
  BY DEF SensitivityLegs, WitnessLeg
<1>2. \A i \in DOMAIN c.ops :
        IsList(of(i)) /\ \A leg : leg \in ToSet(of(i))
                              <=> \E k \in DOMAIN c.ops[i].witness : leg = WitnessLeg(c, i, k)
  <2> TAKE i \in DOMAIN c.ops
  <2> DEFINE w == c.ops[i].witness
             n == Len(w)
             f == of(i)
  <2>1. n \in Nat /\ DOMAIN w = 1 .. n
    BY ListIs DEF Fit
  <2>2. f = [k \in 1 .. n |-> f[k]]
    BY <2>1
  <2>3. \A leg : leg \in ToSet(f) <=> \E k \in DOMAIN w : leg = WitnessLeg(c, i, k)
    BY DEF ToSet
  <2> HIDE DEF f, n
  <2>4. IsList(f)
    BY <2>1, <2>2, ListMade
  <2> QED BY <2>3, <2>4 DEF f
<1>3. IsList(parts)
  <2> DEFINE n == Len(c.ops)
  <2>1. n \in Nat /\ DOMAIN c.ops = 1 .. n
    BY ListIs DEF Fit
  <2>2. parts = [i \in 1 .. n |-> parts[i]]
    BY <2>1
  <2> HIDE DEF parts, n
  <2> QED BY <2>1, <2>2, ListMade
<1>4. DOMAIN parts = DOMAIN c.ops /\ \A i \in DOMAIN parts : parts[i] = of(i)
  OBVIOUS
<1> HIDE DEF parts, of
<1>5. \A i \in DOMAIN parts : IsList(parts[i])
  BY <1>2, <1>4
<1>6. /\ IsList(FlattenSeq(parts))
      /\ \A e : e \in ToSet(FlattenSeq(parts)) <=> \E i \in DOMAIN parts : e \in ToSet(parts[i])
  BY <1>3, <1>5, FlattenHolds
<1> QED BY <1>1, <1>2, <1>4, <1>6

FaultParts(c, ds) ==
    [i \in DOMAIN ds |-> IF ds[i] = Unwitnessed THEN <<>> ELSE <<DefectLeg(c, ds[i])>>]

LEMMA FaultPartsAre ==
    ASSUME NEW c, NEW ds, Fit(c, ds)
    PROVE  /\ FaultLegs(c, ds) = FlattenSeq(FaultParts(c, ds))
           /\ IsList(FaultParts(c, ds)) /\ DOMAIN FaultParts(c, ds) = DOMAIN ds
           /\ \A i \in DOMAIN ds :
                 /\ IsList(FaultParts(c, ds)[i])
                 /\ \A leg : leg \in ToSet(FaultParts(c, ds)[i])
                          <=> ds[i] # Unwitnessed /\ leg = DefectLeg(c, ds[i])
<1> DEFINE of(i) == IF ds[i] = Unwitnessed THEN <<>> ELSE <<DefectLeg(c, ds[i])>>
           parts == FaultParts(c, ds)
<1>1. FaultLegs(c, ds) = FlattenSeq(parts)
  BY DEF FaultLegs, FaultParts, DefectLeg
<1>2. \A i \in DOMAIN ds :
        IsList(of(i)) /\ \A leg : leg \in ToSet(of(i))
                              <=> ds[i] # Unwitnessed /\ leg = DefectLeg(c, ds[i])
  <2> TAKE i \in DOMAIN ds
  <2>1. IsList(<<>>) /\ ToSet(<<>>) = {}
    BY DEF IsList, ToSet
  <2>2. IsList(<<DefectLeg(c, ds[i])>>) /\ ToSet(<<DefectLeg(c, ds[i])>>) = {DefectLeg(c, ds[i])}
    BY DEF IsList, ToSet
  <2> QED BY <2>1, <2>2
<1>3. IsList(parts)
  <2> DEFINE n == Len(ds)
  <2>1. n \in Nat /\ DOMAIN ds = 1 .. n
    BY ListIs DEF Fit
  <2>2. parts = [i \in 1 .. n |-> parts[i]]
    BY <2>1 DEF FaultParts
  <2> HIDE DEF parts, n
  <2> QED BY <2>1, <2>2, ListMade
<1>4. DOMAIN parts = DOMAIN ds /\ \A i \in DOMAIN ds : parts[i] = of(i)
  BY DEF FaultParts
<1> HIDE DEF parts, of
<1>5. \A i \in DOMAIN ds :
        IsList(parts[i]) /\ \A leg : leg \in ToSet(parts[i])
                                <=> ds[i] # Unwitnessed /\ leg = DefectLeg(c, ds[i])
  BY <1>2, <1>4
<1> QED BY <1>1, <1>3, <1>4, <1>5 DEF parts

LEMMA FaultsAre ==
    ASSUME NEW c, NEW ds, Fit(c, ds)
    PROVE  /\ IsList(FaultLegs(c, ds))
           /\ \A leg : leg \in ToSet(FaultLegs(c, ds))
                    <=> \E i \in Witnessed(ds) : leg = DefectLeg(c, ds[i])
<1> DEFINE parts == FaultParts(c, ds)
<1>1. /\ FaultLegs(c, ds) = FlattenSeq(parts) /\ IsList(parts) /\ DOMAIN parts = DOMAIN ds
      /\ \A i \in DOMAIN ds :
            IsList(parts[i]) /\ \A leg : leg \in ToSet(parts[i])
                                    <=> ds[i] # Unwitnessed /\ leg = DefectLeg(c, ds[i])
  BY FaultPartsAre
<1> HIDE DEF parts
<1>2. /\ IsList(FlattenSeq(parts))
      /\ \A e : e \in ToSet(FlattenSeq(parts)) <=> \E i \in DOMAIN parts : e \in ToSet(parts[i])
  BY <1>1, FlattenHolds
<1> QED BY <1>1, <1>2 DEF Witnessed

LEMMA FirstInIs ==
    ASSUME NEW T \in SUBSET Nat, T # {}
    PROVE  FirstIn(T) \in T
<1>1. FirstIn(T) = Min(T)
  BY DEF FirstIn, Min
<1> QED BY <1>1, LeastOf

LEMMA MutatingIs ==
    ASSUME NEW c, NEW ds, Fit(c, ds), Mutating(c) # 0
    PROVE  /\ Mutating(c) \in DOMAIN c.ops /\ c.ops[Mutating(c)].marker
           /\ c.reset # NoReset
<1> DEFINE T == {i \in DOMAIN c.ops :
                    /\ c.ops[i].iface = c.reset.iface
                    /\ c.ops[i].marker /\ CanBeSent(c.ops[i])}
<1>1. c.reset # NoReset /\ Mutating(c) = FirstIn(T)
  BY DEF Mutating
<1>2. T \in SUBSET Nat
  BY ListIs DEF Fit
<1>3. T # {}
  BY <1>1 DEF FirstIn
<1>4. FirstIn(T) \in T
  BY <1>2, <1>3, FirstInIs
<1> QED BY <1>1, <1>4

(* One observation after another, or around a mutation and the reset; and  *)
(* what is minted for them is free.                                        *)
ControlShape(c, ds, control) ==
    LET n == Len(control)
        ids == DeclaredLegIds(c, ds)
    IN /\ IsList(control) /\ n \in {0, 2, 4}
       /\ n # 0 =>
             /\ control[1].op = Observed(c) /\ control[n].op = Observed(c)
             /\ control[1].id \notin ids /\ control[n].id \notin ids
             /\ control[1].id # control[n].id
             /\ \E m \in Nat : control[1].id = <<"control-observe", m>>
             /\ \E m \in Nat : control[n].id = <<"control-observe", m>>
       /\ n = 4 =>
             /\ control[2].op = Mutating(c) /\ Mutating(c) # 0
             /\ control[2].id \notin ids /\ control[2].id \notin {control[1].id, control[4].id}
             /\ \E m \in Nat : control[2].id = <<"control-mutate", m>>
             /\ control[3].id = c.reset.leg

LEMMA ShortLists ==
    \A a, b : /\ IsList(<<>>) /\ IsList(<<a>>) /\ IsList(<<a, b>>)
              /\ Len(<<>>) = 0 /\ Len(<<a>>) = 1 /\ Len(<<a, b>>) = 2
  BY DEF IsList, ToSet

IsTwo(t, a, b) == t = <<a>> \o <<>> \o <<b>>

IsFour(t, a, b, c, d) == t = <<a>> \o <<b, c>> \o <<d>>

LEMMA TwoJoined ==
    ASSUME NEW a, NEW b, NEW t, IsTwo(t, a, b)
    PROVE  IsList(t) /\ Len(t) = 2 /\ t[1] = a /\ t[2] = b
<1> DEFINE p == <<a>>
           q == <<>>
           s == p \o q
           u == <<b>>
<1>1. /\ IsList(p) /\ Len(p) = 1 /\ p[1] = a
      /\ IsList(q) /\ Len(q) = 0
      /\ IsList(u) /\ Len(u) = 1 /\ u[1] = b
  BY ShortLists
<1>2. t = s \o u /\ s = p \o q
  BY DEF IsTwo
<1> HIDE DEF p, q, s, u
<1>3. /\ IsList(s) /\ Len(s) = 1 /\ s[1] = a
  <2>1. /\ IsList(s) /\ Len(s) = Len(p) + Len(q)
        /\ \A i \in 1 .. Len(p) : s[i] = p[i]
    <3>1. IsList(p) /\ IsList(q) /\ s = p \o q
      BY ONLY <1>1, <1>2
    <3> QED BY ONLY <3>1, ListJoined
  <2> QED BY ONLY <1>1, <2>1
<1>4. IsList(t) /\ Len(t) = 2 /\ t[1] = s[1] /\ t[1 + 1] = u[1]
  <2>1. /\ IsList(t) /\ Len(t) = Len(s) + Len(u)
        /\ \A i \in 1 .. Len(s) : t[i] = s[i]
        /\ \A i \in 1 .. Len(u) : t[Len(s) + i] = u[i]
    <3>1. IsList(s) /\ IsList(u) /\ t = s \o u
      BY ONLY <1>1, <1>2, <1>3
    <3> QED BY ONLY <3>1, ListJoined
  <2> QED BY ONLY <1>1, <1>3, <2>1
<1> QED BY ONLY <1>1, <1>3, <1>4

LEMMA FourJoined ==
    ASSUME NEW a, NEW b, NEW c, NEW d, NEW t, IsFour(t, a, b, c, d)
    PROVE  IsList(t) /\ Len(t) = 4 /\ t[1] = a /\ t[2] = b /\ t[3] = c /\ t[4] = d
<1> DEFINE p == <<a>>
           q == <<b, c>>
           s == p \o q
           u == <<d>>
<1>1. /\ IsList(p) /\ Len(p) = 1 /\ p[1] = a
      /\ IsList(q) /\ Len(q) = 2 /\ q[1] = b /\ q[2] = c
      /\ IsList(u) /\ Len(u) = 1 /\ u[1] = d
  BY ShortLists
<1>2. t = s \o u /\ s = p \o q
  BY DEF IsFour
<1> HIDE DEF p, q, s, u
<1>3. /\ IsList(s) /\ Len(s) = 3 /\ s[1] = p[1] /\ s[1 + 1] = q[1] /\ s[1 + 2] = q[2]
  <2>1. /\ IsList(s) /\ Len(s) = Len(p) + Len(q)
        /\ \A i \in 1 .. Len(p) : s[i] = p[i]
        /\ \A i \in 1 .. Len(q) : s[Len(p) + i] = q[i]
    <3>1. IsList(p) /\ IsList(q) /\ s = p \o q
      BY ONLY <1>1, <1>2
    <3> QED BY ONLY <3>1, ListJoined
  <2> QED BY ONLY <1>1, <2>1
<1>4. /\ IsList(t) /\ Len(t) = 4 /\ t[1] = s[1] /\ t[2] = s[2] /\ t[3] = s[3]
      /\ t[3 + 1] = u[1]
  <2>1. /\ IsList(t) /\ Len(t) = Len(s) + Len(u)
        /\ \A i \in 1 .. Len(s) : t[i] = s[i]
        /\ \A i \in 1 .. Len(u) : t[Len(s) + i] = u[i]
    <3>1. IsList(s) /\ IsList(u) /\ t = s \o u
      BY ONLY <1>1, <1>2, <1>3
    <3> QED BY ONLY <3>1, ListJoined
  <2> QED BY ONLY <1>1, <1>3, <2>1
<1> QED BY ONLY <1>1, <1>3, <1>4

LEMMA ControlAre ==
    ASSUME NEW c, NEW ds, Fit(c, ds)
    PROVE  ControlShape(c, ds, ControlLegs(c, ds))
<1> DEFINE o == Observed(c)
           m == Mutating(c)
           ids == DeclaredLegIds(c, ds)
           first == Mint("control-observe", ids)
           mutate == Mint("control-mutate", ids \cup {first})
           rest == ids \cup {first} \cup (IF m # 0 THEN {mutate} ELSE {})
           last == Mint("control-observe", rest)
           look(id) == Leg(id, "control-observe", o, ControlInputs(c.ops[o]))
           change == Leg(mutate, "control-mutate", m, ControlInputs(c.ops[m]))
           undo == Leg(c.reset.leg, "control-reset", OpOf(c, c.reset.iface, c.reset.name),
                       c.reset.inputs)
           control == ControlLegs(c, ds)
<1>1. /\ IsFiniteSet(ids) /\ IsFiniteSet(ids \cup {first})
      /\ IsFiniteSet(rest)
  <2>1. IsFiniteSet(ids)
    BY DEF Fit
  <2>2. IsFiniteSet(ids \cup {first}) /\ IsFiniteSet(ids \cup {first} \cup {mutate})
    BY <2>1, FS_AddElement
  <2> QED BY <2>1, <2>2
<1>2. first \notin ids /\ \E k \in Nat : first = <<"control-observe", k>>
  BY <1>1, MintIsFree
<1>3. mutate \notin ids \cup {first} /\ \E k \in Nat : mutate = <<"control-mutate", k>>
  BY <1>1, MintIsFree
<1>4. last \notin rest /\ \E k \in Nat : last = <<"control-observe", k>>
  BY <1>1, MintIsFree
<1>5. CASE o = 0
  <2>1. control = <<>>
    BY <1>5 DEF ControlLegs
  <2>2. IsList(<<>>) /\ Len(<<>>) = 0
    BY DEF IsList, ToSet
  <2> QED BY <2>1, <2>2 DEF ControlShape
<1>6. CASE o # 0 /\ m = 0
  <2>1. control = <<look(first)>> \o <<>> \o <<look(last)>>
    BY <1>6 DEF ControlLegs
  <2> HIDE DEF control
  <2>3. /\ Len(control) = 2 /\ control[1] = look(first) /\ control[2] = look(last)
        /\ IsList(control)
    <3> DEFINE left == look(first)
               right == look(last)
    <3>1. IsTwo(control, left, right)
      BY <2>1 DEF IsTwo
    <3> HIDE DEF left, right
    <3>2. IsList(control) /\ Len(control) = 2 /\ control[1] = left /\ control[2] = right
      BY ONLY <3>1, TwoJoined
    <3> QED BY ONLY <3>2 DEF left, right
  <2>4. /\ control[1].id = first /\ control[2].id = last
        /\ control[1].op = o /\ control[2].op = o
    BY <2>3 DEF Leg
  <2>5. last # first /\ last \notin ids
    BY <1>4
  <2> HIDE DEF first, last, ids, o, look, rest
  <2>6. ControlShape(c, ds, control)
    BY <1>2, <1>4, <2>3, <2>4, <2>5 DEF ControlShape, o, ids
  <2> QED BY <2>6 DEF control
<1>7. CASE o # 0 /\ m # 0
  <2>1. control = <<look(first)>> \o <<change, undo>> \o <<look(last)>>
    BY <1>7 DEF ControlLegs
  <2> HIDE DEF control
  <2>3. /\ Len(control) = 4 /\ control[1] = look(first) /\ control[4] = look(last)
        /\ control[2] = change /\ control[3] = undo /\ IsList(control)
    <3> DEFINE left == look(first)
               right == look(last)
    <3>1. IsFour(control, left, change, undo, right)
      BY <2>1 DEF IsFour
    <3> HIDE DEF left, right, change, undo
    <3>2. /\ IsList(control) /\ Len(control) = 4 /\ control[1] = left /\ control[2] = change
          /\ control[3] = undo /\ control[4] = right
      BY ONLY <3>1, FourJoined
    <3> QED BY ONLY <3>2 DEF left, right
  <2>4. /\ control[1].id = first /\ control[4].id = last /\ control[2].id = mutate
        /\ control[3].id = c.reset.leg
        /\ control[1].op = o /\ control[4].op = o /\ control[2].op = m
    BY <2>3 DEF Leg
  <2>5. last # first /\ last # mutate /\ mutate # first /\ last \notin ids /\ mutate \notin ids
    BY <1>3, <1>4, <1>7
  <2> HIDE DEF first, last, mutate, ids, o, m, look, change, undo, rest
  <2>6. ControlShape(c, ds, control)
    BY <1>2, <1>3, <1>4, <1>7, <2>3, <2>4, <2>5 DEF ControlShape, o, ids, m
  <2> QED BY <2>6 DEF control
<1> QED BY <1>5, <1>6, <1>7

(* No two legs of a sequence share an identifier.                          *)
Apart(legs) == IsInjective([i \in DOMAIN legs |-> legs[i].id])

Foreign(s, t) == \A x \in ToSet(s), y \in ToSet(t) : x.id # y.id

LEMMA ApartIs ==
    ASSUME NEW legs, IsList(legs)
    PROVE  Apart(legs) <=> \A i, j \in 1 .. Len(legs) : legs[i].id = legs[j].id => i = j
<1>1. DOMAIN legs = 1 .. Len(legs)
  BY ListIs
<1> QED BY <1>1 DEF Apart, IsInjective

LEMMA ApartJoined ==
    ASSUME NEW s, NEW t, IsList(s), IsList(t)
    PROVE  Apart(s \o t) <=> Apart(s) /\ Apart(t) /\ Foreign(s, t)
<1> DEFINE u == s \o t
           n == Len(s)
           m == Len(t)
<1>1. /\ IsList(u) /\ Len(u) = n + m
      /\ \A i \in 1 .. n : u[i] = s[i]
      /\ \A i \in 1 .. m : u[n + i] = t[i]
      /\ \A i \in 1 .. n + m :
            i \in 1 .. n \/ (i - n \in 1 .. m /\ u[i] = t[i - n])
  BY ListJoined
<1>2. /\ n \in Nat /\ m \in Nat
      /\ \A e : e \in ToSet(s) <=> \E i \in 1 .. n : e = s[i]
      /\ \A e : e \in ToSet(t) <=> \E i \in 1 .. m : e = t[i]
  BY ListIs
<1>3. /\ Apart(u) <=> \A i, j \in 1 .. n + m : u[i].id = u[j].id => i = j
      /\ Apart(s) <=> \A i, j \in 1 .. n : s[i].id = s[j].id => i = j
      /\ Apart(t) <=> \A i, j \in 1 .. m : t[i].id = t[j].id => i = j
  <2>1. Apart(u) <=> \A i, j \in 1 .. Len(u) : u[i].id = u[j].id => i = j
    BY <1>1, ApartIs
  <2> QED BY <1>1, <2>1, ApartIs
<1> HIDE DEF u, n, m
<1>4. ASSUME Apart(u) PROVE Apart(s) /\ Apart(t) /\ Foreign(s, t)
  <2>1. \A i \in 1 .. n : i \in 1 .. n + m
    BY <1>2
  <2>2. \A i \in 1 .. m : n + i \in 1 .. n + m
    BY <1>2
  <2>3. Apart(s)
    BY <1>1, <1>3, <1>4, <2>1
  <2>4. Apart(t)
    <3> SUFFICES ASSUME NEW i \in 1 .. m, NEW j \in 1 .. m, t[i].id = t[j].id
                 PROVE  i = j
      BY <1>3
    <3>1. u[n + i].id = u[n + j].id
      BY <1>1
    <3>2. n + i = n + j
      BY <1>3, <1>4, <2>2, <3>1
    <3> QED BY <1>2, <3>2
  <2>5. Foreign(s, t)
    <3> SUFFICES ASSUME NEW i \in 1 .. n, NEW j \in 1 .. m, s[i].id = t[j].id
                 PROVE  FALSE
      BY <1>2 DEF Foreign
    <3>1. u[i].id = u[n + j].id
      BY <1>1
    <3>2. i = n + j
      BY <1>3, <1>4, <2>1, <2>2, <3>1
    <3> QED BY <1>2, <3>2
  <2> QED BY <2>3, <2>4, <2>5
<1>5. ASSUME Apart(s), Apart(t), Foreign(s, t) PROVE Apart(u)
  <2> SUFFICES ASSUME NEW i \in 1 .. n + m, NEW j \in 1 .. n + m, u[i].id = u[j].id
               PROVE  i = j
    BY <1>3
  <2>1. CASE i \in 1 .. n /\ j \in 1 .. n
    BY <1>1, <1>3, <1>5, <2>1
  <2>2. CASE i \in 1 .. n /\ j \notin 1 .. n
    <3>1. u[i] \in ToSet(s) /\ u[j] \in ToSet(t)
      BY <1>1, <1>2, <2>2
    <3> QED BY <1>5, <3>1 DEF Foreign
  <2>3. CASE i \notin 1 .. n /\ j \in 1 .. n
    <3>1. u[j] \in ToSet(s) /\ u[i] \in ToSet(t)
      BY <1>1, <1>2, <2>3
    <3> QED BY <1>5, <3>1 DEF Foreign
  <2>4. CASE i \notin 1 .. n /\ j \notin 1 .. n
    <3>1. i - n \in 1 .. m /\ j - n \in 1 .. m /\ t[i - n].id = t[j - n].id
      BY <1>1, <2>4
    <3>2. i - n = j - n
      BY <1>3, <1>5, <3>1
    <3> QED BY <1>2, <3>2
  <2> QED BY <2>1, <2>2, <2>3, <2>4
<1> QED BY <1>4, <1>5 DEF u

(* Nor do two of the parts that it is joined from.                         *)
LEMMA FlattenApart ==
    ASSUME NEW parts, IsList(parts), \A i \in DOMAIN parts : IsList(parts[i]),
           Apart(FlattenSeq(parts)),
           NEW i \in DOMAIN parts, NEW j \in DOMAIN parts, i < j
    PROVE  Foreign(parts[i], parts[j])
<1> DEFINE n == Len(parts)
<1>1. n \in Nat /\ DOMAIN parts = 1 .. n /\ n \in Nat \ {0}
  BY ListIs
<1>2. PICK g : Flattens(g, parts, n) /\ FlattenSeq(parts) = g[n]
  BY <1>1, FlattenSeqIs
<1>3. \A m \in 1 .. n : g[m] = IF m = 1 THEN parts[m] ELSE g[m - 1] \o parts[m]
  BY <1>2 DEF Flattens
<1> HIDE DEF n
<1> DEFINE Good(m) == /\ IsList(g[m])
                      /\ \A l \in 1 .. m : ToSet(parts[l]) \subseteq ToSet(g[m])
                      /\ Apart(g[m]) => \A k, l \in 1 .. m : k < l => Foreign(parts[k], parts[l])
           T == {m \in 1 .. n : ~Good(m)}
<1>4. T = {}
  <2> SUFFICES ASSUME T # {} PROVE FALSE
    OBVIOUS
  <2>1. T \in SUBSET Nat
    BY <1>1
  <2> HIDE DEF T
  <2>2. PICK m \in T : \A l \in T : m <= l
    BY <2>1, LeastOf
  <2>3. m \in 1 .. n /\ ~Good(m)
    BY <2>2 DEF T
  <2>4. CASE m = 1
    <3>1. g[1] = parts[1] /\ IsList(parts[1]) /\ \A l \in 1 .. 1 : l = 1
      BY <1>1, <1>3, <2>3, <2>4
    <3>2. Good(1)
      BY <3>1
    <3> QED BY <2>3, <2>4, <3>2
  <2>5. CASE m # 1
    <3>1. m - 1 \in 1 .. n /\ ~(m <= m - 1)
      BY <1>1, <2>3, <2>5
    <3>2. Good(m - 1)
      BY <2>2, <3>1 DEF T
    <3>3. g[m] = g[m - 1] \o parts[m] /\ IsList(parts[m])
      BY <1>1, <1>3, <2>3, <2>5
    <3>4. IsList(g[m]) /\ ToSet(g[m]) = ToSet(g[m - 1]) \cup ToSet(parts[m])
      BY <3>2, <3>3, ListJoined
    <3>5. \A l : l \in 1 .. m <=> l \in 1 .. m - 1 \/ l = m
      BY <1>1, <2>3, <2>5
    <3>6. \A l \in 1 .. m : ToSet(parts[l]) \subseteq ToSet(g[m])
      BY <3>2, <3>4, <3>5
    <3>7. ASSUME Apart(g[m]), NEW k \in 1 .. m, NEW l \in 1 .. m, k < l
          PROVE  Foreign(parts[k], parts[l])
      <4>1. Apart(g[m - 1]) /\ Foreign(g[m - 1], parts[m])
        BY <3>2, <3>3, <3>7, ApartJoined
      <4>2. k \in 1 .. m - 1
        BY <2>3, <3>7
      <4>3. CASE l = m
        BY <3>2, <4>1, <4>2, <4>3 DEF Foreign
      <4>4. CASE l # m
        BY <3>2, <3>5, <3>7, <4>1, <4>2, <4>4
      <4> QED BY <4>3, <4>4
    <3> QED BY <2>3, <3>4, <3>6, <3>7
  <2> QED BY <2>4, <2>5
<1>5. n \in 1 .. n /\ i \in 1 .. n /\ j \in 1 .. n
  BY <1>1
<1>6. Good(n)
  BY <1>4, <1>5
<1> QED BY <1>2, <1>5, <1>6

(* The plan is the three kinds of legs, one after the other, and none of   *)
(* them has the mark that no leg has.                                      *)
LEMMA PlanAre ==
    ASSUME NEW c, NEW ds, Fit(c, ds)
    PROVE  LET legs == PlannedLegs(c, ds)
               before == Len(SensitivityLegs(c))
               control == ControlLegs(c, ds)
           IN /\ IsList(legs) /\ before \in Nat
              /\ ToSet(legs) = ToSet(SensitivityLegs(c)) \cup ToSet(control)
                                   \cup ToSet(FaultLegs(c, ds))
              /\ before + Len(control) <= Len(legs)
              /\ \A k \in 1 .. Len(control) : legs[before + k] = control[k]
<1> DEFINE s == SensitivityLegs(c)
           control == ControlLegs(c, ds)
           f == FaultLegs(c, ds)
           front == s \o control
<1>1. IsList(s) /\ IsList(control) /\ IsList(f)
  BY SensitivityAre, FaultsAre, ControlAre DEF ControlShape
<1>2. PlannedLegs(c, ds) = front \o f
  BY DEF PlannedLegs
<1> HIDE DEF s, control, f
<1>3. /\ IsList(front) /\ Len(front) = Len(s) + Len(control)
      /\ \A i \in 1 .. Len(control) : front[Len(s) + i] = control[i]
      /\ ToSet(front) = ToSet(s) \cup ToSet(control)
  BY <1>1, ListJoined
<1> HIDE DEF front
<1>4. /\ IsList(front \o f) /\ Len(front \o f) = Len(front) + Len(f)
      /\ \A i \in 1 .. Len(front) : (front \o f)[i] = front[i]
      /\ ToSet(front \o f) = ToSet(front) \cup ToSet(f)
  BY <1>1, <1>3, ListJoined
<1>5. Len(s) \in Nat /\ Len(control) \in Nat /\ Len(f) \in Nat
  BY <1>1, ListIs
<1>6. \A k \in 1 .. Len(control) : Len(s) + k \in 1 .. Len(front)
  BY <1>3, <1>5
<1>7. \A k \in 1 .. Len(control) : (front \o f)[Len(s) + k] = control[k]
  BY <1>3, <1>4, <1>6
<1>8. Len(s) + Len(control) <= Len(front \o f)
  BY <1>3, <1>4, <1>5
<1> QED BY <1>2, <1>3, <1>4, <1>5, <1>7, <1>8 DEF s, control, f

LEMMA DeclaredLegs ==
    ASSUME NEW c, NEW ds, Fit(c, ds)
    PROVE  \A leg \in ToSet(SensitivityLegs(c)) \cup ToSet(FaultLegs(c, ds)) :
               leg.id \in DeclaredLegIds(c, ds)
<1>1. ASSUME NEW leg \in ToSet(SensitivityLegs(c))
      PROVE  leg.id \in DeclaredLegIds(c, ds)
  <2>0. PICK i \in DOMAIN c.ops : \E k \in DOMAIN c.ops[i].witness : leg = WitnessLeg(c, i, k)
    BY SensitivityAre
  <2>1. PICK k \in DOMAIN c.ops[i].witness : leg = WitnessLeg(c, i, k)
    BY <2>0
  <2>2. leg.id = c.ops[i].witness[k].id
    BY <2>1 DEF WitnessLeg, Leg
  <2>3. c.ops[i].witness[k] \in UNION {ToSet(c.ops[j].witness) : j \in DOMAIN c.ops}
    BY DEF ToSet
  <2> QED BY <2>2, <2>3 DEF DeclaredLegIds
<1>2. ASSUME NEW leg \in ToSet(FaultLegs(c, ds))
      PROVE  leg.id \in DeclaredLegIds(c, ds)
  <2>1. PICK i \in Witnessed(ds) : leg = DefectLeg(c, ds[i])
    BY FaultsAre
  <2>2. leg.id = ds[i].leg
    BY <2>1 DEF DefectLeg, Leg
  <2> QED BY <2>2 DEF DeclaredLegIds
<1> QED BY <1>1, <1>2

(* What is minted is neither declared nor a mark; the reset's own leg is   *)
(* declared, or has the mark of no reset.                                  *)
Minted(control, k) == k # 3 \/ Len(control) # 4

LEMMA ControlNames ==
    ASSUME NEW c, NEW ds, Fit(c, ds), NEW k \in 1 .. Len(ControlLegs(c, ds))
    PROVE  LET leg == ControlLegs(c, ds)[k] IN
           /\ Minted(ControlLegs(c, ds), k) =>
                 /\ leg.id \notin DeclaredLegIds(c, ds) \cup {NoReset.leg}
                 /\ leg.id # Unasked
           /\ ~Minted(ControlLegs(c, ds), k) =>
                 leg.id \in DeclaredLegIds(c, ds) \cup {NoReset.leg}
<1> DEFINE control == ControlLegs(c, ds)
<1>1. ControlShape(c, ds, control)
  BY ControlAre
<1> HIDE DEF control
<1>2. \A m : /\ <<"control-observe", m>> # Unasked /\ <<"control-observe", m>> # NoReset.leg
             /\ <<"control-mutate", m>> # Unasked /\ <<"control-mutate", m>> # NoReset.leg
  BY DEF Unasked, NoReset
<1>3. c.reset.leg \in DeclaredLegIds(c, ds) \cup {NoReset.leg}
  BY DEF DeclaredLegIds
<1>4. Len(control) \in {0, 2, 4}
  BY <1>1 DEF ControlShape
<1>5. k \in 1 .. Len(control)
  BY DEF control
<1> DEFINE id == control[k].id
<1>6. /\ Minted(control, k) =>
            /\ id \notin DeclaredLegIds(c, ds) \cup {NoReset.leg}
            /\ id # Unasked
      /\ ~Minted(control, k) => id \in DeclaredLegIds(c, ds) \cup {NoReset.leg}
  <2>1. CASE k = 1 \/ k = Len(control)
    <3> DEFINE n == Len(control)
    <3>0. n \in {0, 2, 4} /\ k \in 1 .. n /\ (k = 1 \/ k = n)
      BY ONLY <1>4, <1>5, <2>1
    <3> HIDE DEF n
    <3>1. Len(control) # 0 /\ Minted(control, k)
      <4>1. n # 0 /\ (k # 3 \/ n # 4)
        BY ONLY <3>0
      <4> QED BY <4>1 DEF Minted, n
    <3>2. /\ id \notin DeclaredLegIds(c, ds)
          /\ \E m \in Nat : id = <<"control-observe", m>>
      BY <1>1, <2>1, <3>1 DEF ControlShape
    <3> HIDE DEF id
    <3>3. id # NoReset.leg /\ id # Unasked
      BY <1>2, <3>2
    <3> QED BY <3>1, <3>2, <3>3
  <2>2. CASE k = 2 /\ Len(control) = 4
    <3>1. Minted(control, k)
      BY <2>2 DEF Minted
    <3>2. /\ id \notin DeclaredLegIds(c, ds)
          /\ \E m \in Nat : id = <<"control-mutate", m>>
      BY <1>1, <2>2 DEF ControlShape
    <3> HIDE DEF id
    <3>3. id # NoReset.leg /\ id # Unasked
      BY <1>2, <3>2
    <3> QED BY <3>1, <3>2, <3>3
  <2>3. CASE k = 3 /\ Len(control) = 4
    BY <1>1, <1>3, <2>3 DEF ControlShape, Minted
  <2>4. \/ k = 1 \/ k = Len(control)
        \/ k = 2 /\ Len(control) = 4
        \/ k = 3 /\ Len(control) = 4
    <3> DEFINE n == Len(control)
    <3>1. n \in {0, 2, 4} /\ k \in 1 .. n
      BY ONLY <1>4, <1>5
    <3> HIDE DEF n
    <3>2. k = 1 \/ k = n \/ (k = 2 /\ n = 4) \/ (k = 3 /\ n = 4)
      BY ONLY <3>1
    <3> QED BY <3>2 DEF n
  <2> QED BY ONLY <2>1, <2>2, <2>3, <2>4
<1> QED BY <1>6 DEF control

LEMMA NoneUnasked ==
    ASSUME NEW c, NEW ds, Fit(c, ds)
    PROVE  \A leg \in ToSet(PlannedLegs(c, ds)) : leg.id # Unasked
<1> DEFINE control == ControlLegs(c, ds)
<1>1. \A id \in DeclaredLegIds(c, ds) \cup {NoReset.leg} : id # Unasked
  BY DEF Fit, Unasked, NoReset
<1>2. \A k \in 1 .. Len(control) : control[k].id # Unasked
  BY <1>1, ControlNames
<1>3. IsList(control)
  BY ControlAre DEF ControlShape
<1>4. \A leg \in ToSet(control) : \E k \in 1 .. Len(control) : leg = control[k]
  BY <1>3, ListIs
<1>5. ToSet(PlannedLegs(c, ds)) = ToSet(SensitivityLegs(c)) \cup ToSet(control)
                                     \cup ToSet(FaultLegs(c, ds))
  BY PlanAre
<1> QED BY <1>1, <1>2, <1>4, <1>5, DeclaredLegs

(* A plan repeats an identifier only if what is declared for it does.      *)
LEMMA MintedApart ==
    ASSUME NEW c, NEW ds, Fit(c, ds), NEW reset,
           reset = SubSeq(ControlLegs(c, ds), 3, Len(ControlLegs(c, ds)) - 1),
           Apart(SensitivityLegs(c) \o reset \o FaultLegs(c, ds))
    PROVE  Apart(PlannedLegs(c, ds))
<1> DEFINE s == SensitivityLegs(c)
           control == ControlLegs(c, ds)
           f == FaultLegs(c, ds)
           n == Len(control)
           ids == DeclaredLegIds(c, ds)
<1>1. IsList(s) /\ IsList(control) /\ IsList(f)
  BY SensitivityAre, FaultsAre, ControlAre DEF ControlShape
<1>2. n \in {0, 2, 4} /\ ControlShape(c, ds, control)
  BY ControlAre DEF ControlShape
<1>3. /\ \A leg \in ToSet(s) \cup ToSet(f) : leg.id \in ids
      /\ \A k \in 1 .. n : Minted(control, k) => control[k].id \notin ids \cup {NoReset.leg}
      /\ \A k \in 1 .. n : ~Minted(control, k) => control[k].id \in ids \cup {NoReset.leg}
  BY DeclaredLegs, ControlNames
<1>4. PlannedLegs(c, ds) = s \o control \o f /\ Apart(s \o reset \o f)
      /\ reset = SubSeq(control, 3, n - 1)
  BY DEF PlannedLegs
<1> HIDE DEF s, control, f, ids
<1>5. IsList(reset) /\ \A k \in 1 .. n : ~Minted(control, k) => control[k] \in ToSet(reset)
  <2> DEFINE W == ToSet(control)
  <2>0. DOMAIN control = 1 .. n /\ \A i \in 1 .. n : control[i] \in W
    BY <1>1, ListIs DEF ToSet
  <2> HIDE DEF W
  <2>1. \A i \in 3 .. n - 1 : control[i] \in W
    BY <1>2, <2>0
  <2>2. 3 \in Int /\ n - 1 \in Int
    BY <1>2
  <2>3. /\ reset \in Seq(W) /\ Len(reset) = IF 3 <= n - 1 THEN n - 1 - 3 + 1 ELSE 0
        /\ \A i \in 1 .. n - 1 - 3 + 1 : reset[i] = control[3 + i - 1]
    BY <1>4, <2>1, <2>2, SubSeqProperties
  <2>4. IsList(reset)
    BY <2>3, ListOf
  <2>5. ASSUME NEW k \in 1 .. n, ~Minted(control, k) PROVE control[k] \in ToSet(reset)
    <3>1. k = 3 /\ n = 4
      BY <2>5 DEF Minted
    <3>2. 1 \in 1 .. Len(reset) /\ reset[1] = control[3]
      BY <2>3, <3>1
    <3>3. \A i \in 1 .. Len(reset) : reset[i] \in ToSet(reset)
      BY ONLY <2>4, ListIs
    <3> QED BY <3>1, <3>2, <3>3
  <2> QED BY <2>4, <2>5
<1>6. Apart(s) /\ Apart(f) /\ Foreign(s, reset) /\ Foreign(s \o reset, f)
      /\ ToSet(s \o reset) = ToSet(s) \cup ToSet(reset)
  <2>1. IsList(s \o reset) /\ ToSet(s \o reset) = ToSet(s) \cup ToSet(reset)
    BY <1>1, <1>5, ListJoined
  <2>2. Apart(s \o reset) /\ Apart(f) /\ Foreign(s \o reset, f)
    BY <1>1, <1>4, <2>1, ApartJoined
  <2> QED BY <1>1, <1>5, <2>1, <2>2, ApartJoined
<1>7. Foreign(s, f) /\ Foreign(reset, f)
  BY <1>6 DEF Foreign
<1>8. \A leg \in ToSet(control) : \/ leg \in ToSet(reset)
                                  \/ leg.id \notin ids
  BY <1>1, <1>3, <1>5, ListIs
<1>9. Foreign(s, control) /\ Foreign(control, f)
  BY <1>3, <1>6, <1>7, <1>8 DEF Foreign
<1>10. Apart(control)
  <2> SUFFICES ASSUME NEW i \in 1 .. n, NEW j \in 1 .. n, control[i].id = control[j].id
               PROVE  i = j
    BY <1>1, ApartIs
  <2>1. Minted(control, i) <=> Minted(control, j)
    BY <1>3
  <2>2. CASE n = 4
    BY <1>2, <2>1, <2>2 DEF ControlShape, Minted
  <2>3. CASE n = 2
    BY <1>2, <2>3 DEF ControlShape
  <2> QED BY <1>2, <2>2, <2>3
<1>11. IsList(s \o control) /\ ToSet(s \o control) = ToSet(s) \cup ToSet(control)
  BY <1>1, ListJoined
<1>12. Apart(s \o control)
  BY <1>1, <1>6, <1>9, <1>10, ApartJoined
<1>13. Foreign(s \o control, f)
  BY <1>7, <1>9, <1>11 DEF Foreign
<1> QED BY <1>1, <1>4, <1>6, <1>11, <1>12, <1>13, ApartJoined

(* No two defects have one leg in a plan that repeats none.                *)
LEMMA DefectsApart ==
    ASSUME NEW c, NEW ds, Fit(c, ds), Apart(PlannedLegs(c, ds)),
           NEW i \in Witnessed(ds), NEW j \in Witnessed(ds), ds[i].leg = ds[j].leg
    PROVE  i = j
<1> DEFINE parts == FaultParts(c, ds)
           front == SensitivityLegs(c) \o ControlLegs(c, ds)
<1>1. /\ FaultLegs(c, ds) = FlattenSeq(parts) /\ IsList(parts) /\ DOMAIN parts = DOMAIN ds
      /\ \A d \in DOMAIN ds :
            IsList(parts[d]) /\ \A leg : leg \in ToSet(parts[d])
                                    <=> ds[d] # Unwitnessed /\ leg = DefectLeg(c, ds[d])
  BY FaultPartsAre
<1>2. IsList(SensitivityLegs(c)) /\ IsList(ControlLegs(c, ds)) /\ IsList(FaultLegs(c, ds))
  BY SensitivityAre, FaultsAre, ControlAre DEF ControlShape
<1>3. IsList(front) /\ PlannedLegs(c, ds) = front \o FaultLegs(c, ds)
  BY <1>2, ListJoined DEF PlannedLegs
<1> HIDE DEF parts, front
<1>4. Apart(FlattenSeq(parts))
  BY <1>1, <1>2, <1>3, ApartJoined
<1>5. /\ i \in DOMAIN parts /\ DefectLeg(c, ds[i]) \in ToSet(parts[i])
      /\ j \in DOMAIN parts /\ DefectLeg(c, ds[j]) \in ToSet(parts[j])
      /\ DefectLeg(c, ds[i]).id = DefectLeg(c, ds[j]).id
  BY <1>1 DEF Witnessed, DefectLeg, Leg
<1>6. \A k, l \in DOMAIN parts : k < l => Foreign(parts[k], parts[l])
  BY <1>1, <1>4, FlattenApart
<1>7. ~(i < j) /\ ~(j < i)
  BY <1>5, <1>6 DEF Foreign
<1>8. i \in Nat /\ j \in Nat
  BY <1>1, <1>5, ListIs
<1> QED BY <1>7, <1>8

(* What a plan is refused for.                                             *)
LEMMA RefusedFor ==
    ASSUME NEW c, NEW ds
    PROVE  /\ Refusal(c, ds) = "none" => Apart(PlannedLegs(c, ds))
           /\ Refusal(c, ds) = "malformed-operator-expression" => ~Apart(PlannedLegs(c, ds))
  BY DEF Refusal, Apart

(* In a plan that repeats no identifier, an identifier tells the leg's     *)
(* operation.                                                              *)
LEMMA LegTells ==
    ASSUME NEW c, NEW ds, Fit(c, ds), Apart(PlannedLegs(c, ds)),
           NEW i \in DOMAIN PlannedLegs(c, ds)
    PROVE  LET leg == PlannedLegs(c, ds)[i] IN
           /\ \A o \in DOMAIN c.ops : \A k \in DOMAIN c.ops[o].witness :
                 leg.id = c.ops[o].witness[k].id => leg.op = o
           /\ \A d \in Witnessed(ds) :
                 leg.id = ds[d].leg => leg.op = FaultOp(c, ds[d])
<1> DEFINE legs == PlannedLegs(c, ds)
           n == Len(legs)
           W == ToSet(legs)
<1>1. /\ IsList(legs)
      /\ W = ToSet(SensitivityLegs(c)) \cup ToSet(ControlLegs(c, ds)) \cup ToSet(FaultLegs(c, ds))
  BY PlanAre
<1>2. DOMAIN legs = 1 .. n /\ \A e : e \in W <=> \E k \in 1 .. n : e = legs[k]
  BY <1>1, ListIs
<1>3. \A k, l \in 1 .. n : legs[k].id = legs[l].id => k = l
  BY <1>1, ApartIs
<1>4. i \in 1 .. n
  BY <1>2
<1>5. /\ \A o \in DOMAIN c.ops : \A k \in DOMAIN c.ops[o].witness : WitnessLeg(c, o, k) \in W
      /\ \A d \in Witnessed(ds) : DefectLeg(c, ds[d]) \in W
  BY <1>1, SensitivityAre, FaultsAre
<1> HIDE DEF legs, n, W
<1>6. \A leg \in W : leg.id = legs[i].id => leg = legs[i]
  BY <1>2, <1>3, <1>4
<1>7. ASSUME NEW o \in DOMAIN c.ops, NEW k \in DOMAIN c.ops[o].witness,
             legs[i].id = c.ops[o].witness[k].id
      PROVE  legs[i].op = o
  <2>1. WitnessLeg(c, o, k) \in W
    BY <1>5
  <2>2. WitnessLeg(c, o, k).id = legs[i].id /\ WitnessLeg(c, o, k).op = o
    BY <1>7 DEF WitnessLeg, Leg
  <2> QED BY <1>6, <2>1, <2>2
<1>8. ASSUME NEW d \in Witnessed(ds), legs[i].id = ds[d].leg
      PROVE  legs[i].op = FaultOp(c, ds[d])
  <2>1. DefectLeg(c, ds[d]) \in W
    BY <1>5
  <2>2. DefectLeg(c, ds[d]).id = legs[i].id /\ DefectLeg(c, ds[d]).op = FaultOp(c, ds[d])
    BY <1>8 DEF DefectLeg, Leg
  <2> QED BY <1>6, <2>1, <2>2
<1> QED BY <1>7, <1>8 DEF legs

LEMMA DefectPlanned ==
    ASSUME NEW c, NEW ds, Fit(c, ds), NEW d \in Witnessed(ds)
    PROVE  \E i \in DOMAIN PlannedLegs(c, ds) :
              /\ PlannedLegs(c, ds)[i].purpose = "seeded-fault"
              /\ PlannedLegs(c, ds)[i].id = ds[d].leg
<1> DEFINE legs == PlannedLegs(c, ds)
           leg == DefectLeg(c, ds[d])
<1>1. IsList(legs) /\ leg \in ToSet(legs)
  BY PlanAre, FaultsAre
<1>2. leg.purpose = "seeded-fault" /\ leg.id = ds[d].leg
  BY DEF DefectLeg, Leg
<1> HIDE DEF legs, leg
<1>3. \E i \in DOMAIN legs : legs[i] = leg
  BY <1>1 DEF ToSet
<1> QED BY <1>2, <1>3 DEF legs

LEMMA CleanLegTells ==
    ASSUME NEW c, NEW ds, Fit(c, ds), Apart(PlannedLegs(c, ds)), NEW d \in Witnessed(ds),
           NEW i \in DOMAIN PlannedLegs(c, ds),
           PlannedLegs(c, ds)[i].id \in CleanLegs(c, ds, d)
    PROVE  PlannedLegs(c, ds)[i].op = FaultOp(c, ds[d])
<1> DEFINE legs == PlannedLegs(c, ds)
           n == Len(legs)
           W == ToSet(legs)
           own == CHOOSE k \in DOMAIN legs :
                     legs[k].purpose = "seeded-fault" /\ legs[k].id = ds[d].leg
           front == SubSeq(legs, 1, own - 1)
<1>1. IsList(legs)
  BY PlanAre
<1>2. n \in Nat /\ DOMAIN legs = 1 .. n /\ \A k \in 1 .. n : legs[k] \in W
  BY <1>1, ListIs
<1>3. \A k, l \in 1 .. n : legs[k].id = legs[l].id => k = l
  BY <1>1, ApartIs
<1>4. own \in 1 .. n
  BY <1>2, DefectPlanned
<1>5. legs[i].id \in Of(front, FaultOp(c, ds[d])) /\ i \in 1 .. n
  BY <1>2 DEF CleanLegs
<1> HIDE DEF legs, n, W, own
<1>6. DOMAIN front = 1 .. own - 1 /\ \A k \in 1 .. own - 1 : front[k] = legs[k]
  <2>1. 1 \in Int /\ own - 1 \in Int /\ \A k \in 1 .. own - 1 : legs[k] \in W
    BY <1>2, <1>4
  <2>2. /\ front \in Seq(W) /\ Len(front) = IF 1 <= own - 1 THEN own - 1 - 1 + 1 ELSE 0
        /\ \A k \in 1 .. own - 1 - 1 + 1 : front[k] = legs[1 + k - 1]
    BY <2>1, SubSeqProperties
  <2> HIDE DEF front
  <2>3. Len(front) = own - 1 /\ \A k \in 1 .. own - 1 : 1 + k - 1 = k
    BY <1>2, <1>4, <2>2
  <2>4. DOMAIN front = 1 .. Len(front)
    BY <2>2, LenProperties
  <2> QED BY <1>2, <1>4, <2>2, <2>3, <2>4
<1> HIDE DEF front
<1>7. PICK k \in 1 .. own - 1 : front[k].op = FaultOp(c, ds[d]) /\ front[k].id = legs[i].id
  BY <1>5, <1>6 DEF Of
<1>8. k \in 1 .. n
  BY <1>2, <1>4
<1>9. k = i
  BY <1>3, <1>5, <1>6, <1>7, <1>8
<1> QED BY <1>6, <1>7, <1>9 DEF legs

-----------------------------------------------------------------------------
(* The run.                                                                *)

(* Every answer is to its own leg or to none, and what is reduced is       *)
(* answers.                                                                *)
Kept ==
    /\ setting \in Settings
    /\ stage \in {"read", "parsed", "issuing", "ended"}
    /\ IsList(answers) /\ IsList(observations)
    /\ Len(answers) <= Len(plan)
    /\ \A k \in 1 .. Len(answers) : answers[k].probe \in {plan[k].id, Unasked}
    /\ ToSet(observations) \subseteq ToSet(answers)

(* Nothing is issued before the plan is accepted, and there is no verdict  *)
(* before the end.                                                         *)
Staged ==
    /\ stage \in {"read", "parsed"} => answers = <<>>
    /\ stage = "issuing" => Refusal(contract, defects) = "none"
    /\ stage # "ended" => verdict = NoVerdict

(* Where no reset restores it, a fixture is changed from the mutating      *)
(* control leg on, and a read that sees its state shows that.              *)
ChangeShows ==
    LET first == Len(SensitivityLegs(contract)) + 1 IN
    (Len(ControlLegs(contract, defects)) = 4 /\ world.mutates /\ ~world.resets) =>
        /\ Len(answers) > first => dirty
        /\ \A k \in 1 .. Len(answers) : k > first + 1 /\ world.sees => answers[k].state

RunInv == Kept /\ Staged /\ ChangeShows

LEMMA RunIs ==
    ASSUME Kept
    PROVE  /\ Fit(contract, defects)
           /\ IsList(plan) /\ DOMAIN plan = 1 .. Len(plan) /\ Len(plan) \in Nat
           /\ DOMAIN answers = 1 .. Len(answers) /\ Len(answers) \in Nat
           /\ \A i \in DOMAIN plan : plan[i].id # Unasked
<1>1. Fit(contract, defects)
  BY SettingsFit DEF Kept, contract, defects
<1> DEFINE c == contract
           ds == defects
           legs == PlannedLegs(c, ds)
<1>2. IsList(legs) /\ \A leg \in ToSet(legs) : leg.id # Unasked
  BY <1>1, PlanAre, NoneUnasked
<1>3. \A i \in DOMAIN legs : legs[i].id # Unasked
  BY <1>2 DEF ToSet
<1>4. DOMAIN legs = 1 .. Len(legs) /\ Len(legs) \in Nat
  BY <1>2, ListIs
<1>5. DOMAIN answers = 1 .. Len(answers) /\ Len(answers) \in Nat
  BY ListIs DEF Kept
<1> QED BY <1>1, <1>2, <1>3, <1>4, <1>5 DEF plan

Whole == Kept /\ Apart(plan) /\ Len(answers) = Len(plan)

(* The answer that the reducer finds to a leg is the one that was given    *)
(* when that leg was issued.                                               *)
LEMMA AnswerIs ==
    ASSUME Whole, NEW i \in DOMAIN States(observations)
    PROVE  /\ i \in DOMAIN plan /\ States(observations)[i] = answers[i]
           /\ \E k \in DOMAIN observations :
                 observations[k] = answers[i] /\ observations[k].probe = plan[i].id
<1>1. Kept /\ Apart(plan) /\ Len(answers) = Len(plan)
  BY DEF Whole
<1> DEFINE k == CHOOSE l \in Answering(observations, plan[i]) : TRUE
<1>2. i \in DOMAIN plan /\ Answering(observations, plan[i]) # {}
      /\ States(observations)[i] = observations[k]
  BY DEF States, Answered
<1>3. k \in DOMAIN observations /\ observations[k].probe = plan[i].id
  BY <1>2 DEF Answering
<1> HIDE DEF k
<1>4. observations[k] \in ToSet(answers)
  BY <1>1, <1>3 DEF Kept, ToSet
<1>5. PICK j \in DOMAIN answers : observations[k] = answers[j]
  BY <1>4 DEF ToSet
<1>6. /\ j \in DOMAIN plan /\ j \in 1 .. Len(answers)
      /\ \A l \in DOMAIN plan : plan[l].id # Unasked
  BY <1>1, <1>5, RunIs
<1>7. plan[j].id = plan[i].id
  BY <1>1, <1>2, <1>3, <1>5, <1>6 DEF Kept
<1>8. \A l, m \in DOMAIN plan : plan[l].id = plan[m].id => l = m
  BY <1>1 DEF Apart, IsInjective
<1>9. j = i
  BY <1>2, <1>6, <1>7, <1>8
<1> QED BY <1>2, <1>3, <1>5, <1>9

(* What a pass says.                                                       *)
LEMMA PassSays ==
    ASSUME NEW obs, ReducePreflight(obs).passed
    PROVE  /\ \A k, l \in DOMAIN obs : obs[k].probe = obs[l].probe => k = l
           /\ \A i \in DOMAIN States(obs) : States(obs)[i].kind = OpOfLeg(i).kind
           /\ \A check \in PlannedChecks(contract, defects) : Satisfied(States(obs), check)
<1> DEFINE states == States(obs)
           failed == {c \in PlannedChecks(contract, defects) : ~Satisfied(states, c)}
           bad == \/ ~IsInjective([k \in DOMAIN obs |-> obs[k].probe])
                  \/ \E i \in DOMAIN states : states[i].kind # OpOfLeg(i).kind
                  \/ states = <<>>
           odd == \E i \in DOMAIN states : ~states[i].digestible
           none == failed = {}
<1>1. ReducePreflight(obs) =
        IF bad THEN Fault("port-contract-violation")
        ELSE IF odd THEN Fault("non-canonicalizable-value")
        ELSE [passed |-> none, checks |-> failed, fault |-> "none"]
  BY DEF ReducePreflight
<1>2. \A code : ~Fault(code).passed
  BY DEF Fault, NoVerdict
<1> HIDE DEF bad, odd, failed, none
<1>3. ~bad /\ none
  <2>1. ~bad /\ ~odd
    BY <1>1, <1>2
  <2>2. ReducePreflight(obs) = [passed |-> none, checks |-> failed, fault |-> "none"]
    BY <1>1, <2>1
  <2>3. ReducePreflight(obs).passed = none
    BY <2>2
  <2> QED BY <2>1, <2>3
<1> USE DEF bad, failed, none
<1>4. IsInjective([k \in DOMAIN obs |-> obs[k].probe])
  BY <1>3
<1>5. \A i \in DOMAIN states : states[i].kind = OpOfLeg(i).kind
  BY <1>3
<1>6. \A check \in PlannedChecks(contract, defects) : Satisfied(states, check)
  BY <1>3
<1>7. \A k, l \in DOMAIN obs : obs[k].probe = obs[l].probe => k = l
  BY <1>4 DEF IsInjective
<1> QED BY <1>5, <1>6, <1>7

(* The presence checks see to it that every leg was answered, and to its   *)
(* operation.                                                              *)
LEMMA AllAnswered ==
    ASSUME Whole, ReducePreflight(observations).passed
    PROVE  /\ DOMAIN States(observations) = DOMAIN plan
           /\ \A i \in DOMAIN plan :
                 States(observations)[i] = answers[i] /\ answers[i].op = plan[i].op
<1> DEFINE states == States(observations)
<1>1. ASSUME NEW i \in DOMAIN plan
      PROVE  i \in DOMAIN states /\ states[i].op = plan[i].op
  <2> DEFINE check == [kind |-> "interface-present", op |-> plan[i].op,
                       legs |-> Of(plan, plan[i].op)]
  <2>1. check \in PlannedChecks(contract, defects)
    BY DEF PlannedChecks, PresenceChecks, plan
  <2>2. Satisfied(states, check)
    BY <2>1, PassSays
  <2>3. check.kind = "interface-present" /\ check.legs = Of(plan, plan[i].op)
    OBVIOUS
  <2> HIDE DEF check, states
  <2>4. Present(states, check)
    BY <2>2, <2>3 DEF Satisfied
  <2>5. i \in LegsOf(check)
    BY <2>3 DEF LegsOf, Of
  <2> QED BY <2>4, <2>5 DEF Present
<1>2. \A i \in DOMAIN states : i \in DOMAIN plan /\ states[i] = answers[i]
  BY AnswerIs
<1> HIDE DEF states
<1> QED BY <1>1, <1>2 DEF states

(* What the three properties promise of a pass.                            *)
EvidenceShown ==
    /\ \A d \in DOMAIN defects :
        /\ d \in Witnessed(defects) /\ d \in answers[Own(d)].shown
        /\ \E i \in DOMAIN plan :
            plan[i].op = plan[Own(d)].op /\ (d \notin answers[i].shown \/ answers[i].body = "text")
    /\ \A op \in DOMAIN contract.ops :
        contract.ops[op].keys # "none" =>
            \E i, j \in DOMAIN plan :
                /\ plan[i].op = op /\ plan[j].op = op
                /\ answers[i].value # answers[j].value

DeliveredWhole ==
    \A i \in DOMAIN plan :
        \E k \in DOMAIN observations :
            /\ observations[k].probe = plan[i].id
            /\ observations[k].op = plan[i].op
            /\ observations[k].kind = OpOfLeg(i).kind
            /\ \A n \in DOMAIN observations : observations[n].probe = plan[i].id => n = k

LEMMA PassIsDelivered ==
    ASSUME Whole, ReducePreflight(observations).passed
    PROVE  DeliveredWhole
<1> SUFFICES ASSUME NEW i \in DOMAIN plan
             PROVE  \E k \in DOMAIN observations :
                       /\ observations[k].probe = plan[i].id
                       /\ observations[k].op = plan[i].op
                       /\ observations[k].kind = OpOfLeg(i).kind
                       /\ \A n \in DOMAIN observations : observations[n].probe = plan[i].id => n = k
  BY DEF DeliveredWhole
<1>1. /\ i \in DOMAIN States(observations) /\ States(observations)[i] = answers[i]
      /\ answers[i].op = plan[i].op
  BY AllAnswered
<1>2. PICK k \in DOMAIN observations :
        observations[k] = answers[i] /\ observations[k].probe = plan[i].id
  BY <1>1, AnswerIs
<1>3. answers[i].kind = OpOfLeg(i).kind
  BY <1>1, PassSays
<1>4. \A n \in DOMAIN observations : observations[n].probe = observations[k].probe => n = k
  BY PassSays
<1> QED BY <1>1, <1>2, <1>3, <1>4

(* The leg of a defect that fired is its own and shows it.                 *)
LEMMA FiredShows ==
    ASSUME Whole, ReducePreflight(observations).passed, NEW d \in DOMAIN defects
    PROVE  /\ d \in Witnessed(defects) /\ Own(d) \in DOMAIN plan
           /\ plan[Own(d)].id = defects[d].leg
           /\ d \in answers[Own(d)].shown
           /\ \A e \in Witnessed(defects) : defects[e].leg = defects[d].leg => e = d
<1> DEFINE states == States(observations)
           check == [kind |-> "seeded-fault-fired", op |-> 0, fault |-> defects[d].leg,
                     legs |-> {}]
<1>1. check \in PlannedChecks(contract, defects)
  BY DEF PlannedChecks, FaultChecks
<1>2. Satisfied(states, check)
  BY <1>1, PassSays
<1>3. check.kind = "seeded-fault-fired" /\ check.fault = defects[d].leg
  OBVIOUS
<1>4. /\ \A i \in DOMAIN states : i \in DOMAIN plan /\ states[i] = answers[i]
      /\ \A l, m \in DOMAIN plan : plan[l].id = plan[m].id => l = m
      /\ Fit(contract, defects) /\ Apart(PlannedLegs(contract, defects))
  BY AnswerIs, RunIs DEF Whole, Apart, IsInjective, plan
<1> HIDE DEF check, states
<1>5. Fired(states, check)
  BY <1>2, <1>3 DEF Satisfied
<1>6. PICK i \in DOMAIN states :
        plan[i].id = check.fault /\ Shows(Evidence(states, i), DefectOf(check)) = "true"
  BY <1>5 DEF Fired
<1>7. defects[d].leg # Unwitnessed.leg
  BY <1>3, <1>5 DEF Fired
<1>8. d \in Witnessed(defects)
  BY <1>7 DEF Witnessed
<1>9. \A e \in Witnessed(defects) : defects[e].leg = defects[d].leg => e = d
  BY <1>4, <1>8, DefectsApart
<1>10. DefectOf(check) = d
  <2>1. DefectOf(check) \in DOMAIN defects /\ defects[DefectOf(check)].leg = defects[d].leg
    BY <1>3 DEF DefectOf
  <2>2. DefectOf(check) \in Witnessed(defects)
    BY <1>7, <2>1 DEF Witnessed
  <2> QED BY <1>9, <2>1, <2>2
<1>11. d \in states[i].shown
  BY <1>6, <1>10 DEF Shows, Evidence, EvidenceOf, Projected
<1>12. Own(d) = i /\ i \in DOMAIN plan /\ plan[i].id = defects[d].leg
  BY <1>3, <1>4, <1>6 DEF Own
<1> QED BY <1>4, <1>6, <1>8, <1>9, <1>11, <1>12

(* Another leg of the operation did not show it.                           *)
LEMMA ScopedElsewhere ==
    ASSUME Whole, ReducePreflight(observations).passed, NEW d \in DOMAIN defects
    PROVE  \E i \in DOMAIN plan :
              plan[i].op = plan[Own(d)].op /\ (d \notin answers[i].shown \/ answers[i].body = "text")
<1> DEFINE states == States(observations)
           clean == CleanLegs(contract, defects, d)
           check == [kind |-> "seeded-faults-scoped", op |-> FaultOp(contract, defects[d]),
                     fault |-> defects[d].leg, legs |-> clean]
<1>1. /\ d \in Witnessed(defects) /\ Own(d) \in DOMAIN plan
      /\ plan[Own(d)].id = defects[d].leg
      /\ \A e \in Witnessed(defects) : defects[e].leg = defects[d].leg => e = d
      /\ \A e \in DOMAIN defects : e \in Witnessed(defects)
  BY FiredShows
<1>2. check \in PlannedChecks(contract, defects)
  BY <1>1 DEF PlannedChecks, FaultChecks
<1>3. Satisfied(states, check)
  BY <1>2, PassSays
<1>4. check.kind = "seeded-faults-scoped" /\ check.fault = defects[d].leg /\ check.legs = clean
  OBVIOUS
<1>5. /\ \A i \in DOMAIN plan : i \in DOMAIN states /\ states[i] = answers[i]
      /\ Fit(contract, defects) /\ Apart(PlannedLegs(contract, defects))
  BY AllAnswered, RunIs DEF Whole, plan
<1> HIDE DEF check, states, clean
<1>6. Scoped(states, check)
  BY <1>3, <1>4 DEF Satisfied
<1>7. PICK i \in Examined(states, check) : TRUE
  BY <1>6 DEF Scoped
<1>8. i \in DOMAIN plan /\ plan[i].id \in clean
  BY <1>4, <1>7 DEF Examined, LegsOf
<1>9. Shows(Evidence(states, i), DefectOf(check)) # "true"
  BY <1>5, <1>6, <1>7, <1>8 DEF Scoped
<1>10. DefectOf(check) = d
  BY <1>1, <1>4 DEF DefectOf
<1>11. d \notin answers[i].shown \/ answers[i].body = "text"
  BY <1>5, <1>8, <1>9, <1>10 DEF Shows, Evidence, EvidenceOf, Projected
<1>12. plan[i].op = FaultOp(contract, defects[d])
  BY <1>1, <1>5, <1>8, CleanLegTells DEF clean, plan
<1>13. plan[Own(d)].op = FaultOp(contract, defects[d])
  BY <1>1, <1>5, LegTells DEF plan
<1> QED BY <1>8, <1>11, <1>12, <1>13

LEMMA SensitiveShows ==
    ASSUME Whole, ReducePreflight(observations).passed, NEW op \in DOMAIN contract.ops,
           contract.ops[op].keys # "none"
    PROVE  \E i, j \in DOMAIN plan :
              /\ plan[i].op = op /\ plan[j].op = op
              /\ answers[i].value # answers[j].value
<1> DEFINE states == States(observations)
           witness == contract.ops[op].witness
           ids == {l.id : l \in ToSet(witness)}
           check == [kind |-> "input-sensitivity", op |-> op, legs |-> ids]
<1>1. check \in PlannedChecks(contract, defects)
  BY DEF PlannedChecks, SensitivityChecks
<1>2. Satisfied(states, check)
  BY <1>1, PassSays
<1>3. check.kind = "input-sensitivity" /\ check.op = op /\ check.legs = ids
  OBVIOUS
<1>4. /\ \A i \in DOMAIN states : i \in DOMAIN plan /\ states[i] = answers[i]
      /\ Fit(contract, defects) /\ Apart(PlannedLegs(contract, defects))
  BY AnswerIs, RunIs DEF Whole, plan
<1> HIDE DEF check, states
<1>5. Sensitive(states, check)
  BY <1>2, <1>3 DEF Satisfied
<1>6. /\ LegsOf(check) \subseteq DOMAIN states
      /\ \E i, j \in LegsOf(check) :
            i < j /\ Differs(Evidence(states, i), Evidence(states, j)) = "true"
  BY <1>3, <1>5 DEF Sensitive
<1>7. PICK i \in LegsOf(check), j \in LegsOf(check) :
        Differs(Evidence(states, i), Evidence(states, j)) = "true"
  BY <1>6
<1>8. states[i].value # states[j].value
  BY <1>7 DEF Differs, Evidence, EvidenceOf, Projected
<1>9. ASSUME NEW k \in LegsOf(check) PROVE plan[k].op = op /\ k \in DOMAIN plan
  <2>1. k \in DOMAIN plan /\ plan[k].id \in ids
    BY <1>3, <1>9 DEF LegsOf
  <2>2. PICK l \in DOMAIN witness : plan[k].id = witness[l].id
    BY <2>1 DEF ToSet
  <2> QED BY <1>4, <2>1, <2>2, LegTells DEF plan
<1> QED BY <1>4, <1>6, <1>7, <1>8, <1>9

LEMMA PassShows ==
    ASSUME Whole, ReducePreflight(observations).passed
    PROVE  EvidenceShown
  BY FiredShows, ScopedElsewhere, SensitiveShows DEF EvidenceShown

(* Both reads around the change show one state, so a reset undid it.       *)
LEMMA PassUndone ==
    ASSUME Whole, ChangeShows, ReducePreflight(observations).passed,
           Len(ControlLegs(contract, defects)) = 4, world.mutates, world.sees,
           ~answers[Len(SensitivityLegs(contract)) + 1].state
    PROVE  world.resets
<1> DEFINE states == States(observations)
           control == ControlLegs(contract, defects)
           before == Len(SensitivityLegs(contract))
           i == before + 1
           j == before + 4
           check == [kind |-> "state-reset", op |-> 0,
                     legs |-> {control[1].id, control[Len(control)].id}]
<1>1. check \in PlannedChecks(contract, defects)
  <2>1. ControlLegs(contract, defects) # <<>>
    BY ShortLists
  <2> QED BY <2>1 DEF PlannedChecks, ControlChecks
<1>2. Satisfied(states, check)
  BY <1>1, PassSays
<1>3. /\ check.kind = "state-reset"
      /\ check.legs = {control[1].id, control[4].id} /\ Len(control) = 4
  OBVIOUS
<1>4. /\ \A k \in DOMAIN plan : k \in DOMAIN states /\ states[k] = answers[k]
      /\ Fit(contract, defects) /\ DOMAIN plan = 1 .. Len(plan) /\ Len(plan) \in Nat
      /\ Len(answers) = Len(plan)
  BY AllAnswered, RunIs DEF Whole
<1>5. /\ before \in Nat /\ before + 4 <= Len(plan)
      /\ \A k \in 1 .. 4 : plan[before + k] = control[k]
  <2>1. /\ before \in Nat /\ before + Len(control) <= Len(PlannedLegs(contract, defects))
        /\ \A k \in 1 .. Len(control) : PlannedLegs(contract, defects)[before + k] = control[k]
    <3>1. Fit(contract, defects)
      BY <1>4
    <3> QED BY ONLY <3>1, PlanAre DEF before, control
  <2> QED BY <1>3, <2>1 DEF plan
<1> HIDE DEF check, states, control, before
<1>6. SameFixtureState(states, check)
  BY <1>2, <1>3 DEF Satisfied
<1>7. /\ i \in DOMAIN plan /\ j \in DOMAIN plan /\ plan[i] = control[1] /\ plan[j] = control[4]
      /\ j \in 1 .. Len(answers) /\ j > i + 1
  BY <1>4, <1>5
<1>8. i \in LegsOf(check) /\ j \in LegsOf(check)
  BY <1>3, <1>7 DEF LegsOf
<1> HIDE DEF i, j
<1>9. StateResetProjection(states[i], OpOfLeg(i)) = StateResetProjection(states[j], OpOfLeg(j))
  BY <1>6, <1>8 DEF SameFixtureState
<1>10. StateResetProjection(states[i], OpOfLeg(i)).state = states[i].state
       /\ StateResetProjection(states[j], OpOfLeg(j)).state = states[j].state
  BY DEF StateResetProjection, Projected
<1>11. states[i].state = states[j].state
  BY <1>9, <1>10
<1>12. answers[i].state = answers[j].state
  BY <1>4, <1>7, <1>11
<1>13. ~answers[i].state
  BY DEF i, before
<1>14. ~world.resets => answers[j].state
  BY <1>7 DEF ChangeShows, i, before
<1> QED BY <1>12, <1>13, <1>14

(* What the parsing of the two artifacts throws.                           *)
ParseFaults == {"none", "schema-version-mismatch", "schema-parse-failure"}

LEMMA FirstFaultIs ==
    ASSUME NEW faults, IsList(faults), ToSet(faults) \subseteq ParseFaults
    PROVE  FirstFault(faults) \in ParseFaults
<1> DEFINE thrown == {i \in DOMAIN faults : faults[i] # "none"}
<1>1. CASE thrown = {}
  BY <1>1 DEF FirstFault, ParseFaults
<1>2. CASE thrown # {}
  <2>1. thrown \in SUBSET Nat
    BY ListIs
  <2>2. Min(thrown) \in thrown
    BY <1>2, <2>1, LeastOf
  <2>3. faults[Min(thrown)] \in ToSet(faults)
    BY <2>2 DEF ToSet
  <2>4. FirstFault(faults) = faults[Min(thrown)]
    BY <1>2 DEF FirstFault
  <2> QED BY <2>3, <2>4
<1> QED BY <1>1, <1>2

LEMMA InputFaultIs ==
    ASSUME NEW artifact
    PROVE  ArrayFault(<<artifact>>) \in ParseFaults
<1> DEFINE a == <<artifact>>
           s == [i \in DOMAIN a |-> VersionFault(a[i])]
           t == [i \in DOMAIN a |-> ParseFault(a[i])]
<1>1. DOMAIN a = 1 .. 1
  OBVIOUS
<1>2. s = [i \in 1 .. 1 |-> s[i]] /\ t = [i \in 1 .. 1 |-> t[i]]
  BY <1>1
<1>3. ToSet(s) \subseteq ParseFaults /\ ToSet(t) \subseteq ParseFaults
  BY DEF ToSet, VersionFault, ParseFault, ParseFaults
<1>4. ArrayFault(<<artifact>>) = FirstFault(s \o t)
  BY DEF ArrayFault
<1> HIDE DEF s, t
<1>5. IsList(s) /\ IsList(t)
  BY <1>2, ListMade
<1>6. IsList(s \o t) /\ ToSet(s \o t) = ToSet(s) \cup ToSet(t)
  BY <1>5, ListJoined
<1> QED BY <1>3, <1>4, <1>6, FirstFaultIs

LEMMA ParseThrows ==
    ASSUME NEW a, NEW b
    PROVE  FirstFault(<<InputFault(a), ArrayFault(<<b>>)>>) # "malformed-operator-expression"
<1>1. InputFault(a) \in ParseFaults /\ ArrayFault(<<b>>) \in ParseFaults
  BY InputFaultIs DEF InputFault
<1> DEFINE left == InputFault(a)
           right == ArrayFault(<<b>>)
           faults == <<left, right>>
<1> HIDE DEF left, right
<1>2. ToSet(faults) \subseteq ParseFaults
  BY <1>1 DEF ToSet, left, right
<1>3. IsList(faults)
  BY ShortLists
<1> HIDE DEF faults
<1>4. FirstFault(faults) \in ParseFaults
  BY <1>2, <1>3, FirstFaultIs
<1> QED BY <1>4 DEF ParseFaults, faults, left, right

-----------------------------------------------------------------------------
(* The steps.                                                              *)

LEMMA TruthfulIs ==
    ASSUME NEW leg
    PROVE  /\ Truthful(leg).probe = leg.id
           /\ Truthful(leg).state = (world.sees /\ dirty)
<1> DEFINE sight == world.sees /\ dirty
<1> HIDE DEF sight
<1>1. Truthful(leg).probe = leg.id /\ Truthful(leg).state = sight
  BY DEF Truthful, sight
<1> QED BY <1>1 DEF sight

LEMMA MisansweredIs ==
    ASSUME NEW answer, NEW a \in Misanswered(answer), {"probe", "state"} \subseteq DOMAIN answer
    PROVE  a.probe \in {answer.probe, Unasked} /\ a.state = answer.state
  BY DEF Misanswered

(* What a leg is answered with.                                            *)
LEMMA IssueGives ==
    ASSUME Issue
    PROVE  LET leg == plan[Len(answers) + 1] IN
           \E a : /\ answers' = Append(answers, a)
                  /\ a.probe \in {leg.id, Unasked}
                  /\ world.sees /\ dirty => a.state
<1> DEFINE leg == plan[Len(answers) + 1]
           truth == Truthful(leg)
<1>1. truth.probe = leg.id /\ (world.sees /\ dirty => truth.state)
  BY TruthfulIs
<1>2. {"probe", "state"} \subseteq DOMAIN truth
  BY DEF Truthful
<1>3. \/ answers' = Append(answers, truth)
      \/ \E a \in Misanswered(truth) : answers' = Append(answers, a)
  BY DEF Issue
<1> HIDE DEF leg, truth
<1>4. \A a \in Misanswered(truth) : a.probe \in {truth.probe, Unasked} /\ a.state = truth.state
  BY <1>2, MisansweredIs
<1>5. CASE answers' = Append(answers, truth)
  BY <1>1, <1>5 DEF leg
<1>6. CASE \E a \in Misanswered(truth) : answers' = Append(answers, a)
  <2>1. PICK a \in Misanswered(truth) : answers' = Append(answers, a)
    BY <1>6
  <2>2. a.probe \in {leg.id, Unasked} /\ (world.sees /\ dirty => a.state)
    BY <1>1, <1>4
  <2> QED BY <2>1, <2>2 DEF leg
<1> QED BY <1>3, <1>5, <1>6

(* Where the legs of the change are.                                       *)
LEMMA ChangeAt ==
    ASSUME Kept
    PROVE  LET before == Len(SensitivityLegs(contract)) IN
           /\ before \in Nat
           /\ Len(ControlLegs(contract, defects)) = 4 =>
                 /\ plan[before + 2].op = Mutating(contract)
                 /\ contract.ops[Mutating(contract)].marker
<1> DEFINE before == Len(SensitivityLegs(contract))
           control == ControlLegs(contract, defects)
<1>1. Fit(contract, defects)
  BY RunIs
<1>2. /\ before \in Nat
      /\ \A k \in 1 .. Len(control) : plan[before + k] = control[k]
  BY ONLY <1>1, PlanAre DEF plan
<1>3. ControlShape(contract, defects, control)
  BY <1>1, ControlAre
<1> HIDE DEF before, control
<1>4. ASSUME Len(control) = 4
      PROVE  plan[before + 2].op = Mutating(contract) /\ contract.ops[Mutating(contract)].marker
  <2>1. 2 \in 1 .. Len(control)
    BY <1>4
  <2>2. plan[before + 2] = control[2]
    BY <1>2, <2>1
  <2>3. control[2].op = Mutating(contract) /\ Mutating(contract) # 0
    BY ONLY <1>3, <1>4 DEF ControlShape
  <2>4. contract.ops[Mutating(contract)].marker
    BY <1>1, <2>3, MutatingIs
  <2> QED BY <2>2, <2>3, <2>4
<1> QED BY <1>2, <1>4 DEF before, control

LEMMA IssueKeeps ==
    ASSUME RunInv, Issue
    PROVE  RunInv'
<1>1. Kept /\ Staged /\ ChangeShows
  BY DEF RunInv
<1>2. /\ stage = "issuing" /\ Len(answers) < Len(plan)
      /\ UNCHANGED <<setting, stage, verdict>>
      /\ observations' = IF mode = "port" THEN answers' ELSE observations
      /\ dirty' = IF Restores(plan[Len(answers) + 1]) THEN FALSE
                  ELSE dirty \/ (contract.ops[plan[Len(answers) + 1].op].marker /\ world.mutates)
  BY DEF Issue
<1>3. /\ contract' = contract /\ defects' = defects /\ world' = world /\ plan' = plan
  BY <1>2 DEF contract, defects, world, plan
<1>4. PICK a : /\ answers' = Append(answers, a)
               /\ a.probe \in {plan[Len(answers) + 1].id, Unasked}
               /\ world.sees /\ dirty => a.state
  BY IssueGives
<1>5. Len(answers) \in Nat /\ Len(plan) \in Nat
  BY <1>1, RunIs
<1> DEFINE n == Len(answers)
<1>6. /\ IsList(answers') /\ Len(answers') = n + 1
      /\ \A k \in 1 .. n : answers'[k] = answers[k]
      /\ answers'[n + 1] = a
      /\ ToSet(answers') = ToSet(answers) \cup {a}
  <2>1. IsList(answers)
    BY <1>1 DEF Kept
  <2> QED BY <1>4, <2>1, ListAppended
<1> HIDE DEF n
<1>7. Kept'
  <2>1. \A k \in 1 .. n + 1 : k \in 1 .. n \/ k = n + 1
    BY <1>5 DEF n
  <2>2. \A k \in 1 .. n + 1 : answers'[k].probe \in {plan[k].id, Unasked}
    <3> TAKE k \in 1 .. n + 1
    <3>1. CASE k \in 1 .. n
      BY <1>1, <1>6, <3>1 DEF Kept, n
    <3>2. CASE k = n + 1
      BY <1>4, <1>6, <3>2 DEF n
    <3> QED BY <2>1, <3>1, <3>2
  <2>3. n + 1 <= Len(plan)
    BY <1>2, <1>5 DEF n
  <2>4. IsList(observations') /\ ToSet(observations') \subseteq ToSet(answers')
    BY <1>1, <1>2, <1>6 DEF Kept
  <2>5. \A k \in 1 .. Len(answers') : answers'[k].probe \in {plan[k].id, Unasked}
    BY <1>6, <2>2
  <2>6. setting' \in Settings /\ stage' \in {"read", "parsed", "issuing", "ended"}
    BY <1>1, <1>2 DEF Kept
  <2>7. Len(answers') <= Len(plan)
    BY <1>6, <2>3
  <2> QED BY <1>3, <1>6, <2>4, <2>5, <2>6, <2>7 DEF Kept
<1>8. Staged'
  BY <1>1, <1>2, <1>3 DEF Staged
<1>9. ChangeShows'
  <2> DEFINE first == Len(SensitivityLegs(contract)) + 1
  <2>0. first' = first
    BY <1>3
  <2> SUFFICES ASSUME Len(ControlLegs(contract, defects)) = 4, world.mutates, ~world.resets
               PROVE  /\ n + 1 > first => dirty'
                      /\ \A k \in 1 .. n + 1 :
                            k > first + 1 /\ world.sees => answers'[k].state
    BY <1>3, <1>6, <2>0 DEF ChangeShows
  <2>1. /\ first \in Nat /\ plan[first + 1].op = Mutating(contract)
        /\ contract.ops[Mutating(contract)].marker
    <3> DEFINE before == Len(SensitivityLegs(contract))
    <3>1. /\ before \in Nat /\ plan[before + 2].op = Mutating(contract)
          /\ contract.ops[Mutating(contract)].marker
      BY <1>1, ChangeAt
    <3> HIDE DEF before
    <3>2. before + 1 \in Nat /\ before + 1 + 1 = before + 2
      BY <3>1
    <3> QED BY <3>1, <3>2 DEF before
  <2> HIDE DEF first
  <2>2. /\ n > first => dirty
        /\ \A k \in 1 .. n : k > first + 1 /\ world.sees => answers[k].state
    BY <1>1 DEF ChangeShows, n, first
  <2>3. ~Restores(plan[n + 1])
    BY DEF Restores
  <2>4. dirty \/ contract.ops[plan[n + 1].op].marker => dirty'
    BY <1>2, <2>3 DEF n
  <2>5. n + 1 > first => n > first \/ n = first
    BY <1>5, <2>1 DEF n
  <2>6. n + 1 > first => dirty'
    BY <2>1, <2>2, <2>4, <2>5
  <2>7. ASSUME NEW k \in 1 .. n + 1, k > first + 1, world.sees
        PROVE  answers'[k].state
    <3>1. CASE k \in 1 .. n
      BY <1>6, <2>2, <2>7, <3>1
    <3>2. CASE k = n + 1
      <4>1. n > first
        BY <1>5, <2>1, <2>7, <3>2 DEF n
      <4> QED BY <1>4, <1>6, <2>2, <2>7, <3>2, <4>1
    <3>3. k \in 1 .. n \/ k = n + 1
      BY <1>5 DEF n
    <3> QED BY <3>1, <3>2, <3>3
  <2> QED BY <2>6, <2>7
<1> QED BY <1>7, <1>8, <1>9 DEF RunInv

LEMMA InitEstablishes ==
    ASSUME Init
    PROVE  RunInv
<1>1. /\ setting \in Settings /\ stage = "read" /\ dirty = FALSE /\ answers = <<>>
      /\ observations = <<>> /\ verdict = NoVerdict
  BY DEF Init
<1>2. IsList(<<>>) /\ Len(<<>>) = 0 /\ ToSet(<<>>) = {}
  BY DEF IsList, ToSet
<1>3. Fit(contract, defects)
  BY <1>1, SettingsFit DEF contract, defects
<1>4. Len(plan) \in Nat /\ Len(SensitivityLegs(contract)) \in Nat
  <2>1. IsList(PlannedLegs(contract, defects)) /\ Len(SensitivityLegs(contract)) \in Nat
    BY ONLY <1>3, PlanAre
  <2> QED BY <2>1, ListIs DEF plan
<1> DEFINE n == Len(answers)
<1>5. n = 0
  BY <1>1, <1>2
<1> HIDE DEF n
<1>6. 0 <= Len(plan) /\ 1 .. 0 = {}
  BY <1>4
<1>7. Kept
  BY <1>1, <1>2, <1>5, <1>6 DEF Kept, n
<1>8. Staged
  BY <1>1 DEF Staged
<1>9. ChangeShows
  <2> DEFINE first == Len(SensitivityLegs(contract)) + 1
  <2>1. first \in Nat /\ ~(0 > first)
    BY <1>4
  <2> HIDE DEF first
  <2>2. ~(Len(answers) > first) /\ 1 .. Len(answers) = {}
    BY <1>5, <1>6, <2>1 DEF n
  <2> QED BY <2>2 DEF ChangeShows, first
<1> QED BY <1>7, <1>8, <1>9 DEF RunInv

(* What leaves the setting, the answers and the fixture alone keeps what   *)
(* is known of them.                                                       *)
LEMMA StillKeeps ==
    ASSUME RunInv, UNCHANGED <<setting, dirty, answers>>,
           stage' \in {"read", "parsed", "issuing", "ended"},
           IsList(observations'), ToSet(observations') \subseteq ToSet(answers)
    PROVE  /\ contract' = contract /\ defects' = defects /\ world' = world /\ plan' = plan
           /\ Kept' /\ ChangeShows'
<1>1. contract' = contract /\ defects' = defects /\ world' = world /\ plan' = plan
  BY DEF contract, defects, world, plan
<1>2. Kept'
  BY <1>1 DEF RunInv, Kept
<1>3. ChangeShows'
  BY <1>1 DEF RunInv, ChangeShows
<1> QED BY <1>1, <1>2, <1>3

LEMMA StepKeeps ==
    ASSUME RunInv, [Next]_vars
    PROVE  RunInv'
<1>0. /\ IsList(observations) /\ ToSet(observations) \subseteq ToSet(answers)
      /\ stage \in {"read", "parsed", "issuing", "ended"}
      /\ Staged
  BY DEF RunInv, Kept
<1>1. CASE Parse
  <2>1. /\ stage = "read" /\ stage' \in {"parsed", "ended"}
        /\ stage' # "ended" => verdict' = verdict
        /\ UNCHANGED <<setting, dirty, answers, misanswers, observations>>
    BY <1>1 DEF Parse
  <2>2. Kept' /\ ChangeShows'
    BY <1>0, <2>1, StillKeeps
  <2>3. Staged'
    BY <1>0, <2>1 DEF Staged, NoVerdict
  <2> QED BY <2>2, <2>3 DEF RunInv
<1>2. CASE Plan
  <2>1. /\ stage = "parsed" /\ stage' \in {"issuing", "ended"}
        /\ stage' # "ended" => verdict' = verdict /\ Refusal(contract, defects) = "none"
        /\ UNCHANGED <<setting, dirty, answers, misanswers, observations>>
    BY <1>2 DEF Plan
  <2>2. Kept' /\ ChangeShows' /\ contract' = contract /\ defects' = defects
    BY <1>0, <2>1, StillKeeps
  <2>3. Staged'
    BY <1>0, <2>1, <2>2 DEF Staged, NoVerdict
  <2> QED BY <2>2, <2>3 DEF RunInv
<1>3. CASE Issue
  BY <1>3, IssueKeeps
<1>4. CASE IssueThrows \/ Reduce
  <2>1. /\ stage' = "ended"
        /\ UNCHANGED <<setting, dirty, answers, misanswers, observations>>
    BY <1>4 DEF IssueThrows, Reduce
  <2>2. Kept' /\ ChangeShows'
    BY <1>0, <2>1, StillKeeps
  <2>3. Staged'
    BY <2>1 DEF Staged
  <2> QED BY <2>2, <2>3 DEF RunInv
<1>5. CASE Hand
  <2>1. /\ UNCHANGED <<setting, stage, dirty, answers, misanswers, verdict>>
        /\ \E k \in DOMAIN answers : observations' = Append(observations, answers[k])
    BY <1>5 DEF Hand
  <2>2. PICK k \in DOMAIN answers : observations' = Append(observations, answers[k])
    BY <2>1
  <2>3. IsList(observations') /\ ToSet(observations') = ToSet(observations) \cup {answers[k]}
    BY <1>0, <2>2, ListAppended
  <2>4. ToSet(observations') \subseteq ToSet(answers)
    BY <1>0, <2>3 DEF ToSet
  <2>5. Kept' /\ ChangeShows' /\ contract' = contract /\ defects' = defects
    BY <1>0, <2>1, <2>3, <2>4, StillKeeps
  <2>6. Staged'
    BY <1>0, <2>1, <2>5 DEF Staged, NoVerdict
  <2> QED BY <2>5, <2>6 DEF RunInv
<1>6. CASE UNCHANGED vars
  <2>1. UNCHANGED <<setting, stage, dirty, answers, observations, verdict>>
    BY <1>6 DEF vars
  <2>2. Kept' /\ ChangeShows' /\ contract' = contract /\ defects' = defects
    BY <1>0, <2>1, StillKeeps
  <2>3. Staged'
    BY <1>0, <2>1, <2>2 DEF Staged, NoVerdict
  <2> QED BY <2>2, <2>3 DEF RunInv
<1> QED BY <1>1, <1>2, <1>3, <1>4, <1>5, <1>6 DEF Next

(* A run keeps its answers apart: each is to its own leg or to none, the   *)
(* reducer is given answers and nothing else, and a change that is not     *)
(* undone shows in every read after it (preflight.ts, runPreflight).       *)
THEOREM RunInvariant == Spec => []RunInv
<1>1. Init => RunInv
  BY InitEstablishes
<1>2. RunInv /\ [Next]_vars => RunInv'
  BY StepKeeps
<1> QED BY <1>1, <1>2, PTL DEF Spec

-----------------------------------------------------------------------------
(* The outcome.                                                            *)

(* What is minted is never why a plan is refused.                          *)
LEMMA RefusedByAuthor ==
    ASSUME Kept, Refusal(contract, defects) = "malformed-operator-expression"
    PROVE  LET control == ControlLegs(contract, defects)
               reset == SubSeq(control, 3, Len(control) - 1)
               declared == SensitivityLegs(contract) \o reset \o FaultLegs(contract, defects)
           IN ~IsInjective([i \in DOMAIN declared |-> declared[i].id])
<1> DEFINE control == ControlLegs(contract, defects)
           reset == SubSeq(control, 3, Len(control) - 1)
           declared == SensitivityLegs(contract) \o reset \o FaultLegs(contract, defects)
<1>1. Fit(contract, defects) /\ ~Apart(PlannedLegs(contract, defects))
  BY RunIs, RefusedFor
<1>2. Apart(declared) => Apart(PlannedLegs(contract, defects))
  BY <1>1, MintedApart
<1> QED BY <1>1, <1>2 DEF Apart

Earned == OutcomeEarned /\ ResetProven

LEMMA NothingYet ==
    ASSUME ~verdict.passed, verdict.fault # "malformed-operator-expression"
    PROVE  Earned
  BY DEF Earned, OutcomeEarned, PassIsEvidence, PassIsWhole, MintedNeverCollides, ResetProven

LEMMA NothingAfter ==
    ASSUME ~verdict'.passed, verdict'.fault # "malformed-operator-expression"
    PROVE  Earned'
  BY DEF Earned, OutcomeEarned, PassIsEvidence, PassIsWhole, MintedNeverCollides, ResetProven

LEMMA ReduceEarns ==
    ASSUME RunInv, Reduce
    PROVE  Earned'
<1>1. /\ stage = "issuing" /\ Len(answers) = Len(plan)
      /\ verdict' = ReducePreflight(observations)
      /\ UNCHANGED <<setting, dirty, answers, misanswers, observations>>
  BY DEF Reduce
<1>2. contract' = contract /\ defects' = defects /\ world' = world /\ plan' = plan
  BY <1>1 DEF contract, defects, world, plan
<1>3. Whole /\ ChangeShows
  BY <1>1, RefusedFor DEF RunInv, Staged, Whole, plan
<1>4. verdict'.fault # "malformed-operator-expression"
  BY <1>1 DEF ReducePreflight, Fault, NoVerdict
<1>5. verdict'.passed => EvidenceShown'
  <2>1. verdict'.passed => EvidenceShown
    BY <1>1, <1>3, PassShows
  <2>2. \A d : Own(d)' = Own(d)
    BY <1>2 DEF Own
  <2>3. EvidenceShown' <=> EvidenceShown
    BY <1>1, <1>2, <2>2 DEF EvidenceShown
  <2> QED BY <2>1, <2>3
<1>6. verdict'.passed => DeliveredWhole'
  <2>1. verdict'.passed => DeliveredWhole
    BY <1>1, <1>3, PassIsDelivered
  <2>2. \A i : OpOfLeg(i)' = OpOfLeg(i)
    BY <1>2 DEF OpOfLeg
  <2>3. DeliveredWhole' <=> DeliveredWhole
    BY <1>1, <1>2, <2>2 DEF DeliveredWhole
  <2> QED BY <2>1, <2>3
<1>7. OutcomeEarned'
  BY <1>4, <1>5, <1>6
     DEF OutcomeEarned, PassIsEvidence, PassIsWhole, MintedNeverCollides, EvidenceShown,
         DeliveredWhole
<1>8. ResetProven'
  <2>1. (verdict'.passed /\ Len(ControlLegs(contract, defects)) = 4 /\ world.mutates
            /\ world.sees /\ ~answers[Len(SensitivityLegs(contract)) + 1].state)
           => world.resets
    BY <1>1, <1>3, PassUndone
  <2> QED BY <1>1, <1>2, <2>1 DEF ResetProven
<1> QED BY <1>7, <1>8 DEF Earned

LEMMA StepEarns ==
    ASSUME RunInv, Earned, [Next]_vars
    PROVE  Earned'
<1>1. Staged /\ Kept
  BY DEF RunInv
<1>2. /\ ~NoVerdict.passed /\ NoVerdict.fault = "none"
      /\ \A code : ~Fault(code).passed /\ Fault(code).fault = code
  BY DEF Fault, NoVerdict
<1>3. CASE Parse
  <2> DEFINE fault == FirstFault(<<InputFault(setting.arrived.contract),
                                   ArrayFault(<<setting.arrived.probe>>)>>)
  <2>1. stage = "read" /\ (verdict' = verdict \/ verdict' = Fault(fault))
    BY <1>3 DEF Parse
  <2>2. fault # "malformed-operator-expression"
    BY ParseThrows
  <2> HIDE DEF fault
  <2>3. ~verdict'.passed /\ verdict'.fault # "malformed-operator-expression"
    BY <1>1, <1>2, <2>1, <2>2 DEF Staged
  <2> QED BY <2>3, NothingAfter
<1>4. CASE Plan
  <2>1. /\ stage = "parsed"
        /\ verdict' = verdict \/ verdict' = Fault(Refusal(contract, defects))
        /\ UNCHANGED setting
    BY <1>4 DEF Plan
  <2>2. contract' = contract /\ defects' = defects
    BY <2>1 DEF contract, defects
  <2>3. ~verdict'.passed
    BY <1>1, <1>2, <2>1 DEF Staged
  <2>4. verdict'.fault = "malformed-operator-expression"
           => Refusal(contract, defects) = "malformed-operator-expression"
    BY <1>1, <1>2, <2>1 DEF Staged
  <2>5. MintedNeverCollides'
    BY <1>1, <2>2, <2>4, RefusedByAuthor DEF MintedNeverCollides
  <2> QED BY <2>3, <2>5
          DEF Earned, OutcomeEarned, PassIsEvidence, PassIsWhole, ResetProven
<1>5. CASE Issue \/ Hand
  <2>1. stage = "issuing" /\ verdict' = verdict
    BY <1>5 DEF Issue, Hand
  <2>2. ~verdict'.passed /\ verdict'.fault # "malformed-operator-expression"
    BY <1>1, <1>2, <2>1 DEF Staged
  <2> QED BY <2>2, NothingAfter
<1>6. CASE IssueThrows
  <2>1. verdict' = Fault("port-fault")
    BY <1>6 DEF IssueThrows
  <2>2. ~verdict'.passed /\ verdict'.fault # "malformed-operator-expression"
    BY <1>2, <2>1
  <2> QED BY <2>2, NothingAfter
<1>7. CASE Reduce
  BY <1>7, ReduceEarns
<1>8. CASE UNCHANGED vars
  <2>1. UNCHANGED <<setting, answers, observations, verdict>>
    BY <1>8 DEF vars
  <2>2. contract' = contract /\ defects' = defects /\ world' = world /\ plan' = plan
    BY <2>1 DEF contract, defects, world, plan
  <2>3. (\A d : Own(d)' = Own(d)) /\ (\A i : OpOfLeg(i)' = OpOfLeg(i))
    BY <2>2 DEF Own, OpOfLeg
  <2>4. PassIsEvidence'
    BY <2>1, <2>2, <2>3 DEF Earned, OutcomeEarned, PassIsEvidence
  <2>5. PassIsWhole'
    BY <2>1, <2>2, <2>3 DEF Earned, OutcomeEarned, PassIsWhole
  <2>6. MintedNeverCollides'
    BY <2>1, <2>2 DEF Earned, OutcomeEarned, MintedNeverCollides
  <2>7. ResetProven'
    BY <2>1, <2>2 DEF Earned, ResetProven
  <2> QED BY <2>4, <2>5, <2>6, <2>7 DEF Earned, OutcomeEarned
<1> QED BY <1>3, <1>4, <1>5, <1>6, <1>7, <1>8 DEF Next

LEMMA EarnedAlways == Spec => []Earned
<1>1. Init => Earned
  <2> SUFFICES ASSUME Init PROVE Earned
    OBVIOUS
  <2>1. ~verdict.passed /\ verdict.fault # "malformed-operator-expression"
    BY DEF Init, NoVerdict
  <2> QED BY <2>1, NothingYet
<1>2. RunInv /\ Earned /\ [Next]_vars => Earned'
  BY StepEarns
<1> QED BY <1>1, <1>2, RunInvariant, PTL DEF Spec

(* A pass is earned by the evidence of each check over a delivery that is  *)
(* whole, and a plan is refused for a repeated name only if its author     *)
(* repeated one (reduce.ts, reducePreflight; plan.ts, mintLegId).          *)
THEOREM OutcomeEarnedHolds == Spec => []OutcomeEarned
<1>1. Earned => OutcomeEarned
  BY DEF Earned
<1> QED BY <1>1, EarnedAlways, PTL

(* A pass over a fixture that a control leg changed, seen by a read that   *)
(* shows it, means that the reset restored it (projection.ts,              *)
(* stateResetProjection).                                                  *)
THEOREM ResetProvenHolds == Spec => []ResetProven
<1>1. Earned => ResetProven
  BY DEF Earned
<1> QED BY <1>1, EarnedAlways, PTL

=============================================================================
