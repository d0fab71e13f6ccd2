--------------------------- MODULE Ensemble_proofs ---------------------------
(***************************************************************************)
(* What the ensemble promises, whatever the detectors, tiers, scores,       *)
(* thresholds and margins: stopping early is safe, and more evidence never *)
(* permits more.  Then the answers of the detectors are shown to be bounded *)
(* for every request, so that this holds of reviews, and what a review of a *)
(* known request promises, whatever the other detectors say: what taints an *)
(* action, a page that steers, stored text without its contract, disguised  *)
(* instructions and disguised commands are refused.                        *)
(***************************************************************************)
EXTENDS ActionReview, FiniteSetTheorems, SequenceTheorems, WellFoundedInduction, TLAPS

(* What the cascade relies on: it only stops on an objection.              *)
LEMMA SettledObjects ==
  ASSUME NEW done, NEW rep, Settled(done, rep)
  PROVE  Objectors(done, rep) # {}
BY DEF Settled, Objectors

(* An objection on the action plane is answered by a block or a human.      *)
LEMMA ObjectionHeard ==
  ASSUME NEW done, NEW rep, NEW source, Objectors(done, rep) # {}
  PROVE  ~Silent(Fuse(done, rep, source))
BY DEF Silent, Fuse, ActionBlocks

Returned ==
  phase = "returned" =>
    /\ verdict = Fuse(ran, report, provenance)
    /\ ran = Detector \/ Settled(ran, report)

LEMMA ReturnedInit == Init => Returned
BY DEF Init, Returned

LEMMA ReturnedNext == Returned /\ [Next]_vars => Returned'
<1> SUFFICES ASSUME Returned, [Next]_vars PROVE Returned'
  OBVIOUS
<1>1. CASE RunTier
  <2>1. UNCHANGED <<report, provenance>> /\ phase = "running"
    BY <1>1 DEF RunTier
  <2>2. PICK t \in Tiers :
          IF (cascade /\ Settled(ran', report)) \/ ran' = Detector
          THEN verdict' = Fuse(ran', report, provenance) /\ phase' = "returned"
          ELSE UNCHANGED <<verdict, phase>>
    BY <1>1 DEF RunTier
  <2>3. CASE (cascade /\ Settled(ran', report)) \/ ran' = Detector
    <3>1. verdict' = Fuse(ran', report, provenance)
      BY <2>2, <2>3
    <3>2. ran' = Detector \/ Settled(ran', report)
      BY <2>3
    <3>3. report' = report /\ provenance' = provenance
      BY <2>1
    <3> QED BY <3>1, <3>2, <3>3 DEF Returned
  <2>4. CASE ~((cascade /\ Settled(ran', report)) \/ ran' = Detector)
    BY <2>1, <2>2, <2>4 DEF Returned
  <2> QED BY <2>3, <2>4
<1>2. CASE DetectorRaises
  BY <1>2 DEF DetectorRaises, Returned
<1>3. CASE UNCHANGED vars
  BY <1>3 DEF vars, Returned
<1> QED BY <1>1, <1>2, <1>3 DEF Next

LEMMA ReturnedSound == Returned => SilentPermitSound
<1> SUFFICES ASSUME Returned, phase = "returned", Silent(verdict)
             PROVE  Silent(Full)
  BY DEF SilentPermitSound
<1>1. verdict = Fuse(ran, report, provenance)
  BY DEF Returned
<1>2. Objectors(ran, report) = {}
  BY <1>1, ObjectionHeard
<1>3. ran = Detector
  BY <1>2, SettledObjects DEF Returned
<1> QED BY <1>1, <1>3 DEF Full

(* A silent permit of the cascade is a silent permit of the full ensemble.  *)
THEOREM SilentPermit == Spec => []SilentPermitSound
BY ReturnedInit, ReturnedNext, ReturnedSound, PTL DEF Spec

(* The early allow is confined to actions a user asked for: with any other  *)
(* provenance, allowing needs every tier.                                  *)
OtherAllowNeedsAllTiers == provenance # "user" => AllowNeedsAllTiers

LEMMA OtherAllow == Returned => OtherAllowNeedsAllTiers
<1> SUFFICES ASSUME Returned, provenance # "user", phase = "returned", verdict.allow
             PROVE  ran = Detector
  BY DEF OtherAllowNeedsAllTiers, AllowNeedsAllTiers
<1>1. verdict = Fuse(ran, report, provenance)
  BY DEF Returned
<1>2. ~ActionBlocks(ran, report, provenance)
  BY <1>1 DEF Fuse
<1>3. Objectors(ran, report) = {}
  BY <1>2 DEF ActionBlocks, Softened
<1> QED BY <1>3, SettledObjects DEF Returned

THEOREM EarlyAllowNeedsUser == Spec => []OtherAllowNeedsAllTiers
BY ReturnedInit, ReturnedNext, OtherAllow, PTL DEF Spec

-----------------------------------------------------------------------------
(* The noisy-or: products over finite sets of signals.                      *)

Witness(S) == CHOOSE x \in S : TRUE

(* iter has the product of factor over each subset of S. *)
Multiplies(iter, factor, S) ==
  iter = [s \in SUBSET S |-> IF s = {} THEN 1 ELSE factor[Witness(s)] * iter[s \ {Witness(s)}]]

LEMMA AnyIn ==
  ASSUME NEW S, S # {}
  PROVE  Witness(S) \in S
BY DEF Witness

LEMMA ProductIterates ==
  ASSUME NEW S, NEW factor, DOMAIN factor = S, NEW g, Multiplies(g, factor, S)
  PROVE  \E iter : Multiplies(iter, factor, S) /\ Product(factor) = iter[S]
<1> DEFINE iter == CHOOSE h : Multiplies(h, factor, S)
<1>1. Multiplies(iter, factor, S)
  OBVIOUS
<1>2. Product(factor) = iter[S]
  BY DEF Product, FoldFunction, FoldFunctionOnSet, MapThenFoldSet, Multiplies, Witness
<1> QED BY <1>1, <1>2

(* Induction over the subsets of a finite set: some bad one has none below. *)
LEMMA SmallestSet ==
  ASSUME NEW S, IsFiniteSet(S), NEW Bad, Bad \subseteq SUBSET S, Bad # {}
  PROVE  \E s \in Bad : \A x \in s : s \ {x} \notin Bad
<1> DEFINE Size == {n \in Nat : \E s \in Bad : Cardinality(s) = n}
<1>1. ASSUME NEW s \in Bad
      PROVE  IsFiniteSet(s) /\ Cardinality(s) \in Nat
  <2>1. IsFiniteSet(s)
    BY FS_Subset
  <2> QED BY <2>1, FS_CardinalityType
<1>2. Size \subseteq Nat /\ \E n \in Size : TRUE
  BY <1>1
<1> HIDE DEF Size
<1>3. PICK n \in Size : \A m \in Size : ~(<<m, n>> \in OpToRel(<, Nat))
  BY <1>2, NatLessThanWellFounded, WFMin, Zenon
<1>4. PICK s \in Bad : Cardinality(s) = n
  BY <1>3 DEF Size
<1>5. ASSUME NEW x \in s, s \ {x} \in Bad
      PROVE  FALSE
  <2>1. IsFiniteSet(s \ {x}) /\ Cardinality(s \ {x}) = Cardinality(s) - 1
    BY <1>1, FS_RemoveElement
  <2>2. Cardinality(s \ {x}) \in Size /\ Cardinality(s \ {x}) \in Nat /\ n \in Nat
    BY <1>1, <1>2, <1>5 DEF Size
  <2>3. Cardinality(s \ {x}) < n
    BY <1>4, <2>1, <2>2
  <2>4. <<Cardinality(s \ {x}), n>> \in OpToRel(<, Nat)
    BY <2>2, <2>3 DEF OpToRel
  <2> QED BY <1>3, <2>2, <2>4
<1> QED BY <1>5

LEMMA MultipliesType ==
  ASSUME NEW S, IsFiniteSet(S), NEW factor \in [S -> Nat], NEW g, Multiplies(g, factor, S)
  PROVE  \A s \in SUBSET S : g[s] \in Nat
<1> DEFINE Bad == {s \in SUBSET S : g[s] \notin Nat}
<1> SUFFICES ASSUME Bad # {} PROVE FALSE
  OBVIOUS
<1>1. PICK s \in Bad : \A x \in s : s \ {x} \notin Bad
  BY SmallestSet
<1>2. g[s] = IF s = {} THEN 1 ELSE factor[Witness(s)] * g[s \ {Witness(s)}]
  BY <1>1 DEF Multiplies
<1>3. CASE s = {}
  BY <1>1, <1>2, <1>3
<1>4. CASE s # {}
  <2>1. Witness(s) \in s /\ factor[Witness(s)] \in Nat /\ s \ {Witness(s)} \in SUBSET S
    BY <1>1, <1>4, AnyIn
  <2>2. g[s \ {Witness(s)}] \in Nat
    BY <1>1, <2>1
  <2>3. \A a, b \in Nat : a * b \in Nat
    OBVIOUS
  <2> QED BY <1>1, <1>2, <1>4, <2>1, <2>2, <2>3
<1> QED BY <1>3, <1>4

LEMMA MultipliesSame ==
  ASSUME NEW S, IsFiniteSet(S), NEW T \in SUBSET S, NEW factor, NEW other,
         \A x \in T : other[x] = factor[x],
         NEW g, Multiplies(g, factor, S), NEW h, Multiplies(h, other, T)
  PROVE  \A s \in SUBSET T : h[s] = g[s]
<1> DEFINE Bad == {s \in SUBSET T : h[s] # g[s]}
<1> SUFFICES ASSUME Bad # {} PROVE FALSE
  OBVIOUS
<1>1. PICK s \in Bad : \A x \in s : s \ {x} \notin Bad
  BY SmallestSet, FS_Subset
<1>2. /\ g[s] = IF s = {} THEN 1 ELSE factor[Witness(s)] * g[s \ {Witness(s)}]
      /\ h[s] = IF s = {} THEN 1 ELSE other[Witness(s)] * h[s \ {Witness(s)}]
  BY <1>1 DEF Multiplies
<1>3. CASE s = {}
  BY <1>1, <1>2, <1>3
<1>4. CASE s # {}
  <2>1. Witness(s) \in s /\ s \ {Witness(s)} \in SUBSET T /\ other[Witness(s)] = factor[Witness(s)]
    BY <1>1, <1>4, AnyIn
  <2>2. h[s \ {Witness(s)}] = g[s \ {Witness(s)}]
    BY <1>1, <2>1
  <2> QED BY <1>1, <1>2, <1>4, <2>1, <2>2
<1> QED BY <1>3, <1>4

LEMMA TimesSwap ==
  ASSUME NEW a \in Nat, NEW b \in Nat, NEW c \in Nat
  PROVE  a * (b * c) = b * (a * c)
OBVIOUS

(* A product does not depend on the order in which the set is gone through. *)
LEMMA MultipliesTake ==
  ASSUME NEW S, IsFiniteSet(S), NEW factor \in [S -> Nat], NEW g, Multiplies(g, factor, S)
  PROVE  \A s \in SUBSET S : \A d \in s : g[s] = factor[d] * g[s \ {d}]
<1> DEFINE Bad == {s \in SUBSET S : \E d \in s : g[s] # factor[d] * g[s \ {d}]}
<1> SUFFICES ASSUME Bad # {} PROVE FALSE
  OBVIOUS
<1>1. PICK s \in Bad : \A x \in s : s \ {x} \notin Bad
  BY SmallestSet
<1>2. PICK d \in s : g[s] # factor[d] * g[s \ {d}]
  BY <1>1
<1> DEFINE x == Witness(s)
<1>3. x \in s /\ g[s] = factor[x] * g[s \ {x}]
  BY <1>1, <1>2, AnyIn DEF Multiplies
<1> HIDE DEF x
<1>4. d # x
  BY <1>2, <1>3
<1>5. g[s \ {x}] = factor[d] * g[(s \ {x}) \ {d}] /\ g[s \ {d}] = factor[x] * g[(s \ {d}) \ {x}]
  BY <1>1, <1>3, <1>4
<1>6. (s \ {x}) \ {d} = (s \ {d}) \ {x}
  OBVIOUS
<1>7. factor[d] \in Nat /\ factor[x] \in Nat /\ g[(s \ {x}) \ {d}] \in Nat
  BY <1>1, <1>3, MultipliesType
<1>8. factor[x] * (factor[d] * g[(s \ {x}) \ {d}]) = factor[d] * (factor[x] * g[(s \ {x}) \ {d}])
  BY <1>7, TimesSwap
<1>9. g[s] = factor[d] * g[s \ {d}]
  BY <1>3, <1>5, <1>6, <1>8
<1> QED BY <1>2, <1>9

(* The sets up to a size, and a function that multiplies over these.       *)
Level(S, n) == {s \in SUBSET S : Cardinality(s) <= n}

Obeys(g, factor, S, n) ==
  g = [s \in Level(S, n) |-> IF s = {} THEN 1 ELSE factor[Witness(s)] * g[s \ {Witness(s)}]]

LEMMA MultipliesUpTo ==
  ASSUME NEW S, IsFiniteSet(S), NEW factor, NEW n \in Nat, NEW h, Obeys(h, factor, S, n)
  PROVE  \E g : Obeys(g, factor, S, n + 1)
<1> DEFINE g == [s \in Level(S, n + 1) |-> IF s = {} THEN 1 ELSE factor[Witness(s)] * h[s \ {Witness(s)}]]
<1>1. ASSUME NEW s \in SUBSET S
      PROVE  IsFiniteSet(s) /\ Cardinality(s) \in Nat
  <2>1. IsFiniteSet(s)
    BY FS_Subset
  <2> QED BY <2>1, FS_CardinalityType
<1>2. ASSUME NEW s \in Level(S, n)
      PROVE  g[s] = h[s]
  <2>1. s \in Level(S, n + 1)
    BY <1>1 DEF Level
  <2>2. h[s] = IF s = {} THEN 1 ELSE factor[Witness(s)] * h[s \ {Witness(s)}]
    BY DEF Obeys
  <2> QED BY <2>1, <2>2
<1>3. ASSUME NEW s \in Level(S, n + 1), s # {}
      PROVE  g[s \ {Witness(s)}] = h[s \ {Witness(s)}]
  <2>1. Witness(s) \in s /\ IsFiniteSet(s) /\ Cardinality(s) \in Nat /\ Cardinality(s) <= n + 1
    BY <1>1, <1>3, AnyIn DEF Level
  <2>2. Cardinality(s \ {Witness(s)}) = Cardinality(s) - 1
    BY <2>1, FS_RemoveElement
  <2>3. s \ {Witness(s)} \in Level(S, n)
    BY <2>1, <2>2 DEF Level
  <2> QED BY <1>2, <2>3
<1>4. Obeys(g, factor, S, n + 1)
  <2>1. \A s \in Level(S, n + 1) : (IF s = {} THEN 1 ELSE factor[Witness(s)] * h[s \ {Witness(s)}])
                                = (IF s = {} THEN 1 ELSE factor[Witness(s)] * g[s \ {Witness(s)}])
    BY <1>3
  <2> QED BY <2>1 DEF Obeys
<1> QED BY <1>4

LEMMA MultipliesExists ==
  ASSUME NEW S, IsFiniteSet(S), NEW factor
  PROVE  \E g : Multiplies(g, factor, S)
<1> DEFINE Gap == {n \in Nat : ~ \E g : Obeys(g, factor, S, n)}
<1>1. ASSUME NEW s \in SUBSET S
      PROVE  /\ IsFiniteSet(s) /\ Cardinality(s) \in Nat
             /\ Cardinality(s) <= Cardinality(S) /\ (Cardinality(s) = 0 => s = {})
  <2>1. IsFiniteSet(s) /\ Cardinality(s) <= Cardinality(S)
    BY FS_Subset
  <2> QED BY <2>1, FS_CardinalityType, FS_EmptySet
<1>2. Gap = {}
  <2> SUFFICES ASSUME Gap # {} PROVE FALSE
    OBVIOUS
  <2>1. PICK n \in Gap : \A m \in Gap : ~(<<m, n>> \in OpToRel(<, Nat))
    BY NatLessThanWellFounded, WFMin, Zenon
  <2>2. n # 0
    <3>1. \A s \in Level(S, 0) : s = {}
      BY <1>1 DEF Level
    <3>2. Obeys([s \in Level(S, 0) |-> 1], factor, S, 0)
      BY <3>1 DEF Obeys
    <3> QED BY <3>2
  <2>3. n \in Nat /\ n - 1 \in Nat /\ (n - 1) + 1 = n
    BY <2>2
  <2>4. <<n - 1, n>> \in OpToRel(<, Nat)
    BY <2>3 DEF OpToRel
  <2>5. \E h : Obeys(h, factor, S, n - 1)
    BY <2>1, <2>3, <2>4
  <2>6. \E g : Obeys(g, factor, S, (n - 1) + 1)
    BY <2>3, <2>5, MultipliesUpTo
  <2> QED BY <2>3, <2>6
<1>3. Cardinality(S) \in Nat
  BY <1>1
<1>4. PICK g : Obeys(g, factor, S, Cardinality(S))
  BY <1>2, <1>3
<1>5. Level(S, Cardinality(S)) = SUBSET S
  BY <1>1 DEF Level
<1> QED BY <1>4, <1>5 DEF Multiplies, Obeys

LEMMA ProductFacts ==
  ASSUME NEW S, IsFiniteSet(S), NEW factor \in [S -> Nat]
  PROVE  /\ Product(factor) \in Nat
         /\ S = {} => Product(factor) = 1
         /\ \A d \in S : Product(factor) = factor[d] * Product([e \in S \ {d} |-> factor[e]])
<1>1. PICK g : Multiplies(g, factor, S) /\ Product(factor) = g[S]
  BY MultipliesExists, ProductIterates
<1>2. g[S] \in Nat
  BY <1>1, MultipliesType
<1>3. ASSUME NEW d \in S
      PROVE  Product([e \in S \ {d} |-> factor[e]]) = g[S \ {d}]
  <2> DEFINE T == S \ {d}
             other == [e \in T |-> factor[e]]
  <2>1. T \in SUBSET S /\ DOMAIN other = T /\ \A x \in T : other[x] = factor[x]
    OBVIOUS
  <2> HIDE DEF other, T
  <2>2. IsFiniteSet(T)
    BY <2>1, FS_Subset
  <2>3. PICK h : Multiplies(h, other, T) /\ Product(other) = h[T]
    BY <2>1, <2>2, MultipliesExists, ProductIterates
  <2>4. \A s \in SUBSET T : h[s] = g[s]
    BY <1>1, <2>1, <2>3, MultipliesSame
  <2>5. Product(other) = g[T]
    BY <2>3, <2>4
  <2> QED BY <2>5 DEF other, T
<1>4. \A d \in S : g[S] = factor[d] * g[S \ {d}]
  BY <1>1, MultipliesTake
<1>5. S = {} => g[S] = 1
  BY <1>1 DEF Multiplies
<1> QED BY <1>1, <1>2, <1>3, <1>4, <1>5

(* What a report may hold. *)
Scored(S, rep) == \A d \in S : rep[d].score \in 0 .. Unit

(* The noisy-or of S reaches limit. *)
Reaches(S, rep, limit) == Risk(S, rep) >= Parts(S, limit)

LEMMA NoisyOrType ==
  ASSUME NEW S, IsFiniteSet(S), NEW rep, Scored(S, rep)
  PROVE  Scale(S) \in Nat /\ Missed(S, rep) \in Nat
<1>1. [d \in S |-> Unit] \in [S -> Nat] /\ [d \in S |-> Unit - rep[d].score] \in [S -> Nat]
  BY UnitAssumption DEF Scored
<1> QED BY <1>1, ProductFacts DEF Scale, Missed

(* One more signal multiplies the scale by Unit, the missed part by less.   *)
LEMMA OneMoreSignal ==
  ASSUME NEW T, IsFiniteSet(T), NEW rep, Scored(T, rep), NEW d, d \in T
  PROVE  /\ Scale(T) = Unit * Scale(T \ {d})
         /\ Missed(T, rep) = (Unit - rep[d].score) * Missed(T \ {d}, rep)
<1> DEFINE unit == [e \in T |-> Unit]
           missed == [e \in T |-> Unit - rep[e].score]
<1>1. unit \in [T -> Nat] /\ missed \in [T -> Nat]
  BY UnitAssumption DEF Scored
<1>2. unit[d] = Unit /\ missed[d] = Unit - rep[d].score
  OBVIOUS
<1>3. /\ [e \in T \ {d} |-> unit[e]] = [e \in T \ {d} |-> Unit]
      /\ [e \in T \ {d} |-> missed[e]] = [e \in T \ {d} |-> Unit - rep[e].score]
  OBVIOUS
<1>4. Scale(T) = Product(unit) /\ Missed(T, rep) = Product(missed)
  BY DEF Scale, Missed
<1> HIDE DEF unit, missed
<1>5. \A e \in T : Product(unit) = unit[e] * Product([f \in T \ {e} |-> unit[f]])
  BY <1>1, ProductFacts
<1>6. \A e \in T : Product(missed) = missed[e] * Product([f \in T \ {e} |-> missed[f]])
  BY <1>1, ProductFacts
<1> QED BY <1>2, <1>3, <1>4, <1>5, <1>6 DEF Scale, Missed

LEMMA TimesMinus ==
  ASSUME NEW a \in Int, NEW b \in Int, NEW c \in Int
  PROVE  (a - b) * c = a * c - b * c
OBVIOUS

LEMMA TimesType ==
  ASSUME NEW a \in Int, NEW b \in Int
  PROVE  a * b \in Int
OBVIOUS

LEMMA TimesPositive ==
  ASSUME NEW a \in Nat, NEW b \in Nat
  PROVE  a * b > 0 <=> a > 0 /\ b > 0
OBVIOUS

LEMMA TimesGrows ==
  ASSUME NEW a \in Int, NEW b \in Int, NEW u \in Nat, a >= b
  PROVE  u * a >= u * b
OBVIOUS

LEMMA ScalePositive ==
  ASSUME NEW S, IsFiniteSet(S)
  PROVE  Scale(S) > 0
<1> DEFINE Bad == {s \in SUBSET S : ~(Scale(s) > 0)}
<1> SUFFICES ASSUME Bad # {} PROVE FALSE
  OBVIOUS
<1>1. PICK s \in Bad : \A x \in s : s \ {x} \notin Bad
  BY SmallestSet
<1>2. IsFiniteSet(s)
  BY <1>1, FS_Subset
<1> DEFINE unit == [d \in s |-> Unit]
<1>3. unit \in [s -> Nat] /\ Scale(s) = Product(unit)
  BY UnitAssumption DEF Scale
<1>4. ASSUME NEW x \in s
      PROVE  Scale(s) = Unit * Scale(s \ {x})
  <2>1. Product(unit) = unit[x] * Product([e \in s \ {x} |-> unit[e]])
    BY <1>2, <1>3, ProductFacts
  <2>2. [e \in s \ {x} |-> unit[e]] = [e \in s \ {x} |-> Unit]
    OBVIOUS
  <2> QED BY <1>3, <2>1, <2>2 DEF Scale
<1>5. s # {}
  <2>1. s = {} => Product(unit) = 1
    BY <1>2, <1>3, ProductFacts
  <2> QED BY <1>1, <1>3, <2>1
<1>6. PICK x \in s : TRUE
  BY <1>5
<1>7. Scale(s \ {x}) > 0 /\ Scale(s \ {x}) \in Nat
  <2>1. IsFiniteSet(s \ {x}) /\ s \ {x} \in SUBSET S
    BY <1>1, <1>2, FS_RemoveElement
  <2>2. [d \in s \ {x} |-> Unit] \in [s \ {x} -> Nat]
    BY UnitAssumption
  <2>3. Scale(s \ {x}) \in Nat
    BY <2>1, <2>2, ProductFacts DEF Scale
  <2> QED BY <1>1, <1>6, <2>1, <2>3
<1>8. Unit * Scale(s \ {x}) > 0
  <2>1. Unit \in Nat /\ Unit > 0
    BY UnitAssumption
  <2> QED BY <1>7, <2>1, TimesPositive
<1> QED BY <1>1, <1>4, <1>8

LEMMA NoisyOrGrows ==
  ASSUME NEW u \in Nat, NEW x \in Nat, NEW scale \in Nat, NEW missed \in Nat, NEW limit \in Int,
         u * (scale - missed) >= limit * scale
  PROVE  u * (u * scale - (u - x) * missed) >= limit * (u * scale)
<1> DEFINE risk == u * (scale - missed)
           part == limit * scale
<1>1. risk \in Int /\ part \in Int /\ risk >= part
  OBVIOUS
<1>2. u * scale - (u - x) * missed = risk + x * missed
  OBVIOUS
<1>3. limit * (u * scale) = u * part
  OBVIOUS
<1>4. x * missed \in Nat
  OBVIOUS
<1> HIDE DEF risk, part
<1>5. u * (risk + x * missed) >= u * part
  BY <1>1, <1>4, TimesGrows
<1> QED BY <1>2, <1>3, <1>5

LEMMA ReachesMore ==
  ASSUME NEW T, IsFiniteSet(T), NEW d \in T, NEW rep, Scored(T, rep), NEW limit \in Int,
         Reaches(T \ {d}, rep, limit)
  PROVE  Reaches(T, rep, limit)
<1>0. /\ Scale(T) = Unit * Scale(T \ {d})
      /\ Missed(T, rep) = (Unit - rep[d].score) * Missed(T \ {d}, rep)
  BY OneMoreSignal
<1> DEFINE S == T \ {d}
           scale == Scale(S)
           missed == Missed(S, rep)
           x == rep[d].score
<1>1. IsFiniteSet(S) /\ Scored(S, rep)
  BY FS_RemoveElement DEF Scored
<1>2. scale \in Nat /\ missed \in Nat
  BY <1>1, NoisyOrType
<1>3. x \in Nat /\ Unit \in Nat
  BY UnitAssumption DEF Scored
<1>4. Scale(T) = Unit * scale /\ Missed(T, rep) = (Unit - x) * missed
  BY <1>0
<1>5. Unit * (scale - missed) >= limit * scale
  BY DEF Reaches, Risk, Parts
<1> HIDE DEF scale, missed, x
<1>6. Unit * (Unit * scale - (Unit - x) * missed) >= limit * (Unit * scale)
  BY <1>2, <1>3, <1>5, NoisyOrGrows
<1> QED BY <1>4, <1>6 DEF Reaches, Risk, Parts

(* More signals, more risk: a limit once reached stays reached. *)
LEMMA ReachesSuperset ==
  ASSUME NEW T, IsFiniteSet(T), NEW S \in SUBSET T, NEW rep, Scored(T, rep), NEW limit \in Int,
         Reaches(S, rep, limit)
  PROVE  Reaches(T, rep, limit)
<1> DEFINE Bad == {s \in SUBSET (T \ S) : ~Reaches(S \cup s, rep, limit)}
<1>1. SUFFICES ASSUME Bad # {} PROVE FALSE
  <2>1. S \cup (T \ S) = T /\ T \ S \in SUBSET (T \ S)
    OBVIOUS
  <2> QED BY <2>1
<1>2. IsFiniteSet(T \ S)
  BY FS_Subset
<1>3. PICK s \in Bad : \A x \in s : s \ {x} \notin Bad
  BY <1>1, <1>2, SmallestSet
<1>4. PICK x \in s : TRUE
  <2>1. S \cup {} = S
    OBVIOUS
  <2> QED BY <1>3, <2>1
<1> DEFINE R == S \cup s
<1>5. Reaches(R \ {x}, rep, limit)
  <2>1. R \ {x} = S \cup (s \ {x})
    BY <1>3, <1>4
  <2> QED BY <1>3, <1>4, <2>1
<1>6. IsFiniteSet(R) /\ x \in R /\ Scored(R, rep)
  <2>1. R \subseteq T
    BY <1>3
  <2> QED BY <1>4, <2>1, FS_Subset DEF Scored
<1> HIDE DEF R
<1>7. Reaches(R, rep, limit)
  BY <1>5, <1>6, ReachesMore
<1> QED BY <1>3, <1>7 DEF R

-----------------------------------------------------------------------------
(* What one evaluation compares: the verdict of some of the detectors with  *)
(* the verdict of more of them.                                            *)

(* A signal's score is a weighted score. *)
Weighed(rep) == \A d \in Detector : rep[d] # NoSignal => rep[d].score \in 0 .. Unit

LEMMA SignalsGrow ==
  ASSUME NEW done \in SUBSET Detector, NEW part \in SUBSET done, NEW rep, Weighed(rep), NEW plane
  PROVE  /\ Signals(part, rep, plane) \in SUBSET Signals(done, rep, plane)
         /\ IsFiniteSet(Signals(done, rep, plane))
         /\ Scored(Signals(done, rep, plane), rep)
<1>1. Signals(done, rep, plane) \subseteq Detector
  BY DEF Signals
<1>2. IsFiniteSet(Signals(done, rep, plane))
  BY <1>1, DetectorAssumption, FS_Subset
<1> QED BY <1>2 DEF Signals, Scored, Weighed

LEMMA PlaneReaches ==
  ASSUME NEW done \in SUBSET Detector, NEW part \in SUBSET done, NEW rep, Weighed(rep),
         NEW plane, NEW limit \in Int, Reaches(Signals(part, rep, plane), rep, limit)
  PROVE  Reaches(Signals(done, rep, plane), rep, limit)
BY SignalsGrow, ReachesSuperset

LEMMA PlaneBlocksMore ==
  ASSUME NEW done \in SUBSET Detector, NEW part \in SUBSET done, NEW rep, Weighed(rep),
         NEW plane \in Planes, PlaneBlocks(part, rep, plane)
  PROVE  PlaneBlocks(done, rep, plane)
<1>1. Reaches(Signals(part, rep, plane), rep, threshold[plane]) /\ Signals(part, rep, plane) # {}
  BY DEF PlaneBlocks, Reaches
<1>2. threshold[plane] \in Int
  BY PolicyAssumption
<1>3. Reaches(Signals(done, rep, plane), rep, threshold[plane])
  BY <1>1, <1>2, PlaneReaches
<1>4. Signals(done, rep, plane) # {}
  BY <1>1, SignalsGrow
<1> QED BY <1>3, <1>4 DEF PlaneBlocks, Reaches

LEMMA ActionBlocksMore ==
  ASSUME NEW done, NEW part \in SUBSET done, NEW rep, NEW source, ActionBlocks(part, rep, source)
  PROVE  ActionBlocks(done, rep, source)
<1>1. Objectors(part, rep) \subseteq Objectors(done, rep)
  BY DEF Objectors, Signals
<1> QED BY <1>1 DEF ActionBlocks, Softened

(* A block stands, whatever other detectors say.                            *)
LEMMA MoreNeverUnblocks ==
  ASSUME NEW done \in SUBSET Detector, NEW part \in SUBSET done, NEW rep, Weighed(rep),
         NEW source, ~Fuse(part, rep, source).allow
  PROVE  ~Fuse(done, rep, source).allow
<1>1. "content" \in Planes /\ "integrity" \in Planes
  BY DEF Planes
<1>2. \/ PlaneBlocks(part, rep, "content")
      \/ PlaneBlocks(part, rep, "integrity")
      \/ ActionBlocks(part, rep, source)
  BY DEF Fuse
<1>3. \/ PlaneBlocks(done, rep, "content")
      \/ PlaneBlocks(done, rep, "integrity")
      \/ ActionBlocks(done, rep, source)
  BY <1>1, <1>2, PlaneBlocksMore, ActionBlocksMore
<1> QED BY <1>3 DEF Fuse

(* A plane near its threshold stays near it or goes over it.                *)
LEMMA BorderlineMore ==
  ASSUME NEW done \in SUBSET Detector, NEW part \in SUBSET done, NEW rep, Weighed(rep),
         NEW plane \in Planes, PlaneBorderline(part, rep, plane)
  PROVE  PlaneBlocks(done, rep, plane) \/ PlaneBorderline(done, rep, plane)
<1> DEFINE less == Signals(part, rep, plane)
           more == Signals(done, rep, plane)
           low == threshold[plane] - margin[plane]
<1>1. /\ IsFiniteSet(more) /\ Scored(more, rep)
      /\ IsFiniteSet(less) /\ Scored(less, rep)
  BY SignalsGrow, PolicyAssumption
<1>2. threshold[plane] \in Nat /\ margin[plane] \in Nat
  BY PolicyAssumption
<1>3. less # {} /\ more # {}
  BY SignalsGrow DEF PlaneBorderline
<1>4. /\ Scale(less) \in Nat /\ Missed(less, rep) \in Nat
      /\ Scale(more) \in Nat /\ Missed(more, rep) \in Nat
  BY <1>1, NoisyOrType
<1>5. Parts(less, margin[plane]) > 0 /\ Risk(less, rep) >= Parts(less, threshold[plane]) - Parts(less, margin[plane])
  BY DEF PlaneBorderline, Near
<1>6. Reaches(less, rep, low)
  <2>1. Parts(less, low) = Parts(less, threshold[plane]) - Parts(less, margin[plane])
    BY <1>2, <1>4, TimesMinus DEF Parts
  <2> QED BY <1>5, <2>1 DEF Reaches
<1>7. Reaches(more, rep, low)
  <2>1. low \in Int
    BY <1>2
  <2> QED BY <1>6, <2>1, PlaneReaches
<1>8. Risk(more, rep) >= Parts(more, threshold[plane]) - Parts(more, margin[plane])
  <2>1. Parts(more, low) = Parts(more, threshold[plane]) - Parts(more, margin[plane])
    BY <1>2, <1>4, TimesMinus DEF Parts
  <2> QED BY <1>7, <2>1 DEF Reaches
<1>9. Parts(more, margin[plane]) > 0
  <2>1. margin[plane] > 0
    BY <1>2, <1>4, <1>5, TimesPositive DEF Parts
  <2>2. Scale(more) > 0
    BY <1>1, ScalePositive
  <2> QED BY <1>2, <1>4, <2>1, <2>2, TimesPositive DEF Parts
<1>10. CASE ~PlaneBlocks(done, rep, plane)
  <2>1. ~(Risk(more, rep) >= Parts(more, threshold[plane]))
    BY <1>3, <1>10 DEF PlaneBlocks
  <2>2. Risk(more, rep) \in Int /\ Parts(more, threshold[plane]) \in Int /\ Parts(more, margin[plane]) \in Int
    BY <1>2, <1>4, UnitAssumption, TimesType DEF Risk, Parts
  <2>3. Near(Risk(more, rep), Parts(more, threshold[plane]), Parts(more, margin[plane]))
    BY <1>8, <1>9, <2>1, <2>2 DEF Near
  <2> QED BY <1>3, <1>10, <2>3 DEF PlaneBorderline
<1> QED BY <1>10

(* One report fewer: what it did not permit, or not without a human, the     *)
(* whole does not permit either.                                           *)
LEMMA MoreNeverSilences ==
  ASSUME NEW done \in SUBSET Detector, NEW part \in SUBSET done, NEW rep, Weighed(rep),
         NEW source, ~Silent(Fuse(part, rep, source))
  PROVE  ~Silent(Fuse(done, rep, source))
<1> SUFFICES ASSUME Silent(Fuse(done, rep, source)) PROVE FALSE
  OBVIOUS
<1>1. Objectors(done, rep) = {}
  BY ObjectionHeard
<1>2. Objectors(part, rep) = {}
  BY <1>1 DEF Objectors, Signals
<1>3. Fuse(part, rep, source).allow
  BY MoreNeverUnblocks DEF Silent
<1>4. Fuse(part, rep, source).requires_human
  BY <1>3 DEF Silent
<1>5. \/ PlaneBorderline(part, rep, "content")
      \/ PlaneBorderline(part, rep, "integrity")
      \/ ActionBorderline(part, rep)
  BY <1>2, <1>4 DEF Fuse, ActionBlocks
<1>6. "content" \in Planes /\ "integrity" \in Planes
  BY DEF Planes
<1>7. ~ \E plane \in {"content", "integrity"} :
          PlaneBlocks(done, rep, plane) \/ PlaneBorderline(done, rep, plane)
  BY DEF Silent, Fuse
<1>8. ~ActionBorderline(done, rep)
  BY DEF Silent, Fuse
<1>9. ActionBorderline(part, rep)
  BY <1>5, <1>6, <1>7, BorderlineMore
<1> QED BY <1>1, <1>8, <1>9 DEF ActionBorderline, Signals

-----------------------------------------------------------------------------
Evidence == Weighed(report) /\ ran \in SUBSET Detector

LEMMA EvidenceInit == Init => Evidence
<1> SUFFICES ASSUME Init PROVE Evidence
  OBVIOUS
<1>1. PICK action \in [ActionDetectors -> Signal \cup {NoSignal}],
           other \in [Detector \ ActionDetectors -> ScoreSignal \cup {NoSignal}] :
             report = [d \in Detector |-> IF d \in ActionDetectors THEN action[d] ELSE other[d]]
  BY DEF Init
<1>2. ASSUME NEW signal \in Signal \cup ScoreSignal
      PROVE  signal.score \in 0 .. Unit
  BY ScoreAssumption DEF Signal, ScoreSignal
<1>3. ASSUME NEW d \in Detector, report[d] # NoSignal
      PROVE  report[d] \in Signal \cup ScoreSignal
  BY <1>1, <1>3
<1> QED BY <1>2, <1>3 DEF Evidence, Weighed, Init

LEMMA EvidenceNext == Evidence /\ [Next]_vars => Evidence'
BY DEF Evidence, Weighed, Next, RunTier, DetectorRaises, vars

LEMMA EvidenceDecides == Returned /\ Evidence => BlockStands /\ EvidenceMonotone
<1> SUFFICES ASSUME Returned, Evidence, phase = "returned"
             PROVE  /\ ~verdict.allow => ~Full.allow
                    /\ \A d \in ran : Rank(verdict) <= Rank(Fuse(ran \ {d}, report, provenance))
  BY DEF BlockStands, EvidenceMonotone
<1>1. verdict = Fuse(ran, report, provenance)
  BY DEF Returned
<1>2. Weighed(report) /\ ran \in SUBSET Detector
  BY DEF Evidence
<1>3. ASSUME ~verdict.allow
      PROVE  ~Full.allow
  <2>1. Detector \in SUBSET Detector
    OBVIOUS
  <2> QED BY <1>1, <1>2, <1>3, <2>1, MoreNeverUnblocks DEF Full
<1>4. ASSUME NEW d \in ran
      PROVE  Rank(verdict) <= Rank(Fuse(ran \ {d}, report, provenance))
  <2>1. ran \ {d} \in SUBSET ran
    OBVIOUS
  <2>2. ~Fuse(ran \ {d}, report, provenance).allow => ~verdict.allow
    BY <1>1, <1>2, <2>1, MoreNeverUnblocks
  <2>3. ~Silent(Fuse(ran \ {d}, report, provenance)) => ~Silent(verdict)
    BY <1>1, <1>2, <2>1, MoreNeverSilences
  <2> QED BY <2>2, <2>3 DEF Rank, Silent
<1> QED BY <1>3, <1>4

LEMMA TypesNext == TypeOK /\ [Next]_vars => TypeOK'
<1> SUFFICES ASSUME TypeOK, [Next]_vars PROVE TypeOK'
  OBVIOUS
<1> USE DEF TypeOK
<1>1. \A done, rep, source : Fuse(done, rep, source) \in Verdict
  BY DEF Fuse, Verdict
<1>2. CASE RunTier
  <2>1. UNCHANGED <<report, provenance, cascade>> /\ ran' \subseteq Detector
    BY <1>2 DEF RunTier
  <2>2. \/ verdict' = Fuse(ran', report, provenance) /\ phase' = "returned"
        \/ UNCHANGED <<verdict, phase>>
    BY <1>2 DEF RunTier
  <2>3. verdict' \in Verdict \cup {NoVerdict} /\ (phase' = "returned" => verdict' \in Verdict)
    BY <1>1, <2>2
  <2>4. phase' \in {"running", "returned", "raised"}
    BY <2>2
  <2> QED BY <2>1, <2>3, <2>4
<1>3. CASE DetectorRaises
  BY <1>3 DEF DetectorRaises
<1>4. CASE UNCHANGED vars
  BY <1>4 DEF vars
<1> QED BY <1>2, <1>3, <1>4 DEF Next

(* Every evaluation that returns returns a verdict, and types are kept.     *)
THEOREM EnsembleTypeCorrect == Spec => []TypeOK
<1>1. Init => TypeOK
  <2> SUFFICES ASSUME Init PROVE TypeOK
    OBVIOUS
  <2>1. PICK action \in [ActionDetectors -> Signal \cup {NoSignal}],
             other \in [Detector \ ActionDetectors -> ScoreSignal \cup {NoSignal}] :
               report = [d \in Detector |-> IF d \in ActionDetectors THEN action[d] ELSE other[d]]
    BY DEF Init
  <2>2. \A d \in Detector :
          report[d] \in (IF d \in ActionDetectors THEN Signal ELSE ScoreSignal) \cup {NoSignal}
    BY <2>1
  <2>3. /\ provenance \in {"user", "other"} /\ cascade \in BOOLEAN /\ ran = {}
        /\ verdict = NoVerdict /\ phase = "running"
    BY DEF Init
  <2> QED BY <2>2, <2>3 DEF TypeOK
<1> QED BY <1>1, TypesNext, PTL DEF Spec

(* Stopping early never blocks what the full ensemble would have let pass:  *)
(* a plane's noisy-or only grows with each further signal.                 *)
THEOREM EarlyBlockStands == Spec => []BlockStands
BY ReturnedInit, ReturnedNext, EvidenceInit, EvidenceNext, EvidenceDecides, PTL DEF Spec

(* One more report never makes the verdict more permissive.                 *)
THEOREM MoreEvidenceNeverPermits == Spec => []EvidenceMonotone
BY ReturnedInit, ReturnedNext, EvidenceInit, EvidenceNext, EvidenceDecides, PTL DEF Spec

-----------------------------------------------------------------------------
(* Requests of which everything is known.  The detectors of the lowest tier *)
(* always run, and what each detector reports is its answer.                *)
FirstTier == {d \in Detector : \A e \in Detector : Tier[d] <= Tier[e]}

Heard ==
  /\ phase = "returned" => FirstTier \subseteq ran
  /\ request # NoRequest =>
       /\ provenance = IF request.provenance = "user" THEN "user" ELSE "other"
       /\ request \in Requests
       /\ \A d \in Detector : report[d] = Reported(d, Answer(d))

LEMMA HeardInit == ReviewInit => Heard
BY DEF ReviewInit, Heard

LEMMA HeardNext == Heard /\ [ReviewNext]_reviewVars => Heard'
<1> SUFFICES ASSUME Heard, [ReviewNext]_reviewVars PROVE Heard'
  OBVIOUS
<1>1. UNCHANGED <<request, report, provenance>>
  BY DEF ReviewNext, Next, RunTier, DetectorRaises, reviewVars, vars
<1>2. \A d : Answer(d)' = Answer(d)
  BY <1>1 DEF Answer
<1>3. request' # NoRequest =>
        /\ provenance' = IF request'.provenance = "user" THEN "user" ELSE "other"
        /\ request' \in Requests
        /\ \A d \in Detector : report'[d] = Reported(d, Answer(d)')
  BY <1>1, <1>2 DEF Heard
<1>4. phase' = "returned" => FirstTier \subseteq ran'
  <2>1. CASE RunTier
    <3>1. PICK t \in Tiers :
            /\ \A d \in Detector : Tier[d] < t <=> d \in ran
            /\ ran' = ran \cup {d \in Detector : Tier[d] = t}
      BY <2>1 DEF RunTier
    <3>2. ASSUME NEW d \in FirstTier
          PROVE  d \in ran'
      <4>1. PICK e \in Detector : t = Tier[e]
        BY DEF Tiers
      <4>2. Tier[d] \in Nat /\ t \in Nat /\ Tier[d] <= t /\ d \in Detector
        BY <4>1, DetectorAssumption DEF FirstTier
      <4>3. Tier[d] < t \/ Tier[d] = t
        BY <4>2
      <4> QED BY <3>1, <4>2, <4>3
    <3> QED BY <3>2
  <2>2. CASE DetectorRaises
    BY <2>2 DEF DetectorRaises
  <2>3. CASE UNCHANGED reviewVars
    BY <2>3 DEF reviewVars, vars, Heard
  <2> QED BY <2>1, <2>2, <2>3 DEF ReviewNext, Next
<1> QED BY <1>3, <1>4 DEF Heard

LEMMA ReviewReturned ==
  /\ ReviewInit => Returned
  /\ Returned /\ [ReviewNext]_reviewVars => Returned'
<1>1. ReviewInit => Returned
  BY DEF ReviewInit, Returned
<1>2. [ReviewNext]_reviewVars => [Next]_vars
  BY DEF ReviewNext, reviewVars
<1> QED BY <1>1, <1>2, ReturnedNext

(* A detector of the action plane whose score, where it raises one, is that *)
(* high at least, and which the thresholds of the policy let object.       *)
Objects(d, score) ==
  d \in Detector /\ Plane[d] = "action" /\ threshold["action"] <= score

(* An answer that objects is an objector, of the kind of its type.          *)
LEMMA AnswerObjects ==
  ASSUME Heard, request # NoRequest, NEW d \in ran, NEW score \in Nat, Objects(d, score),
         Answer(d).score \in Nat, Answer(d).score >= score
  PROVE  d \in Objectors(ran, report) /\ report[d].kind = KindOf(Answer(d).type)
<1>1. Answer(d) # Silence
  BY DEF Silence, Raise
<1>2. report[d] = [score |-> Answer(d).score, severity |-> Answer(d).severity,
                   kind |-> KindOf(Answer(d).type)]
  BY <1>1 DEF Heard, Objects, Reported
<1>3. report[d] # NoSignal /\ threshold["action"] \in Nat
  BY <1>2, PolicyAssumption DEF NoSignal, Planes
<1> QED BY <1>2, <1>3 DEF Objectors, Signals, Objects

(* Checks that return early: some check no later than one that holds answers.*)
LEMMA EarlierAnswers ==
  ASSUME NEW checks, DOMAIN checks \subseteq Nat, NEW j \in DOMAIN checks, checks[j][1]
  PROVE  \E i \in DOMAIN checks : i <= j /\ FirstOf(checks) = checks[i][2]
<1> DEFINE hits == {i \in DOMAIN checks : checks[i][1]}
<1>1. hits \subseteq Nat /\ \E n \in hits : TRUE
  OBVIOUS
<1>2. PICK m \in hits : \A x \in hits : ~(<<x, m>> \in OpToRel(<, Nat))
  <2> HIDE DEF hits
  <2> QED BY <1>1, NatLessThanWellFounded, WFMin, Zenon
<1>3. \A x \in hits : m <= x
  <2> TAKE x \in hits
  <2>1. ~(x < m)
    BY <1>2, Zenon DEF OpToRel
  <2> QED BY <1>1, <2>1
<1>4. Min(hits) \in hits /\ \A x \in hits : Min(hits) <= x
  BY <1>3 DEF Min
<1>5. FirstOf(checks) = checks[Min(hits)][2] /\ j \in hits
  BY DEF FirstOf
<1> QED BY <1>4, <1>5

(* A taint that is heard is never softened: the action is blocked.          *)
LEMMA TaintBlocks ==
  ASSUME NEW done, NEW rep, NEW source, NEW d \in Objectors(done, rep), rep[d].kind = "taint"
  PROVE  ~Fuse(done, rep, source).allow
<1>1. ~Softened(done, rep, source)
  BY DEF Softened
<1> QED BY <1>1 DEF Fuse, ActionBlocks

(* What untrusted content asks for is blocked, wherever the detector is in   *)
(* the cascade: an earlier objection that stops it is not the user's own,    *)
(* and nothing else is softened (ensemble.py:27, fusion.py:343).            *)
THEOREM TaintedActionsBlocked ==
  ASSUME Objects("origin_taint", 60)
  PROVE  ReviewSpec => []TaintNeverAllowed
<1>1. Returned /\ Heard => TaintNeverAllowed
  <2> SUFFICES ASSUME Returned, Heard, Known, request.action # {},
                      request.provenance \in UntrustedOrigins
               PROVE  ~verdict.allow
    BY DEF TaintNeverAllowed
  <2>1. provenance = "other"
    BY DEF Heard, Known, UntrustedOrigins
  <2>2. Objectors(ran, report) # {}
    <3>1. CASE ran = Detector
      <4>1. Answer("origin_taint") = OriginTaint(request)
        BY DEF Answer
      <4>2. Answer("origin_taint").score \in Nat /\ Answer("origin_taint").score >= 60
        BY <4>1 DEF OriginTaint, Raise
      <4> QED BY <3>1, <4>2, AnswerObjects DEF Objects, Known
    <3>2. CASE Settled(ran, report)
      BY <3>2, SettledObjects
    <3> QED BY <3>1, <3>2 DEF Returned, Known
  <2>3. ActionBlocks(ran, report, provenance)
    BY <2>1, <2>2 DEF ActionBlocks, Softened
  <2>4. verdict = Fuse(ran, report, provenance)
    BY DEF Returned, Known
  <2> QED BY <2>3, <2>4 DEF Fuse
<1> QED BY <1>1, HeardInit, HeardNext, ReviewReturned, PTL DEF ReviewSpec

BrowserTaints ==
  {"browser_prompt_injection", "browser_malicious_iframe", "browser_popup_hijack",
   "browser_clipboard_exfiltration", "browser_unsafe_download", "browser_cross_site_task_drift"}

(* No type is both softened never and a taint. *)
LEMMA TaintsAreTaint ==
  ASSUME NEW type \in BrowserTaints \cup {"memory_poisoning"}
  PROVE  KindOf(type) = "taint"
<1>1. type \in TaintTypes /\ type \notin NeverSoftenTypes
  BY DEF BrowserTaints, TaintTypes, NeverSoftenTypes
<1> QED BY <1>1, Zenon DEF KindOf

(* The risks of a page all taint, and are all looked at before the site.     *)
LEMMA PageTaints ==
  ASSUME NEW browser, NEW action, NEW j \in 1 .. 6, PageRisks(browser, action)[j][1]
  PROVE  BrowserSignal(browser, action).score = 82
         /\ KindOf(BrowserSignal(browser, action).type) = "taint"
<1> DEFINE risks == PageRisks(browser, action)
           checks == Append(risks, SensitiveSite(browser, action))
<1>1. DOMAIN risks = 1 .. 6 /\ Len(risks) = 6
      /\ \A i \in 1 .. 6 : risks[i][2].score = 82 /\ KindOf(risks[i][2].type) = "taint"
  <2>1. /\ DOMAIN risks = 1 .. 6 /\ Len(risks) = 6
        /\ \A i \in 1 .. 6 : risks[i][2].score = 82 /\ risks[i][2].type \in BrowserTaints
    BY DEF PageRisks, BrowserRisk, Raise, BrowserTaints
  <2> HIDE DEF risks
  <2> QED BY <2>1, TaintsAreTaint DEF BrowserTaints
<1>2. DOMAIN checks = 1 .. 7 /\ \A i \in 1 .. 6 : checks[i] = risks[i]
  BY DEF PageRisks
<1>3. BrowserSignal(browser, action) = FirstOf(checks) /\ risks[j][1]
  BY DEF BrowserSignal
<1> HIDE DEF risks, checks
<1>4. PICK i \in DOMAIN checks : i <= j /\ FirstOf(checks) = checks[i][2]
  <2>1. DOMAIN checks \subseteq Nat /\ j \in DOMAIN checks /\ checks[j][1]
    BY <1>2, <1>3
  <2> QED BY <2>1, EarlierAnswers
<1>5. i \in 1 .. 6
  BY <1>2, <1>4
<1> QED BY <1>1, <1>2, <1>3, <1>4, <1>5

(* What a page steers an action to is blocked also where the user asked for  *)
(* it, since the detector is among those that always run (browser.py:219).  *)
THEOREM PagesNeverSteer ==
  ASSUME Objects("browser_action", 82), "browser_action" \in FirstTier
  PROVE  ReviewSpec => []PageNeverSteers
<1>1. Returned /\ Heard => PageNeverSteers
  <2> DEFINE browser == request.browser[1]
             crosses == CrossOrigin(browser.page_origin, browser.target)
  <2> SUFFICES ASSUME Returned, Heard, Known, request.browser # <<>>,
                      \/ "injection" \in browser.hidden_text
                      \/ "hijack" \in browser.visible_text
                      \/ crosses /\ (browser.form_fields # {} \/ browser.clipboard # Blank)
               PROVE  ~verdict.allow
    BY DEF PageNeverSteers
  <2>1. \E j \in 1 .. 6 : PageRisks(browser, request.action)[j][1]
    <3> DEFINE risks == PageRisks(browser, request.action)
    <3>1. /\ risks[1][1] = ("injection" \in browser.hidden_text)
          /\ risks[3][1] = ("hijack" \in browser.visible_text \cup browser.selected_element)
          /\ risks[4][1] = (browser.clipboard # Blank /\ crosses)
          /\ risks[6][1] = (browser.form_fields # {} /\ crosses)
      BY DEF PageRisks
    <3> HIDE DEF risks, browser
    <3>2. risks[1][1] \/ risks[3][1] \/ risks[4][1] \/ risks[6][1]
      BY <3>1
    <3> QED BY <3>2 DEF risks
  <2>2. Answer("browser_action") = BrowserSignal(browser, request.action)
    BY DEF Answer, Browser
  <2> HIDE DEF browser
  <2>3. Answer("browser_action").score = 82 /\ KindOf(Answer("browser_action").type) = "taint"
    BY <2>1, <2>2, PageTaints
  <2>4. "browser_action" \in Objectors(ran, report) /\ report["browser_action"].kind = "taint"
    <3>1. "browser_action" \in ran
      BY DEF Heard, Known
    <3> QED BY <2>3, <3>1, AnswerObjects DEF Known
  <2>5. verdict = Fuse(ran, report, provenance)
    BY DEF Returned, Known
  <2> QED BY <2>4, <2>5, TaintBlocks
<1> QED BY <1>1, HeardInit, HeardNext, ReviewReturned, PTL DEF ReviewSpec

(* An action that stored text has a part in is allowed only under a contract *)
(* that is signed, the tenant's, not expired, made for this retrieval and of *)
(* a trusted tier (memory.py:102), and if the text is not from an untrusted *)
(* source (memory.py:260).                                                  *)
THEOREM MemoryNeedsContract ==
  ASSUME Objects("memory_threat", 88), "memory_threat" \in FirstTier
  PROVE  ReviewSpec => []MemoryUnderContract
<1>1. Returned /\ Heard => MemoryUnderContract
  <2> DEFINE context == request.memory[1]
             contract == context.contract
             sound == IsValidFor(contract, context) /\ context.memory_source \notin UntrustedOrigins
  <2>1. ASSUME Returned, Heard, Known, request.memory # <<>>, verdict.allow, ~sound
        PROVE  FALSE
    <3>1. Answer("memory_threat") = Threat("memory_poisoning")
      <4> DEFINE carried == context.memory_text \cup context.plan.retrieved_context
                 checks ==
                   << <<~IsValidFor(context.contract, context), Threat("memory_poisoning")>>,
                      <<context.memory_source \in UntrustedOrigins, Threat("memory_poisoning")>>,
                      <<StaleSchema(context), Threat("stale_tool_schema")>>,
                      <<"persistent" \in context.memory_text,
                        Threat("persistent_instruction_injection")>>,
                      <<{"delayed", "mutating"} \subseteq carried,
                        Threat("delayed_malicious_objective")>>,
                      <<PlanDrift(context, request), Threat("task_plan_drift")>> >>
      <4>1. Answer("memory_threat") = FirstOf(checks)
        BY <2>1 DEF Answer, MemoryThreat, MemorySignal
      <4>2. /\ DOMAIN checks = 1 .. 6 /\ DOMAIN checks \subseteq Nat
            /\ checks[1][1] = ~IsValidFor(contract, context)
            /\ checks[2][1] = (context.memory_source \in UntrustedOrigins)
            /\ checks[1][2] = Threat("memory_poisoning")
            /\ checks[2][2] = Threat("memory_poisoning")
        OBVIOUS
      <4>3. checks[1][1] \/ checks[2][1]
        BY <2>1, <4>2, Zenon
      <4> HIDE DEF checks
      <4>4. PICK j \in {1, 2} : checks[j][1]
        BY <4>3
      <4>5. PICK i \in DOMAIN checks : i <= j /\ FirstOf(checks) = checks[i][2]
        <5>1. j \in DOMAIN checks
          BY <4>2
        <5> QED BY <4>2, <4>4, <5>1, EarlierAnswers
      <4>6. i = 1 \/ i = 2
        BY <4>2, <4>5
      <4> QED BY <4>1, <4>2, <4>5, <4>6
    <3>2. /\ Answer("memory_threat").score = 88
          /\ KindOf(Answer("memory_threat").type) = "taint"
      <4>1. Threat("memory_poisoning").score = 88 /\ Threat("memory_poisoning").type = "memory_poisoning"
        BY DEF Threat, Raise
      <4> QED BY <3>1, <4>1, TaintsAreTaint
    <3>3. "memory_threat" \in ran
      BY <2>1 DEF Heard, Known
    <3>4. "memory_threat" \in Objectors(ran, report) /\ report["memory_threat"].kind = "taint"
      BY <2>1, <3>2, <3>3, AnswerObjects DEF Known
    <3>5. verdict = Fuse(ran, report, provenance)
      BY <2>1 DEF Returned, Known
    <3> QED BY <2>1, <3>4, <3>5, TaintBlocks
  <2>2. ASSUME Heard, Known, request.memory # <<>>, sound
        PROVE    /\ contract.digest = "of_terms"
                 /\ contract.tenant = context.tenant
                 /\ contract.expires_at = 0 \/ context.now = 0 \/ context.now <= contract.expires_at
                 /\ context.retrieval_context \in contract.contexts
                 /\ contract.tier \in {"trusted", "curated", "operator"}
                 /\ context.memory_source \notin UntrustedOrigins
    <3>1. context.now \in Int /\ contract.expires_at \in Int
      BY <2>2, RequestAssumption DEF Heard, Known
    <3> QED BY <2>2, <3>1 DEF IsValidFor, Admits, TrustedTiers
  <2> QED BY <2>1, <2>2 DEF MemoryUnderContract
<1> QED BY <1>1, HeardInit, HeardNext, ReviewReturned, PTL DEF ReviewSpec

-----------------------------------------------------------------------------
(* What the detectors answer.  DetectorSignal refuses a score outside the    *)
(* unit (signal.py:136), and evaluate would raise: no answer that the        *)
(* detectors compute is of that kind.                                      *)
Bounded(signal) ==
  signal = Silence \/ (signal.score \in 0 .. 100 /\ signal.severity \in 1 .. 4)

LEMMA RaiseBounded ==
  ASSUME NEW type, NEW score \in 0 .. 100, NEW severity \in 1 .. 4
  PROVE  Bounded(Raise(type, score, severity))
BY DEF Bounded, Raise

LEMMA SeverityValues ==
  /\ Severity.INFO = 0 /\ Severity.LOW = 1 /\ Severity.MEDIUM = 2
  /\ Severity.HIGH = 3 /\ Severity.CRITICAL = 4
BY DEF Severity

LEMMA SilenceBounded == Bounded(Silence)
BY DEF Bounded

(* Of checks that return early, the answer is that of one of them. *)
LEMMA FirstBounded ==
  ASSUME NEW checks, DOMAIN checks \subseteq Nat, \A i \in DOMAIN checks : Bounded(checks[i][2])
  PROVE  Bounded(FirstOf(checks))
<1>1. CASE \E j \in DOMAIN checks : checks[j][1]
  <2>1. PICK j \in DOMAIN checks : checks[j][1]
    BY <1>1
  <2>2. \E i \in DOMAIN checks : i <= j /\ FirstOf(checks) = checks[i][2]
    BY <2>1, EarlierAnswers
  <2> QED BY <2>2
<1>2. CASE ~ \E j \in DOMAIN checks : checks[j][1]
  <2>1. {i \in DOMAIN checks : checks[i][1]} = {}
    BY <1>2
  <2>2. FirstOf(checks) = Silence
    BY <2>1 DEF FirstOf
  <2> QED BY <2>2, SilenceBounded
<1> QED BY <1>1, <1>2

LEMMA TaintBounded == Bounded(OriginTaint(request))
BY RaiseBounded, SeverityValues, SilenceBounded DEF OriginTaint

(* The four weights add up to the unit. *)
LEMMA BlastBounded == Bounded(BlastRadiusSignal(request))
<1> DEFINE action == request.action \ request.printed
           risk == BlastRisk(action)
<1>1. risk \in 0 .. 100
  BY DEF BlastRisk, BlastWeight
<1>2. BlastRadiusSignal(request) =
        IF "irreversible" \in action /\ action \cap {"system_target", "production"} # {}
        THEN Raise("blast_radius", risk, IF risk >= 80 THEN Severity.CRITICAL ELSE Severity.HIGH)
        ELSE Silence
  BY DEF BlastRadiusSignal
<1> HIDE DEF risk, action
<1>3. (IF risk >= 80 THEN Severity.CRITICAL ELSE Severity.HIGH) \in 1 .. 4
  BY SeverityValues
<1>4. Bounded(Raise("blast_radius", risk, IF risk >= 80 THEN Severity.CRITICAL ELSE Severity.HIGH))
  BY <1>1, <1>3, RaiseBounded
<1> QED BY <1>2, <1>4, SilenceBounded

LEMMA ReversibilityBounded == Bounded(Reversibility(request))
<1> DEFINE evidence == request.evidence
           severity == IrreversibleSeverity(request.action)
           checks ==
             << <<evidence \cap RawArtifacts # {},
                  Unbacked(Severity.HIGH, "raw_reversibility_artifact")>>,
                <<severity = Severity.INFO, Silence>>,
                <<~({"snapshot_id", "rollback_command", "transaction_id"} \subseteq evidence),
                  Unbacked(severity, "missing_reversibility")>>,
                <<evidence \cap {"dry_run_digest", "diff_digest"} = {},
                  Unbacked(Severity.HIGH, "missing_reversibility")>> >>
<1>1. severity \in {0, 3, 4}
  BY SeverityValues DEF IrreversibleSeverity
<1>2. \A type : Bounded(Unbacked(3, type)) /\ Bounded(Unbacked(4, type))
  BY RaiseBounded, SeverityValues DEF Unbacked
<1>3. CASE severity = 0
  (* An action that is not irreversible is answered by silence at the latest. *)
  <2>1. checks[2][1] /\ 2 \in DOMAIN checks /\ DOMAIN checks \subseteq Nat
    <3>1. (severity = Severity.INFO) = TRUE
      BY <1>3, SeverityValues
    <3>2. checks[2][1] = (severity = Severity.INFO) /\ DOMAIN checks = 1 .. 4
      OBVIOUS
    <3> HIDE DEF checks, severity
    <3>3. checks[2][1]
      BY <3>1, <3>2, Zenon
    <3>4. 2 \in DOMAIN checks /\ DOMAIN checks \subseteq Nat
      BY <3>2
    <3> QED BY <3>3, <3>4
  <2>2. checks[1][2] = Unbacked(3, "raw_reversibility_artifact") /\ checks[2][2] = Silence
    BY SeverityValues
  <2>3. Reversibility(request) = IF request.action = {} THEN Silence ELSE FirstOf(checks)
    BY DEF Reversibility
  <2> HIDE DEF checks
  <2>4. PICK i \in DOMAIN checks : i <= 2 /\ FirstOf(checks) = checks[i][2]
    BY <2>1, EarlierAnswers
  <2>5. Bounded(FirstOf(checks))
    <3>0. DOMAIN checks = 1 .. 4
      BY DEF checks
    <3>1. i = 1 \/ i = 2
      BY <2>4, <3>0
    <3> QED BY <1>2, <2>2, <2>4, <3>1, SilenceBounded
  <2> QED BY <2>3, <2>5, SilenceBounded
<1>4. CASE severity # 0
  <2>1. /\ DOMAIN checks = 1 .. 4
        /\ checks[1][2] = Unbacked(3, "raw_reversibility_artifact") /\ checks[2][2] = Silence
        /\ checks[3][2] = Unbacked(severity, "missing_reversibility")
        /\ checks[4][2] = Unbacked(3, "missing_reversibility")
    BY SeverityValues
  <2>2. Reversibility(request) = IF request.action = {} THEN Silence ELSE FirstOf(checks)
    BY DEF Reversibility
  <2>3. Bounded(Unbacked(severity, "missing_reversibility"))
    BY <1>1, <1>2, <1>4
  <2> HIDE DEF checks, severity
  <2>4. \A i \in 1 .. 4 : i = 1 \/ i = 2 \/ i = 3 \/ i = 4
    OBVIOUS
  <2>5. \A i \in DOMAIN checks : Bounded(checks[i][2])
    BY <1>2, <2>1, <2>3, <2>4, SilenceBounded
  <2>6. Bounded(FirstOf(checks))
    <3>1. DOMAIN checks \subseteq Nat
      BY <2>1
    <3> QED BY <2>5, <3>1, FirstBounded
  <2> QED BY <2>2, <2>6, SilenceBounded
<1> QED BY <1>3, <1>4

LEMMA IntentBounded == Bounded(IntentConsistency(request))
BY RaiseBounded, SeverityValues, SilenceBounded DEF IntentConsistency

LEMMA TakeoverBounded == Bounded(CausalTakeover(request))
BY RaiseBounded, SeverityValues, SilenceBounded DEF CausalTakeover

(* A scorer's answer is passed on: it has to be a share itself.             *)
LEMMA SupportBounded ==
  ASSUME request \in Requests
  PROVE  Bounded(SemanticActionSupport(request))
<1>1. request.divergence \in 0 .. 100
  BY RequestAssumption
<1> QED BY <1>1, RaiseBounded, SeverityValues, SilenceBounded DEF SemanticActionSupport

LEMMA MemoryBounded ==
  ASSUME NEW context
  PROVE  Bounded(MemorySignal(context, request))
<1> DEFINE carried == context.memory_text \cup context.plan.retrieved_context
           checks ==
             << <<~IsValidFor(context.contract, context), Threat("memory_poisoning")>>,
                <<context.memory_source \in UntrustedOrigins, Threat("memory_poisoning")>>,
                <<StaleSchema(context), Threat("stale_tool_schema")>>,
                <<"persistent" \in context.memory_text,
                  Threat("persistent_instruction_injection")>>,
                <<{"delayed", "mutating"} \subseteq carried,
                  Threat("delayed_malicious_objective")>>,
                <<PlanDrift(context, request), Threat("task_plan_drift")>> >>
<1>1. MemorySignal(context, request) = FirstOf(checks)
  BY DEF MemorySignal
<1>2. /\ DOMAIN checks = 1 .. 6
      /\ \A i \in 1 .. 6 : \E type : checks[i][2] = Threat(type)
  OBVIOUS
<1>3. \A type : Bounded(Threat(type))
  BY RaiseBounded, SeverityValues DEF Threat
<1> HIDE DEF checks
<1>4. DOMAIN checks \subseteq Nat /\ \A i \in DOMAIN checks : Bounded(checks[i][2])
  BY <1>2, <1>3
<1> QED BY <1>1, <1>4, FirstBounded

LEMMA RemanentiaBounded == Bounded(Remanentia(request))
<1> DEFINE call == request.call[1]
           says == IF request.response = {} THEN request.action ELSE request.response
           write == MemoryWriteSignal(request, call)
           checks == << <<write # Silence, write>>, <<HighImpactWrite(call), MutationApproval>> >>
<1>1. Bounded(MutationApproval)
  BY RaiseBounded, SeverityValues DEF MutationApproval
<1>2. Bounded(Raise("memory_secret_leakage", 95, Severity.HIGH))
  BY RaiseBounded, SeverityValues
<1>3. Bounded(write)
  BY MemoryBounded DEF MemoryWriteSignal
<1>4. Bounded(FirstOf(checks))
  <2>1. DOMAIN checks = 1 .. 2 /\ checks[1][2] = write /\ checks[2][2] = MutationApproval
    OBVIOUS
  <2> HIDE DEF checks, write
  <2>2. DOMAIN checks \subseteq Nat /\ \A i \in DOMAIN checks : i = 1 \/ i = 2
    BY <2>1
  <2>3. \A i \in DOMAIN checks : Bounded(checks[i][2])
    BY <1>1, <1>3, <2>1, <2>2
  <2> QED BY <2>2, <2>3, FirstBounded
<1>5. Remanentia(request) =
        IF request.call = <<>> \/ ~IsRemanentiaCall(call) THEN Silence
        ELSE CASE call.tool \in WriteTools -> FirstOf(checks)
               [] call.tool \in LabelTools ->
                    IF HighImpactLabel(call) THEN MutationApproval ELSE Silence
               [] call.tool \in RecallTools ->
                    IF "secret" \in says THEN Raise("memory_secret_leakage", 95, Severity.HIGH)
                    ELSE Silence
               [] OTHER -> Silence
  BY DEF Remanentia
<1> HIDE DEF checks, says, call
<1> QED BY <1>1, <1>2, <1>4, <1>5, SilenceBounded, Zenon

LEMMA BrowserBounded == Bounded(Browser(request))
<1> DEFINE browser == request.browser[1]
           risks == PageRisks(browser, request.action)
           site == SensitiveSite(browser, request.action)
           checks == Append(risks, site)
<1>1. \A type : Bounded(BrowserRisk(type))
  BY RaiseBounded, SeverityValues DEF BrowserRisk
<1>2. /\ DOMAIN risks = 1 .. 6 /\ Len(risks) = 6
      /\ \A i \in 1 .. 6 : \E type : risks[i][2] = BrowserRisk(type)
  BY DEF PageRisks
<1>3. site[2] = BrowserRisk("browser_sensitive_site_approval")
  BY DEF SensitiveSite
<1>4. Browser(request) = IF request.browser = <<>> THEN Silence ELSE FirstOf(checks)
  BY DEF Browser, BrowserSignal
<1>5. DOMAIN checks = 1 .. 7 /\ \A i \in 1 .. 7 : checks[i] = IF i = 7 THEN site ELSE risks[i]
  <2> HIDE DEF site
  <2> QED BY DEF PageRisks
<1> HIDE DEF checks, risks, site, browser
<1>6. DOMAIN checks \subseteq Nat /\ \A i \in DOMAIN checks : Bounded(checks[i][2])
  <2>1. \A i \in 1 .. 7 : i = 7 \/ i \in 1 .. 6
    OBVIOUS
  <2> QED BY <1>1, <1>2, <1>3, <1>5, <2>1
<1> QED BY <1>4, <1>6, FirstBounded, SilenceBounded

LEMMA InstructionBounded == \A fields : Bounded(InjectionPrompt(request.texts, fields))
BY RaiseBounded, SeverityValues, SilenceBounded DEF InjectionPrompt

LEMMA PIIBounded == Bounded(PIIContent(request.texts))
<1> DEFINE legible == {p \in request.texts["response"] :
                         \/ p.layers = <<>>
                         \/ p.says \in {"credit_card", "ssn"} /\ p.layers = <<"wide">>}
           found == {p.says : p \in legible}
           checks == << <<found \cap Sensitive # {}, Raise("pii_detected", 99, Severity.HIGH)>>,
                        <<"email" \in found, Raise("pii_detected", 99, Severity.MEDIUM)>> >>
<1>1. PIIContent(request.texts) = FirstOf(checks)
  BY DEF PIIContent
<1>2. DOMAIN checks = 1 .. 2
  OBVIOUS
<1>3. /\ checks[1][2] = Raise("pii_detected", 99, Severity.HIGH)
      /\ checks[2][2] = Raise("pii_detected", 99, Severity.MEDIUM)
  OBVIOUS
<1>4. Bounded(checks[1][2]) /\ Bounded(checks[2][2])
  <2> HIDE DEF checks
  <2> QED BY <1>3, RaiseBounded, SeverityValues
<1> HIDE DEF checks
<1>5. DOMAIN checks \subseteq Nat /\ \A i \in DOMAIN checks : i = 1 \/ i = 2
  BY <1>2
<1> QED BY <1>1, <1>4, <1>5, FirstBounded

(* The share of claims without a citation. *)
LEMMA CitationBounded ==
  ASSUME request \in Requests
  PROVE  Bounded(CitationCoverage(request.claims))
<1> DEFINE total == request.claims.total
           uncited == request.claims.uncited
           share == (uncited * 100) \div total
<1>1. total \in Nat /\ uncited \in 0 .. total
  BY RequestAssumption
<1>2. ASSUME total # 0
      PROVE  share \in 0 .. 100
  <2> HIDE DEF total, uncited
  <2>1. uncited * 100 \in Nat /\ uncited * 100 <= 100 * total /\ total > 0
    BY <1>1, <1>2
  <2> QED BY <1>1, <2>1
<1>3. Bounded(CitationCoverage(request.claims))
  BY <1>2, RaiseBounded, SeverityValues, SilenceBounded DEF CitationCoverage
<1> QED BY <1>3

(* How bad things are has a worst. *)
LEMMA WorstOf ==
  ASSUME NEW S, S \subseteq {0, 3, 4}, S # {}
  PROVE  Max(S) \in S /\ \A x \in S : x <= Max(S)
<1>1. \E m \in S : \A x \in S : m >= x
  <2>1. CASE 4 \in S
    BY <2>1
  <2>2. CASE 4 \notin S /\ 3 \in S
    BY <2>2
  <2>3. CASE 4 \notin S /\ 3 \notin S
    <3>1. S = {0}
      BY <2>3
    <3> QED BY <3>1
  <2> QED BY <2>1, <2>2, <2>3
<1>2. Max(S) \in S /\ \A x \in S : Max(S) >= x
  BY <1>1 DEF Max
<1> QED BY <1>2

LEMMA FirstIs ==
  ASSUME NEW S, S \subseteq Nat, S # {}
  PROVE  Min(S) \in S
<1>1. PICK m \in S : \A x \in S : ~(<<x, m>> \in OpToRel(<, Nat))
  BY NatLessThanWellFounded, WFMin, Zenon
<1>2. \A x \in S : m <= x
  <2> TAKE x \in S
  <2>1. ~(x < m)
    BY <1>1, Zenon DEF OpToRel
  <2> QED BY <2>1
<1> QED BY <1>2 DEF Min

LEMMA RulesAreBad ==
  DOMAIN Rules \subseteq Nat /\ \A i \in DOMAIN Rules : Rules[i][2] \in {3, 4}
BY DEF Rules

LEMMA RemovalSeverity ==
  ASSUME NEW segments
  PROVE  RmSeverity(segments) \in {0, 3, 4}
<1> DEFINE removing == {s \in Range(segments) : s.recursive /\ ~s.prints}
           S == {0} \cup UNION {{TargetSeverity(t) : t \in s.removes} : s \in removing}
<1>1. \A t : TargetSeverity(t) \in {0, 3, 4}
  BY DEF TargetSeverity, Severity
<1>2. S \subseteq {0, 3, 4} /\ S # {}
  BY <1>1
<1>3. Max(S) \in {0, 3, 4}
  <2> HIDE DEF S
  <2> QED BY <1>2, WorstOf
<1> QED BY <1>3 DEF RmSeverity

LEMMA CommandBounded ==
  ASSUME NEW command
  PROVE  Bounded(DestructiveSignal(command))
<1> DEFINE matched == Matched(command)
           how == {0} \cup {Rules[i][2] : i \in matched}
           worst == Max(how)
           best == Rules[Min({i \in matched : Rules[i][2] = worst})]
           rm == RmSeverity(command.segments)
<1>1. DestructiveSignal(command) =
        IF PrintOnly(command) \/ <<>> \notin Expand(command.layers) THEN Silence
        ELSE IF matched # {} /\ worst >= rm THEN Raise(best[1], SeverityScore[worst], worst)
        ELSE IF rm # 0 THEN Raise("destructive_command", SeverityScore[rm], rm)
        ELSE Silence
  BY DEF DestructiveSignal
<1>2. rm \in {0, 3, 4}
  BY RemovalSeverity
<1>3. \A n \in {3, 4} : SeverityScore[n] \in 0 .. 100 /\ n \in 1 .. 4
  BY DEF SeverityScore
<1>4. matched \subseteq DOMAIN Rules
  BY DEF Matched
<1>5. matched # {} => worst \in {3, 4}
  <2>1. how \subseteq {0, 3, 4} /\ how # {}
    BY <1>4, RulesAreBad
  <2>2. worst \in how /\ \A x \in how : x <= worst
    <3> HIDE DEF how
    <3> QED BY <2>1, WorstOf
  <2> SUFFICES ASSUME matched # {} PROVE worst \in {3, 4}
    OBVIOUS
  <2>3. PICK i \in matched : Rules[i][2] \in how /\ Rules[i][2] \in {3, 4}
    BY <1>4, RulesAreBad
  <2> HIDE DEF how, worst
  <2> QED BY <2>1, <2>2, <2>3
<1> HIDE DEF matched, worst, best, rm
<1>6. \A type : \A n \in {3, 4} : Bounded(Raise(type, SeverityScore[n], n))
  BY <1>3, RaiseBounded
<1> QED BY <1>1, <1>2, <1>5, <1>6, SilenceBounded

LEMMA AnswersBounded ==
  ASSUME request \in Requests, NEW d
  PROVE  Bounded(Answer(d))
<1>1. Bounded(MemoryThreat(request)) /\ Bounded(Destructive(request))
  BY MemoryBounded, CommandBounded, SilenceBounded DEF MemoryThreat, Destructive
<1>2. Bounded(InjectionPrompt(request.texts, {"query", "context", "response"}))
  BY InstructionBounded
<1> QED BY <1>1, <1>2, TaintBounded, BlastBounded, ReversibilityBounded, IntentBounded,
          TakeoverBounded, SupportBounded, RemanentiaBounded, BrowserBounded, PIIBounded,
          CitationBounded, SilenceBounded, Zenon
   DEF Answer

-----------------------------------------------------------------------------
(* A review is one evaluation of the ensemble, of reports that are weighted  *)
(* scores: a unit of hundredths or finer holds whatever a detector answers. *)
LEMMA ReviewEvidence ==
  ASSUME Unit >= 100
  PROVE  /\ ReviewInit => Evidence
         /\ Evidence /\ [ReviewNext]_reviewVars => Evidence'
<1>1. Unit \in Nat /\ 0 .. 100 \subseteq 0 .. Unit
  BY UnitAssumption
<1>2. ASSUME ReviewInit, request \in Requests, report = [d \in Detector |-> Reported(d, Answer(d))]
      PROVE  Weighed(report)
  <2> SUFFICES ASSUME NEW d \in Detector, report[d] # NoSignal
               PROVE  report[d].score \in 0 .. Unit
    BY DEF Weighed
  <2>1. report[d] = Reported(d, Answer(d)) /\ Answer(d) # Silence
    BY <1>2 DEF Reported
  <2>2. report[d].score = Answer(d).score
    BY <2>1 DEF Reported
  <2>3. Bounded(Answer(d))
    BY <1>2, AnswersBounded
  <2> QED BY <1>1, <2>1, <2>2, <2>3 DEF Bounded
<1>3. ASSUME NEW action \in [Free \cap ActionDetectors ->
                             [score : FreeScore, severity : FreeSeverity, kind : Kind]
                               \cup {NoSignal}],
             NEW other \in [Free \ ActionDetectors -> [score : FreeScore] \cup {NoSignal}],
             report = [d \in Detector |->
                         IF d \in DOMAIN action THEN action[d]
                         ELSE IF d \in DOMAIN other THEN other[d] ELSE NoSignal]
      PROVE  Weighed(report)
  <2>1. FreeScore \subseteq 0 .. Unit
    BY FreeAssumption, ScoreAssumption
  <2>2. ASSUME NEW d \in Detector, report[d] # NoSignal
        PROVE  report[d] \in [score : FreeScore, severity : FreeSeverity, kind : Kind]
                               \cup [score : FreeScore]
    BY <1>3, <2>2
  <2> QED BY <2>1, <2>2 DEF Weighed
<1>4. ReviewInit => Evidence
  BY <1>2, <1>3 DEF ReviewInit, Evidence
<1>5. Evidence /\ [ReviewNext]_reviewVars => Evidence'
  BY EvidenceNext DEF ReviewNext, reviewVars
<1> QED BY <1>4, <1>5

(* So what is shown of the cascade and of further evidence holds of every    *)
(* review, of known requests and of those of which nothing is known.        *)
THEOREM ReviewsSound ==
  ASSUME Unit >= 100
  PROVE  ReviewSpec => [](SilentPermitSound /\ BlockStands /\ EvidenceMonotone)
BY ReviewEvidence, ReviewReturned, ReturnedSound, EvidenceDecides, PTL DEF ReviewSpec

(* Where the scores and severities of the ensemble are those that answers    *)
(* may have, a review is a behaviour of its specification.                  *)
LEMMA ReviewTypes ==
  ASSUME 0 .. 100 \subseteq Score, 1 .. 4 \subseteq Severities
  PROVE  ReviewInit => TypeOK
<1> SUFFICES ASSUME ReviewInit PROVE TypeOK
  OBVIOUS
<1>1. \A type : KindOf(type) \in Kind
  BY Zenon DEF KindOf, Kind
<1>2. ASSUME request \in Requests, report = [d \in Detector |-> Reported(d, Answer(d))],
             NEW d \in Detector
      PROVE  report[d] \in (IF d \in ActionDetectors THEN Signal ELSE ScoreSignal) \cup {NoSignal}
  <2>1. report[d] = Reported(d, Answer(d)) /\ Bounded(Answer(d))
    BY <1>2, AnswersBounded
  <2>2. CASE Answer(d) = Silence
    BY <2>1, <2>2 DEF Reported
  <2>3. CASE Answer(d) # Silence
    <3>1. Answer(d).score \in Score /\ Answer(d).severity \in Severities
      BY <2>1, <2>3 DEF Bounded
    <3>2. KindOf(Answer(d).type) \in Kind
      BY <1>1
    <3>3. CASE Plane[d] = "action"
      <4>1. report[d] = [score |-> Answer(d).score, severity |-> Answer(d).severity,
                         kind |-> KindOf(Answer(d).type)]
        BY <2>1, <2>3, <3>3 DEF Reported
      <4>2. report[d] \in Signal /\ d \in ActionDetectors
        BY <3>1, <3>2, <3>3, <4>1 DEF Signal, ActionDetectors
      <4> QED BY <4>2
    <3>4. CASE Plane[d] # "action"
      <4>1. report[d] = [score |-> Answer(d).score] /\ d \notin ActionDetectors
        BY <2>1, <2>3, <3>4 DEF Reported, ActionDetectors
      <4> QED BY <3>1, <4>1 DEF ScoreSignal
    <3> QED BY <3>3, <3>4
  <2> QED BY <2>2, <2>3
<1>3. ASSUME NEW action \in [Free \cap ActionDetectors ->
                             [score : FreeScore, severity : FreeSeverity, kind : Kind]
                               \cup {NoSignal}],
             NEW other \in [Free \ ActionDetectors -> [score : FreeScore] \cup {NoSignal}],
             report = [d \in Detector |->
                         IF d \in DOMAIN action THEN action[d]
                         ELSE IF d \in DOMAIN other THEN other[d] ELSE NoSignal],
             NEW d \in Detector
      PROVE  report[d] \in (IF d \in ActionDetectors THEN Signal ELSE ScoreSignal) \cup {NoSignal}
  <2>1. FreeScore \subseteq Score /\ FreeSeverity \subseteq Severities
    BY FreeAssumption
  <2>2. CASE d \in Free \cap ActionDetectors
    <3>1. report[d] \in [score : FreeScore, severity : FreeSeverity, kind : Kind] \cup {NoSignal}
      BY <1>3, <2>2
    <3> QED BY <2>1, <2>2, <3>1 DEF Signal
  <2>3. CASE d \in Free \ ActionDetectors
    <3>1. report[d] \in [score : FreeScore] \cup {NoSignal}
      BY <1>3, <2>3
    <3> QED BY <2>1, <2>3, <3>1 DEF ScoreSignal
  <2>4. CASE d \notin Free
    BY <1>3, <2>4
  <2> QED BY <2>2, <2>3, <2>4
<1>4. \A d \in Detector :
        report[d] \in (IF d \in ActionDetectors THEN Signal ELSE ScoreSignal) \cup {NoSignal}
  BY <1>2, <1>3 DEF ReviewInit
<1>5. provenance \in {"user", "other"}
  BY DEF ReviewInit
<1>6. /\ cascade \in BOOLEAN /\ ran = {} /\ verdict = NoVerdict /\ phase = "running"
  BY DEF ReviewInit
<1> QED BY <1>4, <1>5, <1>6 DEF TypeOK

LEMMA ReviewInitIsInit == ReviewInit /\ TypeOK => Init
<1> SUFFICES ASSUME ReviewInit, TypeOK PROVE Init
  OBVIOUS
<1> DEFINE action == [d \in ActionDetectors |-> report[d]]
           other == [d \in Detector \ ActionDetectors |-> report[d]]
<1>1. /\ action \in [ActionDetectors -> Signal \cup {NoSignal}]
      /\ other \in [Detector \ ActionDetectors -> ScoreSignal \cup {NoSignal}]
  BY DEF TypeOK, ActionDetectors
<1>2. report = [d \in Detector |-> report[d]]
  BY DEF ReviewInit
<1>3. \A d \in Detector : report[d] = IF d \in ActionDetectors THEN action[d] ELSE other[d]
  OBVIOUS
<1>4. report = [d \in Detector |-> IF d \in ActionDetectors THEN action[d] ELSE other[d]]
  BY <1>2, <1>3
<1> HIDE DEF action, other
<1>5. provenance \in {"user", "other"}
  BY DEF TypeOK
<1> QED BY <1>1, <1>4, <1>5 DEF ReviewInit, Init

THEOREM ReviewIsEvaluation ==
  ASSUME 0 .. 100 \subseteq Score, 1 .. 4 \subseteq Severities
  PROVE  ReviewSpec => Spec
<1>1. [ReviewNext]_reviewVars => [Next]_vars
  BY DEF ReviewNext, reviewVars
<1> QED BY <1>1, ReviewTypes, ReviewInitIsInit, PTL DEF ReviewSpec, Spec

(* A plane of the noisy-or blocks on one signal that reaches its threshold.  *)
LEMMA OneSignalBlocks ==
  ASSUME NEW done \in SUBSET Detector, NEW rep, Weighed(rep), NEW plane \in Planes,
         NEW d \in Signals(done, rep, plane), rep[d].score >= threshold[plane]
  PROVE  PlaneBlocks(done, rep, plane)
<1> DEFINE S == Signals(done, rep, plane)
           x == rep[d].score
<1>1. IsFiniteSet(S) /\ Scored(S, rep)
  BY SignalsGrow
<1>2. /\ {d} \in SUBSET S /\ IsFiniteSet({d}) /\ Scored({d}, rep)
      /\ {d} \ {d} = {} /\ x \in Nat /\ x <= Unit
      /\ Unit \in Nat /\ threshold[plane] \in Nat
  <2>1. IsFiniteSet({d})
    BY FS_Singleton
  <2>2. x \in 0 .. Unit /\ Unit \in Nat
    BY <1>1, UnitAssumption DEF Scored
  <2>3. threshold[plane] \in Nat
    BY PolicyAssumption
  <2> QED BY <1>1, <2>1, <2>2, <2>3 DEF Scored
<1>3. Scale({}) = 1 /\ Missed({}, rep) = 1
  <2> DEFINE nothing == [e \in {} |-> Unit]
             missed == [e \in {} |-> Unit - rep[e].score]
  <2>1. nothing \in [{} -> Nat] /\ missed \in [{} -> Nat] /\ IsFiniteSet({})
    BY FS_EmptySet
  <2>2. Product(nothing) = 1 /\ Product(missed) = 1
    <3> HIDE DEF nothing, missed
    <3> QED BY <2>1, ProductFacts
  <2> QED BY <2>2 DEF Scale, Missed
<1>4. Scale({d}) = Unit * 1 /\ Missed({d}, rep) = (Unit - x) * 1
  BY <1>2, <1>3, OneMoreSignal
<1> HIDE DEF x
<1>5. Risk({d}, rep) = Unit * x /\ Parts({d}, threshold[plane]) = Unit * threshold[plane]
  BY <1>2, <1>4 DEF Risk, Parts
<1>6. Reaches({d}, rep, threshold[plane])
  BY <1>2, <1>5, TimesGrows DEF Reaches, x
<1>7. Reaches(S, rep, threshold[plane])
  BY <1>1, <1>2, <1>6, ReachesSuperset
<1> QED BY <1>7 DEF Reaches, PlaneBlocks

(* The layers of a text. *)
Layers == {"wide", "zero_width", "rot13", "base64"}

(* A layer on the outside is peeled off, another one is left.               *)
LEMMA PeeledOff ==
  ASSUME NEW S, NEW s \in Seq(S), NEW layer \in S
  PROVE  /\ <<layer>> \o s \in Seq(S)
         /\ Peeled(<<layer>> \o s, layer) = s
         /\ \A other \in S : other # layer => Peeled(<<layer>> \o s, other) = <<layer>> \o s
<1>1. <<layer>> \in Seq(S) /\ Len(<<layer>>) = 1 /\ <<layer>>[1] = layer
  OBVIOUS
<1> DEFINE t == <<layer>> \o s
<1>2. t \in Seq(S) /\ Len(t) = Len(s) + 1
  BY <1>1
<1>3. t[1] = layer
  BY <1>1
<1>4. Head(t) = layer /\ t # <<>>
  BY <1>2, <1>3
<1>5. Tail(t) = s
  <2>1. Tail(t) \in Seq(S) /\ Len(Tail(t)) = Len(s)
    BY <1>2
  <2>2. ASSUME NEW j \in 1 .. Len(s)
        PROVE  Tail(t)[j] = s[j]
    BY <1>1, <1>2, <2>1
  <2> QED BY <2>1, <2>2
<1> HIDE DEF t
<1>6. Peeled(t, layer) = s /\ \A other \in S : other # layer => Peeled(t, other) = t
  BY <1>2, <1>4, <1>5 DEF Peeled
<1> QED BY <1>2, <1>6 DEF t

(* Width and zero-width characters come off before the inner layers.        *)
LEMMA OuterOff ==
  ASSUME NEW i \in Seq(Layers), i = <<>> \/ Head(i) \in {"rot13", "base64"},
         NEW layers \in {i, <<"wide">> \o i, <<"zero_width">> \o i, <<"wide", "zero_width">> \o i}
  PROVE  Peeled(Peeled(layers, "wide"), "zero_width") = i
<1>1. Peeled(i, "wide") = i /\ Peeled(i, "zero_width") = i
  BY DEF Peeled
<1> DEFINE z == <<"zero_width">> \o i
<1>2. z \in Seq(Layers) /\ Peeled(z, "zero_width") = i /\ Peeled(z, "wide") = z
  <2>1. "zero_width" \in Layers /\ "wide" \in Layers /\ "wide" # "zero_width"
    BY DEF Layers
  <2> QED BY <2>1, PeeledOff
<1>3. "wide" \in Layers
  BY DEF Layers
<1>4. Peeled(<<"wide">> \o i, "wide") = i /\ Peeled(<<"wide">> \o z, "wide") = z
  <2> HIDE DEF z
  <2> QED BY <1>2, <1>3, PeeledOff
<1>5. <<"wide", "zero_width">> \o i = <<"wide">> \o z
  OBVIOUS
<1> QED BY <1>1, <1>2, <1>4, <1>5

(* The default backend sees through the disguises that combine.             *)
LEMMA Undisguised ==
  ASSUME NEW layers \in Disguises
  PROVE  <<>> \in Variants(layers)
<1> DEFINE Under(i) == {i, <<"wide">> \o i, <<"zero_width">> \o i, <<"wide", "zero_width">> \o i}
<1>2. PICK i \in {<<>>, <<"rot13">>, <<"base64">>, <<"base64", "rot13">>} : layers \in Under(i)
  <2>1. PICK o \in {<<>>, <<"wide">>, <<"zero_width">>, <<"wide", "zero_width">>},
             i \in {<<>>, <<"rot13">>, <<"base64">>, <<"base64", "rot13">>} : layers = o \o i
    BY DEF Disguises
  <2>2. <<>> \o i = i
    BY <2>1
  <2> QED BY <2>1, <2>2
<1>3. i \in Seq(Layers) /\ (i = <<>> \/ Head(i) \in {"rot13", "base64"})
  <2>1. \A a, b \in Layers : /\ <<a>> \in Seq(Layers) /\ Head(<<a>>) = a
                             /\ <<a, b>> \in Seq(Layers) /\ Head(<<a, b>>) = a
    OBVIOUS
  <2>2. "rot13" \in Layers /\ "base64" \in Layers /\ <<>> \in Seq(Layers)
    BY DEF Layers
  <2> QED BY <1>2, <2>1, <2>2
<1>4. Peeled(Peeled(layers, "wide"), "zero_width") = i
  BY <1>2, <1>3, OuterOff
<1>5. CASE i = <<>>
  BY <1>4, <1>5 DEF Variants
<1>6. CASE i = <<"rot13">>
  <2>1. Rotated(i) = <<>>
    BY <1>6 DEF Rotated
  <2> QED BY <1>4, <2>1 DEF Variants
<1>7. CASE i = <<"base64">>
  <2>1. i # <<>> /\ Head(i) = "base64" /\ Tail(i) = <<>>
    BY <1>7
  <2> QED BY <1>4, <2>1 DEF Variants
<1>8. CASE i = <<"base64", "rot13">>
  <2>1. i # <<>> /\ Head(i) = "base64" /\ Tail(i) = <<"rot13">>
    BY <1>8
  <2>2. Rotated(<<"rot13">>) = <<>>
    BY DEF Rotated
  <2> QED BY <1>4, <2>1, <2>2 DEF Variants
<1> QED BY <1>2, <1>5, <1>6, <1>7, <1>8

(* An instruction that takes over, in any of the three texts and under any   *)
(* of the disguises that combine, is refused (defaults.py:152), since the   *)
(* screen is among the detectors that always run and one signal of its      *)
(* score blocks its plane, whatever else is reported.                       *)
THEOREM InstructionsRefused ==
  ASSUME "injection_prompt" \in FirstTier, Plane["injection_prompt"] = "integrity",
         threshold["integrity"] <= 95, Unit >= 100
  PROVE  ReviewSpec => []InstructionsSeenThrough
<1>1. Returned /\ Heard /\ Evidence => InstructionsSeenThrough
  <2> SUFFICES ASSUME Returned, Heard, Evidence, Known,
                      NEW f \in DOMAIN request.texts, NEW p \in request.texts[f],
                      p.says = "instruction", p.layers \in Disguises
               PROVE  ~verdict.allow
    BY DEF InstructionsSeenThrough
  <2>1. Screened(request.texts[f]) /\ f \in {"query", "context", "response"}
    BY Undisguised, RequestAssumption DEF Screened, Heard, Known
  <2>2. Answer("injection_prompt") = Raise("prompt_injection", 95, Severity.HIGH)
    BY <2>1 DEF Answer, InjectionPrompt
  <2>3. Answer("injection_prompt") # Silence /\ Answer("injection_prompt").score = 95
    BY <2>2 DEF Silence, Raise
  <2>4. report["injection_prompt"] = [score |-> 95]
    BY <2>3 DEF Heard, Known, Reported, FirstTier
  <2>5. "injection_prompt" \in Signals(ran, report, "integrity")
    BY <2>4 DEF Signals, NoSignal, Heard, Known
  <2>6. "integrity" \in Planes /\ threshold["integrity"] \in Nat
    BY PolicyAssumption DEF Planes
  <2>7. PlaneBlocks(ran, report, "integrity")
    BY <2>4, <2>5, <2>6, OneSignalBlocks DEF Evidence
  <2> QED BY <2>7 DEF Returned, Known, Fuse
<1> QED BY <1>1, ReviewEvidence, HeardInit, HeardNext, ReviewReturned, PTL DEF ReviewSpec

-----------------------------------------------------------------------------
(* Commands under layers of disguise.  Every form of a command is what is    *)
(* left of its layers from one of them on.                                  *)
From(layers, k) == SubSeq(layers, k, Len(layers))

(* What is compressed comes off with its encoding, never by itself. *)
Reachable(layers, k) ==
  k \in 1 .. Len(layers) + 1 /\ (k <= Len(layers) => layers[k] # "compressed")

Kinds == CommandLayer \cup {"compressed"}

LEMMA FromFacts ==
  ASSUME NEW layers \in Seq(Kinds), NEW k \in 1 .. Len(layers) + 1
  PROVE  /\ From(layers, k) \in Seq(Kinds)
         /\ From(layers, k) = <<>> <=> k = Len(layers) + 1
         /\ k <= Len(layers) => /\ Head(From(layers, k)) = layers[k]
                                /\ Tail(From(layers, k)) = From(layers, k + 1)
         /\ From(layers, 1) = layers
<1>1. /\ From(layers, k) \in Seq(Kinds)
      /\ Len(From(layers, k)) = IF k <= Len(layers) THEN Len(layers) - k + 1 ELSE 0
  BY SubSeqProperties DEF From
<1>2. k <= Len(layers) => /\ Head(From(layers, k)) = layers[k]
                          /\ Tail(From(layers, k)) = From(layers, k + 1)
  BY HeadTailOfSubSeq DEF From
<1>3. From(layers, 1) = layers
  BY SubSeqFull DEF From
<1> HIDE DEF From
<1>4. From(layers, k) = <<>> <=> k = Len(layers) + 1
  BY <1>1
<1> QED BY <1>1, <1>2, <1>3, <1>4

(* Peeling takes the outermost layer off, if it is the one. *)
LEMMA PeelsFrom ==
  ASSUME NEW layers \in Seq(Kinds), Layered(layers), NEW layer, layer # "base64",
         layer # "compressed", NEW k, Reachable(layers, k)
  PROVE  \E j \in k .. k + 1 :
           /\ Reachable(layers, j) /\ Peeled(From(layers, k), layer) = From(layers, j)
           /\ k <= Len(layers) /\ layers[k] = layer => j = k + 1
           /\ ~(k <= Len(layers) /\ layers[k] = layer) => j = k
<1>1. k \in 1 .. Len(layers) + 1 /\ Len(layers) \in Nat
  BY DEF Reachable
<1>2. CASE k <= Len(layers) /\ layers[k] = layer
  <2>1. From(layers, k) # <<>> /\ Head(From(layers, k)) = layer
        /\ Tail(From(layers, k)) = From(layers, k + 1)
    BY <1>1, <1>2, FromFacts
  <2>2. Peeled(From(layers, k), layer) = From(layers, k + 1)
    BY <2>1 DEF Peeled
  <2>3. Reachable(layers, k + 1)
    <3> SUFFICES ASSUME k + 1 <= Len(layers), layers[k + 1] = "compressed" PROVE FALSE
      BY <1>1, <1>2 DEF Reachable
    <3>1. k + 1 \in DOMAIN layers
      BY <1>1
    <3>2. "compressed" \notin CommandLayer
      BY DEF CommandLayer, Quotings, Encodings
    <3>3. layers[(k + 1) - 1] = "base64"
      BY <3>1, <3>2 DEF Layered
    <3> QED BY <1>1, <1>2, <3>3
  <2> QED BY <1>1, <1>2, <2>2, <2>3
<1>3. CASE ~(k <= Len(layers) /\ layers[k] = layer)
  <2>1. From(layers, k) = <<>> \/ Head(From(layers, k)) # layer
    BY <1>1, <1>3, FromFacts
  <2>2. Peeled(From(layers, k), layer) = From(layers, k)
    BY <2>1 DEF Peeled
  <2> QED BY <1>1, <1>3, <2>2
<1> QED BY <1>2, <1>3

LEMMA DecodesFrom ==
  ASSUME NEW layers \in Seq(Kinds), Layered(layers), NEW k, Reachable(layers, k)
  PROVE  \E j \in k .. Len(layers) + 1 :
           /\ Reachable(layers, j) /\ Decoded(From(layers, k)) = From(layers, j)
           /\ k <= Len(layers) /\ layers[k] = "base64" => j > k
<1>1. k \in 1 .. Len(layers) + 1 /\ Len(layers) \in Nat
  BY DEF Reachable
<1>2. CASE k <= Len(layers) /\ layers[k] = "base64"
  <2>1. From(layers, k) # <<>> /\ Head(From(layers, k)) = "base64"
        /\ Tail(From(layers, k)) = From(layers, k + 1) /\ From(layers, k) \in Seq(Kinds)
    BY <1>1, <1>2, FromFacts
  <2>2. Peeled(From(layers, k), "base64") = From(layers, k + 1)
    BY <2>1 DEF Peeled
  <2>3. From(layers, k + 1) # From(layers, k)
    <3>1. Len(Tail(From(layers, k))) # Len(From(layers, k))
      BY <2>1, HeadTailProperties
    <3> QED BY <2>1, <3>1
  <2>4. Decoded(From(layers, k)) = Peeled(From(layers, k + 1), "compressed")
    BY <2>1, <2>2, <2>3 DEF Decoded
  <2>5. CASE k + 1 <= Len(layers) /\ layers[k + 1] = "compressed"
    <3>1. From(layers, k + 1) # <<>> /\ Head(From(layers, k + 1)) = "compressed"
          /\ Tail(From(layers, k + 1)) = From(layers, k + 2)
      <4>1. k + 1 \in 1 .. Len(layers) + 1 /\ (k + 1) + 1 = k + 2
        BY <1>1, <2>5
      <4> QED BY <2>5, <4>1, FromFacts
    <3>2. Decoded(From(layers, k)) = From(layers, k + 2)
      BY <2>4, <3>1 DEF Peeled
    <3>3. Reachable(layers, k + 2)
      <4> SUFFICES ASSUME k + 2 <= Len(layers), layers[k + 2] = "compressed" PROVE FALSE
        BY <1>1, <2>5 DEF Reachable
      <4>1. "compressed" \notin CommandLayer /\ k + 2 \in DOMAIN layers /\ (k + 2) - 1 = k + 1
        BY <1>1 DEF CommandLayer, Quotings, Encodings
      <4>2. layers[k + 1] = "base64"
        BY <4>1 DEF Layered
      <4> QED BY <2>5, <4>2
    <3> QED BY <1>1, <2>5, <3>2, <3>3
  <2>6. CASE ~(k + 1 <= Len(layers) /\ layers[k + 1] = "compressed")
    <3>1. From(layers, k + 1) = <<>> \/ Head(From(layers, k + 1)) # "compressed"
      <4>1. k + 1 \in 1 .. Len(layers) + 1
        BY <1>1, <1>2
      <4> QED BY <2>6, <4>1, FromFacts
    <3>2. Decoded(From(layers, k)) = From(layers, k + 1)
      BY <2>4, <3>1 DEF Peeled
    <3> QED BY <1>1, <1>2, <2>6, <3>2 DEF Reachable
  <2> QED BY <2>5, <2>6
<1>3. CASE ~(k <= Len(layers) /\ layers[k] = "base64")
  <2>1. From(layers, k) = <<>> \/ Head(From(layers, k)) # "base64"
    BY <1>1, <1>3, FromFacts
  <2>2. Decoded(From(layers, k)) = From(layers, k)
    BY <2>1 DEF Decoded, Peeled
  <2> QED BY <1>1, <1>3, <2>2
<1> QED BY <1>2, <1>3

(* What a form is transformed to are forms, and one of them has a layer less. *)
LEMMA TransformsFrom ==
  ASSUME NEW layers \in Seq(Kinds), Layered(layers), NEW k, Reachable(layers, k)
  PROVE  /\ \A t \in Transformed(From(layers, k)) :
              \E j \in k .. Len(layers) + 1 : Reachable(layers, j) /\ t = From(layers, j)
         /\ k <= Len(layers) =>
              \E j \in k + 1 .. Len(layers) + 1 :
                Reachable(layers, j) /\ From(layers, j) \in Transformed(From(layers, k))
<1> DEFINE here == From(layers, k)
           Form(t) == \E j \in k .. Len(layers) + 1 : Reachable(layers, j) /\ t = From(layers, j)
           Less(t) == \E j \in k + 1 .. Len(layers) + 1 :
                        Reachable(layers, j) /\ t = From(layers, j)
           dequoted == Peeled(here, "quote_break")
           narrow == Peeled(here, "wide")
           stripped == Peeled(narrow, "zero_width")
           Single == CommandLayer \ {"base64"}
<1>1. k \in 1 .. Len(layers) + 1 /\ Len(layers) \in Nat
  BY DEF Reachable
<1>2. Single \subseteq CommandLayer /\ "compressed" \notin Single /\ "base64" \notin Single
  BY DEF CommandLayer, Quotings, Encodings
<1>3. {"quote_break", "split_flags", "quoted", "ifs", "wide", "zero_width", "homoglyph"} \subseteq Single
      /\ Encodings \subseteq Single
  BY DEF CommandLayer, Quotings, Encodings
<1>4. ASSUME NEW i, Reachable(layers, i), i >= k, NEW layer \in Single
      PROVE  \E j \in i .. Len(layers) + 1 :
               /\ Reachable(layers, j) /\ Peeled(From(layers, i), layer) = From(layers, j)
               /\ i <= Len(layers) /\ layers[i] = layer => j > i
               /\ layers[i] # layer => j = i
  <2>1. layer # "base64" /\ layer # "compressed"
    BY <1>2
  <2>2. PICK j \in i .. i + 1 :
           /\ Reachable(layers, j) /\ Peeled(From(layers, i), layer) = From(layers, j)
           /\ i <= Len(layers) /\ layers[i] = layer => j = i + 1
           /\ ~(i <= Len(layers) /\ layers[i] = layer) => j = i
    BY <1>4, <2>1, PeelsFrom
  <2>3. i \in 1 .. Len(layers) + 1 /\ j \in 1 .. Len(layers) + 1
    BY <1>4, <2>2 DEF Reachable
  <2> QED BY <1>1, <2>2, <2>3
<1>5. PICK a \in k .. Len(layers) + 1 :
         /\ Reachable(layers, a) /\ dequoted = From(layers, a)
         /\ k <= Len(layers) /\ layers[k] = "quote_break" => a > k
         /\ layers[k] # "quote_break" => a = k
  <2>1. "quote_break" \in Single /\ k >= k
    BY <1>1, <1>3
  <2> HIDE DEF Single
  <2> QED BY <1>4, <2>1
<1>6. PICK b \in k .. Len(layers) + 1 :
         /\ Reachable(layers, b) /\ narrow = From(layers, b)
         /\ k <= Len(layers) /\ layers[k] = "wide" => b > k
         /\ layers[k] # "wide" => b = k
  <2>1. "wide" \in Single /\ k >= k
    BY <1>1, <1>3
  <2> HIDE DEF Single
  <2> QED BY <1>4, <2>1
<1>7. PICK c \in b .. Len(layers) + 1 :
         /\ Reachable(layers, c) /\ stripped = From(layers, c)
         /\ b <= Len(layers) /\ layers[b] = "zero_width" => c > b
         /\ layers[b] # "zero_width" => c = b
  <2>1. "zero_width" \in Single /\ b >= k
    BY <1>1, <1>3, <1>6
  <2> HIDE DEF Single, narrow
  <2> QED BY <1>4, <1>6, <2>1
<1>8. PICK d \in a .. Len(layers) + 1 :
         /\ Reachable(layers, d) /\ Peeled(dequoted, "split_flags") = From(layers, d)
         /\ a <= Len(layers) /\ layers[a] = "split_flags" => d > a
  <2>1. "split_flags" \in Single /\ a >= k
    BY <1>1, <1>3, <1>5
  <2> HIDE DEF Single, dequoted
  <2> QED BY <1>4, <1>5, <2>1
<1>9. PICK e \in c .. Len(layers) + 1 :
         /\ Reachable(layers, e) /\ Peeled(stripped, "homoglyph") = From(layers, e)
         /\ c <= Len(layers) /\ layers[c] = "homoglyph" => e > c
  <2>1. "homoglyph" \in Single /\ c >= k
    BY <1>1, <1>3, <1>6, <1>7
  <2> HIDE DEF Single, stripped
  <2> QED BY <1>4, <1>7, <2>1
<1>10. PICK f \in k .. Len(layers) + 1 :
         /\ Reachable(layers, f) /\ Decoded(here) = From(layers, f)
         /\ k <= Len(layers) /\ layers[k] = "base64" => f > k
  BY <1>1, DecodesFrom
<1>11. Transformed(here) =
         {dequoted, Peeled(dequoted, "split_flags"), Peeled(here, "quoted"), Peeled(here, "ifs"),
          narrow, stripped, Peeled(stripped, "homoglyph"), Decoded(here)}
           \cup {Peeled(here, layer) : layer \in Encodings}
  BY DEF Transformed
<1>12. ASSUME NEW layer \in Single
       PROVE  Form(Peeled(here, layer))
              /\ (k <= Len(layers) /\ layers[k] = layer => Less(Peeled(here, layer)))
  <2>1. PICK j \in k .. Len(layers) + 1 :
           /\ Reachable(layers, j) /\ Peeled(here, layer) = From(layers, j)
           /\ k <= Len(layers) /\ layers[k] = layer => j > k
    BY <1>1, <1>4
  <2> QED BY <1>1, <2>1
<1>13. \A t \in Transformed(here) : Form(t)
  <2>1. Form(dequoted) /\ Form(narrow) /\ Form(Decoded(here))
    BY <1>5, <1>6, <1>10
  <2>2. Form(stripped) /\ Form(Peeled(dequoted, "split_flags")) /\ Form(Peeled(stripped, "homoglyph"))
    BY <1>1, <1>5, <1>6, <1>7, <1>8, <1>9
  <2>3. Form(Peeled(here, "quoted")) /\ Form(Peeled(here, "ifs"))
        /\ \A layer \in Encodings : Form(Peeled(here, layer))
    BY <1>3, <1>12
  <2> HIDE DEF Form, dequoted, narrow, stripped, here
  <2> QED BY <1>11, <2>1, <2>2, <2>3
<1>14. ASSUME k <= Len(layers)
       PROVE  \E t \in Transformed(here) : Less(t)
  <2>1. layers[k] \in CommandLayer
    BY <1>1, <1>14 DEF Reachable, Layered
  <2>2. CASE layers[k] \in Encodings \cup {"quoted", "ifs"}
    <3>1. Less(Peeled(here, layers[k]))
      BY <1>3, <1>12, <1>14, <2>2
    <3>2. Peeled(here, layers[k]) \in Transformed(here)
      BY <1>11, <2>2
    <3> QED BY <3>1, <3>2
  <2>3. CASE layers[k] = "base64"
    BY <1>1, <1>10, <1>11, <1>14, <2>3
  <2>4. CASE layers[k] = "quote_break"
    BY <1>1, <1>5, <1>11, <1>14, <2>4
  <2>5. CASE layers[k] = "wide"
    BY <1>1, <1>6, <1>11, <1>14, <2>5
  <2>6. CASE layers[k] = "split_flags"
    <3>1. a = k
      BY <1>5, <2>6
    <3> QED BY <1>1, <1>8, <1>11, <1>14, <2>6, <3>1
  <2>7. CASE layers[k] = "zero_width"
    <3>1. b = k
      BY <1>6, <2>7
    <3> QED BY <1>1, <1>7, <1>11, <1>14, <2>7, <3>1
  <2>8. CASE layers[k] = "homoglyph"
    <3>1. b = k /\ c = k
      BY <1>6, <1>7, <2>8
    <3> QED BY <1>1, <1>9, <1>11, <1>14, <2>8, <3>1
  <2> QED BY <2>1, <2>2, <2>3, <2>4, <2>5, <2>6, <2>7, <2>8 DEF CommandLayer, Quotings
<1> QED BY <1>13, <1>14

(* The rounds of an expansion, one by one. *)
LEMMA ExpandRounds ==
  ASSUME NEW layers
  PROVE  Expand(layers) = Round(Round(Round(Round(Unexpanded(layers))))).forms
<1> DEFINE start == Unexpanded(layers)
           Step(f) == [i \in 0 .. MaxDepth |-> IF i = 0 THEN start ELSE Round(f[i - 1])]
           rounds == [i \in 0 .. 4 |->
                        IF i = 0 THEN start
                        ELSE IF i = 1 THEN Round(start)
                        ELSE IF i = 2 THEN Round(Round(start))
                        ELSE IF i = 3 THEN Round(Round(Round(start)))
                        ELSE Round(Round(Round(Round(start))))]
           found == CHOOSE f : f = Step(f)
<1>1. Expand(layers) = found[MaxDepth].forms
  BY DEF Expand
<1>2. rounds = Step(rounds)
  <2>1. DOMAIN rounds = 0 .. MaxDepth /\ 0 .. MaxDepth = {0, 1, 2, 3, 4}
    BY DEF MaxDepth
  <2>2. /\ rounds[0] = start /\ rounds[1] = Round(rounds[0]) /\ rounds[2] = Round(rounds[1])
        /\ rounds[3] = Round(rounds[2]) /\ rounds[4] = Round(rounds[3])
    OBVIOUS
  <2>3. rounds = [i \in 0 .. MaxDepth |-> rounds[i]]
    BY <2>1
  <2> HIDE DEF rounds, start
  <2>4. \A i \in 0 .. MaxDepth : rounds[i] = IF i = 0 THEN start ELSE Round(rounds[i - 1])
    BY <2>1, <2>2
  <2> QED BY <2>3, <2>4
<1>3. found = Step(found)
  <2> HIDE DEF rounds, Step
  <2> QED BY <1>2
<1>4. /\ found[0] = start /\ found[1] = Round(found[0]) /\ found[2] = Round(found[1])
      /\ found[3] = Round(found[2]) /\ found[4] = Round(found[3])
  <2> HIDE DEF found, start
  <2>1. {0, 1, 2, 3, 4} \subseteq 0 .. MaxDepth
    BY DEF MaxDepth
  <2>2. \A i \in 0 .. MaxDepth : found[i] = IF i = 0 THEN start ELSE Round(found[i - 1])
    BY <1>3
  <2> QED BY <2>1, <2>2
<1> HIDE DEF found
<1> QED BY <1>1, <1>4 DEF MaxDepth

(* Every form found is one the layers lead to; what the frontier has left    *)
(* behind has been transformed; and one is at layer k or further in.        *)
Expanding(layers, found, k) ==
  /\ found.frontier \subseteq found.forms
  /\ \A t \in found.forms : \E j \in 1 .. Len(layers) + 1 : Reachable(layers, j) /\ t = From(layers, j)
  /\ \A t \in found.forms \ found.frontier : Transformed(t) \subseteq found.forms
  /\ \E j \in k .. Len(layers) + 1 : Reachable(layers, j) /\ From(layers, j) \in found.forms

(* A command has no more forms than layers and one. *)
LEMMA FormsFit ==
  ASSUME NEW layers \in Seq(Kinds), NEW S,
         \A t \in S : \E j \in 1 .. Len(layers) + 1 : t = From(layers, j)
  PROVE  IsFiniteSet(S) /\ Cardinality(S) <= Len(layers) + 1
<1> DEFINE n == Len(layers) + 1
           all == {From(layers, j) : j \in 1 .. n}
           form == [j \in 1 .. n |-> From(layers, j)]
<1>1. n \in Nat
  OBVIOUS
<1>2. IsFiniteSet(1 .. n) /\ Cardinality(1 .. n) = n
  BY <1>1, FS_Interval
<1>3. form \in Surjection(1 .. n, all)
  BY DEF Surjection
<1>4. IsFiniteSet(all) /\ Cardinality(all) <= n
  BY <1>2, <1>3, FS_Surjection
<1>5. S \subseteq all
  OBVIOUS
<1> HIDE DEF all, n
<1>6. IsFiniteSet(S) /\ Cardinality(S) <= Cardinality(all)
  BY <1>4, <1>5, FS_Subset
<1>7. Cardinality(S) \in Nat /\ Cardinality(all) \in Nat
  BY <1>4, <1>6, FS_CardinalityType
<1> QED BY <1>1, <1>4, <1>6, <1>7 DEF n

LEMMA RoundExpands ==
  ASSUME NEW layers \in Seq(Kinds), Layered(layers), Len(layers) <= MaxDepth,
         NEW found, NEW k \in Nat \ {0}, Expanding(layers, found, k)
  PROVE  Expanding(layers, Round(found), IF k <= Len(layers) THEN k + 1 ELSE k)
<1> DEFINE Form(t) == \E j \in 1 .. Len(layers) + 1 : Reachable(layers, j) /\ t = From(layers, j)
           new == Discovered(found)
<1>1. \A t \in found.forms \cup new : Form(t)
  <2>1. ASSUME NEW t \in new
        PROVE  Form(t)
    <3>1. PICK s \in found.frontier : t \in Transformed(s)
      BY DEF Discovered
    <3>2. PICK j \in 1 .. Len(layers) + 1 : Reachable(layers, j) /\ s = From(layers, j)
      BY <3>1 DEF Expanding
    <3>3. PICK i \in j .. Len(layers) + 1 : Reachable(layers, i) /\ t = From(layers, i)
      BY <3>1, <3>2, TransformsFrom
    <3> QED BY <3>2, <3>3
  <2> QED BY <2>1 DEF Expanding
<1>2. Added(found.forms, new) = new
  <2>1. \A t \in found.forms \cup new : \E j \in 1 .. Len(layers) + 1 : t = From(layers, j)
    BY <1>1
  <2> HIDE DEF new
  <2>2. /\ IsFiniteSet(found.forms \cup new)
        /\ Cardinality(found.forms \cup new) <= Len(layers) + 1
    BY <2>1, FormsFit
  <2>3. Cardinality(found.forms \cup new) \in Nat
    BY <2>2, FS_CardinalityType
  <2> QED BY <2>2, <2>3 DEF Added, MaxForms, MaxDepth
<1>3. Round(found) = [forms |-> found.forms \cup new, frontier |-> new]
  BY <1>2 DEF Round
<1>4. ASSUME NEW s \in found.forms, NEW t \in Transformed(s)
      PROVE  t \in found.forms \cup new
  <2>1. CASE s \in found.frontier
    <3> SUFFICES ASSUME t \notin found.forms PROVE t \in Discovered(found)
      OBVIOUS
    <3> QED BY <1>4, <2>1 DEF Discovered
  <2>2. CASE s \notin found.frontier
    BY <1>4, <2>2 DEF Expanding
  <2> QED BY <2>1, <2>2
<1>5. \E j \in (IF k <= Len(layers) THEN k + 1 ELSE k) .. Len(layers) + 1 :
        Reachable(layers, j) /\ From(layers, j) \in found.forms \cup new
  <2>1. PICK j \in k .. Len(layers) + 1 : Reachable(layers, j) /\ From(layers, j) \in found.forms
    BY DEF Expanding
  <2>2. CASE k <= Len(layers) /\ j = k
    <3>1. PICK i \in k + 1 .. Len(layers) + 1 :
             Reachable(layers, i) /\ From(layers, i) \in Transformed(From(layers, k))
      BY <2>1, <2>2, TransformsFrom
    <3> HIDE DEF new
    <3> QED BY <1>4, <2>1, <2>2, <3>1
  <2>3. CASE ~(k <= Len(layers) /\ j = k)
    <3> HIDE DEF new
    <3> QED BY <2>1, <2>3
  <2> QED BY <2>2, <2>3
<1>6. \A s \in (found.forms \cup new) \ new : Transformed(s) \subseteq found.forms \cup new
  <2> HIDE DEF new
  <2> QED BY <1>4
<1> HIDE DEF new
<1> QED BY <1>1, <1>3, <1>5, <1>6 DEF Expanding

(* As many layers as there are rounds come off. *)
LEMMA LayersComeOff ==
  ASSUME NEW layers \in Seq(Kinds), Layered(layers), Len(layers) <= MaxDepth
  PROVE  <<>> \in Expand(layers)
<1> DEFINE n == Len(layers)
           Next1(k) == IF k <= n THEN k + 1 ELSE k
           f0 == Unexpanded(layers)
           f1 == Round(f0)
           f2 == Round(f1)
           f3 == Round(f2)
           f4 == Round(f3)
<1>1. n \in Nat /\ n <= 4
  BY DEF MaxDepth
<1>2. Reachable(layers, 1)
  <2> SUFFICES ASSUME 1 <= Len(layers), layers[1] = "compressed" PROVE FALSE
    BY DEF Reachable
  <2>1. "compressed" \notin CommandLayer /\ 1 \in DOMAIN layers
    BY DEF CommandLayer, Quotings, Encodings
  <2> QED BY <2>1 DEF Layered
<1>3. Expanding(layers, f0, 1)
  <2>1. From(layers, 1) = layers
    BY FromFacts
  <2> QED BY <1>2, <2>1 DEF Expanding, Unexpanded
<1> HIDE DEF f0
<1>4. Expanding(layers, f1, Next1(1))
  BY <1>1, <1>3, RoundExpands
<1> HIDE DEF f1
<1>5. Expanding(layers, f2, Next1(Next1(1)))
  BY <1>1, <1>4, RoundExpands
<1> HIDE DEF f2
<1>6. Expanding(layers, f3, Next1(Next1(Next1(1))))
  BY <1>1, <1>5, RoundExpands
<1> HIDE DEF f3
<1>7. Expanding(layers, f4, Next1(Next1(Next1(Next1(1)))))
  BY <1>1, <1>6, RoundExpands
<1> HIDE DEF f4
<1>8. Next1(Next1(Next1(Next1(1)))) = n + 1
  BY <1>1
<1>9. From(layers, n + 1) \in f4.forms
  BY <1>1, <1>7, <1>8 DEF Expanding
<1>10. From(layers, n + 1) = <<>>
  BY <1>1, FromFacts
<1> QED BY <1>9, <1>10, ExpandRounds DEF f0, f1, f2, f3, f4

(* What a command would do, by the idioms in it. *)
Idioms(command) == UNION {s.idioms : s \in Range(command.segments)}

(* A command whose layers come off raises an objection of its own class, or  *)
(* of the class of removals, which is never softened.                      *)
LEMMA DestructionRaises ==
  ASSUME NEW command, Idioms(command) \subseteq Range(Rules),
         Idioms(command) # {} \/ RmSeverity(command.segments) # 0,
         ~PrintOnly(command), <<>> \in Expand(command.layers)
  PROVE  /\ DestructiveSignal(command).score \in {90, 97}
         /\ \/ DestructiveSignal(command).type = "destructive_command"
            \/ \E i \in Idioms(command) : DestructiveSignal(command).type = i[1]
<1> DEFINE idioms == Idioms(command)
           matched == Matched(command)
           how == {0} \cup {Rules[i][2] : i \in matched}
           worst == Max(how)
           those == {i \in matched : Rules[i][2] = worst}
           best == Rules[Min(those)]
           rm == RmSeverity(command.segments)
<1>1. rm \in {0, 3, 4}
  BY RemovalSeverity
<1>2. matched \subseteq DOMAIN Rules
  BY DEF Matched
<1>3. \A i \in matched : Rules[i] \in idioms
  BY DEF Matched, Idioms
<1>4. idioms # {} => matched # {}
  <2> SUFFICES ASSUME NEW i \in idioms PROVE matched # {}
    OBVIOUS
  <2>1. PICK s \in Range(command.segments) : i \in s.idioms
    BY DEF Idioms
  <2>2. PICK n \in DOMAIN Rules : i = Rules[n]
    BY DEF Range
  <2>3. n \in matched
    BY <2>1, <2>2 DEF Matched
  <2> QED BY <2>3
<1>5. DestructiveSignal(command) =
        IF matched # {} /\ worst >= rm THEN Raise(best[1], SeverityScore[worst], worst)
        ELSE IF rm # 0 THEN Raise("destructive_command", SeverityScore[rm], rm)
        ELSE Silence
  BY DEF DestructiveSignal
<1>6. \A n \in {3, 4} : SeverityScore[n] \in {90, 97}
  BY DEF SeverityScore
<1> HIDE DEF matched, rm
<1>7. how \subseteq {0, 3, 4} /\ how # {}
  BY <1>2, RulesAreBad
<1>8. worst \in how /\ \A x \in how : x <= worst
  <2> HIDE DEF how
  <2> QED BY <1>7, WorstOf
<1>9. ASSUME matched # {}
      PROVE  worst \in {3, 4} /\ best \in idioms
  <2>1. PICK i \in matched : TRUE
    BY <1>9
  <2>2. Rules[i][2] \in how /\ Rules[i][2] \in {3, 4}
    BY <1>2, <2>1, RulesAreBad
  <2>3. worst \in {3, 4}
    <3> HIDE DEF how, worst
    <3>1. worst \in {0, 3, 4} /\ Rules[i][2] <= worst
      BY <1>7, <1>8, <2>2
    <3> QED BY <2>2, <3>1
  <2>4. those # {}
    <3> HIDE DEF worst
    <3>1. PICK j \in matched : worst = Rules[j][2]
      BY <1>8, <2>3
    <3> QED BY <3>1
  <2>5. those \subseteq Nat
    BY <1>2, RulesAreBad
  <2>6. Min(those) \in those
    <3> HIDE DEF those
    <3> QED BY <2>4, <2>5, FirstIs
  <2> QED BY <1>3, <2>3, <2>6
<1> HIDE DEF worst, best
<1>10. CASE matched # {} /\ worst >= rm
  BY <1>5, <1>6, <1>9, <1>10 DEF Raise
<1>11. CASE ~(matched # {} /\ worst >= rm)
  <2>1. rm # 0
    BY <1>1, <1>4, <1>9, <1>11 DEF rm
  <2> QED BY <1>1, <1>5, <1>6, <1>11, <2>1 DEF Raise
<1> QED BY <1>10, <1>11

(* An objection that is never softened blocks, as a taint does. *)
LEMMA FirmBlocks ==
  ASSUME NEW done, NEW rep, NEW source, NEW d \in Objectors(done, rep), rep[d].kind # "plain"
  PROVE  ~Fuse(done, rep, source).allow
<1>1. ~Softened(done, rep, source)
  BY DEF Softened
<1> QED BY <1>1 DEF Fuse, ActionBlocks

(* Whatever is an instruction or a command's destruction is seen through the *)
(* disguises that the transformations take off (defaults.py:152,            *)
(* _normalize.py:18), since both detectors are in the first tier: an        *)
(* instruction is refused; a command is refused or asked about, and refused *)
(* if it is only of classes that are never softened.                       *)
THEOREM DisguisesRefused ==
  ASSUME "injection_prompt" \in FirstTier, Plane["injection_prompt"] = "integrity",
         threshold["integrity"] <= 95, Unit >= 100,
         "destructive_command" \in FirstTier, Objects("destructive_command", 90)
  PROVE  ReviewSpec => []DisguisesSeenThrough
<1>1. Returned /\ Heard => CommandsSeenThrough
  <2> DEFINE command == request.command[1]
             idioms == Idioms(command)
             answer == Answer("destructive_command")
  <2> SUFFICES ASSUME Returned, Heard, Known, request.command # <<>>,
                      idioms # {} \/ RmSeverity(command.segments) # 0,
                      ~PrintOnly(command), Len(command.layers) <= MaxDepth
               PROVE  /\ ~Silent(verdict)
                      /\ (\A i \in idioms : i[1] \in NeverSoftenTypes \cup TaintTypes)
                           => ~verdict.allow
    BY DEF CommandsSeenThrough, Idioms
  <2>1. answer = DestructiveSignal(command)
    BY DEF Answer, Destructive
  <2>2. /\ command.layers \in Seq(Kinds) /\ Layered(command.layers)
        /\ idioms \subseteq Range(Rules)
    BY RequestAssumption DEF Heard, Known, Kinds, Idioms
  <2>3. <<>> \in Expand(command.layers)
    BY <2>2, LayersComeOff
  <2> HIDE DEF answer
  <2>4. /\ answer.score \in {90, 97}
        /\ answer.type = "destructive_command" \/ \E i \in idioms : answer.type = i[1]
    <3> HIDE DEF command
    <3>1. /\ DestructiveSignal(command).score \in {90, 97}
          /\ \/ DestructiveSignal(command).type = "destructive_command"
             \/ \E i \in Idioms(command) : DestructiveSignal(command).type = i[1]
      BY <2>2, <2>3, DestructionRaises
    <3> QED BY <2>1, <3>1
  <2>5. /\ "destructive_command" \in Objectors(ran, report)
        /\ report["destructive_command"].kind = KindOf(answer.type)
    <3>1. "destructive_command" \in ran
      BY DEF Heard, Known
    <3>2. answer.score \in Nat /\ answer.score >= 90 /\ 90 \in Nat
      BY <2>4
    <3> QED BY <3>1, <3>2, AnswerObjects DEF Known, answer
  <2>6. verdict = Fuse(ran, report, provenance)
    BY DEF Returned, Known
  <2>7. ~Silent(verdict)
    BY <2>5, <2>6, ObjectionHeard
  <2>8. ASSUME \A i \in idioms : i[1] \in NeverSoftenTypes \cup TaintTypes
        PROVE  ~verdict.allow
    <3>1. answer.type \in NeverSoftenTypes \cup TaintTypes
      <4>1. "destructive_command" \in NeverSoftenTypes
        BY DEF NeverSoftenTypes
      <4> HIDE DEF idioms
      <4> QED BY <2>4, <2>8, <4>1
    <3>2. KindOf(answer.type) # "plain"
      BY <3>1, Zenon DEF KindOf
    <3> QED BY <2>5, <2>6, <3>2, FirmBlocks
  <2> QED BY <2>7, <2>8
<1>2. ReviewSpec => []CommandsSeenThrough
  BY <1>1, HeardInit, HeardNext, ReviewReturned, PTL DEF ReviewSpec
<1> QED BY <1>2, InstructionsRefused, PTL DEF DisguisesSeenThrough
=============================================================================
