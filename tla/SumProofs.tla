------------------------------ MODULE SumProofs ------------------------------
(***************************************************************************)
(* The sum of naturals over a finite set, as MapThenSumSet takes it: a     *)
(* recursive function over the subsets, which removes some element at each *)
(* step.  The library states its induction principles for operators, so    *)
(* the inductions here are over sets of naturals (NatSetInduction) and the *)
(* summands are the values of a function.  Used for the session rows of    *)
(* the stream service and the run rows of the rollup service.              *)
(***************************************************************************)
EXTENDS Integers, FiniteSets, FiniteSetsExt, FiniteSetTheorems,
        WellFoundedInduction, TLAPS

Total(w, S) == MapThenSumSet(LAMBDA i : w[i], S)

\* The element that the fold removes from s.
Picked(s) == CHOOSE x \in s : TRUE

\* One step of the fold, and the functions that satisfy its equation.
SumStep(w, g, s) == IF s = {} THEN 0 ELSE w[Picked(s)] + g[s \ {Picked(s)}]

IsSum(g, w, S) == g = [s \in SUBSET S |-> SumStep(w, g, s)]

\* Induction over the naturals for a set instead of a predicate.
LEMMA NatSetInduction ==
  ASSUME NEW A, 0 \in A, \A n \in Nat : n \in A => n + 1 \in A
  PROVE  Nat \subseteq A
<1> DEFINE C == {n \in Nat : n \notin A}
<1>1. SUFFICES ASSUME C # {} PROVE FALSE
  OBVIOUS
<1>2. \E x \in C : \A y \in C : ~(<<y, x>> \in OpToRel(<, Nat))
  BY <1>1, WFMin, NatLessThanWellFounded
<1>3. PICK x \in C : \A y \in C : ~(<<y, x>> \in OpToRel(<, Nat))
  BY <1>2
<1>4. x \in Nat /\ x # 0 /\ x - 1 \in Nat /\ x - 1 < x
  OBVIOUS
<1>5. x - 1 \notin C
  BY <1>3, <1>4 DEF OpToRel
<1>6. x - 1 \in A /\ (x - 1) + 1 = x
  BY <1>4, <1>5
<1>7. QED
  BY <1>4, <1>6

\* A non-empty finite set without one of its elements has one element less.
LEMMA RemoveOne ==
  ASSUME NEW S, IsFiniteSet(S), NEW s \in SUBSET S, NEW x \in s
  PROVE  /\ IsFiniteSet(s) /\ IsFiniteSet(s \ {x})
         /\ Cardinality(s) \in Nat /\ Cardinality(s \ {x}) \in Nat
         /\ Cardinality(s) = Cardinality(s \ {x}) + 1
<1>1. IsFiniteSet(s)
  BY FS_Subset
<1>2. IsFiniteSet(s \ {x}) /\ Cardinality(s \ {x}) = Cardinality(s) - 1
  BY <1>1, FS_RemoveElement
<1>3. QED
  BY <1>1, <1>2, FS_CardinalityType

LEMMA PickedIsElement ==
  ASSUME NEW s, s # {}
  PROVE  Picked(s) \in s
BY DEF Picked

\* The fold's equation has a solution.
LEMMA SumExists ==
  ASSUME NEW S, IsFiniteSet(S), NEW w, \A i \in S : w[i] \in Nat
  PROVE  \E g \in [SUBSET S -> Nat] : IsSum(g, w, S)
<1> DEFINE Solves(g, n) ==
             \A s \in SUBSET S : Cardinality(s) < n => g[s] = SumStep(w, g, s)
           A == {n \in Nat : \E g \in [SUBSET S -> Nat] : Solves(g, n)}
<1>0. \A s \in SUBSET S : IsFiniteSet(s) /\ Cardinality(s) \in Nat
  BY FS_Subset, FS_CardinalityType
<1>1. 0 \in A
  <2>1. [s \in SUBSET S |-> 0] \in [SUBSET S -> Nat]
    OBVIOUS
  <2>2. Solves([s \in SUBSET S |-> 0], 0)
    BY <1>0
  <2>3. QED
    BY <2>1, <2>2
<1>2. ASSUME NEW n \in Nat, n \in A PROVE n + 1 \in A
  <2>1. PICK g \in [SUBSET S -> Nat] : Solves(g, n)
    BY <1>2
  <2> DEFINE h == [s \in SUBSET S |->
                     IF Cardinality(s) = n THEN SumStep(w, g, s) ELSE g[s]]
  <2>2. ASSUME NEW s \in SUBSET S PROVE SumStep(w, g, s) \in Nat
    <3>1. CASE s = {}
      BY <3>1 DEF SumStep
    <3>2. CASE s # {}
      <4>1. w[Picked(s)] \in Nat /\ g[s \ {Picked(s)}] \in Nat
        BY <3>2, PickedIsElement
      <4>2. QED
        BY <3>2, <4>1 DEF SumStep
    <3>3. QED
      BY <3>1, <3>2
  <2>3. h \in [SUBSET S -> Nat]
    BY <2>2
  <2>4. ASSUME NEW s \in SUBSET S, Cardinality(s) < n + 1
        PROVE  h[s] = SumStep(w, h, s)
    <3>1. h[s] = SumStep(w, g, s)
      <4>1. CASE Cardinality(s) = n
        BY <4>1
      <4>2. CASE Cardinality(s) # n
        <5>1. Cardinality(s) < n
          BY <1>0, <2>4, <4>2
        <5>2. g[s] = SumStep(w, g, s)
          BY <2>1, <5>1
        <5>3. QED
          BY <4>2, <5>2
      <4>3. QED
        BY <4>1, <4>2
    <3>2. CASE s = {}
      BY <3>1, <3>2 DEF SumStep
    <3>3. CASE s # {}
      <4>1. /\ s \ {Picked(s)} \in SUBSET S
            /\ Cardinality(s \ {Picked(s)}) # n
        BY <1>0, <2>4, <3>3, PickedIsElement, RemoveOne
      <4>2. h[s \ {Picked(s)}] = g[s \ {Picked(s)}]
        BY <4>1
      <4>3. QED
        BY <3>1, <3>3, <4>2 DEF SumStep
    <3>4. QED
      BY <3>2, <3>3
  <2>5. Solves(h, n + 1)
    BY <2>4
  <2> HIDE DEF h
  <2>6. QED
    BY <2>3, <2>5
<1>3. Nat \subseteq A
  <2> HIDE DEF A
  <2>1. QED
    BY <1>1, <1>2, NatSetInduction
<1>4. Cardinality(S) + 1 \in Nat
  BY FS_CardinalityType
<1>5. PICK g \in [SUBSET S -> Nat] : Solves(g, Cardinality(S) + 1)
  BY <1>3, <1>4
<1>6. ASSUME NEW s \in SUBSET S PROVE g[s] = SumStep(w, g, s)
  <2>1. Cardinality(s) <= Cardinality(S)
    BY FS_Subset
  <2>2. QED
    BY <1>0, <1>5, <2>1, FS_CardinalityType
<1>7. g = [s \in SUBSET S |-> SumStep(w, g, s)]
  BY <1>6
<1>8. QED
  BY <1>7 DEF IsSum

\* Its solutions for equal summands agree on the sets both are defined on.
LEMMA SumUnique ==
  ASSUME NEW S, IsFiniteSet(S), NEW T \in SUBSET S,
         NEW w, NEW v, \A i \in T : w[i] = v[i],
         NEW g, IsSum(g, w, S), NEW h, IsSum(h, v, T)
  PROVE  \A s \in SUBSET T : g[s] = h[s]
<1> DEFINE A == {n \in Nat :
             \A s \in SUBSET T : Cardinality(s) < n => g[s] = h[s]}
<1>0. \A s \in SUBSET T : IsFiniteSet(s) /\ Cardinality(s) \in Nat
  BY FS_Subset, FS_CardinalityType
<1>1. 0 \in A
  BY <1>0
<1>2. ASSUME NEW n \in Nat, n \in A PROVE n + 1 \in A
  <2>1. ASSUME NEW s \in SUBSET T, Cardinality(s) < n + 1
        PROVE  g[s] = h[s]
    <3>1. g[s] = SumStep(w, g, s) /\ h[s] = SumStep(v, h, s)
      BY DEF IsSum
    <3>2. CASE s = {}
      BY <3>1, <3>2 DEF SumStep
    <3>3. CASE s # {}
      <4>1. Picked(s) \in s
        BY <3>3, PickedIsElement
      <4>2. Cardinality(s \ {Picked(s)}) < n
        BY <2>1, <4>1, RemoveOne
      <4>3. g[s \ {Picked(s)}] = h[s \ {Picked(s)}]
        BY <1>2, <4>2
      <4>4. w[Picked(s)] = v[Picked(s)]
        BY <4>1
      <4>5. QED
        BY <3>1, <3>3, <4>3, <4>4 DEF SumStep
    <3>4. QED
      BY <3>2, <3>3
  <2>2. QED
    BY <2>1
<1>3. Nat \subseteq A
  <2> HIDE DEF A
  <2>1. QED
    BY <1>1, <1>2, NatSetInduction
<1>4. ASSUME NEW s \in SUBSET T PROVE g[s] = h[s]
  <2>1. Cardinality(s) + 1 \in A /\ Cardinality(s) < Cardinality(s) + 1
    BY <1>0, <1>3
  <2>2. QED
    BY <2>1
<1>5. QED
  BY <1>4

\* Total is the value of every solution at the whole set.
LEMMA TotalIsSum ==
  ASSUME NEW S, IsFiniteSet(S), NEW w, \A i \in S : w[i] \in Nat
  PROVE  /\ Total(w, S) \in Nat
         /\ \A R, g : /\ IsFiniteSet(R) /\ S \subseteq R
                      /\ IsSum(g, w, R)
                      => Total(w, S) = g[S]
<1> DEFINE c == CHOOSE g : IsSum(g, w, S)
<1>1. Total(w, S) = c[S]
  BY DEF Total, MapThenSumSet, MapThenFoldSet, IsSum, SumStep, Picked
<1>2. PICK g \in [SUBSET S -> Nat] : IsSum(g, w, S)
  BY SumExists
<1>3. IsSum(c, w, S)
  BY <1>2
<1>4. g[S] = c[S]
  BY <1>2, <1>3, SumUnique
<1>5. ASSUME NEW R, NEW h, IsFiniteSet(R), S \subseteq R, IsSum(h, w, R)
      PROVE  h[S] = c[S]
  <2> HIDE DEF c
  <2>1. QED
    BY <1>3, <1>5, SumUnique
<1>6. QED
  BY <1>1, <1>2, <1>4, <1>5

----------------------------------------------------------------------------
(***************************************************************************)
(* What the proofs use of a sum.                                           *)
(***************************************************************************)
\* Equal summands have equal sums.
LEMMA TotalSame ==
  ASSUME NEW S, IsFiniteSet(S),
         NEW w, \A i \in S : w[i] \in Nat,
         NEW v, \A i \in S : v[i] = w[i]
  PROVE  Total(v, S) = Total(w, S)
<1>1. PICK g \in [SUBSET S -> Nat] : IsSum(g, w, S)
  BY SumExists
<1>2. \A i \in S : v[i] \in Nat
  OBVIOUS
<1>3. PICK h \in [SUBSET S -> Nat] : IsSum(h, v, S)
  BY <1>2, SumExists
<1>4. h[S] = g[S]
  BY <1>1, <1>3, SumUnique
<1>5. QED
  BY <1>1, <1>2, <1>3, <1>4, TotalIsSum

LEMMA TotalOfNothing ==
  ASSUME NEW w
  PROVE  Total(w, {}) = 0
<1>1. IsFiniteSet({}) /\ \A i \in {} : w[i] \in Nat
  BY FS_EmptySet
<1>2. PICK g \in [SUBSET {} -> Nat] : IsSum(g, w, {})
  BY <1>1, SumExists
<1>3. g[{}] = 0
  BY <1>2 DEF IsSum, SumStep
<1>4. QED
  BY <1>1, <1>2, <1>3, TotalIsSum

\* Any element may be taken out, not only the one the fold picks.
LEMMA TotalWithout ==
  ASSUME NEW S, IsFiniteSet(S), NEW w, \A i \in S : w[i] \in Nat, NEW x \in S
  PROVE  /\ Total(w, S) = w[x] + Total(w, S \ {x})
         /\ Total(w, S \ {x}) \in Nat
<1> PICK g \in [SUBSET S -> Nat] : IsSum(g, w, S)
  BY SumExists
<1> DEFINE A == {n \in Nat :
             \A s \in SUBSET S : Cardinality(s) < n =>
               \A y \in s : g[s] = w[y] + g[s \ {y}]}
<1>0. \A s \in SUBSET S : IsFiniteSet(s) /\ Cardinality(s) \in Nat
  BY FS_Subset, FS_CardinalityType
<1>1. 0 \in A
  BY <1>0
<1>2. ASSUME NEW n \in Nat, n \in A PROVE n + 1 \in A
  <2>1. ASSUME NEW s \in SUBSET S, Cardinality(s) < n + 1, NEW y \in s
        PROVE  g[s] = w[y] + g[s \ {y}]
    <3> DEFINE c == Picked(s)
    <3>1. c \in s /\ g[s] = w[c] + g[s \ {c}]
      BY PickedIsElement DEF IsSum, SumStep
    <3>2. CASE c = y
      BY <3>1, <3>2
    <3>3. CASE c # y
      <4> HIDE DEF c
      <4>0. \A z \in s : Cardinality(s \ {z}) < n
        <5>1. \A z \in s : /\ Cardinality(s \ {z}) \in Nat
                            /\ Cardinality(s) = Cardinality(s \ {z}) + 1
          BY RemoveOne
        <5>2. QED
          BY <2>1, <5>1
      <4>1. /\ Cardinality(s \ {c}) < n /\ y \in s \ {c}
            /\ Cardinality(s \ {y}) < n /\ c \in s \ {y}
        BY <3>1, <3>3, <4>0
      <4>2. /\ g[s \ {c}] = w[y] + g[(s \ {c}) \ {y}]
            /\ g[s \ {y}] = w[c] + g[(s \ {y}) \ {c}]
        <5>1. s \ {c} \in SUBSET S /\ s \ {y} \in SUBSET S
          OBVIOUS
        <5>2. QED
          BY <1>2, <4>1, <5>1
      <4>3. (s \ {c}) \ {y} = (s \ {y}) \ {c}
        OBVIOUS
      <4>4. w[c] \in Nat /\ w[y] \in Nat /\ g[(s \ {c}) \ {y}] \in Nat
        BY <3>1
      <4>5. g[s] = w[c] + (w[y] + g[(s \ {c}) \ {y}])
        BY <3>1, <4>2
      <4>6. w[y] + g[s \ {y}] = w[y] + (w[c] + g[(s \ {c}) \ {y}])
        BY <4>2, <4>3
      <4>7. QED
        BY <4>4, <4>5, <4>6
    <3>4. QED
      BY <3>2, <3>3
  <2>2. QED
    BY <2>1
<1>3. Nat \subseteq A
  <2> HIDE DEF A
  <2>1. QED
    BY <1>1, <1>2, NatSetInduction
<1>4. ASSUME NEW s \in SUBSET S, NEW y \in s
      PROVE  g[s] = w[y] + g[s \ {y}]
  <2>1. Cardinality(s) + 1 \in A /\ Cardinality(s) < Cardinality(s) + 1
    BY <1>0, <1>3
  <2>2. QED
    BY <2>1
<1>5. g[S] = w[x] + g[S \ {x}]
  BY <1>4
<1>6. IsFiniteSet(S \ {x}) /\ \A i \in S \ {x} : w[i] \in Nat
  BY FS_RemoveElement
<1>7. Total(w, S) = g[S] /\ Total(w, S \ {x}) = g[S \ {x}]
  BY <1>6, TotalIsSum
<1>8. QED
  BY <1>5, <1>6, <1>7, TotalIsSum

\* A summand that grows by d makes the sum grow by d.
LEMMA TotalGrows ==
  ASSUME NEW S, IsFiniteSet(S),
         NEW w, \A i \in S : w[i] \in Nat,
         NEW v, NEW x \in S, NEW d \in Nat, v[x] = w[x] + d,
         \A i \in S \ {x} : v[i] = w[i]
  PROVE  Total(v, S) = Total(w, S) + d
<1>1. \A i \in S : v[i] \in Nat
  OBVIOUS
<1>2. Total(w, S) = w[x] + Total(w, S \ {x}) /\ Total(w, S \ {x}) \in Nat
  BY TotalWithout
<1>3. Total(v, S) = v[x] + Total(v, S \ {x})
  BY <1>1, TotalWithout
<1>4. Total(v, S \ {x}) = Total(w, S \ {x})
  BY FS_RemoveElement, TotalSame
<1>5. w[x] \in Nat
  OBVIOUS
<1>6. QED
  BY <1>2, <1>3, <1>4, <1>5

\* Nothing but zeros adds up to zero.
LEMMA TotalOfZeros ==
  ASSUME NEW S, IsFiniteSet(S), NEW w, \A i \in S : w[i] = 0
  PROVE  Total(w, S) = 0
<1>1. \A i \in S : w[i] \in Nat
  OBVIOUS
<1>2. PICK g \in [SUBSET S -> Nat] : IsSum(g, w, S)
  BY <1>1, SumExists
<1> DEFINE zero == [s \in SUBSET S |-> 0]
<1>3. IsSum(zero, w, S)
  <2>1. ASSUME NEW s \in SUBSET S PROVE SumStep(w, zero, s) = 0
    <3>1. CASE s = {}
      BY <3>1 DEF SumStep
    <3>2. CASE s # {}
      <4>1. w[Picked(s)] = 0 /\ zero[s \ {Picked(s)}] = 0
        BY <3>2, PickedIsElement
      <4>2. QED
        BY <3>2, <4>1 DEF SumStep
    <3>3. QED
      BY <3>1, <3>2
  <2>2. QED
    BY <2>1 DEF IsSum
<1>4. Total(w, S) = zero[S]
  <2> HIDE DEF zero
  <2>1. QED
    BY <1>1, <1>3, TotalIsSum
<1>5. QED
  BY <1>4

\* A set cut into the parts of a function's values: the sizes of the parts
\* add up to the size of what is cut.
LEMMA TotalOfParts ==
  ASSUME NEW B, IsFiniteSet(B), NEW f, NEW K, IsFiniteSet(K), NEW w,
         \A k \in K : w[k] = Cardinality({t \in B : f[t] = k})
  PROVE  Total(w, K) = Cardinality({t \in B : f[t] \in K})
<1> DEFINE Part(J) == {t \in B : f[t] \in J}
           A == {n \in Nat : \A J \in SUBSET K :
                   Cardinality(J) < n => Total(w, J) = Cardinality(Part(J))}
<1>0. /\ \A J \in SUBSET K : IsFiniteSet(J) /\ Cardinality(J) \in Nat
      /\ \A C \in SUBSET B : IsFiniteSet(C) /\ Cardinality(C) \in Nat
  BY FS_Subset, FS_CardinalityType
<1>1. \A k \in K : w[k] \in Nat
  <2>1. SUFFICES ASSUME NEW k \in K PROVE w[k] \in Nat
    OBVIOUS
  <2>2. {t \in B : f[t] = k} \in SUBSET B
    OBVIOUS
  <2>3. QED
    BY <1>0, <2>2
<1>2. 0 \in A
  BY <1>0
<1>3. ASSUME NEW n \in Nat, n \in A PROVE n + 1 \in A
  <2>1. ASSUME NEW J \in SUBSET K, Cardinality(J) < n + 1
        PROVE  Total(w, J) = Cardinality(Part(J))
    <3>1. CASE J = {}
      <4>1. Part(J) = {}
        BY <3>1
      <4>2. QED
        BY <3>1, <4>1, TotalOfNothing, FS_EmptySet
    <3>2. CASE J # {}
      <4>1. PICK k \in J : TRUE
        BY <3>2
      <4> DEFINE rest == J \ {k}
                 one == {t \in B : f[t] = k}
      <4>2. IsFiniteSet(J) /\ (\A i \in J : w[i] \in Nat)
        BY <1>0, <1>1
      <4>3. Total(w, J) = w[k] + Total(w, rest)
        BY <4>2, TotalWithout
      <4>4. Total(w, rest) = Cardinality(Part(rest))
        <5>1. Cardinality(rest) < n /\ rest \in SUBSET K
          <6>1. /\ Cardinality(rest) \in Nat
                /\ Cardinality(J) = Cardinality(rest) + 1
            BY <4>2, RemoveOne
          <6>2. QED
            BY <2>1, <6>1
        <5>2. QED
          BY <1>3, <5>1
      <4>5. /\ Part(J) = one \cup Part(rest) /\ one \cap Part(rest) = {}
            /\ one \in SUBSET B /\ Part(rest) \in SUBSET B
        OBVIOUS
      <4>6. Cardinality(Part(J)) = Cardinality(one) + Cardinality(Part(rest))
        <5> HIDE DEF one, Part, rest
        <5>1. Cardinality(one \cup Part(rest))
                = Cardinality(one) + Cardinality(Part(rest))
                  - Cardinality(one \cap Part(rest))
          BY <1>0, <4>5, FS_Union
        <5>2. Cardinality(one \cap Part(rest)) = 0
          BY <4>5, FS_EmptySet
        <5>3. Cardinality(one) \in Nat /\ Cardinality(Part(rest)) \in Nat
          BY <1>0, <4>5
        <5>4. QED
          BY <4>5, <5>1, <5>2, <5>3
      <4>7. w[k] = Cardinality(one)
        OBVIOUS
      <4> HIDE DEF one, rest, Part
      <4>8. QED
        BY <4>3, <4>4, <4>6, <4>7
    <3>3. QED
      BY <3>1, <3>2
  <2> HIDE DEF Part
  <2>2. QED
    BY <2>1
<1>4. Nat \subseteq A
  <2> HIDE DEF A
  <2>1. QED
    BY <1>2, <1>3, NatSetInduction
<1>5. Cardinality(K) + 1 \in A /\ Cardinality(K) < Cardinality(K) + 1
  BY <1>0, <1>4
<1> HIDE DEF Part
<1>6. Total(w, K) = Cardinality(Part(K))
  BY <1>5
<1>7. QED
  BY <1>6 DEF Part

=============================================================================
