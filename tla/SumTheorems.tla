------------------------------ MODULE SumTheorems ------------------------------
(***************************************************************************)
(* What a sum over a finite set does when the set or the summands change.  *)
(* The components count money with SumFunctionOnSet and MapThenSumSet,     *)
(* folds over a recursive function; every fact here is proved from that    *)
(* recursion, with a smallest counterexample in the place of an induction  *)
(* schema.                                                                 *)
(***************************************************************************)
EXTENDS Integers, FiniteSets, FiniteSetsExt, Functions, FiniteSetTheorems,
        WellFoundedInduction, TLAPS

\* The element a fold takes next, and the equation its function satisfies.
First(s) == CHOOSE x \in s : TRUE

Adds(g, f, S) == g = [s \in SUBSET S |-> IF s = {} THEN 0
                                         ELSE f[First(s)] + g[s \ {First(s)}]]

\* Of the finite subsets of S with a property, one has no smaller one.
LEMMA SmallestSubset ==
  ASSUME NEW S, IsFiniteSet(S), NEW C \in SUBSET SUBSET S, C # {}
  PROVE  \E T \in C : \A R \in C : ~(R \subseteq T /\ R # T)
<1>1. C \subseteq FiniteSubsetsOf(S)
  BY FS_FiniteSubsetsOfFinite
<1>2. PICK T \in C : \A R \in C : <<R, T>> \notin StrictSubsetOrdering(S)
  BY <1>1, FS_StrictSubsetOrderingWellFounded, WFMin
<1> QED
  BY <1>2 DEF StrictSubsetOrdering

(* The sum of the community modules is a function that adds up to it.           *)
LEMMA SumIsFold ==
  ASSUME NEW f, NEW S
  PROVE  SumFunctionOnSet(f, S) = (CHOOSE g : Adds(g, f, S))[S]
BY DEF SumFunctionOnSet, FoldFunctionOnSet, MapThenFoldSet, Adds, First

\* Two such functions agree wherever both are defined.
LEMMA AddsUnique ==
  ASSUME NEW f, NEW S, IsFiniteSet(S), NEW R \in SUBSET S, NEW g, NEW h,
         Adds(g, f, S), Adds(h, f, R)
  PROVE  \A s \in SUBSET R : g[s] = h[s]
<1> DEFINE C == {s \in SUBSET R : g[s] # h[s]}
<1>1. SUFFICES ASSUME C # {} PROVE FALSE
  OBVIOUS
<1>2. IsFiniteSet(R)
  BY FS_Subset
<1>3. PICK s \in C : \A t \in C : ~(t \subseteq s /\ t # s)
  <2>1. C \in SUBSET SUBSET R
    OBVIOUS
  <2> HIDE DEF C
  <2> QED
    BY <1>1, <1>2, <2>1, SmallestSubset
<1>4. s # {}
  BY DEF Adds
<1>5. First(s) \in s
  BY <1>4 DEF First
<1>6. s \ {First(s)} \in SUBSET R /\ s \ {First(s)} \notin C
  BY <1>3, <1>5
<1>7. /\ g[s] = f[First(s)] + g[s \ {First(s)}]
      /\ h[s] = f[First(s)] + h[s \ {First(s)}]
  BY <1>4 DEF Adds
<1> QED
  BY <1>6, <1>7

\* There is one for every finite set.
LEMMA AddsExists ==
  ASSUME NEW f, NEW S, IsFiniteSet(S)
  PROVE  \E g : Adds(g, f, S)
<1> DEFINE C == {T \in SUBSET S : ~ \E g : Adds(g, f, T)}
<1>1. SUFFICES ASSUME C # {} PROVE FALSE
  OBVIOUS
<1>2. PICK T \in C : \A R \in C : ~(R \subseteq T /\ R # T)
  <2>1. C \in SUBSET SUBSET S
    OBVIOUS
  <2> HIDE DEF C
  <2> QED
    BY <1>1, <2>1, SmallestSubset
<1> DEFINE G(R) == CHOOSE g : Adds(g, f, R)
           g == [s \in SUBSET T |-> IF s = {} THEN 0
                    ELSE f[First(s)] + G(s \ {First(s)})[s \ {First(s)}]]
<1>3. ASSUME NEW R \in SUBSET T, R # T
      PROVE  Adds(G(R), f, R)
  <2>1. R \in SUBSET S /\ R \notin C
    BY <1>2, <1>3
  <2> QED
    BY <2>1
<1> HIDE DEF G
<1>4. ASSUME NEW s \in SUBSET T, s # T
      PROVE  g[s] = G(s)[s]
  <2>1. CASE s = {}
    BY <1>3, <1>4, <2>1 DEF Adds
  <2>2. CASE s # {}
    <3> DEFINE r == s \ {First(s)}
    <3>1. First(s) \in s
      BY <2>2 DEF First
    <3>2. r \in SUBSET s /\ r \in SUBSET T /\ r # T
      BY <3>1
    <3>3. G(s)[s] = f[First(s)] + G(s)[r]
      BY <1>3, <1>4, <2>2 DEF Adds
    <3>4. IsFiniteSet(s)
      BY FS_Subset
    <3>5. Adds(G(s), f, s) /\ Adds(G(r), f, r)
      BY <1>3, <1>4, <3>2
    <3>6. G(s)[r] = G(r)[r]
      <4> HIDE DEF r
      <4> QED
        BY <3>2, <3>4, <3>5, AddsUnique
    <3> QED
      BY <2>2, <3>3, <3>6
  <2> QED
    BY <2>1, <2>2
<1>5. Adds(g, f, T)
  <2>1. ASSUME NEW s \in SUBSET T, s # {}
        PROVE  G(s \ {First(s)})[s \ {First(s)}] = g[s \ {First(s)}]
    <3>1. First(s) \in s
      BY <2>1 DEF First
    <3>2. s \ {First(s)} \in SUBSET T /\ s \ {First(s)} # T
      BY <3>1
    <3> QED
      BY <1>4, <3>2
  <2>2. g = [s \in SUBSET T |-> IF s = {} THEN 0
                                ELSE f[First(s)] + g[s \ {First(s)}]]
    <3> DEFINE e(s) == IF s = {} THEN 0
                       ELSE f[First(s)] + G(s \ {First(s)})[s \ {First(s)}]
               d(s) == IF s = {} THEN 0 ELSE f[First(s)] + g[s \ {First(s)}]
    <3>1. \A s \in SUBSET T : e(s) = d(s)
      BY <2>1
    <3>2. [s \in SUBSET T |-> e(s)] = [s \in SUBSET T |-> d(s)]
      <4> HIDE DEF e, d
      <4> QED
        BY <3>1
    <3> QED
      BY <3>2
  <2> HIDE DEF g
  <2> QED
    BY <2>2 DEF Adds
<1> QED
  BY <1>2, <1>5

\* The recursion of a sum, over the element the fold takes first.
LEMMA SumRecursion ==
  ASSUME NEW f, NEW S, IsFiniteSet(S), S # {}
  PROVE  SumFunctionOnSet(f, S)
           = f[First(S)] + SumFunctionOnSet(f, S \ {First(S)})
<1> DEFINE r == S \ {First(S)}
           g == CHOOSE g : Adds(g, f, S)
           h == CHOOSE h : Adds(h, f, r)
<1>1. IsFiniteSet(r)
  BY FS_Subset
<1>2. Adds(g, f, S) /\ Adds(h, f, r)
  BY <1>1, AddsExists
<1>3. SumFunctionOnSet(f, S) = g[S] /\ SumFunctionOnSet(f, r) = h[r]
  BY SumIsFold
<1> HIDE DEF g, h
<1>4. g[r] = h[r]
  BY <1>2, AddsUnique
<1>5. g[S] = f[First(S)] + g[r]
  BY <1>2 DEF Adds
<1> QED
  BY <1>3, <1>4, <1>5

\* Nothing adds up to zero.
LEMMA SumEmpty ==
  ASSUME NEW f
  PROVE  SumFunctionOnSet(f, {}) = 0
<1> DEFINE g == CHOOSE g : Adds(g, f, {})
<1>1. Adds(g, f, {})
  BY FS_EmptySet, AddsExists
<1>2. SumFunctionOnSet(f, {}) = g[{}]
  BY SumIsFold
<1> HIDE DEF g
<1> QED
  BY <1>1, <1>2 DEF Adds

\* A sum of integers is one.
LEMMA SumType ==
  ASSUME NEW S, IsFiniteSet(S), NEW f, \A x \in S : f[x] \in Int
  PROVE  SumFunctionOnSet(f, S) \in Int
<1> DEFINE C == {T \in SUBSET S : SumFunctionOnSet(f, T) \notin Int}
<1>1. SUFFICES ASSUME C # {} PROVE FALSE
  OBVIOUS
<1>2. PICK T \in C : \A R \in C : ~(R \subseteq T /\ R # T)
  <2>1. C \in SUBSET SUBSET S
    OBVIOUS
  <2> HIDE DEF C
  <2> QED
    BY <1>1, <2>1, SmallestSubset
<1>3. T # {}
  BY SumEmpty
<1>4. First(T) \in T
  BY <1>3 DEF First
<1>5. SumFunctionOnSet(f, T \ {First(T)}) \in Int
  BY <1>2, <1>4
<1>6. IsFiniteSet(T)
  BY FS_Subset
<1>7. SumFunctionOnSet(f, T) = f[First(T)] + SumFunctionOnSet(f, T \ {First(T)})
  BY <1>3, <1>6, SumRecursion
<1> QED
  BY <1>4, <1>5, <1>7

\* Zeros add up to zero.
THEOREM SumZero ==
  ASSUME NEW S, IsFiniteSet(S), NEW f, \A x \in S : f[x] = 0
  PROVE  SumFunctionOnSet(f, S) = 0
<1> DEFINE C == {T \in SUBSET S : SumFunctionOnSet(f, T) # 0}
<1>1. SUFFICES ASSUME C # {} PROVE FALSE
  OBVIOUS
<1>2. PICK T \in C : \A R \in C : ~(R \subseteq T /\ R # T)
  <2>1. C \in SUBSET SUBSET S
    OBVIOUS
  <2> HIDE DEF C
  <2> QED
    BY <1>1, <2>1, SmallestSubset
<1>3. First(T) \in T
  BY SumEmpty DEF First
<1>4. SumFunctionOnSet(f, T \ {First(T)}) = 0
  BY <1>2, <1>3
<1>5. IsFiniteSet(T) /\ T # {}
  BY <1>3, FS_Subset
<1>6. SumFunctionOnSet(f, T) = f[First(T)] + SumFunctionOnSet(f, T \ {First(T)})
  BY <1>5, SumRecursion
<1> QED
  BY <1>3, <1>4, <1>6

\* The order does not matter: any new element adds what it is worth.
THEOREM SumAdd ==
  ASSUME NEW S, IsFiniteSet(S), NEW f, \A x \in S : f[x] \in Int,
         NEW T \in SUBSET S, NEW a \in S, a \notin T
  PROVE  SumFunctionOnSet(f, T \cup {a}) = SumFunctionOnSet(f, T) + f[a]
<1> DEFINE Sum(R) == SumFunctionOnSet(f, R)
           C == {R \in SUBSET S : \E x \in S \ R : Sum(R \cup {x}) # Sum(R) + f[x]}
<1>1. SUFFICES ASSUME C # {} PROVE FALSE
  OBVIOUS
<1>2. PICK R \in C : \A Q \in C : ~(Q \subseteq R /\ Q # R)
  <2>1. C \in SUBSET SUBSET S
    OBVIOUS
  <2> HIDE DEF C
  <2> QED
    BY <1>1, <2>1, SmallestSubset
<1>3. PICK x \in S \ R : Sum(R \cup {x}) # Sum(R) + f[x]
  BY <1>2
<1> DEFINE c == First(R \cup {x})
<1>4. \A Q \in SUBSET S : IsFiniteSet(Q) /\ Sum(Q) \in Int
  BY FS_Subset, SumType
<1>5. c \in R \cup {x}
  BY DEF First
<1>6. Sum(R \cup {x}) = f[c] + Sum((R \cup {x}) \ {c})
  BY <1>4, SumRecursion
<1> HIDE DEF Sum, c
<1>7. CASE c = x
  <2>1. (R \cup {x}) \ {c} = R
    BY <1>7
  <2> QED
    BY <1>3, <1>4, <1>6, <1>7, <2>1
<1>8. CASE c # x
  <2> DEFINE Q == R \ {c}
  <2>1. c \in R
    BY <1>5, <1>8
  <2>2. Q \in SUBSET S /\ Q \subseteq R /\ Q # R /\ Q \notin C
    BY <1>2, <2>1
  <2>3. (R \cup {x}) \ {c} = Q \cup {x} /\ Q \cup {c} = R
    BY <1>8, <2>1
  <2>4. Sum(Q \cup {x}) = Sum(Q) + f[x] /\ Sum(Q \cup {c}) = Sum(Q) + f[c]
    BY <1>3, <2>1, <2>2
  <2>5. /\ Sum(R \cup {x}) = f[c] + (Sum(Q) + f[x])
        /\ Sum(R) = Sum(Q) + f[c]
    BY <1>6, <2>3, <2>4
  <2>6. f[c] \in Int /\ f[x] \in Int /\ Sum(Q) \in Int
    BY <1>4, <2>1, <2>2
  <2> QED
    BY <1>3, <2>5, <2>6
<1> QED
  BY <1>7, <1>8

\* Summands that agree add up to the same.
THEOREM SumSame ==
  ASSUME NEW S, IsFiniteSet(S), NEW f, NEW g, \A x \in S : f[x] = g[x]
  PROVE  SumFunctionOnSet(f, S) = SumFunctionOnSet(g, S)
<1> DEFINE C == {T \in SUBSET S : SumFunctionOnSet(f, T) # SumFunctionOnSet(g, T)}
<1>1. SUFFICES ASSUME C # {} PROVE FALSE
  OBVIOUS
<1>2. PICK T \in C : \A R \in C : ~(R \subseteq T /\ R # T)
  <2>1. C \in SUBSET SUBSET S
    OBVIOUS
  <2> HIDE DEF C
  <2> QED
    BY <1>1, <2>1, SmallestSubset
<1>3. T # {}
  BY SumEmpty
<1>4. First(T) \in T
  BY <1>3 DEF First
<1>5. SumFunctionOnSet(f, T \ {First(T)}) = SumFunctionOnSet(g, T \ {First(T)})
  BY <1>2, <1>4
<1>6. IsFiniteSet(T)
  BY FS_Subset
<1>7. /\ SumFunctionOnSet(f, T) = f[First(T)] + SumFunctionOnSet(f, T \ {First(T)})
      /\ SumFunctionOnSet(g, T) = g[First(T)] + SumFunctionOnSet(g, T \ {First(T)})
  BY <1>3, <1>6, SumRecursion
<1> QED
  BY <1>4, <1>5, <1>7

\* Larger summands have the larger sum.
THEOREM SumMonotone ==
  ASSUME NEW S, IsFiniteSet(S), NEW f, NEW g,
         \A x \in S : f[x] \in Int /\ g[x] \in Int /\ f[x] <= g[x]
  PROVE  SumFunctionOnSet(f, S) <= SumFunctionOnSet(g, S)
<1> DEFINE C == {T \in SUBSET S : ~(SumFunctionOnSet(f, T) <= SumFunctionOnSet(g, T))}
<1>1. SUFFICES ASSUME C # {} PROVE FALSE
  OBVIOUS
<1>2. PICK T \in C : \A R \in C : ~(R \subseteq T /\ R # T)
  <2>1. C \in SUBSET SUBSET S
    OBVIOUS
  <2> HIDE DEF C
  <2> QED
    BY <1>1, <2>1, SmallestSubset
<1>3. IsFiniteSet(T)
  BY FS_Subset
<1>4. T # {}
  BY SumEmpty
<1>5. First(T) \in T
  BY <1>4 DEF First
<1> DEFINE R == T \ {First(T)}
<1>6. SumFunctionOnSet(f, R) <= SumFunctionOnSet(g, R)
  BY <1>2, <1>5
<1>7. /\ SumFunctionOnSet(f, T) = f[First(T)] + SumFunctionOnSet(f, R)
      /\ SumFunctionOnSet(g, T) = g[First(T)] + SumFunctionOnSet(g, R)
  BY <1>3, <1>4, SumRecursion
<1>8. SumFunctionOnSet(f, R) \in Int /\ SumFunctionOnSet(g, R) \in Int
  <2>1. IsFiniteSet(R)
    BY <1>3, FS_Subset
  <2> QED
    BY <2>1, SumType
<1>9. /\ f[First(T)] \in Int /\ g[First(T)] \in Int /\ f[First(T)] <= g[First(T)]
      /\ ~(SumFunctionOnSet(f, T) <= SumFunctionOnSet(g, T))
  BY <1>2, <1>5
<1> HIDE DEF R
<1> QED
  BY <1>6, <1>7, <1>8, <1>9

\* A sum of sums is the sum of both.
THEOREM SumPlus ==
  ASSUME NEW S, IsFiniteSet(S), NEW f, NEW g, NEW h,
         \A x \in S : f[x] \in Int /\ g[x] \in Int /\ h[x] = f[x] + g[x]
  PROVE  SumFunctionOnSet(h, S) = SumFunctionOnSet(f, S) + SumFunctionOnSet(g, S)
<1> DEFINE C == {T \in SUBSET S :
                   SumFunctionOnSet(h, T) # SumFunctionOnSet(f, T) + SumFunctionOnSet(g, T)}
<1>1. SUFFICES ASSUME C # {} PROVE FALSE
  OBVIOUS
<1>2. PICK T \in C : \A R \in C : ~(R \subseteq T /\ R # T)
  <2>1. C \in SUBSET SUBSET S
    OBVIOUS
  <2> HIDE DEF C
  <2> QED
    BY <1>1, <2>1, SmallestSubset
<1>3. IsFiniteSet(T)
  BY FS_Subset
<1>4. T # {}
  <2>1. SUFFICES ASSUME T = {} PROVE FALSE
    OBVIOUS
  <2>2. SumFunctionOnSet(h, T) = 0 /\ SumFunctionOnSet(f, T) = 0 /\ SumFunctionOnSet(g, T) = 0
    BY <2>1, SumEmpty
  <2>3. SumFunctionOnSet(h, T) # SumFunctionOnSet(f, T) + SumFunctionOnSet(g, T)
    BY <1>2
  <2> QED
    BY <2>2, <2>3
<1>5. First(T) \in T
  BY <1>4 DEF First
<1> DEFINE R == T \ {First(T)}
<1>6. SumFunctionOnSet(h, R) = SumFunctionOnSet(f, R) + SumFunctionOnSet(g, R)
  BY <1>2, <1>5
<1>7. /\ SumFunctionOnSet(f, T) = f[First(T)] + SumFunctionOnSet(f, R)
      /\ SumFunctionOnSet(g, T) = g[First(T)] + SumFunctionOnSet(g, R)
      /\ SumFunctionOnSet(h, T) = h[First(T)] + SumFunctionOnSet(h, R)
  BY <1>3, <1>4, SumRecursion
<1>8. SumFunctionOnSet(f, R) \in Int /\ SumFunctionOnSet(g, R) \in Int
  <2>1. IsFiniteSet(R)
    BY <1>3, FS_Subset
  <2> QED
    BY <2>1, SumType
<1>9. /\ f[First(T)] \in Int /\ g[First(T)] \in Int
      /\ h[First(T)] = f[First(T)] + g[First(T)]
      /\ SumFunctionOnSet(h, T) # SumFunctionOnSet(f, T) + SumFunctionOnSet(g, T)
  BY <1>2, <1>5
<1> HIDE DEF R
<1> QED
  BY <1>6, <1>7, <1>8, <1>9

\* Amounts add up to an amount.
THEOREM SumOfAmounts ==
  ASSUME NEW S, IsFiniteSet(S), NEW f, \A x \in S : f[x] \in Nat
  PROVE  SumFunctionOnSet(f, S) \in Nat
<1>1. PICK zero : zero = [x \in S |-> 0]
  OBVIOUS
<1>2. SumFunctionOnSet(zero, S) = 0
  BY <1>1, SumZero
<1>3. SumFunctionOnSet(zero, S) <= SumFunctionOnSet(f, S)
  BY <1>1, SumMonotone
<1>4. SumFunctionOnSet(f, S) \in Int
  BY SumType
<1> QED
  BY <1>2, <1>3, <1>4

\* Summands of zero can be left out.
THEOREM SumPart ==
  ASSUME NEW S, IsFiniteSet(S), NEW f, \A x \in S : f[x] \in Int,
         NEW P \in SUBSET S, \A x \in S \ P : f[x] = 0
  PROVE  SumFunctionOnSet(f, P) = SumFunctionOnSet(f, S)
<1> DEFINE C == {T \in SUBSET (S \ P) : SumFunctionOnSet(f, P \cup T) # SumFunctionOnSet(f, P)}
<1>1. ASSUME C # {} PROVE FALSE
  <2>1. IsFiniteSet(S \ P)
    BY FS_Subset
  <2>2. PICK T \in C : \A R \in C : ~(R \subseteq T /\ R # T)
    <3>1. C \in SUBSET SUBSET (S \ P)
      OBVIOUS
    <3> HIDE DEF C
    <3> QED
      BY <1>1, <2>1, <3>1, SmallestSubset
  <2>3. T # {}
    <3>1. SUFFICES ASSUME T = {} PROVE FALSE
      OBVIOUS
    <3>2. P \cup T = P
      BY <3>1
    <3>3. SumFunctionOnSet(f, P \cup T) # SumFunctionOnSet(f, P)
      BY <2>2
    <3> QED
      BY <3>2, <3>3
  <2>4. PICK a \in T : TRUE
    BY <2>3
  <2> DEFINE R == T \ {a}
  <2>5. SumFunctionOnSet(f, P \cup R) = SumFunctionOnSet(f, P)
    <3>1. R \in SUBSET (S \ P) /\ R \subseteq T /\ R # T
      BY <2>2, <2>4
    <3>2. R \notin C
      BY <2>2, <3>1
    <3> QED
      BY <3>1, <3>2
  <2>6. /\ (P \cup R) \cup {a} = P \cup T /\ a \notin P \cup R /\ a \in S /\ f[a] = 0
        /\ P \cup R \in SUBSET S
        /\ SumFunctionOnSet(f, P \cup T) # SumFunctionOnSet(f, P)
    BY <2>2, <2>4
  <2> HIDE DEF R
  <2>7. SumFunctionOnSet(f, (P \cup R) \cup {a}) = SumFunctionOnSet(f, P \cup R) + f[a]
    BY <2>6, SumAdd
  <2>8. SumFunctionOnSet(f, P) \in Int
    BY FS_Subset, SumType
  <2>9. SumFunctionOnSet(f, P \cup T) = SumFunctionOnSet(f, P) + 0
    BY <2>5, <2>6, <2>7
  <2> QED
    BY <2>6, <2>8, <2>9
<1>2. S \ P \notin C
  BY <1>1
<1>3. P \cup (S \ P) = S
  OBVIOUS
<1> QED
  BY <1>2, <1>3

\* A sum of which one summand changes.
THEOREM SumUpdate ==
  ASSUME NEW S, IsFiniteSet(S), NEW f, NEW g, NEW a \in S,
         \A x \in S : f[x] \in Int /\ g[x] \in Int,
         \A x \in S \ {a} : g[x] = f[x]
  PROVE  SumFunctionOnSet(g, S) = SumFunctionOnSet(f, S) - f[a] + g[a]
<1> DEFINE R == S \ {a}
<1>1. R \in SUBSET S /\ a \notin R /\ R \cup {a} = S
  OBVIOUS
<1>2. IsFiniteSet(R)
  BY FS_Subset
<1>3. SumFunctionOnSet(f, R) = SumFunctionOnSet(g, R)
  BY <1>2, SumSame
<1>4. SumFunctionOnSet(f, R) \in Int
  BY <1>2, SumType
<1> HIDE DEF R
<1>5. /\ SumFunctionOnSet(f, R \cup {a}) = SumFunctionOnSet(f, R) + f[a]
      /\ SumFunctionOnSet(g, R \cup {a}) = SumFunctionOnSet(g, R) + g[a]
  BY <1>1, SumAdd
<1>6. f[a] \in Int /\ g[a] \in Int
  OBVIOUS
<1>7. /\ SumFunctionOnSet(f, S) = SumFunctionOnSet(f, R) + f[a]
      /\ SumFunctionOnSet(g, S) = SumFunctionOnSet(f, R) + g[a]
  BY <1>1, <1>3, <1>5
<1> QED
  BY <1>4, <1>6, <1>7

\* A function of whole numbers has a greatest value on a finite set.
THEOREM Greatest ==
  ASSUME NEW S, IsFiniteSet(S), S # {}, NEW f, \A x \in S : f[x] \in Int
  PROVE  \E x \in S : \A y \in S : f[y] <= f[x]
<1> DEFINE C == {T \in SUBSET S : T # {} /\ ~ \E x \in T : \A y \in T : f[y] <= f[x]}
<1>1. SUFFICES ASSUME C # {} PROVE FALSE
  OBVIOUS
<1>2. PICK T \in C : \A R \in C : ~(R \subseteq T /\ R # T)
  <2>1. C \in SUBSET SUBSET S
    OBVIOUS
  <2> HIDE DEF C
  <2> QED
    BY <1>1, <2>1, SmallestSubset
<1>3. PICK a \in T : TRUE
  OBVIOUS
<1> DEFINE R == T \ {a}
<1>4. R \notin C
  BY <1>2, <1>3
<1>5. \A x \in T : x = a \/ x \in R
  OBVIOUS
<1>6. CASE R = {}
  <2>1. \A y \in T : f[y] <= f[a]
    BY <1>3, <1>5, <1>6
  <2> QED
    BY <1>3, <2>1
<1>7. CASE R # {}
  <2>1. PICK x \in R : \A y \in R : f[y] <= f[x]
    BY <1>4, <1>7
  <2>2. CASE f[a] <= f[x]
    <3>1. \A y \in T : f[y] <= f[x]
      BY <1>5, <2>1, <2>2
    <3> QED
      BY <2>1, <3>1
  <2>3. CASE ~(f[a] <= f[x])
    <3>1. ASSUME NEW y \in T PROVE f[y] <= f[a]
      <4>1. f[a] \in Int /\ f[x] \in Int /\ f[y] \in Int
        BY <1>3, <2>1
      <4> HIDE DEF R
      <4> QED
        BY <1>5, <2>1, <2>3, <4>1
    <3> QED
      BY <1>3, <3>1
  <2> QED
    BY <2>2, <2>3
<1> QED
  BY <1>6, <1>7

\* The least and the greatest number of a finite set are in it.
THEOREM MaxMin ==
  ASSUME NEW S, IsFiniteSet(S), S # {}, S \subseteq Int
  PROVE  /\ Max(S) \in S /\ \A x \in S : x <= Max(S)
         /\ Min(S) \in S /\ \A x \in S : Min(S) <= x
<1> DEFINE f == [x \in S |-> x]
           g == [x \in S |-> 0 - x]
<1>1. \A x \in S : f[x] \in Int /\ g[x] \in Int
  OBVIOUS
<1>2. /\ \E x \in S : \A y \in S : f[y] <= f[x]
      /\ \E x \in S : \A y \in S : g[y] <= g[x]
  <2> HIDE DEF f, g
  <2> QED
    BY <1>1, Greatest
<1>3. \E x \in S : \A y \in S : x >= y
  BY <1>2
<1>4. \E x \in S : \A y \in S : x =< y
  <2>1. PICK x \in S : \A y \in S : g[y] <= g[x]
    BY <1>2
  <2>2. ASSUME NEW y \in S PROVE x =< y
    <3>1. 0 - y <= 0 - x /\ x \in Int /\ y \in Int
      BY <2>1
    <3> QED
      BY <3>1
  <2> QED
    BY <2>2
<1> QED
  BY <1>3, <1>4 DEF Max, Min
================================================================================
