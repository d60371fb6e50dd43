------------------------------ MODULE SetLemmas ------------------------------
(***************************************************************************)
(* Facts about finite sets that the proofs of several components need: the *)
(* least and the greatest of finitely many numbers, and the sum of a       *)
(* function over a finite set, one element at a time.  Each is proved from *)
(* a counterexample that is minimal.                                       *)
(***************************************************************************)
EXTENDS FiniteSetTheorems, TLAPS

(* Of finitely many sets one contains no other. *)
LEMMA MinimalSet ==
  ASSUME NEW S, IsFiniteSet(S), NEW C \in SUBSET (SUBSET S), C # {}
  PROVE  \E T \in C : \A U \in C : U \subseteq T => U = T
<1>1. IsWellFoundedOn(StrictSubsetOrdering(S), SUBSET S)
  BY FS_StrictSubsetOrderingWellFounded, FS_FiniteSubsetsOfFinite
<1>2. PICK T \in C : \A U \in C : <<U, T>> \notin StrictSubsetOrdering(S)
  BY <1>1, WFMin
<1> QED
  BY <1>2 DEF StrictSubsetOrdering

(* Counting two sets that have nothing in common. *)
LEMMA CardinalityDisjoint ==
  ASSUME NEW S, IsFiniteSet(S), NEW T, IsFiniteSet(T), S \intersect T = {}
  PROVE  /\ IsFiniteSet(S \union T)
         /\ Cardinality(S \union T) = Cardinality(S) + Cardinality(T)
<1>1. Cardinality(S \intersect T) = 0
  BY FS_EmptySet
<1>2. Cardinality(S) \in Nat /\ Cardinality(T) \in Nat
  BY FS_CardinalityType
<1>3. /\ IsFiniteSet(S \union T)
      /\ Cardinality(S \union T) = Cardinality(S) + Cardinality(T) - Cardinality(S \intersect T)
  BY FS_Union
<1> QED
  BY <1>1, <1>2, <1>3

(* Finitely many numbers have a least and a greatest one. *)
LEMMA LeastOf ==
  ASSUME NEW S, IsFiniteSet(S), S # {}, \A x \in S : x \in Nat
  PROVE  \E m \in S : \A x \in S : m <= x
<1> DEFINE below(a) == {q \in S : q < a}
           C == {below(a) : a \in S}
<1>1. PICK T \in C : \A U \in C : U \subseteq T => U = T
  <2>1. C \in SUBSET (SUBSET S) /\ C # {}
    OBVIOUS
  <2> HIDE DEF C
  <2> QED
    BY <2>1, MinimalSet
<1>2. PICK m \in S : T = below(m)
  OBVIOUS
<1>3. ASSUME NEW x \in S, x < m PROVE FALSE
  <2>1. below(x) \subseteq below(m)
    BY <1>3
  <2>2. below(x) = below(m)
    BY <2>1, <1>1, <1>2
  <2>3. x \in below(m) /\ x \notin below(x)
    BY <1>3
  <2> QED
    BY <2>2, <2>3
<1> QED
  BY <1>3

LEMMA GreatestOf ==
  ASSUME NEW S, IsFiniteSet(S), S # {}, \A x \in S : x \in Nat
  PROVE  \E m \in S : \A x \in S : x <= m
<1> DEFINE above(a) == {q \in S : q > a}
           C == {above(a) : a \in S}
<1>1. PICK T \in C : \A U \in C : U \subseteq T => U = T
  <2>1. C \in SUBSET (SUBSET S) /\ C # {}
    OBVIOUS
  <2> HIDE DEF C
  <2> QED
    BY <2>1, MinimalSet
<1>2. PICK m \in S : T = above(m)
  OBVIOUS
<1>3. ASSUME NEW x \in S, x > m PROVE FALSE
  <2>1. above(x) \subseteq above(m)
    BY <1>3
  <2>2. above(x) = above(m)
    BY <2>1, <1>1, <1>2
  <2>3. x \in above(m) /\ x \notin above(x)
    BY <1>3
  <2> QED
    BY <2>2, <2>3
<1> QED
  BY <1>3

-----------------------------------------------------------------------------

Any(s) == CHOOSE x \in s : TRUE

(* g computes the sum of f over each subset of S as the fold of the library *)
(* does.                                                                    *)
IsSum(f, S, g) ==
  g = [s \in SUBSET S |-> IF s = {} THEN 0 ELSE f[Any(s)] + g[s \ {Any(s)}]]

TheSum(f, S) == CHOOSE g : IsSum(f, S, g)

LEMMA SumUnfold ==
  ASSUME NEW f, NEW S
  PROVE  SumFunctionOnSet(f, S) = TheSum(f, S)[S]
BY DEF SumFunctionOnSet, FoldFunctionOnSet, MapThenFoldSet, TheSum, IsSum, Any

(* Two computations agree where both are defined. *)
LEMMA SumsAgree ==
  ASSUME NEW f, NEW S, IsFiniteSet(S), NEW T, NEW g, NEW h, IsSum(f, S, g), IsSum(f, T, h),
         S \subseteq T
  PROVE  \A s \in SUBSET S : g[s] = h[s]
<1> DEFINE C == {s \in SUBSET S : g[s] # h[s]}
<1> SUFFICES ASSUME C # {} PROVE FALSE
  OBVIOUS
<1>1. PICK s \in C : \A t \in C : t \subseteq s => t = s
  <2>1. C \in SUBSET (SUBSET S)
    OBVIOUS
  <2> HIDE DEF C
  <2> QED
    BY <2>1, MinimalSet
<1>2. s # {}
  BY DEF IsSum
<1>3. Any(s) \in s
  BY <1>2 DEF Any
<1>4. s \ {Any(s)} \notin C
  BY <1>1, <1>3
<1>5. g[s \ {Any(s)}] = h[s \ {Any(s)}]
  BY <1>4
<1>6. g[s] = f[Any(s)] + g[s \ {Any(s)}]
  BY <1>2 DEF IsSum
<1>7. h[s] = f[Any(s)] + h[s \ {Any(s)}]
  BY <1>2 DEF IsSum
<1> QED
  BY <1>5, <1>6, <1>7

(* The fold of a finite set is well defined. *)
LEMMA SumExists ==
  ASSUME NEW f, NEW S, IsFiniteSet(S)
  PROVE  IsSum(f, S, TheSum(f, S))
<1> DEFINE C == {T \in SUBSET S : ~\E g : IsSum(f, T, g)}
<1> SUFFICES ASSUME C # {} PROVE FALSE
  BY DEF TheSum
<1>1. PICK T \in C : \A U \in C : U \subseteq T => U = T
  <2>1. C \in SUBSET (SUBSET S)
    OBVIOUS
  <2> HIDE DEF C
  <2> QED
    BY <2>1, MinimalSet
<1> DEFINE of(s) == IF s = {} THEN 0 ELSE f[Any(s)] + TheSum(f, s \ {Any(s)})[s \ {Any(s)}]
           g == [s \in SUBSET T |-> of(s)]
<1>2. ASSUME NEW s \in SUBSET T, s # T
      PROVE  /\ IsSum(f, s, TheSum(f, s)) /\ IsFiniteSet(s)
             /\ TheSum(f, s)[s] = of(s)
  <2>1. \A t \in SUBSET T : t # T => IsSum(f, t, TheSum(f, t)) /\ IsFiniteSet(t)
    <3>1. ASSUME NEW t \in SUBSET T, t # T
          PROVE  \E k : IsSum(f, t, k)
      BY <1>1, <3>1
    <3> QED
      BY <3>1, FS_Subset DEF TheSum
  <2>2. CASE s = {}
    BY <2>1, <2>2 DEF IsSum
  <2>3. CASE s # {}
    <3> DEFINE u == s \ {Any(s)}
    <3>1. Any(s) \in s
      BY <2>3 DEF Any
    <3>2. u \in SUBSET T /\ u # T /\ u \subseteq s
      BY <3>1, <1>2
    <3>3. IsSum(f, s, TheSum(f, s)) /\ IsSum(f, u, TheSum(f, u)) /\ IsFiniteSet(u)
      BY <2>1, <3>2, <1>2
    <3>4. TheSum(f, u)[u] = TheSum(f, s)[u]
      BY <3>2, <3>3, SumsAgree
    <3>5. TheSum(f, s)[s] = f[Any(s)] + TheSum(f, s)[u]
      BY <3>3, <2>3 DEF IsSum
    <3> QED
      BY <2>1, <1>2, <2>3, <3>4, <3>5
  <2> QED
    BY <2>2, <2>3
<1>3. IsSum(f, T, g)
  <2>1. ASSUME NEW s \in SUBSET T, s # {}
        PROVE  g[s] = f[Any(s)] + g[s \ {Any(s)}]
    <3>1. Any(s) \in s
      BY <2>1 DEF Any
    <3>2. s \ {Any(s)} \in SUBSET T /\ s \ {Any(s)} # T
      BY <3>1
    <3>3. TheSum(f, s \ {Any(s)})[s \ {Any(s)}] = of(s \ {Any(s)})
      BY <3>2, <1>2
    <3> QED
      BY <2>1, <3>2, <3>3
  <2>2. ASSUME NEW s \in SUBSET T
        PROVE  g[s] = IF s = {} THEN 0 ELSE f[Any(s)] + g[s \ {Any(s)}]
    BY <2>1
  <2>3. g = [s \in SUBSET T |-> g[s]]
    OBVIOUS
  <2> HIDE DEF g
  <2> QED
    BY <2>2, <2>3 DEF IsSum
<1> QED
  BY <1>1, <1>3

LEMMA SumEmpty ==
  ASSUME NEW f
  PROVE  SumFunctionOnSet(f, {}) = 0
<1>1. IsSum(f, {}, TheSum(f, {}))
  BY SumExists, FS_EmptySet
<1> HIDE DEF TheSum
<1>2. TheSum(f, {})[{}] = 0
  BY <1>1 DEF IsSum
<1> QED
  BY <1>2, SumUnfold

(* The fold takes its elements in an order of its own... *)
LEMMA SumStep ==
  ASSUME NEW f, NEW S, IsFiniteSet(S), S # {}
  PROVE  SumFunctionOnSet(f, S) = f[Any(S)] + SumFunctionOnSet(f, S \ {Any(S)})
<1> DEFINE u == S \ {Any(S)}
<1>1. IsFiniteSet(u) /\ u \subseteq S
  BY FS_RemoveElement
<1>2. TheSum(f, u)[u] = TheSum(f, S)[u]
  BY <1>1, SumExists, SumsAgree
<1>3. TheSum(f, S)[S] = f[Any(S)] + TheSum(f, S)[u]
  <2>1. IsSum(f, S, TheSum(f, S))
    BY SumExists
  <2> QED
    BY <2>1 DEF IsSum
<1> QED
  BY <1>2, <1>3, SumUnfold

LEMMA SumIsNumber ==
  ASSUME NEW S, IsFiniteSet(S), NEW f, \A x \in S : f[x] \in Int
  PROVE  SumFunctionOnSet(f, S) \in Int
<1> DEFINE C == {T \in SUBSET S : SumFunctionOnSet(f, T) \notin Int}
<1> SUFFICES ASSUME C # {} PROVE FALSE
  OBVIOUS
<1>1. PICK T \in C : \A U \in C : U \subseteq T => U = T
  <2>1. C \in SUBSET (SUBSET S)
    OBVIOUS
  <2> HIDE DEF C
  <2> QED
    BY <2>1, MinimalSet
<1>2. T # {} /\ IsFiniteSet(T)
  <2>1. SumFunctionOnSet(f, {}) \in Int
    BY SumEmpty
  <2> QED
    BY <2>1, FS_Subset
<1>3. Any(T) \in T
  BY <1>2 DEF Any
<1>4. T \ {Any(T)} \notin C
  BY <1>1, <1>3
<1>5. SumFunctionOnSet(f, T \ {Any(T)}) \in Int /\ f[Any(T)] \in Int
  BY <1>3, <1>4
<1> QED
  BY <1>2, <1>5, SumStep

(* Numbers that are not negative have such a sum. *)
LEMMA SumIsNatural ==
  ASSUME NEW S, IsFiniteSet(S), NEW f, \A x \in S : f[x] \in Nat
  PROVE  SumFunctionOnSet(f, S) \in Nat
<1> DEFINE C == {T \in SUBSET S : SumFunctionOnSet(f, T) \notin Nat}
<1> SUFFICES ASSUME C # {} PROVE FALSE
  OBVIOUS
<1>1. PICK T \in C : \A U \in C : U \subseteq T => U = T
  <2>1. C \in SUBSET (SUBSET S)
    OBVIOUS
  <2> HIDE DEF C
  <2> QED
    BY <2>1, MinimalSet
<1>2. T # {} /\ IsFiniteSet(T)
  <2>1. SumFunctionOnSet(f, {}) \in Nat
    BY SumEmpty
  <2> QED
    BY <2>1, FS_Subset
<1>3. Any(T) \in T
  BY <1>2 DEF Any
<1>4. T \ {Any(T)} \notin C
  BY <1>1, <1>3
<1>5. SumFunctionOnSet(f, T \ {Any(T)}) \in Nat /\ f[Any(T)] \in Nat
  BY <1>3, <1>4
<1> QED
  BY <1>2, <1>5, SumStep

(* ... but any element may be taken first. *)
LEMMA SumTakeOut ==
  ASSUME NEW S, IsFiniteSet(S), NEW f, \A x \in S : f[x] \in Int, NEW x \in S
  PROVE  SumFunctionOnSet(f, S) = f[x] + SumFunctionOnSet(f, S \ {x})
<1> DEFINE Sum(T) == SumFunctionOnSet(f, T)
           C == {T \in SUBSET S : \E y \in T : Sum(T) # f[y] + Sum(T \ {y})}
<1> SUFFICES ASSUME C # {} PROVE FALSE
  OBVIOUS
<1>1. PICK T \in C : \A U \in C : U \subseteq T => U = T
  <2>1. C \in SUBSET (SUBSET S)
    OBVIOUS
  <2> HIDE DEF C
  <2> QED
    BY <2>1, MinimalSet
<1>2. PICK y \in T : Sum(T) # f[y] + Sum(T \ {y})
  OBVIOUS
<1> DEFINE z == Any(T)
<1>3. z \in T /\ IsFiniteSet(T)
  BY FS_Subset DEF Any
<1>4. Sum(T) = f[z] + Sum(T \ {z})
  BY <1>3, SumStep
<1>5. y # z
  BY <1>2, <1>4
<1>6. T \ {z} \notin C /\ T \ {y} \notin C
  BY <1>1, <1>3
<1>7. Sum(T \ {z}) = f[y] + Sum((T \ {z}) \ {y})
  BY <1>5, <1>6
<1>8. Sum(T \ {y}) = f[z] + Sum((T \ {y}) \ {z})
  BY <1>3, <1>5, <1>6
<1>9. Sum((T \ {z}) \ {y}) = Sum((T \ {y}) \ {z})
  <2>1. (T \ {z}) \ {y} = (T \ {y}) \ {z}
    OBVIOUS
  <2> QED
    BY <2>1
<1>10. Sum((T \ {y}) \ {z}) \in Int /\ f[y] \in Int /\ f[z] \in Int
  <2>1. (T \ {y}) \ {z} \subseteq S /\ IsFiniteSet((T \ {y}) \ {z})
    BY FS_Subset
  <2> QED
    BY <2>1, <1>3, SumIsNumber
<1>11. f[z] + (f[y] + Sum((T \ {y}) \ {z})) = f[y] + (f[z] + Sum((T \ {y}) \ {z}))
  BY <1>10
<1>12. Sum(T) = f[y] + Sum(T \ {y})
  BY <1>4, <1>7, <1>8, <1>9, <1>11, Zenon
<1> QED
  BY <1>2, <1>12

(* Only the values on the set matter. *)
LEMMA SumSameValues ==
  ASSUME NEW S, IsFiniteSet(S), NEW f, NEW g, \A x \in S : f[x] = g[x]
  PROVE  SumFunctionOnSet(f, S) = SumFunctionOnSet(g, S)
<1> DEFINE C == {T \in SUBSET S : SumFunctionOnSet(f, T) # SumFunctionOnSet(g, T)}
<1> SUFFICES ASSUME C # {} PROVE FALSE
  OBVIOUS
<1>1. PICK T \in C : \A U \in C : U \subseteq T => U = T
  <2>1. C \in SUBSET (SUBSET S)
    OBVIOUS
  <2> HIDE DEF C
  <2> QED
    BY <2>1, MinimalSet
<1>2. T # {} /\ IsFiniteSet(T)
  BY SumEmpty, FS_Subset
<1>3. Any(T) \in T
  BY <1>2 DEF Any
<1>4. T \ {Any(T)} \notin C
  BY <1>1, <1>3
<1> QED
  BY <1>2, <1>3, <1>4, SumStep

(* Changing one value changes the sum by the difference. *)
LEMMA SumUpdate ==
  ASSUME NEW S, IsFiniteSet(S), NEW f \in [S -> Int], NEW x \in S, NEW v \in Int
  PROVE  SumFunction([f EXCEPT ![x] = v]) = SumFunction(f) - f[x] + v
<1> DEFINE g == [f EXCEPT ![x] = v]
<1>1. g \in [S -> Int] /\ g[x] = v /\ \A y \in S \ {x} : g[y] = f[y]
  OBVIOUS
<1> HIDE DEF g
<1>2. IsFiniteSet(S \ {x})
  BY FS_RemoveElement
<1>3. SumFunctionOnSet(g, S \ {x}) = SumFunctionOnSet(f, S \ {x})
  BY <1>1, <1>2, SumSameValues
<1>4. SumFunctionOnSet(g, S) = v + SumFunctionOnSet(g, S \ {x})
  BY <1>1, SumTakeOut
<1>5. SumFunctionOnSet(f, S) = f[x] + SumFunctionOnSet(f, S \ {x})
  BY SumTakeOut
<1>6. SumFunctionOnSet(f, S \ {x}) \in Int /\ f[x] \in Int
  BY <1>2, SumIsNumber
<1>7. SumFunction(g) = SumFunctionOnSet(g, S) /\ SumFunction(f) = SumFunctionOnSet(f, S)
  BY <1>1 DEF SumFunction
<1>8. SumFunction(g) = SumFunction(f) - f[x] + v
  BY <1>3, <1>4, <1>5, <1>6, <1>7
<1> QED
  BY <1>8 DEF g

(* A function that is zero everywhere has the sum zero. *)
LEMMA SumOfZeros ==
  ASSUME NEW S, IsFiniteSet(S)
  PROVE  SumFunction([x \in S |-> 0]) = 0
<1> DEFINE f == [x \in S |-> 0]
           C == {T \in SUBSET S : SumFunctionOnSet(f, T) # 0}
<1> SUFFICES ASSUME C # {} PROVE FALSE
  BY DEF SumFunction
<1>1. PICK T \in C : \A U \in C : U \subseteq T => U = T
  <2>1. C \in SUBSET (SUBSET S)
    OBVIOUS
  <2> HIDE DEF C
  <2> QED
    BY <2>1, MinimalSet
<1>2. T # {} /\ IsFiniteSet(T)
  BY SumEmpty, FS_Subset
<1>3. Any(T) \in T
  BY <1>2 DEF Any
<1>4. T \ {Any(T)} \notin C
  BY <1>1, <1>3
<1>5. f[Any(T)] = 0
  BY <1>3
<1> HIDE DEF f
<1> QED
  BY <1>2, <1>4, <1>5, SumStep

(* A function that takes a value at one more place. *)
LEMMA SumExtended ==
  ASSUME NEW S, IsFiniteSet(S), NEW f \in [S -> Int], NEW x, x \notin S, NEW v \in Int
  PROVE  SumFunction([y \in S \union {x} |-> IF y = x THEN v ELSE f[y]]) = SumFunction(f) + v
<1> DEFINE T == S \union {x}
           g == [y \in T |-> IF y = x THEN v ELSE f[y]]
<1>1. g \in [T -> Int] /\ x \in T /\ g[x] = v /\ T \ {x} = S /\ \A y \in S : g[y] = f[y]
  OBVIOUS
<1>2. IsFiniteSet(T)
  BY FS_AddElement
<1> HIDE DEF g, T
<1>3. SumFunctionOnSet(g, T) = v + SumFunctionOnSet(g, S)
  <2>1. \A y \in T : g[y] \in Int
    BY <1>1
  <2> QED
    BY <2>1, <1>1, <1>2, SumTakeOut
<1>4. SumFunctionOnSet(g, S) = SumFunctionOnSet(f, S)
  BY <1>1, SumSameValues
<1>5. SumFunctionOnSet(f, S) \in Int
  BY SumIsNumber
<1>6. SumFunction(g) = SumFunctionOnSet(g, T) /\ SumFunction(f) = SumFunctionOnSet(f, S)
  BY <1>1 DEF SumFunction
<1>7. SumFunction(g) = SumFunction(f) + v
  BY <1>3, <1>4, <1>5, <1>6
<1> QED
  BY <1>7 DEF g, T
=============================================================================
