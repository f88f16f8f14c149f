----------------------------- MODULE FiniteSums -----------------------------
(***************************************************************************)
(* The facts about sums over finite sets that the proofs about accounting  *)
(* rest on: what SumFunctionOnSet (module Functions) yields for the empty  *)
(* set and for a set with one more element, that it is an integer, and     *)
(* that it depends on the summands only.                                   *)
(*                                                                         *)
(* The sum is defined by recursion over the subsets of the set, with an    *)
(* unspecified choice of the next element.  That the recursion has a       *)
(* solution, and only one, is shown by induction on the number of          *)
(* elements, taken as the least natural number of a set of naturals.       *)
(***************************************************************************)
EXTENDS Integers, FiniteSets, Functions, FiniteSetTheorems,
        WellFoundedInduction, TLAPS

(* Every non-empty set of natural numbers has a least element.             *)
LEMMA LeastNat ==
    ASSUME NEW T, T \subseteq Nat, T # {}
    PROVE  \E x \in T : \A y \in T : x <= y
<1> DEFINE R == {ss \in Nat \X Nat : ss[1] < ss[2]}
<1>1. IsWellFoundedOn(R, Nat)
  BY NatLessThanWellFounded DEF OpToRel
<1>2. PICK x \in T : \A y \in T : <<y, x>> \notin R
  <2> HIDE DEF R
  <2> QED BY <1>1, WFMin
<1>3. SUFFICES ASSUME NEW y \in T, ~ (x <= y)
               PROVE  FALSE
  BY <1>3
<1>4. y \in Nat /\ x \in Nat
  OBVIOUS
<1>5. y < x
  BY <1>3, <1>4
<1>6. <<y, x>> \in R
  BY <1>4, <1>5
<1> QED BY <1>2, <1>6

(* One element fewer.                                                      *)
LEMMA OneFewer ==
    ASSUME NEW s, IsFiniteSet(s), NEW x \in s
    PROVE  /\ Cardinality(s \ {x}) = Cardinality(s) - 1
           /\ Cardinality(s) - 1 \in Nat
<1>1. IsFiniteSet(s \ {x}) /\ Cardinality(s \ {x}) = Cardinality(s) - 1
  BY FS_RemoveElement
<1>2. Cardinality(s \ {x}) \in Nat
  BY <1>1, FS_CardinalityType
<1> QED BY <1>1, <1>2

(* The element the recursion takes out of a set.                           *)
Pick(s) == CHOOSE x \in s : TRUE

(* g solves the recursion for the sum of f on the sets of ss.              *)
Solves(g, f, ss) ==
    g = [s \in ss |-> IF s = {} THEN 0 ELSE f[Pick(s)] + g[s \ {Pick(s)}]]

LEMMA SumIsSolution ==
    ASSUME NEW f, NEW S
    PROVE  SumFunctionOnSet(f, S) = (CHOOSE g : Solves(g, f, SUBSET S))[S]
  BY DEF SumFunctionOnSet, FoldFunctionOnSet, MapThenFoldSet, Solves, Pick

(* Two solutions agree on every finite set that both are defined on.       *)
LEMMA SolutionsAgree ==
    ASSUME NEW f, NEW S, NEW T, T \subseteq S, IsFiniteSet(T)
    PROVE  \A g, h : Solves(g, f, SUBSET S) /\ Solves(h, f, SUBSET T) => g[T] = h[T]
<1> SUFFICES ASSUME NEW g, NEW h, Solves(g, f, SUBSET S), Solves(h, f, SUBSET T)
             PROVE  g[T] = h[T]
  OBVIOUS
<1> DEFINE Bad == {n \in Nat : \E s \in SUBSET T : Cardinality(s) = n /\ g[s] # h[s]}
<1>1. SUFFICES ASSUME g[T] # h[T]
               PROVE  FALSE
  OBVIOUS
<1>2. Cardinality(T) \in Bad
  BY <1>1, FS_CardinalityType
<1>3. PICK n \in Bad : \A m \in Bad : n <= m
  <2> HIDE DEF Bad
  <2>1. Bad \subseteq Nat
    BY DEF Bad
  <2> QED BY <1>2, <2>1, LeastNat
<1>4. PICK s \in SUBSET T : Cardinality(s) = n /\ g[s] # h[s]
  BY <1>3
<1>5. IsFiniteSet(s) /\ n \in Nat
  BY <1>4, FS_Subset
<1>6. /\ g[s] = IF s = {} THEN 0 ELSE f[Pick(s)] + g[s \ {Pick(s)}]
      /\ h[s] = IF s = {} THEN 0 ELSE f[Pick(s)] + h[s \ {Pick(s)}]
  <2>1. s \in SUBSET S /\ s \in SUBSET T
    OBVIOUS
  <2> QED BY <2>1, Zenon DEF Solves
<1>7. s # {}
  BY <1>4, <1>6
<1>8. Pick(s) \in s
  BY <1>7 DEF Pick
<1>9. Cardinality(s \ {Pick(s)}) = n - 1
  BY <1>4, <1>5, <1>8, OneFewer
<1>10. n - 1 \in Nat
  BY <1>4, <1>5, <1>8, OneFewer
<1>11. n - 1 \notin Bad
  BY <1>3, <1>5
<1>12. g[s \ {Pick(s)}] = h[s \ {Pick(s)}]
  <2>1. s \ {Pick(s)} \in SUBSET T
    OBVIOUS
  <2> QED BY <1>9, <1>10, <1>11, <2>1
<1> QED BY <1>4, <1>6, <1>12

(* On the subsets of a finite set the recursion has a solution: one for    *)
(* the subsets of at most n + 1 elements extends one for at most n.        *)
LEMMA SolutionExists ==
    ASSUME NEW f, NEW S, IsFiniteSet(S)
    PROVE  \E g : Solves(g, f, SUBSET S)
<1> DEFINE Layer(n) == {s \in SUBSET S : Cardinality(s) <= n}
           Bad == {n \in Nat : ~ \E g : Solves(g, f, Layer(n))}
<1>1. \A s \in SUBSET S : IsFiniteSet(s) /\ Cardinality(s) \in Nat
                           /\ Cardinality(s) <= Cardinality(S)
  BY FS_Subset, FS_CardinalityType
<1>2. Cardinality(S) \in Nat
  BY FS_CardinalityType
<1>3. \A s \in SUBSET S : s # {} =>
         /\ Pick(s) \in s
         /\ s \ {Pick(s)} \in SUBSET S
         /\ Cardinality(s \ {Pick(s)}) = Cardinality(s) - 1
         /\ Cardinality(s) > 0
  <2> SUFFICES ASSUME NEW s \in SUBSET S, s # {}
               PROVE  /\ Pick(s) \in s
                      /\ s \ {Pick(s)} \in SUBSET S
                      /\ Cardinality(s \ {Pick(s)}) = Cardinality(s) - 1
                      /\ Cardinality(s) > 0
    OBVIOUS
  <2>1. Pick(s) \in s
    BY DEF Pick
  <2>2. Cardinality(s \ {Pick(s)}) = Cardinality(s) - 1
    BY <2>1, <1>1, FS_RemoveElement
  <2>3. Cardinality(s \ {Pick(s)}) \in Nat
    BY <1>1
  <2> QED BY <2>1, <2>2, <2>3, <1>1
<1>4. 0 \notin Bad
  <2> DEFINE g == [s \in Layer(0) |-> 0]
  <2>1. ASSUME NEW s \in Layer(0)
        PROVE  s = {}
    <3>1. s \in SUBSET S /\ Cardinality(s) <= 0 /\ Cardinality(s) \in Nat
      BY <1>1
    <3>2. s # {} => Cardinality(s) > 0
      BY <1>3, <3>1, Zenon
    <3> QED BY <3>1, <3>2
  <2>2. Solves(g, f, Layer(0))
    BY <2>1 DEF Solves
  <2> QED BY <2>2
<1>5. ASSUME NEW n \in Nat, n \notin Bad
      PROVE  n + 1 \notin Bad
  <2>1. PICK g : Solves(g, f, Layer(n))
    BY <1>5
  <2> DEFINE h == [s \in Layer(n + 1) |->
                     IF s = {} THEN 0 ELSE f[Pick(s)] + g[s \ {Pick(s)}]]
  <2>2. \A s \in Layer(n) : s \in Layer(n + 1) /\ h[s] = g[s]
    <3>1. \A s \in Layer(n) : s \in Layer(n + 1)
      BY <1>1
    <3>2. \A s \in Layer(n) : g[s] = IF s = {} THEN 0 ELSE f[Pick(s)] + g[s \ {Pick(s)}]
      BY <2>1, Zenon DEF Solves
    <3> HIDE DEF Layer
    <3> QED BY <3>1, <3>2
  <2>3. \A s \in Layer(n + 1) : s # {} => h[s \ {Pick(s)}] = g[s \ {Pick(s)}]
    <3>1. \A s \in Layer(n + 1) : s # {} => s \ {Pick(s)} \in Layer(n)
      BY <1>1, <1>3
    <3> HIDE DEF Layer, h
    <3> QED BY <2>2, <3>1
  <2>4. h = [s \in Layer(n + 1) |-> IF s = {} THEN 0 ELSE f[Pick(s)] + h[s \ {Pick(s)}]]
    <3>1. \A s \in Layer(n + 1) :
             (IF s = {} THEN 0 ELSE f[Pick(s)] + g[s \ {Pick(s)}])
               = (IF s = {} THEN 0 ELSE f[Pick(s)] + h[s \ {Pick(s)}])
      <4> HIDE DEF Layer, h
      <4> QED BY <2>3
    <3> HIDE DEF Layer
    <3> QED BY <3>1
  <2> HIDE DEF Layer, h
  <2>5. Solves(h, f, Layer(n + 1))
    BY <2>4 DEF Solves
  <2> QED BY <2>5
<1>6. Bad = {}
  <2> SUFFICES ASSUME Bad # {}
               PROVE  FALSE
    OBVIOUS
  <2> HIDE DEF Bad
  <2>1. Bad \subseteq Nat
    BY DEF Bad
  <2>2. PICK n \in Bad : \A m \in Bad : n <= m
    BY <2>1, LeastNat
  <2>3. n # 0
    BY <2>2, <1>4
  <2>4. n \in Nat /\ n - 1 \in Nat
    BY <2>1, <2>2, <2>3
  <2>5. n - 1 \notin Bad
    BY <2>2, <2>4
  <2>6. (n - 1) + 1 \notin Bad
    BY <2>4, <2>5, <1>5
  <2> QED BY <2>2, <2>4, <2>6
<1>7. Layer(Cardinality(S)) = SUBSET S
  BY <1>1
<1>8. \E g : Solves(g, f, Layer(Cardinality(S)))
  BY <1>6, <1>2
<1> QED
  <2> HIDE DEF Layer
  <2> QED BY <1>7, <1>8

(* One step of the recursion.                                              *)
LEMMA SumStep ==
    ASSUME NEW f, NEW S, IsFiniteSet(S)
    PROVE  SumFunctionOnSet(f, S) =
             IF S = {} THEN 0
             ELSE f[Pick(S)] + SumFunctionOnSet(f, S \ {Pick(S)})
<1> DEFINE T == S \ {Pick(S)}
           g == CHOOSE g : Solves(g, f, SUBSET S)
           h == CHOOSE h : Solves(h, f, SUBSET T)
<1>1. Solves(g, f, SUBSET S)
  BY SolutionExists
<1>2. IsFiniteSet(T)
  BY FS_Subset
<1>3. Solves(h, f, SUBSET T)
  <2> HIDE DEF T
  <2> QED BY <1>2, SolutionExists
<1>4. g[T] = h[T]
  <2>1. T \subseteq S
    OBVIOUS
  <2> HIDE DEF T
  <2>2. \A u, v : Solves(u, f, SUBSET S) /\ Solves(v, f, SUBSET T) => u[T] = v[T]
    BY <1>2, <2>1, SolutionsAgree
  <2> HIDE DEF g, h
  <2> QED BY <1>1, <1>3, <2>2
<1>5. SumFunctionOnSet(f, S) = g[S] /\ SumFunctionOnSet(f, T) = h[T]
  <2>1. SumFunctionOnSet(f, S) = g[S]
    BY SumIsSolution
  <2>2. SumFunctionOnSet(f, T) = h[T]
    <3> HIDE DEF T
    <3> QED BY SumIsSolution
  <2> QED BY <2>1, <2>2
<1>6. g[S] = IF S = {} THEN 0 ELSE f[Pick(S)] + g[T]
  <2> HIDE DEF g
  <2>1. S \in SUBSET S
    OBVIOUS
  <2> QED BY <1>1, <2>1, Zenon DEF Solves
<1> HIDE DEF g, h
<1> QED BY <1>4, <1>5, <1>6

-----------------------------------------------------------------------------
(* The empty sum is zero.                                                  *)
LEMMA SumEmpty ==
    ASSUME NEW f
    PROVE  SumFunctionOnSet(f, {}) = 0
  BY SumStep, FS_EmptySet

(* The sum depends on the summands only: two functions that agree on a     *)
(* finite set have the same sum over it.                                   *)
LEMMA SumSame ==
    ASSUME NEW f, NEW g, NEW S, IsFiniteSet(S), \A x \in S : f[x] = g[x]
    PROVE  SumFunctionOnSet(f, S) = SumFunctionOnSet(g, S)
<1> DEFINE Bad == {n \in Nat : \E s \in SUBSET S :
                      /\ Cardinality(s) = n
                      /\ SumFunctionOnSet(f, s) # SumFunctionOnSet(g, s)}
<1>1. SUFFICES ASSUME SumFunctionOnSet(f, S) # SumFunctionOnSet(g, S)
               PROVE  FALSE
  OBVIOUS
<1>2. Cardinality(S) \in Bad
  BY <1>1, FS_CardinalityType
<1>3. PICK n \in Bad : \A m \in Bad : n <= m
  <2> HIDE DEF Bad
  <2>1. Bad \subseteq Nat
    BY DEF Bad
  <2> QED BY <1>2, <2>1, LeastNat
<1>4. PICK s \in SUBSET S : /\ Cardinality(s) = n
                            /\ SumFunctionOnSet(f, s) # SumFunctionOnSet(g, s)
  BY <1>3
<1>5. IsFiniteSet(s) /\ n \in Nat
  BY <1>4, FS_Subset
<1>6. s # {}
  BY <1>4, SumEmpty
<1>7. Pick(s) \in s
  BY <1>6 DEF Pick
<1>8. Cardinality(s \ {Pick(s)}) = n - 1 /\ n - 1 \in Nat
  BY <1>4, <1>5, <1>7, OneFewer
<1>9. SumFunctionOnSet(f, s \ {Pick(s)}) = SumFunctionOnSet(g, s \ {Pick(s)})
  <2>1. n - 1 \notin Bad
    BY <1>3, <1>5
  <2> QED BY <1>8, <2>1
<1>10. /\ SumFunctionOnSet(f, s) = f[Pick(s)] + SumFunctionOnSet(f, s \ {Pick(s)})
       /\ SumFunctionOnSet(g, s) = g[Pick(s)] + SumFunctionOnSet(g, s \ {Pick(s)})
  BY <1>5, <1>6, SumStep
<1> QED BY <1>4, <1>7, <1>9, <1>10

(* A sum of natural numbers is a natural number.                           *)
LEMMA SumIsNat ==
    ASSUME NEW f, NEW S, IsFiniteSet(S), \A x \in S : f[x] \in Nat
    PROVE  SumFunctionOnSet(f, S) \in Nat
<1> DEFINE Bad == {n \in Nat : \E s \in SUBSET S :
                      Cardinality(s) = n /\ SumFunctionOnSet(f, s) \notin Nat}
<1>1. SUFFICES ASSUME SumFunctionOnSet(f, S) \notin Nat
               PROVE  FALSE
  OBVIOUS
<1>2. Cardinality(S) \in Bad
  BY <1>1, FS_CardinalityType
<1>3. PICK n \in Bad : \A m \in Bad : n <= m
  <2> HIDE DEF Bad
  <2>1. Bad \subseteq Nat
    BY DEF Bad
  <2> QED BY <1>2, <2>1, LeastNat
<1>4. PICK s \in SUBSET S : Cardinality(s) = n /\ SumFunctionOnSet(f, s) \notin Nat
  BY <1>3
<1>5. IsFiniteSet(s) /\ n \in Nat
  BY <1>4, FS_Subset
<1>6. s # {}
  BY <1>4, SumEmpty
<1>7. Pick(s) \in s
  BY <1>6 DEF Pick
<1>8. Cardinality(s \ {Pick(s)}) = n - 1 /\ n - 1 \in Nat
  BY <1>4, <1>5, <1>7, OneFewer
<1>9. SumFunctionOnSet(f, s \ {Pick(s)}) \in Nat
  <2>1. n - 1 \notin Bad
    BY <1>3, <1>5
  <2> QED BY <1>8, <2>1
<1>10. SumFunctionOnSet(f, s) = f[Pick(s)] + SumFunctionOnSet(f, s \ {Pick(s)})
  BY <1>5, <1>6, SumStep
<1>11. f[Pick(s)] \in Nat
  BY <1>7
<1> QED BY <1>4, <1>9, <1>10, <1>11

(* Any element of a finite set of naturals can be taken out of the sum,    *)
(* not only the one that the recursion happens to choose.                  *)
LEMMA SumRemove ==
    ASSUME NEW f, NEW S, IsFiniteSet(S), \A x \in S : f[x] \in Nat, NEW e \in S
    PROVE  SumFunctionOnSet(f, S) = f[e] + SumFunctionOnSet(f, S \ {e})
<1> DEFINE Splits(s) == \A x \in s :
                SumFunctionOnSet(f, s) = f[x] + SumFunctionOnSet(f, s \ {x})
           Bad == {n \in Nat : \E s \in SUBSET S : Cardinality(s) = n /\ ~ Splits(s)}
<1>1. SUFFICES ASSUME ~ Splits(S)
               PROVE  FALSE
  OBVIOUS
<1>2. Cardinality(S) \in Bad
  <2> HIDE DEF Splits
  <2> QED BY <1>1, FS_CardinalityType
<1>3. PICK n \in Bad : \A m \in Bad : n <= m
  <2> HIDE DEF Bad
  <2>1. Bad \subseteq Nat
    BY DEF Bad
  <2> QED BY <1>2, <2>1, LeastNat
<1>4. PICK s \in SUBSET S : Cardinality(s) = n /\ ~ Splits(s)
  <2> HIDE DEF Splits
  <2> QED BY <1>3
<1>5. PICK x \in s : SumFunctionOnSet(f, s) # f[x] + SumFunctionOnSet(f, s \ {x})
  BY <1>4
<1>6. IsFiniteSet(s) /\ n \in Nat
  BY <1>4, FS_Subset
<1>7. Pick(s) \in s
  BY <1>5 DEF Pick
<1>8. ASSUME NEW y \in s
      PROVE  Splits(s \ {y})
  <2>1. Cardinality(s \ {y}) = n - 1 /\ n - 1 \in Nat
    BY <1>4, <1>6, OneFewer
  <2>2. n - 1 \notin Bad
    BY <1>3, <1>6
  <2>3. s \ {y} \in SUBSET S
    OBVIOUS
  <2> HIDE DEF Splits
  <2> QED BY <2>1, <2>2, <2>3
<1>9. SumFunctionOnSet(f, s) = f[Pick(s)] + SumFunctionOnSet(f, s \ {Pick(s)})
  BY <1>6, <1>7, SumStep
<1>10. x # Pick(s)
  BY <1>5, <1>9
<1> DEFINE r == (s \ {x}) \ {Pick(s)}
<1>11. r = (s \ {Pick(s)}) \ {x}
  OBVIOUS
<1>12. SumFunctionOnSet(f, s \ {Pick(s)}) = f[x] + SumFunctionOnSet(f, r)
  BY <1>7, <1>8, <1>10, <1>11
<1>13. SumFunctionOnSet(f, s \ {x}) = f[Pick(s)] + SumFunctionOnSet(f, r)
  BY <1>7, <1>8, <1>10
<1>14. SumFunctionOnSet(f, r) \in Nat
  <2> IsFiniteSet(r) /\ r \subseteq S
    BY <1>6, FS_Subset
  <2> HIDE DEF r
  <2> QED BY SumIsNat
<1>15. f[x] \in Nat /\ f[Pick(s)] \in Nat
  BY <1>7
<1> HIDE DEF r
<1> QED BY <1>5, <1>9, <1>12, <1>13, <1>14, <1>15

(* A new element adds its value.                                           *)
LEMMA SumAdd ==
    ASSUME NEW f, NEW S, NEW e, IsFiniteSet(S), e \notin S,
           f[e] \in Nat, \A x \in S : f[x] \in Nat
    PROVE  SumFunctionOnSet(f, S \cup {e}) = f[e] + SumFunctionOnSet(f, S)
<1>1. IsFiniteSet(S \cup {e})
  BY FS_AddElement
<1>2. (S \cup {e}) \ {e} = S
  OBVIOUS
<1>3. \A x \in S \cup {e} : f[x] \in Nat
  OBVIOUS
<1>4. e \in S \cup {e}
  OBVIOUS
<1>5. SumFunctionOnSet(f, S \cup {e})
        = f[e] + SumFunctionOnSet(f, (S \cup {e}) \ {e})
  BY <1>1, <1>3, <1>4, SumRemove
<1> QED BY <1>2, <1>5

(* The sum over two disjoint sets is the sum of their sums.                *)
LEMMA SumUnion ==
    ASSUME NEW f, NEW S, NEW T, IsFiniteSet(S), IsFiniteSet(T), S \cap T = {},
           \A x \in S \cup T : f[x] \in Nat
    PROVE  SumFunctionOnSet(f, S \cup T) = SumFunctionOnSet(f, S) + SumFunctionOnSet(f, T)
<1> DEFINE Adds(t) == SumFunctionOnSet(f, S \cup t)
                        = SumFunctionOnSet(f, S) + SumFunctionOnSet(f, t)
           Bad == {n \in Nat : \E t \in SUBSET T : Cardinality(t) = n /\ ~ Adds(t)}
<1>1. SUFFICES ASSUME ~ Adds(T)
               PROVE  FALSE
  OBVIOUS
<1>2. Cardinality(T) \in Bad
  <2> HIDE DEF Adds
  <2> QED BY <1>1, FS_CardinalityType
<1>3. PICK n \in Bad : \A m \in Bad : n <= m
  <2> HIDE DEF Bad
  <2>1. Bad \subseteq Nat
    BY DEF Bad
  <2> QED BY <1>2, <2>1, LeastNat
<1>4. PICK t \in SUBSET T : Cardinality(t) = n /\ ~ Adds(t)
  <2> HIDE DEF Adds
  <2> QED BY <1>3
<1>5. IsFiniteSet(t) /\ n \in Nat
  BY <1>4, FS_Subset
<1>6. SumFunctionOnSet(f, S) \in Nat /\ SumFunctionOnSet(f, t) \in Nat
  BY <1>5, SumIsNat
<1>7. t # {}
  <2>1. S \cup {} = S
    OBVIOUS
  <2>2. Adds({})
    BY <1>6, <2>1, SumEmpty
  <2> HIDE DEF Adds
  <2> QED BY <1>4, <2>2
<1>8. PICK x \in t : TRUE
  BY <1>7
<1> DEFINE r == t \ {x}
<1>9. Adds(r)
  <2>1. Cardinality(r) = n - 1 /\ n - 1 \in Nat
    BY <1>4, <1>5, OneFewer
  <2>2. n - 1 \notin Bad
    <3> HIDE DEF Bad
    <3> QED BY <1>3, <1>5
  <2>3. r \in SUBSET T
    OBVIOUS
  <2> HIDE DEF Adds, r
  <2> QED BY <2>1, <2>2, <2>3
<1>10. IsFiniteSet(r) /\ IsFiniteSet(S \cup r) /\ x \notin S \cup r /\ f[x] \in Nat
  BY <1>5, FS_Subset, FS_Union
<1>11. S \cup t = (S \cup r) \cup {x} /\ t = r \cup {x}
  OBVIOUS
<1>12. \A y \in S \cup r : f[y] \in Nat
  OBVIOUS
<1> HIDE DEF r
<1>13. SumFunctionOnSet(f, S \cup t) = f[x] + SumFunctionOnSet(f, S \cup r)
  BY <1>10, <1>11, <1>12, SumAdd
<1>14. SumFunctionOnSet(f, t) = f[x] + SumFunctionOnSet(f, r)
  BY <1>10, <1>11, <1>12, SumAdd
<1>15. SumFunctionOnSet(f, r) \in Nat
  BY <1>10, <1>12, SumIsNat
<1> QED BY <1>4, <1>6, <1>9, <1>10, <1>13, <1>14, <1>15

(* An injective image has as many elements as the set.                     *)
LEMMA InjectiveImage ==
    ASSUME NEW S, IsFiniteSet(S), NEW h, \A x, y \in S : h[x] = h[y] => x = y
    PROVE  /\ IsFiniteSet({h[x] : x \in S})
           /\ Cardinality({h[x] : x \in S}) = Cardinality(S)
<1> DEFINE T == {h[x] : x \in S}
           b == [x \in S |-> h[x]]
<1>1. b \in Bijection(S, T)
  BY DEF Bijection, Injection, Surjection, IsInjective
<1>2. ExistsBijection(S, T)
  BY <1>1 DEF ExistsBijection
<1> HIDE DEF T
<1> QED BY <1>2, FS_Bijection DEF T

(* Summing over an injective image is summing over the set itself.         *)
LEMMA SumReindex ==
    ASSUME NEW S, IsFiniteSet(S), NEW h, \A x, y \in S : h[x] = h[y] => x = y,
           NEW f, NEW g, \A x \in S : f[x] = g[h[x]] /\ f[x] \in Nat
    PROVE  SumFunctionOnSet(f, S) = SumFunctionOnSet(g, {h[x] : x \in S})
<1> DEFINE Image(s) == {h[x] : x \in s}
           Same(s) == SumFunctionOnSet(f, s) = SumFunctionOnSet(g, Image(s))
           Bad == {n \in Nat : \E s \in SUBSET S : Cardinality(s) = n /\ ~ Same(s)}
<1>1. SUFFICES ASSUME ~ Same(S)
               PROVE  FALSE
  OBVIOUS
<1>2. Cardinality(S) \in Bad
  <2> HIDE DEF Same
  <2> QED BY <1>1, FS_CardinalityType
<1>3. PICK n \in Bad : \A m \in Bad : n <= m
  <2> HIDE DEF Bad
  <2>1. Bad \subseteq Nat
    BY DEF Bad
  <2> QED BY <1>2, <2>1, LeastNat
<1>4. PICK s \in SUBSET S : Cardinality(s) = n /\ ~ Same(s)
  <2> HIDE DEF Same
  <2> QED BY <1>3
<1>5. IsFiniteSet(s) /\ n \in Nat
  BY <1>4, FS_Subset
<1>6. s # {}
  <2>1. Image({}) = {}
    OBVIOUS
  <2>2. Same({})
    BY <2>1, SumEmpty
  <2> HIDE DEF Same
  <2> QED BY <1>4, <2>2
<1>7. PICK x \in s : TRUE
  BY <1>6
<1> DEFINE r == s \ {x}
<1>8. Same(r)
  <2>1. Cardinality(r) = n - 1 /\ n - 1 \in Nat
    BY <1>4, <1>5, OneFewer
  <2>2. n - 1 \notin Bad
    <3> HIDE DEF Bad
    <3> QED BY <1>3, <1>5
  <2>3. r \in SUBSET S
    OBVIOUS
  <2> HIDE DEF Same, r
  <2> QED BY <2>1, <2>2, <2>3
<1>9. Image(r) = Image(s) \ {h[x]} /\ h[x] \in Image(s)
  OBVIOUS
<1>10. IsFiniteSet(Image(s))
  <2>1. \A u, v \in s : h[u] = h[v] => u = v
    OBVIOUS
  <2> QED BY <1>5, <2>1, InjectiveImage
<1>11. \A y \in Image(s) : g[y] \in Nat
  OBVIOUS
<1>12. SumFunctionOnSet(f, s) = f[x] + SumFunctionOnSet(f, r)
  BY <1>5, SumRemove
<1> HIDE DEF Image, r
<1>13. SumFunctionOnSet(g, Image(s)) = g[h[x]] + SumFunctionOnSet(g, Image(r))
  BY <1>9, <1>10, <1>11, SumRemove
<1> QED BY <1>4, <1>8, <1>12, <1>13

(* Summands that are nowhere greater have a sum that is not greater.       *)
LEMMA SumAtMost ==
    ASSUME NEW f, NEW g, NEW S, IsFiniteSet(S),
           \A x \in S : f[x] \in Nat /\ g[x] \in Nat /\ f[x] <= g[x]
    PROVE  SumFunctionOnSet(f, S) <= SumFunctionOnSet(g, S)
<1> DEFINE Grows(s) == SumFunctionOnSet(f, s) <= SumFunctionOnSet(g, s)
           Bad == {n \in Nat : \E s \in SUBSET S : Cardinality(s) = n /\ ~ Grows(s)}
<1>1. SUFFICES ASSUME ~ Grows(S)
               PROVE  FALSE
  OBVIOUS
<1>2. Cardinality(S) \in Bad
  <2> HIDE DEF Grows
  <2> QED BY <1>1, FS_CardinalityType
<1>3. PICK n \in Bad : \A m \in Bad : n <= m
  <2> HIDE DEF Bad
  <2>1. Bad \subseteq Nat
    BY DEF Bad
  <2> QED BY <1>2, <2>1, LeastNat
<1>4. PICK s \in SUBSET S : Cardinality(s) = n /\ ~ Grows(s)
  <2> HIDE DEF Grows
  <2> QED BY <1>3
<1>5. IsFiniteSet(s) /\ n \in Nat
  BY <1>4, FS_Subset
<1>6. s # {}
  <2>1. Grows({})
    BY SumEmpty
  <2> HIDE DEF Grows
  <2> QED BY <1>4, <2>1
<1>7. PICK x \in s : TRUE
  BY <1>6
<1> DEFINE r == s \ {x}
<1>8. Grows(r)
  <2>1. Cardinality(r) = n - 1 /\ n - 1 \in Nat
    BY <1>4, <1>5, OneFewer
  <2>2. n - 1 \notin Bad
    <3> HIDE DEF Bad
    <3> QED BY <1>3, <1>5
  <2>3. r \in SUBSET S
    OBVIOUS
  <2> HIDE DEF Grows, r
  <2> QED BY <2>1, <2>2, <2>3
<1>9. IsFiniteSet(r) /\ \A y \in r : f[y] \in Nat /\ g[y] \in Nat
  BY <1>5, FS_Subset
<1>10. /\ SumFunctionOnSet(f, s) = f[x] + SumFunctionOnSet(f, r)
       /\ SumFunctionOnSet(g, s) = g[x] + SumFunctionOnSet(g, r)
  BY <1>5, SumRemove
<1> HIDE DEF r
<1>11. SumFunctionOnSet(f, r) \in Nat /\ SumFunctionOnSet(g, r) \in Nat
  BY <1>9, SumIsNat
<1>12. f[x] \in Nat /\ g[x] \in Nat /\ f[x] <= g[x]
  BY <1>7
<1> QED BY <1>4, <1>8, <1>10, <1>11, <1>12

(* What an element contributes to the sum over a set.                      *)
Part(f, S, e) == IF e \in S THEN f[e] ELSE 0

(* One element changes its summand, or comes or goes.                      *)
LEMMA SumChange ==
    ASSUME NEW f, NEW g, NEW S, NEW T, NEW e, IsFiniteSet(S), IsFiniteSet(T),
           S \ {e} = T \ {e},
           \A x \in S : f[x] \in Nat, \A x \in T : g[x] \in Nat,
           \A x \in S \ {e} : f[x] = g[x]
    PROVE  SumFunctionOnSet(f, S) - Part(f, S, e) = SumFunctionOnSet(g, T) - Part(g, T, e)
<1> DEFINE r == S \ {e}
<1>1. IsFiniteSet(r) /\ (\A x \in r : f[x] \in Nat) /\ r = T \ {e}
  BY FS_Subset
<1>2. SumFunctionOnSet(f, r) = SumFunctionOnSet(g, r) /\ SumFunctionOnSet(f, r) \in Nat
  <2> HIDE DEF r
  <2>1. \A x \in r : f[x] = g[x]
    BY DEF r
  <2> QED BY <1>1, <2>1, SumSame, SumIsNat
<1>3. SumFunctionOnSet(f, S) - Part(f, S, e) = SumFunctionOnSet(f, r)
  <2>1. CASE e \in S
    <3>1. SumFunctionOnSet(f, S) = f[e] + SumFunctionOnSet(f, r)
      BY <2>1, SumRemove
    <3> QED BY <1>2, <2>1, <3>1 DEF Part
  <2>2. CASE e \notin S
    <3>1. r = S
      BY <2>2
    <3> QED BY <1>2, <2>2, <3>1 DEF Part
  <2> QED BY <2>1, <2>2
<1>4. SumFunctionOnSet(g, T) - Part(g, T, e) = SumFunctionOnSet(g, r)
  <2>1. CASE e \in T
    <3>1. SumFunctionOnSet(g, T) = g[e] + SumFunctionOnSet(g, T \ {e})
      BY <2>1, SumRemove
    <3> QED BY <1>1, <1>2, <2>1, <3>1 DEF Part
  <2>2. CASE e \notin T
    <3>1. r = T
      BY <1>1, <2>2
    <3> QED BY <1>2, <2>2, <3>1 DEF Part
  <2> QED BY <2>1, <2>2
<1> QED BY <1>2, <1>3, <1>4

-----------------------------------------------------------------------------
(* Folding a finite set with FoldSet (module FiniteSetsExt): the value so  *)
(* far and the element met are the arguments of a function F.              *)

(* g solves the recursion of the fold on the sets of ss.                   *)
Folds(g, F, base, ss) ==
    g = [s \in ss |-> IF s = {} THEN base ELSE F[<<Pick(s), g[s \ {Pick(s)}]>>]]

(* The recursion has a solution: one for the subsets of at most n + 1      *)
(* elements extends one for at most n.                                     *)
LEMMA FoldExists ==
    ASSUME NEW F, NEW base, NEW S, IsFiniteSet(S)
    PROVE  \E g : Folds(g, F, base, SUBSET S)
<1> DEFINE Layer(n) == {s \in SUBSET S : Cardinality(s) <= n}
           Bad == {n \in Nat : ~ \E g : Folds(g, F, base, Layer(n))}
<1>1. \A s \in SUBSET S : IsFiniteSet(s) /\ Cardinality(s) \in Nat
                           /\ Cardinality(s) <= Cardinality(S)
  BY FS_Subset, FS_CardinalityType
<1>2. Cardinality(S) \in Nat
  BY FS_CardinalityType
<1>3. \A s \in SUBSET S : s # {} =>
         /\ Pick(s) \in s
         /\ s \ {Pick(s)} \in SUBSET S
         /\ Cardinality(s \ {Pick(s)}) = Cardinality(s) - 1
         /\ Cardinality(s) > 0
  <2> SUFFICES ASSUME NEW s \in SUBSET S, s # {}
               PROVE  /\ Pick(s) \in s
                      /\ s \ {Pick(s)} \in SUBSET S
                      /\ Cardinality(s \ {Pick(s)}) = Cardinality(s) - 1
                      /\ Cardinality(s) > 0
    OBVIOUS
  <2>1. Pick(s) \in s
    BY DEF Pick
  <2>2. Cardinality(s \ {Pick(s)}) = Cardinality(s) - 1
    BY <2>1, <1>1, FS_RemoveElement
  <2>3. Cardinality(s \ {Pick(s)}) \in Nat
    BY <1>1
  <2> QED BY <2>1, <2>2, <2>3, <1>1
<1>4. 0 \notin Bad
  <2> DEFINE g == [s \in Layer(0) |-> base]
  <2>1. ASSUME NEW s \in Layer(0)
        PROVE  s = {}
    <3>1. s \in SUBSET S /\ Cardinality(s) <= 0 /\ Cardinality(s) \in Nat
      BY <1>1
    <3>2. s # {} => Cardinality(s) > 0
      BY <1>3, <3>1, Zenon
    <3> QED BY <3>1, <3>2
  <2>2. Folds(g, F, base, Layer(0))
    BY <2>1 DEF Folds
  <2> QED BY <2>2
<1>5. ASSUME NEW n \in Nat, n \notin Bad
      PROVE  n + 1 \notin Bad
  <2>1. PICK g : Folds(g, F, base, Layer(n))
    BY <1>5
  <2> DEFINE h == [s \in Layer(n + 1) |->
                     IF s = {} THEN base ELSE F[<<Pick(s), g[s \ {Pick(s)}]>>]]
  <2>2. \A s \in Layer(n) : s \in Layer(n + 1) /\ h[s] = g[s]
    <3>1. \A s \in Layer(n) : s \in Layer(n + 1)
      BY <1>1
    <3>2. \A s \in Layer(n) : g[s] = IF s = {} THEN base ELSE F[<<Pick(s), g[s \ {Pick(s)}]>>]
      BY <2>1, Zenon DEF Folds
    <3> HIDE DEF Layer
    <3> QED BY <3>1, <3>2
  <2>3. \A s \in Layer(n + 1) : s # {} => h[s \ {Pick(s)}] = g[s \ {Pick(s)}]
    <3>1. \A s \in Layer(n + 1) : s # {} => s \ {Pick(s)} \in Layer(n)
      BY <1>1, <1>3
    <3> HIDE DEF Layer, h
    <3> QED BY <2>2, <3>1
  <2>4. h = [s \in Layer(n + 1) |-> IF s = {} THEN base ELSE F[<<Pick(s), h[s \ {Pick(s)}]>>]]
    <3>1. \A s \in Layer(n + 1) :
             (IF s = {} THEN base ELSE F[<<Pick(s), g[s \ {Pick(s)}]>>])
               = (IF s = {} THEN base ELSE F[<<Pick(s), h[s \ {Pick(s)}]>>])
      <4> HIDE DEF Layer, h
      <4> QED BY <2>3
    <3> HIDE DEF Layer
    <3> QED BY <3>1
  <2> HIDE DEF Layer, h
  <2>5. Folds(h, F, base, Layer(n + 1))
    BY <2>4 DEF Folds
  <2> QED BY <2>5
<1>6. Bad = {}
  <2> SUFFICES ASSUME Bad # {}
               PROVE  FALSE
    OBVIOUS
  <2> HIDE DEF Bad
  <2>1. Bad \subseteq Nat
    BY DEF Bad
  <2>2. PICK n \in Bad : \A m \in Bad : n <= m
    BY <2>1, LeastNat
  <2>3. n # 0
    BY <2>2, <1>4
  <2>4. n \in Nat /\ n - 1 \in Nat
    BY <2>1, <2>2, <2>3
  <2>5. n - 1 \notin Bad
    BY <2>2, <2>4
  <2>6. (n - 1) + 1 \notin Bad
    BY <2>4, <2>5, <1>5
  <2> QED BY <2>2, <2>4, <2>6
<1>7. Layer(Cardinality(S)) = SUBSET S
  BY <1>1
<1>8. \E g : Folds(g, F, base, Layer(Cardinality(S)))
  BY <1>6, <1>2
<1> QED
  <2> HIDE DEF Layer
  <2> QED BY <1>7, <1>8

(* What every step of a fold keeps holds of its result: a fold that leaves *)
(* the sets R is left by a smallest subset.                                *)
LEMMA FoldKeeps ==
    ASSUME NEW S, IsFiniteSet(S), NEW g, NEW R,
           g[{}] \in R[{}],
           \A s \in SUBSET S : s # {} /\ g[s \ {Pick(s)}] \in R[s \ {Pick(s)}] => g[s] \in R[s]
    PROVE  g[S] \in R[S]
<1> DEFINE Bad == {n \in Nat : \E s \in SUBSET S : Cardinality(s) = n /\ g[s] \notin R[s]}
<1>1. SUFFICES ASSUME g[S] \notin R[S]
               PROVE  FALSE
  OBVIOUS
<1>2. Cardinality(S) \in Bad
  BY <1>1, FS_CardinalityType
<1>3. PICK n \in Bad : \A m \in Bad : n <= m
  <2> HIDE DEF Bad
  <2>1. Bad \subseteq Nat
    BY DEF Bad
  <2> QED BY <1>2, <2>1, LeastNat
<1>4. PICK s \in SUBSET S : Cardinality(s) = n /\ g[s] \notin R[s]
  BY <1>3
<1>5. IsFiniteSet(s) /\ n \in Nat
  BY <1>4, FS_Subset
<1>6. s # {}
  BY <1>4
<1>7. Pick(s) \in s
  BY <1>6 DEF Pick
<1>8. Cardinality(s \ {Pick(s)}) = n - 1 /\ n - 1 \in Nat
  BY <1>4, <1>5, <1>7, OneFewer
<1>9. n - 1 \notin Bad
  BY <1>3, <1>5
<1>10. g[s \ {Pick(s)}] \in R[s \ {Pick(s)}]
  <2>1. s \ {Pick(s)} \in SUBSET S
    OBVIOUS
  <2> QED BY <1>8, <1>9, <2>1
<1> QED BY <1>4, <1>6, <1>10
=============================================================================
