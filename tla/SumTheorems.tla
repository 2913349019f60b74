----------------------------- MODULE SumTheorems -----------------------------
(***************************************************************************)
(* What a sum over a finite set is, for every set and every integers: the  *)
(* community modules define it by recursion over the subsets of the set,   *)
(* and choose the next element.  And its largest and smallest element.     *)
(***************************************************************************)
EXTENDS Integers, FiniteSets, FiniteSetsExt, FiniteSetTheorems,
        WellFoundedInduction, TLAPS

\* The sum of f[x] over the elements of S.
SumOver(f, S) == MapThenSumSet(LAMBDA x : f[x], S)

\* The function MapThenSumSet defines, on the subsets of S.
Chosen(s) == CHOOSE x \in s : TRUE
Recursion(f, D, g) ==
  g = [s \in D |-> IF s = {} THEN 0 ELSE f[Chosen(s)] + g[s \ {Chosen(s)}]]
Iter(f, S) ==
  CHOOSE g : g = [s \in SUBSET S |->
                    IF s = {} THEN 0
                    ELSE f[CHOOSE x \in s : TRUE] + g[s \ {CHOOSE x \in s : TRUE}]]

\* Induction, for a set of numbers.
LEMMA Induction ==
  ASSUME NEW T, T \subseteq Nat, 0 \in T, \A n \in T : n + 1 \in T
  PROVE  T = Nat
<1> SUFFICES ASSUME Nat \ T # {} PROVE FALSE
  OBVIOUS
<1>1. PICK n \in Nat \ T : \A m \in Nat \ T : <<m, n>> \notin OpToRel(<, Nat)
  BY NatLessThanWellFounded, WFMin
<1>2. n # 0 /\ n - 1 \in Nat
  OBVIOUS
<1>3. <<n - 1, n>> \in OpToRel(<, Nat)
  BY <1>2 DEF OpToRel
<1>4. n - 1 \in T
  BY <1>1, <1>2, <1>3
<1>5. n - 1 + 1 \in T
  BY <1>4
<1> QED
  BY <1>5

\* The sum is what the function gives for the whole set.
LEMMA SumIsIter == \A f, S : SumOver(f, S) = Iter(f, S)[S]
BY DEF SumOver, MapThenSumSet, MapThenFoldSet, Iter

Small(S, n) == {s \in SUBSET S : Cardinality(s) <= n}

\* Up to any number of elements, some function satisfies the recursion.
LEMMA Approximation ==
  ASSUME NEW S, IsFiniteSet(S), NEW f
  PROVE  \A n \in Nat : \E g : Recursion(f, Small(S, n), g)
<1> DEFINE T == {n \in Nat : \E g : Recursion(f, Small(S, n), g)}
<1>1. 0 \in T
  <2> DEFINE g == [s \in Small(S, 0) |-> 0]
  <2>1. \A s \in Small(S, 0) : s = {}
    BY FS_EmptySet, FS_Subset, FS_CardinalityType DEF Small
  <2>2. Recursion(f, Small(S, 0), g)
    BY <2>1 DEF Recursion
  <2> QED
    BY <2>2
<1>2. ASSUME NEW n \in T PROVE n + 1 \in T
  <2>1. PICK h : Recursion(f, Small(S, n), h)
    OBVIOUS
  <2> DEFINE g == [s \in Small(S, n + 1) |->
                     IF s = {} THEN 0 ELSE f[Chosen(s)] + h[s \ {Chosen(s)}]]
  <2>2. ASSUME NEW s \in Small(S, n + 1), s # {}
        PROVE  s \ {Chosen(s)} \in Small(S, n)
    <3>1. IsFiniteSet(s) /\ Cardinality(s) \in Nat /\ Chosen(s) \in s
      BY <2>2, FS_Subset, FS_CardinalityType DEF Small, Chosen
    <3>2. Cardinality(s \ {Chosen(s)}) = Cardinality(s) - 1
      BY <3>1, FS_RemoveElement
    <3> QED
      BY <3>1, <3>2 DEF Small
  <2>3. ASSUME NEW s \in Small(S, n) PROVE g[s] = h[s]
    <3>1. s \in Small(S, n + 1)
      BY FS_Subset, FS_CardinalityType DEF Small
    <3> QED
      BY <2>1, <3>1 DEF Recursion
  <2>4. Recursion(f, Small(S, n + 1), g)
    BY <2>2, <2>3 DEF Recursion
  <2> QED
    BY <2>4
<1> HIDE DEF T
<1>3. T = Nat
  BY <1>1, <1>2, Induction DEF T
<1> QED
  BY <1>3 DEF T

\* The recursion of MapThenSumSet has a solution.
LEMMA IterIsRecursive ==
  ASSUME NEW S, IsFiniteSet(S), NEW f
  PROVE  Recursion(f, SUBSET S, Iter(f, S))
<1>1. Small(S, Cardinality(S)) = SUBSET S /\ Cardinality(S) \in Nat
  BY FS_Subset, FS_CardinalityType DEF Small
<1>2. \E g : Recursion(f, Small(S, Cardinality(S)), g)
  BY <1>1, Approximation
<1>3. \E g : Recursion(f, SUBSET S, g)
  BY <1>1, <1>2
<1> QED
  BY <1>3 DEF Recursion, Iter, Chosen

\* Induction on the subsets of a finite set.
LEMMA SubsetInduction ==
  ASSUME NEW S, IsFiniteSet(S), NEW P, P \subseteq SUBSET S, {} \in P,
         \A s \in SUBSET S : s # {} /\ (\A x \in s : s \ {x} \in P) => s \in P
  PROVE  P = SUBSET S
<1> DEFINE T == {n \in Nat : \A s \in SUBSET S : Cardinality(s) = n => s \in P}
<1>1. 0 \in T
  BY FS_EmptySet, FS_Subset
<1>2. ASSUME NEW n \in T PROVE n + 1 \in T
  <2> SUFFICES ASSUME NEW s \in SUBSET S, Cardinality(s) = n + 1
               PROVE  s \in P
    OBVIOUS
  <2>1. s # {} /\ IsFiniteSet(s)
    BY FS_EmptySet, FS_Subset
  <2>2. ASSUME NEW x \in s PROVE s \ {x} \in P
    <3>1. Cardinality(s \ {x}) = Cardinality(s) - 1
      BY <2>1, FS_RemoveElement
    <3> QED
      BY <3>1
  <2> QED
    BY <2>1, <2>2
<1> HIDE DEF T
<1>3. T = Nat
  BY <1>1, <1>2, Induction DEF T
<1>4. ASSUME NEW s \in SUBSET S PROVE s \in P
  <2>1. Cardinality(s) \in Nat
    BY FS_Subset, FS_CardinalityType
  <2> QED
    BY <1>3, <2>1 DEF T
<1> QED
  BY <1>4

-----------------------------------------------------------------------------
(* The sum *)

\* What the function gives for each subset.
LEMMA IterEquation ==
  ASSUME NEW S, IsFiniteSet(S), NEW f
  PROVE  /\ Iter(f, S)[{}] = 0
         /\ \A s \in SUBSET S : s # {} =>
              Iter(f, S)[s] = f[Chosen(s)] + Iter(f, S)[s \ {Chosen(s)}]
<1> DEFINE g == Iter(f, S)
<1>1. g = [s \in SUBSET S |->
             IF s = {} THEN 0 ELSE f[Chosen(s)] + g[s \ {Chosen(s)}]]
  BY IterIsRecursive DEF Recursion
<1> HIDE DEF g
<1> QED
  <2>1. g[{}] = 0 /\ \A s \in SUBSET S : s # {} => g[s] = f[Chosen(s)] + g[s \ {Chosen(s)}]
    BY <1>1
  <2> QED
    BY <2>1 DEF g

\* What is taken next is of the set.
LEMMA ChosenIsIn == \A s : s # {} => Chosen(s) \in s
BY DEF Chosen

\* Only the values on the set count.
LEMMA IterIsLocal ==
  ASSUME NEW S, IsFiniteSet(S), NEW R, IsFiniteSet(R), NEW f, NEW h,
         NEW P, P \subseteq S, P \subseteq R, \A x \in P : f[x] = h[x]
  PROVE  Iter(f, S)[P] = Iter(h, R)[P]
<1> DEFINE Q == {s \in SUBSET P : Iter(f, S)[s] = Iter(h, R)[s]}
<1>1. {} \in Q
  BY IterEquation
<1>2. ASSUME NEW s \in SUBSET P, s # {}, \A x \in s : s \ {x} \in Q
      PROVE  s \in Q
  <2>1. Chosen(s) \in s
    BY <1>2, ChosenIsIn
  <2>3. Iter(f, S)[s] = f[Chosen(s)] + Iter(f, S)[s \ {Chosen(s)}]
    <3>1. s \in SUBSET S
      OBVIOUS
    <3> QED
      BY <1>2, <3>1, IterEquation
  <2>4. Iter(h, R)[s] = h[Chosen(s)] + Iter(h, R)[s \ {Chosen(s)}]
    <3>1. s \in SUBSET R
      OBVIOUS
    <3> QED
      BY <1>2, <3>1, IterEquation
  <2>2. Iter(f, S)[s \ {Chosen(s)}] = Iter(h, R)[s \ {Chosen(s)}]
    BY <1>2, <2>1
  <2> QED
    BY <2>1, <2>2, <2>3, <2>4
<1>3. IsFiniteSet(P)
  BY FS_Subset
<1> HIDE DEF Q
<1>4. Q = SUBSET P
  <2>1. Q \subseteq SUBSET P
    BY DEF Q
  <2> QED
    BY <1>1, <1>2, <1>3, <2>1, SubsetInduction
<1> QED
  BY <1>4 DEF Q

\* A sum of integers is an integer.
LEMMA IterIsInt ==
  ASSUME NEW S, IsFiniteSet(S), NEW f, \A x \in S : f[x] \in Int
  PROVE  \A s \in SUBSET S : Iter(f, S)[s] \in Int
<1> DEFINE Q == {s \in SUBSET S : Iter(f, S)[s] \in Int}
<1>1. {} \in Q
  BY IterEquation
<1>2. ASSUME NEW s \in SUBSET S, s # {}, \A x \in s : s \ {x} \in Q
      PROVE  s \in Q
  <2> DEFINE x == Chosen(s)
  <2>0. Iter(f, S)[s] = f[x] + Iter(f, S)[s \ {x}]
    BY <1>2, IterEquation
  <2>1. x \in s /\ Iter(f, S)[s] = f[x] + Iter(f, S)[s \ {x}]
    BY <1>2, <2>0, ChosenIsIn
  <2>2. s \ {x} \in Q /\ f[x] \in Int
    BY <1>2, <2>1
  <2> HIDE DEF x
  <2> QED
    BY <2>1, <2>2
<1> HIDE DEF Q
<1>3. Q = SUBSET S
  <2>1. Q \subseteq SUBSET S
    BY DEF Q
  <2> QED
    BY <1>1, <1>2, <2>1, SubsetInduction
<1> QED
  BY <1>3 DEF Q

\* Whichever element is taken first.
LEMMA IterAnyOrder ==
  ASSUME NEW S, IsFiniteSet(S), NEW f, \A x \in S : f[x] \in Int
  PROVE  \A s \in SUBSET S : \A y \in s : Iter(f, S)[s] = f[y] + Iter(f, S)[s \ {y}]
<1> DEFINE g == Iter(f, S)
           Q == {s \in SUBSET S : \A y \in s : g[s] = f[y] + g[s \ {y}]}
<1>1. {} \in Q
  OBVIOUS
<1>2. ASSUME NEW s \in SUBSET S, s # {}, \A x \in s : s \ {x} \in Q
      PROVE  s \in Q
  <2> DEFINE x == Chosen(s)
  <2>0. g[s] = f[x] + g[s \ {x}]
    BY <1>2, IterEquation
  <2>1. x \in s /\ g[s] = f[x] + g[s \ {x}]
    BY <1>2, <2>0, ChosenIsIn
  <2> HIDE DEF g, x
  <2>2. ASSUME NEW y \in s, y # x PROVE g[s] = f[y] + g[s \ {y}]
    <3>1. g[s \ {x}] = f[y] + g[(s \ {x}) \ {y}]
      BY <1>2, <2>1, <2>2
    <3>2. g[s \ {y}] = f[x] + g[(s \ {y}) \ {x}]
      BY <1>2, <2>1, <2>2
    <3>3. (s \ {x}) \ {y} = (s \ {y}) \ {x}
      OBVIOUS
    <3>4. g[(s \ {y}) \ {x}] \in Int /\ f[x] \in Int /\ f[y] \in Int
      BY <2>1, IterIsInt DEF g
    <3> DEFINE rest == g[(s \ {y}) \ {x}]
    <3>5. g[s] = f[x] + (f[y] + rest) /\ g[s \ {y}] = f[x] + rest
      BY <2>1, <3>1, <3>2, <3>3
    <3>6. rest \in Int
      BY <3>4
    <3> HIDE DEF rest
    <3> QED
      BY <3>4, <3>5, <3>6
  <2> QED
    BY <2>1, <2>2
<1> HIDE DEF Q
<1>3. Q = SUBSET S
  <2>1. Q \subseteq SUBSET S
    BY DEF Q
  <2> QED
    BY <1>1, <1>2, <2>1, SubsetInduction
<1> QED
  BY <1>3 DEF Q, g

\* The sum of nothing is 0.
LEMMA SumOfNothing == \A f : SumOver(f, {}) = 0
<1> TAKE f
<1>1. IsFiniteSet({})
  BY FS_EmptySet
<1> QED
  BY <1>1, IterEquation, SumIsIter

\* A sum of integers is an integer.
LEMMA SumIsInt ==
  ASSUME NEW S, IsFiniteSet(S), NEW f, \A x \in S : f[x] \in Int
  PROVE  SumOver(f, S) \in Int
<1>1. S \in SUBSET S
  OBVIOUS
<1> QED
  BY <1>1, IterIsInt, SumIsIter

\* Functions that agree on the set have the same sum.
LEMMA SumIsLocal ==
  ASSUME NEW S, IsFiniteSet(S), NEW f, NEW h, \A x \in S : f[x] = h[x]
  PROVE  SumOver(f, S) = SumOver(h, S)
<1>1. Iter(f, S)[S] = Iter(h, S)[S]
  BY IterIsLocal
<1> QED
  BY <1>1, SumIsIter

\* Any element may be taken out of the sum.
LEMMA SumTakesOut ==
  ASSUME NEW S, IsFiniteSet(S), NEW f, \A y \in S : f[y] \in Int, NEW x \in S
  PROVE  SumOver(f, S) = f[x] + SumOver(f, S \ {x})
<1>1. Iter(f, S)[S] = f[x] + Iter(f, S)[S \ {x}]
  <2>1. S \in SUBSET S
    OBVIOUS
  <2> QED
    BY <2>1, IterAnyOrder
<1>2. Iter(f, S)[S \ {x}] = Iter(f, S \ {x})[S \ {x}]
  <2>1. IsFiniteSet(S \ {x}) /\ S \ {x} \subseteq S /\ S \ {x} \subseteq S \ {x}
    BY FS_Subset
  <2>2. \A y \in S \ {x} : f[y] = f[y]
    OBVIOUS
  <2> QED
    BY <2>1, <2>2, IterIsLocal
<1> QED
  BY <1>1, <1>2, SumIsIter

\* A new element adds its value.
LEMMA SumAdds ==
  ASSUME NEW S, IsFiniteSet(S), NEW f, NEW x, x \notin S,
         \A y \in S \cup {x} : f[y] \in Int
  PROVE  SumOver(f, S \cup {x}) = f[x] + SumOver(f, S)
<1>1. IsFiniteSet(S \cup {x})
  BY FS_AddElement
<1>2. x \in S \cup {x} /\ (S \cup {x}) \ {x} = S
  OBVIOUS
<1> QED
  BY <1>1, <1>2, SumTakesOut

\* A change at one element changes the sum by as much.
LEMMA SumChanges ==
  ASSUME NEW S, IsFiniteSet(S), NEW f, NEW h, NEW x \in S,
         \A y \in S : f[y] \in Int /\ h[y] \in Int,
         \A y \in S \ {x} : h[y] = f[y]
  PROVE  SumOver(h, S) = SumOver(f, S) - f[x] + h[x]
<1>1. SumOver(f, S) = f[x] + SumOver(f, S \ {x})
  BY SumTakesOut
<1>2. SumOver(h, S) = h[x] + SumOver(h, S \ {x})
  BY SumTakesOut
<1>3. SumOver(h, S \ {x}) = SumOver(f, S \ {x}) /\ IsFiniteSet(S \ {x})
  <2>1. IsFiniteSet(S \ {x})
    BY FS_Subset
  <2> QED
    BY <2>1, SumIsLocal
<1>4. SumOver(f, S \ {x}) \in Int
  BY <1>3, SumIsInt
<1>5. f[x] \in Int /\ h[x] \in Int
  OBVIOUS
<1> QED
  BY <1>1, <1>2, <1>3, <1>4, <1>5

\* A sum of numbers is no smaller than any of them.
LEMMA SumIsNat ==
  ASSUME NEW S, IsFiniteSet(S), NEW f, \A x \in S : f[x] \in Nat
  PROVE  /\ SumOver(f, S) \in Nat
         /\ \A x \in S : f[x] <= SumOver(f, S)
<1> DEFINE Q == {s \in SUBSET S : SumOver(f, s) \in Nat}
<1>1. {} \in Q
  BY SumOfNothing
<1>2. ASSUME NEW s \in SUBSET S, s # {}, \A x \in s : s \ {x} \in Q
      PROVE  s \in Q
  <2>1. PICK x \in s : TRUE
    BY <1>2
  <2>2. IsFiniteSet(s) /\ \A y \in s : f[y] \in Int
    BY FS_Subset
  <2>3. SumOver(f, s) = f[x] + SumOver(f, s \ {x})
    BY <2>2, SumTakesOut
  <2>4. SumOver(f, s \ {x}) \in Nat /\ f[x] \in Nat
    BY <1>2
  <2>5. SumOver(f, s) \in Nat
    BY <2>3, <2>4
  <2> QED
    BY <2>5
<1> HIDE DEF Q
<1>3. Q = SUBSET S
  <2>1. Q \subseteq SUBSET S
    BY DEF Q
  <2> QED
    BY <1>1, <1>2, <2>1, SubsetInduction
<1>4. \A s \in SUBSET S : SumOver(f, s) \in Nat
  BY <1>3 DEF Q
<1>5. ASSUME NEW x \in S PROVE f[x] <= SumOver(f, S)
  <2>1. SumOver(f, S) = f[x] + SumOver(f, S \ {x})
    BY SumTakesOut
  <2>2. SumOver(f, S \ {x}) \in Nat /\ f[x] \in Nat
    BY <1>4
  <2> QED
    BY <2>1, <2>2
<1> QED
  BY <1>4, <1>5

\* A sum is 0 where all is 0.
LEMMA SumOfZeros ==
  ASSUME NEW S, IsFiniteSet(S), NEW f, \A x \in S : f[x] = 0
  PROVE  SumOver(f, S) = 0
<1> DEFINE Q == {s \in SUBSET S : SumOver(f, s) = 0}
<1>1. {} \in Q
  BY SumOfNothing
<1>2. ASSUME NEW s \in SUBSET S, s # {}, \A x \in s : s \ {x} \in Q
      PROVE  s \in Q
  <2>1. PICK x \in s : TRUE
    BY <1>2
  <2>2. IsFiniteSet(s) /\ \A y \in s : f[y] \in Int
    BY FS_Subset
  <2>3. SumOver(f, s) = f[x] + SumOver(f, s \ {x})
    BY <2>2, SumTakesOut
  <2>4. SumOver(f, s \ {x}) = 0 /\ f[x] = 0
    BY <1>2
  <2>5. SumOver(f, s) = 0
    BY <2>3, <2>4
  <2> QED
    BY <2>5
<1> HIDE DEF Q
<1>3. Q = SUBSET S
  <2>1. Q \subseteq SUBSET S
    BY DEF Q
  <2> QED
    BY <1>1, <1>2, <2>1, SubsetInduction
<1>4. S \in Q
  BY <1>3
<1> QED
  BY <1>4 DEF Q

\* Two sets that share nothing.
LEMMA SumOfUnion ==
  ASSUME NEW S, IsFiniteSet(S), NEW R, IsFiniteSet(R), S \cap R = {}, NEW f,
         \A x \in S \cup R : f[x] \in Int
  PROVE  SumOver(f, S \cup R) = SumOver(f, S) + SumOver(f, R)
<1> DEFINE Q == {s \in SUBSET S : SumOver(f, s \cup R) = SumOver(f, s) + SumOver(f, R)}
<1>1. {} \in Q
  <2>1. {} \cup R = R /\ SumOver(f, R) \in Int /\ SumOver(f, {}) = 0
    BY SumOfNothing, SumIsInt
  <2> QED
    BY <2>1
<1>2. ASSUME NEW s \in SUBSET S, s # {}, \A x \in s : s \ {x} \in Q
      PROVE  s \in Q
  <2>1. PICK x \in s : TRUE
    BY <1>2
  <2>2. IsFiniteSet(s) /\ IsFiniteSet(s \cup R) /\ IsFiniteSet(s \ {x})
    BY FS_Subset, FS_Union
  <2>3. /\ SumOver(f, s) = f[x] + SumOver(f, s \ {x})
        /\ SumOver(f, s \cup R) = f[x] + SumOver(f, (s \cup R) \ {x})
    <3>1. (\A y \in s : f[y] \in Int) /\ (\A y \in s \cup R : f[y] \in Int) /\ x \in s \cup R
      OBVIOUS
    <3> QED
      BY <2>2, <3>1, SumTakesOut
  <2>4. (s \cup R) \ {x} = (s \ {x}) \cup R
    OBVIOUS
  <2>5. SumOver(f, (s \ {x}) \cup R) = SumOver(f, s \ {x}) + SumOver(f, R)
    BY <1>2
  <2>6. SumOver(f, s \ {x}) \in Int /\ SumOver(f, R) \in Int /\ f[x] \in Int
    BY <2>2, SumIsInt
  <2> DEFINE a == SumOver(f, s \ {x})
             b == SumOver(f, R)
  <2> HIDE DEF a, b
  <2>7. SumOver(f, s) = f[x] + a /\ SumOver(f, s \cup R) = f[x] + (a + b)
    BY <2>3, <2>4, <2>5 DEF a, b
  <2>8. a \in Int /\ b \in Int
    BY <2>6 DEF a, b
  <2>9. SumOver(f, s \cup R) = SumOver(f, s) + b
    BY <2>6, <2>7, <2>8
  <2> QED
    BY <2>9 DEF b
<1> HIDE DEF Q
<1>3. Q = SUBSET S
  <2>1. Q \subseteq SUBSET S
    BY DEF Q
  <2> QED
    BY <1>1, <1>2, <2>1, SubsetInduction
<1>4. S \in Q
  BY <1>3
<1> QED
  BY <1>4 DEF Q

\* The sum of two functions.
LEMMA SumOfSums ==
  ASSUME NEW S, IsFiniteSet(S), NEW f, NEW h, NEW k,
         \A x \in S : f[x] \in Int /\ h[x] \in Int /\ k[x] = f[x] + h[x]
  PROVE  SumOver(k, S) = SumOver(f, S) + SumOver(h, S)
<1> DEFINE Q == {s \in SUBSET S : SumOver(k, s) = SumOver(f, s) + SumOver(h, s)}
<1>1. {} \in Q
  BY SumOfNothing
<1>2. ASSUME NEW s \in SUBSET S, s # {}, \A x \in s : s \ {x} \in Q
      PROVE  s \in Q
  <2>1. PICK x \in s : TRUE
    BY <1>2
  <2>2. /\ IsFiniteSet(s) /\ IsFiniteSet(s \ {x})
        /\ \A y \in s : f[y] \in Int /\ h[y] \in Int /\ k[y] \in Int
    BY FS_Subset
  <2>3. /\ SumOver(k, s) = k[x] + SumOver(k, s \ {x})
        /\ SumOver(f, s) = f[x] + SumOver(f, s \ {x})
        /\ SumOver(h, s) = h[x] + SumOver(h, s \ {x})
    BY <2>2, SumTakesOut
  <2>4. SumOver(f, s \ {x}) \in Int /\ SumOver(h, s \ {x}) \in Int
    BY <2>2, SumIsInt
  <2> DEFINE a == SumOver(f, s \ {x})
             b == SumOver(h, s \ {x})
  <2>5. SumOver(k, s \ {x}) = a + b
    BY <1>2
  <2> HIDE DEF a, b
  <2>6. /\ SumOver(k, s) = k[x] + (a + b)
        /\ SumOver(f, s) = f[x] + a /\ SumOver(h, s) = h[x] + b
    BY <2>3, <2>5 DEF a, b
  <2>7. a \in Int /\ b \in Int /\ f[x] \in Int /\ h[x] \in Int /\ k[x] = f[x] + h[x]
    BY <2>4 DEF a, b
  <2>8. SumOver(k, s) = SumOver(f, s) + SumOver(h, s)
    BY <2>6, <2>7
  <2> QED
    BY <2>8
<1> HIDE DEF Q
<1>3. Q = SUBSET S
  <2>1. Q \subseteq SUBSET S
    BY DEF Q
  <2> QED
    BY <1>1, <1>2, <2>1, SubsetInduction
<1>4. S \in Q
  BY <1>3
<1> QED
  BY <1>4 DEF Q

\* What is larger everywhere has the larger sum.
LEMMA SumIsMonotone ==
  ASSUME NEW S, IsFiniteSet(S), NEW f, NEW h,
         \A x \in S : f[x] \in Int /\ h[x] \in Int /\ f[x] <= h[x]
  PROVE  SumOver(f, S) <= SumOver(h, S)
<1> DEFINE d == [x \in S |-> h[x] - f[x]]
<1>1. \A x \in S : d[x] \in Nat /\ h[x] = f[x] + d[x] /\ f[x] \in Int /\ d[x] \in Int
  OBVIOUS
<1> HIDE DEF d
<1>2. SumOver(h, S) = SumOver(f, S) + SumOver(d, S)
  BY <1>1, SumOfSums
<1>3. SumOver(d, S) \in Nat
  BY <1>1, SumIsNat
<1>4. SumOver(f, S) \in Int
  BY SumIsInt
<1> QED
  BY <1>2, <1>3, <1>4

\* Where a function is 0 it adds nothing to the sum.
LEMMA SumExtends ==
  ASSUME NEW R, IsFiniteSet(R), NEW S, S \subseteq R, NEW f,
         \A x \in S : f[x] \in Int, \A x \in R \ S : f[x] = 0
  PROVE  SumOver(f, R) = SumOver(f, S)
<1>1. IsFiniteSet(S) /\ IsFiniteSet(R \ S)
  BY FS_Subset
<1>2. S \cap (R \ S) = {} /\ S \cup (R \ S) = R /\ \A x \in S \cup (R \ S) : f[x] \in Int
  OBVIOUS
<1> DEFINE T == R \ S
<1>3. SumOver(f, S \cup T) = SumOver(f, S) + SumOver(f, T)
  BY <1>1, <1>2, SumOfUnion
<1>6. SumOver(f, R) = SumOver(f, S) + SumOver(f, T)
  <2>1. S \cup T = R
    OBVIOUS
  <2> HIDE DEF T
  <2> QED
    BY <1>3, <2>1
<1>4. SumOver(f, T) = 0
  BY <1>1, SumOfZeros
<1>5. SumOver(f, S) \in Int
  BY <1>1, SumIsInt
<1> HIDE DEF T
<1> QED
  BY <1>4, <1>5, <1>6

\* A part of a sum of numbers is no larger.
LEMMA SumOfPart ==
  ASSUME NEW R, IsFiniteSet(R), NEW S, S \subseteq R, NEW f, \A x \in R : f[x] \in Nat
  PROVE  SumOver(f, S) \in Nat /\ SumOver(f, R) \in Nat /\ SumOver(f, S) <= SumOver(f, R)
<1>1. IsFiniteSet(S) /\ IsFiniteSet(R \ S)
  BY FS_Subset
<1>2. S \cap (R \ S) = {} /\ S \cup (R \ S) = R /\ \A x \in S \cup (R \ S) : f[x] \in Int
  OBVIOUS
<1> DEFINE T == R \ S
<1>3. SumOver(f, S \cup T) = SumOver(f, S) + SumOver(f, T)
  BY <1>1, <1>2, SumOfUnion
<1>6. SumOver(f, R) = SumOver(f, S) + SumOver(f, T)
  <2>1. S \cup T = R
    OBVIOUS
  <2> HIDE DEF T
  <2> QED
    BY <1>3, <2>1
<1>4. SumOver(f, S) \in Nat /\ SumOver(f, T) \in Nat /\ SumOver(f, R) \in Nat
  BY <1>1, SumIsNat
<1> HIDE DEF T
<1> QED
  BY <1>4, <1>6

\* A sum is at most as large as the sum of the sizes.
LEMMA SumIsWithin ==
  ASSUME NEW S, IsFiniteSet(S), NEW f, NEW h,
         \A x \in S : f[x] \in Int /\ h[x] \in Int /\ -h[x] <= f[x] /\ f[x] <= h[x]
  PROVE  -SumOver(h, S) <= SumOver(f, S) /\ SumOver(f, S) <= SumOver(h, S)
<1> DEFINE m == [x \in S |-> -h[x]]
           z == [x \in S |-> 0]
<1>1. \A x \in S : m[x] \in Int /\ m[x] <= f[x] /\ z[x] = m[x] + h[x] /\ z[x] = 0
  OBVIOUS
<1> HIDE DEF m, z
<1>2. SumOver(f, S) <= SumOver(h, S) /\ SumOver(m, S) <= SumOver(f, S)
  BY <1>1, SumIsMonotone
<1>3. SumOver(z, S) = SumOver(m, S) + SumOver(h, S)
  BY <1>1, SumOfSums
<1>4. SumOver(z, S) = 0
  BY <1>1, SumOfZeros
<1>5. SumOver(m, S) \in Int /\ SumOver(h, S) \in Int /\ SumOver(f, S) \in Int
  BY <1>1, SumIsInt
<1> QED
  BY <1>2, <1>3, <1>4, <1>5

\* A finite set of integers has a largest element.
LEMMA MaxIsLargest ==
  ASSUME NEW S, IsFiniteSet(S), S # {}, S \subseteq Int
  PROVE  Max(S) \in S /\ \A x \in S : x <= Max(S)
<1> DEFINE P == {s \in SUBSET S : s = {} \/ \E x \in s : \A y \in s : x >= y}
<1>1. ASSUME NEW s \in SUBSET S, s # {}, \A x \in s : s \ {x} \in P
      PROVE  s \in P
  <2>1. PICK z \in s : TRUE
    BY <1>1
  <2>2. CASE s \ {z} = {}
    <3>1. \A y \in s : z >= y
      BY <2>2
    <3> QED
      BY <3>1
  <2>3. CASE s \ {z} # {}
    <3>1. PICK x \in s \ {z} : \A y \in s \ {z} : x >= y
      BY <1>1, <2>3
    <3>2. CASE x >= z
      <4>1. \A y \in s : x >= y
        BY <3>1, <3>2
      <4> QED
        BY <4>1
    <3>3. CASE z >= x
      <4>1. \A y \in s : z >= y
        BY <3>1, <3>3
      <4> QED
        BY <4>1
    <3> QED
      BY <3>2, <3>3
  <2> QED
    BY <2>2, <2>3
<1>2. {} \in P /\ P \subseteq SUBSET S
  OBVIOUS
<1> HIDE DEF P
<1>3. P = SUBSET S
  BY <1>1, <1>2, SubsetInduction
<1>4. \E x \in S : \A y \in S : x >= y
  BY <1>3 DEF P
<1> QED
  BY <1>4 DEF Max

\* A finite set of integers has a smallest element.
LEMMA MinIsSmallest ==
  ASSUME NEW S, IsFiniteSet(S), S # {}, S \subseteq Int
  PROVE  Min(S) \in S /\ \A x \in S : Min(S) <= x
<1> DEFINE P == {s \in SUBSET S : s = {} \/ \E x \in s : \A y \in s : x <= y}
<1>1. ASSUME NEW s \in SUBSET S, s # {}, \A x \in s : s \ {x} \in P
      PROVE  s \in P
  <2>1. PICK z \in s : TRUE
    BY <1>1
  <2>2. CASE s \ {z} = {}
    <3>1. \A y \in s : z <= y
      BY <2>2
    <3> QED
      BY <3>1
  <2>3. CASE s \ {z} # {}
    <3>1. PICK x \in s \ {z} : \A y \in s \ {z} : x <= y
      BY <1>1, <2>3
    <3>2. CASE x <= z
      <4>1. \A y \in s : x <= y
        BY <3>1, <3>2
      <4> QED
        BY <4>1
    <3>3. CASE z <= x
      <4>1. \A y \in s : z <= y
        BY <3>1, <3>3
      <4> QED
        BY <4>1
    <3> QED
      BY <3>2, <3>3
  <2> QED
    BY <2>2, <2>3
<1>2. {} \in P /\ P \subseteq SUBSET S
  OBVIOUS
<1> HIDE DEF P
<1>3. P = SUBSET S
  BY <1>1, <1>2, SubsetInduction
<1>4. \E x \in S : \A y \in S : x <= y
  BY <1>3 DEF P
<1> QED
  BY <1>4 DEF Min

\* Two elements are finitely many.
LEMMA PairIsFinite == \A a, b : IsFiniteSet({a, b})
<1> TAKE a, b
<1>1. IsFiniteSet({a}) /\ {a} \cup {b} = {a, b}
  BY FS_Singleton
<1>2. IsFiniteSet({a} \cup {b})
  BY <1>1, FS_AddElement
<1> QED
  BY <1>1, <1>2

\* The smaller and the larger of two numbers.
LEMMA PairExtremes ==
  \A a, b \in Int : /\ Max({a, b}) = IF a <= b THEN b ELSE a
                    /\ Min({a, b}) = IF a <= b THEN a ELSE b
<1> TAKE a \in Int, b \in Int
<1> DEFINE S == {a, b}
<1>1. IsFiniteSet(S) /\ S # {} /\ S \subseteq Int /\ a \in S /\ b \in S
  BY PairIsFinite
<1>2. \A x \in S : x = a \/ x = b
  OBVIOUS
<1> HIDE DEF S
<1>3. Max(S) \in S /\ \A x \in S : x <= Max(S)
  BY <1>1, MaxIsLargest
<1>4. Min(S) \in S /\ \A x \in S : Min(S) <= x
  BY <1>1, MinIsSmallest
<1> DEFINE m == Max(S)
           n == Min(S)
<1>5. (m = a \/ m = b) /\ a <= m /\ b <= m /\ (n = a \/ n = b) /\ n <= a /\ n <= b
  BY <1>1, <1>2, <1>3, <1>4
<1> HIDE DEF m, n
<1>6. m = (IF a <= b THEN b ELSE a) /\ n = (IF a <= b THEN a ELSE b)
  BY <1>5
<1> QED
  BY <1>6 DEF S, m, n

\* The values of a function on a finite set are finitely many.
LEMMA ImageIsFinite ==
  ASSUME NEW S, IsFiniteSet(S), NEW f
  PROVE  IsFiniteSet({f[x] : x \in S})
<1> DEFINE g == [x \in S |-> f[x]]
           T == {f[x] : x \in S}
<1>1. g \in Surjection(S, T)
  BY DEF Surjection
<1> QED
  BY <1>1, FS_Surjection

\* A common factor may be taken out of the sum.
LEMMA SumScales ==
  ASSUME NEW S, IsFiniteSet(S), NEW f, NEW h, NEW c \in Int,
         \A x \in S : f[x] \in Int /\ h[x] = c * f[x]
  PROVE  SumOver(h, S) = c * SumOver(f, S)
<1> DEFINE Q == {s \in SUBSET S : SumOver(h, s) = c * SumOver(f, s)}
<1>1. {} \in Q
  <2>1. SumOver(h, {}) = 0 /\ SumOver(f, {}) = 0 /\ c * 0 = 0
    BY SumOfNothing
  <2> QED
    BY <2>1
<1>2. ASSUME NEW s \in SUBSET S, s # {}, \A x \in s : s \ {x} \in Q
      PROVE  s \in Q
  <2>1. PICK x \in s : TRUE
    BY <1>2
  <2> DEFINE R == s \ {x}
             a == SumOver(f, R)
             b == SumOver(h, R)
  <2>2. IsFiniteSet(s) /\ IsFiniteSet(R)
    BY FS_Subset
  <2>3. /\ \A y \in s : f[y] \in Int /\ h[y] \in Int
        /\ h[x] = c * f[x] /\ f[x] \in Int /\ R \in Q
    BY <1>2
  <2>4. b = c * a
    BY <2>3
  <2>5. a \in Int
    BY <2>2, <2>3, SumIsInt
  <2>6. SumOver(f, s) = f[x] + a /\ SumOver(h, s) = h[x] + b
    BY <2>2, <2>3, SumTakesOut
  <2> DEFINE u == f[x]
  <2>7. u \in Int
    BY <2>3
  <2>8. h[x] = c * u
    BY <2>3
  <2> HIDE DEF a, b, u
  <2>9. c * (u + a) = c * u + c * a
    BY <2>5, <2>7
  <2>10. SumOver(h, s) = c * SumOver(f, s)
    BY <2>4, <2>6, <2>8, <2>9 DEF u
  <2> QED
    BY <2>10
<1> HIDE DEF Q
<1>3. Q = SUBSET S
  <2>1. Q \subseteq SUBSET S
    BY DEF Q
  <2> QED
    BY <1>1, <1>2, <2>1, SubsetInduction
<1> QED
  BY <1>3 DEF Q

\* The elements of S that k puts in group d.
Group(S, k, d) == {x \in S : k[x] = d}

\* A sum may be taken group by group.
LEMMA SumByGroup ==
  ASSUME NEW S, IsFiniteSet(S), NEW K, IsFiniteSet(K), NEW h, NEW k, NEW g,
         \A x \in S : h[x] \in Int /\ k[x] \in K,
         \A d \in K : g[d] = SumOver(h, Group(S, k, d))
  PROVE  SumOver(h, S) = SumOver(g, K)
<1> DEFINE In(s) == {x \in S : k[x] \in s}
           Q == {s \in SUBSET K : SumOver(h, In(s)) = SumOver(g, s)}
<1>1. {} \in Q
  <2>1. In({}) = {}
    OBVIOUS
  <2> QED
    BY <2>1, SumOfNothing
<1>4. \A d \in K : g[d] \in Int
  <2> SUFFICES ASSUME NEW d \in K PROVE SumOver(h, Group(S, k, d)) \in Int
    OBVIOUS
  <2> DEFINE G == Group(S, k, d)
  <2>1. IsFiniteSet(G) /\ \A x \in G : h[x] \in Int
    BY FS_Subset DEF Group
  <2> HIDE DEF G
  <2>2. SumOver(h, G) \in Int
    BY <2>1, SumIsInt
  <2> QED
    BY <2>2 DEF G
<1>2. ASSUME NEW s \in SUBSET K, s # {}, \A x \in s : s \ {x} \in Q
      PROVE  s \in Q
  <2>1. PICK d \in s : TRUE
    BY <1>2
  <2> DEFINE R == s \ {d}
             G == Group(S, k, d)
             U == In(R)
  <2>2. IsFiniteSet(s) /\ IsFiniteSet(U) /\ IsFiniteSet(G)
    BY FS_Subset DEF Group
  <2>3. In(s) = U \cup G /\ U \cap G = {} /\ \A x \in U \cup G : h[x] \in Int
    BY DEF Group
  <2>4. SumOver(h, U) = SumOver(g, R)
    BY <1>2
  <2>5. SumOver(h, G) = g[d] /\ d \in K /\ \A x \in s : g[x] \in Int
    BY <1>4
  <2>6. SumOver(g, s) = g[d] + SumOver(g, R)
    BY <2>2, <2>5, SumTakesOut
  <2>9. SumOver(h, U) \in Int /\ SumOver(h, G) \in Int
    <3>1. (\A x \in U : h[x] \in Int) /\ (\A x \in G : h[x] \in Int)
      BY <2>3
    <3> HIDE DEF U, G
    <3> QED
      BY <2>2, <3>1, SumIsInt
  <2> HIDE DEF U, G
  <2>7. SumOver(h, U \cup G) = SumOver(h, U) + SumOver(h, G)
    BY <2>2, <2>3, SumOfUnion
  <2>10. SumOver(h, In(s)) = SumOver(h, U \cup G)
    <3>1. In(s) = U \cup G
      BY <2>3
    <3> QED
      BY <3>1
  <2> DEFINE a == SumOver(h, U)
             b == SumOver(h, G)
             e == SumOver(g, R)
  <2>11. a \in Int /\ b \in Int /\ a = e /\ b = g[d]
         /\ SumOver(g, s) = g[d] + e /\ SumOver(h, In(s)) = a + b
    BY <2>4, <2>5, <2>6, <2>7, <2>9, <2>10
  <2> HIDE DEF a, b, e, In
  <2>8. SumOver(h, In(s)) = SumOver(g, s)
    BY <2>11
  <2> QED
    BY <2>8
<1> HIDE DEF Q
<1>3. Q = SUBSET K
  <2>1. Q \subseteq SUBSET K
    BY DEF Q
  <2> QED
    BY <1>1, <1>2, <2>1, SubsetInduction
<1>5. In(K) = S
  OBVIOUS
<1>6. SumOver(h, In(K)) = SumOver(g, K)
  BY <1>3 DEF Q
<1> QED
  BY <1>5, <1>6

\* Two functions whose sums over a set agree: where one is less, the other is
\* less elsewhere.
LEMMA SumDecides ==
  ASSUME NEW S, IsFiniteSet(S), NEW f, NEW h, NEW G, G \subseteq S,
         \A x \in S : f[x] \in Int /\ h[x] \in Int,
         SumOver(f, S) = SumOver(h, S),
         \A x \in S \ G : f[x] <= h[x]
  PROVE  SumOver(h, G) <= SumOver(f, G)
<1> DEFINE R == S \ G
<1>1. IsFiniteSet(G) /\ IsFiniteSet(R) /\ R \cup G = S /\ R \cap G = {}
  BY FS_Subset
<1>2. (\A x \in R : f[x] \in Int /\ h[x] \in Int /\ f[x] <= h[x])
      /\ (\A x \in G : f[x] \in Int /\ h[x] \in Int)
      /\ (\A x \in R \cup G : f[x] \in Int /\ h[x] \in Int)
  OBVIOUS
<1> HIDE DEF R
<1>3. SumOver(f, R) <= SumOver(h, R)
  BY <1>1, <1>2, SumIsMonotone
<1>4. /\ SumOver(f, R \cup G) = SumOver(f, R) + SumOver(f, G)
      /\ SumOver(h, R \cup G) = SumOver(h, R) + SumOver(h, G)
  BY <1>1, <1>2, SumOfUnion
<1>5. /\ SumOver(f, R) \in Int /\ SumOver(f, G) \in Int
      /\ SumOver(h, R) \in Int /\ SumOver(h, G) \in Int
  BY <1>1, <1>2, SumIsInt
<1>6. SumOver(f, R \cup G) = SumOver(h, R \cup G)
  BY <1>1
<1> QED
  BY <1>3, <1>4, <1>5, <1>6

\* Products over a difference.
LEMMA ProductOfDifference ==
  \A a, b, q \in Int : (a - b) * q = a * q - b * q /\ a * q \in Int /\ b * q \in Int
OBVIOUS

\* A sum of differences is the difference of the sums.
LEMMA SumOfDifferences ==
  ASSUME NEW S, IsFiniteSet(S), NEW f, NEW h, NEW k,
         \A x \in S : f[x] \in Int /\ h[x] \in Int /\ k[x] = f[x] - h[x]
  PROVE  /\ SumOver(k, S) = SumOver(f, S) - SumOver(h, S)
         /\ SumOver(f, S) \in Int /\ SumOver(h, S) \in Int
<1>1. \A x \in S : k[x] \in Int /\ h[x] \in Int /\ f[x] = k[x] + h[x]
  OBVIOUS
<1>2. SumOver(f, S) = SumOver(k, S) + SumOver(h, S)
  BY <1>1, SumOfSums
<1>3. SumOver(k, S) \in Int /\ SumOver(h, S) \in Int /\ SumOver(f, S) \in Int
  BY <1>1, SumIsInt
<1> QED
  BY <1>2, <1>3
=============================================================================
