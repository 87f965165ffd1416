------------------------------ MODULE SumLemmas ------------------------------
(* Arithmetic the proofs keep needing: remainders modulo a word, and sums  *)
(* over finite sets: what SumFunctionOnSet of the community modules        *)
(* computes, whatever order its fold takes.  Its recursion is a function   *)
(* over subsets, and induction over those is stated here with sets, which  *)
(* the provers can instantiate, in place of predicates.                    *)
EXTENDS Integers, Functions, FiniteSetTheorems, TLAPS

------------------------------------------------------------------------------
(* Remainders: what the wrapping ADD and SUB of the VM keep, for a word of  *)
(* any size.                                                               *)

(* Quotient and remainder.                                                 *)
LEMMA DivMod ==
  ASSUME NEW M \in Nat \ {0}, NEW x \in Int
  PROVE  /\ x % M \in 0 .. M - 1
         /\ x \div M \in Int
         /\ x = M * (x \div M) + (x % M)
OBVIOUS

(* The remainder is the only one of its kind.                              *)
LEMMA ModUnique ==
  ASSUME NEW M \in Nat \ {0}, NEW q \in Int, NEW r \in 0 .. M - 1
  PROVE  (M * q + r) % M = r
<1> DEFINE n == M * q + r
           k == n \div M
           d == q - k
<1>1. M * q \in Int
  OBVIOUS
<1>2. n \in Int
  BY <1>1
<1>3. n % M \in 0 .. M - 1 /\ k \in Int /\ n = M * k + (n % M)
  BY <1>2, DivMod
<1> HIDE DEF n, k
<1>4. M * q - M * k = M * d
  BY <1>3
<1>5. M * d = (n % M) - r /\ d \in Int
  BY <1>1, <1>3, <1>4 DEF n
<1> HIDE DEF d
<1>6. d = 0
  <2>1. CASE d >= 1
    <3>1. M * d >= M
      BY <2>1, <1>5
    <3> QED
      BY <3>1, <1>3, <1>5
  <2>2. CASE d <= -1
    <3>1. M * d <= -M
      BY <2>2, <1>5
    <3> QED
      BY <3>1, <1>3, <1>5
  <2> QED
    BY <1>5, <2>1, <2>2
<1> QED
  BY <1>3, <1>5, <1>6 DEF n

(* A word is its own remainder.                                            *)
LEMMA ModSmall ==
  ASSUME NEW M \in Nat \ {0}, NEW x \in 0 .. M - 1
  PROVE  x % M = x
<1> DEFINE q == 0
<1>1. q \in Int /\ M * q + x = x
  OBVIOUS
<1> HIDE DEF q
<1>2. (M * q + x) % M = x
  BY <1>1, ModUnique
<1> QED
  BY <1>1, <1>2

(* One word too many or too few is taken off or added.                     *)
LEMMA ModNear ==
  ASSUME NEW M \in Nat \ {0}, NEW x \in 0 .. M - 1
  PROVE  (x + M) % M = x /\ (x - M) % M = x
<1> DEFINE p == 1
           n == -1
<1>1. p \in Int /\ M * p + x = x + M
  OBVIOUS
<1>2. n \in Int /\ M * n + x = x - M
  OBVIOUS
<1> HIDE DEF p, n
<1>3. (M * p + x) % M = x /\ (M * n + x) % M = x
  BY <1>1, <1>2, ModUnique
<1> QED
  BY <1>1, <1>2, <1>3

(* Multiples of the word make no difference.                               *)
LEMMA ModMultiple ==
  ASSUME NEW M \in Nat \ {0}, NEW x \in Int, NEW k \in Int
  PROVE  (x + M * k) % M = x % M
<1> DEFINE q == (x \div M) + k
<1>1. x % M \in 0 .. M - 1 /\ x \div M \in Int /\ x = M * (x \div M) + (x % M)
  BY DivMod
<1>2. q \in Int
  BY <1>1
<1>3. M * (x \div M) + M * k = M * q
  BY <1>1
<1>4. (M * q + (x % M)) % M = x % M
  BY <1>1, <1>2, ModUnique
<1>5. x + M * k = M * q + (x % M)
  BY <1>1, <1>3
<1> QED
  BY <1>4, <1>5

(* A wrapped summand counts like the summand.                              *)
LEMMA ModSum ==
  ASSUME NEW M \in Nat \ {0}, NEW a \in Int, NEW b \in Int
  PROVE  ((a % M) + b) % M = (a + b) % M
<1> DEFINE q == a \div M
           r == a % M
<1>1. a = M * q + r /\ q \in Int /\ r \in Int
  BY DivMod
<1> HIDE DEF q, r
<1>2. M * q \in Int /\ r + b \in Int
  BY <1>1
<1>3. (r + b) + M * q = a + b
  BY <1>1, <1>2
<1>4. ((r + b) + M * q) % M = (r + b) % M
  BY <1>1, <1>2, ModMultiple
<1> QED
  BY <1>3, <1>4 DEF r

(* Equal remainders stay equal when the same is added to both sides.       *)
LEMMA ModShift ==
  ASSUME NEW M \in Nat \ {0}, NEW a \in Int, NEW b \in Int, NEW n \in Int,
         a % M = b % M
  PROVE  (a + n) % M = (b + n) % M
<1>1. ((a % M) + n) % M = (a + n) % M /\ ((b % M) + n) % M = (b + n) % M
  BY ModSum
<1> QED
  BY <1>1

------------------------------------------------------------------------------
(* Sums.                                                                   *)

(* The element the fold takes out of T first.                              *)
Pick(T) == CHOOSE x \in T : TRUE

(* g solves the recursion of the fold on the subsets of S.                 *)
Sums(g, f, S) ==
  g = [T \in SUBSET S |->
         IF T = {} THEN 0 ELSE f[Pick(T)] + g[T \ {Pick(T)}]]

(* Induction over the subsets of a finite set, for a set G of them instead *)
(* of a predicate: a minimal subset outside G would contradict the step.   *)
LEMMA SubsetInduction ==
  ASSUME NEW S, IsFiniteSet(S), NEW G,
         \A T \in SUBSET S :
           (\A U \in SUBSET T : U # T => U \in G) => T \in G
  PROVE  SUBSET S \subseteq G
<1> DEFINE bad == {T \in SUBSET S : T \notin G}
           R == StrictSubsetOrdering(S)
<1>1. SUFFICES ASSUME bad # {} PROVE FALSE
  OBVIOUS
<1>2. IsWellFoundedOn(R, SUBSET S)
  BY FS_StrictSubsetOrderingWellFounded, FS_FiniteSubsetsOfFinite
<1>3. bad \subseteq SUBSET S /\ bad # {}
  BY <1>1
<1>4. \E T \in bad : \A U \in bad : ~ (<<U, T>> \in R)
  <2> HIDE DEF bad, R
  <2> QED
    BY <1>2, <1>3, WFMin
<1>5. PICK T \in bad : \A U \in bad : <<U, T>> \notin R
  BY <1>4
<1>6. ASSUME NEW U \in SUBSET T, U # T PROVE U \in G
  <2>1. <<U, T>> \in R
    BY <1>6 DEF StrictSubsetOrdering
  <2> QED
    BY <1>5, <2>1
<1> QED
  BY <1>5, <1>6

(* A sum is the value at S of a function that recurses on subsets of S.    *)
LEMMA SumIsFold ==
  ASSUME NEW f, NEW S
  PROVE  SumFunctionOnSet(f, S) = (CHOOSE g : Sums(g, f, S))[S]
BY DEF SumFunctionOnSet, FoldFunctionOnSet, MapThenFoldSet, Sums, Pick

(* The subsets of S of up to n elements, and the recursion on them.        *)
Upto(n, S) == {T \in SUBSET S : Cardinality(T) <= n}

Level(g, f, S, n) ==
  \A T \in Upto(n, S) :
    g[T] = IF T = {} THEN 0 ELSE f[Pick(T)] + g[T \ {Pick(T)}]

(* The element the fold takes next is there.                               *)
LEMMA PickIn == \A T : T # {} => Pick(T) \in T
BY DEF Pick

(* Taking it out goes one level down.                                      *)
LEMMA SmallerLevel ==
  ASSUME NEW S, IsFiniteSet(S), NEW n \in Nat, NEW T \in Upto(n + 1, S), T # {}
  PROVE  T \ {Pick(T)} \in Upto(n, S)
<1>1. IsFiniteSet(T) /\ Pick(T) \in T
  BY FS_Subset, PickIn DEF Upto
<1>2. Cardinality(T \ {Pick(T)}) = Cardinality(T) - 1 /\ Cardinality(T) \in Nat
  BY <1>1, FS_RemoveElement, FS_CardinalityType
<1>3. Cardinality(T) <= n + 1 /\ T \subseteq S
  BY DEF Upto
<1> QED
  BY <1>2, <1>3 DEF Upto

(* Induction over the natural numbers, for a set of them.                  *)
LEMMA NatSetInduction ==
  ASSUME NEW G, 0 \in G, \A n \in Nat : n \in G => n + 1 \in G
  PROVE  Nat \subseteq G
<1> DEFINE bad == Nat \ G
           R == OpToRel(<, Nat)
<1>1. SUFFICES ASSUME bad # {} PROVE FALSE
  OBVIOUS
<1>2. IsWellFoundedOn(R, Nat)
  BY NatLessThanWellFounded
<1>3. bad \subseteq Nat
  OBVIOUS
<1>4. \E T \in bad : \A U \in bad : ~ (<<U, T>> \in R)
  <2> HIDE DEF bad, R
  <2> QED
    BY <1>1, <1>2, <1>3, WFMin
<1>5. PICK n \in bad : \A m \in bad : ~ (<<m, n>> \in R)
  BY <1>4
<1>6. n \in Nat \ {0}
  BY <1>5
<1>7. n - 1 \in Nat /\ <<n - 1, n>> \in R
  BY <1>6 DEF OpToRel
<1>8. n - 1 \in G
  BY <1>5, <1>7
<1>9. (n - 1) + 1 = n
  BY <1>6
<1>10. n \in G
  BY <1>7, <1>8, <1>9
<1> QED
  BY <1>5, <1>10

(* A function that obeys the recursion on the sets of up to n elements:    *)
(* each level is read off the one below.                                   *)
LEMMA LevelExists ==
  ASSUME NEW S, IsFiniteSet(S), NEW f, NEW n \in Nat
  PROVE  \E g : g = [T \in SUBSET S |-> g[T]] /\ Level(g, f, S, n)
<1> DEFINE Good(k) == \E g : g = [T \in SUBSET S |-> g[T]] /\ Level(g, f, S, k)
           G == {k \in Nat : Good(k)}
<1>1. 0 \in G
  <2> DEFINE g == [T \in SUBSET S |-> 0]
  <2>1. Upto(0, S) \subseteq {{}}
    <3> SUFFICES ASSUME NEW T \in Upto(0, S) PROVE T = {}
      OBVIOUS
    <3>1. IsFiniteSet(T) /\ Cardinality(T) <= 0
      BY FS_Subset DEF Upto
    <3>2. Cardinality(T) = 0
      BY <3>1, FS_CardinalityType
    <3> QED
      BY <3>1, <3>2, FS_EmptySet
  <2>2. Level(g, f, S, 0)
    BY <2>1 DEF Level
  <2>3. g = [T \in SUBSET S |-> g[T]]
    OBVIOUS
  <2> HIDE DEF g
  <2> QED
    BY <2>2, <2>3
<1>2. ASSUME NEW k \in Nat, k \in G
      PROVE  k + 1 \in G
  <2>1. PICK g : g = [T \in SUBSET S |-> g[T]] /\ Level(g, f, S, k)
    BY <1>2
  <2> DEFINE h == [T \in SUBSET S |->
                     IF T = {} THEN 0 ELSE f[Pick(T)] + g[T \ {Pick(T)}]]
  <2>2. ASSUME NEW T \in Upto(k, S)
        PROVE  h[T] = g[T]
    BY <2>1 DEF Level, Upto
  <2>3. ASSUME NEW T \in Upto(k + 1, S), T # {}
        PROVE  h[T] = f[Pick(T)] + h[T \ {Pick(T)}]
    <3>1. h[T] = f[Pick(T)] + g[T \ {Pick(T)}]
      BY <2>3 DEF Upto
    <3>2. g[T \ {Pick(T)}] = h[T \ {Pick(T)}]
      BY <2>2, <2>3, SmallerLevel
    <3> QED
      BY <3>1, <3>2
  <2>4. {} \in SUBSET S /\ h[{}] = 0
    OBVIOUS
  <2>5. h = [T \in SUBSET S |-> h[T]]
    OBVIOUS
  <2> HIDE DEF h
  <2>6. Level(h, f, S, k + 1)
    BY <2>3, <2>4 DEF Level
  <2> QED
    BY <2>5, <2>6
<1> HIDE DEF G
<1>3. Nat \subseteq G
  BY <1>1, <1>2, NatSetInduction
<1> QED
  BY <1>3 DEF G

(* The recursion has a solution on the subsets of a finite set.            *)
LEMMA SumsExist ==
  ASSUME NEW S, IsFiniteSet(S), NEW f
  PROVE  \E g : Sums(g, f, S)
<1> DEFINE n == Cardinality(S)
<1>1. n \in Nat
  BY FS_CardinalityType
<1>2. PICK g : g = [T \in SUBSET S |-> g[T]] /\ Level(g, f, S, n)
  BY <1>1, LevelExists
<1>3. Upto(n, S) = SUBSET S
  BY FS_Subset DEF Upto
<1> DEFINE h == [T \in SUBSET S |->
                     IF T = {} THEN 0 ELSE f[Pick(T)] + g[T \ {Pick(T)}]]
<1>4. \A T \in SUBSET S : g[T] = h[T]
  BY <1>2, <1>3 DEF Level
<1>5. g = h
  <2>1. g = [T \in SUBSET S |-> g[T]]
    BY <1>2
  <2>2. h = [T \in SUBSET S |-> h[T]]
    OBVIOUS
  <2> HIDE DEF h
  <2>3. [T \in SUBSET S |-> g[T]] = [T \in SUBSET S |-> h[T]]
    BY <1>4
  <2> QED
    BY <2>1, <2>2, <2>3
<1> QED
  BY <1>5 DEF Sums

(* So a sum is the value of a solution.                                    *)
LEMMA SumOfSums ==
  ASSUME NEW S, IsFiniteSet(S), NEW f
  PROVE  \E g : Sums(g, f, S) /\ SumFunctionOnSet(f, S) = g[S]
<1> DEFINE g == CHOOSE g : Sums(g, f, S)
<1>1. Sums(g, f, S)
  BY SumsExist
<1>2. SumFunctionOnSet(f, S) = g[S]
  BY SumIsFold
<1> QED
  BY <1>1, <1>2

(* The recursion, case by case.                                            *)
Stepwise(g, f, S) ==
  /\ g[{}] = 0
  /\ \A T \in SUBSET S : T # {} => g[T] = f[Pick(T)] + g[T \ {Pick(T)}]

(* What a solution is at the empty set and at the others.                  *)
LEMMA SumsStep ==
  ASSUME NEW S, NEW f, NEW g, Sums(g, f, S)
  PROVE  Stepwise(g, f, S)
<1> DEFINE h == [T \in SUBSET S |->
                     IF T = {} THEN 0 ELSE f[Pick(T)] + g[T \ {Pick(T)}]]
<1>1. g = h
  BY DEF Sums
<1>2. \A T \in SUBSET S :
        h[T] = IF T = {} THEN 0 ELSE f[Pick(T)] + g[T \ {Pick(T)}]
  OBVIOUS
<1> HIDE DEF h
<1>3. \A T \in SUBSET S :
        g[T] = IF T = {} THEN 0 ELSE f[Pick(T)] + g[T \ {Pick(T)}]
  BY <1>1, <1>2
<1>4. {} \in SUBSET S
  OBVIOUS
<1> QED
  BY <1>3, <1>4 DEF Stepwise

(* Solutions for a set and for a subset of it agree on the subset.         *)
LEMMA SumsAgree ==
  ASSUME NEW S, IsFiniteSet(S), NEW S2 \in SUBSET S, NEW f,
         NEW g, Sums(g, f, S), NEW h, Sums(h, f, S2)
  PROVE  g[S2] = h[S2]
<1> DEFINE G == {T \in SUBSET S2 : g[T] = h[T]}
<1>1. IsFiniteSet(S2)
  BY FS_Subset
<1>2. ASSUME NEW T \in SUBSET S2, \A U \in SUBSET T : U # T => U \in G
      PROVE  T \in G
  <2>1. CASE T = {}
    BY <2>1, SumsStep DEF Stepwise
  <2>2. CASE T # {}
    <3>1. Pick(T) \in T
      BY <2>2, PickIn
    <3>2. T \ {Pick(T)} \in G
      BY <1>2, <3>1
    <3>3. g[T] = f[Pick(T)] + g[T \ {Pick(T)}]
      BY <2>2, SumsStep DEF Stepwise
    <3>4. h[T] = f[Pick(T)] + h[T \ {Pick(T)}]
      BY <2>2, SumsStep DEF Stepwise
    <3> QED
      BY <3>2, <3>3, <3>4
  <2> QED
    BY <2>1, <2>2
<1> HIDE DEF G
<1>3. SUBSET S2 \subseteq G
  BY <1>1, <1>2, SubsetInduction
<1> QED
  BY <1>3 DEF G

(* A solution for integers is an integer everywhere.                       *)
LEMMA SumsType ==
  ASSUME NEW S, IsFiniteSet(S), NEW f, \A a \in S : f[a] \in Int,
         NEW g, Sums(g, f, S)
  PROVE  \A T \in SUBSET S : g[T] \in Int
<1> DEFINE G == {T \in SUBSET S : g[T] \in Int}
<1>0. \A T \in SUBSET S : T # {} => g[T] = f[Pick(T)] + g[T \ {Pick(T)}]
  <2>1. Stepwise(g, f, S)
    BY SumsStep
  <2> QED
    BY <2>1 DEF Stepwise
<1>1. ASSUME NEW T \in SUBSET S, \A U \in SUBSET T : U # T => U \in G
      PROVE  T \in G
  <2>1. CASE T = {}
    BY <2>1, SumsStep DEF Stepwise
  <2>2. CASE T # {}
    <3>1. Pick(T) \in T
      BY <2>2, PickIn
    <3>2. T \ {Pick(T)} \in G
      BY <1>1, <3>1
    <3>3. g[T \ {Pick(T)}] \in Int
      BY <3>2
    <3>5. Pick(T) \in S
      BY <3>1
    <3>6. f[Pick(T)] \in Int
      BY <3>5
    <3>4. g[T] = f[Pick(T)] + g[T \ {Pick(T)}]
      BY <1>0, <2>2
    <3> QED
      BY <3>3, <3>4, <3>6
  <2> QED
    BY <2>1, <2>2
<1> HIDE DEF G
<1>2. SUBSET S \subseteq G
  BY <1>1, SubsetInduction
<1> QED
  BY <1>2 DEF G

(* The order in which the elements are taken makes no difference.          *)
LEMMA SumsAny ==
  ASSUME NEW S, IsFiniteSet(S), NEW f, \A a \in S : f[a] \in Int,
         NEW g, Sums(g, f, S)
  PROVE  \A T \in SUBSET S : \A a \in T : g[T] = f[a] + g[T \ {a}]
<1> DEFINE G == {T \in SUBSET S : \A a \in T : g[T] = f[a] + g[T \ {a}]}
<1>1. ASSUME NEW T \in SUBSET S, \A U \in SUBSET T : U # T => U \in G
      PROVE  T \in G
  <2> SUFFICES ASSUME NEW a \in T PROVE g[T] = f[a] + g[T \ {a}]
    OBVIOUS
  <2> DEFINE p == Pick(T)
  <2>1. p \in T /\ g[T] = f[p] + g[T \ {p}]
    BY PickIn, SumsStep DEF Stepwise
  <2>2. CASE a = p
    BY <2>1, <2>2
  <2>3. CASE a # p
    <3> HIDE DEF p
    <3> DEFINE R == (T \ {a}) \ {p}
    <3>1. T \ {p} \in G /\ a \in T \ {p}
      BY <1>1, <2>1, <2>3
    <3>2. T \ {a} \in G /\ p \in T \ {a}
      BY <1>1, <2>1, <2>3
    <3>3. (T \ {p}) \ {a} = R
      OBVIOUS
    <3>4. g[T \ {p}] = f[a] + g[R]
      BY <3>1, <3>3
    <3>5. g[T \ {a}] = f[p] + g[R]
      BY <3>2
    <3>6. g[R] \in Int /\ f[p] \in Int /\ f[a] \in Int
      BY <2>1, SumsType
    <3> HIDE DEF R, G
    <3> QED
      BY <2>1, <3>4, <3>5, <3>6
  <2> QED
    BY <2>2, <2>3
<1> HIDE DEF G
<1>2. SUBSET S \subseteq G
  BY <1>1, SubsetInduction
<1> QED
  BY <1>2 DEF G

------------------------------------------------------------------------------
(* A sum over no element is zero.                                          *)
LEMMA SumEmpty == ASSUME NEW f PROVE SumFunctionOnSet(f, {}) = 0
BY SumOfSums, SumsStep, FS_EmptySet DEF Stepwise

(* A sum of integers is an integer.                                        *)
LEMMA SumType ==
  ASSUME NEW S, IsFiniteSet(S), NEW f, \A a \in S : f[a] \in Int
  PROVE  SumFunctionOnSet(f, S) \in Int
BY SumOfSums, SumsType

(* Any element can be taken out of a sum.                                  *)
LEMMA SumRemove ==
  ASSUME NEW S, IsFiniteSet(S), NEW f, \A a \in S : f[a] \in Int, NEW a \in S
  PROVE  SumFunctionOnSet(f, S) = f[a] + SumFunctionOnSet(f, S \ {a})
<1>1. PICK g : Sums(g, f, S) /\ SumFunctionOnSet(f, S) = g[S]
  BY SumOfSums
<1>2. IsFiniteSet(S \ {a}) /\ S \ {a} \in SUBSET S
  BY FS_RemoveElement
<1>3. PICK h : Sums(h, f, S \ {a}) /\ SumFunctionOnSet(f, S \ {a}) = h[S \ {a}]
  BY <1>2, SumOfSums
<1>4. g[S \ {a}] = h[S \ {a}]
  BY <1>1, <1>2, <1>3, SumsAgree
<1>5. /\ S \in SUBSET S
      /\ \A T \in SUBSET S : \A b \in T : g[T] = f[b] + g[T \ {b}]
  BY <1>1, SumsAny
<1>6. g[S] = f[a] + g[S \ {a}]
  BY <1>5
<1> QED
  BY <1>1, <1>3, <1>4, <1>6

(* Induction over a finite set by adding any one element.                  *)
LEMMA ElementInduction ==
  ASSUME NEW S, IsFiniteSet(S), NEW G, {} \in G,
         \A T \in SUBSET S : \A a \in T : T \ {a} \in G => T \in G
  PROVE  S \in G
<1>1. ASSUME NEW T \in SUBSET S, \A U \in SUBSET T : U # T => U \in G
      PROVE  T \in G
  <2>1. CASE T = {}
    BY <2>1
  <2>2. CASE T # {}
    <3>1. PICK a \in T : TRUE
      BY <2>2
    <3>2. T \ {a} \in G
      BY <1>1, <3>1
    <3> QED
      BY <3>1, <3>2
  <2> QED
    BY <2>1, <2>2
<1>2. SUBSET S \subseteq G
  BY <1>1, SubsetInduction
<1> QED
  BY <1>2

(* The three facts above, for every part of a set that sums integers.      *)
LEMMA SumParts ==
  ASSUME NEW S, IsFiniteSet(S), NEW f, \A a \in S : f[a] \in Int,
         NEW T \in SUBSET S
  PROVE  /\ IsFiniteSet(T)
         /\ SumFunctionOnSet(f, T) \in Int
         /\ \A a \in T : /\ SumFunctionOnSet(f, T)
                              = f[a] + SumFunctionOnSet(f, T \ {a})
                         /\ SumFunctionOnSet(f, T \ {a}) \in Int
<1>1. IsFiniteSet(T) /\ \A a \in T : f[a] \in Int
  BY FS_Subset
<1>2. SumFunctionOnSet(f, T) \in Int
  BY <1>1, SumType
<1>3. ASSUME NEW a \in T
      PROVE  /\ SumFunctionOnSet(f, T) = f[a] + SumFunctionOnSet(f, T \ {a})
             /\ SumFunctionOnSet(f, T \ {a}) \in Int
  <2>1. IsFiniteSet(T \ {a}) /\ \A b \in T \ {a} : f[b] \in Int
    BY <1>1, FS_RemoveElement
  <2> QED
    BY <1>1, <2>1, SumRemove, SumType
<1> QED
  BY <1>1, <1>2, <1>3

(* A sum depends only on the summands.                                     *)
LEMMA SumSame ==
  ASSUME NEW S, IsFiniteSet(S), NEW f, NEW g,
         \A a \in S : f[a] \in Int /\ g[a] = f[a]
  PROVE  SumFunctionOnSet(g, S) = SumFunctionOnSet(f, S)
<1> DEFINE G == {T \in SUBSET S :
                    SumFunctionOnSet(g, T) = SumFunctionOnSet(f, T)}
<1>1. {} \in G
  BY SumEmpty
<1>2. ASSUME NEW T \in SUBSET S, NEW a \in T, T \ {a} \in G
      PROVE  T \in G
  <2>1. SumFunctionOnSet(f, T) = f[a] + SumFunctionOnSet(f, T \ {a})
    BY SumParts
  <2>2. SumFunctionOnSet(g, T) = g[a] + SumFunctionOnSet(g, T \ {a})
    BY SumParts
  <2> QED
    BY <1>2, <2>1, <2>2
<1> HIDE DEF G
<1>3. S \in G
  BY <1>1, <1>2, ElementInduction
<1> QED
  BY <1>3 DEF G

(* f and g are integers on S and differ at most on T.                      *)
SameBut(f, g, T, S) ==
  /\ \A c \in S : f[c] \in Int /\ g[c] \in Int
  /\ \A c \in S \ T : g[c] = f[c]

(* A sum in which one summand changes.                                     *)
LEMMA SumChange ==
  ASSUME NEW S, IsFiniteSet(S), NEW f, NEW g, NEW a \in S,
         SameBut(f, g, {a}, S)
  PROVE  SumFunctionOnSet(g, S) = (SumFunctionOnSet(f, S) - f[a]) + g[a]
<1>1. /\ SumFunctionOnSet(f, S) = f[a] + SumFunctionOnSet(f, S \ {a})
      /\ SumFunctionOnSet(f, S \ {a}) \in Int
  BY SumParts DEF SameBut
<1>2. SumFunctionOnSet(g, S) = g[a] + SumFunctionOnSet(g, S \ {a})
  BY SumParts DEF SameBut
<1>3. SumFunctionOnSet(g, S \ {a}) = SumFunctionOnSet(f, S \ {a})
  <2>1. IsFiniteSet(S \ {a})
    BY FS_RemoveElement
  <2> QED
    BY <2>1, SumSame DEF SameBut
<1>4. f[a] \in Int /\ g[a] \in Int
  BY DEF SameBut
<1> QED
  BY <1>1, <1>2, <1>3, <1>4

(* A sum in which two summands change.                                     *)
LEMMA SumExchange ==
  ASSUME NEW S, IsFiniteSet(S), NEW f, NEW g, NEW a \in S, NEW b \in S \ {a},
         SameBut(f, g, {a, b}, S)
  PROVE  SumFunctionOnSet(g, S)
           = (((SumFunctionOnSet(f, S) - f[a]) + g[a]) - f[b]) + g[b]
<1> DEFINE h == [c \in S |-> IF c = a THEN g[c] ELSE f[c]]
<1>1. SameBut(f, h, {a}, S)
  BY DEF SameBut
<1>2. SameBut(h, g, {b}, S)
  BY DEF SameBut
<1>3. h[a] = g[a] /\ h[b] = f[b]
  OBVIOUS
<1> HIDE DEF h
<1>4. SumFunctionOnSet(h, S) = (SumFunctionOnSet(f, S) - f[a]) + h[a]
  BY <1>1, SumChange
<1>5. SumFunctionOnSet(g, S) = (SumFunctionOnSet(h, S) - h[b]) + g[b]
  BY <1>2, SumChange
<1> QED
  BY <1>3, <1>4, <1>5

(* A summand that moves by n and wraps moves a wrapped sum by n.           *)
LEMMA SumWrapped ==
  ASSUME NEW S, IsFiniteSet(S), NEW M \in Nat \ {0}, NEW n \in Int,
         NEW f, NEW g, NEW a \in S, SameBut(f, g, {a}, S)
  PROVE  g[a] = (f[a] + n) % M
           => SumFunctionOnSet(g, S) % M = (SumFunctionOnSet(f, S) + n) % M
<1> DEFINE F == SumFunctionOnSet(f, S)
           G == SumFunctionOnSet(g, S)
<1>1. G = (F - f[a]) + g[a]
  BY SumChange
<1>2. F \in Int /\ f[a] \in Int /\ g[a] \in Int
  BY SumType DEF SameBut
<1> HIDE DEF F, G
<1>3. SUFFICES ASSUME g[a] = (f[a] + n) % M PROVE G % M = (F + n) % M
  BY DEF F, G
<1> DEFINE y == F - f[a]
<1>4. f[a] + n \in Int /\ y \in Int /\ (f[a] + n) + y = F + n
  BY <1>2
<1> HIDE DEF y
<1>5. (((f[a] + n) % M) + y) % M = ((f[a] + n) + y) % M
  BY <1>4, ModSum
<1>6. G = g[a] + y
  BY <1>1, <1>2 DEF y
<1> QED
  BY <1>3, <1>4, <1>5, <1>6

(* From f to g, the summand a alone gains n and wraps, or loses n.          *)
Gains(f, g, a, n, M, S) == SameBut(f, g, {a}, S) /\ g[a] = (f[a] + n) % M
Loses(f, g, a, n, M, S) == SameBut(f, g, {a}, S) /\ g[a] = (f[a] - n) % M

(* What one summand gains and another, or the same, then loses cancels in  *)
(* a wrapped sum.                                                          *)
LEMMA SumCancels ==
  ASSUME NEW S, IsFiniteSet(S), NEW M \in Nat \ {0}, NEW n \in Int,
         NEW f, NEW h, NEW g, NEW a \in S, NEW b \in S,
         Gains(f, h, a, n, M, S), Loses(h, g, b, n, M, S)
  PROVE  SumFunctionOnSet(g, S) % M = SumFunctionOnSet(f, S) % M
<1> DEFINE F == SumFunctionOnSet(f, S)
           H == SumFunctionOnSet(h, S)
           G == SumFunctionOnSet(g, S)
<1>0. SameBut(f, h, {a}, S) /\ SameBut(h, g, {b}, S)
  BY DEF Gains, Loses
<1>1. F \in Int /\ H \in Int /\ h[b] \in Int
  BY <1>0, SumType DEF SameBut
<1>2. h[a] = (f[a] + n) % M /\ g[b] = (h[b] - n) % M
  BY DEF Gains, Loses
<1>3. H % M = (F + n) % M
  BY <1>0, <1>2, SumWrapped
<1> DEFINE k == -n
<1>4. k \in Int /\ h[b] - n = h[b] + k /\ F + n \in Int /\ (F + n) + k = F
  BY <1>1
<1> HIDE DEF k
<1>5. g[b] = (h[b] + k) % M
  BY <1>2, <1>4
<1>6. G % M = (H + k) % M
  BY <1>0, <1>4, <1>5, SumWrapped
<1> HIDE DEF F, G, H
<1> DEFINE y == F + n
<1>7. y \in Int /\ y + k = F /\ H % M = y % M
  BY <1>3, <1>4
<1> HIDE DEF y
<1>8. (H + k) % M = (y + k) % M
  <2>1. ((H % M) + k) % M = (H + k) % M /\ ((y % M) + k) % M = (y + k) % M
    BY <1>1, <1>4, <1>7, ModSum
  <2> QED
    BY <1>7, <2>1
<1> QED
  BY <1>6, <1>7, <1>8 DEF F, G

(* Larger summands have a larger sum.                                      *)
LEMMA SumMonotonic ==
  ASSUME NEW S, IsFiniteSet(S), NEW f, NEW g,
         \A a \in S : f[a] \in Int /\ g[a] \in Int /\ f[a] <= g[a]
  PROVE  SumFunctionOnSet(f, S) <= SumFunctionOnSet(g, S)
<1> DEFINE G == {T \in SUBSET S :
                    SumFunctionOnSet(f, T) <= SumFunctionOnSet(g, T)}
<1>1. {} \in G
  BY SumEmpty
<1>2. ASSUME NEW T \in SUBSET S, NEW a \in T, T \ {a} \in G
      PROVE  T \in G
  <2>1. /\ SumFunctionOnSet(f, T) = f[a] + SumFunctionOnSet(f, T \ {a})
        /\ SumFunctionOnSet(f, T \ {a}) \in Int
    BY SumParts
  <2>2. /\ SumFunctionOnSet(g, T) = g[a] + SumFunctionOnSet(g, T \ {a})
        /\ SumFunctionOnSet(g, T \ {a}) \in Int
    BY SumParts
  <2>3. SumFunctionOnSet(f, T \ {a}) <= SumFunctionOnSet(g, T \ {a})
    BY <1>2
  <2>4. f[a] \in Int /\ g[a] \in Int /\ f[a] <= g[a]
    OBVIOUS
  <2> QED
    BY <2>1, <2>2, <2>3, <2>4
<1> HIDE DEF G
<1>3. S \in G
  BY <1>1, <1>2, ElementInduction
<1> QED
  BY <1>3 DEF G

(* A sum of zeros is zero.                                                 *)
LEMMA SumZero ==
  ASSUME NEW S, IsFiniteSet(S), NEW f, \A a \in S : f[a] = 0
  PROVE  SumFunctionOnSet(f, S) = 0
<1> DEFINE G == {T \in SUBSET S : SumFunctionOnSet(f, T) = 0}
<1>1. {} \in G
  BY SumEmpty
<1>2. ASSUME NEW T \in SUBSET S, NEW a \in T, T \ {a} \in G
      PROVE  T \in G
  <2>1. SumFunctionOnSet(f, T) = f[a] + SumFunctionOnSet(f, T \ {a}) 
    BY SumParts
  <2> QED
    BY <1>2, <2>1
<1> HIDE DEF G
<1>3. S \in G
  BY <1>1, <1>2, ElementInduction
<1> QED
  BY <1>3 DEF G

(* A sum of natural numbers bounds each of them and each two of them.      *)
LEMMA SumNat ==
  ASSUME NEW S, IsFiniteSet(S), NEW f, \A a \in S : f[a] \in Nat
  PROVE  /\ SumFunctionOnSet(f, S) \in Nat
         /\ \A a \in S : f[a] <= SumFunctionOnSet(f, S)
         /\ \A a, b \in S : a # b => f[a] + f[b] <= SumFunctionOnSet(f, S)
<1>1. ASSUME NEW T \in SUBSET S
      PROVE  SumFunctionOnSet(f, T) \in Nat
  <2> DEFINE z == [a \in S |-> 0]
  <2>1. IsFiniteSet(T) /\ \A a \in T : z[a] = 0 /\ f[a] \in Nat
    BY FS_Subset
  <2> HIDE DEF z
  <2>2. /\ SumFunctionOnSet(z, T) = 0
        /\ SumFunctionOnSet(z, T) <= SumFunctionOnSet(f, T)
        /\ SumFunctionOnSet(f, T) \in Int
    BY <2>1, SumZero, SumMonotonic, SumType
  <2> QED
    BY <2>2
<1>2. ASSUME NEW T \in SUBSET S, NEW a \in T
      PROVE  /\ SumFunctionOnSet(f, T) = f[a] + SumFunctionOnSet(f, T \ {a})
             /\ SumFunctionOnSet(f, T \ {a}) \in Nat
  <2>1. T \ {a} \in SUBSET S
    OBVIOUS
  <2>2. SumFunctionOnSet(f, T \ {a}) \in Nat
    BY <1>1, <2>1
  <2>3. \A b \in S : f[b] \in Int
    OBVIOUS
  <2> QED
    BY <2>2, <2>3, SumParts
<1>3. ASSUME NEW a \in S PROVE f[a] <= SumFunctionOnSet(f, S)
  <2>1. /\ SumFunctionOnSet(f, S) = f[a] + SumFunctionOnSet(f, S \ {a})
        /\ SumFunctionOnSet(f, S \ {a}) \in Nat
    BY <1>2
  <2>2. f[a] \in Nat
    OBVIOUS
  <2> QED
    BY <2>1, <2>2
<1>4. ASSUME NEW a \in S, NEW b \in S, a # b
      PROVE  f[a] + f[b] <= SumFunctionOnSet(f, S)
  <2>1. SumFunctionOnSet(f, S) = f[a] + SumFunctionOnSet(f, S \ {a})
    BY <1>2
  <2>2. /\ SumFunctionOnSet(f, S \ {a})
          = f[b] + SumFunctionOnSet(f, (S \ {a}) \ {b})
        /\ SumFunctionOnSet(f, (S \ {a}) \ {b}) \in Nat
    BY <1>2, <1>4
  <2> QED
    BY <2>1, <2>2
<1> QED
  BY <1>1, <1>3, <1>4

(* A part of a sum is the sum with the rest of the summands set to zero.   *)
LEMMA SumMasked ==
  ASSUME NEW S, IsFiniteSet(S), NEW T \in SUBSET S, NEW f,
         \A a \in S : f[a] \in Int
  PROVE  SumFunctionOnSet([a \in S |-> IF a \in T THEN f[a] ELSE 0], S)
           = SumFunctionOnSet(f, T)
<1> DEFINE z == [a \in S |-> IF a \in T THEN f[a] ELSE 0]
           G == {U \in SUBSET S :
                    SumFunctionOnSet(z, U) = SumFunctionOnSet(f, U \cap T)}
<1>0. \A U \in SUBSET S : /\ SumFunctionOnSet(z, U) \in Int
                          /\ SumFunctionOnSet(f, U) \in Int
  BY SumParts
<1>1. {} \in G
  BY SumEmpty
<1>2. ASSUME NEW U \in SUBSET S, NEW a \in U, U \ {a} \in G
      PROVE  U \in G
  <2>1. SumFunctionOnSet(z, U) = z[a] + SumFunctionOnSet(z, U \ {a})
    BY SumParts
  <2>2. SumFunctionOnSet(z, U \ {a}) = SumFunctionOnSet(f, (U \ {a}) \cap T)
    BY <1>2
  <2>3. CASE a \in T
    <3>1. /\ (U \ {a}) \cap T = (U \cap T) \ {a}
          /\ a \in U \cap T
          /\ U \cap T \in SUBSET S
      BY <2>3
    <3>2. \A b \in S : f[b] \in Int
      OBVIOUS
    <3>3. SumFunctionOnSet(f, U \cap T)
            = f[a] + SumFunctionOnSet(f, (U \cap T) \ {a})
      BY <3>1, <3>2, SumParts
    <3>4. z[a] = f[a]
      BY <2>3
    <3> QED
      BY <2>1, <2>2, <3>1, <3>3, <3>4
  <2>4. CASE a \notin T
    <3>1. (U \ {a}) \cap T = U \cap T
      BY <2>4
    <3>2. z[a] = 0 /\ SumFunctionOnSet(z, U \ {a}) \in Int
      BY <1>0, <2>4
    <3>3. SumFunctionOnSet(z, U) = SumFunctionOnSet(z, U \ {a})
      BY <2>1, <3>2
    <3> QED
      BY <2>2, <3>1, <3>3
  <2> QED
    BY <2>3, <2>4
<1> HIDE DEF G
<1>3. S \in G
  BY <1>1, <1>2, ElementInduction
<1>4. SumFunctionOnSet(z, S) = SumFunctionOnSet(f, T)
  <2>1. S \cap T = T
    OBVIOUS
  <2> QED
    BY <1>3, <2>1 DEF G
<1> QED
  BY <1>4

(* A part of a sum of natural numbers is no more than the whole.           *)
LEMMA SumSubset ==
  ASSUME NEW S, IsFiniteSet(S), NEW T \in SUBSET S, NEW f,
         \A a \in S : f[a] \in Nat
  PROVE  SumFunctionOnSet(f, T) <= SumFunctionOnSet(f, S)
<1> DEFINE z == [a \in S |-> IF a \in T THEN f[a] ELSE 0]
<1>1. SumFunctionOnSet(z, S) = SumFunctionOnSet(f, T)
  BY SumMasked
<1>2. \A a \in S : z[a] \in Int /\ f[a] \in Int /\ z[a] <= f[a]
  OBVIOUS
<1> HIDE DEF z
<1>3. SumFunctionOnSet(z, S) <= SumFunctionOnSet(f, S)
  BY <1>2, SumMonotonic
<1> QED
  BY <1>1, <1>3

(* Summands that are zero can be left out.                                 *)
LEMMA SumOutsideZero ==
  ASSUME NEW S, IsFiniteSet(S), NEW T \in SUBSET S, NEW f,
         \A a \in S : f[a] \in Int, \A a \in S \ T : f[a] = 0
  PROVE  SumFunctionOnSet(f, T) = SumFunctionOnSet(f, S)
<1> DEFINE z == [a \in S |-> IF a \in T THEN f[a] ELSE 0]
<1>1. SumFunctionOnSet(z, S) = SumFunctionOnSet(f, T)
  BY SumMasked
<1>2. \A a \in S : f[a] \in Int /\ z[a] = f[a]
  OBVIOUS
<1> HIDE DEF z
<1>3. SumFunctionOnSet(z, S) = SumFunctionOnSet(f, S)
  BY <1>2, SumSame
<1> QED
  BY <1>1, <1>3

(* Sums add up summand by summand.                                         *)
LEMMA SumAdd ==
  ASSUME NEW S, IsFiniteSet(S), NEW f, NEW g, NEW h,
         \A a \in S : f[a] \in Int /\ g[a] \in Int /\ h[a] = f[a] + g[a]
  PROVE  SumFunctionOnSet(h, S)
           = SumFunctionOnSet(f, S) + SumFunctionOnSet(g, S)
<1> DEFINE G == {T \in SUBSET S :
                    SumFunctionOnSet(h, T)
                      = SumFunctionOnSet(f, T) + SumFunctionOnSet(g, T)}
<1>1. {} \in G
  <2>1. /\ SumFunctionOnSet(f, {}) = 0
        /\ SumFunctionOnSet(g, {}) = 0
        /\ SumFunctionOnSet(h, {}) = 0
    BY SumEmpty
  <2> QED
    BY <2>1
<1>2. ASSUME NEW T \in SUBSET S, NEW a \in T, T \ {a} \in G
      PROVE  T \in G
  <2>1. /\ SumFunctionOnSet(f, T) = f[a] + SumFunctionOnSet(f, T \ {a})
        /\ SumFunctionOnSet(f, T \ {a}) \in Int
    BY SumParts
  <2>2. /\ SumFunctionOnSet(g, T) = g[a] + SumFunctionOnSet(g, T \ {a})
        /\ SumFunctionOnSet(g, T \ {a}) \in Int
    BY SumParts
  <2>3. SumFunctionOnSet(h, T) = h[a] + SumFunctionOnSet(h, T \ {a})
    BY SumParts
  <2>4. SumFunctionOnSet(h, T \ {a})
          = SumFunctionOnSet(f, T \ {a}) + SumFunctionOnSet(g, T \ {a})
    BY <1>2
  <2>5. f[a] \in Int /\ g[a] \in Int /\ h[a] = f[a] + g[a]
    OBVIOUS
  <2>6. SumFunctionOnSet(h, T)
          = SumFunctionOnSet(f, T) + SumFunctionOnSet(g, T)
    BY <2>1, <2>2, <2>3, <2>4, <2>5
  <2> QED
    BY <2>6
<1> HIDE DEF G
<1>3. S \in G
  BY <1>1, <1>2, ElementInduction
<1> QED
  BY <1>3 DEF G

(* A common factor can be taken out of a sum.                              *)
LEMMA SumScale ==
  ASSUME NEW S, IsFiniteSet(S), NEW f, NEW g, NEW k \in Int,
         \A a \in S : f[a] \in Int /\ g[a] = k * f[a]
  PROVE  SumFunctionOnSet(g, S) = k * SumFunctionOnSet(f, S)
<1> DEFINE G == {T \in SUBSET S :
                    SumFunctionOnSet(g, T) = k * SumFunctionOnSet(f, T)}
<1>1. {} \in G
  <2>1. SumFunctionOnSet(f, {}) = 0 /\ SumFunctionOnSet(g, {}) = 0
    BY SumEmpty
  <2> QED
    BY <2>1
<1>2. ASSUME NEW T \in SUBSET S, NEW a \in T, T \ {a} \in G
      PROVE  T \in G
  <2>1. /\ SumFunctionOnSet(f, T) = f[a] + SumFunctionOnSet(f, T \ {a})
        /\ SumFunctionOnSet(f, T \ {a}) \in Int
    BY SumParts
  <2>2. SumFunctionOnSet(g, T) = g[a] + SumFunctionOnSet(g, T \ {a})
    <3>1. \A b \in S : g[b] \in Int
      OBVIOUS
    <3> QED
      BY <3>1, SumParts
  <2>3. SumFunctionOnSet(g, T \ {a}) = k * SumFunctionOnSet(f, T \ {a})
    BY <1>2
  <2>4. f[a] \in Int /\ g[a] = k * f[a]
    OBVIOUS
  <2>5. \A x, y \in Int : k * (x + y) = k * x + k * y
    OBVIOUS
  <2>6. SumFunctionOnSet(g, T) = k * SumFunctionOnSet(f, T)
    BY <2>1, <2>2, <2>3, <2>4, <2>5
  <2> QED
    BY <2>6
<1> HIDE DEF G
<1>3. S \in G
  BY <1>1, <1>2, ElementInduction
<1> QED
  BY <1>3 DEF G
===============================================================================
