---------------------------- MODULE TotalsProofs ----------------------------
(***************************************************************************)
(* What sums of balances do, machine-checked for every finite set of       *)
(* accounts.  The fold is unrolled into its recursive function, whose      *)
(* existence and laws are proved by minimal counterexample: a set of       *)
(* subsets in which a law fails would have a smallest member.              *)
(***************************************************************************)
EXTENDS Totals, FiniteSetTheorems, WellFoundedInduction, TLAPS

(* The recursion of the fold: one element is taken out at a time. *)
Pick(T) == CHOOSE x \in T : TRUE
IsSum(s, f, D) == s = [T \in D |-> IF T = {} THEN 0 ELSE f[Pick(T)] + s[T \ {Pick(T)}]]
Sums(f, A) == CHOOSE s : IsSum(s, f, SUBSET A)

(* A total is the last value of its recursion. *)
LEMMA TotalIsSum ==
    ASSUME NEW f
    PROVE Total(f) = Sums(f, DOMAIN f)[DOMAIN f]
  BY DEF Total, FoldFunction, FoldFunctionOnSet, MapThenFoldSet, Sums, IsSum, Pick

(* A set of subsets of a finite set has a smallest one. *)
LEMMA SmallestSubset ==
    ASSUME NEW A, IsFiniteSet(A), NEW B, B \subseteq SUBSET A, B # {}
    PROVE  \E T \in B : \A U \in B : U \subseteq T => U = T
<1>1. IsWellFoundedOn(StrictSubsetOrdering(A), SUBSET A)
  BY FS_StrictSubsetOrderingWellFounded, FS_FiniteSubsetsOfFinite
<1>2. \E T \in B : \A U \in B : ~ (<<U, T>> \in StrictSubsetOrdering(A))
  BY <1>1, WFMin
<1>3. QED
  BY <1>2 DEF StrictSubsetOrdering

(* A set of numbers has a least one. *)
LEMMA SmallestNumber ==
    ASSUME NEW B, B \subseteq Nat, B # {}
    PROVE  \E n \in B : \A m \in B : n <= m
<1>1. PICK n \in B : \A m \in B : ~ (<<m, n>> \in OpToRel(<, Nat))
  BY NatLessThanWellFounded, WFMin
<1>2. \A m \in B : ~ (m < n)
  BY <1>1 DEF OpToRel
<1>3. QED
  BY <1>2

(* The recursion defines a function on all subsets of a finite set. *)
LEMMA SumExists ==
    ASSUME NEW A, IsFiniteSet(A), NEW f
    PROVE  IsSum(Sums(f, A), f, SUBSET A)
<1> DEFINE Level(n) == {T \in SUBSET A : Cardinality(T) <= n}
           Failing == {n \in Nat : ~ \E s : IsSum(s, f, Level(n))}
<1>1. \A T \in SUBSET A : IsFiniteSet(T) /\ Cardinality(T) \in Nat /\ (Cardinality(T) = 0 => T = {})
  BY FS_Subset, FS_CardinalityType, FS_EmptySet
<1>2. \A T \in SUBSET A : T # {} => /\ Pick(T) \in T
                                    /\ Cardinality(T \ {Pick(T)}) = Cardinality(T) - 1
                                    /\ T \ {Pick(T)} \in SUBSET A
  <2>1. SUFFICES ASSUME NEW T \in SUBSET A, T # {}
                 PROVE  Pick(T) \in T /\ Cardinality(T \ {Pick(T)}) = Cardinality(T) - 1
    OBVIOUS
  <2>2. Pick(T) \in T
    BY <2>1 DEF Pick
  <2>3. QED
    BY <2>2, <1>1, FS_RemoveElement
<1>3. Failing = {}
  <2>1. SUFFICES ASSUME Failing # {} PROVE FALSE
    OBVIOUS
  <2>2. PICK n \in Failing : \A m \in Failing : n <= m
    BY <2>1, SmallestNumber
  <2>3. CASE n = 0
    <3>1. \A T \in Level(0) : T = {}
      BY <1>1
    <3>2. IsSum([T \in Level(0) |-> 0], f, Level(0))
      BY <3>1 DEF IsSum
    <3>3. QED
      BY <3>2, <2>2, <2>3
  <2>4. CASE n # 0
    <3>1. n \in Nat /\ n - 1 \in Nat /\ n - 1 \notin Failing
      <4>1. n \in Nat /\ n - 1 \in Nat /\ ~ (n <= n - 1)
        BY <2>2, <2>4
      <4> HIDE DEF Failing
      <4>2. QED
        BY <4>1, <2>2
    <3>2. PICK s : IsSum(s, f, Level(n - 1))
      BY <3>1
    <3> DEFINE t == [T \in Level(n) |-> IF T = {} THEN 0 ELSE f[Pick(T)] + s[T \ {Pick(T)}]]
    <3>3. \A T \in Level(n) : T # {} => T \ {Pick(T)} \in Level(n - 1)
      BY <1>1, <1>2, <3>1
    <3>4. \A T \in Level(n - 1) : T \in Level(n)
      BY <1>1, <3>1
    <3>5. \A T \in Level(n - 1) : s[T] = IF T = {} THEN 0 ELSE f[Pick(T)] + s[T \ {Pick(T)}]
      BY <3>2 DEF IsSum
    <3>6. \A T \in Level(n - 1) : t[T] = s[T]
      BY <3>4, <3>5
    <3> HIDE DEF Level
    <3>7. t = [T \in Level(n) |-> IF T = {} THEN 0 ELSE f[Pick(T)] + t[T \ {Pick(T)}]]
      BY <3>3, <3>6
    <3>8. IsSum(t, f, Level(n))
      BY <3>7 DEF IsSum
    <3>9. QED
      BY <3>8, <2>2
  <2>5. QED
    BY <2>3, <2>4
<1>4. SUBSET A = Level(Cardinality(A))
  BY <1>1, FS_Subset
<1>5. \E s : IsSum(s, f, SUBSET A)
  <2> HIDE DEF Level
  <2>1. Cardinality(A) \in Nat
    BY FS_CardinalityType
  <2>2. QED
    BY <2>1, <1>3, <1>4
<1>6. QED
  BY <1>5 DEF Sums

(* Nothing sums to nothing, and every set is its picked element and the rest. *)
LEMMA SumUnfold ==
    ASSUME NEW A, IsFiniteSet(A), NEW f, NEW T \in SUBSET A
    PROVE  Sums(f, A)[T] = IF T = {} THEN 0 ELSE f[Pick(T)] + Sums(f, A)[T \ {Pick(T)}]
<1> DEFINE s == Sums(f, A)
<1>1. s = [U \in SUBSET A |-> IF U = {} THEN 0 ELSE f[Pick(U)] + s[U \ {Pick(U)}]]
  BY SumExists DEF IsSum
<1> HIDE DEF s
<1>2. s[T] = IF T = {} THEN 0 ELSE f[Pick(T)] + s[T \ {Pick(T)}]
  BY <1>1
<1>3. QED
  BY <1>2 DEF s

(* The sum over nothing, and over one more.                                 *)
LEMMA SumEmpty ==
    ASSUME NEW A, IsFiniteSet(A), NEW f
    PROVE  Sums(f, A)[{}] = 0
  BY SumUnfold

LEMMA SumStep ==
    ASSUME NEW A, IsFiniteSet(A), NEW f, NEW T \in SUBSET A, T # {}
    PROVE  Sums(f, A)[T] = f[Pick(T)] + Sums(f, A)[T \ {Pick(T)}]
  BY SumUnfold

(* Sums of numbers are numbers.                                             *)
LEMMA SumType ==
    ASSUME NEW A, IsFiniteSet(A), NEW f \in [A -> Int], NEW T \in SUBSET A
    PROVE  Sums(f, A)[T] \in Int
<1> DEFINE Failing == {U \in SUBSET A : Sums(f, A)[U] \notin Int}
<1>1. SUFFICES ASSUME Failing # {} PROVE FALSE
  OBVIOUS
<1>2. PICK U \in Failing : \A V \in Failing : V \subseteq U => V = U
  <2>1. Failing \subseteq SUBSET A
    OBVIOUS
  <2> HIDE DEF Failing
  <2>2. QED
    BY <1>1, <2>1, SmallestSubset
<1>3. /\ U \in SUBSET A /\ ~ (Sums(f, A)[U] \in Int)
      /\ \A V \in SUBSET U : V # U => Sums(f, A)[V] \in Int
  BY <1>2
<1> HIDE DEF Failing
<1>4. U # {}
  <2>1. Sums(f, A)[{}] = 0
    BY SumEmpty
  <2>2. Sums(f, A)[{}] \in Int
    BY <2>1
  <2>3. QED
    BY <1>3, <2>2
<1>5. Pick(U) \in U
  BY <1>4 DEF Pick
<1>6. U \ {Pick(U)} \in SUBSET U /\ U \ {Pick(U)} # U /\ f[Pick(U)] \in Int
  BY <1>3, <1>5
<1>7. Sums(f, A)[U \ {Pick(U)}] \in Int
  BY <1>3, <1>6
<1>8. Sums(f, A)[U] = f[Pick(U)] + Sums(f, A)[U \ {Pick(U)}]
  BY <1>3, <1>4, SumStep
<1>9. QED
  BY <1>3, <1>6, <1>7, <1>8

(* The order of the recursion does not matter. *)
LEMMA SumTake ==
    ASSUME NEW A, IsFiniteSet(A), NEW f \in [A -> Int]
    PROVE  \A T \in SUBSET A : \A x \in T : Sums(f, A)[T] = f[x] + Sums(f, A)[T \ {x}]
<1> DEFINE Failing == {U \in SUBSET A : \E y \in U : Sums(f, A)[U] # f[y] + Sums(f, A)[U \ {y}]}
<1>1. SUFFICES ASSUME Failing # {} PROVE FALSE
  OBVIOUS
<1>2. PICK U \in Failing : \A V \in Failing : V \subseteq U => V = U
  <2>1. Failing \subseteq SUBSET A
    OBVIOUS
  <2> HIDE DEF Failing
  <2>2. QED
    BY <1>1, <2>1, SmallestSubset
<1>3. PICK y \in U : Sums(f, A)[U] # f[y] + Sums(f, A)[U \ {y}]
  BY <1>2
<1> DEFINE c == Pick(U)
<1>4. c \in U /\ Sums(f, A)[U] = f[c] + Sums(f, A)[U \ {c}]
  <2>1. U \in SUBSET A /\ U # {}
    BY <1>3
  <2>2. c \in U
    BY <2>1 DEF Pick
  <2> HIDE DEF Failing
  <2>3. QED
    BY <2>1, <2>2, SumStep
<1> HIDE DEF c
<1>5. c # y
  BY <1>3, <1>4
<1>6. U \ {c} \notin Failing /\ U \ {y} \notin Failing
  BY <1>2, <1>3, <1>4
<1>7. /\ Sums(f, A)[U \ {c}] = f[y] + Sums(f, A)[(U \ {c}) \ {y}]
      /\ Sums(f, A)[U \ {y}] = f[c] + Sums(f, A)[(U \ {y}) \ {c}]
  BY <1>3, <1>4, <1>5, <1>6
<1>8. (U \ {c}) \ {y} = (U \ {y}) \ {c}
  OBVIOUS
<1>9. f[c] \in Int /\ f[y] \in Int /\ Sums(f, A)[(U \ {y}) \ {c}] \in Int
  <2>1. U \in SUBSET A /\ c \in A /\ y \in A /\ (U \ {y}) \ {c} \in SUBSET A
    BY <1>3, <1>4
  <2> HIDE DEF Failing
  <2>2. QED
    BY <2>1, SumType
<1> HIDE DEF Failing
<1>10. \A m, n, k \in Int : m + (n + k) = n + (m + k)
  OBVIOUS
<1>11. f[c] + (f[y] + Sums(f, A)[(U \ {y}) \ {c}]) = f[y] + (f[c] + Sums(f, A)[(U \ {y}) \ {c}])
  BY <1>9, <1>10
<1>12. QED
  BY <1>3, <1>4, <1>7, <1>8, <1>11

(* A sum depends on what is summed only, not on what it is part of. *)
LEMMA SumWithin ==
    ASSUME NEW A, IsFiniteSet(A), NEW B, IsFiniteSet(B), NEW f, NEW g,
           NEW T \in SUBSET A, T \in SUBSET B, \A x \in T : f[x] = g[x]
    PROVE  Sums(f, A)[T] = Sums(g, B)[T]
<1> DEFINE Failing == {U \in SUBSET T : Sums(f, A)[U] # Sums(g, B)[U]}
<1>1. SUFFICES ASSUME Failing # {} PROVE FALSE
  OBVIOUS
<1>2. IsFiniteSet(T)
  BY FS_Subset
<1>3. PICK U \in Failing : \A V \in Failing : V \subseteq U => V = U
  <2>1. Failing \subseteq SUBSET T
    OBVIOUS
  <2> HIDE DEF Failing
  <2>2. QED
    BY <1>1, <1>2, <2>1, SmallestSubset
<1>4. /\ U \in SUBSET A /\ U \in SUBSET B /\ U \in SUBSET T /\ Sums(f, A)[U] # Sums(g, B)[U]
      /\ \A V \in SUBSET U : V # U => Sums(f, A)[V] = Sums(g, B)[V]
  BY <1>3
<1> HIDE DEF Failing
<1>5. U # {}
  BY <1>4, SumEmpty
<1>6. Pick(U) \in U
  BY <1>5 DEF Pick
<1>7. Sums(f, A)[U \ {Pick(U)}] = Sums(g, B)[U \ {Pick(U)}]
  BY <1>4, <1>6
<1>8. /\ Sums(f, A)[U] = f[Pick(U)] + Sums(f, A)[U \ {Pick(U)}]
      /\ Sums(g, B)[U] = g[Pick(U)] + Sums(g, B)[U \ {Pick(U)}]
  BY <1>4, <1>5, SumStep
<1>9. QED
  BY <1>4, <1>6, <1>7, <1>8

(* Sums of functions that agree on a set agree. *)
LEMMA SumAgree ==
    ASSUME NEW A, IsFiniteSet(A), NEW f, NEW g, NEW T \in SUBSET A,
           \A x \in T : f[x] = g[x]
    PROVE  Sums(f, A)[T] = Sums(g, A)[T]
  BY SumWithin

(* Sums of sums, and of multiples. *)
LEMMA SumPlus ==
    ASSUME NEW A, IsFiniteSet(A), NEW f \in [A -> Int], NEW g \in [A -> Int], NEW h \in [A -> Int],
           \A x \in A : h[x] = f[x] + g[x]
    PROVE  \A T \in SUBSET A : Sums(h, A)[T] = Sums(f, A)[T] + Sums(g, A)[T]
<1> DEFINE Failing == {U \in SUBSET A : Sums(h, A)[U] # Sums(f, A)[U] + Sums(g, A)[U]}
<1>1. SUFFICES ASSUME Failing # {} PROVE FALSE
  OBVIOUS
<1>2. PICK U \in Failing : \A V \in Failing : V \subseteq U => V = U
  <2>1. Failing \subseteq SUBSET A
    OBVIOUS
  <2> HIDE DEF Failing
  <2>2. QED
    BY <1>1, <2>1, SmallestSubset
<1>3. /\ U \in SUBSET A /\ Sums(h, A)[U] # Sums(f, A)[U] + Sums(g, A)[U]
      /\ \A V \in SUBSET U : V # U => Sums(h, A)[V] = Sums(f, A)[V] + Sums(g, A)[V]
  BY <1>2
<1> HIDE DEF Failing
<1>4. U # {}
  <2>1. Sums(f, A)[{}] = 0 /\ Sums(g, A)[{}] = 0 /\ Sums(h, A)[{}] = 0
    BY SumEmpty
  <2>2. Sums(h, A)[{}] = Sums(f, A)[{}] + Sums(g, A)[{}]
    BY <2>1
  <2>3. QED
    BY <1>3, <2>2
<1>5. PICK c \in U : TRUE
  BY <1>4
<1> DEFINE R == U \ {c}
<1>6. R \in SUBSET U /\ R # U /\ R \in SUBSET A
  BY <1>3, <1>5
<1>7. /\ Sums(f, A)[U] = f[c] + Sums(f, A)[R]
      /\ Sums(g, A)[U] = g[c] + Sums(g, A)[R]
      /\ Sums(h, A)[U] = h[c] + Sums(h, A)[R]
  <2>1. Sums(f, A)[U] = f[c] + Sums(f, A)[R]
    <3>1. \A T \in SUBSET A : \A x \in T : Sums(f, A)[T] = f[x] + Sums(f, A)[T \ {x}]
      BY SumTake
    <3>2. QED
      BY <1>3, <1>5, <3>1
  <2>2. Sums(g, A)[U] = g[c] + Sums(g, A)[R]
    <3>1. \A T \in SUBSET A : \A x \in T : Sums(g, A)[T] = g[x] + Sums(g, A)[T \ {x}]
      BY SumTake
    <3>2. QED
      BY <1>3, <1>5, <3>1
  <2>3. Sums(h, A)[U] = h[c] + Sums(h, A)[R]
    <3>1. \A T \in SUBSET A : \A x \in T : Sums(h, A)[T] = h[x] + Sums(h, A)[T \ {x}]
      BY SumTake
    <3>2. QED
      BY <1>3, <1>5, <3>1
  <2> QED
    BY <2>1, <2>2, <2>3
<1> HIDE DEF R
<1>8. Sums(h, A)[R] = Sums(f, A)[R] + Sums(g, A)[R]
  BY <1>3, <1>6
<1>9. /\ f[c] \in Int /\ g[c] \in Int /\ h[c] = f[c] + g[c]
      /\ Sums(f, A)[R] \in Int /\ Sums(g, A)[R] \in Int
  BY <1>3, <1>5, <1>6, SumType
<1>10. \A m, n, k, l \in Int : (m + n) + (k + l) = (m + k) + (n + l)
  OBVIOUS
<1>11. (f[c] + g[c]) + (Sums(f, A)[R] + Sums(g, A)[R]) = (f[c] + Sums(f, A)[R]) + (g[c] + Sums(g, A)[R])
  BY <1>9, <1>10
<1>12. QED
  BY <1>3, <1>7, <1>8, <1>9, <1>11

(* A common factor comes out of the sum.                                    *)
LEMMA SumScale ==
    ASSUME NEW A, IsFiniteSet(A), NEW f \in [A -> Int], NEW h \in [A -> Int], NEW k \in Int,
           \A x \in A : h[x] = k * f[x]
    PROVE  \A T \in SUBSET A : Sums(h, A)[T] = k * Sums(f, A)[T]
<1> DEFINE Failing == {U \in SUBSET A : Sums(h, A)[U] # k * Sums(f, A)[U]}
<1>1. SUFFICES ASSUME Failing # {} PROVE FALSE
  OBVIOUS
<1>2. PICK U \in Failing : \A V \in Failing : V \subseteq U => V = U
  <2>1. Failing \subseteq SUBSET A
    OBVIOUS
  <2> HIDE DEF Failing
  <2>2. QED
    BY <1>1, <2>1, SmallestSubset
<1>3. /\ U \in SUBSET A /\ Sums(h, A)[U] # k * Sums(f, A)[U]
      /\ \A V \in SUBSET U : V # U => Sums(h, A)[V] = k * Sums(f, A)[V]
  BY <1>2
<1> HIDE DEF Failing
<1>4. U # {}
  <2>1. Sums(f, A)[{}] = 0 /\ Sums(h, A)[{}] = 0
    BY SumEmpty
  <2>2. Sums(h, A)[{}] = k * Sums(f, A)[{}]
    BY <2>1
  <2>3. QED
    BY <1>3, <2>2
<1>5. PICK c \in U : TRUE
  BY <1>4
<1> DEFINE R == U \ {c}
<1>6. R \in SUBSET U /\ R # U /\ R \in SUBSET A
  BY <1>3, <1>5
<1>7. /\ Sums(f, A)[U] = f[c] + Sums(f, A)[R]
      /\ Sums(h, A)[U] = h[c] + Sums(h, A)[R]
  <2>1. Sums(f, A)[U] = f[c] + Sums(f, A)[R]
    <3>1. \A T \in SUBSET A : \A x \in T : Sums(f, A)[T] = f[x] + Sums(f, A)[T \ {x}]
      BY SumTake
    <3>2. QED
      BY <1>3, <1>5, <3>1
  <2>2. Sums(h, A)[U] = h[c] + Sums(h, A)[R]
    <3>1. \A T \in SUBSET A : \A x \in T : Sums(h, A)[T] = h[x] + Sums(h, A)[T \ {x}]
      BY SumTake
    <3>2. QED
      BY <1>3, <1>5, <3>1
  <2> QED
    BY <2>1, <2>2
<1> HIDE DEF R
<1>8. Sums(h, A)[R] = k * Sums(f, A)[R]
  BY <1>3, <1>6
<1>9. f[c] \in Int /\ h[c] = k * f[c] /\ Sums(f, A)[R] \in Int
  BY <1>3, <1>5, <1>6, SumType
<1>10. \A m, n \in Int : k * (m + n) = k * m + k * n
  OBVIOUS
<1>11. k * (f[c] + Sums(f, A)[R]) = k * f[c] + k * Sums(f, A)[R]
  BY <1>9, <1>10
<1>12. QED
  BY <1>3, <1>7, <1>8, <1>9, <1>11

(* Sums of natural numbers are natural.                                     *)
LEMMA SumNatural ==
    ASSUME NEW A, IsFiniteSet(A), NEW f \in [A -> Nat]
    PROVE  \A T \in SUBSET A : Sums(f, A)[T] \in Nat
<1> DEFINE Failing == {U \in SUBSET A : Sums(f, A)[U] \notin Nat}
<1>1. SUFFICES ASSUME Failing # {} PROVE FALSE
  OBVIOUS
<1>2. PICK U \in Failing : \A V \in Failing : V \subseteq U => V = U
  <2>1. Failing \subseteq SUBSET A
    OBVIOUS
  <2> HIDE DEF Failing
  <2>2. QED
    BY <1>1, <2>1, SmallestSubset
<1>3. /\ U \in SUBSET A /\ ~ (Sums(f, A)[U] \in Nat)
      /\ \A V \in SUBSET U : V # U => Sums(f, A)[V] \in Nat
  BY <1>2
<1> HIDE DEF Failing
<1>4. U # {}
  <2>1. Sums(f, A)[{}] = 0
    BY SumEmpty
  <2>2. Sums(f, A)[{}] \in Nat
    BY <2>1
  <2>3. QED
    BY <1>3, <2>2
<1>5. PICK c \in U : TRUE
  BY <1>4
<1>6. U \ {c} \in SUBSET U /\ U \ {c} # U /\ f[c] \in Nat
  BY <1>3, <1>5
<1>7. Sums(f, A)[U] = f[c] + Sums(f, A)[U \ {c}]
  <2>1. f \in [A -> Int]
    OBVIOUS
  <2>2. QED
    BY <2>1, <1>3, <1>5, SumTake
<1>8. QED
  BY <1>3, <1>6, <1>7

----------------------------------------------------------------------------
(* What the models' invariants need of Total. *)

(* The sum over a finite set of accounts is a number. *)
LEMMA TotalType ==
    ASSUME NEW A, IsFiniteSet(A), NEW f \in [A -> Int]
    PROVE  Total(f) \in Int
<1>1. Total(f) = Sums(f, A)[A]
  BY TotalIsSum
<1>2. QED
  BY <1>1, SumType

(* Changing one account changes the total by as much. *)
LEMMA TotalExcept ==
    ASSUME NEW A, IsFiniteSet(A), NEW f \in [A -> Int], NEW a \in A, NEW v \in Int
    PROVE  Total([f EXCEPT ![a] = v]) = Total(f) - f[a] + v
<1> DEFINE g == [f EXCEPT ![a] = v]
           R == A \ {a}
<1>1. g \in [A -> Int] /\ g[a] = v /\ R \in SUBSET A /\ \A x \in R : g[x] = f[x]
  OBVIOUS
<1> HIDE DEF g
<1>2. Total(f) = Sums(f, A)[A] /\ Total(g) = Sums(g, A)[A]
  BY <1>1, TotalIsSum
<1>3. Sums(f, A)[A] = f[a] + Sums(f, A)[R] /\ Sums(g, A)[A] = g[a] + Sums(g, A)[R]
  BY <1>1, SumTake
<1> HIDE DEF R
<1>4. Sums(g, A)[R] = Sums(f, A)[R] /\ Sums(f, A)[R] \in Int /\ f[a] \in Int
  BY <1>1, SumAgree, SumType
<1>5. Total(g) = Total(f) - f[a] + v
  BY <1>1, <1>2, <1>3, <1>4
<1>6. QED
  BY <1>5 DEF g

(* One account more adds its balance. *)
LEMMA TotalWith ==
    ASSUME NEW A, IsFiniteSet(A), NEW f \in [A -> Int], NEW B, NEW a, a \notin B, A = B \cup {a},
           NEW g \in [B -> Int], \A x \in B : g[x] = f[x]
    PROVE  Total(f) = Total(g) + f[a]
<1>1. IsFiniteSet(B) /\ B \in SUBSET A /\ A \ {a} = B
  BY FS_Subset
<1>2. Total(f) = Sums(f, A)[A] /\ Total(g) = Sums(g, B)[B]
  BY TotalIsSum
<1>3. Sums(f, A)[A] = f[a] + Sums(f, A)[B]
  BY <1>1, SumTake
<1>4. Sums(f, A)[B] = Sums(g, B)[B] /\ Sums(f, A)[B] \in Int
  BY <1>1, SumWithin, SumType
<1>5. QED
  BY <1>2, <1>3, <1>4

(* The laws of sums, of the total of all accounts.                          *)
LEMMA TotalPlus ==
    ASSUME NEW A, IsFiniteSet(A), NEW f \in [A -> Int], NEW g \in [A -> Int], NEW h \in [A -> Int],
           \A x \in A : h[x] = f[x] + g[x]
    PROVE  Total(h) = Total(f) + Total(g)
<1>1. Total(f) = Sums(f, A)[A] /\ Total(g) = Sums(g, A)[A] /\ Total(h) = Sums(h, A)[A]
  BY TotalIsSum
<1>2. QED
  BY <1>1, SumPlus

LEMMA TotalScale ==
    ASSUME NEW A, IsFiniteSet(A), NEW f \in [A -> Int], NEW h \in [A -> Int], NEW k \in Int,
           \A x \in A : h[x] = k * f[x]
    PROVE  Total(h) = k * Total(f)
<1>1. Total(f) = Sums(f, A)[A] /\ Total(h) = Sums(h, A)[A]
  BY TotalIsSum
<1>2. QED
  BY <1>1, SumScale

(* Empty accounts have nothing together.                                    *)
LEMMA TotalZero ==
    ASSUME NEW A, IsFiniteSet(A)
    PROVE  Total([a \in A |-> 0]) = 0
<1> DEFINE z == [a \in A |-> 0]
<1>1. z \in [A -> Int] /\ \A x \in A : z[x] = z[x] + z[x]
  OBVIOUS
<1> HIDE DEF z
<1>2. Total(z) = Total(z) + Total(z) /\ Total(z) \in Int
  BY <1>1, TotalPlus, TotalType
<1>3. \A n \in Int : n = n + n => n = 0
  OBVIOUS
<1>4. Total(z) = 0
  BY <1>2, <1>3
<1>5. QED
  BY <1>4 DEF z

(* A total of natural numbers is one, and none of them exceeds it. *)
LEMMA TotalNatural ==
    ASSUME NEW A, IsFiniteSet(A), NEW f \in [A -> Nat]
    PROVE  Total(f) \in Nat /\ \A a \in A : f[a] <= Total(f)
<1>1. f \in [A -> Int] /\ Total(f) = Sums(f, A)[A]
  BY TotalIsSum
<1>2. Total(f) \in Nat
  BY <1>1, SumNatural
<1>3. ASSUME NEW a \in A PROVE f[a] <= Total(f)
  <2>1. Sums(f, A)[A] = f[a] + Sums(f, A)[A \ {a}]
    BY <1>1, SumTake
  <2>2. Sums(f, A)[A \ {a}] \in Nat /\ f[a] \in Nat
    BY SumNatural
  <2>3. QED
    BY <1>1, <2>1, <2>2
<1>4. QED
  BY <1>2, <1>3

(* Larger accounts have no less together.                                   *)
LEMMA TotalMonotone ==
    ASSUME NEW A, IsFiniteSet(A), NEW f \in [A -> Int], NEW g \in [A -> Int],
           \A x \in A : f[x] <= g[x]
    PROVE  Total(f) <= Total(g)
<1> DEFINE d == [x \in A |-> g[x] - f[x]]
<1>1. d \in [A -> Nat] /\ d \in [A -> Int] /\ \A x \in A : g[x] = f[x] + d[x]
  OBVIOUS
<1> HIDE DEF d
<1>2. Total(g) = Total(f) + Total(d) /\ Total(d) \in Nat /\ Total(f) \in Int
  BY <1>1, TotalPlus, TotalNatural, TotalType
<1>3. QED
  BY <1>2
=============================================================================
