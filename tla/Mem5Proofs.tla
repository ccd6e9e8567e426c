----------------------------- MODULE Mem5Proofs -----------------------------
(***************************************************************************)
(* Machine-checked proofs about the buddy allocator, for a pool of any     *)
(* number of atoms, any largest block and any number of threads: the       *)
(* blocks that are out and the blocks on the free lists tile the pool,     *)
(* aCtrl and the links describe them, free buddies are merged between      *)
(* calls, and the allocator implements the one of module Allocator.        *)
(*                                                                         *)
(* What is reasoned about is the tiling: a set of aligned blocks, each     *)
(* given by its first atom and the logarithm of its size.  memsys5Malloc   *)
(* splits a tile in two halves and memsys5Free joins a tile with its       *)
(* buddy; the lemmas about powers of two say that these are tiles again.   *)
(***************************************************************************)
EXTENDS Mem5, FiniteSetTheorems, FunctionTheorems, WellFoundedInduction, NaturalsInduction, TLAPS

-----------------------------------------------------------------------------
(***************************************************************************)
(* Least elements, powers of two and multiples of them                     *)
(***************************************************************************)

\* Every non-empty set of natural numbers has a least element.
LEMMA Least ==
  ASSUME NEW T, T \subseteq Nat, T # {}
  PROVE  \E x \in T : \A y \in T : x <= y
<1> DEFINE R == {ss \in Nat \X Nat : ss[1] < ss[2]}
<1>1. IsWellFoundedOn(R, Nat)
  BY NatLessThanWellFounded DEF OpToRel
<1>2. \A y, x \in T : <<y, x>> \in R <=> y < x
  OBVIOUS
<1> HIDE DEF R
<1>3. PICK x \in T : \A y \in T : ~(<<y, x>> \in R)
  BY <1>1, WFMin
<1>4. \A y \in T : x \in Nat /\ y \in Nat /\ ~(y < x)
  BY <1>2, <1>3
<1>5. \A y \in T : x <= y
  BY <1>4
<1> QED BY <1>5

\* A power of two counts the subsets of a set: one more element doubles them.
LEMMA Power ==
  ASSUME NEW n \in Nat
  PROVE  2^n \in Nat /\ 2^n > 0 /\ 2^(n + 1) = 2 * 2^n
<1> DEFINE S == 1..n
           T == 1..(n + 1)
           New == (SUBSET T) \ (SUBSET S)
           f == [A \in SUBSET S |-> A \cup {n + 1}]
<1>1. IsFiniteSet(S) /\ Cardinality(S) = n /\ IsFiniteSet(T) /\ Cardinality(T) = n + 1
  BY FS_Interval
<1>2. IsFiniteSet(SUBSET S) /\ Cardinality(SUBSET S) = 2^n
  BY <1>1, FS_SUBSET
<1>3. IsFiniteSet(SUBSET T) /\ Cardinality(SUBSET T) = 2^(n + 1)
  <2> HIDE DEF T
  <2>1. Cardinality(SUBSET T) = 2^Cardinality(T) /\ IsFiniteSet(SUBSET T)
    BY <1>1, FS_SUBSET
  <2> QED BY <1>1, <2>1
<1>4. T = S \cup {n + 1} /\ n + 1 \notin S
  OBVIOUS
<1> HIDE DEF S, T
<1>5. f \in Bijection(SUBSET S, New)
  <2>1. ASSUME NEW A \in SUBSET S
        PROVE  f[A] = A \cup {n + 1} /\ f[A] \in New /\ f[A] \ {n + 1} = A
    BY <1>4
  <2>2. f \in [SUBSET S -> New]
    BY <2>1
  <2>3. \A A, B \in SUBSET S : f[A] = f[B] => A = B
    BY <2>1
  <2>4. ASSUME NEW C \in New
        PROVE  \E A \in SUBSET S : f[A] = C
    <3>1. C \in SUBSET T /\ n + 1 \in C
      BY <1>4
    <3>2. C \ {n + 1} \in SUBSET S
      BY <1>4, <3>1
    <3>3. f[C \ {n + 1}] = (C \ {n + 1}) \cup {n + 1}
      BY <3>2
    <3>4. (C \ {n + 1}) \cup {n + 1} = C
      BY <3>1
    <3> QED BY <3>2, <3>3, <3>4
  <2> HIDE DEF f, New
  <2>5. f \in Injection(SUBSET S, New)
    BY <2>2, <2>3 DEF Injection, IsInjective
  <2>6. f \in Surjection(SUBSET S, New)
    BY <2>2, <2>4 DEF Surjection
  <2> QED BY <2>5, <2>6 DEF Bijection
<1> HIDE DEF f
<1>6. IsFiniteSet(New) /\ Cardinality(New) = 2^n
  BY <1>2, <1>5, FS_Bijection DEF ExistsBijection
<1>7. SUBSET T = (SUBSET S) \cup New /\ (SUBSET S) \cap New = {}
  BY <1>4
<1> HIDE DEF New
<1>8. Cardinality(SUBSET T) = Cardinality(SUBSET S) + Cardinality(New) - 0
  <2>1. Cardinality((SUBSET S) \cup New)
          = Cardinality(SUBSET S) + Cardinality(New) - Cardinality((SUBSET S) \cap New)
    BY <1>2, <1>6, FS_Union
  <2>2. Cardinality((SUBSET S) \cap New) = 0
    BY <1>7, FS_EmptySet
  <2> QED BY <1>7, <2>1, <2>2
<1>9. Cardinality(SUBSET S) \in Nat /\ Cardinality(SUBSET S) # 0
  <2>1. {} \in SUBSET S
    OBVIOUS
  <2>2. SUBSET S # {}
    BY <2>1
  <2>3. Cardinality(SUBSET S) \in Nat
    BY <1>2, FS_CardinalityType
  <2> QED BY <1>2, <2>2, <2>3, FS_EmptySet
<1> DEFINE x == 2^n
           y == 2^(n + 1)
<1>10. x \in Nat /\ x # 0 /\ y = x + x - 0
  BY <1>2, <1>3, <1>6, <1>8, <1>9
<1> HIDE DEF x, y
<1>11. x \in Nat /\ x > 0 /\ y = 2 * x
  BY <1>10
<1> QED BY <1>11 DEF x, y

\* Multiples of P are P apart.
LEMMA Gap ==
  ASSUME NEW P \in Nat \ {0}, NEW x \in Nat, NEW y \in Nat, x % P = 0, y % P = 0, x < y
  PROVE  x + P <= y
<1> DEFINE q == x \div P
           r == y \div P
<1>1. q \in Int /\ r \in Int /\ x = q * P /\ y = r * P
  OBVIOUS
<1> HIDE DEF q, r
<1>2. ASSUME r <= q PROVE FALSE
  <2>1. (q - r) * P >= 0
    BY <1>1, <1>2
  <2> QED BY <1>1, <2>1
<1>3. (r - q - 1) * P >= 0
  BY <1>1, <1>2
<1> QED BY <1>1, <1>3

\* A multiple of P, and what is added to one.
LEMMA Multiple ==
  ASSUME NEW P \in Nat \ {0}, NEW m \in Int, NEW r \in 0 .. P - 1
  PROVE  (m * P + r) % P = r
OBVIOUS

\* A multiple of twice P is one of P.
LEMMA Halves ==
  ASSUME NEW P \in Nat \ {0}, NEW x \in Nat, x % (2 * P) = 0
  PROVE  x % P = 0
<1> DEFINE q == x \div (2 * P)
<1>1. q \in Int /\ x = q * (2 * P)
  OBVIOUS
<1> HIDE DEF q
<1>2. x = (2 * q) * P + 0
  BY <1>1
<1> QED BY <1>1, <1>2, Multiple

\* A block of the larger size is aligned for all smaller ones.
LEMMA Weaken ==
  ASSUME NEW l \in Nat, NEW k \in Nat, l <= k, NEW x \in Nat, x % 2^k = 0
  PROVE  x % 2^l = 0
<1> DEFINE T == {n \in Nat : n <= k /\ x % 2^(k - n) # 0}
<1>1. ASSUME T # {} PROVE FALSE
  <2>1. PICK n \in T : \A m \in T : n <= m
    BY <1>1, Least
  <2>2. n \in Nat /\ n <= k /\ x % 2^(k - n) # 0 /\ n # 0
    <3>1. k - 0 = k
      OBVIOUS
    <3> QED BY <3>1
  <2>3. n - 1 \in Nat /\ n - 1 <= k /\ ~(n <= n - 1) /\ k - n \in Nat /\ k - (n - 1) = (k - n) + 1
    BY <2>2
  <2>b. n - 1 \notin T
    BY <2>1, <2>3
  <2>4. x % 2^((k - n) + 1) = 0
    BY <2>3, <2>b
  <2> DEFINE P == 2^(k - n)
             Q == 2^((k - n) + 1)
  <2>5. P \in Nat \ {0} /\ Q = 2 * P
    BY <2>3, Power
  <2>6. x % Q = 0 /\ x % P # 0
    BY <2>2, <2>4
  <2> HIDE DEF P, Q
  <2> QED BY <2>5, <2>6, Halves
<1>2. k - l \in Nat /\ k - l <= k /\ k - (k - l) = l
  OBVIOUS
<1>3. k - l \notin T
  BY <1>1
<1>4. x % 2^(k - (k - l)) = 0
  BY <1>2, <1>3
<1> QED BY <1>2, <1>4

\* Powers of two grow.
LEMMA Grows ==
  ASSUME NEW l \in Nat, NEW k \in Nat, l <= k
  PROVE  2^l <= 2^k
<1> DEFINE T == {n \in Nat : ~(2^l <= 2^(l + n))}
<1>1. ASSUME T # {} PROVE FALSE
  <2>1. PICK n \in T : \A m \in T : n <= m
    BY <1>1, Least
  <2>0. 2^l \in Nat
    BY Power
  <2>2. n \in Nat /\ ~(2^l <= 2^(l + n))
    OBVIOUS
  <2>a. n # 0
    <3>1. l + 0 = l
      OBVIOUS
    <3>2. 2^l <= 2^l
      <4> DEFINE P == 2^l
      <4>1. P \in Nat
        BY <2>0
      <4> HIDE DEF P
      <4>2. P <= P
        BY <4>1
      <4> QED BY <4>2 DEF P
    <3> QED BY <2>2, <3>1, <3>2
  <2>3. n - 1 \in Nat /\ n - 1 \notin T /\ l + (n - 1) \in Nat /\ (l + (n - 1)) + 1 = l + n
    BY <2>1, <2>2, <2>a
  <2> DEFINE P == 2^(l + (n - 1))
             Q == 2^((l + (n - 1)) + 1)
             R == 2^l
  <2>5. P \in Nat /\ Q = 2 * P
    BY <2>3, Power
  <2>6. R \in Nat /\ R <= P /\ ~(R <= Q)
    BY <2>0, <2>2, <2>3
  <2> HIDE DEF P, Q, R
  <2> QED BY <2>5, <2>6
<1>2. k - l \in Nat /\ l + (k - l) = k
  OBVIOUS
<1>3. k - l \notin T
  BY <1>1
<1>4. 2^l <= 2^(l + (k - l))
  BY <1>2, <1>3
<1> QED BY <1>2, <1>4

\* Two aligned blocks that overlap are one inside the other.
LEMMA Nested ==
  ASSUME NEW l \in Nat, NEW k \in Nat, l <= k, NEW i \in Nat, NEW x \in Nat,
         i % 2^l = 0, x % 2^k = 0, i < x + 2^k, x < i + 2^l
  PROVE  x <= i /\ i + 2^l <= x + 2^k
<1> DEFINE P == 2^l
           Q == 2^k
<1>1. P \in Nat \ {0} /\ Q \in Nat \ {0}
  BY Power
<1>2. i % P = 0 /\ x % P = 0
  BY Weaken
<1>3. (x + Q) % Q = 0
  <2>1. x % Q = 0
    OBVIOUS
  <2> HIDE DEF P, Q
  <2> DEFINE q == x \div Q
  <2>2. q \in Int /\ x = q * Q
    BY <1>1, <2>1
  <2> HIDE DEF q
  <2>3. x + Q = (q + 1) * Q + 0
    BY <1>1, <2>2
  <2> QED BY <1>1, <2>2, <2>3, Multiple
<1>4. (x + Q) % P = 0
  <2>1. x + Q \in Nat
    BY <1>1
  <2> QED BY <1>3, <2>1, Weaken
<1>5. i < x + Q /\ x < i + P
  OBVIOUS
<1> HIDE DEF P, Q
<1>6. x <= i
  <2>1. ASSUME i < x PROVE FALSE
    <3>1. i + P <= x
      BY <1>1, <1>2, <2>1, Gap
    <3> QED BY <1>1, <1>5, <3>1
  <2> QED BY <2>1
<1>7. i + P <= x + Q
  <2>1. x + Q \in Nat
    BY <1>1
  <2> QED BY <1>1, <1>2, <1>4, <1>5, <2>1, Gap
<1> QED BY <1>6, <1>7 DEF P, Q

\* The buddy of an aligned block: the two make up one of twice the size.
LEMMA Buddies ==
  ASSUME NEW i \in Nat, NEW l \in Nat, i % 2^l = 0
  PROVE  LET j == Buddy(i, l)
         IN  /\ j \in Nat
             /\ \/ j = i + 2^l /\ i % 2^(l + 1) = 0
                \/ i = j + 2^l /\ j % 2^(l + 1) = 0
<1> DEFINE P == 2^l
           Q == 2^(l + 1)
           m == i \div P
<1>1. P \in Nat \ {0} /\ Q = 2 * P
  BY Power
<1>2. i % P = 0
  OBVIOUS
<1>3. Buddy(i, l) = IF m % 2 = 1 THEN i - P ELSE i + P
  BY DEF Buddy
<1> HIDE DEF P, Q
<1>4. m \in Nat /\ i = m * P
  BY <1>1, <1>2
<1> HIDE DEF m
<1>5. CASE m % 2 = 1
  <2> DEFINE r == m \div 2
  <2>1. r \in Nat /\ m = 2 * r + 1
    BY <1>4, <1>5
  <2> HIDE DEF r
  <2>2. i - P = r * Q + 0
    BY <1>1, <1>4, <2>1
  <2>3. r * Q \in Nat
    BY <1>1, <2>1
  <2>4. (i - P) % Q = 0
    <3>1. Q \in Nat \ {0} /\ 0 \in 0 .. Q - 1 /\ r \in Int
      BY <1>1, <2>1
    <3>2. (r * Q + 0) % Q = 0
      BY <3>1, Multiple
    <3> QED BY <2>2, <3>2
  <2>5. i - P \in Nat
    BY <2>2, <2>3
  <2> QED BY <1>1, <1>3, <1>5, <2>4, <2>5 DEF P, Q
<1>6. CASE m % 2 # 1
  <2> DEFINE r == m \div 2
  <2>1. r \in Nat /\ m = 2 * r
    BY <1>4, <1>6
  <2> HIDE DEF r
  <2>2. i = r * Q + 0
    BY <1>1, <1>4, <2>1
  <2>4. i % Q = 0
    <3>1. Q \in Nat \ {0} /\ 0 \in 0 .. Q - 1 /\ r \in Int
      BY <1>1, <2>1
    <3>2. (r * Q + 0) % Q = 0
      BY <3>1, Multiple
    <3> QED BY <2>2, <3>2
  <2> QED BY <1>1, <1>3, <1>6, <2>4 DEF P, Q
<1> QED BY <1>5, <1>6

-----------------------------------------------------------------------------
(***************************************************************************)
(* Tilings of the pool                                                     *)
(***************************************************************************)

\* The blocks <<i, l>> of B are aligned, lie in the pool, do not overlap and leave
\* no atom out.
Aligned(B) == \A i \in Atoms, l \in Logs : <<i, l>> \in B => i % 2^l = 0 /\ i + 2^l <= NBlock
Apart(B)   == \A i, j \in Atoms, l, k \in Logs :
                <<i, l>> \in B /\ <<j, k>> \in B /\ i <= j => (i = j /\ l = k) \/ i + 2^l <= j
Covers(B)  == \A a \in Atoms : \E i \in Atoms, l \in Logs : <<i, l>> \in B /\ i <= a /\ a < i + 2^l
Tiling(B)  == B \subseteq Atoms \X Logs /\ Aligned(B) /\ Apart(B) /\ Covers(B)

\* Atoms and logarithms are natural numbers.
LEMMA Numbers ==
  /\ \A i \in Atoms : i \in Nat /\ i < NBlock
  /\ \A l \in Logs : l \in Nat /\ l <= LogMax
  /\ NBlock \in Nat /\ LogMax \in Nat
  /\ \A i \in Nat : i < NBlock => i \in Atoms
  /\ \A l \in Nat : l <= LogMax => l \in Logs
BY PoolAssumption DEF Atoms, Logs

\* The size of a block.
LEMMA Sizes ==
  \A l \in Logs : /\ 2^l \in Nat /\ 2^l > 0 /\ 2^(l + 1) = 2 * 2^l
                  /\ l > 0 => l - 1 \in Logs /\ 2^(l - 1) \in Nat /\ 2^(l - 1) > 0 /\ 2^l = 2 * 2^(l - 1)
<1> SUFFICES ASSUME NEW l \in Logs
             PROVE  /\ 2^l \in Nat /\ 2^l > 0 /\ 2^(l + 1) = 2 * 2^l
                    /\ l > 0 => l - 1 \in Logs /\ 2^(l - 1) \in Nat /\ 2^(l - 1) > 0 /\ 2^l = 2 * 2^(l - 1)
  OBVIOUS
<1>1. l \in Nat
  BY Numbers
<1>2. ASSUME l > 0 PROVE l - 1 \in Nat /\ l - 1 \in Logs /\ (l - 1) + 1 = l
  BY <1>1, <1>2, Numbers
<1> QED BY <1>1, <1>2, Power

\* The buddy of a block is the start of a block, and not of a larger one: what aCtrl
\* says there is not stale.
LEMMA BuddyStarts ==
  ASSUME NEW B, Tiling(B), NEW i \in Atoms, NEW l \in Logs, <<i, l>> \in B,
         Buddy(i, l) \in Atoms
  PROVE  \E k \in Logs : <<Buddy(i, l), k>> \in B /\ k <= l
<1> DEFINE j == Buddy(i, l)
<1>1. PICK x \in Atoms, k \in Logs : <<x, k>> \in B /\ x <= j /\ j < x + 2^k
  BY DEF Tiling, Covers
<1>2. i % 2^l = 0 /\ x % 2^k = 0 /\ i \in Nat /\ l \in Nat /\ j \in Nat /\ x \in Nat /\ k \in Nat
  BY <1>1, Numbers DEF Tiling, Aligned
<1>3. /\ 2^l \in Nat /\ 2^l > 0 /\ 2^(l + 1) = 2 * 2^l /\ 2^k \in Nat /\ 2^k > 0
  BY Sizes
<1>4. \/ j = i + 2^l /\ i % 2^(l + 1) = 0
      \/ i = j + 2^l /\ j % 2^(l + 1) = 0
  BY <1>2, Buddies
<1> HIDE DEF j
<1>5. CASE k <= l
  <2>1. j % 2^l = 0
    <3>1. CASE j % 2^(l + 1) = 0
      <4>1. l + 1 \in Nat /\ l <= l + 1
        BY <1>2
      <4> QED BY <1>2, <3>1, <4>1, Weaken
    <3>2. CASE j = i + 2^l
      <4> DEFINE P == 2^l
                 q == i \div P
      <4>1. P \in Nat \ {0} /\ i % P = 0
        BY <1>2, <1>3
      <4>a. j = i + P
        BY <3>2
      <4> HIDE DEF P
      <4>2. q \in Int /\ i = q * P
        BY <1>2, <4>1
      <4> HIDE DEF q
      <4>3. j = (q + 1) * P + 0
        BY <4>2, <4>1, <4>a
      <4>4. j % P = 0
        BY <4>1, <4>2, <4>3, Multiple
      <4> QED BY <4>4 DEF P
    <3> QED BY <1>4, <3>1, <3>2
  <2>2. j <= x
    <3>1. x < j + 2^l
      BY <1>1, <1>2, <1>3
    <3> QED BY <1>1, <1>2, <1>5, <2>1, <3>1, Nested
  <2>3. x = j
    BY <1>1, <1>2, <2>2
  <2> QED BY <1>1, <1>5, <2>3 DEF j
<1>6. CASE ~(k <= l)
  <2> DEFINE lo == IF j = i + 2^l THEN i ELSE j
  <2>1. lo \in Nat /\ lo % 2^(l + 1) = 0 /\ lo <= j /\ j < lo + 2^(l + 1) /\ lo <= i /\ i < lo + 2^(l + 1)
    BY <1>2, <1>3, <1>4
  <2> HIDE DEF lo
  <2>2. l + 1 \in Nat /\ l + 1 <= k
    BY <1>2, <1>6
  <2>3. lo < x + 2^k /\ x < lo + 2^(l + 1)
    BY <1>1, <1>2, <1>3, <2>1
  <2>4. x <= lo /\ lo + 2^(l + 1) <= x + 2^k
    BY <1>2, <2>1, <2>2, <2>3, Nested
  <2>5. x <= i /\ i < x + 2^k
    BY <1>2, <1>3, <2>1, <2>4
  <2>6. x = i /\ k = l
    BY <1>1, <1>2, <1>3, <2>5 DEF Tiling, Apart
  <2> QED BY <1>2, <1>6, <2>6
<1> QED BY <1>5, <1>6

\* A tiling in which a block is replaced by its two halves: the second half starts
\* where no block did.
LEMMA SplitTiles ==
  ASSUME NEW B, Tiling(B), NEW C, C \subseteq Atoms \X Logs,
         NEW i \in Atoms, NEW b \in Logs, <<i, b>> \in B, b > 0,
         \A j \in Atoms, k \in Logs :
           <<j, k>> \in C <=> \/ <<j, k>> \in B /\ j # i
                              \/ (j = i \/ j = i + 2^(b - 1)) /\ k = b - 1
  PROVE  /\ i + 2^(b - 1) \in Atoms /\ i + 2^(b - 1) # i
         /\ \A k \in Logs : <<i + 2^(b - 1), k>> \notin B
         /\ Tiling(C)
<1> DEFINE h == 2^(b - 1)
           m == i + h
<1>1. b - 1 \in Logs /\ h \in Nat /\ h > 0 /\ 2^b = 2 * h /\ b - 1 \in Nat /\ (b - 1) + 1 = b /\ b \in Nat
  BY Sizes, Numbers
<1>2. i \in Nat /\ i % 2^b = 0 /\ i + 2^b <= NBlock /\ NBlock \in Nat
  BY Numbers DEF Tiling, Aligned
<1>3. m \in Atoms /\ m # i /\ i < m
  <2>1. m \in Nat /\ m < NBlock /\ m # i /\ i < m
    BY <1>1, <1>2
  <2> QED BY <2>1, Numbers
<1>4. \A j \in Atoms, k \in Logs : <<j, k>> \in B /\ j # i => j + 2^k <= i \/ i + 2^b <= j
  <2> SUFFICES ASSUME NEW j \in Atoms, NEW k \in Logs, <<j, k>> \in B, j # i
               PROVE  j + 2^k <= i \/ i + 2^b <= j
    OBVIOUS
  <2>1. j \in Nat
    BY Numbers
  <2>2. CASE i <= j
    BY <2>2 DEF Tiling, Apart
  <2>3. CASE j <= i
    BY <2>3 DEF Tiling, Apart
  <2> QED BY <1>2, <2>1, <2>2, <2>3
<1>5. i % h = 0 /\ m % h = 0
  <2>1. h \in Nat \ {0} /\ i % (2 * h) = 0
    BY <1>1, <1>2
  <2> HIDE DEF h
  <2>2. i % h = 0
    BY <1>2, <2>1, Halves
  <2> DEFINE q == i \div h
  <2>3. q \in Int /\ i = q * h
    BY <1>2, <2>1, <2>2
  <2> HIDE DEF q
  <2>4. m = (q + 1) * h + 0 /\ q + 1 \in Int /\ 0 \in 0 .. h - 1
    BY <2>1, <2>3
  <2>5. m % h = 0
    BY <2>1, <2>4, Multiple
  <2> QED BY <2>2, <2>5
<1>6. \A j \in Atoms, k \in Logs :
        <<j, k>> \in C <=> \/ <<j, k>> \in B /\ j # i
                           \/ (j = i \/ j = m) /\ k = b - 1
  BY Zenon DEF m
<1>a. \A k \in Logs : <<m, k>> \notin B
  <2> SUFFICES ASSUME NEW k \in Logs, <<m, k>> \in B PROVE FALSE
    OBVIOUS
  <2>1. m + 2^k <= i \/ i + 2^b <= m
    BY <1>3, <1>4
  <2>2. 2^k \in Nat
    BY Sizes
  <2> QED BY <1>1, <1>2, <1>3, <2>1, <2>2
<1>h. h = 2^(b - 1)
  OBVIOUS
<1>m. m = i + h
  OBVIOUS
<1> HIDE DEF h, m
<1>7. Aligned(C)
  <2> SUFFICES ASSUME NEW j \in Atoms, NEW k \in Logs, <<j, k>> \in C
               PROVE  j % 2^k = 0 /\ j + 2^k <= NBlock
    BY DEF Aligned
  <2>1. CASE <<j, k>> \in B
    BY <2>1 DEF Tiling, Aligned
  <2>2. CASE (j = i \/ j = m) /\ k = b - 1
    <3>1. 2^k = h
      BY <1>h, <2>2
    <3>2. j % h = 0 /\ j + h <= NBlock
      BY <1>1, <1>2, <1>5, <1>m, <2>2
    <3> QED BY <3>1, <3>2
  <2> QED BY <1>6, <2>1, <2>2
<1>8. Apart(C)
  <2> SUFFICES ASSUME NEW x \in Atoms, NEW y \in Atoms, NEW l \in Logs, NEW k \in Logs,
                      <<x, l>> \in C, <<y, k>> \in C, x <= y
               PROVE  (x = y /\ l = k) \/ x + 2^l <= y
    BY DEF Apart
  <2>1. x \in Nat /\ y \in Nat /\ 2^l \in Nat /\ 2^k \in Nat /\ 2^l > 0 /\ 2^k > 0
    BY Numbers, Sizes
  <2>2. CASE <<x, l>> \in B /\ <<y, k>> \in B
    BY <2>2 DEF Tiling, Apart
  <2>3. CASE <<x, l>> \in B /\ x # i /\ (y = i \/ y = m) /\ k = b - 1
    <3>1. x + 2^l <= i \/ i + 2^b <= x
      BY <1>4, <2>3
    <3> QED BY <1>1, <1>2, <1>m, <2>1, <2>3, <3>1
  <2>4. CASE <<y, k>> \in B /\ y # i /\ (x = i \/ x = m) /\ l = b - 1
    <3>1. y + 2^k <= i \/ i + 2^b <= y
      BY <1>4, <2>4
    <3>2. 2^l = h
      BY <1>h, <2>4
    <3> QED BY <1>1, <1>2, <1>m, <2>1, <2>4, <3>1, <3>2
  <2>5. CASE (x = i \/ x = m) /\ l = b - 1 /\ (y = i \/ y = m) /\ k = b - 1
    <3>1. 2^l = h
      BY <1>h, <2>5
    <3> QED BY <1>1, <1>2, <1>m, <2>1, <2>5, <3>1
  <2> QED BY <1>6, <2>2, <2>3, <2>4, <2>5
<1>9. Covers(C)
  <2> SUFFICES ASSUME NEW a \in Atoms
               PROVE  \E x \in Atoms, l \in Logs : <<x, l>> \in C /\ x <= a /\ a < x + 2^l
    BY DEF Covers
  <2>1. PICK x \in Atoms, l \in Logs : <<x, l>> \in B /\ x <= a /\ a < x + 2^l
    BY DEF Tiling, Covers
  <2>2. CASE x # i
    BY <1>6, <2>1, <2>2
  <2>3. CASE x = i
    <3>1. l = b
      <4>1. 2^b \in Nat /\ 2^b > 0
        BY Sizes
      <4>2. ~(i + 2^b <= i)
        BY <1>2, <4>1
      <4>3. i <= i
        BY <1>2
      <4> QED BY <2>1, <2>3, <4>2, <4>3 DEF Tiling, Apart
    <3>2. a \in Nat /\ i <= a /\ a < i + 2 * h
      BY <1>1, <2>1, <2>3, <3>1, Numbers
    <3>3. CASE a < m
      <4>1. <<i, b - 1>> \in C /\ i <= a /\ a < i + 2^(b - 1)
        BY <1>1, <1>6, <1>h, <1>m, <3>2, <3>3
      <4> QED BY <1>1, <4>1
    <3>4. CASE ~(a < m)
      <4>1. m <= a /\ a < m + h
        BY <1>1, <1>2, <1>m, <3>2, <3>4
      <4>2. <<m, b - 1>> \in C
        BY <1>1, <1>3, <1>6
      <4> QED BY <1>1, <1>3, <1>h, <4>1, <4>2
    <3> QED BY <3>3, <3>4
  <2> QED BY <2>2, <2>3
<1> QED BY <1>3, <1>7, <1>8, <1>9, <1>a, <1>h, <1>m DEF Tiling

\* C has the blocks of B, except for one of twice the size in the place of two.
Merged(B, C, i, l) ==
  \A j \in Atoms, k \in Logs :
    <<j, k>> \in C <=> \/ <<j, k>> \in B /\ j # i /\ j # i + 2^l
                       \/ j = i /\ k = l + 1

\* A tiling in which two buddies are replaced by the block they make up.
LEMMA MergeTiles ==
  ASSUME NEW B, Tiling(B), NEW C, C \subseteq Atoms \X Logs,
         NEW i \in Atoms, NEW l \in Logs, l < LogMax, i % 2^(l + 1) = 0,
         i + 2^l \in Atoms, <<i, l>> \in B, <<i + 2^l, l>> \in B, Merged(B, C, i, l)
  PROVE  Tiling(C)
<1> DEFINE h == 2^l
           m == i + h
           q == 2^(l + 1)
<1>1. l \in Nat /\ l + 1 \in Logs /\ h \in Nat /\ h > 0 /\ q = 2 * h
  <2>1. l \in Nat /\ l + 1 \in Nat /\ l + 1 <= LogMax
    BY Numbers
  <2> QED BY <2>1, Sizes, Numbers
<1>2. i \in Nat /\ i % q = 0 /\ m \in Atoms /\ m + h <= NBlock /\ NBlock \in Nat
  BY Numbers DEF Tiling, Aligned
<1>3. \A j \in Atoms, k \in Logs :
        <<j, k>> \in C <=> \/ <<j, k>> \in B /\ j # i /\ j # m
                           \/ j = i /\ k = l + 1
  BY DEF Merged
<1>4. <<i, l>> \in B /\ <<m, l>> \in B
  OBVIOUS
<1>h. h = 2^l
  OBVIOUS
<1>m. m = i + h
  OBVIOUS
<1>q. q = 2^(l + 1)
  OBVIOUS
<1> HIDE DEF h, m, q
<1>5. \A j \in Atoms, k \in Logs : <<j, k>> \in B /\ j # i /\ j # m => j + 2^k <= i \/ i + q <= j
  <2> SUFFICES ASSUME NEW j \in Atoms, NEW k \in Logs, <<j, k>> \in B, j # i, j # m
               PROVE  j + 2^k <= i \/ i + q <= j
    OBVIOUS
  <2>1. j \in Nat /\ 2^k \in Nat /\ 2^k > 0
    BY Numbers, Sizes
  <2>2. i <= j => i + h <= j
    BY <1>4, <1>h DEF Tiling, Apart
  <2>3. m <= j => m + h <= j
    BY <1>2, <1>4, <1>h DEF Tiling, Apart
  <2>4. j <= i => j + 2^k <= i
    BY <1>4 DEF Tiling, Apart
  <2> QED BY <1>1, <1>2, <1>m, <2>1, <2>2, <2>3, <2>4
<1>7. Aligned(C)
  <2> SUFFICES ASSUME NEW j \in Atoms, NEW k \in Logs, <<j, k>> \in C
               PROVE  j % 2^k = 0 /\ j + 2^k <= NBlock
    BY DEF Aligned
  <2>1. CASE <<j, k>> \in B
    BY <2>1 DEF Tiling, Aligned
  <2>2. CASE j = i /\ k = l + 1
    <3>1. i + q <= NBlock
      BY <1>1, <1>2, <1>m
    <3> QED BY <1>2, <1>q, <2>2, <3>1
  <2> QED BY <1>3, <2>1, <2>2
<1>8. Apart(C)
  <2> SUFFICES ASSUME NEW x \in Atoms, NEW y \in Atoms, NEW n \in Logs, NEW k \in Logs,
                      <<x, n>> \in C, <<y, k>> \in C, x <= y
               PROVE  (x = y /\ n = k) \/ x + 2^n <= y
    BY DEF Apart
  <2>1. x \in Nat /\ y \in Nat /\ 2^n \in Nat /\ 2^k \in Nat /\ 2^n > 0 /\ 2^k > 0
    BY Numbers, Sizes
  <2>2. CASE <<x, n>> \in B /\ <<y, k>> \in B
    BY <2>2 DEF Tiling, Apart
  <2>3. CASE <<x, n>> \in B /\ x # i /\ x # m /\ y = i /\ k = l + 1
    <3>1. x + 2^n <= i \/ i + q <= x
      BY <1>5, <2>3
    <3> QED BY <1>1, <1>2, <2>1, <2>3, <3>1
  <2>4. CASE <<y, k>> \in B /\ y # i /\ y # m /\ x = i /\ n = l + 1
    <3>1. y + 2^k <= i \/ i + q <= y
      BY <1>5, <2>4
    <3>2. 2^n = q
      BY <1>q, <2>4
    <3> QED BY <1>1, <1>2, <2>1, <2>4, <3>1, <3>2
  <2> QED BY <1>3, <2>2, <2>3, <2>4
<1>9. Covers(C)
  <2> SUFFICES ASSUME NEW a \in Atoms
               PROVE  \E x \in Atoms, n \in Logs : <<x, n>> \in C /\ x <= a /\ a < x + 2^n
    BY DEF Covers
  <2>1. PICK x \in Atoms, n \in Logs : <<x, n>> \in B /\ x <= a /\ a < x + 2^n
    BY DEF Tiling, Covers
  <2>2. CASE x # i /\ x # m
    <3>1. <<x, n>> \in C
      BY <1>3, <2>1, <2>2
    <3> QED BY <2>1, <3>1
  <2>3. CASE x = i \/ x = m
    <3>1. n = l
      <4>1. \A z \in Nat : ~(z + h <= z) /\ z <= z
        BY <1>1
      <4>2. x \in Nat
        BY Numbers
      <4>3. <<x, l>> \in B
        BY <1>4, <2>3
      <4> QED BY <1>h, <2>1, <4>1, <4>2, <4>3 DEF Tiling, Apart
    <3>2. a \in Nat /\ x <= a /\ a < x + h
      BY <1>h, <2>1, <3>1, Numbers
    <3>3. i <= a /\ a < i + q
      BY <1>1, <1>2, <1>m, <2>3, <3>2
    <3>4. <<i, l + 1>> \in C
      BY <1>1, <1>3
    <3> QED BY <1>1, <1>q, <3>3, <3>4
  <2> QED BY <2>2, <2>3
<1> QED BY <1>7, <1>8, <1>9 DEF Tiling

\* An aligned run of atoms in which every block is smaller than the run contains two
\* buddies of one size: the smallest block in it has a buddy that is a block.
LEMMA RunHasBuddies ==
  ASSUME NEW B, Tiling(B), NEW i \in Atoms, NEW l \in Logs, i % 2^l = 0, i + 2^l <= NBlock,
         \A j \in Atoms, k \in Logs : <<j, k>> \in B /\ j < i + 2^l /\ i < j + 2^k => k < l
  PROVE  \E j \in Atoms, k \in Logs :
           /\ k < l /\ j % 2^(k + 1) = 0 /\ j + 2^k \in Atoms
           /\ <<j, k>> \in B /\ <<j + 2^k, k>> \in B
           /\ i <= j /\ j + 2^k < i + 2^l
<1> DEFINE T == {k \in Logs : \E j \in Atoms : <<j, k>> \in B /\ i <= j /\ j < i + 2^l}
<1>0. i \in Nat /\ l \in Nat /\ NBlock \in Nat /\ 2^l \in Nat /\ 2^l > 0 /\ l <= LogMax
  BY Numbers, Sizes
<1>1. T # {} /\ T \subseteq Nat
  <2>1. PICK j \in Atoms, k \in Logs : <<j, k>> \in B /\ j <= i /\ i < j + 2^k
    BY DEF Tiling, Covers
  <2>2. j \in Nat /\ k \in Nat /\ 2^k \in Nat /\ 2^k > 0 /\ j % 2^k = 0
    BY <2>1, Numbers, Sizes DEF Tiling, Aligned
  <2>3. j < i + 2^l
    BY <1>0, <2>1, <2>2
  <2>4. k < l
    BY <2>1, <2>3
  <2>5. k <= l
    BY <1>0, <2>2, <2>4
  <2>6. i <= j
    BY <1>0, <2>1, <2>2, <2>3, <2>5, Nested
  <2>7. k \in T
    BY <2>1, <2>3, <2>6
  <2> QED BY <2>7, Numbers
<1>2. PICK k \in T : \A n \in T : k <= n
  BY <1>1, Least
<1>3. PICK j \in Atoms : <<j, k>> \in B /\ i <= j /\ j < i + 2^l
  BY <1>2
<1>4. k \in Logs /\ k \in Nat /\ j \in Nat /\ 2^k \in Nat /\ 2^k > 0 /\ j % 2^k = 0 /\ 2^(k + 1) = 2 * 2^k
  BY <1>2, <1>3, Numbers, Sizes DEF Tiling, Aligned
<1>5. k < l
  <2>1. i < j + 2^k
    BY <1>0, <1>3, <1>4
  <2> QED BY <1>3, <1>4, <2>1
<1> HIDE DEF T
<1> DEFINE c == Buddy(j, k)
           lo == IF c = j + 2^k THEN j ELSE c
<1>6. /\ c \in Nat
      /\ \/ c = j + 2^k /\ j % 2^(k + 1) = 0
         \/ j = c + 2^k /\ c % 2^(k + 1) = 0
  BY <1>4, Buddies
<1>c. c = Buddy(j, k)
  OBVIOUS
<1> HIDE DEF c
<1>7. /\ lo \in Nat /\ lo % 2^(k + 1) = 0 /\ (lo = j \/ lo = c) /\ (c = lo \/ j = lo)
      /\ (lo = j => c = lo + 2^k) /\ (lo # j => j = lo + 2^k)
  BY <1>4, <1>6
<1> HIDE DEF lo
<1>8. i <= lo /\ lo + 2^(k + 1) <= i + 2^l
  <2>1. k + 1 \in Nat /\ k + 1 <= l
    BY <1>0, <1>4, <1>5
  <2>2. lo < i + 2^l /\ i < lo + 2^(k + 1)
    BY <1>0, <1>3, <1>4, <1>7
  <2> QED BY <1>0, <1>7, <2>1, <2>2, Nested
<1>9. i <= c /\ c < i + 2^l /\ c \in Atoms /\ lo \in Atoms /\ lo + 2^k \in Atoms /\ lo + 2^k < i + 2^l
  <2>1. /\ i <= c /\ c < i + 2^l /\ c < NBlock /\ lo < NBlock /\ lo + 2^k < NBlock
        /\ lo + 2^k < i + 2^l /\ lo + 2^k \in Nat
    BY <1>0, <1>4, <1>6, <1>7, <1>8
  <2> QED BY <1>6, <1>7, <2>1, Numbers
<1>10. <<c, k>> \in B
  <2>1. PICK n \in Logs : <<c, n>> \in B /\ n <= k
    BY <1>3, <1>4, <1>9, <1>c, BuddyStarts
  <2>2. n \in T
    BY <1>9, <2>1 DEF T
  <2>3. n = k
    BY <1>2, <1>4, <2>1, <2>2, Numbers
  <2> QED BY <2>1, <2>3
<1>11. <<lo, k>> \in B /\ <<lo + 2^k, k>> \in B
  BY <1>3, <1>7, <1>10
<1> QED BY <1>4, <1>5, <1>7, <1>8, <1>9, <1>11

-----------------------------------------------------------------------------
(***************************************************************************)
(* What memsys5Init carves                                                 *)
(***************************************************************************)

\* The part of the pool that the bits of nBlock from k on make up.
Carve(k) == (NBlock \div 2^k) * 2^k

\* A multiple of P and a remainder, divided by P.
LEMMA Quotient ==
  ASSUME NEW P \in Nat \ {0}, NEW m \in Int, NEW r \in 0 .. P - 1
  PROVE  (m * P + r) \div P = m
OBVIOUS

\* Bit k of nBlock adds a block of 2^k atoms to what the bits above it make up.
LEMMA CarveBit ==
  ASSUME NEW k \in Nat
  PROVE  /\ Carve(k) \in Nat /\ Carve(k) % 2^k = 0 /\ Carve(k) <= NBlock
         /\ Carve(k) = Carve(k + 1) + (IF Bit(k) THEN 2^k ELSE 0)
         /\ Carve(k + 1) \in Nat /\ Offset(k) = Carve(k + 1)
<1> DEFINE P == 2^k
           Q == 2^(k + 1)
           q == NBlock \div P
           r == NBlock % P
           s == q \div 2
           d == q % 2
<1>1. P \in Nat \ {0} /\ Q = 2 * P /\ NBlock \in Nat
  BY Power, Numbers
<1>2. Carve(k) = q * P /\ Carve(k + 1) = (NBlock \div Q) * Q /\ Offset(k) = (NBlock \div Q) * Q
  BY DEF Carve, Offset
<1>3. Bit(k) <=> d = 1
  BY DEF Bit
<1> HIDE DEF P, Q
<1>4. q \in Nat /\ r \in 0 .. P - 1 /\ NBlock = q * P + r
  BY <1>1
<1> HIDE DEF q, r
<1>5. s \in Nat /\ d \in {0, 1} /\ q = 2 * s + d
  BY <1>4
<1> HIDE DEF s, d
<1>6. \E e \in 0 .. Q - 1 : NBlock = s * Q + e
  <2>1. CASE d = 0
    <3>1. q * P = s * Q
      BY <1>1, <1>5, <2>1
    <3>2. r \in 0 .. Q - 1 /\ NBlock = s * Q + r
      BY <1>1, <1>4, <3>1
    <3> QED BY <3>2
  <2>2. CASE d = 1
    <3> DEFINE z == s * Q
    <3>1. q * P = z + P /\ z \in Int
      BY <1>1, <1>5, <2>2
    <3>a. NBlock = q * P + r
      BY <1>4
    <3> HIDE DEF z
    <3>2. P + r \in 0 .. Q - 1 /\ NBlock = z + (P + r)
      BY <1>1, <1>4, <3>1, <3>a
    <3> QED BY <3>2 DEF z
  <2> QED BY <1>5, <2>1, <2>2
<1>7. NBlock \div Q = s
  <2>1. PICK e \in 0 .. Q - 1 : NBlock = s * Q + e
    BY <1>6
  <2>2. Q \in Nat \ {0} /\ s \in Int
    BY <1>1, <1>5
  <2>3. (s * Q + e) \div Q = s
    BY <2>2, Quotient
  <2> QED BY <2>1, <2>3
<1>8. q * P = s * Q + (IF d = 1 THEN P ELSE 0)
  <2>1. CASE d = 0
    BY <1>1, <1>5, <2>1
  <2>2. CASE d = 1
    BY <1>1, <1>5, <2>2
  <2> QED BY <1>5, <2>1, <2>2
<1>9. q * P \in Nat /\ s * Q \in Nat
  BY <1>1, <1>4, <1>5
<1>10. q * P <= NBlock
  BY <1>1, <1>4, <1>9
<1>11. (q * P) % P = 0
  <2>1. 0 \in 0 .. P - 1 /\ q \in Int /\ q * P + 0 = q * P
    BY <1>1, <1>4, <1>9
  <2>2. (q * P + 0) % P = 0
    BY <1>1, <2>1, Multiple
  <2> QED BY <2>1, <2>2
<1> QED BY <1>2, <1>3, <1>7, <1>8, <1>9, <1>10, <1>11 DEF P

\* The higher the bit, the less is carved.
LEMMA CarveDown ==
  ASSUME NEW k \in Nat, NEW l \in Nat, k <= l
  PROVE  Carve(l) <= Carve(k)
<1> DEFINE T == {n \in Nat : ~(Carve(k + n) <= Carve(k))}
<1>0. Carve(k) \in Nat /\ k + 0 = k
  BY CarveBit
<1>1. ASSUME T # {} PROVE FALSE
  <2>1. PICK n \in T : \A m \in T : n <= m
    BY <1>1, Least
  <2>2. n \in Nat /\ ~(Carve(k + n) <= Carve(k))
    OBVIOUS
  <2>3. n # 0
    BY <1>0, <2>2
  <2>4. n - 1 \in Nat /\ n - 1 \notin T /\ k + (n - 1) \in Nat /\ (k + (n - 1)) + 1 = k + n
    BY <2>1, <2>2, <2>3
  <2>5. Carve(k + (n - 1)) <= Carve(k)
    BY <2>4
  <2>6. /\ Carve(k + (n - 1)) \in Nat /\ Carve(k + n) \in Nat
        /\ Carve(k + (n - 1)) = Carve(k + n) + (IF Bit(k + (n - 1)) THEN 2^(k + (n - 1)) ELSE 0)
    BY <2>4, CarveBit
  <2>7. 2^(k + (n - 1)) \in Nat
    BY <2>4, Power
  <2> QED BY <1>0, <2>2, <2>5, <2>6, <2>7
<1>2. k + (l - k) = l /\ l - k \in Nat
  OBVIOUS
<1>3. l - k \notin T
  BY <1>1
<1> QED BY <1>2, <1>3

\* The blocks of memsys5Init tile the pool, and start at different atoms.
LEMMA InitTiles ==
  ASSUME NEW C, C \subseteq Atoms \X Logs,
         \A j \in Atoms, k \in Logs : <<j, k>> \in C <=> k \in Carved /\ j = Offset(k)
  PROVE  /\ Tiling(C)
         /\ \A l \in Carved : l \in Logs /\ Offset(l) \in Atoms
         /\ \A l, k \in Carved : Offset(l) = Offset(k) => l = k
<1>1. ASSUME NEW l \in Carved
      PROVE  /\ l \in Logs /\ l \in Nat /\ Offset(l) \in Atoms /\ Offset(l) = Carve(l + 1)
             /\ Offset(l) \in Nat /\ 2^l \in Nat /\ 2^l > 0
             /\ Carve(l) \in Nat /\ Carve(l) = Offset(l) + 2^l /\ Carve(l) <= NBlock
             /\ Offset(l) % 2^l = 0
  <2>1. l \in Logs /\ Bit(l)
    BY DEF Carved
  <2>2. l \in Nat /\ 2^l \in Nat /\ 2^l > 0 /\ 2^(l + 1) = 2 * 2^l
    BY <2>1, Numbers, Sizes
  <2>3. /\ Carve(l) \in Nat /\ Carve(l) <= NBlock /\ Carve(l + 1) \in Nat
        /\ Carve(l) = Carve(l + 1) + 2^l /\ Offset(l) = Carve(l + 1)
    BY <2>1, <2>2, CarveBit
  <2>4. Carve(l + 1) < NBlock /\ NBlock \in Nat
    BY <2>2, <2>3, Numbers
  <2>5. Carve(l + 1) % 2^(l + 1) = 0
    BY <2>2, CarveBit
  <2>6. Carve(l + 1) % 2^l = 0
    BY <2>2, <2>3, <2>5, Weaken
  <2> QED BY <2>1, <2>2, <2>3, <2>4, <2>6, Numbers
<1>2. ASSUME NEW l \in Carved, NEW m \in Carved, l < m
      PROVE  Offset(m) + 2^m <= Offset(l)
  <2>1. l + 1 \in Nat /\ m \in Nat /\ l + 1 <= m
    BY <1>1, <1>2
  <2>2. Carve(m) <= Carve(l + 1)
    BY <2>1, CarveDown
  <2> QED BY <1>1, <2>2
<1>3. \A l, m \in Carved : Offset(l) <= Offset(m) => l = m \/ Offset(l) + 2^l <= Offset(m)
  <2> SUFFICES ASSUME NEW l \in Carved, NEW m \in Carved, Offset(l) <= Offset(m)
               PROVE  l = m \/ Offset(l) + 2^l <= Offset(m)
    OBVIOUS
  <2>1. l \in Nat /\ m \in Nat /\ Offset(l) \in Nat /\ Offset(m) \in Nat /\ 2^m \in Nat /\ 2^m > 0
    BY <1>1
  <2>2. CASE l < m
    BY <1>2, <2>1, <2>2
  <2>3. CASE m < l
    BY <1>2, <2>3
  <2> QED BY <2>1, <2>2, <2>3
<1>4. Aligned(C)
  <2> SUFFICES ASSUME NEW j \in Atoms, NEW k \in Logs, <<j, k>> \in C
               PROVE  j % 2^k = 0 /\ j + 2^k <= NBlock
    BY DEF Aligned
  <2>1. k \in Carved /\ j = Offset(k)
    OBVIOUS
  <2> QED BY <1>1, <2>1
<1>5. Apart(C)
  <2> SUFFICES ASSUME NEW x \in Atoms, NEW y \in Atoms, NEW l \in Logs, NEW k \in Logs,
                      <<x, l>> \in C, <<y, k>> \in C, x <= y
               PROVE  (x = y /\ l = k) \/ x + 2^l <= y
    BY DEF Apart
  <2>1. l \in Carved /\ x = Offset(l) /\ k \in Carved /\ y = Offset(k)
    OBVIOUS
  <2> QED BY <1>3, <2>1
<1>6. Covers(C)
  <2> SUFFICES ASSUME NEW a \in Atoms
               PROVE  \E x \in Atoms, l \in Logs : <<x, l>> \in C /\ x <= a /\ a < x + 2^l
    BY DEF Covers
  <2> DEFINE T == {k \in Nat : Carve(k) <= a}
  <2>0. a \in Nat /\ a < NBlock /\ NBlock \in Nat /\ LogMax \in Nat
    BY Numbers
  <2>1. LogMax + 1 \in T
    <3>1. NBlock < 2^(LogMax + 1)
      BY PoolAssumption
    <3> DEFINE Q == 2^(LogMax + 1)
    <3>2. Q \in Nat \ {0} /\ NBlock < Q
      BY <2>0, <3>1, Power
    <3>3. Carve(LogMax + 1) = (NBlock \div Q) * Q
      BY DEF Carve
    <3> HIDE DEF Q
    <3>4. NBlock \div Q = 0
      <4>1. NBlock \in 0 .. Q - 1 /\ 0 * Q + NBlock = NBlock
        BY <2>0, <3>2
      <4> QED BY <3>2, <4>1, Quotient
    <3>5. Carve(LogMax + 1) = 0
      BY <3>2, <3>3, <3>4
    <3> QED BY <2>0, <3>5
  <2>2. PICK k \in T : \A n \in T : k <= n
    BY <2>1, Least
  <2>3. k \in Nat /\ Carve(k) <= a /\ k <= LogMax + 1
    BY <2>1, <2>2
  <2>4. k # 0
    <3> SUFFICES ASSUME k = 0 PROVE FALSE
      OBVIOUS
    <3>1. 2^0 \in Nat /\ 2^0 > 0 /\ 2^(0 + 1) = 2 * 2^0
      BY Power
    <3>2. Carve(0) = NBlock
      <4>1. IsFiniteSet({}) /\ Cardinality({}) = 0 /\ SUBSET {} = {{}}
        BY FS_EmptySet
      <4>2. Cardinality(SUBSET {}) = 2^Cardinality({}) /\ Cardinality({{}}) = 1
        BY <4>1, FS_SUBSET, FS_Singleton
      <4>3. 2^0 = 1
        BY <4>1, <4>2
      <4>4. Carve(0) = (NBlock \div 1) * 1
        BY <4>3 DEF Carve
      <4> QED BY <2>0, <4>4
    <3> QED BY <2>0, <2>3, <3>2
  <2>5. k - 1 \in Nat /\ k - 1 \in Logs /\ (k - 1) + 1 = k /\ ~(k <= k - 1)
    <3>1. k - 1 \in Nat /\ k - 1 <= LogMax /\ (k - 1) + 1 = k /\ ~(k <= k - 1)
      BY <2>0, <2>3, <2>4
    <3> QED BY <3>1, Numbers
  <2>6. ~(Carve(k - 1) <= a)
    BY <2>2, <2>5
  <2> HIDE DEF T
  <2>7. /\ Carve(k - 1) = Carve(k) + (IF Bit(k - 1) THEN 2^(k - 1) ELSE 0)
        /\ Carve(k) \in Nat /\ Carve(k - 1) \in Nat /\ Offset(k - 1) = Carve(k)
    BY <2>5, CarveBit
  <2>8. Bit(k - 1)
    BY <2>0, <2>3, <2>6, <2>7
  <2>9. k - 1 \in Carved /\ Offset(k - 1) \in Atoms
    BY <1>1, <2>5, <2>8 DEF Carved
  <2>10. Offset(k - 1) <= a /\ a < Offset(k - 1) + 2^(k - 1)
    <3>1. 2^(k - 1) \in Nat
      BY <2>5, Power
    <3> QED BY <2>0, <2>3, <2>6, <2>7, <2>8, <3>1
  <2>11. <<Offset(k - 1), k - 1>> \in C
    BY <2>5, <2>9
  <2> QED BY <2>5, <2>9, <2>10, <2>11
<1>7. \A l, k \in Carved : Offset(l) = Offset(k) => l = k
  <2> SUFFICES ASSUME NEW l \in Carved, NEW k \in Carved, Offset(l) = Offset(k)
               PROVE  l = k
    OBVIOUS
  <2>1. Offset(l) \in Nat /\ Offset(k) \in Nat /\ 2^l \in Nat /\ 2^l > 0
    BY <1>1
  <2>2. l = k \/ Offset(l) + 2^l <= Offset(k)
    BY <1>3, <2>1
  <2> QED BY <2>1, <2>2
<1> QED BY <1>1, <1>4, <1>5, <1>6, <1>7 DEF Tiling

-----------------------------------------------------------------------------
(***************************************************************************)
(* The free lists                                                          *)
(***************************************************************************)

\* What a walk along a list may have come to.
Reaches == SUBSET (Atoms \cup {-1, Garbage})

\* A function defined by recursion exists: g[0] = a, and F leads from g[n - 1] to g[n].
LEMMA Iterates ==
  ASSUME NEW N \in Nat, NEW a \in Reaches, NEW F \in [Reaches -> Reaches]
  PROVE  \E g \in [0 .. N -> Reaches] : g[0] = a /\ \A n \in 1 .. N : g[n] = F[g[n - 1]]
<1> DEFINE S == Reaches
<1> HIDE DEF S
<1>0. a \in S /\ F \in [S -> S]
  BY DEF S
<1> DEFINE Good(n, g) == g \in [0 .. n -> S] /\ g[0] = a /\ \A m \in 1 .. n : g[m] = F[g[m - 1]]
           T == {n \in Nat : ~ \E g : Good(n, g)}
<1>1. ASSUME T # {} PROVE FALSE
  <2>1. PICK n \in T : \A m \in T : n <= m
    BY <1>1, Least
  <2>2. n \in Nat /\ ~ \E g : Good(n, g)
    OBVIOUS
  <2>3. n # 0
    <3>1. Good(0, [m \in 0 .. 0 |-> a])
      BY <1>0
    <3> QED BY <2>2, <3>1
  <2>4. n - 1 \in Nat /\ n - 1 \notin T
    <3>1. n - 1 \in Nat /\ ~(n <= n - 1)
      BY <2>2, <2>3
    <3> HIDE DEF T
    <3> QED BY <2>1, <3>1
  <2>5. PICK g : Good(n - 1, g)
    BY <2>4
  <2> DEFINE h == [m \in 0 .. n |-> IF m = n THEN F[g[n - 1]] ELSE g[m]]
  <2>6. Good(n, h)
    <3>0. g \in [0 .. n - 1 -> S] /\ g[0] = a /\ \A m \in 1 .. n - 1 : g[m] = F[g[m - 1]]
      BY <2>5
    <3>1. n - 1 \in 0 .. n - 1 /\ \A m \in 0 .. n : m # n => m \in 0 .. n - 1
      BY <2>2, <2>3
    <3>2. h \in [0 .. n -> S]
      BY <1>0, <3>0, <3>1
    <3>3. h[0] = a
      BY <2>2, <2>3, <3>0
    <3>4. ASSUME NEW m \in 1 .. n PROVE h[m] = F[h[m - 1]]
      <4>1. m \in 0 .. n /\ m - 1 \in 0 .. n /\ m - 1 # n /\ (m # n => m \in 1 .. n - 1)
        BY <2>2
      <4>2. h[m - 1] = g[m - 1]
        BY <4>1
      <4>3. CASE m = n
        BY <4>1, <4>2, <4>3
      <4>4. CASE m # n
        BY <3>0, <4>1, <4>2, <4>4
      <4> QED BY <4>3, <4>4
    <3> QED BY <3>2, <3>3, <3>4
  <2> QED BY <2>2, <2>6
<1>2. N \notin T
  BY <1>1
<1> QED BY <1>2 DEF S

\* The recursion that Listed unfolds.
Walk(l) == CHOOSE f : f = [n \in 0 .. NBlock |->
        IF n = 0 THEN {aiFreelist[l]} \ {-1}
        ELSE LET r == f[n - 1] IN r \cup ({next[i] : i \in r \cap Atoms} \ {-1})]

\* What a free list holds is what a walk has got to after as many steps as there are atoms.
LEMMA ListedIsWalk ==
  ASSUME NEW l
  PROVE  Listed(l) = Walk(l)[NBlock]
BY Zenon DEF Listed, Walk

\* How the walk begins and goes on.
LEMMA WalkStep ==
  ASSUME TypeOK, NEW l \in Logs
  PROVE  /\ Walk(l)[0] = {aiFreelist[l]} \ {-1}
         /\ \A n \in 1 .. NBlock :
              Walk(l)[n] = Walk(l)[n - 1] \cup ({next[i] : i \in Walk(l)[n - 1] \cap Atoms} \ {-1})
<1> DEFINE S == Reaches
           a == {aiFreelist[l]} \ {-1}
           F == [r \in S |-> r \cup ({next[i] : i \in r \cap Atoms} \ {-1})]
           Body(f) == [n \in 0 .. NBlock |->
                         IF n = 0 THEN {aiFreelist[l]} \ {-1}
                         ELSE LET r == f[n - 1] IN r \cup ({next[i] : i \in r \cap Atoms} \ {-1})]
<1>1. a \in S
  BY DEF TypeOK, Reaches
<1>2. F \in [S -> S]
  <2>1. ASSUME NEW r \in S PROVE r \cup ({next[i] : i \in r \cap Atoms} \ {-1}) \in S
    BY DEF TypeOK, Reaches
  <2> QED BY <2>1
<1>3. NBlock \in Nat
  BY Numbers
<1>f. \A r \in S : F[r] = r \cup ({next[i] : i \in r \cap Atoms} \ {-1})
  OBVIOUS
<1> HIDE DEF a, F
<1>4. PICK g \in [0 .. NBlock -> S] : g[0] = a /\ \A n \in 1 .. NBlock : g[n] = F[g[n - 1]]
  BY <1>1, <1>2, <1>3, Iterates
<1>5. g = Body(g)
  <2>1. ASSUME NEW n \in 0 .. NBlock PROVE g[n] = Body(g)[n]
    <3>1. CASE n = 0
      BY <1>4, <3>1 DEF a
    <3>2. CASE n # 0
      <4>1. n \in 1 .. NBlock /\ n - 1 \in 0 .. NBlock
        BY <1>3, <3>2
      <4>2. g[n - 1] \in S /\ g[n] = F[g[n - 1]]
        BY <4>1, <1>4
      <4>3. g[n] = g[n - 1] \cup ({next[i] : i \in g[n - 1] \cap Atoms} \ {-1})
        BY <1>f, <4>2
      <4>4. Body(g)[n] = g[n - 1] \cup ({next[i] : i \in g[n - 1] \cap Atoms} \ {-1})
        BY <3>2
      <4> QED BY <4>3, <4>4
    <3> QED BY <3>1, <3>2
  <2>2. g = [n \in 0 .. NBlock |-> g[n]] /\ Body(g) = [n \in 0 .. NBlock |-> Body(g)[n]]
    BY <1>4
  <2> HIDE DEF Body
  <2> QED BY <2>1, <2>2
<1>6. Walk(l) = CHOOSE f : f = Body(f)
  BY Zenon DEF Walk
<1> DEFINE W == Walk(l)
<1> HIDE DEF Body
<1>7. W = Body(W)
  BY <1>5, <1>6, Zenon
<1> HIDE DEF W
<1>8. W[0] = {aiFreelist[l]} \ {-1}
  <2>1. 0 \in 0 .. NBlock
    BY <1>3
  <2> QED BY <1>7, <2>1 DEF Body
<1>9. ASSUME NEW n \in 1 .. NBlock
      PROVE  W[n] = W[n - 1] \cup ({next[i] : i \in W[n - 1] \cap Atoms} \ {-1})
  <2>1. n \in 0 .. NBlock /\ n # 0
    BY <1>3
  <2>2. Body(W)[n] = W[n - 1] \cup ({next[i] : i \in W[n - 1] \cap Atoms} \ {-1})
    BY <2>1 DEF Body
  <2> QED BY <1>7, <2>2
<1> QED BY <1>8, <1>9 DEF W

\* A list whose members lead to members of smaller rank, and each of which is the head
\* or is led to by another member, is exactly its members: NBlock steps reach them all.
LEMMA ListedExact ==
  ASSUME TypeOK, NEW l \in Logs, NEW S, S \subseteq Atoms, NEW rank \in [Atoms -> Nat],
         aiFreelist[l] # -1 => aiFreelist[l] \in S,
         \A i \in S : next[i] = -1 \/ (next[i] \in S /\ rank[next[i]] < rank[i]),
         \A i \in S : aiFreelist[l] = i \/ \E p \in S : next[p] = i
  PROVE  Listed(l) = S
<1> DEFINE W == Walk(l)
           Above(i) == {j \in S : rank[j] > rank[i]}
<1>1. /\ W[0] = {aiFreelist[l]} \ {-1}
      /\ \A n \in 1 .. NBlock : W[n] = W[n - 1] \cup ({next[i] : i \in W[n - 1] \cap Atoms} \ {-1})
  BY WalkStep
<1>2. Listed(l) = W[NBlock]
  BY ListedIsWalk
<1> HIDE DEF W
<1>3. NBlock \in Nat /\ -1 \notin S
  BY Numbers
<1>4. \A n \in 0 .. NBlock : W[n] \subseteq S
  <2> DEFINE T == {n \in 0 .. NBlock : ~(W[n] \subseteq S)}
  <2>1. ASSUME T # {} PROVE FALSE
    <3>0. T \subseteq Nat
      BY <1>3
    <3>1. PICK n \in T : \A m \in T : n <= m
      <4> HIDE DEF T
      <4> QED BY <2>1, <3>0, Least
    <3>2. n \in 0 .. NBlock /\ ~(W[n] \subseteq S)
      OBVIOUS
    <3>3. n # 0
      BY <1>1, <3>2
    <3>4. n \in 1 .. NBlock /\ n - 1 \in 0 .. NBlock /\ ~(n <= n - 1)
      BY <1>3, <3>2, <3>3
    <3>5. W[n - 1] \subseteq S
      BY <3>1, <3>4
    <3>6. {next[i] : i \in W[n - 1] \cap Atoms} \ {-1} \subseteq S
      BY <3>5
    <3> QED BY <1>1, <3>2, <3>4, <3>5, <3>6
  <2> QED BY <2>1
<1>5. \A i \in S : IsFiniteSet(Above(i)) /\ Cardinality(Above(i)) \in Nat /\ Cardinality(Above(i)) <= NBlock
  <2> SUFFICES ASSUME NEW i \in S
               PROVE  IsFiniteSet(Above(i)) /\ Cardinality(Above(i)) \in Nat /\ Cardinality(Above(i)) <= NBlock
    OBVIOUS
  <2>1. IsFiniteSet(Atoms) /\ Cardinality(Atoms) = NBlock
    <3>1. 0 \in Int /\ NBlock - 1 \in Int
      BY <1>3
    <3>2. IsFiniteSet(0 .. NBlock - 1) /\ Cardinality(0 .. NBlock - 1) = IF 0 > NBlock - 1 THEN 0 ELSE (NBlock - 1) - 0 + 1
      BY <3>1, FS_Interval
    <3> QED BY <1>3, <3>2 DEF Atoms
  <2>2. Above(i) \subseteq Atoms
    OBVIOUS
  <2> QED BY <2>1, <2>2, FS_Subset, FS_CardinalityType
<1>6. \A i, p \in S : rank[i] < rank[p] => Cardinality(Above(p)) < Cardinality(Above(i))
  <2> SUFFICES ASSUME NEW i \in S, NEW p \in S, rank[i] < rank[p]
               PROVE  Cardinality(Above(p)) < Cardinality(Above(i))
    OBVIOUS
  <2>1. Above(p) \subseteq Above(i) /\ p \in Above(i) /\ p \notin Above(p)
    OBVIOUS
  <2>2. Above(p) \subseteq Above(i) /\ Above(p) # Above(i)
    BY <2>1
  <2>3. IsFiniteSet(Above(i))
    BY <1>5
  <2>4. /\ Cardinality(Above(p)) <= Cardinality(Above(i))
        /\ Cardinality(Above(p)) # Cardinality(Above(i))
    BY <2>2, <2>3, FS_Subset
  <2>5. Cardinality(Above(p)) \in Nat /\ Cardinality(Above(i)) \in Nat
    BY <1>5
  <2> QED BY <2>4, <2>5
<1> HIDE DEF Above
<1>7. \A n \in 0 .. NBlock :
        /\ aiFreelist[l] # -1 => aiFreelist[l] \in W[n]
        /\ \A i \in S : Cardinality(Above(i)) <= n => i \in W[n]
  <2> DEFINE OK(n) == /\ aiFreelist[l] # -1 => aiFreelist[l] \in W[n]
                      /\ \A i \in S : Cardinality(Above(i)) <= n => i \in W[n]
             T == {n \in 0 .. NBlock : ~OK(n)}
  <2>1. ASSUME T # {} PROVE FALSE
    <3>0. T \subseteq Nat
      BY <1>3
    <3>1. PICK n \in T : \A m \in T : n <= m
      <4> HIDE DEF T
      <4> QED BY <2>1, <3>0, Least
    <3>2. n \in 0 .. NBlock /\ ~OK(n)
      OBVIOUS
    <3>p. \A i \in S : i = aiFreelist[l] \/ \E p \in S : next[p] = i /\ Cardinality(Above(p)) < Cardinality(Above(i))
      <4> SUFFICES ASSUME NEW i \in S, i # aiFreelist[l]
                   PROVE  \E p \in S : next[p] = i /\ Cardinality(Above(p)) < Cardinality(Above(i))
        OBVIOUS
      <4>1. PICK p \in S : next[p] = i
        OBVIOUS
      <4>2. rank[i] < rank[p]
        BY <1>3, <4>1
      <4> QED BY <1>6, <4>1, <4>2
    <3>3. n # 0
      <4>1. ASSUME n = 0 PROVE OK(0)
        <5>1. \A i \in S : Cardinality(Above(i)) <= 0 => i = aiFreelist[l]
          BY <1>5, <3>p
        <5> QED BY <1>1, <1>3, <5>1
      <4> QED BY <3>2, <4>1
    <3>4. n \in 1 .. NBlock /\ n - 1 \in 0 .. NBlock /\ ~(n <= n - 1)
      BY <1>3, <3>2, <3>3
    <3>5. OK(n - 1)
      BY <3>1, <3>4
    <3>6. W[n - 1] \subseteq W[n]
      BY <1>1, <3>4
    <3>7. ASSUME NEW i \in S, Cardinality(Above(i)) <= n PROVE i \in W[n]
      <4>1. CASE i = aiFreelist[l]
        BY <1>3, <3>5, <3>6, <4>1
      <4>2. CASE i # aiFreelist[l]
        <5>1. PICK p \in S : next[p] = i /\ Cardinality(Above(p)) < Cardinality(Above(i))
          BY <3>p, <4>2
        <5>2. Cardinality(Above(p)) <= n - 1
          BY <1>3, <1>5, <3>2, <3>7, <5>1
        <5>3. p \in W[n - 1] \cap Atoms
          BY <3>5, <5>2
        <5> QED BY <1>1, <1>3, <3>4, <5>1, <5>3
      <4> QED BY <4>1, <4>2
    <3>8. OK(n)
      BY <3>5, <3>6, <3>7
    <3> QED BY <3>2, <3>8
  <2> QED BY <2>1
<1>8. S \subseteq W[NBlock]
  <2>1. NBlock \in 0 .. NBlock
    BY <1>3
  <2> QED BY <1>5, <1>7, <2>1
<1>9. W[NBlock] \subseteq S
  BY <1>3, <1>4
<1> QED BY <1>2, <1>8, <1>9

-----------------------------------------------------------------------------
(***************************************************************************)
(* The inductive invariant                                                 *)
(***************************************************************************)

\* The thread is between the first and the last step of a call under mem_lock.
InHand(t) == pc[t] \in {"split", "merge"}

\* The links of a chunk on a free list are the allocator's.
Linked(i) == next[i] # Garbage

\* There is a block of 2^l atoms at i: on a list, held, or in hand.
Owned(i, l) ==
  \/ Linked(i) /\ logsize[i] = l
  \/ i \in DOMAIN held /\ held[i] = l
  \/ \E t \in Threads : InHand(t) /\ blk[t] = i /\ bin[t] = l
All == {x \in Atoms \X Logs : Owned(x[1], x[2])}

\* Whoever is between two steps of a call holds the lock, and the other way round.
LockInv == \A t \in Threads : InHand(t) <=> mem_lock = t

\* The lists are doubly linked and lead down in rank, so that none runs in a circle.
Chained(rank) ==
  /\ \A i \in Atoms : Linked(i) <=> prev[i] # Garbage
  /\ \A i \in Atoms : Linked(i) =>
       /\ next[i] # -1 => /\ Linked(next[i]) /\ logsize[next[i]] = logsize[i]
                          /\ prev[next[i]] = i /\ rank[next[i]] < rank[i]
       /\ prev[i] # -1 => next[prev[i]] = i
       /\ prev[i] = -1 => aiFreelist[logsize[i]] = i
  /\ \A l \in Logs : aiFreelist[l] # -1 =>
       Linked(aiFreelist[l]) /\ logsize[aiFreelist[l]] = l /\ prev[aiFreelist[l]] = -1
ListInv == \E rank \in [Atoms -> Nat] : Chained(rank)

\* No block is in two places.
PlaceInv ==
  /\ \A i \in DOMAIN held : ~Linked(i)
  /\ \A t \in Threads : InHand(t) => ~Linked(blk[t]) /\ blk[t] \notin DOMAIN held

\* aCtrl at the first atom of every block, and the locals of the calls.
CtrlInv ==
  /\ \A i \in DOMAIN held : ~free[i] /\ logsize[i] = held[i]
  /\ \A i \in Atoms : Linked(i) => free[i]
  /\ \A t \in Threads : pc[t] = "merge" => free[blk[t]] /\ logsize[blk[t]] = bin[t]
  /\ \A t \in Threads : pc[t] = "split" => ask[t] <= MaxRequest /\ Roundup(ask[t]) <= bin[t]
  /\ \A t \in Threads : pc[t] \in {"split", "remalloc"} => ask[t] \in Requests \cup Rounded /\ ask[t] > 0

\* A block under reallocation is held, and by one thread only.
PriorInv ==
  /\ \A t \in Threads : prior[t] # Null => prior[t] \in DOMAIN held
  /\ \A t, u \in Threads : prior[t] # Null /\ prior[t] = prior[u] => t = u
  /\ \A t \in Threads : pc[t] \in {"idle", "merge"} => prior[t] = Null
  /\ \A t \in Threads : pc[t] \in {"remalloc", "refree"} => prior[t] # Null

\* No two buddies are on a list, inside a call either.
BuddyInv ==
  \A i, j \in Atoms : \A l \in Logs :
    l < LogMax /\ i % 2^(l + 1) = 0 /\ j = i + 2^l => 
      ~(Linked(i) /\ Linked(j) /\ logsize[i] = l /\ logsize[j] = l)

MInv == TypeOK /\ LockInv /\ ListInv /\ PlaceInv /\ CtrlInv /\ PriorInv /\ BuddyInv /\ Tiling(All)

-----------------------------------------------------------------------------
(***************************************************************************)
(* memsys5Link and memsys5Unlink                                           *)
(***************************************************************************)

\* Neither -1 nor Garbage is an atom.
LEMMA Marks == -1 \notin Atoms /\ Garbage \notin Atoms /\ Garbage # -1 /\ Null \notin Atoms
<1>1. NBlock \in Nat /\ -1 \in -1 .. NBlock - 1
  BY Numbers
<1> QED BY <1>1, OtherAssumption DEF Atoms

\* memsys5Unlink takes a chunk out of its list and leaves every list a list.
LEMMA UnlinkChain ==
  ASSUME TypeOK, NEW rank \in [Atoms -> Nat], Chained(rank),
         NEW i \in Atoms, NEW l \in Logs, Linked(i), logsize[i] = l, Unlink(i, l),
         \A k \in Atoms : Linked(k) /\ k # i => logsize'[k] = logsize[k]
  PROVE  /\ next' \in [Atoms -> Atoms \cup {-1, Garbage}]
         /\ prev' \in [Atoms -> Atoms \cup {-1, Garbage}]
         /\ aiFreelist' \in [Logs -> Atoms \cup {-1}]
         /\ \A k \in Atoms : Linked(k)' <=> Linked(k) /\ k # i
         /\ Chained(rank)'
<1> DEFINE p == prev[i]
           n == next[i]
<1>1. /\ p \in Atoms \cup {-1} /\ n \in Atoms \cup {-1}
      /\ p # Garbage /\ n # Garbage /\ p # i /\ n # i /\ (p # -1 => p # n)
      /\ p # -1 => Linked(p) /\ next[p] = i /\ logsize[p] = l /\ rank[i] < rank[p]
      /\ n # -1 => Linked(n) /\ prev[n] = i /\ logsize[n] = l /\ rank[n] < rank[i]
      /\ p = -1 => aiFreelist[l] = i
  <2>1. p \in Atoms \cup {-1} /\ n \in Atoms \cup {-1} /\ p # Garbage /\ n # Garbage
    BY Marks DEF TypeOK, Chained, Linked
  <2>2. p # -1 => p \in Atoms /\ next[p] = i
    BY <2>1 DEF Chained
  <2>3. p # -1 => Linked(p)
    BY <2>2, Marks DEF Linked
  <2>4. p # -1 => next[p] # -1
    BY <2>2, Marks
  <2>5. p # -1 => logsize[p] = l /\ rank[i] < rank[p]
    BY <2>2, <2>3, <2>4 DEF Chained
  <2>6. n # -1 => n \in Atoms /\ Linked(n) /\ prev[n] = i /\ logsize[n] = l /\ rank[n] < rank[i]
    BY <2>1 DEF Chained
  <2>7. p = -1 => aiFreelist[l] = i
    BY DEF Chained
  <2>8. p # i /\ n # i /\ (p # -1 => p # n)
    BY <2>2, <2>5, <2>6, Marks
  <2> QED BY <2>1, <2>2, <2>3, <2>5, <2>6, <2>7, <2>8
<1>2. /\ aiFreelist' = [aiFreelist EXCEPT ![l] = IF p < 0 THEN n ELSE @]
      /\ next' = [j \in Atoms |-> IF j = i THEN Garbage ELSE IF j = p THEN n ELSE next[j]]
      /\ prev' = [j \in Atoms |-> IF j = i THEN Garbage ELSE IF j = n THEN p ELSE prev[j]]
  BY DEF Unlink
<1>3. (p < 0 <=> p = -1)
  BY <1>1, Numbers
<1>t. /\ next \in [Atoms -> Atoms \cup {-1, Garbage}] /\ prev \in [Atoms -> Atoms \cup {-1, Garbage}]
      /\ aiFreelist \in [Logs -> Atoms \cup {-1}] /\ logsize \in [Atoms -> Logs]
  BY DEF TypeOK
<1>p. p = prev[i] /\ n = next[i]
  OBVIOUS
<1> HIDE DEF p, n
<1>4. /\ next' \in [Atoms -> Atoms \cup {-1, Garbage}]
      /\ prev' \in [Atoms -> Atoms \cup {-1, Garbage}]
      /\ aiFreelist' \in [Logs -> Atoms \cup {-1}]
  BY <1>1, <1>2, <1>t
<1>5. \A k \in Atoms : /\ next'[k] = IF k = i THEN Garbage ELSE IF k = p THEN n ELSE next[k]
                       /\ prev'[k] = IF k = i THEN Garbage ELSE IF k = n THEN p ELSE prev[k]
  BY <1>2
<1>m. \A k \in Atoms : (k = p => p # -1) /\ (k = n => n # -1)
  BY Marks
<1>6. \A k \in Atoms : Linked(k)' <=> Linked(k) /\ k # i
  BY <1>1, <1>5, <1>m DEF Linked
<1>7. \A k \in Logs : aiFreelist'[k] = IF k = l /\ p = -1 THEN n ELSE aiFreelist[k]
  BY <1>2, <1>3, <1>t
<1>8. \A k \in Atoms : Linked(k)' <=> prev'[k] # Garbage
  <2>1. \A k \in Atoms : Linked(k) <=> prev[k] # Garbage
    BY DEF Chained
  <2> QED BY <1>1, <1>5, <1>6, <1>m, <2>1
<1>9. ASSUME NEW k \in Atoms, Linked(k)'
      PROVE  /\ next'[k] # -1 => /\ Linked(next[k])' /\ logsize'[next'[k]] = logsize'[k]
                                 /\ prev'[next'[k]] = k /\ rank[next'[k]] < rank[k]
             /\ prev'[k] # -1 => next'[prev'[k]] = k
             /\ prev'[k] = -1 => aiFreelist'[logsize'[k]] = k
  <2>1. Linked(k) /\ k # i /\ logsize'[k] = logsize[k] /\ logsize[k] \in Logs
    BY <1>6, <1>9, <1>t
  <2>2. /\ next[k] # -1 => /\ next[k] \in Atoms /\ Linked(next[k]) /\ logsize[next[k]] = logsize[k]
                           /\ prev[next[k]] = k /\ rank[next[k]] < rank[k]
        /\ prev[k] # -1 => prev[k] \in Atoms /\ next[prev[k]] = k
        /\ prev[k] = -1 => aiFreelist[logsize[k]] = k
    BY <1>t, <2>1 DEF Chained, Linked
  <2>3. next'[k] # -1 => /\ Linked(next[k])' /\ logsize'[next'[k]] = logsize'[k]
                         /\ prev'[next'[k]] = k /\ rank[next'[k]] < rank[k]
    <3>1. CASE k = p
      <4>1. next'[k] = n /\ logsize[k] = l
        BY <1>1, <1>5, <1>m, <2>1, <3>1
      <4>2. n # -1 => n \in Atoms /\ next'[n] # Garbage /\ logsize'[n] = l /\ prev'[n] = p /\ rank[n] < rank[p]
        <5>1. n # -1 => n \in Atoms /\ Linked(n) /\ n # i /\ logsize[n] = l
          BY <1>1
        <5>2. n # -1 => next'[n] # Garbage /\ logsize'[n] = l
          BY <1>6, <5>1 DEF Linked
        <5>3. n # -1 => prev'[n] = p
          BY <1>5, <5>1
        <5>4. n # -1 => rank[n] < rank[p]
          <6>1. n # -1 => rank[n] \in Nat /\ rank[i] \in Nat /\ rank[p] \in Nat
            BY <3>1, <5>1
          <6>2. p # -1
            BY <3>1, Marks
          <6> QED BY <1>1, <6>1, <6>2
        <5> QED BY <5>1, <5>2, <5>3, <5>4
      <4> QED BY <2>1, <3>1, <4>1, <4>2 DEF Linked
    <3>2. CASE k # p
      <4>1. next'[k] = next[k]
        BY <1>5, <2>1, <3>2
      <4>2. next[k] # i
        <5>1. ASSUME next[k] = i PROVE FALSE
          <6>1. prev[i] = k
            BY <2>2, <5>1, Marks
          <6> QED BY <1>p, <3>2, <6>1
        <5> QED BY <5>1
      <4>3. next[k] # -1 => next[k] # n
        BY <1>1, <2>1, <2>2
      <4>4. next[k] # -1 => Linked(next[k])' /\ logsize'[next[k]] = logsize[next[k]] /\ prev'[next[k]] = prev[next[k]]
        <5>1. next[k] # -1 => (next[k] \in Atoms /\ Linked(next[k]) /\ next[k] # i /\ next[k] # n)
          BY <2>2, <4>2, <4>3
        <5>2. next[k] # -1 => next'[next[k]] # Garbage
          BY <1>6, <5>1 DEF Linked
        <5>3. next[k] # -1 => logsize'[next[k]] = logsize[next[k]]
          BY <5>1
        <5>4. next[k] # -1 => prev'[next[k]] = prev[next[k]]
          BY <1>5, <5>1
        <5> QED BY <4>1, <5>2, <5>3, <5>4 DEF Linked
      <4> QED BY <2>1, <2>2, <4>1, <4>4
    <3> QED BY <3>1, <3>2
  <2>4. prev'[k] # -1 => next'[prev'[k]] = k
    <3>1. CASE k = n
      <4>1. prev'[k] = p
        BY <1>5, <2>1, <3>1
      <4>2. p # -1 => p \in Atoms /\ p # i /\ next'[p] = n
        BY <1>1, <1>5
      <4> QED BY <3>1, <4>1, <4>2
    <3>2. CASE k # n
      <4>1. prev'[k] = prev[k]
        BY <1>5, <2>1, <3>2
      <4>2. prev[k] # -1 => prev[k] # i /\ prev[k] # p
        BY <1>1, <1>p, <2>1, <2>2, <3>2
      <4> QED BY <1>5, <2>2, <4>1, <4>2
    <3> QED BY <3>1, <3>2
  <2>5. prev'[k] = -1 => aiFreelist'[logsize'[k]] = k
    <3>1. CASE k = n
      BY <1>1, <1>5, <1>7, <1>m, <2>1, <3>1
    <3>2. CASE k # n
      <4>1. prev'[k] = prev[k]
        BY <1>5, <2>1, <3>2
      <4>2. prev[k] = -1 => ~(logsize[k] = l /\ p = -1)
        BY <1>1, <2>1, <2>2
      <4> QED BY <1>7, <2>1, <2>2, <4>1, <4>2
    <3> QED BY <3>1, <3>2
  <2> QED BY <2>3, <2>4, <2>5
<1>10. ASSUME NEW k \in Logs, aiFreelist'[k] # -1
       PROVE  Linked(aiFreelist[k])' /\ logsize'[aiFreelist'[k]] = k /\ prev'[aiFreelist'[k]] = -1
  <2>1. CASE k = l /\ p = -1
    <3>1. aiFreelist'[k] = n
      BY <1>7, <2>1
    <3>2. n # -1 /\ n \in Atoms /\ Linked(n) /\ n # i /\ logsize[n] = l
      BY <1>1, <1>10, <3>1
    <3>3. next'[n] # Garbage /\ logsize'[n] = l /\ prev'[n] = -1
      BY <1>5, <1>6, <2>1, <3>2 DEF Linked
    <3> QED BY <2>1, <3>1, <3>3 DEF Linked
  <2>2. CASE ~(k = l /\ p = -1)
    <3> DEFINE a == aiFreelist[k]
    <3>1. aiFreelist'[k] = a
      BY <1>7, <2>2
    <3>2. a # -1 /\ a \in Atoms /\ Linked(a) /\ logsize[a] = k /\ prev[a] = -1
      BY <1>10, <1>t, <3>1 DEF Chained
    <3> HIDE DEF a
    <3>3. a # i /\ a # n
      <4>1. a # i
        BY <1>p, <2>2, <3>2
      <4>2. a # n
        BY <1>1, <3>2, Marks
      <4> QED BY <4>1, <4>2
    <3>4. next'[a] # Garbage /\ logsize'[a] = k /\ prev'[a] = -1
      BY <1>5, <1>6, <3>2, <3>3 DEF Linked
    <3> QED BY <3>1, <3>4 DEF Linked
  <2> QED BY <2>1, <2>2
<1>11. Chained(rank)'
  BY <1>8, <1>9, <1>10 DEF Chained
<1> QED BY <1>4, <1>6, <1>11

\* memsys5Link puts a chunk at the head of a list, above everything in it.
LEMMA LinkChain ==
  ASSUME TypeOK, NEW rank \in [Atoms -> Nat], Chained(rank),
         NEW i \in Atoms, NEW l \in Logs, ~Linked(i), Link(i, l), logsize'[i] = l,
         \A k \in Atoms : Linked(k) => logsize'[k] = logsize[k]
  PROVE  /\ next' \in [Atoms -> Atoms \cup {-1, Garbage}]
         /\ prev' \in [Atoms -> Atoms \cup {-1, Garbage}]
         /\ aiFreelist' \in [Logs -> Atoms \cup {-1}]
         /\ \A k \in Atoms : Linked(k)' <=> Linked(k) \/ k = i
         /\ ListInv'
<1> DEFINE x == aiFreelist[l]
           top == IF x = -1 THEN 0 ELSE rank[x] + 1
<1>t. /\ next \in [Atoms -> Atoms \cup {-1, Garbage}] /\ prev \in [Atoms -> Atoms \cup {-1, Garbage}]
      /\ aiFreelist \in [Logs -> Atoms \cup {-1}] /\ logsize \in [Atoms -> Logs]
  BY DEF TypeOK
<1>1. x \in Atoms \cup {-1} /\ (x # -1 => Linked(x) /\ logsize[x] = l /\ prev[x] = -1) /\ x # i
  BY <1>t, Marks DEF Chained
<1>2. /\ \A k \in Logs : aiFreelist'[k] = IF k = l THEN i ELSE aiFreelist[k]
      /\ \A k \in Atoms : next'[k] = IF k = i THEN x ELSE next[k]
      /\ \A k \in Atoms : prev'[k] = IF k = i THEN -1 ELSE IF k = x THEN i ELSE prev[k]
  BY <1>t DEF Link
<1>3. /\ next' \in [Atoms -> Atoms \cup {-1, Garbage}]
      /\ prev' \in [Atoms -> Atoms \cup {-1, Garbage}]
      /\ aiFreelist' \in [Logs -> Atoms \cup {-1}]
  BY <1>t DEF Link
<1>4. PICK r \in [Atoms -> Nat] : \A k \in Atoms : r[k] = IF k = i THEN top ELSE rank[k]
  <2>1. top \in Nat
    BY <1>1
  <2> HIDE DEF top
  <2> DEFINE s == [rank EXCEPT ![i] = top]
  <2>2. s \in [Atoms -> Nat] /\ \A k \in Atoms : s[k] = IF k = i THEN top ELSE rank[k]
    BY <2>1
  <2> HIDE DEF s
  <2> QED BY <2>2
<1>5. x # -1 => rank[x] < top
  BY <1>1
<1>x. x = aiFreelist[l]
  OBVIOUS
<1> HIDE DEF x, top
<1>6. \A k \in Atoms : Linked(k)' <=> Linked(k) \/ k = i
  BY <1>1, <1>2, Marks DEF Linked
<1>7. \A k \in Atoms : Linked(k)' <=> prev'[k] # Garbage
  <2>1. \A k \in Atoms : Linked(k) <=> prev[k] # Garbage
    BY DEF Chained
  <2>2. i # Garbage /\ -1 # Garbage
    BY Marks
  <2>3. \A k \in Atoms : k = x => Linked(k)
    BY <1>1, Marks
  <2> QED BY <1>2, <1>6, <2>1, <2>2, <2>3
<1>8. ASSUME NEW k \in Atoms, Linked(k)'
      PROVE  /\ next'[k] # -1 => /\ Linked(next[k])' /\ logsize'[next'[k]] = logsize'[k]
                                 /\ prev'[next'[k]] = k /\ r[next'[k]] < r[k]
             /\ prev'[k] # -1 => next'[prev'[k]] = k
             /\ prev'[k] = -1 => aiFreelist'[logsize'[k]] = k
  <2>1. CASE k = i
    <3>1. next'[k] = x /\ prev'[k] = -1
      BY <1>2, <2>1
    <3>2. aiFreelist'[logsize'[k]] = k
      BY <1>2, <2>1
    <3>3. x # -1 => x \in Atoms /\ next'[x] # Garbage /\ logsize'[x] = l /\ prev'[x] = i /\ r[x] < r[i]
      <4>1. x # -1 => x \in Atoms /\ Linked(x) /\ logsize[x] = l
        BY <1>1
      <4>2. x # -1 => next'[x] # Garbage /\ logsize'[x] = l
        BY <1>6, <4>1 DEF Linked
      <4>3. x # -1 => prev'[x] = i
        BY <1>1, <1>2, <4>1
      <4>4. x # -1 => r[x] < r[i]
        BY <1>1, <1>4, <1>5
      <4> QED BY <4>1, <4>2, <4>3, <4>4
    <3> QED BY <2>1, <3>1, <3>2, <3>3 DEF Linked
  <2>2. CASE k # i
    <3>1. Linked(k) /\ logsize'[k] = logsize[k] /\ logsize[k] \in Logs
      BY <1>6, <1>8, <1>t, <2>2
    <3>2. /\ next[k] # -1 => /\ next[k] \in Atoms /\ Linked(next[k]) /\ logsize[next[k]] = logsize[k]
                             /\ prev[next[k]] = k /\ rank[next[k]] < rank[k]
          /\ prev[k] # -1 => prev[k] \in Atoms /\ prev[k] # Garbage /\ next[prev[k]] = k
          /\ prev[k] = -1 => aiFreelist[logsize[k]] = k
      BY <1>t, <3>1 DEF Chained, Linked
    <3>3. next'[k] = next[k]
      BY <1>2, <2>2
    <3>4. next[k] # -1 => next[k] # i /\ next[k] # x
      BY <1>1, <3>2, Marks
    <3>5. next[k] # -1 => /\ next'[next[k]] # Garbage /\ logsize'[next[k]] = logsize'[k]
                          /\ prev'[next[k]] = k /\ r[next[k]] < r[k]
      <4>1. next[k] # -1 => next'[next[k]] # Garbage
        BY <1>6, <3>2 DEF Linked
      <4>2. next[k] # -1 => prev'[next[k]] = k
        BY <1>2, <3>2, <3>4
      <4>3. next[k] # -1 => r[next[k]] < r[k]
        BY <1>4, <2>2, <3>2, <3>4
      <4> QED BY <3>1, <3>2, <4>1, <4>2, <4>3
    <3>6. CASE k = x
      <4>1. prev'[k] = i /\ next'[i] = k
        BY <1>2, <2>2, <3>6
      <4> QED BY <3>3, <3>5, <4>1, Marks DEF Linked
    <3>7. CASE k # x
      <4>1. prev'[k] = prev[k]
        BY <1>2, <2>2, <3>7
      <4>2. prev[k] # -1 => prev[k] # i
        <5>1. prev[k] # -1 => Linked(prev[k])
          BY <3>2, Marks DEF Linked
        <5> QED BY <5>1
      <4>3. prev[k] # -1 => next'[prev[k]] = k
        BY <1>2, <3>2, <4>2
      <4>4. prev[k] = -1 => aiFreelist'[logsize'[k]] = k
        BY <1>2, <1>x, <3>1, <3>2, <3>7
      <4> QED BY <3>3, <3>5, <4>1, <4>3, <4>4 DEF Linked
    <3> QED BY <3>6, <3>7
  <2> QED BY <2>1, <2>2
<1>9. ASSUME NEW k \in Logs, aiFreelist'[k] # -1
      PROVE  Linked(aiFreelist[k])' /\ logsize'[aiFreelist'[k]] = k /\ prev'[aiFreelist'[k]] = -1
  <2>1. CASE k = l
    <3>1. aiFreelist'[k] = i /\ next'[i] # Garbage /\ prev'[i] = -1
      BY <1>2, <1>6, <2>1 DEF Linked
    <3> QED BY <2>1, <3>1 DEF Linked
  <2>2. CASE k # l
    <3> DEFINE a == aiFreelist[k]
    <3>1. aiFreelist'[k] = a
      BY <1>2, <2>2
    <3>2. a # -1 /\ a \in Atoms /\ Linked(a) /\ logsize[a] = k /\ prev[a] = -1
      BY <1>9, <1>t, <3>1 DEF Chained
    <3> HIDE DEF a
    <3>3. a # x /\ a # i
      BY <1>1, <2>2, <3>2
    <3>4. next'[a] # Garbage /\ logsize'[a] = k /\ prev'[a] = -1
      BY <1>2, <1>6, <3>2, <3>3 DEF Linked
    <3> QED BY <3>1, <3>4 DEF Linked
  <2> QED BY <2>1, <2>2
<1>10. Chained(r)'
  BY <1>7, <1>8, <1>9 DEF Chained
<1>11. ListInv'
  BY <1>10 DEF ListInv
<1> QED BY <1>3, <1>6, <1>11

-----------------------------------------------------------------------------
(***************************************************************************)
(* The steps of the calls                                                  *)
(***************************************************************************)

\* Requests are numbers of bytes.
LEMMA BytesNat == Requests \cup Rounded \subseteq Nat
<1>1. ASSUME NEW l \in Logs PROVE SzAtom * 2^l \in Nat
  <2> DEFINE P == 2^l
  <2>1. P \in Nat /\ SzAtom \in Nat
    BY Sizes, RequestAssumption
  <2> HIDE DEF P
  <2>2. SzAtom * P \in Nat
    BY <2>1
  <2> QED BY <2>2 DEF P
<1>2. Rounded \subseteq Nat
  BY <1>1 DEF Rounded
<1> QED BY <1>2, RequestAssumption

\* The size of a request that is not refused at once: the least that holds it.
LEMMA RoundupFits ==
  ASSUME NEW n \in Nat, n <= MaxRequest
  PROVE  /\ Roundup(n) \in Logs
         /\ SzAtom * 2^Roundup(n) >= n
         /\ \A k \in 0 .. Roundup(n) - 1 : SzAtom * 2^k < n
<1> DEFINE T == {l \in Logs : SzAtom * 2^l >= n}
           Good(l) == SzAtom * 2^l >= n /\ \A k \in 0 .. l - 1 : SzAtom * 2^k < n
<1>0. SzAtom \in Nat /\ MaxRequest \in Nat /\ LogMax \in Logs /\ \A l \in Logs : SzAtom * 2^l \in Nat
  <2>1. LogMax \in Logs
    <3>1. LogMax \in Nat /\ LogMax <= LogMax
      BY Numbers
    <3> QED BY <3>1, Numbers
  <2>2. ASSUME NEW l \in Logs PROVE SzAtom * 2^l \in Nat
    <3> DEFINE P == 2^l
    <3>1. P \in Nat /\ SzAtom \in Nat
      BY Sizes, RequestAssumption
    <3> HIDE DEF P
    <3>2. SzAtom * P \in Nat
      BY <3>1
    <3> QED BY <3>2 DEF P
  <2> QED BY <2>1, <2>2, RequestAssumption
<1>1. LogMax \in T
  BY <1>0, RequestAssumption
<1>2. T \subseteq Nat
  BY Numbers
<1>3. PICK l \in T : \A k \in T : l <= k
  <2> HIDE DEF T
  <2> QED BY <1>1, <1>2, Least
<1>4. l \in Logs /\ SzAtom * 2^l >= n /\ l \in Nat /\ l <= LogMax
  BY <1>3, Numbers
<1>5. ASSUME NEW k \in 0 .. l - 1 PROVE SzAtom * 2^k < n
  <2>1. k \in Nat /\ k <= LogMax /\ ~(l <= k)
    BY <1>4, Numbers
  <2>2. k \in Logs /\ k \notin T
    BY <1>3, <2>1, Numbers
  <2>3. ~(SzAtom * 2^k >= n) /\ SzAtom * 2^k \in Nat
    BY <1>0, <2>2
  <2> QED BY <2>3
<1>6. \E x \in Logs : Good(x)
  BY <1>4, <1>5
<1>7. Roundup(n) = CHOOSE x \in Logs : Good(x)
  BY Zenon DEF Roundup
<1> HIDE DEF Good
<1>8. Roundup(n) \in Logs /\ Good(Roundup(n))
  BY <1>6, <1>7, Zenon
<1> QED BY <1>8 DEF Good

\* The blocks of the next state tile the pool if they are those of this one.
LEMMA SameTiles ==
  ASSUME Tiling(All), \A i \in Atoms, l \in Logs : Owned(i, l)' <=> Owned(i, l)
  PROVE  Tiling(All)'
<1>1. All' = All
  BY DEF All
<1> QED BY <1>1 DEF Tiling, Aligned, Apart, Covers

\* Priming the blocks primes the tiling.
LEMMA NextTiles == Tiling(All') => Tiling(All)'
BY DEF Tiling, Aligned, Apart, Covers

\* What a set of blocks says of its members.
LEMMA AllOwned ==
  /\ All \subseteq Atoms \X Logs /\ All' \subseteq Atoms \X Logs
  /\ \A i \in Atoms, l \in Logs : (<<i, l>> \in All <=> Owned(i, l)) /\ (<<i, l>> \in All' <=> Owned(i, l)')
BY DEF All

\* Two blocks at one atom are one.
LEMMA OneBlock ==
  ASSUME NEW B, Tiling(B), NEW i \in Atoms, NEW l \in Logs, NEW k \in Logs, <<i, l>> \in B, <<i, k>> \in B
  PROVE  l = k
<1>1. i \in Nat /\ 2^l \in Nat /\ 2^l > 0
  BY Numbers, Sizes
<1>2. i <= i /\ ~(i + 2^l <= i)
  BY <1>1
<1> QED BY <1>2 DEF Tiling, Apart

\* A step that leaves the lists, aCtrl, the blocks that are held and those in hand alone.
LEMMA QuietStep ==
  ASSUME ListInv, PlaceInv, BuddyInv, Tiling(All), UNCHANGED <<ctrlVars, listVars, held>>,
         \A t \in Threads : (InHand(t)' <=> InHand(t)) /\ (InHand(t) => blk'[t] = blk[t] /\ bin'[t] = bin[t])
  PROVE  ListInv' /\ PlaceInv' /\ BuddyInv' /\ Tiling(All)'
<1>1. /\ next' = next /\ prev' = prev /\ aiFreelist' = aiFreelist /\ logsize' = logsize /\ held' = held
  BY DEF ctrlVars, listVars
<1>2. \A i : Linked(i)' <=> Linked(i)
  BY <1>1 DEF Linked
<1>3. ListInv'
  <2>1. PICK rank \in [Atoms -> Nat] : Chained(rank)
    BY DEF ListInv
  <2>2. Chained(rank)'
    BY <1>1, <2>1 DEF Chained, Linked
  <2> QED BY <2>2 DEF ListInv
<1>4. PlaceInv'
  BY <1>1 DEF PlaceInv, Linked
<1>5. BuddyInv'
  BY <1>1 DEF BuddyInv, Linked
<1>6. \A i \in Atoms, l \in Logs : Owned(i, l)' <=> Owned(i, l)
  BY <1>1, <1>2 DEF Owned
<1> QED BY <1>3, <1>4, <1>5, <1>6, SameTiles

\* memsys5MallocUnsafe refuses the request, or takes a chunk off a list.
LEMMA MallocKeeps ==
  ASSUME MInv, NEW t \in Threads, NEW nByte \in Requests \cup Rounded, nByte > 0,
         pc[t] \in {"idle", "remalloc"}, MallocUnsafe(t, nByte)
  PROVE  MInv'
<1>0. /\ TypeOK /\ LockInv /\ ListInv /\ PlaceInv /\ CtrlInv /\ PriorInv /\ BuddyInv /\ Tiling(All)
      /\ mem_lock = NoThread /\ free' = free /\ logsize' = logsize /\ held' = held
  BY DEF MInv, MallocUnsafe, ctrlVars
<1>1. \A u \in Threads : ~InHand(u)
  BY <1>0, OtherAssumption DEF LockInv
<1>n. nByte \in Nat
  BY BytesNat
<1>2. CASE /\ Answer(nByte, Null)
           /\ pc'    = [pc EXCEPT ![t] = "idle"]
           /\ prior' = [prior EXCEPT ![t] = Null]
           /\ Forget(t)
           /\ UNCHANGED <<listVars, mem_lock>>
  <2>1. TypeOK'
    <3>1. 0 \in Atoms /\ 0 \in Logs
      BY PoolAssumption, Numbers
    <3> QED BY <1>0, <1>2, <1>n, <3>1 DEF TypeOK, Answer, Forget, listVars
  <2>2. \A u \in Threads : ~InHand(u)'
    BY <1>0, <1>1, <1>2 DEF InHand, TypeOK
  <2>3. LockInv'
    BY <1>0, <1>2, <2>2, OtherAssumption DEF LockInv
  <2>4. ListInv' /\ PlaceInv' /\ BuddyInv' /\ Tiling(All)'
    BY <1>0, <1>1, <1>2, <2>2, QuietStep DEF ctrlVars
  <2>5. CtrlInv'
    <3>1. next' = next
      BY <1>2 DEF listVars
    <3>2. \A u \in Threads : pc'[u] = "remalloc" => pc[u] = "remalloc" /\ u # t
      BY <1>0, <1>2 DEF TypeOK
    <3>3. \A u \in Threads : u # t => ask'[u] = ask[u]
      BY <1>0, <1>2 DEF TypeOK, Forget
    <3> QED BY <1>0, <2>2, <3>1, <3>2, <3>3 DEF CtrlInv, InHand, Linked
  <2>6. PriorInv'
    BY <1>0, <1>2 DEF PriorInv, TypeOK
  <2> QED BY <2>1, <2>3, <2>4, <2>5, <2>6 DEF MInv
<1>3. CASE /\ nByte <= MaxRequest
           /\ \E b \in Bins(Roundup(nByte)) :
                /\ \A c \in Bins(Roundup(nByte)) : b <= c
                /\ Unlink(aiFreelist[b], b)
                /\ blk' = [blk EXCEPT ![t] = aiFreelist[b]]
                /\ bin' = [bin EXCEPT ![t] = b]
           /\ ask' = [ask EXCEPT ![t] = nByte]
           /\ pc'  = [pc EXCEPT ![t] = "split"]
           /\ mem_lock' = t
           /\ UNCHANGED <<result, prior>>
  <2>1. PICK b \in Bins(Roundup(nByte)) :
          /\ Unlink(aiFreelist[b], b)
          /\ blk' = [blk EXCEPT ![t] = aiFreelist[b]]
          /\ bin' = [bin EXCEPT ![t] = b]
    BY <1>3
  <2>2. Roundup(nByte) \in Logs
    BY <1>3, <1>n, RoundupFits
  <2>3. b \in Logs /\ Roundup(nByte) <= b /\ aiFreelist[b] # -1
    BY <2>1, <2>2, PoolAssumption DEF Bins, Logs
  <2>4. PICK i \in Atoms : i = aiFreelist[b]
    BY <1>0, <2>3 DEF TypeOK
  <2>5. PICK rank \in [Atoms -> Nat] : Chained(rank)
    BY <1>0 DEF ListInv
  <2>6. Linked(i) /\ logsize[i] = b
    BY <2>3, <2>4, <2>5 DEF Chained
  <2>7. /\ next' \in [Atoms -> Atoms \cup {-1, Garbage}]
        /\ prev' \in [Atoms -> Atoms \cup {-1, Garbage}]
        /\ aiFreelist' \in [Logs -> Atoms \cup {-1}]
        /\ \A k \in Atoms : Linked(k)' <=> Linked(k) /\ k # i
        /\ Chained(rank)'
    BY <1>0, <2>1, <2>3, <2>4, <2>5, <2>6, UnlinkChain
  <2>8. /\ blk' = [blk EXCEPT ![t] = i] /\ bin' = [bin EXCEPT ![t] = b]
        /\ ask' = [ask EXCEPT ![t] = nByte] /\ pc' = [pc EXCEPT ![t] = "split"]
        /\ mem_lock' = t /\ result' = result /\ prior' = prior
    BY <1>3, <2>1, <2>4
  <2>9. TypeOK'
    BY <1>0, <1>n, <2>3, <2>7, <2>8 DEF TypeOK
  <2>10. \A u \in Threads : (InHand(u)' <=> u = t) /\ blk'[t] = i /\ bin'[t] = b
    BY <1>0, <1>1, <2>8 DEF TypeOK, InHand
  <2>11. LockInv'
    BY <2>8, <2>10 DEF LockInv
  <2>12. ListInv'
    BY <2>7 DEF ListInv
  <2>13. i \notin DOMAIN held
    BY <1>0, <2>6 DEF PlaceInv
  <2>14. PlaceInv'
    BY <1>0, <2>7, <2>10, <2>13 DEF PlaceInv, TypeOK
  <2>15. CtrlInv'
    <3>1. \A k \in Atoms : Linked(k)' => free'[k]
      BY <1>0, <2>7 DEF CtrlInv
    <3>2. \A k \in DOMAIN held' : ~free'[k] /\ logsize'[k] = held'[k]
      BY <1>0 DEF CtrlInv
    <3>3. \A u \in Threads : pc'[u] # "merge" /\ (pc'[u] = "split" => u = t)
      BY <2>10, <1>1, <1>0, <2>8 DEF InHand, TypeOK
    <3>4. ask'[t] = nByte /\ bin'[t] = b
      BY <1>0, <2>8 DEF TypeOK
    <3>5. \A u \in Threads : pc'[u] = "remalloc" => pc[u] = "remalloc" /\ ask'[u] = ask[u]
      BY <1>0, <2>8 DEF TypeOK
    <3> QED BY <1>0, <1>3, <2>3, <3>1, <3>2, <3>3, <3>4, <3>5 DEF CtrlInv
  <2>16. PriorInv'
    BY <1>0, <2>8 DEF PriorInv, TypeOK
  <2>17. BuddyInv'
    <3>1. \A k \in Atoms : Linked(k)' => Linked(k) /\ logsize'[k] = logsize[k]
      BY <1>0, <2>7
    <3> QED BY <1>0, <3>1 DEF BuddyInv
  <2>18. \A k \in Atoms, l \in Logs : Owned(k, l)' <=> Owned(k, l)
    BY <1>0, <1>1, <2>6, <2>7, <2>10, <2>13 DEF Owned
  <2> QED BY <1>0, <2>9, <2>11, <2>12, <2>14, <2>15, <2>16, <2>17, <2>18, SameTiles DEF MInv
<1> QED BY <1>2, <1>3 DEF MallocUnsafe

\* A block that is in hand is one of the blocks; whoever has it is alone.
LEMMA HandBlock ==
  ASSUME MInv, NEW t \in Threads, InHand(t)
  PROVE  /\ blk[t] \in Atoms /\ bin[t] \in Logs /\ <<blk[t], bin[t]>> \in All
         /\ ~Linked(blk[t]) /\ blk[t] \notin DOMAIN held
         /\ \A u \in Threads : InHand(u) => u = t
<1>1. blk[t] \in Atoms /\ bin[t] \in Logs
  BY DEF MInv, TypeOK
<1>2. <<blk[t], bin[t]>> \in All
  BY <1>1, AllOwned DEF Owned
<1>3. \A u \in Threads : InHand(u) => u = t
  BY DEF MInv, LockInv
<1> QED BY <1>1, <1>2, <1>3 DEF MInv, PlaceInv

\* An iteration of the loop of memsys5MallocUnsafe.
LEMMA SplitKeeps ==
  ASSUME MInv, NEW t \in Threads, Split(t)
  PROVE  MInv'
<1>0. /\ TypeOK /\ LockInv /\ ListInv /\ PlaceInv /\ CtrlInv /\ PriorInv /\ BuddyInv /\ Tiling(All)
      /\ pc[t] = "split"
  BY DEF MInv, Split
<1>1. PICK i \in Atoms : i = blk[t]
  BY <1>0 DEF TypeOK
<1>2. PICK b \in Logs : b = bin[t]
  BY <1>0 DEF TypeOK
<1>3. /\ <<i, b>> \in All /\ ~Linked(i) /\ i \notin DOMAIN held
      /\ \A u \in Threads : InHand(u) <=> u = t
  BY <1>0, <1>1, <1>2, HandBlock DEF InHand
<1>4. b > 0 /\ Roundup(ask[t]) <= b - 1
  <2>1. ask[t] \in Nat /\ ask[t] <= MaxRequest
    BY <1>0 DEF TypeOK, CtrlInv
  <2>2. Roundup(ask[t]) \in Nat /\ b > Roundup(ask[t]) /\ b \in Nat
    BY <1>2, <2>1, RoundupFits, Numbers DEF Split
  <2> QED BY <2>2
<1> DEFINE m == i + 2^(b - 1)
           C == {x \in Atoms \X Logs : \/ <<x[1], x[2]>> \in All /\ x[1] # i
                                       \/ (x[1] = i \/ x[1] = m) /\ x[2] = b - 1}
<1>5. /\ m \in Atoms /\ m # i /\ (\A k \in Logs : <<m, k>> \notin All)
      /\ Tiling(C)
  <2>1. C \subseteq Atoms \X Logs
    OBVIOUS
  <2>2. \A j \in Atoms, k \in Logs :
          <<j, k>> \in C <=> \/ <<j, k>> \in All /\ j # i
                             \/ (j = i \/ j = i + 2^(b - 1)) /\ k = b - 1
    OBVIOUS
  <2> HIDE DEF C
  <2> QED BY <1>0, <1>3, <1>4, <2>1, <2>2, SplitTiles
<1>6. b - 1 \in Logs
  BY <1>4, Sizes
<1>7. /\ free' = [free EXCEPT ![m] = TRUE] /\ logsize' = [logsize EXCEPT ![m] = b - 1]
      /\ Link(m, b - 1) /\ bin' = [bin EXCEPT ![t] = b - 1]
      /\ UNCHANGED <<mem_lock, pc, blk, ask, prior, result, held>>
  BY <1>1, <1>2 DEF Split, SetCtrl, Half
<1>8. ~Linked(m) /\ m \notin DOMAIN held
  <2>1. \A k \in Logs : ~Owned(m, k)
    BY <1>5, AllOwned
  <2>2. logsize[m] \in Logs /\ (m \in DOMAIN held => held[m] \in Logs)
    BY <1>0, <1>5 DEF TypeOK
  <2> QED BY <2>1, <2>2 DEF Owned
<1>m. m = i + 2^(b - 1)
  OBVIOUS
<1>c. \A j \in Atoms, k \in Logs :
          <<j, k>> \in C <=> \/ <<j, k>> \in All /\ j # i
                             \/ (j = i \/ j = m) /\ k = b - 1
  OBVIOUS
<1>d. C \subseteq Atoms \X Logs
  OBVIOUS
<1> HIDE DEF m, C
<1>9. PICK rank \in [Atoms -> Nat] : Chained(rank)
  BY <1>0 DEF ListInv
<1>10. PICK n \in Atoms : n = m
  BY <1>5
<1>11. /\ next' \in [Atoms -> Atoms \cup {-1, Garbage}]
       /\ prev' \in [Atoms -> Atoms \cup {-1, Garbage}]
       /\ aiFreelist' \in [Logs -> Atoms \cup {-1}]
       /\ \A k \in Atoms : Linked(k)' <=> Linked(k) \/ k = n
       /\ ListInv'
  <2>1. ~Linked(n) /\ Link(n, b - 1) /\ logsize'[n] = b - 1
    BY <1>0, <1>7, <1>8, <1>10 DEF TypeOK
  <2>2. \A k \in Atoms : Linked(k) => logsize'[k] = logsize[k]
    BY <1>0, <1>7, <1>8, <1>10 DEF TypeOK
  <2> QED BY <1>0, <1>6, <1>9, <2>1, <2>2, LinkChain
<1>12. TypeOK'
  BY <1>0, <1>6, <1>7, <1>11 DEF TypeOK
<1>13. /\ \A u \in Threads : InHand(u)' <=> u = t
       /\ blk'[t] = i /\ bin'[t] = b - 1
  BY <1>0, <1>1, <1>3, <1>7 DEF InHand, TypeOK
<1>14. LockInv'
  BY <1>0, <1>3, <1>7, <1>13 DEF LockInv
<1>15. PlaceInv'
  BY <1>0, <1>3, <1>5, <1>7, <1>8, <1>10, <1>11, <1>13 DEF PlaceInv, TypeOK
<1>16. CtrlInv'
  <2>1. \A k \in Atoms : (k # n => free'[k] = free[k] /\ logsize'[k] = logsize[k]) /\ free'[n]
    BY <1>0, <1>7, <1>10 DEF TypeOK
  <2>2. \A k \in Atoms : Linked(k)' => free'[k]
    BY <1>0, <1>11, <2>1 DEF CtrlInv
  <2>3. \A k \in DOMAIN held' : ~free'[k] /\ logsize'[k] = held'[k]
    BY <1>0, <1>7, <1>8, <1>10, <2>1 DEF CtrlInv, TypeOK
  <2>4. \A u \in Threads : pc'[u] # "merge" /\ (pc'[u] = "split" => u = t)
    BY <1>0, <1>3, <1>7 DEF InHand
  <2> QED BY <1>0, <1>4, <1>7, <1>13, <2>2, <2>3, <2>4 DEF CtrlInv
<1>17. PriorInv'
  BY <1>0, <1>7 DEF PriorInv
<1>18. BuddyInv'
  <2> SUFFICES ASSUME NEW x \in Atoms, NEW y \in Atoms, NEW l \in Logs,
                      l < LogMax, x % 2^(l + 1) = 0, y = x + 2^l,
                      Linked(x)', Linked(y)', logsize'[x] = l, logsize'[y] = l
               PROVE  FALSE
    BY DEF BuddyInv
  <2>1. \A k \in Atoms : k # n => logsize'[k] = logsize[k]
    BY <1>0, <1>7, <1>10 DEF TypeOK
  <2>2. logsize'[n] = b - 1
    BY <1>0, <1>7, <1>10 DEF TypeOK
  <2>3. l \in Nat /\ 2^l \in Nat /\ 2^l > 0 /\ x \in Nat /\ y \in Nat /\ i \in Nat /\ b \in Nat /\ 2^(l + 1) = 2 * 2^l
    BY Numbers, Sizes
  <2>4. CASE x # n /\ y # n
    <3>1. Linked(x) /\ Linked(y) /\ logsize[x] = l /\ logsize[y] = l
      BY <1>11, <2>1, <2>4
    <3> QED BY <1>0, <3>1 DEF BuddyInv
  <2>5. CASE y = n
    <3>1. l = b - 1
      BY <2>2, <2>5
    <3>2. x + 2^l = i + 2^l
      BY <1>10, <1>m, <2>5, <3>1
    <3>3. x = i
      BY <2>3, <3>2
    <3> QED BY <1>3, <1>5, <1>10, <1>11, <3>3
  <2>6. CASE x = n
    <3>1. l = b - 1 /\ l + 1 = b
      BY <2>2, <2>3, <2>6
    <3>2. i % 2^(l + 1) = 0
      BY <1>0, <1>3, <3>1 DEF Tiling, Aligned
    <3>3. x = i + 2^l
      BY <1>10, <1>m, <2>6, <3>1
    <3> DEFINE Q == 2^(l + 1)
    <3>4. Q \in Nat \ {0} /\ i % Q = 0 /\ x % Q = 0 /\ i < x /\ Q = 2 * 2^l
      BY <2>3, <3>2, <3>3
    <3> HIDE DEF Q
    <3>5. i + Q <= x
      BY <2>3, <3>4, Gap
    <3> QED BY <2>3, <3>3, <3>4, <3>5
  <2> QED BY <2>4, <2>5, <2>6
<1>19. All' = C
  <2>1. \A j \in Atoms, k \in Logs : Owned(j, k)' <=> <<j, k>> \in C
    <3> SUFFICES ASSUME NEW j \in Atoms, NEW k \in Logs
                 PROVE  Owned(j, k)' <=> <<j, k>> \in C
      OBVIOUS
    <3>1. CASE j = i
      <4>1. <<j, k>> \in C <=> k = b - 1
        BY <1>c, <3>1
      <4>2. Owned(j, k)' <=> k = b - 1
        BY <1>3, <1>5, <1>7, <1>10, <1>11, <1>13, <3>1 DEF Owned
      <4> QED BY <4>1, <4>2
    <3>2. CASE j = n
      <4>1. <<j, k>> \in C <=> k = b - 1
        BY <1>5, <1>10, <1>c, <3>2
      <4>2. logsize'[j] = b - 1 /\ Linked(j)'
        BY <1>0, <1>7, <1>10, <1>11, <3>2 DEF TypeOK
      <4>3. Owned(j, k)' <=> k = b - 1
        BY <1>5, <1>7, <1>8, <1>10, <1>13, <3>2, <4>2 DEF Owned
      <4> QED BY <4>1, <4>3
    <3>3. CASE j # i /\ j # n
      <4>1. <<j, k>> \in C <=> Owned(j, k)
        BY <1>10, <1>c, <3>3, AllOwned
      <4>2. logsize'[j] = logsize[j] /\ (Linked(j)' <=> Linked(j))
        BY <1>0, <1>7, <1>10, <1>11, <3>3 DEF TypeOK
      <4>3. Owned(j, k)' <=> Owned(j, k)
        BY <1>1, <1>3, <1>7, <1>13, <3>3, <4>2 DEF Owned
      <4> QED BY <4>1, <4>3
    <3> QED BY <3>1, <3>2, <3>3
  <2>2. All' \subseteq Atoms \X Logs
    BY AllOwned
  <2>3. \A x \in Atoms \X Logs : x = <<x[1], x[2]>> /\ x[1] \in Atoms /\ x[2] \in Logs
    OBVIOUS
  <2>4. \A x \in Atoms \X Logs : x \in All' <=> x \in C
    BY <2>1, <2>3, AllOwned
  <2> QED BY <1>d, <2>2, <2>4
<1>20. Tiling(All)'
  BY <1>5, <1>19, NextTiles
<1> QED BY <1>11, <1>12, <1>14, <1>15, <1>16, <1>17, <1>18, <1>20 DEF MInv

\* memsys5MallocUnsafe hands the block over.
LEMMA DoneKeeps ==
  ASSUME MInv, NEW t \in Threads, MallocDone(t)
  PROVE  MInv'
<1>0. /\ TypeOK /\ LockInv /\ ListInv /\ PlaceInv /\ CtrlInv /\ PriorInv /\ BuddyInv /\ Tiling(All)
      /\ pc[t] = "split"
  BY DEF MInv, MallocDone
<1>1. PICK i \in Atoms : i = blk[t]
  BY <1>0 DEF TypeOK
<1>2. PICK l \in Logs : l = bin[t]
  BY <1>0 DEF TypeOK
<1>3. /\ ~Linked(i) /\ i \notin DOMAIN held
      /\ \A u \in Threads : InHand(u) <=> u = t
  BY <1>0, <1>1, <1>2, HandBlock DEF InHand
<1>4. /\ free' = [free EXCEPT ![i] = FALSE] /\ logsize' = [logsize EXCEPT ![i] = l]
      /\ held' = [j \in DOMAIN held \cup {i} |-> IF j = i THEN l ELSE held[j]]
      /\ pc'   = [pc EXCEPT ![t] = IF prior[t] = Null THEN "idle" ELSE "refree"]
      /\ Answer(ask[t], i) /\ mem_lock' = NoThread /\ Forget(t)
      /\ next' = next /\ prev' = prev /\ aiFreelist' = aiFreelist /\ prior' = prior
  BY <1>1, <1>2 DEF MallocDone, SetCtrl, listVars
<1>5. TypeOK'
  <2>1. 0 \in Atoms /\ 0 \in Logs
    BY PoolAssumption, Numbers
  <2>2. DOMAIN held' \subseteq Atoms /\ \A k \in DOMAIN held' : held'[k] \in Logs
    BY <1>0, <1>4 DEF TypeOK
  <2>3. result' \in [asked : Nat, block : Atoms \cup {Null}]
    BY <1>0, <1>4 DEF Answer, TypeOK
  <2>4. blk' \in [Threads -> Atoms] /\ bin' \in [Threads -> Logs] /\ ask' \in [Threads -> Nat]
    BY <1>0, <1>4, <2>1 DEF Forget, TypeOK
  <2> QED BY <1>0, <1>4, <2>2, <2>3, <2>4 DEF TypeOK
<1>6. \A u \in Threads : ~InHand(u)'
  BY <1>0, <1>3, <1>4 DEF InHand, TypeOK
<1>7. \A k : Linked(k)' <=> Linked(k)
  BY <1>4 DEF Linked
<1>8. \A k \in Atoms : (k # i => free'[k] = free[k] /\ logsize'[k] = logsize[k]) /\ ~free'[i] /\ logsize'[i] = l
  BY <1>0, <1>4 DEF TypeOK
<1>9. /\ DOMAIN held' = DOMAIN held \cup {i} /\ held'[i] = l
      /\ \A k \in DOMAIN held : held'[k] = held[k] /\ k \in Atoms
  BY <1>0, <1>3, <1>4 DEF TypeOK
<1>10. LockInv'
  BY <1>4, <1>6, OtherAssumption DEF LockInv
<1>11. ListInv'
  <2>1. PICK rank \in [Atoms -> Nat] : Chained(rank)
    BY <1>0 DEF ListInv
  <2>2. \A k \in Atoms : Linked(k) => logsize'[k] = logsize[k]
    BY <1>3, <1>8
  <2>3. \A k \in Atoms : Linked(k) /\ next[k] # -1 => next[k] \in Atoms
    BY <1>0 DEF TypeOK, Linked
  <2>4. \A k \in Logs : aiFreelist[k] # -1 => aiFreelist[k] \in Atoms
    BY <1>0 DEF TypeOK
  <2>5. Chained(rank)'
    <3>1. \A k \in Atoms : Linked(k)' <=> prev'[k] # Garbage
      BY <1>4, <1>7, <2>1 DEF Chained
    <3>2. ASSUME NEW k \in Atoms, Linked(k)'
          PROVE  /\ next'[k] # -1 => /\ Linked(next[k])' /\ logsize'[next'[k]] = logsize'[k]
                                     /\ prev'[next'[k]] = k /\ rank[next'[k]] < rank[k]
                 /\ prev'[k] # -1 => next'[prev'[k]] = k
                 /\ prev'[k] = -1 => aiFreelist'[logsize'[k]] = k
      <4>1. Linked(k) /\ logsize'[k] = logsize[k]
        BY <1>7, <2>2, <3>2
      <4>2. next[k] # -1 => next[k] \in Atoms /\ Linked(next[k]) /\ logsize'[next[k]] = logsize[next[k]]
        BY <2>1, <2>2, <2>3, <4>1 DEF Chained
      <4> QED BY <1>4, <2>1, <4>1, <4>2 DEF Chained, Linked
    <3>3. ASSUME NEW k \in Logs, aiFreelist'[k] # -1
          PROVE  Linked(aiFreelist[k])' /\ logsize'[aiFreelist'[k]] = k /\ prev'[aiFreelist'[k]] = -1
      <4>1. aiFreelist[k] \in Atoms /\ Linked(aiFreelist[k]) /\ logsize[aiFreelist[k]] = k /\ prev[aiFreelist[k]] = -1
        BY <1>4, <2>1, <2>4, <3>3 DEF Chained
      <4> QED BY <1>4, <2>2, <4>1 DEF Linked
    <3> QED BY <3>1, <3>2, <3>3 DEF Chained
  <2> QED BY <2>5 DEF ListInv
<1>12. PlaceInv'
  BY <1>0, <1>3, <1>6, <1>7, <1>9 DEF PlaceInv
<1>13. CtrlInv'
  <2>1. \A k \in Atoms : Linked(k)' => free'[k]
    BY <1>0, <1>3, <1>7, <1>8 DEF CtrlInv
  <2>2. \A k \in DOMAIN held' : ~free'[k] /\ logsize'[k] = held'[k]
    BY <1>0, <1>3, <1>8, <1>9 DEF CtrlInv
  <2>3. \A u \in Threads : pc'[u] = "remalloc" => pc[u] = "remalloc" /\ ask'[u] = ask[u]
    BY <1>0, <1>4 DEF Forget, TypeOK
  <2> QED BY <1>0, <1>6, <2>1, <2>2, <2>3 DEF CtrlInv, InHand
<1>14. PriorInv'
  <2>1. \A u \in Threads : u # t => pc'[u] = pc[u]
    BY <1>0, <1>4 DEF TypeOK
  <2>2. pc'[t] = IF prior[t] = Null THEN "idle" ELSE "refree"
    BY <1>0, <1>4 DEF TypeOK
  <2> QED BY <1>0, <1>4, <1>9, <2>1, <2>2 DEF PriorInv
<1>15. BuddyInv'
  <2>1. \A k \in Atoms : Linked(k)' => Linked(k) /\ logsize'[k] = logsize[k]
    BY <1>3, <1>7, <1>8
  <2> QED BY <1>0, <2>1 DEF BuddyInv
<1>16. \A k \in Atoms, n \in Logs : Owned(k, n)' <=> Owned(k, n)
  <2> SUFFICES ASSUME NEW k \in Atoms, NEW n \in Logs
               PROVE  Owned(k, n)' <=> Owned(k, n)
    OBVIOUS
  <2>1. CASE k = i
    <3>1. Owned(k, n) <=> n = l
      BY <1>1, <1>2, <1>3, <2>1 DEF Owned
    <3>2. Owned(k, n)' <=> n = l
      BY <1>3, <1>6, <1>7, <1>9, <2>1 DEF Owned
    <3> QED BY <3>1, <3>2
  <2>2. CASE k # i
    <3>1. Owned(k, n) <=> (Linked(k) /\ logsize[k] = n) \/ (k \in DOMAIN held /\ held[k] = n)
      BY <1>1, <1>3, <2>2 DEF Owned
    <3>2. Owned(k, n)' <=> (Linked(k) /\ logsize[k] = n) \/ (k \in DOMAIN held /\ held[k] = n)
      BY <1>6, <1>7, <1>8, <1>9, <2>2 DEF Owned
    <3> QED BY <3>1, <3>2
  <2> QED BY <2>1, <2>2
<1> QED BY <1>0, <1>5, <1>10, <1>11, <1>12, <1>13, <1>14, <1>15, <1>16, SameTiles DEF MInv

\* memsys5FreeUnsafe marks the block free; the second mark falls inside the block.
LEMMA FreeKeeps ==
  ASSUME MInv, NEW t \in Threads, NEW p \in DOMAIN held, pc[t] \in {"idle", "refree"},
         \A u \in Threads : u # t => prior[u] # p, FreeUnsafe(t, p)
  PROVE  MInv'
<1>0. /\ TypeOK /\ LockInv /\ ListInv /\ PlaceInv /\ CtrlInv /\ PriorInv /\ BuddyInv /\ Tiling(All)
      /\ mem_lock = NoThread
  BY DEF MInv, FreeUnsafe
<1>1. PICK l \in Logs : l = held[p]
  BY <1>0 DEF TypeOK
<1>2. p \in Atoms /\ ~Linked(p) /\ logsize[p] = l
  BY <1>0, <1>1 DEF TypeOK, PlaceInv, CtrlInv
<1>3. \A u \in Threads : ~InHand(u)
  BY <1>0, OtherAssumption DEF LockInv
<1>4. PICK last \in Atoms : last = p + Size(p) - 1 /\ p <= last /\ last < p + 2^l
  <2>1. <<p, l>> \in All
    BY <1>1, <1>2, AllOwned DEF Owned
  <2>2. p + 2^l <= NBlock /\ p \in Nat /\ 2^l \in Nat /\ 2^l > 0 /\ NBlock \in Nat
    BY <1>0, <1>2, <2>1, Numbers, Sizes DEF Tiling, Aligned
  <2>3. Size(p) = 2^l
    BY <1>2 DEF Size
  <2> DEFINE z == p + Size(p) - 1
  <2>4. z \in Nat /\ z < NBlock /\ p <= z /\ z < p + 2^l
    BY <2>2, <2>3
  <2>5. z \in Atoms
    BY <2>4, Numbers
  <2> QED BY <2>4, <2>5
<1>5. /\ mem_lock' = t /\ free' = [free EXCEPT ![p] = TRUE, ![last] = TRUE]
      /\ blk'  = [blk EXCEPT ![t] = p] /\ bin'  = [bin EXCEPT ![t] = l]
      /\ pc'   = [pc EXCEPT ![t] = "merge"]
      /\ held' = [j \in DOMAIN held \ {p} |-> held[j]]
      /\ prior' = [prior EXCEPT ![t] = Null]
      /\ logsize' = logsize /\ next' = next /\ prev' = prev /\ aiFreelist' = aiFreelist
      /\ ask' = ask /\ result' = result
  BY <1>2, <1>4 DEF FreeUnsafe, listVars
<1>6. TypeOK'
  BY <1>0, <1>2, <1>5 DEF TypeOK
<1>7. /\ \A u \in Threads : InHand(u)' <=> u = t
      /\ blk'[t] = p /\ bin'[t] = l
  BY <1>0, <1>3, <1>5 DEF InHand, TypeOK
<1>8. \A k : Linked(k)' <=> Linked(k)
  BY <1>5 DEF Linked
<1>9. /\ DOMAIN held' = DOMAIN held \ {p}
      /\ \A k \in DOMAIN held' : held'[k] = held[k] /\ k \in Atoms
  BY <1>0, <1>5 DEF TypeOK
<1>10. /\ free'[p] /\ \A k \in Atoms : (free[k] => free'[k]) /\ (k # p /\ k # last => free'[k] = free[k])
  BY <1>0, <1>2, <1>5 DEF TypeOK
<1>11. LockInv'
  BY <1>5, <1>7 DEF LockInv
<1>12. ListInv'
  <2>1. PICK rank \in [Atoms -> Nat] : Chained(rank)
    BY <1>0 DEF ListInv
  <2>2. Chained(rank)'
    BY <1>5, <2>1 DEF Chained, Linked
  <2> QED BY <2>2 DEF ListInv
<1>13. PlaceInv'
  BY <1>0, <1>2, <1>7, <1>8, <1>9 DEF PlaceInv
<1>14. CtrlInv'
  <2>1. \A k \in Atoms : Linked(k)' => free'[k]
    BY <1>0, <1>8, <1>10 DEF CtrlInv
  <2>2. ASSUME NEW k \in DOMAIN held' PROVE ~free'[k] /\ logsize'[k] = held'[k]
    <3>1. k \in DOMAIN held /\ k # p /\ k \in Atoms /\ held'[k] = held[k]
      BY <1>9
    <3>2. k # last
      <4>1. ASSUME k = last PROVE FALSE
        <5>1. PICK n \in Logs : n = held[k]
          BY <1>0, <3>1 DEF TypeOK
        <5>2. <<p, l>> \in All /\ <<k, n>> \in All
          BY <1>1, <1>2, <3>1, <5>1, AllOwned DEF Owned
        <5>3. p <= k /\ k < p + 2^l
          BY <1>4, <4>1
        <5>4. p + 2^l <= k
          BY <1>0, <1>2, <3>1, <5>2, <5>3 DEF Tiling, Apart
        <5>5. p \in Nat /\ k \in Nat /\ 2^l \in Nat
          BY <1>2, <3>1, Numbers, Sizes
        <5> QED BY <5>3, <5>4, <5>5
      <4> QED BY <4>1
    <3>3. free'[k] = free[k]
      BY <1>10, <3>1, <3>2
    <3> QED BY <1>0, <1>5, <3>1, <3>3 DEF CtrlInv
  <2>3. \A u \in Threads : pc'[u] # "split" /\ (pc'[u] = "merge" => u = t)
    BY <1>0, <1>3, <1>5 DEF InHand, TypeOK
  <2>4. \A u \in Threads : pc'[u] = "remalloc" => pc[u] = "remalloc"
    BY <1>0, <1>5 DEF TypeOK
  <2>5. free'[blk'[t]] /\ logsize'[blk'[t]] = bin'[t]
    BY <1>2, <1>5, <1>7, <1>10
  <2> QED BY <1>0, <1>5, <2>1, <2>2, <2>3, <2>4, <2>5 DEF CtrlInv
<1>15. PriorInv'
  <2>1. \A u \in Threads : u # t => pc'[u] = pc[u] /\ prior'[u] = prior[u]
    BY <1>0, <1>5 DEF TypeOK
  <2>2. pc'[t] = "merge" /\ prior'[t] = Null
    BY <1>0, <1>5 DEF TypeOK
  <2> QED BY <1>0, <1>9, <2>1, <2>2 DEF PriorInv
<1>16. BuddyInv'
  BY <1>0, <1>5, <1>8 DEF BuddyInv
<1>17. \A k \in Atoms, n \in Logs : Owned(k, n)' <=> Owned(k, n)
  <2> SUFFICES ASSUME NEW k \in Atoms, NEW n \in Logs
               PROVE  Owned(k, n)' <=> Owned(k, n)
    OBVIOUS
  <2>1. CASE k = p
    <3>1. Owned(k, n) <=> n = l
      BY <1>1, <1>2, <1>3, <2>1 DEF Owned
    <3>2. Owned(k, n)' <=> n = l
      BY <1>2, <1>7, <1>8, <1>9, <2>1 DEF Owned
    <3> QED BY <3>1, <3>2
  <2>2. CASE k # p
    <3>1. Owned(k, n) <=> (Linked(k) /\ logsize[k] = n) \/ (k \in DOMAIN held /\ held[k] = n)
      BY <1>3 DEF Owned
    <3>2. Owned(k, n)' <=> (Linked(k) /\ logsize[k] = n) \/ (k \in DOMAIN held /\ held[k] = n)
      BY <1>5, <1>7, <1>8, <1>9, <2>2 DEF Owned
    <3> QED BY <3>1, <3>2
  <2> QED BY <2>1, <2>2
<1> QED BY <1>0, <1>6, <1>11, <1>12, <1>13, <1>14, <1>15, <1>16, <1>17, SameTiles DEF MInv

\* Two blocks make up an aligned one: each is the other's buddy.
LEMMA BuddyOf ==
  ASSUME NEW i \in Nat, NEW l \in Nat, i % 2^(l + 1) = 0
  PROVE  Buddy(i, l) = i + 2^l /\ Buddy(i + 2^l, l) = i
<1> DEFINE P == 2^l
           Q == 2^(l + 1)
           q == i \div Q
<1>1. P \in Nat \ {0} /\ Q = 2 * P
  BY Power
<1>2. i % Q = 0
  OBVIOUS
<1>3. /\ Buddy(i, l) = IF (i \div P) % 2 = 1 THEN i - P ELSE i + P
      /\ Buddy(i + P, l) = IF ((i + P) \div P) % 2 = 1 THEN (i + P) - P ELSE (i + P) + P
  BY DEF Buddy
<1> HIDE DEF P, Q
<1>4. q \in Nat /\ i = q * Q
  BY <1>1, <1>2
<1> HIDE DEF q
<1>5. i = (2 * q) * P + 0 /\ i + P = (2 * q + 1) * P + 0
  BY <1>1, <1>4
<1>6. i \div P = 2 * q /\ (i + P) \div P = 2 * q + 1
  <2>1. 0 \in 0 .. P - 1 /\ 2 * q \in Int /\ 2 * q + 1 \in Int
    BY <1>1, <1>4
  <2>2. ((2 * q) * P + 0) \div P = 2 * q /\ ((2 * q + 1) * P + 0) \div P = 2 * q + 1
    BY <1>1, <2>1, Quotient
  <2> QED BY <1>5, <2>2
<1>7. (2 * q) % 2 = 0 /\ (2 * q + 1) % 2 = 1
  BY <1>4
<1>8. Buddy(i, l) = i + P /\ Buddy(i + P, l) = (i + P) - P
  BY <1>3, <1>6, <1>7
<1>9. (i + P) - P = i
  BY <1>1
<1> QED BY <1>8, <1>9 DEF P

\* memsys5FreeUnsafe links what has come of the block.
LEMMA FreeDoneKeeps ==
  ASSUME MInv, NEW t \in Threads, FreeDone(t)
  PROVE  MInv'
<1>0. /\ TypeOK /\ LockInv /\ ListInv /\ PlaceInv /\ CtrlInv /\ PriorInv /\ BuddyInv /\ Tiling(All)
      /\ pc[t] = "merge"
  BY DEF MInv, FreeDone
<1>1. PICK i \in Atoms : i = blk[t]
  BY <1>0 DEF TypeOK
<1>2. PICK l \in Logs : l = bin[t]
  BY <1>0 DEF TypeOK
<1>3. /\ ~Linked(i) /\ i \notin DOMAIN held
      /\ \A u \in Threads : InHand(u) <=> u = t
  BY <1>0, <1>1, <1>2, HandBlock DEF InHand
<1>4. /\ ~Merges(i, l) /\ Link(i, l) /\ pc' = [pc EXCEPT ![t] = "idle"] /\ mem_lock' = NoThread
      /\ Forget(t) /\ free' = free /\ logsize' = logsize /\ prior' = prior /\ result' = result /\ held' = held
  BY <1>1, <1>2 DEF FreeDone, ctrlVars
<1>5. free[i] /\ logsize[i] = l
  BY <1>0, <1>1, <1>2 DEF CtrlInv
<1>6. PICK rank \in [Atoms -> Nat] : Chained(rank)
  BY <1>0 DEF ListInv
<1>7. /\ next' \in [Atoms -> Atoms \cup {-1, Garbage}]
      /\ prev' \in [Atoms -> Atoms \cup {-1, Garbage}]
      /\ aiFreelist' \in [Logs -> Atoms \cup {-1}]
      /\ \A k \in Atoms : Linked(k)' <=> Linked(k) \/ k = i
      /\ ListInv'
  <2>1. logsize'[i] = l /\ \A k \in Atoms : Linked(k) => logsize'[k] = logsize[k]
    BY <1>4, <1>5
  <2> QED BY <1>0, <1>3, <1>4, <1>6, <2>1, LinkChain
<1>8. TypeOK'
  <2>1. 0 \in Atoms /\ 0 \in Logs
    BY PoolAssumption, Numbers
  <2> QED BY <1>0, <1>4, <1>7, <2>1 DEF TypeOK, Forget
<1>9. \A u \in Threads : ~InHand(u)'
  BY <1>0, <1>3, <1>4 DEF InHand, TypeOK
<1>10. LockInv'
  BY <1>4, <1>9, OtherAssumption DEF LockInv
<1>11. PlaceInv'
  BY <1>0, <1>3, <1>4, <1>7, <1>9 DEF PlaceInv, TypeOK
<1>12. CtrlInv'
  <2>1. \A u \in Threads : pc'[u] = "remalloc" => pc[u] = "remalloc" /\ ask'[u] = ask[u]
    BY <1>0, <1>4 DEF Forget, TypeOK
  <2>2. \A k \in Atoms : Linked(k)' => free'[k]
    BY <1>0, <1>4, <1>5, <1>7 DEF CtrlInv
  <2> QED BY <1>0, <1>4, <1>9, <2>1, <2>2 DEF CtrlInv, InHand
<1>13. PriorInv'
  BY <1>0, <1>4 DEF PriorInv, TypeOK
<1>14. BuddyInv'
  <2> SUFFICES ASSUME NEW x \in Atoms, NEW y \in Atoms, NEW n \in Logs,
                      n < LogMax, x % 2^(n + 1) = 0, y = x + 2^n,
                      Linked(x)', Linked(y)', logsize'[x] = n, logsize'[y] = n
               PROVE  FALSE
    BY DEF BuddyInv
  <2>1. x \in Nat /\ y \in Nat /\ n \in Nat /\ x < NBlock /\ y < NBlock
    BY Numbers
  <2>2. Buddy(x, n) = y /\ Buddy(y, n) = x
    BY <2>1, BuddyOf
  <2>3. logsize[x] = n /\ logsize[y] = n
    BY <1>4
  <2>4. CASE x # i /\ y # i
    <3>1. Linked(x) /\ Linked(y)
      BY <1>7, <2>4
    <3> QED BY <1>0, <2>3, <3>1 DEF BuddyInv
  <2>5. ASSUME NEW a \in Atoms, NEW c \in Atoms, a = i, c # i, Linked(c)', Buddy(a, n) = c,
               logsize[a] = n, logsize[c] = n, c < NBlock
        PROVE  FALSE
    <3>1. n = l
      BY <1>5, <2>5
    <3>2. Linked(c) /\ free[c]
      BY <1>0, <1>7, <2>5 DEF CtrlInv
    <3>3. Merges(i, l)
      BY <2>5, <3>1, <3>2 DEF Merges
    <3> QED BY <1>4, <3>3
  <2>6. x # y
    <3>1. 2^n \in Nat /\ 2^n > 0
      BY Sizes
    <3> QED BY <2>1, <3>1
  <2> QED BY <2>1, <2>2, <2>3, <2>4, <2>5, <2>6
<1>15. \A k \in Atoms, n \in Logs : Owned(k, n)' <=> Owned(k, n)
  <2> SUFFICES ASSUME NEW k \in Atoms, NEW n \in Logs
               PROVE  Owned(k, n)' <=> Owned(k, n)
    OBVIOUS
  <2>1. CASE k = i
    <3>1. Owned(k, n) <=> n = l
      BY <1>1, <1>2, <1>3, <2>1 DEF Owned
    <3>2. Owned(k, n)' <=> n = l
      BY <1>3, <1>4, <1>5, <1>7, <1>9, <2>1 DEF Owned
    <3> QED BY <3>1, <3>2
  <2>2. CASE k # i
    <3>1. Owned(k, n) <=> (Linked(k) /\ logsize[k] = n) \/ (k \in DOMAIN held /\ held[k] = n)
      BY <1>1, <1>3, <2>2 DEF Owned
    <3>2. Owned(k, n)' <=> (Linked(k) /\ logsize[k] = n) \/ (k \in DOMAIN held /\ held[k] = n)
      BY <1>4, <1>7, <1>9, <2>2 DEF Owned
    <3> QED BY <3>1, <3>2
  <2> QED BY <2>1, <2>2
<1> QED BY <1>0, <1>7, <1>8, <1>10, <1>11, <1>12, <1>13, <1>14, <1>15, SameTiles DEF MInv

\* The smaller and the larger of two numbers.
LEMMA MinMax ==
  ASSUME NEW a \in Nat, NEW b \in Nat, a < b
  PROVE  /\ Min({a, b}) = a /\ Max({a, b}) = b
         /\ Min({b, a}) = a /\ Max({b, a}) = b
<1>1. {a, b} = {b, a}
  OBVIOUS
<1>2. a \in {a, b} /\ b \in {a, b} /\ \A y \in {a, b} : a <= y /\ b >= y
  OBVIOUS
<1>3. \A x \in {a, b} : (\A y \in {a, b} : x <= y) => x = a
  OBVIOUS
<1>4. \A x \in {a, b} : (\A y \in {a, b} : x >= y) => x = b
  OBVIOUS
<1>5. Min({a, b}) = a
  BY <1>2, <1>3 DEF Min
<1>6. Max({a, b}) = b
  BY <1>2, <1>4 DEF Max
<1> QED BY <1>1, <1>5, <1>6

\* An iteration of the loop of memsys5FreeUnsafe: what aCtrl says of the buddy is not
\* stale, so that the buddy is on the list that it is taken off.
LEMMA MergeKeeps ==
  ASSUME MInv, NEW t \in Threads, Merge(t)
  PROVE  MInv'
<1>0. /\ TypeOK /\ LockInv /\ ListInv /\ PlaceInv /\ CtrlInv /\ PriorInv /\ BuddyInv /\ Tiling(All)
      /\ pc[t] = "merge"
  BY DEF MInv, Merge
<1>1. PICK i \in Atoms : i = blk[t]
  BY <1>0 DEF TypeOK
<1>2. PICK l \in Logs : l = bin[t]
  BY <1>0 DEF TypeOK
<1>3. /\ <<i, l>> \in All /\ ~Linked(i) /\ i \notin DOMAIN held
      /\ \A u \in Threads : InHand(u) <=> u = t
  BY <1>0, <1>1, <1>2, HandBlock DEF InHand
<1>4. i % 2^l = 0 /\ i \in Nat /\ l \in Nat /\ 2^l \in Nat /\ 2^l > 0
  BY <1>0, <1>3, Numbers, Sizes DEF Tiling, Aligned
<1>5. /\ Merges(i, l) /\ l < LogMax
      /\ Buddy(i, l) < NBlock /\ free[Buddy(i, l)] /\ logsize[Buddy(i, l)] = l
  BY <1>1, <1>2 DEF Merge, Merges
<1>6. PICK j \in Atoms : j = Buddy(i, l)
  <2>1. Buddy(i, l) \in Nat
    BY <1>4, Buddies
  <2> QED BY <1>5, <2>1, Numbers
<1>7. \/ j = i + 2^l /\ i % 2^(l + 1) = 0
      \/ i = j + 2^l /\ j % 2^(l + 1) = 0
  BY <1>4, <1>6, Buddies
<1>8. PICK lo \in Atoms, hi \in Atoms :
        /\ {lo, hi} = {i, j} /\ lo = Min({i, j}) /\ hi = Max({i, j})
        /\ hi = lo + 2^l /\ lo % 2^(l + 1) = 0 /\ lo # hi
        /\ (i = lo /\ j = hi) \/ (i = hi /\ j = lo)
  <2>0. j \in Nat
    BY Numbers
  <2>1. CASE j = i + 2^l /\ i % 2^(l + 1) = 0
    <3>1. i < j
      BY <1>4, <2>0, <2>1
    <3>2. i = Min({i, j}) /\ j = Max({i, j}) /\ i # j
      BY <1>4, <2>0, <3>1, MinMax
    <3> QED BY <2>1, <3>2
  <2>2. CASE i = j + 2^l /\ j % 2^(l + 1) = 0
    <3>1. j < i
      BY <1>4, <2>0, <2>2
    <3>a. Min({i, j}) = j /\ Max({i, j}) = i
      BY <1>4, <2>0, <3>1, MinMax, Zenon
    <3>2. j = Min({i, j}) /\ i = Max({i, j}) /\ i # j
      BY <1>4, <2>0, <3>1, <3>a
    <3> QED BY <2>2, <3>2
  <2> QED BY <1>7, <2>1, <2>2
<1>9. Linked(j) /\ logsize[j] = l /\ free[j] /\ j \notin DOMAIN held /\ <<j, l>> \in All
  <2>1. logsize[j] = l /\ free[j]
    BY <1>5, <1>6
  <2>2. j \notin DOMAIN held
    BY <1>0, <2>1 DEF CtrlInv
  <2>3. PICK k \in Logs : <<j, k>> \in All
    BY <1>0, <1>3, <1>6, BuddyStarts
  <2>4. Owned(j, k)
    BY <2>3, AllOwned
  <2>5. Linked(j)
    BY <1>1, <1>3, <1>8, <2>2, <2>4 DEF Owned
  <2>6. <<j, l>> \in All
    BY <2>1, <2>5, AllOwned DEF Owned
  <2> QED BY <2>1, <2>2, <2>5, <2>6
<1>10. /\ Unlink(j, l)
       /\ free' = [free EXCEPT ![lo] = TRUE, ![hi] = FALSE]
       /\ logsize' = [logsize EXCEPT ![lo] = l + 1, ![hi] = 0]
       /\ blk' = [blk EXCEPT ![t] = lo] /\ bin' = [bin EXCEPT ![t] = l + 1]
       /\ mem_lock' = mem_lock /\ pc' = pc /\ ask' = ask /\ prior' = prior
       /\ result' = result /\ held' = held
  BY <1>1, <1>2, <1>6, <1>8 DEF Merge
<1>11. l + 1 \in Logs /\ 0 \in Logs
  <2>1. l + 1 \in Nat /\ l + 1 <= LogMax /\ 0 <= LogMax
    BY <1>4, <1>5, Numbers
  <2> QED BY <2>1, Numbers
<1>12. /\ \A k \in Atoms : k # i /\ k # j => free'[k] = free[k] /\ logsize'[k] = logsize[k]
       /\ free'[lo] /\ logsize'[lo] = l + 1
  <2>1. \A k \in Atoms : k # lo /\ k # hi => free'[k] = free[k] /\ logsize'[k] = logsize[k]
    BY <1>0, <1>10 DEF TypeOK
  <2>2. free'[lo] /\ logsize'[lo] = l + 1
    BY <1>0, <1>8, <1>10 DEF TypeOK
  <2> QED BY <1>8, <2>1, <2>2
<1>13. PICK rank \in [Atoms -> Nat] : Chained(rank)
  BY <1>0 DEF ListInv
<1>14. /\ next' \in [Atoms -> Atoms \cup {-1, Garbage}]
       /\ prev' \in [Atoms -> Atoms \cup {-1, Garbage}]
       /\ aiFreelist' \in [Logs -> Atoms \cup {-1}]
       /\ \A k \in Atoms : Linked(k)' <=> Linked(k) /\ k # j
       /\ Chained(rank)'
  <2>1. \A k \in Atoms : Linked(k) /\ k # j => logsize'[k] = logsize[k]
    BY <1>3, <1>12
  <2> QED BY <1>0, <1>9, <1>10, <1>13, <2>1, UnlinkChain
<1>15. TypeOK'
  BY <1>0, <1>10, <1>11, <1>14 DEF TypeOK
<1>16. /\ \A u \in Threads : InHand(u)' <=> u = t
       /\ blk'[t] = lo /\ bin'[t] = l + 1
  BY <1>0, <1>3, <1>10 DEF InHand, TypeOK
<1>17. LockInv'
  BY <1>0, <1>3, <1>10, <1>16 DEF LockInv
<1>18. ListInv'
  BY <1>14 DEF ListInv
<1>19. PlaceInv'
  <2>1. ~Linked(lo)' /\ lo \notin DOMAIN held
    BY <1>3, <1>8, <1>9, <1>14
  <2> QED BY <1>0, <1>10, <1>14, <1>16, <2>1 DEF PlaceInv, TypeOK
<1>20. CtrlInv'
  <2>1. \A k \in Atoms : Linked(k)' => free'[k]
    BY <1>0, <1>3, <1>12, <1>14 DEF CtrlInv
  <2>2. \A k \in DOMAIN held' : ~free'[k] /\ logsize'[k] = held'[k]
    <3> SUFFICES ASSUME NEW k \in DOMAIN held PROVE ~free'[k] /\ logsize'[k] = held[k]
      BY <1>10
    <3>1. k \in Atoms /\ k # i /\ k # j /\ ~free[k] /\ logsize[k] = held[k]
      BY <1>0, <1>3, <1>9 DEF CtrlInv, TypeOK
    <3> QED BY <1>12, <3>1
  <2>3. \A u \in Threads : pc'[u] # "split" /\ (pc'[u] = "merge" => u = t)
    BY <1>0, <1>3, <1>10 DEF InHand
  <2>4. free'[blk'[t]] /\ logsize'[blk'[t]] = bin'[t]
    BY <1>12, <1>16
  <2>5. \A u \in Threads : pc'[u] \in {"split", "remalloc"} => ask'[u] \in Requests \cup Rounded /\ ask'[u] > 0
    BY <1>0, <1>10 DEF CtrlInv
  <2> QED BY <2>1, <2>2, <2>3, <2>4, <2>5 DEF CtrlInv
<1>21. PriorInv'
  BY <1>0, <1>10 DEF PriorInv
<1>22. BuddyInv'
  <2>1. \A k \in Atoms : Linked(k)' => Linked(k) /\ logsize'[k] = logsize[k]
    BY <1>3, <1>12, <1>14
  <2> QED BY <1>0, <2>1 DEF BuddyInv
<1>23. Tiling(All')
  <2>1. \A x \in Atoms, k \in Logs :
          <<x, k>> \in All' <=> \/ <<x, k>> \in All /\ x # lo /\ x # lo + 2^l
                                \/ x = lo /\ k = l + 1
    <3> SUFFICES ASSUME NEW x \in Atoms, NEW k \in Logs
                 PROVE  Owned(x, k)' <=> \/ Owned(x, k) /\ x # lo /\ x # hi
                                         \/ x = lo /\ k = l + 1
      BY <1>8, AllOwned
    <3>1. CASE x = lo
      <4>1. ~Linked(x)' /\ x \notin DOMAIN held'
        BY <1>3, <1>8, <1>9, <1>10, <1>14, <3>1
      <4>2. Owned(x, k)' <=> k = l + 1
        BY <1>16, <3>1, <4>1 DEF Owned
      <4> QED BY <3>1, <4>2
    <3>2. CASE x = hi
      <4>1. ~Linked(x)' /\ x \notin DOMAIN held'
        BY <1>3, <1>8, <1>9, <1>10, <1>14, <3>2
      <4>2. ~Owned(x, k)'
        BY <1>8, <1>16, <3>2, <4>1 DEF Owned
      <4> QED BY <1>8, <3>2, <4>2
    <3>3. CASE x # lo /\ x # hi
      <4>0. x # i /\ x # j
        BY <1>8, <3>3
      <4>1. Owned(x, k) <=> (Linked(x) /\ logsize[x] = k) \/ (x \in DOMAIN held /\ held[x] = k)
        BY <1>1, <1>3, <4>0 DEF Owned
      <4>2. Owned(x, k)' <=> (Linked(x) /\ logsize[x] = k) \/ (x \in DOMAIN held /\ held[x] = k)
        BY <1>10, <1>12, <1>14, <1>16, <3>3, <4>0 DEF Owned
      <4> QED BY <3>3, <4>1, <4>2
    <3> QED BY <3>1, <3>2, <3>3
  <2>2. <<lo, l>> \in All /\ <<lo + 2^l, l>> \in All /\ lo + 2^l \in Atoms
    BY <1>3, <1>8, <1>9
  <2> DEFINE C == All'
  <2>3. C \subseteq Atoms \X Logs
    BY AllOwned
  <2>4. \A x \in Atoms, k \in Logs :
          <<x, k>> \in C <=> \/ <<x, k>> \in All /\ x # lo /\ x # lo + 2^l
                             \/ x = lo /\ k = l + 1
    BY <2>1
  <2>5. lo % 2^(l + 1) = 0 /\ l < LogMax
    BY <1>5, <1>8
  <2> HIDE DEF C
  <2>6. Tiling(C)
    <3> DEFINE B == All
    <3>1. Tiling(B)
      BY <1>0
    <3>2. <<lo, l>> \in B /\ <<lo + 2^l, l>> \in B /\ lo + 2^l \in Atoms
      BY <2>2
    <3>3. Merged(B, C, lo, l)
      BY <2>4 DEF Merged
    <3> HIDE DEF B
    <3> QED BY <2>3, <2>5, <3>1, <3>2, <3>3, MergeTiles
  <2> QED BY <2>6 DEF C
<1>24. Tiling(All)'
  BY <1>23, NextTiles
<1> QED BY <1>15, <1>17, <1>18, <1>19, <1>20, <1>21, <1>22, <1>24 DEF MInv

\* memsys5Realloc answers, or goes on to allocate.
LEMMA ReallocKeeps ==
  ASSUME MInv, NEW t \in Threads, NEW p \in DOMAIN held, NEW nByte \in Rounded, Realloc(t, p, nByte)
  PROVE  MInv'
<1>0. /\ TypeOK /\ LockInv /\ ListInv /\ PlaceInv /\ CtrlInv /\ PriorInv /\ BuddyInv /\ Tiling(All)
      /\ pc[t] = "idle" /\ p \notin {prior[u] : u \in Threads} /\ p \in Atoms /\ p # Null
  BY Marks DEF MInv, Realloc, TypeOK
<1>1. UNCHANGED <<ctrlVars, listVars, mem_lock, blk, bin, held>>
  BY DEF Realloc
<1>n. nByte \in Nat
  BY BytesNat
<1>2. CASE pc' = pc /\ ask' = ask /\ prior' = prior /\ (Answer(0, Null) \/ Answer(nByte, p))
  <2>1. TypeOK'
    BY <1>0, <1>1, <1>2, <1>n DEF TypeOK, Answer, ctrlVars, listVars
  <2>2. ListInv' /\ PlaceInv' /\ BuddyInv' /\ Tiling(All)'
    BY <1>0, <1>1, <1>2, QuietStep DEF InHand
  <2>3. LockInv' /\ CtrlInv' /\ PriorInv'
    BY <1>0, <1>1, <1>2 DEF LockInv, CtrlInv, PriorInv, InHand, Linked, ctrlVars, listVars
  <2> QED BY <2>1, <2>2, <2>3 DEF MInv
<1>3. CASE /\ nByte > SzAtom * Size(p)
           /\ pc'    = [pc EXCEPT ![t] = "remalloc"]
           /\ ask'   = [ask EXCEPT ![t] = nByte]
           /\ prior' = [prior EXCEPT ![t] = p]
           /\ UNCHANGED result
  <2>0. nByte > 0
    <3> DEFINE P == 2^logsize[p]
    <3>1. P \in Nat /\ SzAtom \in Nat
      BY <1>0, Sizes, RequestAssumption DEF TypeOK
    <3>2. nByte > SzAtom * P
      BY <1>3 DEF Size
    <3> HIDE DEF P
    <3>3. SzAtom * P \in Nat
      BY <3>1
    <3> QED BY <1>n, <3>2, <3>3
  <2>1. TypeOK'
    BY <1>0, <1>1, <1>3, <1>n DEF TypeOK, ctrlVars, listVars
  <2>2. \A u \in Threads : (InHand(u)' <=> InHand(u)) /\ (pc'[u] = "merge" <=> pc[u] = "merge") /\ (pc'[u] = "split" <=> pc[u] = "split")
    BY <1>0, <1>3 DEF InHand, TypeOK
  <2>3. ListInv' /\ PlaceInv' /\ BuddyInv' /\ Tiling(All)'
    BY <1>0, <1>1, <2>2, QuietStep
  <2>4. LockInv'
    BY <1>0, <1>1, <2>2 DEF LockInv
  <2>5. CtrlInv'
    <3>1. \A u \in Threads : u # t => ask'[u] = ask[u] /\ pc'[u] = pc[u]
      BY <1>0, <1>3 DEF TypeOK
    <3>2. ask'[t] = nByte /\ pc'[t] = "remalloc"
      BY <1>0, <1>3 DEF TypeOK
    <3> QED BY <1>0, <1>1, <2>0, <2>2, <3>1, <3>2 DEF CtrlInv, Linked, ctrlVars, listVars
  <2>6. PriorInv'
    <3>1. \A u \in Threads : u # t => prior'[u] = prior[u] /\ pc'[u] = pc[u]
      BY <1>0, <1>3 DEF TypeOK
    <3>2. prior'[t] = p /\ pc'[t] = "remalloc" /\ held' = held
      BY <1>0, <1>1, <1>3 DEF TypeOK
    <3> QED BY <1>0, <3>1, <3>2 DEF PriorInv
  <2> QED BY <2>1, <2>3, <2>4, <2>5, <2>6 DEF MInv
<1> QED BY <1>2, <1>3 DEF Realloc

\* memsys5Init leaves a pool that is carved, listed and nobody's.
LEMMA InitHolds == Init => MInv
<1> SUFFICES ASSUME Init PROVE MInv
  OBVIOUS
<1> DEFINE C == {x \in Atoms \X Logs : x[2] \in Carved /\ x[1] = Offset(x[2])}
           At(i) == \E l \in Carved : i = Offset(l)
<1>1. C \subseteq Atoms \X Logs /\ \A j \in Atoms, k \in Logs : <<j, k>> \in C <=> k \in Carved /\ j = Offset(k)
  OBVIOUS
<1>c. C = {x \in Atoms \X Logs : x[2] \in Carved /\ x[1] = Offset(x[2])}
  OBVIOUS
<1> HIDE DEF C
<1>2. /\ Tiling(C)
      /\ \A l \in Carved : l \in Logs /\ Offset(l) \in Atoms
      /\ \A l, k \in Carved : Offset(l) = Offset(k) => l = k
  BY <1>1, InitTiles
<1>3. 0 \in Atoms /\ 0 \in Logs
  BY PoolAssumption, Numbers
<1>4. \A i \in Atoms : At(i) => \E l \in Carved : i = Offset(l) /\ logsize[i] = l
  <2> SUFFICES ASSUME NEW i \in Atoms, At(i)
               PROVE  \E l \in Carved : i = Offset(l) /\ logsize[i] = l
    OBVIOUS
  <2> DEFINE n == CHOOSE l \in Carved : i = Offset(l)
  <2>1. n \in Carved /\ i = Offset(n)
    OBVIOUS
  <2>2. logsize[i] = n
    BY DEF Init
  <2> HIDE DEF n
  <2> QED BY <2>1, <2>2
<1>5. \A i \in Atoms : ~At(i) => logsize[i] = 0
  BY DEF Init
<1>6. /\ \A i \in Atoms : next[i] = IF At(i) THEN -1 ELSE Garbage
      /\ \A i \in Atoms : prev[i] = IF At(i) THEN -1 ELSE Garbage
      /\ \A l \in Logs : aiFreelist[l] = IF l \in Carved THEN Offset(l) ELSE -1
  BY DEF Init, Carved
<1>7. /\ pc = [t \in Threads |-> "idle"] /\ mem_lock = NoThread /\ held = << >> /\ DOMAIN held = {}
      /\ prior = [t \in Threads |-> Null]
  BY DEF Init
<1>8. \A i \in Atoms : At(i) => free[i]
  BY DEF Init
<1>t. TypeOK
  <2>1. free \in [Atoms -> BOOLEAN]
    BY DEF Init
  <2>2. logsize \in [Atoms -> Logs]
    <3>1. \A i \in Atoms : logsize[i] \in Logs
      BY <1>2, <1>3, <1>4, <1>5
    <3>2. logsize = [i \in Atoms |-> logsize[i]]
      BY DEF Init
    <3> QED BY <3>1, <3>2
  <2>3. /\ next \in [Atoms -> Atoms \cup {-1, Garbage}]
        /\ prev \in [Atoms -> Atoms \cup {-1, Garbage}]
    BY DEF Init
  <2>4. aiFreelist \in [Logs -> Atoms \cup {-1}]
    <3>1. \A l \in Logs : aiFreelist[l] \in Atoms \cup {-1}
      BY <1>2, <1>6
    <3>2. aiFreelist = [l \in Logs |-> aiFreelist[l]]
      BY DEF Init
    <3> QED BY <3>1, <3>2
  <2>5. mem_lock \in Threads \cup {NoThread} /\ pc \in [Threads -> {"idle", "split", "merge", "remalloc", "refree"}]
    BY DEF Init
  <2>6. blk \in [Threads -> Atoms] /\ bin \in [Threads -> Logs] /\ ask \in [Threads -> Nat] /\ prior \in [Threads -> Atoms \cup {Null}]
    BY <1>3 DEF Init
  <2>7. result \in [asked : Nat, block : Atoms \cup {Null}]
    BY DEF Init
  <2> QED BY <1>7, <2>1, <2>2, <2>3, <2>4, <2>5, <2>6, <2>7 DEF TypeOK
<1>9. \A i \in Atoms : Linked(i) <=> At(i)
  BY <1>6, Marks DEF Linked
<1>a. \A l \in Carved : At(Offset(l)) /\ logsize[Offset(l)] = l
  BY <1>2, <1>4
<1> HIDE DEF At
<1>10. \A t \in Threads : ~InHand(t) /\ pc[t] = "idle" /\ prior[t] = Null
  BY <1>7 DEF InHand
<1>11. LockInv
  BY <1>7, <1>10, OtherAssumption DEF LockInv
<1>12. ListInv
  <2>1. ASSUME NEW rank \in [Atoms -> Nat] PROVE Chained(rank)
    <3>1. \A i \in Atoms : Linked(i) <=> prev[i] # Garbage
      BY <1>6, <1>9, Marks
    <3>2. \A i \in Atoms : Linked(i) => next[i] = -1 /\ prev[i] = -1
      BY <1>6, <1>9
    <3>3. ASSUME NEW i \in Atoms, Linked(i) PROVE aiFreelist[logsize[i]] = i
      <4>1. PICK l \in Carved : i = Offset(l) /\ logsize[i] = l
        BY <1>4, <1>9, <3>3
      <4> QED BY <1>2, <1>6, <4>1
    <3>4. ASSUME NEW l \in Logs, aiFreelist[l] # -1
          PROVE  Linked(aiFreelist[l]) /\ logsize[aiFreelist[l]] = l /\ prev[aiFreelist[l]] = -1
      <4>1. l \in Carved /\ aiFreelist[l] = Offset(l) /\ Offset(l) \in Atoms
        BY <1>2, <1>6, <3>4
      <4>2. Linked(Offset(l)) /\ logsize[Offset(l)] = l
        BY <1>9, <1>a, <4>1
      <4> QED BY <3>2, <4>1, <4>2
    <3> QED BY <3>1, <3>2, <3>3, <3>4 DEF Chained
  <2>2. [i \in Atoms |-> 0] \in [Atoms -> Nat]
    OBVIOUS
  <2> QED BY <2>1, <2>2 DEF ListInv
<1>13. PlaceInv
  BY <1>7, <1>10 DEF PlaceInv
<1>14. CtrlInv
  BY <1>7, <1>8, <1>9, <1>10 DEF CtrlInv
<1>15. PriorInv
  BY <1>10 DEF PriorInv
<1>16. All = C
  <2>1. \A j \in Atoms, k \in Logs : Owned(j, k) <=> k \in Carved /\ j = Offset(k)
    <3> SUFFICES ASSUME NEW j \in Atoms, NEW k \in Logs
                 PROVE  Owned(j, k) <=> k \in Carved /\ j = Offset(k)
      OBVIOUS
    <3>1. Owned(j, k) <=> Linked(j) /\ logsize[j] = k
      BY <1>7, <1>10 DEF Owned
    <3>2. Linked(j) /\ logsize[j] = k => k \in Carved /\ j = Offset(k)
      BY <1>4, <1>9
    <3>3. k \in Carved /\ j = Offset(k) => Linked(j) /\ logsize[j] = k
      BY <1>9, <1>a
    <3> QED BY <3>1, <3>2, <3>3
  <2> QED BY <1>c, <2>1 DEF All
<1>17. BuddyInv
  <2> SUFFICES ASSUME NEW x \in Atoms, NEW y \in Atoms, NEW l \in Logs, y = x + 2^l,
                      Linked(x), Linked(y), logsize[x] = l, logsize[y] = l
               PROVE  FALSE
    BY DEF BuddyInv
  <2>1. x = Offset(l) /\ y = Offset(l)
    BY <1>4, <1>9
  <2>2. x \in Nat /\ y \in Nat /\ 2^l \in Nat /\ 2^l > 0
    BY Numbers, Sizes
  <2> QED BY <2>1, <2>2
<1> QED BY <1>2, <1>t, <1>11, <1>12, <1>13, <1>14, <1>15, <1>16, <1>17 DEF MInv

\* Every step keeps the invariant.
LEMMA StepKeeps == MInv /\ [Next]_vars => MInv'
<1> SUFFICES ASSUME MInv, [Next]_vars PROVE MInv'
  OBVIOUS
<1>0. TypeOK /\ LockInv /\ ListInv /\ PlaceInv /\ CtrlInv /\ PriorInv /\ BuddyInv /\ Tiling(All)
  BY DEF MInv
<1>q. ASSUME UNCHANGED <<ctrlVars, listVars, mem_lock, threadVars, held>>,
             result' \in [asked : Nat, block : Atoms \cup {Null}]
      PROVE  MInv'
  <2>1. TypeOK'
    BY <1>0, <1>q DEF TypeOK, ctrlVars, listVars, threadVars
  <2>2. ListInv' /\ PlaceInv' /\ BuddyInv' /\ Tiling(All)'
    <3>1. UNCHANGED <<ctrlVars, listVars, held>> /\ pc' = pc /\ blk' = blk /\ bin' = bin
      BY <1>q DEF threadVars
    <3> QED BY <1>0, <3>1, QuietStep DEF InHand
  <2>3. LockInv' /\ CtrlInv' /\ PriorInv'
    BY <1>0, <1>q DEF LockInv, CtrlInv, PriorInv, InHand, Linked, ctrlVars, listVars, threadVars
  <2> QED BY <2>1, <2>2, <2>3 DEF MInv
<1>1. CASE UNCHANGED vars
  <2>1. UNCHANGED <<ctrlVars, listVars, mem_lock, threadVars, held>> /\ result' = result
    BY <1>1 DEF vars
  <2>2. result' \in [asked : Nat, block : Atoms \cup {Null}]
    BY <1>0, <2>1 DEF TypeOK
  <2> QED BY <1>q, <2>1, <2>2
<1>2. ASSUME NEW t \in Threads, NEW nByte \in Requests, Malloc(t, nByte) PROVE MInv'
  <2>0. pc[t] = "idle"
    BY <1>2 DEF Malloc
  <2>1. CASE /\ Answer(0, Null)
             /\ UNCHANGED <<ctrlVars, listVars, mem_lock, threadVars, held>>
    <3>1. result' \in [asked : Nat, block : Atoms \cup {Null}]
      BY <2>1 DEF Answer
    <3> QED BY <1>q, <2>1, <3>1
  <2>2. CASE nByte > 0 /\ MallocUnsafe(t, nByte)
    BY <2>0, <2>2, MallocKeeps
  <2> QED BY <1>2, <2>1, <2>2 DEF Malloc
<1>3. ASSUME NEW t \in Threads, NEW p \in DOMAIN held, Free(t, p) PROVE MInv'
  <2>1. pc[t] = "idle" /\ (\A u \in Threads : prior[u] # p) /\ FreeUnsafe(t, p)
    BY <1>3 DEF Free
  <2> QED BY <2>1, FreeKeeps
<1>4. ASSUME NEW t \in Threads, ReallocMalloc(t) PROVE MInv'
  <2>1. pc[t] = "remalloc" /\ MallocUnsafe(t, ask[t])
    BY <1>4 DEF ReallocMalloc
  <2>2. ask[t] \in Requests \cup Rounded /\ ask[t] > 0
    BY <1>0, <2>1 DEF CtrlInv
  <2> QED BY <2>1, <2>2, MallocKeeps
<1>5. ASSUME NEW t \in Threads, ReallocFree(t) PROVE MInv'
  <2>1. pc[t] = "refree" /\ FreeUnsafe(t, prior[t])
    BY <1>5 DEF ReallocFree
  <2>2. prior[t] \in DOMAIN held /\ \A u \in Threads : u # t => prior[u] # prior[t]
    BY <1>0, <2>1 DEF PriorInv
  <2> QED BY <2>1, <2>2, FreeKeeps
<1> QED BY <1>1, <1>2, <1>3, <1>4, <1>5, SplitKeeps, DoneKeeps, MergeKeeps, FreeDoneKeeps, ReallocKeeps DEF Next

-----------------------------------------------------------------------------
(***************************************************************************)
(* What the allocator is trusted for                                       *)
(***************************************************************************)

\* The inductive invariant holds in every reachable state: at every step of
\* memsys5Malloc, memsys5Free and memsys5Realloc, whatever aCtrl held before.
THEOREM MemInvariant == Spec => []MInv
<1>1. Init => MInv
  BY InitHolds
<1>2. MInv /\ [Next]_vars => MInv'
  BY StepKeeps
<1> QED BY <1>1, <1>2, PTL DEF Spec

\* The type invariant: what memsys5Init sets up and every call keeps, in aCtrl, in the
\* links, in aiFreelist and in the local variables of the calls.
THEOREM MemType == Spec => []TypeOK
<1>1. MInv => TypeOK
  BY DEF MInv
<1> QED BY <1>1, MemInvariant, PTL

\* What a list leads to is what is linked and of its size; an empty list has no member.
LEMMA ListedOn ==
  ASSUME MInv, NEW l \in Logs
  PROVE  /\ Listed(l) = {i \in Atoms : Linked(i) /\ logsize[i] = l}
         /\ aiFreelist[l] = -1 => Listed(l) = {}
<1>0. TypeOK /\ ListInv
  BY DEF MInv
<1> DEFINE S == {i \in Atoms : Linked(i) /\ logsize[i] = l}
<1>1. PICK rank \in [Atoms -> Nat] : Chained(rank)
  BY <1>0 DEF ListInv
<1>2. aiFreelist[l] # -1 => aiFreelist[l] \in S
  BY <1>0, <1>1 DEF Chained, TypeOK
<1>3. ASSUME NEW i \in S PROVE next[i] = -1 \/ (next[i] \in S /\ rank[next[i]] < rank[i])
  <2>1. next[i] \in Atoms \cup {-1}
    BY <1>0 DEF TypeOK, Linked
  <2> QED BY <1>1, <2>1 DEF Chained
<1>4. ASSUME NEW i \in S PROVE aiFreelist[l] = i \/ \E p \in S : next[p] = i
  <2>1. CASE prev[i] = -1
    BY <1>1, <2>1 DEF Chained
  <2>2. CASE prev[i] # -1
    <3>1. prev[i] \in Atoms /\ next[prev[i]] = i
      BY <1>0, <1>1, <2>2 DEF Chained, TypeOK
    <3>2. Linked(prev[i])
      BY <3>1, Marks DEF Linked
    <3>3. logsize[prev[i]] = l
      BY <1>1, <3>1, <3>2, Marks DEF Chained
    <3> QED BY <3>1, <3>2, <3>3
  <2> QED BY <2>1, <2>2
<1>5. S \subseteq Atoms
  OBVIOUS
<1>6. Listed(l) = S
  <2> HIDE DEF S
  <2> QED BY <1>0, <1>2, <1>3, <1>4, <1>5, ListedExact
<1>7. ASSUME aiFreelist[l] = -1 PROVE Listed(l) = {}
  <2> DEFINE W == Walk(l)
             T == {n \in 0 .. NBlock : W[n] # {}}
  <2>1. /\ W[0] = {}
        /\ \A n \in 1 .. NBlock : W[n] = W[n - 1] \cup ({next[i] : i \in W[n - 1] \cap Atoms} \ {-1})
    BY <1>0, <1>7, WalkStep
  <2>2. NBlock \in Nat /\ Listed(l) = W[NBlock]
    BY Numbers, ListedIsWalk
  <2> HIDE DEF W
  <2>3. ASSUME T # {} PROVE FALSE
    <3>0. T \subseteq Nat
      BY <2>2
    <3>1. PICK n \in T : \A m \in T : n <= m
      <4> HIDE DEF T
      <4> QED BY <2>3, <3>0, Least
    <3>2. n \in 0 .. NBlock /\ W[n] # {} /\ n # 0
      BY <2>1, <2>2
    <3>3. n \in 1 .. NBlock /\ n - 1 \in 0 .. NBlock /\ ~(n <= n - 1)
      BY <2>2, <3>2
    <3>4. W[n - 1] = {}
      BY <3>1, <3>3
    <3>5. W[n] = {}
      BY <2>1, <3>3, <3>4
    <3> QED BY <3>2, <3>5
  <2> QED BY <2>2, <2>3
<1> QED BY <1>6, <1>7

\* The blocks of the lists, the callers and the lock's holder.
LEMMA BlocksAll ==
  ASSUME MInv
  PROVE  Blocks = All
<1>0. TypeOK
  BY DEF MInv
<1>1. \A l \in Logs : Listed(l) = {i \in Atoms : Linked(i) /\ logsize[i] = l}
  BY ListedOn
<1> DEFINE A == UNION {{<<i, l>> : i \in Listed(l)} : l \in Logs}
           H == {<<i, held[i]>> : i \in DOMAIN held}
           U == {u \in Threads : pc[u] \in {"split", "merge"}}
           W == {<<blk[t], bin[t]>> : t \in U}
<1>a. \A x : x \in A <=> \E l \in Logs : \E i \in Listed(l) : x = <<i, l>>
  OBVIOUS
<1>h. \A x : x \in H <=> \E i \in DOMAIN held : x = <<i, held[i]>>
  OBVIOUS
<1>w. \A x : x \in W <=> \E t \in Threads : InHand(t) /\ x = <<blk[t], bin[t]>>
  <2>1. \A t : t \in U <=> t \in Threads /\ InHand(t)
    BY DEF InHand
  <2> HIDE DEF U
  <2> QED BY <2>1
<1>b. Blocks = (A \cup H) \cup W
  BY DEF Blocks
<1> HIDE DEF A, H, W
<1>2. ASSUME NEW x \in Blocks PROVE x \in All
  <2>1. ASSUME NEW l \in Logs, NEW i \in Listed(l), x = <<i, l>> PROVE x \in All
    <3>1. i \in Atoms /\ Owned(i, l)
      BY <1>1, <2>1 DEF Owned
    <3> QED BY <2>1, <3>1, AllOwned
  <2>2. ASSUME NEW i \in DOMAIN held, x = <<i, held[i]>> PROVE x \in All
    <3>1. i \in Atoms /\ held[i] \in Logs /\ Owned(i, held[i])
      BY <1>0 DEF Owned, TypeOK
    <3> QED BY <2>2, <3>1, AllOwned
  <2>3. ASSUME NEW t \in Threads, InHand(t), x = <<blk[t], bin[t]>> PROVE x \in All
    BY <2>3, HandBlock
  <2> QED BY <1>2, <1>a, <1>b, <1>h, <1>w, <2>1, <2>2, <2>3
<1>3. ASSUME NEW x \in All PROVE x \in Blocks
  <2>1. PICK i \in Atoms, l \in Logs : x = <<i, l>> /\ Owned(i, l)
    BY DEF All
  <2>2. CASE Linked(i) /\ logsize[i] = l
    <3>1. i \in Listed(l)
      BY <1>1, <2>2
    <3> QED BY <1>a, <1>b, <2>1, <3>1
  <2>3. CASE i \in DOMAIN held /\ held[i] = l
    BY <1>b, <1>h, <2>1, <2>3
  <2>4. CASE \E t \in Threads : InHand(t) /\ blk[t] = i /\ bin[t] = l
    BY <1>b, <1>w, <2>1, <2>4
  <2> QED BY <2>1, <2>2, <2>3, <2>4 DEF Owned
<1> QED BY <1>2, <1>3

\* No atom of the pool is lost or handed out twice: the blocks that memsys5Malloc
\* returned, those on the free lists and those in the hands of a call are disjoint
\* and cover it.
THEOREM MemPartitioned == Spec => []PoolPartitioned
<1>1. ASSUME MInv PROVE PoolPartitioned
  <2>0. Blocks = All /\ Tiling(All)
    BY <1>1, BlocksAll DEF MInv
  <2>1. ASSUME NEW x \in All, NEW y \in All, x # y
        PROVE  x[1] .. x[1] + 2^x[2] - 1 \cap y[1] .. y[1] + 2^y[2] - 1 = {}
    <3>1. PICK i \in Atoms, l \in Logs : x = <<i, l>>
      BY DEF All
    <3>2. PICK j \in Atoms, k \in Logs : y = <<j, k>>
      BY DEF All
    <3>3. i \in Nat /\ j \in Nat /\ 2^l \in Nat /\ 2^k \in Nat
      BY Numbers, Sizes
    <3>4. i + 2^l <= j \/ j + 2^k <= i
      <4>1. CASE i <= j
        BY <2>0, <2>1, <3>1, <3>2, <4>1 DEF Tiling, Apart
      <4>2. CASE j <= i
        BY <2>0, <2>1, <3>1, <3>2, <4>2 DEF Tiling, Apart
      <4> QED BY <3>3, <4>1, <4>2
    <3>5. i .. i + 2^l - 1 \cap j .. j + 2^k - 1 = {}
      BY <3>3, <3>4
    <3> QED BY <3>1, <3>2, <3>5
  <2>2. ASSUME NEW x \in All PROVE x[1] .. x[1] + 2^x[2] - 1 \subseteq Atoms
    <3>1. PICK i \in Atoms, l \in Logs : x = <<i, l>>
      BY DEF All
    <3>2. i \in Nat /\ 2^l \in Nat /\ i + 2^l <= NBlock /\ NBlock \in Nat
      BY <2>0, <3>1, Numbers, Sizes DEF Tiling, Aligned
    <3>3. i .. i + 2^l - 1 \subseteq Atoms
      BY <3>2 DEF Atoms
    <3> QED BY <3>1, <3>3
  <2>3. ASSUME NEW a \in Atoms PROVE \E x \in All : a \in x[1] .. x[1] + 2^x[2] - 1
    <3>1. PICK i \in Atoms, l \in Logs : <<i, l>> \in All /\ i <= a /\ a < i + 2^l
      BY <2>0 DEF Tiling, Covers
    <3>2. i \in Nat /\ a \in Nat /\ 2^l \in Nat
      BY Numbers, Sizes
    <3>3. a \in i .. i + 2^l - 1
      BY <3>1, <3>2
    <3> QED BY <3>1, <3>3
  <2>4. UNION {x[1] .. x[1] + 2^x[2] - 1 : x \in All} = Atoms
    BY <2>2, <2>3
  <2> QED BY <2>0, <2>1, <2>4 DEF PoolPartitioned
<1> QED BY <1>1, MemInvariant, PTL

\* aCtrl and the links that memsys5Link and memsys5Unlink write tell the truth of
\* every block: its size, whether it is free, and the list it is on.
THEOREM MemControl == Spec => []ControlExact
<1>1. ASSUME MInv PROVE ControlExact
  <2>0. TypeOK /\ CtrlInv /\ ListInv
    BY <1>1 DEF MInv
  <2>1. PICK rank \in [Atoms -> Nat] : Chained(rank)
    BY <2>0 DEF ListInv
  <2>2. ASSUME NEW l \in Logs, NEW i \in Listed(l)
        PROVE  free[i] /\ logsize[i] = l /\ IF prev[i] = -1 THEN aiFreelist[l] = i ELSE next[prev[i]] = i
    <3>1. i \in Atoms /\ Linked(i) /\ logsize[i] = l
      BY <1>1, ListedOn
    <3> QED BY <2>0, <2>1, <3>1 DEF CtrlInv, Chained
  <2> QED BY <2>0, <2>2 DEF ControlExact, CtrlInv
<1> QED BY <1>1, MemInvariant, PTL

\* memsys5Free merges as far as it can: between calls no free block has a free buddy
\* of its own size.
THEOREM MemCoalesced == Spec => []Coalesced
<1>1. ASSUME MInv PROVE Coalesced
  <2> SUFFICES ASSUME NEW l \in 0 .. LogMax - 1, NEW i \in Listed(l), i % 2^(l + 1) = 0, i + 2^l \in Listed(l)
               PROVE  FALSE
    BY DEF Coalesced
  <2>1. l \in Logs /\ l < LogMax
    <3>1. l \in Nat /\ l <= LogMax /\ l < LogMax
      BY Numbers
    <3> QED BY <3>1, Numbers
  <2>2. /\ i \in Atoms /\ Linked(i) /\ logsize[i] = l
        /\ i + 2^l \in Atoms /\ Linked(i + 2^l) /\ logsize[i + 2^l] = l
    BY <1>1, <2>1, ListedOn
  <2> QED BY <1>1, <2>1, <2>2 DEF MInv, BuddyInv
<1> QED BY <1>1, MemInvariant, PTL

-----------------------------------------------------------------------------
(***************************************************************************)
(* The allocator implements the abstract one                               *)
(***************************************************************************)

\* Two blocks that overlap share an atom of both runs.
LEMMA RunsMeet ==
  ASSUME NEW i \in Atoms, NEW l \in Logs, NEW j \in Atoms, NEW k \in Logs
  PROVE  Promise!Run(i, l) \cap Promise!Run(j, k) # {} <=> j < i + 2^l /\ i < j + 2^k
<1> DEFINE P == 2^l
           Q == 2^k
<1>1. i \in Nat /\ j \in Nat /\ P \in Nat /\ P > 0 /\ Q \in Nat /\ Q > 0
  BY Numbers, Sizes
<1>2. Promise!Run(i, l) = i .. i + P - 1 /\ Promise!Run(j, k) = j .. j + Q - 1
  BY DEF Promise!Run
<1> HIDE DEF P, Q
<1>3. ASSUME NEW a \in (i .. i + P - 1) \cap (j .. j + Q - 1) PROVE j < i + P /\ i < j + Q
  BY <1>1
<1>4. ASSUME j < i + P, i < j + Q
      PROVE  \E a : a \in (i .. i + P - 1) \cap (j .. j + Q - 1)
  <2>1. CASE i <= j
    <3>1. j \in (i .. i + P - 1) \cap (j .. j + Q - 1)
      BY <1>1, <1>4, <2>1
    <3> QED BY <3>1
  <2>2. CASE ~(i <= j)
    <3>1. i \in (i .. i + P - 1) \cap (j .. j + Q - 1)
      BY <1>1, <1>4, <2>2
    <3> QED BY <3>1
  <2> QED BY <2>1, <2>2
<1>5. (i .. i + P - 1) \cap (j .. j + Q - 1) # {} <=> j < i + P /\ i < j + Q
  BY <1>3, <1>4
<1> QED BY <1>2, <1>5 DEF P, Q

\* When no list of the size or above has a chunk, no aligned run of the size is free.
LEMMA NoFreeRun ==
  ASSUME MInv, mem_lock = NoThread, NEW l \in Logs, Bins(l) = {}
  PROVE  Promise!FreeRuns(l) = {}
<1>0. TypeOK /\ LockInv /\ PlaceInv /\ BuddyInv /\ Tiling(All)
  BY DEF MInv
<1>1. SUFFICES ASSUME NEW i \in Promise!FreeRuns(l) PROVE FALSE
  OBVIOUS
<1>2. /\ i \in Atoms /\ i % 2^l = 0 /\ i + 2^l <= NBlock
      /\ Promise!Run(i, l) \cap Promise!Taken = {}
  BY DEF Promise!FreeRuns, Atoms
<1>3. \A u \in Threads : ~InHand(u)
  BY <1>0, OtherAssumption DEF LockInv
<1>4. ASSUME NEW j \in Atoms, NEW k \in Logs, <<j, k>> \in All, j < i + 2^l, i < j + 2^k
      PROVE  Linked(j) /\ logsize[j] = k
  <2>1. Owned(j, k)
    BY <1>4, AllOwned
  <2>2. ASSUME j \in DOMAIN held, held[j] = k PROVE FALSE
    <3>1. Promise!Run(j, k) \subseteq Promise!Taken
      BY <2>2 DEF Promise!Taken
    <3>2. Promise!Run(i, l) \cap Promise!Run(j, k) # {}
      BY <1>2, <1>4, RunsMeet
    <3> QED BY <1>2, <3>1, <3>2
  <2> QED BY <1>3, <2>1, <2>2 DEF Owned
<1>5. ASSUME NEW j \in Atoms, NEW k \in Logs, <<j, k>> \in All, j < i + 2^l, i < j + 2^k
      PROVE  k < l
  <2>1. Linked(j) /\ logsize[j] = k
    BY <1>4, <1>5
  <2>2. j \in Listed(k)
    BY <2>1, ListedOn
  <2>3. aiFreelist[k] # -1
    BY <2>2, ListedOn
  <2>4. aiFreelist[k] \in Atoms /\ aiFreelist[k] >= 0
    BY <1>0, <2>3, Numbers DEF TypeOK
  <2>5. k \notin l .. LogMax
    BY <2>4 DEF Bins
  <2> QED BY <2>5, Numbers
<1>6. PICK j \in Atoms, k \in Logs :
        /\ k < l /\ j % 2^(k + 1) = 0 /\ j + 2^k \in Atoms
        /\ <<j, k>> \in All /\ <<j + 2^k, k>> \in All
        /\ i <= j /\ j + 2^k < i + 2^l
  BY <1>0, <1>2, <1>5, RunHasBuddies
<1>7. /\ i \in Nat /\ j \in Nat /\ l \in Nat /\ k \in Nat /\ 2^l \in Nat /\ 2^k \in Nat /\ 2^k > 0
      /\ l <= LogMax /\ LogMax \in Nat
  BY <1>2, <1>6, Numbers, Sizes
<1>8. Linked(j) /\ logsize[j] = k
  <2>1. j < i + 2^l /\ i < j + 2^k
    BY <1>6, <1>7
  <2> QED BY <1>4, <1>6, <2>1
<1>9. Linked(j + 2^k) /\ logsize[j + 2^k] = k
  <2>1. i < (j + 2^k) + 2^k
    BY <1>6, <1>7
  <2> QED BY <1>4, <1>6, <2>1
<1>10. k < LogMax
  BY <1>6, <1>7
<1> QED BY <1>0, <1>6, <1>8, <1>9, <1>10 DEF BuddyInv

\* The block handed over is an aligned run that nobody holds.
LEMMA HandIsFree ==
  ASSUME MInv, NEW t \in Threads, InHand(t)
  PROVE  blk[t] \in Promise!FreeRuns(bin[t])
<1>0. TypeOK /\ Tiling(All)
  BY DEF MInv
<1>1. PICK i \in Atoms : i = blk[t]
  BY <1>0 DEF TypeOK
<1>2. PICK l \in Logs : l = bin[t]
  BY <1>0 DEF TypeOK
<1>3. <<i, l>> \in All /\ i \notin DOMAIN held
  BY <1>1, <1>2, HandBlock
<1>4. i % 2^l = 0 /\ i + 2^l <= NBlock /\ i \in 0 .. NBlock - 1
  BY <1>0, <1>3 DEF Tiling, Aligned, Atoms
<1>5. ASSUME NEW j \in DOMAIN held PROVE Promise!Run(i, l) \cap Promise!Run(j, held[j]) = {}
  <2>1. PICK k \in Logs : k = held[j]
    BY <1>0 DEF TypeOK
  <2>2. j \in Atoms /\ <<j, k>> \in All /\ j # i
    BY <1>0, <1>3, <2>1, AllOwned DEF Owned, TypeOK
  <2>3. i \in Nat /\ j \in Nat /\ 2^l \in Nat /\ 2^k \in Nat
    BY <2>2, Numbers, Sizes
  <2>4. i + 2^l <= j \/ j + 2^k <= i
    <3>1. CASE i <= j
      BY <1>0, <1>3, <2>2, <3>1 DEF Tiling, Apart
    <3>2. CASE j <= i
      BY <1>0, <1>3, <2>2, <3>2 DEF Tiling, Apart
    <3> QED BY <2>3, <3>1, <3>2
  <2>5. ~(j < i + 2^l /\ i < j + 2^k)
    BY <2>3, <2>4
  <2>6. Promise!Run(i, l) \cap Promise!Run(j, k) = {}
    BY <2>2, <2>5, RunsMeet
  <2> QED BY <2>1, <2>6
<1>6. Promise!Run(i, l) \cap Promise!Taken = {}
  <2> SUFFICES ASSUME NEW a \in Promise!Run(i, l), a \in Promise!Taken PROVE FALSE
    OBVIOUS
  <2>1. PICK j \in DOMAIN held : a \in Promise!Run(j, held[j])
    BY DEF Promise!Taken
  <2> QED BY <1>5, <2>1
<1> QED BY <1>1, <1>2, <1>4, <1>6 DEF Promise!FreeRuns

\* The size that a request is rounded up to is the one that fits it.
LEMMA RoundupIsFit ==
  ASSUME NEW n \in Nat, n <= MaxRequest
  PROVE  Roundup(n) \in 0 .. LogMax /\ Promise!Fits(n, Roundup(n))
<1> DEFINE r == Roundup(n)
<1>1. r \in Logs /\ SzAtom * 2^r >= n /\ \A k \in 0 .. r - 1 : SzAtom * 2^k < n
  BY RoundupFits
<1>2. r \in Nat
  BY <1>1, Numbers
<1> HIDE DEF r
<1>3. r # 0 => r - 1 \in 0 .. r - 1
  BY <1>2
<1>4. r \in 0 .. LogMax /\ Promise!Fits(n, r)
  BY <1>1, <1>3 DEF Promise!Fits, Logs
<1> QED BY <1>4 DEF r

\* memsys5MallocUnsafe, seen from outside: nothing, or a refusal that is justified.
LEMMA MallocPromise ==
  ASSUME MInv, NEW t \in Threads, NEW nByte \in Requests \cup Rounded, nByte \in Nat, nByte > 0,
         MallocUnsafe(t, nByte)
  PROVE  Promise!Refuse(nByte) \/ UNCHANGED <<held, result>>
<1>1. held' = held /\ mem_lock = NoThread
  BY DEF MallocUnsafe
<1>2. CASE (nByte > MaxRequest \/ Bins(Roundup(nByte)) = {}) /\ Answer(nByte, Null)
  <2>1. Promise!Answer(nByte, Null)
    BY <1>2 DEF Answer, Promise!Answer
  <2>2. CASE nByte > MaxRequest
    BY <1>1, <2>1, <2>2 DEF Promise!Refuse
  <2>3. CASE ~(nByte > MaxRequest)
    <3>1. nByte <= MaxRequest
      BY <2>3, RequestAssumption
    <3>2. Roundup(nByte) \in 0 .. LogMax /\ Promise!Fits(nByte, Roundup(nByte)) /\ Roundup(nByte) \in Logs
      BY <3>1, RoundupIsFit DEF Logs
    <3>3. Bins(Roundup(nByte)) = {}
      BY <1>2, <2>3
    <3>4. Promise!FreeRuns(Roundup(nByte)) = {}
      BY <1>1, <3>2, <3>3, NoFreeRun
    <3> QED BY <1>1, <2>1, <3>2, <3>4 DEF Promise!Refuse
  <2> QED BY <2>2, <2>3
<1>3. CASE result' = result
  BY <1>1, <1>3
<1> QED BY <1>2, <1>3 DEF MallocUnsafe

\* memsys5Malloc, memsys5Free and memsys5Realloc do what module Allocator promises: a
\* request gets an aligned run of free atoms of the smallest size that holds it, it is
\* refused only when there is none, and a block stays as it is until it is freed.
THEOREM MemImplements == Spec => ImplementsAllocator
<1>1. Init => Promise!Init
  BY DEF Init, Promise!Init
<1>2. ASSUME MInv, [Next]_vars PROVE [Promise!Next]_<<held, result>>
  <2>0. TypeOK /\ CtrlInv /\ PriorInv
    BY <1>2 DEF MInv
  <2>1. CASE UNCHANGED vars
    BY <2>1 DEF vars
  <2>2. ASSUME NEW t \in Threads, NEW nByte \in Requests, Malloc(t, nByte) PROVE [Promise!Next]_<<held, result>>
    <3>1. CASE nByte = 0 /\ Answer(0, Null) /\ UNCHANGED held
      <4>1. Promise!Refuse(nByte)
        BY <3>1 DEF Promise!Refuse, Promise!Answer, Answer
      <4> QED BY <4>1 DEF Promise!Next
    <3>2. CASE nByte > 0 /\ MallocUnsafe(t, nByte)
      <4>1. nByte \in Nat
        BY BytesNat
      <4>2. Promise!Refuse(nByte) \/ UNCHANGED <<held, result>>
        BY <1>2, <3>2, <4>1, MallocPromise
      <4> QED BY <4>2 DEF Promise!Next
    <3> QED BY <2>2, <3>1, <3>2 DEF Malloc
  <2>3. ASSUME NEW t \in Threads, Split(t) \/ Merge(t) \/ FreeDone(t) PROVE UNCHANGED <<held, result>>
    BY <2>3 DEF Split, Merge, FreeDone
  <2>4. ASSUME NEW t \in Threads, MallocDone(t) PROVE Promise!Next
    <3>1. /\ pc[t] = "split" /\ bin[t] = Roundup(ask[t]) /\ Answer(ask[t], blk[t])
          /\ held' = [j \in DOMAIN held \cup {blk[t]} |-> IF j = blk[t] THEN Roundup(ask[t]) ELSE held[j]]
      BY <2>4 DEF MallocDone
    <3>2. ask[t] \in Requests \cup Rounded /\ ask[t] \in Nat /\ ask[t] <= MaxRequest
      BY <2>0, <3>1 DEF CtrlInv, TypeOK
    <3>3. Roundup(ask[t]) \in 0 .. LogMax /\ Promise!Fits(ask[t], Roundup(ask[t]))
      BY <3>2, RoundupIsFit
    <3>4. blk[t] \in Promise!FreeRuns(Roundup(ask[t]))
      <4>1. blk[t] \in Promise!FreeRuns(bin[t])
        BY <1>2, <3>1, HandIsFree DEF InHand
      <4> QED BY <3>1, <4>1
    <3>5. Promise!Answer(ask[t], blk[t])
      BY <3>1 DEF Answer, Promise!Answer
    <3>6. Promise!Allocate(ask[t])
      BY <3>1, <3>3, <3>4, <3>5 DEF Promise!Allocate
    <3> QED BY <3>2, <3>6 DEF Promise!Next
  <2>5. ASSUME NEW t \in Threads, NEW p \in DOMAIN held, FreeUnsafe(t, p) PROVE Promise!Next
    <3>1. Promise!Release(p)
      BY <2>5 DEF FreeUnsafe, Promise!Release
    <3> QED BY <3>1 DEF Promise!Next
  <2>6. ASSUME NEW t \in Threads, NEW p \in DOMAIN held, NEW nByte \in Rounded, Realloc(t, p, nByte)
        PROVE  [Promise!Next]_<<held, result>>
    <3>0. held' = held
      BY <2>6 DEF Realloc
    <3>1. CASE nByte = 0 /\ Answer(0, Null)
      <4>1. Promise!Refuse(nByte)
        BY <3>0, <3>1 DEF Promise!Refuse, Promise!Answer, Answer
      <4> QED BY <4>1 DEF Promise!Next
    <3>2. CASE nByte <= SzAtom * Size(p) /\ Answer(nByte, p)
      <4>1. Size(p) = 2^held[p]
        BY <2>0 DEF CtrlInv, Size
      <4>2. nByte <= SzAtom * 2^held[p]
        BY <3>2, <4>1
      <4>3. Promise!Keep(nByte, p)
        BY <3>0, <3>2, <4>2 DEF Promise!Keep, Promise!Answer, Answer
      <4> QED BY <4>3 DEF Promise!Next
    <3>3. CASE result' = result
      BY <3>0, <3>3
    <3> QED BY <2>6, <3>1, <3>2, <3>3 DEF Realloc
  <2>7. ASSUME NEW t \in Threads, ReallocMalloc(t) PROVE [Promise!Next]_<<held, result>>
    <3>1. pc[t] = "remalloc" /\ MallocUnsafe(t, ask[t])
      BY <2>7 DEF ReallocMalloc
    <3>2. ask[t] \in Requests \cup Rounded /\ ask[t] > 0 /\ ask[t] \in Nat
      BY <2>0, <3>1 DEF CtrlInv, TypeOK
    <3>3. Promise!Refuse(ask[t]) \/ UNCHANGED <<held, result>>
      BY <1>2, <3>1, <3>2, MallocPromise
    <3> QED BY <3>2, <3>3 DEF Promise!Next
  <2>8. ASSUME NEW t \in Threads, ReallocFree(t) PROVE Promise!Next
    <3>1. pc[t] = "refree" /\ FreeUnsafe(t, prior[t])
      BY <2>8 DEF ReallocFree
    <3>2. prior[t] \in DOMAIN held
      BY <2>0, <3>1 DEF PriorInv
    <3> QED BY <2>5, <3>1, <3>2
  <2>9. ASSUME NEW t \in Threads, NEW p \in DOMAIN held, Free(t, p) PROVE Promise!Next
    BY <2>5, <2>9 DEF Free
  <2> QED BY <1>2, <2>1, <2>2, <2>3, <2>4, <2>6, <2>7, <2>8, <2>9 DEF Next
<1> QED BY <1>1, <1>2, MemInvariant, PTL DEF Spec, ImplementsAllocator, Promise!Spec
=============================================================================
