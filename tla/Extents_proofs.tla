---------------------------- MODULE Extents_proofs ----------------------------
(* What the arithmetic of a smart copy does for every drive, block and map: the      *)
(* transfers to and from a drive (Sectors, engine/disk.rs), the merging and           *)
(* normalizing of what a drive uses, the pieces it's read in and the frames they go   *)
(* into (Extents, smart/mod.rs), and the map of an image, which reads back as it was  *)
(* written (engine/image.rs). They rest on induction over the natural numbers, in the *)
(* form of sets without a smallest element: an operator can't be a parameter here.    *)
EXTENDS Extents, Sectors, FiniteSetsExt, SequenceTheorems, NaturalsInduction,
        WellFoundedInduction, TLAPS

(* Induction *)

\* Natural numbers have a smallest one among them.
LEMMA Minimum ==
  ASSUME NEW T, T \subseteq Nat, T # {}
  PROVE  \E x \in T : \A y \in T : x <= y
<1> DEFINE R == {ss \in Nat \X Nat : ss[1] < ss[2]}
<1>0. IsWellFoundedOn(R, Nat)
  BY NatLessThanWellFounded DEF OpToRel
<1> HIDE DEF R
<1>1. \E x \in T : \A y \in T : ~(<<y, x>> \in R)
  BY <1>0, WFMin
<1>2. \A x, y \in Nat : ~(<<y, x>> \in R) => x <= y
  BY DEF R
<1> QED BY <1>1, <1>2

\* Induction, over the numbers from 0 to n that have a property.
LEMMA Induction ==
  ASSUME NEW n \in Nat, NEW T, 0 \in T, \A i \in 1..n : i - 1 \in T => i \in T
  PROVE  \A i \in 0..n : i \in T
<1> SUFFICES ASSUME NEW j \in 0..n, j \notin T
             PROVE  FALSE
  OBVIOUS
<1> DEFINE U == {i \in 0..n : i \notin T}
<1>1. PICK x \in U : \A y \in U : x <= y
  <2>1. U \subseteq Nat /\ j \in U
    OBVIOUS
  <2> HIDE DEF U
  <2> QED BY <2>1, Minimum
<1>2. x \in 1..n
  OBVIOUS
<1>3. x - 1 \in T
  <2>1. x - 1 \in 0..n /\ ~(x <= x - 1)
    BY <1>2
  <2> QED BY <1>1, <2>1
<1> QED BY <1>1, <1>2, <1>3

\* The same, over all of them.
LEMMA InductionOnNat ==
  ASSUME NEW T, 0 \in T, \A i \in Nat \ {0} : i - 1 \in T => i \in T
  PROVE  \A i \in Nat : i \in T
<1> SUFFICES ASSUME NEW i \in Nat
             PROVE  i \in T
  OBVIOUS
<1>1. \A j \in 1..i : j - 1 \in T => j \in T
  OBVIOUS
<1>2. \A j \in 0..i : j \in T
  BY <1>1, Induction
<1> QED BY <1>2

\* A number that's in the property when all smaller ones are.
LEMMA StrongInduction ==
  ASSUME NEW n \in Nat, NEW T, \A i \in 0..n : (\A j \in 0..i - 1 : j \in T) => i \in T
  PROVE  \A i \in 0..n : i \in T
<1> SUFFICES ASSUME NEW j \in 0..n, j \notin T
             PROVE  FALSE
  OBVIOUS
<1> DEFINE U == {i \in 0..n : i \notin T}
<1>1. PICK x \in U : \A y \in U : x <= y
  <2>1. U \subseteq Nat /\ j \in U
    OBVIOUS
  <2> HIDE DEF U
  <2> QED BY <2>1, Minimum
<1>2. x \in 0..n
  OBVIOUS
<1>3. \A y \in 0..x - 1 : y \in T
  <2>1. \A y \in 0..x - 1 : y \in 0..n /\ ~(x <= y)
    BY <1>2
  <2> QED BY <1>1, <2>1
<1> QED BY <1>1, <1>2, <1>3

\* What Max gives.
LEMMA MaxIs ==
  ASSUME NEW n \in Nat, NEW S \in SUBSET (1..n), S # {}
  PROVE  Max(S) \in S /\ \A y \in S : y <= Max(S)
<1> DEFINE U == {n - y : y \in S}
<1>1. PICK m \in U : \A u \in U : m <= u
  <2>1. \A y \in S : n - y \in Nat
    OBVIOUS
  <2>2. U \subseteq Nat
    BY <2>1
  <2>3. PICK y \in S : TRUE
    OBVIOUS
  <2>4. n - y \in U
    OBVIOUS
  <2> HIDE DEF U
  <2> QED BY <2>2, <2>4, Minimum
<1>2. PICK x \in S : m = n - x
  OBVIOUS
<1>3. \A y \in S : x >= y
  <2> TAKE y \in S
  <2>1. n - x <= n - y
    <3>1. n - y \in U
      OBVIOUS
    <3> HIDE DEF U
    <3> QED BY <1>1, <1>2, <3>1
  <2>2. x \in 1..n /\ y \in 1..n
    OBVIOUS
  <2> QED BY <2>1, <2>2
<1>4. \A y \in S : Max(S) >= y
  BY <1>3 DEF Max
<1>5. Max(S) \in S
  BY <1>3 DEF Max
<1> QED BY <1>4, <1>5

\* The largest of 1..i is i.
LEMMA MaxOfRange ==
  ASSUME NEW i \in Nat \ {0}
  PROVE  Max(1..i) = i /\ (1..i) \ {Max(1..i)} = 1..i - 1
<1>1. Max(1..i) \in 1..i /\ \A y \in 1..i : y <= Max(1..i)
  <2>1. 1..i \in SUBSET (1..i) /\ 1..i # {}
    OBVIOUS
  <2> QED BY <2>1, MaxIs
<1>2. Max(1..i) = i
  <2>1. i \in 1..i
    OBVIOUS
  <2>2. i <= Max(1..i)
    BY <1>1, <2>1
  <2> QED BY <1>1, <2>2
<1>3. (1..i) \ {i} = 1..i - 1
  OBVIOUS
<1> QED BY <1>2, <1>3

(* Folds *)

\* An operation on A takes what was computed so far and a place in a sequence.
IsOperation(F, A, n) == F \in [A \X (1..n) -> A]

\* What FoldLeft computes of all parts of a sequence.
IsFold(iter, A, n, base, F) ==
  /\ iter \in [SUBSET (1..n) -> A]
  /\ \A x \in SUBSET (1..n) :
       iter[x] = IF x = {} THEN base ELSE F[<<iter[x \ {Max(x)}], Max(x)>>]

\* What's known of it before it's known to stay in A.
Follows(iter, A, n, base, F) ==
  /\ iter[{}] = base
  /\ \A x \in SUBSET (1..n) : x # {} /\ iter[x \ {Max(x)}] \in A =>
       iter[x] = F[<<iter[x \ {Max(x)}], Max(x)>>]

\* What it computes of every beginning.
IsSteps(g, A, n, base, F) ==
  /\ g \in [0..n -> A] /\ g[0] = base
  /\ \A i \in 1..n : g[i] = F[<<g[i - 1], i>>]

\* Every operation has what a fold computes.
LEMMA FoldExists ==
  ASSUME NEW n \in Nat, NEW A, NEW base \in A, NEW F, IsOperation(F, A, n)
  PROVE  \E iter : IsFold(iter, A, n, base, F)
<1> USE DEF IsOperation
<1> DEFINE Is(iter, m) == \A x \in SUBSET (1..m) :
             iter[x] = IF x = {} THEN base ELSE F[<<iter[x \ {Max(x)}], Max(x)>>]
           T == {m \in 0..n : \E iter \in [SUBSET (1..m) -> A] : Is(iter, m)}
<1>1. 0 \in T
  <2> DEFINE it == [x \in SUBSET (1..0) |-> base]
  <2>1. it \in [SUBSET (1..0) -> A]
    OBVIOUS
  <2>2. \A x \in SUBSET (1..0) : x = {}
    OBVIOUS
  <2>3. Is(it, 0)
    BY <2>2
  <2> HIDE DEF it, Is
  <2>4. 0 \in 0..n
    OBVIOUS
  <2> QED BY <2>1, <2>3, <2>4
<1>2. ASSUME NEW m \in 1..n, m - 1 \in T
      PROVE  m \in T
  <2>1. PICK it \in [SUBSET (1..m - 1) -> A] : Is(it, m - 1)
    BY <1>2
  <2> DEFINE new == [x \in SUBSET (1..m) |-> IF m \in x THEN F[<<it[x \ {m}], m>>] ELSE it[x]]
  <2>2. \A x \in SUBSET (1..m) : /\ x \ {m} \in SUBSET (1..m - 1)
                                 /\ m \notin x => x \in SUBSET (1..m - 1)
    OBVIOUS
  <2>3. \A x \in SUBSET (1..m) : new[x] \in A
    <3> TAKE x \in SUBSET (1..m)
    <3>1. CASE m \in x
      <4>1. <<it[x \ {m}], m>> \in A \X (1..n)
        BY <2>2, <3>1
      <4> QED BY <3>1, <4>1
    <3>2. CASE m \notin x
      BY <2>2, <3>2
    <3> QED BY <3>1, <3>2
  <2>4. new \in [SUBSET (1..m) -> A]
    BY <2>3
  <2>5. ASSUME NEW x \in SUBSET (1..m)
        PROVE  new[x] = IF x = {} THEN base ELSE F[<<new[x \ {Max(x)}], Max(x)>>]
    <3>1. CASE m \in x
      <4>1. Max(x) = m
        <5>1. x \in SUBSET (1..m) /\ x # {}
          BY <3>1
        <5>2. m \in Nat /\ Max(x) = Max(x)
          OBVIOUS
        <5>3. Max(x) \in x /\ \A y \in x : y <= Max(x)
          BY ONLY <5>1, <5>2, MaxIs
        <5>4. Max(x) \in 1..m /\ m <= Max(x)
          BY <3>1, <5>1, <5>3
        <5> QED BY <5>4
      <4>2. x \ {m} \in SUBSET (1..m) /\ m \notin x \ {m}
        OBVIOUS
      <4>3. new[x \ {m}] = it[x \ {m}]
        BY <4>2
      <4>4. new[x] = F[<<it[x \ {m}], m>>]
        BY <3>1
      <4> HIDE DEF new
      <4> QED BY <3>1, <4>1, <4>3, <4>4
    <3>2. CASE m \notin x
      <4>1. /\ x \in SUBSET (1..m - 1)
            /\ x \ {Max(x)} \in SUBSET (1..m) /\ m \notin x \ {Max(x)}
        BY <2>2, <3>2
      <4>2. new[x] = it[x] /\ new[x \ {Max(x)}] = it[x \ {Max(x)}]
        BY <3>2, <4>1
      <4>3. it[x] = IF x = {} THEN base ELSE F[<<it[x \ {Max(x)}], Max(x)>>]
        BY <2>1, <4>1
      <4> HIDE DEF new
      <4> QED BY <4>2, <4>3
    <3> QED BY <3>1, <3>2
  <2>6. Is(new, m)
    BY <2>5
  <2> HIDE DEF new, Is
  <2>7. m \in 0..n
    OBVIOUS
  <2> QED BY <2>4, <2>6, <2>7
<1>3. \A i \in 0..n : i \in T
  <2> HIDE DEF T
  <2> QED BY <1>1, <1>2, Induction
<1>4. n \in T
  <2>1. n \in 0..n
    OBVIOUS
  <2> HIDE DEF T
  <2> QED BY <1>3, <2>1
<1>5. \E iter \in [SUBSET (1..n) -> A] : Is(iter, n)
  BY <1>4
<1> QED BY <1>5 DEF IsFold

\* A fold goes from left to right: what it computes of every beginning.
LEMMA FoldSteps ==
  ASSUME NEW n \in Nat, NEW A, NEW base \in A, NEW F, IsOperation(F, A, n),
         NEW iter, Follows(iter, A, n, base, F)
  PROVE  \E g : IsSteps(g, A, n, base, F) /\ g[n] = iter[1..n]
<1> USE DEF IsOperation, Follows
<1> DEFINE g == [i \in 0..n |-> iter[1..i]]
           T == {i \in 0..n : g[i] \in A}
<1>0. 1..0 = {}
  OBVIOUS
<1>1. g[0] = base
  BY <1>0
<1>2. ASSUME NEW i \in 1..n, g[i - 1] \in A
      PROVE  g[i] = F[<<g[i - 1], i>>] /\ g[i] \in A
  <2>1. i \in Nat \ {0} /\ i \in 0..n /\ i - 1 \in 0..n
    OBVIOUS
  <2>2. 1..i \in SUBSET (1..n) /\ 1..i # {} /\ Max(1..i) = i /\ (1..i) \ {Max(1..i)} = 1..i - 1
    BY SMTT(40), <2>1, MaxOfRange
  <2>3. g[i - 1] = iter[1..i - 1] /\ g[i] = iter[1..i]
    BY <2>1
  <2>4. iter[1..i] = F[<<iter[1..i - 1], i>>]
    BY <1>2, <2>2, <2>3
  <2>5. <<g[i - 1], i>> \in A \X (1..n)
    BY <1>2
  <2> HIDE DEF g
  <2> QED BY <2>3, <2>4, <2>5
<1>3. 0 \in T
  BY <1>1
<1>4. ASSUME NEW i \in 1..n, i - 1 \in T
      PROVE  i \in T
  <2>1. g[i - 1] \in A /\ i \in 0..n
    BY <1>4
  <2>2. g[i] \in A
    BY <1>2, <2>1
  <2> HIDE DEF g
  <2> QED BY <2>1, <2>2
<1>5. \A i \in 0..n : i \in T
  <2> HIDE DEF T
  <2> QED BY <1>3, <1>4, Induction
<1>6. \A i \in 1..n : i - 1 \in 0..n
  OBVIOUS
<1>7. g \in [0..n -> A]
  BY <1>5
<1>8. \A i \in 1..n : g[i - 1] \in A
  BY <1>5, <1>6
<1>9. g[n] = iter[1..n]
  OBVIOUS
<1> HIDE DEF g
<1> QED BY <1>1, <1>2, <1>7, <1>8, <1>9 DEF IsSteps

\* What every operation computes step by step.
LEMMA StepsExist ==
  ASSUME NEW n \in Nat, NEW A, NEW base \in A, NEW F, IsOperation(F, A, n)
  PROVE  \E g : IsSteps(g, A, n, base, F)
<1>1. PICK iter : IsFold(iter, A, n, base, F)
  BY FoldExists
<1>2. {} \in SUBSET (1..n)
  OBVIOUS
<1>3. Follows(iter, A, n, base, F)
  BY <1>1, <1>2 DEF IsFold, Follows
<1> QED BY <1>3, FoldSteps
(* Functions that are defined by what they are of smaller numbers *)

\* What a function is of n is computed from what it is of before[n].
IsRecursion(f, A, n, base, before, F) ==
  /\ f \in [0..n -> A] /\ f[0] = base
  /\ \A i \in 1..n : f[i] = F[<<f[before[i]], i>>]

\* There is such a function for every operation.
LEMMA RecursionExists ==
  ASSUME NEW n \in Nat, NEW A, NEW base \in A, NEW F, IsOperation(F, A, n),
         NEW before \in [1..n -> Nat], \A i \in 1..n : before[i] < i
  PROVE  \E f : IsRecursion(f, A, n, base, before, F)
<1> USE DEF IsOperation
<1> DEFINE Is(f, m) == f[0] = base /\ \A i \in 1..m : f[i] = F[<<f[before[i]], i>>]
           T == {m \in 0..n : \E f \in [0..m -> A] : Is(f, m)}
<1>1. 0 \in T
  <2> DEFINE f == [i \in 0..0 |-> base]
  <2>1. f \in [0..0 -> A] /\ f[0] = base
    OBVIOUS
  <2>2. 1..0 = {} /\ 0 \in 0..n
    OBVIOUS
  <2> HIDE DEF f
  <2> QED BY <2>1, <2>2
<1>2. ASSUME NEW m \in 1..n, m - 1 \in T
      PROVE  m \in T
  <2>1. PICK f \in [0..m - 1 -> A] : Is(f, m - 1)
    BY <1>2
  <2>2. /\ m \in Nat /\ m - 1 \in Nat /\ m \in 0..n
        /\ \A i \in 1..m : before[i] \in 0..m - 1 /\ i \in 1..n
    OBVIOUS
  <2> DEFINE new == [i \in 0..m |-> IF i = m THEN F[<<f[before[m]], m>>] ELSE f[i]]
  <2>3. \A i \in 0..m - 1 : i # m /\ i \in 0..m /\ new[i] = f[i]
    OBVIOUS
  <2>4. new[m] = F[<<f[before[m]], m>>] /\ m \in 1..m
    BY <2>2
  <2>5. new \in [0..m -> A]
    <3>1. before[m] \in 0..m - 1
      BY <2>2
    <3>2. <<f[before[m]], m>> \in A \X (1..n)
      BY <3>1
    <3> QED BY <3>2
  <2> HIDE DEF new
  <2>6. new[0] = base
    BY <2>1, <2>2, <2>3
  <2>7. ASSUME NEW i \in 1..m
        PROVE  new[i] = F[<<new[before[i]], i>>]
    <3>1. new[before[i]] = f[before[i]]
      BY <2>2, <2>3
    <3>2. CASE i = m
      BY <2>4, <3>1, <3>2
    <3>3. CASE i # m
      <4>1. i \in 1..m - 1 /\ i \in 0..m - 1
        BY <2>2, <3>3
      <4> QED BY <2>1, <2>3, <3>1, <4>1
    <3> QED BY <3>2, <3>3
  <2>8. Is(new, m)
    BY <2>6, <2>7
  <2> HIDE DEF Is
  <2> QED BY <2>2, <2>5, <2>8
<1>3. n \in T
  <2>1. \A i \in 0..n : i \in T
    <3> HIDE DEF T
    <3> QED BY <1>1, <1>2, Induction
  <2>2. n \in 0..n
    OBVIOUS
  <2> QED BY <2>1, <2>2
<1>4. PICK f \in [0..n -> A] : Is(f, n)
  BY <1>3
<1> QED BY <1>4 DEF IsRecursion

-------------------------------------------------------------------------------
(* Transfers *)

(* Remainders *)

\* A remainder is smaller than what's divided by.
LEMMA ModRange ==
  ASSUME NEW s \in Nat \ {0}, NEW n \in Int
  PROVE  n % s \in 0..s - 1
  BY SMT

\* Division with a remainder.
LEMMA DivMod ==
  ASSUME NEW s \in Nat \ {0}, NEW n \in Int
  PROVE  n \div s \in Int /\ n = s * (n \div s) + (n % s)
  BY SMT

\* The remainder of a multiple and something smaller.
LEMMA ModOfSum ==
  ASSUME NEW s \in Nat \ {0}, NEW k \in Int, NEW r \in 0..s - 1
  PROVE  (s * k + r) % s = r
  BY SMTT(20)

\* Multiples don't change a remainder.
LEMMA AddMultiple ==
  ASSUME NEW s \in Nat \ {0}, NEW a \in Int, NEW b \in Int, a % s = 0
  PROVE  (a + b) % s = b % s
  <1> DEFINE k == a \div s
             l == b \div s
             r == b % s
  <1>1. k \in Int /\ l \in Int /\ r \in 0..s - 1
    BY DivMod, ModRange
  <1>2. a = s * k /\ b = s * l + r
    BY DivMod
  <1> HIDE DEF k, l, r
  <1>3. a + b = s * (k + l) + r
    <2>1. s * (k + l) = s * k + s * l
      BY <1>1, SMT
    <2> QED BY <1>1, <1>2, <2>1
  <1>4. (s * (k + l) + r) % s = r
    BY <1>1, ModOfSum
  <1>5. r = b % s
    BY DEF r
  <1> QED BY <1>3, <1>4, <1>5

\* The difference of two multiples is one.
LEMMA SubMultiple ==
  ASSUME NEW s \in Nat \ {0}, NEW a \in Int, NEW b \in Int, a % s = 0, b % s = 0
  PROVE  (a - b) % s = 0
  <1> DEFINE d == a - b
  <1>1. d \in Int /\ b + d = a
    OBVIOUS
  <1> HIDE DEF d
  <1>2. (b + d) % s = d % s
    BY <1>1, AddMultiple
  <1>3. d % s = 0
    BY <1>1, <1>2
  <1> QED BY <1>3 DEF d

\* Rounding down and up ends less than a sector away, on a boundary.
LEMMA RoundDownFacts ==
  ASSUME NEW s \in Nat \ {0}, NEW n \in Nat
  PROVE  /\ RoundDown(n, s) \in Nat /\ RoundDown(n, s) % s = 0
         /\ RoundDown(n, s) <= n /\ n < RoundDown(n, s) + s
         /\ n % s = 0 => RoundDown(n, s) = n
  <1>1. n % s \in 0..s - 1 /\ n \div s \in Int /\ n = s * (n \div s) + (n % s)
    BY ModRange, DivMod
  <1>2. (s * (n \div s) + 0) % s = 0
    <2>1. 0 \in 0..s - 1
      OBVIOUS
    <2>2. \A k \in Int : (s * k + 0) % s = 0
      BY <2>1, ModOfSum
    <2> QED BY <1>1, <2>2
  <1>3. s * (n \div s) \in Int
    BY <1>1
  <1>4. n - (n % s) = s * (n \div s) /\ n - (n % s) \in Int
    BY <1>1, <1>3
  <1>5. (n - (n % s)) % s = 0
    BY <1>2, <1>3, <1>4
  <1>6. n - (n % s) >= 0
    BY SMT
  <1> QED BY <1>1, <1>4, <1>5, <1>6 DEF RoundDown

\* The same of rounding up.
LEMMA RoundUpFacts ==
  ASSUME NEW s \in Nat \ {0}, NEW n \in Nat
  PROVE  /\ RoundUp(n, s) \in Nat /\ RoundUp(n, s) % s = 0
         /\ n <= RoundUp(n, s) /\ RoundUp(n, s) < n + s
         /\ n % s = 0 => RoundUp(n, s) = n
  <1> DEFINE m == n + s - 1
             q == m \div s
  <1>1. m \in Nat /\ m = n + s - 1
    OBVIOUS
  <1> HIDE DEF m
  <1>2. q \in Int /\ m = s * q + (m % s) /\ m % s \in 0..s - 1
    BY <1>1, ModRange, DivMod
  <1>3. RoundUp(n, s) = q * s
    BY <1>1 DEF RoundUp
  <1> HIDE DEF q
  <1>4. q * s = s * q /\ s * q \in Int
    BY <1>2, SMT
  <1>5. (s * q + 0) % s = 0
    BY <1>2, ModOfSum
  <1>6. RoundUp(n, s) = m - (m % s) /\ RoundUp(n, s) \in Int
    BY <1>1, <1>2, <1>3, <1>4
  <1>7. RoundUp(n, s) % s = 0
    BY <1>3, <1>4, <1>5
  <1>8. n <= RoundUp(n, s) /\ RoundUp(n, s) < n + s
    BY <1>1, <1>2, <1>6
  <1>9. ASSUME n % s = 0 PROVE RoundUp(n, s) = n
    <2> DEFINE d == RoundUp(n, s) - n
    <2>1. d % s = 0
      BY <1>6, <1>7, <1>9, SubMultiple
    <2>2. d \in 0..s - 1
      BY <1>6, <1>8
    <2> HIDE DEF d
    <2>3. (s * 0 + d) % s = d
      BY <2>2, ModOfSum
    <2>4. s * 0 + d = d
      BY <2>2
    <2>5. d = 0
      BY <2>1, <2>3, <2>4
    <2> QED BY <2>5, <1>6 DEF d
  <1> QED BY <1>6, <1>7, <1>8, <1>9

\* A number below a sector is no multiple of it, except for none at all.
LEMMA SmallMultiple ==
  ASSUME NEW s \in Nat \ {0}, NEW d \in 0..s - 1, d % s = 0
  PROVE  d = 0
  <1>1. (s * 0 + d) % s = d
    BY ModOfSum
  <1>2. s * 0 + d = d
    OBVIOUS
  <1> QED BY <1>1, <1>2

-------------------------------------------------------------------------------
(* The parts of a transfer *)

\* The sectors around some cells hold them, and begin and end less than a sector away.
LEMMA AroundFacts ==
  ASSUME NEW s \in Nat \ {0}, NEW off \in Nat, NEW len \in Nat
  PROVE  LET whole == Around(off, len, s)
         IN /\ whole.off \in Nat /\ whole.off % s = 0
            /\ whole.off <= off /\ off < whole.off + s
            /\ whole.len \in Nat /\ whole.len % s = 0
            /\ off + len <= whole.off + whole.len /\ whole.off + whole.len < off + len + s
            /\ (off + len) % s = 0 => whole.off + whole.len = off + len
  <1> DEFINE n == off + len
             a == RoundDown(off, s)
             e == RoundUp(n, s)
  <1>0. n \in Nat /\ off <= n
    OBVIOUS
  <1> HIDE DEF n
  <1>1. /\ a \in Nat /\ a % s = 0 /\ a <= off /\ off < a + s
    BY RoundDownFacts
  <1>2. e \in Nat /\ e % s = 0 /\ n <= e /\ e < n + s /\ (n % s = 0 => e = n)
    BY <1>0, RoundUpFacts
  <1>3. Around(off, len, s).off = a /\ Around(off, len, s).len = e - a
    BY DEF Around, n
  <1> HIDE DEF a, e
  <1>4. (e - a) % s = 0
    <2>1. e \in Int /\ a \in Int
      BY <1>1, <1>2
    <2> QED BY ONLY s \in Nat \ {0}, <2>1, <1>1, <1>2, SubMultiple
  <1>5. e - a \in Nat /\ a + (e - a) = e
    BY <1>0, <1>1, <1>2
  <1> QED BY <1>0, <1>1, <1>2, <1>3, <1>4, <1>5 DEF n

\* What a write gives to the drive directly is whole sectors of it.
LEMMA WriteBodyFacts ==
  ASSUME NEW s \in Nat \ {0}, NEW off \in Nat, NEW len \in Nat
  PROVE  LET body == WriteBody(off, len, s)
         IN body \in Nat /\ body <= len /\ body % s = 0 /\ (body > 0 => off % s = 0)
  <1>1. RoundDown(len, s) \in Nat /\ RoundDown(len, s) <= len /\ RoundDown(len, s) % s = 0
    BY RoundDownFacts
  <1>2. RoundDown(len, s) = len - (len % s)
    BY DEF RoundDown
  <1>3. 0 % s = 0
    BY ModRange, SmallMultiple, ModOfSum, RoundDownFacts DEF RoundDown
  <1> QED BY <1>1, <1>2, <1>3 DEF WriteBody

\* A read goes straight into the buffer only from the beginning of a sector.
LEMMA ReadBodyFacts ==
  ASSUME NEW s \in Nat \ {0}, NEW off \in Nat, NEW len \in Nat, NEW room \in Nat
  PROVE  LET body == ReadBody(off, len, room, s)
         IN body \in Nat /\ body <= len /\ (body > 0 => off % s = 0)
  <1>1. RoundDown(len, s) \in Nat /\ RoundDown(len, s) <= len
    BY RoundDownFacts
  <1>2. RoundDown(len, s) = len - (len % s)
    BY DEF RoundDown
  <1>3. RoundUp(len, s) \in Nat
    BY RoundUpFacts
  <1> QED BY <1>1, <1>2, <1>3 DEF ReadBody

\* The sectors a write reads first are the first and the last one around its end.
LEMMA PartialFacts ==
  ASSUME NEW s \in Nat \ {0}, NEW whole,
         whole.off \in Nat, whole.off % s = 0, whole.len \in Nat, whole.len % s = 0,
         NEW head \in Int, NEW end \in Int,
         NEW first \in Partial(whole, head, end, s)
  PROVE  first % s = 0
  <1> DEFINE o == whole.off
             l == whole.len
             e == o + l
  <1>1. o \in Int /\ l \in Int /\ e \in Int /\ o % s = 0 /\ l % s = 0
    OBVIOUS
  <1>2. first \in {o, e - s}
    BY DEF Partial
  <1> HIDE DEF o, l
  <1>3. s \in Int /\ s % s = 0
    BY SMT
  <1>4. e % s = 0
    <2>1. (o + l) % s = l % s
      BY ONLY s \in Nat \ {0}, <1>1, AddMultiple
    <2> QED BY <1>1, <2>1
  <1> HIDE DEF e
  <1>5. (e - s) % s = 0
    BY ONLY s \in Nat \ {0}, <1>1, <1>3, <1>4, SubMultiple
  <1> QED BY <1>1, <1>2, <1>5

\* A drive only ever sees transfers of whole sectors, wherever a read or a write begins
\* and ends and however big the buffer is (SmartCopy's WholeSectors for every drive).
THEOREM TransfersAreWhole ==
  ASSUME NEW s \in Nat \ {0}, NEW off \in Nat, NEW len \in Nat, NEW room \in Nat,
         NEW t \in ReadTransfers(off, len, room, s) \cup WriteTransfers(off, len, s)
  PROVE  t.off % s = 0 /\ t.len % s = 0
  <1>1. CASE t \in ReadTransfers(off, len, room, s)
    <2> DEFINE body == ReadBody(off, len, room, s)
    <2>1. body \in Nat /\ body <= len /\ (body > 0 => off % s = 0)
      BY ReadBodyFacts
    <2>2. \/ body > 0 /\ t = [off |-> off, len |-> RoundUp(body, s)]
          \/ body < len /\ t = Around(off + body, len - body, s)
      BY <1>1 DEF ReadTransfers
    <2> HIDE DEF body
    <2>3. RoundUp(body, s) % s = 0
      BY <2>1, RoundUpFacts
    <2>4. off + body \in Nat /\ len - body \in Nat
      BY <2>1
    <2>5. Around(off + body, len - body, s).off % s = 0 /\ Around(off + body, len - body, s).len % s = 0
      BY <2>4, AroundFacts
    <2> QED BY <2>1, <2>2, <2>3, <2>5
  <1>2. CASE t \in WriteTransfers(off, len, s)
    <2> DEFINE body == WriteBody(off, len, s)
               whole == Around(off + body, len - body, s)
               head == off + body - whole.off
               parts == Partial(whole, head, head + len - body, s)
    <2>1. body \in Nat /\ body <= len /\ body % s = 0 /\ (body > 0 => off % s = 0)
      BY WriteBodyFacts
    <2>2. \/ body > 0 /\ t = [off |-> off, len |-> body]
          \/ t = whole
          \/ \E first \in parts : t = [off |-> first, len |-> s]
      BY <1>2 DEF WriteTransfers
    <2>3. off + body \in Nat /\ len - body \in Nat
      BY <2>1
    <2>4. whole.off \in Nat /\ whole.off % s = 0 /\ whole.len \in Nat /\ whole.len % s = 0
      BY <2>3, AroundFacts
    <2> HIDE DEF body, whole
    <2>5. \A first \in parts : first % s = 0
      <3>1. head \in Int /\ head + len - body \in Int
        BY <2>1, <2>4
      <3> HIDE DEF head
      <3> QED BY <2>4, <3>1, PartialFacts
    <2>6. s % s = 0
      BY SMT
    <2> HIDE DEF head, parts
    <2> QED BY <2>1, <2>2, <2>4, <2>5, <2>6
  <1> QED BY <1>1, <1>2

-------------------------------------------------------------------------------
(* What a read returns *)

\* What a drive's cells hold.
Cells(disk) == {disk[c] : c \in Int}

\* What a read returns is a sequence of these.
LEMMA ContentIsSeq ==
  ASSUME NEW disk, NEW off \in Nat, NEW len \in Nat
  PROVE  Content(disk, off, len) \in Seq(Cells(disk))
  <1> DEFINE V == Cells(disk)
  <1>1. \A i \in 1..len : disk[off + i - 1] \in V
    BY DEF Cells
  <1> HIDE DEF V
  <1>2. Content(disk, off, len) \in Seq(V)
    BY <1>1 DEF Content
  <1> QED BY <1>2 DEF V

\* How a read is cut: `body` cells directly, the others from the `l` cells at `o`.
ReadParts(off, len, body, o, l) ==
  /\ off \in Nat /\ len \in Nat /\ body \in Nat /\ body <= len
  /\ o \in Nat /\ l \in Nat /\ o <= off + body /\ off + len <= o + l

\* What's read directly and a part of the sectors around the rest make a whole.
LEMMA ContentParts ==
  ASSUME NEW disk, NEW off, NEW len, NEW body, NEW o, NEW l, ReadParts(off, len, body, o, l)
  PROVE  Content(disk, off, body) \o SubSeq(Content(disk, o, l), off + body - o + 1, off + len - o)
         = Content(disk, off, len)
  <1> USE DEF ReadParts
  <1> DEFINE V == Cells(disk)
             a == off + body - o
             z == off + len - o
             n == len - body
             head == Content(disk, off, body)
             whole == Content(disk, o, l)
             tail == SubSeq(whole, a + 1, z)
             both == head \o tail
             all == Content(disk, off, len)
  <1>1. a \in Nat /\ z \in Nat /\ n \in Nat /\ a + n = z /\ z <= l /\ o + a = off + body /\ body + n = len
    OBVIOUS
  <1>2. Len(head) = body /\ DOMAIN head = 1..body /\ \A i \in 1..body : head[i] = disk[off + i - 1]
    BY DEF Content
  <1>3. Len(whole) = l /\ DOMAIN whole = 1..l /\ \A i \in 1..l : whole[i] = disk[o + i - 1]
    BY DEF Content
  <1>4. all = [i \in 1..len |-> disk[off + i - 1]]
    BY DEF Content
  <1>5. head \in Seq(V)
    BY ContentIsSeq
  <1>6. whole \in Seq(V)
    BY ContentIsSeq
  <1> HIDE DEF V, a, z, n, head, whole
  <1>7. tail \in Seq(V) /\ Len(tail) = n /\ \A i \in 1..n : tail[i] = whole[a + i]
    BY ONLY <1>1, <1>3, <1>6
  <1> HIDE DEF tail
  <1>8. both = [i \in 1..len |-> IF i <= body THEN head[i] ELSE tail[i - body]]
    <2>1. /\ both \in Seq(V) /\ Len(both) = Len(head) + Len(tail)
          /\ \A i \in 1..Len(head) + Len(tail) : both[i] = IF i <= Len(head) THEN head[i] ELSE tail[i - Len(head)]
      BY ONLY <1>5, <1>7, ConcatProperties
    <2>2. Len(head) + Len(tail) = len
      BY ONLY <1>1, <1>2, <1>7, body \in Nat, len \in Nat
    <2> HIDE DEF both
    <2>3. both = [i \in 1..Len(both) |-> both[i]]
      BY ONLY <2>1
    <2> QED BY ONLY <1>2, <2>1, <2>2, <2>3
  <1> HIDE DEF both, all
  <1>9. ASSUME NEW i \in 1..len
        PROVE  (IF i <= body THEN head[i] ELSE tail[i - body]) = disk[off + i - 1]
    <2>1. CASE i <= body
      BY <1>2, <2>1
    <2>2. CASE i > body
      <3> DEFINE k == i - body
      <3>1. k \in 1..n /\ a + k \in 1..l
        BY <1>1, <2>2
      <3>2. o + (a + k) - 1 = off + i - 1
        BY <1>1
      <3> HIDE DEF k
      <3>3. tail[k] = whole[a + k] /\ whole[a + k] = disk[o + (a + k) - 1]
        BY <1>3, <1>7, <3>1
      <3>4. tail[k] = disk[off + i - 1]
        BY <3>2, <3>3
      <3> QED BY <2>2, <3>4 DEF k
    <2> QED BY <2>1, <2>2
  <1>10. both = all
    BY ONLY <1>4, <1>8, <1>9
  <1> QED BY <1>10 DEF both, all, head, tail, whole, a, z

\* A read of any length at any offset returns what the drive holds there.
THEOREM ReadAtIsExact ==
  ASSUME NEW s \in Nat \ {0}, NEW disk, NEW off \in Nat, NEW len \in Nat, NEW room \in Nat
  PROVE  ReadAt(disk, off, len, room, s) = Content(disk, off, len)
  <1> DEFINE body == ReadBody(off, len, room, s)
             m == off + body
             n == len - body
             whole == Around(m, n, s)
             o == whole.off
             l == whole.len
  <1>1. body \in Nat /\ body <= len
    BY ReadBodyFacts
  <1>2. ReadAt(disk, off, len, room, s)
        = Content(disk, off, body) \o SubSeq(Content(disk, o, l), off + body - o + 1, off + len - o)
    BY Zenon DEF ReadAt
  <1> HIDE DEF body
  <1>3. m \in Nat /\ n \in Nat /\ m + n = off + len
    BY <1>1
  <1>4. o \in Nat /\ l \in Nat /\ o <= m /\ m + n <= o + l
    <2> HIDE DEF m, n
    <2> QED BY ONLY s \in Nat \ {0}, <1>3, AroundFacts
  <1>5. o <= off + body /\ off + len <= o + l
    <2> HIDE DEF o, l, n
    <2> QED BY <1>3, <1>4
  <1> HIDE DEF o, l
  <1>6. ReadParts(off, len, body, o, l)
    BY <1>1, <1>4, <1>5 DEF ReadParts
  <1> QED BY ONLY ZenonT(40), <1>2, <1>6, ContentParts

-------------------------------------------------------------------------------
(* What a write does *)

\* What was there stays where nothing is written.
LEMMA PatchedOld ==
  ASSUME NEW disk, NEW off \in Nat, NEW data, NEW n \in Nat, Len(data) = n,
         NEW c \in Nat, c \in DOMAIN disk, c < off \/ c >= off + n
  PROVE  Patched(disk, off, data)[c] = disk[c]
  <1>1. c \in DOMAIN disk \cup 0..off + Len(data) - 1 /\ c \in DOMAIN disk \ (off..off + Len(data) - 1)
    OBVIOUS
  <1> QED BY <1>1 DEF Patched

\* A write within a drive doesn't change its size.
LEMMA PatchedDomain ==
  ASSUME NEW disk, NEW off \in Nat, NEW data, NEW n \in Nat, Len(data) = n,
         NEW size \in Nat, DOMAIN disk = 0..size - 1, off + n <= size
  PROVE  DOMAIN Patched(disk, off, data) = 0..size - 1
  <1>1. DOMAIN Patched(disk, off, data) = DOMAIN disk \cup 0..off + n - 1
    BY DEF Patched
  <1>2. 0..size - 1 \cup 0..off + n - 1 = 0..size - 1
    OBVIOUS
  <1> QED BY <1>1, <1>2

\* A drive's content is a function, whatever was written.
LEMMA PatchedIsFunction ==
  ASSUME NEW disk, NEW off, NEW data
  PROVE  Patched(disk, off, data) = [c \in DOMAIN Patched(disk, off, data) |-> Patched(disk, off, data)[c]]
  BY DEF Patched

\* The sectors around the end of a write lie within a drive of whole sectors.
LEMMA WithinDrive ==
  ASSUME NEW s \in Nat \ {0}, NEW size \in Nat, size % s = 0,
         NEW end \in Nat, end <= size, NEW up \in Nat, up % s = 0, up < end + s
  PROVE  up <= size
  <1> SUFFICES ASSUME up > size PROVE FALSE
    OBVIOUS
  <1> DEFINE d == up - size
  <1>1. d \in 0..s - 1 /\ d # 0
    OBVIOUS
  <1>2. d % s = 0
    <2>1. up \in Int /\ size \in Int /\ up % s = 0 /\ size % s = 0
      OBVIOUS
    <2>2. (up - size) % s = 0
      BY ONLY s \in Nat \ {0}, <2>1, SubMultiple
    <2> QED BY <2>2
  <1> HIDE DEF d
  <1> QED BY <1>1, <1>2, SmallMultiple

\* What's kept of the sectors around a write's end is what was read of them.
LEMMA KeptIsRead ==
  ASSUME NEW s \in Nat \ {0}, NEW whole, NEW m \in Nat, NEW e \in Nat, m < e,
         whole.off \in Nat, whole.off % s = 0, whole.off <= m, m < whole.off + s,
         whole.len \in Nat, whole.len % s = 0,
         e <= whole.off + whole.len, whole.off + whole.len < e + s,
         e % s = 0 => whole.off + whole.len = e,
         NEW c \in whole.off..whole.off + whole.len - 1, c \notin m..e - 1
  PROVE  \E first \in Partial(whole, m - whole.off, e - whole.off, s) : c \in first..first + s - 1
  <1> DEFINE o == whole.off
             l == whole.len
             end == e - o
  <1>1. o \in Nat /\ l \in Nat /\ end \in Nat /\ l > 0
    OBVIOUS
  <1>2. o % s = 0 /\ l % s = 0
    OBVIOUS
  <1>3. o <= m /\ m < o + s /\ e <= o + l /\ o + l < e + s /\ c \in Int /\ o <= c /\ c < o + l
    OBVIOUS
  <1>4. c < m \/ e <= c
    OBVIOUS
  <1>5. e % s = end % s
    <2>1. o + end = e /\ end \in Int /\ o \in Int
      OBVIOUS
    <2> HIDE DEF end, o
    <2>2. (o + end) % s = end % s
      BY ONLY s \in Nat \ {0}, <2>1, <1>2, AddMultiple
    <2> QED BY <2>1, <2>2
  <1>6. e % s = 0 => o + l = e
    OBVIOUS
  <1>7. l >= s
    <2> SUFFICES ASSUME l < s PROVE FALSE
      BY <1>1
    <2> HIDE DEF l, o, end
    <2>1. l \in 0..s - 1
      BY <1>1
    <2>2. l = 0
      BY ONLY s \in Nat \ {0}, <2>1, <1>2, SmallMultiple
    <2> QED BY <1>1, <2>2
  <1>8. Partial(whole, m - o, end, s) = (IF m - o > 0 \/ (end % s # 0 /\ l = s) THEN {o} ELSE {})
                                        \cup (IF end % s # 0 /\ l > s THEN {o + l - s} ELSE {})
    BY DEF Partial
  <1> DEFINE P == Partial(whole, m - o, end, s)
  <1>9. (m - o > 0 \/ (end % s # 0 /\ l = s)) => o \in P
    BY <1>8
  <1>10. (end % s # 0 /\ l > s) => o + l - s \in P
    BY <1>8
  <1> HIDE DEF P, o, l, end
  <1>11. CASE c < m
    <2>1. o \in P
      BY <1>1, <1>3, <1>9, <1>11
    <2>2. c \in o..o + s - 1
      BY <1>1, <1>3, <1>11
    <2> QED BY <2>1, <2>2 DEF P, o, end
  <1>12. CASE e <= c
    <2>1. end % s # 0
      BY <1>1, <1>3, <1>5, <1>6, <1>12
    <2>2. CASE l = s
      <3>1. o \in P /\ c \in o..o + s - 1
        BY <1>1, <1>3, <1>9, <2>1, <2>2
      <3> QED BY <3>1 DEF P, o, end
    <2>3. CASE l > s
      <3> DEFINE f == o + l - s
      <3>1. f \in P /\ c \in f..f + s - 1
        BY <1>1, <1>3, <1>10, <1>12, <2>1, <2>3
      <3> HIDE DEF f
      <3> QED BY <3>1 DEF P, o, end
    <2> QED BY <1>1, <1>7, <2>2, <2>3
  <1> QED BY <1>4, <1>11, <1>12

\* The parts of a write of `n` cells up to `e`: the first `b` in whole sectors, the other
\* `r` from `m` on in the `l` cells around them at `o`, with what's `known` of these.
WriteParts(size, disk, off, data, b, r, n, m, e, o, l, known, first, rest, after, held, new, back) ==
  /\ size \in Nat /\ DOMAIN disk = 0..size - 1
  /\ off \in Nat /\ b \in Nat /\ r \in Nat /\ n \in Nat /\ m \in Nat /\ e \in Nat
  /\ m = off + b /\ e = m + r /\ n = b + r /\ r > 0 /\ e <= size
  /\ o \in Nat /\ l \in Nat /\ o <= m /\ e <= o + l /\ o + l <= size
  /\ Len(data) = n /\ first = SubSeq(data, 1, b) /\ rest = SubSeq(data, b + 1, n)
  /\ \A c \in o..o + l - 1 : c \notin m..e - 1 => c \in known
  /\ after = Patched(disk, off, first) /\ held = Buffer(after, known, o, l)
  /\ new = Patched(held, m, rest) /\ back = Content(new, o, l)

\* Writing the sectors around a write's end back, with the new data in them, completes it.
LEMMA WriteBack ==
  ASSUME NEW size, NEW V, NEW data \in Seq(V), NEW disk, NEW off, NEW b, NEW r, NEW n, NEW m, NEW e,
         NEW o, NEW l, NEW known, NEW first, NEW rest, NEW after, NEW held, NEW new, NEW back,
         WriteParts(size, disk, off, data, b, r, n, m, e, o, l, known, first, rest, after, held, new, back)
  PROVE  Patched(after, o, back) = Patched(disk, off, data)
  <1> USE DEF WriteParts
  <1>1. off + n = e /\ m < e /\ off <= m
    OBVIOUS
  <1>a. Len(first) = b /\ Len(rest) = r
    BY ONLY data \in Seq(V), Len(data) = n, b \in Nat, r \in Nat, n = b + r,
            first = SubSeq(data, 1, b), rest = SubSeq(data, b + 1, n)
  <1>b. (\A i \in 1..b : first[i] = data[i]) /\ (\A i \in 1..r : rest[i] = data[b + i])
    BY ONLY SMTT(40), data \in Seq(V), Len(data) = n, b \in Nat, r \in Nat, n = b + r,
            first = SubSeq(data, 1, b), rest = SubSeq(data, b + 1, n)
  <1>2. DOMAIN after = 0..size - 1
    <2>1. off + b <= size
      OBVIOUS
    <2> QED BY ONLY size \in Nat, off \in Nat, b \in Nat, <1>a, <2>1, DOMAIN disk = 0..size - 1,
                    after = Patched(disk, off, first), PatchedDomain
  <1>3. ASSUME NEW c \in 0..size - 1
        PROVE  after[c] = IF c \in off..m - 1 THEN data[c - off + 1] ELSE disk[c]
    <2>1. CASE c \in off..m - 1
      <3> DEFINE i == c - off + 1
      <3>1. c \in Nat /\ i \in Nat /\ 1 <= i /\ i <= b /\ c + 1 = off + i
        BY ONLY off \in Nat, b \in Nat, m = off + b, <2>1
      <3>2. Patched(disk, off, first)[c] = first[i]
        <4>1. c \in off..off + Len(first) - 1 /\ c - off + 1 = i
          BY <3>1, <1>a
        <4> QED BY ONLY <4>1 DEF Patched
      <3>3. first[i] = data[i]
        BY <3>1, <1>b
      <3> QED BY <2>1, <3>2, <3>3
    <2>2. CASE c \notin off..m - 1
      <3>1. c \in Nat /\ c \in DOMAIN disk /\ (c < off \/ c >= off + b)
        BY <2>2
      <3>2. Patched(disk, off, first)[c] = disk[c]
        BY ONLY off \in Nat, b \in Nat, <3>1, <1>a, PatchedOld
      <3> QED BY <2>2, <3>2
    <2> QED BY <2>1, <2>2
  <1>4. ASSUME NEW c \in o..o + l - 1
        PROVE  new[c] = IF c \in m..e - 1 THEN data[c - off + 1] ELSE after[c]
    <2>1. CASE c \in m..e - 1
      <3> DEFINE i == c - m + 1
      <3>1. c \in Nat /\ i \in Nat /\ 1 <= i /\ i <= r /\ c + 1 = m + i
        BY <2>1
      <3>2. Patched(held, m, rest)[c] = rest[i]
        <4>1. c \in m..m + Len(rest) - 1 /\ c \in 0..m + Len(rest) - 1 /\ c - m + 1 = i
          BY <3>1, <1>a
        <4> QED BY ONLY <4>1 DEF Patched
      <3>3. rest[i] = data[b + i] /\ b + i = c - off + 1
        BY <3>1, <1>b
      <3> QED BY <2>1, <3>2, <3>3
    <2>2. CASE c \notin m..e - 1
      <3>1. c \in DOMAIN held /\ held[c] = after[c] /\ c \in Nat /\ (c < m \/ c >= m + r)
        BY SMTT(40), <2>2 DEF Buffer
      <3>2. Patched(held, m, rest)[c] = held[c]
        BY ONLY m \in Nat, r \in Nat, <1>1, <3>1, <1>a, PatchedOld
      <3> QED BY <2>2, <3>1, <3>2
    <2> QED BY <2>1, <2>2
  <1>5. Len(back) = l /\ \A i \in 1..l : back[i] = new[o + i - 1]
    BY DEF Content
  <1> DEFINE final == Patched(after, o, back)
             exact == Patched(disk, off, data)
  <1>6. DOMAIN final = 0..size - 1
    BY ONLY size \in Nat, o \in Nat, l \in Nat, o + l <= size, <1>2, <1>5, PatchedDomain
  <1>7. DOMAIN exact = 0..size - 1
    BY ONLY size \in Nat, off \in Nat, n \in Nat, e <= size, Len(data) = n,
      DOMAIN disk = 0..size - 1,
            <1>1, PatchedDomain
  <1>8. ASSUME NEW c \in 0..size - 1 PROVE final[c] = exact[c]
    <2>1. exact[c] = IF c \in off..e - 1 THEN data[c - off + 1] ELSE disk[c]
      <3>1. c \in Nat
        OBVIOUS
      <3>2. CASE c \in off..e - 1
        <4> DEFINE i == c - off + 1
        <4>1. i \in Nat /\ 1 <= i /\ i <= n /\ c + 1 = off + i
          BY <1>1, <3>2
        <4>2. Patched(disk, off, data)[c] = data[i]
          <5>1. c \in off..off + Len(data) - 1 /\ c - off + 1 = i
            BY <4>1
          <5> QED BY ONLY <5>1 DEF Patched
        <4> QED BY <3>2, <4>2
      <3>3. CASE c \notin off..e - 1
        <4>1. c \in DOMAIN disk /\ (c < off \/ c >= off + n)
          BY <1>1, <3>3
        <4>2. Patched(disk, off, data)[c] = disk[c]
          BY ONLY off \in Nat, n \in Nat, <3>1, <4>1, Len(data) = n, PatchedOld
        <4> QED BY <3>3, <4>2
      <3> QED BY <3>2, <3>3
    <2>2. CASE c \in o..o + l - 1
      <3> DEFINE i == c - o + 1
      <3>1. c \in Nat /\ i \in Nat /\ 1 <= i /\ i <= l /\ c + 1 = o + i /\ o + i - 1 = c
        BY <2>2
      <3>2. Patched(after, o, back)[c] = back[i]
        <4>1. c \in o..o + Len(back) - 1 /\ c - o + 1 = i
          BY ONLY <3>1, <1>5, o \in Nat, l \in Nat
        <4> QED BY ONLY <4>1 DEF Patched
      <3>3. final[c] = new[c]
        BY <1>5, <3>1, <3>2
      <3> HIDE DEF final, exact
      <3>4. new[c] = IF c \in m..e - 1 THEN data[c - off + 1] ELSE after[c]
        BY <1>4, <2>2
      <3>5. after[c] = IF c \in off..m - 1 THEN data[c - off + 1] ELSE disk[c]
        BY <1>3
      <3> QED BY ONLY SMTT(40), off \in Nat, m \in Nat, e \in Nat, <1>1, c \in 0..size - 1, size \in Nat,
                      <2>1, <3>3, <3>4, <3>5
    <2>3. CASE c \notin o..o + l - 1
      <3>1. c \in Nat /\ c \in DOMAIN after /\ (c < o \/ c >= o + l)
        BY SMTT(40), <1>2, <2>3
      <3>2. Patched(after, o, back)[c] = after[c]
        BY ONLY o \in Nat, l \in Nat, <1>5, <3>1, PatchedOld
      <3>3. final[c] = after[c]
        BY <3>2
      <3> HIDE DEF final, exact
      <3>4. after[c] = IF c \in off..m - 1 THEN data[c - off + 1] ELSE disk[c]
        BY <1>3
      <3>5. c < m \/ c >= e
        BY <2>3
      <3> QED BY ONLY SMTT(40), off \in Nat, m \in Nat, e \in Nat, <1>1, c \in 0..size - 1, size \in Nat,
                      <2>1, <3>3, <3>4, <3>5
    <2> QED BY <2>2, <2>3
  <1>9. final = [c \in DOMAIN final |-> final[c]] /\ exact = [c \in DOMAIN exact |-> exact[c]]
    BY ONLY PatchedIsFunction
  <1> HIDE DEF final, exact
  <1>10. final = exact
    BY ONLY <1>6, <1>7, <1>8, <1>9
  <1> QED BY <1>10 DEF final, exact

\* A write of any length at any offset leaves a drive as if it could be written cell by
\* cell: what's given is there, and nothing next to it in its sectors has changed.
THEOREM WriteAtIsExact ==
  ASSUME NEW s \in Nat \ {0}, NEW size \in Nat, size % s = 0,
         NEW V, NEW disk \in [0..size - 1 -> V],
         NEW off \in Nat, NEW data \in Seq(V), off + Len(data) <= size
  PROVE  WriteAt(disk, off, data, s) = Patched(disk, off, data)
  <1> DEFINE len   == Len(data)
             body  == WriteBody(off, len, s)
             whole == Around(off + body, len - body, s)
             first == SubSeq(data, 1, body)
             rest  == SubSeq(data, body + 1, len)
             m     == off + body
             e     == off + len
             o     == whole.off
             l     == whole.len
             head  == off + body - whole.off
             known == UNION {f..f + s - 1 : f \in Partial(whole, head, head + len - body, s)}
             after == Patched(disk, off, first)
             held  == Buffer(after, known, whole.off, whole.len)
             new   == Patched(held, off + body, rest)
             back  == Content(new, whole.off, whole.len)
  <1>1. len \in Nat /\ body \in Nat /\ body <= len
    <2>1. len \in Nat
      OBVIOUS
    <2> HIDE DEF len
    <2> QED BY <2>1, WriteBodyFacts
  <1>2. WriteAt(disk, off, data, s) = IF body = len THEN after ELSE Patched(after, whole.off, back)
    BY Zenon DEF WriteAt
  <1>3. data \in [1..len -> V] /\ off + len <= size
    OBVIOUS
  <1>4. /\ first \in Seq(V) /\ Len(first) = body /\ rest \in Seq(V) /\ Len(rest) = len - body
        /\ \A i \in 1..body : first[i] = data[i]
        /\ \A i \in 1..len - body : rest[i] = data[body + i]
    <2> HIDE DEF body
    <2> QED BY SMTT(40), <1>1
  <1>5. CASE body = len
    <2>1. first = data
      <3> HIDE DEF body
      <3> QED BY <1>1, <1>5
    <2> QED BY <1>2, <1>5, <2>1
  <1>6. CASE body < len
    <2>1. /\ m \in Nat /\ e \in Nat /\ m < e /\ e <= size /\ off <= m
          /\ m + (len - body) = e /\ len - body \in Nat
      <3>1. off + len <= size
        BY <1>3
      <3> HIDE DEF body, len
      <3> QED BY ONLY off \in Nat, size \in Nat, <1>1, <3>1, <1>6 DEF m, e
    <2>2. /\ o \in Nat /\ o % s = 0 /\ o <= m /\ m < o + s
          /\ l \in Nat /\ l % s = 0 /\ e <= o + l /\ o + l < e + s
          /\ e % s = 0 => o + l = e
      <3> DEFINE n == len - body
      <3> HIDE DEF body, len, m, e, n
      <3>1. m \in Nat /\ n \in Nat /\ m + n = e
        BY <2>1 DEF n
      <3>2. whole = Around(m, n, s)
        BY DEF m, n
      <3> HIDE DEF whole
      <3> QED BY ONLY ZenonT(40), s \in Nat \ {0}, <3>1, <3>2, AroundFacts DEF o, l
    <2>3. o + l <= size
      <3>1. o \in Int /\ l \in Int /\ o % s = 0 /\ l % s = 0 /\ o + l \in Nat /\ o + l < e + s
        <4> HIDE DEF o, l, e
        <4> QED BY <2>1, <2>2
      <3> DEFINE up == o + l
      <3> HIDE DEF o, l, e
      <3>2. up % s = 0
        <4>1. (o + l) % s = l % s
          BY ONLY s \in Nat \ {0}, <3>1, AddMultiple
        <4> QED BY <3>1, <4>1
      <3>3. up \in Nat /\ up < e + s
        BY <3>1
      <3> HIDE DEF up
      <3>4. up <= size
        BY ONLY s \in Nat \ {0}, size \in Nat, size % s = 0, <2>1, <3>3, <3>2, WithinDrive
      <3> QED BY <3>4 DEF up
    <2>4. \A c \in o..o + l - 1 : c \notin m..e - 1 => c \in known
      <3>1. head = m - o
        <4>1. m = off + body /\ o = whole.off /\ head = off + body - whole.off
          BY Zenon
        <4>2. o \in Nat
          BY <2>2
        <4> HIDE DEF head, m, o, body, whole
        <4> QED BY ONLY off \in Nat, <1>1, <4>1, <4>2
      <3>2. head + len - body = e - o
        <4>1. o \in Nat /\ m \in Nat /\ e = m + (len - body)
          BY <2>1, <2>2
        <4> HIDE DEF head, m, o, e, len, body
        <4> QED BY ONLY <1>1, <4>1, <3>1
      <3> DEFINE u == m - o
                 v == e - o
      <3>3. known = UNION {f..f + s - 1 : f \in Partial(whole, u, v, s)}
        <4>1. head = u /\ head + len - body = v
          BY <3>1, <3>2
        <4> HIDE DEF u, v, head, len, body, whole
        <4> QED BY ONLY <4>1 DEF known
      <3>4. /\ whole.off \in Nat /\ whole.off % s = 0 /\ whole.off <= m /\ m < whole.off + s
            /\ whole.len \in Nat /\ whole.len % s = 0
            /\ e <= whole.off + whole.len /\ whole.off + whole.len < e + s
            /\ e % s = 0 => whole.off + whole.len = e
        BY <2>2
      <3>5. m \in Nat /\ e \in Nat /\ m < e
        BY <2>1
      <3>6. \A c \in whole.off..whole.off + whole.len - 1 : c \notin m..e - 1 => c \in known
        <4> HIDE DEF whole, m, e, known, o, l
        <4>1. TAKE c \in whole.off..whole.off + whole.len - 1
        <4>2. HAVE c \notin m..e - 1
        <4>3. PICK f \in Partial(whole, m - whole.off, e - whole.off, s) : c \in f..f + s - 1
          BY ONLY s \in Nat \ {0}, <3>4, <3>5, <4>1, <4>2, KeptIsRead
        <4>4. Partial(whole, u, v, s) = Partial(whole, m - whole.off, e - whole.off, s)
          BY DEF o
        <4> HIDE DEF u, v
        <4> QED BY ONLY <3>3, <4>3, <4>4
      <3> QED BY <3>6
    <2>5. Patched(after, o, back) = Patched(disk, off, data)
      <3>1. DOMAIN disk = 0..size - 1
        OBVIOUS
      <3>2. /\ after = Patched(disk, off, first) /\ new = Patched(held, m, rest)
            /\ held = Buffer(after, known, o, l)
            /\ back = Content(new, o, l)
            /\ first = SubSeq(data, 1, body) /\ rest = SubSeq(data, body + 1, len)
            /\ Len(data) = len /\ m = off + body
        BY DEF m, o, l
      <3> DEFINE r == len - body
      <3>3. r \in Nat /\ r > 0 /\ len = body + r /\ e = m + r
        <4> HIDE DEF len, body
        <4> QED BY <1>1, <1>6, <2>1
      <3> HIDE DEF len, body, r, first, rest, m, e, o, l, known, after, held, new, back
      <3>4. WriteParts(size, disk, off, data, body, r, len, m, e, o, l, known, first, rest, after, held, new, back)
        BY ONLY size \in Nat, off \in Nat, <1>1, <2>1, <2>2, <2>3, <2>4, <3>1, <3>2, <3>3
        DEF WriteParts
      <3> QED BY ONLY data \in Seq(V), <3>4, WriteBack
    <2> QED BY <1>2, <1>6, <2>5
  <1> QED BY <1>1, <1>5, <1>6

-------------------------------------------------------------------------------
(* Extents *)

Ext == [start : Nat, len : Nat]
ByStart(v) == \A i, j \in DOMAIN v : i <= j => v[i].start <= v[j].start

\* The extents of a sequence and their starts and lengths.
LEMMA ExtFacts ==
  ASSUME NEW v \in Seq(Ext)
  PROVE  /\ Len(v) \in Nat /\ DOMAIN v = 1..Len(v)
         /\ \A i \in 1..Len(v) : v[i] \in Ext /\ v[i].start \in Nat /\ v[i].len \in Nat
<1>1. \A i \in 1..Len(v) : v[i] \in Ext
  BY ElementOfSeq
<1>2. \A e \in Ext : e.start \in Nat /\ e.len \in Nat
  BY DEF Ext
<1>3. Len(v) \in Nat /\ DOMAIN v = 1..Len(v)
  BY LenProperties
<1> QED BY <1>1, <1>2, <1>3

\* An extent goes after those that start no later.
LEMMA Place ==
  ASSUME NEW out \in Seq(Ext), NEW e \in Ext
  PROVE  \E k \in 1..Len(out) + 1 : /\ k > 1 => out[k - 1].start <= e.start
                                    /\ k <= Len(out) => e.start < out[k].start
<1> DEFINE K == {k \in 1..Len(out) + 1 : k <= Len(out) => e.start < out[k].start}
<1>0. Len(out) \in Nat /\ \A i \in 1..Len(out) : out[i].start \in Nat
  BY ExtFacts
<1>1. Len(out) + 1 \in K /\ K \subseteq Nat
  BY <1>0
<1>2. PICK k \in K : \A x \in K : k <= x
  <2> HIDE DEF K
  <2> QED BY <1>1, Minimum
<1>3. ASSUME k > 1
      PROVE  out[k - 1].start <= e.start
  <2>1. k - 1 \in 1..Len(out) /\ ~(k <= k - 1)
    BY <1>0, <1>3
  <2>2. k - 1 \notin K
    BY <1>2, <2>1
  <2>3. ~(e.start < out[k - 1].start)
    BY <2>1, <2>2, <1>0
  <2> QED BY SMTT(40), <2>1, <2>3, <1>0 DEF Ext
<1> QED BY <1>3

\* Inserting one element, place by place.
LEMMA InsertedAt ==
  ASSUME NEW S, NEW s \in Seq(S), NEW k \in 1..Len(s) + 1, NEW e \in S
  PROVE  /\ InsertAt(s, k, e) \in Seq(S) /\ Len(InsertAt(s, k, e)) = Len(s) + 1
         /\ \A i \in 1..Len(s) + 1 :
              InsertAt(s, k, e)[i] = IF i < k THEN s[i] ELSE IF i = k THEN e ELSE s[i - 1]
<1> DEFINE a == SubSeq(s, 1, k - 1)
           b == SubSeq(s, k, Len(s))
           m == a \o <<e>>
<1>0. Len(s) \in Nat /\ k - 1 \in 0..Len(s) /\ k \in Nat
  OBVIOUS
<1>1. a \in Seq(S) /\ Len(a) = k - 1 /\ \A i \in 1..k - 1 : a[i] = s[i]
  BY <1>0
<1>2. b \in Seq(S) /\ Len(b) = Len(s) - k + 1 /\ \A i \in 1..Len(s) - k + 1 : b[i] = s[k + i - 1]
  BY <1>0
<1> HIDE DEF a, b
<1>3. m \in Seq(S) /\ Len(m) = k /\ (\A i \in 1..k - 1 : m[i] = s[i]) /\ m[k] = e
  BY SMTT(40), <1>0, <1>1
<1> HIDE DEF m
<1>4. m \o b \in Seq(S) /\ Len(m \o b) = Len(s) + 1
  <2>1. Len(m) + Len(b) = Len(s) + 1
    BY <1>0, <1>2, <1>3
  <2> QED BY <1>2, <1>3, <2>1, ConcatProperties
<1>4a. \A i \in 1..Len(s) + 1 : (m \o b)[i] = IF i <= k THEN m[i] ELSE b[i - k]
  <2>1. Len(m) + Len(b) = Len(s) + 1
    BY <1>0, <1>2, <1>3
  <2>2. \A i \in 1..Len(m) + Len(b) : (m \o b)[i] = IF i <= Len(m) THEN m[i] ELSE b[i - Len(m)]
    BY SMTT(40), <1>2, <1>3, ConcatProperties
  <2> QED BY <1>3, <2>1, <2>2
<1>5. ASSUME NEW i \in 1..Len(s) + 1
      PROVE  (m \o b)[i] = IF i < k THEN s[i] ELSE IF i = k THEN e ELSE s[i - 1]
  <2>0. i \in Nat
    BY <1>0
  <2>1. CASE i <= k
    <3>1. (m \o b)[i] = m[i]
      BY <1>4a, <2>1
    <3>2. i < k => i \in 1..k - 1
      BY <2>1
    <3> QED BY <1>3, <2>1, <3>1, <3>2
  <2>2. CASE i > k
    <3>0. ~(i <= k) /\ ~(i < k) /\ i # k
      BY <1>0, <2>0, <2>2
    <3>1. (m \o b)[i] = b[i - k]
      BY <1>4a, <3>0, Zenon
    <3>2. i - k \in 1..Len(s) - k + 1 /\ k + (i - k) - 1 = i - 1
      BY <1>0, <2>2
    <3>3. b[i - k] = s[i - 1]
      BY <1>2, <3>2
    <3> QED BY <3>0, <3>1, <3>3, Zenon
  <2>3. i <= k \/ i > k
    BY <1>0, <2>0
  <2> QED BY <2>1, <2>2, <2>3, Zenon
<1>6. InsertAt(s, k, e) = m \o b
  BY DEF InsertAt, m, a, b
<1> QED BY <1>4, <1>5, <1>6

\* What's inserted is in its place, and everything else still there.
LEMMA InsertedFacts ==
  ASSUME NEW out \in Seq(Ext), ByStart(out), NEW e \in Ext
  PROVE  LET r == Inserted(out, e)
         IN  /\ r \in Seq(Ext) /\ Len(r) = Len(out) + 1 /\ ByStart(r)
             /\ \A i \in DOMAIN out : \E j \in DOMAIN r : r[j] = out[i]
             /\ \E j \in DOMAIN r : r[j] = e
             /\ \A j \in DOMAIN r : r[j] = e \/ \E i \in DOMAIN out : r[j] = out[i]
             /\ (\A i \in DOMAIN out : out[i].start <= e.start) => r = Append(out, e)
<1> DEFINE P(k) == /\ k > 1 => out[k - 1].start <= e.start
                   /\ k <= Len(out) => e.start < out[k].start
           r == Inserted(out, e)
           n == Len(out)
<1>0. n \in Nat /\ DOMAIN out = 1..n /\ e.start \in Nat /\ \A i \in 1..n : out[i].start \in Nat
  BY ExtFacts DEF Ext
<1>1. PICK k \in 1..n + 1 : P(k) /\ r = InsertAt(out, k, e)
  <2> DEFINE c == CHOOSE x \in 1..n + 1 : P(x)
  <2>1. \E x \in 1..n + 1 : P(x)
    BY Place
  <2>2. r = InsertAt(out, c, e)
    BY DEF Inserted
  <2> HIDE DEF P, r
  <2>3. c \in 1..n + 1 /\ P(c)
    BY <2>1
  <2> HIDE DEF c
  <2> QED BY <2>2, <2>3
<1> HIDE DEF r
<1>3. /\ r \in Seq(Ext) /\ Len(r) = n + 1
      /\ \A i \in 1..n + 1 : r[i] = IF i < k THEN out[i] ELSE IF i = k THEN e ELSE out[i - 1]
  <2>1. k \in 1..Len(out) + 1
    BY <1>1
  <2>2. r = InsertAt(out, k, e)
    BY <1>1
  <2>3. /\ InsertAt(out, k, e) \in Seq(Ext) /\ Len(InsertAt(out, k, e)) = Len(out) + 1
        /\ \A i \in 1..Len(out) + 1 :
             InsertAt(out, k, e)[i] = IF i < k THEN out[i] ELSE IF i = k THEN e ELSE out[i - 1]
    BY <2>1, InsertedAt
  <2> QED BY <2>2, <2>3, Zenon DEF n
<1>3a. DOMAIN r = 1..n + 1
  BY <1>0, <1>3
<1> HIDE DEF n
<1>4. \A i \in 1..k - 1 : out[i].start <= e.start
  <2> TAKE i \in 1..k - 1
  <2>1. i \in 1..n /\ k - 1 \in 1..n /\ i <= k - 1 /\ k > 1
    BY <1>0, <1>1
  <2>2. out[i].start <= out[k - 1].start
    BY <1>0, <2>1 DEF ByStart
  <2>3. out[k - 1].start <= e.start
    BY <1>1, <2>1
  <2> QED BY <1>0, <2>1, <2>2, <2>3
<1>5. \A i \in k..n : e.start <= out[i].start
  <2> TAKE i \in k..n
  <2>1. i \in 1..n /\ k \in 1..n /\ k <= i
    BY <1>0, <1>1
  <2>2. out[k].start <= out[i].start
    BY <1>0, <2>1 DEF ByStart
  <2>3. e.start < out[k].start
    BY <1>1, <2>1 DEF n
  <2> QED BY <1>0, <2>1, <2>2, <2>3
<1>6. ByStart(r)
  <2> SUFFICES ASSUME NEW i \in 1..n + 1, NEW j \in 1..n + 1, i <= j
               PROVE  r[i].start <= r[j].start
    BY <1>3a DEF ByStart
  <2>1. \A x, y \in 1..n : x <= y => out[x].start <= out[y].start
    BY <1>0 DEF ByStart
  <2>2. CASE j < k
    <3>1. r[i] = out[i] /\ r[j] = out[j] /\ i \in 1..n /\ j \in 1..n
      BY SMTT(40), <1>0, <1>1, <1>3, <2>2
    <3> QED BY <2>1, <3>1
  <2>3. CASE j = k /\ i < k
    <3>1. r[i] = out[i] /\ r[j] = e /\ i \in 1..k - 1
      BY <1>0, <1>1, <1>3, <2>3
    <3> QED BY <1>4, <3>1
  <2>4. CASE j = k /\ i = k
    <3>1. r[i] = e /\ r[j] = e
      BY <1>3, <2>4
    <3> QED BY <1>0, <3>1
  <2>5. CASE j > k /\ i < k
    <3>1. r[i] = out[i] /\ r[j] = out[j - 1] /\ i \in 1..n /\ j - 1 \in 1..n /\ i <= j - 1
      BY <1>0, <1>1, <1>3, <2>5
    <3> QED BY <2>1, <3>1
  <2>6. CASE j > k /\ i = k
    <3>1. r[i] = e /\ r[j] = out[j - 1] /\ j - 1 \in k..n
      BY <1>0, <1>1, <1>3, <2>6
    <3> QED BY <1>5, <3>1
  <2>7. CASE j > k /\ i > k
    <3>1. r[i] = out[i - 1] /\ r[j] = out[j - 1] /\ i - 1 \in 1..n /\ j - 1 \in 1..n /\ i - 1 <= j - 1
      BY <1>0, <1>1, <1>3, <2>7
    <3> QED BY <2>1, <3>1
  <2> QED BY <1>0, <1>1, <2>2, <2>3, <2>4, <2>5, <2>6, <2>7
<1>7. \A i \in 1..n : \E j \in 1..n + 1 : r[j] = out[i]
  <2> TAKE i \in 1..n
  <2>1. CASE i < k
    <3>1. r[i] = out[i] /\ i \in 1..n + 1
      BY <1>0, <1>3, <2>1
    <3> QED BY <3>1
  <2>2. CASE i >= k
    <3>1. i + 1 \in 1..n + 1 /\ ~(i + 1 < k) /\ i + 1 # k /\ (i + 1) - 1 = i
      BY <1>0, <1>1, <2>2
    <3>2. r[i + 1] = out[i]
      BY <1>3, <3>1
    <3> QED BY <3>1, <3>2
  <2> QED BY <1>0, <1>1, <2>1, <2>2
<1>8. r[k] = e /\ k \in 1..n + 1
  BY <1>1, <1>3
<1>9. \A j \in 1..n + 1 : r[j] = e \/ \E i \in 1..n : r[j] = out[i]
  <2> TAKE j \in 1..n + 1
  <2>1. CASE j < k
    <3>1. r[j] = out[j] /\ j \in 1..n
      BY <1>0, <1>1, <1>3, <2>1
    <3> QED BY <3>1
  <2>2. CASE j = k
    BY <1>8, <2>2
  <2>3. CASE j > k
    <3>1. r[j] = out[j - 1] /\ j - 1 \in 1..n
      BY <1>0, <1>1, <1>3, <2>3
    <3> QED BY <3>1
  <2> QED BY <1>0, <1>1, <2>1, <2>2, <2>3
<1>10. ASSUME \A i \in 1..n : out[i].start <= e.start
       PROVE  r = Append(out, e)
  <2>1. k = n + 1
    <3>1. k <= n => k \in 1..n /\ e.start < out[k].start
      BY <1>0, <1>1 DEF n
    <3>2. ~(k <= n)
      BY <1>0, <1>10, <3>1
    <3> QED BY <1>0, <1>1, <3>2
  <2>2. /\ Append(out, e) \in Seq(Ext) /\ Len(Append(out, e)) = n + 1
        /\ \A i \in 1..n : Append(out, e)[i] = out[i]
        /\ Append(out, e)[n + 1] = e
    BY DEF n
  <2>3. \A i \in 1..n + 1 : r[i] = Append(out, e)[i]
    <3> TAKE i \in 1..n + 1
    <3>1. i < n + 1 => i \in 1..n
      BY <1>0
    <3>2. i = n + 1 \/ i < n + 1
      BY <1>0
    <3> QED BY <1>3, <2>1, <2>2, <3>1, <3>2
  <2> QED BY <1>3, <2>2, <2>3, SeqEqual
<1> QED BY <1>0, <1>3, <1>3a, <1>6, <1>7, <1>8, <1>9, <1>10 DEF n, r
\* How sorting goes.
LEMMA SortedSteps ==
  ASSUME NEW v \in Seq(Ext)
  PROVE  \E g \in [0..Len(v) -> {s \in Seq(Ext) : ByStart(s)}] :
           /\ g[0] = <<>> /\ g[Len(v)] = Sorted(v)
           /\ \A i \in 1..Len(v) : g[i] = Inserted(g[i - 1], v[i])
<1> DEFINE A == {s \in Seq(Ext) : ByStart(s)}
           n == Len(v)
           F == [p \in A \X (1..n) |-> Inserted(p[1], v[p[2]])]
           P(iter) == iter = [x \in SUBSET (1..n) |->
                                IF x = {} THEN <<>>
                                ELSE Inserted(iter[x \ {Max(x)}], v[Max(x)])]
           c == CHOOSE iter : P(iter)
<1>0. n \in Nat /\ DOMAIN v = 1..n /\ \A i \in 1..n : v[i] \in Ext
  BY ExtFacts
<1>1. Sorted(v) = c[1..n]
  BY <1>0 DEF Sorted, FoldLeft, MapThenFoldSet
<1>2. <<>> \in A
  BY DEF ByStart
<1>3. \A a \in A : \A i \in 1..n : Inserted(a, v[i]) \in A
  BY <1>0, InsertedFacts
<1> HIDE DEF A
<1>4. IsOperation(F, A, n)
  BY <1>3 DEF IsOperation
<1>5. \A a \in A : \A i \in 1..n : F[<<a, i>>] = Inserted(a, v[i])
  OBVIOUS
<1> HIDE DEF F, n
<1>6. \A x \in SUBSET (1..n) : x # {} => Max(x) \in 1..n
  BY <1>0, MaxIs
<1>7. P(c)
  <2>1. PICK iter : IsFold(iter, A, n, <<>>, F)
    BY <1>0, <1>2, <1>4, FoldExists
  <2>2. \A x \in SUBSET (1..n) :
          iter[x] = IF x = {} THEN <<>>
                    ELSE Inserted(iter[x \ {Max(x)}], v[Max(x)])
    <3> TAKE x \in SUBSET (1..n)
    <3>1. iter[x \ {Max(x)}] \in A
      BY <2>1 DEF IsFold
    <3>2. iter[x] = IF x = {} THEN <<>> ELSE F[<<iter[x \ {Max(x)}], Max(x)>>]
      BY <2>1 DEF IsFold
    <3> QED BY <1>5, <1>6, <3>1, <3>2
  <2>3. P(iter)
    BY <2>1, <2>2 DEF IsFold
  <2> HIDE DEF P
  <2> QED BY <2>3
<1> HIDE DEF c
<1>8. c[{}] = <<>>
  BY <1>7
<1>9. ASSUME NEW x \in SUBSET (1..n), x # {}, c[x \ {Max(x)}] \in A
      PROVE  c[x] = F[<<c[x \ {Max(x)}], Max(x)>>]
  <2>1. c[x] = Inserted(c[x \ {Max(x)}], v[Max(x)])
    BY <1>7, <1>9
  <2> HIDE DEF P
  <2> QED BY <1>5, <1>6, <1>9, <2>1
<1> HIDE DEF P
<1>10. PICK g : IsSteps(g, A, n, <<>>, F) /\ g[n] = c[1..n]
  <2>1. Follows(c, A, n, <<>>, F)
    BY <1>8, <1>9 DEF Follows
  <2> QED BY <1>0, <1>2, <1>4, <2>1, FoldSteps
<1>11. \A i \in 1..n : g[i] = Inserted(g[i - 1], v[i])
  <2> TAKE i \in 1..n
  <2>1. i - 1 \in 0..n
    BY <1>0
  <2>2. g[i - 1] \in A /\ g[i] = F[<<g[i - 1], i>>]
    BY <1>10, <2>1 DEF IsSteps
  <2> QED BY <1>5, <2>2
<1>12. g \in [0..n -> A] /\ g[0] = <<>> /\ g[n] = Sorted(v)
  BY <1>1, <1>10 DEF IsSteps
<1> QED BY <1>11, <1>12 DEF A, n

\* The same extents, in the order of their starts.
LEMMA SortedFacts ==
  ASSUME NEW v \in Seq(Ext)
  PROVE  /\ Sorted(v) \in Seq(Ext) /\ ByStart(Sorted(v))
         /\ \A i \in DOMAIN v : \E j \in DOMAIN Sorted(v) : Sorted(v)[j] = v[i]
         /\ \A j \in DOMAIN Sorted(v) : \E i \in DOMAIN v : Sorted(v)[j] = v[i]
         /\ ByStart(v) => Sorted(v) = v
<1> DEFINE n == Len(v)
           A == {s \in Seq(Ext) : ByStart(s)}
<1>0. n \in Nat /\ DOMAIN v = 1..n /\ \A i \in 1..n : v[i] \in Ext
  BY ExtFacts
<1>1. PICK g \in [0..n -> A] : /\ g[0] = <<>> /\ g[n] = Sorted(v)
                               /\ \A i \in 1..n : g[i] = Inserted(g[i - 1], v[i])
  BY SortedSteps
<1>2. \A i \in 0..n : g[i] \in Seq(Ext) /\ ByStart(g[i])
  OBVIOUS
<1> DEFINE Holds(k) == \A i \in 1..k : \E j \in DOMAIN g[k] : g[k][j] = v[i]
           Only(k)  == \A j \in DOMAIN g[k] : \E i \in 1..k : g[k][j] = v[i]
           Same(k)  == ByStart(v) => g[k] = SubSeq(v, 1, k)
           T == {k \in 0..n : Holds(k) /\ Only(k) /\ Same(k)}
<1> HIDE DEF n, A
<1>3. 0 \in T
  <2>1. DOMAIN g[0] = {} /\ 1..0 = {} /\ SubSeq(v, 1, 0) = <<>> /\ 0 \in 0..n
    BY <1>0, <1>1
  <2> QED BY <1>1, <2>1
<1>4. ASSUME NEW k \in 1..n, k - 1 \in T
      PROVE  k \in T
  <2>0. k \in 0..n /\ k - 1 \in 0..n /\ k - 1 \in Nat
    BY <1>0
  <2>1. Holds(k - 1) /\ Only(k - 1) /\ Same(k - 1)
    BY <1>4
  <2> DEFINE out == g[k - 1]
             e == v[k]
             r == g[k]
  <2>2. out \in Seq(Ext) /\ ByStart(out) /\ e \in Ext
    BY <1>0, <1>2, <2>0
  <2>3. /\ \A i \in DOMAIN out : \E j \in DOMAIN r : r[j] = out[i]
        /\ \E j \in DOMAIN r : r[j] = e
        /\ \A j \in DOMAIN r : r[j] = e \/ \E i \in DOMAIN out : r[j] = out[i]
        /\ (\A i \in DOMAIN out : out[i].start <= e.start) => r = Append(out, e)
    <3>1. r = Inserted(out, e)
      BY <1>1
    <3> HIDE DEF out, e, r
    <3> QED BY ZenonT(40), <2>2, <3>1, InsertedFacts
  <2>4. Holds(k)
    <3> SUFFICES ASSUME NEW i \in 1..k
                 PROVE  \E j \in DOMAIN r : r[j] = v[i]
      OBVIOUS
    <3>1. CASE i = k
      BY <2>3, <3>1
    <3>2. CASE i # k
      <4>1. i \in 1..k - 1
        BY <3>2, <1>0
      <4>2. \E j \in DOMAIN out : out[j] = v[i]
        BY <2>1, <4>1
      <4> HIDE DEF out, r
      <4> QED BY <2>3, <4>2
    <3> QED BY <3>1, <3>2
  <2>5. Only(k)
    <3> SUFFICES ASSUME NEW j \in DOMAIN r
                 PROVE  \E i \in 1..k : r[j] = v[i]
      OBVIOUS
    <3>1. CASE r[j] = e
      <4>1. k \in 1..k
        BY <1>0
      <4> QED BY <3>1, <4>1
    <3>2. CASE \E i \in DOMAIN out : r[j] = out[i]
      <4>1. PICK i \in DOMAIN out : r[j] = out[i]
        BY <3>2
      <4>2. PICK x \in 1..k - 1 : out[i] = v[x]
        BY <2>1
      <4>3. x \in 1..k
        BY <1>0
      <4> HIDE DEF out, r
      <4> QED BY <4>1, <4>2, <4>3
    <3> HIDE DEF out, r, e
    <3> QED BY <2>3, <3>1, <3>2
  <2>6. Same(k)
    <3> SUFFICES ASSUME ByStart(v)
                 PROVE  r = SubSeq(v, 1, k)
      OBVIOUS
    <3>1. ASSUME NEW i \in DOMAIN out
          PROVE  out[i].start <= e.start
      <4>1. PICK x \in 1..k - 1 : out[i] = v[x]
        BY <2>1
      <4>2. v[x].start <= v[k].start
        BY SMTT(40), <1>0 DEF ByStart
      <4> QED BY <4>1, <4>2
    <3>2. r = Append(out, e)
      <4> HIDE DEF r, out, e
      <4> QED BY <2>3, <3>1
    <3>3. out = SubSeq(v, 1, k - 1)
      BY <2>1
    <3>4. Append(SubSeq(v, 1, k - 1), v[k]) = SubSeq(v, 1, k)
      <4> DEFINE s == SubSeq(v, 1, k - 1)
                 t == SubSeq(v, 1, k)
      <4>1. s \in Seq(Ext) /\ Len(s) = k - 1 /\ \A i \in 1..k - 1 : s[i] = v[i]
        BY <1>0
      <4>2. t \in Seq(Ext) /\ Len(t) = k /\ \A i \in 1..k : t[i] = v[i]
        BY <1>0
      <4> HIDE DEF s, t
      <4>3. Append(s, v[k]) \in Seq(Ext) /\ Len(Append(s, v[k])) = k
        BY <1>0, <4>1
      <4>4. \A i \in 1..k : Append(s, v[k])[i] = t[i]
        BY <1>0, <4>1, <4>2
      <4> QED BY <4>2, <4>3, <4>4, SeqEqual DEF s, t
    <3> QED BY <3>2, <3>3, <3>4
  <2> QED BY <2>0, <2>4, <2>5, <2>6
<1>5. n \in T
  <2>1. \A i \in 0..n : i \in T
    <3> HIDE DEF T
    <3> QED BY <1>0, <1>3, <1>4, Induction
  <2>2. n \in 0..n
    BY <1>0
  <2> HIDE DEF T
  <2> QED BY <2>1, <2>2
<1>6. g[n] = Sorted(v) /\ n \in 0..n /\ SubSeq(v, 1, n) = v
  BY <1>0, <1>1, SubSeqFull DEF n
<1>7. Holds(n) /\ Only(n) /\ Same(n)
  BY <1>5
<1> QED BY ZenonT(40), <1>0, <1>2, <1>6, <1>7

-------------------------------------------------------------------------------
(* Merging *)

\* What merging one more extent does: nothing if it's empty, or it becomes a part of the
\* last one, or it's the new last one.
LEMMA MergeIntoCases ==
  ASSUME NEW out \in Seq(Ext), NEW e \in Ext, NEW gap \in Nat
  PROVE  LET r == MergeInto(out, e, gap)
             n == Len(out)
         IN  /\ r \in Seq(Ext)
             /\ e.len = 0 => r = out
             /\ e.len > 0 /\ n > 0 /\ Joins(out[n], e, gap) =>
                  /\ Len(r) = n /\ \A i \in 1..n - 1 : r[i] = out[i]
                  /\ r[n].start = out[n].start
                  /\ End(r[n]) = Most(End(e), End(out[n]))
             /\ e.len > 0 /\ ~(n > 0 /\ Joins(out[n], e, gap)) => r = Append(out, e)
<1> DEFINE r == MergeInto(out, e, gap)
           n == Len(out)
           l == out[n]
           new == Extent(l.start, JoinedEnd(l, e) - l.start)
           s == SubSeq(out, 1, n - 1)
<1>0. n \in Nat /\ e.start \in Nat /\ e.len \in Nat /\ (out # <<>> <=> n > 0)
  BY ExtFacts DEF Ext
<1>1. CASE e.len = 0
  BY <1>1 DEF MergeInto
<1>2. CASE e.len > 0 /\ n > 0 /\ Joins(l, e, gap)
  <2>1. l.start \in Nat /\ l.len \in Nat
    BY <1>0, <1>2, ExtFacts
  <2>2. End(l) = l.start + l.len /\ End(e) = e.start + e.len
    BY DEF End
  <2>3. JoinedEnd(l, e) = Most(End(e), End(l)) /\ JoinedEnd(l, e) \in Nat
        /\ JoinedEnd(l, e) >= l.start
    BY SMTT(40), <1>0, <2>1, <2>2 DEF JoinedEnd, Most
  <2>4. new \in Ext /\ new.start = l.start /\ End(new) = Most(End(e), End(l))
    BY SMTT(40), <2>1, <2>3 DEF Extent, End, Ext
  <2> HIDE DEF new
  <2>5. s \in Seq(Ext) /\ Len(s) = n - 1 /\ \A i \in 1..n - 1 : s[i] = out[i]
    <3>1. n - 1 \in Nat /\ \A i \in 1..n - 1 : out[i] \in Ext
      BY <1>0, <1>2, ExtFacts
    <3> HIDE DEF n
    <3> QED BY <3>1, SubSeqProperties
  <2>6. r = s \o <<new>>
    BY <1>0, <1>2 DEF MergeInto, Front, Last, new
  <2> HIDE DEF s, r, l
  <2>7. r \in Seq(Ext) /\ Len(r) = n /\ (\A i \in 1..n - 1 : r[i] = s[i]) /\ r[n] = new
    BY SMTT(40), <1>0, <1>2, <2>4, <2>5, <2>6
  <2> QED BY SMTT(40), <1>0, <1>2, <2>4, <2>5, <2>7 DEF r, l
<1>3. CASE e.len > 0 /\ ~(n > 0 /\ Joins(l, e, gap))
  <2>1. r = Append(out, e)
    BY <1>0, <1>3 DEF MergeInto, Last
  <2> HIDE DEF r
  <2> QED BY <1>0, <1>3, <2>1 DEF r
<1>4. e.len = 0 \/ e.len > 0
  BY <1>0
<1> QED BY <1>1, <1>2, <1>3, <1>4

Full(v) == \A i \in DOMAIN v : v[i].len > 0
Within(v, size) == \A i \in DOMAIN v : v[i].len > 0 => End(v[i]) <= size
Apart(v, gap) == \A i \in 2..Len(v) : ~Joins(v[i - 1], v[i], gap)

\* How merging goes.
LEMMA MergeSteps ==
  ASSUME NEW v \in Seq(Ext), NEW gap \in Nat, NEW w \in Seq(Ext), w = Sorted(v)
  PROVE  \E g \in [0..Len(w) -> Seq(Ext)] :
           /\ g[0] = <<>> /\ g[Len(w)] = Merge(v, gap)
           /\ \A i \in 1..Len(w) : g[i] = MergeInto(g[i - 1], w[i], gap)
<1> DEFINE A == Seq(Ext)
           n == Len(w)
           F == [p \in A \X (1..n) |-> MergeInto(p[1], w[p[2]], gap)]
           P(iter) == iter = [x \in SUBSET (1..n) |->
                                IF x = {} THEN <<>>
                                ELSE MergeInto(iter[x \ {Max(x)}], w[Max(x)], gap)]
           c == CHOOSE iter : P(iter)
<1>0. n \in Nat /\ DOMAIN w = 1..n /\ \A i \in 1..n : w[i] \in Ext
  BY ExtFacts
<1>1. Merge(v, gap) = c[1..n]
  BY <1>0 DEF Merge, FoldLeft, MapThenFoldSet
<1>2. <<>> \in A
  OBVIOUS
<1>3. \A a \in A : \A i \in 1..n : MergeInto(a, w[i], gap) \in A
  BY <1>0, MergeIntoCases
<1> HIDE DEF A
<1>4. IsOperation(F, A, n)
  BY <1>3 DEF IsOperation
<1>5. \A a \in A : \A i \in 1..n : F[<<a, i>>] = MergeInto(a, w[i], gap)
  OBVIOUS
<1> HIDE DEF F, n
<1>6. \A x \in SUBSET (1..n) : x # {} => Max(x) \in 1..n
  BY <1>0, MaxIs
<1>7. P(c)
  <2>1. PICK iter : IsFold(iter, A, n, <<>>, F)
    BY <1>0, <1>2, <1>4, FoldExists
  <2>2. \A x \in SUBSET (1..n) :
          iter[x] = IF x = {} THEN <<>>
                    ELSE MergeInto(iter[x \ {Max(x)}], w[Max(x)], gap)
    <3> TAKE x \in SUBSET (1..n)
    <3>1. iter[x \ {Max(x)}] \in A
      BY <2>1 DEF IsFold
    <3>2. iter[x] = IF x = {} THEN <<>> ELSE F[<<iter[x \ {Max(x)}], Max(x)>>]
      BY <2>1 DEF IsFold
    <3> QED BY <1>5, <1>6, <3>1, <3>2
  <2>3. P(iter)
    BY <2>1, <2>2 DEF IsFold
  <2> HIDE DEF P
  <2> QED BY <2>3
<1> HIDE DEF c
<1>8. c[{}] = <<>>
  BY <1>7
<1>9. ASSUME NEW x \in SUBSET (1..n), x # {}, c[x \ {Max(x)}] \in A
      PROVE  c[x] = F[<<c[x \ {Max(x)}], Max(x)>>]
  <2>1. c[x] = MergeInto(c[x \ {Max(x)}], w[Max(x)], gap)
    BY <1>7, <1>9
  <2> HIDE DEF P
  <2> QED BY <1>5, <1>6, <1>9, <2>1
<1> HIDE DEF P
<1>10. PICK g : IsSteps(g, A, n, <<>>, F) /\ g[n] = c[1..n]
  <2>1. Follows(c, A, n, <<>>, F)
    BY <1>8, <1>9 DEF Follows
  <2> QED BY <1>0, <1>2, <1>4, <2>1, FoldSteps
<1>11. \A i \in 1..n : g[i] = MergeInto(g[i - 1], w[i], gap)
  <2> TAKE i \in 1..n
  <2>1. i - 1 \in 0..n
    BY <1>0
  <2>2. g[i - 1] \in A /\ g[i] = F[<<g[i - 1], i>>]
    BY <1>10, <2>1 DEF IsSteps
  <2> QED BY <1>5, <2>2
<1>12. g \in [0..n -> A] /\ g[0] = <<>> /\ g[n] = Merge(v, gap)
  BY <1>1, <1>10 DEF IsSteps
<1> QED BY <1>11, <1>12 DEF A, n

\* What merging keeps: no extent is empty, they're sorted and further apart than the gap,
\* all that was there is in one of them, and nothing goes further than it did.
Merged(out, w, k, gap) ==
  /\ out \in Seq(Ext) /\ Full(out) /\ Apart(out, gap)
  /\ \A i \in 1..k : \A c \in CellsOf(w[i]) : \E j \in DOMAIN out : c \in CellsOf(out[j])
  /\ out # <<>> => \E i \in 1..k : out[Len(out)].start = w[i].start
  /\ \A j \in DOMAIN out : \E i \in 1..k : w[i].len > 0 /\ End(out[j]) = End(w[i])

\* Where an extent ends.
LEMMA EndIs ==
  ASSUME NEW e \in Ext
  PROVE  End(e) = e.start + e.len /\ End(e) \in Nat /\ e.start <= End(e)
         /\ CellsOf(e) = e.start..End(e) - 1
<1>1. e.start \in Nat /\ e.len \in Nat
  BY DEF Ext
<1> QED BY <1>1 DEF End, CellsOf

\* Merging one more extent into those before it (merge's loop).
LEMMA MergedStep ==
  ASSUME NEW w \in Seq(Ext), ByStart(w), NEW gap \in Nat, NEW k \in 1..Len(w),
         NEW out, Merged(out, w, k - 1, gap)
  PROVE  Merged(MergeInto(out, w[k], gap), w, k, gap)
<1> DEFINE e == w[k]
           n == Len(out)
<1>0. /\ Len(w) \in Nat /\ DOMAIN w = 1..Len(w)
      /\ \A i \in 1..Len(w) : w[i] \in Ext /\ w[i].start \in Nat /\ w[i].len \in Nat
  BY ExtFacts
<1>1. /\ out \in Seq(Ext) /\ Full(out) /\ Apart(out, gap)
      /\ \A i \in 1..k - 1 : \A c \in CellsOf(w[i]) : \E j \in DOMAIN out : c \in CellsOf(out[j])
      /\ out # <<>> => \E i \in 1..k - 1 : out[n].start = w[i].start
      /\ \A j \in DOMAIN out : \E i \in 1..k - 1 : w[i].len > 0 /\ End(out[j]) = End(w[i])
  BY DEF Merged
<1>2. /\ n \in Nat /\ DOMAIN out = 1..n
      /\ \A i \in 1..n : out[i] \in Ext /\ out[i].start \in Nat /\ out[i].len \in Nat
  BY <1>1, ExtFacts
<1>3. k \in Nat /\ k - 1 \in Nat /\ 1..k = (1..k - 1) \cup {k} /\ e \in Ext
  BY <1>0
<1>4. PICK r : r = MergeInto(out, e, gap)
  OBVIOUS
<1>5. /\ r \in Seq(Ext)
      /\ e.len = 0 => r = out
      /\ e.len > 0 /\ n > 0 /\ Joins(out[n], e, gap) =>
           /\ Len(r) = n /\ \A i \in 1..n - 1 : r[i] = out[i]
           /\ r[n].start = out[n].start
           /\ End(r[n]) = Most(End(e), End(out[n]))
      /\ e.len > 0 /\ ~(n > 0 /\ Joins(out[n], e, gap)) => r = Append(out, e)
  BY SMTT(40), <1>1, <1>3, <1>4, MergeIntoCases
<1>6. /\ Len(r) \in Nat /\ DOMAIN r = 1..Len(r)
      /\ \A i \in 1..Len(r) : r[i] \in Ext /\ r[i].start \in Nat /\ r[i].len \in Nat
  BY <1>5, ExtFacts
<1>7. CASE e.len = 0
  <2>1. r = out /\ CellsOf(e) = {}
    BY <1>0, <1>5, <1>7 DEF CellsOf, End
  <2> HIDE DEF e, n
  <2>2. \A i \in 1..k : \A c \in CellsOf(w[i]) : i \in 1..k - 1
    BY <1>3, <2>1 DEF e
  <2> QED BY <1>1, <1>3, <1>4, <2>1, <2>2 DEF Merged, e, n
<1>8. CASE e.len > 0 /\ n > 0 /\ Joins(out[n], e, gap)
  <2>0. /\ Len(r) = n /\ \A i \in 1..n - 1 : r[i] = out[i]
        /\ r[n].start = out[n].start
        /\ End(r[n]) = Most(End(e), End(out[n]))
    BY <1>5, <1>8
  <2>1. /\ n \in 1..n /\ out[n] \in Ext /\ r[n] \in Ext /\ out[n].len > 0
        /\ End(e) \in Nat /\ End(out[n]) \in Nat
        /\ End(r[n]) >= End(e) /\ End(r[n]) >= End(out[n])
        /\ End(r[n]) = End(e) \/ End(r[n]) = End(out[n])
    <3>1. n \in 1..n /\ out[n] \in Ext /\ r[n] \in Ext /\ out[n].len > 0
      BY <1>1, <1>2, <1>6, <1>8, <2>0 DEF Full
    <3>2. End(e) \in Nat /\ End(out[n]) \in Nat
      BY <1>3, <3>1, EndIs
    <3> HIDE DEF e, n
    <3> QED BY <2>0, <3>1, <3>2 DEF Most
  <2>2. Full(r)
    <3> SUFFICES ASSUME NEW i \in 1..n
                 PROVE  r[i].len > 0
      BY <1>6, <2>0 DEF Full
    <3>1. CASE i = n
      <4>1. End(r[n]) = r[n].start + r[n].len /\ End(out[n]) = out[n].start + out[n].len
        BY DEF End
      <4>2. r[n].len \in Nat /\ out[n].start \in Nat /\ out[n].len \in Nat
        BY <1>2, <1>6, <2>0, <2>1
      <4>3. out[n].len > 0 /\ r[n].start = out[n].start /\ End(r[n]) >= End(out[n])
        BY <2>0, <2>1
      <4> HIDE DEF n, e
      <4>4. r[n].len > 0
        BY <4>1, <4>2, <4>3
      <4> QED BY <3>1, <4>4
    <3>2. CASE i # n
      <4>1. i \in 1..n - 1 /\ i \in DOMAIN out
        <5> HIDE DEF n
        <5> QED BY <1>2, <3>2
      <4> QED BY <1>1, <2>0, <4>1 DEF Full
    <3> QED BY <3>1, <3>2
  <2>3. Apart(r, gap)
    <3> SUFFICES ASSUME NEW i \in 2..n
                 PROVE  ~Joins(r[i - 1], r[i], gap)
      BY <2>0 DEF Apart
    <3>1. ~Joins(out[i - 1], out[i], gap)
      BY <1>1 DEF Apart
    <3>2. i - 1 \in 1..n - 1
      BY <1>2
    <3>3. r[i - 1] = out[i - 1]
      BY <2>0, <3>2
    <3>4. r[i].start = out[i].start
      <4>1. i = n \/ i \in 1..n - 1
        <5> HIDE DEF n
        <5> QED BY <1>2
      <4> QED BY <2>0, <4>1
    <3> QED BY <3>1, <3>3, <3>4 DEF Joins
  <2>4. ASSUME NEW j \in DOMAIN out, NEW c \in CellsOf(out[j])
        PROVE  j \in DOMAIN r /\ c \in CellsOf(r[j])
    <3>0. j \in DOMAIN r
      BY <1>2, <1>6, <2>0
    <3>1. CASE j = n
      <4>1. CellsOf(out[n]) = out[n].start..End(out[n]) - 1
            /\ CellsOf(r[n]) = r[n].start..End(r[n]) - 1
        BY DEF CellsOf
      <4>2. out[n].start \in Nat /\ End(out[n]) \in Nat /\ End(r[n]) \in Nat
        BY <1>2, <2>1, EndIs
      <4>3. r[n].start = out[n].start /\ End(r[n]) >= End(out[n])
        BY <2>0, <2>1
      <4>4. c \in CellsOf(out[n])
        BY <3>1
      <4> HIDE DEF n, e
      <4>5. c \in CellsOf(r[n])
        BY <4>1, <4>2, <4>3, <4>4
      <4> QED BY <3>0, <3>1, <4>5
    <3>2. CASE j # n
      <4>1. j \in 1..n - 1
        BY <1>2, <3>2
      <4> QED BY <2>0, <3>0, <4>1
    <3> QED BY <3>1, <3>2
  <2>5. ASSUME NEW c \in CellsOf(e)
        PROVE  n \in DOMAIN r /\ c \in CellsOf(r[n])
    <3>1. \E i \in 1..k - 1 : out[n].start = w[i].start
      BY <1>1, <1>2, <1>8
    <3>2. out[n].start <= e.start
      BY <1>0, <1>3, <3>1 DEF ByStart
    <3>3. CellsOf(e) = e.start..End(e) - 1 /\ CellsOf(r[n]) = r[n].start..End(r[n]) - 1
      BY DEF CellsOf
    <3>4. out[n].start \in Nat /\ e.start \in Nat /\ End(r[n]) \in Nat /\ n \in DOMAIN r
      BY <1>0, <1>2, <1>6, <2>0, <2>1, EndIs
    <3>5. r[n].start = out[n].start /\ End(r[n]) >= End(e) /\ End(e) \in Nat
      BY <2>0, <2>1
    <3> HIDE DEF n, e
    <3>6. c \in CellsOf(r[n])
      BY SMTT(40), <3>2, <3>3, <3>4, <3>5
    <3> QED BY <3>4, <3>6
  <2>6. \A i \in 1..k : \A c \in CellsOf(w[i]) : \E j \in DOMAIN r : c \in CellsOf(r[j])
    <3> TAKE i \in 1..k
    <3> TAKE c \in CellsOf(w[i])
    <3>1. CASE i = k
      BY <2>5, <3>1
    <3>2. CASE i \in 1..k - 1
      <4>1. PICK j \in DOMAIN out : c \in CellsOf(out[j])
        BY <1>1, <3>2
      <4> QED BY <2>4, <4>1
    <3> QED BY <1>3, <3>1, <3>2
  <2>7. \E i \in 1..k : r[Len(r)].start = w[i].start
    <3>1. PICK i \in 1..k - 1 : out[n].start = w[i].start
      BY <1>1, <1>2, <1>8
    <3> QED BY <1>3, <2>0, <3>1
  <2>8. \A j \in DOMAIN r : \E i \in 1..k : w[i].len > 0 /\ End(r[j]) = End(w[i])
    <3> TAKE j \in DOMAIN r
    <3>1. j \in DOMAIN out /\ (j # n => j \in 1..n - 1)
      BY <1>2, <1>6, <2>0
    <3>2. PICK i \in 1..k - 1 : w[i].len > 0 /\ End(out[j]) = End(w[i])
      BY <1>1, <3>1
    <3>3. i \in 1..k /\ k \in 1..k
      BY <1>3
    <3>4. CASE j # n
      BY <2>0, <3>1, <3>2, <3>3, <3>4
    <3>5. CASE j = n
      BY <1>8, <2>1, <3>2, <3>3, <3>5
    <3> QED BY <3>4, <3>5
  <2> HIDE DEF e, n
  <2> QED BY <1>4, <1>5, <2>2, <2>3, <2>6, <2>7, <2>8 DEF Merged, e
<1>9. CASE e.len > 0 /\ ~(n > 0 /\ Joins(out[n], e, gap))
  <2>0. r = Append(out, e)
    BY <1>5, <1>9
  <2>1. /\ Len(r) = n + 1 /\ r[n + 1] = e /\ \A i \in 1..n : r[i] = out[i]
    BY <1>1, <1>3, <2>0, AppendProperties
  <2>2. DOMAIN r = 1..n + 1 /\ (\A i \in 1..n + 1 : i = n + 1 \/ i \in 1..n)
        /\ n + 1 \in DOMAIN r /\ \A i \in 1..n : i \in DOMAIN r
    BY <1>2, <1>6, <2>1
  <2>3. Full(r)
    BY <1>1, <1>2, <1>9, <2>1, <2>2 DEF Full
  <2>4. Apart(r, gap)
    <3> SUFFICES ASSUME NEW i \in 2..n + 1
                 PROVE  ~Joins(r[i - 1], r[i], gap)
      BY <2>1 DEF Apart
    <3>1. CASE i = n + 1
      <4>1. n > 0 /\ i - 1 = n /\ n \in 1..n
        BY <1>2, <3>1
      <4>2. r[i - 1] = out[n] /\ r[i] = e
        BY <2>1, <3>1, <4>1
      <4> QED BY <1>9, <4>1, <4>2
    <3>2. CASE i # n + 1
      <4>1. i \in 2..n /\ i \in 1..n /\ i - 1 \in 1..n
        BY <1>2, <3>2
      <4>2. ~Joins(out[i - 1], out[i], gap)
        BY <1>1, <4>1 DEF Apart
      <4> QED BY <2>1, <4>1, <4>2
    <3> QED BY <3>1, <3>2
  <2>5. \A i \in 1..k : \A c \in CellsOf(w[i]) : \E j \in DOMAIN r : c \in CellsOf(r[j])
    <3> TAKE i \in 1..k
    <3> TAKE c \in CellsOf(w[i])
    <3>1. CASE i = k
      BY <2>1, <2>2, <3>1
    <3>2. CASE i \in 1..k - 1
      <4>1. PICK j \in 1..n : c \in CellsOf(out[j])
        BY <1>1, <1>2, <3>2
      <4> QED BY <2>1, <2>2, <4>1
    <3> QED BY <1>3, <3>1, <3>2
  <2>6. \E i \in 1..k : r[Len(r)].start = w[i].start
    <3>1. k \in 1..k
      BY <1>3
    <3> QED BY <2>1, <3>1
  <2>7. \A j \in DOMAIN r : \E i \in 1..k : w[i].len > 0 /\ End(r[j]) = End(w[i])
    <3> TAKE j \in DOMAIN r
    <3>1. CASE j = n + 1
      <4>1. k \in 1..k
        BY <1>3
      <4> QED BY <1>9, <2>1, <3>1, <4>1
    <3>2. CASE j \in 1..n
      <4>1. PICK i \in 1..k - 1 : w[i].len > 0 /\ End(out[j]) = End(w[i])
        BY <1>1, <1>2, <3>2
      <4> QED BY <1>3, <2>1, <3>2, <4>1
    <3> QED BY <2>2, <3>1, <3>2
  <2> HIDE DEF e, n
  <2> QED BY <1>4, <1>5, <2>3, <2>4, <2>5, <2>6, <2>7 DEF Merged, e
<1>10. e.len = 0 \/ e.len > 0
  BY <1>0
<1> QED BY <1>7, <1>8, <1>9, <1>10

\* The whole of merge, for every list of extents and every gap.
LEMMA MergeFacts ==
  ASSUME NEW v \in Seq(Ext), NEW gap \in Nat
  PROVE  LET r == Merge(v, gap)
         IN  /\ r \in Seq(Ext) /\ Full(r) /\ Apart(r, gap)
             /\ AllCells(v) \subseteq AllCells(r)
             /\ \A size \in Nat : Within(v, size) => Within(r, size)
<1> DEFINE w == Sorted(v)
           n == Len(w)
           r == Merge(v, gap)
<1>1. /\ w \in Seq(Ext) /\ ByStart(w)
      /\ \A i \in DOMAIN v : \E j \in DOMAIN w : w[j] = v[i]
      /\ \A j \in DOMAIN w : \E i \in DOMAIN v : w[j] = v[i]
  BY SortedFacts
<1>2. \E g \in [0..n -> Seq(Ext)] : /\ g[0] = <<>> /\ g[n] = r
                                    /\ \A i \in 1..n : g[i] = MergeInto(g[i - 1], w[i], gap)
  <2>1. w = Sorted(v)
    OBVIOUS
  <2> HIDE DEF w, r
  <2> QED BY ZenonT(40), <1>1, <2>1, MergeSteps DEF r
<1>3. PICK g : /\ g[0] = <<>> /\ g[n] = r
               /\ \A i \in 1..n : g[i] = MergeInto(g[i - 1], w[i], gap)
  BY <1>2
<1> HIDE DEF w, r
<1>4. n \in Nat /\ DOMAIN w = 1..n
  BY <1>1, ExtFacts
<1> HIDE DEF n
<1> DEFINE T == {k \in 0..n : Merged(g[k], w, k, gap)}
<1>5. 0 \in T
  <2>1. <<>> \in Seq(Ext) /\ DOMAIN <<>> = {} /\ Len(<<>>) = 0 /\ 0 \in 0..n /\ 1..0 = {} /\ 2..0 = {}
    BY <1>4
  <2>2. Merged(<<>>, w, 0, gap)
    BY <2>1 DEF Merged, Full, Apart
  <2> QED BY <1>3, <2>1, <2>2
<1>6. ASSUME NEW k \in 1..n, k - 1 \in T
      PROVE  k \in T
  <2>1. Merged(g[k - 1], w, k - 1, gap) /\ k \in 0..n
    BY <1>4, <1>6
  <2>2. Merged(MergeInto(g[k - 1], w[k], gap), w, k, gap)
    BY <1>1, <2>1, MergedStep DEF n
  <2>3. g[k] = MergeInto(g[k - 1], w[k], gap)
    BY <1>3
  <2> QED BY <2>1, <2>2, <2>3
<1>7. Merged(r, w, n, gap)
  <2>1. \A i \in 0..n : i \in T
    <3> HIDE DEF T
    <3> QED BY <1>4, <1>5, <1>6, Induction
  <2>2. n \in 0..n
    BY <1>4
  <2>3. Merged(g[n], w, n, gap)
    BY <2>1, <2>2
  <2> QED BY <1>3, <2>3
<1>8. r \in Seq(Ext) /\ Full(r) /\ Apart(r, gap)
  BY <1>7 DEF Merged
<1>9. AllCells(v) \subseteq AllCells(r)
  <2> SUFFICES ASSUME NEW c \in AllCells(v)
               PROVE  c \in AllCells(r)
    OBVIOUS
  <2>1. PICK i \in DOMAIN v : c \in CellsOf(v[i])
    BY DEF AllCells
  <2>2. PICK j \in 1..n : w[j] = v[i]
    BY <1>1, <1>4
  <2>3. \E x \in DOMAIN r : c \in CellsOf(r[x])
    BY <1>7, <2>1, <2>2 DEF Merged
  <2> QED BY <2>3 DEF AllCells
<1>10. ASSUME NEW size \in Nat, Within(v, size)
       PROVE  Within(r, size)
  <2> SUFFICES ASSUME NEW j \in DOMAIN r
               PROVE  End(r[j]) <= size
    BY DEF Within
  <2>1. PICK i \in 1..n : w[i].len > 0 /\ End(r[j]) = End(w[i])
    BY <1>7 DEF Merged
  <2>2. PICK x \in DOMAIN v : w[i] = v[x]
    BY <1>1, <1>4
  <2> QED BY <1>10, <2>1, <2>2 DEF Within
<1> QED BY <1>8, <1>9, <1>10 DEF r

\* No extent begins before the one before it ends.
Ordered(v) == \A i \in 2..Len(v) : End(v[i - 1]) <= v[i].start

\* What's apart is in order.
LEMMA ApartIsOrdered ==
  ASSUME NEW v \in Seq(Ext), NEW gap, Apart(v, gap)
  PROVE  Ordered(v)
<1> SUFFICES ASSUME NEW i \in 2..Len(v)
             PROVE  End(v[i - 1]) <= v[i].start
  BY DEF Ordered
<1>1. i - 1 \in 1..Len(v) /\ i \in 1..Len(v)
  BY ExtFacts
<1>2. v[i - 1] \in Ext /\ v[i].start \in Nat
  BY <1>1, ExtFacts
<1>3. ~(v[i].start <= End(v[i - 1]))
  BY DEF Apart, Joins
<1> QED BY SMTT(40), <1>2, <1>3, EndIs

\* In order, every extent ends before all that come after it, and before the end of the data.
LEMMA OrderedFacts ==
  ASSUME NEW v \in Seq(Ext), Ordered(v)
  PROVE  /\ \A i, j \in DOMAIN v : i < j => End(v[i]) <= v[j].start
         /\ ByStart(v)
         /\ DataEnd(v) \in Nat /\ \A i \in DOMAIN v : End(v[i]) <= DataEnd(v)
<1> DEFINE n == Len(v)
<1>0. n \in Nat /\ DOMAIN v = 1..n
      /\ \A i \in 1..n : /\ v[i] \in Ext /\ v[i].start \in Nat
                         /\ End(v[i]) \in Nat /\ v[i].start <= End(v[i])
  BY ExtFacts, EndIs
<1> DEFINE T == {k \in 0..n : \A i, j \in 1..k : i < j => End(v[i]) <= v[j].start}
<1>1. 0 \in T
  BY <1>0
<1>2. ASSUME NEW k \in 1..n, k - 1 \in T
      PROVE  k \in T
  <2>1. \A i, j \in 1..k - 1 : i < j => End(v[i]) <= v[j].start
    BY <1>2
  <2>2. k \in Nat /\ k - 1 \in Nat /\ k \in 0..n
    BY <1>0
  <2>3. ASSUME NEW i \in 1..k, NEW j \in 1..k, i < j
        PROVE  End(v[i]) <= v[j].start
    <3>1. CASE j < k
      <4>1. i \in 1..k - 1 /\ j \in 1..k - 1
        BY <2>2, <2>3, <3>1
      <4> QED BY <2>1, <2>3, <4>1
    <3>2. CASE j = k
      <4>1. k \in 2..n /\ i \in 1..k - 1 /\ k - 1 \in 1..n /\ i \in 1..n
        BY <1>0, <2>2, <2>3, <3>2
      <4>2. End(v[k - 1]) <= v[k].start
        BY <4>1 DEF Ordered
      <4>3. CASE i = k - 1
        BY <3>2, <4>2, <4>3
      <4>4. CASE i < k - 1
        <5>1. k - 1 \in 1..k - 1
          BY <2>2, <4>1
        <5>2. End(v[i]) <= v[k - 1].start
          BY <2>1, <4>1, <4>4, <5>1
        <5>3. /\ End(v[i]) \in Nat /\ v[k - 1].start \in Nat /\ End(v[k - 1]) \in Nat
              /\ v[k].start \in Nat /\ v[k - 1].start <= End(v[k - 1])
          BY <1>0, <4>1
        <5> QED BY SMTT(40), <3>2, <4>2, <5>2, <5>3
      <4> QED BY <2>2, <4>1, <4>3, <4>4
    <3> QED BY <2>2, <3>1, <3>2
  <2> QED BY <2>2, <2>3
<1>3. n \in T
  <2>1. \A i \in 0..n : i \in T
    <3> HIDE DEF T
    <3> QED BY <1>0, <1>1, <1>2, Induction
  <2>2. n \in 0..n
    BY <1>0
  <2> QED BY <2>1, <2>2
<1>4. \A i, j \in 1..n : i < j => End(v[i]) <= v[j].start
  BY <1>3
<1> HIDE DEF n
<1>5. \A i, j \in 1..n : i <= j => v[i].start <= v[j].start
  <2> TAKE i, j \in 1..n
  <2>1. i < j => End(v[i]) <= v[j].start
    BY <1>4
  <2>2. /\ v[i].start \in Nat /\ End(v[i]) \in Nat /\ v[j].start \in Nat /\ v[i].start <= End(v[i])
    BY <1>0
  <2>3. i = j => v[i].start = v[j].start
    OBVIOUS
  <2>4. i <= j => i < j \/ i = j
    BY <1>0
  <2> QED BY <2>1, <2>2, <2>3, <2>4
<1>6. DataEnd(v) \in Nat /\ \A i \in 1..n : End(v[i]) <= DataEnd(v)
  <2>1. CASE n = 0
    <3>1. v = <<>> /\ 1..n = {}
      BY <1>0, <2>1 DEF n
    <3> QED BY <3>1 DEF DataEnd
  <2>2. CASE n > 0
    <3>1. v # <<>> /\ n \in 1..n
      BY <1>0, <2>2 DEF n
    <3>2. DataEnd(v) = End(v[n])
      BY <3>1 DEF DataEnd, Last, n
    <3>3. ASSUME NEW i \in 1..n
          PROVE  End(v[i]) <= End(v[n])
      <4>1. End(v[i]) \in Nat /\ v[n].start \in Nat /\ End(v[n]) \in Nat /\ v[n].start <= End(v[n])
        BY <1>0, <3>1
      <4>2. i < n => End(v[i]) <= v[n].start
        BY <1>4, <3>1
      <4>3. i = n => End(v[i]) = End(v[n])
        OBVIOUS
      <4>4. i < n \/ i = n
        BY <1>0
      <4> QED BY <4>1, <4>2, <4>3, <4>4
    <3> QED BY <1>0, <3>1, <3>2, <3>3
  <2> QED BY <1>0, <2>1, <2>2
<1> QED BY <1>0, <1>4, <1>5, <1>6 DEF ByStart

\* Merging changes nothing once everything is apart.
LEMMA MergeOfApart ==
  ASSUME NEW v \in Seq(Ext), NEW gap \in Nat, Full(v), Apart(v, gap)
  PROVE  Merge(v, gap) = v
<1> DEFINE n == Len(v)
           r == Merge(v, gap)
<1>1. ByStart(v)
  BY ApartIsOrdered, OrderedFacts
<1>2. v = Sorted(v)
  BY <1>1, SortedFacts
<1>3. n \in Nat /\ DOMAIN v = 1..n /\ \A i \in 1..n : v[i] \in Ext
  BY ExtFacts
<1>4. \E g \in [0..n -> Seq(Ext)] : /\ g[0] = <<>> /\ g[n] = r
                                    /\ \A i \in 1..n : g[i] = MergeInto(g[i - 1], v[i], gap)
  <2> HIDE DEF r
  <2> QED BY <1>2, MergeSteps DEF r
<1>5. PICK g : /\ g[0] = <<>> /\ g[n] = r
               /\ \A i \in 1..n : g[i] = MergeInto(g[i - 1], v[i], gap)
  BY <1>4
<1> HIDE DEF r, n
<1> DEFINE T == {k \in 0..n : g[k] = SubSeq(v, 1, k)}
<1>6. 0 \in T
  <2>1. SubSeq(v, 1, 0) = <<>> /\ 0 \in 0..n
    BY <1>3
  <2> QED BY <1>5, <2>1
<1>7. ASSUME NEW k \in 1..n, k - 1 \in T
      PROVE  k \in T
  <2> DEFINE s == SubSeq(v, 1, k - 1)
  <2>1. g[k - 1] = s /\ k - 1 \in 0..n /\ k \in 0..n /\ k \in Nat
    BY <1>3, <1>7
  <2>2. s \in Seq(Ext) /\ Len(s) = k - 1 /\ \A i \in 1..k - 1 : s[i] = v[i]
    <3>1. k - 1 \in Nat /\ \A i \in 1..k - 1 : v[i] \in Ext
      BY <1>3, <2>1
    <3> QED BY <3>1, SubSeqProperties
  <2> HIDE DEF s
  <2>3. v[k].len > 0 /\ v[k] \in Ext
    BY <1>3 DEF Full
  <2>4. ~(Len(s) > 0 /\ Joins(s[Len(s)], v[k], gap))
    <3> SUFFICES ASSUME k - 1 > 0
                 PROVE  ~Joins(s[k - 1], v[k], gap)
      BY <2>2
    <3>1. k \in 2..Len(v) /\ k - 1 \in 1..k - 1
      BY <1>3, <2>1 DEF n
    <3> QED BY <2>2, <3>1 DEF Apart
  <2>5. MergeInto(s, v[k], gap) = Append(s, v[k])
    BY <2>2, <2>3, <2>4, MergeIntoCases
  <2>6. Append(s, v[k]) = SubSeq(v, 1, k)
    <3> DEFINE t == SubSeq(v, 1, k)
    <3>1. t \in Seq(Ext) /\ Len(t) = k /\ \A i \in 1..k : t[i] = v[i]
      <4>1. k \in Nat /\ \A i \in 1..k : v[i] \in Ext
        BY <1>3, <2>1
      <4> QED BY <2>1, <4>1, SubSeqProperties
    <3> HIDE DEF t
    <3>2. Append(s, v[k]) \in Seq(Ext) /\ Len(Append(s, v[k])) = k
      BY <2>1, <2>2, <2>3
    <3>3. \A i \in 1..k : Append(s, v[k])[i] = t[i]
      BY <2>1, <2>2, <3>1
    <3> QED BY <3>1, <3>2, <3>3, SeqEqual DEF t
  <2> QED BY <1>5, <2>1, <2>5, <2>6
<1>8. \A i \in 0..n : i \in T
  <2> HIDE DEF T
  <2> QED BY <1>3, <1>6, <1>7, Induction
<1>9. g[n] = SubSeq(v, 1, n)
  <2>1. n \in 0..n
    BY <1>3
  <2> QED BY <1>8, <2>1
<1> QED BY <1>5, <1>9, SubSeqFull DEF n, r

\* A gap as wide as the drive leaves one extent at most.
LEMMA MergeWide ==
  ASSUME NEW v \in Seq(Ext), NEW size \in Nat, NEW gap \in Nat, Within(v, size), gap >= size
  PROVE  Len(Merge(v, gap)) <= 1
<1> DEFINE r == Merge(v, gap)
<1>1. r \in Seq(Ext) /\ Full(r) /\ Apart(r, gap) /\ Within(r, size)
  BY MergeFacts
<1> HIDE DEF r
<1> SUFFICES ASSUME ~(Len(r) <= 1)
             PROVE  FALSE
  BY DEF r
<1>2. 2 \in 2..Len(r) /\ 2 \in 1..Len(r) /\ 1 \in 1..Len(r) /\ 2 - 1 = 1
  BY <1>1, ExtFacts
<1>3. ~Joins(r[1], r[2], gap)
  BY <1>1, <1>2 DEF Apart
<1>4. r[1] \in Ext /\ r[2] \in Ext /\ r[2].len > 0 /\ End(r[2]) <= size /\ r[2].len \in Nat /\ r[2].start \in Nat
  BY <1>1, <1>2, ExtFacts DEF Full, Within
<1>5. End(r[1]) \in Nat /\ End(r[2]) = r[2].start + r[2].len
  BY <1>4, EndIs
<1>6. ~(r[2].start - End(r[1]) < gap)
  BY <1>3 DEF Joins
<1> QED BY SMTT(40), <1>4, <1>5, <1>6

-------------------------------------------------------------------------------
(* Normalizing *)

\* An aligned extent keeps what lies on the drive.
LEMMA AlignedFacts ==
  ASSUME NEW e \in Ext, NEW size \in Nat
  PROVE  /\ Aligned(e, size) \in Ext
         /\ Aligned(e, size).len > 0 => End(Aligned(e, size)) <= size
         /\ CellsOf(e) \cap 0..size - 1 \subseteq CellsOf(Aligned(e, size))
<1> DEFINE start == RoundDown(e.start, Align)
           stop == Least(End(e), size)
           end == Least(RoundUp(stop, Align), size)
           a == Aligned(e, size)
<1>0. Align \in Nat \ {0}
  BY ExtentsAssumption
<1>1. e.start \in Nat /\ e.len \in Nat /\ End(e) = e.start + e.len
  BY DEF Ext, End
<1>2. start \in Nat /\ start <= e.start
  BY <1>0, <1>1, RoundDownFacts
<1>3. stop \in Nat /\ stop <= size /\ stop <= End(e) /\ (stop = End(e) \/ stop = size)
  BY <1>1 DEF Least
<1>4. RoundUp(stop, Align) \in Nat /\ stop <= RoundUp(stop, Align)
  BY <1>0, <1>3, RoundUpFacts
<1>5. a = Extent(start, Most(end - start, 0))
  BY DEF Aligned
<1> HIDE DEF start, a, stop
<1>6. end \in Nat /\ end <= size /\ stop <= end
  BY <1>3, <1>4 DEF Least
<1> HIDE DEF end
<1>7. a.start = start /\ a.len = Most(end - start, 0) /\ a \in Ext
  BY <1>2, <1>5, <1>6 DEF Extent, Most, Ext
<1>8. End(a) = start + Most(end - start, 0)
  BY <1>7 DEF End
<1>9. a.len > 0 => End(a) <= size
  BY <1>2, <1>6, <1>7, <1>8 DEF Most
<1>10. ASSUME NEW c \in CellsOf(e) \cap 0..size - 1
       PROVE  c \in CellsOf(a)
  <2>1. c \in Nat /\ e.start <= c /\ c < End(e) /\ c < size
    BY <1>1 DEF CellsOf
  <2>2. c < stop
    BY <1>3, <2>1
  <2>3. start <= c /\ c < start + Most(end - start, 0)
    BY <1>2, <1>6, <2>1, <2>2, <1>1, <1>3 DEF Most
  <2> QED BY <1>2, <1>6, <1>7, <1>8, <2>1, <2>3 DEF CellsOf, Most
<1> QED BY <1>7, <1>9, <1>10 DEF a

\* Wider gaps keep what narrower ones keep apart.
LEMMA ApartWithLess ==
  ASSUME NEW v \in Seq(Ext), NEW gap \in Nat, Apart(v, gap), NEW less \in Nat, less <= gap
  PROVE  Apart(v, less)
<1> SUFFICES ASSUME NEW i \in 2..Len(v), Joins(v[i - 1], v[i], less)
             PROVE  Joins(v[i - 1], v[i], gap)
  BY DEF Apart
<1>1. i - 1 \in 1..Len(v) /\ i \in 1..Len(v)
  BY ExtFacts
<1>2. v[i].start \in Nat /\ End(v[i - 1]) \in Nat
  BY <1>1, ExtFacts, EndIs
<1> QED BY SMTT(40), <1>2 DEF Joins

\* The rounds of normalize: the gaps double, and there are at least `size` of them.
LEMMA NormalizeRounds ==
  ASSUME NEW v \in Seq(Ext), NEW size \in Nat
  PROVE  \E gap \in [0..size -> Nat], merged \in [0..size -> Seq(Ext)], rounds \in 0..size :
           /\ gap[0] = Gap /\ \A k \in 1..size : gap[k] = 2 * Most(gap[k - 1], Align)
           /\ merged[0] = Merge([i \in DOMAIN v |-> Aligned(v[i], size)], gap[0])
           /\ \A k \in 1..size : merged[k] = Merge(merged[k - 1], gap[k])
           /\ Normalize(v, size) = merged[rounds] /\ Len(merged[rounds]) <= MaxExtents
<1> DEFINE a == [i \in DOMAIN v |-> Aligned(v[i], size)]
           G(f) == f = [k \in 0..size |-> IF k = 0 THEN Gap ELSE 2 * Most(f[k - 1], Align)]
           gap == CHOOSE f : G(f)
           M(f) == f = [k \in 0..size |-> Merge(IF k = 0 THEN a ELSE f[k - 1], gap[k])]
           merged == CHOOSE f : M(f)
           R(k) == /\ Len(merged[k]) <= MaxExtents
                   /\ \A j \in 0..k - 1 : Len(merged[j]) > MaxExtents
           rounds == CHOOSE k \in 0..size : R(k)
<1>0. Gap \in Nat \ {0} /\ Align \in Nat \ {0} /\ MaxExtents \in Nat \ {0}
  BY ExtentsAssumption
<1>1. Normalize(v, size) = merged[rounds]
  BY DEF Normalize
<1>2. a \in Seq(Ext)
  <2>1. DOMAIN v = 1..Len(v) /\ Len(v) \in Nat
    BY ExtFacts
  <2>2. \A i \in 1..Len(v) : Aligned(v[i], size) \in Ext
    BY <2>1, ExtFacts, AlignedFacts
  <2> QED BY <2>1, <2>2, IsASeq
<1> HIDE DEF a, rounds, merged, gap
<1>3. G(gap)
  <2> DEFINE F == [p \in Nat \X (1..size) |-> 2 * Most(p[1], Align)]
  <2>1. IsOperation(F, Nat, size)
    BY <1>0 DEF IsOperation, Most
  <2>2. \A x \in Nat : \A k \in 1..size : F[<<x, k>>] = 2 * Most(x, Align)
    OBVIOUS
  <2> HIDE DEF F
  <2>3. PICK g : IsSteps(g, Nat, size, Gap, F)
    BY <1>0, <2>1, StepsExist
  <2>4. g \in [0..size -> Nat] /\ g[0] = Gap
    BY <2>3 DEF IsSteps
  <2>5. ASSUME NEW k \in 0..size
        PROVE  g[k] = IF k = 0 THEN Gap ELSE 2 * Most(g[k - 1], Align)
    <3>1. CASE k = 0
      BY <2>4, <3>1
    <3>2. CASE k # 0
      <4>1. k \in 1..size /\ k - 1 \in 0..size
        BY <3>2
      <4>2. g[k] = F[<<g[k - 1], k>>] /\ g[k - 1] \in Nat
        BY <2>3, <4>1 DEF IsSteps
      <4> QED BY <2>2, <3>2, <4>1, <4>2
    <3> QED BY <3>1, <3>2
  <2>6. G(g)
    BY <2>4, <2>5
  <2> HIDE DEF G
  <2> QED BY <2>6 DEF gap
<1>4. gap[0] = Gap /\ \A k \in 1..size : gap[k] = 2 * Most(gap[k - 1], Align)
  BY <1>3
<1>5. gap \in [0..size -> Nat]
  <2> DEFINE T == {k \in 0..size : gap[k] \in Nat}
  <2>1. 0 \in T
    BY <1>0, <1>4
  <2>2. ASSUME NEW k \in 1..size, k - 1 \in T
        PROVE  k \in T
    <3>1. gap[k - 1] \in Nat /\ gap[k] = 2 * Most(gap[k - 1], Align)
      BY <1>4, <2>2
    <3>2. gap[k] \in Nat
      BY <1>0, <3>1 DEF Most
    <3> QED BY <3>2
  <2>3. \A k \in 0..size : k \in T
    <3> HIDE DEF T
    <3> QED BY <2>1, <2>2, Induction
  <2> QED BY <1>3, <2>3
<1> HIDE DEF G
<1>6. M(merged)
  <2> DEFINE F == [p \in Seq(Ext) \X (1..size) |-> Merge(p[1], gap[p[2]])]
  <2>0. \A x \in Seq(Ext) : \A k \in 0..size : Merge(x, gap[k]) \in Seq(Ext)
    BY <1>5, MergeFacts
  <2>1. IsOperation(F, Seq(Ext), size)
    <3>1. \A x \in Seq(Ext) : \A k \in 1..size : Merge(x, gap[k]) \in Seq(Ext)
      BY <2>0
    <3> QED BY <3>1 DEF IsOperation
  <2>2. \A x \in Seq(Ext) : \A k \in 1..size : F[<<x, k>>] = Merge(x, gap[k])
    OBVIOUS
  <2> HIDE DEF F
  <2>3. Merge(a, gap[0]) \in Seq(Ext)
    BY <1>2, <2>0
  <2>4. PICK g : IsSteps(g, Seq(Ext), size, Merge(a, gap[0]), F)
    BY <2>1, <2>3, StepsExist
  <2>5. g \in [0..size -> Seq(Ext)] /\ g[0] = Merge(a, gap[0])
    BY <2>4 DEF IsSteps
  <2>6. ASSUME NEW k \in 0..size
        PROVE  g[k] = Merge(IF k = 0 THEN a ELSE g[k - 1], gap[k])
    <3>1. CASE k = 0
      BY <2>5, <3>1
    <3>2. CASE k # 0
      <4>1. k \in 1..size /\ k - 1 \in 0..size
        BY <3>2
      <4>2. g[k] = F[<<g[k - 1], k>>] /\ g[k - 1] \in Seq(Ext)
        BY <2>4, <4>1 DEF IsSteps
      <4> QED BY <2>2, <3>2, <4>1, <4>2
    <3> QED BY <3>1, <3>2
  <2>7. M(g)
    BY <2>5, <2>6
  <2> HIDE DEF M
  <2> QED BY <2>7 DEF merged
<1>7. merged[0] = Merge(a, gap[0]) /\ \A k \in 1..size : merged[k] = Merge(merged[k - 1], gap[k])
  BY <1>6
<1>8. merged \in [0..size -> Seq(Ext)]
  <2> DEFINE T == {k \in 0..size : merged[k] \in Seq(Ext)}
  <2>0. \A x \in Seq(Ext) : \A k \in 0..size : Merge(x, gap[k]) \in Seq(Ext)
    BY <1>5, MergeFacts
  <2>1. 0 \in T
    <3>1. 0 \in 0..size
      OBVIOUS
    <3>2. merged[0] \in Seq(Ext)
      BY <1>2, <1>7, <2>0, <3>1
    <3> QED BY <3>1, <3>2
  <2>2. ASSUME NEW k \in 1..size, k - 1 \in T
        PROVE  k \in T
    <3>1. merged[k - 1] \in Seq(Ext) /\ merged[k] = Merge(merged[k - 1], gap[k])
      BY <1>7, <2>2
    <3>2. k \in 0..size
      OBVIOUS
    <3>3. merged[k] \in Seq(Ext)
      BY <2>0, <3>1, <3>2
    <3> QED BY <3>2, <3>3
  <2>3. \A k \in 0..size : k \in T
    <3> HIDE DEF T
    <3> QED BY <2>1, <2>2, Induction
  <2> QED BY <1>6, <2>3
<1> HIDE DEF M
<1>9. \A k \in 0..size : Within(merged[k], size)
  <2> DEFINE T == {k \in 0..size : Within(merged[k], size)}
  <2>1. 0 \in T
    <3>1. Within(a, size)
      <4>1. \A i \in DOMAIN v : v[i] \in Ext
        BY ExtFacts
      <4> QED BY <4>1, AlignedFacts DEF Within, a
    <3>2. 0 \in 0..size /\ gap[0] \in Nat
      BY <1>5
    <3>3. Within(Merge(a, gap[0]), size)
      BY <1>2, <3>1, <3>2, MergeFacts
    <3> QED BY <1>7, <3>2, <3>3
  <2>2. ASSUME NEW k \in 1..size, k - 1 \in T
        PROVE  k \in T
    <3>1. k \in 0..size /\ k - 1 \in 0..size /\ gap[k] \in Nat /\ merged[k - 1] \in Seq(Ext)
      BY <1>5, <1>8
    <3>2. Within(merged[k - 1], size) /\ merged[k] = Merge(merged[k - 1], gap[k])
      BY <1>7, <2>2
    <3>3. Within(merged[k], size)
      BY <3>1, <3>2, MergeFacts
    <3> QED BY <3>1, <3>3
  <2>3. \A k \in 0..size : k \in T
    <3> HIDE DEF T
    <3> QED BY <2>1, <2>2, Induction
  <2> QED BY <2>3
<1>10. \A k \in 0..size : gap[k] > k
  <2> DEFINE T == {k \in 0..size : gap[k] > k}
  <2>1. 0 \in T
    BY <1>0, <1>4
  <2>2. ASSUME NEW k \in 1..size, k - 1 \in T
        PROVE  k \in T
    <3>1. gap[k - 1] > k - 1 /\ gap[k] = 2 * Most(gap[k - 1], Align) /\ gap[k - 1] \in Nat
      BY <1>4, <1>5, <2>2
    <3>2. gap[k] > k
      BY <1>0, <3>1 DEF Most
    <3> QED BY <3>2
  <2>3. \A k \in 0..size : k \in T
    <3> HIDE DEF T
    <3> QED BY <2>1, <2>2, Induction
  <2> QED BY <2>3
<1>11. \E k \in 0..size : Len(merged[k]) <= MaxExtents
  <2>0. size \in 0..size /\ gap[size] >= size /\ gap[size] \in Nat
    <3>1. size \in 0..size
      OBVIOUS
    <3>2. gap[size] \in Nat /\ gap[size] > size
      BY <1>5, <1>10, <3>1
    <3> QED BY <3>1, <3>2
  <2>1. Len(merged[size]) <= 1
    <3>1. CASE size = 0
      <4>1. Within(a, size)
        <5>1. \A i \in DOMAIN v : v[i] \in Ext
          BY ExtFacts
        <5> QED BY <5>1, AlignedFacts DEF Within, a
      <4>2. Len(Merge(a, gap[size])) <= 1
        BY <1>2, <2>0, <4>1, MergeWide
      <4> QED BY <1>7, <3>1, <4>2
    <3>2. CASE size # 0
      <4>1. size \in 1..size /\ size - 1 \in 0..size
        BY <3>2
      <4>2. merged[size - 1] \in Seq(Ext) /\ Within(merged[size - 1], size)
            /\ merged[size] = Merge(merged[size - 1], gap[size])
        BY <1>7, <1>8, <1>9, <4>1
      <4> QED BY <2>0, <4>2, MergeWide
    <3> QED BY <3>1, <3>2
  <2>2. Len(merged[size]) \in Nat
    BY <1>8, <2>0, LenProperties
  <2>3. Len(merged[size]) <= MaxExtents
    BY <1>0, <2>1, <2>2
  <2> QED BY <2>0, <2>3
<1>12. rounds \in 0..size /\ Len(merged[rounds]) <= MaxExtents
  <2> DEFINE K == {k \in 0..size : Len(merged[k]) <= MaxExtents}
  <2>1. K \subseteq Nat /\ K # {}
    BY <1>11
  <2>2. PICK k \in K : \A j \in K : k <= j
    <3> HIDE DEF K
    <3> QED BY <2>1, Minimum
  <2>3. ASSUME NEW j \in 0..k - 1
        PROVE  Len(merged[j]) > MaxExtents
    <3>1. j \in 0..size /\ ~(k <= j)
      OBVIOUS
    <3>2. j \notin K
      BY <2>2, <3>1
    <3>3. Len(merged[j]) \in Nat
      BY <1>8, <3>1, LenProperties
    <3> QED BY <1>0, <3>1, <3>2, <3>3
  <2>4. k \in 0..size /\ R(k)
    BY <2>3
  <2>5. rounds \in 0..size /\ R(rounds)
    <3> HIDE DEF R, K
    <3> QED BY <2>4 DEF rounds
  <2> QED BY <2>5
<1> HIDE DEF R
<1> QED BY <1>1, <1>4, <1>5, <1>7, <1>8, <1>12 DEF a

\* What normalize promises, for every list of extents and every size (what a Layout says
\* of its extents).
THEOREM NormalizeFacts ==
  ASSUME NEW v \in Seq(Ext), NEW size \in Nat
  PROVE  LET r == Normalize(v, size)
         IN  /\ r \in Seq(Ext) /\ Full(r) /\ Apart(r, 0) /\ Within(r, size)
             /\ AllCells(v) \cap 0..size - 1 \subseteq AllCells(r)
             /\ Len(r) <= MaxExtents
<1> DEFINE a == [i \in DOMAIN v |-> Aligned(v[i], size)]
<1>1. PICK gap \in [0..size -> Nat], merged \in [0..size -> Seq(Ext)], rounds \in 0..size :
           /\ merged[0] = Merge(a, gap[0])
           /\ \A k \in 1..size : merged[k] = Merge(merged[k - 1], gap[k])
           /\ Normalize(v, size) = merged[rounds] /\ Len(merged[rounds]) <= MaxExtents
  BY ZenonT(40), NormalizeRounds
<1>2. DOMAIN v = 1..Len(v) /\ Len(v) \in Nat /\ \A i \in DOMAIN v : v[i] \in Ext
  BY ExtFacts
<1>3. DOMAIN a = DOMAIN v /\ \A i \in DOMAIN v : a[i] = Aligned(v[i], size)
  OBVIOUS
<1>4. a \in Seq(Ext)
  BY <1>2, AlignedFacts, IsASeq
<1> HIDE DEF a
<1>5. Within(a, size)
  BY <1>2, <1>3, AlignedFacts DEF Within
<1>6. AllCells(v) \cap 0..size - 1 \subseteq AllCells(a)
  <2> SUFFICES ASSUME NEW c \in AllCells(v), c \in 0..size - 1
               PROVE  c \in AllCells(a)
    OBVIOUS
  <2>1. PICK i \in DOMAIN v : c \in CellsOf(v[i])
    BY DEF AllCells
  <2>2. c \in CellsOf(a[i])
    BY <1>2, <1>3, <2>1, AlignedFacts
  <2> QED BY <1>3, <2>2 DEF AllCells
<1> DEFINE Good(r) == /\ Full(r) /\ Apart(r, 0) /\ Within(r, size)
                      /\ AllCells(a) \subseteq AllCells(r)
           T == {k \in 0..size : Good(merged[k])}
<1>7. ASSUME NEW x \in Seq(Ext), Within(x, size), AllCells(a) \subseteq AllCells(x), NEW g \in Nat
      PROVE  Good(Merge(x, g))
  <2>1. /\ Merge(x, g) \in Seq(Ext) /\ Full(Merge(x, g)) /\ Apart(Merge(x, g), g)
        /\ AllCells(x) \subseteq AllCells(Merge(x, g)) /\ Within(Merge(x, g), size)
    BY <1>7, MergeFacts
  <2>2. Apart(Merge(x, g), 0)
    BY <2>1, ApartWithLess
  <2> QED BY <1>7, <2>1, <2>2
<1>8. 0 \in T
  <2>1. 0 \in 0..size /\ gap[0] \in Nat
    OBVIOUS
  <2> HIDE DEF Good
  <2>2. Good(Merge(a, gap[0]))
    BY <1>4, <1>5, <1>7, <2>1
  <2> QED BY <1>1, <2>1, <2>2
<1>9. ASSUME NEW k \in 1..size, k - 1 \in T
      PROVE  k \in T
  <2>1. k \in 0..size /\ k - 1 \in 0..size /\ gap[k] \in Nat /\ merged[k - 1] \in Seq(Ext)
    OBVIOUS
  <2>2. Within(merged[k - 1], size) /\ AllCells(a) \subseteq AllCells(merged[k - 1])
    BY <1>9
  <2> HIDE DEF Good
  <2>3. Good(Merge(merged[k - 1], gap[k]))
    BY <1>7, <2>1, <2>2
  <2> QED BY <1>1, <2>1, <2>3
<1>10. Good(merged[rounds])
  <2>1. \A k \in 0..size : k \in T
    <3> HIDE DEF T
    <3> QED BY <1>8, <1>9, Induction
  <2> QED BY <2>1
<1> QED BY <1>1, <1>6, <1>10

\* What a layout holds: everything that was found on the drive, and both ends of it.
LEMMA LayoutFacts ==
  ASSUME NEW found \in Seq(Ext), NEW size \in Nat
  PROVE  LET r == Layout(found, size)
         IN  /\ r \in Seq(Ext) /\ Full(r) /\ Apart(r, 0) /\ Within(r, size)
             /\ (AllCells(found) \cup 0..Edge - 1 \cup size - Edge..size - 1) \cap 0..size - 1
                  \subseteq AllCells(r)
             /\ Len(r) <= MaxExtents
<1> DEFINE edge == Least(Edge, size)
           first == Extent(0, edge)
           last == Extent(size - edge, edge)
           ends == <<first, last>>
           v == ends \o found
           n == Len(found)
<1>0. Edge \in Nat \ {0} /\ n \in Nat /\ DOMAIN found = 1..n /\ \A i \in 1..n : found[i] \in Ext
  BY ExtentsAssumption, ExtFacts
<1>1. edge \in Nat /\ edge <= size /\ edge <= Edge /\ (edge = Edge \/ edge = size)
  BY <1>0 DEF Least
<1> HIDE DEF edge
<1>2. first \in Ext /\ last \in Ext
  BY <1>1 DEF Extent, Ext
<1>3. CellsOf(first) = 0..edge - 1 /\ CellsOf(last) = size - edge..size - 1
  <2>1. /\ first.start = 0 /\ first.len = edge /\ last.start = size - edge /\ last.len = edge
    BY DEF Extent
  <2>2. End(first) = edge /\ End(last) = size
    BY <1>1, <2>1 DEF End
  <2> QED BY <2>1, <2>2 DEF CellsOf
<1>4. Layout(found, size) = Normalize(v, size)
  BY DEF Layout, edge
<1> HIDE DEF first, last
<1>5. ends \in Seq(Ext) /\ Len(ends) = 2 /\ ends[1] = first /\ ends[2] = last
  BY <1>2
<1> HIDE DEF ends, n
<1>6. /\ v \in Seq(Ext) /\ Len(v) = n + 2
      /\ \A i \in 1..n + 2 : v[i] = IF i <= 2 THEN ends[i] ELSE found[i - 2]
  <2>1. /\ v \in Seq(Ext) /\ Len(v) = Len(ends) + Len(found)
        /\ \A i \in 1..Len(ends) + Len(found) :
             v[i] = IF i <= Len(ends) THEN ends[i] ELSE found[i - Len(ends)]
    BY <1>5, ConcatProperties
  <2>2. Len(ends) + Len(found) = n + 2
    BY <1>0, <1>5 DEF n
  <2> HIDE DEF v
  <2> QED BY <1>5, <2>1, <2>2
<1> HIDE DEF v
<1>7. DOMAIN v = 1..n + 2
  BY <1>6, LenProperties
<1>8. (AllCells(found) \cup 0..Edge - 1 \cup size - Edge..size - 1) \cap 0..size - 1 \subseteq AllCells(v)
  <2> SUFFICES ASSUME NEW c \in 0..size - 1,
                      c \in AllCells(found) \/ c \in 0..Edge - 1 \/ c \in size - Edge..size - 1
               PROVE  \E i \in 1..n + 2 : c \in CellsOf(v[i])
    BY <1>7 DEF AllCells
  <2>1. CASE c \in AllCells(found)
    <3>1. PICK i \in 1..n : c \in CellsOf(found[i])
      BY <1>0, <2>1 DEF AllCells
    <3>2. i + 2 \in 1..n + 2 /\ ~(i + 2 <= 2) /\ (i + 2) - 2 = i
      BY <1>0
    <3>3. v[i + 2] = found[i]
      BY <1>6, <3>2
    <3> QED BY <3>1, <3>2, <3>3
  <2>2. CASE c \in 0..Edge - 1
    <3>1. c \in CellsOf(first)
      BY <1>0, <1>1, <1>3, <2>2
    <3>2. 1 \in 1..n + 2 /\ 1 <= 2
      BY <1>0
    <3>3. v[1] = first
      BY <1>5, <1>6, <3>2
    <3> QED BY <3>1, <3>2, <3>3
  <2>3. CASE c \in size - Edge..size - 1
    <3>1. c \in CellsOf(last)
      BY <1>0, <1>1, <1>3, <2>3
    <3>2. 2 \in 1..n + 2 /\ 2 <= 2
      BY <1>0
    <3>3. v[2] = last
      BY <1>5, <1>6, <3>2
    <3> QED BY <3>1, <3>2, <3>3
  <2> QED BY <2>1, <2>2, <2>3
<1>9. /\ Normalize(v, size) \in Seq(Ext) /\ Full(Normalize(v, size)) /\ Apart(Normalize(v, size), 0)
      /\ Within(Normalize(v, size), size)
      /\ AllCells(v) \cap 0..size - 1 \subseteq AllCells(Normalize(v, size))
      /\ Len(Normalize(v, size)) <= MaxExtents
  BY <1>6, NormalizeFacts
<1> QED BY <1>4, <1>8, <1>9

\* What tidy gives, and that it changes nothing of what it would give itself.
LEMMA TidyFacts ==
  ASSUME NEW v \in Seq(Ext), NEW size \in Nat
  PROVE  /\ Tidy(v, size) \in Seq(Ext) /\ Full(Tidy(v, size)) /\ Apart(Tidy(v, size), 0)
         /\ Within(Tidy(v, size), size)
         /\ Full(v) /\ Apart(v, 0) /\ Within(v, size) => Tidy(v, size) = v
<1> DEFINE Cut(e) == Extent(e.start, Most(Least(End(e), size) - e.start, 0))
           c == [i \in DOMAIN v |-> Cut(v[i])]
<1>0. Len(v) \in Nat /\ DOMAIN v = 1..Len(v) /\ \A i \in DOMAIN v : v[i] \in Ext
  BY ExtFacts
<1>1. ASSUME NEW e \in Ext
      PROVE  /\ Cut(e) \in Ext
             /\ Cut(e).len > 0 => End(Cut(e)) <= size
             /\ End(e) <= size => Cut(e) = e
  <2>1. e.start \in Nat /\ e.len \in Nat /\ End(e) = e.start + e.len /\ e = Extent(e.start, e.len)
    BY DEF Ext, End, Extent
  <2> DEFINE l == Most(Least(End(e), size) - e.start, 0)
  <2>2. /\ l \in Nat
        /\ l > 0 => e.start + l <= size
        /\ End(e) <= size => l = e.len
    BY SMTT(40), <2>1 DEF Most, Least
  <2>3. Cut(e) = Extent(e.start, l)
    OBVIOUS
  <2> HIDE DEF l, Cut
  <2>4. Cut(e).start = e.start /\ Cut(e).len = l /\ End(Cut(e)) = e.start + l
    BY <2>3 DEF Extent, End
  <2>5. Cut(e) \in Ext
    BY <2>1, <2>2, <2>3 DEF Ext, Extent
  <2>6. Cut(e).len > 0 => End(Cut(e)) <= size
    BY <2>2, <2>4
  <2>7. End(e) <= size => Cut(e) = e
    BY <2>1, <2>2, <2>3
  <2> QED BY <2>5, <2>6, <2>7
<1> HIDE DEF Cut
<1>2. c \in Seq(Ext) /\ DOMAIN c = DOMAIN v /\ \A i \in DOMAIN v : c[i] = Cut(v[i])
  BY <1>0, <1>1, IsASeq
<1>3. Tidy(v, size) = Merge(c, 0)
  BY DEF Tidy, Cut
<1> HIDE DEF c
<1>4. Within(c, size)
  BY <1>0, <1>1, <1>2 DEF Within
<1>5. /\ Merge(c, 0) \in Seq(Ext) /\ Full(Merge(c, 0)) /\ Apart(Merge(c, 0), 0)
      /\ Within(Merge(c, 0), size)
  BY <1>2, <1>4, MergeFacts
<1>6. ASSUME Full(v), Apart(v, 0), Within(v, size)
      PROVE  Tidy(v, size) = v
  <2>1. \A i \in DOMAIN v : c[i] = v[i]
    BY <1>0, <1>1, <1>2, <1>6 DEF Full, Within
  <2>2. Len(c) = Len(v)
    BY <1>0, <1>2, LenProperties
  <2>3. c = v
    BY <1>0, <1>2, <2>1, <2>2, SeqEqual
  <2>4. Merge(v, 0) = v
    BY <1>6, MergeOfApart
  <2> QED BY <1>3, <2>3, <2>4
<1> QED BY <1>3, <1>5, <1>6

-------------------------------------------------------------------------------
(* Pieces *)

\* As many units as it takes, the last one maybe cut short.
LEMMA UnitsFacts ==
  ASSUME NEW len \in Nat, NEW unit \in Nat \ {0}
  PROVE  /\ Units(len, unit) \in Nat
         /\ len <= Units(len, unit) * unit /\ Units(len, unit) * unit < len + unit
         /\ len = 0 => Units(len, unit) = 0
         /\ len > 0 => Units(len, unit) > 0
<1> DEFINE m == len + unit - 1
           u == m \div unit
           r == m % unit
<1>1. m \in Nat
  OBVIOUS
<1>2. u \in Int /\ r \in 0..unit - 1 /\ m = unit * u + r
  BY <1>1, DivMod, ModRange
<1>3. Units(len, unit) = u
  BY DEF Units
<1> HIDE DEF u, r
<1>4. unit * u = u * unit /\ u * unit \in Int
  BY <1>2
<1> DEFINE p == u * unit
<1>5. p = m - r
  <2> HIDE DEF m
  <2> QED BY <1>1, <1>2, <1>4
<1>6. p \in Int /\ len <= p /\ p < len + unit
  BY <1>2, <1>5
<1>7. u >= 0
  <2> SUFFICES ASSUME u <= -1
               PROVE  FALSE
    BY <1>2
  <2>1. p <= (-1) * unit
    BY <1>2
  <2> HIDE DEF p
  <2> QED BY <1>6, <2>1
<1>8. len > 0 => u > 0
  <2> SUFFICES ASSUME len > 0, u = 0
               PROVE  FALSE
    BY <1>2, <1>7
  <2>1. p = 0
    OBVIOUS
  <2> HIDE DEF p
  <2> QED BY <1>6, <2>1
<1>9. len = 0 => u = 0
  <2> SUFFICES ASSUME len = 0, u >= 1
               PROVE  FALSE
    BY <1>2, <1>7
  <2>1. p >= 1 * unit
    BY <1>2
  <2> HIDE DEF p
  <2> QED BY <1>6, <2>1
<1> QED BY <1>2, <1>3, <1>6, <1>7, <1>8, <1>9

\* Extents that follow one another without a gap, from one place to another.
Chain(v, from, to) ==
  /\ v \in Seq(Ext) /\ Full(v)
  /\ v = <<>> => from = to
  /\ v # <<>> => v[1].start = from /\ End(v[Len(v)]) = to
  /\ \A i \in 2..Len(v) : v[i].start = End(v[i - 1])

\* The pieces of an extent follow one another, from its start to its end.
LEMMA PiecesFacts ==
  ASSUME NEW e \in Ext, NEW chunk \in Nat \ {0}
  PROVE  /\ Chain(PiecesOf(e, chunk), e.start, End(e))
         /\ \A i \in DOMAIN PiecesOf(e, chunk) : PiecesOf(e, chunk)[i].len <= chunk
<1> DEFINE u == Units(e.len, chunk)
           off(i) == e.start + (i - 1) * chunk
           Piece(i) == Extent(off(i), Least(End(e) - off(i), chunk))
           v == PiecesOf(e, chunk)
<1>0. e.start \in Nat /\ e.len \in Nat /\ End(e) = e.start + e.len
  BY DEF Ext, End
<1>1. /\ u \in Nat /\ e.len <= u * chunk /\ u * chunk < e.len + chunk
      /\ e.len = 0 => u = 0
      /\ e.len > 0 => u > 0
  BY <1>0, UnitsFacts
<1>2. v = [i \in 1..u |-> Piece(i)]
  BY DEF PiecesOf
<1> HIDE DEF u, v
<1>3. ASSUME NEW i \in 1..u
      PROVE  /\ off(i) \in Nat /\ off(i) >= e.start /\ off(i) < End(e)
             /\ i < u => off(i) + chunk < End(e)
             /\ i = u => off(i) + chunk >= End(e)
             /\ off(i + 1) = off(i) + chunk
  <2> DEFINE p == (i - 1) * chunk
             q == u * chunk
             m == i * chunk
  <2>1. p \in Nat /\ q \in Int /\ m = p + chunk
    BY <1>1
  <2>2. i < u => m <= q - chunk
    BY <1>1
  <2>3. i = u => m = q
    OBVIOUS
  <2>4. p <= q - chunk
    BY <1>1
  <2>5. off(i) = e.start + p /\ off(i + 1) = e.start + m
    OBVIOUS
  <2>6. q < e.len + chunk /\ e.len <= q
    BY <1>1
  <2> HIDE DEF p, q, m
  <2> QED BY <1>0, <2>1, <2>2, <2>3, <2>4, <2>5, <2>6
<1> HIDE DEF off
<1>4. ASSUME NEW i \in 1..u
      PROVE  /\ Piece(i) \in Ext /\ Piece(i).start = off(i)
             /\ Piece(i).len \in 1..chunk
             /\ i < u => End(Piece(i)) = off(i + 1)
             /\ i = u => End(Piece(i)) = End(e)
  <2> DEFINE l == Least(End(e) - off(i), chunk)
  <2>1. l \in 1..chunk /\ (i < u => l = chunk) /\ (i = u => l = End(e) - off(i))
    BY <1>0, <1>3 DEF Least
  <2>2. Piece(i) = Extent(off(i), l)
    OBVIOUS
  <2> HIDE DEF l
  <2> QED BY <1>0, <1>3, <2>1, <2>2 DEF Extent, Ext, End
<1> HIDE DEF Piece
<1>5. v \in Seq(Ext) /\ Len(v) = u /\ DOMAIN v = 1..u /\ \A i \in 1..u : v[i] = Piece(i)
  BY <1>1, <1>2, <1>4, IsASeq, LenProperties
<1>6. Full(v)
  BY <1>4, <1>5 DEF Full
<1>7. v = <<>> => e.start = End(e)
  <2> SUFFICES ASSUME v = <<>>
               PROVE  e.len = 0
    BY <1>0
  <2>1. u = 0
    BY <1>5
  <2> QED BY <1>0, <1>1, <2>1
<1>8. v # <<>> => v[1].start = e.start /\ End(v[Len(v)]) = End(e)
  <2> SUFFICES ASSUME v # <<>>
               PROVE  v[1].start = e.start /\ End(v[u]) = End(e)
    BY <1>5
  <2>1. u > 0 /\ 1 \in 1..u /\ u \in 1..u
    BY <1>1, <1>5
  <2>2. off(1) = e.start
    BY <1>0 DEF off
  <2> QED BY <1>4, <1>5, <2>1, <2>2
<1>9. \A i \in 2..u : v[i].start = End(v[i - 1])
  <2> TAKE i \in 2..u
  <2>1. i \in 1..u /\ i - 1 \in 1..u /\ i - 1 < u /\ (i - 1) + 1 = i
    BY <1>1
  <2> QED BY <1>4, <1>5, <2>1
<1>10. \A i \in DOMAIN v : v[i].len <= chunk
  BY <1>4, <1>5
<1> QED BY <1>5, <1>6, <1>7, <1>8, <1>9, <1>10 DEF Chain, v

\* A chain holds exactly the cells from its start to its end.
LEMMA ChainCells ==
  ASSUME NEW v, NEW from \in Nat, NEW to \in Nat, Chain(v, from, to)
  PROVE  AllCells(v) = from..to - 1
<1> DEFINE n == Len(v)
<1>0. /\ v \in Seq(Ext) /\ n \in Nat /\ DOMAIN v = 1..n
      /\ \A i \in 1..n : /\ v[i] \in Ext /\ v[i].start \in Nat /\ v[i].len \in Nat
                         /\ End(v[i]) = v[i].start + v[i].len
                         /\ CellsOf(v[i]) = v[i].start..End(v[i]) - 1
  BY ExtFacts, EndIs DEF Chain
<1>1. /\ v = <<>> => from = to
      /\ v # <<>> => v[1].start = from /\ End(v[n]) = to
      /\ \A i \in 2..n : v[i].start = End(v[i - 1])
      /\ v = <<>> <=> n = 0
  BY SMTT(40), <1>0 DEF Chain
<1> HIDE DEF n
<1> DEFINE T == {k \in 0..n : /\ k > 0 => from <= End(v[k])
                              /\ \A c \in Nat : (\E i \in 1..k : c \in CellsOf(v[i]))
                                                <=> k > 0 /\ from <= c /\ c < End(v[k])}
<1>2. 0 \in T
  BY <1>0
<1>3. ASSUME NEW k \in 1..n, k - 1 \in T
      PROVE  k \in T
  <2>0. k \in Nat /\ k \in 0..n /\ k - 1 \in Nat /\ \A i \in 1..k : i = k \/ i \in 1..k - 1
    BY <1>0
  <2>1. /\ v[k].start \in Nat /\ v[k].len \in Nat /\ End(v[k]) = v[k].start + v[k].len
        /\ CellsOf(v[k]) = v[k].start..End(v[k]) - 1
    BY <1>0
  <2>2. CASE k = 1
    <3>1. v[1].start = from
      BY <1>1, <2>2, <1>0
    <3>2. \A i \in 1..k : i = 1
      BY <2>2
    <3>3. 1 \in 1..k
      BY <2>2
    <3> QED BY SMTT(40), <2>0, <2>1, <2>2, <3>1, <3>2, <3>3
  <2>3. CASE k > 1
    <3>1. k - 1 > 0 /\ k \in 2..n /\ k - 1 \in 1..n /\ k \in 1..k
      BY <2>0, <2>3, <1>0
    <3>2. /\ from <= End(v[k - 1])
          /\ \A c \in Nat : (\E i \in 1..k - 1 : c \in CellsOf(v[i])) <=> from <= c /\ c < End(v[k - 1])
      BY <1>3, <3>1
    <3>3. v[k].start = End(v[k - 1])
      BY <1>1, <3>1
    <3>4. ASSUME NEW c \in Nat
          PROVE  (\E i \in 1..k : c \in CellsOf(v[i])) <=> from <= c /\ c < End(v[k])
      <4>1. (\E i \in 1..k : c \in CellsOf(v[i]))
            <=> c \in CellsOf(v[k]) \/ \E i \in 1..k - 1 : c \in CellsOf(v[i])
        <5>1. \A i \in 1..k - 1 : i \in 1..k
          BY <2>0
        <5> QED BY <2>0, <3>1, <5>1
      <4>2. c \in CellsOf(v[k]) <=> v[k].start <= c /\ c < End(v[k])
        BY SMTT(40), <2>1
      <4> QED BY SMTT(40), <2>1, <3>2, <3>3, <4>1, <4>2
    <3>5. from <= End(v[k])
      BY <2>1, <3>2, <3>3
    <3> QED BY <2>0, <2>3, <3>4, <3>5
  <2> QED BY <2>0, <2>2, <2>3
<1>4. n \in T
  <2>1. \A i \in 0..n : i \in T
    <3> HIDE DEF T
    <3> QED BY <1>0, <1>2, <1>3, Induction
  <2>2. n \in 0..n
    BY <1>0
  <2> QED BY <2>1, <2>2
<1>5. \A c \in Nat : (\E i \in 1..n : c \in CellsOf(v[i])) <=> n > 0 /\ from <= c /\ c < End(v[n])
  BY <1>4
<1>6. \A c \in Nat : (\E i \in 1..n : c \in CellsOf(v[i])) <=> from <= c /\ c < to
  <2>1. CASE n = 0
    <3>1. from = to
      BY <1>1, <2>1
    <3> QED BY <1>5, <2>1, <3>1
  <2>2. CASE n > 0
    <3>1. End(v[n]) = to
      BY <1>1, <2>2
    <3> QED BY <1>5, <2>2, <3>1
  <2> QED BY <1>0, <2>1, <2>2
<1>7. \A c : (\E i \in 1..n : c \in CellsOf(v[i])) => c \in Nat
  BY SMTT(40), <1>0
<1>8. \A c : c \in AllCells(v) <=> \E i \in 1..n : c \in CellsOf(v[i])
  BY <1>0 DEF AllCells
<1>9. \A c : c \in AllCells(v) <=> c \in from..to - 1
  BY SMTT(40), <1>6, <1>7, <1>8
<1> QED BY <1>9

-------------------------------------------------------------------------------
(* Sequences of sequences *)

\* How flattening goes.
LEMMA FlattenSteps ==
  ASSUME NEW S, NEW ss \in Seq(Seq(S))
  PROVE  \E g \in [0..Len(ss) -> Seq(S)] :
           /\ g[0] = <<>> /\ g[Len(ss)] = FlattenSeq(ss)
           /\ \A i \in 1..Len(ss) : g[i] = g[i - 1] \o ss[i]
<1> DEFINE n == Len(ss)
           P(f) == f = [i \in 1..n |-> IF i = 1 THEN ss[i] ELSE f[i - 1] \o ss[i]]
           c == CHOOSE f : P(f)
<1>0. n \in Nat /\ DOMAIN ss = 1..n /\ \A i \in 1..n : ss[i] \in Seq(S)
  BY LenProperties, ElementOfSeq
<1>1. CASE n = 0
  <2>1. ss = <<>> /\ FlattenSeq(ss) = ss
    BY <1>0, <1>1 DEF FlattenSeq
  <2> DEFINE g == [i \in 0..0 |-> <<>>]
  <2>2. <<>> \in Seq(S) /\ 1..0 = {}
    OBVIOUS
  <2>3. g \in [0..n -> Seq(S)] /\ g[0] = <<>> /\ g[n] = FlattenSeq(ss)
    BY <1>1, <2>1, <2>2
  <2> HIDE DEF g, n
  <2> QED BY <1>1, <2>2, <2>3 DEF n
<1>2. CASE n > 0
  <2>1. FlattenSeq(ss) = c[n]
    BY <1>0, <1>2 DEF FlattenSeq
  <2> DEFINE F == [p \in Seq(S) \X (1..n) |-> p[1] \o ss[p[2]]]
  <2>2. \A x \in Seq(S) : \A i \in 1..n : x \o ss[i] \in Seq(S)
    BY <1>0, ConcatProperties
  <2>3. IsOperation(F, Seq(S), n)
    BY <2>2 DEF IsOperation
  <2>4. \A x \in Seq(S) : \A i \in 1..n : F[<<x, i>>] = x \o ss[i]
    OBVIOUS
  <2> HIDE DEF F, c, n
  <2>5. <<>> \in Seq(S) /\ \A x \in Seq(S) : <<>> \o x = x
    BY ConcatEmptySeq
  <2>6. PICK h : IsSteps(h, Seq(S), n, <<>>, F)
    BY <1>0, <2>3, <2>5, StepsExist
  <2>7. h \in [0..n -> Seq(S)] /\ h[0] = <<>> /\ \A i \in 1..n : h[i] = h[i - 1] \o ss[i]
    <3>1. h \in [0..n -> Seq(S)] /\ h[0] = <<>>
      BY <2>6 DEF IsSteps
    <3>2. \A i \in 1..n : h[i - 1] \in Seq(S) /\ h[i] = F[<<h[i - 1], i>>]
      <4> TAKE i \in 1..n
      <4>1. i - 1 \in 0..n
        BY <1>0
      <4> QED BY <2>6, <4>1 DEF IsSteps
    <3> QED BY <2>4, <3>1, <3>2
  <2> DEFINE d == [i \in 1..n |-> h[i]]
  <2>8. P(d)
    <3> SUFFICES ASSUME NEW i \in 1..n
                 PROVE  d[i] = IF i = 1 THEN ss[i] ELSE d[i - 1] \o ss[i]
      OBVIOUS
    <3>1. CASE i = 1
      <4>1. h[1] = h[0] \o ss[1] /\ ss[1] \in Seq(S)
        <5>1. 1 \in 1..n /\ 1 - 1 = 0
          BY <1>0, <1>2
        <5> QED BY <1>0, <2>7, <5>1
      <4>2. h[1] = ss[1]
        BY <2>5, <2>7, <4>1
      <4> QED BY <3>1, <4>2
    <3>2. CASE i # 1
      <4>1. i - 1 \in 1..n
        BY <1>0, <3>2
      <4> QED BY <2>7, <3>2, <4>1
    <3> QED BY <3>1, <3>2
  <2> HIDE DEF d
  <2>9. P(c)
    <3> HIDE DEF P
    <3> QED BY <2>8 DEF c
  <2>10. c[1] = ss[1] /\ \A i \in 2..n : c[i] = c[i - 1] \o ss[i]
    <3>1. 1 \in 1..n /\ \A i \in 2..n : i \in 1..n /\ i # 1
      BY <1>0, <1>2
    <3> QED BY <2>9, <3>1
  <2> DEFINE g == [i \in 0..n |-> IF i = 0 THEN <<>> ELSE c[i]]
             T == {i \in 0..n : g[i] \in Seq(S)}
  <2>11. ASSUME NEW i \in 1..n
         PROVE  g[i] = g[i - 1] \o ss[i]
    <3>1. CASE i = 1
      <4>1. g[0] = <<>> /\ g[1] = c[1] /\ ss[1] \in Seq(S) /\ i - 1 = 0
        BY <1>0, <1>2, <3>1
      <4> HIDE DEF g
      <4> QED BY <2>5, <2>10, <3>1, <4>1
    <3>2. CASE i # 1
      <4>1. i \in 2..n /\ i \in 0..n /\ i # 0 /\ i - 1 \in 0..n /\ i - 1 # 0
        BY <1>0, <3>2
      <4> QED BY <2>10, <4>1
    <3> QED BY <3>1, <3>2
  <2>12. g[0] = <<>> /\ g[n] = c[n] /\ DOMAIN g = 0..n
    BY <1>0, <1>2
  <2>13. g = [i \in 0..n |-> g[i]]
    OBVIOUS
  <2> HIDE DEF g
  <2>14. 0 \in T
    <3>1. g[0] \in Seq(S) /\ 0 \in 0..n
      BY <1>0, <2>5, <2>12
    <3> QED BY <3>1
  <2>15. ASSUME NEW i \in 1..n, i - 1 \in T
         PROVE  i \in T
    <3>1. g[i - 1] \in Seq(S) /\ i \in 0..n
      BY <1>0, <2>15
    <3>2. g[i] = g[i - 1] \o ss[i]
      BY <2>11
    <3>3. g[i] \in Seq(S)
      BY <2>2, <3>1, <3>2
    <3> QED BY <3>1, <3>3
  <2>16. \A i \in 0..n : i \in T
    <3> HIDE DEF T
    <3> QED BY <1>0, <2>14, <2>15, Induction
  <2>17. g \in [0..n -> Seq(S)]
    BY <2>13, <2>16
  <2>18. g[n] = FlattenSeq(ss)
    BY <2>1, <2>12
  <2> HIDE DEF T, P
  <2>19. \E f \in [0..n -> Seq(S)] : /\ f[0] = <<>> /\ f[n] = FlattenSeq(ss)
                                     /\ \A i \in 1..n : f[i] = f[i - 1] \o ss[i]
    BY <2>11, <2>12, <2>17, <2>18
  <2> QED BY <2>19 DEF n
<1>3. n = 0 \/ n > 0
  BY <1>0
<1> QED BY <1>1, <1>2, <1>3, Zenon

\* A flattened sequence has the elements of its parts.
LEMMA FlattenFacts ==
  ASSUME NEW S, NEW ss \in Seq(Seq(S))
  PROVE  /\ FlattenSeq(ss) \in Seq(S)
         /\ \A k \in DOMAIN FlattenSeq(ss) : \E i \in DOMAIN ss : \E j \in DOMAIN ss[i] :
              FlattenSeq(ss)[k] = ss[i][j]
         /\ \A i \in DOMAIN ss : \A j \in DOMAIN ss[i] : \E k \in DOMAIN FlattenSeq(ss) :
              FlattenSeq(ss)[k] = ss[i][j]
<1> DEFINE n == Len(ss)
<1>0. /\ n \in Nat /\ DOMAIN ss = 1..n
      /\ \A i \in 1..n : ss[i] \in Seq(S) /\ Len(ss[i]) \in Nat /\ DOMAIN ss[i] = 1..Len(ss[i])
  BY LenProperties, ElementOfSeq
<1>1. PICK g \in [0..n -> Seq(S)] : /\ g[0] = <<>> /\ g[n] = FlattenSeq(ss)
                                    /\ \A i \in 1..n : g[i] = g[i - 1] \o ss[i]
  BY FlattenSteps
<1> HIDE DEF n
<1>2. \A i \in 0..n : g[i] \in Seq(S) /\ Len(g[i]) \in Nat /\ DOMAIN g[i] = 1..Len(g[i])
  BY LenProperties
<1> DEFINE From(x) == \A k \in DOMAIN g[x] : \E i \in 1..x : \E j \in DOMAIN ss[i] : g[x][k] = ss[i][j]
           Into(x) == \A i \in 1..x : \A j \in DOMAIN ss[i] : \E k \in DOMAIN g[x] : g[x][k] = ss[i][j]
           T == {x \in 0..n : From(x) /\ Into(x)}
<1>3. 0 \in T
  <2>1. DOMAIN g[0] = {} /\ 1..0 = {} /\ 0 \in 0..n
    BY <1>0, <1>1
  <2> QED BY <2>1
<1>4. ASSUME NEW x \in 1..n, x - 1 \in T
      PROVE  x \in T
  <2> DEFINE a == g[x - 1]
             b == ss[x]
             r == g[x]
  <2>0. x \in 0..n /\ x - 1 \in 0..n /\ x \in Nat /\ x - 1 \in Nat /\ \A i \in 1..x : i = x \/ i \in 1..x - 1
    BY <1>0
  <2>1. From(x - 1) /\ Into(x - 1)
    BY <1>4
  <2>2. /\ a \in Seq(S) /\ b \in Seq(S) /\ r = a \o b
        /\ Len(a) \in Nat /\ Len(b) \in Nat /\ DOMAIN a = 1..Len(a) /\ DOMAIN b = 1..Len(b)
    BY <1>0, <1>1, <1>2, <2>0
  <2>3. /\ Len(r) = Len(a) + Len(b) /\ r \in Seq(S)
        /\ \A k \in 1..Len(a) + Len(b) : r[k] = IF k <= Len(a) THEN a[k] ELSE b[k - Len(a)]
    <3> HIDE DEF a, b, r
    <3> QED BY <2>2, ConcatProperties
  <2>4. DOMAIN r = 1..Len(a) + Len(b)
    <3> HIDE DEF a, b, r
    <3> QED BY <2>2, <2>3, LenProperties
  <2>5. From(x)
    <3> SUFFICES ASSUME NEW k \in DOMAIN r
                 PROVE  \E i \in 1..x : \E j \in DOMAIN ss[i] : r[k] = ss[i][j]
      OBVIOUS
    <3>1. CASE k <= Len(a)
      <4>1. k \in DOMAIN a /\ r[k] = a[k]
        <5> HIDE DEF a, b, r
        <5> QED BY <2>2, <2>3, <2>4, <3>1
      <4>2. PICK i \in 1..x - 1 : \E j \in DOMAIN ss[i] : a[k] = ss[i][j]
        BY <2>1, <4>1
      <4>3. i \in 1..x
        BY <2>0
      <4> HIDE DEF a, b, r
      <4> QED BY <4>1, <4>2, <4>3
    <3>2. CASE k > Len(a)
      <4>1. k - Len(a) \in DOMAIN b /\ r[k] = b[k - Len(a)]
        <5> HIDE DEF a, b, r
        <5>1. k - Len(a) \in 1..Len(b) /\ ~(k <= Len(a)) /\ k \in 1..Len(a) + Len(b)
          BY <2>2, <2>4, <3>2
        <5> QED BY <2>2, <2>3, <5>1
      <4>2. x \in 1..x
        BY <2>0
      <4> QED BY <4>1, <4>2
    <3>3. k <= Len(a) \/ k > Len(a)
      <4> HIDE DEF a, b, r
      <4> QED BY <2>2, <2>4
    <3> QED BY <3>1, <3>2, <3>3
  <2>6. Into(x)
    <3> SUFFICES ASSUME NEW i \in 1..x, NEW j \in DOMAIN ss[i]
                 PROVE  \E k \in DOMAIN r : r[k] = ss[i][j]
      OBVIOUS
    <3>1. CASE i = x
      <4>1. j \in 1..Len(b)
        BY <2>2, <3>1
      <4>2. /\ j + Len(a) \in 1..Len(a) + Len(b) /\ ~(j + Len(a) <= Len(a))
            /\ (j + Len(a)) - Len(a) = j
        <5> HIDE DEF a, b
        <5> QED BY SMTT(40), <2>2, <4>1
      <4>3. r[j + Len(a)] = b[j]
        <5> HIDE DEF a, b, r
        <5> QED BY <2>3, <4>2
      <4> QED BY <2>4, <3>1, <4>2, <4>3
    <3>2. CASE i \in 1..x - 1
      <4>1. PICK k \in DOMAIN a : a[k] = ss[i][j]
        BY <2>1, <3>2
      <4>2. k \in 1..Len(a) + Len(b) /\ k <= Len(a)
        <5> HIDE DEF a, b
        <5> QED BY <2>2
      <4>3. r[k] = a[k]
        <5> HIDE DEF a, b, r
        <5> QED BY <2>3, <4>2
      <4> QED BY <2>4, <4>1, <4>2, <4>3
    <3> QED BY <2>0, <3>1, <3>2
  <2> QED BY <2>0, <2>5, <2>6
<1>5. n \in T
  <2>1. \A i \in 0..n : i \in T
    <3> HIDE DEF T
    <3> QED BY <1>0, <1>3, <1>4, Induction
  <2>2. n \in 0..n
    BY <1>0
  <2> QED BY <2>1, <2>2
<1>6. From(n) /\ Into(n) /\ n \in 0..n
  BY <1>5
<1> DEFINE f == g[n]
<1>7. FlattenSeq(ss) = f /\ f \in Seq(S)
  BY <1>1, <1>2, <1>6
<1>8. /\ \A k \in DOMAIN f : \E i \in 1..n : \E j \in DOMAIN ss[i] : f[k] = ss[i][j]
      /\ \A i \in 1..n : \A j \in DOMAIN ss[i] : \E k \in DOMAIN f : f[k] = ss[i][j]
  BY <1>6
<1> HIDE DEF f
<1>9. /\ \A k \in DOMAIN f : \E i \in DOMAIN ss : \E j \in DOMAIN ss[i] : f[k] = ss[i][j]
      /\ \A i \in DOMAIN ss : \A j \in DOMAIN ss[i] : \E k \in DOMAIN f : f[k] = ss[i][j]
  BY ZenonT(40), <1>0, <1>8
<1> QED BY ZenonT(40), <1>7, <1>9, Zenon

-------------------------------------------------------------------------------
(* Zeros *)

\* Half of a number is smaller than it.
LEMMA Half ==
  ASSUME NEW n \in Nat, n > 1
  PROVE  n \div 2 \in 1..n - 1 /\ 2 * (n \div 2) <= n
  BY SMT

\* The power of two in a number is no more than it.
LEMMA PowerFacts ==
  ASSUME NEW len \in Nat \ {0}
  PROVE  Power(len) \in 1..len
<1> DEFINE P(f) == f = [n \in 0..len |-> IF n <= 1 THEN 1 ELSE 2 * f[n \div 2]]
           power == CHOOSE f : P(f)
           before == [n \in 1..len |-> IF n <= 1 THEN 0 ELSE n \div 2]
           F == [p \in Nat \X (1..len) |-> IF p[2] <= 1 THEN 1 ELSE 2 * p[1]]
<1>1. Power(len) = power[len]
  BY DEF Power
<1>2. P(power)
  <2>1. IsOperation(F, Nat, len)
    BY DEF IsOperation
  <2>2. before \in [1..len -> Nat] /\ \A n \in 1..len : before[n] < n
    <3> SUFFICES ASSUME NEW n \in 1..len
                 PROVE  before[n] \in Nat /\ before[n] < n
      OBVIOUS
    <3>1. n > 1 => n \div 2 \in 1..n - 1
      BY Half
    <3> QED BY <3>1
  <2>3. \A a \in Nat : \A n \in 1..len : F[<<a, n>>] = IF n <= 1 THEN 1 ELSE 2 * a
    OBVIOUS
  <2>4. \A n \in 1..len : n > 1 => before[n] = n \div 2
    OBVIOUS
  <2> HIDE DEF F, before
  <2>5. PICK f : IsRecursion(f, Nat, len, 1, before, F)
    BY <2>1, <2>2, RecursionExists
  <2>6. ASSUME NEW n \in 0..len
        PROVE  f[n] = IF n <= 1 THEN 1 ELSE 2 * f[n \div 2]
    <3>1. CASE n = 0
      BY <2>5, <3>1 DEF IsRecursion
    <3>2. CASE n \in 1..len
      <4>1. before[n] \in 0..len
        BY <2>2, <3>2
      <4>2. f[before[n]] \in Nat /\ f[n] = F[<<f[before[n]], n>>]
        BY <2>5, <3>2, <4>1 DEF IsRecursion
      <4>3. f[n] = IF n <= 1 THEN 1 ELSE 2 * f[before[n]]
        BY <2>3, <3>2, <4>2
      <4> QED BY <2>4, <3>2, <4>3
    <3> QED BY <3>1, <3>2
  <2>7. P(f)
    BY <2>5, <2>6 DEF IsRecursion
  <2> HIDE DEF P
  <2> QED BY <2>7
<1> HIDE DEF power
<1> DEFINE T == {n \in 0..len : n > 0 => power[n] \in 1..n}
<1>3. ASSUME NEW n \in 0..len, \A j \in 0..n - 1 : j \in T
      PROVE  n \in T
  <2>1. power[n] = IF n <= 1 THEN 1 ELSE 2 * power[n \div 2]
    BY <1>2
  <2>2. CASE n <= 1
    BY <2>1, <2>2
  <2>3. CASE n > 1
    <3>1. n \div 2 \in 1..n - 1 /\ 2 * (n \div 2) <= n
      BY <2>3, Half
    <3>2. power[n \div 2] \in 1..n \div 2
      BY <1>3, <3>1
    <3>3. power[n] \in 1..n
      <4> DEFINE h == n \div 2
                 q == power[h]
      <4>1. h \in 1..n - 1 /\ 2 * h <= n /\ q \in 1..h /\ power[n] = 2 * q /\ ~(n <= 1)
        BY <2>1, <2>3, <3>1, <3>2
      <4> HIDE DEF h, q
      <4> QED BY <4>1
    <3> QED BY <3>3
  <2> QED BY <2>2, <2>3
<1>4. \A n \in 0..len : n \in T
  <2> HIDE DEF T
  <2> QED BY <1>3, StrongInduction
<1>5. len \in 0..len
  OBVIOUS
<1> QED BY <1>1, <1>4, <1>5

\* The length of the next piece of zeros, case by case (Zeros::pieces).
LEMMA ZerosPieceCases ==
  ASSUME NEW len \in Nat
  PROVE  ZerosPiece(len) = IF len >= ZerosMax THEN ZerosMax
                           ELSE IF len >= Align THEN Power(len) ELSE len
<1>1. {Align, ZerosMax} \subseteq Nat
  BY ExtentsAssumption
<1>2. \/ len >= ZerosMax /\ ~(len < ZerosMax) /\ ~(len < Align)
      \/ len < ZerosMax /\ len >= Align /\ ~(len >= ZerosMax)
      \/ len < Align /\ ~(len >= Align) /\ ~(len >= ZerosMax)
  BY <1>1, ExtentsAssumption
<1>3. CASE len >= ZerosMax /\ ~(len < ZerosMax) /\ ~(len < Align)
  BY <1>1, <1>3 DEF ZerosPiece
<1>4. CASE len < ZerosMax /\ len >= Align /\ ~(len >= ZerosMax)
  BY <1>1, <1>4 DEF ZerosPiece
<1>5. CASE len < Align /\ ~(len >= Align) /\ ~(len >= ZerosMax)
  BY <1>1, <1>5 DEF ZerosPiece
<1> QED BY <1>2, <1>3, <1>4, <1>5

\* A piece of zeros is no longer than all of them, nor than a frame may be.
LEMMA ZerosPieceFacts ==
  ASSUME NEW len \in Nat \ {0}
  PROVE  ZerosPiece(len) \in 1..len /\ ZerosPiece(len) <= ZerosMax
<1>1. {Align, ZerosMax} \subseteq Nat \ {0}
  BY ExtentsAssumption
<1>2. Power(len) \in 1..len
  BY PowerFacts
<1> QED BY <1>1, <1>2, ZerosPieceCases

\* The pieces of zeros fit their frames and make up all of them.
Adds(p, len) ==
  /\ p \in Seq(Nat) /\ \A i \in DOMAIN p : p[i] \in 1..ZerosMax
  /\ \E g \in [0..Len(p) -> Nat] :
       g[0] = 0 /\ g[Len(p)] = len /\ \A i \in 1..Len(p) : g[i] = g[i - 1] + p[i]

\* One more piece before the others.
LEMMA AddsOneMore ==
  ASSUME NEW p, NEW len \in Nat, Adds(p, len), NEW x \in 1..ZerosMax
  PROVE  Adds(<<x>> \o p, x + len)
<1> DEFINE m == Len(p)
           r == <<x>> \o p
<1>0. ZerosMax \in Nat
  BY ExtentsAssumption
<1>1. PICK g \in [0..Len(p) -> Nat] :
        g[0] = 0 /\ g[Len(p)] = len /\ \A i \in 1..Len(p) : g[i] = g[i - 1] + p[i]
  BY DEF Adds
<1>2. /\ p \in Seq(Nat) /\ m \in Nat /\ DOMAIN p = 1..m /\ \A i \in 1..m : p[i] \in 1..ZerosMax
      /\ x \in Nat /\ x > 0
  BY <1>0, LenProperties DEF Adds
<1>3. /\ r \in Seq(Nat) /\ Len(r) = m + 1 /\ DOMAIN r = 1..m + 1
      /\ r[1] = x /\ \A i \in 2..m + 1 : r[i] = p[i - 1]
  <2>1. <<x>> \in Seq(Nat) /\ Len(<<x>>) = 1 /\ <<x>>[1] = x
    BY <1>2
  <2>2. /\ r \in Seq(Nat) /\ Len(r) = 1 + m
        /\ \A i \in 1..1 + m : r[i] = IF i <= 1 THEN <<x>>[i] ELSE p[i - 1]
    BY <1>2, <2>1, ConcatProperties
  <2> HIDE DEF r, m
  <2> QED BY <1>2, <2>1, <2>2, LenProperties
<1> HIDE DEF r
<1>4. \A i \in DOMAIN r : r[i] \in 1..ZerosMax
  <2> TAKE i \in DOMAIN r
  <2>1. i = 1 \/ (i \in 2..m + 1 /\ i - 1 \in 1..m)
    BY SMTT(40), <1>2, <1>3
  <2> QED BY <1>2, <1>3, <2>1
<1> DEFINE h == [i \in 0..m + 1 |-> IF i = 0 THEN 0 ELSE x + g[i - 1]]
<1>5. h \in [0..m + 1 -> Nat] /\ h[0] = 0 /\ h[m + 1] = x + len
  <2>1. \A i \in 0..m + 1 : i = 0 \/ i - 1 \in 0..m
    BY <1>2
  <2>2. \A i \in 0..m : g[i] \in Nat
    BY <1>1
  <2>3. ASSUME NEW i \in 0..m + 1
        PROVE  h[i] \in Nat
    <3>1. CASE i = 0
      BY <3>1
    <3>2. CASE i # 0
      <4> PICK k \in 0..m : k = i - 1
        BY <2>1, <3>2
      <4>1. h[i] = x + g[k] /\ g[k] \in Nat
        BY <2>2, <3>2
      <4> HIDE DEF h
      <4> QED BY <1>2, <4>1
    <3> QED BY <3>1, <3>2
  <2>4. m + 1 \in 0..m + 1 /\ m + 1 # 0 /\ (m + 1) - 1 = m
    BY <1>2
  <2> QED BY <1>1, <1>2, <2>3, <2>4
<1>6. \A i \in 1..m + 1 : h[i] = h[i - 1] + r[i]
  <2> TAKE i \in 1..m + 1
  <2>1. CASE i = 1
    BY <1>1, <1>2, <1>3, <2>1
  <2>2. CASE i # 1
    <3> PICK k \in 1..m : k = i - 1
      BY <1>2, <2>2
    <3>1. i \in 2..m + 1 /\ i \in 0..m + 1 /\ k \in 0..m + 1 /\ k - 1 \in 0..m /\ i # 0 /\ k # 0
      BY <1>2
    <3>2. g[k] = g[k - 1] + p[k] /\ g[k - 1] \in Nat /\ p[k] \in Nat
      <4>1. k \in 1..Len(p) /\ p[k] \in 1..ZerosMax
        BY <1>2
      <4>2. g[k - 1] \in Nat
        BY <1>1, <3>1
      <4>3. g[k] = g[k - 1] + p[k]
        BY <1>1, <4>1
      <4>4. p[k] \in Nat
        BY <1>0, <4>1
      <4> QED BY <4>2, <4>3, <4>4
    <3>3. h[i] = x + g[k] /\ h[k] = x + g[k - 1] /\ r[i] = p[k]
      BY <1>3, <3>1
    <3>4. h[i] = h[k] + p[k]
      <4> HIDE DEF h
      <4> QED BY SMTT(40), <1>2, <3>2, <3>3
    <3> HIDE DEF h
    <3> QED BY <3>3, <3>4
  <2> QED BY <2>1, <2>2
<1> HIDE DEF h
<1> QED BY <1>2, <1>3, <1>4, <1>5, <1>6 DEF Adds, r

\* The pieces of zeros, from the biggest on.
LEMMA ZerosPiecesFacts ==
  ASSUME NEW len \in Nat
  PROVE  Adds(ZerosPieces(len), len)
<1> DEFINE A == Seq(Nat)
           P(f) == f = [n \in 0..len |-> IF n = 0 THEN <<>>
                                         ELSE <<ZerosPiece(n)>> \o f[n - ZerosPiece(n)]]
           pieces == CHOOSE f : P(f)
           before == [n \in 1..len |-> n - ZerosPiece(n)]
           F == [p \in A \X (1..len) |-> <<ZerosPiece(p[2])>> \o p[1]]
<1>0. ZerosMax \in Nat /\ \A n \in 1..len : ZerosPiece(n) \in 1..n /\ ZerosPiece(n) <= ZerosMax
  BY ZerosPieceFacts, ExtentsAssumption
<1>1. ZerosPieces(len) = pieces[len]
  BY DEF ZerosPieces
<1>2. P(pieces)
  <2>1. IsOperation(F, A, len)
    <3>1. \A p \in A \X (1..len) : ZerosPiece(p[2]) \in Nat /\ p[1] \in A
      BY <1>0
    <3>2. \A p \in A \X (1..len) : <<ZerosPiece(p[2])>> \o p[1] \in A
      BY <3>1
    <3> QED BY <3>2 DEF IsOperation
  <2>2. before \in [1..len -> Nat] /\ \A n \in 1..len : before[n] < n
    <3>1. \A n \in 1..len : n - ZerosPiece(n) \in Nat /\ n - ZerosPiece(n) < n
      <4> TAKE n \in 1..len
      <4> DEFINE z == ZerosPiece(n)
      <4>1. z \in 1..n
        BY <1>0
      <4> HIDE DEF z
      <4>2. n - z \in Nat /\ n - z < n
        BY <4>1
      <4> QED BY <4>2 DEF z
    <3> QED BY <3>1
  <2>3. \A a \in A : \A n \in 1..len : F[<<a, n>>] = <<ZerosPiece(n)>> \o a
    OBVIOUS
  <2>4. \A n \in 1..len : before[n] = n - ZerosPiece(n)
    OBVIOUS
  <2>5. <<>> \in A
    OBVIOUS
  <2> HIDE DEF F, before, A
  <2>6. PICK f : IsRecursion(f, A, len, <<>>, before, F)
    BY <2>1, <2>2, <2>5, RecursionExists
  <2>7. ASSUME NEW n \in 0..len
        PROVE  f[n] = IF n = 0 THEN <<>> ELSE <<ZerosPiece(n)>> \o f[n - ZerosPiece(n)]
    <3>1. CASE n = 0
      BY <2>6, <3>1 DEF IsRecursion
    <3>2. CASE n \in 1..len
      <4>1. before[n] \in 0..len /\ n # 0
        BY <2>2, <3>2
      <4>2. f[before[n]] \in A /\ f[n] = F[<<f[before[n]], n>>]
        BY <2>6, <3>2, <4>1 DEF IsRecursion
      <4> QED BY <2>3, <2>4, <3>2, <4>1, <4>2
    <3> QED BY <3>1, <3>2
  <2>8. P(f)
    BY <2>6, <2>7 DEF IsRecursion
  <2> HIDE DEF P
  <2> QED BY <2>8
<1> HIDE DEF pieces
<1> DEFINE T == {n \in 0..len : Adds(pieces[n], n)}
<1>3. ASSUME NEW n \in 0..len, \A j \in 0..n - 1 : j \in T
      PROVE  n \in T
  <2>1. pieces[n] = IF n = 0 THEN <<>> ELSE <<ZerosPiece(n)>> \o pieces[n - ZerosPiece(n)]
    BY <1>2
  <2>2. CASE n = 0
    <3> DEFINE g == [i \in 0..0 |-> 0]
    <3>1. g \in [0..Len(<<>>) -> Nat] /\ g[0] = 0 /\ g[Len(<<>>)] = 0 /\ 1..Len(<<>>) = {}
      OBVIOUS
    <3>2. <<>> \in Seq(Nat) /\ DOMAIN <<>> = {}
      OBVIOUS
    <3> HIDE DEF g
    <3>3. Adds(<<>>, 0)
      BY <3>1, <3>2 DEF Adds
    <3> QED BY <2>1, <2>2, <3>3
  <2>3. CASE n > 0
    <3> DEFINE z == ZerosPiece(n)
               k == n - z
    <3>1. z \in 1..n /\ z \in 1..ZerosMax
      BY <1>0, <2>3
    <3>2. pieces[n] = <<z>> \o pieces[k]
      BY <2>1, <2>3
    <3> HIDE DEF z
    <3>3. k \in 0..n - 1 /\ k \in Nat /\ z + k = n
      BY <3>1
    <3>4. Adds(pieces[k], k)
      BY <1>3, <3>3
    <3> HIDE DEF k
    <3>5. Adds(<<z>> \o pieces[k], z + k)
      BY <3>1, <3>3, <3>4, AddsOneMore
    <3> HIDE DEF P
    <3> QED BY <3>2, <3>3, <3>5
  <2> QED BY <2>2, <2>3
<1>4. \A n \in 0..len : n \in T
  <2> HIDE DEF T
  <2> QED BY <1>3, StrongInduction
<1>5. len \in 0..len
  OBVIOUS
<1> QED BY <1>1, <1>4, <1>5

-------------------------------------------------------------------------------
(* The map in the image *)

\* A pair read adds an extent, or the map is damaged.
LEMMA ParsedInto ==
  ASSUME NEW v \in Seq(Ext), NEW pair \in Nat \X Nat, NEW unit \in Nat, NEW size \in Nat
  PROVE  ParsedWith(v, pair, unit, size) \in Seq(Ext)
<1> DEFINE d == DataEnd(v)
           a == pair[1]
           b == pair[2]
           start == d + a * unit
           far == start + b * unit
           end == IF far > size /\ far - size < unit THEN size ELSE far
<1>1. d \in Nat
  <2>1. CASE v = <<>>
    BY <2>1 DEF DataEnd
  <2>2. CASE v # <<>>
    <3>1. Last(v) \in Ext
      BY <2>2 DEF Last
    <3> QED BY <2>2, <3>1, EndIs DEF DataEnd
  <2> QED BY <2>1, <2>2
<1>2. a * unit \in Nat /\ b * unit \in Nat
  OBVIOUS
<1>3. start \in Nat /\ far \in Nat
  <2> DEFINE p == a * unit
             q == b * unit
  <2>1. start = d + p /\ far = start + q /\ p \in Nat /\ q \in Nat
    BY <1>2
  <2> HIDE DEF start, far, d, p, q
  <2> QED BY <1>1, <2>1
<1> HIDE DEF start, far, d, a, b
<1>4. end \in Nat
  BY <1>3
<1>5. ParsedWith(v, pair, unit, size) = IF v = Damaged \/ end <= start \/ end > size THEN Damaged
                                        ELSE Append(v, Extent(start, end - start))
  BY DEF ParsedWith, start, far, d, a, b
<1> HIDE DEF end
<1>6. ~(end <= start) => Extent(start, end - start) \in Ext
  BY <1>3, <1>4 DEF Extent, Ext
<1>7. Damaged \in Seq(Ext)
  <2>1. Extent(0, 0) \in Ext
    BY DEF Extent, Ext
  <2> QED BY <2>1 DEF Damaged
<1> QED BY <1>5, <1>6, <1>7

\* How the pairs of a map are read.
LEMMA ParsedSteps ==
  ASSUME NEW text, NEW pairs \in Seq(Nat \X Nat), pairs = text.pairs,
         text.unit \in Nat, text.size \in Nat
  PROVE  \E g \in [0..Len(pairs) -> Seq(Ext)] :
           /\ g[0] = <<>> /\ g[Len(pairs)] = ParsedPairs(text)
           /\ \A i \in 1..Len(pairs) : g[i] = ParsedWith(g[i - 1], pairs[i], text.unit, text.size)
<1> DEFINE A == Seq(Ext)
           n == Len(pairs)
           F == [p \in A \X (1..n) |-> ParsedWith(p[1], pairs[p[2]], text.unit, text.size)]
           P(iter) == iter = [x \in SUBSET (1..n) |->
                                IF x = {} THEN <<>>
                                ELSE ParsedWith(iter[x \ {Max(x)}], pairs[Max(x)], text.unit, text.size)]
           c == CHOOSE iter : P(iter)
<1>0. n \in Nat /\ DOMAIN pairs = 1..n /\ \A i \in 1..n : pairs[i] \in Nat \X Nat
  BY LenProperties, ElementOfSeq
<1>1. ParsedPairs(text) = c[1..n]
  BY <1>0 DEF ParsedPairs, FoldLeft, MapThenFoldSet
<1>2. <<>> \in A
  OBVIOUS
<1>3. \A a \in A : \A i \in 1..n : ParsedWith(a, pairs[i], text.unit, text.size) \in A
  BY <1>0, ParsedInto
<1> HIDE DEF A
<1>4. IsOperation(F, A, n)
  BY <1>3 DEF IsOperation
<1>5. \A a \in A : \A i \in 1..n : F[<<a, i>>] = ParsedWith(a, pairs[i], text.unit, text.size)
  OBVIOUS
<1> HIDE DEF F, n
<1>6. \A x \in SUBSET (1..n) : x # {} => Max(x) \in 1..n
  BY <1>0, MaxIs
<1>7. P(c)
  <2>1. PICK iter : IsFold(iter, A, n, <<>>, F)
    BY <1>0, <1>2, <1>4, FoldExists
  <2>2. \A x \in SUBSET (1..n) :
          iter[x] = IF x = {} THEN <<>>
                    ELSE ParsedWith(iter[x \ {Max(x)}], pairs[Max(x)], text.unit, text.size)
    <3> TAKE x \in SUBSET (1..n)
    <3>1. iter[x \ {Max(x)}] \in A
      BY <2>1 DEF IsFold
    <3>2. iter[x] = IF x = {} THEN <<>> ELSE F[<<iter[x \ {Max(x)}], Max(x)>>]
      BY <2>1 DEF IsFold
    <3> QED BY <1>5, <1>6, <3>1, <3>2
  <2>3. P(iter)
    BY <2>1, <2>2 DEF IsFold
  <2> HIDE DEF P
  <2> QED BY <2>3
<1> HIDE DEF c
<1>8. c[{}] = <<>>
  BY <1>7
<1>9. ASSUME NEW x \in SUBSET (1..n), x # {}, c[x \ {Max(x)}] \in A
      PROVE  c[x] = F[<<c[x \ {Max(x)}], Max(x)>>]
  <2>1. c[x] = ParsedWith(c[x \ {Max(x)}], pairs[Max(x)], text.unit, text.size)
    BY <1>7, <1>9
  <2> HIDE DEF P
  <2> QED BY <1>5, <1>6, <1>9, <2>1
<1> HIDE DEF P
<1>10. PICK g : IsSteps(g, A, n, <<>>, F) /\ g[n] = c[1..n]
  <2>1. Follows(c, A, n, <<>>, F)
    BY <1>8, <1>9 DEF Follows
  <2> QED BY <1>0, <1>2, <1>4, <2>1, FoldSteps
<1>11. \A i \in 1..n : g[i] = ParsedWith(g[i - 1], pairs[i], text.unit, text.size)
  <2> TAKE i \in 1..n
  <2>1. i - 1 \in 0..n
    BY <1>0
  <2>2. g[i - 1] \in A /\ g[i] = F[<<g[i - 1], i>>]
    BY <1>10, <2>1 DEF IsSteps
  <2> QED BY <1>5, <2>2
<1>12. g \in [0..n -> A] /\ g[0] = <<>> /\ g[n] = ParsedPairs(text)
  BY <1>1, <1>10 DEF IsSteps
<1> QED BY <1>11, <1>12 DEF A, n

\* What a map's unit means: all extents begin, and end before the drive's end, on a whole one.
InUnits(v, u, size) ==
  \A i \in DOMAIN v : v[i].start % u = 0 /\ (v[i].len % u = 0 \/ End(v[i]) = size)

\* The unit the numbers of a map are written in divides all of them (map_text).
LEMMA UnitFacts ==
  ASSUME NEW v \in Seq(Ext), NEW size \in Nat
  PROVE  Unit(v, size) \in Nat \ {0} /\ InUnits(v, Unit(v, size), size)
<1>1. Align \in Nat \ {0}
  BY ExtentsAssumption
<1>2. \A n \in Nat : n % 1 = 0
  OBVIOUS
<1>3. InUnits(v, 1, size)
  <2>1. \A i \in DOMAIN v : v[i].start \in Nat /\ v[i].len \in Nat
    BY ExtFacts
  <2> QED BY <1>2, <2>1 DEF InUnits
<1>4. Unit(v, size) = IF InUnits(v, Align, size) THEN Align ELSE 1
  BY DEF Unit, InUnits
<1> QED BY <1>1, <1>3, <1>4

\* The free space before an extent, as the map counts it.
Before(v, i) == IF i = 1 THEN 0 ELSE End(v[i - 1])

\* What's before an extent ends no later than it starts.
LEMMA BeforeFacts ==
  ASSUME NEW v \in Seq(Ext), Ordered(v), NEW i \in DOMAIN v
  PROVE  Before(v, i) \in Nat /\ Before(v, i) <= v[i].start
         /\ DataEnd(SubSeq(v, 1, i - 1)) = Before(v, i)
<1>1. /\ Len(v) \in Nat /\ i \in 1..Len(v)
      /\ \A j \in 1..Len(v) : v[j] \in Ext /\ v[j].start \in Nat /\ End(v[j]) \in Nat
  BY ExtFacts, EndIs
<1>2. i # 1 => i - 1 \in 1..Len(v) /\ i \in 2..Len(v)
  BY <1>1
<1>3. CASE i = 1
  <2>1. SubSeq(v, 1, i - 1) = <<>>
    BY <1>3
  <2> QED BY <1>1, <1>3, <2>1 DEF Before, DataEnd
<1>4. CASE i # 1
  <2> PICK k \in 1..Len(v) : k = i - 1
    BY <1>2, <1>4
  <2> DEFINE s == SubSeq(v, 1, k)
  <2>1. Len(s) = k /\ \A j \in 1..k : s[j] = v[j]
    BY <1>1
  <2>2. s # <<>> /\ Last(s) = v[k]
    BY SMTT(40), <1>1, <2>1 DEF Last
  <2>3. DataEnd(s) = End(v[k])
    BY <2>2 DEF DataEnd
  <2>4. End(v[k]) <= v[i].start
    BY <1>2, <1>4 DEF Ordered
  <2> QED BY <1>1, <1>4, <2>3, <2>4 DEF Before
<1> QED BY <1>3, <1>4

\* The pair of an extent, and what's read from it.
LEMMA PairFacts ==
  ASSUME NEW v \in Seq(Ext), NEW size \in Nat, Full(v), Apart(v, 0), Within(v, size),
         NEW u \in Nat \ {0}, InUnits(v, u, size), NEW i \in DOMAIN v
  PROVE  LET pair == <<(v[i].start - Before(v, i)) \div u, Units(v[i].len, u)>>
         IN  /\ pair \in Nat \X Nat
             /\ ParsedWith(SubSeq(v, 1, i - 1), pair, u, size) = SubSeq(v, 1, i)
<1> DEFINE d == v[i].start - Before(v, i)
           len == v[i].len
           q == d \div u
           n == Units(len, u)
           start == Before(v, i) + q * u
           far == start + n * u
           end == IF far > size /\ far - size < u THEN size ELSE far
           s == SubSeq(v, 1, i - 1)
<1>1. /\ Len(v) \in Nat /\ i \in 1..Len(v) /\ DOMAIN v = 1..Len(v)
      /\ \A j \in 1..Len(v) : /\ v[j] \in Ext /\ v[j].start \in Nat /\ v[j].len \in Nat
                              /\ End(v[j]) \in Nat /\ End(v[j]) = v[j].start + v[j].len
                              /\ v[j].len > 0 /\ End(v[j]) <= size
  BY ExtFacts, EndIs DEF Full, Within
<1>2. Before(v, i) \in Nat /\ Before(v, i) <= v[i].start /\ DataEnd(s) = Before(v, i)
  BY ApartIsOrdered, BeforeFacts
<1>3. Before(v, i) % u = 0
  <2>1. CASE i = 1
    BY <2>1, ModOfSum DEF Before
  <2>2. CASE i # 1
    <3> PICK k \in 1..Len(v) : k = i - 1
      BY <1>1, <2>2
    <3>1. End(v[k]) # size
      <4>1. i \in 2..Len(v)
        BY <1>1, <2>2
      <4>2. ~(v[i].start <= End(v[k]))
        BY <4>1 DEF Apart, Joins
      <4>3. v[i].start \in Nat /\ v[i].len \in Nat /\ v[i].len > 0 /\ v[i].start + v[i].len <= size
        BY <1>1
      <4> QED BY ONLY <4>2, <4>3, size \in Nat
    <3>2. v[k].start % u = 0 /\ v[k].len % u = 0
      BY <1>1, <3>1 DEF InUnits
    <3>3. (v[k].start + v[k].len) % u = 0
      <4>1. v[k].start \in Int /\ v[k].len \in Int
        BY <1>1
      <4> QED BY <3>2, <4>1, AddMultiple
    <3> QED BY <1>1, <2>2, <3>3 DEF Before
  <2> QED BY <2>1, <2>2
<1>4. d \in Nat /\ d % u = 0
  <2>1. v[i].start % u = 0 /\ v[i].start \in Nat
    BY <1>1 DEF InUnits
  <2> QED BY SMTT(40), <1>2, <1>3, <2>1, SubMultiple
<1>5. q \in Nat /\ q * u = d
  <2>1. d \in Nat /\ d % u = 0
    BY <1>4
  <2> HIDE DEF d
  <2>2. q \in Int /\ d = u * q + (d % u)
    BY <2>1, DivMod
  <2>3. q >= 0
    BY <2>1
  <2> HIDE DEF q
  <2> QED BY <2>1, <2>2, <2>3
<1>6. start = v[i].start
  <2> HIDE DEF q
  <2> QED BY SMTT(40), <1>1, <1>2, <1>5
<1>7. n \in Nat /\ len <= n * u /\ n * u < len + u /\ (len % u = 0 => n * u = len)
  <2>1. n \in Nat /\ len <= n * u /\ n * u < len + u
    BY <1>1, UnitsFacts
  <2>2. RoundUp(len, u) = n * u
    BY DEF RoundUp, Units
  <2>3. len % u = 0 => RoundUp(len, u) = len
    BY <1>1, RoundUpFacts
  <2> QED BY <2>1, <2>2, <2>3
<1>8. end = End(v[i]) /\ end \in Nat
  <2> DEFINE e == End(v[i])
             f == n * u
  <2>1. len % u = 0 \/ e = size
    BY <1>1 DEF InUnits
  <2>2. f \in Int /\ len <= f /\ f < len + u /\ (len % u = 0 => f = len)
    BY <1>7
  <2>3. far = v[i].start + f
    BY <1>6
  <2>4. e = v[i].start + len /\ e \in Nat /\ e <= size /\ v[i].start \in Nat /\ len \in Nat
    BY <1>1
  <2> HIDE DEF f, far, e, len
  <2>5. end = e /\ end \in Nat
    <3>1. CASE len % u = 0
      BY SMTT(40), <2>2, <2>3, <2>4, <3>1
    <3>2. CASE e = size
      BY SMTT(40), <2>2, <2>3, <2>4, <3>2
    <3> QED BY <2>1, <3>1, <3>2
  <2> QED BY <2>5 DEF e
<1>9. s # Damaged
  <2> SUFFICES ASSUME s = <<Extent(0, 0)>>
               PROVE  FALSE
    BY DEF Damaged
  <2>1. Len(s) = 1 /\ s[1].len = 0
    <3> HIDE DEF s
    <3> QED BY DEF Extent
  <2>2. Len(s) = i - 1 /\ s[1] = v[1]
    <3>1. i - 1 >= 1
      BY <1>1, <2>1
    <3> QED BY <1>1, <3>1
  <2>3. 1 \in 1..Len(v)
    BY <1>1
  <2>4. v[1].len > 0
    BY <1>1, <2>3
  <2> HIDE DEF s
  <2> QED BY <2>1, <2>2, <2>4
<1>10. ~(end <= v[i].start) /\ ~(end > size)
  BY SMTT(40), <1>1, <1>8
<1>11. Extent(v[i].start, end - v[i].start) = v[i]
  BY SMTT(40), <1>1, <1>8 DEF Extent, Ext
<1>12. Append(s, v[i]) = SubSeq(v, 1, i)
  <2>1. s \in Seq(Ext) /\ Len(s) = i - 1 /\ \A j \in 1..i - 1 : s[j] = v[j]
    BY <1>1
  <2> DEFINE a == Append(s, v[i])
             b == SubSeq(v, 1, i)
  <2>2. a \in Seq(Ext) /\ Len(a) = i /\ \A j \in 1..i : a[j] = v[j]
    BY SMTT(40), <1>1, <2>1
  <2>3. b \in Seq(Ext) /\ Len(b) = i /\ \A j \in 1..i : b[j] = v[j]
    BY SMTT(40), <1>1
  <2> HIDE DEF a, b
  <2>4. a = b
    BY <1>1, <2>2, <2>3, SeqEqual
  <2> QED BY <2>4 DEF a, b
<1> DEFINE pair == <<q, n>>
<1>13. ParsedWith(s, pair, u, size) =
         IF s = Damaged \/ end <= start \/ end > size THEN Damaged
         ELSE Append(s, Extent(start, end - start))
  <2>1. pair[1] = q /\ pair[2] = n
    OBVIOUS
  <2> HIDE DEF q, n, pair, s
  <2> QED BY <1>2, <2>1 DEF ParsedWith
<1>14. pair \in Nat \X Nat
  BY <1>5, <1>7
<1> HIDE DEF end, start, s
<1>15. ParsedWith(s, pair, u, size) = SubSeq(v, 1, i)
  BY <1>6, <1>9, <1>10, <1>11, <1>12, <1>13
<1> QED BY <1>14, <1>15 DEF s

\* A map of extents that aren't empty, lie apart and within the drive reads back from the
\* image as it went in, also where the drive's end cuts its last unit short.
THEOREM MapReadsBack ==
  ASSUME NEW v \in Seq(Ext), NEW size \in Nat, Full(v), Apart(v, 0), Within(v, size)
  PROVE  Parse(ToText(v, size)) = v
<1> DEFINE text == ToText(v, size)
           u == Unit(v, size)
           Pair(i) == <<(v[i].start - Before(v, i)) \div u, Units(v[i].len, u)>>
           n == Len(v)
<1>1. u \in Nat \ {0} /\ InUnits(v, u, size)
  BY UnitFacts
<1>2. /\ text.size = size /\ text.unit = u /\ text.used = UsedCells(v) /\ text.count = n
      /\ text.pairs = [i \in DOMAIN v |-> Pair(i)]
  BY DEF ToText, Before
<1>3. n \in Nat /\ DOMAIN v = 1..n
  BY ExtFacts
<1>4. \A i \in 1..n : Pair(i) \in Nat \X Nat
                      /\ ParsedWith(SubSeq(v, 1, i - 1), Pair(i), u, size) = SubSeq(v, 1, i)
  BY ZenonT(40), <1>1, <1>3, PairFacts
<1> HIDE DEF text, u, n, Pair
<1> DEFINE pairs == text.pairs
<1>5. pairs \in Seq(Nat \X Nat) /\ Len(pairs) = n /\ \A i \in 1..n : pairs[i] = Pair(i)
  <2>1. pairs = [i \in 1..n |-> Pair(i)]
    BY <1>2, <1>3
  <2>2. pairs \in Seq(Nat \X Nat)
    BY <1>3, <1>4, <2>1, IsASeq
  <2>3. Len(pairs) = n
    <3>1. DOMAIN pairs = 1..n
      BY <2>1
    <3> QED BY <1>3, <2>2, <3>1, LenProperties
  <2> QED BY <2>1, <2>2, <2>3
<1> HIDE DEF pairs
<1>6. PICK g \in [0..n -> Seq(Ext)] :
        /\ g[0] = <<>> /\ g[n] = ParsedPairs(text)
        /\ \A i \in 1..n : g[i] = ParsedWith(g[i - 1], pairs[i], u, size)
  <2>1. text.unit \in Nat /\ text.size \in Nat /\ pairs = text.pairs
    BY <1>1, <1>2 DEF pairs
  <2>2. PICK g \in [0..Len(pairs) -> Seq(Ext)] :
          /\ g[0] = <<>> /\ g[Len(pairs)] = ParsedPairs(text)
          /\ \A i \in 1..Len(pairs) : g[i] = ParsedWith(g[i - 1], pairs[i], text.unit, text.size)
    BY <1>5, <2>1, ParsedSteps
  <2> QED BY ZenonT(40), <1>2, <1>5, <2>2
<1> DEFINE T == {i \in 0..n : g[i] = SubSeq(v, 1, i)}
<1>7. 0 \in T
  <2>1. SubSeq(v, 1, 0) = <<>> /\ 0 \in 0..n
    BY <1>3
  <2> QED BY <1>6, <2>1
<1>8. ASSUME NEW i \in 1..n, i - 1 \in T
      PROVE  i \in T
  <2>1. g[i - 1] = SubSeq(v, 1, i - 1) /\ i \in 0..n
    BY <1>8
  <2> QED BY <1>4, <1>5, <1>6, <2>1
<1>9. n \in T
  <2>1. \A i \in 0..n : i \in T
    <3> HIDE DEF T
    <3> QED BY <1>3, <1>7, <1>8, Induction
  <2>2. n \in 0..n
    BY <1>3
  <2> QED BY <2>1, <2>2
<1>10. SubSeq(v, 1, n) = v
  <2>1. /\ SubSeq(v, 1, n) \in Seq(Ext) /\ Len(SubSeq(v, 1, n)) = n
        /\ \A i \in 1..n : SubSeq(v, 1, n)[i] = v[i]
    BY <1>3
  <2>2. Len(v) = n
    BY DEF n
  <2> QED BY <2>1, <2>2, SeqEqual
<1>11. ParsedPairs(text) = v
  BY <1>6, <1>9, <1>10
<1> QED BY <1>2, <1>11 DEF Parse, n, text

-------------------------------------------------------------------------------
(* The cursor *)

\* The cursor goes to the first extent that isn't behind it.
LEMMA AdvancedFacts ==
  ASSUME NEW v \in Seq(Ext), NEW at \in 1..Len(v) + 1, NEW pos \in Nat
  PROVE  LET i == Advanced(v, at, pos)
         IN  /\ i \in at..Len(v) + 1
             /\ i <= Len(v) => End(v[i]) > pos
             /\ \A j \in at..i - 1 : End(v[j]) <= pos
<1> DEFINE n == Len(v)
           K == {i \in at..n + 1 : i <= n => End(v[i]) > pos}
<1>1. n \in Nat /\ \A i \in 1..n : End(v[i]) \in Nat
  BY ExtFacts, EndIs
<1> HIDE DEF n
<1>2. n + 1 \in K /\ K \subseteq Nat
  BY <1>1 DEF n
<1>3. PICK k \in K : \A x \in K : k <= x
  <2> HIDE DEF K
  <2> QED BY <1>2, Minimum
<1>4. k \in at..n + 1 /\ (k <= n => End(v[k]) > pos)
  OBVIOUS
<1>5. \A j \in at..k - 1 : End(v[j]) <= pos
  <2> TAKE j \in at..k - 1
  <2>1. j \in at..n + 1 /\ j \in 1..n /\ ~(k <= j)
    BY <1>1, <1>4 DEF n
  <2>2. j \notin K
    BY <1>3, <2>1
  <2>3. ~(End(v[j]) > pos)
    BY <2>1, <2>2
  <2> QED BY <1>1, <2>1, <2>3
<1>6. \E i \in at..n + 1 : /\ i <= n => End(v[i]) > pos
                           /\ \A j \in at..i - 1 : End(v[j]) <= pos
  BY <1>4, <1>5
<1> QED BY <1>6 DEF Advanced, n

\* All extents before the cursor are behind the position.
Behind(v, at, pos) == at \in 1..Len(v) + 1 /\ \A j \in 1..at - 1 : End(v[j]) <= pos

\* What the cursor says of a run: it's used if its first cell is, and free as far as it says.
LEMMA RunFacts ==
  ASSUME NEW v \in Seq(Ext), Ordered(v), NEW at, NEW pos \in Nat, Behind(v, at, pos), NEW len \in Nat
  PROVE  LET r == Run(v, at, pos, len)
         IN  /\ Behind(v, r.at, pos)
             /\ r.used <=> pos \in AllCells(v)
             /\ ~r.used => \A c \in pos..pos + r.len - 1 : c \notin AllCells(v)
<1> DEFINE n == Len(v)
           i == Advanced(v, at, pos)
           r == Run(v, at, pos, len)
<1>1. /\ n \in Nat /\ DOMAIN v = 1..n
      /\ \A j \in 1..n : /\ v[j].start \in Nat /\ End(v[j]) \in Nat
                         /\ CellsOf(v[j]) = v[j].start..End(v[j]) - 1
  BY ExtFacts, EndIs
<1>2. at \in 1..n + 1 /\ \A j \in 1..at - 1 : End(v[j]) <= pos
  BY DEF Behind
<1>3. /\ i \in at..n + 1 /\ (i <= n => End(v[i]) > pos)
      /\ \A j \in at..i - 1 : End(v[j]) <= pos
  BY <1>2, AdvancedFacts
<1>4. i \in 1..n + 1 /\ \A j \in 1..i - 1 : End(v[j]) <= pos
  <2>1. \A j \in 1..i - 1 : j \in 1..at - 1 \/ j \in at..i - 1
    BY <1>1, <1>2, <1>3
  <2>2. \A j \in 1..i - 1 : End(v[j]) <= pos
    <3> HIDE DEF i
    <3> QED BY <1>2, <1>3, <2>1
  <2>3. i \in 1..n + 1
    <3> HIDE DEF i
    <3> QED BY <1>1, <1>2, <1>3
  <2> QED BY <2>2, <2>3
<1> HIDE DEF i
<1>5. \A j, k \in 1..n : j < k => End(v[j]) <= v[k].start
  BY <1>1, OrderedFacts
<1>6. \A c : c \in AllCells(v) <=> \E j \in 1..n : c \in CellsOf(v[j])
  BY <1>1 DEF AllCells
<1>7. \A j \in 1..i - 1 : \A c \in CellsOf(v[j]) : c < pos
  <2> TAKE j \in 1..i - 1
  <2>1. j \in 1..n /\ End(v[j]) <= pos
    BY <1>1, <1>4
  <2>2. End(v[j]) \in Nat /\ v[j].start \in Nat /\ CellsOf(v[j]) = v[j].start..End(v[j]) - 1
    BY <1>1, <2>1
  <2> QED BY <2>1, <2>2
<1>8. CASE i > n
  <2>1. r = [used |-> FALSE, len |-> len, at |-> i]
    BY <1>1, <1>4, <1>8 DEF Run, i
  <2>2. \A c \in AllCells(v) : c < pos
    <3>1. \A j \in 1..n : j \in 1..i - 1
      BY <1>1, <1>4, <1>8
    <3> QED BY <1>6, <1>7, <3>1
  <2>3. pos \notin AllCells(v) /\ \A c \in pos..pos + len - 1 : c \notin AllCells(v)
    BY <2>2
  <2> HIDE DEF r
  <2> QED BY <1>4, <2>1, <2>3 DEF Behind, r
<1>9. CASE i <= n /\ v[i].start <= pos
  <2>1. r = [used |-> TRUE, len |-> Least(len, End(v[i]) - pos), at |-> i]
    BY <1>1, <1>4, <1>9 DEF Run, i
  <2>2. i \in 1..n
    BY <1>1, <1>4, <1>9
  <2>3. pos \in CellsOf(v[i])
    <3>1. v[i].start \in Nat /\ End(v[i]) \in Nat /\ CellsOf(v[i]) = v[i].start..End(v[i]) - 1
      BY <1>1, <2>2
    <3> QED BY <1>3, <1>9, <3>1
  <2>4. pos \in AllCells(v)
    BY <1>6, <2>2, <2>3
  <2> HIDE DEF r
  <2> QED BY <1>4, <2>1, <2>4 DEF Behind, r
<1>10. CASE i <= n /\ v[i].start > pos
  <2> DEFINE l == Least(len, v[i].start - pos)
  <2>1. r = [used |-> FALSE, len |-> l, at |-> i]
    BY <1>1, <1>4, <1>10 DEF Run, i
  <2>2. i \in 1..n /\ v[i].start \in Nat
    BY <1>1, <1>4, <1>10
  <2>3. l <= v[i].start - pos /\ l \in Int
    BY <2>2 DEF Least
  <2>4. ASSUME NEW c \in pos..v[i].start - 1
        PROVE  c \notin AllCells(v)
    <3> SUFFICES ASSUME NEW j \in 1..n, c \in CellsOf(v[j])
                 PROVE  FALSE
      BY <1>6
    <3>1. c >= pos /\ c < v[i].start /\ c \in Int
      BY <2>2
    <3>2. ~(j \in 1..i - 1)
      BY <1>7, <3>1
    <3>3. j = i \/ i < j
      BY <1>1, <2>2, <3>2
    <3>4. v[i].start <= v[j].start
      <4>1. i < j => End(v[i]) <= v[j].start
        BY <1>5, <2>2
      <4>2. v[i].start <= End(v[i])
        BY <2>2, <1>1, ExtFacts, EndIs
      <4>3. End(v[i]) \in Nat /\ v[j].start \in Nat
        BY <1>1, <2>2
      <4> QED BY SMTT(40), <2>2, <3>3, <4>1, <4>2, <4>3
    <3>5. v[j].start \in Nat /\ End(v[j]) \in Nat /\ c \in v[j].start..End(v[j]) - 1
      BY <1>1
    <3> QED BY SMTT(40), <2>2, <3>1, <3>4, <3>5
  <2>5. pos \in pos..v[i].start - 1 /\ \A c \in pos..pos + l - 1 : c \in pos..v[i].start - 1
    <3> HIDE DEF l
    <3> QED BY SMTT(40), <1>10, <2>2, <2>3
  <2> HIDE DEF r, l
  <2> QED BY SMTT(40), <1>4, <2>1, <2>4, <2>5 DEF Behind, r
<1>11. i > n \/ (i <= n /\ v[i].start <= pos) \/ (i <= n /\ v[i].start > pos)
  <2>1. i \in Nat /\ (i <= n => v[i].start \in Nat)
    BY <1>1, <1>4
  <2> QED BY <1>1, <2>1
<1> QED BY <1>8, <1>9, <1>10, <1>11
===============================================================================
