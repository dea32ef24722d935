---------------------------- MODULE Answers_proofs ----------------------------
(* Three parts of the program answer a question that the code asks of a thing    *)
(* which goes on to change: the window, about the drives its scans see          *)
(* (DriveChoice), a virtual disk, about what its decoders have ready (VDisk),   *)
(* and a volume's reader, about what a system left on it (InUse).               *)
EXTENDS VDisk, DriveChoice, InUse, SequenceTheorems, FiniteSetTheorems,
        NaturalsInduction, WellFoundedInduction, TLAPS

(* Induction *)

\* Natural numbers have a smallest one among them.
LEMMA Minimum ==
  ASSUME NEW T, T \subseteq Nat, T # {}
  PROVE  \E x \in T : \A y \in T : x <= y
<1> DEFINE R == {ss \in Nat \X Nat : ss[1] < ss[2]}
<1>0. IsWellFoundedOn(R, Nat)
  BY NatLessThanWellFounded DEF OpToRel
<1> HIDE DEF R
<1>1. \E x \in T : \A y \in T : ~(<<y, x>> \in R)
  BY <1>0, WFMin
<1>2. \A x, y \in Nat : ~(<<y, x>> \in R) => x <= y
  BY DEF R
<1> QED BY <1>1, <1>2

\* Induction, over the numbers from 0 to n that have a property.
LEMMA Induction ==
  ASSUME NEW n \in Nat, NEW T, 0 \in T, \A i \in 1..n : i - 1 \in T => i \in T
  PROVE  \A i \in 0..n : i \in T
<1> SUFFICES ASSUME NEW j \in 0..n, j \notin T
             PROVE  FALSE
  OBVIOUS
<1> DEFINE U == {i \in 0..n : i \notin T}
<1>1. PICK x \in U : \A y \in U : x <= y
  <2>1. U \subseteq Nat /\ j \in U
    OBVIOUS
  <2> HIDE DEF U
  <2> QED BY <2>1, Minimum
<1>2. x \in 1..n
  OBVIOUS
<1>3. x - 1 \in T
  <2>1. x - 1 \in 0..n /\ ~(x <= x - 1)
    BY <1>2
  <2> QED BY <1>1, <2>1
<1> QED BY <1>1, <1>2, <1>3

\* The sums of the beginnings of a series of numbers.
IsSum(f, n, w) ==
  /\ f \in [0..n -> Nat] /\ f[0] = 0
  /\ \A i \in 1..n : f[i] = f[i - 1] + w[i]

\* Every series has them.
LEMMA SumExists ==
  ASSUME NEW n \in Nat, NEW w \in [1..n -> Nat]
  PROVE  \E f : IsSum(f, n, w)
<1> DEFINE T == {m \in 0..n : \E f : IsSum(f, m, w)}
<1>1. 0 \in T
  <2> DEFINE f == [i \in 0..0 |-> 0]
  <2>1. IsSum(f, 0, w)
    BY DEF IsSum
  <2> HIDE DEF f
  <2> QED BY <2>1
<1>2. ASSUME NEW m \in 1..n, m - 1 \in T
      PROVE  m \in T
  <2>1. PICK g : IsSum(g, m - 1, w)
    BY <1>2
  <2> DEFINE f == [i \in 0..m |-> IF i = m THEN g[m - 1] + w[m] ELSE g[i]]
  <2>2. g[m - 1] \in Nat /\ w[m] \in Nat
    BY <2>1 DEF IsSum
  <2>3. f \in [0..m -> Nat]
    BY <2>1, <2>2 DEF IsSum
  <2>4. f[0] = 0
    BY <2>1 DEF IsSum
  <2>5. ASSUME NEW i \in 1..m
        PROVE  f[i] = f[i - 1] + w[i]
    BY <2>1 DEF IsSum
  <2> HIDE DEF f
  <2>6. IsSum(f, m, w)
    BY <2>3, <2>4, <2>5 DEF IsSum
  <2> QED BY <2>6
<1>3. \A i \in 0..n : i \in T
  <2> HIDE DEF T
  <2> QED BY <1>1, <1>2, Induction
<1> QED BY <1>3

-------------------------------------------------------------------------------
(* The slots in front of the reader *)

\* What the counts count: a slot's cells, if a job decodes them.
CellsIn(slot) == IF HasJob(slot) THEN slot.max ELSE 0

\* Slots of which jobs have cells to count.
Countable(slots) ==
  /\ slots \in Seq(Range(slots))
  /\ \A i \in 1..Len(slots) : HasJob(slots[i]) => slots[i].max \in Nat

\* The cells in flight are added up from the front.
LEMMA JobCellsSum ==
  ASSUME NEW slots, Countable(slots)
  PROVE  \E f : /\ IsSum(f, Len(slots), [i \in 1..Len(slots) |-> CellsIn(slots[i])])
                /\ JobCells(slots) = f[Len(slots)]
<1> DEFINE n == Len(slots)
           w == [i \in 1..n |-> CellsIn(slots[i])]
           P(f) == f = [i \in 0..n |-> IF i = 0 THEN 0
                                       ELSE f[i - 1] + (IF HasJob(slots[i]) THEN slots[i].max ELSE 0)]
           c == CHOOSE f : P(f)
<1>1. n \in Nat
  BY DEF Countable
<1>2. w \in [1..n -> Nat]
  BY DEF CellsIn, Countable
<1>3. JobCells(slots) = c[n]
  BY DEF JobCells
<1>4. \A i \in 1..n : w[i] = IF HasJob(slots[i]) THEN slots[i].max ELSE 0
  BY DEF CellsIn
<1> HIDE DEF w
<1>5. PICK f : IsSum(f, n, w)
  BY <1>1, <1>2, SumExists
<1>6. P(f)
  <2>1. \A i \in 0..n : f[i] = IF i = 0 THEN 0
                               ELSE f[i - 1] + (IF HasJob(slots[i]) THEN slots[i].max ELSE 0)
    BY <1>1, <1>4, <1>5 DEF IsSum
  <2>2. f \in [0..n -> Nat]
    BY <1>5 DEF IsSum
  <2> HIDE DEF n
  <2> QED BY <2>1, <2>2
<1>7. P(c)
  <2> HIDE DEF P
  <2> QED BY <1>6
<1>8. IsSum(c, n, w)
  <2>1. \A i \in 0..n : c[i] = f[i]
    <3> DEFINE T == {i \in 0..n : c[i] = f[i]}
    <3>1. 0 \in T
      BY <1>1, <1>6, <1>7
    <3>2. ASSUME NEW i \in 1..n, i - 1 \in T
          PROVE  i \in T
      <4>1. /\ i \in 0..n /\ i # 0
            /\ c[i - 1] = f[i - 1]
        BY <1>1, <3>2
      <4>2. c[i] = c[i - 1] + (IF HasJob(slots[i]) THEN slots[i].max ELSE 0)
        BY <1>7, <4>1
      <4>3. f[i] = f[i - 1] + (IF HasJob(slots[i]) THEN slots[i].max ELSE 0)
        BY <1>6, <4>1
      <4> QED BY <4>1, <4>2, <4>3
    <3>3. \A i \in 0..n : i \in T
      <4> HIDE DEF T
      <4> QED BY <1>1, <3>1, <3>2, Induction
    <3> QED BY <3>3
  <2>2. DOMAIN c = 0..n
    BY <1>7
  <2>3. c = [i \in 0..n |-> c[i]]
    BY <1>7
  <2> HIDE DEF c, n, P
  <2>4. c = f
    BY <1>5, <2>1, <2>3 DEF IsSum
  <2> QED BY <1>5, <2>4
<1> HIDE DEF c
<1> QED BY <1>3, <1>8 DEF w

\* None, in no slots.
LEMMA NoJobCells == Countable(<<>>) /\ JobCells(<<>>) = 0
<1>1. Countable(<<>>)
  BY DEF Countable
<1> QED BY <1>1, JobCellsSum DEF IsSum

\* Slots that count the same have the same cells in flight.
LEMMA SameCells ==
  ASSUME NEW s, NEW t, Countable(s), Countable(t), Len(s) = Len(t),
         \A i \in 1..Len(s) : CellsIn(s[i]) = CellsIn(t[i])
  PROVE  JobCells(s) = JobCells(t)
<1> DEFINE n == Len(s)
<1>1. PICK f : IsSum(f, n, [i \in 1..n |-> CellsIn(s[i])]) /\ JobCells(s) = f[n]
  BY JobCellsSum
<1>2. PICK g : IsSum(g, n, [i \in 1..n |-> CellsIn(t[i])]) /\ JobCells(t) = g[n]
  BY JobCellsSum
<1>3. n \in Nat
  BY DEF Countable
<1> DEFINE T == {i \in 0..n : f[i] = g[i]}
<1>4. 0 \in T
  BY <1>1, <1>2, <1>3 DEF IsSum
<1>5. ASSUME NEW i \in 1..n, i - 1 \in T
      PROVE  i \in T
  BY <1>1, <1>2, <1>3, <1>5 DEF IsSum
<1>6. \A i \in 0..n : i \in T
  <2> HIDE DEF T, n
  <2> QED BY <1>3, <1>4, <1>5, Induction
<1> QED BY <1>1, <1>2, <1>3, <1>6

\* Nor in slots that have no jobs.
LEMMA NoCells ==
  ASSUME NEW s, Countable(s), \A i \in 1..Len(s) : CellsIn(s[i]) = 0
  PROVE  JobCells(s) = 0
<1> DEFINE n == Len(s)
<1>1. PICK f : IsSum(f, n, [i \in 1..n |-> CellsIn(s[i])]) /\ JobCells(s) = f[n]
  BY JobCellsSum
<1>2. n \in Nat
  BY DEF Countable
<1> DEFINE T == {i \in 0..n : f[i] = 0}
<1>3. 0 \in T
  BY <1>1, <1>2 DEF IsSum
<1>4. ASSUME NEW i \in 1..n, i - 1 \in T
      PROVE  i \in T
  BY <1>1, <1>2, <1>4 DEF IsSum
<1>5. \A i \in 0..n : i \in T
  <2> HIDE DEF T, n
  <2> QED BY <1>2, <1>3, <1>4, Induction
<1> QED BY <1>1, <1>2, <1>5

\* A slot in front adds its own.
LEMMA CellsOfFront ==
  ASSUME NEW s, Countable(s), s # <<>>
  PROVE  /\ Countable(Tail(s))
         /\ CellsIn(s[1]) \in Nat /\ JobCells(Tail(s)) \in Nat
         /\ JobCells(s) = CellsIn(s[1]) + JobCells(Tail(s))
<1> DEFINE t == Tail(s)
           n == Len(t)
<1>1. /\ n \in Nat /\ Len(s) = n + 1
      /\ \A i \in 1..n : t[i] = s[i + 1]
      /\ t \in Seq(Range(s))
  BY DEF Countable
<1>2. Countable(t)
  <2>1. t \in Seq(Range(t))
    BY <1>1, SeqOfRange
  <2>2. \A i \in 1..n : HasJob(t[i]) => t[i].max \in Nat
    BY <1>1 DEF Countable
  <2> QED BY <2>1, <2>2 DEF Countable
<1> HIDE DEF t
<1>3. PICK f : IsSum(f, Len(s), [i \in 1..Len(s) |-> CellsIn(s[i])]) /\ JobCells(s) = f[Len(s)]
  BY JobCellsSum
<1>4. PICK g : IsSum(g, n, [i \in 1..n |-> CellsIn(t[i])]) /\ JobCells(t) = g[n]
  BY <1>2, JobCellsSum
<1>5. CellsIn(s[1]) \in Nat /\ f[1] = CellsIn(s[1])
  BY <1>1, <1>3 DEF IsSum, Countable, CellsIn
<1> DEFINE T == {i \in 0..n : f[i + 1] = CellsIn(s[1]) + g[i]}
<1>6. 0 \in T
  BY <1>1, <1>4, <1>5 DEF IsSum
<1>7. ASSUME NEW i \in 1..n, i - 1 \in T
      PROVE  i \in T
  <2>1. i + 1 \in 1..Len(s) /\ i - 1 \in 0..n /\ (i - 1) + 1 = i /\ (i + 1) - 1 = i /\ i \in 0..n
    BY <1>1
  <2>2. f[i + 1] = f[i] + CellsIn(s[i + 1])
    BY <1>3, <2>1 DEF IsSum
  <2>3. g[i] = g[i - 1] + CellsIn(t[i])
    BY <1>4 DEF IsSum
  <2>4. f[i] = CellsIn(s[1]) + g[i - 1]
    BY <1>7, <2>1
  <2>5. t[i] = s[i + 1]
    BY <1>1
  <2>6. g[i - 1] \in Nat /\ g[i] \in Nat
    BY <1>4, <2>1 DEF IsSum
  <2>7. CellsIn(t[i]) \in Nat
    BY <1>2 DEF CellsIn, Countable
  <2> QED BY <1>5, <2>1, <2>2, <2>3, <2>4, <2>5, <2>6, <2>7
<1>8. n \in T
  <2>1. \A i \in 0..n : i \in T
    <3> HIDE DEF T, n
    <3> QED BY <1>1, <1>6, <1>7, Induction
  <2> QED BY <1>1, <2>1
<1>9. g[n] \in Nat
  BY <1>1, <1>4 DEF IsSum
<1> QED BY <1>1, <1>2, <1>3, <1>4, <1>5, <1>8, <1>9 DEF t

\* One behind the others, too.
LEMMA CellsOfBack ==
  ASSUME NEW s, Countable(s), NEW x, CellsIn(x) \in Nat
  PROVE  /\ Countable(Append(s, x))
         /\ JobCells(s) \in Nat
         /\ JobCells(Append(s, x)) = JobCells(s) + CellsIn(x)
<1> DEFINE t == Append(s, x)
           n == Len(s)
<1>1. /\ n \in Nat /\ Len(t) = n + 1
      /\ \A i \in 1..n : t[i] = s[i]
      /\ t[n + 1] = x
      /\ t \in Seq(Range(s) \cup {x})
  <2>1. s \in Seq(Range(s) \cup {x})
    BY SeqMonotonic DEF Countable
  <2> QED BY <2>1, AppendProperties DEF Countable
<1>2. Countable(t)
  <2>1. t \in Seq(Range(t))
    BY <1>1, SeqOfRange
  <2>2. \A i \in 1..n + 1 : HasJob(t[i]) => t[i].max \in Nat
    BY <1>1 DEF Countable, CellsIn
  <2> QED BY <1>1, <2>1, <2>2 DEF Countable
<1> HIDE DEF t
<1>3. PICK f : IsSum(f, n, [i \in 1..n |-> CellsIn(s[i])]) /\ JobCells(s) = f[n]
  BY JobCellsSum
<1>4. PICK g : IsSum(g, n + 1, [i \in 1..n + 1 |-> CellsIn(t[i])]) /\ JobCells(t) = g[n + 1]
  BY <1>1, <1>2, JobCellsSum
<1> DEFINE T == {i \in 0..n : f[i] = g[i]}
<1>5. 0 \in T
  BY <1>1, <1>3, <1>4 DEF IsSum
<1>6. ASSUME NEW i \in 1..n, i - 1 \in T
      PROVE  i \in T
  <2>1. i \in 1..n + 1 /\ i - 1 \in 0..n /\ i \in 0..n
    BY <1>1
  <2>2. f[i] = f[i - 1] + CellsIn(s[i])
    BY <1>3 DEF IsSum
  <2>3. g[i] = g[i - 1] + CellsIn(t[i])
    BY <1>4, <2>1 DEF IsSum
  <2> QED BY <1>1, <1>6, <2>1, <2>2, <2>3
<1>7. n \in T
  <2>1. \A i \in 0..n : i \in T
    <3> HIDE DEF T, n
    <3> QED BY <1>1, <1>5, <1>6, Induction
  <2> QED BY <1>1, <2>1
<1>8. f[n] \in Nat
  BY <1>1, <1>3 DEF IsSum
<1>9. g[n + 1] = g[n] + CellsIn(x)
  <2>1. n + 1 \in 1..n + 1 /\ (n + 1) - 1 = n
    BY <1>1
  <2> QED BY <1>1, <1>4, <2>1 DEF IsSum
<1> QED BY <1>2, <1>3, <1>4, <1>7, <1>8, <1>9 DEF t

\* The places of the slots that have a job.
JobsIn(slots) == {i \in 1..Len(slots) : HasJob(slots[i])}
One(slot) == IF HasJob(slot) THEN 1 ELSE 0

\* Only finitely many slots have a job, so in_flight is a number.
LEMMA JobsInFinite ==
  ASSUME NEW s, s \in Seq(Range(s))
  PROVE  IsFiniteSet(JobsIn(s)) /\ Cardinality(JobsIn(s)) \in Nat
<1>1. Len(s) \in Nat
  OBVIOUS
<1>2. IsFiniteSet(1..Len(s)) /\ JobsIn(s) \in SUBSET (1..Len(s))
  BY <1>1, FS_Interval DEF JobsIn
<1>3. IsFiniteSet(JobsIn(s))
  BY <1>2, FS_Subset
<1> QED BY <1>3, FS_CardinalityType

\* A slot in front is one more of them if it has a job.
LEMMA JobsOfFront ==
  ASSUME NEW s, s \in Seq(Range(s)), s # <<>>
  PROVE  Cardinality(JobsIn(s)) = One(s[1]) + Cardinality(JobsIn(Tail(s)))
<1> DEFINE t == Tail(s)
           J == JobsIn(s) \ {1}
           K == JobsIn(t)
           f == [i \in K |-> i + 1]
<1>1. /\ Len(t) \in Nat /\ Len(s) = Len(t) + 1
      /\ \A i \in 1..Len(t) : t[i] = s[i + 1]
      /\ t \in Seq(Range(s))
  OBVIOUS
<1>2. t \in Seq(Range(t))
  BY <1>1, SeqOfRange
<1> HIDE DEF t
<1>3. f \in [K -> J]
  BY <1>1 DEF JobsIn
<1>4. \A i, j \in K : f[i] = f[j] => i = j
  BY <1>1 DEF JobsIn
<1>5. \A j \in J : \E i \in K : f[i] = j
  <2> TAKE j \in J
  <2>1. j \in 1..Len(s) /\ j # 1 /\ HasJob(s[j])
    BY DEF JobsIn
  <2>2. j - 1 \in 1..Len(t) /\ (j - 1) + 1 = j
    BY <1>1, <2>1
  <2>3. j - 1 \in K
    BY <1>1, <2>1, <2>2 DEF JobsIn
  <2> QED BY <2>2, <2>3
<1>6. ExistsBijection(K, J)
  <2> HIDE DEF f, J, K
  <2>1. f \in Injection(K, J)
    BY <1>3, <1>4 DEF Injection, IsInjective
  <2>2. f \in Surjection(K, J)
    BY <1>3, <1>5 DEF Surjection
  <2>3. f \in Bijection(K, J)
    BY <2>1, <2>2 DEF Bijection
  <2> QED BY <2>3 DEF ExistsBijection
<1>7. IsFiniteSet(K) /\ Cardinality(K) \in Nat
  BY <1>2, JobsInFinite
<1>8. Cardinality(J) = Cardinality(K)
  BY <1>6, <1>7, FS_Bijection
<1>9. Cardinality(J) = IF 1 \in JobsIn(s) THEN Cardinality(JobsIn(s)) - 1 ELSE Cardinality(JobsIn(s))
  BY JobsInFinite, FS_RemoveElement
<1>10. 1 \in JobsIn(s) <=> HasJob(s[1])
  BY <1>1 DEF JobsIn
<1>11. Cardinality(JobsIn(s)) \in Nat
  BY JobsInFinite
<1> HIDE DEF J, K
<1> QED BY <1>7, <1>8, <1>9, <1>10, <1>11 DEF One, K, t

\* So is one behind the others.
LEMMA JobsOfBack ==
  ASSUME NEW s, s \in Seq(Range(s)), NEW x
  PROVE  /\ JobsIn(Append(s, x)) = JobsIn(s) \cup (IF HasJob(x) THEN {Len(s) + 1} ELSE {})
         /\ Cardinality(JobsIn(Append(s, x))) = Cardinality(JobsIn(s)) + One(x)
<1> DEFINE t == Append(s, x)
<1>1. /\ Len(s) \in Nat /\ Len(t) = Len(s) + 1
      /\ \A i \in 1..Len(s) : t[i] = s[i]
      /\ t[Len(s) + 1] = x
  <2>1. s \in Seq(Range(s) \cup {x})
    BY SeqMonotonic
  <2> QED BY <2>1, AppendProperties
<1> HIDE DEF t
<1>2. JobsIn(t) = JobsIn(s) \cup (IF HasJob(x) THEN {Len(s) + 1} ELSE {})
  <2>1. 1..Len(t) = 1..Len(s) \cup {Len(s) + 1}
    BY <1>1
  <2> QED BY <1>1, <2>1 DEF JobsIn
<1>3. Len(s) + 1 \notin JobsIn(s)
  BY <1>1 DEF JobsIn
<1>4. Cardinality(JobsIn(t)) = Cardinality(JobsIn(s)) + One(x)
  <2>1. CASE HasJob(x)
    BY <1>2, <1>3, <2>1, JobsInFinite, FS_AddElement DEF One
  <2>2. CASE ~HasJob(x)
    <3>1. JobsIn(t) = JobsIn(s)
      BY <1>2, <2>2
    <3> QED BY <2>2, <3>1, JobsInFinite DEF One
  <2> QED BY <2>1, <2>2
<1> QED BY <1>2, <1>4 DEF t

-------------------------------------------------------------------------------
(* The inductive invariant *)

\* What next() can give: lengths and sizes are u64 and u32.
IsPiece(p) == p.len \in Nat /\ p.at \in Nat /\ p.max \in Nat
IsLayout(pieces) ==
  /\ pieces \in Seq(Range(pieces))
  /\ \A i \in 1..Len(pieces) : IsPiece(pieces[i])

\* What a format's open can give, and a disk that reads whatever it has given.
Steps ==
  \/ \E result : IsLayout(result.layout) /\ result.size \in Nat /\ Opening(result)
  \/ Reader \/ ReaderPanics \/ Threads

SlotFields == {"len", "run", "at", "stored", "max", "shortOk", "start", "job", "decoded", "taken"}
IsSlot(s) ==
  /\ s = [f \in SlotFields |-> s[f]]
  /\ s.max \in Nat
  /\ s.job => ~s.decoded

PoolType == [tried : BOOLEAN, on : BOOLEAN, queue : Seq(Nat), free : Nat, running : SUBSET Nat,
             sent : SUBSET Nat, gone : SUBSET Nat, deaths : Nat]

TypeInv ==
  /\ IsLayout(layout) /\ mapped \in Nat
  /\ ahead \in Seq(Range(ahead)) /\ \A i \in 1..Len(ahead) : IsSlot(ahead[i])
  /\ pool \in PoolType

\* The counts are those of the slots, and bounded.
CountInv ==
  /\ inFlight = Cardinality(JobsIn(ahead)) /\ inFlightCells = JobCells(ahead)
  /\ Len(ahead) <= MaxAhead /\ inFlight <= 2 * Max({Workers, 1})
  /\ inFlightCells < InFlightCells + MaxBlock

\* Whatever a thread has or will have to decode is a slot's that waits for it, and in
\* one place; so what was answered is nobody's any more.
StartsOf(slots) == {slots[i].start : i \in JobsIn(slots)}
Waiting == pool.running \cup Range(pool.queue)
JobInv ==
  /\ Waiting \subseteq StartsOf(ahead)
  /\ Waiting \cap (pool.sent \cup pool.gone) = {}
  /\ pool.running \cap Range(pool.queue) = {}
  /\ \A i, j \in 1..Len(pool.queue) : pool.queue[i] = pool.queue[j] => i = j
  /\ Waiting \cup pool.sent \cup pool.gone \subseteq 0..mapped - 1

\* No more threads than were started, and no jobs before.
PoolInv ==
  /\ IsFiniteSet(pool.running)
  /\ pool.free + Cardinality(pool.running) + pool.deaths <= Workers
  /\ ~pool.tried => pool = NoPool
  /\ ~pool.on => JobsIn(ahead) = {}
  /\ pool.on => Workers > 1

IInv == TypeInv /\ CountInv /\ JobInv /\ PoolInv

\* What the window promises is a part of it.
LEMMA Bounded == IInv => WindowIsBounded
<1> SUFFICES ASSUME IInv PROVE WindowIsBounded
  OBVIOUS
<1>1. Jobs = JobsIn(ahead)
  BY DEF IInv, TypeInv, Jobs, JobsIn
<1> QED BY <1>1 DEF IInv, CountInv, JobInv, PoolInv, WindowIsBounded, StartsOf, Waiting

\* The bound that fill sets to the jobs, 2 * workers.max(1), is positive (VDisk::fill).
LEMMA MaxIsPositive ==
  /\ Max({Workers, 1}) \in Nat \ {0}
  /\ Workers > 1 => Max({Workers, 1}) = Workers
<1>1. Workers \in Nat
  BY VDiskAssumption
<1>2. \E x \in {Workers, 1} : \A y \in {Workers, 1} : x >= y
  <2>1. CASE Workers >= 1
    BY <1>1, <2>1
  <2>2. CASE ~(Workers >= 1)
    BY <1>1, <2>2
  <2> QED BY <2>1, <2>2
<1>3. Max({Workers, 1}) \in {Workers, 1} /\ \A y \in {Workers, 1} : Max({Workers, 1}) >= y
  BY <1>2 DEF Max
<1> QED BY <1>1, <1>3

\* A disk that was just created has no slots, no jobs and no threads (VDisk::new).
LEMMA Begins == Closed => IInv
<1> SUFFICES ASSUME Closed PROVE IInv
  OBVIOUS
<1>1. Range(<<>>) = {} /\ <<>> \in Seq({}) /\ JobsIn(<<>>) = {}
  BY DEF Range, JobsIn
<1>2. TypeInv
  BY <1>1 DEF Closed, TypeInv, IsLayout, PoolType, NoPool
<1>3. CountInv
  <2>1. /\ inFlight = 0 /\ inFlightCells = 0 /\ ahead = <<>> /\ Len(ahead) = 0
        /\ Cardinality(JobsIn(ahead)) = 0
    BY <1>1, FS_EmptySet DEF Closed
  <2>2. /\ InFlightCells \in Nat \ {0} /\ MaxBlock \in Nat \ {0} /\ MaxAhead \in Nat \ {0}
    BY VDiskAssumption
  <2>3. JobCells(ahead) = 0
    BY <2>1, NoJobCells
  <2> QED BY <2>1, <2>2, <2>3, MaxIsPositive DEF CountInv
<1>4. JobInv
  BY <1>1 DEF Closed, JobInv, Waiting, NoPool
<1>5. PoolInv
  <2>1. Workers \in Nat
    BY VDiskAssumption
  <2> QED BY <1>1, <2>1, FS_EmptySet DEF Closed, PoolInv, NoPool
<1> QED BY <1>2, <1>3, <1>4, <1>5 DEF IInv

-------------------------------------------------------------------------------
(* The threads *)

\* Nothing a thread does, a panic included, takes a job from a slot or gives it a second
\* place (Pool::start).
LEMMA ThreadsKeep == IInv /\ Threads => IInv'
<1> SUFFICES ASSUME IInv, Threads PROVE IInv'
  OBVIOUS
<1>0. /\ UNCHANGED <<layout, mapped, ahead, inFlight, inFlightCells>>
      /\ pool \in PoolType
  BY DEF Threads, TakeJob, Reply, Dies, Stops, OnlyPool, map, flight, IInv, TypeInv
<1>1. IsLayout(layout)' /\ StartsOf(ahead)' = StartsOf(ahead) /\ JobsIn(ahead)' = JobsIn(ahead)
  BY <1>0 DEF IInv, TypeInv
<1>2. CountInv'
  BY <1>0 DEF IInv, CountInv
<1>3. pool' \in PoolType => TypeInv'
  BY <1>0, <1>1 DEF IInv, TypeInv
<1>4. Workers \in Nat /\ Cardinality(pool.running) \in Nat
  BY VDiskAssumption, FS_CardinalityType DEF IInv, PoolInv
<1>5. CASE TakeJob
  <2> DEFINE q == pool.queue
             task == Head(q)
  <2>1. /\ pool.free > 0 /\ q # <<>>
        /\ pool' = [pool EXCEPT !.queue = Tail(q), !.free = @ - 1, !.running = @ \cup {task}]
    BY <1>5 DEF TakeJob
  <2>2. /\ q \in Seq(Nat) /\ Len(q) \in Nat \ {0} /\ task = q[1] /\ task \in Nat
        /\ Tail(q) \in Seq(Nat) /\ Len(Tail(q)) = Len(q) - 1
        /\ \A i \in 1..Len(Tail(q)) : Tail(q)[i] = q[i + 1]
    BY <1>0, <2>1 DEF PoolType
  <2>3. /\ pool'.queue = Tail(q) /\ pool'.free = pool.free - 1
        /\ pool'.running = pool.running \cup {task}
        /\ pool'.sent = pool.sent /\ pool'.gone = pool.gone /\ pool'.deaths = pool.deaths
        /\ pool'.on = pool.on /\ pool'.tried = pool.tried
    BY <1>0, <2>1 DEF PoolType
  <2> HIDE DEF task
  <2>4. pool' \in PoolType
    <3>1. pool.free - 1 \in Nat
      <4>1. pool.free \in Nat
        BY <1>0 DEF PoolType
      <4> QED BY <2>1, <4>1
    <3>2. pool.running \cup {task} \in SUBSET Nat
      BY <1>0, <2>2 DEF PoolType
    <3> QED BY <1>0, <2>1, <2>2, <3>1, <3>2 DEF PoolType
  <2>5. Range(q) = {q[i] : i \in 1..Len(q)} /\ Range(Tail(q)) = {Tail(q)[i] : i \in 1..Len(Tail(q))}
    BY <2>2, RangeEquality
  <2>6. Range(Tail(q)) \subseteq Range(q) /\ task \in Range(q)
    BY <2>2, <2>5
  <2>7. task \notin Range(Tail(q))
    <3> SUFFICES ASSUME NEW i \in 1..Len(Tail(q)), Tail(q)[i] = task PROVE FALSE
      BY <2>5
    <3>1. i + 1 \in 1..Len(q) /\ 1 \in 1..Len(q) /\ q[i + 1] = q[1] /\ i + 1 # 1
      BY <2>2
    <3> QED BY <3>1 DEF IInv, JobInv
  <2>8. Waiting' = pool.running \cup {task} \cup Range(Tail(q))
    BY <2>3 DEF Waiting
  <2>9. Waiting' \subseteq Waiting
    BY <2>6, <2>8 DEF Waiting
  <2>10. JobInv'
    <3>1. \A i, j \in 1..Len(Tail(q)) : Tail(q)[i] = Tail(q)[j] => i = j
      <4> SUFFICES ASSUME NEW i \in 1..Len(Tail(q)), NEW j \in 1..Len(Tail(q)), Tail(q)[i] = Tail(q)[j]
                   PROVE  i = j
        OBVIOUS
      <4>1. i + 1 \in 1..Len(q) /\ j + 1 \in 1..Len(q) /\ q[i + 1] = q[j + 1]
        <5>1. Tail(q)[i] = q[i + 1] /\ Tail(q)[j] = q[j + 1]
          BY <2>2
        <5>2. Len(q) \in Nat /\ i \in 1..(Len(q) - 1) /\ j \in 1..(Len(q) - 1)
          BY <2>2
        <5>3. i + 1 \in 1..Len(q) /\ j + 1 \in 1..Len(q)
          BY <5>2
        <5> QED BY <5>1, <5>3
      <4>2. i + 1 = j + 1
        BY <4>1 DEF IInv, JobInv
      <4> QED BY <4>2
    <3>2. pool'.running \cap Range(pool'.queue) = {}
      BY <2>3, <2>6, <2>7 DEF IInv, JobInv
    <3>3. Waiting' \subseteq StartsOf(ahead)'
      BY <1>1, <2>9 DEF IInv, JobInv
    <3>4. Waiting' \cap (pool'.sent \cup pool'.gone) = {}
      BY <2>3, <2>9 DEF IInv, JobInv
    <3>5. Waiting' \cup pool'.sent \cup pool'.gone \subseteq 0..mapped' - 1
      BY <1>0, <2>3, <2>9 DEF IInv, JobInv
    <3> QED BY <2>3, <3>1, <3>2, <3>3, <3>4, <3>5 DEF JobInv
  <2>11. PoolInv'
    <3>1. /\ IsFiniteSet(pool'.running)
          /\ Cardinality(pool'.running) \in Nat
          /\ Cardinality(pool'.running) <= Cardinality(pool.running) + 1
      <4>1. IsFiniteSet(pool.running)
        BY DEF IInv, PoolInv
      <4>2. IsFiniteSet(pool.running \cup {task})
        BY <4>1, FS_AddElement
      <4>3. Cardinality(pool.running \cup {task}) <= Cardinality(pool.running) + 1
        BY <1>4, <4>1, FS_AddElement
      <4> QED BY <2>3, <4>2, <4>3, FS_CardinalityType
    <3>2. pool.free \in Nat /\ pool.deaths \in Nat
      BY <1>0 DEF PoolType
    <3>3. pool'.free + Cardinality(pool'.running) + pool'.deaths <= Workers
      BY <1>4, <2>1, <2>3, <3>1, <3>2 DEF IInv, PoolInv
    <3>4. pool.tried
      BY <2>1 DEF IInv, PoolInv, NoPool
    <3> QED BY <1>1, <2>3, <3>1, <3>3, <3>4 DEF IInv, PoolInv
  <2> QED BY <1>2, <1>3, <2>4, <2>10, <2>11 DEF IInv
<1>6. CASE Reply
  <2>1. PICK task \in pool.running :
          pool' = [pool EXCEPT !.running = @ \ {task}, !.free = @ + 1, !.sent = @ \cup {task}]
    BY <1>6 DEF Reply
  <2>2. /\ pool'.queue = pool.queue /\ pool'.free = pool.free + 1
        /\ pool'.running = pool.running \ {task}
        /\ pool'.sent = pool.sent \cup {task} /\ pool'.gone = pool.gone /\ pool'.deaths = pool.deaths
        /\ pool'.on = pool.on /\ pool'.tried = pool.tried
    BY <1>0, <2>1 DEF PoolType
  <2>3. pool' \in PoolType
    <3>1. task \in Nat /\ pool.free + 1 \in Nat
      BY <1>0 DEF PoolType
    <3> QED BY <1>0, <2>1, <3>1 DEF PoolType
  <2>4. /\ Waiting' \subseteq Waiting /\ task \notin Waiting' /\ task \in Waiting
        /\ pool'.running \cap Range(pool'.queue) = {}
    BY <2>2 DEF Waiting, IInv, JobInv
  <2>5. JobInv'
    <3>1. Waiting' \subseteq StartsOf(ahead)'
      BY <1>1, <2>4 DEF IInv, JobInv
    <3>2. Waiting' \cap (pool'.sent \cup pool'.gone) = {}
      BY <2>2, <2>4 DEF IInv, JobInv
    <3>3. Waiting' \cup pool'.sent \cup pool'.gone \subseteq 0..mapped' - 1
      BY <1>0, <2>2, <2>4 DEF IInv, JobInv
    <3> QED BY <2>2, <2>4, <3>1, <3>2, <3>3 DEF IInv, JobInv
  <2>6. PoolInv'
    <3>1. /\ IsFiniteSet(pool'.running)
          /\ Cardinality(pool'.running) = Cardinality(pool.running) - 1
      BY <2>2, FS_RemoveElement DEF IInv, PoolInv
    <3>2. pool.free \in Nat /\ pool.deaths \in Nat
      BY <1>0 DEF PoolType
    <3>3. pool'.free + Cardinality(pool'.running) + pool'.deaths <= Workers
      BY <1>4, <2>2, <3>1, <3>2 DEF IInv, PoolInv
    <3>4. pool.tried
      BY DEF IInv, PoolInv, NoPool
    <3> QED BY <1>1, <2>2, <3>1, <3>3, <3>4 DEF IInv, PoolInv
  <2> QED BY <1>2, <1>3, <2>3, <2>5, <2>6 DEF IInv
<1>7. CASE Dies
  <2>1. PICK task \in pool.running :
          LET last == pool.free = 0 /\ pool.running = {task}
          IN pool' = [pool EXCEPT !.deaths = @ + 1, !.running = @ \ {task},
                                  !.queue = IF last THEN <<>> ELSE @,
                                  !.gone = @ \cup {task} \cup (IF last THEN Range(pool.queue) ELSE {})]
    BY <1>7, Zenon DEF Dies
  <2> DEFINE last == pool.free = 0 /\ pool.running = {task}
             more == IF last THEN Range(pool.queue) ELSE {}
  <2>2. /\ pool'.queue = (IF last THEN <<>> ELSE pool.queue) /\ pool'.free = pool.free
        /\ pool'.running = pool.running \ {task}
        /\ pool'.sent = pool.sent /\ pool'.gone = pool.gone \cup {task} \cup more
        /\ pool'.deaths = pool.deaths + 1
        /\ pool'.on = pool.on /\ pool'.tried = pool.tried
    BY <1>0, <2>1 DEF PoolType
  <2>3. /\ Range(<<>>) = {} /\ Range(pool.queue) \in SUBSET Nat
        /\ pool.queue \in Seq(Nat)
    BY <1>0, RangeOfSeq, SMTT(30) DEF PoolType, Range
  <2>4. pool' \in PoolType
    <3>1. task \in Nat /\ pool.deaths + 1 \in Nat /\ more \in SUBSET Nat
      BY <1>0, <2>3 DEF PoolType
    <3>2. (IF last THEN <<>> ELSE pool.queue) \in Seq(Nat)
      BY <2>3
    <3> HIDE DEF last, more
    <3>3. pool.gone \cup {task} \cup more \in SUBSET Nat
      BY <1>0, <3>1 DEF PoolType
    <3> QED BY <1>0, <2>1, <3>1, <3>2, <3>3 DEF PoolType, last, more
  <2>5. /\ Waiting' \subseteq Waiting /\ {task} \cup more \subseteq Waiting
        /\ Waiting' \cap ({task} \cup more) = {}
        /\ pool'.running \cap Range(pool'.queue) = {}
    BY <2>2, <2>3 DEF Waiting, IInv, JobInv
  <2> HIDE DEF more
  <2>6. JobInv'
    <3>1. Waiting' \subseteq StartsOf(ahead)'
      BY <1>1, <2>5 DEF IInv, JobInv
    <3>2. Waiting' \cap (pool'.sent \cup pool'.gone) = {}
      BY <2>2, <2>5 DEF IInv, JobInv
    <3>3. Waiting' \cup pool'.sent \cup pool'.gone \subseteq 0..mapped' - 1
      BY <1>0, <2>2, <2>5 DEF IInv, JobInv
    <3>4. \A i, j \in 1..Len(pool'.queue) : pool'.queue[i] = pool'.queue[j] => i = j
      BY <2>2 DEF IInv, JobInv
    <3> QED BY <2>5, <3>1, <3>2, <3>3, <3>4 DEF JobInv
  <2>7. PoolInv'
    <3>1. /\ IsFiniteSet(pool'.running)
          /\ Cardinality(pool'.running) = Cardinality(pool.running) - 1
      BY <2>2, FS_RemoveElement DEF IInv, PoolInv
    <3>2. pool.free \in Nat /\ pool.deaths \in Nat
      BY <1>0 DEF PoolType
    <3>3. pool'.free + Cardinality(pool'.running) + pool'.deaths <= Workers
      BY <1>4, <2>2, <3>1, <3>2 DEF IInv, PoolInv
    <3>4. pool.tried
      BY DEF IInv, PoolInv, NoPool
    <3> QED BY <1>1, <2>2, <3>1, <3>3, <3>4 DEF IInv, PoolInv
  <2> QED BY <1>2, <1>3, <2>4, <2>6, <2>7 DEF IInv
<1>8. CASE Stops
  <2>1. /\ pool.free > 0 /\ pool' = [pool EXCEPT !.free = @ - 1]
    BY <1>8 DEF Stops
  <2>2. pool' \in PoolType /\ pool.free \in Nat /\ pool.deaths \in Nat
    <3>1. pool.free \in Nat /\ pool.deaths \in Nat
      BY <1>0 DEF PoolType
    <3>2. pool.free - 1 \in Nat
      BY <2>1, <3>1
    <3> QED BY <1>0, <2>1, <3>1, <3>2 DEF PoolType
  <2>3. /\ pool'.queue = pool.queue /\ pool'.free = pool.free - 1
        /\ pool'.running = pool.running /\ pool'.sent = pool.sent /\ pool'.gone = pool.gone
        /\ pool'.deaths = pool.deaths /\ pool'.on = pool.on /\ pool'.tried = pool.tried
    BY <1>0, <2>1 DEF PoolType
  <2>4. JobInv'
    BY <1>0, <1>1, <2>3 DEF IInv, JobInv, Waiting
  <2>5. PoolInv'
    <3>1. pool.tried
      BY <2>1 DEF IInv, PoolInv, NoPool
    <3> QED BY <1>1, <1>4, <2>2, <2>3, <3>1 DEF IInv, PoolInv
  <2> QED BY <1>2, <1>3, <2>2, <2>4, <2>5 DEF IInv
<1> QED BY <1>5, <1>6, <1>7, <1>8 DEF Threads

-------------------------------------------------------------------------------
(* The reader *)

\* A new slot takes over what its piece says.
LEMMA NewSlot ==
  ASSUME NEW p, IsPiece(p), NEW start, NEW task \in BOOLEAN
  PROVE  /\ IsSlot(Slot(p, start, task)) /\ Slot(p, start, task).run = p.run
         /\ Slot(p, start, task).max = p.max /\ Slot(p, start, task).start = start
         /\ Slot(p, start, task).job = task
<1> DEFINE s == Slot(p, start, task)
<1>1. /\ s.run = p.run /\ s.max = p.max /\ s.start = start /\ s.job = task /\ s.decoded = FALSE
      /\ s = [f \in SlotFields |-> s[f]]
  BY DEF Slot, SlotFields
<1>2. p.max \in Nat
  BY DEF IsPiece
<1> HIDE DEF s
<1> QED BY <1>1, <1>2 DEF IsSlot, s

\* The sizes of the jobs in flight can be summed up.
LEMMA AheadCounts == IInv => Countable(ahead)
  BY DEF IInv, TypeInv, IsSlot, Countable

\* What was read of the front slot, with the answer of its job or without one.
LEMMA FrontKeeps ==
  ASSUME IInv, ahead # <<>>, NEW left, IsSlot(left), ~HasJob(left),
         HasJob(ahead[1]) => ahead[1].start \in pool.sent \cup pool.gone,
         ahead' = Tail(ahead) \/ ahead' = <<left>> \o Tail(ahead),
         inFlight' = inFlight - One(ahead[1]), inFlightCells' = inFlightCells - CellsIn(ahead[1]),
         UNCHANGED <<layout, mapped, pool>>
  PROVE  IInv'
<1> DEFINE t == Tail(ahead)
           u == <<left>> \o t
<1>1. /\ ahead \in Seq(Range(ahead)) /\ Len(ahead) \in Nat
      /\ \A i \in 1..Len(ahead) : IsSlot(ahead[i])
  BY DEF IInv, TypeInv
<1>2. /\ Len(t) \in Nat /\ Len(ahead) = Len(t) + 1
      /\ \A i \in 1..Len(t) : t[i] = ahead[i + 1]
      /\ t \in Seq(Range(ahead))
  BY <1>1
<1>3. t \in Seq(Range(t)) /\ \A i \in 1..Len(t) : IsSlot(t[i])
  <2>1. t \in Seq(Range(t))
    BY <1>2, SeqOfRange
  <2>2. \A i \in 1..Len(t) : i + 1 \in 1..Len(ahead)
    BY <1>2
  <2> QED BY <1>1, <1>2, <2>1, <2>2
<1> HIDE DEF t
<1>4. /\ u \in Seq(Range(u)) /\ u # <<>> /\ Len(u) = Len(t) + 1 /\ u[1] = left
      /\ \A i \in 1..Len(t) : u[i + 1] = t[i]
  <2>1. <<left>> \in Seq({left} \cup Range(t)) /\ t \in Seq({left} \cup Range(t))
    BY <1>3, SeqMonotonic
  <2>2. /\ u \in Seq({left} \cup Range(t)) /\ Len(u) = 1 + Len(t)
        /\ \A i \in 1..1 + Len(t) : u[i] = IF i <= 1 THEN <<left>>[i] ELSE t[i - 1]
    BY <2>1, ConcatProperties
  <2>3. u \in Seq(Range(u))
    BY <2>2, SeqOfRange
  <2>4. u[1] = left /\ \A i \in 1..Len(t) : u[i + 1] = t[i]
    BY <1>2, <2>2
  <2> HIDE DEF u
  <2>5. Len(u) = Len(t) + 1 /\ u # <<>>
    BY <1>2, <2>2
  <2> QED BY <2>3, <2>4, <2>5
<1>5. Tail(u) = t
  <2> HIDE DEF u
  <2>1. Tail(u) \in Seq(Range(u)) /\ Len(Tail(u)) = Len(t) /\ \A i \in 1..Len(t) : Tail(u)[i] = t[i]
    BY <1>2, <1>4
  <2>2. Tail(u) \in Seq(Range(u) \cup Range(t)) /\ t \in Seq(Range(u) \cup Range(t))
    BY <1>3, <2>1, SeqMonotonic
  <2> QED BY <2>1, <2>2, SeqEqual
<1> HIDE DEF u
<1>6. \A i \in 1..Len(u) : IsSlot(u[i])
  <2> TAKE i \in 1..Len(u)
  <2>1. CASE i = 1
    BY <1>4, <2>1
  <2>2. CASE i # 1
    <3>1. i - 1 \in 1..Len(t) /\ (i - 1) + 1 = i
      BY <1>2, <1>4, <2>2
    <3> QED BY <1>3, <1>4, <3>1
  <2> QED BY <2>1, <2>2
<1>7. Countable(u) /\ Countable(ahead) /\ Countable(t)
  BY <1>1, <1>3, <1>4, <1>6 DEF Countable, IsSlot
<1>8. JobCells(u) = JobCells(t) /\ Cardinality(JobsIn(u)) = Cardinality(JobsIn(t))
  <2>1. CellsIn(left) = 0 /\ One(left) = 0
    BY DEF CellsIn, One
  <2>2. JobCells(u) = CellsIn(left) + JobCells(t) /\ JobCells(t) \in Nat
    BY <1>4, <1>5, <1>7, CellsOfFront
  <2>3. Cardinality(JobsIn(u)) = One(left) + Cardinality(JobsIn(t)) /\ Cardinality(JobsIn(t)) \in Nat
    BY <1>3, <1>4, <1>5, JobsOfFront, JobsInFinite
  <2> QED BY <2>1, <2>2, <2>3
<1>9. StartsOf(u) = StartsOf(t)
  <2>1. JobsIn(u) = {i + 1 : i \in JobsIn(t)}
    <3>1. ASSUME NEW i \in JobsIn(t)
          PROVE  i + 1 \in JobsIn(u)
      BY <1>2, <1>4 DEF JobsIn
    <3>2. ASSUME NEW j \in JobsIn(u)
          PROVE  \E i \in JobsIn(t) : j = i + 1
      <4>1. j \in 1..Len(t) + 1 /\ j # 1 /\ HasJob(u[j])
        BY <1>4 DEF JobsIn
      <4>2. j - 1 \in 1..Len(t) /\ (j - 1) + 1 = j
        BY <1>2, <4>1
      <4>3. j - 1 \in JobsIn(t)
        BY <1>4, <4>1, <4>2 DEF JobsIn
      <4> QED BY <4>2, <4>3
    <3> QED BY <3>1, <3>2
  <2>2. \A i \in JobsIn(t) : u[i + 1] = t[i]
    BY <1>4 DEF JobsIn
  <2> QED BY <2>1, <2>2 DEF StartsOf
<1>10. StartsOf(ahead) \subseteq StartsOf(t) \cup (IF HasJob(ahead[1]) THEN {ahead[1].start} ELSE {})
  <2> SUFFICES ASSUME NEW j \in JobsIn(ahead)
               PROVE  ahead[j].start \in StartsOf(t) \cup (IF HasJob(ahead[1]) THEN {ahead[1].start} ELSE {})
    BY DEF StartsOf
  <2>1. j \in 1..Len(ahead) /\ HasJob(ahead[j])
    BY DEF JobsIn
  <2>2. CASE j = 1
    BY <2>1, <2>2
  <2>3. CASE j # 1
    <3>1. j - 1 \in 1..Len(t) /\ (j - 1) + 1 = j
      BY <1>2, <2>1, <2>3
    <3>2. t[j - 1] = ahead[j]
      BY <1>2, <3>1
    <3>3. j - 1 \in JobsIn(t)
      BY <2>1, <3>1, <3>2 DEF JobsIn
    <3> QED BY <3>2, <3>3 DEF StartsOf
  <2> QED BY <2>2, <2>3
<1>11. /\ JobCells(ahead) = CellsIn(ahead[1]) + JobCells(t) /\ JobCells(t) \in Nat /\ CellsIn(ahead[1]) \in Nat
       /\ Cardinality(JobsIn(ahead)) = One(ahead[1]) + Cardinality(JobsIn(t)) /\ Cardinality(JobsIn(t)) \in Nat
  BY <1>1, <1>3, <1>7, CellsOfFront, JobsOfFront, JobsInFinite DEF t
<1>12. One(ahead[1]) \in {0, 1}
  BY DEF One
<1>13. /\ JobCells(ahead)' = JobCells(t) /\ Cardinality(JobsIn(ahead))' = Cardinality(JobsIn(t))
       /\ StartsOf(ahead)' = StartsOf(t) /\ Len(ahead)' <= Len(ahead)
  <2>1. CASE ahead' = t
    BY <1>2, <2>1
  <2>2. CASE ahead' = u
    BY <1>2, <1>4, <1>8, <1>9, <2>2
  <2> QED BY <2>1, <2>2 DEF t, u
<1>14. TypeInv'
  BY <1>3, <1>4, <1>6 DEF t, u, IInv, TypeInv, IsLayout
<1>15. CountInv'
  <2>1. inFlight' = Cardinality(JobsIn(t)) /\ inFlightCells' = JobCells(t)
    BY <1>11, <1>12 DEF IInv, CountInv
  <2>2. Len(ahead)' <= MaxAhead
    <3>1. Len(ahead)' \in Nat
      BY <1>14 DEF TypeInv
    <3> QED BY <1>1, <1>13, <3>1, VDiskAssumption DEF IInv, CountInv
  <2>3. inFlight' <= 2 * Max({Workers, 1})
    BY <1>11, <1>12, <2>1, MaxIsPositive DEF IInv, CountInv
  <2>4. inFlightCells' < InFlightCells + MaxBlock
    BY <1>11, <2>1, VDiskAssumption, SMTT(30) DEF IInv, CountInv
  <2> QED BY <1>13, <2>1, <2>2, <2>3, <2>4 DEF CountInv
<1>16. JobInv'
  <2>1. Waiting' = Waiting
    BY DEF Waiting
  <2>2. Waiting \subseteq StartsOf(t)
    BY <1>10 DEF IInv, JobInv
  <2> QED BY <1>13, <2>1, <2>2 DEF IInv, JobInv
<1>17. PoolInv'
  <2>1. JobsIn(ahead) = {} => JobsIn(ahead)' = {}
    <3> SUFFICES ASSUME JobsIn(ahead) = {}
                 PROVE  JobsIn(ahead)' = {}
      OBVIOUS
    <3>1. Cardinality(JobsIn(ahead)) = 0
      BY FS_EmptySet
    <3>2. Cardinality(JobsIn(ahead))' = 0
      BY <1>11, <1>12, <1>13, <3>1
    <3>3. IsFiniteSet(JobsIn(t)) /\ IsFiniteSet(JobsIn(u))
      BY <1>3, <1>4, JobsInFinite
    <3>4. IsFiniteSet(JobsIn(ahead)')
      BY <3>3 DEF t, u
    <3> QED BY <3>2, <3>4, FS_EmptySet
  <2> QED BY <2>1 DEF IInv, PoolInv
<1> QED BY <1>14, <1>15, <1>16, <1>17 DEF IInv

\* A step that changes none of what is counted.
LEMMA Stutters == IInv /\ UNCHANGED <<layout, mapped, ahead, flight, pool>> => IInv'
<1> SUFFICES ASSUME IInv, UNCHANGED <<layout, mapped, ahead, flight, pool>> PROVE IInv'
  OBVIOUS
<1>1. TypeInv'
  BY DEF IInv, TypeInv, IsLayout
<1>2. CountInv'
  BY DEF IInv, CountInv, flight
<1>3. JobInv' /\ PoolInv'
  BY DEF IInv, JobInv, Waiting, StartsOf, PoolInv
<1> QED BY <1>1, <1>2, <1>3 DEF IInv

\* Reading of the front slot takes its job off the counts exactly when it ends, also when
\* the answer is an error or never comes (VDisk::read).
LEMMA TakeSlotKeeps == IInv /\ TakeSlot => IInv'
<1> SUFFICES ASSUME IInv, TakeSlot PROVE IInv'
  OBVIOUS
<1> DEFINE slot == Head(ahead)
           k == Min({slot.len - slot.taken, want - Len(buf)})
           got == Decode(opened.src, slot)
           more == [slot EXCEPT !.decoded = TRUE, !.job = FALSE, !.taken = @ + k]
           rest == Rest(slot, k)
<1>1. ahead # <<>> /\ slot = ahead[1] /\ IsSlot(slot)
  <2>1. ahead # <<>>
    BY DEF TakeSlot
  <2>2. 1 \in 1..Len(ahead) /\ Head(ahead) = ahead[1]
    BY <2>1 DEF IInv, TypeInv
  <2> QED BY <2>1, <2>2 DEF IInv, TypeInv
<1> HIDE DEF k, got
<1>2. IsSlot(rest) /\ rest.run = slot.run
  <2>1. DOMAIN slot = SlotFields
    BY <1>1 DEF IsSlot
  <2>2. rest = [slot EXCEPT !.len = slot.len - k, !.at = slot.at + k]
    BY DEF Rest
  <2> HIDE DEF rest, slot
  <2>3. /\ rest.run = slot.run /\ rest.max = slot.max /\ rest.job = slot.job /\ rest.decoded = slot.decoded
        /\ rest = [f \in SlotFields |-> rest[f]]
    BY <2>1, <2>2 DEF SlotFields
  <2> QED BY <1>1, <2>3 DEF IsSlot
<1>3. IsSlot(more) /\ ~HasJob(more)
  <2>1. DOMAIN slot = SlotFields
    BY <1>1 DEF IsSlot
  <2> HIDE DEF slot
  <2>2. /\ more.max = slot.max /\ more.job = FALSE
        /\ more = [f \in SlotFields |-> more[f]]
    BY <2>1 DEF SlotFields
  <2> HIDE DEF more
  <2> QED BY <1>1, <2>2 DEF IsSlot, HasJob
<1>4. \/ slot.run = "zeros" /\ Give([i \in 1..k |-> 0], rest) /\ UNCHANGED flight
      \/ slot.run = "stored" /\ Give(ReadAt(opened.src, slot.at, k), rest) /\ UNCHANGED flight
      \/ Fail
      \/ /\ slot.run = "packed" /\ (slot.decoded \/ Answered(slot))
         /\ Give(Unpacked(got, slot.taken, k), more)
         /\ inFlight' = inFlight - (IF slot.job THEN 1 ELSE 0)
         /\ inFlightCells' = inFlightCells - (IF slot.job THEN slot.max ELSE 0)
  <2> HIDE DEF slot, more, rest
  <2> QED BY DEF TakeSlot, slot, more, rest, k, got
<1> HIDE DEF slot, more, rest
<1>5. CASE Fail
  BY <1>5, Stutters DEF Fail, map
<1>6. ASSUME slot.run \in {"zeros", "stored"}, UNCHANGED flight, NEW cells, Give(cells, rest)
      PROVE  IInv'
  <2>1. ~HasJob(slot) /\ ~HasJob(rest)
    BY <1>2, <1>6 DEF HasJob
  <2>2. /\ inFlight' = inFlight - One(ahead[1]) /\ inFlightCells' = inFlightCells - CellsIn(ahead[1])
    <3>1. One(ahead[1]) = 0 /\ CellsIn(ahead[1]) = 0
      BY <1>1, <2>1 DEF One, CellsIn
    <3>2. inFlight \in Int /\ inFlightCells \in Int
      <4>1. ahead \in Seq(Range(ahead)) /\ Countable(ahead)
        BY AheadCounts DEF IInv, TypeInv
      <4> QED BY <1>1, <4>1, CellsOfFront, JobsInFinite DEF IInv, CountInv
    <3> QED BY <1>6, <3>1, <3>2 DEF flight
  <2>3. /\ ahead' = Tail(ahead) \/ ahead' = <<rest>> \o Tail(ahead)
        /\ UNCHANGED <<layout, mapped, pool>>
    BY <1>6 DEF Give, map
  <2> QED BY <1>1, <1>2, <2>1, <2>2, <2>3, FrontKeeps
<1>7. ASSUME slot.run = "packed", slot.decoded \/ Answered(slot), NEW cells, Give(cells, more),
             inFlight' = inFlight - (IF slot.job THEN 1 ELSE 0),
             inFlightCells' = inFlightCells - (IF slot.job THEN slot.max ELSE 0)
      PROVE  IInv'
  <2>1. inFlight' = inFlight - One(ahead[1]) /\ inFlightCells' = inFlightCells - CellsIn(ahead[1])
    BY <1>1, <1>7 DEF One, CellsIn, HasJob
  <2>2. HasJob(ahead[1]) => ahead[1].start \in pool.sent \cup pool.gone
    BY <1>1, <1>7 DEF Answered, IsSlot, HasJob
  <2>3. /\ ahead' = Tail(ahead) \/ ahead' = <<more>> \o Tail(ahead)
        /\ UNCHANGED <<layout, mapped, pool>>
    BY <1>7 DEF Give, map
  <2> QED BY <1>1, <1>3, <2>1, <2>2, <2>3, FrontKeeps
<1> QED BY <1>4, <1>5, <1>6, <1>7

\* The last slot grows by a piece that goes on where it ends.
LEMMA MergedKeeps ==
  ASSUME IInv, ahead # <<>>, NEW len,
         ahead' = [ahead EXCEPT ![Len(ahead)].len = len],
         IsLayout(layout'), mapped' \in Nat, mapped' >= mapped, UNCHANGED <<flight, pool>>
  PROVE  IInv'
<1> DEFINE n == Len(ahead)
           last == [ahead[n] EXCEPT !.len = len]
<1>1. /\ ahead \in Seq(Range(ahead)) /\ n \in Nat \ {0} /\ n \in 1..n
      /\ \A i \in 1..n : IsSlot(ahead[i])
  BY DEF IInv, TypeInv
<1>2. /\ IsSlot(last) /\ HasJob(last) = HasJob(ahead[n])
      /\ last.max = ahead[n].max /\ last.start = ahead[n].start
  <2>1. IsSlot(ahead[n]) /\ DOMAIN ahead[n] = SlotFields
    BY <1>1 DEF IsSlot
  <2>2. /\ last.max = ahead[n].max /\ last.start = ahead[n].start /\ last.run = ahead[n].run
        /\ last.job = ahead[n].job /\ last.decoded = ahead[n].decoded
        /\ last = [f \in SlotFields |-> last[f]]
    BY <2>1 DEF SlotFields
  <2> HIDE DEF last
  <2> QED BY <2>1, <2>2 DEF IsSlot, HasJob
<1>3. /\ ahead' \in Seq(Range(ahead) \cup {last}) /\ Len(ahead') = n
      /\ \A i \in 1..n : ahead'[i] = IF i = n THEN last ELSE ahead[i]
  <2>1. ahead' = [ahead EXCEPT ![n] = last]
    OBVIOUS
  <2>2. ahead \in Seq(Range(ahead) \cup {last})
    BY <1>1, SeqMonotonic
  <2> HIDE DEF last, n
  <2>3. ahead' \in Seq(Range(ahead) \cup {last}) /\ Len(ahead') = Len(ahead)
    BY <1>1, <2>1, <2>2, ExceptSeq DEF n
  <2>4. \A i \in 1..n : ahead'[i] = IF i = n THEN last ELSE ahead[i]
    BY <1>1, <2>1, <2>2, ExceptSeq DEF n
  <2> QED BY <2>3, <2>4 DEF n
<1> HIDE DEF last
<1>4. TypeInv'
  <2>1. ahead' \in Seq(Range(ahead'))
    BY <1>3, SeqOfRange
  <2>2. \A i \in 1..Len(ahead') : IsSlot(ahead'[i])
    BY <1>1, <1>2, <1>3
  <2> QED BY <2>1, <2>2 DEF IInv, TypeInv
<1>5. \A i \in 1..n : /\ HasJob(ahead'[i]) = HasJob(ahead[i]) /\ ahead'[i].max = ahead[i].max
                      /\ ahead'[i].start = ahead[i].start
  BY <1>2, <1>3
<1>6. JobsIn(ahead)' = JobsIn(ahead)
  BY <1>3, <1>5 DEF JobsIn
<1>7. StartsOf(ahead)' = StartsOf(ahead)
  <2>1. \A i \in JobsIn(ahead) : ahead'[i].start = ahead[i].start
    BY <1>5 DEF JobsIn
  <2> QED BY <1>6, <2>1 DEF StartsOf
<1>8. JobCells(ahead)' = JobCells(ahead)
  <2>1. Countable(ahead) /\ Countable(ahead')
    BY <1>4, AheadCounts DEF TypeInv, IsSlot, Countable
  <2>2. \A i \in 1..n : CellsIn(ahead[i]) = CellsIn(ahead'[i])
    BY <1>5 DEF CellsIn
  <2>3. JobCells(ahead') = JobCells(ahead)
    BY <1>3, <2>1, <2>2, SameCells
  <2> QED BY <2>3
<1>9. CountInv'
  BY <1>3, <1>6, <1>8 DEF IInv, CountInv, flight
<1>10. JobInv'
  <2>1. 0..mapped - 1 \subseteq 0..mapped' - 1
    BY DEF IInv, TypeInv
  <2> QED BY <1>7, <2>1 DEF IInv, JobInv, Waiting
<1>11. PoolInv'
  BY <1>6 DEF IInv, PoolInv
<1> QED BY <1>4, <1>9, <1>10, <1>11 DEF IInv

\* What Pool::start gives.
LEMMA StartedPool ==
  ASSUME IInv
  PROVE  /\ Started \in PoolType /\ Started.tried
         /\ Started.queue = pool.queue /\ Started.running = pool.running
         /\ Started.sent = pool.sent /\ Started.gone = pool.gone
         /\ Started.free + Cardinality(Started.running) + Started.deaths <= Workers
         /\ Started.on => Workers > 1
         /\ Started.on /\ ~pool.on => JobsIn(ahead) = {}
         /\ ~Started.on => ~pool.on
<1>1. Workers \in Nat /\ pool \in PoolType
  BY VDiskAssumption DEF IInv, TypeInv
<1>2. CASE pool.tried
  <2>1. Started = pool
    BY <1>2 DEF Started
  <2> QED BY <1>1, <1>2, <2>1 DEF IInv, PoolInv
<1>3. CASE ~pool.tried
  <2>1. pool = NoPool /\ JobsIn(ahead) = {}
    BY <1>3 DEF IInv, PoolInv, NoPool
  <2> DEFINE free == IF Workers > 1 THEN Workers ELSE 0
             on == Workers > 1
  <2>2. free \in Nat /\ free <= Workers /\ on \in BOOLEAN /\ (on => Workers > 1)
    BY <1>1
  <2>3. Started = [pool EXCEPT !.tried = TRUE, !.on = on, !.free = free]
    BY <1>3 DEF Started
  <2> HIDE DEF free, on
  <2>4. /\ Started.tried = TRUE /\ Started.on = on /\ Started.free = free
        /\ Started.queue = pool.queue /\ Started.running = pool.running
        /\ Started.sent = pool.sent /\ Started.gone = pool.gone /\ Started.deaths = pool.deaths
    BY <1>1, <2>3 DEF PoolType
  <2>5. Started \in PoolType
    BY <1>1, <2>2, <2>3 DEF PoolType
  <2>6. Cardinality(Started.running) = 0 /\ Started.deaths = 0 /\ ~pool.on
    BY <2>1, <2>4, FS_EmptySet DEF NoPool
  <2>7. Started.free + Cardinality(Started.running) + Started.deaths <= Workers
    BY <1>1, <2>2, <2>4, <2>6
  <2> QED BY <2>1, <2>2, <2>4, <2>5, <2>6, <2>7
<1> QED BY <1>2, <1>3

\* A slot of its own, and its job in the queue where there are threads.
LEMMA AppendedKeeps ==
  ASSUME IInv, MayFill, NEW piece, IsPiece(piece), piece.len # 0, ~Oversized(piece),
         NEW started, started = (IF piece.run = "packed" THEN Started ELSE pool),
         NEW task, task = (piece.run = "packed" /\ Takes(started)),
         ahead' = Append(ahead, Slot(piece, mapped, task)),
         pool' = (IF task THEN [started EXCEPT !.queue = Append(@, mapped)] ELSE started),
         inFlight' = inFlight + (IF task THEN 1 ELSE 0),
         inFlightCells' = inFlightCells + (IF task THEN piece.max ELSE 0),
         IsLayout(layout'), mapped' = mapped + piece.len
  PROVE  IInv'
<1> DEFINE slot == Slot(piece, mapped, task)
<1>1. task \in BOOLEAN
  OBVIOUS
<1>2. /\ IsSlot(slot) /\ slot.run = piece.run /\ slot.max = piece.max /\ slot.start = mapped
      /\ slot.job = task
  <2>1. IsPiece(piece)
    OBVIOUS
  <2> QED BY ONLY <1>1, <2>1, NewSlot
<1>3. /\ HasJob(slot) = task /\ One(slot) = (IF task THEN 1 ELSE 0)
      /\ CellsIn(slot) = (IF task THEN piece.max ELSE 0)
  BY <1>1, <1>2 DEF HasJob, One, CellsIn
<1> HIDE DEF slot
<1>4. /\ mapped \in Nat /\ mapped' \in Nat /\ mapped' > mapped
      /\ piece.max \in Nat
  BY DEF IInv, TypeInv, IsPiece
<1>5. /\ ahead \in Seq(Range(ahead)) /\ Len(ahead) \in Nat
      /\ \A i \in 1..Len(ahead) : IsSlot(ahead[i])
  BY DEF IInv, TypeInv
<1>6. /\ ahead' \in Seq(Range(ahead) \cup {slot}) /\ Len(ahead') = Len(ahead) + 1
      /\ \A i \in 1..Len(ahead) : ahead'[i] = ahead[i]
      /\ ahead'[Len(ahead) + 1] = slot
  <2>1. ahead \in Seq(Range(ahead) \cup {slot})
    BY <1>5, SeqMonotonic
  <2> QED BY <2>1, AppendProperties DEF slot
<1>7. /\ started \in PoolType
      /\ started.queue = pool.queue /\ started.running = pool.running
      /\ started.sent = pool.sent /\ started.gone = pool.gone
      /\ started.free + Cardinality(started.running) + started.deaths <= Workers
      /\ started.on => Workers > 1
      /\ started.on /\ ~pool.on => JobsIn(ahead) = {}
      /\ ~started.on => ~pool.on
  <2>1. CASE piece.run = "packed"
    BY <2>1, StartedPool
  <2>2. CASE piece.run # "packed"
    BY <2>2 DEF IInv, TypeInv, PoolInv
  <2> QED BY <2>1, <2>2
<1>8. ~started.tried => pool = NoPool /\ started = pool
  BY StartedPool DEF IInv, PoolInv
<1>9. task => started.on /\ started.tried
  <2>1. task => started.on /\ piece.run = "packed"
    BY DEF Takes
  <2> QED BY <2>1, StartedPool
<1>10. /\ pool' \in PoolType
       /\ pool'.queue = (IF task THEN Append(pool.queue, mapped) ELSE pool.queue)
       /\ pool'.running = pool.running /\ pool'.sent = pool.sent /\ pool'.gone = pool.gone
       /\ pool'.free = started.free /\ pool'.deaths = started.deaths
       /\ pool'.on = started.on /\ pool'.tried = started.tried
  <2>1. CASE task
    <3>1. pool' = [started EXCEPT !.queue = Append(pool.queue, mapped)]
      BY <1>7, <2>1
    <3>2. pool.queue \in Seq(Nat)
      BY <1>7 DEF PoolType
    <3>3. Append(pool.queue, mapped) \in Seq(Nat)
      BY <1>4, <3>2
    <3> QED BY <1>7, <2>1, <3>1, <3>3 DEF PoolType
  <2>2. CASE ~task
    BY <1>7, <2>2
  <2> QED BY <2>1, <2>2
<1>11. TypeInv'
  <2>1. ahead' \in Seq(Range(ahead'))
    BY <1>6, SeqOfRange
  <2>2. \A i \in 1..Len(ahead') : IsSlot(ahead'[i])
    <3> TAKE i \in 1..Len(ahead')
    <3>1. i \in 1..Len(ahead) \/ i = Len(ahead) + 1
      BY <1>5, <1>6
    <3> QED BY <1>2, <1>5, <1>6, <3>1
  <2> QED BY <1>4, <1>10, <2>1, <2>2 DEF TypeInv
<1>12. /\ JobsIn(ahead)' = JobsIn(ahead) \cup (IF task THEN {Len(ahead) + 1} ELSE {})
       /\ Cardinality(JobsIn(ahead)') = Cardinality(JobsIn(ahead)) + (IF task THEN 1 ELSE 0)
  <2>1. ahead' = Append(ahead, slot)
    BY DEF slot
  <2>2. /\ JobsIn(Append(ahead, slot)) = JobsIn(ahead) \cup (IF task THEN {Len(ahead) + 1} ELSE {})
        /\ Cardinality(JobsIn(Append(ahead, slot))) = Cardinality(JobsIn(ahead)) + (IF task THEN 1 ELSE 0)
    BY <1>3, <1>5, JobsOfBack
  <2> QED BY <2>1, <2>2
<1>13. /\ JobCells(ahead)' = JobCells(ahead) + (IF task THEN piece.max ELSE 0)
       /\ JobCells(ahead) \in Nat
  <2>1. ahead' = Append(ahead, slot)
    BY DEF slot
  <2>2. CellsIn(slot) \in Nat
    BY <1>3, <1>4
  <2> QED BY <1>3, <2>1, <2>2, AheadCounts, CellsOfBack
<1>14. StartsOf(ahead)' = StartsOf(ahead) \cup (IF task THEN {mapped} ELSE {})
  <2>1. \A i \in JobsIn(ahead) : ahead'[i] = ahead[i]
    BY <1>6 DEF JobsIn
  <2>2. ahead'[Len(ahead) + 1].start = mapped
    BY <1>2, <1>6
  <2>3. CASE task
    <3>1. JobsIn(ahead)' = JobsIn(ahead) \cup {Len(ahead) + 1}
      BY <1>12, <2>3
    <3>2. StartsOf(ahead)' = {ahead'[i].start : i \in JobsIn(ahead)'}
      BY DEF StartsOf
    <3>3. StartsOf(ahead)' = {ahead'[i].start : i \in JobsIn(ahead)} \cup {mapped}
      BY ONLY <2>2, <3>1, <3>2
    <3>4. {ahead'[i].start : i \in JobsIn(ahead)} = StartsOf(ahead)
      BY ONLY <2>1 DEF StartsOf
    <3> QED BY <2>3, <3>3, <3>4
  <2>4. CASE ~task
    <3>1. JobsIn(ahead)' = JobsIn(ahead)
      BY <1>12, <2>4
    <3>2. StartsOf(ahead)' = {ahead'[i].start : i \in JobsIn(ahead)}
      BY ONLY <3>1 DEF StartsOf
    <3>3. {ahead'[i].start : i \in JobsIn(ahead)} = StartsOf(ahead)
      BY ONLY <2>1 DEF StartsOf
    <3> QED BY <2>4, <3>2, <3>3
  <2> QED BY <2>3, <2>4
<1>15. Cardinality(JobsIn(ahead)) \in Nat
  BY <1>5, JobsInFinite
<1>16. CountInv'
  <2>1. inFlight' = Cardinality(JobsIn(ahead))' /\ inFlightCells' = JobCells(ahead)'
    BY <1>12, <1>13 DEF IInv, CountInv
  <2>2. Len(ahead)' <= MaxAhead
    BY <1>5, <1>6, VDiskAssumption DEF MayFill
  <2>3. CASE ~task
    <3>1. inFlight' = inFlight /\ inFlightCells' = inFlightCells
      BY <1>12, <1>13, <1>15, <2>1, <2>3 DEF IInv, CountInv
    <3> QED BY <2>1, <2>2, <3>1 DEF IInv, CountInv
  <2>4. CASE task
    <3>1. Workers > 1 /\ Workers \in Nat /\ Max({Workers, 1}) = Workers
      BY <1>7, <1>9, <2>4, MaxIsPositive, VDiskAssumption
    <3>2. \/ inFlight < 2 * Workers /\ inFlightCells < InFlightCells
          \/ inFlight = 0 /\ inFlightCells = 0
      <4>1. CASE ahead = <<>>
        <5>1. JobsIn(ahead) = {}
          BY <4>1 DEF JobsIn
        <5> QED BY <4>1, <5>1, NoJobCells, FS_EmptySet DEF IInv, CountInv
      <4>2. CASE ahead # <<>> /\ pool.on
        BY <4>2 DEF MayFill
      <4>3. CASE ~pool.on
        <5>1. JobsIn(ahead) = {}
          BY <1>7, <1>9, <2>4, <4>3
        <5>2. Cardinality(JobsIn(ahead)) = 0
          BY <5>1, FS_EmptySet
        <5>3. JobCells(ahead) = 0
          <6>1. \A i \in 1..Len(ahead) : CellsIn(ahead[i]) = 0
            BY <5>1 DEF JobsIn, CellsIn
          <6> QED BY <6>1, AheadCounts, NoCells
        <5> QED BY <5>2, <5>3 DEF IInv, CountInv
      <4> QED BY <4>1, <4>2, <4>3
    <3>3. piece.max <= MaxBlock
      <4>1. piece.run = "packed"
        BY <2>4
      <4> QED BY <1>4, <4>1, VDiskAssumption DEF Oversized
    <3>4. inFlight \in Nat /\ inFlightCells \in Nat
      BY <1>13, <1>15 DEF IInv, CountInv
    <3>5. inFlight' <= 2 * Max({Workers, 1})
      BY <2>4, <3>1, <3>2, <3>4
    <3>6. inFlightCells' < InFlightCells + MaxBlock
      <4>1. InFlightCells \in Nat \ {0} /\ MaxBlock \in Nat
        BY VDiskAssumption
      <4>2. inFlightCells' = inFlightCells + piece.max
        BY <2>4
      <4>3. inFlightCells < InFlightCells
        BY <3>2, <3>4, <4>1
      <4> QED BY <1>4, <3>3, <3>4, <4>1, <4>2, <4>3
    <3> QED BY <2>1, <2>2, <3>5, <3>6 DEF CountInv
  <2> QED BY <2>3, <2>4
<1>17. /\ Len(pool'.queue) \in Nat
       /\ Range(pool'.queue) = Range(pool.queue) \cup (IF task THEN {mapped} ELSE {})
       /\ \A i, j \in 1..Len(pool'.queue) : pool'.queue[i] = pool'.queue[j] => i = j
  <2> DEFINE q == pool.queue
             r == Append(q, mapped)
  <2>1. q \in Seq(Nat) /\ Range(q) = {q[i] : i \in 1..Len(q)}
    <3>1. q \in Seq(Nat)
      BY <1>7 DEF PoolType
    <3> QED BY <3>1, RangeEquality
  <2>2. mapped \notin Range(q)
    <3>1. mapped \notin 0..mapped - 1
      BY <1>4
    <3> QED BY <3>1 DEF IInv, JobInv, Waiting
  <2>3. CASE ~task
    BY <1>10, <2>1, <2>3 DEF IInv, JobInv
  <2>4. CASE task
    <3>1. /\ r \in Seq(Nat) /\ Len(r) = Len(q) + 1 /\ Len(q) \in Nat
          /\ \A i \in 1..Len(q) : r[i] = q[i]
          /\ r[Len(q) + 1] = mapped
      BY <1>4, <2>1, AppendProperties
    <3> HIDE DEF r
    <3>2. Range(r) = {r[i] : i \in 1..Len(r)}
      BY <3>1, RangeEquality
    <3>3. 1..Len(r) = 1..Len(q) \cup {Len(q) + 1}
      BY <3>1
    <3>4. Range(r) = Range(q) \cup {mapped}
      <4>1. Range(q) = {r[i] : i \in 1..Len(q)}
        BY <2>1, <3>1
      <4> HIDE DEF q
      <4> QED BY <3>1, <3>2, <3>3, <4>1
    <3>5. \A i \in 1..Len(q) : q[i] # mapped
      BY <2>1, <2>2
    <3>6. \A i, j \in 1..Len(q) : q[i] = q[j] => i = j
      BY DEF IInv, JobInv
    <3>7. \A i, j \in 1..Len(r) : r[i] = r[j] => i = j
      BY <3>1, <3>3, <3>5, <3>6
    <3>8. pool'.queue = r
      BY <1>10, <2>4 DEF r
    <3> HIDE DEF q
    <3>9. Len(r) \in Nat
      BY <3>1
    <3>10. Range(r) = Range(pool.queue) \cup (IF task THEN {mapped} ELSE {})
      BY <2>4, <3>4 DEF q
    <3> HIDE DEF r
    <3> QED BY ONLY <3>7, <3>8, <3>9, <3>10
  <2> QED BY <2>3, <2>4
<1>18. Waiting' = Waiting \cup (IF task THEN {mapped} ELSE {})
  BY <1>10, <1>17 DEF Waiting
<1>19. JobInv'
  <2>1. mapped \notin Waiting \cup pool.sent \cup pool.gone
    <3>1. mapped \notin 0..mapped - 1
      BY <1>4
    <3> QED BY <3>1 DEF IInv, JobInv
  <2>2. Waiting' \subseteq StartsOf(ahead)'
    BY <1>14, <1>18 DEF IInv, JobInv
  <2>3. Waiting' \cap (pool'.sent \cup pool'.gone) = {}
    BY <1>10, <1>18, <2>1 DEF IInv, JobInv
  <2>4. pool'.running \cap Range(pool'.queue) = {}
    BY <1>10, <1>17, <2>1 DEF IInv, JobInv, Waiting
  <2>5. Waiting' \cup pool'.sent \cup pool'.gone \subseteq 0..mapped' - 1
    <3>1. 0..mapped - 1 \subseteq 0..mapped' - 1 /\ mapped \in 0..mapped' - 1
      BY <1>4
    <3>2. Waiting \cup pool.sent \cup pool.gone \subseteq 0..mapped' - 1
      BY <3>1 DEF IInv, JobInv
    <3> QED BY <1>10, <1>18, <3>1, <3>2
  <2> QED BY <1>17, <2>2, <2>3, <2>4, <2>5 DEF JobInv
<1>20. PoolInv'
  <2>1. ~pool'.tried => pool' = NoPool
    BY <1>8, <1>9, <1>10
  <2>2. ~pool'.on => JobsIn(ahead)' = {}
    BY <1>7, <1>9, <1>10, <1>12 DEF IInv, PoolInv
  <2> QED BY <1>7, <1>10, <2>1, <2>2 DEF IInv, PoolInv
<1> QED BY <1>11, <1>16, <1>19, <1>20 DEF IInv

\* What is left of a layout is one.
LEMMA LayoutTail ==
  ASSUME NEW pieces, IsLayout(pieces), pieces # <<>>
  PROVE  IsPiece(Head(pieces)) /\ IsLayout(Tail(pieces))
<1> DEFINE t == Tail(pieces)
<1>1. /\ pieces \in Seq(Range(pieces)) /\ Len(pieces) \in Nat \ {0} /\ Head(pieces) = pieces[1]
      /\ 1 \in 1..Len(pieces)
      /\ t \in Seq(Range(pieces)) /\ Len(t) = Len(pieces) - 1
      /\ \A i \in 1..Len(t) : t[i] = pieces[i + 1]
  BY DEF IsLayout
<1> HIDE DEF t
<1>2. \A i \in 1..Len(t) : i + 1 \in 1..Len(pieces)
  BY <1>1
<1>3. t \in Seq(Range(t))
  BY <1>1, SeqOfRange
<1>4. \A i \in 1..Len(t) : IsPiece(t[i])
  BY <1>1, <1>2 DEF IsLayout
<1> QED BY <1>1, <1>3, <1>4 DEF IsLayout, t

\* The layout gives a piece that is empty, or another one that is passed over.
LEMMA SkippedKeeps ==
  ASSUME IInv, IsLayout(layout'), UNCHANGED <<mapped, ahead, flight, pool>>
  PROVE  IInv'
<1>1. TypeInv'
  BY DEF IInv, TypeInv
<1>2. CountInv'
  BY DEF IInv, CountInv, flight
<1>3. JobInv' /\ PoolInv'
  BY DEF IInv, JobInv, Waiting, StartsOf, PoolInv
<1> QED BY <1>1, <1>2, <1>3 DEF IInv

\* Filling counts what it adds, and adds only within the limits, whether a piece is
\* skipped, merged, appended, refused or the last (VDisk::fill, VDisk::push).
LEMMA FillKeeps == IInv /\ Fill => IInv'
<1> SUFFICES ASSUME IInv, Fill PROVE IInv'
  OBVIOUS
<1>1. MayFill
  BY DEF Fill
<1>2. CASE layout = <<>>
  BY <1>2, Stutters DEF Fill, flight
<1>3. CASE layout # <<>>
  <2> DEFINE piece == Head(layout)
             started == IF piece.run = "packed" THEN Started ELSE pool
             task == piece.run = "packed" /\ Takes(started)
  <2>1. IsPiece(piece) /\ IsLayout(Tail(layout))
    BY <1>3, LayoutTail DEF IInv, TypeInv
  <2>2. \/ Fail
        \/ Skip
        \/ /\ piece.len # 0 /\ ~Oversized(piece)
           /\ Push(piece) /\ layout' = Tail(layout) /\ mapped' = mapped + piece.len
    BY <1>3 DEF Fill
  <2>3. CASE Fail
    BY <2>3, Stutters DEF Fail, map
  <2>4. CASE Skip
    <3>1. Fail \/ (layout' = Tail(layout) /\ UNCHANGED <<mapped, ahead, flight, pool>>)
      BY <2>4 DEF Skip
    <3>2. CASE layout' = Tail(layout) /\ UNCHANGED <<mapped, ahead, flight, pool>>
      BY <2>1, <3>2, SkippedKeeps
    <3> QED BY <2>3, <3>1, <3>2
  <2>5. CASE /\ piece.len # 0 /\ ~Oversized(piece)
             /\ Push(piece) /\ layout' = Tail(layout) /\ mapped' = mapped + piece.len
    <3> HIDE DEF piece
    <3>1. IsLayout(layout') /\ mapped' \in Nat /\ mapped' >= mapped
      BY <2>1, <2>5 DEF IInv, TypeInv, IsPiece
    <3>2. CASE ahead # <<>> /\ Merges(Last(ahead), piece)
      <4>1. /\ ahead' = [ahead EXCEPT ![Len(ahead)].len = ahead[Len(ahead)].len + piece.len]
            /\ UNCHANGED <<flight, pool>>
        BY <2>5, <3>2 DEF Push
      <4> QED BY <3>1, <3>2, <4>1, MergedKeeps
    <3>3. CASE ~(ahead # <<>> /\ Merges(Last(ahead), piece))
      <4>1. /\ ahead' = Append(ahead, Slot(piece, mapped, task))
            /\ pool' = (IF task THEN [started EXCEPT !.queue = Append(@, mapped)] ELSE started)
            /\ inFlight' = inFlight + (IF task THEN 1 ELSE 0)
            /\ inFlightCells' = inFlightCells + (IF task THEN piece.max ELSE 0)
        BY <2>5, <3>3 DEF Push
      <4>2. /\ started = (IF piece.run = "packed" THEN Started ELSE pool)
            /\ task = (piece.run = "packed" /\ Takes(started))
        OBVIOUS
      <4> HIDE DEF started, task
      <4> QED BY <1>1, <2>1, <2>5, <3>1, <4>1, <4>2, AppendedKeeps
    <3> QED BY <3>2, <3>3
  <2> QED BY <2>2, <2>3, <2>4, <2>5
<1> QED BY <1>2, <1>3

-------------------------------------------------------------------------------
\* No step, of the reader or of a thread, breaks the invariant.
LEMMA StepsKeep == IInv /\ [Steps]_stream => IInv'
<1> SUFFICES ASSUME IInv, [Steps]_stream PROVE IInv'
  OBVIOUS
<1>1. ASSUME NEW result, IsLayout(result.layout), Opening(result)
      PROVE  IInv'
  BY <1>1, SkippedKeeps DEF Opening
<1>2. CASE Fill
  BY <1>2, FillKeeps
<1>3. CASE TakeSlot
  BY <1>3, TakeSlotKeeps
<1>4. CASE NothingMapped
  BY <1>4, Stutters DEF NothingMapped, map
<1>5. CASE Return
  BY <1>5, Stutters DEF Return, Fail, map
<1>6. ASSUME NEW len \in Buffers, Call(len)
      PROVE  IInv'
  BY <1>6, Stutters DEF Call, map
<1>7. CASE Threads
  BY <1>7, ThreadsKeep
<1>8. CASE UNCHANGED stream
  BY <1>8, Stutters DEF stream, map
<1>9. CASE ReaderPanics
  BY <1>9, Stutters DEF ReaderPanics, map
<1> QED BY <1>1, <1>2, <1>3, <1>4, <1>5, <1>6, <1>7, <1>8, <1>9 DEF Steps, Reader

\* What is decoded and not returned yet stays within the window (MAX_AHEAD slots, two
\* jobs for a thread, IN_FLIGHT_BYTES and a block), the counts are those of the slots
\* and there are no more threads than were started: for every layout that a format may
\* give, any number of threads, and panics at any time.
THEOREM WindowHolds == Closed /\ [][Steps]_stream => []WindowIsBounded
<1>1. Closed => IInv
  BY Begins
<1>2. IInv /\ [Steps]_stream => IInv'
  BY StepsKeep
<1>3. IInv => WindowIsBounded
  BY Bounded
<1> QED BY <1>1, <1>2, <1>3, PTL

-------------------------------------------------------------------------------
(* What is read: the disk that the layout describes *)

\* The sums of the lengths of the pieces are where they end.
LEMMA EndsAreSums ==
  ASSUME NEW pieces, IsLayout(pieces)
  PROVE  IsSum(Ends(pieces), Len(pieces), [i \in 1..Len(pieces) |-> pieces[i].len])
<1> DEFINE n == Len(pieces)
           w == [i \in 1..n |-> pieces[i].len]
           P(f) == f = [i \in 0..n |-> IF i = 0 THEN 0 ELSE f[i - 1] + pieces[i].len]
           c == CHOOSE f : P(f)
<1>1. n \in Nat /\ w \in [1..n -> Nat]
  BY DEF IsLayout, IsPiece
<1>2. Ends(pieces) = c
  BY DEF Ends
<1>3. \A i \in 1..n : w[i] = pieces[i].len
  OBVIOUS
<1> HIDE DEF w
<1>4. PICK f : IsSum(f, n, w)
  BY <1>1, SumExists
<1>5. P(f)
  <2>1. \A i \in 0..n : f[i] = IF i = 0 THEN 0 ELSE f[i - 1] + pieces[i].len
    BY <1>1, <1>3, <1>4 DEF IsSum
  <2>2. f \in [0..n -> Nat]
    BY <1>4 DEF IsSum
  <2> HIDE DEF n
  <2> QED BY <2>1, <2>2
<1>6. P(c)
  <2> HIDE DEF P
  <2> QED BY <1>5
<1>7. \A i \in 0..n : c[i] = f[i]
  <2> DEFINE T == {i \in 0..n : c[i] = f[i]}
  <2>1. 0 \in T
    BY <1>1, <1>5, <1>6
  <2>2. ASSUME NEW i \in 1..n, i - 1 \in T
        PROVE  i \in T
    <3>1. i \in 0..n /\ i # 0 /\ c[i - 1] = f[i - 1]
      BY <1>1, <2>2
    <3>2. c[i] = c[i - 1] + pieces[i].len
      BY <1>6, <3>1
    <3>3. f[i] = f[i - 1] + pieces[i].len
      BY <1>5, <3>1
    <3> QED BY <3>1, <3>2, <3>3
  <2>3. \A i \in 0..n : i \in T
    <3> HIDE DEF T
    <3> QED BY <1>1, <2>1, <2>2, Induction
  <2> QED BY <2>3
<1>8. c = [i \in 0..n |-> c[i]]
  BY <1>6
<1> HIDE DEF c, n, P
<1>9. c = f
  BY <1>4, <1>7, <1>8 DEF IsSum
<1> QED BY <1>2, <1>4, <1>9 DEF n, w

\* Each piece ends its length behind the one before it.
LEMMA EndsStep ==
  ASSUME NEW pieces, IsLayout(pieces)
  PROVE  /\ Len(pieces) \in Nat
         /\ Ends(pieces)[0] = 0 /\ \A i \in 0..Len(pieces) : Ends(pieces)[i] \in Nat
         /\ \A i \in 1..Len(pieces) : /\ pieces[i].len \in Nat
                                      /\ Ends(pieces)[i] = Ends(pieces)[i - 1] + pieces[i].len
<1>1. Len(pieces) \in Nat /\ \A i \in 1..Len(pieces) : pieces[i].len \in Nat
  BY DEF IsLayout, IsPiece
<1> QED BY <1>1, EndsAreSums DEF IsSum

\* So no piece ends behind a later one.
LEMMA EndsGrow ==
  ASSUME NEW pieces, IsLayout(pieces), NEW i \in 0..Len(pieces), NEW j \in i..Len(pieces)
  PROVE  Ends(pieces)[i] <= Ends(pieces)[j]
<1> DEFINE e == Ends(pieces)
           n == Len(pieces) - i
           T == {k \in 0..n : e[i] <= e[i + k]}
<1>1. n \in Nat /\ i \in Nat /\ Len(pieces) \in Nat /\ j - i \in 0..n /\ i + (j - i) = j
  BY EndsStep
<1>2. 0 \in T
  BY <1>1, EndsStep
<1>3. ASSUME NEW k \in 1..n, k - 1 \in T
      PROVE  k \in T
  <2>1. /\ i + k \in 1..Len(pieces) /\ i + (k - 1) = (i + k) - 1 /\ i + (k - 1) \in 0..Len(pieces)
        /\ k \in 0..n
    BY <1>1
  <2>2. e[i + k] = e[i + (k - 1)] + pieces[i + k].len /\ pieces[i + k].len \in Nat
    BY <2>1, EndsStep
  <2>3. e[i] \in Nat /\ e[i + (k - 1)] \in Nat
    BY <2>1, EndsStep
  <2> HIDE DEF e
  <2> QED BY <1>3, <2>1, <2>2, <2>3
<1>4. \A k \in 0..n : k \in T
  <2> HIDE DEF T, n
  <2> QED BY <1>1, <1>2, <1>3, Induction
<1> QED BY <1>1, <1>4

\* A cell of a piece is shown where the piece lies, and nowhere else.
LEMMA PieceShown ==
  ASSUME NEW src, NEW pieces, IsLayout(pieces),
         NEW i \in 1..Len(pieces), NEW k \in Nat, k < pieces[i].len
  PROVE  Shows(src, pieces, Ends(pieces)[i - 1] + k, CellOf(src, pieces[i], k))
<1> DEFINE e == Ends(pieces)
           n == Len(pieces)
           p == e[i - 1] + k
<1>1. /\ n \in Nat /\ i - 1 \in 0..n /\ i \in 0..n
      /\ e[i - 1] \in Nat /\ e[i] = e[i - 1] + pieces[i].len /\ pieces[i].len \in Nat
  BY EndsStep
<1>2. p \in Nat /\ p < e[i] /\ p - e[i - 1] = k /\ e[i - 1] <= p /\ e[i] \in Nat
  <2> HIDE DEF e
  <2> QED BY <1>1
<1>3. e[i] <= e[n] /\ e[n] \in Nat
  BY <1>1, EndsGrow, EndsStep
<1>4. ~(e[n] <= p)
  <2> HIDE DEF e, p
  <2> QED BY <1>2, <1>3
<1>5. ASSUME NEW j \in 1..n, e[j - 1] <= p, p < e[j]
      PROVE  j = i
  <2>1. j - 1 \in 0..n /\ j \in 0..n /\ e[j] \in Nat /\ e[j - 1] \in Nat
    BY <1>1, EndsStep
  <2>2. CASE j < i
    <3>1. i - 1 \in j..n
      BY <1>1, <2>2
    <3>2. e[j] <= e[i - 1]
      BY <2>1, <3>1, EndsGrow
    <3> HIDE DEF e, p
    <3> QED BY <1>1, <1>2, <1>5, <2>1, <3>2
  <2>3. CASE i < j
    <3>1. j - 1 \in i..n
      BY <1>1, <2>3
    <3>2. e[i] <= e[j - 1]
      BY <1>1, <3>1, EndsGrow
    <3> HIDE DEF e, p
    <3> QED BY <1>2, <1>5, <2>1, <3>2
  <2> QED BY <1>1, <2>2, <2>3
<1>6. DOMAIN pieces = 1..n
  BY DEF IsLayout
<1> HIDE DEF e, n, p
<1>7. \A j \in DOMAIN pieces : e[j - 1] <= p /\ p < e[j] => CellOf(src, pieces[i], k) = CellOf(src, pieces[j], p - e[j - 1])
  BY <1>2, <1>5, <1>6
<1>8. Shows(src, pieces, p, CellOf(src, pieces[i], k))
  BY <1>4, <1>7 DEF Shows, e, n
<1> QED BY <1>8 DEF p, e

\* Behind the last piece are zeros.
LEMMA NothingShown ==
  ASSUME NEW src, NEW pieces, IsLayout(pieces), NEW p \in Nat, Ends(pieces)[Len(pieces)] <= p
  PROVE  Shows(src, pieces, p, 0)
<1> DEFINE e == Ends(pieces)
           n == Len(pieces)
<1>1. ASSUME NEW j \in DOMAIN pieces
      PROVE  ~(p < e[j])
  <2>1. n \in Nat /\ j \in 0..n /\ n \in j..n /\ n \in 0..n
    BY EndsStep DEF IsLayout
  <2>2. e[j] <= e[n] /\ e[j] \in Nat /\ e[n] \in Nat
    BY <2>1, EndsGrow, EndsStep
  <2> HIDE DEF e, n
  <2>3. e[n] <= p
    BY DEF e, n
  <2> QED BY <2>2, <2>3
<1> QED BY <1>1 DEF Shows

-------------------------------------------------------------------------------
(* The cells of the slots *)

\* A piece, or the slot of one, has the same cells if it is stored alike.
LEMMA SameCellsOf ==
  ASSUME NEW src, NEW s, NEW t, NEW k,
         s.run = t.run, s.at = t.at, s.stored = t.stored, s.max = t.max
  PROVE  CellOf(src, s, k) = CellOf(src, t, k)
  BY DEF CellOf, Decode

\* What is left of a slot: the disk's cells from `p`, none of them read yet.
LeftIn(s) == s.len - s.taken
Holds(d, s, p) ==
  /\ {s.len, s.taken, s.at} \subseteq Nat /\ s.taken < s.len /\ (s.run # "packed" => s.taken = 0)
  /\ \A k \in 0..LeftIn(s) - 1 : Shows(d.src, d.layout, p + k, CellOf(d.src, s, s.taken + k))

\* The `n` cells that read copies of a slot, and what is left of that (VDisk::read).
Copied(d, s, n, cells, left) ==
  \/ s.run = "zeros" /\ cells = [i \in 1..n |-> 0] /\ left = Rest(s, n)
  \/ s.run = "stored" /\ cells = ReadAt(d.src, s.at, n) /\ left = Rest(s, n)
  \/ /\ s.run = "packed" /\ cells = Unpacked(Decode(d.src, s), s.taken, n)
     /\ left = [s EXCEPT !.decoded = TRUE, !.job = FALSE, !.taken = @ + n]

IsRow(cells, n) == cells = [i \in 1..n |-> cells[i]]

\* What read copies of the front slot is what the disk has there, and the rest of the slot
\* has what comes next (VDisk::read).
LEMMA SlotRead ==
  ASSUME NEW d, NEW s, IsSlot(s), NEW p \in Nat, Holds(d, s, p), NEW n \in 1..LeftIn(s),
         NEW cells, NEW left, Copied(d, s, n, cells, left)
  PROVE  /\ IsRow(cells, n)
         /\ \A i \in 1..n : Shows(d.src, d.layout, p + i - 1, cells[i])
         /\ LeftIn(left) = LeftIn(s) - n /\ left.start = s.start
         /\ LeftIn(left) \in Nat /\ (left.len = left.taken <=> LeftIn(left) = 0)
         /\ left.len # left.taken => Holds(d, left, p + n)
<1>1. /\ s.len \in Nat /\ s.taken \in Nat /\ s.at \in Nat /\ s.taken < s.len
      /\ (s.run # "packed" => s.taken = 0)
      /\ n \in Nat /\ LeftIn(s) = s.len - s.taken /\ n <= s.len - s.taken /\ n >= 1
      /\ DOMAIN s = SlotFields
  BY DEF Holds, LeftIn, IsSlot
<1>2. \A i \in 1..n : Shows(d.src, d.layout, p + i - 1, CellOf(d.src, s, s.taken + (i - 1)))
  <2> TAKE i \in 1..n
  <2>1. i - 1 \in 0..LeftIn(s) - 1 /\ p + i - 1 = p + (i - 1)
    BY <1>1
  <2> QED BY <2>1 DEF Holds
<1>3. \A k \in 0..LeftIn(s) - n - 1 : Shows(d.src, d.layout, (p + n) + k, CellOf(d.src, s, s.taken + (n + k)))
  <2> TAKE k \in 0..LeftIn(s) - n - 1
  <2>1. n + k \in 0..LeftIn(s) - 1 /\ (p + n) + k = p + (n + k)
    BY <1>1
  <2> QED BY <2>1 DEF Holds
<1>4. CASE s.run = "zeros"
  <2>1. /\ cells = [i \in 1..n |-> 0] /\ left = [s EXCEPT !.len = s.len - n, !.at = s.at + n]
    BY <1>4 DEF Rest, Copied
  <2>2. /\ left.len = s.len - n /\ left.at = s.at + n /\ left.taken = 0 /\ left.start = s.start
        /\ left.run = "zeros"
    BY <1>1, <1>4, <2>1 DEF SlotFields
  <2>3. \A k : CellOf(d.src, s, k) = 0 /\ CellOf(d.src, left, k) = 0
    BY <1>4, <2>2 DEF CellOf
  <2>4. LeftIn(left) = LeftIn(s) - n /\ LeftIn(left) \in Nat /\ (left.len = left.taken <=> LeftIn(left) = 0)
    BY <1>1, <1>4, <2>2 DEF LeftIn
  <2>5. ASSUME left.len # left.taken
        PROVE  Holds(d, left, p + n)
    <3>1. {left.len, left.taken, left.at} \subseteq Nat /\ left.taken < left.len
      BY <1>1, <1>4, <2>2, <2>4, <2>5
    <3> QED BY <1>3, <2>2, <2>3, <2>4, <3>1 DEF Holds
  <2>6. IsRow(cells, n)
    BY <2>1 DEF IsRow
  <2> QED BY <1>2, <2>1, <2>2, <2>3, <2>4, <2>5, <2>6
<1>5. CASE s.run = "stored"
  <2>1. /\ cells = ReadAt(d.src, s.at, n) /\ left = [s EXCEPT !.len = s.len - n, !.at = s.at + n]
    BY <1>5 DEF Rest, Copied
  <2>2. /\ left.len = s.len - n /\ left.at = s.at + n /\ left.taken = 0 /\ left.start = s.start
        /\ left.run = "stored" /\ s.taken = 0
    BY <1>1, <1>5, <2>1 DEF SlotFields
  <2>3. \A k : CellOf(d.src, s, k) = CellAt(d.src, s.at + k).v /\ CellOf(d.src, left, k) = CellAt(d.src, left.at + k).v
    BY <1>5, <2>2 DEF CellOf
  <2>4. LeftIn(left) = LeftIn(s) - n /\ LeftIn(left) \in Nat /\ (left.len = left.taken <=> LeftIn(left) = 0)
    BY <1>1, <1>5, <2>2 DEF LeftIn
  <2>5. ASSUME left.len # left.taken
        PROVE  Holds(d, left, p + n)
    <3>1. {left.len, left.taken, left.at} \subseteq Nat /\ left.taken < left.len
      BY <1>1, <1>5, <2>2, <2>4, <2>5
    <3>2. \A k \in 0..LeftIn(s) - n - 1 : left.at + (left.taken + k) = s.at + (s.taken + (n + k))
      BY <1>1, <2>2
    <3>3. \A k \in 0..LeftIn(s) - n - 1 : CellOf(d.src, left, left.taken + k) = CellOf(d.src, s, s.taken + (n + k))
      BY <2>3, <3>2
    <3> QED BY <1>3, <2>2, <2>4, <3>1, <3>3 DEF Holds
  <2>6. \A i \in 1..n : cells[i] = CellOf(d.src, s, s.taken + (i - 1))
    <3>1. \A i \in 1..n : s.at + i - 1 = s.at + (s.taken + (i - 1))
      BY <1>1, <2>2
    <3> QED BY <2>1, <2>3, <3>1 DEF ReadAt
  <2>7. IsRow(cells, n)
    BY <2>1 DEF IsRow, ReadAt
  <2> QED BY <1>2, <2>2, <2>4, <2>5, <2>6, <2>7
<1>6. CASE s.run = "packed"
  <2> DEFINE got == Decode(d.src, s)
  <2>1. /\ cells = Unpacked(got, s.taken, n)
        /\ left = [s EXCEPT !.decoded = TRUE, !.job = FALSE, !.taken = s.taken + n]
    BY <1>6 DEF Copied
  <2>2. /\ left.len = s.len /\ left.at = s.at /\ left.taken = s.taken + n /\ left.start = s.start
        /\ left.run = "packed" /\ left.stored = s.stored /\ left.max = s.max
    BY <1>1, <1>6, <2>1 DEF SlotFields
  <2>3. \A k : CellOf(d.src, left, k) = CellOf(d.src, s, k)
    <3> TAKE k
    <3>1. s.run = left.run
      BY <1>6, <2>2
    <3> QED BY ONLY <2>2, <3>1, SameCellsOf
  <2>4. LeftIn(left) = LeftIn(s) - n /\ LeftIn(left) \in Nat /\ (left.len = left.taken <=> LeftIn(left) = 0)
    BY <1>1, <2>2 DEF LeftIn
  <2>5. ASSUME left.len # left.taken
        PROVE  Holds(d, left, p + n)
    <3>1. {left.len, left.taken, left.at} \subseteq Nat /\ left.taken < left.len
      BY <1>1, <2>2, <2>4, <2>5 DEF LeftIn
    <3>2. \A k \in 0..LeftIn(s) - n - 1 : left.taken + k = s.taken + (n + k)
      BY <1>1, <2>2
    <3>3. \A k \in 0..LeftIn(s) - n - 1 : CellOf(d.src, left, left.taken + k) = CellOf(d.src, s, s.taken + (n + k))
      BY <2>3, <3>2
    <3> QED BY <1>3, <2>2, <2>4, <3>1, <3>3 DEF Holds
  <2>6. \A i \in 1..n : cells[i] = CellOf(d.src, s, s.taken + (i - 1))
    <3> TAKE i \in 1..n
    <3>1. s.taken + (i - 1) + 1 = s.taken + i
      BY <1>1
    <3>2. CellOf(d.src, s, s.taken + (i - 1)) = IF s.taken + (i - 1) + 1 <= Len(got.cells) THEN got.cells[s.taken + (i - 1) + 1] ELSE 0
      BY <1>6 DEF CellOf
    <3>3. cells[i] = IF s.taken + i <= Len(got.cells) THEN got.cells[s.taken + i] ELSE 0
      BY <2>1 DEF Unpacked
    <3> QED BY <3>1, <3>2, <3>3
  <2>7. IsRow(cells, n)
    BY <2>1 DEF IsRow, Unpacked
  <2> QED BY <1>2, <2>2, <2>4, <2>5, <2>6, <2>7
<1> QED BY <1>4, <1>5, <1>6 DEF Copied

\* A new slot has the cells of its piece.
LEMMA NewSlotHolds ==
  ASSUME NEW d, NEW piece, IsPiece(piece), piece.len # 0, NEW p, NEW task \in BOOLEAN,
         \A k \in 0..piece.len - 1 : Shows(d.src, d.layout, p + k, CellOf(d.src, piece, k))
  PROVE  LET s == Slot(piece, p, task)
         IN Holds(d, s, p) /\ LeftIn(s) = piece.len /\ s.start = p
<1> DEFINE s == Slot(piece, p, task)
<1>1. /\ s.len = piece.len /\ s.taken = 0 /\ s.at = piece.at /\ s.run = piece.run
      /\ s.stored = piece.stored /\ s.max = piece.max /\ s.start = p
  BY DEF Slot
<1>2. piece.len \in Nat /\ piece.at \in Nat /\ piece.len > 0
  BY DEF IsPiece
<1> HIDE DEF s
<1>3. \A k \in 0..piece.len - 1 : CellOf(d.src, s, s.taken + k) = CellOf(d.src, piece, k)
  <2> TAKE k \in 0..piece.len - 1
  <2>1. s.taken + k = k
    BY <1>1
  <2> QED BY <1>1, <2>1, SameCellsOf
<1>4. LeftIn(s) = piece.len
  BY <1>1, <1>2 DEF LeftIn
<1> QED BY <1>1, <1>2, <1>3, <1>4 DEF Holds, s

\* A slot that a neighbour was merged into has the cells of both (VDisk::push).
LEMMA MergedHolds ==
  ASSUME NEW d, NEW s, IsSlot(s), NEW p \in Nat, Holds(d, s, p),
         NEW piece, IsPiece(piece), Merges(s, piece),
         \A k \in 0..piece.len - 1 : Shows(d.src, d.layout, p + LeftIn(s) + k, CellOf(d.src, piece, k))
  PROVE  LET grown == [s EXCEPT !.len = @ + piece.len]
         IN Holds(d, grown, p) /\ LeftIn(grown) = LeftIn(s) + piece.len /\ grown.start = s.start
<1> DEFINE grown == [s EXCEPT !.len = @ + piece.len]
<1>1. /\ s.len \in Nat /\ s.at \in Nat /\ s.taken = 0 /\ s.taken < s.len /\ LeftIn(s) = s.len
      /\ DOMAIN s = SlotFields /\ piece.len \in Nat /\ piece.at \in Nat
      /\ s.run = piece.run /\ s.run \in {"zeros", "stored"}
  BY DEF Holds, LeftIn, IsSlot, IsPiece, Merges
<1>2. /\ grown.len = s.len + piece.len /\ grown.at = s.at /\ grown.taken = 0 /\ grown.run = s.run
      /\ grown.start = s.start /\ grown.stored = s.stored /\ grown.max = s.max
  BY <1>1 DEF SlotFields
<1> HIDE DEF grown
<1>3. LeftIn(grown) = LeftIn(s) + piece.len
  BY <1>1, <1>2 DEF LeftIn
<1>4. ASSUME NEW k \in 0..LeftIn(grown) - 1
      PROVE  Shows(d.src, d.layout, p + k, CellOf(d.src, grown, grown.taken + k))
  <2>1. CellOf(d.src, grown, grown.taken + k) = CellOf(d.src, s, k)
    <3>1. grown.taken + k = k
      BY <1>2
    <3> QED BY <1>2, <3>1, SameCellsOf
  <2>2. CASE k < s.len
    <3>1. k \in 0..LeftIn(s) - 1 /\ s.taken + k = k
      BY <1>1, <2>2
    <3> QED BY <2>1, <3>1 DEF Holds
  <2>3. CASE ~(k < s.len)
    <3> DEFINE j == k - s.len
    <3>1. j \in 0..piece.len - 1 /\ p + LeftIn(s) + j = p + k
      BY <1>1, <1>3, <2>3
    <3> HIDE DEF j
    <3>2. Shows(d.src, d.layout, p + k, CellOf(d.src, piece, j))
      <4>1. Shows(d.src, d.layout, p + LeftIn(s) + j, CellOf(d.src, piece, j))
        BY <3>1
      <4> QED BY <3>1, <4>1
    <3>3. CellOf(d.src, piece, j) = CellOf(d.src, s, k)
      <4>1. CASE s.run = "zeros"
        BY <1>1, <4>1 DEF CellOf
      <4>2. CASE s.run = "stored"
        <5>1. piece.at = s.at + s.len
          BY <1>1, <4>2 DEF Merges
        <5>2. piece.at + j = s.at + k
          BY <1>1, <5>1 DEF j
        <5> QED BY <1>1, <4>2, <5>2 DEF CellOf
      <4> QED BY <1>1, <4>1, <4>2
    <3> QED BY <2>1, <3>2, <3>3
  <2> QED BY <2>2, <2>3
<1>5. {grown.len, grown.taken, grown.at} \subseteq Nat /\ grown.taken < grown.len
  BY <1>1, <1>2
<1> QED BY <1>2, <1>3, <1>4, <1>5 DEF Holds, grown

\* Slots that have, one behind the other, the disk's cells from `p` up to `q`.
Chain(d, slots, p, q) ==
  /\ slots = <<>> => p = q
  /\ \A i \in 1..Len(slots) :
       LET begin == IF i = 1 THEN p ELSE slots[i].start
       IN /\ begin \in Nat /\ Holds(d, slots[i], begin)
          /\ begin + LeftIn(slots[i]) = IF i = Len(slots) THEN q ELSE slots[i + 1].start

\* Without its first slot a chain begins where that one ended.
LEMMA ChainTail ==
  ASSUME NEW d, NEW slots, slots \in Seq(Range(slots)), slots # <<>>, NEW p \in Nat, NEW q \in Nat,
         Chain(d, slots, p, q)
  PROVE  /\ Holds(d, slots[1], p) /\ LeftIn(slots[1]) \in Nat
         /\ Chain(d, Tail(slots), p + LeftIn(slots[1]), q)
<1> DEFINE t == Tail(slots)
           r == p + LeftIn(slots[1])
<1>1. /\ Len(slots) \in Nat /\ Len(slots) = Len(t) + 1 /\ Len(t) \in Nat
      /\ \A i \in 1..Len(t) : t[i] = slots[i + 1]
      /\ t \in Seq(Range(slots))
  OBVIOUS
<1>2. /\ Holds(d, slots[1], p)
      /\ p + LeftIn(slots[1]) = IF 1 = Len(slots) THEN q ELSE slots[2].start
  <2>1. 1 \in 1..Len(slots) /\ 1 + 1 = 2
    BY <1>1
  <2> QED BY <2>1 DEF Chain
<1>3. LeftIn(slots[1]) \in Nat
  BY <1>2 DEF Holds, LeftIn
<1> HIDE DEF t
<1>0. t = <<>> <=> Len(t) = 0
  BY <1>1
<1>4. ASSUME NEW i \in 1..Len(t)
      PROVE  LET begin == IF i = 1 THEN r ELSE t[i].start
             IN /\ begin \in Nat /\ Holds(d, t[i], begin)
                /\ begin + LeftIn(t[i]) = IF i = Len(t) THEN q ELSE t[i + 1].start
  <2> DEFINE begin == IF i = 1 THEN r ELSE t[i].start
  <2>1. i + 1 \in 1..Len(slots) /\ i + 1 # 1 /\ t[i] = slots[i + 1] /\ (i = Len(t) <=> i + 1 = Len(slots))
    BY <1>1
  <2>2. /\ slots[i + 1].start \in Nat /\ Holds(d, slots[i + 1], slots[i + 1].start)
        /\ slots[i + 1].start + LeftIn(slots[i + 1]) = IF i + 1 = Len(slots) THEN q ELSE slots[i + 1 + 1].start
    BY <2>1 DEF Chain
  <2>3. begin = slots[i + 1].start
    <3>1. CASE i = 1
      <4>1. 1 # Len(slots) /\ i + 1 = 2
        BY <1>1, <3>1
      <4> QED BY <1>2, <3>1, <4>1
    <3>2. CASE i # 1
      BY <2>1, <3>2
    <3> QED BY <3>1, <3>2
  <2>4. i # Len(t) => t[i + 1] = slots[i + 1 + 1]
    <3>1. i # Len(t) => i + 1 \in 1..Len(t)
      BY <1>1
    <3> QED BY <1>1, <3>1
  <2> HIDE DEF begin
  <2>5. /\ begin \in Nat /\ Holds(d, t[i], begin)
        /\ begin + LeftIn(t[i]) = IF i = Len(t) THEN q ELSE t[i + 1].start
    BY <2>1, <2>2, <2>3, <2>4
  <2> QED BY <2>5 DEF begin
<1>5. t = <<>> => r = q
  BY <1>0, <1>1, <1>2
<1> HIDE DEF r
<1>6. Chain(d, t, r, q)
  BY <1>4, <1>5 DEF Chain
<1> QED BY <1>2, <1>3, <1>6 DEF t, r

\* Its first slot can be read from: it goes on with what is left of that one.
LEMMA ChainRead ==
  ASSUME NEW d, NEW slots, slots \in Seq(Range(slots)), slots # <<>>, NEW p \in Nat, NEW q \in Nat,
         Chain(d, slots, p, q), NEW n \in Nat, NEW left,
         LeftIn(left) = LeftIn(slots[1]) - n, Holds(d, left, p + n)
  PROVE  Chain(d, <<left>> \o Tail(slots), p + n, q)
<1> DEFINE t == Tail(slots)
           u == <<left>> \o t
<1>1. /\ Len(slots) \in Nat /\ Len(slots) = Len(t) + 1 /\ Len(t) \in Nat
      /\ \A i \in 1..Len(t) : t[i] = slots[i + 1]
      /\ t \in Seq(Range(slots))
  OBVIOUS
<1> HIDE DEF t
<1>2. /\ Len(u) = Len(slots) /\ u[1] = left /\ u # <<>>
      /\ \A i \in 2..Len(slots) : u[i] = slots[i]
  <2>1. <<left>> \in Seq({left} \cup Range(slots)) /\ t \in Seq({left} \cup Range(slots))
    BY <1>1, SeqMonotonic
  <2>2. /\ u \in Seq({left} \cup Range(slots)) /\ Len(u) = 1 + Len(t)
        /\ \A i \in 1..1 + Len(t) : u[i] = IF i <= 1 THEN <<left>>[i] ELSE t[i - 1]
    BY <2>1, ConcatProperties
  <2> HIDE DEF u
  <2>3. 1 \in 1..1 + Len(t) /\ 1 <= 1 /\ <<left>>[1] = left
    BY <1>1
  <2>4. u[1] = left
    BY <2>2, <2>3
  <2>5. Len(u) = Len(slots) /\ u # <<>>
    BY <1>1, <2>2
  <2>6. ASSUME NEW i \in 2..Len(slots)
        PROVE  u[i] = slots[i]
    <3>1. i - 1 \in 1..Len(t) /\ (i - 1) + 1 = i /\ ~(i <= 1) /\ i \in 1..1 + Len(t)
      BY <1>1
    <3>2. u[i] = t[i - 1]
      BY <2>2, <3>1
    <3> QED BY <1>1, <3>1, <3>2
  <2> QED BY <2>4, <2>5, <2>6
<1>3. /\ Holds(d, slots[1], p) /\ LeftIn(slots[1]) \in Nat
      /\ p + LeftIn(slots[1]) = IF 1 = Len(slots) THEN q ELSE slots[2].start
  <2>1. 1 \in 1..Len(slots) /\ 1 + 1 = 2
    BY <1>1
  <2>2. Holds(d, slots[1], p) /\ LeftIn(slots[1]) \in Nat
    BY ChainTail
  <2> QED BY <2>1, <2>2 DEF Chain
<1> HIDE DEF u
<1>4. (p + n) + LeftIn(left) = p + LeftIn(slots[1])
  BY <1>3
<1>5. ASSUME NEW i \in 1..Len(u)
      PROVE  LET begin == IF i = 1 THEN p + n ELSE u[i].start
             IN /\ begin \in Nat /\ Holds(d, u[i], begin)
                /\ begin + LeftIn(u[i]) = IF i = Len(u) THEN q ELSE u[i + 1].start
  <2>1. CASE i = 1
    <3>1. 1 # Len(slots) => 2 \in 2..Len(slots)
      BY <1>1
    <3>2. (p + n) + LeftIn(u[1]) = IF 1 = Len(u) THEN q ELSE u[2].start
      BY <1>2, <1>3, <1>4, <3>1
    <3>3. p + n \in Nat /\ i + 1 = 2 /\ u[i] = left
      BY <1>2, <2>1
    <3> QED BY <2>1, <3>2, <3>3
  <2>2. CASE i # 1
    <3>1. i \in 2..Len(slots) /\ i \in 1..Len(slots) /\ u[i] = slots[i]
      BY <1>1, <1>2, <2>2
    <3>2. i # Len(slots) => u[i + 1] = slots[i + 1]
      <4>1. i # Len(slots) => i + 1 \in 2..Len(slots)
        BY <1>1, <3>1
      <4> QED BY <1>2, <4>1
    <3> QED BY <1>2, <2>2, <3>1, <3>2 DEF Chain
  <2> QED BY <2>1, <2>2
<1>6. Chain(d, u, p + n, q)
  BY <1>2, <1>5 DEF Chain
<1> QED BY <1>6 DEF u, t

\* A slot that begins where it ends makes it longer.
LEMMA ChainLonger ==
  ASSUME NEW d, NEW slots, slots \in Seq(Range(slots)), NEW p \in Nat, NEW q \in Nat,
         Chain(d, slots, p, q), NEW s, Holds(d, s, q), s.start = q
  PROVE  Chain(d, Append(slots, s), p, q + LeftIn(s))
<1> DEFINE u == Append(slots, s)
           n == Len(slots)
<1>1. /\ n \in Nat /\ Len(u) = n + 1 /\ u # <<>>
      /\ \A i \in 1..n : u[i] = slots[i]
      /\ u[n + 1] = s
  <2>1. slots \in Seq(Range(slots) \cup {s})
    BY SeqMonotonic
  <2> QED BY <2>1, AppendProperties
<1> HIDE DEF u
<1>2. ASSUME NEW i \in 1..Len(u)
      PROVE  LET begin == IF i = 1 THEN p ELSE u[i].start
             IN /\ begin \in Nat /\ Holds(d, u[i], begin)
                /\ begin + LeftIn(u[i]) = IF i = Len(u) THEN q + LeftIn(s) ELSE u[i + 1].start
  <2>1. CASE i = n + 1
    <3>1. u[i] = s /\ i = Len(u)
      BY <1>1, <2>1
    <3>2. i = 1 => p = q
      <4>1. i = 1 => slots = <<>>
        BY <1>1, <2>1
      <4> QED BY <4>1 DEF Chain
    <3> QED BY <3>1, <3>2
  <2>2. CASE i # n + 1
    <3>1. i \in 1..n /\ i # Len(u) /\ u[i] = slots[i]
      BY <1>1, <2>2
    <3>2. u[i + 1].start = IF i = n THEN q ELSE slots[i + 1].start
      <4>1. i # n => i + 1 \in 1..n
        BY <1>1, <3>1
      <4> QED BY <1>1, <4>1
    <3> QED BY <3>1, <3>2 DEF Chain, n
  <2> QED BY <2>1, <2>2
<1>3. Chain(d, u, p, q + LeftIn(s))
  BY <1>1, <1>2 DEF Chain
<1> QED BY <1>3 DEF u

\* So does one that its last slot is merged with.
LEMMA ChainMerged ==
  ASSUME NEW d, NEW slots, slots \in Seq(Range(slots)), slots # <<>>, NEW p \in Nat, NEW q \in Nat,
         Chain(d, slots, p, q), \A i \in 1..Len(slots) : IsSlot(slots[i]),
         NEW piece, IsPiece(piece), Merges(slots[Len(slots)], piece),
         \A k \in 0..piece.len - 1 : Shows(d.src, d.layout, q + k, CellOf(d.src, piece, k))
  PROVE  Chain(d, [slots EXCEPT ![Len(slots)].len = @ + piece.len], p, q + piece.len)
<1> DEFINE n == Len(slots)
           s == slots[n]
           grown == [s EXCEPT !.len = @ + piece.len]
           u == [slots EXCEPT ![n] = grown]
           begin == IF n = 1 THEN p ELSE s.start
<1>1. n \in Nat \ {0} /\ n \in 1..n
  OBVIOUS
<1>2. /\ begin \in Nat /\ Holds(d, s, begin) /\ begin + LeftIn(s) = q
  BY <1>1 DEF Chain
<1> HIDE DEF begin
<1>3. Holds(d, grown, begin) /\ LeftIn(grown) = LeftIn(s) + piece.len /\ grown.start = s.start
  <2>1. IsSlot(s) /\ Merges(s, piece)
    BY <1>1
  <2> HIDE DEF s
  <2> QED BY <1>2, <2>1, MergedHolds
<1>4. /\ Len(u) = n /\ u # <<>>
      /\ \A i \in 1..n : u[i] = IF i = n THEN grown ELSE slots[i]
  <2>1. slots \in Seq(Range(slots) \cup {grown})
    BY SeqMonotonic
  <2> HIDE DEF grown
  <2>2. u \in Seq(Range(slots) \cup {grown}) /\ Len(u) = Len(slots)
    BY <1>1, <2>1, ExceptSeq DEF n
  <2>3. \A i \in 1..n : u[i] = IF i = n THEN grown ELSE slots[i]
    BY <1>1, <2>1, ExceptSeq DEF n
  <2> HIDE DEF u
  <2> QED BY <1>1, <2>2, <2>3
<1>5. [slots EXCEPT ![Len(slots)].len = @ + piece.len] = u
  OBVIOUS
<1> HIDE DEF grown, u
<1>6. LeftIn(s) \in Nat /\ piece.len \in Nat
  BY <1>2 DEF Holds, LeftIn, IsPiece
<1>7. ASSUME NEW i \in 1..Len(u)
      PROVE  LET from == IF i = 1 THEN p ELSE u[i].start
             IN /\ from \in Nat /\ Holds(d, u[i], from)
                /\ from + LeftIn(u[i]) = IF i = Len(u) THEN q + piece.len ELSE u[i + 1].start
  <2>1. CASE i = n
    <3>1. u[i] = grown /\ i = Len(u) /\ begin = IF i = 1 THEN p ELSE u[i].start
      BY <1>1, <1>3, <1>4, <2>1 DEF begin
    <3>2. begin + LeftIn(grown) = q + piece.len
      BY <1>2, <1>3, <1>6
    <3> QED BY <1>2, <1>3, <3>1, <3>2
  <2>2. CASE i # n
    <3>1. i \in 1..n /\ i # Len(u) /\ u[i] = slots[i] /\ i + 1 \in 1..n
      BY <1>1, <1>4, <2>2
    <3>2. u[i + 1].start = slots[i + 1].start
      BY <1>3, <1>4, <3>1
    <3> QED BY <2>2, <3>1, <3>2 DEF Chain
  <2> QED BY <2>1, <2>2
<1>8. Chain(d, u, p, q + piece.len)
  BY <1>4, <1>7 DEF Chain
<1> QED BY <1>5, <1>8

-------------------------------------------------------------------------------
(* The invariant of what is read *)

Reached == pos + Len(buf)

\* The pieces that next() has given, and that those are all that is mapped.
Given == Len(opened.layout) - Len(layout)
LayoutInv ==
  /\ IsLayout(opened.layout) /\ opened.size \in Nat
  /\ Given \in 0..Len(opened.layout)
  /\ \A i \in 1..Len(layout) : layout[i] = opened.layout[Given + i]
  /\ mapped = Ends(opened.layout)[Given]
  /\ mapDone => layout = <<>> \/ mapped >= opened.size

\* The slots have the cells between the reader and what is mapped; it only gets past that
\* when the layout ended early.
SlotInv ==
  \/ Chain(opened, ahead, Reached, mapped)
  \/ ahead = <<>> /\ mapDone /\ Reached > mapped

Shown(cells, p) == \A i \in 1..Len(cells) : Shows(opened.src, opened.layout, p + i - 1, cells[i])

ReadInv ==
  /\ {pos, want} \subseteq Nat /\ out \in Seq(Range(out)) /\ buf \in Seq(Range(buf))
  /\ Len(out) = pos /\ Len(buf) <= want /\ pos + want <= opened.size
  /\ Shown(out, 0) /\ Shown(buf, pos)
  /\ outcome = "ended" => pos = opened.size
  /\ outcome = "closed" => pos = 0 /\ want = 0 /\ ahead = <<>> /\ mapped = 0

ContentInv == LayoutInv /\ SlotInv /\ ReadInv

\* The smaller one of two numbers, of what a slot has left and the buffer has room for.
LEMMA MinOfTwo ==
  ASSUME NEW a \in Int, NEW b \in Int
  PROVE  Min({a, b}) \in {a, b} /\ Min({a, b}) <= a /\ Min({a, b}) <= b
<1>1. \E x \in {a, b} : \A y \in {a, b} : x <= y
  <2>1. CASE a <= b
    BY <2>1
  <2>2. CASE ~(a <= b)
    BY <2>2
  <2> QED BY <2>1, <2>2
<1>2. Min({a, b}) \in {a, b} /\ \A y \in {a, b} : Min({a, b}) <= y
  BY <1>1 DEF Min
<1> QED BY <1>2

\* A disk that was just created has given nothing, and none is mapped.
LEMMA ContentBegins == Closed => ContentInv
<1> SUFFICES ASSUME Closed PROVE ContentInv
  OBVIOUS
<1>1. /\ opened.layout = <<>> /\ opened.size = 0 /\ layout = <<>> /\ mapped = 0 /\ mapDone = FALSE
      /\ pos = 0 /\ want = 0 /\ buf = <<>> /\ out = <<>> /\ ahead = <<>> /\ outcome = "closed"
  BY DEF Closed, Refused
<1>2. Range(<<>>) = {} /\ <<>> \in Seq({}) /\ Len(<<>>) = 0
  BY DEF Range
<1>3. IsLayout(<<>>)
  BY <1>2 DEF IsLayout
<1>4. LayoutInv
  BY <1>1, <1>2, <1>3, EndsStep DEF LayoutInv, Given
<1>5. SlotInv
  BY <1>1, <1>2 DEF SlotInv, Chain, Reached
<1>6. ReadInv
  BY <1>1, <1>2 DEF ReadInv, Shown
<1> QED BY <1>4, <1>5, <1>6 DEF ContentInv

\* A format has opened its file.
LEMMA ContentOpens ==
  ASSUME ContentInv, TypeInv, NEW result, IsLayout(result.layout), result.size \in Nat, Opening(result)
  PROVE  ContentInv'
<1>1. /\ outcome = "closed" /\ opened' = result /\ layout' = result.layout /\ mapDone' = (result.size = 0)
      /\ UNCHANGED <<pos, out, want, buf, mapped, ahead>>
      /\ outcome' \in {"reading", "failed"}
  BY DEF Opening, read
<1>2. /\ pos = 0 /\ want = 0 /\ ahead = <<>> /\ mapped = 0 /\ Len(out) = 0 /\ Len(buf) = 0
      /\ out \in Seq(Range(out)) /\ buf \in Seq(Range(buf))
  <2>1. pos = 0 /\ want = 0 /\ ahead = <<>> /\ mapped = 0
    BY <1>1 DEF ContentInv, ReadInv
  <2>2. Len(out) = 0 /\ Len(buf) <= 0 /\ Len(buf) \in Nat
    BY <2>1 DEF ContentInv, ReadInv
  <2> QED BY <2>1, <2>2 DEF ContentInv, ReadInv
<1>3. LayoutInv'
  <2>1. Len(result.layout) \in Nat /\ Ends(result.layout)[0] = 0
    BY EndsStep
  <2>2. Given' = 0
    BY <1>1, <2>1 DEF Given
  <2>3. \A i \in 1..Len(result.layout) : result.layout[i] = result.layout[0 + i]
    BY <2>1
  <2>4. \A i \in 1..Len(layout') : layout'[i] = opened'.layout[Given' + i]
    BY <1>1, <2>2, <2>3
  <2>5. mapped' = Ends(opened'.layout)[Given']
    BY <1>1, <1>2, <2>1, <2>2
  <2>6. mapDone' => mapped' >= opened'.size
    <3>1. mapped' = 0 /\ opened'.size = result.size /\ (mapDone' <=> result.size = 0)
      BY <1>1, <1>2
    <3> QED BY <3>1
  <2>7. Given' \in 0..Len(opened'.layout)
    BY <1>1, <2>1, <2>2
  <2> QED BY <1>1, <2>4, <2>5, <2>6, <2>7 DEF LayoutInv
<1>4. SlotInv'
  BY <1>1, <1>2 DEF SlotInv, Chain, Reached
<1>5. ReadInv'
  BY <1>1, <1>2 DEF ReadInv, Shown
<1> QED BY <1>3, <1>4, <1>5 DEF ContentInv

\* A step that neither maps nor reads anything.
LEMMA ContentStutters ==
  ASSUME ContentInv, UNCHANGED <<opened, read, map, ahead>>, outcome' \in {outcome, "failed", "panicked"}
  PROVE  ContentInv'
<1>1. UNCHANGED <<opened, pos, out, want, buf, layout, mapped, mapDone, ahead>>
  BY DEF read, map
<1>2. LayoutInv'
  BY <1>1 DEF ContentInv, LayoutInv, Given
<1>3. SlotInv'
  BY <1>1 DEF ContentInv, SlotInv, Reached
<1>4. ReadInv'
  BY <1>1 DEF ContentInv, ReadInv, Shown
<1> QED BY <1>2, <1>3, <1>4 DEF ContentInv

\* What is appended to the buffer is what the disk has next.
LEMMA BufferGrows ==
  ASSUME ReadInv, outcome = "reading", NEW n \in Nat, NEW cells, IsRow(cells, n),
         Len(buf) + n <= want,
         \A i \in 1..n : Shows(opened.src, opened.layout, Reached + i - 1, cells[i]),
         buf' = buf \o cells, UNCHANGED <<opened, pos, out, want, outcome>>
  PROVE  ReadInv' /\ Reached' = Reached + n
<1>1. /\ Len(buf) \in Nat /\ pos \in Nat /\ want \in Nat /\ buf \in Seq(Range(buf))
  BY DEF ReadInv
<1>2. cells \in Seq(Range(cells)) /\ Len(cells) = n
  <2>1. \A i \in 1..n : cells[i] \in Range(cells)
    BY DEF Range, IsRow
  <2>2. cells \in [1..n -> Range(cells)]
    BY <2>1 DEF IsRow
  <2>3. cells \in Seq(Range(cells))
    BY <2>2, SeqDef
  <2> QED BY <2>2, <2>3
<1>3. /\ buf' \in Seq(Range(buf) \cup Range(cells)) /\ Len(buf') = Len(buf) + n
      /\ \A i \in 1..Len(buf) + n : buf'[i] = IF i <= Len(buf) THEN buf[i] ELSE cells[i - Len(buf)]
  <2>1. buf \in Seq(Range(buf) \cup Range(cells)) /\ cells \in Seq(Range(buf) \cup Range(cells))
    BY <1>1, <1>2, SeqMonotonic
  <2> QED BY <1>2, <2>1, ConcatProperties
<1>4. buf' \in Seq(Range(buf'))
  BY <1>3, SeqOfRange
<1>5. ASSUME NEW i \in 1..Len(buf')
      PROVE  Shows(opened.src, opened.layout, pos + i - 1, buf'[i])
  <2>1. CASE i <= Len(buf)
    <3>1. i \in 1..Len(buf) /\ buf'[i] = buf[i]
      BY <1>1, <1>3, <2>1
    <3> QED BY <3>1 DEF ReadInv, Shown
  <2>2. CASE ~(i <= Len(buf))
    <3>1. i - Len(buf) \in 1..n /\ Reached + (i - Len(buf)) - 1 = pos + i - 1 /\ buf'[i] = cells[i - Len(buf)]
      BY <1>1, <1>3, <2>2 DEF Reached
    <3>2. Shows(opened.src, opened.layout, Reached + (i - Len(buf)) - 1, cells[i - Len(buf)])
      BY <3>1
    <3> QED BY <3>1, <3>2
  <2> QED BY <2>1, <2>2
<1>6. ReadInv'
  <2>1. Shown(out, 0)'
    BY DEF ReadInv, Shown
  <2>2. Shown(buf, pos)'
    BY <1>5 DEF Shown
  <2>3. Len(buf') <= want /\ outcome' = "reading"
    BY <1>3
  <2> QED BY <1>4, <2>1, <2>2, <2>3 DEF ReadInv
<1> QED BY <1>1, <1>3, <1>6 DEF Reached

\* Where the layout ended early, the rest of the buffer is filled with zeros (VDisk::read).
LEMMA NothingMappedReads ==
  ASSUME ContentInv, TypeInv, NothingMapped
  PROVE  ContentInv'
<1> DEFINE n == want - Len(buf)
           cells == [i \in 1..n |-> 0]
<1>1. /\ outcome = "reading" /\ Len(buf) < want /\ ahead = <<>> /\ ~MayFill
      /\ buf' = buf \o cells
      /\ UNCHANGED <<opened, pos, out, want, layout, mapped, mapDone, ahead, outcome>>
  BY DEF NothingMapped, Reading, map
<1>2. /\ pos \in Nat /\ want \in Nat /\ Len(buf) \in Nat /\ pos + want <= opened.size /\ opened.size \in Nat
      /\ mapped \in Nat
  BY DEF ContentInv, ReadInv, LayoutInv, TypeInv
<1>3. mapDone
  <2>1. Len(ahead) < MaxAhead
    BY <1>1, VDiskAssumption
  <2> QED BY <1>1, <2>1 DEF MayFill
<1>4. Reached \in Nat /\ Reached >= mapped /\ Reached < opened.size
  <2>1. Reached = mapped \/ Reached > mapped
    BY <1>1 DEF ContentInv, SlotInv, Chain
  <2> QED BY <1>1, <1>2, <2>1 DEF Reached
<1>5. layout = <<>>
  BY <1>2, <1>3, <1>4 DEF ContentInv, LayoutInv
<1>6. mapped = Ends(opened.layout)[Len(opened.layout)]
  <2>1. Given = Len(opened.layout)
    <3>1. Len(opened.layout) \in Nat
      BY EndsStep DEF ContentInv, LayoutInv
    <3> QED BY <1>5, <3>1 DEF Given
  <2> QED BY <2>1 DEF ContentInv, LayoutInv
<1>7. n \in Nat /\ Len(buf) + n <= want /\ n > 0
  BY <1>1, <1>2
<1>8. \A i \in 1..n : Shows(opened.src, opened.layout, Reached + i - 1, cells[i])
  <2> TAKE i \in 1..n
  <2>1. Reached + i - 1 \in Nat /\ mapped <= Reached + i - 1 /\ cells[i] = 0
    BY <1>2, <1>4, <1>7
  <2>2. IsLayout(opened.layout)
    BY DEF ContentInv, LayoutInv
  <2> QED BY <1>6, <2>1, <2>2, NothingShown
<1>9. IsRow(cells, n)
  BY DEF IsRow
<1> HIDE DEF n, cells
<1>10. ReadInv' /\ Reached' = Reached + n
  BY <1>1, <1>7, <1>8, <1>9, BufferGrows DEF ContentInv
<1>11. SlotInv'
  BY <1>1, <1>2, <1>3, <1>4, <1>7, <1>10 DEF SlotInv
<1>12. LayoutInv'
  BY <1>1 DEF ContentInv, LayoutInv, Given
<1> QED BY <1>10, <1>11, <1>12 DEF ContentInv

\* Reading of the front slot, whatever it is and however little of it the buffer takes
\* (VDisk::read).
LEMMA TakeSlotReads ==
  ASSUME ContentInv, TypeInv, TakeSlot
  PROVE  ContentInv'
<1> DEFINE slot == Head(ahead)
           n == Min({slot.len - slot.taken, want - Len(buf)})
           got == Decode(opened.src, slot)
           more == [slot EXCEPT !.decoded = TRUE, !.job = FALSE, !.taken = @ + n]
<1>1. /\ outcome = "reading" /\ Len(buf) < want /\ ahead # <<>>
      /\ \/ slot.run = "zeros" /\ Give([i \in 1..n |-> 0], Rest(slot, n))
         \/ slot.run = "stored" /\ Give(ReadAt(opened.src, slot.at, n), Rest(slot, n))
         \/ Fail
         \/ slot.run = "packed" /\ Give(Unpacked(got, slot.taken, n), more)
  BY DEF TakeSlot, Reading
<1>2. CASE Fail
  <2>1. outcome' = "failed" /\ UNCHANGED <<opened, read, map, ahead>>
    BY <1>2 DEF Fail
  <2> QED BY <2>1, ContentStutters
<1>3. /\ ahead \in Seq(Range(ahead)) /\ slot = ahead[1] /\ IsSlot(slot)
  <2>1. 1 \in 1..Len(ahead) /\ Head(ahead) = ahead[1] /\ ahead \in Seq(Range(ahead))
    BY <1>1 DEF TypeInv
  <2> QED BY <2>1 DEF TypeInv
<1>4. /\ pos \in Nat /\ want \in Nat /\ Len(buf) \in Nat /\ mapped \in Nat /\ Reached \in Nat
  BY DEF ContentInv, ReadInv, TypeInv, Reached
<1>5. Chain(opened, ahead, Reached, mapped)
  BY <1>1 DEF ContentInv, SlotInv
<1>6. /\ Holds(opened, slot, Reached) /\ LeftIn(slot) \in Nat
      /\ Chain(opened, Tail(ahead), Reached + LeftIn(slot), mapped)
  BY <1>1, <1>3, <1>4, <1>5, ChainTail
<1>7. n \in 1..LeftIn(slot) /\ n \in Nat /\ Len(buf) + n <= want
  <2>1. slot.len - slot.taken \in Int /\ slot.len - slot.taken > 0 /\ LeftIn(slot) = slot.len - slot.taken
    BY <1>6 DEF Holds, LeftIn
  <2>2. want - Len(buf) \in Int /\ want - Len(buf) > 0
    BY <1>1, <1>4
  <2> HIDE DEF slot
  <2>3. /\ n \in {slot.len - slot.taken, want - Len(buf)} /\ n <= slot.len - slot.taken /\ n <= want - Len(buf)
    BY <2>1, <2>2, MinOfTwo
  <2> HIDE DEF n
  <2> QED BY <1>4, <2>1, <2>2, <2>3
<1> HIDE DEF slot, n, got
<1>8. ASSUME NEW cells, NEW left, Give(cells, left), Copied(opened, slot, n, cells, left)
      PROVE  ContentInv'
  <2>1. /\ IsRow(cells, n)
        /\ \A i \in 1..n : Shows(opened.src, opened.layout, Reached + i - 1, cells[i])
        /\ LeftIn(left) = LeftIn(slot) - n
        /\ LeftIn(left) \in Nat /\ (left.len = left.taken <=> LeftIn(left) = 0)
        /\ left.len # left.taken => Holds(opened, left, Reached + n)
    <3>1. /\ IsSlot(slot) /\ Reached \in Nat /\ Holds(opened, slot, Reached) /\ n \in 1..LeftIn(slot)
          /\ Copied(opened, slot, n, cells, left)
      BY <1>3, <1>4, <1>6, <1>7, <1>8
    <3>2. IsRow(cells, n)
      BY ONLY <3>1, SlotRead
    <3>3. \A i \in 1..n : Shows(opened.src, opened.layout, Reached + i - 1, cells[i])
      BY ONLY <3>1, SlotRead
    <3>4. LeftIn(left) = LeftIn(slot) - n
      BY ONLY <3>1, SlotRead
    <3>5. LeftIn(left) \in Nat
      BY ONLY <3>1, SlotRead
    <3>6. (left.len = left.taken <=> LeftIn(left) = 0)
      BY ONLY <3>1, SlotRead
    <3>7. left.len # left.taken => Holds(opened, left, Reached + n)
      BY ONLY <3>1, SlotRead
    <3> QED BY <3>2, <3>3, <3>4, <3>5, <3>6, <3>7
  <2>2. /\ buf' = buf \o cells
        /\ ahead' = IF left.len = left.taken THEN Tail(ahead) ELSE <<left>> \o Tail(ahead)
        /\ UNCHANGED <<opened, pos, out, want, layout, mapped, mapDone, outcome>>
    BY <1>8 DEF Give, map
  <2>3. ReadInv' /\ Reached' = Reached + n
    BY <1>1, <1>7, <2>1, <2>2, BufferGrows DEF ContentInv
  <2>4. Chain(opened, ahead', Reached + n, mapped)
    <3>1. CASE left.len = left.taken
      <4>1. n = LeftIn(slot)
        BY <1>6, <1>7, <2>1, <3>1
      <4> QED BY <1>6, <2>2, <3>1, <4>1
    <3>2. CASE left.len # left.taken
      BY <1>1, <1>3, <1>4, <1>5, <1>7, <2>1, <2>2, <3>2, ChainRead
    <3> QED BY <3>1, <3>2
  <2>5. SlotInv'
    BY <2>2, <2>3, <2>4 DEF SlotInv
  <2>6. LayoutInv'
    BY <2>2 DEF ContentInv, LayoutInv, Given
  <2> QED BY <2>3, <2>5, <2>6 DEF ContentInv
<1>9. CASE slot.run = "zeros" /\ Give([i \in 1..n |-> 0], Rest(slot, n))
  BY <1>8, <1>9 DEF Copied
<1>10. CASE slot.run = "stored" /\ Give(ReadAt(opened.src, slot.at, n), Rest(slot, n))
  BY <1>8, <1>10 DEF Copied
<1>11. CASE slot.run = "packed" /\ Give(Unpacked(got, slot.taken, n), more)
  BY <1>8, <1>11 DEF got, Copied
<1> QED BY <1>1, <1>2, <1>9, <1>10, <1>11 DEF slot, n, got

\* The layout gives its next piece: that is what the disk has behind what was mapped.
LEMMA LayoutGives ==
  ASSUME LayoutInv, TypeInv, layout # <<>>, layout' = Tail(layout), UNCHANGED opened,
         mapped' = mapped + Head(layout).len, mapDone' => mapped' >= opened.size
  PROVE  /\ LayoutInv' /\ IsPiece(Head(layout))
         /\ \A k \in 0..Head(layout).len - 1 :
              Shows(opened.src, opened.layout, mapped + k, CellOf(opened.src, Head(layout), k))
<1> DEFINE piece == Head(layout)
           all == opened.layout
           g == Given
           t == Tail(layout)
<1>1. /\ Len(layout) \in Nat \ {0} /\ piece = layout[1] /\ 1 \in 1..Len(layout)
      /\ Len(t) = Len(layout) - 1 /\ \A i \in 1..Len(t) : t[i] = layout[i + 1]
  <2>1. layout \in Seq(Range(layout))
    BY DEF TypeInv, IsLayout
  <2> QED BY <2>1
<1>2. /\ IsLayout(all) /\ Len(all) \in Nat /\ g \in 0..Len(all) /\ g = Len(all) - Len(layout)
      /\ mapped = Ends(all)[g] /\ opened.size \in Nat
      /\ \A i \in 1..Len(layout) : layout[i] = all[g + i]
  BY EndsStep DEF LayoutInv, Given
<1>3. g + 1 \in 1..Len(all) /\ g = (g + 1) - 1 /\ g + 1 \in 0..Len(all)
  BY <1>1, <1>2
<1>4. piece = all[g + 1] /\ IsPiece(piece)
  BY <1>1, <1>2, <1>3 DEF IsLayout
<1> HIDE DEF g, t
<1>5. Given' = g + 1
  <2>1. Len(layout') = Len(layout) - 1
    BY <1>1 DEF t
  <2>2. Given' = Len(all) - Len(layout')
    BY DEF Given
  <2> QED BY <1>1, <1>2, <2>1, <2>2
<1>6. mapped' = Ends(all)[g + 1]
  <2>1. Ends(all)[g + 1] = Ends(all)[(g + 1) - 1] + all[g + 1].len
    BY <1>2, <1>3, EndsStep
  <2> QED BY <1>2, <1>3, <1>4, <2>1
<1>7. \A i \in 1..Len(t) : t[i] = all[g + 1 + i]
  <2> TAKE i \in 1..Len(t)
  <2>1. i \in Nat /\ i >= 1 /\ i <= Len(layout) - 1 /\ g \in Nat /\ Len(layout) \in Nat
    BY <1>1, <1>2
  <2>2. i + 1 \in 1..Len(layout) /\ g + (i + 1) = g + 1 + i
    BY ONLY <2>1
  <2>3. t[i] = layout[i + 1]
    BY <1>1
  <2> QED BY <1>2, <2>2, <2>3
<1>8. LayoutInv'
  <2>1. \A i \in 1..Len(layout') : layout'[i] = opened'.layout[Given' + i]
    BY <1>5, <1>7 DEF t
  <2>2. mapped' = Ends(opened'.layout)[Given'] /\ Given' \in 0..Len(opened'.layout)
    BY <1>3, <1>5, <1>6
  <2> QED BY <1>2, <2>1, <2>2 DEF LayoutInv
<1>9. \A k \in 0..piece.len - 1 : Shows(opened.src, all, mapped + k, CellOf(opened.src, piece, k))
  <2> TAKE k \in 0..piece.len - 1
  <2>1. k \in Nat /\ k < all[g + 1].len
    BY <1>4 DEF IsPiece
  <2>2. Shows(opened.src, all, Ends(all)[(g + 1) - 1] + k, CellOf(opened.src, all[g + 1], k))
    BY <1>2, <1>3, <2>1, PieceShown
  <2> QED BY <1>2, <1>3, <1>4, <2>2
<1> QED BY <1>4, <1>8, <1>9

\* What is mapped ahead has the cells that the layout says, in a slot of its own or in a
\* neighbour that was grown (VDisk::fill, VDisk::push).
LEMMA FillReads ==
  ASSUME ContentInv, TypeInv, Fill
  PROVE  ContentInv'
<1>1. /\ outcome = "reading" /\ ~mapDone
      /\ mapped \in Nat /\ Reached \in Nat /\ ahead \in Seq(Range(ahead))
  BY DEF Fill, Reading, MayFill, ContentInv, ReadInv, TypeInv, Reached
<1>2. Chain(opened, ahead, Reached, mapped)
  BY <1>1 DEF ContentInv, SlotInv
<1>3. CASE layout = <<>>
  <2>1. mapDone' = TRUE /\ UNCHANGED <<opened, pos, out, want, buf, layout, mapped, ahead, outcome>>
    BY <1>3 DEF Fill, read
  <2>2. LayoutInv'
    BY <1>3, <2>1 DEF ContentInv, LayoutInv, Given
  <2>3. SlotInv'
    BY <1>2, <2>1 DEF SlotInv, Reached
  <2>4. ReadInv'
    BY <2>1 DEF ContentInv, ReadInv, Shown
  <2> QED BY <2>2, <2>3, <2>4 DEF ContentInv
<1>4. CASE layout # <<>>
  <2> DEFINE piece == Head(layout)
  <2>1. \/ Fail
        \/ piece.len = 0 /\ Skip
        \/ /\ piece.len # 0 /\ Push(piece) /\ layout' = Tail(layout)
           /\ mapped' = mapped + piece.len /\ mapDone' = (mapped' >= opened.size)
           /\ UNCHANGED <<opened, read, outcome>>
    BY <1>4 DEF Fill
  <2>2. CASE Fail
    <3>1. outcome' = "failed" /\ UNCHANGED <<opened, read, map, ahead>>
      BY <2>2 DEF Fail
    <3> QED BY <3>1, ContentStutters
  <2>3. CASE piece.len = 0 /\ Skip
    <3>1. Fail \/ (layout' = Tail(layout) /\ UNCHANGED <<opened, read, mapped, mapDone, ahead, outcome>>)
      BY <2>3 DEF Skip
    <3>2. CASE layout' = Tail(layout) /\ UNCHANGED <<opened, read, mapped, mapDone, ahead, outcome>>
      <4>1. /\ UNCHANGED <<opened, pos, out, want, buf, mapped, mapDone, ahead, outcome>>
            /\ mapped' = mapped + piece.len /\ ~mapDone'
        BY <1>1, <2>3, <3>2 DEF read
      <4>2. LayoutInv'
        BY <1>4, <3>2, <4>1, LayoutGives DEF ContentInv
      <4>3. SlotInv'
        BY <1>2, <4>1 DEF SlotInv, Reached
      <4>4. ReadInv'
        BY <4>1 DEF ContentInv, ReadInv, Shown
      <4> QED BY <4>2, <4>3, <4>4 DEF ContentInv
    <3> QED BY <2>2, <3>1, <3>2
  <2>4. CASE /\ piece.len # 0 /\ Push(piece) /\ layout' = Tail(layout)
             /\ mapped' = mapped + piece.len /\ mapDone' = (mapped' >= opened.size)
             /\ UNCHANGED <<opened, read, outcome>>
    <3>1. UNCHANGED <<opened, pos, out, want, buf, outcome>>
      BY <2>4 DEF read
    <3>2. /\ LayoutInv' /\ IsPiece(piece)
          /\ \A k \in 0..piece.len - 1 :
               Shows(opened.src, opened.layout, mapped + k, CellOf(opened.src, piece, k))
      BY <1>4, <2>4, LayoutGives DEF ContentInv
    <3> HIDE DEF piece
    <3>3. Chain(opened, ahead', Reached, mapped + piece.len)
      <4>1. CASE ahead # <<>> /\ Merges(Last(ahead), piece)
        <5>1. ahead' = [ahead EXCEPT ![Len(ahead)].len = @ + piece.len]
          BY <2>4, <4>1 DEF Push
        <5>2. Merges(ahead[Len(ahead)], piece) /\ \A i \in 1..Len(ahead) : IsSlot(ahead[i])
          BY <4>1 DEF Last, TypeInv
        <5>3. Chain(opened, [ahead EXCEPT ![Len(ahead)].len = @ + piece.len], Reached, mapped + piece.len)
          BY <1>1, <1>2, <3>2, <4>1, <5>2, ChainMerged
        <5> QED BY <5>1, <5>3
      <4>2. CASE ~(ahead # <<>> /\ Merges(Last(ahead), piece))
        <5>1. PICK task \in BOOLEAN : ahead' = Append(ahead, Slot(piece, mapped, task))
          BY <2>4, <4>2 DEF Push
        <5> DEFINE s == Slot(piece, mapped, task)
        <5>2. Holds(opened, s, mapped) /\ LeftIn(s) = piece.len /\ s.start = mapped
          BY <2>4, <3>2, NewSlotHolds
        <5> HIDE DEF s
        <5>3. Chain(opened, Append(ahead, s), Reached, mapped + LeftIn(s))
          BY <1>1, <1>2, <5>2, ChainLonger
        <5> QED BY <5>1, <5>2, <5>3 DEF s
      <4> QED BY <4>1, <4>2
    <3>4. SlotInv'
      BY <2>4, <3>1, <3>3 DEF SlotInv, Reached
    <3>5. ReadInv'
      BY <1>1, <3>1 DEF ContentInv, ReadInv, Shown
    <3> QED BY <3>2, <3>4, <3>5 DEF ContentInv
  <2> QED BY <2>1, <2>2, <2>3, <2>4
<1> QED BY <1>3, <1>4

\* A call asks for no more than the disk has left, and finds its end there (VDisk::read).
LEMMA CallReads ==
  ASSUME ContentInv, NEW len \in Buffers, Call(len)
  PROVE  ContentInv'
<1>1. /\ outcome = "reading" /\ want = 0
      /\ \/ pos = opened.size /\ outcome' = "ended" /\ UNCHANGED want
         \/ pos # opened.size /\ want' = Min({len, opened.size - pos}) /\ UNCHANGED outcome
      /\ UNCHANGED <<opened, pos, out, buf, layout, mapped, mapDone, ahead>>
  BY DEF Call, map
<1>2. /\ pos \in Nat /\ opened.size \in Nat /\ pos <= opened.size /\ len \in Nat
      /\ Len(buf) \in Nat /\ Len(buf) = 0
  BY <1>1, VDiskAssumption DEF ContentInv, ReadInv, LayoutInv
<1>3. want' \in Nat /\ pos + want' <= opened.size
  <2>1. CASE pos = opened.size
    BY <1>1, <1>2, <2>1
  <2>2. CASE pos # opened.size
    <3>1. opened.size - pos \in Nat /\ want' = Min({len, opened.size - pos})
      BY <1>1, <1>2, <2>2
    <3> DEFINE left == opened.size - pos
    <3>2. left \in Int /\ len \in Int
      BY <1>2, <3>1
    <3> HIDE DEF left
    <3>3. Min({len, left}) \in {len, left} /\ Min({len, left}) <= left
      BY <3>2, MinOfTwo
    <3>4. want' \in {len, left} /\ want' <= left
      BY <3>1, <3>3 DEF left
    <3> QED BY <1>2, <3>1, <3>4 DEF left
  <2> QED BY <2>1, <2>2
<1>4. ReadInv'
  BY <1>1, <1>2, <1>3 DEF ContentInv, ReadInv, Shown
<1>5. LayoutInv'
  BY <1>1 DEF ContentInv, LayoutInv, Given
<1>6. SlotInv'
  BY <1>1 DEF ContentInv, SlotInv, Reached
<1> QED BY <1>4, <1>5, <1>6 DEF ContentInv

\* What the call returns goes behind what the earlier ones returned (VDisk::read).
LEMMA ReturnReads ==
  ASSUME ContentInv, Return
  PROVE  ContentInv'
<1>1. CASE Fail
  <2>1. outcome' = "failed" /\ UNCHANGED <<opened, read, map, ahead>>
    BY <1>1 DEF Fail
  <2> QED BY <2>1, ContentStutters
<1>2. CASE ~Fail
  <2>1. /\ outcome = "reading" /\ Len(buf) = want /\ out' = out \o buf /\ pos' = pos + want /\ want' = 0
        /\ buf' = <<>>
        /\ UNCHANGED <<opened, layout, mapped, mapDone, ahead, outcome>>
    BY <1>2 DEF Return, map
  <2>2. /\ pos \in Nat /\ want \in Nat /\ Len(out) = pos /\ Len(out) \in Nat /\ Len(buf) \in Nat
        /\ out \in Seq(Range(out)) /\ buf \in Seq(Range(buf)) /\ pos + want <= opened.size
        /\ opened.size \in Nat
    BY DEF ContentInv, ReadInv, LayoutInv
  <2>3. /\ out' \in Seq(Range(out) \cup Range(buf)) /\ Len(out') = pos + want
        /\ \A i \in 1..pos + want : out'[i] = IF i <= pos THEN out[i] ELSE buf[i - pos]
    <3>1. out \in Seq(Range(out) \cup Range(buf)) /\ buf \in Seq(Range(out) \cup Range(buf))
      BY <2>2, SeqMonotonic
    <3> QED BY <2>1, <2>2, <3>1, ConcatProperties
  <2>4. out' \in Seq(Range(out'))
    BY <2>3, SeqOfRange
  <2>5. ASSUME NEW i \in 1..Len(out')
        PROVE  Shows(opened.src, opened.layout, 0 + i - 1, out'[i])
    <3>1. CASE i <= pos
      <4>1. i \in 1..Len(out) /\ out'[i] = out[i]
        BY <2>2, <2>3, <3>1
      <4> QED BY <4>1 DEF ContentInv, ReadInv, Shown
    <3>2. CASE ~(i <= pos)
      <4>1. i - pos \in 1..Len(buf) /\ pos + (i - pos) - 1 = 0 + i - 1 /\ out'[i] = buf[i - pos]
        BY <2>1, <2>2, <2>3, <3>2
      <4>2. Shows(opened.src, opened.layout, pos + (i - pos) - 1, buf[i - pos])
        BY <4>1 DEF ContentInv, ReadInv, Shown
      <4> QED BY <4>1, <4>2
    <3> QED BY <3>1, <3>2
  <2>6. /\ Range(<<>>) = {} /\ <<>> \in Seq({}) /\ Len(<<>>) = 0
    BY DEF Range
  <2>7. ReadInv'
    <3>1. Shown(out, 0)'
      BY <2>1, <2>5 DEF Shown
    <3>2. Shown(buf, pos)'
      BY <2>1, <2>6 DEF Shown
    <3>3. {pos', want'} \subseteq Nat /\ Len(out') = pos' /\ Len(buf') <= want' /\ pos' + want' <= opened'.size
      BY <2>1, <2>2, <2>3, <2>6
    <3>4. buf' \in Seq(Range(buf')) /\ outcome' = "reading"
      BY <2>1, <2>6
    <3> QED BY <2>4, <3>1, <3>2, <3>3, <3>4 DEF ReadInv
  <2>8. SlotInv'
    <3>1. Reached' = Reached
      BY <2>1, <2>2, <2>6 DEF Reached
    <3> QED BY <2>1, <3>1 DEF ContentInv, SlotInv
  <2>9. LayoutInv'
    BY <2>1 DEF ContentInv, LayoutInv, Given
  <2> QED BY <2>7, <2>8, <2>9 DEF ContentInv
<1> QED BY <1>1, <1>2

\* Whatever order the blocks are decoded in, whichever threads panic and however the cells
\* are split over pieces, slots and buffers, each one is read with what the layout has there,
\* and all of them by the time the reads end: for every layout that a format may give.
THEOREM ContentHolds == Closed /\ [][Steps]_stream => []ReadsTheLayout
<1>1. Closed => IInv /\ ContentInv
  BY Begins, ContentBegins
<1>2. IInv /\ ContentInv /\ [Steps]_stream => ContentInv'
  <2> SUFFICES ASSUME IInv, ContentInv, [Steps]_stream
               PROVE  ContentInv'
    OBVIOUS
  <2>1. TypeInv
    BY DEF IInv
  <2>2. ASSUME NEW result, IsLayout(result.layout), result.size \in Nat, Opening(result)
        PROVE  ContentInv'
    BY <2>1, <2>2, ContentOpens
  <2>3. CASE Reader
    <3>1. CASE Fill
      BY <2>1, <3>1, FillReads
    <3>2. CASE NothingMapped
      BY <2>1, <3>2, NothingMappedReads
    <3>3. CASE TakeSlot
      BY <2>1, <3>3, TakeSlotReads
    <3>4. CASE Return
      BY <3>4, ReturnReads
    <3>5. CASE \E len \in Buffers : Call(len)
      BY <3>5, CallReads
    <3> QED BY <2>3, <3>1, <3>2, <3>3, <3>4, <3>5 DEF Reader
  <2>4. CASE Threads
    <3>1. UNCHANGED <<opened, read, map, ahead>> /\ outcome' = outcome
      BY <2>4 DEF Threads, TakeJob, Reply, Dies, Stops, OnlyPool
    <3> QED BY <3>1, ContentStutters
  <2>5. CASE UNCHANGED stream
    <3>1. UNCHANGED <<opened, read, map, ahead>> /\ outcome' = outcome
      BY <2>5 DEF stream
    <3> QED BY <3>1, ContentStutters
  <2>6. CASE ReaderPanics
    <3>1. UNCHANGED <<opened, read, map, ahead>> /\ outcome' = "panicked"
      BY <2>6 DEF ReaderPanics
    <3> QED BY <3>1, ContentStutters
  <2> QED BY <2>2, <2>3, <2>4, <2>5, <2>6 DEF Steps
<1>3. ContentInv => ReadsTheLayout
  <2> SUFFICES ASSUME ContentInv PROVE ReadsTheLayout
    OBVIOUS
  <2>1. DOMAIN out = 1..Len(out)
    BY DEF ContentInv, ReadInv
  <2>2. \A i \in DOMAIN out : Shows(opened.src, opened.layout, i - 1, out[i])
    <3> TAKE i \in DOMAIN out
    <3>1. i \in 1..Len(out) /\ 0 + i - 1 = i - 1
      BY <2>1 DEF ContentInv, ReadInv
    <3> QED BY <3>1 DEF ContentInv, ReadInv, Shown
  <2>3. outcome = "ended" => Len(out) = opened.size
    BY DEF ContentInv, ReadInv
  <2> QED BY <2>2, <2>3 DEF ReadsTheLayout
<1>4. IInv /\ [Steps]_stream => IInv'
  BY StepsKeep
<1> QED BY <1>1, <1>2, <1>3, <1>4, PTL

-------------------------------------------------------------------------------
(* The window's scans *)

\* What a scan sees is a list.
LEMMA ListType == TypeOK => List \in Listed
  BY DEF TypeOK, List, Listed, Entries

\* A scan that came through has brought a list.
LEMMA ResultType ==
  ASSUME NEW t \in Scans, t.step = "done", t.ok
  PROVE  t.list \in Listed
  BY DEF Scans, Idle, Asking, Failed, Got

\* drives_loaded leaves an entry of the new list, or none, chosen.
LEMMA KeptType ==
  ASSUME TypeOK, NEW list \in Listed
  PROVE  Kept(list) \in Listed
  BY DEF Kept, TypeOK, Listed

\* A scan of the current list ends up as one of the results a thread can hold.
LEMMA ScanType == TypeOK => {Got(List), Failed} \subseteq Scans
  BY ListType DEF Scans

\* The variables hold what State's fields and the threads' results can be.
THEOREM TypeCorrect == Spec => []TypeOK
<1>1. Init => TypeOK
  <2> SUFFICES ASSUME Init PROVE TypeOK
    OBVIOUS
  <2>1. plugged \in Sticks \cup {None} /\ mounted \in BOOLEAN
    BY DEF Init
  <2>2. changes \in 0..MaxChanges
    BY ChoiceAssumption DEF Init
  <2>3. {drives, chosen, picked, asked, dialog, job} \subseteq Listed
    BY DEF Init, Listed
  <2>4. load \in Scans /\ check \in Scans
    BY DEF Init, Scans
  <2> QED
    BY <2>1, <2>2, <2>3, <2>4 DEF TypeOK
<1>2. TypeOK /\ [Next]_vars => TypeOK'
  <2> SUFFICES ASSUME TypeOK, [Next]_vars PROVE TypeOK'
    OBVIOUS
  <2>1. CASE Change
    <3>1. plugged' \in Sticks \cup {None} /\ mounted' \in BOOLEAN
      BY <2>1 DEF Change
    <3>2. changes' \in 0..MaxChanges
      BY <2>1, ChoiceAssumption DEF Change, TypeOK
    <3> QED
      BY <2>1, <3>1, <3>2 DEF Change, TypeOK
  <2>2. CASE LoadScans
    BY <2>2, ScanType DEF LoadScans, world, TypeOK
  <2>3. CASE CheckScans
    BY <2>3, ScanType DEF CheckScans, world, TypeOK
  <2>4. CASE LoadDrives
    BY <2>4 DEF LoadDrives, world, TypeOK, Scans
  <2>5. CASE DrivesLoaded
    <3>1. load' \in Scans
      BY <2>5 DEF DrivesLoaded, Scans
    <3>2. load.ok => load.list \in Listed /\ Kept(load.list) \in Listed
      BY <2>5, ResultType, KeptType DEF DrivesLoaded, TypeOK
    <3>3. {chosen', drives'} \subseteq Listed
      BY <2>5, <3>2 DEF DrivesLoaded, TypeOK
    <3> QED
      BY <2>5, <3>1, <3>3 DEF DrivesLoaded, world, TypeOK
  <2>6. CASE PickDrive
    BY <2>6 DEF PickDrive, world, TypeOK
  <2>7. CASE Start
    BY <2>7 DEF Start, world, TypeOK, Scans
  <2>8. CASE Rechecked
    <3>1. check' \in Scans
      BY <2>8 DEF Rechecked, Checked, Scans
    <3>2. check.ok => check.list \in Listed
      BY <2>8, ResultType DEF Rechecked, TypeOK
    <3>3. {drives', chosen', dialog'} \subseteq Listed
      BY <2>8, <3>2 DEF Rechecked, TypeOK, Listed
    <3> QED
      BY <2>8, <3>1, <3>3 DEF Rechecked, world, TypeOK
  <2>9. CASE Dismiss
    BY <2>9 DEF Dismiss, world, TypeOK, Listed
  <2>10. CASE Confirm
    BY <2>10 DEF Confirm, world, TypeOK, Listed
  <2>11. CASE UNCHANGED vars
    BY <2>11 DEF vars, world, TypeOK
  <2> QED
    BY <2>1, <2>2, <2>3, <2>4, <2>5, <2>6, <2>7, <2>8, <2>9, <2>10, <2>11 DEF Next
<1> QED
  BY <1>1, <1>2, PTL DEF Spec

\* A chosen drive is the one the current list shows for its path until a job has started,
\* however the results of load_drives and of the check before a start cross.
THEOREM ChosenStaysListed == Spec => []ChosenIsListed
<1>1. TypeOK /\ Init => ChosenIsListed
  BY DEF Init, ChosenIsListed
<1>2. ChosenIsListed /\ TypeOK' /\ [Next]_vars => ChosenIsListed'
  <2> SUFFICES ASSUME ChosenIsListed, TypeOK', [Next]_vars, job' = None, chosen' # None
               PROVE  chosen' = drives'
    BY DEF ChosenIsListed
  <2>1. CASE Change \/ LoadScans \/ CheckScans \/ LoadDrives \/ Start \/ Dismiss \/ UNCHANGED vars
    BY <2>1 DEF Change, LoadScans, CheckScans, LoadDrives, Start, Dismiss, vars, ChosenIsListed
  <2>2. CASE DrivesLoaded
    <3>1. CASE load.ok
      <4>1. chosen' = Kept(load.list) /\ drives' = load.list /\ job = None
        BY <2>2, <3>1 DEF DrivesLoaded
      <4> QED
        BY <4>1 DEF Kept
    <3> QED
      BY <2>2, <3>1 DEF DrivesLoaded, ChosenIsListed
  <2>3. CASE PickDrive
    BY <2>3 DEF PickDrive
  <2>4. CASE Rechecked
    BY <2>4 DEF Rechecked, ChosenIsListed
  <2>5. CASE Confirm
    BY <2>5 DEF Confirm, Busy, ChosenIsListed
  <2> QED
    BY <2>1, <2>2, <2>3, <2>4, <2>5 DEF Next
<1> QED
  BY <1>1, <1>2, TypeCorrect, PTL DEF Spec

-----------------------------------------------------------------------------
(* What a volume's reader answers *)

\* What a volume's life does to what is on the disk and in memory.
LEMMA LifeSteps ==
  ASSUME NextVolume
  PROVE  /\ kind' = kind /\ leftover' = leftover /\ known' = known
         /\ \/ disk' = disk /\ mem' = Mounted(kind, disk) /\ phase = "idle" /\ phase' = "mounted" /\ whole /\ whole' = whole
            \/ disk' = disk /\ mem' \in Changes(kind, mem) /\ phase = "mounted" /\ phase' = phase /\ whole' = whole
            \/ mem' = mem /\ disk' \in Flushed(kind, disk, mem) /\ phase # "idle" /\ phase' = phase /\ whole' = whole
            \/ disk' = disk /\ disk = mem /\ mem' = Unmounted(kind, mem) /\ phase = "mounted" /\ phase' = "closing" /\ whole' = whole
            \/ disk' = disk /\ disk = mem /\ mem' = mem /\ phase = "closing" /\ phase' = "idle" /\ whole' = whole
            \/ disk' = disk /\ mem' = disk /\ phase # "idle" /\ phase' = "idle" /\ whole' = FALSE
            \/ disk' \in Damages(kind, disk) /\ mem' = disk' /\ phase = "idle" /\ phase' = "idle" /\ whole /\ whole' = FALSE
BY DEF NextVolume, Mount, Edit, Flush, Unmount, Eject, Unplug, Damage

\* The same, of one volume at a time.
LEMMA LifeWrites ==
  ASSUME NextVolume
  PROVE  /\ kind' = kind /\ leftover' = leftover /\ known' = known
         /\ disk' = disk \/ disk' \in Flushed(kind, disk, mem) \/ disk' \in Damages(kind, disk)
         /\ mem' \in {mem, disk, disk', Mounted(kind, disk), Unmounted(kind, mem)} \cup Changes(kind, mem)
BY LifeSteps

\* What holds of any volume.
Lifecycle ==
  /\ kind \in FileSystems /\ leftover \in Leftovers
  /\ phase \in {"idle", "mounted", "closing"}
  /\ phase = "idle" => mem = disk
  /\ whole \in BOOLEAN /\ (phase # "idle" => whole)

\* A drive that is looked at is not in use: what is in a driver's memory is what is
\* on the disk, and a driver never outlives the loss of its volume.
LEMMA LifecycleHolds == SpecVolume => []Lifecycle
<1>1. InitVolume => Lifecycle
  BY KindsAssumption DEF InitVolume, Lifecycle
<1>2. Lifecycle /\ [NextVolume]_volumeVars => Lifecycle'
  <2> SUFFICES ASSUME Lifecycle, [NextVolume]_volumeVars
               PROVE  Lifecycle'
    OBVIOUS
  <2>1. CASE UNCHANGED volumeVars
    BY <2>1 DEF Lifecycle, volumeVars
  <2>2. CASE NextVolume
    BY <2>2 DEF Lifecycle, NextVolume, Mount, Edit, Flush, Unmount, Eject, Unplug, Damage
  <2> QED BY <2>1, <2>2
<1> QED BY <1>1, <1>2, PTL DEF SpecVolume

\* A reader's answer keeps some cells: it calls them used, or it ends before them.
Keeps(usage, needed) ==
  needed \subseteq (usage.used \cap Cells) \cup (IF usage.end < Size THEN usage.end ELSE Size)..(Size - 1)

\* A partition keeps what a system needs when its reader keeps what its file system
\* needs: with something else on the partition nothing is left out.
LEMMA KeepsIsEnough ==
  ASSUME Lifecycle,
         phase = "idle" /\ Read(kind, disk, Copy).ok => Keeps(Read(kind, disk, Copy), NeedOf(kind, disk))
  PROVE  UnderstoodIsEnough
<1> SUFFICES ASSUME phase = "idle", Partition(Copy).understood
             PROVE  Need \subseteq Partition(Copy).used
  BY DEF UnderstoodIsEnough
<1> DEFINE usage == Read(kind, disk, Copy)
           end == IF usage.end < Size THEN usage.end ELSE Size
<1>1. /\ ~(leftover \in {"unreadable", "far", "raid", "other"} \/ Cardinality(Strong) > 1
           \/ (leftover = "strong" /\ kind \in Weak) \/ ~usage.ok)
      /\ Partition(Copy).used = (usage.used \cap Cells) \cup Span(0, HeadKept) \cup end..(Size - 1)
  BY DEF Partition, PartitionOf, InFull
<1>2. leftover # "strong"
  <2> SUFFICES ASSUME leftover = "strong" PROVE FALSE
    OBVIOUS
  <2>1. kind \notin Weak /\ Strong = {kind} \cup {"strong"}
    BY <1>1 DEF Strong
  <2>2. kind # "strong"
    BY DEF Lifecycle, FileSystems
  <2>3. ~(Cardinality(Strong) > 1)
    BY <1>1
  <2>4. Cardinality({kind} \cup {"strong"}) = 2
    <3>1. IsFiniteSet({kind}) /\ Cardinality({kind}) = 1
      BY FS_Singleton
    <3>2. "strong" \notin {kind}
      BY <2>2
    <3>3. Cardinality({kind} \cup {"strong"}) = Cardinality({kind}) + 1
      BY <3>1, <3>2, FS_AddElement
    <3> QED BY <3>1, <3>3
  <2> DEFINE n == Cardinality(Strong)
  <2>5. n = 2
    BY <2>1, <2>4
  <2>6. ~(n > 1)
    BY <2>3
  <2> HIDE DEF n
  <2> QED BY <2>5, <2>6
<1> QED BY <1>1, <1>2 DEF Keeps, Need, Lifecycle, Leftovers

\* Numbers that are not above a bound have a greatest among them.
LEMMA GreatestExists ==
  ASSUME NEW N \in Nat, NEW S, S \subseteq 0..N, S # {}
  PROVE  \E x \in S : \A y \in S : y <= x
<1> DEFINE T == {N - x : x \in S}
<1>1. T \subseteq Nat /\ T # {}
  <2>1. \A x \in S : x \in Int /\ N - x \in Nat
    OBVIOUS
  <2>2. PICK x \in S : TRUE
    OBVIOUS
  <2> QED BY <2>1, <2>2
<1>2. PICK t \in T : \A u \in T : t <= u
  BY <1>1, Minimum
<1>3. PICK x \in S : t = N - x
  OBVIOUS
<1>4. \A y \in S : N - x <= N - y
  BY <1>2, <1>3
<1>5. \A y \in S : y <= x
  BY <1>4
<1> QED BY <1>5

(* FAT *)

\* A FAT that is taken for one has entries of the width its driver reads.
FatVolume(d) ==
  LET b == d.bpb
  IN  /\ DOMAIN d = {"bpb", "width", "dirty", "fat"}
      /\ {b.reserved, b.fatLen, b.root, b.total, b.spc} \subseteq Nat
      /\ b.spc > 0 /\ b.fats = 2
      /\ FatGeometry(b) => FatBits(b) = d.width

\* As many whole parts as fit.
LEMMA WholeParts ==
  ASSUME NEW n \in Nat, NEW k \in Nat, k > 0
  PROVE  /\ n \div k \in Nat
         /\ (n \div k) * k <= n
BY Z3

\* What is kept of a FAT it understands (fat.rs read): the metadata, the clusters any
\* copy of the FAT has in use, and what is past the volume.
LEMMA FatKeeps ==
  ASSUME NEW d, FatVolume(d), FatRead(d, Copy).ok
  PROVE  Keeps(FatRead(d, Copy), FatNeed(d))
<1> DEFINE b == d.bpb
           c == FatClusters(b)
           m == FatMeta(b)
           inUse == {n \in FatNumbers(b) : FatInUse(d, n)}
<1>1. /\ {b.reserved, b.fatLen, b.root, b.total, b.spc} \subseteq Nat
      /\ b.spc > 0 /\ b.fats = 2
  BY DEF FatVolume
<1>2. FatGeometry(b) /\ FatBits(b) = d.width
  BY DEF FatVolume, FatRead, Result, Bad
<1>3. m \in Nat /\ b.total > m /\ b.total <= Size
  BY <1>1, <1>2 DEF FatMeta, FatGeometry
<1>4. c \in Nat /\ c * b.spc <= b.total - m
  <2>1. b.total - m \in Nat /\ b.spc \in Nat /\ b.spc > 0
    BY <1>1, <1>3
  <2> QED BY <2>1, WholeParts DEF FatClusters
<1>5. /\ FatRead(d, Copy).used = Span(0, m) \cup UNION {ClusterCells(b, n) : n \in inUse}
      /\ FatRead(d, Copy).end = m + c * b.spc
  <2>1. ClusterAt(b, c + 2) = m + c * b.spc
    <3>1. (c + 2) - 2 = c
      BY <1>4
    <3> QED BY <3>1 DEF ClusterAt
  <2>2. FatRead(d, Copy) = Usage(Span(0, m) \cup UNION {ClusterCells(b, n) : n \in inUse}, ClusterAt(b, c + 2))
    BY <1>2 DEF FatRead, Result
  <2> QED BY <2>1, <2>2 DEF Usage
<1>6. Size \in Nat
  BY SizeAssumption
<1>7. c * b.spc \in Nat
  BY <1>1, <1>4
<1>8. FatNeed(d) = 0..(m - 1) \cup b.total..(Size - 1)
                   \cup UNION {ClusterCells(b, n) : n \in {k \in FatNumbers(b) : \E f \in 1..2 : d.fat[f][k] = "next"}}
  <2>1. ~(d.bpb.total > Size \/ FatBits(d.bpb) # d.width)
    BY <1>1, <1>2, <1>3, <1>6
  <2> QED BY <2>1 DEF FatNeed
<1>9. ASSUME NEW n \in FatNumbers(b)
      PROVE  ClusterCells(b, n) \subseteq Cells
  <2>1. n \in 2..(c + 1)
    BY DEF FatNumbers
  <2>2. (n - 2) * b.spc \in Nat /\ (n - 2) * b.spc + b.spc <= c * b.spc
    <3>1. \A i, j, k \in Nat : i + 1 <= j => i * k + k <= j * k
      <4> TAKE i, j, k \in Nat
      <4> HAVE i + 1 <= j
      <4>1. PICK l \in Nat : j = i + 1 + l
        <5> WITNESS j - i - 1 \in Nat
        <5> QED OBVIOUS
      <4>2. j * k = i * k + k + l * k
        BY <4>1
      <4>3. l * k \in Nat
        OBVIOUS
      <4> QED BY <4>2, <4>3
    <3>2. n - 2 \in Nat /\ (n - 2) + 1 <= c
      BY <2>1, <1>4
    <3>3. (n - 2) * b.spc \in Nat
      BY <3>2, <1>1
    <3> QED BY <3>1, <3>2, <3>3, <1>1, <1>4
  <2>3. ClusterCells(b, n) = (m + (n - 2) * b.spc)..(m + (n - 2) * b.spc + b.spc - 1)
    BY DEF ClusterCells, ClusterAt, Span
  <2> DEFINE x == (n - 2) * b.spc
             y == c * b.spc
  <2>4. x \in Nat /\ y \in Nat /\ x + b.spc <= y /\ y <= b.total - m /\ m \in Nat /\ b.spc \in Nat
    BY <2>2, <1>1, <1>3, <1>4, <1>7
  <2>5. b.total \in Nat /\ b.total <= Size /\ Cells = 0..(Size - 1)
    BY <1>1, <1>3 DEF Cells
  <2>6. ClusterCells(b, n) = (m + x)..(m + x + b.spc - 1)
    BY <2>3
  <2> HIDE DEF x, y, m, b
  <2>7. SUFFICES ASSUME NEW z \in (m + x)..(m + x + b.spc - 1)
                 PROVE  z \in 0..(Size - 1)
    BY <2>5, <2>6
  <2>8. z \in Int /\ z >= m + x /\ z <= m + x + b.spc - 1
    BY <2>4
  <2>9. z >= 0 /\ z <= Size - 1
    BY <2>4, <2>5, <2>8, <1>6
  <2> QED BY <2>8, <2>9, <1>6
<1>10. ASSUME NEW n \in FatNumbers(b), NEW f \in 1..2, d.fat[f][n] = "next"
       PROVE  n \in inUse
  BY <1>1, <1>10 DEF FatInUse
<1> DEFINE e == IF FatRead(d, Copy).end < Size THEN FatRead(d, Copy).end ELSE Size
<1>11. e <= b.total /\ e \in Nat
  BY <1>3, <1>4, <1>5, <1>6, <1>7, <1>1
<1>12. SUFFICES ASSUME NEW x \in FatNeed(d)
               PROVE  x \in (FatRead(d, Copy).used \cap Cells) \cup e..(Size - 1)
  BY DEF Keeps
<1>13. CASE x \in b.total..(Size - 1)
  BY <1>13, <1>11, <1>1, <1>6
<1>14. CASE x \in 0..(m - 1)
  BY <1>14, <1>5, <1>3, <1>6, <1>1 DEF Span, Cells
<1>15. CASE x \in UNION {ClusterCells(b, n) : n \in {k \in FatNumbers(b) : \E f \in 1..2 : d.fat[f][k] = "next"}}
  <2>1. PICK n \in FatNumbers(b) : x \in ClusterCells(b, n) /\ \E f \in 1..2 : d.fat[f][n] = "next"
    BY <1>15
  <2> QED BY <2>1, <1>5, <1>9, <1>10
<1> HIDE DEF e
<1> QED BY <1>8, <1>12, <1>13, <1>14, <1>15

\* Two states of one volume.
SameFat(d, e) == e.bpb = d.bpb /\ e.width = d.width /\ DOMAIN e = DOMAIN d

\* No driver writes the parameter block.
LEMMA FatWrites ==
  ASSUME NEW d, FatVolume(d), NEW m
  PROVE  /\ SameFat(d, FatMounted(d)) /\ SameFat(d, FatUnmounted(d))
         /\ \A e \in FatChanges(d) : SameFat(d, e)
         /\ \A e \in FatFlushed(d, m) : SameFat(d, e)
<1>1. DOMAIN d = {"bpb", "width", "dirty", "fat"}
  BY DEF FatVolume
<1>2. SameFat(d, FatMounted(d)) /\ SameFat(d, FatUnmounted(d))
  BY <1>1 DEF FatMounted, FatUnmounted, SameFat
<1>3. \A e \in FatChanges(d) : SameFat(d, e)
  BY <1>1 DEF FatChanges, SameFat
<1>4. \A e \in FatFlushed(d, m) : SameFat(d, e)
  <2> TAKE e \in FatFlushed(d, m)
  <2>1. CASE e \in WriteBack(d, m, {"dirty"})
    BY <1>1, <2>1 DEF WriteBack, SameFat
  <2>2. CASE \E f \in 1..2 : e = [d EXCEPT !.fat[f] = m.fat[f]]
    BY <1>1, <2>2 DEF SameFat
  <2> QED BY <2>1, <2>2 DEF FatFlushed
<1> QED BY <1>2, <1>3, <1>4

\* A FAT as it is on the disk and in a driver's memory.
FatInv ==
  kind = "vfat" =>
    /\ FatVolume(disk) /\ FatVolume(mem)
    /\ SameFat(disk, mem)
    /\ known => FatGeometry(disk.bpb)

\* Volumes of every width are made so.
LEMMA FatBegins == ASSUME InitVolume PROVE FatInv
<1> SUFFICES ASSUME kind = "vfat"
             PROVE  FatVolume(disk) /\ (known => FatGeometry(disk.bpb))
  BY DEF InitVolume, FatInv, SameFat
<1>1. disk \in FatFresh
  BY DEF InitVolume, Fresh
<1>2. FatVolume(disk)
  <2> DEFINE L == Fat12Limit
             table(b) == {[n \in FatNumbers(b) |-> IF n = bad THEN "bad" ELSE "free"] : bad \in {0, 3}}
             volume(b, w) == {[bpb |-> b, width |-> w, dirty |-> FALSE, fat |-> <<t, t>>] : t \in table(b)}
             wide(b, w) == \/ b = FatBpb(FALSE, 1, 1, 2, 2 * L + 2, 12) /\ w = 12
                           \/ b = FatBpb(FALSE, 1, 1, 1, L + 4, 0) /\ w = 16
                           \/ b = FatBpb(FALSE, 1, 1, 1, L + 3, 16) /\ w = 16
                           \/ b = FatBpb(TRUE, 2, 0, 1, 7, 0) /\ w = 32
                           \/ b = FatBpb(FALSE, 1, 1, 1, Size + 1, 0) /\ w = 16
                           \/ b = FatBpb(FALSE, 2, 1, 1, Fat16Limit + 6, 0) /\ w = 16
                           \/ b = FatBpb(TRUE, 3, 0, 1, Fat32Limit + 7, 0) /\ w = 32
                           \/ b = [FatBpb(TRUE, 2, 0, 1, 7, 0) EXCEPT !.version = 1] /\ w = 32
  <2>1. \E b, w : wide(b, w) /\ disk \in volume(b, w)
    <3>1. FatFresh = UNION {volume(FatBpb(FALSE, 1, 1, 2, 2 * L + 2, 12), 12), volume(FatBpb(FALSE, 1, 1, 1, L + 4, 0), 16),
                            volume(FatBpb(FALSE, 1, 1, 1, L + 3, 16), 16), volume(FatBpb(TRUE, 2, 0, 1, 7, 0), 32),
                            volume(FatBpb(FALSE, 1, 1, 1, Size + 1, 0), 16), volume(FatBpb(FALSE, 2, 1, 1, Fat16Limit + 6, 0), 16),
                            volume(FatBpb(TRUE, 3, 0, 1, Fat32Limit + 7, 0), 32),
                            volume([FatBpb(TRUE, 2, 0, 1, 7, 0) EXCEPT !.version = 1], 32)}
      BY DEF FatFresh
    <3> HIDE DEF volume
    <3> QED BY <1>1, <3>1
  <2>2. PICK b, w : wide(b, w) /\ disk \in volume(b, w)
    BY <2>1
  <2>3. DOMAIN disk = {"bpb", "width", "dirty", "fat"} /\ disk.bpb = b /\ disk.width = w
    BY <2>2
  <2>4. L \in Nat /\ L > 1 /\ Size \in Nat /\ Fat16Limit \in Nat /\ Fat32Limit \in Nat
    BY FatAssumption, SizeAssumption
  <2> HIDE DEF volume
  <2>6. /\ b.reserved = 1 /\ b.fats = 2 /\ b.fatLen \in Nat /\ b.root \in Nat /\ b.total \in Nat
        /\ b.spc \in Nat /\ b.spc > 0
    BY <2>2, <2>4 DEF FatBpb
  <2>7. FatGeometry(b) => FatBits(b) = w
    <3>1. CASE b = FatBpb(FALSE, 1, 1, 2, 2 * L + 2, 12) /\ w = 12
      <4>1. b.fatLen = 1 /\ b.root = 1 /\ b.spc = 2 /\ b.total = 2 * L + 2
        BY <3>1 DEF FatBpb
      <4>2. FatMeta(b) = 4
        BY <2>6, <4>1 DEF FatMeta
      <4>3. b.total - 4 = 2 * (L - 1) /\ (2 * (L - 1)) \div 2 = L - 1
        BY <2>4, <4>1
      <4>4. FatClusters(b) = L - 1
        BY <4>1, <4>2, <4>3 DEF FatClusters
      <4>5. FatBits(b) = IF FatClusters(b) < L THEN 12 ELSE 16
        BY <3>1 DEF FatBits, FatBpb
      <4>6. FatClusters(b) < L
        BY <2>4, <4>4
      <4>7. FatBits(b) = 12
        BY <4>5, <4>6
      <4> QED BY <3>1, <4>7
    <3>2. CASE b = FatBpb(FALSE, 1, 1, 1, L + 4, 0) /\ w = 16
      <4>1. b.fatLen = 1 /\ b.root = 1 /\ b.spc = 1 /\ b.total = L + 4
        BY <3>2 DEF FatBpb
      <4>2. FatMeta(b) = 4
        BY <2>6, <4>1 DEF FatMeta
      <4>3. FatClusters(b) = L
        BY <2>4, <4>1, <4>2 DEF FatClusters
      <4>4. FatBits(b) = IF FatClusters(b) < L THEN 12 ELSE 16
        BY <3>2 DEF FatBits, FatBpb
      <4>5. ~(FatClusters(b) < L)
        BY <2>4, <4>3
      <4>6. FatBits(b) = 16
        BY <4>4, <4>5
      <4> QED BY <3>2, <4>6
    <3>3. CASE b = FatBpb(FALSE, 1, 1, 1, L + 3, 16) /\ w = 16
      <4>1. b.named = 16
        BY <3>3 DEF FatBpb
      <4>2. FatBits(b) = IF FatClusters(b) < L THEN 12 ELSE 16
        BY <3>3 DEF FatBits, FatBpb
      <4>3. FatBits(b) \in {12, 16}
        BY <4>2
      <4>4. FatGeometry(b) => FatBits(b) = 32 \/ b.named \in {0, FatBits(b)}
        BY DEF FatGeometry
      <4>5. FatBits(b) # 32
        BY <4>3
      <4>6. FatGeometry(b) => FatBits(b) = 16
        BY <4>1, <4>4, <4>5
      <4>7. w = 16
        BY <3>3
      <4> QED BY <4>6, <4>7
    <3>4. CASE b = FatBpb(TRUE, 2, 0, 1, 7, 0) /\ w = 32
      BY <3>4 DEF FatBits, FatBpb
    <3>5. CASE b = FatBpb(FALSE, 1, 1, 1, Size + 1, 0) /\ w = 16
      BY <2>4, <3>5 DEF FatGeometry, FatBpb
    <3>6. CASE b = FatBpb(FALSE, 2, 1, 1, Fat16Limit + 6, 0) /\ w = 16
      <4>1. b.fatLen = 2 /\ b.root = 1 /\ b.spc = 1 /\ b.total = Fat16Limit + 6
        BY <3>6 DEF FatBpb
      <4>2. FatMeta(b) = 6
        BY <2>6, <4>1 DEF FatMeta
      <4>3. Fat16Limit \in Nat /\ L < Fat16Limit
        BY FatAssumption
      <4>4. FatClusters(b) = Fat16Limit
        BY <4>1, <4>2, <4>3 DEF FatClusters
      <4>5. FatBits(b) = IF FatClusters(b) < L THEN 12 ELSE 16
        BY <3>6 DEF FatBits, FatBpb
      <4>6. ~(FatClusters(b) < L)
        BY <2>4, <4>3, <4>4
      <4> QED BY <3>6, <4>5, <4>6
    <3>7. CASE b = FatBpb(TRUE, 3, 0, 1, Fat32Limit + 7, 0) /\ w = 32
      BY <3>7 DEF FatBits, FatBpb
    <3>8. CASE b = [FatBpb(TRUE, 2, 0, 1, 7, 0) EXCEPT !.version = 1] /\ w = 32
      BY <3>8 DEF FatBits, FatBpb
    <3> QED BY <2>2, <3>1, <3>2, <3>3, <3>4, <3>5, <3>6, <3>7, <3>8
  <2> QED BY <2>3, <2>6, <2>7 DEF FatVolume
<1>3. known => FatGeometry(disk.bpb)
  BY DEF InitVolume, Partition, PartitionOf, InFull, Read, FatRead, Result, Bad
<1> QED BY <1>2, <1>3

\* And stay so.
LEMMA FatGoesOn == ASSUME FatInv, NextVolume PROVE FatInv'
<1> SUFFICES ASSUME kind = "vfat" PROVE FatInv'
  BY LifeSteps DEF FatInv
<1>1. FatVolume(disk) /\ FatVolume(mem) /\ SameFat(disk, mem) /\ (known => FatGeometry(disk.bpb))
  BY DEF FatInv
<1>2. \A d, e : FatVolume(d) /\ SameFat(d, e) => FatVolume(e)
  BY DEF FatVolume, SameFat
<1>3. /\ Mounted(kind, disk) = FatMounted(disk) /\ Unmounted(kind, mem) = FatUnmounted(mem)
      /\ Changes(kind, mem) = FatChanges(mem) /\ Flushed(kind, disk, mem) = FatFlushed(disk, mem)
      /\ Damages(kind, disk) = {}
  BY DEF Mounted, Unmounted, Changes, Flushed, Damages
<1>4. \A d, e, f : SameFat(d, d) /\ (SameFat(d, e) => SameFat(e, d)) /\ (SameFat(d, e) /\ SameFat(e, f) => SameFat(d, f))
  BY DEF SameFat
<1>5. /\ SameFat(disk, FatMounted(disk)) /\ SameFat(mem, FatUnmounted(mem))
      /\ \A e \in FatChanges(mem) : SameFat(mem, e)
      /\ \A e \in FatFlushed(disk, mem) : SameFat(disk, e)
  BY <1>1, FatWrites
<1>6. kind' = kind /\ known' = known /\ SameFat(disk, disk') /\ SameFat(mem, mem')
  BY <1>1, <1>3, <1>4, <1>5, LifeWrites
<1> QED BY <1>1, <1>2, <1>4, <1>6 DEF FatInv, SameFat

\* A FAT that is understood is kept; one understood when it was made stays so.
LEMMA FatUnderstood == ASSUME FatInv, kind = "vfat" PROVE
  /\ Read(kind, disk, Copy).ok => Keeps(Read(kind, disk, Copy), NeedOf(kind, disk))
  /\ known => Read(kind, disk, Copy).ok
<1>1. Read(kind, disk, Copy) = FatRead(disk, Copy) /\ NeedOf(kind, disk) = FatNeed(disk)
  BY DEF Read, NeedOf
<1>2. FatVolume(disk) /\ (known => FatGeometry(disk.bpb))
  BY DEF FatInv
<1>3. known => FatRead(disk, Copy).ok
  BY <1>2 DEF FatRead, Result, Usage
<1> QED BY <1>1, <1>2, <1>3, FatKeeps

(* swap *)

\* Only swap that was hibernated to has an image in it.
SwapVolume(d) ==
  /\ DOMAIN d = {"magic", "tuxonice", "version", "page", "last", "badPages", "image"}
  /\ d.page \in Nat
  /\ d.magic \notin SuspendSignatures /\ ~d.tuxonice => d.image = {}

\* What is kept of swap (swap.rs read): its first page, when there is no image.
LEMMA SwapKeeps ==
  ASSUME NEW d, SwapVolume(d), SwapRead(d, Copy).ok
  PROVE  Keeps(SwapRead(d, Copy), SwapNeed(d))
<1>1. /\ d.magic \notin SuspendSignatures /\ ~d.tuxonice /\ d.page <= Size
      /\ SwapRead(d, Copy) = Usage(Span(0, d.page), Size)
  BY DEF SwapRead, Result, Bad
<1>2. SwapNeed(d) = Span(0, d.page)
  BY <1>1 DEF SwapNeed, SwapVolume
<1>3. d.page \in Nat
  BY DEF SwapVolume
<1> QED BY <1>1, <1>2, <1>3, SizeAssumption DEF Keeps, Usage, Span, Cells

\* Hibernating always leaves a mark.
LEMMA SwapWrites ==
  ASSUME NEW d, SwapVolume(d)
  PROVE  \A e \in SwapChanges(d) : SwapVolume(e)
<1>1. /\ DOMAIN d = {"magic", "tuxonice", "version", "page", "last", "badPages", "image"}
      /\ d.page \in Nat
  BY DEF SwapVolume
<1>2. \A magic \in SuspendSignatures : \A x : SwapVolume([d EXCEPT !.magic = magic, !.image = x])
  BY <1>1 DEF SwapVolume
<1>3. \A x : SwapVolume([d EXCEPT !.tuxonice = TRUE, !.image = x])
  BY <1>1 DEF SwapVolume
<1> TAKE e \in SwapChanges(d)
<1>4. CASE \E magic \in SuspendSignatures : e = [d EXCEPT !.magic = magic, !.image = (d.page..(Size - 1)) \ d.badPages]
  BY <1>4, <1>2
<1>5. CASE e = [d EXCEPT !.tuxonice = TRUE, !.image = (d.page..(Size - 1)) \ d.badPages]
  BY <1>5, <1>3
<1> QED BY <1>4, <1>5 DEF SwapChanges

\* Swap as it is on the disk and in memory.
SwapInv == kind = "swap" => SwapVolume(disk) /\ SwapVolume(mem)

\* Swap is made without an image.
LEMMA SwapBegins == ASSUME InitVolume PROVE SwapInv
<1> SUFFICES ASSUME kind = "swap"
             PROVE  SwapVolume(disk)
  BY DEF InitVolume, SwapInv
<1>1. disk \in SwapFresh
  BY DEF InitVolume, Fresh
<1> QED BY <1>1 DEF SwapFresh, SwapVolume

\* And stays so, or is marked.
LEMMA SwapGoesOn == ASSUME SwapInv, NextVolume PROVE SwapInv'
<1> SUFFICES ASSUME kind = "swap" PROVE SwapInv'
  BY LifeWrites DEF SwapInv
<1>1. SwapVolume(disk) /\ SwapVolume(mem)
  BY DEF SwapInv
<1>2. /\ Mounted(kind, disk) = disk /\ Unmounted(kind, mem) = mem
      /\ Changes(kind, mem) = SwapChanges(mem) /\ Flushed(kind, disk, mem) = {mem}
      /\ Damages(kind, disk) = {}
  BY DEF Mounted, Unmounted, Changes, Flushed, Damages
<1>3. kind' = kind /\ SwapVolume(disk') /\ SwapVolume(mem')
  BY <1>1, <1>2, LifeWrites, SwapWrites
<1> QED BY <1>3 DEF SwapInv

\* Swap that is understood is kept.
LEMMA SwapUnderstood ==
  ASSUME SwapInv, kind = "swap"
  PROVE  Read(kind, disk, Copy).ok => Keeps(Read(kind, disk, Copy), NeedOf(kind, disk))
<1>1. Read(kind, disk, Copy) = SwapRead(disk, Copy) /\ NeedOf(kind, disk) = SwapNeed(disk)
  BY DEF Read, NeedOf
<1> QED BY <1>1, SwapKeeps DEF SwapInv

(* ISO 9660 *)

\* Where the partitions in an image's own tables end, and where their GPTs do.
Runs(d) == {e.start + e.count : e \in {x \in d.mbr : x.count > 0}}
Backups(d) == {IsoMaximum({g.alternate, g.last}) + 1 : g \in d.gpt}

\* What an image's own tables name, all of it on the partition.
IsoVolume(d) ==
  /\ d.blocks \in Nat
  /\ \A e \in d.mbr : e.start \in Nat /\ e.count \in Nat /\ e.start + e.count <= Size
  /\ \A g \in d.gpt : g.alternate \in 0..(Size - 1) /\ g.last \in 0..(Size - 1)

\* The greatest of some numbers that are not above a bound.
LEMMA GreatestOf ==
  ASSUME NEW N \in Nat, NEW S, S \subseteq 0..N, S # {}
  PROVE  /\ IsoMaximum(S) \in S
         /\ \A x \in S : x <= IsoMaximum(S)
<1>1. \E x \in S : \A y \in S : y <= x
  BY GreatestExists
<1> DEFINE P(x) == \A y \in S : y <= x
<1>2. IsoMaximum(S) = CHOOSE x \in S : P(x)
  BY DEF IsoMaximum
<1>3. \E x \in S : P(x)
  BY <1>1
<1> HIDE DEF P
<1>4. IsoMaximum(S) \in S /\ P(IsoMaximum(S))
  BY <1>2, <1>3
<1> QED BY <1>4 DEF P

\* What is kept of an image (iso.rs read) reaches to the end of all that its own tables
\* name.
LEMMA IsoKeeps ==
  ASSUME NEW d, IsoVolume(d), IsoRead(d, Copy).ok
  PROVE  Keeps(IsoRead(d, Copy), IsoNeed(d))
<1> DEFINE S == {0} \cup Runs(d) \cup Backups(d)
           h == HybridEnd(d)
           top == IsoMaximum({d.blocks, h})
<1>1. /\ d.agree /\ d.blocks <= Size /\ d.blocks \in Nat
      /\ IsoRead(d, Copy) = Usage(Span(0, top), Size)
  BY DEF IsoRead, Result, Bad, IsoVolume
<1>2. Size \in Nat
  BY SizeAssumption
<1>3. \A g \in d.gpt : /\ IsoMaximum({g.alternate, g.last}) + 1 \in 0..Size
                       /\ g.alternate <= IsoMaximum({g.alternate, g.last})
                       /\ g.last <= IsoMaximum({g.alternate, g.last})
  <2> TAKE g \in d.gpt
  <2>1. /\ {g.alternate, g.last} \subseteq 0..(Size - 1) /\ {g.alternate, g.last} # {}
        /\ {g.alternate, g.last} \subseteq 0..Size
    BY <1>2 DEF IsoVolume
  <2>2. IsoMaximum({g.alternate, g.last}) \in {g.alternate, g.last}
        /\ \A x \in {g.alternate, g.last} : x <= IsoMaximum({g.alternate, g.last})
    BY <2>1, <1>2, GreatestOf
  <2> QED BY <2>1, <2>2, <1>2
<1>4. S \subseteq 0..Size /\ S # {} /\ h = IsoMaximum(S)
  <2>1. Runs(d) \subseteq 0..Size
    BY <1>2 DEF Runs, IsoVolume
  <2>2. Backups(d) \subseteq 0..Size
    BY <1>3 DEF Backups
  <2>3. h = IsoMaximum(S)
    BY DEF HybridEnd, Runs, Backups
  <2> QED BY <2>1, <2>2, <2>3, <1>2
<1>5. h \in 0..Size /\ \A x \in S : x <= h
  BY <1>4, <1>2, GreatestOf
<1>6. top \in 0..Size /\ d.blocks <= top /\ h <= top
  <2>1. {d.blocks, h} \subseteq 0..Size /\ {d.blocks, h} # {}
    BY <1>1, <1>2, <1>5
  <2> QED BY <2>1, <1>2, GreatestOf
<1>7. SUFFICES ASSUME NEW x \in IsoNeed(d)
               PROVE  x \in 0..(top - 1)
  <2>1. IsoRead(d, Copy).used = 0..(top - 1)
    <3>1. Span(0, top) = 0..(top - 1)
      BY <1>6, <1>2 DEF Span
    <3> QED BY <1>1, <3>1 DEF Usage
  <2>2. 0..(top - 1) \subseteq Cells
    BY <1>2, <1>6 DEF Cells
  <2> HIDE DEF top
  <2> QED BY <2>1, <2>2 DEF Keeps
<1>8. IsoNeed(d) = Span(0, d.blocks) \cup (UNION {Span(e.start, e.count) : e \in d.mbr})
                   \cup UNION {{g.alternate} \cup 0..g.last : g \in d.gpt}
  BY <1>1, <1>2 DEF IsoNeed
<1>9. CASE x \in Span(0, d.blocks)
  BY <1>9, <1>1, <1>6 DEF Span
<1>10. CASE x \in UNION {Span(e.start, e.count) : e \in d.mbr}
  <2>1. PICK e \in d.mbr : x \in Span(e.start, e.count)
    BY <1>10
  <2>2. e.start \in Nat /\ e.count \in Nat /\ x \in e.start..(e.start + e.count - 1)
    BY <2>1 DEF Span, IsoVolume
  <2>3. e.count > 0 /\ x \in Nat /\ x < e.start + e.count
    BY <2>2
  <2>4. e.start + e.count \in S
    BY <2>3 DEF Runs
  <2> QED BY <2>2, <2>3, <2>4, <1>5, <1>6
<1>11. CASE x \in UNION {{g.alternate} \cup 0..g.last : g \in d.gpt}
  <2>1. PICK g \in d.gpt : x = g.alternate \/ x \in 0..g.last
    BY <1>11
  <2>2. g.alternate \in Nat /\ g.last \in Nat
    BY <1>2 DEF IsoVolume
  <2>3. IsoMaximum({g.alternate, g.last}) + 1 \in S
    BY DEF Backups
  <2> DEFINE last == IsoMaximum({g.alternate, g.last})
  <2>4. last + 1 \in 0..Size /\ last \in Int /\ g.alternate <= last /\ g.last <= last
    <3>1. last \in {g.alternate, g.last}
      <4>1. {g.alternate, g.last} \subseteq 0..Size /\ {g.alternate, g.last} # {}
        BY <1>2 DEF IsoVolume
      <4> QED BY <4>1, <1>2, GreatestOf
    <3>2. last \in Int
      BY <2>2, <3>1
    <3> QED BY <1>3, <3>2
  <2> HIDE DEF last
  <2>5. x \in Nat /\ x < last + 1
    BY <2>1, <2>2, <2>4
  <2>6. last + 1 <= h
    BY <2>3, <1>5 DEF last
  <2> HIDE DEF h, top
  <2> QED BY <2>4, <2>5, <2>6, <1>5, <1>6
<1> QED BY <1>8, <1>9, <1>10, <1>11

\* An image is not written to.
IsoInv ==
  kind = "iso9660" =>
    /\ IsoVolume(disk) /\ phase = "idle" /\ mem = disk
    /\ known => IsoRead(disk, Copy).ok

\* Images of any kind are made so.
LEMMA IsoBegins == ASSUME InitVolume PROVE IsoInv
<1> SUFFICES ASSUME kind = "iso9660"
             PROVE  IsoVolume(disk) /\ (known => IsoRead(disk, Copy).ok)
  BY DEF InitVolume, IsoInv
<1>1. disk \in IsoFresh
  BY DEF InitVolume, Fresh
<1>2. IsoVolume(disk)
  <2>1. /\ disk.blocks \in {IsoSystem + 2, IsoSystem + 3, Size + 1}
        /\ disk.mbr \in {{}, {[start |-> 0, count |-> IsoSystem + 2], [start |-> IsoSystem + 3, count |-> 2]}}
        /\ disk.gpt \in {{}, {[alternate |-> Size - 2, last |-> IsoSystem + 2]}}
    BY <1>1 DEF IsoFresh
  <2> QED BY <2>1, IsoAssumption, SizeAssumption DEF IsoVolume
<1>3. known => IsoRead(disk, Copy).ok
  BY DEF InitVolume, Partition, PartitionOf, InFull, Read
<1> QED BY <1>2, <1>3

\* And stay so.
LEMMA IsoGoesOn == ASSUME IsoInv, NextVolume PROVE IsoInv'
<1> SUFFICES ASSUME kind = "iso9660" PROVE IsoInv'
  BY LifeWrites DEF IsoInv
<1>1. phase = "idle" /\ Damages(kind, disk) = {}
  BY DEF IsoInv, Damages
<1> QED BY <1>1 DEF IsoInv, NextVolume, Mount, Edit, Flush, Unmount, Eject, Unplug, Damage

\* An image that is understood is kept, and stays understood.
LEMMA IsoUnderstood ==
  ASSUME IsoInv, kind = "iso9660"
  PROVE  /\ Read(kind, disk, Copy).ok => Keeps(Read(kind, disk, Copy), NeedOf(kind, disk))
         /\ known => Read(kind, disk, Copy).ok
<1>1. Read(kind, disk, Copy) = IsoRead(disk, Copy) /\ NeedOf(kind, disk) = IsoNeed(disk)
  BY DEF Read, NeedOf
<1> QED BY <1>1, IsoKeeps DEF IsoInv

(* exFAT *)

\* An exFAT as it may be on a disk, changed or not: its chains may be broken anywhere
\* but in the bitmap's own.
ExfatVolume(d) ==
  /\ DOMAIN d = {"active", "volume", "checksum", "dirty", "bitmap", "fat", "entry"}
  /\ d.active \in 1..2 /\ DOMAIN d.fat = 1..2 /\ DOMAIN d.fat[d.active] = ExfatNumbers
  /\ d.volume \in Nat
  /\ d.bitmap \subseteq ExfatNumbers
  /\ d.fat[d.active][2] \in {3, 5}

\* A chain of two clusters.
LEMMA TwoClusters ==
  ASSUME NEW fat, NEW first
  PROVE  /\ ExfatChain(fat, first, 2)[1] = first
         /\ ExfatChain(fat, first, 2)[2] = IF first \in ExfatNumbers THEN fat[first] ELSE 0
<1> DEFINE step(c) == [i \in 1..2 |-> IF i = 1 THEN first
                                      ELSE IF c[i - 1] \in ExfatNumbers THEN fat[c[i - 1]] ELSE 0]
           f == [i \in 1..2 |-> IF i = 1 THEN first
                                ELSE IF first \in ExfatNumbers THEN fat[first] ELSE 0]
           P(c) == c = step(c)
<1>1. ExfatChain(fat, first, 2) = CHOOSE c : P(c)
  BY DEF ExfatChain
<1>2. P(f)
  <2>1. f[1] = first
    OBVIOUS
  <2>2. \A i \in 1..2 : f[i] = step(f)[i]
    BY <2>1
  <2> QED BY <2>2
<1> HIDE DEF P, f
<1>3. P(ExfatChain(fat, first, 2))
  BY <1>1, <1>2
<1> USE DEF P
<1> DEFINE x == ExfatChain(fat, first, 2)
<1>4. x = step(x)
  BY <1>3
<1> HIDE DEF x
<1>5. x[1] = first
  BY <1>4
<1>6. x[2] = IF first \in ExfatNumbers THEN fat[first] ELSE 0
  BY <1>4, <1>5
<1> QED BY <1>5, <1>6 DEF x

\* The clusters of what has two of them.
LEMMA FollowsTwo ==
  ASSUME NEW fat, NEW first \in ExfatNumbers
  PROVE  /\ Follow(fat, first, 2, FALSE).ok <=> fat[first] \in ExfatNumbers
         /\ Follow(fat, first, 2, FALSE).clusters = {first, fat[first]}
         /\ Follow(fat, first, 2, TRUE).ok <=> first + 1 \in ExfatNumbers
         /\ Follow(fat, first, 2, TRUE).clusters = {first, first + 1}
<1> DEFINE run == [i \in 1..2 |-> first + i - 1]
           chain == ExfatChain(fat, first, 2)
<1>1. first \in Int
  BY ExfatAssumption DEF ExfatNumbers
<1>2. run[1] = first /\ run[2] = first + 1
  BY <1>1
<1>3. chain[1] = first /\ chain[2] = fat[first]
  BY TwoClusters
<1>4. 1..2 = {1, 2}
  OBVIOUS
<1> DEFINE okOf(c) == 2 >= 1 /\ \A i \in 1..2 : c[i] \in ExfatNumbers
           all(c) == {c[i] : i \in 1..2}
<1>5. Follow(fat, first, 2, FALSE).ok <=> okOf(chain)
  BY DEF Follow
<1>8. Follow(fat, first, 2, TRUE).ok <=> okOf(run)
  BY DEF Follow
<1>9. Follow(fat, first, 2, FALSE).clusters = all(chain)
  BY DEF Follow
<1>10. Follow(fat, first, 2, TRUE).clusters = all(run)
  BY DEF Follow
<1> HIDE DEF run, chain
<1>6. all(chain) = {first, fat[first]} /\ all(run) = {first, first + 1}
  BY <1>2, <1>3, <1>4
<1>7. /\ okOf(chain) <=> fat[first] \in ExfatNumbers
      /\ okOf(run) <=> first + 1 \in ExfatNumbers
  BY <1>2, <1>3, <1>4
<1> HIDE DEF okOf, all
<1> QED BY <1>5, <1>6, <1>7, <1>8, <1>9, <1>10

\* The bitmap's clusters in a row, or not taken for them.
LEMMA BitmapInARow ==
  ASSUME NEW d, ExfatVolume(d)
  PROVE  SystemFile(d, 2, 2) <=> d.fat[d.active][2] = 3
<1>1. {2, 3, 5} \subseteq ExfatNumbers
  BY ExfatAssumption DEF ExfatNumbers
<1> DEFINE t == d.fat[d.active]
<1>2. /\ Follow(t, 2, 2, FALSE).ok <=> t[2] \in ExfatNumbers
      /\ Follow(t, 2, 2, FALSE).clusters = {2, t[2]}
      /\ Follow(t, 2, 2, TRUE).ok <=> 2 + 1 \in ExfatNumbers
      /\ Follow(t, 2, 2, TRUE).clusters = {2, 2 + 1}
  BY <1>1, FollowsTwo
<1>3. t[2] \in {3, 5}
  BY DEF ExfatVolume
<1>4. {2, 5} # {2, 3}
  <2>1. 5 \in {2, 5} /\ 5 \notin {2, 3}
    OBVIOUS
  <2> QED BY <2>1
<1> HIDE DEF t
<1>5. SystemFile(d, 2, 2) <=> /\ Follow(t, 2, 2, TRUE).ok
                              /\ Follow(t, 2, 2, FALSE).ok => Follow(t, 2, 2, FALSE).clusters = Follow(t, 2, 2, TRUE).clusters
  BY DEF SystemFile, t
<1>6. 2 + 1 = 3
  OBVIOUS
<1>7. CASE t[2] = 3
  BY <1>1, <1>2, <1>5, <1>6, <1>7 DEF t
<1>8. CASE t[2] = 5
  <2>1. ~SystemFile(d, 2, 2)
    BY <1>1, <1>2, <1>4, <1>5, <1>6, <1>8
  <2> QED BY <2>1, <1>8 DEF t
<1> QED BY <1>3, <1>7, <1>8

\* What is kept of an exFAT (exfat.rs read) is the heap's beginning, what its bitmap
\* marks and what its directories claim, and what is past the heap.
LEMMA ExfatKeeps ==
  ASSUME NEW d, ExfatVolume(d), ExfatRead(d, Copy).ok
  PROVE  Keeps(ExfatRead(d, Copy), ExfatNeed(d))
<1> DEFINE claims == {Claimed(d, d.entry[n]) : n \in ExfatEntries(d)}
           marked == d.bitmap \cup {2, 3, ExfatRoot} \cup UNION {c.clusters : c \in claims}
           top == ExfatHeap + ExfatClusters
<1>1. /\ d.checksum /\ top <= d.volume /\ d.volume <= Size /\ SystemFile(d, 2, 2)
      /\ \A c \in claims : c.ok
      /\ ExfatRead(d, Copy) = Usage(Span(0, ExfatHeap) \cup {ExfatAt(c) : c \in marked}, top)
  BY DEF ExfatRead, Result, Bad
<1>2. d.fat[d.active][2] = 3
  BY <1>1, BitmapInARow
<1>3. /\ top \in Nat /\ top <= Size /\ ExfatHeap \in Nat /\ ExfatHeap <= top
      /\ Size \in Nat
  BY <1>1, ExfatAssumption, SizeAssumption DEF ExfatVolume
<1> DEFINE held == {2, 3, ExfatRoot} \cup d.bitmap
                   \cup UNION {Claimed(d, d.entry[n]).clusters \cap ExfatNumbers : n \in ExfatEntries(d)}
<1>4. ExfatNeed(d) = {ExfatAt(c) : c \in held} \cup 0..(ExfatHeap - 1) \cup top..(Size - 1)
  <2>1. ~(d.volume > Size \/ d.fat[d.active][2] # 3 \/ ~d.checksum)
    BY <1>1, <1>2, <1>3 DEF ExfatVolume
  <2> QED BY <2>1 DEF ExfatNeed
<1>5. held \subseteq marked /\ held \subseteq ExfatNumbers
  <2>1. {2, 3, ExfatRoot} \subseteq ExfatNumbers
    BY ExfatAssumption DEF ExfatNumbers, ExfatRoot
  <2> QED BY <2>1 DEF ExfatVolume
<1>6. \A c \in ExfatNumbers : ExfatAt(c) \in Cells
  <2> TAKE c \in ExfatNumbers
  <2>1. c \in Int /\ 2 <= c /\ c <= ExfatClusters + 1
    BY ExfatAssumption DEF ExfatNumbers
  <2>2. ExfatAt(c) = ExfatHeap + c - 2
    BY DEF ExfatAt
  <2> QED BY <2>1, <2>2, <1>3, ExfatAssumption DEF Cells
<1>7. Span(0, ExfatHeap) = 0..(ExfatHeap - 1) /\ 0..(ExfatHeap - 1) \subseteq Cells
  BY <1>3 DEF Span, Cells
<1>8. (IF top < Size THEN top ELSE Size) = top
  BY <1>3
<1> HIDE DEF held, marked, top
<1>9. {ExfatAt(c) : c \in held} \subseteq {ExfatAt(c) : c \in marked} \cap Cells
  BY <1>5, <1>6
<1>10. ExfatRead(d, Copy).used = Span(0, ExfatHeap) \cup {ExfatAt(c) : c \in marked}
  BY <1>1 DEF Usage
<1>11. ExfatRead(d, Copy).end = top
  BY <1>1 DEF Usage
<1> DEFINE at == {ExfatAt(c) : c \in held}
           used == {ExfatAt(c) : c \in marked}
<1>12. /\ at \subseteq used \cap Cells
       /\ ExfatNeed(d) = at \cup 0..(ExfatHeap - 1) \cup top..(Size - 1)
       /\ ExfatRead(d, Copy).used = Span(0, ExfatHeap) \cup used
  BY <1>4, <1>9, <1>10
<1> HIDE DEF at, used
<1> QED BY <1>7, <1>8, <1>11, <1>12 DEF Keeps

\* A directory entry, and the second cluster of its file.
ExfatEntry == [there : BOOLEAN, first : ExfatNumbers, count : Nat, contiguous : BOOLEAN]
Second(m, e) == IF e.contiguous THEN e.first + 1 ELSE m.fat[m.active][e.first]

\* What a driver has in memory: a directory of one cluster and a file of two,
\* none of which is the bitmap's or the root's.
ExfatMade(m) ==
  /\ ExfatVolume(m)
  /\ {2, 3, ExfatRoot} \subseteq m.bitmap
  /\ m.entry \in [ExfatNames -> ExfatEntry]
  /\ m.entry["dir"].there => m.entry["dir"].count = 1 /\ m.entry["dir"].contiguous
  /\ m.entry["file"].there =>
       /\ m.entry["file"].count = 2
       /\ {m.entry["file"].first, Second(m, m.entry["file"])} \subseteq ExfatNumbers \ {2, 3, ExfatRoot}

\* What no driver writes: the boot sector, the bitmap's chain.
SameHead(d, e) ==
  /\ e.active = d.active /\ e.volume = d.volume /\ e.checksum = d.checksum
  /\ e.fat[e.active][2] = d.fat[d.active][2]

\* A driver that marks the volume.
LEMMA ExfatMarks ==
  ASSUME NEW m, ExfatMade(m), NEW x
  PROVE  ExfatMade([m EXCEPT !.dirty = x]) /\ SameHead(m, [m EXCEPT !.dirty = x])
<1> DEFINE e == [m EXCEPT !.dirty = x]
<1>1. DOMAIN m = {"active", "volume", "checksum", "dirty", "bitmap", "fat", "entry"}
  BY DEF ExfatMade, ExfatVolume
<1>2. /\ DOMAIN e = DOMAIN m /\ e.active = m.active /\ e.volume = m.volume /\ e.checksum = m.checksum
      /\ e.bitmap = m.bitmap /\ e.fat = m.fat /\ e.entry = m.entry
  BY <1>1
<1> HIDE DEF e
<1> QED BY <1>2 DEF ExfatMade, ExfatVolume, SameHead, Second

\* A driver that makes the directory, or the file in clusters that are free, or
\* removes the file.
LEMMA ExfatWritesDirectory ==
  ASSUME NEW m, ExfatMade(m), NEW c \in ExfatNumbers \ m.bitmap,
         NEW e, e = [m EXCEPT !.entry["dir"] = [there |-> TRUE, first |-> c, count |-> 1, contiguous |-> TRUE],
                              !.bitmap = @ \cup {c}]
  PROVE  ExfatMade(e) /\ SameHead(m, e)
<1>1. /\ DOMAIN m = {"active", "volume", "checksum", "dirty", "bitmap", "fat", "entry"}
      /\ m.entry \in [ExfatNames -> ExfatEntry]
  BY DEF ExfatMade, ExfatVolume
<1> DEFINE new == [there |-> TRUE, first |-> c, count |-> 1, contiguous |-> TRUE]
<1>2. /\ DOMAIN e = DOMAIN m /\ e.active = m.active /\ e.volume = m.volume /\ e.checksum = m.checksum
      /\ e.bitmap = m.bitmap \cup {c} /\ e.fat = m.fat /\ e.entry = [m.entry EXCEPT !["dir"] = new]
  BY <1>1
<1>3. new \in ExfatEntry
  BY DEF ExfatEntry
<1>4. /\ e.entry \in [ExfatNames -> ExfatEntry]
      /\ e.entry["dir"] = new /\ e.entry["file"] = m.entry["file"]
  BY <1>1, <1>2, <1>3 DEF ExfatNames
<1>5. new.count = 1 /\ new.contiguous
  OBVIOUS
<1> HIDE DEF new
<1>6. ExfatVolume(e)
  BY <1>2 DEF ExfatMade, ExfatVolume
<1> QED BY <1>2, <1>4, <1>5, <1>6 DEF ExfatMade, SameHead, Second

\* A file written to two clusters, in a row or chained.
WithFile(m, a, b, t) ==
  [m EXCEPT !.entry["file"] = [there |-> TRUE, first |-> a, count |-> 2, contiguous |-> t],
            !.bitmap = @ \cup {a, b},
            !.fat = IF t THEN @ ELSE [m.fat EXCEPT ![m.active][a] = b, ![m.active][b] = EndOfChain]]

\* A driver that makes the file.
LEMMA ExfatWritesFile ==
  ASSUME NEW m, ExfatMade(m), NEW a \in ExfatNumbers \ m.bitmap, NEW b \in ExfatNumbers \ m.bitmap,
         a # b, NEW t \in BOOLEAN, t => b = a + 1,
         NEW e, e = WithFile(m, a, b, t)
  PROVE  ExfatMade(e) /\ SameHead(m, e)
<1>1. /\ DOMAIN m = {"active", "volume", "checksum", "dirty", "bitmap", "fat", "entry"}
      /\ m.entry \in [ExfatNames -> ExfatEntry]
      /\ {2, 3, ExfatRoot} \subseteq m.bitmap /\ m.bitmap \subseteq ExfatNumbers
      /\ m.active \in 1..2 /\ DOMAIN m.fat = 1..2 /\ DOMAIN m.fat[m.active] = ExfatNumbers
  BY DEF ExfatMade, ExfatVolume
<1> DEFINE new == [there |-> TRUE, first |-> a, count |-> 2, contiguous |-> t]
           fat == IF t THEN m.fat ELSE [m.fat EXCEPT ![m.active][a] = b, ![m.active][b] = EndOfChain]
<1>2. /\ DOMAIN e = DOMAIN m /\ e.active = m.active /\ e.volume = m.volume /\ e.checksum = m.checksum
      /\ e.bitmap = m.bitmap \cup {a, b} /\ e.fat = fat /\ e.entry = [m.entry EXCEPT !["file"] = new]
  BY <1>1 DEF WithFile
<1>3. new \in ExfatEntry
  BY DEF ExfatEntry
<1>4. /\ e.entry \in [ExfatNames -> ExfatEntry]
      /\ e.entry["file"] = new /\ e.entry["dir"] = m.entry["dir"]
  BY <1>1, <1>2, <1>3 DEF ExfatNames
<1>5. new.count = 2 /\ new.contiguous = t /\ new.first = a
  OBVIOUS
<1>6. a # 2 /\ b # 2 /\ {a, b} \subseteq ExfatNumbers \ {2, 3, ExfatRoot}
  BY <1>1
<1>7. /\ DOMAIN fat = 1..2 /\ DOMAIN fat[m.active] = ExfatNumbers
      /\ fat[m.active][2] = m.fat[m.active][2]
      /\ ~t => fat[m.active][a] = b
  <2>1. 2 \in ExfatNumbers
    BY ExfatAssumption DEF ExfatNumbers
  <2> QED BY <1>1, <1>6, <2>1
<1> HIDE DEF new, fat
<1>8. ExfatVolume(e) /\ SameHead(m, e)
  BY <1>1, <1>2, <1>7 DEF ExfatMade, ExfatVolume, SameHead
<1>9. Second(e, e.entry["file"]) = b
  BY <1>2, <1>4, <1>5, <1>7 DEF Second
<1> QED BY <1>1, <1>2, <1>4, <1>5, <1>6, <1>8, <1>9 DEF ExfatMade

\* A driver that removes the file.
LEMMA ExfatRemovesFile ==
  ASSUME NEW m, ExfatMade(m), m.entry["file"].there,
         NEW e, e = [m EXCEPT !.entry["file"].there = FALSE,
                              !.bitmap = @ \ Claimed(m, m.entry["file"]).clusters]
  PROVE  ExfatMade(e) /\ SameHead(m, e)
<1> DEFINE f == m.entry["file"]
<1>1. /\ DOMAIN m = {"active", "volume", "checksum", "dirty", "bitmap", "fat", "entry"}
      /\ m.entry \in [ExfatNames -> ExfatEntry]
      /\ f \in ExfatEntry /\ f.count = 2
      /\ {f.first, Second(m, f)} \subseteq ExfatNumbers \ {2, 3, ExfatRoot}
  BY DEF ExfatMade, ExfatVolume, ExfatNames
<1>2. Claimed(m, f).clusters = {f.first, Second(m, f)}
  <2>1. f.first \in ExfatNumbers /\ f.contiguous \in BOOLEAN
    BY <1>1 DEF ExfatEntry
  <2>2. Claimed(m, f) = Follow(m.fat[m.active], f.first, 2, f.contiguous)
    BY <1>1 DEF Claimed
  <2> DEFINE t == m.fat[m.active]
             x == f.first
  <2>3. x \in ExfatNumbers
    BY <2>1
  <2> HIDE DEF t, x
  <2>4. Follow(t, x, 2, FALSE).clusters = {x, t[x]}
    BY <2>3, FollowsTwo
  <2>5. Follow(t, x, 2, TRUE).clusters = {x, x + 1}
    BY <2>3, FollowsTwo
  <2> USE DEF t, x
  <2>6. CASE f.contiguous = TRUE
    BY <2>2, <2>5, <2>6 DEF Second
  <2>7. CASE f.contiguous = FALSE
    BY <2>2, <2>4, <2>7 DEF Second
  <2> QED BY <2>1, <2>6, <2>7
<1> DEFINE gone == [f EXCEPT !.there = FALSE]
           rest == Claimed(m, f).clusters
<1>3. /\ DOMAIN e = DOMAIN m /\ e.active = m.active /\ e.volume = m.volume /\ e.checksum = m.checksum
      /\ e.bitmap = m.bitmap \ rest /\ e.fat = m.fat /\ e.entry = [m.entry EXCEPT !["file"] = gone]
  BY <1>1
<1>4. gone \in ExfatEntry /\ gone.there = FALSE
  BY <1>1 DEF ExfatEntry
<1> HIDE DEF gone, rest
<1>5. /\ e.entry \in [ExfatNames -> ExfatEntry]
      /\ e.entry["file"] = gone /\ e.entry["dir"] = m.entry["dir"]
  BY <1>1, <1>3, <1>4 DEF ExfatNames
<1>6. {2, 3, ExfatRoot} \subseteq e.bitmap
  BY <1>1, <1>2, <1>3 DEF ExfatMade, rest
<1>7. ExfatVolume(e) /\ SameHead(m, e)
  BY <1>3 DEF ExfatMade, ExfatVolume, SameHead
<1> QED BY <1>3, <1>4, <1>5, <1>6, <1>7 DEF ExfatMade

\* Whatever a driver does, its memory stays a volume.
LEMMA ExfatWrites ==
  ASSUME NEW m, ExfatMade(m), NEW e \in ExfatChanges(m)
  PROVE  ExfatMade(e) /\ SameHead(m, e)
<1> DEFINE free == ExfatNumbers \ m.bitmap
           chained(a, b) == [m.fat EXCEPT ![m.active][a] = b, ![m.active][b] = EndOfChain]
           withDir(c) == [m EXCEPT !.entry["dir"] = [there |-> TRUE, first |-> c, count |-> 1, contiguous |-> TRUE],
                                   !.bitmap = @ \cup {c}]
           withFile(a) == [m EXCEPT !.entry["file"] = [there |-> TRUE, first |-> a[1], count |-> 2, contiguous |-> a[3]],
                      !.bitmap = @ \cup {a[1], a[2]},
                      !.fat = IF a[3] THEN @ ELSE chained(a[1], a[2])]
           choices == {x \in free \X free \X BOOLEAN :
                       /\ m.entry["dir"].there /\ ~m.entry["file"].there
                       /\ x[1] # x[2] /\ (x[3] => x[2] = x[1] + 1)}
           without == [m EXCEPT !.entry["file"].there = FALSE,
                      !.bitmap = @ \ Claimed(m, m.entry["file"]).clusters]
<1>1. CASE \E c \in free : e = withDir(c)
  BY <1>1, ExfatWritesDirectory
<1>2. CASE \E a \in choices : e = withFile(a)
  <2>1. PICK a \in choices : e = withFile(a)
    BY <1>2
  <2>2. a[1] \in free /\ a[2] \in free /\ a[3] \in BOOLEAN /\ a[1] # a[2] /\ (a[3] => a[2] = a[1] + 1)
    OBVIOUS
  <2> DEFINE p == a[1]
             q == a[2]
             t == a[3]
  <2>3. e = WithFile(m, p, q, t)
    BY <2>1 DEF WithFile
  <2>4. p \in ExfatNumbers \ m.bitmap /\ q \in ExfatNumbers \ m.bitmap /\ t \in BOOLEAN /\ p # q /\ (t => q = p + 1)
    BY <2>2
  <2> HIDE DEF p, q, t
  <2> QED BY <2>3, <2>4, ExfatWritesFile
<1>3. CASE m.entry["file"].there /\ e = without
  BY <1>3, ExfatRemovesFile
<1>4. ExfatChanges(m) = {withDir(c) : c \in IF m.entry["dir"].there THEN {} ELSE free}
                        \cup {withFile(a) : a \in choices}
                        \cup {without : x \in {y \in {1} : m.entry["file"].there}}
  BY DEF ExfatChanges
<1> HIDE DEF free, withDir, withFile, choices, without
<1> QED BY <1>1, <1>2, <1>3, <1>4

\* What one write leaves on the disk: some of the old, some of the new.
LEMMA ExfatFlushes ==
  ASSUME NEW d, NEW m, ExfatVolume(d), ExfatVolume(m), SameHead(d, m), NEW e \in ExfatFlushed(d, m)
  PROVE  ExfatVolume(e) /\ SameHead(d, e)
<1>1. DOMAIN d = {"active", "volume", "checksum", "dirty", "bitmap", "fat", "entry"}
  BY DEF ExfatVolume
<1>2. \/ e = [d EXCEPT !["dirty"] = m["dirty"]]
      \/ e = [d EXCEPT !["bitmap"] = m["bitmap"]]
      \/ e = [d EXCEPT !["fat"] = m["fat"]]
      \/ \E n \in ExfatNames : e = [d EXCEPT !.entry[n] = m.entry[n]]
  BY DEF ExfatFlushed, WriteBack
<1>3. /\ DOMAIN e = DOMAIN d /\ e.active = d.active /\ e.volume = d.volume /\ e.checksum = d.checksum
      /\ e.bitmap \in {d.bitmap, m.bitmap} /\ e.fat \in {d.fat, m.fat}
  BY <1>1, <1>2
<1> QED BY <1>3 DEF ExfatVolume, SameHead

\* An exFAT on the disk and in a driver's memory.
ExfatInv ==
  kind = "exfat" =>
    /\ ExfatVolume(disk) /\ ExfatVolume(mem) /\ SameHead(disk, mem)
    /\ whole => ExfatMade(mem)
    /\ known => /\ disk.checksum /\ disk.fat[disk.active][2] = 3
                /\ ExfatHeap + ExfatClusters <= disk.volume /\ disk.volume <= Size

\* Volumes are made so.
LEMMA ExfatMakes ==
  ASSUME NEW d \in ExfatFresh
  PROVE  ExfatMade(d)
<1> DEFINE table(next) == [c \in ExfatNumbers |-> IF c = 2 THEN next ELSE IF c \in {3, ExfatRoot} THEN EndOfChain ELSE 0]
           make(active, next, volume, checksum) ==
             [active |-> active, volume |-> volume, checksum |-> checksum, dirty |-> FALSE, bitmap |-> {2, 3, 4},
              fat |-> [f \in 1..2 |-> IF f = active THEN table(next) ELSE [c \in ExfatNumbers |-> 0]],
              entry |-> [n \in ExfatNames |-> NoEntry]]
           end == ExfatHeap + ExfatClusters
<1>1. PICK active \in 1..2, next \in {3, 5}, volume \in {end, Size + 1}, checksum \in BOOLEAN :
        d = make(active, next, volume, checksum)
  <2>1. \/ d = make(1, 3, end, TRUE) \/ d = make(2, 3, end, TRUE) \/ d = make(1, 5, end, TRUE)
        \/ d = make(1, 3, end, FALSE) \/ d = make(1, 3, Size + 1, TRUE)
    BY DEF ExfatFresh
  <2>2. 1 \in 1..2 /\ 2 \in 1..2
    OBVIOUS
  <2> HIDE DEF make, end
  <2> QED BY <2>1, <2>2
<1>2. {2, 3, 4} \subseteq ExfatNumbers /\ volume \in Nat
  BY ExfatAssumption, SizeAssumption DEF ExfatNumbers
<1>3. /\ DOMAIN d = {"active", "volume", "checksum", "dirty", "bitmap", "fat", "entry"}
      /\ d.active = active /\ d.volume = volume /\ d.bitmap = {2, 3, 4}
      /\ d.entry = [n \in ExfatNames |-> NoEntry]
      /\ DOMAIN d.fat = 1..2 /\ d.fat[active] = table(next)
  BY <1>1
<1>4. NoEntry \in ExfatEntry /\ NoEntry.there = FALSE
  BY <1>2 DEF NoEntry, ExfatEntry
<1>5. DOMAIN table(next) = ExfatNumbers /\ table(next)[2] = next
  BY <1>2
<1>6. ExfatVolume(d)
  BY <1>2, <1>3, <1>5 DEF ExfatVolume
<1>7. /\ d.entry \in [ExfatNames -> ExfatEntry]
      /\ ~d.entry["dir"].there /\ ~d.entry["file"].there
  BY <1>3, <1>4 DEF ExfatNames
<1> QED BY <1>3, <1>6, <1>7 DEF ExfatMade, ExfatRoot

\* So the invariant holds when it was made,
LEMMA ExfatBegins == ASSUME InitVolume PROVE ExfatInv
<1> SUFFICES ASSUME kind = "exfat" PROVE ExfatInv
  BY DEF ExfatInv
<1>1. disk \in ExfatFresh /\ mem = disk
  BY DEF InitVolume, Fresh
<1>2. ExfatMade(disk)
  BY <1>1, ExfatMakes
<1>3. known => ExfatRead(disk, Copy).ok
  BY DEF InitVolume, Partition, PartitionOf, InFull, Read
<1>4. known => /\ disk.checksum /\ SystemFile(disk, 2, 2)
               /\ ExfatHeap + ExfatClusters <= disk.volume /\ disk.volume <= Size
  BY <1>3 DEF ExfatRead, Result, Bad
<1> QED BY <1>1, <1>2, <1>4, BitmapInARow DEF ExfatInv, SameHead, ExfatMade

\* and goes on to hold.
LEMMA ExfatGoesOn == ASSUME ExfatInv, Lifecycle, NextVolume PROVE ExfatInv'
<1> SUFFICES ASSUME kind = "exfat" PROVE ExfatInv'
  BY LifeSteps DEF ExfatInv
<1>1. /\ ExfatVolume(disk) /\ ExfatVolume(mem) /\ SameHead(disk, mem)
      /\ whole => ExfatMade(mem)
  BY DEF ExfatInv
<1>2. /\ Mounted(kind, disk) = [disk EXCEPT !.dirty = TRUE] /\ Unmounted(kind, mem) = [mem EXCEPT !.dirty = FALSE]
      /\ Changes(kind, mem) = ExfatChanges(mem) /\ Flushed(kind, disk, mem) = ExfatFlushed(disk, mem)
      /\ Damages(kind, disk) = {}
  BY DEF Mounted, Unmounted, Changes, Flushed, Damages, ExfatMounted, ExfatUnmounted
<1>3. \A d, e, f : SameHead(d, d) /\ (SameHead(d, e) => SameHead(e, d)) /\ (SameHead(d, e) /\ SameHead(e, f) => SameHead(d, f))
  BY DEF SameHead
<1>4. /\ ExfatVolume(disk') /\ ExfatVolume(mem') /\ SameHead(disk, disk') /\ SameHead(disk', mem')
      /\ whole' => ExfatMade(mem')
  <2>1. CASE disk' = disk /\ mem' = Mounted(kind, disk) /\ phase = "idle" /\ whole /\ whole' = whole
    BY <1>1, <1>2, <1>3, <2>1, ExfatMarks DEF Lifecycle, ExfatMade
  <2>2. CASE disk' = disk /\ mem' \in Changes(kind, mem) /\ phase = "mounted" /\ whole' = whole
    BY <1>1, <1>2, <1>3, <2>2, ExfatWrites DEF Lifecycle, ExfatMade
  <2>3. CASE mem' = mem /\ disk' \in Flushed(kind, disk, mem) /\ whole' = whole
    BY <1>1, <1>2, <1>3, <2>3, ExfatFlushes
  <2>4. CASE disk' = disk /\ disk = mem /\ mem' = Unmounted(kind, mem) /\ phase = "mounted" /\ whole' = whole
    BY <1>1, <1>2, <1>3, <2>4, ExfatMarks DEF Lifecycle, ExfatMade
  <2>5. CASE disk' = disk /\ mem' = mem /\ whole' = whole
    BY <1>1, <1>3, <2>5
  <2>6. CASE disk' = disk /\ mem' = disk /\ whole' = FALSE
    BY <1>1, <1>3, <2>6
  <2>7. CASE disk' \in Damages(kind, disk)
    BY <1>2, <2>7
  <2> QED BY <2>1, <2>2, <2>3, <2>4, <2>5, <2>6, <2>7, LifeSteps
<1>5. kind' = kind /\ known' = known
  BY LifeSteps
<1> QED BY <1>4, <1>5 DEF ExfatInv, SameHead

\* What a driver has in memory can be read.
LEMMA ExfatClean ==
  ASSUME NEW d, ExfatMade(d), d.checksum, d.fat[d.active][2] = 3,
         ExfatHeap + ExfatClusters <= d.volume, d.volume <= Size
  PROVE  ExfatRead(d, Copy).ok
<1>1. ExfatVolume(d) /\ SystemFile(d, 2, 2)
  BY BitmapInARow DEF ExfatMade
<1>2. ASSUME NEW n \in ExfatEntries(d) PROVE Claimed(d, d.entry[n]).ok
  <2> DEFINE f == d.entry[n]
             t == d.fat[d.active]
             x == f.first
  <2>1. n \in {"dir", "file"} /\ f.there /\ f \in ExfatEntry
    BY DEF ExfatEntries, ExfatNames, ExfatMade
  <2>2. x \in ExfatNumbers /\ f.contiguous \in BOOLEAN
    BY <2>1 DEF ExfatEntry
  <2>3. CASE n = "dir"
    <3>1. Claimed(d, f) = Follow(t, x, 1, TRUE)
      <4>1. f.count = 1 /\ f.contiguous
        BY <2>1, <2>3 DEF ExfatMade
      <4> QED BY <4>1, <2>2 DEF Claimed
    <3> DEFINE run == [i \in 1..1 |-> x + i - 1]
               okOf(c) == 1 >= 1 /\ \A i \in 1..1 : c[i] \in ExfatNumbers
    <3>2. run[1] = x
      BY <2>2, ExfatAssumption DEF ExfatNumbers
    <3>3. Follow(t, x, 1, TRUE).ok <=> okOf(run)
      BY DEF Follow
    <3> HIDE DEF x, t, run
    <3>4. 1..1 = {1}
      OBVIOUS
    <3>5. okOf(run)
      BY <2>2, <3>2, <3>4
    <3> HIDE DEF okOf
    <3>6. Follow(t, x, 1, TRUE).ok
      BY <3>3, <3>5
    <3> QED BY <3>1, <3>6
  <2>4. CASE n = "file"
    <3>1. f.count = 2 /\ Second(d, f) \in ExfatNumbers
      BY <2>1, <2>4 DEF ExfatMade
    <3>2. Claimed(d, f) = Follow(t, x, 2, f.contiguous)
      BY <3>1 DEF Claimed
    <3>3. Second(d, f) = IF f.contiguous THEN x + 1 ELSE t[x]
      BY DEF Second
    <3> HIDE DEF t, x
    <3>4. Follow(t, x, 2, FALSE).ok <=> t[x] \in ExfatNumbers
      BY <2>2, FollowsTwo
    <3>5. Follow(t, x, 2, TRUE).ok <=> x + 1 \in ExfatNumbers
      BY <2>2, FollowsTwo
    <3>6. CASE f.contiguous = TRUE
      BY <3>1, <3>2, <3>3, <3>5, <3>6
    <3>7. CASE f.contiguous = FALSE
      BY <3>1, <3>2, <3>3, <3>4, <3>7
    <3> QED BY <2>2, <3>6, <3>7
  <2> QED BY <2>1, <2>3, <2>4
<1>3. ExfatRoot \in ExfatNumbers
  BY ExfatAssumption DEF ExfatRoot, ExfatNumbers
<1> QED BY <1>1, <1>2, <1>3 DEF ExfatRead, Result, Usage

\* An exFAT that is understood is kept; one that was understood when it was made is
\* understood whenever it was unmounted.
LEMMA ExfatUnderstood == ASSUME ExfatInv, Lifecycle, kind = "exfat" PROVE
  /\ Read(kind, disk, Copy).ok => Keeps(Read(kind, disk, Copy), NeedOf(kind, disk))
  /\ phase = "idle" /\ whole /\ known => Read(kind, disk, Copy).ok
<1>1. Read(kind, disk, Copy) = ExfatRead(disk, Copy) /\ NeedOf(kind, disk) = ExfatNeed(disk)
  BY DEF Read, NeedOf
<1>2. phase = "idle" /\ whole /\ known => ExfatRead(disk, Copy).ok
  BY ExfatClean DEF ExfatInv, Lifecycle
<1>3. ExfatRead(disk, Copy).ok => Keeps(ExfatRead(disk, Copy), ExfatNeed(disk))
  BY ExfatKeeps DEF ExfatInv
<1> QED BY <1>1, <1>2, <1>3

(* btrfs *)

\* A btrfs whose chunks are on its one device.
BtrfsVolume(d) ==
  /\ DOMAIN d = {"sb", "mirror", "tree", "chunks", "system", "devices", "unknown", "room"}
  /\ d.room = Size
  /\ \A c \in d.chunks : c.logical \in Nat /\ c.len \in Nat /\ c.stripes \subseteq Nat

\* What is kept of a btrfs (btrfs.rs read): the superblocks, chunks of metadata in full,
\* and of the others where the extent tree of the last commit has something.
LEMMA BtrfsKeeps ==
  ASSUME NEW d, BtrfsVolume(d), BtrfsRead(d, Copy).ok
  PROVE  Keeps(BtrfsRead(d, Copy), BtrfsNeed(d))
<1> DEFINE held == IF d.tree[d.sb.root].generation = d.sb.generation THEN d.tree[d.sb.root].extents \cup d.sb.log ELSE 4..7
           place(c, s) == IF Linear(c) THEN {s + x - c.logical : x \in held \cap Logical(c)} ELSE Stripe(s, c)
           wanted(c) == UNION {IF "data" \in c.types THEN place(c, s) ELSE Stripe(s, c) : s \in c.stripes}
           kept == UNION {KeptOf(d, c) : c \in d.chunks}
<1>1. /\ BtrfsSuper(d, Copy) /\ SystemChunks(d) /\ ChunksSound(d) /\ TreeBlock(d, d.sb.root)
      /\ BtrfsRead(d, Copy).used = {0, BtrfsMirror} \cup kept
      /\ BtrfsRead(d, Copy).end = BtrfsSize
  BY DEF BtrfsRead, Result, Bad, Usage
<1>2. d.devices = 1 /\ ~d.unknown /\ BtrfsSize <= Size /\ d.sb.log = {}
  BY <1>1 DEF BtrfsSuper, BtrfsVolume
<1>3. held = d.tree[d.sb.root].extents
  BY <1>1, <1>2 DEF TreeBlock
<1>4. /\ BtrfsSize \in Nat /\ BtrfsSize > 0 /\ Size \in Nat
      /\ {0, BtrfsMirror} \subseteq 0..(BtrfsSize - 1) /\ 0..(BtrfsSize - 1) \subseteq Cells
  BY <1>2, BtrfsAssumption, SizeAssumption DEF Cells
<1>5. BtrfsNeed(d) = {0, BtrfsMirror} \cup BtrfsSize..(Size - 1) \cup UNION {wanted(c) : c \in d.chunks}
  <2>1. ~(d.devices > 1 \/ d.unknown \/ ~SystemChunks(d) \/ ~ChunksSound(d))
    BY <1>1, <1>2
  <2> QED BY <2>1 DEF BtrfsNeed
<1>6. ASSUME NEW c \in d.chunks, NEW s \in c.stripes
      PROVE  /\ (IF "data" \in c.types THEN place(c, s) ELSE Stripe(s, c))
                  \subseteq (IF HoldsData(c) /\ Linear(c) THEN {s + x - c.logical : x \in ExtentsIn(d, c)} ELSE Stripe(s, c))
             /\ (IF "data" \in c.types THEN place(c, s) ELSE Stripe(s, c)) \subseteq Cells
  <2>1. c.logical \in Nat /\ c.len \in Nat /\ s \in Nat
    BY DEF BtrfsVolume
  <2>2. Stripe(s, c) \subseteq Cells
    BY <1>1, <1>4 DEF ChunksSound
  <2>3. ExtentsIn(d, c) = held \cap Logical(c)
    BY <1>3 DEF ExtentsIn
  <2>4. ASSUME Linear(c) PROVE {s + x - c.logical : x \in held \cap Logical(c)} \subseteq Stripe(s, c)
    <3>1. \A x \in Logical(c) : s + x - c.logical \in Stripe(s, c)
      BY <2>1, <2>4 DEF Linear, Logical, Stripe, Span
    <3> QED BY <3>1
  <2>5. HoldsData(c) => "data" \in c.types
    BY DEF HoldsData
  <2> HIDE DEF held
  <2> QED BY <2>2, <2>3, <2>4, <2>5
<1>7. \A c \in d.chunks : wanted(c) \subseteq KeptOf(d, c) /\ wanted(c) \subseteq Cells
  <2> TAKE c \in d.chunks
  <2> SUFFICES ASSUME NEW x \in wanted(c) PROVE x \in KeptOf(d, c) /\ x \in Cells
    OBVIOUS
  <2>1. PICK s \in c.stripes : x \in IF "data" \in c.types THEN place(c, s) ELSE Stripe(s, c)
    OBVIOUS
  <2>2. x \in (IF HoldsData(c) /\ Linear(c) THEN {s + y - c.logical : y \in ExtentsIn(d, c)} ELSE Stripe(s, c))
    BY <1>6, <2>1
  <2>3. x \in Cells
    BY <1>6, <2>1
  <2> QED BY <2>2, <2>3 DEF KeptOf
<1> HIDE DEF wanted
<1>8. UNION {wanted(c) : c \in d.chunks} \subseteq kept \cap Cells
  BY <1>7
<1> HIDE DEF kept
<1>9. (IF BtrfsRead(d, Copy).end < Size THEN BtrfsRead(d, Copy).end ELSE Size) = BtrfsSize
  BY <1>1, <1>2, <1>4
<1> QED BY <1>1, <1>4, <1>5, <1>8, <1>9 DEF Keeps

\* Two states of one volume.
SameDevice(d, e) == DOMAIN e = DOMAIN d /\ e.room = d.room /\ e.chunks = d.chunks

\* The chunks stay where they are, whatever is committed, flushed or lost.
LEMMA BtrfsWrites ==
  ASSUME NEW d, BtrfsVolume(d), NEW m
  PROVE  /\ SameDevice(d, BtrfsUnmounted(d))
         /\ \A e \in BtrfsChanges(d) : SameDevice(d, e)
         /\ \A e \in BtrfsFlushed(d, m) : SameDevice(d, e)
         /\ \A e \in BtrfsDamaged(d) : SameDevice(d, e)
<1>1. DOMAIN d = {"sb", "mirror", "tree", "chunks", "system", "devices", "unknown", "room"}
  BY DEF BtrfsVolume
<1>2. \A x : SameDevice(d, BtrfsCommit(d, x))
  BY <1>1 DEF SameDevice, BtrfsCommit
<1>3. SameDevice(d, BtrfsUnmounted(d))
  BY <1>2 DEF SameDevice, BtrfsUnmounted
<1>4. \A e \in BtrfsChanges(d) : SameDevice(d, e)
  <2>1. \A x : SameDevice(d, [d EXCEPT !.sb.log = {x}])
    BY <1>1 DEF SameDevice
  <2> QED BY <1>2, <2>1 DEF BtrfsChanges
<1>5. \A e \in BtrfsFlushed(d, m) : SameDevice(d, e)
  <2>1. \A p \in {"tree", "sb", "mirror"} : SameDevice(d, [d EXCEPT ![p] = m[p]])
    BY <1>1 DEF SameDevice
  <2> QED BY <2>1 DEF BtrfsFlushed, WriteBack
<1>6. \A e \in BtrfsDamaged(d) : SameDevice(d, e)
  <2>1. SameDevice(d, [d EXCEPT !.mirror.whole = FALSE])
    BY <1>1 DEF SameDevice
  <2>2. SameDevice(d, [d EXCEPT !.tree[d.sb.root].whole = FALSE])
    BY <1>1 DEF SameDevice
  <2>3. SameDevice(d, [d EXCEPT !.tree[d.sb.root] = [d.tree[3 - d.sb.root] EXCEPT !.whole = TRUE]])
    BY <1>1 DEF SameDevice
  <2> QED BY <2>1, <2>2, <2>3 DEF BtrfsDamaged
<1> QED BY <1>3, <1>4, <1>5, <1>6

\* A btrfs on the disk and in a driver's memory.
BtrfsInv == kind = "btrfs" => BtrfsVolume(disk) /\ BtrfsVolume(mem)

\* Volumes are made so.
LEMMA BtrfsBegins == ASSUME InitVolume PROVE BtrfsInv
<1> SUFFICES ASSUME kind = "btrfs" PROVE BtrfsVolume(disk)
  BY DEF InitVolume, BtrfsInv
<1>1. disk \in BtrfsFresh
  BY DEF InitVolume, Fresh
<1>2. /\ DOMAIN disk = {"sb", "mirror", "tree", "chunks", "system", "devices", "unknown", "room"}
      /\ disk.room = Size
  BY <1>1 DEF BtrfsFresh
<1> DEFINE chunk(c) == c.logical \in Nat /\ c.len \in Nat /\ c.stripes \subseteq Nat
<1>3. chunk(BtrfsSystem) /\ chunk(BtrfsMetadata) /\ \A c \in BtrfsData : chunk(c)
  BY DEF BtrfsSystem, BtrfsMetadata, BtrfsData, Chunk
<1>4. chunk(Chunk(4, 4, {"data"}, "single", {6})) /\ chunk(Chunk(4, 4, {"data"}, "single", {4}))
  BY DEF Chunk
<1>5. disk.chunks \subseteq {BtrfsSystem, BtrfsMetadata} \cup BtrfsData
                            \cup {Chunk(4, 4, {"data"}, "single", {6}), Chunk(4, 4, {"data"}, "single", {4})}
  BY <1>1 DEF BtrfsFresh
<1> QED BY <1>2, <1>3, <1>4, <1>5 DEF BtrfsVolume

\* And stay so.
LEMMA BtrfsGoesOn == ASSUME BtrfsInv, NextVolume PROVE BtrfsInv'
<1> SUFFICES ASSUME kind = "btrfs" PROVE BtrfsInv'
  BY LifeSteps DEF BtrfsInv
<1>1. BtrfsVolume(disk) /\ BtrfsVolume(mem)
  BY DEF BtrfsInv
<1>2. /\ Mounted(kind, disk) = disk /\ Unmounted(kind, mem) = BtrfsUnmounted(mem)
      /\ Changes(kind, mem) = BtrfsChanges(mem) /\ Flushed(kind, disk, mem) = BtrfsFlushed(disk, mem)
      /\ Damages(kind, disk) = BtrfsDamaged(disk)
  BY DEF Mounted, Unmounted, Changes, Flushed, Damages, BtrfsMounted
<1>3. \A d, e : BtrfsVolume(d) /\ SameDevice(d, e) => BtrfsVolume(e)
  BY DEF BtrfsVolume, SameDevice
<1>4. /\ SameDevice(mem, BtrfsUnmounted(mem))
      /\ \A e \in BtrfsChanges(mem) : SameDevice(mem, e)
      /\ \A e \in BtrfsFlushed(disk, mem) : SameDevice(disk, e)
      /\ \A e \in BtrfsDamaged(disk) : SameDevice(disk, e)
  BY <1>1, BtrfsWrites
<1>5. BtrfsVolume(disk')
  BY <1>1, <1>2, <1>3, <1>4, LifeWrites
<1>6. BtrfsVolume(mem')
  BY <1>1, <1>2, <1>3, <1>4, <1>5, LifeWrites
<1> QED BY <1>5, <1>6 DEF BtrfsInv

\* A btrfs that is understood is kept.
LEMMA BtrfsUnderstood == ASSUME BtrfsInv, kind = "btrfs" PROVE
  Read(kind, disk, Copy).ok => Keeps(Read(kind, disk, Copy), NeedOf(kind, disk))
<1>1. Read(kind, disk, Copy) = BtrfsRead(disk, Copy) /\ NeedOf(kind, disk) = BtrfsNeed(disk)
  BY DEF Read, NeedOf
<1> QED BY <1>1, BtrfsKeeps DEF BtrfsInv

(* UDF *)

\* An integrity descriptor.
UdfOpening == [closed : BOOLEAN, free : Int]

\* A UDF on a disk: only one that can be written keeps track of its free blocks.
UdfVolume(d) ==
  /\ DOMAIN d = {"anchored", "main", "reserve", "maps", "freed", "readOnly", "integrity", "space", "files", "iso"}
  /\ d.integrity \in Seq(UdfOpening) /\ (d.readOnly <=> d.integrity = <<>>)
  /\ DOMAIN d.space = {"kind", "at", "free"} /\ d.space.at = 1
  /\ d.space.kind \in {"bitmap", "table", "none"}
  /\ d.readOnly => d.space.kind = "none"
  /\ d.iso \in 0..Size /\ (d.space.kind # "none" => d.iso = 0 /\ ~d.freed)
  /\ d.files \subseteq 0..(UdfBlocks - 1)

\* Closed with what is free apart from the files, or a table of zeros.
UdfSound(d) ==
  \/ d.space.kind = "none" \/ 1 \in d.space.free
  \/ /\ d.space.free \subseteq 2..(UdfBlocks - 1)
     /\ LastIntegrity(d).closed => d.space.free \cap d.files = {}

\* The descriptors are on the partition.
LEMMA UdfKeptInside == UdfKept \subseteq Cells
<1>1. Span(UdfIntegrity, UdfRoom) \subseteq Cells
  <2> SUFFICES ASSUME NEW x \in UdfIntegrity..(UdfIntegrity + UdfRoom - 1)
               PROVE  x \in 0..(Size - 1)
    BY DEF Span, Cells
  <2> QED BY UdfAssumption, SizeAssumption
<1> QED BY <1>1, UdfAssumption DEF UdfKept

\* What is kept of a UDF (udf.rs read): its descriptors, and every block that is not
\* free, or all that is recorded where nothing tells what is free.
LEMMA UdfKeeps ==
  ASSUME NEW d, UdfVolume(d), UdfSound(d), UdfRead(d, Copy).ok
  PROVE  Keeps(UdfRead(d, Copy), UdfNeed(d))
<1> DEFINE has == d.space.kind \in {"bitmap", "table"}
           end == IF has THEN UdfAt(UdfBlocks) ELSE Size
           data == IF has THEN Span(0, UdfStart) \cup {UdfAt(b) : b \in (0..(UdfBlocks - 1)) \ UdfFree(d)}
                   ELSE Span(0, UdfRecorded(d))
<1>1. /\ d.maps = "physical" /\ UdfAt(UdfBlocks) <= Size
      /\ UdfClosed(d, Copy) /\ UdfSpace(d, Copy)
      /\ UdfRead(d, Copy).used = data \cup (UdfKept \cap 0..(end - 1))
      /\ UdfRead(d, Copy).end = end
  BY DEF UdfRead, Result, Bad, Usage
<1>2. /\ Size \in Nat /\ UdfStart \in Nat /\ UdfBlocks \in Nat /\ UdfBlocks >= 2
      /\ UdfAt(UdfBlocks) = UdfStart + UdfBlocks
      /\ Cells = 0..(Size - 1)
  BY UdfAssumption, SizeAssumption DEF UdfAt, Cells
<1>3. end \in Nat /\ end <= Size
  BY <1>1, <1>2
<1>4. (IF UdfRead(d, Copy).end < Size THEN UdfRead(d, Copy).end ELSE Size) = end
  BY <1>1, <1>2, <1>3
<1>10. UdfKept \subseteq (UdfRead(d, Copy).used \cap Cells) \cup end..(Size - 1)
  <2> SUFFICES ASSUME NEW x \in UdfKept, x \notin end..(Size - 1)
               PROVE  x \in UdfRead(d, Copy).used \cap Cells
    OBVIOUS
  <2>1. x \in 0..(Size - 1)
    BY <1>2, UdfKeptInside
  <2> HIDE DEF end
  <2>2. x \in 0..(end - 1)
    BY <1>2, <1>3, <2>1
  <2> QED BY <1>1, <1>2, <2>1, <2>2
<1>11. ASSUME UdfNeed(d) \subseteq (UdfRead(d, Copy).used \cap Cells) \cup end..(Size - 1)
       PROVE  Keeps(UdfRead(d, Copy), UdfNeed(d))
  BY <1>4, <1>11 DEF Keeps
<1>5. CASE has
  <2>1. /\ d.space.kind # "none" /\ d.integrity # <<>> /\ d.iso = 0 /\ end = UdfStart + UdfBlocks
        /\ d.files \subseteq 0..(UdfBlocks - 1)
    BY <1>2, <1>5 DEF UdfVolume
  <2>2. LastIntegrity(d).closed
    BY <1>1, <2>1 DEF UdfClosed
  <2>3. 1 \notin UdfFree(d)
    BY <1>1, <1>5 DEF UdfSpace, BitmapSpace, TableSpace, UdfVolume
  <2>4. 1 \notin d.space.free
    BY <1>2, <2>3 DEF UdfFree
  <2>5. ({0, 1} \cup d.files) \cap UdfFree(d) = {}
    BY <1>2, <2>1, <2>2, <2>4 DEF UdfSound, UdfFree
  <2>6. {0, 1} \cup d.files \subseteq (0..(UdfBlocks - 1)) \ UdfFree(d)
    BY <1>2, <2>1, <2>5
  <2>7. UdfNeed(d) = UdfKept \cup Span(0, UdfStart) \cup Span(0, 0)
                     \cup ({UdfAt(b) : b \in {0, 1} \cup d.files} \cup UdfAt(UdfBlocks)..(Size - 1))
    <3>1. d.maps = "physical" /\ ~d.freed
      BY <1>1, <1>5 DEF UdfVolume
    <3> QED BY <2>1, <3>1 DEF UdfNeed
  <2>8. {UdfAt(b) : b \in {0, 1} \cup d.files} \subseteq UdfRead(d, Copy).used \cap Cells
    <3>1. {UdfAt(b) : b \in {0, 1} \cup d.files} \subseteq UdfRead(d, Copy).used
      BY <1>1, <1>5, <2>6
    <3>2. \A b \in 0..(UdfBlocks - 1) : UdfAt(b) \in Cells
      BY <1>1, <1>2 DEF UdfAt
    <3> QED BY <2>6, <3>1, <3>2
  <2>9. Span(0, UdfStart) \subseteq UdfRead(d, Copy).used \cap Cells /\ Span(0, 0) = {}
    <3>1. Span(0, UdfStart) = 0..(UdfStart - 1) /\ Span(0, 0) = {}
      BY <1>2 DEF Span
    <3>2. 0..(UdfStart - 1) \subseteq Cells
      BY <1>2, <1>3, <2>1
    <3> QED BY <1>1, <1>5, <3>1, <3>2
  <2>10. UdfAt(UdfBlocks)..(Size - 1) = end..(Size - 1)
    BY <1>5
  <2> HIDE DEF end
  <2> QED BY <1>10, <1>11, <2>7, <2>8, <2>9, <2>10
<1>6. CASE ~has
  <2>1. d.space.kind = "none" /\ end = Size
    BY <1>6 DEF UdfVolume
  <2>2. ~d.freed
    BY <1>1, <2>1 DEF UdfSpace
  <2> DEFINE S == {UdfStart + UdfBlocks, d.iso} \cup {c + 1 : c \in UdfKept}
             top == UdfMaximum(S)
  <2>3. S \subseteq 0..Size
    <3>1. d.iso \in 0..Size
      BY DEF UdfVolume
    <3>2. \A c \in Cells : c + 1 \in 0..Size
      BY <1>2
    <3> QED BY <1>1, <1>2, <3>1, <3>2, UdfKeptInside
  <2>4. top \in 0..Size /\ UdfStart + UdfBlocks <= top /\ d.iso <= top
    <3> DEFINE P(x) == \A y \in S : y <= x
    <3>1. \E x \in S : P(x)
      BY <1>2, <2>3, GreatestExists
    <3>2. top = CHOOSE x \in S : P(x)
      BY DEF UdfMaximum
    <3>3. UdfStart + UdfBlocks \in S /\ d.iso \in S
      OBVIOUS
    <3> HIDE DEF P, S, top
    <3>4. top \in S /\ P(top)
      BY <3>1, <3>2
    <3> QED BY <2>3, <3>3, <3>4 DEF P
  <2>5. data = Span(0, top)
    BY <1>6 DEF UdfRecorded
  <2> HIDE DEF top
  <2>6. UdfNeed(d) = UdfKept \cup Span(0, UdfStart) \cup Span(0, d.iso) \cup {UdfAt(b) : b \in 0..(UdfBlocks - 1)}
    BY <1>1, <2>1, <2>2 DEF UdfNeed
  <2>7. d.iso \in Nat /\ top \in Nat
    BY <2>4 DEF UdfVolume
  <2>8. Span(0, top) = 0..(top - 1) /\ Span(0, UdfStart) = 0..(UdfStart - 1) /\ Span(0, d.iso) = 0..(d.iso - 1)
    BY <1>2, <2>7 DEF Span
  <2>9. \A b \in 0..(UdfBlocks - 1) : UdfAt(b) \in 0..(top - 1)
    BY <1>2, <2>4, <2>7 DEF UdfAt
  <2>10. 0..(top - 1) \subseteq Cells
    BY <1>2, <2>4, <2>7
  <2>11. 0..(UdfStart - 1) \subseteq 0..(top - 1) /\ 0..(d.iso - 1) \subseteq 0..(top - 1)
    BY <1>2, <2>4, <2>7
  <2>12. 0..(top - 1) \subseteq UdfRead(d, Copy).used \cap Cells
    BY <1>1, <2>5, <2>8, <2>10
  <2> HIDE DEF end, data
  <2> QED BY <1>10, <1>11, <2>6, <2>8, <2>9, <2>11, <2>12
<1> QED BY <1>5, <1>6

\* What a driver has in memory: no block is both free and a file's.
UdfMade(m) ==
  /\ UdfVolume(m)
  /\ m.space.free \subseteq 2..(UdfBlocks - 1) /\ m.files \subseteq 2..(UdfBlocks - 1)
  /\ m.space.free \cap m.files = {}

\* A volume that was closed counts its free blocks right.
UdfSettled(m) ==
  m.integrity # <<>> =>
    /\ LastIntegrity(m).closed
    /\ LastIntegrity(m).free = -1 \/ LastIntegrity(m).free = Cardinality(m.space.free)

\* Two states of one volume.
UdfSame(d, e) ==
  /\ DOMAIN e = DOMAIN d
  /\ e.anchored = d.anchored /\ e.main = d.main /\ e.reserve = d.reserve /\ e.maps = d.maps
  /\ e.freed = d.freed /\ e.readOnly = d.readOnly /\ e.iso = d.iso /\ e.space.kind = d.space.kind

\* A driver that opens or closes the volume says so, and counts.
LEMMA UdfRecords ==
  ASSUME NEW m, UdfMade(m), ~m.readOnly, NEW x \in BOOLEAN, NEW e, e = UdfRecord(m, x)
  PROVE  /\ UdfMade(e) /\ UdfSame(m, e) /\ e.space = m.space /\ e.files = m.files
         /\ LastIntegrity(e).closed <=> x
         /\ x => UdfSettled(e)
<1> DEFINE free == IF LastIntegrity(m).free = -1 THEN -1 ELSE Cardinality(m.space.free)
           at == IF Len(m.integrity) < UdfRoom THEN Len(m.integrity) + 1 ELSE UdfRoom
           new == [i \in 1..at |-> IF i = at THEN Integrity(x, free) ELSE m.integrity[i]]
<1>1. /\ DOMAIN m = {"anchored", "main", "reserve", "maps", "freed", "readOnly", "integrity", "space", "files", "iso"}
      /\ m.integrity \in Seq(UdfOpening)
  BY DEF UdfMade, UdfVolume
<1>2. Cardinality(m.space.free) \in Nat
  <2>1. IsFiniteSet(2..(UdfBlocks - 1))
    BY FS_Interval, UdfAssumption
  <2>2. IsFiniteSet(m.space.free)
    BY <2>1, FS_Subset DEF UdfMade
  <2> QED BY <2>2, FS_CardinalityType
<1>3. Integrity(x, free) \in UdfOpening
  BY <1>2 DEF Integrity, UdfOpening
<1>4. Len(m.integrity) \in Nat /\ at \in Nat /\ at >= 1 /\ at - 1 <= Len(m.integrity)
  BY <1>1, UdfAssumption
<1>5. \A i \in 1..Len(m.integrity) : m.integrity[i] \in UdfOpening
  BY <1>1
<1>6. e = [m EXCEPT !.integrity = new]
  BY DEF UdfRecord
<1> HIDE DEF free, at
<1>7. new \in Seq(UdfOpening) /\ Len(new) = at
  <2>1. \A i \in 1..at : new[i] \in UdfOpening
    BY <1>3, <1>4, <1>5
  <2> QED BY <1>4, <2>1
<1>8. new[at] = Integrity(x, free) /\ new # <<>>
  BY <1>4, <1>7
<1> HIDE DEF new
<1>9. /\ DOMAIN e = DOMAIN m /\ e.integrity = new /\ e.space = m.space /\ e.files = m.files
      /\ e.anchored = m.anchored /\ e.main = m.main /\ e.reserve = m.reserve /\ e.maps = m.maps
      /\ e.freed = m.freed /\ e.readOnly = m.readOnly /\ e.iso = m.iso
  BY <1>1, <1>6
<1>10. LastIntegrity(e) = Integrity(x, free)
  BY <1>7, <1>8, <1>9 DEF LastIntegrity
<1>11. LastIntegrity(e).closed = x /\ LastIntegrity(e).free = free
  BY <1>10 DEF Integrity
<1>12. UdfMade(e) /\ UdfSame(m, e)
  BY <1>7, <1>8, <1>9 DEF UdfMade, UdfVolume, UdfSame
<1>13. x => UdfSettled(e)
  BY <1>9, <1>11 DEF UdfSettled, free
<1> QED BY <1>9, <1>11, <1>12, <1>13

\* A driver that takes or frees a block.
LEMMA UdfWrites ==
  ASSUME NEW m, UdfMade(m), NEW e \in UdfChanges(m)
  PROVE  UdfMade(e) /\ UdfSame(m, e) /\ e.integrity = m.integrity
<1> DEFINE taken(b) == [m EXCEPT !.space.free = @ \ {b}, !.files = @ \cup {b}]
           freed(b) == [m EXCEPT !.space.free = @ \cup {b}, !.files = @ \ {b}]
<1>1. /\ DOMAIN m = {"anchored", "main", "reserve", "maps", "freed", "readOnly", "integrity", "space", "files", "iso"}
      /\ DOMAIN m.space = {"kind", "at", "free"}
  BY DEF UdfMade, UdfVolume
<1>2. (\E b \in m.space.free : e = taken(b)) \/ (\E b \in m.files : e = freed(b))
  BY DEF UdfChanges
<1> DEFINE rest == /\ DOMAIN e = DOMAIN m /\ e.integrity = m.integrity
                   /\ e.anchored = m.anchored /\ e.main = m.main /\ e.reserve = m.reserve /\ e.maps = m.maps
                   /\ e.freed = m.freed /\ e.readOnly = m.readOnly /\ e.iso = m.iso
                   /\ DOMAIN e.space = DOMAIN m.space /\ e.space.kind = m.space.kind /\ e.space.at = m.space.at
<1>3. /\ rest
      /\ \/ \E b \in m.space.free : e.space.free = m.space.free \ {b} /\ e.files = m.files \cup {b}
         \/ \E b \in m.files : e.space.free = m.space.free \cup {b} /\ e.files = m.files \ {b}
  <2>1. CASE \E b \in m.space.free : e = taken(b)
    BY <1>1, <2>1
  <2>2. CASE \E b \in m.files : e = freed(b)
    BY <1>1, <2>2
  <2> QED BY <1>2, <2>1, <2>2
<1>4. /\ m.space.free \subseteq 2..(UdfBlocks - 1) /\ m.files \subseteq 2..(UdfBlocks - 1)
      /\ m.space.free \cap m.files = {}
  BY DEF UdfMade
<1>5. /\ e.space.free \subseteq 2..(UdfBlocks - 1) /\ e.files \subseteq 2..(UdfBlocks - 1)
      /\ e.space.free \cap e.files = {}
  BY <1>3, <1>4
<1>6. e.files \subseteq 0..(UdfBlocks - 1)
  BY <1>5, UdfAssumption
<1> QED BY <1>3, <1>5, <1>6 DEF UdfMade, UdfVolume, UdfSame

\* A UDF on the disk and in a driver's memory: an open volume says so before anything
\* else of it is written, and is closed after all else is.
UdfInv ==
  kind = "udf" =>
    /\ UdfVolume(disk) /\ UdfVolume(mem) /\ UdfSame(disk, mem) /\ UdfSound(disk)
    /\ whole => UdfMade(mem)
    /\ phase = "mounted" => mem.readOnly \/ ~LastIntegrity(mem).closed
    /\ phase = "closing" => disk.space = mem.space /\ disk.files = mem.files
    /\ whole /\ phase # "mounted" => UdfSettled(mem)
    /\ known => /\ disk.anchored /\ Described(disk) /\ disk.maps = "physical" /\ UdfAt(UdfBlocks) <= Size
                /\ disk.space.kind = "none" => ~disk.freed

\* What one write leaves on the disk.
LEMMA UdfFlushes ==
  ASSUME NEW d, NEW m, UdfVolume(d), UdfMade(m), UdfSame(d, m), UdfSound(d),
         \/ m.readOnly \/ ~LastIntegrity(m).closed
         \/ d.space = m.space /\ d.files = m.files,
         NEW e \in UdfFlushed(d, m)
  PROVE  /\ UdfVolume(e) /\ UdfSame(d, e) /\ UdfSound(e)
         /\ d.space = m.space /\ d.files = m.files => e.space = m.space /\ e.files = m.files
<1>1. DOMAIN d = {"anchored", "main", "reserve", "maps", "freed", "readOnly", "integrity", "space", "files", "iso"}
  BY DEF UdfVolume
<1>2. \/ e = [d EXCEPT !["integrity"] = m["integrity"]]
      \/ d.integrity = m.integrity /\ e = [d EXCEPT !["space"] = m["space"]]
      \/ d.integrity = m.integrity /\ e = [d EXCEPT !["files"] = m["files"]]
  BY DEF UdfFlushed, WriteBack
<1>3. /\ DOMAIN e = DOMAIN d
      /\ e.anchored = d.anchored /\ e.main = d.main /\ e.reserve = d.reserve /\ e.maps = d.maps
      /\ e.freed = d.freed /\ e.readOnly = d.readOnly /\ e.iso = d.iso
      /\ \/ e.integrity = m.integrity /\ e.space = d.space /\ e.files = d.files
         \/ d.integrity = m.integrity /\ e.integrity = m.integrity /\ e.space = m.space /\ e.files = d.files
         \/ d.integrity = m.integrity /\ e.integrity = m.integrity /\ e.space = d.space /\ e.files = m.files
  BY <1>1, <1>2
<1>4. UdfVolume(e) /\ UdfSame(d, e)
  BY <1>3 DEF UdfVolume, UdfMade, UdfSame
<1>5. d.space = m.space /\ d.files = m.files => e.space = m.space /\ e.files = m.files
  BY <1>3
<1>6. UdfSound(e)
  <2>1. SUFFICES ASSUME e.space.kind # "none"
                 PROVE  UdfSound(e)
    BY DEF UdfSound
  <2>2. d.space.kind # "none" /\ m.space.kind # "none" /\ ~m.readOnly
    BY <1>4, <2>1 DEF UdfSame, UdfMade, UdfVolume
  <2>3. e.integrity = m.integrity
    BY <1>3
  <2>4. LastIntegrity(e) = LastIntegrity(m)
    BY <2>3 DEF LastIntegrity
  <2>5. /\ m.space.free \subseteq 2..(UdfBlocks - 1) /\ m.space.free \cap m.files = {}
    BY DEF UdfMade
  <2>6. 1 \in d.space.free \/ d.space.free \subseteq 2..(UdfBlocks - 1)
    BY <2>2 DEF UdfSound
  <2>7. CASE d.space = m.space /\ d.files = m.files
    BY <1>5, <2>5, <2>7 DEF UdfSound
  <2>8. CASE ~LastIntegrity(m).closed
    BY <1>3, <2>4, <2>5, <2>6, <2>8 DEF UdfSound
  <2> QED BY <2>2, <2>7, <2>8
<1> QED BY <1>4, <1>5, <1>6

\* Volumes are made so.
LEMMA UdfBegins == ASSUME InitVolume PROVE UdfInv
<1> SUFFICES ASSUME kind = "udf" PROVE UdfInv
  BY DEF UdfInv
<1>1. disk \in UdfFresh /\ mem = disk /\ phase = "idle"
  BY DEF InitVolume, Fresh
<1> DEFINE free == (0..(UdfBlocks - 1)) \ {0, 1}
           begun(count) == <<Integrity(TRUE, IF count THEN Cardinality(free) ELSE -1)>>
           fields(k, main, maps, freed, readOnly, count, iso) ==
             [anchored |-> TRUE, main |-> main, reserve |-> TRUE, maps |-> maps, freed |-> freed, readOnly |-> readOnly,
              integrity |-> IF readOnly THEN <<>> ELSE begun(count),
              space |-> [kind |-> k, at |-> 1, free |-> free], files |-> {}, iso |-> iso]
           make(k, main, maps, readOnly, count, iso) == fields(k, main, maps, FALSE, readOnly, count, iso)
           legal(k, freed, readOnly, iso) ==
             /\ k \in {"bitmap", "table", "none"} /\ iso \in 0..Size
             /\ readOnly => k = "none"
             /\ k # "none" => iso = 0 /\ ~freed
<1>2. Cardinality(free) \in Int
  <2>1. IsFiniteSet(0..(UdfBlocks - 1))
    BY FS_Interval, UdfAssumption
  <2>2. IsFiniteSet(free)
    BY <2>1, FS_Subset
  <2>3. Cardinality(free) \in Nat
    BY <2>2, FS_CardinalityType
  <2> HIDE DEF free
  <2> QED BY <2>3
<1>3. Size \in Nat /\ Size > 0
  BY SizeAssumption, UdfAssumption
<1> DEFINE isOne(d, count) ==
             /\ DOMAIN d = {"anchored", "main", "reserve", "maps", "freed", "readOnly", "integrity", "space", "files", "iso"}
             /\ d.space.free = free /\ d.space.at = 1 /\ DOMAIN d.space = {"kind", "at", "free"} /\ d.files = {}
             /\ d.readOnly \in BOOLEAN /\ d.integrity = IF d.readOnly THEN <<>> ELSE begun(count)
             /\ legal(d.space.kind, d.freed, d.readOnly, d.iso)
<1>4. ASSUME NEW k, NEW main, NEW maps, NEW freed, NEW readOnly \in BOOLEAN, NEW count, NEW iso,
             legal(k, freed, readOnly, iso)
      PROVE  isOne(fields(k, main, maps, freed, readOnly, count, iso), count)
  <2> DEFINE e == fields(k, main, maps, freed, readOnly, count, iso)
  <2> HIDE DEF free, begun
  <2>1. /\ DOMAIN e = {"anchored", "main", "reserve", "maps", "freed", "readOnly", "integrity", "space", "files", "iso"}
        /\ e.space = [kind |-> k, at |-> 1, free |-> free] /\ e.files = {} /\ e.freed = freed
        /\ e.readOnly = readOnly /\ e.iso = iso /\ e.integrity = IF readOnly THEN <<>> ELSE begun(count)
    OBVIOUS
  <2> HIDE DEF e
  <2>2. /\ e.space.free = free /\ e.space.at = 1 /\ DOMAIN e.space = {"kind", "at", "free"} /\ e.space.kind = k
    BY <2>1
  <2> HIDE DEF legal
  <2>3. isOne(e, count)
    BY <1>4, <2>1, <2>2
  <2> QED BY <2>3 DEF e
<1>17. \E count \in BOOLEAN : isOne(disk, count)
  <2> DEFINE other == [make("none", TRUE, "physical", FALSE, TRUE, 0) EXCEPT !.freed = TRUE]
  <2>1. UdfFresh = {make("bitmap", TRUE, "physical", FALSE, n, 0) : n \in BOOLEAN}
                   \cup {make("table", TRUE, "physical", FALSE, n, 0) : n \in BOOLEAN}
                   \cup {make("bitmap", FALSE, "physical", FALSE, TRUE, 0), make("bitmap", TRUE, "metadata", FALSE, TRUE, 0),
                         make("none", TRUE, "physical", TRUE, TRUE, 0), make("none", TRUE, "physical", TRUE, TRUE, Size - 1),
                         other}
    BY DEF UdfFresh
  <2>2. isOne(other, TRUE)
    <3> DEFINE e == make("none", TRUE, "physical", FALSE, TRUE, 0)
               f == [e EXCEPT !.freed = TRUE]
    <3> HIDE DEF fields
    <3>1. isOne(e, TRUE) /\ e.readOnly = FALSE /\ e.space.kind = "none"
      <4>1. legal("none", FALSE, FALSE, 0)
        BY <1>3
      <4>2. isOne(e, TRUE)
        BY <1>4, <4>1
      <4>3. e.readOnly = FALSE /\ e.space.kind = "none"
        <5> HIDE DEF free, begun
        <5> QED BY DEF fields
      <4> QED BY <4>2, <4>3
    <3> HIDE DEF e
    <3>2. /\ DOMAIN f = DOMAIN e /\ f.space = e.space /\ f.files = e.files /\ f.readOnly = e.readOnly
          /\ f.integrity = e.integrity /\ f.iso = e.iso
      BY <3>1
    <3> HIDE DEF free, begun, f
    <3>3. isOne(f, TRUE)
      BY <3>1, <3>2
    <3> QED BY <3>3 DEF f, e
  <2>3. /\ \A k \in {"bitmap", "table"} : legal(k, FALSE, FALSE, 0)
        /\ legal("none", FALSE, TRUE, 0) /\ legal("none", FALSE, TRUE, Size - 1)
    BY <1>3
  <2> HIDE DEF fields, isOne, legal, other
  <2>4. /\ \A n \in BOOLEAN : isOne(make("bitmap", TRUE, "physical", FALSE, n, 0), n)
        /\ \A n \in BOOLEAN : isOne(make("table", TRUE, "physical", FALSE, n, 0), n)
        /\ isOne(make("bitmap", FALSE, "physical", FALSE, TRUE, 0), TRUE)
        /\ isOne(make("bitmap", TRUE, "metadata", FALSE, TRUE, 0), TRUE)
        /\ isOne(make("none", TRUE, "physical", TRUE, TRUE, 0), TRUE)
        /\ isOne(make("none", TRUE, "physical", TRUE, TRUE, Size - 1), TRUE)
    BY <1>4, <2>3
  <2> HIDE DEF make
  <2> QED BY <1>1, <2>1, <2>2, <2>4
<1>18. PICK count \in BOOLEAN : isOne(disk, count)
  BY <1>17
<1> DEFINE readOnly == disk.readOnly
<1>5. /\ DOMAIN disk = {"anchored", "main", "reserve", "maps", "freed", "readOnly", "integrity", "space", "files", "iso"}
      /\ disk.space.free = free /\ disk.space.at = 1 /\ DOMAIN disk.space = {"kind", "at", "free"} /\ disk.files = {}
      /\ readOnly \in BOOLEAN /\ disk.integrity = IF readOnly THEN <<>> ELSE begun(count)
      /\ legal(disk.space.kind, disk.freed, readOnly, disk.iso)
  BY <1>18
<1> DEFINE number == IF count THEN Cardinality(free) ELSE -1
           first == Integrity(TRUE, number)
<1>6. first \in UdfOpening /\ first.closed /\ first.free = number
  BY <1>2 DEF Integrity, UdfOpening
<1>7. begun(count) = <<first>>
  OBVIOUS
<1> HIDE DEF first, begun
<1>16. begun(count) \in Seq(UdfOpening) /\ begun(count) # <<>> /\ LastIntegrity(disk) = IF readOnly THEN LastIntegrity(disk) ELSE first
  <2>1. <<first>> \in Seq(UdfOpening) /\ <<first>> # <<>> /\ Len(<<first>>) = 1 /\ <<first>>[1] = first
    BY <1>6
  <2> QED BY <1>5, <1>7, <2>1 DEF LastIntegrity
<1>9. free \subseteq 2..(UdfBlocks - 1)
  BY UdfAssumption
<1> HIDE DEF free, fields
<1>10. UdfVolume(disk)
  <2>1. <<>> \in Seq(UdfOpening)
    OBVIOUS
  <2>2. disk.integrity \in Seq(UdfOpening) /\ (disk.readOnly <=> disk.integrity = <<>>)
    BY <1>5, <1>16, <2>1
  <2>3. disk.files \subseteq 0..(UdfBlocks - 1)
    BY <1>5
  <2> QED BY <1>5, <2>2, <2>3 DEF UdfVolume
<1>11. UdfMade(disk)
  BY <1>5, <1>9, <1>10 DEF UdfMade
<1>12. UdfSettled(disk)
  BY <1>5, <1>6, <1>16 DEF UdfSettled
<1>13. UdfSound(disk)
  BY <1>11 DEF UdfSound, UdfMade
<1>14. known => UdfRead(disk, Copy).ok
  BY DEF InitVolume, Partition, PartitionOf, InFull, Read
<1>15. known => /\ disk.anchored /\ Described(disk) /\ disk.maps = "physical" /\ UdfAt(UdfBlocks) <= Size
                /\ disk.space.kind = "none" => ~disk.freed
  BY <1>14 DEF UdfRead, Result, Bad, UdfSpace
<1> QED BY <1>1, <1>10, <1>11, <1>12, <1>13, <1>15 DEF UdfInv, UdfSame

\* A lost block of the table of free blocks makes the table call itself free.
LEMMA UdfDamages ==
  ASSUME NEW d, UdfVolume(d), NEW e \in UdfDamaged(d)
  PROVE  UdfVolume(e) /\ UdfSame(d, e) /\ UdfSound(e)
<1>1. /\ DOMAIN d = {"anchored", "main", "reserve", "maps", "freed", "readOnly", "integrity", "space", "files", "iso"}
      /\ DOMAIN d.space = {"kind", "at", "free"}
  BY DEF UdfVolume
<1>2. e = [d EXCEPT !.space.free = 0..(UdfBlocks - 1)]
  BY DEF UdfDamaged
<1>3. /\ DOMAIN e = DOMAIN d /\ e.integrity = d.integrity /\ e.files = d.files
      /\ e.anchored = d.anchored /\ e.main = d.main /\ e.reserve = d.reserve /\ e.maps = d.maps
      /\ e.freed = d.freed /\ e.readOnly = d.readOnly /\ e.iso = d.iso
      /\ DOMAIN e.space = DOMAIN d.space /\ e.space.kind = d.space.kind /\ e.space.at = d.space.at
      /\ e.space.free = 0..(UdfBlocks - 1)
  BY <1>1, <1>2
<1>4. 1 \in e.space.free
  BY <1>3, UdfAssumption
<1> QED BY <1>3, <1>4 DEF UdfVolume, UdfSame, UdfSound

\* Whatever happens to a volume, it stays so.
LEMMA UdfGoesOn == ASSUME UdfInv, Lifecycle, NextVolume PROVE UdfInv'
<1> SUFFICES ASSUME kind = "udf" PROVE UdfInv'
  BY LifeSteps DEF UdfInv
<1>1. /\ UdfVolume(disk) /\ UdfVolume(mem) /\ UdfSame(disk, mem) /\ UdfSound(disk)
      /\ whole => UdfMade(mem)
      /\ phase = "mounted" => mem.readOnly \/ ~LastIntegrity(mem).closed
      /\ phase = "closing" => disk.space = mem.space /\ disk.files = mem.files
      /\ whole /\ phase # "mounted" => UdfSettled(mem)
  BY DEF UdfInv
<1>2. /\ Mounted(kind, disk) = UdfMounted(disk) /\ Unmounted(kind, mem) = UdfUnmounted(mem)
      /\ Changes(kind, mem) = UdfChanges(mem) /\ Flushed(kind, disk, mem) = UdfFlushed(disk, mem)
      /\ Damages(kind, disk) = UdfDamaged(disk)
  BY DEF Mounted, Unmounted, Changes, Flushed, Damages
<1>3. \A d, e, f : UdfSame(d, d) /\ (UdfSame(d, e) => UdfSame(e, d)) /\ (UdfSame(d, e) /\ UdfSame(e, f) => UdfSame(d, f))
  BY DEF UdfSame
<1>4. /\ phase \in {"idle", "mounted", "closing"} /\ (phase = "idle" => mem = disk)
      /\ phase # "idle" => whole
  BY DEF Lifecycle
<1>5. \A m : UdfMade(m) => UdfVolume(m)
  BY DEF UdfMade
<1>6. /\ UdfVolume(disk') /\ UdfVolume(mem') /\ UdfSame(disk, disk') /\ UdfSame(disk', mem') /\ UdfSound(disk')
      /\ whole' => UdfMade(mem')
      /\ phase' = "mounted" => mem'.readOnly \/ ~LastIntegrity(mem').closed
      /\ phase' = "closing" => disk'.space = mem'.space /\ disk'.files = mem'.files
      /\ whole' /\ phase' # "mounted" => UdfSettled(mem')
  <2>1. CASE disk' = disk /\ mem' = Mounted(kind, disk) /\ phase = "idle" /\ phase' = "mounted" /\ whole
    <3>1. mem = disk /\ UdfMade(disk)
      BY <1>1, <1>4, <2>1
    <3>2. CASE disk.readOnly
      BY <1>1, <1>2, <1>3, <2>1, <3>1, <3>2 DEF UdfMounted
    <3>3. CASE ~disk.readOnly
      <4>1. mem' = UdfRecord(disk, FALSE)
        BY <1>2, <2>1, <3>3 DEF UdfMounted
      <4>2. UdfMade(mem') /\ UdfSame(disk, mem')
        BY <3>1, <3>3, <4>1, UdfRecords
      <4>3. ~LastIntegrity(mem').closed
        BY <3>1, <3>3, <4>1, UdfRecords
      <4> QED BY <1>1, <1>3, <1>5, <2>1, <4>2, <4>3
    <3> QED BY <3>2, <3>3
  <2>2. CASE disk' = disk /\ mem' \in Changes(kind, mem) /\ phase = "mounted" /\ phase' = phase /\ whole' = whole
    <3>1. UdfMade(mem)
      BY <1>1, <1>4, <2>2
    <3>2. UdfMade(mem') /\ UdfSame(mem, mem') /\ mem'.integrity = mem.integrity
      BY <1>2, <2>2, <3>1, UdfWrites
    <3>3. mem'.readOnly = mem.readOnly /\ LastIntegrity(mem') = LastIntegrity(mem)
      BY <3>2 DEF UdfSame, LastIntegrity
    <3> QED BY <1>1, <1>3, <1>5, <2>2, <3>2, <3>3
  <2>3. CASE mem' = mem /\ disk' \in Flushed(kind, disk, mem) /\ phase # "idle" /\ phase' = phase /\ whole' = whole
    <3>1. UdfMade(mem)
      BY <1>1, <1>4, <2>3
    <3>2. mem.readOnly \/ ~LastIntegrity(mem).closed \/ (disk.space = mem.space /\ disk.files = mem.files)
      BY <1>1, <1>4, <2>3
    <3>3. disk' \in UdfFlushed(disk, mem)
      BY <1>2, <2>3
    <3>4. UdfVolume(disk') /\ UdfSame(disk, disk') /\ UdfSound(disk')
      BY <1>1, <3>1, <3>2, <3>3, UdfFlushes
    <3>5. disk.space = mem.space /\ disk.files = mem.files => disk'.space = mem.space /\ disk'.files = mem.files
      BY <1>1, <3>1, <3>2, <3>3, UdfFlushes
    <3> QED BY <1>1, <1>3, <2>3, <3>4, <3>5
  <2>4. CASE disk' = disk /\ disk = mem /\ mem' = Unmounted(kind, mem) /\ phase = "mounted" /\ phase' = "closing" /\ whole' = whole
    <3>1. UdfMade(mem)
      BY <1>1, <1>4, <2>4
    <3>2. CASE mem.readOnly
      <4>1. mem' = mem
        BY <1>2, <2>4, <3>2 DEF UdfUnmounted
      <4>2. UdfSettled(mem)
        BY <1>1, <3>2 DEF UdfSettled, UdfVolume
      <4> QED BY <1>1, <1>3, <2>4, <3>1, <4>1, <4>2
    <3>3. CASE ~mem.readOnly
      <4>1. mem' = UdfRecord(mem, TRUE)
        BY <1>2, <2>4, <3>3 DEF UdfUnmounted
      <4>2. UdfMade(mem') /\ UdfSame(mem, mem') /\ mem'.space = mem.space /\ mem'.files = mem.files
        BY <3>1, <3>3, <4>1, UdfRecords
      <4>3. UdfSettled(mem')
        BY <3>1, <3>3, <4>1, UdfRecords
      <4> QED BY <1>1, <1>3, <1>5, <2>4, <4>2, <4>3
    <3> QED BY <3>2, <3>3
  <2>5. CASE disk' = disk /\ disk = mem /\ mem' = mem /\ phase = "closing" /\ phase' = "idle" /\ whole' = whole
    BY <1>1, <1>3, <2>5
  <2>6. CASE disk' = disk /\ mem' = disk /\ phase # "idle" /\ phase' = "idle" /\ whole' = FALSE
    BY <1>1, <1>3, <2>6
  <2>7. CASE disk' \in Damages(kind, disk) /\ mem' = disk' /\ phase' = "idle" /\ whole' = FALSE
    BY <1>1, <1>2, <1>3, <2>7, UdfDamages
  <2> QED BY <2>1, <2>2, <2>3, <2>4, <2>5, <2>6, <2>7, LifeSteps
<1>7. kind' = kind /\ known' = known
  BY LifeSteps
<1>8. known => /\ disk.anchored /\ Described(disk) /\ disk.maps = "physical" /\ UdfAt(UdfBlocks) <= Size
               /\ disk.space.kind = "none" => ~disk.freed
  BY DEF UdfInv
<1>9. known' => /\ disk'.anchored /\ Described(disk') /\ disk'.maps = "physical" /\ UdfAt(UdfBlocks) <= Size
                /\ disk'.space.kind = "none" => ~disk'.freed
  BY <1>6, <1>7, <1>8 DEF UdfSame, Described
<1> QED BY <1>6, <1>7, <1>9 DEF UdfInv

\* A volume that was closed can be read again.
LEMMA UdfClean ==
  ASSUME NEW d, UdfMade(d), UdfSettled(d),
         d.anchored, Described(d), d.maps = "physical", UdfAt(UdfBlocks) <= Size,
         d.space.kind = "none" => ~d.freed
  PROVE  UdfRead(d, Copy).ok
<1>1. UdfFree(d) = d.space.free /\ d.space.at \notin UdfFree(d)
  BY UdfAssumption DEF UdfFree, UdfMade, UdfVolume
<1>2. CountAgrees(d, UdfFree(d))
  BY <1>1 DEF CountAgrees, UdfSettled
<1>3. UdfSpace(d, Copy)
  BY <1>1, <1>2 DEF UdfSpace, BitmapSpace, TableSpace, UdfMade, UdfVolume
<1>4. UdfClosed(d, Copy)
  BY DEF UdfClosed, UdfSettled, UdfMade, UdfVolume
<1> QED BY <1>3, <1>4 DEF UdfRead, Result, Usage

\* A UDF that is understood is kept; one that was understood when it was made is
\* understood whenever it was unmounted.
LEMMA UdfUnderstood == ASSUME UdfInv, Lifecycle, kind = "udf" PROVE
  /\ Read(kind, disk, Copy).ok => Keeps(Read(kind, disk, Copy), NeedOf(kind, disk))
  /\ phase = "idle" /\ whole /\ known => Read(kind, disk, Copy).ok
<1>1. Read(kind, disk, Copy) = UdfRead(disk, Copy) /\ NeedOf(kind, disk) = UdfNeed(disk)
  BY DEF Read, NeedOf
<1>2. phase = "idle" /\ whole /\ known => UdfRead(disk, Copy).ok
  BY UdfClean DEF UdfInv, Lifecycle
<1>3. UdfRead(disk, Copy).ok => Keeps(UdfRead(disk, Copy), UdfNeed(disk))
  BY UdfKeeps DEF UdfInv
<1> QED BY <1>1, <1>2, <1>3

(* NTFS *)

\* A restart page of the log.
NtfsPage == [state : {"valid", "empty", "torn"}, lsn : Nat, clean : BOOLEAN]

\* An NTFS on a disk.
NtfsShape(d) ==
  /\ DOMAIN d = {"dirty", "restart", "records", "bitmap", "sparse", "files", "torn", "sectors"}
  /\ d.dirty \in BOOLEAN /\ d.restart \in [1..2 -> NtfsPage]
  /\ d.torn \subseteq {"bitmap", "log"} /\ d.sectors \in {NtfsClusters, Size + 1}
  /\ d.files \subseteq 0..(NtfsClusters - 1) /\ {0} \cup NtfsSystem \subseteq d.bitmap

\* Neither marked nor with a log to replay; only then must the bitmap have every file.
NtfsSettled(d) == ~d.dirty /\ LogIsClean(d)
NtfsSound(d) == d.files \subseteq d.bitmap \/ ~NtfsSettled(d)

\* What a driver has in memory.
NtfsMade(m) ==
  /\ NtfsShape(m)
  /\ m.files \subseteq m.bitmap /\ m.files \cap ({0} \cup NtfsSystem) = {}
  /\ (\A p \in 1..2 : m.restart[p].state = "empty") \/ (\A p \in 1..2 : m.restart[p].state = "valid")

\* Two states of one volume.
NtfsSame(d, e) ==
  /\ DOMAIN e = DOMAIN d
  /\ e.sparse = d.sparse /\ e.torn = d.torn /\ e.sectors = d.sectors

\* What is kept of an NTFS (ntfs.rs read): what its bitmap marks, and what is past it.
LEMMA NtfsKeeps ==
  ASSUME NEW d, NtfsShape(d), NtfsSound(d), NtfsRead(d, Copy).ok
  PROVE  Keeps(NtfsRead(d, Copy), NtfsNeed(d))
<1>1. /\ d.sectors <= Size /\ \A record \in RecordsRead(Copy) : Fixup(d, record)
      /\ NtfsSettled(d)
      /\ NtfsRead(d, Copy).used = {0} \cup NtfsMarked(d)
      /\ NtfsRead(d, Copy).end = NtfsClusters
  BY DEF NtfsRead, Result, Bad, Usage, NtfsSettled
<1>2. d.torn = {}
  BY <1>1 DEF RecordsRead, Fixup, NtfsShape
<1>3. /\ Size \in Nat /\ NtfsClusters \in Nat /\ NtfsClusters > 0 /\ NtfsClusters <= Size
      /\ Cells = 0..(Size - 1)
  BY <1>1, NtfsAssumption, SizeAssumption DEF NtfsShape, Cells
<1>4. NtfsNeed(d) = 0..0 \cup NtfsSystem \cup d.files \cup NtfsClusters..(Size - 1) \cup {}
  BY <1>1, <1>2, <1>3 DEF NtfsNeed, NtfsSettled, NtfsShape
<1>5. {0} \cup NtfsSystem \cup d.files \subseteq (0..(NtfsClusters - 1)) \cap d.bitmap
  BY <1>1, <1>3, NtfsAssumption DEF NtfsSound, NtfsShape
<1>6. {0} \cup NtfsSystem \cup d.files \subseteq NtfsRead(d, Copy).used \cap Cells
  <2>1. (0..(NtfsClusters - 1)) \cap d.bitmap \subseteq NtfsMarked(d)
    BY DEF NtfsMarked
  <2>2. 0..(NtfsClusters - 1) \subseteq Cells
    BY <1>3
  <2> QED BY <1>1, <1>5, <2>1, <2>2
<1>7. (IF NtfsRead(d, Copy).end < Size THEN NtfsRead(d, Copy).end ELSE Size) = NtfsClusters
  BY <1>1, <1>3
<1>8. 0..0 = {0}
  OBVIOUS
<1> QED BY <1>4, <1>6, <1>7, <1>8 DEF Keeps

\* A driver opens the log, or closes it, with pages newer than all there are.
NtfsNewPages(m, e, x) ==
  /\ \A p \in 1..2 : e.restart[p].state = "valid" /\ e.restart[p].clean = x
  /\ \A p \in 1..2, q \in 1..2 : m.restart[p].lsn < e.restart[q].lsn
  /\ e.restart[1].lsn < e.restart[2].lsn

\* So they are the newest ones, and say what the driver wants them to.
LEMMA NtfsOpens ==
  ASSUME NEW m, NtfsShape(m), NEW x, x = TRUE \/ x = FALSE, NEW e, e = NtfsPages(m, x)
  PROVE  /\ NtfsShape(e) /\ NtfsSame(m, e) /\ e.dirty = m.dirty /\ e.files = m.files /\ e.bitmap = m.bitmap
         /\ e.records = m.records
         /\ NtfsNewPages(m, e, x)
<1>1. /\ DOMAIN m = {"dirty", "restart", "records", "bitmap", "sparse", "files", "torn", "sectors"}
      /\ m.restart \in [1..2 -> NtfsPage]
  BY DEF NtfsShape
<1>2. m.restart[1].lsn \in Nat /\ m.restart[2].lsn \in Nat
  BY <1>1 DEF NtfsPage
<1> DEFINE pages == [p \in 1..2 |-> Page("valid", NtfsLsn(m) + p, x)]
<1>3. e = [m EXCEPT !.restart = pages]
  BY DEF NtfsPages
<1>4. NtfsLsn(m) \in Nat /\ m.restart[1].lsn < NtfsLsn(m) /\ m.restart[2].lsn < NtfsLsn(m)
  BY <1>2 DEF NtfsLsn
<1>5. \A p \in 1..2 : pages[p] = [state |-> "valid", lsn |-> NtfsLsn(m) + p, clean |-> x]
  BY DEF Page
<1>6. pages \in [1..2 -> NtfsPage]
  <2>1. x \in BOOLEAN
    OBVIOUS
  <2> QED BY <1>4, <2>1 DEF Page, NtfsPage
<1> HIDE DEF pages
<1>7. /\ DOMAIN e = DOMAIN m /\ e.restart = pages /\ e.dirty = m.dirty /\ e.records = m.records
      /\ e.bitmap = m.bitmap /\ e.sparse = m.sparse /\ e.files = m.files /\ e.torn = m.torn /\ e.sectors = m.sectors
  BY <1>1, <1>3
<1>8. NtfsShape(e) /\ NtfsSame(m, e)
  BY <1>6, <1>7 DEF NtfsShape, NtfsSame
<1>9. \A p \in 1..2 : e.restart[p].state = "valid" /\ e.restart[p].clean = x /\ e.restart[p].lsn = NtfsLsn(m) + p
  BY <1>5, <1>7
<1>10. \A p \in 1..2, q \in 1..2 : m.restart[p].lsn < e.restart[q].lsn
  BY <1>2, <1>4, <1>9
<1>11. e.restart[1].lsn < e.restart[2].lsn
  BY <1>4, <1>9
<1> QED BY <1>7, <1>8, <1>9, <1>10, <1>11 DEF NtfsNewPages

\* A driver that sets the mark, or takes it back.
LEMMA NtfsMarks ==
  ASSUME NEW m, NtfsMade(m), NEW x \in BOOLEAN, NEW e, e = [m EXCEPT !.dirty = x]
  PROVE  NtfsMade(e) /\ NtfsSame(m, e) /\ e.dirty = x /\ e.restart = m.restart /\ e.files = m.files /\ e.bitmap = m.bitmap
<1>1. DOMAIN m = {"dirty", "restart", "records", "bitmap", "sparse", "files", "torn", "sectors"}
  BY DEF NtfsMade, NtfsShape
<1>2. /\ DOMAIN e = DOMAIN m /\ e.restart = m.restart /\ e.dirty = x /\ e.records = m.records
      /\ e.bitmap = m.bitmap /\ e.sparse = m.sparse /\ e.files = m.files /\ e.torn = m.torn /\ e.sectors = m.sectors
  BY <1>1
<1> QED BY <1>2 DEF NtfsMade, NtfsShape, NtfsSame

\* A driver that empties the log.
LEMMA NtfsEmptiesLog ==
  ASSUME NEW m, NtfsMade(m), NEW e, e = [m EXCEPT !.records = {}]
  PROVE  NtfsMade(e) /\ NtfsSame(m, e) /\ e.records = {} /\ e.dirty = m.dirty /\ e.restart = m.restart /\ e.files = m.files /\ e.bitmap = m.bitmap
<1>1. DOMAIN m = {"dirty", "restart", "records", "bitmap", "sparse", "files", "torn", "sectors"}
  BY DEF NtfsMade, NtfsShape
<1>2. /\ DOMAIN e = DOMAIN m /\ e.restart = m.restart /\ e.dirty = m.dirty /\ e.records = {}
      /\ e.bitmap = m.bitmap /\ e.sparse = m.sparse /\ e.files = m.files /\ e.torn = m.torn /\ e.sectors = m.sectors
  BY <1>1
<1> QED BY <1>2 DEF NtfsMade, NtfsShape, NtfsSame

\* A driver that takes or frees a cluster.
LEMMA NtfsWrites ==
  ASSUME NEW m, NtfsMade(m), NEW e \in NtfsChanges(m)
  PROVE  NtfsMade(e) /\ NtfsSame(m, e) /\ e.dirty = m.dirty /\ e.restart = m.restart
<1> DEFINE free == (0..(NtfsClusters - 1)) \ (m.bitmap \cup m.sparse)
           logged(n) == IF m.dirty THEN n ELSE [n EXCEPT !.records = n.files]
           more(c) == [m EXCEPT !.files = @ \cup {c}, !.bitmap = @ \cup {c}]
           less(c) == [m EXCEPT !.files = @ \ {c}, !.bitmap = @ \ {c}]
           rest(f) == /\ DOMAIN f = DOMAIN m /\ f.dirty = m.dirty /\ f.restart = m.restart
                      /\ f.sparse = m.sparse /\ f.torn = m.torn /\ f.sectors = m.sectors
<1>1. DOMAIN m = {"dirty", "restart", "records", "bitmap", "sparse", "files", "torn", "sectors"}
  BY DEF NtfsMade, NtfsShape
<1>2. \/ \E c \in free : e = logged(more(c))
      \/ \E c \in m.files : e = logged(less(c))
  BY DEF NtfsChanges
<1>3. \A n : DOMAIN n = DOMAIN m => /\ DOMAIN logged(n) = DOMAIN m /\ logged(n).dirty = n.dirty /\ logged(n).restart = n.restart
                                    /\ logged(n).sparse = n.sparse /\ logged(n).torn = n.torn /\ logged(n).sectors = n.sectors
                                    /\ logged(n).files = n.files /\ logged(n).bitmap = n.bitmap
  BY <1>1
<1>4. \A c : /\ rest(more(c)) /\ more(c).files = m.files \cup {c} /\ more(c).bitmap = m.bitmap \cup {c}
             /\ rest(less(c)) /\ less(c).files = m.files \ {c} /\ less(c).bitmap = m.bitmap \ {c}
  BY <1>1
<1> HIDE DEF logged, more, less
<1>5. /\ rest(e)
      /\ \/ \E c \in free : e.files = m.files \cup {c} /\ e.bitmap = m.bitmap \cup {c}
         \/ \E c \in m.files : e.files = m.files \ {c} /\ e.bitmap = m.bitmap \ {c}
  BY <1>2, <1>3, <1>4
<1>6. /\ m.files \subseteq 0..(NtfsClusters - 1) /\ {0} \cup NtfsSystem \subseteq m.bitmap
      /\ m.files \subseteq m.bitmap /\ m.files \cap ({0} \cup NtfsSystem) = {}
  BY DEF NtfsMade, NtfsShape
<1>7. /\ e.files \subseteq 0..(NtfsClusters - 1) /\ {0} \cup NtfsSystem \subseteq e.bitmap
      /\ e.files \subseteq e.bitmap /\ e.files \cap ({0} \cup NtfsSystem) = {}
  BY <1>5, <1>6
<1> QED BY <1>5, <1>7 DEF NtfsMade, NtfsShape, NtfsSame

\* The pages on the disk are the driver's, or older than all of the driver's.
NtfsBehind(d, m) ==
  \A p \in 1..2 : d.restart[p] = m.restart[p] \/ \A q \in 1..2 : d.restart[p].lsn < m.restart[q].lsn

\* The driver's pages, which say that the log is open.
NtfsOpen(m) == \A p \in 1..2 : m.restart[p].state = "valid" /\ ~m.restart[p].clean /\ m.restart[p].lsn > 0

\* With one of those on the disk the log is not clean.
LEMMA NtfsOpenIsNotClean ==
  ASSUME NEW d, NtfsShape(d), NEW m, NtfsShape(m), NtfsOpen(m), NtfsBehind(d, m),
         NEW p \in 1..2, d.restart[p] = m.restart[p]
  PROVE  ~LogIsClean(d)
<1>1. d.restart[p].state = "valid" /\ ~d.restart[p].clean /\ p \in ValidPages(d)
  BY DEF NtfsOpen, ValidPages
<1>2. ASSUME NEW c \in ValidPages(d), d.restart[c].clean
      PROVE  NewerPage(d.restart[c], d.restart[p]) /\ p # c
  <2>1. c \in 1..2
    BY DEF ValidPages
  <2>2. d.restart[c] # m.restart[c]
    BY <1>2, <2>1 DEF NtfsOpen
  <2>3. d.restart[c].lsn < m.restart[p].lsn
    BY <2>1, <2>2 DEF NtfsBehind
  <2> QED BY <1>1, <1>2, <2>3 DEF NewerPage
<1> QED BY <1>1, <1>2 DEF LogIsClean

\* Two closed pages, the second the newer one.
LEMMA NtfsClosedIsClean ==
  ASSUME NEW m, NtfsShape(m), \A p \in 1..2 : m.restart[p].state = "valid" /\ m.restart[p].clean,
         m.restart[1].lsn < m.restart[2].lsn
  PROVE  LogIsClean(m)
<1>1. 2 \in ValidPages(m) /\ m.restart[2].clean
  BY DEF ValidPages
<1>2. m.restart[1].lsn \in Nat /\ m.restart[2].lsn \in Nat
  BY DEF NtfsShape, NtfsPage
<1>3. ~NewerPage(m.restart[2], m.restart[1])
  BY <1>2 DEF NewerPage
<1>4. \A q \in ValidPages(m) : q = 2 \/ ~NewerPage(m.restart[2], m.restart[q])
  BY <1>3 DEF ValidPages
<1> QED BY <1>1, <1>4 DEF LogIsClean

\* An NTFS on the disk and in a driver's memory: while it is mounted, the bitmap on the
\* disk has every file, or the mark or an open page of the log is there too.
NtfsInv ==
  kind = "ntfs" =>
    /\ NtfsShape(disk) /\ NtfsShape(mem) /\ NtfsSame(disk, mem)
    /\ whole => NtfsMade(mem)
    /\ phase = "idle" => NtfsSound(disk)
    /\ phase = "mounted" =>
         /\ disk.files \subseteq disk.bitmap \/ NtfsMarkedOnDisk(disk, mem)
         /\ \/ mem.dirty /\ mem.records = {} /\ \A p \in 1..2 : mem.restart[p].state = "empty"
            \/ ~mem.dirty /\ NtfsOpen(mem) /\ NtfsBehind(disk, mem)
    /\ phase = "closing" => disk.files = mem.files /\ disk.bitmap = mem.bitmap
    /\ whole /\ phase # "mounted" => NtfsSettled(mem)
    /\ whole /\ phase # "mounted" /\ (\A p \in 1..2 : mem.restart[p].state = "empty") => mem.records = {}
    /\ known => disk.torn = {} /\ disk.sectors <= Size

\* What one write leaves on the disk.
LEMMA NtfsFlushes ==
  ASSUME NEW d, NEW m, NtfsShape(d), NtfsShape(m), NtfsSame(d, m), NEW e \in NtfsFlushed(d, m)
  PROVE  /\ NtfsShape(e) /\ NtfsSame(d, e)
         /\ NtfsMarkedOnDisk(d, m) => NtfsMarkedOnDisk(e, m)
         /\ NtfsMarkedOnDisk(d, m) \/ (e.files = d.files /\ e.bitmap = d.bitmap)
         /\ e.files \in {d.files, m.files} /\ e.bitmap \in {d.bitmap, m.bitmap}
         /\ NtfsBehind(d, m) /\ (\A q \in 1..2 : m.restart[q].lsn > 0) => NtfsBehind(e, m)
<1>1. /\ DOMAIN d = {"dirty", "restart", "records", "bitmap", "sparse", "files", "torn", "sectors"}
      /\ d.restart \in [1..2 -> NtfsPage] /\ m.restart \in [1..2 -> NtfsPage]
  BY DEF NtfsShape
<1> DEFINE pages(p, w) == [d.restart EXCEPT ![p] = w]
           rest == DOMAIN e = DOMAIN d /\ e.sparse = d.sparse /\ e.torn = d.torn /\ e.sectors = d.sectors
<1>2. \/ e = [d EXCEPT !["dirty"] = m["dirty"]]
      \/ \E p \in 1..2 : \E w \in {TornPage, m.restart[p]} : d.restart[p] # m.restart[p] /\ e = [d EXCEPT !.restart[p] = w]
      \/ e = [d EXCEPT !["records"] = m["records"]]
      \/ NtfsMarkedOnDisk(d, m) /\ e = [d EXCEPT !["files"] = m["files"]]
      \/ NtfsMarkedOnDisk(d, m) /\ e = [d EXCEPT !["bitmap"] = m["bitmap"]]
  <2>1. CASE e \in WriteBack(d, m, {"dirty"})
    BY <2>1 DEF WriteBack
  <2>2. CASE \E x \in (1..2) \X {TornPage, m.restart[1], m.restart[2]} :
               /\ d.restart[x[1]] # m.restart[x[1]] /\ x[2] \in {TornPage, m.restart[x[1]]}
               /\ e = [d EXCEPT !.restart[x[1]] = x[2]]
    <3>1. PICK x \in (1..2) \X {TornPage, m.restart[1], m.restart[2]} :
               /\ d.restart[x[1]] # m.restart[x[1]] /\ x[2] \in {TornPage, m.restart[x[1]]}
               /\ e = [d EXCEPT !.restart[x[1]] = x[2]]
      BY <2>2
    <3> DEFINE p == x[1]
               w == x[2]
    <3>2. p \in 1..2 /\ w \in {TornPage, m.restart[p]} /\ d.restart[p] # m.restart[p] /\ e = [d EXCEPT !.restart[p] = w]
      BY <3>1
    <3> HIDE DEF p, w
    <3> QED BY <3>2
  <2>3. CASE NtfsMarkedOnDisk(d, m) /\ e \in WriteBack(d, m, {"records"})
    BY <2>3 DEF WriteBack
  <2>4. CASE NtfsMarkedOnDisk(d, m) /\ e \in WriteBack(d, m, {"files", "bitmap"})
    BY <2>4 DEF WriteBack
  <2> QED BY <2>1, <2>2, <2>3, <2>4 DEF NtfsFlushed
<1>3. /\ rest
      /\ \/ e.dirty = m.dirty /\ e.restart = d.restart /\ e.files = d.files /\ e.bitmap = d.bitmap
         \/ /\ e.dirty = d.dirty /\ e.files = d.files /\ e.bitmap = d.bitmap
            /\ \E p \in 1..2 : \E w \in {TornPage, m.restart[p]} : d.restart[p] # m.restart[p] /\ e.restart = pages(p, w)
         \/ e.dirty = d.dirty /\ e.restart = d.restart /\ e.files = d.files /\ e.bitmap = d.bitmap
         \/ /\ NtfsMarkedOnDisk(d, m) /\ e.dirty = d.dirty /\ e.restart = d.restart
            /\ e.files \in {d.files, m.files} /\ e.bitmap \in {d.bitmap, m.bitmap}
  <2>1. CASE e = [d EXCEPT !["dirty"] = m["dirty"]]
    BY <1>1, <2>1
  <2>2. CASE \E p \in 1..2 : \E w \in {TornPage, m.restart[p]} : d.restart[p] # m.restart[p] /\ e = [d EXCEPT !.restart[p] = w]
    BY <1>1, <2>2
  <2>3. CASE e = [d EXCEPT !["records"] = m["records"]]
    BY <1>1, <2>3
  <2>4. CASE NtfsMarkedOnDisk(d, m) /\ e = [d EXCEPT !["files"] = m["files"]]
    BY <1>1, <2>4
  <2>5. CASE NtfsMarkedOnDisk(d, m) /\ e = [d EXCEPT !["bitmap"] = m["bitmap"]]
    BY <1>1, <2>5
  <2> QED BY <1>2, <2>1, <2>2, <2>3, <2>4, <2>5
<1>4. TornPage \in NtfsPage /\ TornPage.lsn = 0
  BY DEF TornPage, Page, NtfsPage
\* A page written is one the driver has newer; the other stays.
<1>5. /\ e.restart \in [1..2 -> NtfsPage]
      /\ \A p \in 1..2 : d.restart[p] = m.restart[p] => e.restart[p] = m.restart[p]
      /\ \A p \in 1..2 : e.restart[p] \in {d.restart[p], m.restart[p], TornPage}
  <2>1. ASSUME NEW p \in 1..2, NEW w \in {TornPage, m.restart[p]}, d.restart[p] # m.restart[p]
        PROVE  /\ pages(p, w) \in [1..2 -> NtfsPage]
               /\ \A q \in 1..2 : d.restart[q] = m.restart[q] => pages(p, w)[q] = m.restart[q]
               /\ \A q \in 1..2 : pages(p, w)[q] \in {d.restart[q], m.restart[q], TornPage}
    BY <1>1, <1>4, <2>1
  <2> HIDE DEF pages
  <2> QED BY <1>1, <1>3, <2>1
<1>6. e.dirty \in {d.dirty, m.dirty}
  BY <1>3
<1>7. /\ e.files \in {d.files, m.files} /\ e.bitmap \in {d.bitmap, m.bitmap}
      /\ NtfsMarkedOnDisk(d, m) \/ (e.files = d.files /\ e.bitmap = d.bitmap)
  BY <1>3
<1>8. NtfsShape(e) /\ NtfsSame(d, e)
  BY <1>3, <1>5, <1>6, <1>7 DEF NtfsShape, NtfsSame
<1>9. NtfsMarkedOnDisk(d, m) => NtfsMarkedOnDisk(e, m)
  BY <1>5, <1>6 DEF NtfsMarkedOnDisk
<1>10. NtfsBehind(d, m) /\ (\A q \in 1..2 : m.restart[q].lsn > 0) => NtfsBehind(e, m)
  BY <1>4, <1>5 DEF NtfsBehind
<1> QED BY <1>7, <1>8, <1>9, <1>10

\* Closing the volume.
LEMMA NtfsCloses ==
  ASSUME NEW m, NtfsMade(m), NEW e, e = NtfsUnmounted(m),
         \/ m.dirty /\ \A p \in 1..2 : m.restart[p].state = "empty"
         \/ ~m.dirty /\ NtfsOpen(m)
  PROVE  /\ NtfsMade(e) /\ NtfsSame(m, e) /\ e.files = m.files /\ e.bitmap = m.bitmap
         /\ NtfsSettled(e) /\ e.records = {}
<1>1. CASE m.dirty /\ \A p \in 1..2 : m.restart[p].state = "empty"
  <2> DEFINE f == [m EXCEPT !.dirty = FALSE]
             g == [f EXCEPT !.records = {}]
  <2>1. e = g
    <3>1. e = [m EXCEPT !.dirty = FALSE, !.records = {}]
      BY <1>1 DEF NtfsUnmounted
    <3> QED BY <3>1
  <2>2. NtfsMade(f) /\ NtfsSame(m, f) /\ f.dirty = FALSE /\ f.restart = m.restart /\ f.files = m.files /\ f.bitmap = m.bitmap
    BY NtfsMarks
  <2> HIDE DEF f
  <2>3. NtfsMade(g) /\ NtfsSame(f, g) /\ g.records = {} /\ g.dirty = f.dirty /\ g.restart = f.restart /\ g.files = f.files /\ g.bitmap = f.bitmap
    BY <2>2, NtfsEmptiesLog
  <2> HIDE DEF g
  <2> QED BY <1>1, <2>1, <2>2, <2>3 DEF NtfsSame, NtfsSettled, LogIsClean
<1>2. CASE ~m.dirty /\ NtfsOpen(m)
  <2> DEFINE f == NtfsPages(m, TRUE)
             g == [f EXCEPT !.records = {}]
  <2>1. e = g
    BY <1>2 DEF NtfsUnmounted
  <2>2. NtfsShape(m)
    BY DEF NtfsMade
  <2>3. /\ NtfsShape(f) /\ NtfsSame(m, f) /\ f.dirty = m.dirty /\ f.files = m.files /\ f.bitmap = m.bitmap
    BY <2>2, NtfsOpens
  <2>10. NtfsNewPages(m, f, TRUE)
    BY <2>2, NtfsOpens
  <2>8. \A p \in 1..2 : f.restart[p].state = "valid" /\ f.restart[p].clean
    BY <2>10 DEF NtfsNewPages
  <2>9. f.restart[1].lsn < f.restart[2].lsn
    BY <2>10 DEF NtfsNewPages
  <2> HIDE DEF f
  <2>4. NtfsMade(f)
    BY <2>3, <2>8 DEF NtfsMade
  <2>5. LogIsClean(f)
    BY <2>3, <2>8, <2>9, NtfsClosedIsClean
  <2>6. NtfsMade(g) /\ NtfsSame(f, g) /\ g.records = {} /\ g.dirty = f.dirty /\ g.restart = f.restart /\ g.files = f.files /\ g.bitmap = f.bitmap
    BY <2>4, NtfsEmptiesLog
  <2> HIDE DEF g
  <2>7. LogIsClean(g)
    BY <2>3, <2>6, <2>8, <2>9, NtfsClosedIsClean DEF NtfsMade
  <2> QED BY <1>2, <2>1, <2>3, <2>6, <2>7 DEF NtfsSame, NtfsSettled
<1> QED BY <1>1, <1>2

\* Whatever happens to a volume, it stays so: a restart page that is written is newer
\* than all there were, so that one that says open is never taken for an older one.
LEMMA NtfsGoesOn == ASSUME NtfsInv, Lifecycle, NextVolume PROVE NtfsInv'
<1> SUFFICES ASSUME kind = "ntfs" PROVE NtfsInv'
  BY LifeSteps DEF NtfsInv
<1> DEFINE allEmpty(m) == \A p \in 1..2 : m.restart[p].state = "empty"
           isOpen(d, m) == \/ m.dirty /\ m.records = {} /\ allEmpty(m)
                           \/ ~m.dirty /\ NtfsOpen(m) /\ NtfsBehind(d, m)
           inside(d) == d.files \subseteq d.bitmap
<1>1. /\ NtfsShape(disk) /\ NtfsShape(mem) /\ NtfsSame(disk, mem)
      /\ whole => NtfsMade(mem)
      /\ phase = "idle" => NtfsSound(disk)
      /\ phase = "mounted" => inside(disk) \/ NtfsMarkedOnDisk(disk, mem)
      /\ phase = "mounted" => isOpen(disk, mem)
      /\ phase = "closing" => disk.files = mem.files /\ disk.bitmap = mem.bitmap
      /\ whole /\ phase # "mounted" => NtfsSettled(mem)
      /\ whole /\ phase # "mounted" /\ allEmpty(mem) => mem.records = {}
  BY DEF NtfsInv
<1>2. /\ Mounted(kind, disk) = NtfsMounted(disk) /\ Unmounted(kind, mem) = NtfsUnmounted(mem)
      /\ Changes(kind, mem) = NtfsChanges(mem) /\ Flushed(kind, disk, mem) = NtfsFlushed(disk, mem)
      /\ Damages(kind, disk) = {}
  BY DEF Mounted, Unmounted, Changes, Flushed, Damages
<1>3. \A d, e, f : NtfsSame(d, d) /\ (NtfsSame(d, e) => NtfsSame(e, d)) /\ (NtfsSame(d, e) /\ NtfsSame(e, f) => NtfsSame(d, f))
  BY DEF NtfsSame
<1>4. /\ phase \in {"idle", "mounted", "closing"} /\ (phase = "idle" => mem = disk)
      /\ phase # "idle" => whole
  BY DEF Lifecycle
<1>5. \A m : NtfsMade(m) => NtfsShape(m) /\ inside(m)
  BY DEF NtfsMade
<1>6. \A d : inside(d) => NtfsSound(d)
  BY DEF NtfsSound
<1>7. \A m : NtfsOpen(m) => ~allEmpty(m) /\ \A q \in 1..2 : m.restart[q].lsn > 0
  BY DEF NtfsOpen
<1> HIDE DEF inside
<1> DEFINE Goal ==
      /\ NtfsShape(disk') /\ NtfsShape(mem') /\ NtfsSame(disk, disk') /\ NtfsSame(disk', mem')
      /\ whole' => NtfsMade(mem')
      /\ phase' = "idle" => NtfsSound(disk')
      /\ phase' = "mounted" => inside(disk') \/ NtfsMarkedOnDisk(disk', mem')
      /\ phase' = "mounted" => isOpen(disk', mem')
      /\ phase' = "closing" => disk'.files = mem'.files /\ disk'.bitmap = mem'.bitmap
      /\ whole' /\ phase' # "mounted" => NtfsSettled(mem')
      /\ whole' /\ phase' # "mounted" /\ allEmpty(mem') => mem'.records = {}
<1>8. ASSUME disk' = disk /\ mem' = Mounted(kind, disk) /\ phase = "idle" /\ phase' = "mounted" /\ whole
      PROVE  Goal
  <2>1. mem = disk /\ NtfsMade(disk) /\ NtfsSettled(disk) /\ inside(disk) /\ (allEmpty(disk) => disk.records = {})
    BY <1>1, <1>4, <1>5, <1>8
  <2>2. CASE disk.restart[1].state = "empty"
    <3>1. mem' = [disk EXCEPT !.dirty = TRUE]
      BY <1>2, <1>8, <2>2 DEF NtfsMounted
    <3>2. NtfsMade(mem') /\ NtfsSame(disk, mem') /\ mem'.dirty = TRUE /\ mem'.restart = disk.restart
      BY <2>1, <3>1, NtfsMarks
    <3>3. allEmpty(disk)
      BY <2>1, <2>2 DEF NtfsMade
    <3>4. mem'.records = {}
      <4>1. mem'.records = disk.records
        BY <3>1 DEF NtfsShape, NtfsMade
      <4> QED BY <2>1, <3>3, <4>1
    <3>5. isOpen(disk', mem')
      BY <3>2, <3>3, <3>4
    <3> HIDE DEF isOpen, allEmpty
    <3> QED BY <1>1, <1>3, <1>5, <1>8, <2>1, <3>2, <3>5
  <2>3. CASE disk.restart[1].state # "empty"
    <3>1. mem' = NtfsPages(disk, FALSE)
      BY <1>2, <1>8, <2>3 DEF NtfsMounted
    <3> DEFINE e == mem'
    <3>9. NtfsShape(disk) /\ e = NtfsPages(disk, FALSE)
      BY <1>1, <3>1
    <3> HIDE DEF e
    <3>2. NtfsShape(e) /\ NtfsSame(disk, e) /\ e.dirty = disk.dirty /\ e.files = disk.files /\ e.bitmap = disk.bitmap
      BY <3>9, NtfsOpens
    <3>10. NtfsNewPages(disk, e, FALSE)
      BY <3>9, NtfsOpens
    <3>3. \A p \in 1..2 : e.restart[p].state = "valid" /\ ~e.restart[p].clean
      BY <3>10 DEF NtfsNewPages
    <3>4. \A p \in 1..2, q \in 1..2 : disk.restart[p].lsn < e.restart[q].lsn
      BY <3>10 DEF NtfsNewPages
    <3> USE DEF e
    <3>5. \A q \in 1..2 : mem'.restart[q].lsn > 0
      <4>1. \A q \in 1..2 : disk.restart[1].lsn < mem'.restart[q].lsn
        BY <3>4
      <4>2. disk.restart[1].lsn \in Nat /\ \A q \in 1..2 : mem'.restart[q].lsn \in Nat
        BY <1>1, <3>2 DEF NtfsShape, NtfsPage
      <4> QED BY <4>1, <4>2
    <3>6. NtfsOpen(mem') /\ NtfsBehind(disk, mem') /\ ~mem'.dirty
      BY <2>1, <3>2, <3>3, <3>4, <3>5 DEF NtfsOpen, NtfsBehind, NtfsSettled
    <3>7. NtfsMade(mem')
      BY <2>1, <3>2, <3>3 DEF NtfsMade
    <3>8. isOpen(disk', mem')
      BY <1>8, <3>6
    <3> HIDE DEF isOpen, allEmpty
    <3> QED BY <1>1, <1>3, <1>8, <2>1, <3>2, <3>7, <3>8
  <2> QED BY <2>2, <2>3
<1>9. ASSUME disk' = disk /\ mem' \in Changes(kind, mem) /\ phase = "mounted" /\ phase' = phase /\ whole' = whole
      PROVE  Goal
  <2>1. NtfsMade(mem)
    BY <1>1, <1>4, <1>9
  <2>2. NtfsMade(mem') /\ NtfsSame(mem, mem') /\ mem'.dirty = mem.dirty /\ mem'.restart = mem.restart
    BY <1>2, <1>9, <2>1, NtfsWrites
  <2>3. mem.dirty => mem'.records = mem.records
    BY <1>2, <1>9, <2>1 DEF NtfsChanges, NtfsMade, NtfsShape
  <2>4. isOpen(disk', mem')
    BY <1>1, <1>9, <2>2, <2>3 DEF NtfsOpen, NtfsBehind
  <2>5. NtfsMarkedOnDisk(disk, mem) => NtfsMarkedOnDisk(disk, mem')
    BY <2>2 DEF NtfsMarkedOnDisk
  <2> HIDE DEF isOpen, allEmpty
  <2> QED BY <1>1, <1>3, <1>5, <1>9, <2>2, <2>4, <2>5
<1>10. ASSUME mem' = mem /\ disk' \in Flushed(kind, disk, mem) /\ phase # "idle" /\ phase' = phase /\ whole' = whole
      PROVE  Goal
  <2>1. disk' \in NtfsFlushed(disk, mem)
    BY <1>2, <1>10
  <2>2. NtfsShape(disk') /\ NtfsSame(disk, disk')
    BY <1>1, <2>1, NtfsFlushes
  <2>3. NtfsMarkedOnDisk(disk, mem) => NtfsMarkedOnDisk(disk', mem)
    BY <1>1, <2>1, NtfsFlushes
  <2>4. /\ NtfsMarkedOnDisk(disk, mem) \/ (disk'.files = disk.files /\ disk'.bitmap = disk.bitmap)
        /\ disk'.files \in {disk.files, mem.files} /\ disk'.bitmap \in {disk.bitmap, mem.bitmap}
    BY <1>1, <2>1, NtfsFlushes
  <2>5. NtfsBehind(disk, mem) /\ (\A q \in 1..2 : mem.restart[q].lsn > 0) => NtfsBehind(disk', mem)
    BY <1>1, <2>1, NtfsFlushes
  <2>6. phase = "mounted" => isOpen(disk', mem)
    BY <1>1, <1>7, <2>5
  <2>7. inside(disk) \/ NtfsMarkedOnDisk(disk, mem) => inside(disk') \/ NtfsMarkedOnDisk(disk', mem)
    BY <2>3, <2>4 DEF inside
  <2> HIDE DEF isOpen, allEmpty
  <2> QED BY <1>1, <1>3, <1>10, <2>2, <2>4, <2>6, <2>7
<1>11. ASSUME disk' = disk /\ disk = mem /\ mem' = Unmounted(kind, mem) /\ phase = "mounted" /\ phase' = "closing" /\ whole' = whole
      PROVE  Goal
  <2>1. NtfsMade(mem) /\ ((mem.dirty /\ allEmpty(mem)) \/ (~mem.dirty /\ NtfsOpen(mem)))
    BY <1>1, <1>4, <1>11
  <2>2. mem' = NtfsUnmounted(mem)
    BY <1>2, <1>11
  <2>3. /\ NtfsMade(mem') /\ NtfsSame(mem, mem') /\ mem'.files = mem.files /\ mem'.bitmap = mem.bitmap
        /\ NtfsSettled(mem') /\ mem'.records = {}
    BY <2>1, <2>2, NtfsCloses
  <2> HIDE DEF isOpen, allEmpty
  <2> QED BY <1>1, <1>3, <1>5, <1>11, <2>3
<1>12. ASSUME disk' = disk /\ disk = mem /\ mem' = mem /\ phase = "closing" /\ phase' = "idle" /\ whole' = whole
      PROVE  Goal
  <2> HIDE DEF isOpen, allEmpty
  <2> QED BY <1>1, <1>3, <1>4, <1>5, <1>6, <1>12
<1>13. ASSUME disk' = disk /\ mem' = disk /\ phase # "idle" /\ phase' = "idle" /\ whole' = FALSE
      PROVE  Goal
  <2>1. NtfsMade(mem)
    BY <1>1, <1>4, <1>13
  <2>2. ASSUME phase = "closing"
        PROVE  NtfsSound(disk)
    <3>1. inside(disk)
      BY <1>1, <1>5, <2>1, <2>2 DEF inside
    <3> QED BY <1>6, <3>1
  <2>3. ASSUME phase = "mounted", NtfsMarkedOnDisk(disk, mem)
        PROVE  NtfsSound(disk)
    <3>1. CASE mem.dirty
      BY <2>3, <3>1 DEF NtfsMarkedOnDisk, NtfsSound, NtfsSettled
    <3>2. CASE ~mem.dirty /\ NtfsOpen(mem) /\ NtfsBehind(disk, mem)
      <4>1. PICK p \in 1..2 : disk.restart[p] = mem.restart[p]
        BY <2>3, <3>2 DEF NtfsMarkedOnDisk
      <4>2. ~LogIsClean(disk)
        BY <1>1, <3>2, <4>1, NtfsOpenIsNotClean
      <4> QED BY <4>2 DEF NtfsSound, NtfsSettled
    <3> QED BY <1>1, <2>3, <3>1, <3>2
  <2>4. NtfsSound(disk)
    BY <1>1, <1>4, <1>6, <1>13, <2>2, <2>3
  <2> HIDE DEF isOpen, allEmpty
  <2> QED BY <1>1, <1>3, <1>13, <2>4
<1>14. Goal
  <2>1. ~(disk' \in Damages(kind, disk))
    BY <1>2
  <2> HIDE DEF Goal
  <2> QED BY <1>8, <1>9, <1>10, <1>11, <1>12, <1>13, <2>1, LifeSteps
<1>15. kind' = kind /\ known' = known
  BY LifeSteps
<1>16. known' => disk'.torn = {} /\ disk'.sectors <= Size
  BY <1>14, <1>15 DEF NtfsInv, NtfsSame
<1> QED BY <1>14, <1>15, <1>16 DEF NtfsInv, inside

\* Volumes are made so.
LEMMA NtfsBegins == ASSUME InitVolume PROVE NtfsInv
<1> SUFFICES ASSUME kind = "ntfs" PROVE NtfsInv
  BY DEF NtfsInv
<1>1. disk \in NtfsFresh /\ mem = disk /\ phase = "idle"
  BY DEF InitVolume, Fresh
<1> DEFINE closed == ClosedLog
           none == EmptyLog
<1>14. \E log \in {closed, none}, sparse \in {{}, {NtfsClusters - 1}}, torn \in {{}, {"bitmap"}, {"log"}}, sectors \in {NtfsClusters, Size + 1} :
         disk = NtfsVolume(log, sparse, torn, sectors)
  <2>1. CASE \E log \in {closed, none}, sparse \in {{}, {NtfsClusters - 1}} : disk = NtfsVolume(log, sparse, {}, NtfsClusters)
    BY <2>1
  <2>2. CASE \E torn \in {{"bitmap"}, {"log"}} : disk = NtfsVolume(closed, {}, torn, NtfsClusters)
    BY <2>2
  <2>3. CASE disk = NtfsVolume(closed, {}, {}, Size + 1)
    BY <2>3
  <2> QED BY <1>1, <2>1, <2>2, <2>3 DEF NtfsFresh
<1>2. /\ DOMAIN disk = {"dirty", "restart", "records", "bitmap", "sparse", "files", "torn", "sectors"}
      /\ disk.dirty = FALSE /\ disk.records = {} /\ disk.bitmap = {0} \cup NtfsSystem /\ disk.files = {}
  BY <1>14 DEF NtfsVolume
<1>3. /\ disk.restart \in {closed, none} /\ disk.torn \subseteq {"bitmap", "log"} /\ disk.sectors \in {NtfsClusters, Size + 1}
  BY <1>14 DEF NtfsVolume
<1>4. /\ closed \in [1..2 -> NtfsPage] /\ \A p \in 1..2 : closed[p].state = "valid" /\ closed[p].clean
      /\ closed[1].lsn < closed[2].lsn
  BY DEF ClosedLog, Page, NtfsPage
<1>5. none \in [1..2 -> NtfsPage] /\ \A p \in 1..2 : none[p].state = "empty"
  BY DEF EmptyLog, EmptyPage, Page, NtfsPage
<1> HIDE DEF closed, none
<1>6. NtfsShape(disk)
  BY <1>2, <1>3, <1>4, <1>5 DEF NtfsShape
<1>7. NtfsMade(disk)
  BY <1>2, <1>3, <1>4, <1>5, <1>6 DEF NtfsMade
<1>8. LogIsClean(disk)
  <2>1. CASE disk.restart = closed
    BY <1>4, <1>6, <2>1, NtfsClosedIsClean
  <2>2. CASE disk.restart = none
    BY <1>2, <1>5, <2>2 DEF LogIsClean
  <2> QED BY <1>3, <2>1, <2>2
<1>9. NtfsSettled(disk)
  BY <1>2, <1>8 DEF NtfsSettled
<1>10. known => NtfsRead(disk, Copy).ok
  BY DEF InitVolume, Partition, PartitionOf, InFull, Read
<1>11. known => /\ disk.sectors <= Size
                /\ \A record \in RecordsRead(Copy) : Fixup(disk, record)
  BY <1>10 DEF NtfsRead, Result, Bad
<1>12. known => disk.torn = {}
  BY <1>11, <1>6 DEF RecordsRead, Fixup, NtfsShape
<1>13. NtfsSound(disk)
  BY <1>7 DEF NtfsSound, NtfsMade
<1> QED BY <1>1, <1>2, <1>6, <1>7, <1>9, <1>11, <1>12, <1>13 DEF NtfsInv, NtfsSame

\* An NTFS that is understood is kept; one that was understood when it was made is
\* understood whenever it was unmounted.
LEMMA NtfsUnderstood == ASSUME NtfsInv, Lifecycle, kind = "ntfs" PROVE
  /\ phase = "idle" /\ Read(kind, disk, Copy).ok => Keeps(Read(kind, disk, Copy), NeedOf(kind, disk))
  /\ phase = "idle" /\ whole /\ known => Read(kind, disk, Copy).ok
<1>1. Read(kind, disk, Copy) = NtfsRead(disk, Copy) /\ NeedOf(kind, disk) = NtfsNeed(disk)
  BY DEF Read, NeedOf
<1>2. ASSUME phase = "idle", whole, known
      PROVE  NtfsRead(disk, Copy).ok
  <2>1. disk.torn = {} /\ disk.sectors <= Size /\ NtfsSettled(disk)
    BY <1>2 DEF NtfsInv, Lifecycle
  <2>2. \A record \in RecordsRead(Copy) : Fixup(disk, record)
    BY <2>1 DEF Fixup
  <2> QED BY <2>1, <2>2, NtfsAssumption DEF NtfsRead, Result, Usage, NtfsSettled
<1>3. ASSUME phase = "idle", NtfsRead(disk, Copy).ok
      PROVE  Keeps(NtfsRead(disk, Copy), NtfsNeed(disk))
  <2>1. NtfsShape(disk) /\ NtfsSound(disk)
    BY <1>3 DEF NtfsInv
  <2> QED BY <1>3, <2>1, NtfsKeeps
<1> QED BY <1>1, <1>2, <1>3

(* APFS *)

\* What adds a series up adds up its sums.
LEMMA SumsAgree ==
  ASSUME NEW n \in Nat, NEW w, NEW f, IsSum(f, n, w),
         NEW c, DOMAIN c = 0..n, c = [i \in 0..n |-> c[i]], c[0] = 0, \A i \in 1..n : c[i] = c[i - 1] + w[i]
  PROVE  IsSum(c, n, w)
<1> DEFINE T == {i \in 0..n : c[i] = f[i]}
<1>1. 0 \in T
  BY DEF IsSum
<1>2. ASSUME NEW i \in 1..n, i - 1 \in T
      PROVE  i \in T
  <2>1. c[i] = c[i - 1] + w[i]
    OBVIOUS
  <2>2. f[i] = f[i - 1] + w[i]
    BY DEF IsSum
  <2>3. c[i - 1] = f[i - 1] /\ i \in 0..n
    BY <1>2
  <2> QED BY <2>1, <2>2, <2>3
<1>3. \A i \in 0..n : i \in T
  <2> HIDE DEF T
  <2> QED BY <1>1, <1>2, Induction
<1>4. c = f
  BY <1>3 DEF IsSum
<1> QED BY <1>4

\* The parts of a set have together as many elements as it has.
LEMMA PartsAddUp ==
  ASSUME NEW n \in Nat, NEW S, \A i \in 1..n : IsFiniteSet(S[i]),
         \A i, j \in 1..n : i # j => S[i] \cap S[j] = {},
         NEW f, IsSum(f, n, [i \in 1..n |-> Cardinality(S[i])])
  PROVE  /\ IsFiniteSet(UNION {S[i] : i \in 1..n})
         /\ f[n] = Cardinality(UNION {S[i] : i \in 1..n})
<1> DEFINE U(m) == UNION {S[i] : i \in 1..m}
           T == {m \in 0..n : IsFiniteSet(U(m)) /\ f[m] = Cardinality(U(m))}
<1>1. 0 \in T
  <2>1. U(0) = {} /\ f[0] = 0
    BY DEF IsSum
  <2>2. 0 \in 0..n
    OBVIOUS
  <2> HIDE DEF U
  <2> QED BY <2>1, <2>2, FS_EmptySet
<1>2. ASSUME NEW m \in 1..n, m - 1 \in T
      PROVE  m \in T
  <2>1. U(m) = U(m - 1) \cup S[m]
    <3>1. \A i : i \in 1..m <=> i \in 1..(m - 1) \/ i = m
      OBVIOUS
    <3> QED BY <3>1
  <2>2. U(m - 1) \cap S[m] = {}
    <3>1. \A i \in 1..(m - 1) : i \in 1..n /\ i # m
      OBVIOUS
    <3> QED BY <3>1
  <2>3. IsFiniteSet(U(m - 1)) /\ IsFiniteSet(S[m])
    BY <1>2
  <2>4. f[m] = f[m - 1] + Cardinality(S[m]) /\ f[m - 1] = Cardinality(U(m - 1)) /\ f[m - 1] \in Nat
    BY <1>2 DEF IsSum
  <2> HIDE DEF U
  <2>5. IsFiniteSet(U(m)) /\ Cardinality(U(m)) = Cardinality(U(m - 1)) + Cardinality(S[m]) - Cardinality({})
    <3>1. /\ IsFiniteSet(U(m - 1) \cup S[m])
          /\ Cardinality(U(m - 1) \cup S[m]) = Cardinality(U(m - 1)) + Cardinality(S[m]) - Cardinality(U(m - 1) \cap S[m])
      BY <2>3, FS_Union
    <3> QED BY <2>1, <2>2, <3>1
  <2>6. Cardinality({}) = 0 /\ Cardinality(S[m]) \in Nat
    BY <2>3, FS_EmptySet, FS_CardinalityType
  <2> QED BY <2>4, <2>5, <2>6
<1>3. \A m \in 0..n : m \in T
  <2> HIDE DEF T
  <2> QED BY <1>1, <1>2, Induction
<1> QED BY <1>3

\* The two places after one another of a ring are two.
LEMMA NextInRing ==
  ASSUME NEW r \in Nat, r > 1, NEW x \in Nat
  PROVE  /\ x % r \in 0..(r - 1) /\ (x + 1) % r \in 0..(r - 1)
         /\ (x + 1) % r # x % r
<1> DEFINE p == x \div r
           q == (x + 1) \div r
<1>1. p \in Int /\ q \in Int /\ x = r * p + (x % r) /\ x + 1 = r * q + ((x + 1) % r)
  OBVIOUS
<1>2. x % r \in 0..(r - 1) /\ (x + 1) % r \in 0..(r - 1)
  OBVIOUS
<1>3. ASSUME (x + 1) % r = x % r PROVE FALSE
  <2>1. r * q = r * p + 1
    BY <1>1, <1>2, <1>3
  <2>2. r * (q - p) = 1
    BY <1>1, <2>1
  <2> DEFINE k == q - p
  <2>3. k \in Int /\ r * k = 1
    BY <1>1, <2>2
  <2> HIDE DEF k
  <2>4. k > 0
    BY <2>3
  <2>5. r * k >= r
    BY <2>3, <2>4
  <2> QED BY <2>3, <2>5
<1> QED BY <1>2, <1>3

\* A later row of a table is behind all of an earlier one.
LEMMA MoreRows ==
  ASSUME NEW n \in Nat, NEW a \in Nat, NEW b \in Nat, b > a
  PROVE  b * n >= a * n + n
<1> DEFINE c == b - a - 1
<1>1. c \in Nat /\ b = a + 1 + c
  OBVIOUS
<1> HIDE DEF c
<1>2. b * n = a * n + n + c * n /\ c * n \in Nat /\ a * n \in Nat
  BY <1>1
<1> QED BY <1>2

\* A table of rows of n has no cell in two of its rows, nor two of a row in one.
LEMMA CellsOfRows ==
  ASSUME NEW n \in Nat, NEW r \in Nat, NEW s \in Nat, NEW i \in 0..(n - 1), NEW j \in 0..(n - 1),
         r * n + i = s * n + j
  PROVE  r = s /\ i = j
<1>2. r * n \in Nat /\ s * n \in Nat
  OBVIOUS
<1>3. ~(r < s)
  <2> SUFFICES ASSUME r < s PROVE FALSE
    OBVIOUS
  <2>1. s * n >= r * n + n
    BY MoreRows
  <2> QED BY <2>1, <1>2
<1>4. ~(s < r)
  <2> SUFFICES ASSUME s < r PROVE FALSE
    OBVIOUS
  <2>1. r * n >= s * n + n
    BY MoreRows
  <2> QED BY <2>1, <1>2
<1>5. r = s
  BY <1>3, <1>4
<1> QED BY <1>5, <1>2
\* Of some places of a table, one has the largest of their values.
LEMMA LargestOf ==
  ASSUME NEW n \in Nat, NEW v, \A i \in 1..n : v[i] \in Nat, NEW S, S \subseteq 1..n, S # {}
  PROVE  \E i \in S : \A j \in S : v[j] <= v[i]
<1> DEFINE T == {m \in 0..n : \/ \A j \in S : j > m
                             \/ \E i \in S : \A j \in S : j <= m => v[j] <= v[i]}
<1>1. 0 \in T
  OBVIOUS
<1>2. ASSUME NEW m \in 1..n, m - 1 \in T
      PROVE  m \in T
  <2>1. \A j \in S : j \in 1..n /\ (j <= m => j <= m - 1 \/ j = m) /\ v[j] \in Nat
    OBVIOUS
  <2>2. CASE m \notin S
    <3>1. \A j \in S : j # m
      BY <2>2
    <3> QED BY <1>2, <2>1, <3>1
  <2>3. CASE m \in S /\ \A j \in S : j > m - 1
    <3>1. \A j \in S : j <= m => j = m
      BY <2>1, <2>3
    <3> QED BY <2>1, <2>3, <3>1
  <2>4. CASE m \in S /\ \E i \in S : \A j \in S : j <= m - 1 => v[j] <= v[i]
    <3>1. PICK i \in S : \A j \in S : j <= m - 1 => v[j] <= v[i]
      BY <2>4
    <3>2. CASE v[m] <= v[i]
      <4>1. \A j \in S : j <= m => v[j] <= v[i]
        BY <2>1, <3>1, <3>2
      <4> QED BY <4>1
    <3>3. CASE v[i] <= v[m]
      <4>1. \A j \in S : j <= m => v[j] <= v[m]
        BY <2>1, <2>4, <3>1, <3>3
      <4> QED BY <2>4, <4>1
    <3>4. v[i] \in Nat /\ v[m] \in Nat
      BY <2>1, <2>4
    <3> QED BY <3>2, <3>3, <3>4
  <2> QED BY <1>2, <2>2, <2>3, <2>4
<1>3. \A m \in 0..n : m \in T
  <2> HIDE DEF T
  <2> QED BY <1>1, <1>2, Induction
<1>4. n \in T
  <2> HIDE DEF T
  <2> QED BY <1>3
<1>5. ~(\A j \in S : j > n) /\ \A j \in S : j <= n
  <2>1. \A j \in S : j \in 1..n
    OBVIOUS
  <2>2. PICK s \in S : TRUE
    OBVIOUS
  <2> QED BY <2>1, <2>2
<1> QED BY <1>4, <1>5

\* The bitmaps of a checkpoint: one of each chunk.
ApfsCount == Cardinality(ApfsChunks)

\* The chunks are parts of the container, and make it up.
LEMMA ApfsChunked ==
  /\ ApfsCount \in Nat \ {0} /\ ApfsChunks = 0..(ApfsCount - 1)
  /\ \A k \in ApfsChunks : ChunkBlocks(k) \subseteq 0..(ApfsBlocks - 1)
  /\ \A b \in 0..(ApfsBlocks - 1) : \E k \in ApfsChunks : b \in ChunkBlocks(k)
  /\ \A k, l \in ApfsChunks : k # l => ChunkBlocks(k) \cap ChunkBlocks(l) = {}
<1> DEFINE n == (ApfsBlocks - 1) \div ApfsChunk
           c == ApfsChunk
<1>1. /\ ApfsBlocks - 1 \in Nat /\ c \in Nat /\ c > 0
  BY ApfsAssumption
<1>2. n \in Nat
  BY <1>1, WholeParts
<1>3. ApfsCount = n + 1
  <2>1. Cardinality(0..n) = n + 1
    BY <1>2, FS_Interval
  <2> QED BY <2>1 DEF ApfsCount, ApfsChunks
<1>4. ApfsChunks = 0..n
  BY DEF ApfsChunks
<1>5. \A k \in Nat : k * c \in Nat
  BY <1>1
<1>6. ASSUME NEW k \in ApfsChunks, NEW b
      PROVE  b \in ChunkBlocks(k) <=> \E i \in 0..(c - 1) : b = k * c + i /\ b < ApfsBlocks
  <2>1. k \in Nat /\ k * c \in Nat
    BY <1>2, <1>4, <1>5
  <2>2. b \in Span(k * c, c) <=> \E i \in 0..(c - 1) : b = k * c + i
    <3> DEFINE x == k * c
    <3>1. x \in Nat
      BY <2>1
    <3> HIDE DEF x
    <3>2. b \in x..(x + c - 1) <=> \E i \in 0..(c - 1) : b = x + i
      <4>1. b \in x..(x + c - 1) => b - x \in 0..(c - 1) /\ b = x + (b - x)
        BY <1>1, <3>1
      <4> QED BY <1>1, <3>1, <4>1
    <3> QED BY <3>2 DEF Span, x
  <2> QED BY <2>2 DEF ChunkBlocks
<1>7. ASSUME NEW k \in ApfsChunks, NEW b \in ChunkBlocks(k) PROVE b \in 0..(ApfsBlocks - 1)
  <2>1. PICK i \in 0..(c - 1) : b = k * c + i /\ b < ApfsBlocks
    BY <1>6
  <2> DEFINE x == k * c
  <2>2. x \in Nat /\ b = x + i
    BY <1>2, <1>4, <1>5, <2>1
  <2> HIDE DEF x
  <2>3. b \in Nat /\ b < ApfsBlocks
    BY <2>1, <2>2, <1>1
  <2> QED BY <2>3, ApfsAssumption
<1>8. ASSUME NEW b \in 0..(ApfsBlocks - 1) PROVE \E k \in ApfsChunks : b \in ChunkBlocks(k)
  <2> DEFINE k == b \div c
             i == b % c
  <2>1. k \in Nat /\ k * c <= b
    BY <1>1, WholeParts
  <2>2. i \in 0..(c - 1) /\ b = k * c + i
    BY <1>1
  <2>3. k <= n
    <3>1. ApfsBlocks - 1 < n * c + c
      <4>1. ApfsBlocks - 1 = n * c + ((ApfsBlocks - 1) % c) /\ (ApfsBlocks - 1) % c \in 0..(c - 1)
        <5> DEFINE last == ApfsBlocks - 1
        <5>1. last \in Nat
          BY <1>1
        <5> HIDE DEF last
        <5>2. last = c * (last \div c) + (last % c) /\ last % c \in 0..(c - 1) /\ last \div c \in Nat
          BY <1>1, <5>1
        <5>3. c * (last \div c) = (last \div c) * c
          BY <1>1, <5>2
        <5> QED BY <5>2, <5>3 DEF last
      <4>2. n * c \in Nat
        BY <1>2, <1>5
      <4> QED BY <1>1, <4>1, <4>2
    <3>2. ASSUME k > n PROVE FALSE
      <4>1. k * c >= n * c + c
        BY <1>1, <1>2, <2>1, <3>2, MoreRows
      <4>2. k * c \in Nat /\ n * c \in Nat
        BY <1>2, <1>5, <2>1
      <4> QED BY <1>1, <2>1, <3>1, <4>1, <4>2
    <3> QED BY <1>2, <2>1, <3>2
  <2>4. k \in ApfsChunks
    BY <1>2, <1>4, <2>1, <2>3
  <2>5. b < ApfsBlocks
    BY ApfsAssumption
  <2> HIDE DEF k, i
  <2> QED BY <1>6, <2>2, <2>4, <2>5
<1>9. ASSUME NEW k \in ApfsChunks, NEW l \in ApfsChunks, NEW b \in ChunkBlocks(k), b \in ChunkBlocks(l)
      PROVE  k = l
  <2>1. PICK i \in 0..(c - 1) : b = k * c + i
    BY <1>6
  <2>2. PICK j \in 0..(c - 1) : b = l * c + j
    BY <1>6, <1>9
  <2>3. k \in Nat /\ l \in Nat
    BY <1>2, <1>4
  <2> QED BY <1>1, <2>1, <2>2, <2>3, CellsOfRows
<1> QED BY <1>2, <1>3, <1>4, <1>7, <1>8, <1>9

\* A bitmap is one checkpoint's and one chunk's, except for the checkpoints a ring apart.
LEMMA ApfsPlaces ==
  ASSUME NEW x \in Nat, NEW k \in ApfsChunks
  PROVE  /\ PoolBlock(x, k) \in 1..(ApfsRing * ApfsCount) /\ PoolBlock(x, k) # NoBitmap
         /\ \A y \in Nat, l \in ApfsChunks : PoolBlock(x, k) = PoolBlock(y, l) => x % ApfsRing = y % ApfsRing /\ k = l
<1> DEFINE n == ApfsCount
           r == ApfsRing
<1>1. n \in Nat /\ n > 0 /\ ApfsChunks = 0..(n - 1)
  BY ApfsChunked
<1>2. r \in Nat /\ r > 1
  BY ApfsAssumption
<1>3. \A y \in Nat : y % r \in 0..(r - 1) /\ (y % r) * n \in Nat
  <2> TAKE y \in Nat
  <2>1. y % r \in 0..(r - 1)
    BY <1>2, NextInRing
  <2> QED BY <2>1, <1>1
<1>4. \A y : \A l : PoolBlock(y, l) = 1 + (y % r) * n + l
  BY DEF PoolBlock, ApfsCount
<1> HIDE DEF n, r
<1>5. PoolBlock(x, k) \in 1..(r * n) /\ PoolBlock(x, k) # NoBitmap
  <2> DEFINE a == (x % r) * n
  <2>1. a \in Nat /\ a + n <= r * n /\ r * n \in Nat
    <3>1. x % r \in Nat /\ x % r < r
      BY <1>2, <1>3
    <3>2. r * n >= (x % r) * n + n
      BY <1>1, <1>2, <3>1, MoreRows
    <3> QED BY <1>1, <1>2, <1>3, <3>2
  <2>2. PoolBlock(x, k) = 1 + a + k
    BY <1>4
  <2> HIDE DEF a
  <2> DEFINE z == r * n
  <2>3. a \in Nat /\ a + n <= z /\ z \in Nat
    BY <2>1
  <2> HIDE DEF z
  <2>4. PoolBlock(x, k) \in 1..z /\ PoolBlock(x, k) # NoBitmap
    BY <1>1, <2>2, <2>3 DEF NoBitmap
  <2> QED BY <2>4 DEF z
<1>6. ASSUME NEW y \in Nat, NEW l \in ApfsChunks, PoolBlock(x, k) = PoolBlock(y, l)
      PROVE  x % r = y % r /\ k = l
  <2> DEFINE a == x % r
             b == y % r
  <2>1. a \in Nat /\ b \in Nat /\ a * n \in Nat /\ b * n \in Nat
    <3>1. x % r \in 0..(r - 1) /\ y % r \in 0..(r - 1) /\ (x % r) * n \in Nat /\ (y % r) * n \in Nat
      BY <1>3
    <3> QED BY <1>2, <3>1
  <2>2. 1 + a * n + k = 1 + b * n + l
    BY <1>4, <1>6
  <2> HIDE DEF a, b
  <2>3. a * n + k = b * n + l
    BY <1>1, <2>1, <2>2
  <2>4. a = b /\ k = l
    BY <1>1, <2>1, <2>3, CellsOfRows
  <2> QED BY <2>4 DEF a, b
<1> QED BY <1>5, <1>6 DEF n, r

\* A checkpoint that may have been torn, and its place in the ring.
ApfsRange == 0..(ApfsBlocks - 1)
ApfsPoints == {[ApfsPoint(x, held, queue) EXCEPT !.whole = w] : x \in Nat, held \in SUBSET ApfsRange,
                                                             queue \in SUBSET ApfsRange, w \in BOOLEAN}
ApfsPlace(x) == 1 + (x % ApfsRing)

\* Its bitmaps are there, or read as zeros.
ApfsFilled(d, p) == \A k \in ApfsChunks : d.pool[PoolBlock(p.xid, k)] = p.held \cap ChunkBlocks(k)
ApfsLegible(d, p) == \A k \in ApfsChunks : d.pool[PoolBlock(p.xid, k)] \in {p.held \cap ChunkBlocks(k), {}}

\* A container: each checkpoint is at its place.
ApfsVolume(d) ==
  /\ DOMAIN d = {"ring", "pool", "zero", "now", "blocks", "fusion", "resizing", "besides"}
  /\ d.ring \in [1..ApfsRing -> ApfsPoints] /\ DOMAIN d.pool = 1..(ApfsRing * ApfsCount)
  /\ d.blocks \in {ApfsBlocks, Size + 1} /\ d.fusion \in BOOLEAN /\ d.resizing \in BOOLEAN /\ d.besides \in ApfsBesides
  /\ \A i \in 1..ApfsRing : d.ring[i].whole => d.ring[i].xid > 0 /\ i = ApfsPlace(d.ring[i].xid)

\* The newest checkpoint is legible.
ApfsNewest(d, i) == i \in WholePoints(d) /\ \A j \in WholePoints(d) : d.ring[j].xid <= d.ring[i].xid
ApfsSound(d) == \A i : ApfsNewest(d, i) => ApfsLegible(d, d.ring[i])

\* What a checkpoint says of itself.
LEMMA ApfsSays ==
  ASSUME NEW p \in ApfsPoints
  PROVE  /\ p.xid \in Nat /\ p.held \subseteq ApfsRange /\ p.queue \subseteq ApfsRange /\ p.whole \in BOOLEAN
         /\ p.map = {4, 5} /\ p.volumes = {5} /\ p.queued = Cardinality(p.queue)
         /\ p.free = Cardinality(ApfsRange \ p.held)
         /\ \A k \in ApfsChunks :
              /\ p.chunk[k].bitmap = IF p.held \cap ChunkBlocks(k) = {} THEN NoBitmap ELSE PoolBlock(p.xid, k)
              /\ p.chunk[k].free = Cardinality(ChunkBlocks(k) \ p.held)
         /\ \A w \in BOOLEAN : [p EXCEPT !.whole = w] \in ApfsPoints
         /\ p.whole => [p EXCEPT !.whole = TRUE] = p
<1>1. PICK x \in Nat, held \in SUBSET ApfsRange, queue \in SUBSET ApfsRange, v \in BOOLEAN :
        p = [ApfsPoint(x, held, queue) EXCEPT !.whole = v]
  BY DEF ApfsPoints
<1>2. /\ p.xid = x /\ p.held = held /\ p.queue = queue /\ p.whole = v
      /\ p.map = {4, 5} /\ p.volumes = {5} /\ p.queued = Cardinality(queue)
      /\ p.free = Cardinality(ApfsRange \ held)
      /\ p.chunk = [k \in ApfsChunks |-> [bitmap |-> IF ChunkBlocks(k) \cap held = {} THEN NoBitmap ELSE PoolBlock(x, k),
                                          free |-> Cardinality(ChunkBlocks(k) \ held)]]
  BY <1>1 DEF ApfsPoint, ApfsRange
<1>3. \A k : ChunkBlocks(k) \cap held = held \cap ChunkBlocks(k)
  OBVIOUS
<1>4. \A k \in ApfsChunks :
        /\ p.chunk[k].bitmap = IF p.held \cap ChunkBlocks(k) = {} THEN NoBitmap ELSE PoolBlock(p.xid, k)
        /\ p.chunk[k].free = Cardinality(ChunkBlocks(k) \ p.held)
  BY <1>2, <1>3
<1>5. \A w \in BOOLEAN : [p EXCEPT !.whole = w] \in ApfsPoints
  <2> TAKE w \in BOOLEAN
  <2>1. [p EXCEPT !.whole = w] = [ApfsPoint(x, held, queue) EXCEPT !.whole = w]
    BY <1>1 DEF ApfsPoint
  <2> QED BY <2>1 DEF ApfsPoints
<1>6. p.whole => [p EXCEPT !.whole = TRUE] = p
  BY <1>1 DEF ApfsPoint
<1> QED BY <1>2, <1>4, <1>5, <1>6

\* The blocks of a container are finitely many.
LEMMA ApfsFinite == ASSUME NEW S, S \subseteq ApfsRange PROVE IsFiniteSet(S)
<1>1. IsFiniteSet(ApfsRange)
  BY FS_Interval, ApfsAssumption DEF ApfsRange
<1> QED BY <1>1, FS_Subset

\* So are the blocks a superblock names besides.
LEMMA ApfsBesidesIn == \A x \in ApfsBesides : Besides(x) \subseteq ApfsRange
<1>1. ApfsBlocks \in Nat /\ ApfsBlocks > 7
  BY ApfsAssumption
<1>2. 6 \in ApfsRange /\ 7 \in ApfsRange
  BY <1>1 DEF ApfsRange
<1> QED BY <1>2 DEF ApfsBesides, Besides

\* What is kept of an APFS it understands (apfs.rs): a bitmap that reads as zeros does
\* not go with its count.
LEMMA ApfsKeeps ==
  ASSUME NEW d, ApfsVolume(d), ApfsSound(d), ApfsRead(d, Copy).ok
  PROVE  Keeps(ApfsRead(d, Copy), ApfsNeed(d))
<1> DEFINE s == Latest(d)
<1>1. /\ WholePoints(d) # {} /\ OneLatest(d)
      /\ d.blocks <= Size /\ ~d.fusion /\ ~d.resizing
      /\ SpacemanSound(d, s, Copy)
      /\ ApfsRead(d, Copy).used = ApfsFixed \cup s.map \cup SpacemanKept(d, s) \cup Besides(d.besides)
      /\ ApfsRead(d, Copy).end = ApfsBlocks
  BY DEF ApfsRead, Result, Bad, Usage
<1>2. d.blocks = ApfsBlocks /\ ApfsBlocks \in Nat /\ ApfsBlocks > 7 /\ ApfsBlocks <= Size /\ Size \in Nat
  BY <1>1, ApfsAssumption, SizeAssumption DEF ApfsVolume
<1>3. \A i \in 1..ApfsRing : d.ring[i] \in ApfsPoints
  BY DEF ApfsVolume
<1>4. \A i \in 1..ApfsRing : d.ring[i].xid \in Nat
  BY <1>3, ApfsSays
<1> DEFINE latest(i) == i \in WholePoints(d) /\ \A j \in WholePoints(d) : d.ring[j].xid <= d.ring[i].xid
           at == CHOOSE i \in WholePoints(d) : \A j \in WholePoints(d) : d.ring[j].xid <= d.ring[i].xid
<1>5. latest(at) /\ s = d.ring[at]
  <2>1. \E i : latest(i)
    <3>1. WholePoints(d) \subseteq 1..ApfsRing /\ ApfsRing \in Nat
      BY ApfsAssumption DEF WholePoints
    <3> DEFINE v == [i \in 1..ApfsRing |-> d.ring[i].xid]
    <3>2. \A i \in 1..ApfsRing : v[i] \in Nat /\ v[i] = d.ring[i].xid
      BY <1>4
    <3> HIDE DEF v
    <3>3. \E i \in WholePoints(d) : \A j \in WholePoints(d) : v[j] <= v[i]
      BY <1>1, <3>1, <3>2, LargestOf
    <3> QED BY <3>1, <3>2, <3>3
  <2> QED BY <2>1 DEF Latest
<1>6. s \in ApfsPoints /\ ApfsLegible(d, s) /\ s.xid \in Nat
  <2>1. at \in 1..ApfsRing /\ ApfsNewest(d, at)
    BY <1>5 DEF WholePoints, ApfsNewest
  <2> QED BY <1>3, <1>4, <1>5, <2>1 DEF ApfsSound
<1>7. ApfsNeed(d) \subseteq ApfsBlocks..(Size - 1) \cup Besides(d.besides) \cup s.held \cup s.queue
  <2> DEFINE points == {p \in {d.ring[i] : i \in 1..ApfsRing} : p.whole}
             newest == {p \in points : \A q \in points : q.xid <= p.xid}
  <2>1. ASSUME NEW p \in newest PROVE p = s
    <3>1. PICK i \in 1..ApfsRing : p = d.ring[i] /\ d.ring[i].whole
      OBVIOUS
    <3>2. \A j \in WholePoints(d) : d.ring[j].xid <= d.ring[i].xid
      BY <3>1 DEF WholePoints
    <3>3. i \in WholePoints(d)
      BY <3>1 DEF WholePoints, ApfsVolume
    <3>4. d.ring[i].xid <= d.ring[at].xid /\ d.ring[at].xid <= d.ring[i].xid
      BY <1>5, <3>2, <3>3
    <3>5. at \in 1..ApfsRing
      BY <1>5 DEF WholePoints
    <3> HIDE DEF at, s
    <3>6. d.ring[i].xid = d.ring[at].xid
      <4>1. d.ring[i].xid \in Nat /\ d.ring[at].xid \in Nat
        BY <1>4, <3>1, <3>5
      <4> QED BY <3>4, <4>1
    <3>7. i = at
      BY <1>1, <1>5, <3>3, <3>6 DEF OneLatest
    <3> QED BY <1>5, <3>1, <3>7
  <2>2. ApfsNeed(d) = ApfsBlocks..(Size - 1) \cup Besides(d.besides) \cup UNION {p.held \cup p.queue : p \in newest}
    BY <1>1, <1>2 DEF ApfsNeed
  <2> HIDE DEF newest, s
  <2> QED BY <2>1, <2>2
<1> HIDE DEF s
<1>8. s.held \subseteq ApfsRange /\ s.queue \subseteq ApfsRange
  BY <1>6, ApfsSays
<1>9. s.queue \subseteq SpacemanKept(d, s)
  BY DEF SpacemanKept
<1>10. s.held \subseteq SpacemanKept(d, s)
  <2> SUFFICES ASSUME NEW x \in s.held, x \notin SpacemanKept(d, s)
               PROVE  FALSE
    OBVIOUS
  <2>1. PICK k \in ApfsChunks : x \in ChunkBlocks(k)
    BY <1>8, ApfsChunked DEF ApfsRange
  <2>2. s.chunk[k].bitmap = PoolBlock(s.xid, k) /\ s.chunk[k].free = Cardinality(ChunkBlocks(k) \ s.held)
    BY <1>6, <2>1, ApfsSays
  <2>3. s.chunk[k].bitmap # NoBitmap
    BY <1>6, <2>2, ApfsPlaces
  <2>4. ChunkSet(d, s, k) = d.pool[PoolBlock(s.xid, k)] \cap ChunkBlocks(k)
    BY <2>2, <2>3 DEF ChunkSet
  <2>5. x \notin ChunkSet(d, s, k)
    BY <2>1 DEF SpacemanKept
  <2>6. d.pool[PoolBlock(s.xid, k)] = {}
    BY <1>6, <2>1, <2>4, <2>5 DEF ApfsLegible
  <2>7. ChunkBlocks(k) \ ChunkSet(d, s, k) = ChunkBlocks(k)
    BY <2>4, <2>6
  <2>8. Cardinality(ChunkBlocks(k)) = Cardinality(ChunkBlocks(k) \ s.held)
    BY <1>1, <2>2, <2>7 DEF SpacemanSound, ChunkSound
  <2>9. IsFiniteSet(ChunkBlocks(k))
    BY ApfsChunked, ApfsFinite DEF ApfsRange
  <2>10. ChunkBlocks(k) = ChunkBlocks(k) \ s.held
    BY <2>8, <2>9, FS_Subset
  <2> QED BY <2>1, <2>10
<1>11. ApfsRange \subseteq Cells
  BY <1>2 DEF ApfsRange, Cells
<1>12. Besides(d.besides) \subseteq ApfsRange
  BY ApfsBesidesIn DEF ApfsVolume
<1>13. ApfsNeed(d) \subseteq Cells
  <2>1. ApfsBlocks..(Size - 1) \subseteq Cells
    BY <1>2 DEF Cells
  <2> QED BY <1>7, <1>8, <1>11, <1>12, <2>1
<1>14. \A c \in ApfsNeed(d) : c \in ApfsRead(d, Copy).used \/ c \in ApfsBlocks..(Size - 1)
  <2>1. ApfsRead(d, Copy).used = ApfsFixed \cup s.map \cup SpacemanKept(d, s) \cup Besides(d.besides)
    BY <1>1
  <2> QED BY <1>7, <1>9, <1>10, <2>1
<1>15. ApfsRead(d, Copy).end = ApfsBlocks /\ (IF ApfsBlocks < Size THEN ApfsBlocks ELSE Size) = ApfsBlocks
  BY <1>1, <1>2
<1> QED BY <1>13, <1>14, <1>15 DEF Keeps

ApfsSame(d, e) ==
  DOMAIN e = DOMAIN d /\ e.blocks = d.blocks /\ e.fusion = d.fusion /\ e.resizing = d.resizing /\ e.besides = d.besides

\* A checkpoint is there in full.
ApfsPresent(m, x) ==
  LET p == m.ring[ApfsPlace(x)] IN p.whole /\ p.xid = x /\ ApfsFilled(m, p)

\* What a driver has in memory: the last checkpoint and the one before are there, and
\* it is the newest.
ApfsMade(m) ==
  /\ ApfsVolume(m)
  /\ m.now.xid \in Nat \ {0} /\ m.now.files \subseteq ApfsRange
  /\ ApfsPresent(m, m.now.xid)
  /\ m.now.xid > 1 => ApfsPresent(m, m.now.xid - 1)
  /\ \A i \in 1..ApfsRing : i # ApfsPlace(m.now.xid) => m.ring[i].xid < m.now.xid

\* The disk lacks at most that checkpoint, or its bitmaps, or both; where it would be,
\* one is that is at least two older, or a torn one.
ApfsBehind(d, m) ==
  LET x == m.now.xid
      old == d.ring[ApfsPlace(x)]
  IN  /\ \A j \in 1..ApfsRing : j # ApfsPlace(x) => d.ring[j] = m.ring[j]
      /\ \A b \in 1..(ApfsRing * ApfsCount) : (\A k \in ApfsChunks : b # PoolBlock(x, k)) => d.pool[b] = m.pool[b]
      /\ old.whole => \/ old = m.ring[ApfsPlace(x)] /\ d.pool = m.pool
                      \/ old.xid < x - 1

\* The places of two checkpoints after one another.
LEMMA ApfsNextPlace ==
  ASSUME NEW x \in Nat
  PROVE  /\ ApfsPlace(x) \in 1..ApfsRing /\ ApfsPlace(x + 1) \in 1..ApfsRing
         /\ ApfsPlace(x + 1) # ApfsPlace(x)
         /\ \A k, l \in ApfsChunks : PoolBlock(x + 1, k) # PoolBlock(x, l)
<1>1. /\ x % ApfsRing \in 0..(ApfsRing - 1) /\ (x + 1) % ApfsRing \in 0..(ApfsRing - 1)
      /\ (x + 1) % ApfsRing # x % ApfsRing
  <2>1. ApfsRing \in Nat /\ ApfsRing > 1
    BY ApfsAssumption
  <2> QED BY <2>1, NextInRing
<1>2. \A k, l \in ApfsChunks : PoolBlock(x + 1, k) # PoolBlock(x, l)
  BY <1>1, ApfsPlaces
<1> DEFINE a == x % ApfsRing
           b == (x + 1) % ApfsRing
<1>3. ApfsRing \in Nat
  BY ApfsAssumption
<1> HIDE DEF a, b
<1>4. 1 + a \in 1..ApfsRing /\ 1 + b \in 1..ApfsRing /\ 1 + b # 1 + a
  <2>1. a \in 0..(ApfsRing - 1) /\ b \in 0..(ApfsRing - 1) /\ b # a
    BY <1>1 DEF a, b
  <2> QED BY <1>3, <2>1
<1> QED BY <1>2, <1>4 DEF ApfsPlace, a, b

\* A disk that lacks some of what a driver had to write is sound.
LEMMA ApfsBehindIsSound ==
  ASSUME NEW d, NEW m, ApfsVolume(d), ApfsMade(m), ApfsBehind(d, m)
  PROVE  ApfsSound(d)
<1> DEFINE x == m.now.xid
           R == 1..ApfsRing
<1>1. x \in Nat /\ x > 0
  BY DEF ApfsMade
<1>2. /\ \A j \in R : j # ApfsPlace(x) => d.ring[j] = m.ring[j] /\ m.ring[j].xid < x
      /\ \A b \in 1..(ApfsRing * ApfsCount) : (\A k \in ApfsChunks : b # PoolBlock(x, k)) => d.pool[b] = m.pool[b]
  BY DEF ApfsMade, ApfsBehind
<1>3. /\ \A i \in R : d.ring[i].xid \in Nat
      /\ \A i \in R : d.ring[i].whole => d.ring[i].xid > 0 /\ i = ApfsPlace(d.ring[i].xid)
  BY ApfsSays DEF ApfsVolume
<1>4. ApfsPresent(m, x) /\ (x > 1 => ApfsPresent(m, x - 1))
  BY DEF ApfsMade
<1>5. ApfsPlace(x) \in R
  BY <1>1, ApfsNextPlace
<1>6. x > 1 => /\ ApfsPlace(x - 1) \in R /\ ApfsPlace(x - 1) # ApfsPlace(x)
               /\ \A k, l \in ApfsChunks : PoolBlock(x - 1, k) # PoolBlock(x, l)
               /\ x - 1 \in Nat
  <2> HAVE x > 1
  <2>1. x - 1 \in Nat /\ (x - 1) + 1 = x
    BY <1>1
  <2> QED BY <2>1, ApfsNextPlace
<1>7. d.ring[ApfsPlace(x)].whole => \/ d.ring[ApfsPlace(x)] = m.ring[ApfsPlace(x)] /\ d.pool = m.pool
                                   \/ d.ring[ApfsPlace(x)].xid < x - 1
  BY DEF ApfsBehind
<1> HIDE DEF x
<1> SUFFICES ASSUME NEW i, ApfsNewest(d, i)
             PROVE  ApfsLegible(d, d.ring[i])
  BY DEF ApfsSound
<1>8. i \in R /\ d.ring[i].whole /\ \A j \in WholePoints(d) : d.ring[j].xid <= d.ring[i].xid
  BY DEF ApfsNewest, WholePoints
<1>9. x > 1 => ApfsPlace(x - 1) \in WholePoints(d) /\ d.ring[ApfsPlace(x - 1)] = m.ring[ApfsPlace(x - 1)]
               /\ m.ring[ApfsPlace(x - 1)].xid = x - 1
  <2> HAVE x > 1
  <2>1. ApfsPlace(x - 1) \in R /\ d.ring[ApfsPlace(x - 1)] = m.ring[ApfsPlace(x - 1)]
    BY <1>2, <1>6
  <2>2. m.ring[ApfsPlace(x - 1)].whole /\ m.ring[ApfsPlace(x - 1)].xid = x - 1
    BY <1>4 DEF ApfsPresent
  <2>3. x - 1 > 0
    BY <1>1
  <2> QED BY <2>1, <2>2, <2>3 DEF WholePoints
<1>10. CASE i = ApfsPlace(x) /\ d.ring[i] = m.ring[i] /\ d.pool = m.pool
  BY <1>4, <1>10 DEF ApfsPresent, ApfsFilled, ApfsLegible
<1>11. CASE i = ApfsPlace(x) /\ d.ring[i].xid < x - 1
  <2>1. x > 1
    BY <1>1, <1>3, <1>8, <1>11
  <2>2. x - 1 <= d.ring[i].xid
    BY <1>8, <1>9, <2>1
  <2>3. d.ring[i].xid \in Nat
    BY <1>3, <1>8
  <2> QED BY <1>1, <1>11, <2>2, <2>3
<1>12. CASE i # ApfsPlace(x)
  <2>1. d.ring[i] = m.ring[i] /\ d.ring[i].xid < x /\ d.ring[i].xid > 0 /\ d.ring[i].xid \in Nat
    BY <1>2, <1>3, <1>8, <1>12
  <2>2. x > 1
    BY <1>1, <2>1
  <2>3. x - 1 <= d.ring[i].xid
    BY <1>8, <1>9, <2>2
  <2>4. d.ring[i].xid = x - 1
    BY <1>1, <2>1, <2>3
  <2>5. i = ApfsPlace(x - 1)
    BY <1>3, <1>8, <2>4
  <2>6. ApfsFilled(m, m.ring[i]) /\ m.ring[i].xid = x - 1
    BY <1>4, <2>2, <2>5 DEF ApfsPresent
  <2>7. ASSUME NEW k \in ApfsChunks PROVE d.pool[PoolBlock(x - 1, k)] = m.pool[PoolBlock(x - 1, k)]
    <3>1. PoolBlock(x - 1, k) \in 1..(ApfsRing * ApfsCount)
      BY <1>6, <2>2, ApfsPlaces
    <3> QED BY <1>2, <1>6, <2>2, <3>1
  <2> QED BY <2>1, <2>6, <2>7 DEF ApfsFilled, ApfsLegible
<1> QED BY <1>7, <1>8, <1>10, <1>11, <1>12

\* What is on the disk is sound, without one of the bitmaps, too.
LEMMA ApfsDamages ==
  ASSUME NEW d, ApfsMade(d), NEW e \in ApfsDamaged(d)
  PROVE  ApfsVolume(e) /\ ApfsSound(e) /\ ApfsSame(d, e)
<1>1. PICK b \in DOMAIN d.pool : e = [d EXCEPT !.pool[b] = {}]
  BY DEF ApfsDamaged
<1>2. ApfsVolume(d)
  BY DEF ApfsMade
<1>3. /\ DOMAIN e = DOMAIN d /\ e.ring = d.ring /\ e.pool = [d.pool EXCEPT ![b] = {}]
      /\ e.blocks = d.blocks /\ e.fusion = d.fusion /\ e.resizing = d.resizing /\ e.besides = d.besides
  BY <1>1, <1>2 DEF ApfsVolume
<1>4. ApfsVolume(e) /\ ApfsSame(d, e)
  BY <1>2, <1>3 DEF ApfsVolume, ApfsSame
<1>5. ApfsSound(d)
  <2>1. ApfsBehind(d, d)
    BY DEF ApfsBehind
  <2> QED BY <1>2, <2>1, ApfsBehindIsSound
<1>6. ApfsSound(e)
  <2> SUFFICES ASSUME NEW i, ApfsNewest(e, i), NEW k \in ApfsChunks
               PROVE  e.pool[PoolBlock(e.ring[i].xid, k)] \in {e.ring[i].held \cap ChunkBlocks(k), {}}
    BY DEF ApfsSound, ApfsLegible
  <2>1. ApfsNewest(d, i) /\ d.ring[i].xid \in Nat
    BY <1>2, <1>3, ApfsSays DEF ApfsNewest, WholePoints, ApfsVolume
  <2>2. d.pool[PoolBlock(d.ring[i].xid, k)] \in {d.ring[i].held \cap ChunkBlocks(k), {}}
    BY <1>5, <2>1 DEF ApfsSound, ApfsLegible
  <2>3. PoolBlock(d.ring[i].xid, k) \in DOMAIN d.pool
    BY <1>2, <2>1, ApfsPlaces DEF ApfsVolume
  <2> QED BY <1>3, <2>2, <2>3
<1> QED BY <1>4, <1>6

\* A checkpoint that is written out.
LEMMA ApfsNew ==
  ASSUME NEW x \in Nat, NEW held, held \subseteq ApfsRange, NEW queue, queue \subseteq ApfsRange
  PROVE  LET p == ApfsPoint(x, held, queue)
         IN  p \in ApfsPoints /\ p.whole /\ p.xid = x /\ p.held = held
<1> DEFINE p == ApfsPoint(x, held, queue)
<1>1. p.whole /\ p.xid = x /\ p.held = held
  BY DEF ApfsPoint
<1>3. \A w \in BOOLEAN : [p EXCEPT !.whole = w] \in ApfsPoints
  <2> TAKE w \in BOOLEAN
  <2>1. held \in SUBSET ApfsRange /\ queue \in SUBSET ApfsRange
    OBVIOUS
  <2> QED BY <2>1 DEF ApfsPoints
<1>4. [p EXCEPT !.whole = TRUE] = p
  <2>1. PICK a, w, c, n, f, g, h, i, j :
          p = [xid |-> a, whole |-> w, queue |-> c, queued |-> n, map |-> f, volumes |-> g, held |-> h, free |-> i, chunk |-> j]
    BY DEF ApfsPoint
  <2> HIDE DEF p
  <2>2. p.whole = w /\ [p EXCEPT !.whole = w] = p
    BY <2>1
  <2>3. p.whole = TRUE
    BY DEF p, ApfsPoint
  <2> QED BY <2>2, <2>3
<1>5. [p EXCEPT !.whole = TRUE] \in ApfsPoints
  <2> HIDE DEF p
  <2> QED BY <1>3, Zenon
<1> QED BY <1>1, <1>4, <1>5

\* A checkpoint is written, with its bitmaps, in its place.
ApfsAdded(d, m, y, files) ==
  /\ ApfsVolume(m) /\ ApfsSame(d, m) /\ ApfsPresent(m, y)
  /\ m.now.xid = y /\ m.now.files = files /\ m.zero = d.zero
  /\ \A i \in 1..ApfsRing : i # ApfsPlace(y) => m.ring[i] = d.ring[i]
  /\ \A b \in DOMAIN d.pool : (\A k \in ApfsChunks : b # PoolBlock(y, k)) => m.pool[b] = d.pool[b]

\* So it is by a driver that has a container.
LEMMA ApfsPutsOne ==
  ASSUME NEW d, ApfsVolume(d), NEW y \in Nat, y > 0,
         NEW files, files \subseteq ApfsRange, NEW queue, queue \subseteq ApfsRange
  PROVE  ApfsAdded(d, ApfsPut(d, y, files, queue), y, files)
<1> DEFINE held == ApfsSystem \cup files
           m == ApfsPut(d, y, files, queue)
           new == ApfsPoint(y, held, queue)
           R == 1..ApfsRing
<1>1. held \subseteq ApfsRange
  BY ApfsAssumption DEF ApfsRange, ApfsSystem, ApfsFixed
<1>2. /\ DOMAIN m = DOMAIN d /\ m.blocks = d.blocks /\ m.fusion = d.fusion /\ m.resizing = d.resizing /\ m.besides = d.besides /\ m.zero = d.zero
      /\ m.now = [xid |-> y, files |-> files]
      /\ m.ring = [d.ring EXCEPT ![ApfsPlace(y)] = new]
      /\ m.pool = [b \in DOMAIN d.pool |->
                     IF \E k \in ApfsChunks : b = PoolBlock(y, k)
                     THEN held \cap ChunkBlocks(CHOOSE k \in ApfsChunks : b = PoolBlock(y, k))
                     ELSE d.pool[b]]
  BY DEF ApfsVolume, ApfsPut, ApfsPlace
<1>3. ApfsPlace(y) \in R
  BY ApfsNextPlace
<1>4. new \in ApfsPoints /\ new.whole /\ new.xid = y /\ new.held = held
  <2> HIDE DEF held
  <2> QED BY <1>1, ApfsNew
<1>5. ASSUME NEW k \in ApfsChunks
      PROVE  m.pool[PoolBlock(y, k)] = held \cap ChunkBlocks(k)
  <2>1. PoolBlock(y, k) \in DOMAIN d.pool
    BY ApfsPlaces DEF ApfsVolume
  <2>2. \A l \in ApfsChunks : PoolBlock(y, k) = PoolBlock(y, l) => l = k
    BY ApfsPlaces
  <2>3. (CHOOSE l \in ApfsChunks : PoolBlock(y, k) = PoolBlock(y, l)) = k
    BY <2>2
  <2> QED BY <1>2, <2>1, <2>3
<1>6. \A b \in DOMAIN d.pool : (\A k \in ApfsChunks : b # PoolBlock(y, k)) => m.pool[b] = d.pool[b]
  BY <1>2
<1>7. DOMAIN m.pool = DOMAIN d.pool
  BY <1>2
<1> HIDE DEF m, new, held
<1>8. m.ring \in [R -> ApfsPoints] /\ m.ring[ApfsPlace(y)] = new /\ \A i \in R : i # ApfsPlace(y) => m.ring[i] = d.ring[i]
  BY <1>2, <1>3, <1>4 DEF ApfsVolume
<1>9. ApfsVolume(m)
  <2>1. \A i \in R : m.ring[i].whole => m.ring[i].xid > 0 /\ i = ApfsPlace(m.ring[i].xid)
    BY <1>4, <1>8 DEF ApfsVolume
  <2> QED BY <1>2, <1>7, <1>8, <2>1 DEF ApfsVolume
<1>10. ApfsPresent(m, y)
  BY <1>4, <1>5, <1>8 DEF ApfsPresent, ApfsFilled
<1>11. m.now.xid = y /\ m.now.files = files /\ m.zero = d.zero
  BY <1>2
<1>12. ApfsSame(d, m)
  BY <1>2 DEF ApfsSame
<1> QED BY <1>6, <1>8, <1>9, <1>10, <1>11, <1>12 DEF ApfsAdded, m

\* A new checkpoint after the last one: all of it is there, and the disk lacks it.
LEMMA ApfsPuts ==
  ASSUME NEW d, ApfsMade(d), NEW files, files \subseteq ApfsRange, NEW queue, queue \subseteq ApfsRange
  PROVE  LET m == ApfsPut(d, d.now.xid + 1, files, queue)
         IN  ApfsMade(m) /\ ApfsBehind(d, m) /\ ApfsSame(d, m) /\ m.zero = d.zero
<1> DEFINE x == d.now.xid
           y == x + 1
           m == ApfsPut(d, y, files, queue)
           R == 1..ApfsRing
<1>1. x \in Nat /\ x > 0 /\ y \in Nat /\ y > 0 /\ y - 1 = x
  BY DEF ApfsMade
<1>2. ApfsVolume(d) /\ ApfsPresent(d, x)
  BY DEF ApfsMade
<1>3. \A i \in R : d.ring[i].xid \in Nat /\ (i # ApfsPlace(x) => d.ring[i].xid < x)
  BY <1>2, ApfsSays DEF ApfsVolume, ApfsMade
<1>4. ApfsPlace(x) \in R /\ ApfsPlace(y) \in R /\ ApfsPlace(x) # ApfsPlace(y)
      /\ \A k, l \in ApfsChunks : PoolBlock(y, k) # PoolBlock(x, l)
  BY <1>1, ApfsNextPlace
<1>5. /\ ApfsVolume(m) /\ ApfsSame(d, m) /\ ApfsPresent(m, y)
      /\ m.now.xid = y /\ m.now.files = files /\ m.zero = d.zero
      /\ \A i \in R : i # ApfsPlace(y) => m.ring[i] = d.ring[i]
      /\ \A b \in DOMAIN d.pool : (\A k \in ApfsChunks : b # PoolBlock(y, k)) => m.pool[b] = d.pool[b]
  <2>1. ApfsAdded(d, m, y, files)
    BY <1>1, <1>2, ApfsPutsOne
  <2> HIDE DEF m
  <2> QED BY <2>1 DEF ApfsAdded
<1> HIDE DEF m
<1>6. ApfsPresent(m, x)
  <2>1. m.ring[ApfsPlace(x)] = d.ring[ApfsPlace(x)]
    BY <1>4, <1>5
  <2>2. \A k \in ApfsChunks : m.pool[PoolBlock(x, k)] = d.pool[PoolBlock(x, k)]
    <3> TAKE k \in ApfsChunks
    <3>1. PoolBlock(x, k) \in DOMAIN d.pool
      BY <1>1, <1>2, ApfsPlaces DEF ApfsVolume
    <3> QED BY <1>4, <1>5, <3>1
  <2> QED BY <1>2, <2>1, <2>2 DEF ApfsPresent, ApfsFilled
<1>7. \A i \in R : i # ApfsPlace(y) => m.ring[i].xid < y
  <2> TAKE i \in R
  <2> HAVE i # ApfsPlace(y)
  <2>1. m.ring[i] = d.ring[i] /\ d.ring[i].xid <= x
    <3>1. d.ring[ApfsPlace(x)].xid = x
      BY <1>2 DEF ApfsPresent
    <3> QED BY <1>1, <1>3, <1>5, <3>1
  <2>2. d.ring[i].xid \in Nat
    BY <1>3
  <2> QED BY <1>1, <2>1, <2>2
<1>8. ApfsMade(m)
  BY <1>1, <1>5, <1>6, <1>7 DEF ApfsMade
<1>9. ApfsBehind(d, m)
  <2>1. \A b \in 1..(ApfsRing * ApfsCount) : (\A k \in ApfsChunks : b # PoolBlock(y, k)) => d.pool[b] = m.pool[b]
    BY <1>2, <1>5 DEF ApfsVolume
  <2>2. d.ring[ApfsPlace(y)].xid < y - 1
    BY <1>1, <1>3, <1>4
  <2> QED BY <1>5, <2>1, <2>2 DEF ApfsBehind
<1> QED BY <1>5, <1>8, <1>9 DEF m

\* Any change makes one.
LEMMA ApfsWrites ==
  ASSUME NEW d, ApfsMade(d), NEW m \in ApfsChanges(d)
  PROVE  ApfsMade(m) /\ ApfsBehind(d, m) /\ ApfsSame(d, m) /\ m.zero = d.zero
<1>1. d.now.files \subseteq ApfsRange
  BY DEF ApfsMade
<1>2. \E files \in SUBSET ApfsRange, queue \in SUBSET ApfsRange : m = ApfsPut(d, d.now.xid + 1, files, queue)
  <2>1. CASE \E c \in (0..(ApfsBlocks - 1)) \ (ApfsSystem \cup d.now.files \cup Latest(d).queue) :
               m = ApfsPut(d, d.now.xid + 1, d.now.files \cup {c}, {})
    BY <1>1, <2>1 DEF ApfsRange
  <2>2. CASE \E c \in d.now.files \ Besides(d.besides) : m = ApfsPut(d, d.now.xid + 1, d.now.files \ {c}, {c})
    BY <1>1, <2>2 DEF ApfsRange
  <2> QED BY <2>1, <2>2 DEF ApfsChanges
<1> QED BY <1>2, ApfsPuts

\* What a torn checkpoint is made of.
ApfsTorn(m) == {[m.ring[k] EXCEPT !.whole = b] : k \in 1..ApfsRing, b \in BOOLEAN}

\* A driver that writes its checkpoint out, or a torn one.
LEMMA ApfsFlushesPoint ==
  ASSUME NEW d, NEW m, ApfsVolume(d), ApfsMade(m), ApfsBehind(d, m), ApfsSame(d, m),
         NEW i \in 1..ApfsRing, NEW p \in ApfsTorn(m),
         d.pool = m.pool, d.ring[i] # m.ring[i], p.xid = m.ring[i].xid, NEW e, e = [d EXCEPT !.ring[i] = p]
  PROVE  ApfsVolume(e) /\ ApfsBehind(e, m) /\ ApfsSame(e, m)
<1> DEFINE x == m.now.xid
           R == 1..ApfsRing
           at == ApfsPlace(x)
<1>1. ApfsVolume(m) /\ x \in Nat /\ x > 0 /\ ApfsPresent(m, x)
  BY DEF ApfsMade
<1>2. \A j \in R : j # at => d.ring[j] = m.ring[j] /\ m.ring[j].xid < x
  BY DEF ApfsMade, ApfsBehind
<1>3. at \in R
  BY <1>1, ApfsNextPlace
<1>4. i = at
  BY <1>2
<1>5. m.ring[at].xid = x /\ m.ring[at].whole /\ \A j \in R : m.ring[j] \in ApfsPoints
  BY <1>1 DEF ApfsPresent, ApfsVolume
<1>6. PICK k \in R, b \in BOOLEAN : p = [m.ring[k] EXCEPT !.whole = b]
  BY DEF ApfsTorn
<1>7. p \in ApfsPoints /\ p.xid = m.ring[k].xid /\ p.whole = b
  <2>1. p \in ApfsPoints
    BY <1>5, <1>6, ApfsSays
  <2>2. p.xid = m.ring[k].xid /\ p.whole = b
    BY <1>5, <1>6 DEF ApfsPoints, ApfsPoint
  <2> QED BY <2>1, <2>2
<1>8. k = at
  <2>1. m.ring[k].xid = x
    BY <1>4, <1>5, <1>7
  <2>2. m.ring[k].xid < x => m.ring[k].xid # x
    BY <1>1, <2>1
  <2> QED BY <1>2, <2>1, <2>2
<1>9. b => p = m.ring[at]
  BY <1>5, <1>6, <1>8, ApfsSays
<1>10. /\ DOMAIN e = DOMAIN d /\ e.ring = [d.ring EXCEPT ![at] = p] /\ e.pool = d.pool
      /\ e.blocks = d.blocks /\ e.fusion = d.fusion /\ e.resizing = d.resizing /\ e.besides = d.besides
  BY <1>4 DEF ApfsVolume
<1> HIDE DEF x, at
<1>11. e.ring \in [R -> ApfsPoints] /\ e.ring[at] = p /\ \A j \in R : j # at => e.ring[j] = d.ring[j]
  BY <1>3, <1>7, <1>10 DEF ApfsVolume
<1>12. p.xid = x
  BY <1>5, <1>7, <1>8
<1>13. ApfsVolume(e)
  <2>1. \A j \in R : e.ring[j].whole => e.ring[j].xid > 0 /\ j = ApfsPlace(e.ring[j].xid)
    BY <1>1, <1>11, <1>12 DEF ApfsVolume, at
  <2> QED BY <1>10, <1>11, <2>1 DEF ApfsVolume
<1>14. ApfsBehind(e, m)
  <2>1. \A j \in R : j # at => e.ring[j] = m.ring[j]
    BY <1>2, <1>11
  <2>2. \A c \in 1..(ApfsRing * ApfsCount) : (\A l \in ApfsChunks : c # PoolBlock(x, l)) => e.pool[c] = m.pool[c]
    BY <1>10
  <2>3. e.ring[at].whole => e.ring[at] = m.ring[at] /\ e.pool = m.pool
    BY <1>7, <1>9, <1>10, <1>11
  <2> QED BY <2>1, <2>2, <2>3 DEF ApfsBehind, x, at
<1> QED BY <1>10, <1>13, <1>14 DEF ApfsSame

\* Whatever a driver writes, the disk lacks no more than it did.
LEMMA ApfsFlushes ==
  ASSUME NEW d, NEW m, ApfsVolume(d), ApfsMade(m), ApfsBehind(d, m), ApfsSame(d, m), NEW e \in ApfsFlushed(d, m)
  PROVE  ApfsVolume(e) /\ ApfsBehind(e, m) /\ ApfsSame(e, m)
<1>1. ApfsVolume(m)
  BY DEF ApfsMade
<1>2. CASE e \in WriteBack(d, m, {"pool"})
  <2>1. DOMAIN e = DOMAIN d /\ e.ring = d.ring /\ e.pool = m.pool /\ e.blocks = d.blocks /\ e.fusion = d.fusion /\ e.resizing = d.resizing /\ e.besides = d.besides
    BY <1>2 DEF WriteBack, ApfsVolume
  <2>2. ApfsVolume(e)
    BY <1>1, <2>1 DEF ApfsVolume
  <2>3. ApfsBehind(e, m)
    BY <2>1 DEF ApfsBehind
  <2> QED BY <2>1, <2>2, <2>3 DEF ApfsSame
<1>3. CASE e \in WriteBack(d, m, {"zero", "now"})
  <2>1. DOMAIN e = DOMAIN d /\ e.ring = d.ring /\ e.pool = d.pool /\ e.blocks = d.blocks /\ e.fusion = d.fusion /\ e.resizing = d.resizing /\ e.besides = d.besides
    BY <1>3 DEF WriteBack, ApfsVolume
  <2>2. ApfsVolume(e)
    BY <2>1 DEF ApfsVolume
  <2>3. ApfsBehind(e, m)
    BY <2>1 DEF ApfsBehind
  <2> QED BY <2>1, <2>2, <2>3 DEF ApfsSame
<1>4. CASE e \in {[d EXCEPT !.ring[w[1]] = w[2]] : w \in
          {y \in (1..ApfsRing) \X {[m.ring[k] EXCEPT !.whole = b] : k \in 1..ApfsRing, b \in BOOLEAN} :
             d.pool = m.pool /\ d.ring[y[1]] # m.ring[y[1]] /\ y[2].xid = m.ring[y[1]].xid}}
  <2>1. PICK w \in (1..ApfsRing) \X {[m.ring[k] EXCEPT !.whole = b] : k \in 1..ApfsRing, b \in BOOLEAN} :
          /\ d.pool = m.pool /\ d.ring[w[1]] # m.ring[w[1]] /\ w[2].xid = m.ring[w[1]].xid
          /\ e = [d EXCEPT !.ring[w[1]] = w[2]]
    BY <1>4
  <2> DEFINE i == w[1]
             p == w[2]
  <2>3. i \in 1..ApfsRing /\ d.ring[i] # m.ring[i] /\ p.xid = m.ring[i].xid /\ e = [d EXCEPT !.ring[i] = p]
    BY <2>1
  <2>4. p \in ApfsTorn(m)
    BY <2>1 DEF ApfsTorn
  <2> HIDE DEF i, p
  <2>5. d.pool = m.pool
    BY <2>1
  <2> QED BY <2>3, <2>4, <2>5, ApfsFlushesPoint
<1> QED BY <1>2, <1>3, <1>4 DEF ApfsFlushed

\* The free counts of the chunks are those of the container.
LEMMA ApfsFreeTotal ==
  ASSUME NEW s \in ApfsPoints
  PROVE  FreeTotal(s) = s.free
<1> DEFINE n == ApfsCount
           S == [i \in 1..n |-> ChunkBlocks(i - 1) \ s.held]
           w == [i \in 1..n |-> Cardinality(S[i])]
           P(f) == f = [k \in 0..n |-> IF k = 0 THEN 0 ELSE f[k - 1] + s.chunk[k - 1].free]
           c == CHOOSE f : P(f)
<1>1. n \in Nat /\ ApfsChunks = 0..(n - 1)
  BY ApfsChunked
<1>2. FreeTotal(s) = c[n]
  BY DEF FreeTotal, ApfsCount
<1>3. \A i \in 1..n : /\ i - 1 \in ApfsChunks
                      /\ IsFiniteSet(ChunkBlocks(i - 1)) /\ IsFiniteSet(S[i])
                      /\ s.chunk[i - 1].free = w[i]
  <2> TAKE i \in 1..n
  <2>1. i - 1 \in ApfsChunks
    BY <1>1
  <2>2. ChunkBlocks(i - 1) \subseteq ApfsRange
    BY <2>1, ApfsChunked DEF ApfsRange
  <2>3. IsFiniteSet(ChunkBlocks(i - 1)) /\ IsFiniteSet(ChunkBlocks(i - 1) \ s.held)
    BY <2>2, ApfsFinite
  <2>4. s.chunk[i - 1].free = Cardinality(ChunkBlocks(i - 1) \ s.held)
    BY <2>1, ApfsSays
  <2> QED BY <2>1, <2>3, <2>4
<1>4. w \in [1..n -> Nat]
  BY <1>3, FS_CardinalityType
<1>5. \A i, j \in 1..n : i # j => S[i] \cap S[j] = {}
  <2> TAKE i, j \in 1..n
  <2> HAVE i # j
  <2>1. i - 1 \in ApfsChunks /\ j - 1 \in ApfsChunks
    BY <1>3
  <2>3. i - 1 # j - 1
    BY <1>1
  <2>2. ChunkBlocks(i - 1) \cap ChunkBlocks(j - 1) = {}
    BY <2>1, <2>3, ApfsChunked
  <2> QED BY <2>2
<1>6. UNION {S[i] : i \in 1..n} = ApfsRange \ s.held
  <2>1. ASSUME NEW b \in ApfsRange PROVE \E i \in 1..n : b \in ChunkBlocks(i - 1)
    <3>1. PICK k \in 0..(n - 1) : b \in ChunkBlocks(k)
      BY <1>1, ApfsChunked DEF ApfsRange
    <3>2. k + 1 \in 1..n /\ (k + 1) - 1 = k
      BY <1>1
    <3> QED BY <3>1, <3>2
  <2>2. \A i \in 1..n : ChunkBlocks(i - 1) \subseteq ApfsRange
    BY <1>3, ApfsChunked DEF ApfsRange
  <2> QED BY <2>1, <2>2
<1>7. s.free = Cardinality(ApfsRange \ s.held)
  BY ApfsSays
<1> HIDE DEF S
<1>8. PICK f : IsSum(f, n, w)
  <2> HIDE DEF w
  <2> QED BY <1>1, <1>4, SumExists
<1>9. \A g : IsSum(g, n, w) => g[n] = s.free
  <2> TAKE g
  <2> HAVE IsSum(g, n, w)
  <2>1. g[n] = Cardinality(UNION {S[i] : i \in 1..n})
    <3>1. \A i \in 1..n : IsFiniteSet(S[i])
      BY <1>3
    <3>2. IsSum(g, n, [i \in 1..n |-> Cardinality(S[i])])
      OBVIOUS
    <3> HIDE DEF w, n
    <3> QED BY <1>1, <1>5, <3>1, <3>2, PartsAddUp
  <2> QED BY <1>6, <1>7, <2>1
<1> HIDE DEF w
<1>10. P(f)
  <2>1. \A i \in 0..n : f[i] = IF i = 0 THEN 0 ELSE f[i - 1] + s.chunk[i - 1].free
    BY <1>1, <1>3, <1>8 DEF IsSum
  <2>2. f \in [0..n -> Nat]
    BY <1>8 DEF IsSum
  <2> HIDE DEF n
  <2> QED BY <2>1, <2>2
<1>11. P(c)
  <2> HIDE DEF P
  <2> QED BY <1>10
<1>12. IsSum(c, n, w)
  <2>1. DOMAIN c = 0..n /\ c = [i \in 0..n |-> c[i]] /\ c[0] = 0
    <3>1. 0 \in 0..n
      BY <1>1
    <3> HIDE DEF c, n
    <3> QED BY <1>11, <3>1
  <2>2. ASSUME NEW i \in 1..n PROVE c[i] = c[i - 1] + w[i]
    <3>1. i \in 0..n /\ i # 0
      BY <1>1
    <3>2. c[i] = c[i - 1] + s.chunk[i - 1].free
      BY <1>11, <3>1
    <3> QED BY <1>3, <3>2
  <2> HIDE DEF c, P
  <2> QED BY <1>1, <1>8, <2>1, <2>2, SumsAgree
<1>13. c[n] = s.free
  BY <1>9, <1>12
<1> QED BY <1>2, <1>13

\* What a driver leaves is understood.
LEMMA ApfsClean ==
  ASSUME NEW d, ApfsMade(d), d.zero = d.now.xid, d.blocks <= Size, ~d.fusion, ~d.resizing, d.besides.sound
  PROVE  ApfsRead(d, Copy).ok
<1> DEFINE x == d.now.xid
           R == 1..ApfsRing
           at == ApfsPlace(x)
           s == d.ring[at]
<1>1. ApfsVolume(d) /\ x \in Nat /\ x > 0 /\ ApfsPresent(d, x) /\ \A i \in R : i # at => d.ring[i].xid < x
  BY DEF ApfsMade
<1>2. at \in R
  BY <1>1, ApfsNextPlace
<1>3. s.whole /\ s.xid = x /\ ApfsFilled(d, s) /\ s \in ApfsPoints
  BY <1>1, <1>2 DEF ApfsPresent, ApfsVolume
<1>4. \A i \in R : d.ring[i].xid \in Nat
  BY <1>1, ApfsSays DEF ApfsVolume
<1>5. at \in WholePoints(d)
  BY <1>1, <1>2, <1>3 DEF WholePoints
<1>6. OneLatest(d)
  BY <1>1 DEF OneLatest, WholePoints, ApfsVolume
<1>7. Latest(d) = s
  <2>1. \A i \in WholePoints(d) : i # at => ~(\A j \in WholePoints(d) : d.ring[j].xid <= d.ring[i].xid)
    <3> TAKE i \in WholePoints(d)
    <3> HAVE i # at
    <3>1. i \in R
      BY DEF WholePoints
    <3>2. d.ring[i].xid < x /\ d.ring[i].xid \in Nat /\ d.ring[at].xid = x
      BY <1>1, <1>3, <1>4, <3>1
    <3>3. ~(d.ring[at].xid <= d.ring[i].xid)
      BY <1>1, <3>2
    <3> QED BY <1>5, <3>3
  <2>2. \A j \in WholePoints(d) : d.ring[j].xid <= d.ring[at].xid
    <3> TAKE j \in WholePoints(d)
    <3>1. j \in R
      BY DEF WholePoints
    <3>2. j # at => d.ring[j].xid < x
      BY <1>1, <3>1
    <3>3. d.ring[at].xid = x /\ d.ring[j].xid \in Nat
      BY <1>3, <1>4, <3>1
    <3> QED BY <1>1, <3>2, <3>3
  <2> DEFINE good(i) == \A j \in WholePoints(d) : d.ring[j].xid <= d.ring[i].xid
  <2>3. at \in WholePoints(d) /\ good(at) /\ \A i \in WholePoints(d) : good(i) => i = at
    BY <1>5, <2>1, <2>2
  <2> HIDE DEF at
  <2>4. (CHOOSE i \in WholePoints(d) : good(i)) = at
    <3> HIDE DEF good
    <3> QED BY <2>3
  <2> QED BY <2>4 DEF Latest, at
<1> HIDE DEF s, at
<1>8. ASSUME NEW k \in ApfsChunks PROVE ChunkSound(d, s, k, Copy)
  <2>1. /\ s.chunk[k].bitmap = IF s.held \cap ChunkBlocks(k) = {} THEN NoBitmap ELSE PoolBlock(s.xid, k)
        /\ s.chunk[k].free = Cardinality(ChunkBlocks(k) \ s.held)
    BY <1>3, ApfsSays
  <2>2. d.pool[PoolBlock(s.xid, k)] = s.held \cap ChunkBlocks(k)
    BY <1>3 DEF ApfsFilled
  <2>3. ChunkSet(d, s, k) = s.held \cap ChunkBlocks(k)
    <3>1. PoolBlock(s.xid, k) # NoBitmap
      BY <1>1, <1>3, ApfsPlaces
    <3> QED BY <2>1, <2>2, <3>1 DEF ChunkSet
  <2>4. ChunkBlocks(k) \ ChunkSet(d, s, k) = ChunkBlocks(k) \ s.held
    BY <2>3
  <2>5. s.chunk[k].bitmap = NoBitmap => ChunkBlocks(k) \ s.held = ChunkBlocks(k)
    <3>1. PoolBlock(s.xid, k) # NoBitmap
      BY <1>1, <1>3, ApfsPlaces
    <3>2. s.chunk[k].bitmap = NoBitmap => s.held \cap ChunkBlocks(k) = {}
      BY <2>1, <3>1
    <3> QED BY <3>2
  <2> QED BY <2>1, <2>4, <2>5 DEF ChunkSound
<1>9. FreeTotal(s) = s.free /\ Cardinality(s.queue) = s.queued /\ ObjectMap(s)
  <2>1. FreeTotal(s) = s.free
    BY <1>3, ApfsFreeTotal
  <2>2. s.queued = Cardinality(s.queue) /\ s.map = {4, 5} /\ s.volumes = {5}
    BY <1>3, ApfsSays
  <2> QED BY <2>1, <2>2 DEF ObjectMap
<1>10. SpacemanSound(d, s, Copy)
  BY <1>8, <1>9 DEF SpacemanSound
<1>11. d.zero = s.xid
  BY <1>3
<1>12. WholePoints(d) # {}
  BY <1>5
<1>13. Besides(d.besides) \subseteq 0..(ApfsBlocks - 1)
  BY <1>1, ApfsBesidesIn DEF ApfsVolume, ApfsRange
<1> QED BY <1>6, <1>7, <1>9, <1>10, <1>11, <1>12, <1>13 DEF ApfsRead, Result, Usage

\* Whatever is on it, and however it was left: a volume in use has a whole checkpoint
\* in memory, of which the disk may lack some; one that is not has it on the disk,
\* and block 0 names it, until a driver loses it or a block of it reads as zeros.
ApfsInv ==
  kind = "apfs" =>
    /\ ApfsVolume(disk) /\ ApfsSame(disk, mem)
    /\ whole => ApfsMade(mem) /\ ApfsBehind(disk, mem)
    /\ ~whole => ApfsSound(disk)
    /\ whole /\ phase # "mounted" => mem.zero = mem.now.xid
    /\ known => disk.blocks <= Size /\ ~disk.fusion /\ ~disk.resizing /\ disk.besides.sound

\* Volumes are made so.
LEMMA ApfsBegins == ASSUME InitVolume PROVE ApfsInv
<1> SUFFICES ASSUME kind = "apfs" PROVE ApfsInv
  BY DEF ApfsInv
<1>1. disk \in ApfsFresh /\ mem = disk /\ phase = "idle" /\ whole = TRUE
  BY DEF InitVolume, Fresh
<1> DEFINE blank(b, f, r, x) ==
             [ring |-> [i \in 1..ApfsRing |-> NoPoint], pool |-> [y \in 1..(ApfsRing * Cardinality(ApfsChunks)) |-> {}],
              zero |-> 1, now |-> [xid |-> 1, files |-> {}], blocks |-> b, fusion |-> f, resizing |-> r, besides |-> x]
<1>2. PICK b \in {ApfsBlocks, Size + 1}, f \in BOOLEAN, r \in BOOLEAN, x \in ApfsBesides : disk = ApfsPut(blank(b, f, r, x), 1, Besides(x), {})
  <2>1. ApfsFresh = {ApfsPut(blank(b, f, r, x), 1, Besides(x), {}) : b \in {ApfsBlocks, Size + 1}, f \in BOOLEAN, r \in BOOLEAN, x \in ApfsBesides}
    BY DEF ApfsFresh
  <2> HIDE DEF blank
  <2> QED BY <1>1, <2>1
<1> DEFINE d == blank(b, f, r, x)
<1>3. NoPoint \in ApfsPoints /\ ~NoPoint.whole /\ NoPoint.xid = 0
  <2>1. \A w \in BOOLEAN : [ApfsPoint(0, {}, {}) EXCEPT !.whole = w] \in ApfsPoints
    <3> TAKE w \in BOOLEAN
    <3>1. {} \in SUBSET ApfsRange /\ 0 \in Nat
      OBVIOUS
    <3> QED BY <3>1 DEF ApfsPoints
  <2>2. NoPoint \in ApfsPoints
    BY <2>1, Zenon DEF NoPoint
  <2>3. ~NoPoint.whole /\ NoPoint.xid = 0
    BY DEF NoPoint, ApfsPoint
  <2> QED BY <2>2, <2>3
<1>4. /\ d.ring = [i \in 1..ApfsRing |-> NoPoint] /\ d.pool = [y \in 1..(ApfsRing * ApfsCount) |-> {}]
      /\ d.zero = 1 /\ d.blocks = b /\ d.fusion = f /\ d.resizing = r /\ d.besides = x
      /\ DOMAIN d = {"ring", "pool", "zero", "now", "blocks", "fusion", "resizing", "besides"}
  BY DEF ApfsCount
<1> HIDE DEF d
<1>5. ApfsVolume(d)
  BY <1>3, <1>4 DEF ApfsVolume
<1>6. disk = ApfsPut(d, 1, Besides(x), {})
  BY <1>2 DEF d
<1>7. /\ ApfsVolume(disk) /\ ApfsPresent(disk, 1)
      /\ disk.now.xid = 1 /\ disk.now.files = Besides(x) /\ disk.zero = d.zero
      /\ \A i \in 1..ApfsRing : i # ApfsPlace(1) => disk.ring[i] = d.ring[i]
  <2>1. ApfsAdded(d, disk, 1, Besides(x))
    <3>1. Besides(x) \subseteq ApfsRange /\ {} \subseteq ApfsRange
      BY ApfsBesidesIn
    <3>2. 1 \in Nat /\ 1 > 0
      OBVIOUS
    <3> QED BY <1>5, <1>6, <3>1, <3>2, ApfsPutsOne
  <2> QED BY <2>1 DEF ApfsAdded
<1>8. ApfsMade(disk)
  <2>1. disk.now.files \subseteq ApfsRange
    BY <1>7, ApfsBesidesIn
  <2> QED BY <1>3, <1>4, <1>7, <2>1 DEF ApfsMade
<1>9. ApfsBehind(disk, disk)
  BY DEF ApfsBehind
<1>10. known => disk.blocks <= Size /\ ~disk.fusion /\ ~disk.resizing /\ disk.besides.sound
  <2> HAVE known
  <2>1. Read(kind, disk, Copy).ok
    BY DEF InitVolume, Partition, PartitionOf, InFull
  <2>2. ApfsRead(disk, Copy).ok
    BY <2>1 DEF Read
  <2> QED BY <2>2 DEF ApfsRead, Result, Bad, Usage
<1> QED BY <1>1, <1>4, <1>7, <1>8, <1>9, <1>10 DEF ApfsInv, ApfsSame

\* And stay so.
LEMMA ApfsGoesOn == ASSUME ApfsInv, Lifecycle, NextVolume PROVE ApfsInv'
<1> SUFFICES ASSUME kind = "apfs" PROVE ApfsInv'
  BY LifeSteps DEF ApfsInv
<1>1. /\ ApfsVolume(disk) /\ ApfsSame(disk, mem)
      /\ whole => ApfsMade(mem) /\ ApfsBehind(disk, mem)
      /\ ~whole => ApfsSound(disk)
      /\ whole /\ phase # "mounted" => mem.zero = mem.now.xid
      /\ known => disk.blocks <= Size /\ ~disk.fusion /\ ~disk.resizing /\ disk.besides.sound
  BY DEF ApfsInv
<1>2. /\ Mounted(kind, disk) = disk /\ Unmounted(kind, mem) = ApfsUnmounted(mem)
      /\ Changes(kind, mem) = ApfsChanges(mem) /\ Flushed(kind, disk, mem) = ApfsFlushed(disk, mem)
      /\ Damages(kind, disk) = ApfsDamaged(disk)
  BY DEF Mounted, Unmounted, Changes, Flushed, Damages, ApfsMounted
<1>3. \A d, e, f : ApfsSame(d, d) /\ (ApfsSame(d, e) => ApfsSame(e, d)) /\ (ApfsSame(d, e) /\ ApfsSame(e, f) => ApfsSame(d, f))
  BY DEF ApfsSame
<1>4. /\ phase \in {"idle", "mounted", "closing"} /\ (phase = "idle" => mem = disk)
      /\ phase # "idle" => whole
  BY DEF Lifecycle
<1>5. kind' = kind /\ known' = known
  BY LifeSteps
<1>6. /\ ApfsVolume(disk') /\ ApfsSame(disk, disk') /\ ApfsSame(disk', mem')
      /\ whole' => ApfsMade(mem') /\ ApfsBehind(disk', mem')
      /\ ~whole' => ApfsSound(disk')
      /\ whole' /\ phase' # "mounted" => mem'.zero = mem'.now.xid
  <2>1. CASE disk' = disk /\ mem' = Mounted(kind, disk) /\ phase = "idle" /\ phase' = "mounted" /\ whole /\ whole' = whole
    BY <1>1, <1>2, <1>3, <1>4, <2>1
  <2>2. CASE disk' = disk /\ mem' \in Changes(kind, mem) /\ phase = "mounted" /\ phase' = phase /\ whole' = whole
    <3>1. disk = mem
      <4>1. CASE Edit
        BY <4>1 DEF Edit, MayChange
      <4>2. CASE ~Edit
        BY <2>2, <4>2 DEF NextVolume, Mount, Flush, Unmount, Eject, Unplug, Damage
      <4> QED BY <4>1, <4>2
    <3>2. ApfsMade(mem) /\ mem' \in ApfsChanges(mem)
      BY <1>1, <1>2, <1>4, <2>2
    <3>3. ApfsMade(mem') /\ ApfsBehind(mem, mem') /\ ApfsSame(mem, mem')
      BY <3>2, ApfsWrites
    <3> QED BY <1>1, <1>3, <1>4, <2>2, <3>1, <3>3
  <2>3. CASE mem' = mem /\ disk' \in Flushed(kind, disk, mem) /\ phase # "idle" /\ phase' = phase /\ whole' = whole
    <3>1. ApfsMade(mem) /\ ApfsBehind(disk, mem) /\ disk' \in ApfsFlushed(disk, mem)
      BY <1>1, <1>2, <1>4, <2>3
    <3>2. ApfsVolume(disk') /\ ApfsBehind(disk', mem) /\ ApfsSame(disk', mem)
      BY <1>1, <3>1, ApfsFlushes
    <3> QED BY <1>1, <1>3, <1>4, <2>3, <3>1, <3>2
  <2>4. CASE disk' = disk /\ disk = mem /\ mem' = Unmounted(kind, mem) /\ phase = "mounted" /\ phase' = "closing" /\ whole' = whole
    <3>1. ApfsMade(mem) /\ mem' = [mem EXCEPT !.zero = mem.now.xid]
      BY <1>1, <1>2, <1>4, <2>4 DEF ApfsUnmounted
    <3>2. /\ DOMAIN mem' = DOMAIN mem /\ mem'.ring = mem.ring /\ mem'.pool = mem.pool /\ mem'.now = mem.now
          /\ mem'.blocks = mem.blocks /\ mem'.fusion = mem.fusion /\ mem'.resizing = mem.resizing
          /\ mem'.besides = mem.besides /\ mem'.zero = mem'.now.xid
      BY <3>1 DEF ApfsMade, ApfsVolume
    <3>3. ApfsMade(mem')
      BY <3>1, <3>2 DEF ApfsMade, ApfsVolume, ApfsPresent, ApfsFilled
    <3>4. ApfsSame(mem, mem') /\ ApfsBehind(mem, mem')
      BY <3>2 DEF ApfsSame, ApfsBehind
    <3> QED BY <1>1, <1>3, <1>4, <2>4, <3>2, <3>3, <3>4
  <2>5. CASE disk' = disk /\ disk = mem /\ mem' = mem /\ phase = "closing" /\ phase' = "idle" /\ whole' = whole
    BY <1>1, <1>3, <1>4, <2>5
  <2>6. CASE disk' = disk /\ mem' = disk /\ phase # "idle" /\ phase' = "idle" /\ whole' = FALSE
    <3>1. ApfsSound(disk)
      BY <1>1, <1>4, <2>6, ApfsBehindIsSound
    <3> QED BY <1>1, <1>3, <2>6, <3>1
  <2>7. CASE disk' \in Damages(kind, disk) /\ mem' = disk' /\ phase = "idle" /\ phase' = "idle" /\ whole /\ whole' = FALSE
    <3>1. ApfsMade(disk) /\ disk' \in ApfsDamaged(disk)
      BY <1>1, <1>2, <1>4, <2>7
    <3>2. ApfsVolume(disk') /\ ApfsSound(disk') /\ ApfsSame(disk, disk')
      BY <3>1, ApfsDamages
    <3> QED BY <1>3, <2>7, <3>2
  <2> QED BY <2>1, <2>2, <2>3, <2>4, <2>5, <2>6, <2>7, LifeSteps
<1>7. /\ disk'.blocks = disk.blocks /\ disk'.fusion = disk.fusion /\ disk'.resizing = disk.resizing
      /\ disk'.besides = disk.besides
  BY <1>6 DEF ApfsSame
<1> QED BY <1>1, <1>5, <1>6, <1>7 DEF ApfsInv

\* What is kept of one it understands, and what it understands again.
LEMMA ApfsUnderstood == ASSUME ApfsInv, Lifecycle, kind = "apfs" PROVE
  /\ phase = "idle" /\ Read(kind, disk, Copy).ok => Keeps(Read(kind, disk, Copy), NeedOf(kind, disk))
  /\ phase = "idle" /\ whole /\ known => Read(kind, disk, Copy).ok
<1>1. Read(kind, disk, Copy) = ApfsRead(disk, Copy) /\ NeedOf(kind, disk) = ApfsNeed(disk)
  BY DEF Read, NeedOf
<1>2. phase = "idle" => ApfsVolume(disk) /\ ApfsSound(disk)
  BY ApfsBehindIsSound DEF ApfsInv
<1>3. phase = "idle" /\ whole /\ known => /\ ApfsMade(disk) /\ disk.zero = disk.now.xid
                                          /\ disk.blocks <= Size /\ ~disk.fusion /\ ~disk.resizing /\ disk.besides.sound
  BY DEF ApfsInv, Lifecycle
<1>4. phase = "idle" /\ ApfsRead(disk, Copy).ok => Keeps(ApfsRead(disk, Copy), ApfsNeed(disk))
  BY <1>2, ApfsKeeps
<1>5. phase = "idle" /\ whole /\ known => ApfsRead(disk, Copy).ok
  BY <1>3, ApfsClean
<1> QED BY <1>1, <1>4, <1>5

(* F2FS *)

\* The main area, and what the table may say of a segment.
F2fsArea == UNION {SegmentCells(s) : s \in Segments}
F2fsEntries(s) == {Entry(b) : b \in SUBSET SegmentCells(s)}

\* A checkpoint pack, whole or torn.
F2fsIsPack(p) ==
  /\ p = [header |-> p.header, footer |-> p.footer, umount |-> p.umount, error |-> p.error,
          copy |-> p.copy, journal |-> p.journal, valid |-> p.valid, held |-> p.held, full |-> p.full]
  /\ p.header \in Nat /\ p.footer \in Nat /\ p.umount \in BOOLEAN /\ p.error \in BOOLEAN
  /\ p.copy \in [Segments -> 1..2]
  /\ DOMAIN p.journal \subseteq Segments /\ \A s \in DOMAIN p.journal : p.journal[s] \in F2fsEntries(s)
  /\ p.held \subseteq F2fsArea /\ p.valid = Cardinality(p.held)

\* A volume: two packs and two copies of the table.
F2fsVolume(d) ==
  /\ DOMAIN d = {"pack", "sit", "node", "agree", "blocks", "unknown"}
  /\ DOMAIN d.pack = 1..2 /\ \A k \in 1..2 : F2fsIsPack(d.pack[k])
  /\ d.sit = [k \in 1..2 |-> [s \in Segments |-> d.sit[k][s]]]
  /\ \A k \in 1..2 : \A s \in Segments : d.sit[k][s] \in F2fsEntries(s)
  /\ d.blocks \in {F2fsMain + 2 * F2fsSegments, Size + 1}

\* What a pack holds is in the table, or an entry of it reads as zeros.
F2fsCovers(d, p) == \A s \in Segments : SitEntry(d, p, s) = Entry(p.held \cap SegmentCells(s))
F2fsLegible(d, p) == \A s \in Segments : SitEntry(d, p, s) \in {Entry(p.held \cap SegmentCells(s)), Entry({})}

\* The pack that counts, and that its entries are legible.
F2fsNewest(d, i) == i \in ValidPacks(d) /\ \A j \in ValidPacks(d) : j # i => d.pack[j].header < d.pack[i].header
F2fsSound(d) == \E i : F2fsNewest(d, i) /\ F2fsLegible(d, d.pack[i])

\* The segments make up the main area.
LEMMA F2fsParts ==
  /\ Segments = 0..(F2fsSegments - 1) /\ 0 \in Segments
  /\ \A s \in Segments : SegmentCells(s) = (F2fsMain + 2 * s)..(F2fsMain + 2 * s + 1) /\ IsFiniteSet(SegmentCells(s))
  /\ \A s, t \in Segments : s # t => SegmentCells(s) \cap SegmentCells(t) = {}
  /\ \A c \in F2fsArea : c \in Nat /\ (c - F2fsMain) \div 2 \in Segments /\ c \in SegmentCells((c - F2fsMain) \div 2)
  /\ F2fsArea \subseteq F2fsMain..((F2fsMain + 2 * F2fsSegments) - 1) /\ IsFiniteSet(F2fsArea)
<1>1. F2fsMain \in Nat /\ F2fsSegments \in Nat /\ F2fsSegments > 0
  BY F2fsAssumption
<1>2. Segments = 0..(F2fsSegments - 1) /\ 0 \in Segments
  BY <1>1 DEF Segments
<1>3. \A s \in Segments : SegmentCells(s) = (F2fsMain + 2 * s)..(F2fsMain + 2 * s + 1)
  BY <1>1, <1>2 DEF SegmentCells, Span
<1>4. \A s \in Segments : IsFiniteSet(SegmentCells(s))
  <2> TAKE s \in Segments
  <2>1. F2fsMain + 2 * s \in Int /\ F2fsMain + 2 * s + 1 \in Int
    BY <1>1, <1>2
  <2> QED BY <1>3, <2>1, FS_Interval
<1>5. \A s, t \in Segments : s # t => SegmentCells(s) \cap SegmentCells(t) = {}
  BY <1>1, <1>2, <1>3
<1>6. ASSUME NEW c \in F2fsArea
      PROVE  c \in Nat /\ (c - F2fsMain) \div 2 \in Segments /\ c \in SegmentCells((c - F2fsMain) \div 2)
             /\ c \in F2fsMain..((F2fsMain + 2 * F2fsSegments) - 1)
  <2>1. PICK s \in Segments : c \in SegmentCells(s)
    BY DEF F2fsArea
  <2>2. c = F2fsMain + 2 * s \/ c = F2fsMain + 2 * s + 1
    <3> DEFINE x == F2fsMain + 2 * s
    <3>1. c \in x..(x + 1) /\ x \in Nat
      BY <1>1, <1>2, <1>3, <2>1
    <3> HIDE DEF x
    <3>2. c = x \/ c = x + 1
      BY <3>1
    <3> QED BY <3>2 DEF x
  <2>3. (c - F2fsMain) \div 2 = s
    BY <1>1, <1>2, <2>2
  <2> QED BY <1>1, <1>2, <2>1, <2>2, <2>3
<1>7. IsFiniteSet(F2fsArea)
  <2>1. IsFiniteSet(F2fsMain..((F2fsMain + 2 * F2fsSegments) - 1))
    <3>1. F2fsMain \in Int /\ (F2fsMain + 2 * F2fsSegments) - 1 \in Int
      BY <1>1
    <3> QED BY <3>1, FS_Interval
  <2>2. F2fsArea \subseteq F2fsMain..((F2fsMain + 2 * F2fsSegments) - 1)
    BY <1>6
  <2> QED BY <2>1, <2>2, FS_Subset
<1> QED BY <1>2, <1>3, <1>4, <1>5, <1>6, <1>7

\* Which pack counts.
LEMMA F2fsCurrent ==
  ASSUME NEW d, F2fsVolume(d), NEW i, F2fsNewest(d, i)
  PROVE  i \in 1..2 /\ CurrentPack(d) = d.pack[i] /\ d.pack[i].header > 0 /\ d.pack[i].footer = d.pack[i].header
<1> DEFINE good(k) == \A j \in ValidPacks(d) : d.pack[j].header <= d.pack[k].header
<1>1. \A k \in {1, 2} : d.pack[k].header \in Nat
  BY DEF F2fsVolume, F2fsIsPack
<1>2. i \in {1, 2} /\ d.pack[i].header > 0 /\ d.pack[i].footer = d.pack[i].header
  BY DEF F2fsNewest, ValidPacks
<1>3. i \in ValidPacks(d) /\ good(i)
  BY <1>1 DEF F2fsNewest, ValidPacks
<1>4. \A k \in ValidPacks(d) : good(k) => k = i
  BY <1>1 DEF F2fsNewest, ValidPacks
<1> HIDE DEF good
<1>5. (CHOOSE k \in ValidPacks(d) : good(k)) = i
  BY <1>3, <1>4
<1>6. CurrentPack(d) = d.pack[i]
  BY <1>5 DEF CurrentPack, good
<1> QED BY <1>2, <1>6

\* The entries of a pack.
LEMMA F2fsEntry ==
  ASSUME NEW d, F2fsVolume(d), NEW p, F2fsIsPack(p), NEW s \in Segments
  PROVE  /\ SitEntry(d, p, s) \in F2fsEntries(s) /\ SitEntry(d, p, s).blocks \subseteq SegmentCells(s)
         /\ SitEntry(d, p, s) = Entry(SitEntry(d, p, s).blocks) /\ SitEntry(d, p, s).count = Cardinality(SitEntry(d, p, s).blocks)
<1>1. SitEntry(d, p, s) \in F2fsEntries(s)
  <2>1. p.copy[s] \in 1..2
    BY DEF F2fsIsPack
  <2> QED BY <2>1 DEF SitEntry, F2fsVolume, F2fsIsPack
<1>2. PICK b \in SUBSET SegmentCells(s) : SitEntry(d, p, s) = Entry(b)
  BY <1>1 DEF F2fsEntries
<1>3. Entry(b).blocks = b /\ Entry(b).count = Cardinality(b)
  BY DEF Entry
<1> QED BY <1>1, <1>2, <1>3

\* How many blocks the table counts.
F2fsValid(d, pack) ==
  LET entry(s) == SitEntry(d, pack, s)
      valid[n \in 0..F2fsSegments] == IF n = 0 THEN 0 ELSE valid[n - 1] + entry(n - 1).count
  IN  valid[F2fsSegments]

\* As many as there are.
LEMMA F2fsAddsUp ==
  ASSUME NEW d, F2fsVolume(d), NEW p, F2fsIsPack(p)
  PROVE  F2fsValid(d, p) = Cardinality(UNION {SitEntry(d, p, s).blocks : s \in Segments})
<1> DEFINE n == F2fsSegments
           S == [i \in 1..n |-> SitEntry(d, p, i - 1).blocks]
           w == [i \in 1..n |-> Cardinality(S[i])]
           P(f) == f = [k \in 0..n |-> IF k = 0 THEN 0 ELSE f[k - 1] + SitEntry(d, p, k - 1).count]
           c == CHOOSE f : P(f)
           U == UNION {SitEntry(d, p, s).blocks : s \in Segments}
<1>1. n \in Nat /\ Segments = 0..(n - 1)
  BY F2fsAssumption, F2fsParts
<1>2. F2fsValid(d, p) = c[n]
  BY DEF F2fsValid
<1>3. \A i \in 1..n : /\ i - 1 \in Segments /\ S[i] \subseteq SegmentCells(i - 1) /\ IsFiniteSet(S[i])
                      /\ SitEntry(d, p, i - 1).count = w[i]
  <2> TAKE i \in 1..n
  <2>1. i - 1 \in Segments
    BY <1>1
  <2>2. S[i] \subseteq SegmentCells(i - 1) /\ SitEntry(d, p, i - 1).count = w[i]
    BY <2>1, F2fsEntry
  <2>3. IsFiniteSet(S[i])
    BY <2>1, <2>2, F2fsParts, FS_Subset
  <2> QED BY <2>1, <2>2, <2>3
<1>4. w \in [1..n -> Nat]
  BY <1>3, FS_CardinalityType
<1>5. \A i, j \in 1..n : i # j => S[i] \cap S[j] = {}
  <2> TAKE i, j \in 1..n
  <2> HAVE i # j
  <2>1. i - 1 \in Segments /\ j - 1 \in Segments /\ i - 1 # j - 1
    BY <1>1, <1>3
  <2>2. SegmentCells(i - 1) \cap SegmentCells(j - 1) = {}
    BY <2>1, F2fsParts
  <2> QED BY <1>3, <2>2
<1>6. UNION {S[i] : i \in 1..n} = U
  <2>1. \A s \in Segments : s + 1 \in 1..n /\ (s + 1) - 1 = s
    BY <1>1
  <2>2. \A s \in Segments : S[s + 1] = SitEntry(d, p, s).blocks
    BY <2>1
  <2>3. \A i \in 1..n : S[i] = SitEntry(d, p, i - 1).blocks /\ i - 1 \in Segments
    BY <1>3
  <2> HIDE DEF S
  <2> QED BY <2>1, <2>2, <2>3
<1> HIDE DEF S, U
<1>8. PICK f : IsSum(f, n, w)
  <2> HIDE DEF w
  <2> QED BY <1>1, <1>4, SumExists
<1>9. \A g : IsSum(g, n, w) => g[n] = Cardinality(U)
  <2> TAKE g
  <2> HAVE IsSum(g, n, w)
  <2>1. g[n] = Cardinality(UNION {S[i] : i \in 1..n})
    <3>1. \A i \in 1..n : IsFiniteSet(S[i])
      BY <1>3
    <3>2. IsSum(g, n, [i \in 1..n |-> Cardinality(S[i])])
      OBVIOUS
    <3> HIDE DEF w, n
    <3> QED BY <1>1, <1>5, <3>1, <3>2, PartsAddUp
  <2> QED BY <1>6, <2>1
<1> HIDE DEF w
<1>10. P(f)
  <2>1. \A i \in 0..n : f[i] = IF i = 0 THEN 0 ELSE f[i - 1] + SitEntry(d, p, i - 1).count
    <3> TAKE i \in 0..n
    <3>1. CASE i = 0
      BY <1>8, <3>1 DEF IsSum
    <3>2. CASE i # 0
      <4>1. i \in 1..n
        BY <1>1, <3>2
      <4> QED BY <1>3, <1>8, <3>2, <4>1 DEF IsSum
    <3> QED BY <3>1, <3>2
  <2>2. f \in [0..n -> Nat]
    BY <1>8 DEF IsSum
  <2> HIDE DEF n
  <2> QED BY <2>1, <2>2
<1>11. P(c)
  <2> HIDE DEF P
  <2> QED BY <1>10
<1>12. IsSum(c, n, w)
  <2>1. DOMAIN c = 0..n /\ c = [i \in 0..n |-> c[i]] /\ c[0] = 0
    <3>1. 0 \in 0..n
      BY <1>1
    <3> HIDE DEF c, n
    <3> QED BY <1>11, <3>1
  <2>2. ASSUME NEW i \in 1..n PROVE c[i] = c[i - 1] + w[i]
    <3>1. i \in 0..n /\ i # 0
      BY <1>1
    <3>2. c[i] = c[i - 1] + SitEntry(d, p, i - 1).count
      BY <1>11, <3>1
    <3> QED BY <1>3, <3>2
  <2> HIDE DEF c, P
  <2> QED BY <1>1, <1>8, <2>1, <2>2, SumsAgree
<1>13. c[n] = Cardinality(U)
  BY <1>9, <1>12
<1> QED BY <1>2, <1>13 DEF U

\* What the reader asks of a volume.
LEMMA F2fsReads ==
  ASSUME NEW d
  PROVE  LET pack == CurrentPack(d)
             fine == /\ Superblocks(d) /\ ValidPacks(d) # {}
                     /\ F2fsLayout(d) /\ ~pack.error /\ pack.umount /\ ~RollForward(d)
                     /\ \A s \in Segments : SegmentOk(SitEntry(d, pack, s))
                     /\ F2fsValid(d, pack) = pack.valid
         IN  /\ F2fsRead(d, Copy).ok <=> fine
             /\ fine => /\ F2fsRead(d, Copy).used = Span(0, F2fsMain) \cup UNION {SitEntry(d, pack, s).blocks : s \in Segments}
                        /\ F2fsRead(d, Copy).end = F2fsMain + 2 * F2fsSegments
<1> DEFINE pack == CurrentPack(d)
           more == /\ F2fsLayout(d) /\ ~pack.error /\ pack.umount /\ ~RollForward(d)
                   /\ \A s \in Segments : SegmentOk(SitEntry(d, pack, s))
                   /\ F2fsValid(d, pack) = pack.valid
           used == Span(0, F2fsMain) \cup UNION {SitEntry(d, pack, s).blocks : s \in Segments}
           end == F2fsMain + 2 * F2fsSegments
           sound == /\ F2fsLayout(d)
                    /\ ~pack.error
                    /\ Copy = Copy => pack.umount /\ ~RollForward(d)
                    /\ \A s \in Segments : SegmentOk(SitEntry(d, pack, s))
                    /\ Copy = Copy => F2fsValid(d, pack) = pack.valid
<1>1. F2fsRead(d, Copy) = IF ~Superblocks(d) \/ ValidPacks(d) = {} THEN Bad ELSE Result(sound, used, end)
  BY DEF F2fsRead, F2fsValid
<1>2. sound <=> more
  OBVIOUS
<1> HIDE DEF used, end, sound, more
<1>3. CASE ~Superblocks(d) \/ ValidPacks(d) = {}
  BY <1>1, <1>3 DEF Bad
<1>4. CASE Superblocks(d) /\ ValidPacks(d) # {} /\ ~more
  BY <1>1, <1>2, <1>4 DEF Bad, Result, more
<1>5. CASE Superblocks(d) /\ ValidPacks(d) # {} /\ more
  <2>1. F2fsRead(d, Copy) = Usage(used, end)
    BY <1>1, <1>2, <1>5 DEF Result
  <2> QED BY <1>5, <2>1 DEF Usage, more, used, end
<1> QED BY <1>3, <1>4, <1>5

\* What is kept of an F2FS it understands (f2fs.rs): an entry of the table that reads
\* as zeros does not go with the count in the pack.
LEMMA F2fsKeeps ==
  ASSUME NEW d, F2fsVolume(d), F2fsSound(d), F2fsRead(d, Copy).ok
  PROVE  Keeps(F2fsRead(d, Copy), F2fsNeed(d))
<1>1. PICK i : F2fsNewest(d, i) /\ F2fsLegible(d, d.pack[i])
  BY DEF F2fsSound
<1> DEFINE p == d.pack[i]
           U == UNION {SitEntry(d, p, s).blocks : s \in Segments}
           end == F2fsMain + 2 * F2fsSegments
<1>2. i \in 1..2 /\ CurrentPack(d) = p /\ p.header > 0 /\ p.footer = p.header /\ F2fsIsPack(p)
  BY <1>1, F2fsCurrent DEF F2fsVolume
<1>3. /\ F2fsLayout(d) /\ ~RollForward(d) /\ F2fsValid(d, p) = p.valid
      /\ F2fsRead(d, Copy).used = Span(0, F2fsMain) \cup U /\ F2fsRead(d, Copy).end = end
  BY <1>2, F2fsReads
<1>4. /\ ~d.unknown /\ d.blocks <= Size /\ d.blocks \in {end, Size + 1} /\ Size \in Nat /\ end \in Nat
      /\ F2fsMain \in Nat /\ F2fsMain <= end /\ (p.full \/ d.node.version # p.header)
  BY <1>2, <1>3, SizeAssumption, F2fsAssumption DEF F2fsLayout, F2fsVolume, RollForward
<1>5. end <= Size
  <2> HIDE DEF end
  <2> QED BY <1>4
<1>6. p.held = U
  <2>1. U \subseteq p.held
    <3> SUFFICES ASSUME NEW s \in Segments, NEW b \in SitEntry(d, p, s).blocks PROVE b \in p.held
      OBVIOUS
    <3>1. SitEntry(d, p, s) \in {Entry(p.held \cap SegmentCells(s)), Entry({})}
      BY <1>1 DEF F2fsLegible
    <3>2. SitEntry(d, p, s).blocks \in {p.held \cap SegmentCells(s), {}}
      BY <3>1 DEF Entry
    <3> QED BY <3>2
  <2>2. Cardinality(U) = Cardinality(p.held)
    <3>1. F2fsValid(d, p) = Cardinality(U)
      BY <1>2, F2fsAddsUp
    <3>2. p.valid = Cardinality(p.held)
      BY <1>2 DEF F2fsIsPack
    <3> HIDE DEF p, U
    <3> QED BY <1>3, <3>1, <3>2
  <2>3. IsFiniteSet(p.held)
    BY <1>2, F2fsParts, FS_Subset DEF F2fsIsPack
  <2> HIDE DEF U
  <2> QED BY <2>1, <2>2, <2>3, FS_Subset
<1>7. p.held \subseteq F2fsMain..(end - 1)
  <2>1. p.held \subseteq F2fsArea
    BY <1>2 DEF F2fsIsPack
  <2>2. F2fsArea \subseteq F2fsMain..(end - 1)
    BY F2fsParts
  <2> HIDE DEF p, end
  <2> QED BY <2>1, <2>2
<1>8. F2fsNeed(d) \subseteq 0..(F2fsMain - 1) \cup end..(Size - 1) \cup p.held
  <2> DEFINE packs == {q \in {d.pack[1], d.pack[2]} : q.header > 0 /\ q.footer = q.header}
             newest == {q \in packs : \A r \in packs : r.header <= q.header}
             more(q) == IF ~q.full /\ d.node.version = q.header THEN d.node.blocks ELSE {}
  <2>1. F2fsNeed(d) = 0..(F2fsMain - 1) \cup end..(Size - 1) \cup UNION {q.held \cup more(q) : q \in newest}
    <3>1. ~(d.blocks > Size)
      <4>1. d.blocks \in Nat
        BY <1>4
      <4> QED BY <1>4, <4>1
    <3> QED BY <1>4, <3>1 DEF F2fsNeed
  <2>2. ASSUME NEW q \in newest PROVE q = p
    <3>1. PICK j \in {1, 2} : q = d.pack[j] /\ j \in ValidPacks(d)
      BY DEF ValidPacks
    <3>2. p \in packs
      BY <1>2
    <3>3. p.header <= q.header
      BY <3>2
    <3>4. j # i => q.header < p.header
      BY <1>1, <3>1 DEF F2fsNewest
    <3>5. p.header \in Nat /\ q.header \in Nat
      BY <1>2, <3>1 DEF F2fsVolume, F2fsIsPack
    <3>6. j = i
      BY <3>3, <3>4, <3>5
    <3> QED BY <3>1, <3>6
  <2>3. more(p) = {}
    BY <1>4
  <2> HIDE DEF newest, more, end, p
  <2> QED BY <2>1, <2>2, <2>3
<1> HIDE DEF p, U, end
<1>9. Span(0, F2fsMain) = 0..(F2fsMain - 1)
  BY <1>4 DEF Span
<1>10. p.held \subseteq Cells /\ 0..(F2fsMain - 1) \subseteq Cells
  <2>1. \A x \in F2fsMain..(end - 1) : x \in 0..(Size - 1)
    BY <1>4, <1>5
  <2>2. \A x \in 0..(F2fsMain - 1) : x \in 0..(Size - 1)
    BY <1>4, <1>5
  <2> QED BY <1>7, <2>1, <2>2 DEF Cells
<1>11. (IF F2fsRead(d, Copy).end < Size THEN F2fsRead(d, Copy).end ELSE Size) = end
  BY <1>3, <1>4, <1>5
<1> QED BY <1>3, <1>6, <1>8, <1>9, <1>10, <1>11 DEF Keeps

\* What a driver leaves is understood.
LEMMA F2fsClean ==
  ASSUME NEW d, F2fsVolume(d), NEW i, F2fsNewest(d, i), F2fsCovers(d, d.pack[i]), d.pack[i].umount, ~d.pack[i].error,
         d.node = NoNode, d.agree, ~d.unknown, d.blocks <= Size
  PROVE  F2fsRead(d, Copy).ok
<1> DEFINE p == d.pack[i]
           U == UNION {SitEntry(d, p, s).blocks : s \in Segments}
<1>1. i \in 1..2 /\ CurrentPack(d) = p /\ p.header > 0 /\ p.header \in Nat /\ F2fsIsPack(p) /\ ValidPacks(d) # {}
  BY F2fsCurrent DEF F2fsVolume, F2fsIsPack, F2fsNewest
<1>2. ~RollForward(d)
  <2>1. d.node.version = 0
    BY DEF NoNode
  <2> QED BY <1>1, <2>1 DEF RollForward
<1>3. ASSUME NEW s \in Segments
      PROVE  /\ SitEntry(d, p, s).blocks = p.held \cap SegmentCells(s)
             /\ SitEntry(d, p, s).count = Cardinality(SitEntry(d, p, s).blocks)
  <2>1. SitEntry(d, p, s) = Entry(p.held \cap SegmentCells(s))
    BY DEF F2fsCovers
  <2> QED BY <2>1 DEF Entry
<1>4. U = p.held
  <2>1. p.held \subseteq F2fsArea
    BY <1>1 DEF F2fsIsPack
  <2> QED BY <1>3, <2>1 DEF F2fsArea
<1>5. F2fsValid(d, p) = p.valid
  <2>1. F2fsValid(d, p) = Cardinality(U)
    BY <1>1, F2fsAddsUp
  <2>2. p.valid = Cardinality(p.held)
    BY <1>1 DEF F2fsIsPack
  <2> HIDE DEF p, U
  <2> QED BY <1>4, <2>1, <2>2
<1>6. \A s \in Segments : SegmentOk(SitEntry(d, p, s))
  BY <1>3 DEF SegmentOk
<1>7. Superblocks(d) /\ F2fsLayout(d)
  BY DEF Superblocks, F2fsLayout
<1> QED BY <1>1, <1>2, <1>5, <1>6, <1>7, F2fsReads

\* What a driver has in memory: the pack that counts is whole, and the one before it,
\* and their entries are there.
F2fsMade(m, c) ==
  /\ F2fsVolume(m) /\ c \in 1..2
  /\ m.pack[c].header > 0 /\ m.pack[c].footer = m.pack[c].header /\ F2fsCovers(m, m.pack[c])
  /\ m.pack[3 - c].footer = m.pack[3 - c].header /\ m.pack[3 - c].header < m.pack[c].header
  /\ m.pack[3 - c].header > 0 => F2fsCovers(m, m.pack[3 - c])

\* The disk has it all, or an older pack in its place, or a torn one: the one before
\* it and its entries are there.
F2fsBehind(d, m, c) ==
  LET q == m.pack[3 - c]
  IN  /\ d.pack[3 - c] = q
      /\ \/ d.sit = m.sit /\ d.pack[c] = m.pack[c]
         \/ /\ q.header > 0 /\ d.pack[c].footer < q.header
            /\ \A s \in Segments : d.sit[q.copy[s]][s] = m.sit[q.copy[s]][s]

\* What no driver changes.
F2fsSame(d, e) ==
  DOMAIN e = DOMAIN d /\ e.agree = d.agree /\ e.blocks = d.blocks /\ e.unknown = d.unknown

\* One of two packs and the other.
LEMMA F2fsOther ==
  ASSUME NEW c \in 1..2
  PROVE  3 - c \in 1..2 /\ 3 - c # c /\ 3 - (3 - c) = c /\ \A k \in {1, 2} : k = c \/ k = 3 - c
OBVIOUS

\* The pack that counts in memory.
LEMMA F2fsMadeIs ==
  ASSUME NEW m, NEW c, F2fsMade(m, c)
  PROVE  /\ F2fsNewest(m, c) /\ CurrentPack(m) = m.pack[c]
         /\ F2fsView(m) = [s \in Segments |-> Entry(m.pack[c].held \cap SegmentCells(s))]
<1>1. F2fsNewest(m, c)
  BY F2fsOther DEF F2fsMade, F2fsNewest, ValidPacks
<1>2. CurrentPack(m) = m.pack[c]
  BY <1>1, F2fsCurrent DEF F2fsMade
<1>3. F2fsView(m) = [s \in Segments |-> Entry(m.pack[c].held \cap SegmentCells(s))]
  BY <1>2 DEF F2fsView, F2fsMade, F2fsCovers
<1> QED BY <1>1, <1>2, <1>3

\* A disk that lacks some of what a driver had to write is sound.
LEMMA F2fsBehindIsSound ==
  ASSUME NEW d, NEW m, NEW c, F2fsVolume(d), F2fsMade(m, c), F2fsBehind(d, m, c)
  PROVE  F2fsSound(d)
<1> DEFINE q == m.pack[3 - c]
<1>1. c \in 1..2 /\ 3 - c \in 1..2 /\ 3 - c # c /\ \A k \in {1, 2} : k = c \/ k = 3 - c
  BY F2fsOther DEF F2fsMade
<1>2. d.pack[3 - c] = q /\ q.footer = q.header /\ q.header < m.pack[c].header /\ (q.header > 0 => F2fsCovers(m, q))
  BY DEF F2fsMade, F2fsBehind
<1>3. CASE d.sit = m.sit /\ d.pack[c] = m.pack[c]
  <2>1. F2fsNewest(d, c)
    BY <1>1, <1>2, <1>3 DEF F2fsNewest, ValidPacks, F2fsMade
  <2>2. F2fsLegible(d, d.pack[c])
    BY <1>3 DEF F2fsLegible, F2fsMade, F2fsCovers, SitEntry
  <2> QED BY <2>1, <2>2 DEF F2fsSound
<1>4. CASE /\ q.header > 0 /\ d.pack[c].footer < q.header
           /\ \A s \in Segments : d.sit[q.copy[s]][s] = m.sit[q.copy[s]][s]
  <2>1. F2fsNewest(d, 3 - c)
    BY <1>1, <1>2, <1>4 DEF F2fsNewest, ValidPacks
  <2>2. F2fsLegible(d, q)
    BY <1>2, <1>4 DEF F2fsLegible, F2fsCovers, SitEntry
  <2> QED BY <1>2, <2>1, <2>2 DEF F2fsSound
<1> QED BY <1>3, <1>4 DEF F2fsBehind

\* A new checkpoint takes the place of the one before the last.
F2fsCommitted(m, n, c, umount) ==
  /\ F2fsMade(n, 3 - c) /\ F2fsBehind(m, n, 3 - c) /\ F2fsSame(m, n)
  /\ n.node = NoNode /\ n.pack[3 - c].umount = umount /\ ~n.pack[3 - c].error /\ n.pack[c] = m.pack[c]

\* It does, whatever it is to hold.
LEMMA F2fsCommits ==
  ASSUME NEW m, NEW c, F2fsMade(m, c), NEW view, DOMAIN view = Segments,
         \A s \in Segments : view[s] \in F2fsEntries(s), NEW journalled, NEW umount \in BOOLEAN
  PROVE  F2fsCommitted(m, F2fsCheckpoint(m, view, journalled, umount), c, umount)
<1> DEFINE n == F2fsCheckpoint(m, view, journalled, umount)
           old == CurrentPack(m)
           changed == {s \in Segments : view[s] # F2fsView(m)[s] \/ s \in DOMAIN old.journal}
           moved == changed \ journalled
           copy == [s \in Segments |-> IF s \in moved THEN 3 - old.copy[s] ELSE old.copy[s]]
           held == UNION {view[s].blocks : s \in Segments}
           journal == [s \in changed \cap journalled |-> view[s]]
           new == F2fsPack(old.header + 1, umount, copy, journal, held)
           slot == 3 - c
<1>1. c \in 1..2 /\ slot \in 1..2 /\ slot # c /\ 3 - slot = c /\ \A k \in {1, 2} : k = c \/ k = slot
  BY F2fsOther DEF F2fsMade
<1>2. /\ F2fsVolume(m) /\ F2fsIsPack(old) /\ old.header \in Nat /\ old.header > 0 /\ old.footer = old.header
      /\ m.pack[slot].header \in Nat /\ m.pack[slot].footer = m.pack[slot].header /\ m.pack[slot].header < old.header
      /\ F2fsCovers(m, old)
      /\ old = m.pack[c]
  <2>1. old = m.pack[c]
    BY F2fsMadeIs
  <2> HIDE DEF old
  <2> QED BY <1>1, <2>1 DEF F2fsMade, F2fsVolume, F2fsIsPack
<1>3. F2fsView(m) = [s \in Segments |-> SitEntry(m, old, s)]
  BY DEF F2fsView
<1>4. (IF CurrentPack(m) = m.pack[1] THEN 2 ELSE 1) = slot
  <2>1. CASE c = 1
    BY <1>2, <2>1
  <2>2. CASE c = 2
    <3>1. m.pack[1].header # m.pack[2].header
      BY <1>2, <2>2
    <3> QED BY <1>2, <2>2, <3>1
  <2> QED BY <1>1, <2>1, <2>2
<1>5. n = [m EXCEPT !.pack[slot] = new,
                    !.sit = [k \in 1..2 |-> [s \in Segments |-> IF s \in moved /\ copy[s] = k THEN view[s] ELSE m.sit[k][s]]],
                    !.node = NoNode]
  <2>1. n = [m EXCEPT !.pack[IF CurrentPack(m) = m.pack[1] THEN 2 ELSE 1] = new,
                      !.sit = [k \in 1..2 |-> [s \in Segments |-> IF s \in moved /\ copy[s] = k THEN view[s] ELSE m.sit[k][s]]],
                      !.node = NoNode]
    BY DEF F2fsCheckpoint
  <2> HIDE DEF n, new, moved, copy, journal, changed, held, old
  <2> QED BY <1>4, <2>1
<1>6. /\ \A s \in Segments : copy[s] \in 1..2 /\ (s \in moved => copy[s] # old.copy[s]) /\ (s \notin moved => copy[s] = old.copy[s])
      /\ copy \in [Segments -> 1..2]
  BY <1>2 DEF F2fsIsPack
<1>7. /\ DOMAIN journal \subseteq Segments /\ \A s \in DOMAIN journal : journal[s] = view[s]
      /\ \A s \in Segments : s \notin DOMAIN journal /\ s \notin moved => view[s] = SitEntry(m, old, s) /\ s \notin DOMAIN old.journal
  BY <1>3
<1> HIDE DEF n, changed, moved, copy, journal
<1>8. /\ DOMAIN n = DOMAIN m /\ n.pack = [m.pack EXCEPT ![slot] = new] /\ n.node = NoNode
      /\ n.sit = [k \in 1..2 |-> [s \in Segments |-> IF s \in moved /\ copy[s] = k THEN view[s] ELSE m.sit[k][s]]]
      /\ n.agree = m.agree /\ n.blocks = m.blocks /\ n.unknown = m.unknown
  <2> HIDE DEF new, old, slot
  <2> QED BY <1>2, <1>5 DEF F2fsVolume
<1>9. /\ DOMAIN n.pack = 1..2 /\ n.pack[slot] = new /\ n.pack[c] = old
  <2> HIDE DEF new, slot
  <2> QED BY <1>1, <1>2, <1>8 DEF F2fsVolume
<1>10. /\ new.header = old.header + 1 /\ new.footer = old.header + 1 /\ new.umount = umount /\ new.error = FALSE
       /\ new.copy = copy /\ new.journal = journal /\ new.valid = Cardinality(held) /\ new.held = held
       /\ new = [header |-> new.header, footer |-> new.footer, umount |-> new.umount, error |-> new.error,
                 copy |-> new.copy, journal |-> new.journal, valid |-> new.valid, held |-> new.held, full |-> new.full]
  <2> HIDE DEF held, old
  <2> QED BY DEF F2fsPack
<1> HIDE DEF new
<1>11. /\ \A s \in Segments : view[s].blocks \subseteq SegmentCells(s) /\ view[s] = Entry(view[s].blocks)
       /\ \A s \in Segments : held \cap SegmentCells(s) = view[s].blocks
  <2>1. \A s \in Segments : view[s].blocks \subseteq SegmentCells(s) /\ view[s] = Entry(view[s].blocks)
    <3> TAKE s \in Segments
    <3>1. PICK b \in SUBSET SegmentCells(s) : view[s] = Entry(b)
      BY DEF F2fsEntries
    <3> QED BY <3>1 DEF Entry
  <2> QED BY <2>1, F2fsParts
<1>12. held \subseteq F2fsArea
  BY <1>11 DEF F2fsArea
<1>13. F2fsIsPack(new)
  <2>1. old.header + 1 \in Nat
    BY <1>2
  <2>2. DOMAIN journal \subseteq Segments /\ \A s \in DOMAIN journal : journal[s] \in F2fsEntries(s)
    BY <1>7
  <2> HIDE DEF held, old
  <2> QED BY <1>6, <1>10, <1>12, <2>1, <2>2 DEF F2fsIsPack
<1> HIDE DEF held
<1>14. \A k \in 1..2 : \A s \in Segments : n.sit[k][s] = IF s \in moved /\ copy[s] = k THEN view[s] ELSE m.sit[k][s]
  BY <1>8
<1>15. F2fsVolume(n)
  <2>1. \A k \in 1..2 : F2fsIsPack(n.pack[k])
    BY <1>1, <1>2, <1>9, <1>13
  <2>2. \A k \in 1..2 : \A s \in Segments : n.sit[k][s] \in F2fsEntries(s)
    BY <1>2, <1>14 DEF F2fsVolume
  <2>3. n.sit = [k \in 1..2 |-> [s \in Segments |-> n.sit[k][s]]]
    BY <1>8
  <2> QED BY <1>2, <1>8, <1>9, <2>1, <2>2, <2>3 DEF F2fsVolume
<1>16. F2fsCovers(n, new)
  <2> SUFFICES ASSUME NEW s \in Segments
               PROVE  SitEntry(n, new, s) = view[s]
    BY <1>10, <1>11 DEF F2fsCovers
  <2>1. CASE s \in DOMAIN journal
    BY <1>7, <1>10, <2>1 DEF SitEntry
  <2>2. CASE s \notin DOMAIN journal
    <3>1. SitEntry(n, new, s) = n.sit[copy[s]][s]
      BY <1>10, <2>2 DEF SitEntry
    <3>2. CASE s \in moved
      BY <1>6, <1>14, <3>1, <3>2
    <3>3. CASE s \notin moved
      <4>1. SitEntry(n, new, s) = m.sit[old.copy[s]][s]
        BY <1>6, <1>14, <3>1, <3>3
      <4>2. view[s] = m.sit[old.copy[s]][s]
        BY <1>7, <2>2, <3>3 DEF SitEntry
      <4> QED BY <4>1, <4>2
    <3> QED BY <3>2, <3>3
  <2> QED BY <2>1, <2>2
<1>17. \A s \in Segments : n.sit[old.copy[s]][s] = m.sit[old.copy[s]][s]
  <2> TAKE s \in Segments
  <2>1. old.copy[s] \in 1..2 /\ ~(s \in moved /\ copy[s] = old.copy[s])
    BY <1>2, <1>6 DEF F2fsIsPack
  <2> QED BY <1>14, <2>1
<1>18. F2fsCovers(n, old)
  BY <1>2, <1>17 DEF F2fsCovers, SitEntry
<1> HIDE DEF old, slot
<1>19. F2fsMade(n, slot)
  BY <1>1, <1>2, <1>9, <1>10, <1>15, <1>16, <1>18 DEF F2fsMade
<1>20. F2fsBehind(m, n, slot)
  BY <1>1, <1>2, <1>9, <1>17 DEF F2fsBehind, old
<1>21. F2fsSame(m, n)
  BY <1>8 DEF F2fsSame
<1> QED BY <1>8, <1>9, <1>10, <1>19, <1>20, <1>21 DEF F2fsCommitted, n, slot, old

\* No checkpoint was written with an error noted in it.
F2fsUnfailed(m) == \A k \in 1..2 : ~m.pack[k].error

\* A change makes a checkpoint, or leaves them alone.
LEMMA F2fsWrites ==
  ASSUME NEW m, NEW c, F2fsMade(m, c), NEW n \in F2fsChanges(m)
  PROVE  \E b \in 1..2 : /\ F2fsMade(n, b) /\ F2fsBehind(m, n, b) /\ F2fsSame(m, n)
                         /\ F2fsUnfailed(m) => F2fsUnfailed(n)
<1> DEFINE view == F2fsView(m)
           segment(x) == (x - F2fsMain) \div 2
           free == (UNION {SegmentCells(s) : s \in Segments}) \ (F2fsHeld(m) \cup m.node.blocks)
           with(x) == [view EXCEPT ![segment(x)] = Entry(@.blocks \cup {x})]
           without(v, x) == [v EXCEPT ![segment(x)] = Entry(@.blocks \ {x})]
           taken(v, j) == F2fsCheckpoint(m, v, j, FALSE)
           isView(v) == DOMAIN v = Segments /\ \A s \in Segments : v[s] \in F2fsEntries(s)
<1>1. c \in 1..2 /\ 3 - c \in 1..2 /\ 3 - c # c /\ \A k \in {1, 2} : k = c \/ k = 3 - c
  BY F2fsOther DEF F2fsMade
<1>2. \A s \in Segments : \A b : b \subseteq SegmentCells(s) => Entry(b) \in F2fsEntries(s)
  BY DEF F2fsEntries
<1>3. \A s \in Segments : \A e \in F2fsEntries(s) : e.blocks \subseteq SegmentCells(s)
  BY DEF F2fsEntries, Entry
<1>4. isView(view)
  <2>1. view = [s \in Segments |-> Entry(m.pack[c].held \cap SegmentCells(s))]
    BY F2fsMadeIs
  <2> HIDE DEF view
  <2> QED BY <1>2, <2>1
<1>5. ASSUME NEW v, isView(v), NEW x \in F2fsArea
      PROVE  isView([v EXCEPT ![segment(x)] = Entry(@.blocks \cup {x})]) /\ isView([v EXCEPT ![segment(x)] = Entry(@.blocks \ {x})])
  <2>1. segment(x) \in Segments /\ x \in SegmentCells(segment(x))
    BY F2fsParts
  <2> HIDE DEF segment
  <2>2. v[segment(x)].blocks \subseteq SegmentCells(segment(x))
    BY <1>3, <1>5, <2>1
  <2>3. /\ Entry(v[segment(x)].blocks \cup {x}) \in F2fsEntries(segment(x))
        /\ Entry(v[segment(x)].blocks \ {x}) \in F2fsEntries(segment(x))
    BY <1>2, <2>1, <2>2
  <2> QED BY <1>5, <2>1, <2>3
<1> HIDE DEF segment, taken
<1>6. ASSUME NEW v, isView(v), NEW j, n = taken(v, j)
      PROVE  \E b \in 1..2 : /\ F2fsMade(n, b) /\ F2fsBehind(m, n, b) /\ F2fsSame(m, n)
                             /\ F2fsUnfailed(m) => F2fsUnfailed(n)
  <2>1. PICK no \in BOOLEAN : no = FALSE
    OBVIOUS
  <2>2. /\ F2fsMade(n, 3 - c) /\ F2fsBehind(m, n, 3 - c) /\ F2fsSame(m, n)
        /\ ~n.pack[3 - c].error /\ n.pack[c] = m.pack[c]
    <3>1. n = F2fsCheckpoint(m, v, j, no)
      BY <1>6, <2>1 DEF taken
    <3>2. F2fsCommitted(m, F2fsCheckpoint(m, v, j, no), c, no)
      BY <1>6, F2fsCommits
    <3> QED BY <3>1, <3>2 DEF F2fsCommitted
  <2>3. F2fsUnfailed(m) => F2fsUnfailed(n)
    BY <1>1, <2>2 DEF F2fsUnfailed
  <2> QED BY <1>1, <2>2, <2>3
<1>7. free \subseteq F2fsArea /\ F2fsHeld(m) \subseteq F2fsArea
  <2>1. \A s \in Segments : view[s].blocks \subseteq SegmentCells(s)
    BY <1>3, <1>4
  <2> QED BY <2>1 DEF F2fsHeld, F2fsArea
<1>8. CASE \E x \in free : n = [m EXCEPT !.node = [version |-> CurrentPack(m).header, blocks |-> {x}]]
  <2>1. /\ DOMAIN n = DOMAIN m /\ n.pack = m.pack /\ n.sit = m.sit /\ n.agree = m.agree /\ n.blocks = m.blocks
        /\ n.unknown = m.unknown
    BY <1>8 DEF F2fsMade, F2fsVolume
  <2>2. F2fsMade(n, c)
    BY <2>1 DEF F2fsMade, F2fsVolume, F2fsCovers, SitEntry
  <2>3. F2fsBehind(m, n, c) /\ F2fsSame(m, n) /\ (F2fsUnfailed(m) => F2fsUnfailed(n))
    BY <2>1 DEF F2fsBehind, F2fsSame, F2fsUnfailed
  <2> QED BY <1>1, <2>2, <2>3
<1>9. CASE \E x \in free : \E j \in {{}, {0}} : n = taken(with(x), j)
  <2>1. PICK x \in free, j \in {{}, {0}} : n = taken(with(x), j)
    BY <1>9
  <2>2. isView(with(x))
    BY <1>4, <1>5, <1>7
  <2> HIDE DEF isView, with
  <2> QED BY <1>6, <2>1, <2>2
<1>10. CASE \E x \in free : \E old \in F2fsHeld(m) : \E j \in {{}, {0}} : n = taken(without(with(x), old), j)
  <2>1. PICK x \in free, old \in F2fsHeld(m), j \in {{}, {0}} : n = taken(without(with(x), old), j)
    BY <1>10
  <2>2. isView(with(x))
    BY <1>4, <1>5, <1>7
  <2>3. isView(without(with(x), old))
    <3> HIDE DEF isView, with
    <3> QED BY <1>5, <1>7, <2>2
  <2> DEFINE v == without(with(x), old)
  <2>4. isView(v) /\ n = taken(v, j)
    BY <2>1, <2>3
  <2> HIDE DEF v, isView
  <2> QED BY <1>6, <2>4
<1> DEFINE marked(x) == [m EXCEPT !.node = [version |-> CurrentPack(m).header, blocks |-> {x}]]
           more == {taken(with(x), j) : x \in free, j \in {{}, {0}}}
           other == {taken(without(with(x), old), j) : x \in free, old \in F2fsHeld(m), j \in {{}, {0}}}
<1>11. F2fsChanges(m) = {marked(x) : x \in free} \cup more \cup other
  BY DEF F2fsChanges, segment, taken
<1> HIDE DEF free, with, without, marked
<1>12. n \in more => \E x \in free : \E j \in {{}, {0}} : n = taken(with(x), j)
  OBVIOUS
<1>13. n \in other => \E x \in free : \E old \in F2fsHeld(m) : \E j \in {{}, {0}} : n = taken(without(with(x), old), j)
  OBVIOUS
<1>14. CASE n \in more
  BY <1>9, <1>12, <1>14
<1>15. CASE n \in other
  BY <1>10, <1>13, <1>15
<1>16. CASE n \in {marked(x) : x \in free}
  <2>1. \E x \in free : n = marked(x)
    BY <1>16
  <2> QED BY <1>8, <2>1 DEF marked
<1> HIDE DEF more, other
<1> QED BY <1>11, <1>14, <1>15, <1>16

\* A volume that is unmounted: a last checkpoint says so.
LEMMA F2fsCloses ==
  ASSUME NEW m, NEW c, F2fsMade(m, c)
  PROVE  LET n == F2fsUnmounted(m)
         IN  /\ F2fsMade(n, 3 - c) /\ F2fsBehind(m, n, 3 - c) /\ F2fsSame(m, n)
             /\ n.node = NoNode /\ n.pack[3 - c].umount /\ (F2fsUnfailed(m) => F2fsUnfailed(n))
<1> DEFINE view == F2fsView(m)
           kept == [s \in Segments |-> Entry(view[s].blocks \cup (m.node.blocks \cap SegmentCells(s)))]
           n == F2fsUnmounted(m)
<1>1. c \in 1..2 /\ 3 - c \in 1..2 /\ 3 - c # c /\ \A k \in {1, 2} : k = c \/ k = 3 - c
  BY F2fsOther DEF F2fsMade
<1>2. \A s \in Segments : view[s] = Entry(m.pack[c].held \cap SegmentCells(s))
  BY F2fsMadeIs
<1>3. \A s \in Segments : kept[s] \in F2fsEntries(s)
  <2> TAKE s \in Segments
  <2>1. view[s].blocks \subseteq SegmentCells(s)
    <3>1. \A b : Entry(b).blocks = b
      BY DEF Entry
    <3> HIDE DEF view
    <3> QED BY <1>2, <3>1
  <2> HIDE DEF view
  <2> QED BY <2>1 DEF F2fsEntries
<1>4. PICK yes \in BOOLEAN : yes = TRUE
  OBVIOUS
<1>5. n = F2fsCheckpoint(m, kept, {0}, yes)
  BY <1>4 DEF F2fsUnmounted
<1> HIDE DEF n
<1>6. /\ F2fsMade(n, 3 - c) /\ F2fsBehind(m, n, 3 - c) /\ F2fsSame(m, n)
      /\ n.node = NoNode /\ n.pack[3 - c].umount = yes /\ ~n.pack[3 - c].error /\ n.pack[c] = m.pack[c]
  <2>1. DOMAIN kept = Segments
    OBVIOUS
  <2> HIDE DEF kept
  <2>2. F2fsCommitted(m, F2fsCheckpoint(m, kept, {0}, yes), c, yes)
    BY <1>3, <2>1, F2fsCommits
  <2> QED BY <1>5, <2>2 DEF F2fsCommitted
<1>7. F2fsUnfailed(m) => F2fsUnfailed(n)
  BY <1>1, <1>6 DEF F2fsUnfailed
<1> QED BY <1>4, <1>6, <1>7 DEF n

\* Whatever a driver writes, the disk lacks no more than it did.
LEMMA F2fsFlushes ==
  ASSUME NEW d, NEW m, NEW c, F2fsVolume(d), F2fsMade(m, c), F2fsBehind(d, m, c), F2fsSame(d, m), NEW e \in F2fsFlushed(d, m)
  PROVE  F2fsVolume(e) /\ F2fsBehind(e, m, c) /\ F2fsSame(e, m)
<1> DEFINE q == m.pack[3 - c]
<1>1. c \in 1..2 /\ 3 - c \in 1..2 /\ 3 - c # c /\ \A k \in {1, 2} : k = c \/ k = 3 - c
  BY F2fsOther DEF F2fsMade
<1>2. F2fsVolume(m) /\ d.pack[3 - c] = q
  BY DEF F2fsMade, F2fsBehind
<1>3. CASE \E k \in 1..2, s \in Segments : e = [d EXCEPT !.sit[k][s] = m.sit[k][s]]
  <2>1. PICK k \in 1..2, s \in Segments : e = [d EXCEPT !.sit[k][s] = m.sit[k][s]]
    BY <1>3
  <2>2. /\ DOMAIN e = DOMAIN d /\ e.pack = d.pack /\ e.agree = d.agree /\ e.blocks = d.blocks /\ e.unknown = d.unknown
        /\ e.sit = [d.sit EXCEPT ![k] = [d.sit[k] EXCEPT ![s] = m.sit[k][s]]]
    BY <2>1 DEF F2fsVolume
  <2>3. d.sit = [j \in 1..2 |-> [t \in Segments |-> d.sit[j][t]]]
    BY DEF F2fsVolume
  <2>4. e.sit = [j \in 1..2 |-> [t \in Segments |-> IF j = k /\ t = s THEN m.sit[j][t] ELSE d.sit[j][t]]]
    <3>1. [d.sit[k] EXCEPT ![s] = m.sit[k][s]] = [t \in Segments |-> IF t = s THEN m.sit[k][t] ELSE d.sit[k][t]]
      BY <2>3
    <3> QED BY <2>2, <2>3, <3>1
  <2>5. F2fsVolume(e)
    <3>1. \A j \in 1..2 : \A t \in Segments : e.sit[j][t] \in F2fsEntries(t)
      BY <1>2, <2>4 DEF F2fsVolume
    <3>2. e.sit = [j \in 1..2 |-> [t \in Segments |-> e.sit[j][t]]]
      BY <2>4
    <3> QED BY <2>2, <3>1, <3>2 DEF F2fsVolume
  <2>6. d.sit = m.sit => e.sit = m.sit
    BY <2>3, <2>4
  <2>7. \A t \in Segments : d.sit[q.copy[t]][t] = m.sit[q.copy[t]][t] => e.sit[q.copy[t]][t] = m.sit[q.copy[t]][t]
    <3> TAKE t \in Segments
    <3> DEFINE x == q.copy[t]
    <3>1. x \in 1..2
      BY <1>1, <1>2 DEF F2fsVolume, F2fsIsPack
    <3> HIDE DEF x, q
    <3>2. d.sit[x][t] = m.sit[x][t] => e.sit[x][t] = m.sit[x][t]
      BY <2>4, <3>1
    <3> QED BY <3>2 DEF x
  <2>8. F2fsBehind(e, m, c)
    BY <2>2, <2>6, <2>7 DEF F2fsBehind
  <2> QED BY <2>2, <2>5, <2>8 DEF F2fsSame
<1>4. CASE e \in WriteBack(d, m, {"node"})
  <2>1. /\ DOMAIN e = DOMAIN d /\ e.pack = d.pack /\ e.sit = d.sit /\ e.agree = d.agree /\ e.blocks = d.blocks
        /\ e.unknown = d.unknown
    BY <1>4 DEF WriteBack, F2fsVolume
  <2> QED BY <2>1 DEF F2fsVolume, F2fsBehind, F2fsSame
<1>5. ASSUME NEW k \in 1..2, NEW p, e = [d EXCEPT !.pack[k] = p], d.sit = m.sit, F2fsIsPack(p),
             k = 3 - c => p = q, k = c => p = m.pack[c] \/ (d.pack[c] # m.pack[c] /\ p.footer = d.pack[c].footer)
      PROVE  F2fsVolume(e) /\ F2fsBehind(e, m, c) /\ F2fsSame(e, m)
  <2>1. /\ DOMAIN e = DOMAIN d /\ e.pack = [d.pack EXCEPT ![k] = p] /\ e.sit = d.sit /\ e.agree = d.agree
        /\ e.blocks = d.blocks /\ e.unknown = d.unknown
    BY <1>5 DEF F2fsVolume
  <2>2. DOMAIN e.pack = 1..2 /\ e.pack[k] = p /\ \A j \in 1..2 : j # k => e.pack[j] = d.pack[j]
    BY <2>1 DEF F2fsVolume
  <2>3. F2fsVolume(e)
    <3>1. \A j \in 1..2 : F2fsIsPack(e.pack[j])
      BY <1>5, <2>2 DEF F2fsVolume
    <3> QED BY <2>1, <2>2, <3>1 DEF F2fsVolume
  <2>4. e.pack[3 - c] = q
    BY <1>1, <1>2, <1>5, <2>2
  <2>5. F2fsBehind(e, m, c)
    <3>1. CASE k = c /\ p = m.pack[c]
      BY <1>5, <2>1, <2>2, <2>4, <3>1 DEF F2fsBehind
    <3>2. CASE k = c /\ d.pack[c] # m.pack[c] /\ p.footer = d.pack[c].footer
      BY <1>5, <2>1, <2>2, <2>4, <3>2 DEF F2fsBehind
    <3>3. CASE k = 3 - c
      <4>1. e.pack[c] = d.pack[c]
        BY <1>1, <2>2, <3>3
      <4> QED BY <2>1, <2>4, <4>1 DEF F2fsBehind
    <3> QED BY <1>1, <1>5, <3>1, <3>2, <3>3
  <2> QED BY <2>1, <2>3, <2>5 DEF F2fsSame
<1>6. CASE \E k \in IF d.sit = m.sit THEN 1..2 ELSE {} : e = [d EXCEPT !.pack[k] = [m.pack[k] EXCEPT !.footer = d.pack[k].footer]]
  <2>1. PICK k \in 1..2 : d.sit = m.sit /\ e = [d EXCEPT !.pack[k] = [m.pack[k] EXCEPT !.footer = d.pack[k].footer]]
    BY <1>6
  <2> DEFINE p == [m.pack[k] EXCEPT !.footer = d.pack[k].footer]
  <2>2. F2fsIsPack(m.pack[k]) /\ d.pack[k].footer \in Nat
    BY <1>2 DEF F2fsVolume, F2fsIsPack
  <2>3. F2fsIsPack(p) /\ p.footer = d.pack[k].footer
    BY <2>2 DEF F2fsIsPack
  <2>4. d.pack[k] = m.pack[k] => p = m.pack[k]
    BY <2>2 DEF F2fsIsPack
  <2>5. e = [d EXCEPT !.pack[k] = p]
    BY <2>1
  <2> HIDE DEF p
  <2>6. k = 3 - c => p = q
    BY <1>2, <2>4
  <2> QED BY <1>5, <2>1, <2>3, <2>4, <2>5, <2>6
<1>7. CASE \E k \in {j \in 1..2 : d.sit = m.sit /\ d.pack[j].header = m.pack[j].header} : e = [d EXCEPT !.pack[k] = m.pack[k]]
  <2>1. PICK k \in 1..2 : d.sit = m.sit /\ e = [d EXCEPT !.pack[k] = m.pack[k]]
    BY <1>7
  <2>2. F2fsIsPack(m.pack[k])
    BY <1>2 DEF F2fsVolume
  <2> QED BY <1>5, <2>1, <2>2
<1> QED BY <1>3, <1>4, <1>6, <1>7 DEF F2fsFlushed

\* What is on the disk is sound, without one entry of the table, too.
LEMMA F2fsDamages ==
  ASSUME NEW d, NEW c, F2fsMade(d, c), NEW e \in F2fsDamaged(d)
  PROVE  F2fsVolume(e) /\ F2fsSound(e) /\ F2fsSame(d, e)
<1>1. PICK k \in 1..2, s \in Segments : e = [d EXCEPT !.sit[k][s] = Entry({})]
  BY DEF F2fsDamaged
<1>2. F2fsVolume(d)
  BY DEF F2fsMade
<1>3. /\ DOMAIN e = DOMAIN d /\ e.pack = d.pack /\ e.agree = d.agree /\ e.blocks = d.blocks /\ e.unknown = d.unknown
      /\ e.sit = [d.sit EXCEPT ![k] = [d.sit[k] EXCEPT ![s] = Entry({})]]
  BY <1>1, <1>2 DEF F2fsVolume
<1>4. d.sit = [j \in 1..2 |-> [t \in Segments |-> d.sit[j][t]]]
  BY <1>2 DEF F2fsVolume
<1>5. e.sit = [j \in 1..2 |-> [t \in Segments |-> IF j = k /\ t = s THEN Entry({}) ELSE d.sit[j][t]]]
  <2>1. [d.sit[k] EXCEPT ![s] = Entry({})] = [t \in Segments |-> IF t = s THEN Entry({}) ELSE d.sit[k][t]]
    BY <1>4
  <2> QED BY <1>3, <1>4, <2>1
<1>6. F2fsVolume(e)
  <2>1. \A t \in Segments : Entry({}) \in F2fsEntries(t)
    BY DEF F2fsEntries
  <2>2. \A j \in 1..2 : \A t \in Segments : e.sit[j][t] \in F2fsEntries(t)
    BY <1>2, <1>5, <2>1 DEF F2fsVolume
  <2>3. e.sit = [j \in 1..2 |-> [t \in Segments |-> e.sit[j][t]]]
    BY <1>5
  <2> QED BY <1>2, <1>3, <2>2, <2>3 DEF F2fsVolume
<1>7. F2fsNewest(e, c)
  BY <1>3, F2fsMadeIs DEF F2fsNewest, ValidPacks
<1>8. F2fsLegible(e, e.pack[c])
  <2> SUFFICES ASSUME NEW t \in Segments
               PROVE  SitEntry(e, d.pack[c], t) \in {SitEntry(d, d.pack[c], t), Entry({})}
    BY <1>3 DEF F2fsLegible, F2fsMade, F2fsCovers
  <2>1. d.pack[c].copy[t] \in 1..2
    BY DEF F2fsMade, F2fsVolume, F2fsIsPack
  <2> QED BY <1>5, <2>1 DEF SitEntry
<1> QED BY <1>3, <1>6, <1>7, <1>8 DEF F2fsSound, F2fsSame

\* Whatever is on it, and however it was left: of a volume in use the disk lacks some
\* of the last checkpoint at most; of one that is not, it lacks nothing and says so,
\* until a driver loses it or an entry of its table reads as zeros.
F2fsInv ==
  kind = "f2fs" =>
    /\ F2fsVolume(disk) /\ F2fsSame(disk, mem)
    /\ whole => \E c \in 1..2 : /\ F2fsMade(mem, c) /\ F2fsBehind(disk, mem, c)
                                /\ phase # "mounted" => mem.pack[c].umount
    /\ ~whole => F2fsSound(disk)
    /\ whole /\ phase # "mounted" => mem.node = NoNode
    /\ known => disk.agree /\ ~disk.unknown /\ disk.blocks <= Size /\ (whole => F2fsUnfailed(mem))

\* Volumes are made so.
LEMMA F2fsBegins == ASSUME InitVolume PROVE F2fsInv
<1> SUFFICES ASSUME kind = "f2fs" PROVE F2fsInv
  BY DEF F2fsInv
<1>1. disk \in F2fsFresh /\ mem = disk /\ phase = "idle" /\ whole = TRUE
  BY DEF InitVolume, Fresh
<1> DEFINE one == [NoBlocks EXCEPT ![0] = Entry({F2fsMain})]
           first == F2fsPack(1, TRUE, [s \in Segments |-> 1], <<>>, {F2fsMain})
           end == F2fsMain + 2 * F2fsSegments
           make(agree, blocks, unknown, error) ==
             [pack |-> <<[first EXCEPT !.error = error], NoPack>>,
              sit |-> <<one, NoBlocks>>, node |-> NoNode, agree |-> agree, blocks |-> blocks, unknown |-> unknown]
<1>2. \E agree \in BOOLEAN, blocks \in {end, Size + 1}, unknown \in BOOLEAN, error \in BOOLEAN :
        disk = make(agree, blocks, unknown, error)
  <2>1. F2fsFresh = {make(TRUE, end, FALSE, FALSE), make(FALSE, end, FALSE, FALSE), make(TRUE, Size + 1, FALSE, FALSE),
                     make(TRUE, end, TRUE, FALSE), make(TRUE, end, FALSE, TRUE)}
    BY DEF F2fsFresh
  <2> HIDE DEF make
  <2> QED BY <1>1, <2>1
<1>3. PICK agree \in BOOLEAN, blocks \in {end, Size + 1}, unknown \in BOOLEAN, error \in BOOLEAN :
        disk = make(agree, blocks, unknown, error)
  BY <1>2
<1> DEFINE p == [first EXCEPT !.error = error]
<1>4. /\ DOMAIN disk = {"pack", "sit", "node", "agree", "blocks", "unknown"}
      /\ disk.pack = <<p, NoPack>> /\ disk.sit = <<one, NoBlocks>> /\ disk.node = NoNode
      /\ disk.agree = agree /\ disk.blocks = blocks /\ disk.unknown = unknown
  <2> HIDE DEF p, one
  <2>1. disk = [pack |-> <<p, NoPack>>, sit |-> <<one, NoBlocks>>, node |-> NoNode, agree |-> agree, blocks |-> blocks,
                unknown |-> unknown]
    BY <1>3 DEF p, one
  <2> QED BY <2>1
<1>5. /\ first.header = 1 /\ first.footer = 1 /\ first.umount = TRUE /\ first.error = FALSE
      /\ first.copy = [s \in Segments |-> 1] /\ first.journal = <<>> /\ first.valid = Cardinality({F2fsMain}) /\ first.held = {F2fsMain}
      /\ first = [header |-> first.header, footer |-> first.footer, umount |-> first.umount, error |-> first.error,
                  copy |-> first.copy, journal |-> first.journal, valid |-> first.valid, held |-> first.held, full |-> first.full]
  BY DEF F2fsPack
<1>6. /\ NoPack.header = 0 /\ NoPack.footer = 0 /\ NoPack.umount = FALSE /\ NoPack.error = FALSE
      /\ NoPack.copy = [s \in Segments |-> 1] /\ NoPack.journal = <<>> /\ NoPack.valid = Cardinality({}) /\ NoPack.held = {}
      /\ NoPack = [header |-> NoPack.header, footer |-> NoPack.footer, umount |-> NoPack.umount, error |-> NoPack.error,
                   copy |-> NoPack.copy, journal |-> NoPack.journal, valid |-> NoPack.valid, held |-> NoPack.held, full |-> NoPack.full]
  BY DEF NoPack, F2fsPack
<1> HIDE DEF first
<1>7. /\ p.header = 1 /\ p.footer = 1 /\ p.umount = TRUE /\ p.error = error
      /\ p.copy = [s \in Segments |-> 1] /\ p.journal = <<>> /\ p.valid = Cardinality({F2fsMain}) /\ p.held = {F2fsMain}
      /\ p = [header |-> p.header, footer |-> p.footer, umount |-> p.umount, error |-> p.error,
              copy |-> p.copy, journal |-> p.journal, valid |-> p.valid, held |-> p.held, full |-> p.full]
  BY <1>5
<1> HIDE DEF p
<1>8. DOMAIN <<>> = {}
  OBVIOUS
<1>9. F2fsMain \in SegmentCells(0) /\ 0 \in Segments /\ F2fsMain \in F2fsArea
  <2>1. F2fsMain \in SegmentCells(0) /\ 0 \in Segments
    BY F2fsParts, F2fsAssumption
  <2> QED BY <2>1 DEF F2fsArea
<1>10. F2fsIsPack(p) /\ F2fsIsPack(NoPack)
  <2>1. F2fsIsPack(p)
    BY <1>7, <1>8, <1>9 DEF F2fsIsPack
  <2>2. F2fsIsPack(NoPack)
    <3> DEFINE q == NoPack
    <3>1. /\ q.header = 0 /\ q.footer = 0 /\ q.copy = [s \in Segments |-> 1] /\ q.journal = <<>>
          /\ q.valid = Cardinality({}) /\ q.held = {}
      BY <1>6
    <3>2. q.umount = FALSE /\ q.error = FALSE
      BY <1>6
    <3>3. q = [header |-> q.header, footer |-> q.footer, umount |-> q.umount, error |-> q.error,
               copy |-> q.copy, journal |-> q.journal, valid |-> q.valid, held |-> q.held, full |-> q.full]
      BY <1>6
    <3> HIDE DEF q
    <3>4. q.umount \in BOOLEAN /\ q.error \in BOOLEAN
      BY <3>2
    <3>5. F2fsIsPack(q)
      BY <1>8, <3>1, <3>3, <3>4 DEF F2fsIsPack
    <3> QED BY <3>5 DEF q
  <2> QED BY <2>1, <2>2
<1>11. /\ \A s \in Segments : NoBlocks[s] = Entry({}) /\ one[s] = Entry({F2fsMain} \cap SegmentCells(s))
       /\ NoBlocks = [s \in Segments |-> NoBlocks[s]] /\ one = [s \in Segments |-> one[s]]
  <2>1. \A s \in Segments : s # 0 => {F2fsMain} \cap SegmentCells(s) = {}
    BY <1>9, F2fsParts
  <2>2. {F2fsMain} \cap SegmentCells(0) = {F2fsMain}
    BY <1>9
  <2>3. \A s \in Segments : NoBlocks[s] = Entry({}) /\ one[s] = IF s = 0 THEN Entry({F2fsMain}) ELSE Entry({})
    BY <1>9 DEF NoBlocks
  <2>4. NoBlocks = [s \in Segments |-> NoBlocks[s]] /\ one = [s \in Segments |-> one[s]]
    BY DEF NoBlocks
  <2> QED BY <2>1, <2>2, <2>3, <2>4
<1> HIDE DEF one
<1>12. /\ disk.sit[1] = one /\ disk.sit[2] = NoBlocks /\ DOMAIN disk.pack = 1..2 /\ disk.pack[1] = p /\ disk.pack[2] = NoPack
       /\ disk.sit = [k \in 1..2 |-> disk.sit[k]]
  BY <1>4
<1>13. F2fsVolume(disk)
  <2>1. \A k \in 1..2 : disk.sit[k] = [s \in Segments |-> disk.sit[k][s]]
    BY <1>11, <1>12
  <2>2. disk.sit = [k \in 1..2 |-> [s \in Segments |-> disk.sit[k][s]]]
    BY <1>12, <2>1
  <2>3. \A k \in 1..2 : \A s \in Segments : disk.sit[k][s] \in F2fsEntries(s)
    <3>1. \A s \in Segments : \A b : b \subseteq SegmentCells(s) => Entry(b) \in F2fsEntries(s)
      BY DEF F2fsEntries
    <3>2. \A s \in Segments : NoBlocks[s] \in F2fsEntries(s) /\ one[s] \in F2fsEntries(s)
      BY <1>11, <3>1
    <3> QED BY <1>12, <3>2
  <2>4. \A k \in 1..2 : F2fsIsPack(disk.pack[k])
    BY <1>10, <1>12
  <2> QED BY <1>4, <1>12, <2>2, <2>3, <2>4 DEF F2fsVolume
<1>14. F2fsMade(disk, 1)
  <2>1. F2fsCovers(disk, p)
    <3> SUFFICES ASSUME NEW s \in Segments
                 PROVE  SitEntry(disk, p, s) = Entry({F2fsMain} \cap SegmentCells(s))
      BY <1>7 DEF F2fsCovers
    <3>1. s \notin DOMAIN p.journal /\ p.copy[s] = 1
      BY <1>7, <1>8
    <3>2. SitEntry(disk, p, s) = one[s]
      BY <1>12, <3>1 DEF SitEntry
    <3> QED BY <1>11, <3>2
  <2>2. 3 - 1 = 2
    OBVIOUS
  <2> QED BY <1>6, <1>7, <1>12, <1>13, <2>1, <2>2 DEF F2fsMade
<1>15. F2fsBehind(disk, disk, 1)
  BY DEF F2fsBehind
<1>16. known => disk.agree /\ ~disk.unknown /\ disk.blocks <= Size /\ F2fsUnfailed(disk)
  <2> HAVE known
  <2>1. Read(kind, disk, Copy).ok
    BY DEF InitVolume, Partition, PartitionOf, InFull
  <2>2. F2fsRead(disk, Copy).ok
    BY <2>1 DEF Read
  <2>3. Superblocks(disk) /\ F2fsLayout(disk) /\ ~CurrentPack(disk).error
    BY <2>2, F2fsReads
  <2>4. CurrentPack(disk) = p
    BY <1>12, <1>14, F2fsMadeIs
  <2>5. F2fsUnfailed(disk)
    BY <1>6, <1>12, <2>3, <2>4 DEF F2fsUnfailed
  <2> QED BY <2>3, <2>5 DEF Superblocks, F2fsLayout
<1> QED BY <1>1, <1>4, <1>7, <1>12, <1>13, <1>14, <1>15, <1>16 DEF F2fsInv, F2fsSame

\* And stay so.
LEMMA F2fsGoesOn == ASSUME F2fsInv, Lifecycle, NextVolume PROVE F2fsInv'
<1> SUFFICES ASSUME kind = "f2fs" PROVE F2fsInv'
  BY LifeSteps DEF F2fsInv
<1>1. /\ F2fsVolume(disk) /\ F2fsSame(disk, mem)
      /\ whole => \E c \in 1..2 : /\ F2fsMade(mem, c) /\ F2fsBehind(disk, mem, c)
                                  /\ phase # "mounted" => mem.pack[c].umount
      /\ ~whole => F2fsSound(disk)
      /\ whole /\ phase # "mounted" => mem.node = NoNode
      /\ known => disk.agree /\ ~disk.unknown /\ disk.blocks <= Size /\ (whole => F2fsUnfailed(mem))
  BY DEF F2fsInv
<1>2. /\ Mounted(kind, disk) = disk /\ Unmounted(kind, mem) = F2fsUnmounted(mem)
      /\ Changes(kind, mem) = F2fsChanges(mem) /\ Flushed(kind, disk, mem) = F2fsFlushed(disk, mem)
      /\ Damages(kind, disk) = F2fsDamaged(disk)
  BY DEF Mounted, Unmounted, Changes, Flushed, Damages, F2fsMounted
<1>3. \A d, e, f : F2fsSame(d, d) /\ (F2fsSame(d, e) => F2fsSame(e, d)) /\ (F2fsSame(d, e) /\ F2fsSame(e, f) => F2fsSame(d, f))
  BY DEF F2fsSame
<1>4. /\ phase \in {"idle", "mounted", "closing"} /\ (phase = "idle" => mem = disk)
      /\ phase # "idle" => whole
  BY DEF Lifecycle
<1>5. kind' = kind /\ known' = known
  BY LifeSteps
<1>6. /\ F2fsVolume(disk') /\ F2fsSame(disk, disk') /\ F2fsSame(disk', mem')
      /\ whole' => \E c \in 1..2 : /\ F2fsMade(mem', c) /\ F2fsBehind(disk', mem', c)
                                   /\ phase' # "mounted" => mem'.pack[c].umount
      /\ ~whole' => F2fsSound(disk')
      /\ whole' /\ phase' # "mounted" => mem'.node = NoNode
      /\ known /\ whole' => F2fsUnfailed(mem')
  <2>1. CASE disk' = disk /\ mem' = Mounted(kind, disk) /\ phase = "idle" /\ phase' = "mounted" /\ whole /\ whole' = whole
    BY <1>1, <1>2, <1>3, <1>4, <2>1
  <2>2. CASE disk' = disk /\ mem' \in Changes(kind, mem) /\ phase = "mounted" /\ phase' = phase /\ whole' = whole
    <3>1. disk = mem
      <4>1. CASE Edit
        BY <4>1 DEF Edit, MayChange
      <4>2. CASE ~Edit
        BY <2>2, <4>2 DEF NextVolume, Mount, Flush, Unmount, Eject, Unplug, Damage
      <4> QED BY <4>1, <4>2
    <3>2. PICK c \in 1..2 : F2fsMade(mem, c)
      BY <1>1, <1>4, <2>2
    <3>3. mem' \in F2fsChanges(mem)
      BY <1>2, <2>2
    <3>4. PICK b \in 1..2 : F2fsMade(mem', b) /\ F2fsBehind(mem, mem', b) /\ F2fsSame(mem, mem') /\ (F2fsUnfailed(mem) => F2fsUnfailed(mem'))
      BY <3>2, <3>3, F2fsWrites
    <3> QED BY <1>1, <1>3, <1>4, <2>2, <3>1, <3>4
  <2>3. CASE mem' = mem /\ disk' \in Flushed(kind, disk, mem) /\ phase # "idle" /\ phase' = phase /\ whole' = whole
    <3>1. PICK c \in 1..2 : F2fsMade(mem, c) /\ F2fsBehind(disk, mem, c) /\ (phase # "mounted" => mem.pack[c].umount)
      BY <1>1, <1>4, <2>3
    <3>2. disk' \in F2fsFlushed(disk, mem)
      BY <1>2, <2>3
    <3>3. F2fsVolume(disk') /\ F2fsBehind(disk', mem, c) /\ F2fsSame(disk', mem)
      BY <1>1, <3>1, <3>2, F2fsFlushes
    <3> QED BY <1>1, <1>3, <1>4, <2>3, <3>1, <3>3
  <2>4. CASE disk' = disk /\ disk = mem /\ mem' = Unmounted(kind, mem) /\ phase = "mounted" /\ phase' = "closing" /\ whole' = whole
    <3>1. PICK c \in 1..2 : F2fsMade(mem, c)
      BY <1>1, <1>4, <2>4
    <3>2. mem' = F2fsUnmounted(mem)
      BY <1>2, <2>4
    <3>3. /\ F2fsMade(mem', 3 - c) /\ F2fsBehind(mem, mem', 3 - c) /\ F2fsSame(mem, mem')
          /\ mem'.node = NoNode /\ mem'.pack[3 - c].umount /\ (F2fsUnfailed(mem) => F2fsUnfailed(mem'))
      BY <3>1, <3>2, F2fsCloses
    <3>4. 3 - c \in 1..2
      OBVIOUS
    <3> QED BY <1>1, <1>3, <1>4, <2>4, <3>3, <3>4
  <2>5. CASE disk' = disk /\ disk = mem /\ mem' = mem /\ phase = "closing" /\ phase' = "idle" /\ whole' = whole
    BY <1>1, <1>3, <1>4, <2>5
  <2>6. CASE disk' = disk /\ mem' = disk /\ phase # "idle" /\ phase' = "idle" /\ whole' = FALSE
    <3>1. F2fsSound(disk)
      BY <1>1, <1>4, <2>6, F2fsBehindIsSound
    <3> QED BY <1>1, <1>3, <2>6, <3>1
  <2>7. CASE disk' \in Damages(kind, disk) /\ mem' = disk' /\ phase = "idle" /\ phase' = "idle" /\ whole /\ whole' = FALSE
    <3>1. PICK c \in 1..2 : F2fsMade(disk, c)
      BY <1>1, <1>4, <2>7
    <3>2. F2fsVolume(disk') /\ F2fsSound(disk') /\ F2fsSame(disk, disk')
      BY <1>2, <2>7, <3>1, F2fsDamages
    <3> QED BY <1>3, <2>7, <3>2
  <2> QED BY <2>1, <2>2, <2>3, <2>4, <2>5, <2>6, <2>7, LifeSteps
<1>7. disk'.agree = disk.agree /\ disk'.unknown = disk.unknown /\ disk'.blocks = disk.blocks
  BY <1>6 DEF F2fsSame
<1> QED BY <1>1, <1>5, <1>6, <1>7 DEF F2fsInv

\* What is kept of one it understands, and what it understands again.
LEMMA F2fsUnderstood == ASSUME F2fsInv, Lifecycle, kind = "f2fs" PROVE
  /\ phase = "idle" /\ Read(kind, disk, Copy).ok => Keeps(Read(kind, disk, Copy), NeedOf(kind, disk))
  /\ phase = "idle" /\ whole /\ known => Read(kind, disk, Copy).ok
<1>1. Read(kind, disk, Copy) = F2fsRead(disk, Copy) /\ NeedOf(kind, disk) = F2fsNeed(disk)
  BY DEF Read, NeedOf
<1>2. phase = "idle" => F2fsVolume(disk) /\ F2fsSound(disk)
  BY F2fsBehindIsSound DEF F2fsInv
<1>3. ASSUME phase = "idle", whole, known
      PROVE  F2fsRead(disk, Copy).ok
  <2>1. PICK c \in 1..2 : F2fsMade(disk, c) /\ disk.pack[c].umount
    BY <1>3 DEF F2fsInv, Lifecycle
  <2>2. disk.node = NoNode /\ disk.agree /\ ~disk.unknown /\ disk.blocks <= Size /\ ~disk.pack[c].error
    BY <1>3, <2>1 DEF F2fsInv, Lifecycle, F2fsUnfailed
  <2>3. F2fsVolume(disk) /\ F2fsNewest(disk, c) /\ F2fsCovers(disk, disk.pack[c])
    BY <2>1, F2fsMadeIs DEF F2fsMade
  <2> QED BY <2>1, <2>2, <2>3, F2fsClean
<1>4. phase = "idle" /\ F2fsRead(disk, Copy).ok => Keeps(F2fsRead(disk, Copy), F2fsNeed(disk))
  BY <1>2, F2fsKeeps
<1> QED BY <1>1, <1>3, <1>4

(* The preview and the copy *)

\* The preview of a volume of NTFS the copy understands.
LEMMA NtfsAgrees ==
  ASSUME NEW d, NtfsRead(d, Copy).ok
  PROVE  NtfsRead(d, Estimate) = NtfsRead(d, Copy)
BY DEF NtfsRead, Result, Bad, Usage, RecordsRead, Copy, Estimate

\* The preview of a volume of ext2/3/4 the copy understands.
LEMMA ExtAgrees ==
  ASSUME NEW d, ExtRead(d, Copy).ok
  PROVE  ExtRead(d, Estimate) = ExtRead(d, Copy)
BY DEF ExtRead, Result, Bad, Usage, ExtSuper, Copy, Estimate

\* The preview of a volume of F2FS the copy understands.
LEMMA F2fsAgrees ==
  ASSUME NEW d, F2fsRead(d, Copy).ok
  PROVE  F2fsRead(d, Estimate) = F2fsRead(d, Copy)
BY DEF F2fsRead, Result, Bad, Usage, Copy, Estimate

\* The preview of a volume of HFS+ the copy understands.
LEMMA HfsAgrees ==
  ASSUME NEW d, HfsRead(d, Copy).ok
  PROVE  HfsRead(d, Estimate) = HfsRead(d, Copy)
BY DEF HfsRead, Result, Bad, Usage, Copy, Estimate

\* The preview of a volume of XFS the copy understands.
LEMMA XfsAgrees ==
  ASSUME NEW d, XfsRead(d, Copy).ok
  PROVE  XfsRead(d, Estimate) = XfsRead(d, Copy)
BY DEF XfsRead, Result, Bad, Usage, Copy, Estimate

\* The preview of a volume of btrfs the copy understands.
LEMMA BtrfsAgrees ==
  ASSUME NEW d, BtrfsRead(d, Copy).ok
  PROVE  BtrfsRead(d, Estimate) = BtrfsRead(d, Copy)
BY DEF BtrfsRead, Result, Bad, Usage, BtrfsSuper, Mirrors, Copy, Estimate

\* The preview of a volume of UDF the copy understands.
LEMMA UdfAgrees ==
  ASSUME NEW d, UdfRead(d, Copy).ok
  PROVE  UdfRead(d, Estimate) = UdfRead(d, Copy)
BY DEF UdfRead, Result, Bad, Usage, UdfClosed, UdfSpace, BitmapSpace, TableSpace, Copy, Estimate

\* The preview of a volume of APFS the copy understands.
LEMMA ApfsAgrees ==
  ASSUME NEW d, ApfsRead(d, Copy).ok
  PROVE  ApfsRead(d, Estimate) = ApfsRead(d, Copy)
BY DEF ApfsRead, Result, Bad, Usage, SpacemanSound, ChunkSound, Copy, Estimate

\* The preview of a volume of FAT is the copy.
LEMMA FatAgrees ==
  ASSUME NEW d
  PROVE  FatRead(d, Estimate) = FatRead(d, Copy)
BY DEF FatRead

\* The preview of a volume of exFAT is the copy.
LEMMA ExfatAgrees ==
  ASSUME NEW d
  PROVE  ExfatRead(d, Estimate) = ExfatRead(d, Copy)
BY DEF ExfatRead

\* The preview of a volume of ISO 9660 is the copy.
LEMMA IsoAgrees ==
  ASSUME NEW d
  PROVE  IsoRead(d, Estimate) = IsoRead(d, Copy)
BY DEF IsoRead

\* The preview of a volume of swap is the copy.
LEMMA SwapAgrees ==
  ASSUME NEW d
  PROVE  SwapRead(d, Estimate) = SwapRead(d, Copy)
BY DEF SwapRead

\* The preview of a volume of LVM is the copy.
LEMMA LvmAgrees ==
  ASSUME NEW d
  PROVE  LvmRead(d, Estimate) = LvmRead(d, Copy)
BY DEF LvmRead

\* What the copy understands of a volume, the preview understands the same.
LEMMA ReadAgrees ==
  ASSUME kind \in FileSystems, Read(kind, disk, Copy).ok
  PROVE  Read(kind, disk, Estimate) = Read(kind, disk, Copy)
<1>1. CASE kind = "vfat"
  BY <1>1, FatAgrees DEF Read
<1>2. CASE kind = "exfat"
  BY <1>2, ExfatAgrees DEF Read
<1>3. CASE kind = "ntfs"
  BY <1>3, NtfsAgrees DEF Read
<1>4. CASE kind = "iso9660"
  BY <1>4, IsoAgrees DEF Read
<1>5. CASE kind = "swap"
  BY <1>5, SwapAgrees DEF Read
<1>6. CASE kind = "ext"
  BY <1>6, ExtAgrees DEF Read
<1>7. CASE kind = "f2fs"
  BY <1>7, F2fsAgrees DEF Read
<1>8. CASE kind = "hfsplus"
  BY <1>8, HfsAgrees DEF Read
<1>9. CASE kind = "xfs"
  BY <1>9, XfsAgrees DEF Read
<1>10. CASE kind = "btrfs"
  BY <1>10, BtrfsAgrees DEF Read
<1>11. CASE kind = "udf"
  BY <1>11, UdfAgrees DEF Read
<1>12. CASE kind = "apfs"
  BY <1>12, ApfsAgrees DEF Read
<1>13. CASE kind = "lvm"
  BY <1>13, LvmAgrees DEF Read
<1> QED
  BY <1>1, <1>2, <1>3, <1>4, <1>5, <1>6, <1>7, <1>8, <1>9, <1>10, <1>11, <1>12, <1>13 DEF FileSystems

\* What a partition shows does not by itself have it copied in full.
Decided ==
  ~(\/ leftover \in {"unreadable", "far", "raid", "other"}
    \/ Cardinality(Strong) > 1
    \/ leftover = "strong" /\ kind \in Weak)

\* What the analysis of a partition (smart/mod.rs partition) takes from its reader.
LEMMA PartitionIs ==
  ASSUME NEW mode
  PROVE  /\ Partition(mode).understood <=> Decided /\ Read(kind, disk, mode).ok
         /\ ~Partition(mode).understood => Partition(mode) = InFull
BY DEF Partition, PartitionOf, Decided, InFull

\* The file systems that UnderstoodIsEnough is proved for, and CleanIsUnderstood.
KeptInFull == {"vfat", "exfat", "ntfs", "iso9660", "swap", "btrfs", "udf", "apfs", "f2fs"}
UnderstoodAgain == {"vfat", "exfat", "ntfs", "iso9660", "udf", "apfs", "f2fs"}

\* The invariant of a volume of any of these.
VolumeInv ==
  /\ Lifecycle /\ (known => Decided)
  /\ FatInv /\ ExfatInv /\ NtfsInv /\ IsoInv /\ SwapInv /\ BtrfsInv /\ UdfInv /\ ApfsInv /\ F2fsInv

\* It holds of every volume that is made and of all that happens to it.
LEMMA VolumeHolds == SpecVolume => []VolumeInv
<1>1. InitVolume => VolumeInv
  <2> SUFFICES ASSUME InitVolume PROVE VolumeInv
    OBVIOUS
  <2>1. Lifecycle
    BY KindsAssumption DEF InitVolume, Lifecycle
  <2>2. known => Decided
    BY PartitionIs DEF InitVolume
  <2> QED BY <2>1, <2>2, FatBegins, ExfatBegins, NtfsBegins, IsoBegins, SwapBegins, BtrfsBegins, UdfBegins, ApfsBegins, F2fsBegins
          DEF VolumeInv
<1>2. VolumeInv /\ [NextVolume]_volumeVars => VolumeInv'
  <2> SUFFICES ASSUME VolumeInv, [NextVolume]_volumeVars
               PROVE  VolumeInv'
    OBVIOUS
  <2>1. CASE UNCHANGED volumeVars
    <3>1. Lifecycle' /\ (known' => Decided')
      BY <2>1 DEF volumeVars, VolumeInv, Lifecycle, Decided, Strong
    <3>2. FatInv' /\ ExfatInv' /\ NtfsInv' /\ IsoInv'
      BY <2>1 DEF volumeVars, VolumeInv, FatInv, ExfatInv, NtfsInv, IsoInv
    <3>3. SwapInv' /\ BtrfsInv' /\ UdfInv' /\ ApfsInv' /\ F2fsInv'
      BY <2>1 DEF volumeVars, VolumeInv, SwapInv, BtrfsInv, UdfInv, ApfsInv, F2fsInv
    <3> QED BY <3>1, <3>2, <3>3 DEF VolumeInv
  <2>2. CASE NextVolume
    <3>1. Lifecycle'
      BY <2>2 DEF VolumeInv, Lifecycle, NextVolume, Mount, Edit, Flush, Unmount, Eject, Unplug, Damage
    <3>2. known' => Decided'
      BY <2>2, LifeSteps DEF VolumeInv, Decided, Strong
    <3> QED BY <2>2, <3>1, <3>2, FatGoesOn, ExfatGoesOn, NtfsGoesOn, IsoGoesOn, SwapGoesOn, BtrfsGoesOn, UdfGoesOn, ApfsGoesOn, F2fsGoesOn
            DEF VolumeInv
  <2> QED BY <2>1, <2>2
<1> QED BY <1>1, <1>2, PTL DEF SpecVolume

\* Of these file systems, a smart image leaves nothing out that a system which mounts
\* the restored partition depends on: whatever drivers wrote, in whatever order a
\* volume that was pulled out has got it, and whichever copy of it was damaged.
THEOREM EnoughHolds == SpecVolume => [](kind \in KeptInFull => UnderstoodIsEnough)
<1>1. VolumeInv => (kind \in KeptInFull => UnderstoodIsEnough)
  <2> SUFFICES ASSUME VolumeInv, kind \in KeptInFull
               PROVE  UnderstoodIsEnough
    OBVIOUS
  <2>1. phase = "idle" /\ Read(kind, disk, Copy).ok => Keeps(Read(kind, disk, Copy), NeedOf(kind, disk))
    <3>1. CASE kind \in {"vfat", "exfat", "ntfs"}
      BY <3>1, FatUnderstood, ExfatUnderstood, NtfsUnderstood DEF VolumeInv
    <3>2. CASE kind \in {"iso9660", "swap", "btrfs", "udf", "apfs", "f2fs"}
      BY <3>2, IsoUnderstood, SwapUnderstood, BtrfsUnderstood, UdfUnderstood, ApfsUnderstood, F2fsUnderstood DEF VolumeInv
    <3> QED BY <3>1, <3>2 DEF KeptInFull
  <2>2. Lifecycle
    BY DEF VolumeInv
  <2> QED BY <2>1, <2>2, KeepsIsEnough
<1> QED BY <1>1, VolumeHolds, PTL

\* Of these, a volume that was understood when it was made is understood whenever it
\* was unmounted: what a reader asks for (closed, not marked, counts that agree) is
\* what its drivers leave.
THEOREM CleanHolds == SpecVolume => [](kind \in UnderstoodAgain => CleanIsUnderstood)
<1>1. VolumeInv => (kind \in UnderstoodAgain => CleanIsUnderstood)
  <2> SUFFICES ASSUME VolumeInv, kind \in UnderstoodAgain, phase = "idle", whole, known
               PROVE  Partition(Copy).understood
    BY DEF CleanIsUnderstood, Suspended
  <2>1. Read(kind, disk, Copy).ok
    <3>1. CASE kind \in {"vfat", "exfat", "ntfs"}
      BY <3>1, FatUnderstood, ExfatUnderstood, NtfsUnderstood DEF VolumeInv
    <3>2. CASE kind \in {"iso9660", "udf", "apfs", "f2fs"}
      BY <3>2, IsoUnderstood, UdfUnderstood, ApfsUnderstood, F2fsUnderstood DEF VolumeInv
    <3> QED BY <3>1, <3>2 DEF UnderstoodAgain
  <2>2. Decided
    BY DEF VolumeInv
  <2> QED BY <2>1, <2>2, PartitionIs
<1> QED BY <1>1, VolumeHolds, PTL
(* The preview of a volume in use, and the copy made once it is unmounted *)

\* The mark that a volume of FAT is in use is not read.
LEMMA FatForetold == ASSUME NEW d, FatVolume(d) PROVE FatRead(FatUnmounted(d), Copy) = FatRead(d, Estimate)
<1> DEFINE e == FatUnmounted(d)
<1>1. e.bpb = d.bpb /\ e.fat = d.fat
  BY DEF FatUnmounted, FatVolume
<1> HIDE DEF e
<1>2. \A n : FatInUse(e, n) <=> FatInUse(d, n)
  BY <1>1 DEF FatInUse
<1>3. {n \in FatNumbers(e.bpb) : FatInUse(e, n)} = {n \in FatNumbers(d.bpb) : FatInUse(d, n)}
  BY <1>1, <1>2
<1>4. FatRead(e, Copy) = FatRead(d, Estimate)
  BY <1>1, <1>3 DEF FatRead
<1> QED BY <1>4 DEF e

\* Nor that of one of exFAT.
LEMMA ExfatForetold == ASSUME NEW d, ExfatVolume(d) PROVE ExfatRead(ExfatUnmounted(d), Copy) = ExfatRead(d, Estimate)
<1> DEFINE e == ExfatUnmounted(d)
<1>1. /\ e.active = d.active /\ e.volume = d.volume /\ e.checksum = d.checksum /\ e.bitmap = d.bitmap
      /\ e.fat = d.fat /\ e.entry = d.entry
  BY DEF ExfatUnmounted, ExfatVolume
<1> HIDE DEF e
<1>2. ExfatEntries(e) = ExfatEntries(d)
  BY <1>1 DEF ExfatEntries
<1>3. \A x : Claimed(e, x) = Claimed(d, x)
  BY <1>1 DEF Claimed
<1>4. {Claimed(e, e.entry[n]) : n \in ExfatEntries(e)} = {Claimed(d, d.entry[n]) : n \in ExfatEntries(d)}
  BY <1>1, <1>2, <1>3
<1>5. SystemFile(e, 2, 2) = SystemFile(d, 2, 2)
  BY <1>1 DEF SystemFile
<1>6. ExfatRead(e, Copy) = ExfatRead(d, Estimate)
  BY <1>1, <1>4, <1>5 DEF ExfatRead
<1> QED BY <1>6 DEF e

\* The log of an NTFS and its mark are not looked at.
LEMMA NtfsForetold ==
  ASSUME NEW d, NtfsShape(d), NtfsRead(NtfsUnmounted(d), Copy).ok
  PROVE  NtfsRead(NtfsUnmounted(d), Copy) = NtfsRead(d, Estimate)
<1> DEFINE e == NtfsUnmounted(d)
<1>1. e.bitmap = d.bitmap /\ e.sparse = d.sparse /\ e.torn = d.torn /\ e.sectors = d.sectors
  BY DEF NtfsUnmounted, NtfsPages, NtfsShape
<1> HIDE DEF e
<1>2. NtfsMarked(e) = NtfsMarked(d) /\ \A record : Fixup(e, record) <=> Fixup(d, record)
  BY <1>1 DEF NtfsMarked, NtfsStored, Fixup
<1>3. NtfsRead(e, Copy).ok
  BY DEF e
<1>4. NtfsRead(e, Copy) = NtfsRead(d, Estimate)
  BY <1>1, <1>2, <1>3 DEF NtfsRead, Result, Bad, Usage, RecordsRead, Copy, Estimate
<1> QED BY <1>4 DEF e

\* The superblock in block 0 is only looked at for where the checkpoints are.
LEMMA ApfsForetold ==
  ASSUME NEW d, ApfsVolume(d), ApfsRead(ApfsUnmounted(d), Copy).ok
  PROVE  ApfsRead(ApfsUnmounted(d), Copy) = ApfsRead(d, Estimate)
<1> DEFINE e == ApfsUnmounted(d)
           good(x, i) == \A j \in WholePoints(x) : x.ring[j].xid <= x.ring[i].xid
<1>1. /\ e.ring = d.ring /\ e.pool = d.pool /\ e.blocks = d.blocks /\ e.fusion = d.fusion
      /\ e.resizing = d.resizing /\ e.besides = d.besides
  BY DEF ApfsUnmounted, ApfsVolume
<1>2. ApfsRead(e, Copy).ok
  OBVIOUS
<1> HIDE DEF e
<1>3. WholePoints(e) = WholePoints(d)
  BY <1>1 DEF WholePoints
<1>4. OneLatest(e) <=> OneLatest(d)
  BY <1>1, <1>3 DEF OneLatest
<1>5. Latest(e) = Latest(d)
  <2>1. \A i : good(e, i) <=> good(d, i)
    BY <1>1, <1>3
  <2>2. (CHOOSE i \in WholePoints(e) : good(e, i)) = (CHOOSE i \in WholePoints(d) : good(d, i))
    <3> HIDE DEF good
    <3> QED BY <1>3, <2>1
  <2> QED BY <1>1, <2>2 DEF Latest
<1> DEFINE s == Latest(d)
<1> HIDE DEF s
<1>6. \A k : ChunkSet(e, s, k) = ChunkSet(d, s, k)
  BY <1>1 DEF ChunkSet
<1>7. SpacemanKept(e, s) = SpacemanKept(d, s)
  BY <1>6 DEF SpacemanKept
<1>8. SpacemanSound(e, s, Copy) => SpacemanSound(d, s, Estimate)
  BY DEF SpacemanSound, ChunkSound, Copy, Estimate
<1>9. ApfsRead(e, Copy) = ApfsRead(d, Estimate)
  BY <1>1, <1>2, <1>3, <1>4, <1>5, <1>7, <1>8 DEF ApfsRead, Result, Bad, Usage, s, Copy, Estimate
<1> QED BY <1>9 DEF e

\* Whether a UDF is closed, and how many blocks it says are free, is not looked at.
LEMMA UdfForetold ==
  ASSUME NEW d, UdfVolume(d), UdfRead(UdfUnmounted(d), Copy).ok
  PROVE  UdfRead(UdfUnmounted(d), Copy) = UdfRead(d, Estimate)
<1> DEFINE e == UdfUnmounted(d)
<1>1. /\ e.anchored = d.anchored /\ e.main = d.main /\ e.reserve = d.reserve /\ e.maps = d.maps
      /\ e.freed = d.freed /\ e.space = d.space /\ e.iso = d.iso
  BY DEF UdfUnmounted, UdfRecord, UdfVolume
<1>2. UdfRead(e, Copy).ok
  OBVIOUS
<1> HIDE DEF e
<1>3. /\ UdfFree(e) = UdfFree(d) /\ UdfRecorded(e) = UdfRecorded(d) /\ (Described(e) <=> Described(d))
  BY <1>1 DEF UdfFree, UdfRecorded, Described
<1>4. UdfSpace(e, Copy) => UdfSpace(d, Estimate)
  BY <1>1, <1>3 DEF UdfSpace, BitmapSpace, TableSpace, Copy, Estimate
<1>5. UdfClosed(d, Estimate)
  BY DEF UdfClosed, UdfVolume, Copy, Estimate
<1>6. UdfRead(e, Copy) = UdfRead(d, Estimate)
  BY <1>1, <1>2, <1>3, <1>4, <1>5 DEF UdfRead, Result, Bad, Usage
<1> QED BY <1>6 DEF e

\* The file systems that PreviewForetells is proved for while they are in use, too.
ForetoldInUse == {"vfat", "exfat", "ntfs", "iso9660", "swap", "udf", "apfs", "lvm"}

\* What is read of one of these in use is what will be read of it once it is unmounted.
LEMMA ReadForetold ==
  ASSUME VolumeInv, AtRest, phase = "idle" \/ kind \in ForetoldInUse, Read(kind, AfterUnmount, Copy).ok
  PROVE  Read(kind, disk, Estimate) = Read(kind, AfterUnmount, Copy)
<1>1. Lifecycle /\ kind \in FileSystems
  BY DEF VolumeInv, Lifecycle
<1>2. CASE AfterUnmount = disk
  BY <1>1, <1>2, ReadAgrees
<1>3. CASE phase = "mounted"
  <2>1. AfterUnmount = Unmounted(kind, disk) /\ kind \in ForetoldInUse
    BY <1>3 DEF AtRest, AfterUnmount
  <2>2. CASE kind = "vfat"
    <3>1. AfterUnmount = FatUnmounted(disk) /\ FatVolume(disk)
      BY <2>1, <2>2 DEF Unmounted, VolumeInv, FatInv
    <3> QED BY <2>2, <3>1, FatForetold DEF Read
  <2>3. CASE kind = "exfat"
    <3>1. AfterUnmount = ExfatUnmounted(disk) /\ ExfatVolume(disk)
      BY <2>1, <2>3 DEF Unmounted, VolumeInv, ExfatInv
    <3> QED BY <2>3, <3>1, ExfatForetold DEF Read
  <2>4. CASE kind = "ntfs"
    <3>1. AfterUnmount = NtfsUnmounted(disk) /\ NtfsShape(disk)
      BY <2>1, <2>4 DEF Unmounted, VolumeInv, NtfsInv
    <3> QED BY <2>4, <3>1, NtfsForetold DEF Read
  <2>5. CASE kind = "udf"
    <3>1. AfterUnmount = UdfUnmounted(disk) /\ UdfVolume(disk)
      BY <2>1, <2>5 DEF Unmounted, VolumeInv, UdfInv
    <3> QED BY <2>5, <3>1, UdfForetold DEF Read
  <2>6. CASE kind = "apfs"
    <3>1. AfterUnmount = ApfsUnmounted(disk) /\ ApfsVolume(disk)
      BY <2>1, <2>6 DEF Unmounted, VolumeInv, ApfsInv
    <3> QED BY <2>6, <3>1, ApfsForetold DEF Read
  <2>7. CASE kind \in {"iso9660", "swap", "lvm"}
    <3>1. AfterUnmount = disk
      BY <2>1, <2>7 DEF Unmounted
    <3> QED BY <1>2, <3>1
  <2> QED BY <2>1, <2>2, <2>3, <2>4, <2>5, <2>6, <2>7 DEF ForetoldInUse
<1>4. CASE phase = "idle"
  BY <1>1, <1>2, <1>4 DEF AfterUnmount, Lifecycle
<1> QED BY <1>3, <1>4 DEF AtRest

\* The preview of a volume that is not in use, of any file system and however it was left,
\* shows what the copy takes wherever the copy understands it; of these file systems, so
\* does the preview of a mounted one whose changes are written, of the copy that is made
\* once it is unmounted: what Copy asks for besides makes no difference to it.
THEOREM PreviewForetold == SpecVolume => [](phase = "idle" \/ kind \in ForetoldInUse => PreviewForetells)
<1>1. VolumeInv => (phase = "idle" \/ kind \in ForetoldInUse => PreviewForetells)
  <2> SUFFICES ASSUME VolumeInv, phase = "idle" \/ kind \in ForetoldInUse, AtRest, CopyTakes.understood
               PROVE  Partition(Estimate).understood /\ Partition(Estimate).used \cup Late = CopyTakes.used
    BY DEF PreviewForetells
  <2>1. Read(kind, AfterUnmount, Copy).ok
    BY DEF CopyTakes, PartitionOf, InFull
  <2>2. Read(kind, disk, Estimate) = Read(kind, AfterUnmount, Copy)
    BY <2>1, ReadForetold
  <2>3. Partition(Estimate) = CopyTakes
    BY <2>2 DEF Partition, CopyTakes, PartitionOf
  <2>4. Late = {}
    BY DEF Late, ForetoldInUse
  <2> QED BY <2>3, <2>4
<1> QED BY <1>1, VolumeHolds, PTL

=============================================================================
