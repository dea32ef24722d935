--------------------------- MODULE SmartCopy_proofs ---------------------------
(* Proofs about SmartCopy, for every drive, every layout found on it, every block      *)
(* size and every target: its inductive invariant IInv and the properties that follow. *)
(* First what the frames of an image hold and what writing them changes, then a lemma  *)
(* for each action, then the theorems.                                                 *)
EXTENDS SmartCopy, Extents_proofs, FiniteSetTheorems

-------------------------------------------------------------------------------
(* The frames of an image *)

\* What an image holds at a cell.
Plain(c) == IF c \in Used THEN c ELSE Zero

\* A frame isn't empty, and no bigger than a frame of its kind gets.
FrameFits(frame) == Len(frame) \in 1..IF Zero \in ToSet(frame) THEN ZerosMax ELSE DataMax

\* Where frames begin and end.
Places(frames, at, from, to) ==
  /\ at \in [0..Len(frames) -> Nat] /\ at[0] = from /\ at[Len(frames)] = to
  /\ \A i \in 1..Len(frames) : at[i] = at[i - 1] + Len(frames[i])

\* Frames hold the drive's data, zeros where it's free, from one cell to another.
PlainAt(frames, at) ==
  \A i \in 1..Len(frames) : \A j \in 1..Len(frames[i]) : frames[i][j] = Plain(at[i - 1] + j - 1)
Covers(frames, from, to) ==
  /\ frames \in Seq(Seq(Int)) /\ \A i \in DOMAIN frames : FrameFits(frames[i])
  /\ \E at : Places(frames, at, from, to) /\ PlainAt(frames, at)

\* No frames cover nothing.
LEMMA CoversNothing == \A from \in Nat : Covers(<<>>, from, from)
<1> TAKE from \in Nat
<1> DEFINE at == [i \in 0..0 |-> from]
<1>1. <<>> \in Seq(Seq(Int)) /\ DOMAIN <<>> = {} /\ Len(<<>>) = 0 /\ 1..0 = {}
  OBVIOUS
<1>2. at \in [0..0 -> Nat] /\ at[0] = from
  OBVIOUS
<1> HIDE DEF at
<1>3. Places(<<>>, at, from, from) /\ PlainAt(<<>>, at)
  BY <1>1, <1>2 DEF Places, PlainAt
<1> QED BY <1>1, <1>3 DEF Covers

\* Frames that cover two stretches one after the other cover both.
LEMMA CoversJoin ==
  ASSUME NEW f, NEW h, NEW a \in Nat, NEW b \in Nat, NEW c \in Nat,
         Covers(f, a, b), Covers(h, b, c)
  PROVE  Covers(f \o h, a, c)
<1> DEFINE n == Len(f)
           m == Len(h)
           r == f \o h
<1>1. PICK u : Places(f, u, a, b) /\ PlainAt(f, u)
  BY DEF Covers
<1>2. PICK w : Places(h, w, b, c) /\ PlainAt(h, w)
  BY DEF Covers
<1>3. /\ f \in Seq(Seq(Int)) /\ h \in Seq(Seq(Int))
      /\ n \in Nat /\ m \in Nat /\ DOMAIN f = 1..n /\ DOMAIN h = 1..m
      /\ \A i \in 1..n : f[i] \in Seq(Int) /\ Len(f[i]) \in Nat /\ FrameFits(f[i])
      /\ \A i \in 1..m : h[i] \in Seq(Int) /\ Len(h[i]) \in Nat /\ FrameFits(h[i])
  BY LenProperties, ElementOfSeq DEF Covers
<1>4. /\ r \in Seq(Seq(Int)) /\ Len(r) = n + m
      /\ \A i \in 1..n + m : r[i] = IF i <= n THEN f[i] ELSE h[i - n]
  BY <1>3, ConcatProperties
<1>5. /\ u \in [0..n -> Nat] /\ u[0] = a /\ u[n] = b
      /\ \A i \in 1..n : u[i] = u[i - 1] + Len(f[i])
      /\ \A i \in 1..n : \A j \in 1..Len(f[i]) : f[i][j] = Plain(u[i - 1] + j - 1)
  BY <1>1 DEF Places, PlainAt
<1>6. /\ w \in [0..m -> Nat] /\ w[0] = b /\ w[m] = c
      /\ \A i \in 1..m : w[i] = w[i - 1] + Len(h[i])
      /\ \A i \in 1..m : \A j \in 1..Len(h[i]) : h[i][j] = Plain(w[i - 1] + j - 1)
  BY <1>2 DEF Places, PlainAt
<1> HIDE DEF n, m, r
<1> DEFINE at == [i \in 0..n + m |-> IF i <= n THEN u[i] ELSE w[i - n]]
<1>7. /\ \A i \in 0..n : i \in 0..n + m /\ at[i] = u[i]
      /\ \A i \in 0..m : i + n \in 0..n + m /\ at[i + n] = w[i]
  <2>1. \A i \in 0..n : i \in 0..n + m /\ i <= n
    BY <1>3
  <2>2. ASSUME NEW i \in 0..m
        PROVE  i + n \in 0..n + m /\ at[i + n] = w[i]
    <3>1. i + n \in 0..n + m /\ (i + n) - n = i /\ (i = 0 \/ ~(i + n <= n)) /\ (i = 0 => i + n = n)
      BY <1>3
    <3>2. at[i + n] = IF i + n <= n THEN u[i + n] ELSE w[(i + n) - n]
      BY <3>1
    <3> HIDE DEF at
    <3> QED BY <1>3, <1>5, <1>6, <3>1, <3>2
  <2> QED BY <2>1, <2>2
<1>8. \A i \in 1..n + m : \/ i \in 1..n
                          \/ \E k \in 1..m : i = k + n
  <2> SUFFICES ASSUME NEW i \in 1..n + m, i \notin 1..n
               PROVE  \E k \in 1..m : i = k + n
    OBVIOUS
  <2>1. i - n \in 1..m /\ i = (i - n) + n
    BY <1>3
  <2> QED BY <2>1
<1>9. /\ \A i \in 1..n : r[i] = f[i]
      /\ \A k \in 1..m : r[k + n] = h[k]
  <2>1. \A i \in 1..n : i \in 1..n + m /\ i <= n
    BY <1>3
  <2>2. \A k \in 1..m : k + n \in 1..n + m /\ ~(k + n <= n) /\ (k + n) - n = k
    BY <1>3
  <2> QED BY <1>4, <2>1, <2>2
<1>10. at \in [0..n + m -> Nat]
  <2>1. \A i \in 0..n + m : \/ i \in 0..n
                            \/ \E k \in 0..m : i = k + n
    <3> SUFFICES ASSUME NEW i \in 0..n + m, i \notin 0..n
                 PROVE  \E k \in 0..m : i = k + n
      OBVIOUS
    <3>1. i - n \in 0..m /\ i = (i - n) + n
      BY <1>3
    <3> QED BY <3>1
  <2>2. ASSUME NEW i \in 0..n + m
        PROVE  at[i] \in Nat
    <3>1. CASE i \in 0..n
      <4>1. at[i] = u[i] /\ u[i] \in Nat
        BY <1>5, <1>7, <3>1
      <4> QED BY <4>1
    <3>2. ASSUME NEW k \in 0..m, i = k + n
          PROVE  at[i] \in Nat
      <4>1. at[i] = w[k] /\ w[k] \in Nat
        BY <1>6, <1>7, <3>2
      <4> QED BY <4>1
    <3> QED BY <2>1, <3>1, <3>2
  <2> QED BY <2>2
<1> HIDE DEF at
<1>11. at[0] = a /\ at[n + m] = c
  <2>1. 0 \in 0..n /\ m \in 0..m /\ m + n = n + m
    BY <1>3
  <2> QED BY <1>5, <1>6, <1>7, <2>1
<1>12. ASSUME NEW i \in 1..n + m
       PROVE  /\ at[i] = at[i - 1] + Len(r[i])
              /\ FrameFits(r[i])
              /\ \A j \in 1..Len(r[i]) : r[i][j] = Plain(at[i - 1] + j - 1)
  <2>1. CASE i \in 1..n
    <3>1. i \in 0..n /\ i - 1 \in 0..n
      BY <1>3, <2>1
    <3>2. at[i] = u[i] /\ at[i - 1] = u[i - 1] /\ r[i] = f[i]
      BY <1>7, <1>9, <2>1, <3>1
    <3> QED BY <1>3, <1>5, <2>1, <3>2
  <2>2. ASSUME NEW k \in 1..m, i = k + n
        PROVE  /\ at[i] = at[i - 1] + Len(r[i])
               /\ FrameFits(r[i])
               /\ \A j \in 1..Len(r[i]) : r[i][j] = Plain(at[i - 1] + j - 1)
    <3>1. k \in 0..m /\ k - 1 \in 0..m /\ (k - 1) + n = i - 1
      BY <1>3, <2>2
    <3>2. at[i] = w[k] /\ at[i - 1] = w[k - 1] /\ r[i] = h[k]
      BY <1>7, <1>9, <2>2, <3>1
    <3> QED BY <1>3, <1>6, <3>2
  <2> QED BY <1>8, <2>1, <2>2
<1>13. Places(r, at, a, c)
  BY <1>4, <1>10, <1>11, <1>12 DEF Places
<1>14. PlainAt(r, at)
  BY <1>4, <1>12 DEF PlainAt
<1>15. \A i \in DOMAIN r : FrameFits(r[i])
  BY <1>4, <1>12, LenProperties
<1> QED BY <1>4, <1>13, <1>14, <1>15 DEF Covers, r

\* Frames of parts that follow one another, one after the other.
LEMMA FlattenCovers ==
  ASSUME NEW ss \in Seq(Seq(Seq(Int))), NEW ends \in [0..Len(ss) -> Nat],
         \A i \in 1..Len(ss) : Covers(ss[i], ends[i - 1], ends[i])
  PROVE  Covers(FlattenSeq(ss), ends[0], ends[Len(ss)])
<1> DEFINE n == Len(ss)
<1>0. n \in Nat
  BY LenProperties
<1>1. PICK g \in [0..n -> Seq(Seq(Int))] : /\ g[0] = <<>> /\ g[n] = FlattenSeq(ss)
                                           /\ \A i \in 1..n : g[i] = g[i - 1] \o ss[i]
  BY FlattenSteps
<1>2. \A i \in 0..n : ends[i] \in Nat
  OBVIOUS
<1>3. \A i \in 1..n : Covers(ss[i], ends[i - 1], ends[i])
  OBVIOUS
<1> HIDE DEF n
<1> DEFINE T == {i \in 0..n : Covers(g[i], ends[0], ends[i])}
<1>4. 0 \in T
  <2>1. 0 \in 0..n
    BY <1>0
  <2>2. Covers(<<>>, ends[0], ends[0])
    BY <1>2, <2>1, CoversNothing
  <2> QED BY <1>1, <2>1, <2>2
<1>5. ASSUME NEW i \in 1..n, i - 1 \in T
      PROVE  i \in T
  <2>1. i \in 0..n /\ i - 1 \in 0..n /\ 0 \in 0..n
    BY <1>0
  <2>2. ends[0] \in Nat /\ ends[i - 1] \in Nat /\ ends[i] \in Nat
    BY <1>2, <2>1
  <2>3. Covers(g[i - 1], ends[0], ends[i - 1])
    BY <1>5
  <2>4. Covers(g[i - 1] \o ss[i], ends[0], ends[i])
    BY <1>3, <2>2, <2>3, CoversJoin
  <2> QED BY <1>1, <2>1, <2>4
<1>6. n \in T
  <2>1. \A i \in 0..n : i \in T
    <3> HIDE DEF T
    <3> QED BY <1>0, <1>4, <1>5, Induction
  <2>2. n \in 0..n
    BY <1>0
  <2> QED BY <2>1, <2>2
<1>7. Covers(g[n], ends[0], ends[n])
  BY <1>6
<1> QED BY <1>1, <1>7 DEF n

\* Frames of zeros cover free space.
LEMMA ZeroFramesCover ==
  ASSUME NEW from \in Nat, NEW len \in Nat, \A c \in from..from + len - 1 : c \notin Used
  PROVE  Covers(ZeroFrames(len), from, from + len)
<1> DEFINE p == ZerosPieces(len)
           n == Len(p)
           f == ZeroFrames(len)
           Frame(i) == [j \in 1..p[i] |-> Zero]
<1>0. ZerosMax \in Nat
  BY ExtentsAssumption
<1>1. Adds(p, len)
  BY ZerosPiecesFacts
<1>2. PICK g \in [0..Len(p) -> Nat] :
        g[0] = 0 /\ g[Len(p)] = len /\ \A i \in 1..Len(p) : g[i] = g[i - 1] + p[i]
  BY <1>1 DEF Adds
<1>3. n \in Nat /\ DOMAIN p = 1..n /\ \A i \in 1..n : p[i] \in 1..ZerosMax
  <2> HIDE DEF p
  <2> QED BY <1>1, LenProperties DEF Adds
<1>4. f = [i \in 1..n |-> Frame(i)]
  BY <1>3 DEF ZeroFrames
<1> HIDE DEF p, n
<1>5. \A i \in 1..n : /\ Frame(i) \in Seq(Int) /\ Len(Frame(i)) = p[i]
                      /\ \A j \in 1..p[i] : Frame(i)[j] = Zero
  <2> TAKE i \in 1..n
  <2>1. p[i] \in Nat /\ Zero \in Int
    BY <1>0, <1>3 DEF Zero
  <2>2. Frame(i) \in Seq(Int)
    BY <2>1, IsASeq
  <2>3. DOMAIN Frame(i) = 1..p[i]
    OBVIOUS
  <2>4. Len(Frame(i)) = p[i]
    <3> HIDE DEF Frame
    <3> QED BY <2>1, <2>2, <2>3, LenProperties
  <2> QED BY <2>2, <2>4
<1> HIDE DEF Frame, f
<1>6. f \in Seq(Seq(Int)) /\ Len(f) = n /\ DOMAIN f = 1..n /\ \A i \in 1..n : f[i] = Frame(i)
  <2>1. f \in Seq(Seq(Int))
    BY <1>3, <1>4, <1>5, IsASeq
  <2>2. DOMAIN f = 1..n
    BY <1>4
  <2> QED BY <1>3, <1>4, <2>1, <2>2, LenProperties
<1>7. ASSUME NEW i \in 1..n
      PROVE  FrameFits(f[i])
  <2> DEFINE x == f[i]
  <2>1. x \in Seq(Int) /\ Len(x) = p[i] /\ p[i] \in 1..ZerosMax /\ x[1] = Zero
    <3>1. p[i] \in 1..ZerosMax /\ 1 \in 1..p[i]
      BY <1>0, <1>3
    <3> QED BY SMTT(40), <1>5, <1>6, <3>1
  <2> HIDE DEF x
  <2>2. Zero \in ToSet(x)
    <3>1. 1 \in DOMAIN x
      BY <1>0, <2>1, LenProperties
    <3> QED BY <2>1, <3>1 DEF ToSet
  <2>3. FrameFits(x)
    BY <2>1, <2>2 DEF FrameFits
  <2> QED BY <2>3 DEF x
<1> DEFINE at == [i \in 0..n |-> from + g[i]]
<1>8. \A i \in 0..n : g[i] \in Nat /\ at[i] = from + g[i]
  BY <1>2 DEF n
<1>9. Places(f, at, from, from + len)
  <2>1. at \in [0..n -> Nat]
    <3>1. \A i \in 0..n : from + g[i] \in Nat
      BY <1>8
    <3> QED BY <3>1
  <2>2. at[0] = from /\ at[n] = from + len
    <3>1. 0 \in 0..n /\ n \in 0..n
      BY <1>3
    <3> QED BY <1>2, <1>8, <3>1 DEF n
  <2>3. ASSUME NEW i \in 1..n
        PROVE  at[i] = at[i - 1] + Len(f[i])
    <3>1. i \in 0..n /\ i - 1 \in 0..n
      BY <1>3
    <3>2. g[i] = g[i - 1] + p[i] /\ g[i] \in Nat /\ g[i - 1] \in Nat /\ p[i] \in Nat
      <4>1. g[i] = g[i - 1] + p[i]
        BY <1>2 DEF n
      <4>2. p[i] \in Nat
        BY <1>0, <1>3
      <4> QED BY <1>8, <3>1, <4>1, <4>2
    <3>3. Len(f[i]) = p[i] /\ at[i] = from + g[i] /\ at[i - 1] = from + g[i - 1]
      BY <1>5, <1>6, <1>8, <3>1
    <3> HIDE DEF at
    <3> QED BY SMTT(40), <3>2, <3>3
  <2> HIDE DEF at
  <2> QED BY <1>6, <2>1, <2>2, <2>3 DEF Places
<1>10. PlainAt(f, at)
  <2> SUFFICES ASSUME NEW i \in 1..n, NEW j \in 1..p[i]
               PROVE  f[i][j] = Plain(at[i - 1] + j - 1)
    <3>1. Len(f) = n /\ \A i \in 1..n : Len(f[i]) = p[i]
      BY <1>5, <1>6
    <3> HIDE DEF at
    <3> QED BY <3>1 DEF PlainAt
  <2>1. f[i][j] = Zero
    BY SMTT(40), <1>5, <1>6
  <2>2. i - 1 \in 0..n /\ i \in 0..n
    BY <1>3
  <2>3. g[i] = g[i - 1] + p[i] /\ g[i] \in Nat /\ g[i - 1] \in Nat /\ p[i] \in Nat
    <3>1. g[i] = g[i - 1] + p[i]
      BY <1>2 DEF n
    <3>2. p[i] \in Nat
      BY <1>0, <1>3
    <3> QED BY <1>8, <2>2, <3>1, <3>2
  <2>4. g[i] <= len
    <3> DEFINE T == {k \in 0..n : i <= k => g[i] <= g[k]}
    <3>1. 0 \in T
      BY <1>3
    <3>2. ASSUME NEW k \in 1..n, k - 1 \in T
          PROVE  k \in T
      <4>1. k \in 0..n /\ k - 1 \in 0..n /\ (i <= k => i = k \/ i <= k - 1)
        BY <1>3
      <4>2. g[k] = g[k - 1] + p[k]
        BY <1>2 DEF n
      <4>3. p[k] \in Nat /\ g[k - 1] \in Nat /\ g[k] \in Nat
        BY SMTT(40), <1>0, <1>3, <1>8, <4>1
      <4> QED BY SMTT(40), <2>3, <3>2, <4>1, <4>2, <4>3
    <3>3. \A k \in 0..n : k \in T
      <4> HIDE DEF T
      <4> QED BY <1>3, <3>1, <3>2, Induction
    <3>4. n \in 0..n /\ i <= n
      BY <1>3
    <3>5. g[i] <= g[n]
      BY <3>3, <3>4
    <3> QED BY <1>2, <3>5 DEF n
  <2>5. at[i - 1] = from + g[i - 1]
    BY <1>8, <2>2
  <2> DEFINE c == at[i - 1] + j - 1
  <2>6. c \in from..from + len - 1
    <3> DEFINE x == g[i - 1]
               y == g[i]
               z == p[i]
    <3>1. x \in Nat /\ y \in Nat /\ z \in Nat /\ y = x + z /\ y <= len /\ j \in 1..z
      BY <2>3, <2>4
    <3>2. c = from + x + j - 1
      BY <2>5
    <3> HIDE DEF x, y, z, c
    <3> QED BY ONLY <3>1, <3>2, from \in Nat, len \in Nat
  <2> QED BY <2>1, <2>6 DEF Plain
<1> HIDE DEF at
<1> QED BY <1>6, <1>7, <1>9, <1>10 DEF Covers, f

\* Data that says where it belongs.
IsOwn(r, start, len) == r \in Seq(Int) /\ Len(r) = len /\ \A j \in 1..len : r[j] = start + j - 1

\* The drive holds its own cells.
LEMMA OriginalRead ==
  ASSUME NEW start \in Nat, NEW len \in Nat, start + len <= source.size, source.size \in Nat,
         NEW s \in Nat \ {0}, NEW room \in Nat
  PROVE  IsOwn(ReadAt(Original, start, len, room, s), start, len)
<1> DEFINE r == ReadAt(Original, start, len, room, s)
<1>0. r = Content(Original, start, len)
  BY ReadAtIsExact
<1>1. r = [j \in 1..len |-> Original[start + j - 1]]
  BY <1>0 DEF Content
<1> HIDE DEF r
<1>2. \A j \in 1..len : Original[start + j - 1] = start + j - 1 /\ start + j - 1 \in Int
  <2> TAKE j \in 1..len
  <2>1. start + j - 1 \in 0..source.size - 1
    OBVIOUS
  <2> QED BY <2>1 DEF Original
<1>3. \A j \in 1..len : r[j] = start + j - 1
  BY <1>1, <1>2
<1>4. r \in Seq(Int)
  <2>1. r \in [1..len -> Int]
    BY <1>1, <1>2
  <2> QED BY <2>1, IsASeq
<1>5. Len(r) = len
  <2>1. DOMAIN r = 1..len
    BY <1>1
  <2> QED BY <1>4, <2>1, LenProperties
<1> QED BY <1>3, <1>4, <1>5 DEF IsOwn, r

\* Where the pieces of a chain are.
LEMMA ChainEnds ==
  ASSUME NEW v, NEW from \in Nat, NEW to \in Nat, Chain(v, from, to)
  PROVE  \E at \in [0..Len(v) -> Nat] :
           /\ at[0] = from /\ at[Len(v)] = to
           /\ \A i \in 1..Len(v) : at[i - 1] = v[i].start /\ at[i] = End(v[i])
<1> DEFINE n == Len(v)
           at == [i \in 0..n |-> IF i = 0 THEN from ELSE End(v[i])]
<1>1. /\ n \in Nat /\ v \in Seq(Ext)
      /\ \A i \in 1..n : v[i].start \in Nat /\ End(v[i]) \in Nat
      /\ (v = <<>> <=> n = 0)
  BY SMTT(40), ExtFacts, EndIs DEF Chain
<1>2. /\ v = <<>> => from = to
      /\ v # <<>> => v[1].start = from /\ End(v[n]) = to
      /\ \A i \in 2..n : v[i].start = End(v[i - 1])
  BY DEF Chain
<1> HIDE DEF n
<1>3. \A i \in 0..n : at[i] \in Nat
  BY <1>1
<1>4. at \in [0..n -> Nat] /\ at[0] = from
  BY <1>1, <1>3
<1>5. at[n] = to
  <2>1. CASE n = 0
    BY <1>1, <1>2, <2>1
  <2>2. CASE n # 0
    BY <1>1, <1>2, <2>2
  <2> QED BY <2>1, <2>2
<1>6. \A i \in 1..n : at[i - 1] = v[i].start /\ at[i] = End(v[i])
  <2> TAKE i \in 1..n
  <2>1. i \in 0..n /\ i # 0 /\ i - 1 \in 0..n
    BY <1>1
  <2>2. CASE i = 1
    BY <1>1, <1>2, <2>1, <2>2
  <2>3. CASE i # 1
    <3>1. i \in 2..n /\ i - 1 # 0
      BY <1>1, <2>3
    <3> QED BY <1>2, <2>1, <3>1
  <2> QED BY <2>2, <2>3
<1> HIDE DEF at
<1> QED BY <1>4, <1>5, <1>6 DEF n

\* The frames of an extent cover it.
LEMMA DataFramesCover ==
  ASSUME NEW e \in Ext, End(e) <= source.size, source.size \in Nat, source.sector \in Nat \ {0},
         CellsOf(e) \subseteq Used
  PROVE  Covers(DataFrames(e), e.start, End(e))
<1> DEFINE p == PiecesOf(e, DataMax)
           n == Len(p)
           f == DataFrames(e)
           Frame(i) == ReadAt(Original, p[i].start, p[i].len, DataMax, source.sector)
<1>0. DataMax \in Nat \ {0} /\ e.start \in Nat /\ End(e) \in Nat
  BY SmartCopyAssumption, EndIs DEF Ext
<1>1. Chain(p, e.start, End(e)) /\ \A i \in DOMAIN p : p[i].len <= DataMax
  BY <1>0, PiecesFacts
<1>2. f = [i \in DOMAIN p |-> Frame(i)]
  BY DEF DataFrames
<1> HIDE DEF p, f
<1>3. PICK at \in [0..n -> Nat] :
        /\ at[0] = e.start /\ at[n] = End(e)
        /\ \A i \in 1..n : at[i - 1] = p[i].start /\ at[i] = End(p[i])
  BY SMTT(40), <1>0, <1>1, ChainEnds
<1>4. /\ n \in Nat /\ DOMAIN p = 1..n /\ p \in Seq(Ext)
      /\ \A i \in 1..n : /\ p[i].start \in Nat /\ p[i].len \in Nat /\ p[i].len > 0 /\ p[i].len <= DataMax
                         /\ End(p[i]) \in Nat /\ End(p[i]) = p[i].start + p[i].len
                         /\ CellsOf(p[i]) = p[i].start..End(p[i]) - 1
  BY <1>1, ExtFacts, EndIs DEF Chain, Full
<1>5. \A i \in 1..n : CellsOf(p[i]) \subseteq Used /\ End(p[i]) <= source.size
  <2> TAKE i \in 1..n
  <2>1. CellsOf(p[i]) \subseteq CellsOf(e)
    <3>1. AllCells(p) = CellsOf(e)
      BY <1>0, <1>1, ChainCells, EndIs
    <3> QED BY <1>4, <3>1 DEF AllCells
  <2>2. End(p[i]) - 1 \in CellsOf(p[i])
    <3>1. End(p[i]) - 1 \in p[i].start..End(p[i]) - 1
      <4>1. /\ p[i].start \in Nat /\ p[i].len \in Nat /\ p[i].len > 0
            /\ End(p[i]) = p[i].start + p[i].len
        BY <1>4
      <4> QED BY SMTT(40), <4>1
    <3> QED BY <1>4, <3>1
  <2>3. End(p[i]) - 1 \in e.start..End(e) - 1
    BY <2>1, <2>2, EndIs
  <2>4. End(p[i]) \in Nat
    BY <1>4
  <2> QED BY <1>0, <2>1, <2>3, <2>4
<1> HIDE DEF n
<1>6. \A i \in 1..n : /\ Frame(i) \in Seq(Int) /\ Len(Frame(i)) = p[i].len
                      /\ \A j \in 1..p[i].len : Frame(i)[j] = p[i].start + j - 1
  <2> TAKE i \in 1..n
  <2> DEFINE s == p[i].start
             l == p[i].len
  <2>1. s \in Nat /\ l \in Nat /\ s + l <= source.size
    BY <1>4, <1>5
  <2> HIDE DEF s, l
  <2>2. DataMax \in Nat
    BY <1>0
  <2>3. IsOwn(ReadAt(Original, s, l, DataMax, source.sector), s, l)
    BY <2>1, <2>2, OriginalRead
  <2> QED BY <2>3 DEF IsOwn, s, l
<1> HIDE DEF Frame
<1>7. f \in Seq(Seq(Int)) /\ Len(f) = n /\ DOMAIN f = 1..n /\ \A i \in 1..n : f[i] = Frame(i)
  <2>1. f \in Seq(Seq(Int))
    <3>1. f \in [1..n -> Seq(Int)]
      <4>1. \A i \in 1..n : Frame(i) \in Seq(Int)
        BY <1>6
      <4> QED BY <1>2, <1>4, <4>1
    <3>2. n \in Nat
      BY <1>4
    <3> QED BY <3>1, <3>2, IsASeq
  <2>2. DOMAIN f = 1..n /\ \A i \in 1..n : f[i] = Frame(i)
    BY <1>2, <1>4
  <2>3. Len(f) = n
    BY <1>4, <2>1, <2>2, LenProperties
  <2> QED BY <2>1, <2>2, <2>3
<1>8. ASSUME NEW i \in 1..n
      PROVE  FrameFits(f[i])
  <2> DEFINE x == f[i]
             l == p[i].len
             s == p[i].start
  <2>1. x \in Seq(Int) /\ Len(x) = l /\ l \in 1..DataMax /\ s \in Nat /\ \A j \in 1..l : x[j] = s + j - 1
    <3>1. f[i] = Frame(i)
      BY <1>7
    <3>2. p[i].len \in 1..DataMax /\ p[i].start \in Nat
      <4> DEFINE k == p[i].len
      <4>1. k \in Nat /\ k > 0 /\ k <= DataMax /\ p[i].start \in Nat
        BY <1>4
      <4> HIDE DEF k
      <4>2. k \in 1..DataMax
        BY <1>0, <4>1
      <4> QED BY <4>1, <4>2 DEF k
    <3> QED BY <1>6, <3>1, <3>2
  <2> HIDE DEF x, l, s
  <2>2. Zero \notin ToSet(x)
    <3>1. DOMAIN x = 1..l
      BY <2>1, LenProperties
    <3>2. \A j \in 1..l : x[j] # -1
      BY <2>1
    <3> QED BY <3>1, <3>2 DEF ToSet, Zero
  <2>3. FrameFits(x)
    BY <2>1, <2>2 DEF FrameFits
  <2> QED BY <2>3 DEF x
<1>9. Places(f, at, e.start, End(e))
  <2>1. \A i \in 1..n : at[i] = at[i - 1] + Len(f[i])
    BY ZenonT(40), <1>3, <1>4, <1>6, <1>7 DEF n
  <2>2. Len(f) = n /\ at \in [0..n -> Nat] /\ at[0] = e.start /\ at[n] = End(e)
    BY <1>3, <1>7 DEF n
  <2> QED BY <2>1, <2>2 DEF Places
<1>10. PlainAt(f, at)
  <2> SUFFICES ASSUME NEW i \in 1..n, NEW j \in 1..p[i].len
               PROVE  f[i][j] = Plain(at[i - 1] + j - 1)
    BY ZenonT(40), <1>6, <1>7 DEF PlainAt
  <2>1. f[i][j] = p[i].start + j - 1 /\ at[i - 1] = p[i].start
    BY <1>3, <1>6, <1>7 DEF n
  <2>2. p[i].start + j - 1 \in CellsOf(p[i])
    <3> DEFINE s == p[i].start
               l == p[i].len
    <3>1. s \in Nat /\ l \in Nat /\ j \in 1..l /\ CellsOf(p[i]) = s..s + l - 1
      <4>1. End(p[i]) = s + l /\ CellsOf(p[i]) = s..End(p[i]) - 1
        BY <1>4
      <4>2. s \in Nat /\ l \in Nat
        BY <1>4
      <4> QED BY <4>1, <4>2
    <3> HIDE DEF s, l
    <3>2. s + j - 1 \in CellsOf(p[i])
      BY <3>1
    <3> QED BY <3>2 DEF s
  <2>3. p[i].start + j - 1 \in Used
    BY <1>5, <2>2
  <2> QED BY <2>1, <2>3 DEF Plain
<1> QED BY <1>7, <1>8, <1>9, <1>10 DEF Covers, f

\* What a map keeps to: its extents aren't empty, lie apart, in order, and within the drive.
IsMap(v) == v \in Seq(Ext) /\ Full(v) /\ Apart(v, 0) /\ Within(v, source.size)

\* The extents of a map, and the cells they hold.
LEMMA MapFacts ==
  ASSUME IsMap(map), source.size \in Nat
  PROVE  /\ Len(map) \in Nat /\ DOMAIN map = 1..Len(map) /\ Ordered(map)
         /\ \A i \in 1..Len(map) : /\ map[i] \in Ext /\ map[i].start \in Nat /\ map[i].len \in Nat
                                   /\ End(map[i]) \in Nat /\ map[i].start <= End(map[i])
                                   /\ End(map[i]) <= source.size /\ CellsOf(map[i]) \subseteq Used
                                   /\ CellsOf(map[i]) = map[i].start..End(map[i]) - 1
         /\ DataEnd(map) \in Nat /\ DataEnd(map) <= source.size
         /\ \A c \in Used : c \in Nat /\ c < DataEnd(map)
         /\ Used \subseteq 0..source.size - 1
<1> DEFINE n == Len(map)
<1>1. map \in Seq(Ext) /\ Full(map) /\ Within(map, source.size) /\ Ordered(map)
  BY ApartIsOrdered DEF IsMap
<1>2. n \in Nat /\ DOMAIN map = 1..n /\ \A i \in 1..n : map[i] \in Ext /\ map[i].start \in Nat /\ map[i].len \in Nat
  BY <1>1, ExtFacts
<1> HIDE DEF n
<1>3. \A i \in 1..n : /\ End(map[i]) \in Nat /\ map[i].start <= End(map[i])
                      /\ CellsOf(map[i]) = map[i].start..End(map[i]) - 1
  BY <1>2, EndIs
<1>4. \A i \in 1..n : End(map[i]) <= source.size /\ CellsOf(map[i]) \subseteq Used
  BY <1>1, <1>2 DEF Full, Within, Used, AllCells
<1>5. DataEnd(map) \in Nat /\ \A i \in 1..n : End(map[i]) <= DataEnd(map)
  BY <1>1, <1>2, OrderedFacts
<1>6. DataEnd(map) <= source.size
  <2>1. CASE map = <<>>
    BY <2>1 DEF DataEnd
  <2>2. CASE map # <<>>
    <3>1. DataEnd(map) = End(map[n]) /\ n \in 1..n
      BY <1>1, <1>2, <2>2 DEF DataEnd, Last, n
    <3> QED BY <1>4, <3>1
  <2> QED BY <2>1, <2>2
<1>7. ASSUME NEW c \in Used
      PROVE  c \in Nat /\ c < DataEnd(map)
  <2>1. PICK i \in 1..n : c \in CellsOf(map[i])
    BY <1>2 DEF Used, AllCells
  <2> DEFINE a == map[i].start
             b == End(map[i])
             d == DataEnd(map)
  <2>2. a \in Nat /\ b \in Nat /\ c \in a..b - 1 /\ b <= d /\ d \in Nat
    BY <1>2, <1>3, <1>5, <2>1
  <2> HIDE DEF a, b, d
  <2>3. c \in Nat /\ c < d
    BY <2>2
  <2> QED BY <2>3 DEF d
<1>8. Used \subseteq 0..source.size - 1
  BY <1>5, <1>6, <1>7
<1> QED BY <1>1, <1>2, <1>3, <1>4, <1>5, <1>6, <1>7, <1>8 DEF n

\* Between two extents, before the first one and after the last one, the drive is free.
LEMMA FreeBetween ==
  ASSUME IsMap(map), source.size \in Nat
  PROVE  /\ \A i \in DOMAIN map : /\ Before(map, i) \in Nat /\ Before(map, i) <= map[i].start
                                  /\ \A c \in Before(map, i)..map[i].start - 1 : c \notin Used
         /\ \A c \in DataEnd(map)..source.size - 1 : c \notin Used
<1> DEFINE n == Len(map)
<1>1. /\ n \in Nat /\ DOMAIN map = 1..n /\ Ordered(map)
      /\ \A i \in 1..n : /\ map[i].start \in Nat /\ End(map[i]) \in Nat /\ map[i].start <= End(map[i])
                         /\ CellsOf(map[i]) = map[i].start..End(map[i]) - 1
      /\ DataEnd(map) \in Nat /\ \A c \in Used : c \in Nat /\ c < DataEnd(map)
  BY MapFacts
<1>2. map \in Seq(Ext)
  BY DEF IsMap
<1>3. \A i, j \in 1..n : i < j => End(map[i]) <= map[j].start
  BY <1>1, <1>2, OrderedFacts
<1> HIDE DEF n
<1>4. ASSUME NEW i \in 1..n
      PROVE  /\ Before(map, i) \in Nat /\ Before(map, i) <= map[i].start
             /\ \A c \in Before(map, i)..map[i].start - 1 : c \notin Used
  <2>1. Before(map, i) \in Nat /\ Before(map, i) <= map[i].start
    BY <1>1, <1>2, BeforeFacts
  <2>2. ASSUME NEW c \in Before(map, i)..map[i].start - 1, c \in Used
        PROVE  FALSE
    <3>1. PICK j \in 1..n : c \in CellsOf(map[j])
      BY <1>1, <2>2 DEF Used, AllCells
    <3> DEFINE a == map[j].start
               b == End(map[j])
               s == map[i].start
               p == Before(map, i)
    <3>2. a \in Nat /\ b \in Nat /\ c \in a..b - 1 /\ s \in Nat /\ p \in Nat /\ c \in p..s - 1
      BY <1>1, <2>1, <2>2, <3>1
    <3>3. j < i
      <4> SUFFICES ASSUME i < j \/ i = j
                   PROVE  FALSE
        OBVIOUS
      <4>1. s <= a
        <5>1. CASE i = j
          BY <1>1, <5>1
        <5>2. CASE i < j
          <6>1. End(map[i]) <= a /\ s <= End(map[i]) /\ End(map[i]) \in Nat
            BY <1>1, <1>3, <5>2
          <6> HIDE DEF a, s
          <6> QED BY <3>2, <6>1
        <5> QED BY <5>1, <5>2
      <4> HIDE DEF a, b, s, p
      <4> QED BY <3>2, <4>1
    <3>4. b <= p
      <4> PICK k \in 1..n : k = i - 1
        BY <1>1, <3>3
      <4>1. p = End(map[k])
        BY <3>3 DEF Before
      <4>2. CASE j = k
        BY <3>2, <4>1, <4>2
      <4>3. CASE j < k
        <5>1. b <= map[k].start /\ map[k].start <= End(map[k]) /\ map[k].start \in Nat
          BY <1>1, <1>3, <4>3
        <5> HIDE DEF b, p
        <5> QED BY <3>2, <4>1, <5>1
      <4> QED BY <3>3, <4>2, <4>3
    <3> HIDE DEF a, b, s, p
    <3> QED BY <3>2, <3>4
  <2> QED BY <2>1, <2>2
<1>5. \A c \in DataEnd(map)..source.size - 1 : c \notin Used
  BY <1>1
<1> QED BY <1>1, <1>4, <1>5

\* The frames that to_image writes cover the drive.
LEMMA FramesCover ==
  ASSUME IsMap(map), source.size \in Nat, source.sector \in Nat \ {0}
  PROVE  Covers(Frames, 0, source.size)
<1> DEFINE n == Len(map)
           Part(i) == ZeroFrames(FreeBefore(map[i], Before(map, i))) \o DataFrames(map[i])
           parts == [i \in DOMAIN map |-> Part(i)]
           ends == [i \in 0..n |-> IF i = 0 THEN 0 ELSE End(map[i])]
           last == ZeroFrames(source.size - DataEnd(map))
<1>1. Frames = FlattenSeq(parts) \o last
  BY DEF Frames, Before
<1>2. /\ n \in Nat /\ DOMAIN map = 1..n
      /\ \A i \in 1..n : /\ map[i] \in Ext /\ map[i].start \in Nat /\ End(map[i]) \in Nat
                         /\ End(map[i]) <= source.size /\ CellsOf(map[i]) \subseteq Used
      /\ DataEnd(map) \in Nat /\ DataEnd(map) <= source.size
  BY MapFacts
<1>3. \A i \in 1..n : Covers(Part(i), Before(map, i), End(map[i]))
  <2> TAKE i \in 1..n
  <2> DEFINE a == Before(map, i)
             b == map[i].start
             c == End(map[i])
  <2>1. a \in Nat /\ b \in Nat /\ c \in Nat /\ a <= b /\ \A x \in a..b - 1 : x \notin Used
    BY <1>2, FreeBetween
  <2>2. Covers(DataFrames(map[i]), b, c)
    BY <1>2, DataFramesCover
  <2>3. Covers(ZeroFrames(b - a), a, b)
    <3> HIDE DEF a, b
    <3>1. b - a \in Nat /\ a + (b - a) = b
      BY <2>1
    <3>2. Covers(ZeroFrames(b - a), a, a + (b - a))
      BY <2>1, <3>1, ZeroFramesCover
    <3> QED BY <3>1, <3>2
  <2>4. FreeBefore(map[i], a) = b - a
    BY DEF FreeBefore
  <2> HIDE DEF a, b, c
  <2>5. Covers(ZeroFrames(b - a) \o DataFrames(map[i]), a, c)
    BY <2>1, <2>2, <2>3, CoversJoin
  <2> QED BY <2>4, <2>5 DEF a, c
<1>4. \A i \in 1..n : Part(i) \in Seq(Seq(Int))
  BY <1>3 DEF Covers
<1> HIDE DEF Part
<1>5. parts \in Seq(Seq(Seq(Int))) /\ Len(parts) = n /\ \A i \in 1..n : parts[i] = Part(i)
  <2>1. DOMAIN parts = 1..n /\ \A i \in 1..n : parts[i] = Part(i)
    BY <1>2
  <2>2. parts \in [1..n -> Seq(Seq(Int))]
    BY <1>2, <1>4
  <2> HIDE DEF parts
  <2>3. parts \in Seq(Seq(Seq(Int)))
    BY <1>2, <2>2, IsASeq
  <2>4. Len(parts) = n
    BY <1>2, <2>1, <2>3, LenProperties
  <2> QED BY <2>1, <2>3, <2>4
<1>6. ends \in [0..n -> Nat] /\ ends[0] = 0 /\ ends[n] = DataEnd(map)
  <2>1. \A i \in 0..n : i = 0 \/ i \in 1..n
    BY <1>2
  <2>2. \A i \in 0..n : ends[i] \in Nat
    BY <1>2, <2>1
  <2>3. ends[n] = DataEnd(map)
    <3>1. CASE n = 0
      <4>1. map = <<>>
        BY <3>1 DEF IsMap
      <4> QED BY <3>1, <4>1 DEF DataEnd
    <3>2. CASE n # 0
      <4>1. map # <<>>
        BY <3>2
      <4>2. DataEnd(map) = End(map[n]) /\ n \in 0..n
        BY <1>2, <4>1 DEF DataEnd, Last
      <4> QED BY <3>2, <4>2
    <3> QED BY <3>1, <3>2
  <2> QED BY <1>2, <2>2, <2>3
<1>7. \A i \in 1..n : ends[i - 1] = Before(map, i) /\ ends[i] = End(map[i])
  <2> TAKE i \in 1..n
  <2>1. i \in 0..n /\ i # 0 /\ i - 1 \in 0..n /\ (i - 1 = 0 <=> i = 1)
    BY <1>2
  <2> QED BY <2>1 DEF Before
<1> HIDE DEF parts, ends, last
<1>8. Covers(FlattenSeq(parts), 0, DataEnd(map))
  <2>1. \A i \in 1..Len(parts) : Covers(parts[i], ends[i - 1], ends[i])
    BY <1>3, <1>5, <1>7
  <2> QED BY ZenonT(40), <1>5, <1>6, <2>1, FlattenCovers
<1>9. Covers(last, DataEnd(map), source.size)
  <2> DEFINE a == DataEnd(map)
             b == source.size
  <2>1. a \in Nat /\ b \in Nat /\ a <= b /\ \A x \in a..b - 1 : x \notin Used
    BY <1>2, FreeBetween
  <2>2. last = ZeroFrames(b - a)
    BY DEF last
  <2> HIDE DEF a, b
  <2>3. b - a \in Nat /\ a + (b - a) = b
    BY <2>1
  <2>4. Covers(ZeroFrames(b - a), a, a + (b - a))
    BY <2>1, <2>3, ZeroFramesCover
  <2>5. Covers(last, a, b)
    BY <2>2, <2>3, <2>4
  <2> QED BY <2>5 DEF a, b
<1>10. Covers(FlattenSeq(parts) \o last, 0, source.size)
  BY <1>2, <1>8, <1>9, CoversJoin
<1> QED BY <1>1, <1>10

-------------------------------------------------------------------------------
(* How much an image holds *)

\* How lengths are added.
LEMMA SumSteps ==
  ASSUME NEW lens \in Seq(Nat)
  PROVE  \E g \in [0..Len(lens) -> Nat] :
           /\ g[0] = 0 /\ g[Len(lens)] = Sum(lens)
           /\ \A i \in 1..Len(lens) : g[i] = g[i - 1] + lens[i]
<1> DEFINE A == Nat
           n == Len(lens)
           F == [p \in A \X (1..n) |-> p[1] + lens[p[2]]]
           P(iter) == iter = [x \in SUBSET (1..n) |->
                                IF x = {} THEN 0
                                ELSE iter[x \ {Max(x)}] + lens[Max(x)]]
           c == CHOOSE iter : P(iter)
<1>0. n \in Nat /\ DOMAIN lens = 1..n /\ \A i \in 1..n : lens[i] \in Nat
  BY LenProperties, ElementOfSeq
<1>1. Sum(lens) = c[1..n]
  BY <1>0 DEF Sum, FoldLeft, MapThenFoldSet
<1>2. 0 \in A
  OBVIOUS
<1>3. \A a \in A : \A i \in 1..n : a + lens[i] \in A
  BY <1>0
<1> HIDE DEF A
<1>4. IsOperation(F, A, n)
  BY <1>3 DEF IsOperation
<1>5. \A a \in A : \A i \in 1..n : F[<<a, i>>] = a + lens[i]
  OBVIOUS
<1> HIDE DEF F, n
<1>6. \A x \in SUBSET (1..n) : x # {} => Max(x) \in 1..n
  BY <1>0, MaxIs
<1>7. P(c)
  <2>1. PICK iter : IsFold(iter, A, n, 0, F)
    BY <1>0, <1>2, <1>4, FoldExists
  <2>2. \A x \in SUBSET (1..n) :
          iter[x] = IF x = {} THEN 0
                    ELSE iter[x \ {Max(x)}] + lens[Max(x)]
    <3> TAKE x \in SUBSET (1..n)
    <3>1. iter[x \ {Max(x)}] \in A
      BY <2>1 DEF IsFold
    <3>2. iter[x] = IF x = {} THEN 0 ELSE F[<<iter[x \ {Max(x)}], Max(x)>>]
      BY <2>1 DEF IsFold
    <3> QED BY <1>5, <1>6, <3>1, <3>2
  <2>3. P(iter)
    BY <2>1, <2>2 DEF IsFold
  <2> HIDE DEF P
  <2> QED BY <2>3
<1> HIDE DEF c
<1>8. c[{}] = 0
  BY <1>7
<1>9. ASSUME NEW x \in SUBSET (1..n), x # {}, c[x \ {Max(x)}] \in A
      PROVE  c[x] = F[<<c[x \ {Max(x)}], Max(x)>>]
  <2>1. c[x] = c[x \ {Max(x)}] + lens[Max(x)]
    BY <1>7, <1>9
  <2> HIDE DEF P
  <2> QED BY <1>5, <1>6, <1>9, <2>1
<1> HIDE DEF P
<1>10. PICK g : IsSteps(g, A, n, 0, F) /\ g[n] = c[1..n]
  <2>1. Follows(c, A, n, 0, F)
    BY <1>8, <1>9 DEF Follows
  <2> QED BY <1>0, <1>2, <1>4, <2>1, FoldSteps
<1>11. \A i \in 1..n : g[i] = g[i - 1] + lens[i]
  <2> TAKE i \in 1..n
  <2>1. i - 1 \in 0..n
    BY <1>0
  <2>2. g[i - 1] \in A /\ g[i] = F[<<g[i - 1], i>>]
    BY <1>10, <2>1 DEF IsSteps
  <2> QED BY <1>5, <2>2
<1>12. g \in [0..n -> A] /\ g[0] = 0 /\ g[n] = Sum(lens)
  BY <1>1, <1>10 DEF IsSteps
<1> QED BY <1>11, <1>12 DEF A, n

UnpackedOf(frames) == Sum([i \in DOMAIN frames |-> Len(frames[i])])

\* It's where the last frame ends.
LEMMA UnpackedIs ==
  ASSUME NEW frames \in Seq(Seq(Int)), NEW at, NEW to, Places(frames, at, 0, to)
  PROVE  UnpackedOf(frames) = to
<1> DEFINE n == Len(frames)
           lens == [i \in DOMAIN frames |-> Len(frames[i])]
<1>1. n \in Nat /\ DOMAIN frames = 1..n /\ \A i \in 1..n : Len(frames[i]) \in Nat
  BY LenProperties, ElementOfSeq
<1>2. /\ at \in [0..n -> Nat] /\ at[0] = 0 /\ at[n] = to
      /\ \A i \in 1..n : at[i] = at[i - 1] + Len(frames[i])
  BY DEF Places
<1>3. UnpackedOf(frames) = Sum(lens)
  BY DEF UnpackedOf
<1> HIDE DEF n
<1>4. lens \in Seq(Nat) /\ Len(lens) = n /\ \A i \in 1..n : lens[i] = Len(frames[i])
  <2>1. DOMAIN lens = 1..n /\ \A i \in 1..n : lens[i] = Len(frames[i])
    BY <1>1
  <2>2. lens \in [1..n -> Nat]
    BY <1>1
  <2> HIDE DEF lens
  <2>3. lens \in Seq(Nat)
    BY <1>1, <2>2, IsASeq
  <2>4. Len(lens) = n
    BY <1>1, <2>1, <2>3, LenProperties
  <2> QED BY <2>1, <2>3, <2>4
<1> HIDE DEF lens
<1>5. PICK g \in [0..n -> Nat] :
        g[0] = 0 /\ g[n] = Sum(lens) /\ \A i \in 1..n : g[i] = g[i - 1] + lens[i]
  BY <1>4, SumSteps
<1> DEFINE T == {i \in 0..n : g[i] = at[i]}
<1>6. 0 \in T
  BY <1>1, <1>2, <1>5
<1>7. ASSUME NEW i \in 1..n, i - 1 \in T
      PROVE  i \in T
  <2>1. i \in 0..n /\ g[i - 1] = at[i - 1]
    BY <1>7
  <2>2. g[i] = g[i - 1] + lens[i] /\ at[i] = at[i - 1] + Len(frames[i]) /\ lens[i] = Len(frames[i])
    BY <1>2, <1>4, <1>5
  <2> QED BY <2>1, <2>2
<1>8. n \in T
  <2>1. \A i \in 0..n : i \in T
    <3> HIDE DEF T
    <3> QED BY <1>1, <1>6, <1>7, Induction
  <2>2. n \in 0..n
    BY <1>1
  <2> QED BY <2>1, <2>2
<1>9. g[n] = at[n]
  BY <1>8
<1> QED BY <1>2, <1>3, <1>5, <1>9

\* Frames that all hold something.
Filled(frames) == frames \in Seq(Seq(Int)) /\ \A i \in DOMAIN frames : FrameFits(frames[i])

\* A frame isn't empty.
LEMMA FrameFitsFacts ==
  ASSUME NEW x \in Seq(Int), FrameFits(x)
  PROVE  Len(x) \in Nat /\ Len(x) > 0
<1>1. ZerosMax \in Nat /\ DataMax \in Nat
  BY ExtentsAssumption, SmartCopyAssumption
<1> QED BY <1>1 DEF FrameFits

\* Every frame takes its place.
LEMMA PlacesGrow ==
  ASSUME NEW frames, Filled(frames), NEW at, NEW from, NEW to, Places(frames, at, from, to)
  PROVE  \A i, k \in 0..Len(frames) : i < k => at[i] < at[k]
<1> DEFINE n == Len(frames)
<1>1. n \in Nat /\ \A i \in 1..n : Len(frames[i]) \in Nat /\ Len(frames[i]) > 0
  <2>1. DOMAIN frames = 1..n /\ n \in Nat /\ \A i \in 1..n : frames[i] \in Seq(Int)
    BY LenProperties, ElementOfSeq DEF Filled
  <2> QED BY <2>1, FrameFitsFacts DEF Filled
<1>2. /\ at \in [0..n -> Nat] /\ \A i \in 1..n : at[i] = at[i - 1] + Len(frames[i])
  BY DEF Places
<1> HIDE DEF n
<1> SUFFICES ASSUME NEW i \in 0..n
             PROVE  \A k \in 0..n : i < k => at[i] < at[k]
  BY DEF n
<1> DEFINE T == {k \in 0..n : i < k => at[i] < at[k]}
<1>3. 0 \in T
  BY <1>1
<1>4. ASSUME NEW k \in 1..n, k - 1 \in T
      PROVE  k \in T
  <2>1. k \in 0..n /\ k - 1 \in 0..n /\ (i < k => i = k - 1 \/ i < k - 1)
    BY <1>1
  <2>2. at[k] \in Nat /\ at[k - 1] \in Nat /\ at[i] \in Nat
    BY <1>2, <2>1
  <2>3. at[k] = at[k - 1] + Len(frames[k]) /\ Len(frames[k]) \in Nat /\ Len(frames[k]) > 0
    BY <1>1, <1>2
  <2>4. at[k - 1] < at[k]
    BY <2>2, <2>3
  <2>5. i < k - 1 => at[i] < at[k - 1]
    BY <1>4
  <2> QED BY <2>1, <2>2, <2>4, <2>5
<1>5. \A k \in 0..n : k \in T
  <2> HIDE DEF T
  <2> QED BY <1>1, <1>3, <1>4, Induction
<1> QED BY <1>5

\* An image that lost its end, or a frame, holds less than the whole drive.
LEMMA DamagedFrames ==
  ASSUME NEW frames, NEW to \in Nat, Covers(frames, 0, to), NEW i \in DOMAIN frames
  PROVE  /\ Filled(SubSeq(frames, 1, i - 1)) /\ UnpackedOf(SubSeq(frames, 1, i - 1)) < to
         /\ Filled(RemoveAt(frames, i)) /\ UnpackedOf(RemoveAt(frames, i)) < to
         /\ Len(RemoveAt(frames, i)) = Len(frames) - 1
<1> DEFINE n == Len(frames)
           s == SubSeq(frames, 1, i - 1)
           z == SubSeq(frames, i + 1, n)
           r == RemoveAt(frames, i)
<1>1. /\ frames \in Seq(Seq(Int)) /\ n \in Nat /\ DOMAIN frames = 1..n
      /\ \A k \in 1..n : /\ frames[k] \in Seq(Int) /\ FrameFits(frames[k])
                         /\ Len(frames[k]) \in Nat /\ Len(frames[k]) > 0
  <2>1. frames \in Seq(Seq(Int)) /\ n \in Nat /\ DOMAIN frames = 1..n /\ \A k \in 1..n : frames[k] \in Seq(Int)
    BY LenProperties, ElementOfSeq DEF Covers
  <2> QED BY <2>1, FrameFitsFacts DEF Covers
<1>2. PICK at : Places(frames, at, 0, to)
  BY DEF Covers
<1>3. /\ at \in [0..n -> Nat] /\ at[0] = 0 /\ at[n] = to
      /\ \A k \in 1..n : at[k] = at[k - 1] + Len(frames[k])
  BY <1>2 DEF Places
<1>4. Filled(frames)
  BY DEF Covers, Filled
<1>5. \A k, m \in 0..n : k < m => at[k] < at[m]
  BY <1>2, <1>4, PlacesGrow
<1>6. i \in 1..n /\ i \in Nat
  BY <1>1
<1>7. s \in Seq(Seq(Int)) /\ Len(s) = i - 1 /\ \A k \in 1..i - 1 : s[k] = frames[k]
  BY SMTT(40), <1>1, <1>6
<1>8. z \in Seq(Seq(Int)) /\ Len(z) = n - i /\ \A k \in 1..n - i : z[k] = frames[i + k]
  <2>1. i + 1 \in Int /\ n \in Int /\ i \in Int /\ i <= n /\ \A k \in i + 1..n : frames[k] \in Seq(Int)
    <3>1. \A k \in i + 1..n : k \in 1..n
      BY <1>1, <1>6
    <3> QED BY SMTT(40), <1>1, <1>6, <3>1
  <2>2. /\ z \in Seq(Seq(Int)) /\ Len(z) = IF i + 1 <= n THEN n - (i + 1) + 1 ELSE 0
        /\ \A k \in 1..n - (i + 1) + 1 : z[k] = frames[(i + 1) + k - 1]
    <3> HIDE DEF n
    <3> QED BY SMTT(40), <2>1, SubSeqProperties
  <2> HIDE DEF z, n
  <2>3. (IF i + 1 <= n THEN n - (i + 1) + 1 ELSE 0) = n - i /\ n - (i + 1) + 1 = n - i
    BY ONLY <2>1
  <2>4. \A k \in 1..n - i : (i + 1) + k - 1 = i + k
    BY ONLY <2>1
  <2> QED BY <2>2, <2>3, <2>4
<1>9. r = s \o z
  BY DEF RemoveAt
<1> HIDE DEF n, s, z, r
<1>10. /\ r \in Seq(Seq(Int)) /\ Len(r) = n - 1
       /\ \A k \in 1..n - 1 : r[k] = IF k < i THEN frames[k] ELSE frames[k + 1]
  <2>1. /\ r \in Seq(Seq(Int)) /\ Len(r) = Len(s) + Len(z)
        /\ \A k \in 1..Len(s) + Len(z) : r[k] = IF k <= Len(s) THEN s[k] ELSE z[k - Len(s)]
    BY ZenonT(40), <1>7, <1>8, <1>9, ConcatProperties
  <2>2. Len(r) = n - 1
    BY SMTT(40), <1>1, <1>6, <1>7, <1>8, <2>1
  <2>3. ASSUME NEW k \in 1..n - 1
        PROVE  r[k] = IF k < i THEN frames[k] ELSE frames[k + 1]
    <3>1. r[k] = IF k <= i - 1 THEN s[k] ELSE z[k - (i - 1)]
      <4>1. Len(s) + Len(z) = n - 1 /\ Len(s) = i - 1
        BY SMTT(40), <1>1, <1>6, <1>7, <1>8
      <4> QED BY <2>1, <4>1
    <3>2. CASE k < i
      <4>1. k \in 1..i - 1 /\ k <= i - 1
        BY <1>1, <1>6, <3>2
      <4> QED BY <1>7, <3>1, <3>2, <4>1
    <3>3. CASE ~(k < i)
      <4>1. k - (i - 1) \in 1..n - i /\ ~(k <= i - 1) /\ i + (k - (i - 1)) = k + 1
        <5>1. n \in Nat /\ i \in Nat /\ k \in Nat /\ k <= n - 1 /\ k >= i
          BY <1>1, <1>6, <3>3
        <5> QED BY ONLY <5>1
      <4> QED BY <1>8, <3>1, <3>3, <4>1
    <3> QED BY <3>2, <3>3
  <2> QED BY <2>1, <2>2, <2>3
<1>11. Filled(s)
  <2>1. DOMAIN s = 1..i - 1
    BY <1>6, <1>7, LenProperties
  <2>2. \A k \in 1..i - 1 : k \in 1..n
    BY <1>1, <1>6
  <2> QED BY <1>1, <1>7, <2>1, <2>2 DEF Filled
<1>12. Filled(r)
  <2>1. DOMAIN r = 1..n - 1
    BY <1>1, <1>10, LenProperties
  <2>2. \A k \in 1..n - 1 : k \in 1..n /\ k + 1 \in 1..n
    BY <1>1, <1>6
  <2>3. \A k \in DOMAIN r : FrameFits(r[k])
    BY <1>1, <1>10, <2>1, <2>2
  <2> QED BY <1>10, <2>3 DEF Filled
<1>13. UnpackedOf(s) < to
  <2> DEFINE a == [k \in 0..i - 1 |-> at[k]]
  <2>1. \A k \in 0..i - 1 : k \in 0..n
    BY <1>1, <1>6
  <2>2. Places(s, a, 0, at[i - 1])
    <3>1. a \in [0..i - 1 -> Nat]
      BY <1>3, <2>1
    <3>2. a[0] = 0 /\ a[i - 1] = at[i - 1]
      BY <1>3, <1>6
    <3>3. \A k \in 1..i - 1 : a[k] = a[k - 1] + Len(s[k])
      <4> TAKE k \in 1..i - 1
      <4>1. k \in 0..i - 1 /\ k - 1 \in 0..i - 1 /\ k \in 1..n
        BY <1>1, <1>6
      <4> QED BY <1>3, <1>7, <4>1
    <3> HIDE DEF a
    <3> QED BY <1>7, <3>1, <3>2, <3>3 DEF Places
  <2>3. UnpackedOf(s) = at[i - 1]
    BY <1>7, <2>2, UnpackedIs
  <2>4. i - 1 \in 0..n /\ n \in 0..n /\ i - 1 < n
    BY SMTT(40), <1>1, <1>6
  <2> QED BY <1>3, <1>5, <2>3, <2>4
<1>14. UnpackedOf(r) < to
  <2> DEFINE l == Len(frames[i])
             a == [k \in 0..n - 1 |-> IF k < i THEN at[k] ELSE at[k + 1] - l]
  <2>1. l \in Nat /\ l > 0 /\ at[i] = at[i - 1] + l /\ at[i - 1] \in Nat /\ at[i] \in Nat
    <3>1. i - 1 \in 0..n /\ i \in 0..n
      BY SMTT(40), <1>1, <1>6
    <3> QED BY <1>1, <1>3, <1>6, <3>1
  <2> HIDE DEF l
  <2>2. ASSUME NEW k \in 0..n - 1
        PROVE  /\ k \in 0..n /\ k + 1 \in 0..n /\ at[k] \in Nat /\ at[k + 1] \in Nat
               /\ ~(k < i) => at[k + 1] >= at[i]
    <3>1. k \in 0..n /\ k + 1 \in 0..n /\ i \in 0..n /\ (~(k < i) => i < k + 1)
      BY <1>1, <1>6
    <3>2. at[k] \in Nat /\ at[k + 1] \in Nat
      BY <1>3, <3>1
    <3> QED BY <1>5, <2>1, <3>1, <3>2
  <2>3. \A k \in 0..n - 1 : a[k] \in Nat
    <3> TAKE k \in 0..n - 1
    <3>1. a[k] = IF k < i THEN at[k] ELSE at[k + 1] - l
      OBVIOUS
    <3> HIDE DEF a
    <3> QED BY <2>1, <2>2, <3>1
  <2>4. Places(r, a, 0, to - l)
    <3>1. a \in [0..n - 1 -> Nat]
      BY <2>3
    <3>2. a[0] = 0
      BY <1>1, <1>3, <1>6
    <3>3. a[n - 1] = to - l
      <4>1. n - 1 \in 0..n - 1 /\ (n - 1 < i <=> n = i) /\ (n - 1) + 1 = n
        BY SMTT(40), <1>1, <1>6
      <4>2. n = i => at[n - 1] = to - l
        <5> SUFFICES ASSUME n = i
                     PROVE  at[i - 1] = to - l
          OBVIOUS
        <5>1. at[i] = to
          BY <1>3
        <5> QED BY <2>1, <5>1
      <4>3. a[n - 1] = IF n - 1 < i THEN at[n - 1] ELSE at[(n - 1) + 1] - l
        BY <4>1
      <4> HIDE DEF a
      <4> QED BY <1>3, <4>1, <4>2, <4>3
    <3>4. ASSUME NEW k \in 1..n - 1
          PROVE  a[k] = a[k - 1] + Len(r[k])
      <4>1. /\ k \in 0..n - 1 /\ k - 1 \in 0..n - 1 /\ k \in 1..n /\ k + 1 \in 1..n
            /\ (k - 1) + 1 = k /\ (k + 1) - 1 = k /\ k \in Nat
        BY <1>1
      <4>2. /\ a[k] = IF k < i THEN at[k] ELSE at[k + 1] - l
            /\ a[k - 1] = IF k - 1 < i THEN at[k - 1] ELSE at[k] - l
        BY <4>1
      <4>3. /\ at[k] = at[k - 1] + Len(frames[k]) /\ at[k + 1] = at[k] + Len(frames[k + 1])
            /\ Len(frames[k]) \in Nat /\ Len(frames[k + 1]) \in Nat
        BY <1>1, <1>3, <4>1
      <4>4. at[k] \in Nat /\ at[k - 1] \in Nat /\ at[k + 1] \in Nat
        BY <2>2, <4>1
      <4> HIDE DEF a
      <4>5. CASE k < i
        <5>1. r[k] = frames[k] /\ k - 1 < i
          BY <1>6, <1>10, <4>1, <4>5
        <5> QED BY <4>2, <4>3, <4>5, <5>1
      <4>6. CASE k = i
        <5>1. r[k] = frames[k + 1] /\ k - 1 < i /\ ~(k < i)
          BY SMTT(40), <1>6, <1>10, <4>1, <4>6
        <5>2. at[k - 1] = at[k] - l
          BY <2>1, <4>6
        <5> QED BY SMTT(40), <2>1, <4>2, <4>3, <4>4, <5>1, <5>2
      <4>7. CASE k > i
        <5>1. r[k] = frames[k + 1] /\ ~(k - 1 < i) /\ ~(k < i)
          BY SMTT(40), <1>6, <1>10, <4>1, <4>7
        <5> QED BY SMTT(40), <2>1, <4>2, <4>3, <4>4, <5>1
      <4> QED BY <1>6, <4>1, <4>5, <4>6, <4>7
    <3> HIDE DEF a
    <3> QED BY <1>10, <3>1, <3>2, <3>3, <3>4 DEF Places
  <2>5. UnpackedOf(r) = to - l
    BY <1>10, <2>4, UnpackedIs
  <2> QED BY <2>1, <2>5
<1> QED BY <1>10, <1>11, <1>12, <1>13, <1>14 DEF s, r, n

\* Frames that cover the drive unpack to it.
LEMMA UnpackedWhole ==
  ASSUME NEW frames, NEW to \in Nat, Covers(frames, 0, to)
  PROVE  /\ UnpackedOf(frames) = to /\ Filled(frames)
         /\ FlattenSeq(frames) = [i \in 1..to |-> Plain(i - 1)]
<1> DEFINE n == Len(frames)
<1>1. frames \in Seq(Seq(Int)) /\ n \in Nat /\ \A k \in 1..n : frames[k] \in Seq(Int) /\ Len(frames[k]) \in Nat
  BY LenProperties, ElementOfSeq DEF Covers
<1>2. PICK at : Places(frames, at, 0, to) /\ PlainAt(frames, at)
  BY DEF Covers
<1>3. /\ at \in [0..n -> Nat] /\ at[0] = 0 /\ at[n] = to
      /\ \A k \in 1..n : at[k] = at[k - 1] + Len(frames[k])
      /\ \A k \in 1..n : \A j \in 1..Len(frames[k]) : frames[k][j] = Plain(at[k - 1] + j - 1)
  BY <1>2 DEF Places, PlainAt
<1>4. PICK g \in [0..n -> Seq(Int)] : /\ g[0] = <<>> /\ g[n] = FlattenSeq(frames)
                                      /\ \A i \in 1..n : g[i] = g[i - 1] \o frames[i]
  BY <1>1, FlattenSteps
<1> HIDE DEF n
<1> DEFINE Up(k) == Len(g[k]) = at[k] /\ \A i \in 1..at[k] : g[k][i] = Plain(i - 1)
           T == {k \in 0..n : Up(k)}
<1>5. 0 \in T
  BY <1>1, <1>3, <1>4
<1>6. ASSUME NEW k \in 1..n, k - 1 \in T
      PROVE  k \in T
  <2> DEFINE a == at[k - 1]
             l == Len(frames[k])
             u == g[k - 1]
             f == frames[k]
             w == g[k]
  <2>1. k \in 0..n /\ k - 1 \in 0..n
    BY <1>1
  <2>2. /\ a \in Nat /\ l \in Nat /\ at[k] = a + l
        /\ u \in Seq(Int) /\ f \in Seq(Int) /\ w = u \o f
    BY <1>1, <1>3, <1>4, <2>1
  <2>3. Up(k - 1)
    BY <1>6
  <2>4. Len(u) = a /\ \A i \in 1..a : u[i] = Plain(i - 1)
    BY <2>3
  <2>5. \A j \in 1..l : f[j] = Plain(a + j - 1)
    BY <1>3
  <2>6. Len(f) = l
    OBVIOUS
  <2> HIDE DEF a, l, u, f, w, Up
  <2>7. Len(w) = a + l /\ \A i \in 1..a + l : w[i] = IF i <= a THEN u[i] ELSE f[i - a]
    BY ZenonT(40), <2>2, <2>4, <2>6, ConcatProperties
  <2>8. \A i \in 1..a + l : w[i] = Plain(i - 1)
    <3> TAKE i \in 1..a + l
    <3>1. CASE i <= a
      <4>1. i \in 1..a
        BY <2>2, <3>1
      <4> QED BY <2>4, <2>7, <3>1, <4>1
    <3>2. CASE ~(i <= a)
      <4>1. i - a \in 1..l /\ a + (i - a) - 1 = i - 1
        BY <2>2, <3>2
      <4> QED BY <2>5, <2>7, <3>2, <4>1
    <3> QED BY <3>1, <3>2
  <2>9. Up(k)
    BY <2>2, <2>7, <2>8 DEF Up, w
  <2> QED BY <2>1, <2>9
<1>7. n \in T
  <2>1. \A k \in 0..n : k \in T
    <3> HIDE DEF T
    <3> QED BY <1>1, <1>5, <1>6, Induction
  <2>2. n \in 0..n
    BY <1>1
  <2> QED BY <2>1, <2>2
<1> DEFINE f == FlattenSeq(frames)
<1>8. f \in Seq(Int) /\ Len(f) = to /\ \A i \in 1..to : f[i] = Plain(i - 1)
  <2>1. Up(n) /\ n \in 0..n
    BY <1>1, <1>7
  <2> QED BY <1>3, <1>4, <2>1
<1> HIDE DEF f
<1>9. f = [i \in 1..to |-> Plain(i - 1)]
  <2>1. DOMAIN f = 1..to /\ f = [i \in DOMAIN f |-> f[i]]
    BY <1>8, LenProperties
  <2> QED BY <1>8, <2>1
<1>10. UnpackedOf(frames) = to /\ Filled(frames)
  BY <1>1, <1>2, UnpackedIs DEF Covers, Filled
<1> QED BY <1>9, <1>10 DEF f

-------------------------------------------------------------------------------
(* Writing *)

Buffers == [start : Nat, data : Seq(Int)]
CellsIn(b) == b.start..b.start + Len(b.data) - 1

\* What a target holds: a drive of n cells, or a file of up to n.
Holds(cells, drive, n, s) ==
  /\ n \in Nat /\ s \in Nat \ {0}
  /\ drive => n % s = 0 /\ cells \in [0..n - 1 -> Int]
  /\ ~drive => s = 1 /\ \E k \in 0..n : cells \in [0..k - 1 -> Int]

\* What a write of a buffer does.
Rewritten(r, cells, b) ==
  /\ \A c \in CellsIn(b) : c \in DOMAIN r /\ r[c] = b.data[c - b.start + 1]
  /\ \A c \in DOMAIN cells \ CellsIn(b) : c \in DOMAIN r /\ r[c] = cells[c]
  /\ \A c \in DOMAIN r \ (DOMAIN cells \cup CellsIn(b)) : r[c] = Zero

\* Where a buffer starts and what it holds.
LEMMA BufferFacts ==
  ASSUME NEW b \in Buffers
  PROVE  /\ b.start \in Nat /\ b.data \in Seq(Int) /\ Len(b.data) \in Nat
         /\ \A i \in 1..Len(b.data) : b.data[i] \in Int
<1>1. b.start \in Nat /\ b.data \in Seq(Int)
  BY DEF Buffers
<1> QED BY <1>1, LenProperties, ElementOfSeq

\* What Patched changes, for a buffer of cells.
LEMMA PatchedFacts ==
  ASSUME NEW k \in Nat, NEW cells \in [0..k - 1 -> Int], NEW b \in Buffers
  PROVE  LET r == Patched(cells, b.start, b.data)
             m == Most(k, b.start + Len(b.data))
         IN  m \in Nat /\ r \in [0..m - 1 -> Int] /\ Rewritten(r, cells, b)
<1> DEFINE a == b.start
           l == Len(b.data)
           r == Patched(cells, b.start, b.data)
           m == Most(k, a + l)
<1>1. a \in Nat /\ l \in Nat /\ \A i \in 1..l : b.data[i] \in Int
  BY BufferFacts
<1>2. DOMAIN cells = 0..k - 1 /\ \A c \in 0..k - 1 : cells[c] \in Int
  OBVIOUS
<1>3. r = [c \in 0..k - 1 \cup 0..a + l - 1 |->
             CASE c \in a..a + l - 1 -> b.data[c - a + 1]
               [] c \in 0..k - 1 \ (a..a + l - 1) -> cells[c]
               [] OTHER -> Zero]
  BY <1>2 DEF Patched
<1>4. CellsIn(b) = a..a + l - 1
  BY DEF CellsIn
<1> HIDE DEF a, l, r
<1>5. m \in Nat /\ 0..m - 1 = 0..k - 1 \cup 0..a + l - 1
  BY <1>1 DEF Most
<1> HIDE DEF m
<1>6. \A c \in a..a + l - 1 : c \in 0..a + l - 1 /\ c - a + 1 \in 1..l
  BY <1>1
<1>7. \A c \in a..a + l - 1 : r[c] = b.data[c - a + 1]
  BY <1>3, <1>6
<1>8. \A c \in 0..k - 1 \ (a..a + l - 1) : r[c] = cells[c]
  BY <1>3
<1>9. \A c \in (0..a + l - 1) \ (0..k - 1 \cup a..a + l - 1) : r[c] = Zero
  BY <1>3
<1>10. DOMAIN r = 0..k - 1 \cup 0..a + l - 1
  BY <1>3
<1>11. \A c \in DOMAIN r : r[c] \in Int
  <2> TAKE c \in DOMAIN r
  <2>1. CASE c \in a..a + l - 1
    BY <1>1, <1>6, <1>7, <2>1
  <2>2. CASE c \in 0..k - 1 \ (a..a + l - 1)
    BY <1>2, <1>8, <2>2
  <2>3. CASE c \in (0..a + l - 1) \ (0..k - 1 \cup a..a + l - 1)
    BY <1>9, <2>3 DEF Zero
  <2> QED BY <1>10, <2>1, <2>2, <2>3
<1>12. r \in [0..m - 1 -> Int]
  <2>1. r = [c \in DOMAIN r |-> r[c]]
    BY <1>3
  <2> QED BY <1>5, <1>10, <1>11, <2>1
<1>13. Rewritten(r, cells, b)
  <2>1. \A c \in CellsIn(b) : c \in DOMAIN r /\ r[c] = b.data[c - b.start + 1]
    BY <1>4, <1>6, <1>7, <1>10 DEF a
  <2>2. \A c \in DOMAIN cells \ CellsIn(b) : c \in DOMAIN r /\ r[c] = cells[c]
    BY <1>2, <1>4, <1>8, <1>10
  <2>3. \A c \in DOMAIN r \ (DOMAIN cells \cup CellsIn(b)) : r[c] = Zero
    BY <1>2, <1>4, <1>9, <1>10
  <2> QED BY <2>1, <2>2, <2>3 DEF Rewritten
<1> QED BY <1>5, <1>12, <1>13 DEF m, a, l, r

\* A write within the target changes the buffer's cells and nothing else.
LEMMA WriteFacts ==
  ASSUME NEW cells, NEW drive \in BOOLEAN, NEW n, NEW s, Holds(cells, drive, n, s),
         NEW b \in Buffers, b.start + Len(b.data) <= n
  PROVE  /\ Holds(WriteAt(cells, b.start, b.data, s), drive, n, s)
         /\ Rewritten(WriteAt(cells, b.start, b.data, s), cells, b)
<1> DEFINE a == b.start
           l == Len(b.data)
           r == Patched(cells, b.start, b.data)
<1>1. a \in Nat /\ l \in Nat /\ b.data \in Seq(Int) /\ n \in Nat /\ s \in Nat \ {0}
  BY BufferFacts DEF Holds
<1>2. CASE drive
  <2>1. n % s = 0 /\ cells \in [0..n - 1 -> Int]
    BY <1>2 DEF Holds
  <2>2. WriteAt(cells, b.start, b.data, s) = r
    BY SMTT(40), <1>1, <2>1, WriteAtIsExact
  <2>3. Most(n, a + l) = n
    BY SMTT(40), <1>1 DEF Most
  <2>4. r \in [0..n - 1 -> Int] /\ Rewritten(r, cells, b)
    <3>1. cells \in [0..n - 1 -> Int]
      BY <2>1
    <3>2. r \in [0..Most(n, a + l) - 1 -> Int] /\ Rewritten(r, cells, b)
      BY <1>1, <3>1, PatchedFacts
    <3> HIDE DEF r
    <3> QED BY <2>3, <3>2
  <2> HIDE DEF r
  <2>5. Holds(r, drive, n, s)
    BY <1>1, <1>2, <2>1, <2>4 DEF Holds
  <2> QED BY <2>2, <2>4, <2>5
<1>3. CASE ~drive
  <2>1. PICK k \in 0..n : s = 1 /\ cells \in [0..k - 1 -> Int]
    BY <1>3 DEF Holds
  <2>2. WriteAt(cells, b.start, b.data, s) = r
    <3>1. WriteBody(a, l, 1) = l
      <4>1. a % 1 = 0 /\ l % 1 = 0
        <5>1. \A x \in Nat : x % 1 = 0
          OBVIOUS
        <5> HIDE DEF a, l
        <5> QED BY <1>1, <5>1
      <4> HIDE DEF a, l
      <4>2. WriteBody(a, l, 1) = l - 0
        BY <4>1 DEF WriteBody
      <4> QED BY <1>1, <4>2
    <3>2. SubSeq(b.data, 1, l) = b.data
      <4> DEFINE d == b.data
                 e == SubSeq(d, 1, l)
      <4>1. d \in Seq(Int) /\ Len(d) = l
        BY <1>1
      <4> HIDE DEF d
      <4>2. e \in Seq(Int) /\ Len(e) = l /\ \A i \in 1..l : e[i] = d[i]
        BY <1>1, <4>1
      <4> HIDE DEF e
      <4>3. e = d
        BY <4>1, <4>2, SeqEqual
      <4> QED BY <4>3 DEF d, e
    <3>3. WriteAt(cells, b.start, b.data, 1) =
            IF WriteBody(a, l, 1) = l THEN Patched(cells, a, SubSeq(b.data, 1, WriteBody(a, l, 1)))
            ELSE WriteAt(cells, b.start, b.data, 1)
      BY DEF WriteAt
    <3> QED BY <2>1, <3>1, <3>2, <3>3
  <2> DEFINE m == Most(k, a + l)
  <2>3. k \in Nat
    BY <1>1
  <2>4. m \in Nat /\ r \in [0..m - 1 -> Int] /\ Rewritten(r, cells, b)
    BY <2>1, <2>3, PatchedFacts
  <2>5. m \in 0..n
    BY <1>1, <2>3 DEF Most
  <2> HIDE DEF r, m
  <2>6. Holds(r, drive, n, s)
    BY <1>1, <1>3, <2>1, <2>4, <2>5 DEF Holds
  <2> QED BY <2>2, <2>4, <2>6
<1> QED BY <1>2, <1>3

\* How buffers are written, one after the other.
Takes(A, buffers) ==
  \A a \in A : \A i \in 1..Len(buffers) :
    WriteAt(a, buffers[i].start, buffers[i].data, target.sector) \in A

\* Writing buffers one after the other, step by step.
LEMMA WrittenSteps ==
  ASSUME NEW A, NEW cells \in A, NEW buffers \in Seq(Buffers), Takes(A, buffers)
  PROVE  \E g \in [0..Len(buffers) -> A] :
           /\ g[0] = cells /\ g[Len(buffers)] = Written(cells, buffers)
           /\ \A i \in 1..Len(buffers) : g[i] = WriteAt(g[i - 1], buffers[i].start, buffers[i].data, target.sector)
<1> DEFINE n == Len(buffers)
           F == [p \in A \X (1..n) |-> WriteAt(p[1], buffers[p[2]].start, buffers[p[2]].data, target.sector)]
           P(iter) == iter = [x \in SUBSET (1..n) |->
                                IF x = {} THEN cells
                                ELSE WriteAt(iter[x \ {Max(x)}], buffers[Max(x)].start, buffers[Max(x)].data, target.sector)]
           c == CHOOSE iter : P(iter)
<1>0. n \in Nat /\ DOMAIN buffers = 1..n /\ \A i \in 1..n : buffers[i] \in Buffers
  BY LenProperties, ElementOfSeq
<1>1. Written(cells, buffers) = c[1..n]
  BY <1>0 DEF Written, FoldLeft, MapThenFoldSet
<1>2. cells \in A
  OBVIOUS
<1>3. \A a \in A : \A i \in 1..n : WriteAt(a, buffers[i].start, buffers[i].data, target.sector) \in A
  BY DEF Takes
<1>4. IsOperation(F, A, n)
  BY <1>3 DEF IsOperation
<1>5. \A a \in A : \A i \in 1..n : F[<<a, i>>] = WriteAt(a, buffers[i].start, buffers[i].data, target.sector)
  OBVIOUS
<1> HIDE DEF F, n
<1>6. \A x \in SUBSET (1..n) : x # {} => Max(x) \in 1..n
  BY <1>0, MaxIs
<1>7. P(c)
  <2>1. PICK iter : IsFold(iter, A, n, cells, F)
    BY <1>0, <1>2, <1>4, FoldExists
  <2>2. \A x \in SUBSET (1..n) :
          iter[x] = IF x = {} THEN cells
                    ELSE WriteAt(iter[x \ {Max(x)}], buffers[Max(x)].start, buffers[Max(x)].data, target.sector)
    <3> TAKE x \in SUBSET (1..n)
    <3>1. iter[x \ {Max(x)}] \in A
      BY <2>1 DEF IsFold
    <3>2. iter[x] = IF x = {} THEN cells ELSE F[<<iter[x \ {Max(x)}], Max(x)>>]
      BY <2>1 DEF IsFold
    <3> QED BY <1>5, <1>6, <3>1, <3>2
  <2>3. P(iter)
    BY <2>1, <2>2 DEF IsFold
  <2> HIDE DEF P
  <2> QED BY <2>3
<1> HIDE DEF c
<1>8. c[{}] = cells
  BY <1>7
<1>9. ASSUME NEW x \in SUBSET (1..n), x # {}, c[x \ {Max(x)}] \in A
      PROVE  c[x] = F[<<c[x \ {Max(x)}], Max(x)>>]
  <2>1. c[x] = WriteAt(c[x \ {Max(x)}], buffers[Max(x)].start, buffers[Max(x)].data, target.sector)
    BY <1>7, <1>9
  <2> HIDE DEF P
  <2> QED BY <1>5, <1>6, <1>9, <2>1
<1> HIDE DEF P
<1>10. PICK g : IsSteps(g, A, n, cells, F) /\ g[n] = c[1..n]
  <2>1. Follows(c, A, n, cells, F)
    BY <1>8, <1>9 DEF Follows
  <2> QED BY <1>0, <1>2, <1>4, <2>1, FoldSteps
<1>11. \A i \in 1..n : g[i] = WriteAt(g[i - 1], buffers[i].start, buffers[i].data, target.sector)
  <2> TAKE i \in 1..n
  <2>1. i - 1 \in 0..n
    BY <1>0
  <2>2. g[i - 1] \in A /\ g[i] = F[<<g[i - 1], i>>]
    BY <1>10, <2>1 DEF IsSteps
  <2> QED BY <1>5, <2>2
<1>12. g \in [0..n -> A] /\ g[0] = cells /\ g[n] = Written(cells, buffers)
  BY <1>1, <1>10 DEF IsSteps
<1> QED BY <1>11, <1>12 DEF n

\* Buffers that lie within cells U and within the target.
Among(buffers, U, n) ==
  /\ buffers \in Seq(Buffers)
  /\ \A i \in DOMAIN buffers : CellsIn(buffers[i]) \subseteq U /\ buffers[i].start + Len(buffers[i].data) <= n
\* Buffers that hold the drive's own data.
Own(b) == IsOwn(b.data, b.start, Len(b.data))

\* What buffers leave on a target: only their cells change, and with the drive's own data
\* whatever was in place stays in place.
LEMMA WrittenFacts ==
  ASSUME NEW cells, NEW n, target.drive \in BOOLEAN, Holds(cells, target.drive, n, target.sector),
         NEW U, NEW buffers, Among(buffers, U, n)
  PROVE  LET r == Written(cells, buffers)
         IN  /\ Holds(r, target.drive, n, target.sector)
             /\ \A c \in DOMAIN cells : c \in DOMAIN r
             /\ \A c \in DOMAIN r \ U : r[c] = IF c \in DOMAIN cells THEN cells[c] ELSE Zero
             /\ (\A i \in DOMAIN buffers : Own(buffers[i])) =>
                  /\ \A c \in DOMAIN cells : cells[c] = c => r[c] = c
                  /\ \A i \in DOMAIN buffers : \A c \in CellsIn(buffers[i]) : c \in DOMAIN r /\ r[c] = c
<1> DEFINE m == Len(buffers)
           s == target.sector
           drive == target.drive
           A == {a \in [0..n - 1 -> Int] \cup UNION {[0..k - 1 -> Int] : k \in 0..n} : Holds(a, drive, n, s)}
           W == Written(cells, buffers)
           own == \A i \in DOMAIN buffers : Own(buffers[i])
<1>1. /\ m \in Nat /\ DOMAIN buffers = 1..m /\ buffers \in Seq(Buffers)
      /\ \A i \in 1..m : /\ buffers[i] \in Buffers /\ CellsIn(buffers[i]) \subseteq U
                         /\ buffers[i].start + Len(buffers[i].data) <= n
  BY LenProperties, ElementOfSeq DEF Among
<1>2. \A a : Holds(a, drive, n, s) => a \in A
  BY DEF Holds
<1>3. \A a \in A : Holds(a, drive, n, s)
  OBVIOUS
<1>4. \A a \in A : \A i \in 1..m :
        /\ WriteAt(a, buffers[i].start, buffers[i].data, s) \in A
        /\ Rewritten(WriteAt(a, buffers[i].start, buffers[i].data, s), a, buffers[i])
  <2> HIDE DEF A, drive, s
  <2> TAKE a \in A
  <2> TAKE i \in 1..m
  <2>1. Holds(a, drive, n, s) /\ drive \in BOOLEAN
    BY <1>3 DEF drive
  <2>2. buffers[i] \in Buffers /\ buffers[i].start + Len(buffers[i].data) <= n
    BY <1>1
  <2>3. /\ Holds(WriteAt(a, buffers[i].start, buffers[i].data, s), drive, n, s)
        /\ Rewritten(WriteAt(a, buffers[i].start, buffers[i].data, s), a, buffers[i])
    BY <2>1, <2>2, WriteFacts
  <2> QED BY <1>2, <2>3
<1>5. cells \in A
  BY <1>2
<1> HIDE DEF A
<1>6. PICK g \in [0..m -> A] :
        /\ g[0] = cells /\ g[m] = W
        /\ \A i \in 1..m : g[i] = WriteAt(g[i - 1], buffers[i].start, buffers[i].data, target.sector)
  <2>1. buffers \in Seq(Buffers)
    BY <1>1
  <2>2. Takes(A, buffers)
    BY <1>4 DEF Takes
  <2> QED BY <1>5, <2>1, <2>2, WrittenSteps
<1> HIDE DEF W, s, drive, m, own
<1>7. \A i \in 1..m : Rewritten(g[i], g[i - 1], buffers[i])
  <2> TAKE i \in 1..m
  <2>1. g[i - 1] \in A
    <3>1. i - 1 \in 0..m
      BY <1>1
    <3> QED BY <3>1
  <2> QED BY <1>4, <1>6, <2>1 DEF s
<1> DEFINE Keeps(r) == /\ \A c \in DOMAIN cells : c \in DOMAIN r
                       /\ \A c \in DOMAIN r \ U : r[c] = IF c \in DOMAIN cells THEN cells[c] ELSE Zero
           Stays(r) == \A c \in DOMAIN cells : cells[c] = c => r[c] = c
           Gets(r, k) == \A i \in 1..k : \A c \in CellsIn(buffers[i]) : c \in DOMAIN r /\ r[c] = c
           T == {k \in 0..m : Keeps(g[k]) /\ (own => Stays(g[k]) /\ Gets(g[k], k))}
<1>8. 0 \in T
  <2>1. 0 \in 0..m /\ 1..0 = {}
    BY <1>1
  <2> QED BY <1>6, <2>1
<1>9. ASSUME NEW k \in 1..m, k - 1 \in T
      PROVE  k \in T
  <2> DEFINE a == g[k - 1]
             r == g[k]
             b == buffers[k]
  <2>1. k \in 0..m /\ k - 1 \in Nat /\ \A i \in 1..k : i = k \/ i \in 1..k - 1
    BY <1>1
  <2>2. Keeps(a) /\ (own => Stays(a) /\ Gets(a, k - 1))
    BY <1>9
  <2>3. /\ \A c \in CellsIn(b) : c \in DOMAIN r /\ r[c] = b.data[c - b.start + 1]
        /\ \A c \in DOMAIN a \ CellsIn(b) : c \in DOMAIN r /\ r[c] = a[c]
        /\ \A c \in DOMAIN r \ (DOMAIN a \cup CellsIn(b)) : r[c] = Zero
    BY <1>7 DEF Rewritten
  <2>4. CellsIn(b) \subseteq U
    BY <1>1
  <2>5. own => \A c \in CellsIn(b) : r[c] = c
    <3> SUFFICES ASSUME own, NEW c \in CellsIn(b)
                 PROVE  r[c] = c
      OBVIOUS
    <3> DEFINE x == b.start
               l == Len(b.data)
    <3>1. \A j \in 1..l : b.data[j] = x + j - 1
      <4>1. Own(b)
        BY <1>1 DEF own
      <4> QED BY <4>1 DEF Own, IsOwn
    <3>2. x \in Nat /\ l \in Nat
      BY <1>1, BufferFacts
    <3>3. c \in x..x + l - 1
      BY DEF CellsIn
    <3>4. r[c] = b.data[c - x + 1]
      BY <2>3
    <3> HIDE DEF x, l, r, a, b
    <3>5. c - x + 1 \in 1..l /\ x + (c - x + 1) - 1 = c
      BY <3>2, <3>3
    <3> QED BY <3>1, <3>4, <3>5
  <2> HIDE DEF a, r, b, own
  <2>6. Keeps(r)
    <3>1. \A c \in DOMAIN cells : c \in DOMAIN r
      BY <2>2, <2>3
    <3>2. \A c \in DOMAIN r \ U : r[c] = IF c \in DOMAIN cells THEN cells[c] ELSE Zero
      BY <2>2, <2>3, <2>4
    <3> QED BY <3>1, <3>2
  <2>7. own => Stays(r)
    BY <2>2, <2>3, <2>5
  <2>8. own => Gets(r, k)
    <3> SUFFICES ASSUME own, NEW i \in 1..k, NEW c \in CellsIn(buffers[i])
                 PROVE  c \in DOMAIN r /\ r[c] = c
      OBVIOUS
    <3>1. CASE i = k
      BY <2>3, <2>5, <3>1 DEF b
    <3>2. CASE i \in 1..k - 1
      <4>1. c \in DOMAIN a /\ a[c] = c
        BY <2>2, <3>2
      <4> QED BY <2>3, <2>5, <4>1
    <3> QED BY <2>1, <3>1, <3>2
  <2>9. Keeps(r) /\ (own => Stays(r) /\ Gets(r, k))
    <3> HIDE DEF Keeps, Stays, Gets
    <3> QED BY <2>6, <2>7, <2>8
  <2> HIDE DEF Keeps, Stays, Gets
  <2> QED BY <2>1, <2>9 DEF r
<1>10. m \in T
  <2>1. \A k \in 0..m : k \in T
    <3> HIDE DEF T
    <3> QED BY <1>1, <1>8, <1>9, Induction
  <2>2. m \in 0..m
    BY <1>1
  <2> QED BY <2>1, <2>2
<1>11. Keeps(W) /\ (own => Stays(W) /\ Gets(W, m))
  <2> HIDE DEF Keeps, Stays, Gets
  <2>1. Keeps(g[m]) /\ (own => Stays(g[m]) /\ Gets(g[m], m))
    BY <1>10
  <2> QED BY <1>6, <2>1
<1>12. Holds(W, drive, n, s)
  <2>1. m \in 0..m
    BY <1>1
  <2> QED BY <1>3, <1>6, <2>1
<1>13. own => \A i \in DOMAIN buffers : \A c \in CellsIn(buffers[i]) : c \in DOMAIN W /\ W[c] = c
  BY <1>1, <1>11
<1> QED BY <1>11, <1>12, <1>13 DEF W, drive, s, own

-------------------------------------------------------------------------------
(* Filling buffers *)

\* A write that fails has written a beginning of the buffers.
LEMMA TornAmong ==
  ASSUME NEW U, NEW n \in Nat, NEW buffers, Among(buffers, U, n),
         NEW b \in DOMAIN buffers, NEW k \in 0..Len(buffers[b].data) - 1
  PROVE  Among(SubSeq(buffers, 1, b - 1) \o <<[buffers[b] EXCEPT !.data = SubSeq(@, 1, k)]>>, U, n)
<1> DEFINE m == Len(buffers)
           s == SubSeq(buffers, 1, b - 1)
           old == buffers[b]
           torn == [old EXCEPT !.data = SubSeq(@, 1, k)]
           r == s \o <<torn>>
<1>1. /\ m \in Nat /\ DOMAIN buffers = 1..m /\ buffers \in Seq(Buffers) /\ b \in 1..m
      /\ \A i \in 1..m : buffers[i] \in Buffers
      /\ \A i \in 1..m : CellsIn(buffers[i]) \subseteq U /\ buffers[i].start + Len(buffers[i].data) <= n
  BY LenProperties, ElementOfSeq DEF Among
<1>2. old \in Buffers /\ CellsIn(old) \subseteq U /\ old.start + Len(old.data) <= n
  BY <1>1
<1>3. old.start \in Nat /\ old.data \in Seq(Int) /\ Len(old.data) \in Nat /\ \A i \in 1..Len(old.data) : old.data[i] \in Int
  BY <1>2, BufferFacts
<1> HIDE DEF old
<1>4. k \in 0..Len(old.data) - 1
  BY DEF old
<1>5. /\ torn.start = old.start /\ torn.data = SubSeq(old.data, 1, k)
      /\ torn = [start |-> old.start, data |-> torn.data]
  <2>1. old = [start |-> old.start, data |-> old.data]
    BY <1>2 DEF Buffers
  <2>2. torn = [start |-> old.start, data |-> SubSeq(old.data, 1, k)]
    BY SMTT(40), <1>2, <2>1 DEF Buffers
  <2> HIDE DEF torn
  <2> QED BY <2>2
<1>6. torn.data \in Seq(Int) /\ Len(torn.data) = k
  BY SMTT(40), <1>3, <1>4, <1>5
<1> HIDE DEF torn
<1>7. torn \in Buffers
  BY <1>3, <1>5, <1>6 DEF Buffers
<1>8. CellsIn(torn) \subseteq CellsIn(old) /\ torn.start + Len(torn.data) <= n
  <2>1. CellsIn(torn) = old.start..old.start + k - 1 /\ CellsIn(old) = old.start..old.start + Len(old.data) - 1
    BY <1>5, <1>6 DEF CellsIn
  <2>2. old.start..old.start + k - 1 \subseteq old.start..old.start + Len(old.data) - 1
    BY SMTT(40), <1>3, <1>4
  <2>3. old.start + k <= n
    <3>1. n \in Nat /\ old.start + Len(old.data) <= n
      BY <1>2
    <3> QED BY SMTT(40), <1>3, <1>4, <3>1
  <2> QED BY <1>5, <1>6, <2>1, <2>2, <2>3
<1>9. s \in Seq(Buffers) /\ Len(s) = b - 1 /\ \A i \in 1..b - 1 : s[i] = buffers[i] /\ i \in 1..m
  BY <1>1
<1> HIDE DEF s, m
<1>10. r \in Seq(Buffers) /\ Len(r) = b /\ (\A i \in 1..b - 1 : r[i] = s[i]) /\ r[b] = torn
  <2>1. <<torn>> \in Seq(Buffers) /\ Len(<<torn>>) = 1 /\ <<torn>>[1] = torn
    BY <1>7
  <2>2. /\ r \in Seq(Buffers) /\ Len(r) = (b - 1) + 1
        /\ \A i \in 1..(b - 1) + 1 : r[i] = IF i <= b - 1 THEN s[i] ELSE <<torn>>[i - (b - 1)]
    <3> DEFINE x == <<torn>>
    <3>1. x \in Seq(Buffers) /\ Len(x) = 1 /\ s \in Seq(Buffers) /\ Len(s) = b - 1
      BY <1>9, <2>1
    <3> HIDE DEF x
    <3>2. /\ s \o x \in Seq(Buffers) /\ Len(s \o x) = Len(s) + Len(x)
          /\ \A i \in 1..Len(s) + Len(x) :
               (s \o x)[i] = IF i <= Len(s) THEN s[i] ELSE x[i - Len(s)]
      BY ONLY <3>1, ConcatProperties
    <3> QED BY <3>1, <3>2 DEF x
  <2>3. (b - 1) + 1 = b /\ b \in 1..b /\ ~(b <= b - 1) /\ b - (b - 1) = 1 /\ \A i \in 1..b - 1 : i <= b - 1 /\ i \in 1..b
    BY <1>1
  <2> HIDE DEF r
  <2> QED BY <2>1, <2>2, <2>3
<1> HIDE DEF r
<1>11. ASSUME NEW i \in DOMAIN r
       PROVE  CellsIn(r[i]) \subseteq U /\ r[i].start + Len(r[i].data) <= n
  <2>1. i = b \/ i \in 1..b - 1
    <3>1. DOMAIN r = 1..b
      BY <1>1, <1>10, LenProperties
    <3> QED BY <1>1, <3>1
  <2>2. CASE i = b
    BY <1>2, <1>8, <1>10, <2>2
  <2>3. CASE i \in 1..b - 1
    BY <1>1, <1>9, <1>10, <2>3
  <2> QED BY <2>1, <2>2, <2>3
<1>12. Among(r, U, n)
  BY <1>10, <1>11 DEF Among
<1> QED BY <1>12 DEF r, s, torn, old

\* The buffer that's being filled and those that are full.
Puts == [staged : Buffers, sent : Seq(Buffers)]

\* They hold used cells only, all of D among them, and the drive's own data where what's put
\* is that.
Putting(put, D, own) ==
  /\ put \in Puts /\ Len(put.staged.data) <= chunk
  /\ CellsIn(put.staged) \subseteq Used
  /\ \A i \in DOMAIN put.sent : put.sent[i].data # <<>> /\ CellsIn(put.sent[i]) \subseteq Used
  /\ own => Own(put.staged) /\ \A i \in DOMAIN put.sent : Own(put.sent[i])
  /\ \A c \in D : c \in CellsIn(put.staged) \/ \E i \in DOMAIN put.sent : c \in CellsIn(put.sent[i])

\* One cell more in a buffer.
LEMMA Continued ==
  ASSUME NEW b \in Buffers, NEW value \in Int
  PROVE  LET pos == b.start + Len(b.data)
             r == [start |-> b.start, data |-> Append(b.data, value)]
         IN  /\ r \in Buffers /\ Len(r.data) = Len(b.data) + 1
             /\ CellsIn(r) = CellsIn(b) \cup {pos}
             /\ Own(b) /\ value = pos => Own(r)
<1> DEFINE a == b.start
           d == b.data
           l == Len(b.data)
           pos == a + l
           e == Append(d, value)
           r == [start |-> a, data |-> e]
<1>1. a \in Nat /\ d \in Seq(Int) /\ l \in Nat /\ Len(d) = l
  BY BufferFacts
<1>2. CellsIn(b) = a..a + l - 1 /\ (Own(b) <=> IsOwn(d, a, l))
  BY DEF CellsIn, Own
<1> HIDE DEF a, d, l
<1>3. e \in Seq(Int) /\ Len(e) = l + 1 /\ (\A i \in 1..l : e[i] = d[i]) /\ e[l + 1] = value
  BY <1>1, AppendProperties
<1> HIDE DEF e
<1>4. r \in Buffers /\ r.start = a /\ r.data = e
  BY <1>1, <1>3 DEF Buffers
<1> HIDE DEF r
<1>5. CellsIn(r) = a..a + l - 1 \cup {a + l}
  BY SMTT(40), <1>1, <1>3, <1>4 DEF CellsIn
<1>6. ASSUME Own(b), value = a + l
      PROVE  Own(r)
  <2>1. \A i \in 1..l : d[i] = a + i - 1
    BY <1>2, <1>6 DEF IsOwn
  <2>2. \A i \in 1..l + 1 : e[i] = a + i - 1
    <3> TAKE i \in 1..l + 1
    <3>1. CASE i \in 1..l
      BY <1>3, <2>1, <3>1
    <3>2. CASE i = l + 1
      BY <1>1, <1>3, <1>6, <3>2
    <3> QED BY <1>1, <3>1, <3>2
  <2> QED BY <1>3, <1>4, <2>2 DEF Own, IsOwn
<1> QED BY <1>2, <1>3, <1>4, <1>5, <1>6 DEF r, e, a, d, l

\* A buffer of one cell.
LEMMA Started ==
  ASSUME NEW pos \in Nat, NEW value \in Int
  PROVE  LET r == [start |-> pos, data |-> <<value>>]
         IN  r \in Buffers /\ Len(r.data) = 1 /\ CellsIn(r) = {pos} /\ (value = pos => Own(r))
<1> DEFINE d == <<value>>
           r == [start |-> pos, data |-> d]
<1>1. d \in Seq(Int) /\ Len(d) = 1 /\ d[1] = value
  OBVIOUS
<1> HIDE DEF d
<1>2. r \in Buffers /\ r.start = pos /\ r.data = d
  BY <1>1 DEF Buffers
<1> HIDE DEF r
<1>3. CellsIn(r) = {pos}
  <2>1. CellsIn(r) = pos..pos + 1 - 1
    BY <1>1, <1>2 DEF CellsIn
  <2>2. pos..pos + 1 - 1 = {pos}
    OBVIOUS
  <2> QED BY <2>1, <2>2
<1>4. value = pos => Own(r)
  <2>1. \A j \in 1..1 : j = 1 /\ pos + j - 1 = pos
    OBVIOUS
  <2> QED BY <1>1, <1>2, <2>1 DEF Own, IsOwn
<1> QED BY <1>1, <1>2, <1>3, <1>4 DEF r, d

\* Putting a used cell.
LEMMA PutFacts ==
  ASSUME NEW put, NEW D, NEW own \in BOOLEAN, Putting(put, D, own), chunk \in Nat \ {0},
         NEW pos \in Nat, pos \in Used, NEW value \in Int, own => value = pos
  PROVE  Putting(Put(put, pos, value), D \cup {pos}, own)
<1> DEFINE staged == put.staged
           sent == put.sent
           new == Put(put, pos, value)
<1>1. staged \in Buffers /\ sent \in Seq(Buffers) /\ put = [staged |-> staged, sent |-> sent]
  BY DEF Putting, Puts
<1>2. /\ Len(staged.data) <= chunk /\ CellsIn(staged) \subseteq Used
      /\ \A i \in DOMAIN sent : sent[i].data # <<>> /\ CellsIn(sent[i]) \subseteq Used
      /\ own => Own(staged) /\ \A i \in DOMAIN sent : Own(sent[i])
      /\ \A c \in D : c \in CellsIn(staged) \/ \E i \in DOMAIN sent : c \in CellsIn(sent[i])
  BY DEF Putting
<1>3. staged.start \in Nat /\ staged.data \in Seq(Int) /\ Len(staged.data) \in Nat
      /\ staged = [start |-> staged.start, data |-> staged.data]
  BY <1>1, BufferFacts DEF Buffers
<1> HIDE DEF staged, sent
<1>4. CASE staged.data # <<>> /\ Continues(staged, pos)
  <2> DEFINE r == [start |-> staged.start, data |-> Append(staged.data, value)]
  <2>1. pos = staged.start + Len(staged.data) /\ Len(staged.data) < chunk
    BY <1>4 DEF Continues
  <2>2. new = [staged |-> r, sent |-> sent]
    BY <1>1, <1>3, <1>4 DEF Put, staged, sent
  <2>3. /\ r \in Buffers /\ Len(r.data) = Len(staged.data) + 1
        /\ CellsIn(r) = CellsIn(staged) \cup {pos}
        /\ Own(staged) /\ value = pos => Own(r)
    BY <1>1, <2>1, Continued
  <2> HIDE DEF r, new
  <2>4. new \in Puts /\ new.staged = r /\ new.sent = sent
    BY <1>1, <2>2, <2>3 DEF Puts
  <2>5. Len(r.data) <= chunk
    BY <1>3, <2>1, <2>3
  <2>6. CellsIn(r) \subseteq Used
    BY <1>2, <2>3
  <2>7. own => Own(r) /\ \A i \in DOMAIN sent : Own(sent[i])
    BY <1>2, <2>1, <2>3
  <2>8. \A c \in D \cup {pos} : c \in CellsIn(r) \/ \E i \in DOMAIN sent : c \in CellsIn(sent[i])
    BY <1>2, <2>3
  <2>9. Putting(new, D \cup {pos}, own)
    BY <1>2, <2>4, <2>5, <2>6, <2>7, <2>8 DEF Putting
  <2> QED BY <2>9 DEF new
<1>5. CASE ~(staged.data # <<>> /\ Continues(staged, pos))
  <2> DEFINE r == [start |-> pos, data |-> <<value>>]
             z == IF staged.data = <<>> THEN sent ELSE Append(sent, staged)
  <2>1. new = [staged |-> r, sent |-> z]
    BY <1>5 DEF Put, staged, sent
  <2>2. r \in Buffers /\ Len(r.data) = 1 /\ CellsIn(r) = {pos} /\ (value = pos => Own(r))
    BY Started
  <2>3. z \in Seq(Buffers)
    BY <1>1
  <2>4. /\ \A i \in DOMAIN z : (z[i] = staged /\ staged.data # <<>>) \/ \E j \in DOMAIN sent : z[i] = sent[j]
        /\ \A c : (c \in CellsIn(staged) \/ \E i \in DOMAIN sent : c \in CellsIn(sent[i])) =>
                    \E i \in DOMAIN z : c \in CellsIn(z[i])
    <3>1. CASE staged.data = <<>>
      <4>1. CellsIn(staged) = {}
        BY <1>3, <3>1 DEF CellsIn
      <4> QED BY <3>1, <4>1
    <3>2. CASE staged.data # <<>>
      <4>1. Len(sent) \in Nat /\ DOMAIN sent = 1..Len(sent)
        BY <1>1, LenProperties
      <4>2. /\ z = Append(sent, staged) /\ DOMAIN z = 1..Len(sent) + 1
            /\ (\A i \in 1..Len(sent) : z[i] = sent[i]) /\ z[Len(sent) + 1] = staged
        <5>1. z = Append(sent, staged)
          BY <3>2
        <5>2. Len(z) = Len(sent) + 1
          BY <1>1, <5>1, AppendProperties
        <5> HIDE DEF z
        <5> QED BY <1>1, <2>3, <4>1, <5>1, <5>2, AppendProperties, LenProperties
      <4> HIDE DEF z
      <4>3. \A i \in 1..Len(sent) + 1 : i \in 1..Len(sent) \/ i = Len(sent) + 1
        BY <4>1
      <4>4. \A i \in 1..Len(sent) : i \in 1..Len(sent) + 1
        BY <4>1
      <4>5. Len(sent) + 1 \in 1..Len(sent) + 1
        BY <4>1
      <4>6. \A i \in DOMAIN z : (z[i] = staged /\ staged.data # <<>>) \/ \E j \in DOMAIN sent : z[i] = sent[j]
        BY <3>2, <4>1, <4>2, <4>3
      <4>7. ASSUME NEW c, c \in CellsIn(staged) \/ \E i \in DOMAIN sent : c \in CellsIn(sent[i])
            PROVE  \E i \in DOMAIN z : c \in CellsIn(z[i])
        BY <4>1, <4>2, <4>4, <4>5, <4>7
      <4> QED BY <4>6, <4>7
    <3> QED BY <3>1, <3>2
  <2> HIDE DEF r, z, new
  <2>5. new \in Puts /\ new.staged = r /\ new.sent = z
    BY <2>1, <2>2, <2>3 DEF Puts
  <2>6. Len(r.data) <= chunk
    BY <2>2
  <2>7. /\ CellsIn(r) \subseteq Used
        /\ \A i \in DOMAIN z : z[i].data # <<>> /\ CellsIn(z[i]) \subseteq Used
    BY <1>2, <2>2, <2>4
  <2>8. own => Own(r) /\ \A i \in DOMAIN z : Own(z[i])
    BY <1>2, <2>2, <2>4
  <2>9. \A c \in D \cup {pos} : c \in CellsIn(r) \/ \E i \in DOMAIN z : c \in CellsIn(z[i])
    BY <1>2, <2>2, <2>4
  <2>10. Putting(new, D \cup {pos}, own)
    BY <2>5, <2>6, <2>7, <2>8, <2>9 DEF Putting
  <2> QED BY <2>10 DEF new
<1> QED BY <1>4, <1>5

\* Putting a value leaves buffers behind (PartialTarget::write_all).
LEMMA PutType ==
  ASSUME NEW put \in Puts, NEW pos \in Nat, NEW value \in Int
  PROVE  Put(put, pos, value) \in Puts
<1>1. put.staged \in Buffers /\ put.sent \in Seq(Buffers) /\ put.staged.data \in Seq(Int)
  BY DEF Puts, Buffers
<1>2. <<value>> \in Seq(Int) /\ Append(put.staged.data, value) \in Seq(Int)
      /\ Append(put.sent, put.staged) \in Seq(Buffers)
  BY <1>1
<1>3. [start |-> pos, data |-> <<value>>] \in Buffers
  BY <1>2 DEF Buffers
<1>4. [put EXCEPT !.staged.data = Append(@, value)] \in Puts
  BY <1>1, <1>2 DEF Puts, Buffers
<1> QED BY <1>1, <1>2, <1>3, <1>4 DEF Put, Puts

\* So does passing a cell, used or free.
LEMMA PutCellType ==
  ASSUME NEW state \in [put : Puts, pos : Nat], NEW value \in Int
  PROVE  PutCell(state, value) \in [put : Puts, pos : Nat]
<1>1. state.put \in Puts /\ state.pos \in Nat
  OBVIOUS
<1>2. Put(state.put, state.pos, value) \in Puts
  BY <1>1, PutType
<1> QED BY <1>1, <1>2 DEF PutCell

Begun(job) == [put |-> [staged |-> staging, sent |-> <<>>], pos |-> job.start]

\* How the used cells of a frame are put, one after the other.
LEMMA PutSteps ==
  ASSUME NEW job \in Buffers, staging \in Buffers, NEW data \in Seq(Int), data = job.data
  PROVE  \E g \in [0..Len(data) -> [put : Puts, pos : Nat]] :
           /\ g[0] = Begun(job) /\ g[Len(data)] = FoldLeft(PutCell, Begun(job), job.data)
           /\ \A i \in 1..Len(data) : g[i] = PutCell(g[i - 1], data[i])
<1> DEFINE A == [put : Puts, pos : Nat]
           n == Len(data)
           F == [p \in A \X (1..n) |-> PutCell(p[1], data[p[2]])]
           P(iter) == iter = [x \in SUBSET (1..n) |->
                                IF x = {} THEN Begun(job)
                                ELSE PutCell(iter[x \ {Max(x)}], data[Max(x)])]
           c == CHOOSE iter : P(iter)
<1>0. n \in Nat /\ DOMAIN data = 1..n /\ \A i \in 1..n : data[i] \in Int
  BY LenProperties, ElementOfSeq
<1>1. FoldLeft(PutCell, Begun(job), job.data) = c[1..n]
  BY <1>0 DEF PutCell, FoldLeft, MapThenFoldSet
<1>2. Begun(job) \in A
  BY DEF Begun, Puts, Buffers
<1>3. \A a \in A : \A i \in 1..n : PutCell(a, data[i]) \in A
  BY <1>0, PutCellType
<1> HIDE DEF A
<1>4. IsOperation(F, A, n)
  BY <1>3 DEF IsOperation
<1>5. \A a \in A : \A i \in 1..n : F[<<a, i>>] = PutCell(a, data[i])
  OBVIOUS
<1> HIDE DEF F, n
<1>6. \A x \in SUBSET (1..n) : x # {} => Max(x) \in 1..n
  BY <1>0, MaxIs
<1>7. P(c)
  <2>1. PICK iter : IsFold(iter, A, n, Begun(job), F)
    BY <1>0, <1>2, <1>4, FoldExists
  <2>2. \A x \in SUBSET (1..n) :
          iter[x] = IF x = {} THEN Begun(job)
                    ELSE PutCell(iter[x \ {Max(x)}], data[Max(x)])
    <3> TAKE x \in SUBSET (1..n)
    <3>1. iter[x \ {Max(x)}] \in A
      BY <2>1 DEF IsFold
    <3>2. iter[x] = IF x = {} THEN Begun(job) ELSE F[<<iter[x \ {Max(x)}], Max(x)>>]
      BY <2>1 DEF IsFold
    <3> QED BY <1>5, <1>6, <3>1, <3>2
  <2>3. P(iter)
    BY <2>1, <2>2 DEF IsFold
  <2> HIDE DEF P
  <2> QED BY <2>3
<1> HIDE DEF c
<1>8. c[{}] = Begun(job)
  BY <1>7
<1>9. ASSUME NEW x \in SUBSET (1..n), x # {}, c[x \ {Max(x)}] \in A
      PROVE  c[x] = F[<<c[x \ {Max(x)}], Max(x)>>]
  <2>1. c[x] = PutCell(c[x \ {Max(x)}], data[Max(x)])
    BY <1>7, <1>9
  <2> HIDE DEF P
  <2> QED BY <1>5, <1>6, <1>9, <2>1
<1> HIDE DEF P
<1>10. PICK g : IsSteps(g, A, n, Begun(job), F) /\ g[n] = c[1..n]
  <2>1. Follows(c, A, n, Begun(job), F)
    BY <1>8, <1>9 DEF Follows
  <2> QED BY <1>0, <1>2, <1>4, <2>1, FoldSteps
<1>11. \A i \in 1..n : g[i] = PutCell(g[i - 1], data[i])
  <2> TAKE i \in 1..n
  <2>1. i - 1 \in 0..n
    BY <1>0
  <2>2. g[i - 1] \in A /\ g[i] = F[<<g[i - 1], i>>]
    BY <1>10, <2>1 DEF IsSteps
  <2> QED BY <1>5, <2>2
<1>12. g \in [0..n -> A] /\ g[0] = Begun(job) /\ g[n] = FoldLeft(PutCell, Begun(job), job.data)
  BY <1>1, <1>10 DEF IsSteps
<1> QED BY <1>11, <1>12 DEF A, n

\* A frame, or a part of one, holds the drive's own data where it's used.
OwnUsed(job) ==
  \A i \in 1..Len(job.data) : job.start + i - 1 \in Used => job.data[i] = job.start + i - 1

\* Staging::put_used puts the used cells of a frame after those that wait, and no others.
LEMMA PutUsedFacts ==
  ASSUME IsMap(map), source.size \in Nat, chunk \in Nat \ {0},
         staging \in Buffers, Len(staging.data) <= chunk, CellsIn(staging) \subseteq Used,
         NEW job \in Buffers, NEW own \in BOOLEAN, own => Own(staging) /\ OwnUsed(job)
  PROVE  Putting(PutUsed(job), CellsIn(staging) \cup (CellsIn(job) \cap Used), own)
<1> DEFINE data == job.data
           n == Len(data)
           from == job.start
           D(i) == CellsIn(staging) \cup ((from..from + i - 1) \cap Used)
           A == [put : Puts, pos : Nat]
<1>1. from \in Nat /\ data \in Seq(Int) /\ n \in Nat /\ \A i \in 1..n : data[i] \in Int
  BY BufferFacts
<1>2. PICK g \in [0..n -> A] :
        /\ g[0] = Begun(job) /\ g[n] = FoldLeft(PutCell, Begun(job), job.data)
        /\ \A i \in 1..n : g[i] = PutCell(g[i - 1], data[i])
  BY <1>1, PutSteps
<1>3. PutUsed(job) = g[n].put
  BY <1>2 DEF PutUsed, Begun
<1>4. CellsIn(job) = from..from + n - 1
  BY DEF CellsIn
<1>5. own => \A i \in 1..n : from + i - 1 \in Used => data[i] = from + i - 1
  BY DEF OwnUsed
<1>6. \A a \in A : a.put \in Puts /\ a.pos \in Nat
  OBVIOUS
<1> HIDE DEF data, n, from, A, D
<1> DEFINE T == {i \in 0..n : g[i].pos = from + i /\ Putting(g[i].put, D(i), own)}
<1>7. 0 \in T
  <2>1. g[0].pos = from /\ g[0].put = [staged |-> staging, sent |-> <<>>]
    BY <1>2 DEF Begun, from
  <2>2. Putting([staged |-> staging, sent |-> <<>>], D(0), own)
    <3> DEFINE new == [staged |-> staging, sent |-> <<>>]
    <3>1. new.staged = staging /\ new.sent = <<>> /\ new \in Puts
      BY DEF Puts
    <3>2. \A i \in DOMAIN new.sent : FALSE
      BY <3>1
    <3>3. D(0) = CellsIn(staging)
      BY <1>1 DEF D
    <3> HIDE DEF new
    <3>4. Putting(new, D(0), own)
      BY <3>1, <3>2, <3>3 DEF Putting
    <3> QED BY <3>4 DEF new
  <2> QED BY <1>1, <2>1, <2>2
<1>8. ASSUME NEW i \in 1..n, i - 1 \in T
      PROVE  i \in T
  <2> DEFINE a == g[i - 1]
             pos == from + i - 1
             used == Run(map, 1, pos, 1).used
  <2>1. a.pos = pos /\ Putting(a.put, D(i - 1), own) /\ i - 1 \in 0..n /\ i \in 0..n /\ pos \in Nat
    BY <1>1, <1>8
  <2>2. g[i].pos = from + i /\ g[i].put = IF used THEN Put(a.put, pos, data[i]) ELSE a.put
    <3>1. g[i] = PutCell(a, data[i])
      BY <1>2
    <3> HIDE DEF a, T
    <3>2. g[i].pos = a.pos + 1
      BY <3>1 DEF PutCell
    <3>3. g[i].put = IF Run(map, 1, a.pos, 1).used THEN Put(a.put, a.pos, data[i]) ELSE a.put
      BY <3>1 DEF PutCell
    <3>4. a.pos = pos /\ pos + 1 = from + i
      BY <1>1, <2>1
    <3> HIDE DEF pos
    <3> QED BY <3>2, <3>3, <3>4 DEF used
  <2>3. i \in 0..n
    BY <2>1
  <2>4. used <=> pos \in Used
    <3>1. map \in Seq(Ext) /\ Ordered(map) /\ Len(map) \in Nat
      BY MapFacts DEF IsMap
    <3>2. Behind(map, 1, pos)
      BY <3>1 DEF Behind
    <3>3. 1 \in Nat
      OBVIOUS
    <3> HIDE DEF pos
    <3> QED BY <2>1, <3>1, <3>2, <3>3, RunFacts DEF Used
  <2>5. D(i) = IF pos \in Used THEN D(i - 1) \cup {pos} ELSE D(i - 1)
    <3>1. from..from + i - 1 = (from..from + (i - 1) - 1) \cup {pos}
      BY <1>1
    <3> HIDE DEF pos
    <3> QED BY <3>1 DEF D
  <2>6. data[i] \in Int /\ (own /\ pos \in Used => data[i] = pos)
    BY <1>1, <1>5
  <2> HIDE DEF a, pos, used
  <2>7. Putting(g[i].put, D(i), own)
    <3>1. CASE pos \in Used
      <4> DEFINE put == a.put
      <4> HIDE DEF put
      <4>1. Putting(put, D(i - 1), own)
        BY <2>1 DEF put
      <4> DEFINE E == D(i - 1)
                 value == data[i]
      <4>2. value \in Int /\ (own => value = pos) /\ Putting(put, E, own) /\ pos \in Nat
        BY <2>1, <2>6, <3>1, <4>1
      <4> HIDE DEF E, value
      <4>3. Putting(Put(put, pos, value), E \cup {pos}, own)
        BY <3>1, <4>2, PutFacts
      <4> QED BY <2>2, <2>4, <2>5, <3>1, <4>3 DEF put, E, value
    <3>2. CASE pos \notin Used
      BY <2>1, <2>2, <2>4, <2>5, <3>2
    <3> QED BY <3>1, <3>2
  <2> QED BY <2>2, <2>3, <2>7
<1>9. n \in T
  <2> HIDE DEF T
  <2>1. \A i \in 0..n : i \in T
    BY <1>1, <1>7, <1>8, Induction
  <2> QED BY <1>1, <2>1
<1>10. Putting(PutUsed(job), D(n), own)
  BY <1>3, <1>9
<1> QED BY <1>4, <1>10 DEF D

-------------------------------------------------------------------------------
(* The frames to unpack *)

\* Where the next frame goes, the extent the cursor is at, and the frames so far.
Jobs == {a \in [pos : Nat, cursor : Nat, jobs : Seq(Buffers)] : Behind(map, a.cursor, a.pos)}
NoJobs == [pos |-> 0, cursor |-> 1, jobs |-> <<>>]
JobsFor(frames) == FoldLeft(LAMBDA state, frame : WithFrame(map, state, frame), NoJobs, frames)

\* Before the first frame there's no job, and the cursor is at the start.
LEMMA NoJobsYet ==
  ASSUME IsMap(map), source.size \in Nat
  PROVE  NoJobs \in Jobs
<1>1. Len(map) \in Nat
  BY MapFacts
<1>2. Behind(map, 1, 0)
  BY <1>1 DEF Behind
<1> QED BY <1>2 DEF Jobs, NoJobs

\* One frame: it's left out only if all of it is free.
LEMMA WithFrameFacts ==
  ASSUME IsMap(map), source.size \in Nat, NEW a \in Jobs, NEW frame \in Seq(Int)
  PROVE  LET new == WithFrame(map, a, frame)
         IN  /\ new \in Jobs /\ new.pos = a.pos + Len(frame)
             /\ \/ /\ new.jobs = a.jobs
                   /\ \A c \in a.pos..a.pos + Len(frame) - 1 : c \notin Used
                \/ new.jobs = Append(a.jobs, [start |-> a.pos, data |-> frame])
<1> DEFINE pos == a.pos
           len == Len(frame)
           r == Run(map, a.cursor, pos, len)
           job == [start |-> pos, data |-> frame]
           new == WithFrame(map, a, frame)
           jobs == new.jobs
<1>1. pos \in Nat /\ a.jobs \in Seq(Buffers) /\ Behind(map, a.cursor, pos) /\ len \in Nat
  BY LenProperties DEF Jobs
<1>2. map \in Seq(Ext) /\ Ordered(map) /\ Len(map) \in Nat
  BY MapFacts DEF IsMap
<1>3. /\ Behind(map, r.at, pos)
      /\ ~r.used => \A c \in pos..pos + r.len - 1 : c \notin Used
  <2> DEFINE at == a.cursor
  <2>1. Behind(map, at, pos)
    BY <1>1
  <2> HIDE DEF at, pos, len
  <2>2. LET t == Run(map, at, pos, len)
        IN  /\ Behind(map, t.at, pos)
            /\ ~t.used => \A c \in pos..pos + t.len - 1 : c \notin AllCells(map)
    BY <1>1, <1>2, <2>1, RunFacts
  <2> QED BY <2>2 DEF at, Used
<1>4. new = [pos |-> pos + len, cursor |-> r.at,
             jobs |-> IF ~r.used /\ r.len = len THEN a.jobs ELSE Append(a.jobs, job)]
  BY DEF WithFrame, IsFree
<1> HIDE DEF new, r, pos, len
<1>5. Behind(map, r.at, pos + len) /\ r.at \in Nat
  <2>1. \A j \in 1..r.at - 1 : End(map[j]) \in Nat /\ End(map[j]) <= pos
    <3> TAKE j \in 1..r.at - 1
    <3>1. r.at \in 1..Len(map) + 1 /\ End(map[j]) <= pos
      BY <1>3 DEF Behind
    <3>2. j \in 1..Len(map)
      BY <1>2, <3>1
    <3> QED BY <3>1, <3>2, MapFacts
  <2>2. r.at \in 1..Len(map) + 1
    BY <1>3 DEF Behind
  <2> HIDE DEF r
  <2> QED BY <1>1, <1>2, <2>1, <2>2 DEF Behind
<1>6. job \in Buffers
  BY <1>1 DEF Buffers
<1>7. jobs \in Seq(Buffers)
  BY <1>1, <1>4, <1>6
<1>8. new \in Jobs
  BY <1>1, <1>4, <1>5, <1>7 DEF Jobs
<1>9. CASE ~r.used /\ r.len = len
  <2>1. new.jobs = a.jobs /\ new.pos = pos + len
    BY <1>4, <1>9
  <2>2. \A c \in pos..pos + len - 1 : c \notin Used
    BY <1>3, <1>9
  <2> QED BY <1>8, <2>1, <2>2 DEF new, pos, len
<1>10. CASE ~(~r.used /\ r.len = len)
  <2>1. new.jobs = Append(a.jobs, job) /\ new.pos = pos + len
    BY <1>4, <1>10
  <2> QED BY <1>8, <2>1 DEF new, pos, len
<1> QED BY <1>9, <1>10

\* How the frames become jobs, one after the other.
LEMMA FrameSteps ==
  ASSUME IsMap(map), source.size \in Nat, NEW frames \in Seq(Seq(Int))
  PROVE  \E g \in [0..Len(frames) -> Jobs] :
           /\ g[0] = NoJobs /\ g[Len(frames)] = JobsFor(frames)
           /\ \A i \in 1..Len(frames) : g[i] = WithFrame(map, g[i - 1], frames[i])
<1> DEFINE A == Jobs
           n == Len(frames)
           F == [p \in A \X (1..n) |-> WithFrame(map, p[1], frames[p[2]])]
           P(iter) == iter = [x \in SUBSET (1..n) |->
                                IF x = {} THEN NoJobs
                                ELSE WithFrame(map, iter[x \ {Max(x)}], frames[Max(x)])]
           c == CHOOSE iter : P(iter)
<1>0. n \in Nat /\ DOMAIN frames = 1..n /\ \A i \in 1..n : frames[i] \in Seq(Int)
  BY LenProperties, ElementOfSeq
<1>1. JobsFor(frames) = c[1..n]
  BY <1>0 DEF JobsFor, FoldLeft, MapThenFoldSet
<1>2. NoJobs \in A
  BY NoJobsYet
<1>3. \A a \in A : \A i \in 1..n : WithFrame(map, a, frames[i]) \in A
  BY <1>0, WithFrameFacts
<1> HIDE DEF A
<1>4. IsOperation(F, A, n)
  BY <1>3 DEF IsOperation
<1>5. \A a \in A : \A i \in 1..n : F[<<a, i>>] = WithFrame(map, a, frames[i])
  OBVIOUS
<1> HIDE DEF F, n
<1>6. \A x \in SUBSET (1..n) : x # {} => Max(x) \in 1..n
  BY <1>0, MaxIs
<1>7. P(c)
  <2>1. PICK iter : IsFold(iter, A, n, NoJobs, F)
    BY <1>0, <1>2, <1>4, FoldExists
  <2>2. \A x \in SUBSET (1..n) :
          iter[x] = IF x = {} THEN NoJobs
                    ELSE WithFrame(map, iter[x \ {Max(x)}], frames[Max(x)])
    <3> TAKE x \in SUBSET (1..n)
    <3>1. iter[x \ {Max(x)}] \in A
      BY <2>1 DEF IsFold
    <3>2. iter[x] = IF x = {} THEN NoJobs ELSE F[<<iter[x \ {Max(x)}], Max(x)>>]
      BY <2>1 DEF IsFold
    <3> QED BY <1>5, <1>6, <3>1, <3>2
  <2>3. P(iter)
    BY <2>1, <2>2 DEF IsFold
  <2> HIDE DEF P
  <2> QED BY <2>3
<1> HIDE DEF c
<1>8. c[{}] = NoJobs
  BY <1>7
<1>9. ASSUME NEW x \in SUBSET (1..n), x # {}, c[x \ {Max(x)}] \in A
      PROVE  c[x] = F[<<c[x \ {Max(x)}], Max(x)>>]
  <2>1. c[x] = WithFrame(map, c[x \ {Max(x)}], frames[Max(x)])
    BY <1>7, <1>9
  <2> HIDE DEF P
  <2> QED BY <1>5, <1>6, <1>9, <2>1
<1> HIDE DEF P
<1>10. PICK g : IsSteps(g, A, n, NoJobs, F) /\ g[n] = c[1..n]
  <2>1. Follows(c, A, n, NoJobs, F)
    BY <1>8, <1>9 DEF Follows
  <2> QED BY <1>0, <1>2, <1>4, <2>1, FoldSteps
<1>11. \A i \in 1..n : g[i] = WithFrame(map, g[i - 1], frames[i])
  <2> TAKE i \in 1..n
  <2>1. i - 1 \in 0..n
    BY <1>0
  <2>2. g[i - 1] \in A /\ g[i] = F[<<g[i - 1], i>>]
    BY <1>10, <2>1 DEF IsSteps
  <2> QED BY <1>5, <2>2
<1>12. g \in [0..n -> A] /\ g[0] = NoJobs /\ g[n] = JobsFor(frames)
  BY <1>1, <1>10 DEF IsSteps
<1> QED BY <1>11, <1>12 DEF A, n

\* Frames to unpack: those of a whole image hold all of the drive's data.
Working(jobs, D, own) ==
  /\ jobs \in Seq(Buffers)
  /\ own => /\ \A i \in DOMAIN jobs : OwnUsed(jobs[i])
            /\ \A c \in D : \E i \in DOMAIN jobs : c \in CellsIn(jobs[i])

\* One frame more to unpack.
LEMMA WorkingMore ==
  ASSUME NEW jobs, NEW D, NEW E, NEW own \in BOOLEAN, Working(jobs, D, own), NEW job \in Buffers,
         own => OwnUsed(job) /\ \A c \in E : c \in D \/ c \in CellsIn(job)
  PROVE  Working(Append(jobs, job), E, own)
<1> DEFINE n == Len(jobs)
           z == Append(jobs, job)
<1>1. jobs \in Seq(Buffers) /\ n \in Nat /\ DOMAIN jobs = 1..n
  BY LenProperties DEF Working
<1>2. z \in Seq(Buffers) /\ DOMAIN z = 1..n + 1 /\ (\A i \in 1..n : z[i] = jobs[i]) /\ z[n + 1] = job
  <2>1. z \in Seq(Buffers) /\ Len(z) = n + 1
    BY <1>1, AppendProperties
  <2> HIDE DEF z
  <2> QED BY <1>1, <2>1, AppendProperties, LenProperties DEF z
<1> HIDE DEF z, n
<1>3. /\ \A i \in 1..n + 1 : i \in 1..n \/ i = n + 1
      /\ \A i \in 1..n : i \in 1..n + 1
      /\ n + 1 \in 1..n + 1
  BY <1>1
<1>4. ASSUME own
      PROVE  /\ \A i \in DOMAIN z : OwnUsed(z[i])
             /\ \A c \in E : \E i \in DOMAIN z : c \in CellsIn(z[i])
  <2>1. /\ \A i \in 1..n : OwnUsed(jobs[i])
        /\ \A c \in D : \E i \in 1..n : c \in CellsIn(jobs[i])
    BY <1>1, <1>4 DEF Working
  <2>2. \A i \in DOMAIN z : OwnUsed(z[i])
    BY <1>2, <1>3, <1>4, <2>1
  <2>3. ASSUME NEW c \in E
        PROVE  \E i \in DOMAIN z : c \in CellsIn(z[i])
    BY <1>2, <1>3, <1>4, <2>1
  <2> QED BY <2>2, <2>3
<1>5. Working(z, E, own)
  BY <1>2, <1>4 DEF Working
<1> QED BY <1>5 DEF z

\* The frames of a whole image that get unpacked hold all of the drive's data.
LEMMA FrameJobsFacts ==
  ASSUME IsMap(map), source.size \in Nat, NEW frames \in Seq(Seq(Int)), NEW own \in BOOLEAN,
         own => Covers(frames, 0, source.size)
  PROVE  Working(FrameJobs(map, frames), Used, own)
<1> DEFINE n == Len(frames)
<1>1. n \in Nat /\ DOMAIN frames = 1..n /\ \A i \in 1..n : frames[i] \in Seq(Int) /\ Len(frames[i]) \in Nat
  BY LenProperties, ElementOfSeq
<1>2. PICK at : own => Places(frames, at, 0, source.size) /\ PlainAt(frames, at)
  BY DEF Covers
<1>3. PICK g \in [0..n -> Jobs] :
        /\ g[0] = NoJobs /\ g[n] = JobsFor(frames)
        /\ \A i \in 1..n : g[i] = WithFrame(map, g[i - 1], frames[i])
  BY FrameSteps
<1>4. FrameJobs(map, frames) = g[n].jobs
  BY <1>3 DEF FrameJobs, JobsFor, NoJobs
<1> HIDE DEF n
<1> DEFINE D(pos) == (0..pos - 1) \cap Used
           T == {i \in 0..n : /\ own => g[i].pos = at[i]
                              /\ Working(g[i].jobs, D(g[i].pos), own)}
<1>5. 0 \in T
  <2>1. g[0].pos = 0 /\ g[0].jobs = <<>> /\ (own => at[0] = 0)
    BY <1>2, <1>3 DEF NoJobs, Places
  <2>2. D(0) = {}
    OBVIOUS
  <2>3. Working(<<>>, {}, own)
    BY DEF Working
  <2> HIDE DEF D
  <2>4. Working(g[0].jobs, D(g[0].pos), own)
    BY <2>1, <2>2, <2>3
  <2>5. 0 \in 0..n /\ (own => g[0].pos = at[0])
    BY <1>1, <2>1
  <2> QED BY <2>4, <2>5
<1> HIDE DEF D
<1>6. ASSUME NEW i \in 1..n, i - 1 \in T
      PROVE  i \in T
  <2> DEFINE a == g[i - 1]
             frame == frames[i]
             pos == a.pos
             len == Len(frame)
             new == g[i]
  <2>1. /\ (own => pos = at[i - 1]) /\ Working(a.jobs, D(pos), own)
        /\ i - 1 \in 0..n /\ i \in 0..n
    BY <1>1, <1>6
  <2>2. frame \in Seq(Int) /\ len \in Nat /\ new = WithFrame(map, a, frame)
    BY <1>1, <1>3
  <2>3. a \in Jobs
    BY <2>1
  <2> HIDE DEF a, frame, T
  <2>4. /\ new.pos = pos + len
        /\ \/ new.jobs = a.jobs /\ \A c \in pos..pos + len - 1 : c \notin Used
           \/ new.jobs = Append(a.jobs, [start |-> pos, data |-> frame])
    BY <2>2, <2>3, WithFrameFacts
  <2>5. pos \in Nat
    BY <2>3 DEF Jobs
  <2>6. own => at[i] = at[i - 1] + len /\ \A j \in 1..len : frame[j] = Plain(at[i - 1] + j - 1)
    BY <1>2 DEF Places, PlainAt, frame, n
  <2> HIDE DEF pos, len, new
  <2>7. own => new.pos = at[i]
    BY <2>1, <2>4, <2>6
  <2>8. \A c \in D(pos + len) : c \in D(pos) \/ (c \in pos..pos + len - 1 /\ c \in Used)
    BY <2>2, <2>5 DEF D
  <2>9. CASE new.jobs = a.jobs /\ \A c \in pos..pos + len - 1 : c \notin Used
    <3>1. \A c \in D(pos + len) : c \in D(pos)
      BY <2>8, <2>9
    <3>2. Working(a.jobs, D(pos + len), own)
      BY <2>1, <3>1 DEF Working
    <3> QED BY <2>1, <2>4, <2>7, <2>9, <3>2 DEF T, new
  <2>10. CASE new.jobs = Append(a.jobs, [start |-> pos, data |-> frame])
    <3> DEFINE job == [start |-> pos, data |-> frame]
               jobs == a.jobs
               E == D(pos + len)
               old == D(pos)
    <3>1. job \in Buffers /\ job.start = pos /\ job.data = frame
      BY <2>2, <2>5 DEF Buffers
    <3> HIDE DEF job
    <3>2. own => OwnUsed(job)
      <4> SUFFICES ASSUME own, NEW j \in 1..len, pos + j - 1 \in Used
                   PROVE  frame[j] = pos + j - 1
        BY <3>1 DEF OwnUsed, len
      <4>1. frame[j] = Plain(pos + j - 1)
        BY <2>1, <2>6
      <4> QED BY <4>1 DEF Plain
    <3>3. CellsIn(job) = pos..pos + len - 1
      BY <3>1 DEF CellsIn, len
    <3>4. \A c \in E : c \in old \/ c \in CellsIn(job)
      BY <2>8, <3>3
    <3>5. Working(jobs, old, own)
      BY <2>1
    <3> HIDE DEF jobs, E, old
    <3>6. Working(Append(jobs, job), E, own)
      BY <3>1, <3>2, <3>4, <3>5, WorkingMore
    <3>7. new.jobs = Append(jobs, job)
      BY <2>10 DEF jobs, job
    <3>8. Working(new.jobs, D(new.pos), own)
      BY <2>4, <3>6, <3>7 DEF E
    <3> QED BY <2>1, <2>7, <3>8 DEF T, new
  <2> QED BY <2>4, <2>9, <2>10
<1>7. n \in T
  <2> HIDE DEF T
  <2>1. \A i \in 0..n : i \in T
    BY <1>1, <1>5, <1>6, Induction
  <2> QED BY <1>1, <2>1
<1>8. Working(g[n].jobs, D(g[n].pos), own) /\ (own => g[n].pos = source.size)
  <2>1. own => at[n] = source.size
    BY <1>2 DEF Places, n
  <2> QED BY <1>7, <2>1
<1>9. own => D(g[n].pos) = Used
  <2>1. Used \subseteq 0..source.size - 1
    BY MapFacts
  <2>2. own => g[n].pos = source.size
    BY <1>8
  <2> QED BY <2>1, <2>2 DEF D
<1> QED BY <1>4, <1>8, <1>9 DEF Working

-------------------------------------------------------------------------------
(* The target *)

\* A target of n cells, or a file of up to n.
IsTarget(t, n) ==
  /\ t = [drive |-> t.drive, sector |-> t.sector, cells |-> t.cells] /\ t.drive \in BOOLEAN
  /\ Holds(t.cells, t.drive, n, t.sector)
  /\ t.drive => \E d \in Drives : n = d.size
\* What isn't copied is as it was.
FreeKept(t, U) == \A c \in DOMAIN t.cells \ U : t.cells[c] = IF t.drive THEN Old(c) ELSE Zero
InPlace(t, c) == c \in DOMAIN t.cells /\ t.cells[c] = c

\* A file that's just been emptied.
LEMMA NoTargetFacts ==
  ASSUME NEW n \in Nat, NEW U
  PROVE  IsTarget(NoTarget, n) /\ FreeKept(NoTarget, U) /\ NoTarget.drive = FALSE
<1>1. NoTarget.drive = FALSE /\ NoTarget.sector = 1 /\ NoTarget.cells = <<>>
  BY DEF NoTarget
<1>2. <<>> \in [0..0 - 1 -> Int]
  OBVIOUS
<1>3. 0 \in 0..n /\ 1 \in Nat \ {0}
  OBVIOUS
<1>4. Holds(<<>>, FALSE, n, 1)
  BY <1>2, <1>3 DEF Holds
<1>5. NoTarget = [drive |-> NoTarget.drive, sector |-> NoTarget.sector, cells |-> NoTarget.cells]
  BY DEF NoTarget
<1>6. DOMAIN NoTarget.cells = {}
  BY <1>1
<1> QED BY <1>1, <1>4, <1>5, <1>6 DEF IsTarget, FreeKept

\* A drive before the copy.
LEMMA OnDriveFacts ==
  ASSUME NEW d \in Drives, NEW U
  PROVE  /\ IsTarget(OnDrive(d), d.size) /\ FreeKept(OnDrive(d), U) /\ OnDrive(d).drive
         /\ Cardinality(DOMAIN OnDrive(d).cells) = d.size
<1> DEFINE n == d.size
           t == OnDrive(d)
<1>1. n \in Nat /\ d.sector \in Nat \ {0} /\ n % d.sector = 0
  BY SmartCopyAssumption
<1>2. t.drive = TRUE /\ t.sector = d.sector /\ t.cells = [c \in 0..n - 1 |-> Old(c)]
  BY DEF OnDrive
<1>3. t = [drive |-> t.drive, sector |-> t.sector, cells |-> t.cells]
  BY DEF OnDrive
<1> HIDE DEF t, n
<1>4. \A c \in 0..n - 1 : Old(c) \in Int
  BY <1>1 DEF Old
<1>5. t.cells \in [0..n - 1 -> Int] /\ DOMAIN t.cells = 0..n - 1 /\ \A c \in 0..n - 1 : t.cells[c] = Old(c)
  BY <1>2, <1>4
<1>6. Holds(t.cells, t.drive, n, t.sector)
  BY <1>1, <1>2, <1>5 DEF Holds
<1>7. Cardinality(0..n - 1) = n
  <2>1. 0 \in Int /\ n - 1 \in Int
    BY <1>1
  <2>2. Cardinality(0..n - 1) = IF 0 > n - 1 THEN 0 ELSE n - 1 - 0 + 1
    BY <2>1, FS_Interval
  <2> QED BY <1>1, <2>2
<1>8. IsTarget(t, n)
  BY <1>2, <1>3, <1>6 DEF IsTarget, n
<1>9. FreeKept(t, U)
  BY <1>2, <1>5 DEF FreeKept
<1> QED BY <1>2, <1>5, <1>7, <1>8, <1>9 DEF t, n

\* Writing used cells keeps the target in order, and what was in place in place.
LEMMA TargetWritten ==
  ASSUME NEW n, IsTarget(target, n), FreeKept(target, Used), NEW buffers, Among(buffers, Used, n),
         NEW new, new = [target EXCEPT !.cells = Written(@, buffers)]
  PROVE  /\ IsTarget(new, n) /\ FreeKept(new, Used) /\ new.drive = target.drive
         /\ (\A i \in DOMAIN buffers : Own(buffers[i])) =>
              /\ \A c : InPlace(target, c) => InPlace(new, c)
              /\ \A i \in DOMAIN buffers : \A c \in CellsIn(buffers[i]) : InPlace(new, c)
<1> DEFINE cells == target.cells
           drive == target.drive
           s == target.sector
           r == Written(cells, buffers)
           own == \A i \in DOMAIN buffers : Own(buffers[i])
<1>1. target = [drive |-> drive, sector |-> s, cells |-> cells] /\ drive \in BOOLEAN
      /\ Holds(cells, drive, n, s) /\ (drive => \E d \in Drives : n = d.size)
  BY DEF IsTarget
<1>2. /\ Holds(r, drive, n, s)
      /\ \A c \in DOMAIN cells : c \in DOMAIN r
      /\ \A c \in DOMAIN r \ Used : r[c] = IF c \in DOMAIN cells THEN cells[c] ELSE Zero
      /\ own => /\ \A c \in DOMAIN cells : cells[c] = c => r[c] = c
                /\ \A i \in DOMAIN buffers : \A c \in CellsIn(buffers[i]) : c \in DOMAIN r /\ r[c] = c
  <2>1. drive \in BOOLEAN /\ Holds(cells, drive, n, s)
    BY <1>1
  <2> QED BY <2>1, WrittenFacts
<1>3. new = [drive |-> drive, sector |-> s, cells |-> r]
  BY <1>1
<1>4. \A c \in DOMAIN cells \ Used : cells[c] = IF drive THEN Old(c) ELSE Zero
  BY DEF FreeKept
<1> HIDE DEF r, s, drive, own
<1>5. new.drive = drive /\ new.sector = s /\ new.cells = r
  BY <1>3
<1>6. IsTarget(new, n)
  BY <1>1, <1>2, <1>3, <1>5 DEF IsTarget
<1>7. FreeKept(new, Used)
  <2> SUFFICES ASSUME NEW c \in DOMAIN r \ Used
               PROVE  r[c] = IF drive THEN Old(c) ELSE Zero
    BY <1>5 DEF FreeKept
  <2>1. CASE c \in DOMAIN cells
    BY <1>2, <1>4, <2>1
  <2>2. CASE c \notin DOMAIN cells
    <3>1. ~drive
      <4>1. drive => DOMAIN cells = 0..n - 1 /\ DOMAIN r = 0..n - 1
        BY <1>1, <1>2 DEF Holds
      <4> QED BY <2>2, <4>1
    <3> QED BY <1>2, <2>2, <3>1
  <2> QED BY <2>1, <2>2
<1>8. own => /\ \A c : InPlace(target, c) => InPlace(new, c)
             /\ \A i \in DOMAIN buffers : \A c \in CellsIn(buffers[i]) : InPlace(new, c)
  BY <1>2, <1>5 DEF InPlace
<1> QED BY <1>5, <1>6, <1>7, <1>8 DEF drive, own

-------------------------------------------------------------------------------
(* Transfers *)

Whole(T) == \A t \in T : t.off % t.sector = 0 /\ t.len % t.sector = 0

\* What a read transfers.
LEMMA ReadsAreWhole ==
  ASSUME NEW s \in Nat \ {0}, NEW off \in Nat, NEW len \in Nat, NEW room \in Nat
  PROVE  Whole(OfDrive(ReadTransfers(off, len, room, s), s))
<1> SUFFICES ASSUME NEW t \in ReadTransfers(off, len, room, s)
             PROVE  t.off % s = 0 /\ t.len % s = 0
  BY DEF Whole, OfDrive
<1>1. t \in ReadTransfers(off, len, room, s) \cup WriteTransfers(off, len, s)
  OBVIOUS
<1> QED BY <1>1, TransfersAreWhole

\* What a write of buffers transfers.
LEMMA WritesAreWhole ==
  ASSUME NEW buffers \in Seq(Buffers), target.sector \in Nat \ {0}
  PROVE  Whole(OfDrive(TransfersTo(buffers), target.sector))
<1> DEFINE s == target.sector
<1> SUFFICES ASSUME NEW t \in TransfersTo(buffers)
             PROVE  t.off % s = 0 /\ t.len % s = 0
  BY DEF Whole, OfDrive
<1>1. PICK b \in DOMAIN buffers : t \in WriteTransfers(buffers[b].start, Len(buffers[b].data), s)
  BY DEF TransfersTo
<1>2. buffers[b] \in Buffers
  BY LenProperties, ElementOfSeq
<1> DEFINE off == buffers[b].start
           len == Len(buffers[b].data)
<1>3. off \in Nat /\ len \in Nat
  BY <1>2, BufferFacts
<1>4. t \in ReadTransfers(off, len, 0, s) \cup WriteTransfers(off, len, s)
  BY <1>1
<1> HIDE DEF off, len
<1>5. 0 \in Nat
  OBVIOUS
<1> HIDE DEF s
<1>6. s \in Nat \ {0}
  BY DEF s
<1> QED BY <1>3, <1>4, <1>5, <1>6, TransfersAreWhole

-------------------------------------------------------------------------------
(* The inductive invariant *)

Phases ==
  {"analysis", "layout", "map", "copy", "image", "damaged image", "restore", "done", "failed"}

\* Before the target is opened nothing has been written or staged, and the map is always one
\* that reads back.
StartInv ==
  /\ source \in Sources /\ chunk \in Chunks /\ phase \in Phases
  /\ phase \in {"analysis", "layout"} => found \in Founds
  /\ phase = "layout" => layout = Layout(found, source.size)
  /\ IsMap(map)
  /\ phase \in {"analysis", "layout", "map", "image", "damaged image"} =>
       target = NoTarget /\ staging = EmptyStaging

\* An image holds the whole drive, or it shows that it doesn't.
Complete == Covers(image.frames, 0, source.size)
Short ==
  /\ Unpacked < source.size
  /\ image.version = 2 => image.table = NoTable \/ Len(image.table) # Len(image.frames) + 1
IsImage ==
  /\ image = [version |-> image.version, text |-> image.text,
              frames |-> image.frames, table |-> image.table]
  /\ image.version \in {1, 2} /\ image.text = ToText(map, source.size) /\ Filled(image.frames)
  /\ Complete \/ Short
ImageInv ==
  /\ phase \in {"analysis", "layout", "map", "copy"} => image = NoImage
  /\ phase \in {"image", "damaged image", "restore"} => image # NoImage
  /\ phase = "image" => Complete /\ (image.version = 2 => Len(image.table) = Len(image.frames) + 1)
  /\ image # NoImage => IsImage

\* The target has room for all that's copied, and what isn't copied is as it was.
TargetInv ==
  /\ \E n : /\ IsTarget(target, n) /\ (~target.drive => n = source.size)
            /\ phase \in {"copy", "restore", "done"} => DataEnd(map) <= n
  /\ FreeKept(target, Used)

\* What's staged is used, and no more than a block.
StagingInv == staging \in Buffers /\ Len(staging.data) <= chunk /\ CellsIn(staging) \subseteq Used

\* A copy has the drive's data in place but for the pieces that are left.
CopyInv ==
  phase = "copy" =>
    /\ target.drive /\ todo \in Seq(Ext) /\ Full(todo) /\ AllCells(todo) \subseteq Used
    /\ \A c \in Used : InPlace(target, c) \/ c \in AllCells(todo)

\* A restore of a whole image has the drive's data in place but for what's staged and the
\* frames that are left; if a table came with it, it is one.
Restoring ==
  /\ Own(staging) /\ \A i \in DOMAIN todo : OwnUsed(todo[i])
  /\ \A c \in Used : \/ InPlace(target, c) \/ c \in CellsIn(staging)
                     \/ \E i \in DOMAIN todo : c \in CellsIn(todo[i])
RestoreInv ==
  phase = "restore" =>
    /\ todo \in Seq(Buffers)
    /\ image.version = 2 => Complete
    /\ Complete => Restoring

\* What a success means.
DoneInv ==
  phase = "done" =>
    /\ \A c \in Used : InPlace(target, c)
    /\ ~target.drive => DOMAIN target.cells = 0..source.size - 1
    /\ image # NoImage => Complete

IInv ==
  /\ StartInv /\ ImageInv /\ TargetInv /\ StagingInv /\ CopyInv /\ RestoreInv /\ DoneInv
  /\ Whole(transfers)

\* An empty buffer is whatever the parts of the invariant want of a buffer.
LEMMA EmptyStagingFacts ==
  ASSUME chunk \in Nat, NEW U
  PROVE  /\ EmptyStaging \in Buffers /\ Len(EmptyStaging.data) <= chunk
         /\ CellsIn(EmptyStaging) \subseteq U /\ Own(EmptyStaging)
<1>1. EmptyStaging.start = 0 /\ EmptyStaging.data = <<>>
  BY DEF EmptyStaging
<1>2. EmptyStaging \in Buffers
  BY DEF EmptyStaging, Buffers
<1>3. Len(<<>>) = 0 /\ <<>> \in Seq(Int)
  OBVIOUS
<1>4. CellsIn(EmptyStaging) = {}
  BY <1>1, <1>3 DEF CellsIn
<1>5. Own(EmptyStaging)
  BY <1>1, <1>3 DEF Own, IsOwn
<1> QED BY <1>1, <1>2, <1>3, <1>4, <1>5

\* The size and the sector of a drive, and the block.
LEMMA ConstantFacts ==
  ASSUME source \in Sources, chunk \in Chunks
  PROVE  source.size \in Nat /\ source.sector \in Nat \ {0} /\ chunk \in Nat \ {0}
BY SmartCopyAssumption

\* An empty map is one.
LEMMA NoMapFacts ==
  ASSUME NEW size \in Nat
  PROVE  <<>> \in Seq(Ext) /\ Full(<<>>) /\ Apart(<<>>, 0) /\ Within(<<>>, size) /\ DataEnd(<<>>) = 0
BY DEF Full, Apart, Within, DataEnd

\* The inductive invariant holds at the start.
LEMMA InvInit == Init => IInv
<1> SUFFICES ASSUME Init
             PROVE  IInv
  OBVIOUS
<1>1. source \in Sources /\ chunk \in Chunks /\ found \in Founds /\ phase = "analysis"
      /\ map = <<>> /\ image = NoImage /\ target = NoTarget /\ staging = EmptyStaging /\ transfers = {}
  BY DEF Init
<1>2. source.size \in Nat /\ chunk \in Nat
  BY <1>1, ConstantFacts
<1>3. IsMap(map)
  BY <1>1, <1>2, NoMapFacts DEF IsMap
<1>4. StartInv
  BY <1>1, <1>3 DEF StartInv, Phases
<1>5. ImageInv
  BY <1>1 DEF ImageInv
<1>6. TargetInv
  <2>1. IsTarget(NoTarget, source.size) /\ FreeKept(NoTarget, Used)
    BY <1>2, NoTargetFacts
  <2> QED BY <1>1, <2>1 DEF TargetInv
<1>7. StagingInv
  BY <1>1, <1>2, EmptyStagingFacts DEF StagingInv
<1>8. CopyInv /\ RestoreInv /\ DoneInv
  BY <1>1 DEF CopyInv, RestoreInv, DoneInv
<1>9. Whole(transfers)
  BY <1>1 DEF Whole
<1> QED BY <1>4, <1>5, <1>6, <1>7, <1>8, <1>9 DEF IInv

-------------------------------------------------------------------------------
(* What a step leaves as it was *)

\* With the same drive and the same map, the same cells are used,
LEMMA SameMap ==
  ASSUME UNCHANGED <<source, map>>
  PROVE  Used' = Used /\ (IsMap(map)' <=> IsMap(map))
BY DEF Used, IsMap

\* the same image is whole or short,
LEMMA SameImage ==
  ASSUME UNCHANGED <<source, map, image>>
  PROVE  (Complete' <=> Complete) /\ (Short' <=> Short) /\ (IsImage' <=> IsImage)
<1>1. Complete' <=> Complete
  BY DEF Complete, Covers, Places, PlainAt, Plain, Used
<1>2. Short' <=> Short
  BY DEF Short, Unpacked
<1> QED BY <1>1, <1>2 DEF IsImage

\* what's staged is still used,
LEMMA SameStaging ==
  ASSUME UNCHANGED <<map, staging, chunk>>, StagingInv
  PROVE  StagingInv'
BY DEF StagingInv, Used

\* and a target is still kept where nothing is used.
LEMMA SameTarget ==
  ASSUME UNCHANGED <<source, map, target>>, TargetInv,
         phase' \in {"copy", "restore", "done"} => phase \in {"copy", "restore", "done"}
  PROVE  TargetInv'
<1>1. PICK n : /\ IsTarget(target, n) /\ (~target.drive => n = source.size)
               /\ phase \in {"copy", "restore", "done"} => DataEnd(map) <= n
  BY DEF TargetInv
<1>2. /\ IsTarget(target', n) /\ (~target'.drive => n = source'.size)
      /\ phase' \in {"copy", "restore", "done"} => DataEnd(map') <= n
  BY <1>1
<1>3. FreeKept(target', Used')
  BY DEF TargetInv, Used
<1> QED BY <1>2, <1>3 DEF TargetInv

\* The invariant survives a step of nothing,
LEMMA InvUnchanged == IInv /\ UNCHANGED vars => IInv'
<1> SUFFICES ASSUME IInv, UNCHANGED vars
             PROVE  IInv'
  OBVIOUS
<1>1. UNCHANGED <<source, chunk, phase, found, layout, map, image, target, todo, staging, transfers>>
  BY DEF vars
<1>2. StartInv /\ ImageInv /\ TargetInv /\ StagingInv /\ CopyInv /\ RestoreInv /\ DoneInv /\ Whole(transfers)
  BY DEF IInv
<1>3. Used' = Used /\ (IsMap(map)' <=> IsMap(map))
  BY <1>1, SameMap
<1>4. (Complete' <=> Complete) /\ (IsImage' <=> IsImage)
  BY <1>1, SameImage
<1>5. StartInv'
  BY <1>1, <1>2, <1>3 DEF StartInv
<1>6. ImageInv'
  BY <1>1, <1>2, <1>4 DEF ImageInv
<1>7. TargetInv'
  BY <1>1, <1>2, SameTarget
<1>8. StagingInv'
  BY <1>1, <1>2, SameStaging
<1>9. CopyInv'
  BY <1>1, <1>2, <1>3 DEF CopyInv
<1>10. RestoreInv'
  <2>1. Restoring' <=> Restoring
    BY <1>1, <1>3 DEF Restoring, OwnUsed
  <2> QED BY <1>1, <1>2, <1>4, <2>1 DEF RestoreInv
<1>11. DoneInv'
  BY <1>1, <1>2, <1>3, <1>4 DEF DoneInv
<1>12. Whole(transfers)'
  BY <1>1, <1>2
<1> QED BY <1>5, <1>6, <1>7, <1>8, <1>9, <1>10, <1>11, <1>12 DEF IInv

-------------------------------------------------------------------------------
(* Analysis, map and image *)

\* an analysis (smart::analyze),
LEMMA InvAnalyze == IInv /\ Analyze => IInv'
<1> SUFFICES ASSUME IInv, Analyze
             PROVE  IInv'
  OBVIOUS
<1>1. /\ phase = "analysis" /\ phase' = "layout" /\ layout' = Layout(found, source.size)
      /\ UNCHANGED <<source, chunk, found, map, image, target, todo, staging, transfers>>
  BY DEF Analyze
<1>2. StartInv /\ ImageInv /\ TargetInv /\ StagingInv /\ Whole(transfers)
  BY DEF IInv
<1>3. StartInv'
  BY <1>1, <1>2, SameMap DEF StartInv, Phases
<1>4. ImageInv'
  BY <1>1, <1>2 DEF ImageInv
<1>5. TargetInv'
  BY <1>1, <1>2, SameTarget
<1>6. StagingInv'
  BY <1>1, <1>2, SameStaging
<1>7. CopyInv' /\ RestoreInv' /\ DoneInv' /\ Whole(transfers)'
  BY <1>1, <1>2 DEF CopyInv, RestoreInv, DoneInv
<1> QED BY <1>3, <1>4, <1>5, <1>6, <1>7 DEF IInv

\* What the readers find is a sequence of extents.
LEMMA FoundFacts ==
  ASSUME found \in Founds
  PROVE  found \in Seq(Ext)
BY SmartCopyAssumption DEF Ext

\* the making of the map (Layout::map),
LEMMA InvMakeMap == IInv /\ MakeMap => IInv'
<1> SUFFICES ASSUME IInv, MakeMap
             PROVE  IInv'
  OBVIOUS
<1>1. /\ phase = "layout" /\ phase' = "map" /\ map' = Tidy(layout, source.size)
      /\ UNCHANGED <<source, chunk, image, target, todo, staging, transfers>>
  BY DEF MakeMap
<1>2. StartInv /\ ImageInv /\ TargetInv /\ StagingInv /\ Whole(transfers)
  BY DEF IInv
<1>3. /\ source \in Sources /\ chunk \in Chunks /\ found \in Founds
      /\ layout = Layout(found, source.size) /\ target = NoTarget /\ staging = EmptyStaging
  BY <1>1, <1>2 DEF StartInv
<1>4. source.size \in Nat /\ chunk \in Nat
  BY <1>3, ConstantFacts
<1>5. IsMap(map)'
  <2> DEFINE size == source.size
             v == layout
             w == Tidy(v, size)
  <2>1. v \in Seq(Ext)
    BY <1>3, <1>4, FoundFacts, LayoutFacts
  <2> HIDE DEF v
  <2>2. w \in Seq(Ext) /\ Full(w) /\ Apart(w, 0) /\ Within(w, size)
    BY <1>4, <2>1, TidyFacts
  <2>3. map' = w /\ source'.size = size
    BY <1>1 DEF v
  <2> HIDE DEF w, size
  <2> QED BY <2>2, <2>3 DEF IsMap
<1>6. StartInv'
  BY <1>1, <1>3, <1>5 DEF StartInv, Phases
<1>7. ImageInv'
  BY <1>1, <1>2 DEF ImageInv
<1>8. TargetInv'
  <2>1. IsTarget(NoTarget, source.size) /\ FreeKept(NoTarget, Used')
    BY <1>4, NoTargetFacts
  <2> QED BY <1>1, <1>3, <2>1 DEF TargetInv
<1>9. StagingInv'
  <2>1. /\ EmptyStaging \in Buffers /\ Len(EmptyStaging.data) <= chunk
        /\ CellsIn(EmptyStaging) \subseteq Used'
    BY <1>4, EmptyStagingFacts
  <2> QED BY <1>1, <1>3, <2>1 DEF StagingInv
<1>10. CopyInv' /\ RestoreInv' /\ DoneInv' /\ Whole(transfers)'
  BY <1>1, <1>2 DEF CopyInv, RestoreInv, DoneInv
<1> QED BY <1>6, <1>7, <1>8, <1>9, <1>10 DEF IInv

\* The frames of an image cover the drive, and it's read in whole sectors.
LEMMA InvMakeImage == IInv /\ MakeImage => IInv'
<1> SUFFICES ASSUME IInv, MakeImage
             PROVE  IInv'
  OBVIOUS
<1>1. /\ phase = "map" /\ phase' = "image"
      /\ UNCHANGED <<source, chunk, found, layout, map, target, todo, staging>>
  BY DEF MakeImage
<1>2. StartInv /\ ImageInv /\ TargetInv /\ StagingInv
  BY DEF IInv
<1>3. /\ source \in Sources /\ chunk \in Chunks /\ IsMap(map)
      /\ target = NoTarget /\ staging = EmptyStaging
  BY <1>1, <1>2 DEF StartInv
<1>4. source.size \in Nat /\ source.sector \in Nat \ {0}
  BY <1>3, ConstantFacts
<1>5. Covers(Frames, 0, source.size)
  BY <1>3, <1>4, FramesCover
<1>6. PICK version \in {1, 2} :
        image' = [version |-> version, text |-> ToText(map, source.size), frames |-> Frames,
                  table |-> IF version = 1 THEN NoTable
                            ELSE <<0>> \o [i \in DOMAIN Frames |-> Len(Frames[i])]]
  BY DEF MakeImage
<1> DEFINE f == Frames
           text == ToText(map, source.size)
           table == IF version = 1 THEN NoTable ELSE <<0>> \o [i \in DOMAIN Frames |-> Len(Frames[i])]
<1>7. Covers(f, 0, source.size)
  BY <1>5
<1> HIDE DEF f, table
<1>8. image' = [version |-> version, text |-> text, frames |-> f, table |-> table]
  BY <1>6 DEF f, table
<1> HIDE DEF text
<1>9. image'.version = version /\ image'.text = text /\ image'.frames = f /\ image'.table = table
  BY <1>8
<1>10. Complete'
  <2> DEFINE size == source.size
  <2>1. f \in Seq(Seq(Int)) /\ \A i \in DOMAIN f : FrameFits(f[i])
    BY <1>7 DEF Covers
  <2>2. PICK at : Places(f, at, 0, size) /\ PlainAt(f, at)
    BY <1>7 DEF Covers
  <2>3. image'.frames = f /\ source'.size = size /\ Used' = Used
    BY <1>1, <1>9, SameMap
  <2> HIDE DEF size
  <2>4. PlainAt(image.frames, at)'
    BY <2>2, <2>3 DEF PlainAt, Plain
  <2>5. Places(image.frames, at, 0, source.size)'
    BY <2>2, <2>3 DEF Places
  <2> QED BY <2>1, <2>3, <2>4, <2>5 DEF Complete, Covers
<1>11. Filled(f)
  BY <1>7 DEF Covers, Filled
<1>12. IsImage'
  <2>1. image' = [version |-> image'.version, text |-> image'.text,
                  frames |-> image'.frames, table |-> image'.table]
    BY <1>8, <1>9
  <2>2. image'.text = ToText(map', source'.size)
    BY <1>1, <1>9 DEF text
  <2> QED BY <1>9, <1>10, <1>11, <2>1, <2>2 DEF IsImage
<1>13. image' # NoImage
  BY <1>9 DEF NoImage
<1>20. image'.version = 2 => Len(image'.table) = Len(image'.frames) + 1
  <2> SUFFICES ASSUME version = 2
               PROVE  Len(table) = Len(f) + 1
    BY <1>9
  <2> DEFINE lens == [i \in DOMAIN f |-> Len(f[i])]
  <2>1. f \in Seq(Seq(Int))
    BY <1>7 DEF Covers
  <2>2. Len(f) \in Nat /\ DOMAIN f = 1..Len(f) /\ \A i \in 1..Len(f) : Len(f[i]) \in Nat
    BY <2>1, LenProperties, ElementOfSeq
  <2>3. lens \in Seq(Nat) /\ Len(lens) = Len(f)
    BY <2>2, IsASeq
  <2>4. <<0>> \in Seq(Nat) /\ Len(<<0>>) = 1
    OBVIOUS
  <2>5. table = <<0>> \o lens
    BY DEF table, f
  <2> HIDE DEF lens
  <2>6. Len(<<0>> \o lens) = 1 + Len(lens)
    BY <2>3, <2>4, ConcatProperties
  <2> QED BY <2>2, <2>3, <2>5, <2>6
<1>14. ImageInv'
  BY <1>1, <1>10, <1>12, <1>13, <1>20 DEF ImageInv
<1>15. StartInv'
  BY <1>1, <1>2, <1>3, SameMap DEF StartInv, Phases
<1>16. TargetInv'
  BY <1>1, <1>2, SameTarget
<1>17. StagingInv'
  BY <1>1, <1>2, SameStaging
<1>18. CopyInv' /\ RestoreInv' /\ DoneInv'
  BY <1>1 DEF CopyInv, RestoreInv, DoneInv
<1>19. Whole(transfers)'
  <2> DEFINE s == source.sector
             ps == UNION {ToSet(PiecesOf(map[i], DataMax)) : i \in DOMAIN map}
             R(p) == OfDrive(ReadTransfers(p.start, p.len, DataMax, s), s)
  <2>1. transfers' = UNION {R(p) : p \in ps}
    BY DEF MakeImage
  <2>2. ASSUME NEW p \in ps
        PROVE  Whole(R(p))
    <3>1. PICK i \in DOMAIN map : p \in ToSet(PiecesOf(map[i], DataMax))
      BY <2>2
    <3> DEFINE e == map[i]
               v == PiecesOf(e, DataMax)
    <3>2. e \in Ext /\ DataMax \in Nat \ {0}
      BY <1>3, <1>4, MapFacts, SmartCopyAssumption
    <3> HIDE DEF e
    <3>3. v \in Seq(Ext)
      BY <3>2, PiecesFacts DEF Chain
    <3>4. \E j \in DOMAIN v : p = v[j]
      BY <3>1 DEF ToSet, e
    <3> HIDE DEF v
    <3>5. p.start \in Nat /\ p.len \in Nat
      BY <3>3, <3>4, ExtFacts
    <3>6. DataMax \in Nat
      BY <3>2
    <3> QED BY <1>4, <3>5, <3>6, ReadsAreWhole
  <2> HIDE DEF R, ps
  <2>3. \A t \in transfers' : \E p \in ps : t \in R(p)
    BY <2>1
  <2>4. Whole(transfers')
    BY <2>2, <2>3 DEF Whole
  <2> QED BY <2>4
<1> QED BY <1>14, <1>15, <1>16, <1>17, <1>18, <1>19 DEF IInv

\* What's left of a damaged image is short of the drive's size.
LEMMA InvDamage == IInv /\ Damage => IInv'
<1> SUFFICES ASSUME IInv, Damage
             PROVE  IInv'
  OBVIOUS
<1>1. /\ phase = "image" /\ phase' = "damaged image"
      /\ UNCHANGED <<source, chunk, found, layout, map, target, todo, staging, transfers>>
  BY DEF Damage
<1>2. StartInv /\ ImageInv /\ TargetInv /\ StagingInv /\ Whole(transfers)
  BY DEF IInv
<1>3. source.size \in Nat
  BY <1>2, ConstantFacts DEF StartInv
<1>4. Complete /\ IsImage
  BY ZenonT(40), <1>1, <1>2 DEF ImageInv
<1> DEFINE f == image.frames
           n == Len(f)
           size == source.size
<1>5. PICK i \in DOMAIN f :
        \/ image' = [image EXCEPT !.frames = SubSeq(@, 1, i - 1), !.table = NoTable]
        \/ image' = [image EXCEPT !.frames = RemoveAt(@, i)]
  BY DEF Damage
<1>6. image = [version |-> image.version, text |-> image.text, frames |-> f, table |-> image.table]
  BY <1>4 DEF IsImage
<1>7. Covers(f, 0, size)
  BY <1>4 DEF Complete
<1> HIDE DEF f, size
<1>8. /\ Filled(SubSeq(f, 1, i - 1)) /\ UnpackedOf(SubSeq(f, 1, i - 1)) < size
      /\ Filled(RemoveAt(f, i)) /\ UnpackedOf(RemoveAt(f, i)) < size
      /\ Len(RemoveAt(f, i)) = Len(f) - 1
  BY <1>3, <1>7, DamagedFrames DEF size
<1>9. /\ image' = [version |-> image'.version, text |-> image'.text,
                   frames |-> image'.frames, table |-> image'.table]
      /\ image'.version = image.version /\ image'.text = image.text
      /\ \/ image'.frames = SubSeq(f, 1, i - 1) /\ image'.table = NoTable
         \/ image'.frames = RemoveAt(f, i) /\ image'.table = image.table
  <2> DEFINE s == SubSeq(f, 1, i - 1)
             r == RemoveAt(f, i)
  <2>1. CASE image' = [image EXCEPT !.frames = SubSeq(@, 1, i - 1), !.table = NoTable]
    <3>1. image' = [version |-> image.version, text |-> image.text, frames |-> s, table |-> NoTable]
      <4>1. image.frames = f
        BY DEF f
      <4>2. image' = [image EXCEPT !.frames = s, !.table = NoTable]
        BY <2>1, <4>1
      <4> HIDE DEF s
      <4> QED BY <1>6, <4>2
    <3> HIDE DEF s
    <3>2. image'.version = image.version /\ image'.text = image.text
          /\ image'.frames = s /\ image'.table = NoTable
      BY <3>1
    <3> QED BY <3>1, <3>2 DEF s
  <2>2. CASE image' = [image EXCEPT !.frames = RemoveAt(@, i)]
    <3>1. image' = [version |-> image.version, text |-> image.text, frames |-> r, table |-> image.table]
      BY <1>6, <2>2
    <3> HIDE DEF r
    <3>2. image'.version = image.version /\ image'.text = image.text
          /\ image'.frames = r /\ image'.table = image.table
      BY <3>1
    <3> QED BY <3>1, <3>2 DEF r
  <2> QED BY <1>5, <2>1, <2>2 DEF f
<1>10. Filled(image'.frames) /\ UnpackedOf(image'.frames) < source'.size
  BY <1>1, <1>8, <1>9 DEF size
<1>11. image'.version = 2 => image'.table = NoTable \/ Len(image'.table) # Len(image'.frames) + 1
  <2>1. Len(f) \in Nat /\ (image.version = 2 => Len(image.table) = Len(f) + 1)
    <3>1. f \in Seq(Seq(Int))
      BY <1>7 DEF Covers
    <3>2. Len(f) \in Nat
      BY <3>1, LenProperties
    <3> QED BY <1>1, <1>2, <3>2 DEF ImageInv, f
  <2>2. CASE image'.table = NoTable
    BY <2>2
  <2>3. CASE image'.frames = RemoveAt(f, i) /\ image'.table = image.table
    <3>1. Len(image'.frames) = Len(f) - 1
      BY <1>8, <2>3
    <3> QED BY <1>9, <2>1, <2>3, <3>1
  <2> QED BY <1>9, <2>2, <2>3
<1>12. Short'
  BY <1>10, <1>11 DEF Short, Unpacked, UnpackedOf
<1>13. IsImage'
  BY <1>1, <1>4, <1>9, <1>10, <1>12 DEF IsImage
<1>14. image' # NoImage
  BY <1>4, <1>9 DEF IsImage, NoImage
<1>15. ImageInv'
  BY <1>1, <1>13, <1>14 DEF ImageInv
<1>16. StartInv'
  BY <1>1, <1>2, SameMap DEF StartInv, Phases
<1>17. TargetInv'
  BY <1>1, <1>2, SameTarget
<1>18. StagingInv'
  BY <1>1, <1>2, SameStaging
<1>19. CopyInv' /\ RestoreInv' /\ DoneInv' /\ Whole(transfers)'
  BY <1>1, <1>2 DEF CopyInv, RestoreInv, DoneInv
<1> QED BY <1>15, <1>16, <1>17, <1>18, <1>19 DEF IInv

\* A write that fails leaves the target in order too.
LEMMA TargetTorn ==
  ASSUME NEW n, IsTarget(target, n), FreeKept(target, Used), ~target.drive => n = source.size,
         NEW buffers, Among(buffers, Used, n), TornWrite(buffers),
         phase' = "failed", UNCHANGED <<source, map>>
  PROVE  TargetInv'
<1>0. PICK b \in DOMAIN buffers : \E k \in 0..Len(buffers[b].data) - 1 :
        target' = [target EXCEPT !.cells =
                     Written(@, SubSeq(buffers, 1, b - 1)
                                \o <<[buffers[b] EXCEPT !.data = SubSeq(@, 1, k)]>>)]
  BY DEF TornWrite
<1>1. PICK k \in 0..Len(buffers[b].data) - 1 :
        target' = [target EXCEPT !.cells =
                     Written(@, SubSeq(buffers, 1, b - 1)
                                \o <<[buffers[b] EXCEPT !.data = SubSeq(@, 1, k)]>>)]
  BY <1>0
<1> DEFINE torn == SubSeq(buffers, 1, b - 1) \o <<[buffers[b] EXCEPT !.data = SubSeq(@, 1, k)]>>
<1>2. n \in Nat
  BY DEF IsTarget, Holds
<1>3. Among(torn, Used, n)
  BY <1>2, TornAmong
<1>4. target' = [target EXCEPT !.cells = Written(@, torn)]
  BY <1>1
<1> HIDE DEF torn
<1>5. IsTarget(target', n) /\ FreeKept(target', Used) /\ target'.drive = target.drive
  BY <1>3, <1>4, TargetWritten
<1>6. Used' = Used
  BY SameMap
<1> QED BY <1>5, <1>6 DEF TargetInv

-------------------------------------------------------------------------------
(* Drive to drive *)

\* The pieces that get copied are those of the map.
LEMMA PiecesOfMap ==
  ASSUME IsMap(map), source.size \in Nat, NEW len \in Nat \ {0}
  PROVE  LET v == FlattenSeq([i \in DOMAIN map |-> PiecesOf(map[i], len)])
         IN  v \in Seq(Ext) /\ Full(v) /\ AllCells(v) = Used
<1> DEFINE n == Len(map)
           P(i) == PiecesOf(map[i], len)
           ss == [i \in DOMAIN map |-> P(i)]
           v == FlattenSeq(ss)
<1>1. n \in Nat /\ DOMAIN map = 1..n /\ \A i \in 1..n : map[i] \in Ext
  BY MapFacts
<1> HIDE DEF n
<1>2. ASSUME NEW i \in 1..n
      PROVE  P(i) \in Seq(Ext) /\ Full(P(i)) /\ AllCells(P(i)) = CellsOf(map[i])
  <2> DEFINE e == map[i]
             p == PiecesOf(e, len)
  <2>1. e \in Ext
    BY <1>1
  <2> HIDE DEF e
  <2>2. Chain(p, e.start, End(e))
    BY <2>1, PiecesFacts
  <2>3. e.start \in Nat /\ End(e) \in Nat /\ CellsOf(e) = e.start..End(e) - 1
    BY <2>1, EndIs DEF Ext
  <2> HIDE DEF p
  <2>4. AllCells(p) = CellsOf(e)
    BY <2>2, <2>3, ChainCells
  <2> QED BY <2>2, <2>4 DEF Chain, p, e
<1> HIDE DEF P
<1>3. ss \in Seq(Seq(Ext)) /\ DOMAIN ss = 1..n /\ \A i \in 1..n : ss[i] = P(i)
  <2>1. ss \in [1..n -> Seq(Ext)]
    BY <1>1, <1>2
  <2>2. ss \in Seq(Seq(Ext))
    BY <1>1, <2>1, IsASeq
  <2> QED BY <1>1, <2>2
<1> HIDE DEF ss
<1>4. /\ v \in Seq(Ext)
      /\ \A k \in DOMAIN v : \E i \in DOMAIN ss : \E j \in DOMAIN ss[i] : v[k] = ss[i][j]
      /\ \A i \in DOMAIN ss : \A j \in DOMAIN ss[i] : \E k \in DOMAIN v : v[k] = ss[i][j]
  <2>1. ss \in Seq(Seq(Ext))
    BY <1>3
  <2> QED BY ONLY <2>1, FlattenFacts
<1> HIDE DEF v
<1>5. Full(v)
  <2> SUFFICES ASSUME NEW k \in DOMAIN v
               PROVE  v[k].len > 0
    BY DEF Full
  <2>1. PICK i \in 1..n : \E j \in DOMAIN P(i) : v[k] = P(i)[j]
    BY <1>3, <1>4
  <2> QED BY <1>2, <2>1 DEF Full
<1>6. ASSUME NEW c \in AllCells(v)
      PROVE  c \in Used
  <2>1. PICK k \in DOMAIN v : c \in CellsOf(v[k])
    BY <1>6 DEF AllCells
  <2>2. PICK i \in 1..n : \E j \in DOMAIN P(i) : v[k] = P(i)[j]
    BY <1>3, <1>4
  <2>3. c \in AllCells(P(i))
    BY <2>1, <2>2 DEF AllCells
  <2>4. c \in CellsOf(map[i])
    BY <1>2, <2>3
  <2> QED BY <1>1, <2>4 DEF Used, AllCells
<1>7. ASSUME NEW c \in Used
      PROVE  c \in AllCells(v)
  <2>1. PICK i \in 1..n : c \in CellsOf(map[i])
    BY <1>1 DEF Used, AllCells
  <2>2. c \in AllCells(P(i))
    BY <1>2, <2>1
  <2>3. PICK j \in DOMAIN P(i) : c \in CellsOf(P(i)[j])
    BY <2>2 DEF AllCells
  <2>4. PICK k \in DOMAIN v : v[k] = P(i)[j]
    <3>1. ss[i] = P(i) /\ i \in DOMAIN ss
      BY <1>3
    <3> QED BY <1>4, <2>3, <3>1
  <2> QED BY <2>3, <2>4 DEF AllCells
<1>8. v \in Seq(Ext) /\ Full(v) /\ AllCells(v) = Used
  BY <1>4, <1>5, <1>6, <1>7
<1> QED BY <1>8 DEF v, ss, P

\* the opening of a target for a copy (smart_copy),
LEMMA InvOpenTarget == IInv /\ OpenTarget => IInv'
<1> SUFFICES ASSUME IInv, OpenTarget
             PROVE  IInv'
  OBVIOUS
<1>1. /\ phase = "map" /\ phase' \in {"copy", "failed"}
      /\ UNCHANGED <<source, chunk, found, layout, map, image, staging, transfers>>
      /\ phase' = "copy" => Fits(map, target')
      /\ phase' = "copy" => todo' = FlattenSeq([i \in DOMAIN map |-> PiecesOf(map[i], chunk)])
  BY DEF OpenTarget
<1>2. PICK d \in Drives : target' = OnDrive(d)
  BY DEF OpenTarget
<1>3. StartInv /\ ImageInv /\ StagingInv /\ Whole(transfers)
  BY DEF IInv
<1>4. source \in Sources /\ chunk \in Chunks /\ IsMap(map) /\ image = NoImage
  BY <1>1, <1>3 DEF StartInv, ImageInv
<1>5. source.size \in Nat /\ chunk \in Nat \ {0}
  BY <1>4, ConstantFacts
<1>6. /\ IsTarget(target', d.size) /\ FreeKept(target', Used) /\ target'.drive
      /\ Cardinality(DOMAIN target'.cells) = d.size
  BY <1>2, OnDriveFacts
<1>7. Used' = Used
  BY <1>1, SameMap
<1>8. StartInv'
  BY <1>1, <1>3, SameMap DEF StartInv, Phases
<1>9. ImageInv'
  BY <1>1, <1>4 DEF ImageInv
<1>10. TargetInv'
  <2>1. phase' \in {"copy", "restore", "done"} => DataEnd(map') <= d.size
    BY <1>1, <1>6 DEF Fits
  <2> QED BY <1>6, <1>7, <2>1 DEF TargetInv
<1>11. StagingInv'
  BY <1>1, <1>3, SameStaging
<1>12. CopyInv'
  <2> SUFFICES ASSUME phase' = "copy"
               PROVE  /\ target'.drive /\ todo' \in Seq(Ext) /\ Full(todo') /\ AllCells(todo') \subseteq Used'
                      /\ \A c \in Used' : InPlace(target', c) \/ c \in AllCells(todo')
    BY DEF CopyInv
  <2> DEFINE v == FlattenSeq([i \in DOMAIN map |-> PiecesOf(map[i], chunk)])
  <2>1. v \in Seq(Ext) /\ Full(v) /\ AllCells(v) = Used
    BY <1>4, <1>5, PiecesOfMap
  <2>2. todo' = v
    BY <1>1
  <2> HIDE DEF v
  <2> QED BY <1>6, <1>7, <2>1, <2>2
<1>13. RestoreInv' /\ DoneInv' /\ Whole(transfers)'
  BY <1>1, <1>3 DEF RestoreInv, DoneInv
<1> QED BY <1>8, <1>9, <1>10, <1>11, <1>12, <1>13 DEF IInv

\* The first of some pieces, and the others.
LEMMA FirstPiece ==
  ASSUME NEW v \in Seq(Ext), Full(v), v # <<>>
  PROVE  /\ Head(v) \in Ext /\ Head(v).len > 0 /\ Tail(v) \in Seq(Ext) /\ Full(Tail(v))
         /\ AllCells(v) = CellsOf(Head(v)) \cup AllCells(Tail(v))
<1> DEFINE n == Len(v)
           w == Tail(v)
<1>1. n \in Nat /\ DOMAIN v = 1..n /\ n > 0 /\ Head(v) = v[1] /\ v[1] \in Ext
  BY ExtFacts
<1>2. w \in Seq(Ext) /\ Len(w) = n - 1 /\ \A i \in 1..n - 1 : w[i] = v[i + 1]
  BY <1>1
<1>3. DOMAIN w = 1..n - 1
  BY <1>2, LenProperties
<1> HIDE DEF w, n
<1>4. Head(v).len > 0
  BY <1>1 DEF Full
<1>5. \A i \in 1..n - 1 : i + 1 \in 1..n
  BY <1>1
<1>6. \A i \in 1..n : i = 1 \/ (i - 1 \in 1..n - 1 /\ (i - 1) + 1 = i)
  BY <1>1
<1>7. Full(w)
  BY <1>1, <1>2, <1>3, <1>5 DEF Full
<1>8. \A c : c \in AllCells(v) <=> \E i \in 1..n : c \in CellsOf(v[i])
  BY <1>1 DEF AllCells
<1>9. \A c : c \in AllCells(w) <=> \E i \in 1..n - 1 : c \in CellsOf(w[i])
  BY <1>3 DEF AllCells
<1>10. ASSUME NEW c \in AllCells(v)
       PROVE  c \in CellsOf(v[1]) \cup AllCells(w)
  <2>1. PICK i \in 1..n : c \in CellsOf(v[i])
    BY <1>8, <1>10
  <2>2. CASE i = 1
    BY <2>1, <2>2
  <2>3. CASE i # 1
    <3>1. i - 1 \in 1..n - 1 /\ v[i] = w[i - 1]
      BY <1>2, <1>6, <2>3
    <3> QED BY <1>9, <2>1, <3>1
  <2> QED BY <2>2, <2>3
<1>11. ASSUME NEW c \in CellsOf(v[1]) \cup AllCells(w)
       PROVE  c \in AllCells(v)
  <2>1. CASE c \in CellsOf(v[1])
    BY <1>1, <1>8, <2>1
  <2>2. CASE c \in AllCells(w)
    BY <1>2, <1>5, <1>8, <1>9, <2>2
  <2> QED BY <1>11, <2>1, <2>2
<1> QED BY <1>1, <1>2, <1>4, <1>7, <1>10, <1>11 DEF w

\* What's read of a piece is the drive's own data.
LEMMA PieceRead ==
  ASSUME IsMap(map), source \in Sources, chunk \in Chunks, NEW n \in Nat, DataEnd(map) <= n,
         NEW piece \in Ext, piece.len > 0, CellsOf(piece) \subseteq Used
  PROVE  LET b == [start |-> piece.start,
                   data |-> ReadAt(Original, piece.start, piece.len, chunk, source.sector)]
         IN  /\ Among(<<b>>, Used, n) /\ CellsIn(b) = CellsOf(piece)
             /\ \A i \in DOMAIN <<b>> : Own(<<b>>[i])
<1> DEFINE start == piece.start
           len == piece.len
           read == ReadAt(Original, start, len, chunk, source.sector)
           b == [start |-> start, data |-> read]
<1>1. source.size \in Nat /\ source.sector \in Nat \ {0} /\ chunk \in Nat
  BY ConstantFacts
<1>2. start \in Nat /\ len \in Nat /\ len > 0 /\ CellsOf(piece) = start..start + len - 1
  BY EndIs DEF Ext
<1> HIDE DEF start, len
<1>3. start + len <= DataEnd(map) /\ start + len <= source.size /\ start + len <= n
  <2>1. DataEnd(map) \in Nat /\ DataEnd(map) <= source.size /\ \A c \in Used : c \in Nat /\ c < DataEnd(map)
    BY <1>1, MapFacts
  <2>2. start + len - 1 \in Used
    BY <1>2
  <2> QED BY <1>1, <1>2, <2>1, <2>2
<1>4. IsOwn(read, start, len)
  BY <1>1, <1>2, <1>3, OriginalRead
<1> HIDE DEF read
<1>5. read \in Seq(Int) /\ Len(read) = len
  BY <1>4 DEF IsOwn
<1>6. b \in Buffers /\ b.start = start /\ b.data = read
  BY <1>2, <1>5 DEF Buffers
<1> HIDE DEF b
<1>7. CellsIn(b) = CellsOf(piece) /\ Own(b)
  BY <1>2, <1>4, <1>5, <1>6 DEF CellsIn, Own
<1>8. <<b>> \in Seq(Buffers) /\ DOMAIN <<b>> = {1} /\ <<b>>[1] = b
  BY <1>6
<1>9. Among(<<b>>, Used, n)
  BY <1>3, <1>5, <1>6, <1>7, <1>8 DEF Among
<1>10. \A i \in DOMAIN <<b>> : Own(<<b>>[i])
  BY <1>7, <1>8
<1> QED BY <1>7, <1>9, <1>10 DEF b, read, start, len

\* the copy of one piece (engine::copy_range and its writer),
LEMMA InvCopyPiece == IInv /\ CopyPiece => IInv'
<1> SUFFICES ASSUME IInv, CopyPiece
             PROVE  IInv'
  OBVIOUS
<1> DEFINE piece == Head(todo)
           b == [start |-> piece.start,
                 data |-> ReadAt(Original, piece.start, piece.len, chunk, source.sector)]
           sent == <<b>>
<1>1. /\ phase = "copy" /\ todo # <<>>
      /\ \/ WriteAll(sent) /\ todo' = Tail(todo) /\ UNCHANGED phase
         \/ TornWrite(sent) /\ phase' = "failed" /\ UNCHANGED todo
      /\ UNCHANGED <<source, chunk, found, layout, map, image, staging>>
  BY DEF CopyPiece
<1>2. transfers' = OfDrive(ReadTransfers(piece.start, piece.len, chunk, source.sector), source.sector)
                   \cup OfDrive(TransfersTo(sent), target.sector)
  BY DEF CopyPiece
<1>3. StartInv /\ ImageInv /\ TargetInv /\ StagingInv /\ CopyInv
  BY DEF IInv
<1>4. source \in Sources /\ chunk \in Chunks /\ IsMap(map) /\ image = NoImage
  BY <1>1, <1>3 DEF StartInv, ImageInv
<1>5. source.size \in Nat /\ source.sector \in Nat \ {0} /\ chunk \in Nat \ {0}
  BY <1>4, ConstantFacts
<1>6. /\ target.drive /\ todo \in Seq(Ext) /\ Full(todo) /\ AllCells(todo) \subseteq Used
      /\ \A c \in Used : InPlace(target, c) \/ c \in AllCells(todo)
  BY <1>1, <1>3 DEF CopyInv
<1>7. /\ piece \in Ext /\ piece.len > 0 /\ Tail(todo) \in Seq(Ext) /\ Full(Tail(todo))
      /\ AllCells(todo) = CellsOf(piece) \cup AllCells(Tail(todo))
  BY <1>1, <1>6, FirstPiece
<1>8. PICK n : /\ IsTarget(target, n) /\ (~target.drive => n = source.size)
               /\ phase \in {"copy", "restore", "done"} => DataEnd(map) <= n
  BY <1>3 DEF TargetInv
<1>9. n \in Nat /\ DataEnd(map) <= n /\ FreeKept(target, Used) /\ target.sector \in Nat \ {0}
  BY <1>1, <1>3, <1>8 DEF IsTarget, Holds, TargetInv
<1>10. /\ Among(sent, Used, n) /\ CellsIn(b) = CellsOf(piece)
       /\ \A i \in DOMAIN sent : Own(sent[i])
  <2> HIDE DEF piece
  <2> QED BY <1>4, <1>6, <1>7, <1>9, PieceRead
<1> HIDE DEF piece
<1>11. Whole(transfers)'
  <2>1. piece.start \in Nat /\ piece.len \in Nat
    BY <1>7 DEF Ext
  <2>2. Whole(OfDrive(ReadTransfers(piece.start, piece.len, chunk, source.sector), source.sector))
    BY <1>5, <2>1, ReadsAreWhole
  <2>3. sent \in Seq(Buffers)
    BY <1>10 DEF Among
  <2> HIDE DEF sent
  <2>4. Whole(OfDrive(TransfersTo(sent), target.sector))
    BY <1>9, <2>3, WritesAreWhole
  <2>5. Whole(transfers')
    BY <1>2, <2>2, <2>4 DEF Whole
  <2> QED BY <2>5
<1>12. DOMAIN sent = {1} /\ sent[1] = b
  OBVIOUS
<1> HIDE DEF sent, b
<1>13. Used' = Used
  BY <1>1, SameMap
<1>14. phase' \in {"copy", "failed"}
  BY <1>1
<1>15. StartInv'
  BY <1>1, <1>3, <1>14, SameMap DEF StartInv, Phases
<1>16. ImageInv'
  BY <1>1, <1>4, <1>14 DEF ImageInv
<1>17. StagingInv'
  BY <1>1, <1>3, SameStaging
<1>18. RestoreInv' /\ DoneInv'
  BY <1>14 DEF RestoreInv, DoneInv
<1>19. CASE WriteAll(sent) /\ todo' = Tail(todo) /\ UNCHANGED phase
  <2>1. target' = [target EXCEPT !.cells = Written(@, sent)]
    BY <1>19 DEF WriteAll
  <2>2. /\ IsTarget(target', n) /\ FreeKept(target', Used) /\ target'.drive = target.drive
        /\ (\A i \in DOMAIN sent : Own(sent[i])) =>
             /\ \A c : InPlace(target, c) => InPlace(target', c)
             /\ \A i \in DOMAIN sent : \A c \in CellsIn(sent[i]) : InPlace(target', c)
    BY <1>8, <1>9, <1>10, <2>1, TargetWritten
  <2>3. TargetInv'
    BY <1>1, <1>6, <1>9, <1>13, <2>2 DEF TargetInv
  <2>4. \A c \in Used : InPlace(target', c) \/ c \in AllCells(Tail(todo))
    BY <1>6, <1>7, <1>10, <1>12, <2>2
  <2>5. CopyInv'
    BY <1>6, <1>7, <1>13, <1>19, <2>2, <2>4 DEF CopyInv
  <2> QED BY <1>11, <1>15, <1>16, <1>17, <1>18, <2>3, <2>5 DEF IInv
<1>20. CASE TornWrite(sent) /\ phase' = "failed" /\ UNCHANGED todo
  <2>1. TargetInv'
    BY <1>1, <1>8, <1>9, <1>10, <1>20, TargetTorn
  <2>2. CopyInv'
    BY <1>20 DEF CopyInv
  <2> QED BY <1>11, <1>15, <1>16, <1>17, <1>18, <2>1, <2>2 DEF IInv
<1> QED BY <1>1, <1>19, <1>20

\* the end of a copy,
LEMMA InvCopyDone == IInv /\ CopyDone => IInv'
<1> SUFFICES ASSUME IInv, CopyDone
             PROVE  IInv'
  OBVIOUS
<1>1. /\ phase = "copy" /\ todo = <<>> /\ phase' = "done"
      /\ UNCHANGED <<source, chunk, found, layout, map, image, target, todo, staging, transfers>>
  BY DEF CopyDone
<1>2. StartInv /\ ImageInv /\ TargetInv /\ StagingInv /\ CopyInv /\ Whole(transfers)
  BY DEF IInv
<1>3. Used' = Used /\ image = NoImage
  BY <1>1, <1>2, SameMap DEF ImageInv
<1>4. target.drive /\ \A c \in Used : InPlace(target, c)
  <2>1. AllCells(todo) = {}
    BY <1>1 DEF AllCells
  <2> QED BY <1>1, <1>2, <2>1 DEF CopyInv
<1>5. StartInv'
  BY <1>1, <1>2, SameMap DEF StartInv, Phases
<1>6. ImageInv'
  BY <1>1, <1>3 DEF ImageInv
<1>7. TargetInv'
  BY <1>1, <1>2, SameTarget
<1>8. StagingInv'
  BY <1>1, <1>2, SameStaging
<1>9. CopyInv' /\ RestoreInv' /\ Whole(transfers)'
  BY <1>1, <1>2 DEF CopyInv, RestoreInv
<1>10. DoneInv'
  BY <1>1, <1>3, <1>4 DEF DoneInv
<1> QED BY <1>5, <1>6, <1>7, <1>8, <1>9, <1>10 DEF IInv

-------------------------------------------------------------------------------
(* Image to drive or file *)

\* The map reads back as it was, and a version 2 image that's accepted is whole.
LEMMA InvOpenImage == IInv /\ OpenImage => IInv'
<1> SUFFICES ASSUME IInv, OpenImage
             PROVE  IInv'
  OBVIOUS
<1>1. /\ phase \in {"image", "damaged image"} /\ phase' \in {"restore", "failed"}
      /\ map' = Parse(image.text)
      /\ target' \in {NoTarget} \cup {OnDrive(d) : d \in Drives}
      /\ UNCHANGED <<source, chunk, found, layout, image, staging, transfers>>
  BY DEF OpenImage
<1>2. StartInv /\ ImageInv /\ StagingInv /\ Whole(transfers)
  BY DEF IInv
<1>3. /\ source \in Sources /\ chunk \in Chunks /\ IsMap(map) /\ staging = EmptyStaging
      /\ image # NoImage /\ IsImage
  BY <1>1, <1>2 DEF StartInv, ImageInv
<1>4. source.size \in Nat /\ chunk \in Nat
  BY <1>3, ConstantFacts
<1>5. map' = map
  <2>1. map \in Seq(Ext) /\ Full(map) /\ Apart(map, 0) /\ Within(map, source.size)
    BY <1>3 DEF IsMap
  <2>2. Parse(ToText(map, source.size)) = map
    BY <1>4, <2>1, MapReadsBack
  <2> QED BY <1>1, <1>3, <2>2 DEF IsImage
<1>6. phase' = "restore" =>
        /\ target'.drive => Fits(map', target')
        /\ image.version = 2 => image.table # NoTable /\ TableMatches
        /\ todo' = FrameJobs(map', image.frames)
  BY DEF OpenImage
<1>7. Used' = Used
  BY <1>1, <1>5, SameMap
<1>8. StartInv'
  BY <1>1, <1>2, <1>5, SameMap DEF StartInv, Phases
<1>9. ImageInv'
  BY <1>1, <1>3, <1>5, SameImage DEF ImageInv
<1>10. StagingInv'
  BY <1>1, <1>2, <1>5, SameStaging
<1>11. TargetInv'
  <2>1. CASE target' = NoTarget
    <3>1. IsTarget(target', source.size) /\ FreeKept(target', Used) /\ target'.drive = FALSE
      BY <1>4, <2>1, NoTargetFacts
    <3>2. DataEnd(map) <= source.size
      BY <1>3, <1>4, MapFacts
    <3> QED BY <1>1, <1>5, <1>7, <3>1, <3>2 DEF TargetInv
  <2>2. CASE target' \in {OnDrive(d) : d \in Drives}
    <3>1. PICK d \in Drives : target' = OnDrive(d)
      BY <2>2
    <3>2. /\ IsTarget(target', d.size) /\ FreeKept(target', Used) /\ target'.drive
          /\ Cardinality(DOMAIN target'.cells) = d.size
      BY <3>1, OnDriveFacts
    <3>3. phase' \in {"copy", "restore", "done"} => DataEnd(map') <= d.size
      BY <1>1, <1>6, <3>2 DEF Fits
    <3> QED BY <1>7, <3>2, <3>3 DEF TargetInv
  <2> QED BY <1>1, <2>1, <2>2
<1>12. RestoreInv'
  <2> SUFFICES ASSUME phase' = "restore"
               PROVE  /\ todo' \in Seq(Buffers)
                      /\ image'.version = 2 => Complete'
                      /\ Complete' => Restoring'
    BY DEF RestoreInv
  <2> DEFINE own == Complete
             jobs == FrameJobs(map, image.frames)
  <2>1. own \in BOOLEAN /\ (own => Covers(image.frames, 0, source.size))
    BY DEF Complete, Covers
  <2>2. image.frames \in Seq(Seq(Int))
    BY <1>3 DEF IsImage, Filled
  <2> HIDE DEF own
  <2>3. Working(jobs, Used, own)
    BY <1>3, <1>4, <2>1, <2>2, FrameJobsFacts
  <2>4. todo' = jobs
    BY <1>5, <1>6
  <2> HIDE DEF jobs
  <2>5. Complete' <=> Complete
    BY <1>1, <1>5, SameImage
  <2>6. image'.version = 2 => Complete'
    <3> SUFFICES ASSUME image.version = 2
                 PROVE  Complete
      BY <1>1, <2>5
    <3>1. image.table # NoTable /\ Len(image.table) = Len(image.frames) + 1
      BY <1>6 DEF TableMatches
    <3> QED BY <1>3, <3>1 DEF IsImage, Short
  <2>7. ASSUME Complete
        PROVE  Restoring'
    <3>1. /\ \A i \in DOMAIN jobs : OwnUsed(jobs[i])
          /\ \A c \in Used : \E i \in DOMAIN jobs : c \in CellsIn(jobs[i])
      BY <2>3, <2>7 DEF Working, own
    <3>2. Own(staging')
      BY <1>1, <1>3, <1>4, EmptyStagingFacts
    <3>3. \A i \in DOMAIN todo' : OwnUsed(todo[i])'
      BY <1>7, <2>4, <3>1 DEF OwnUsed
    <3> QED BY <1>7, <2>4, <3>1, <3>2, <3>3 DEF Restoring
  <2>8. todo' \in Seq(Buffers)
    BY <2>3, <2>4 DEF Working
  <2> QED BY <2>5, <2>6, <2>7, <2>8
<1>13. CopyInv' /\ DoneInv' /\ Whole(transfers)'
  BY <1>1, <1>2 DEF CopyInv, DoneInv
<1> QED BY <1>8, <1>9, <1>10, <1>11, <1>12, <1>13 DEF IInv

\* Used cells lie within a target that has room for the map.
LEMMA AmongUsed ==
  ASSUME IsMap(map), source.size \in Nat, NEW n \in Nat, DataEnd(map) <= n, NEW buffers \in Seq(Buffers),
         \A i \in DOMAIN buffers : buffers[i].data # <<>> /\ CellsIn(buffers[i]) \subseteq Used
  PROVE  Among(buffers, Used, n)
<1>1. ASSUME NEW i \in DOMAIN buffers
      PROVE  CellsIn(buffers[i]) \subseteq Used /\ buffers[i].start + Len(buffers[i].data) <= n
  <2> DEFINE b == buffers[i]
             start == b.start
             len == Len(b.data)
  <2>1. b \in Buffers
    BY LenProperties, ElementOfSeq
  <2>2. start \in Nat /\ len \in Nat /\ b.data \in Seq(Int)
    BY <2>1, BufferFacts
  <2>3. b.data # <<>> /\ CellsIn(b) \subseteq Used /\ CellsIn(b) = start..start + len - 1
    BY DEF CellsIn
  <2> HIDE DEF b
  <2>4. len > 0
    BY <2>2, <2>3
  <2> HIDE DEF start, len
  <2>5. start + len - 1 \in Used
    BY SMTT(40), <2>2, <2>3, <2>4
  <2>6. DataEnd(map) \in Nat /\ \A c \in Used : c \in Nat /\ c < DataEnd(map)
    BY MapFacts
  <2>7. start + len <= n
    BY <2>2, <2>5, <2>6
  <2> QED BY <2>3, <2>7 DEF start, len, b
<1> QED BY <1>1 DEF Among

\* The first of some buffers, and the others.
LEMMA FirstBuffer ==
  ASSUME NEW v \in Seq(Buffers), v # <<>>
  PROVE  /\ Head(v) \in Buffers /\ Tail(v) \in Seq(Buffers)
         /\ \E i \in DOMAIN v : v[i] = Head(v)
         /\ \A i \in DOMAIN Tail(v) : \E j \in DOMAIN v : Tail(v)[i] = v[j]
         /\ \A i \in DOMAIN v : v[i] = Head(v) \/ \E j \in DOMAIN Tail(v) : v[i] = Tail(v)[j]
<1> DEFINE n == Len(v)
           w == Tail(v)
<1>1. n \in Nat /\ DOMAIN v = 1..n /\ n > 0 /\ Head(v) = v[1] /\ v[1] \in Buffers
  BY LenProperties, ElementOfSeq
<1>2. w \in Seq(Buffers) /\ Len(w) = n - 1 /\ \A i \in 1..n - 1 : w[i] = v[i + 1]
  BY <1>1
<1>3. DOMAIN w = 1..n - 1
  BY <1>2, LenProperties
<1> HIDE DEF w, n
<1>4. \A i \in 1..n - 1 : i + 1 \in 1..n
  BY <1>1
<1>5. \A i \in 1..n : i = 1 \/ (i - 1 \in 1..n - 1 /\ (i - 1) + 1 = i)
  BY <1>1
<1>6. 1 \in 1..n
  BY <1>1
<1>7. \A i \in DOMAIN w : \E j \in DOMAIN v : w[i] = v[j]
  BY <1>1, <1>2, <1>3, <1>4
<1>8. ASSUME NEW i \in DOMAIN v
      PROVE  v[i] = Head(v) \/ \E j \in DOMAIN w : v[i] = w[j]
  <2>1. CASE i = 1
    BY <1>1, <2>1
  <2>2. CASE i # 1
    <3>1. i - 1 \in DOMAIN w /\ w[i - 1] = v[i]
      BY <1>1, <1>2, <1>3, <1>5, <2>2
    <3> QED BY <3>1
  <2> QED BY <2>1, <2>2
<1> QED BY <1>1, <1>2, <1>6, <1>7, <1>8 DEF w

\* the restore of one frame (PartialTarget::write_all, WriteThread),
LEMMA InvRestoreFrame == IInv /\ RestoreFrame => IInv'
<1> SUFFICES ASSUME IInv, RestoreFrame
             PROVE  IInv'
  OBVIOUS
<1> DEFINE job == Head(todo)
           put == PutUsed(job)
           staged == put.staged
           sent == put.sent
<1>1. /\ phase = "restore" /\ todo # <<>>
      /\ staging' = staged /\ transfers' = OfDrive(TransfersTo(sent), target.sector)
      /\ \/ WriteAll(sent) /\ todo' = Tail(todo) /\ UNCHANGED phase
         \/ TornWrite(sent) /\ phase' = "failed" /\ UNCHANGED todo
      /\ UNCHANGED <<source, chunk, found, layout, map, image>>
  BY DEF RestoreFrame
<1>2. StartInv /\ ImageInv /\ TargetInv /\ StagingInv /\ RestoreInv
  BY DEF IInv
<1>3. source \in Sources /\ chunk \in Chunks /\ IsMap(map) /\ image # NoImage
  BY <1>1, <1>2 DEF StartInv, ImageInv
<1>4. source.size \in Nat /\ chunk \in Nat \ {0}
  BY <1>3, ConstantFacts
<1>5. staging \in Buffers /\ Len(staging.data) <= chunk /\ CellsIn(staging) \subseteq Used
  BY <1>2 DEF StagingInv
<1>6. todo \in Seq(Buffers) /\ (image.version = 2 => Complete) /\ (Complete => Restoring)
  BY <1>1, <1>2 DEF RestoreInv
<1>7. /\ job \in Buffers /\ Tail(todo) \in Seq(Buffers)
      /\ \E i \in DOMAIN todo : todo[i] = job
      /\ \A i \in DOMAIN Tail(todo) : \E j \in DOMAIN todo : Tail(todo)[i] = todo[j]
      /\ \A i \in DOMAIN todo : todo[i] = job \/ \E j \in DOMAIN Tail(todo) : todo[i] = Tail(todo)[j]
  BY <1>1, <1>6, FirstBuffer
<1> DEFINE own == Complete
<1>8. own \in BOOLEAN
  BY DEF Complete, Covers
<1>9. own => Restoring /\ Own(staging) /\ OwnUsed(job)
  BY <1>6, <1>7 DEF Restoring
<1> HIDE DEF own, job
<1> DEFINE D == CellsIn(staging) \cup (CellsIn(job) \cap Used)
<1>10. Putting(put, D, own)
  BY <1>3, <1>4, <1>5, <1>7, <1>8, <1>9, PutUsedFacts
<1> HIDE DEF put
<1>11. /\ staged \in Buffers /\ sent \in Seq(Buffers) /\ Len(staged.data) <= chunk
       /\ CellsIn(staged) \subseteq Used
       /\ \A i \in DOMAIN sent : sent[i].data # <<>> /\ CellsIn(sent[i]) \subseteq Used
       /\ own => Own(staged) /\ \A i \in DOMAIN sent : Own(sent[i])
       /\ \A c \in D : c \in CellsIn(staged) \/ \E i \in DOMAIN sent : c \in CellsIn(sent[i])
  BY <1>10 DEF Putting, Puts
<1> HIDE DEF staged, sent
<1>12. PICK n : /\ IsTarget(target, n) /\ (~target.drive => n = source.size)
                /\ phase \in {"copy", "restore", "done"} => DataEnd(map) <= n
  BY <1>2 DEF TargetInv
<1>13. n \in Nat /\ DataEnd(map) <= n /\ FreeKept(target, Used) /\ target.sector \in Nat \ {0}
  BY <1>1, <1>2, <1>12 DEF IsTarget, Holds, TargetInv
<1>14. Among(sent, Used, n)
  BY <1>3, <1>4, <1>11, <1>13, AmongUsed
<1>15. Used' = Used
  BY <1>1, SameMap
<1>16. phase' \in {"restore", "failed"}
  BY <1>1
<1>17. StartInv'
  BY <1>1, <1>2, <1>16, SameMap DEF StartInv, Phases
<1>18. ImageInv'
  BY <1>1, <1>2, <1>3, <1>16, SameImage DEF ImageInv
<1>19. StagingInv'
  BY <1>1, <1>11, <1>15 DEF StagingInv
<1>20. CopyInv' /\ DoneInv'
  BY <1>16 DEF CopyInv, DoneInv
<1>21. Whole(transfers)'
  BY <1>1, <1>11, <1>13, WritesAreWhole
<1>22. CASE WriteAll(sent) /\ todo' = Tail(todo) /\ UNCHANGED phase
  <2>1. target' = [target EXCEPT !.cells = Written(@, sent)]
    BY <1>22 DEF WriteAll
  <2>2. /\ IsTarget(target', n) /\ FreeKept(target', Used) /\ target'.drive = target.drive
        /\ (\A i \in DOMAIN sent : Own(sent[i])) =>
             /\ \A c : InPlace(target, c) => InPlace(target', c)
             /\ \A i \in DOMAIN sent : \A c \in CellsIn(sent[i]) : InPlace(target', c)
    BY <1>12, <1>13, <1>14, <2>1, TargetWritten
  <2>3. TargetInv'
    BY <1>1, <1>12, <1>13, <1>15, <2>2 DEF TargetInv
  <2>4. ASSUME own
        PROVE  Restoring'
    <3>1. \A i \in DOMAIN todo : OwnUsed(todo[i])
      BY <1>9, <2>4 DEF Restoring
    <3>2. \A i \in DOMAIN todo' : OwnUsed(todo[i])'
      <4>1. \A i \in DOMAIN Tail(todo) : OwnUsed(Tail(todo)[i])
        BY <1>7, <3>1
      <4> QED BY <1>15, <1>22, <4>1 DEF OwnUsed
    <3>3. ASSUME NEW c \in Used
          PROVE  \/ InPlace(target', c) \/ c \in CellsIn(staged)
                 \/ \E i \in DOMAIN Tail(todo) : c \in CellsIn(Tail(todo)[i])
      <4>1. \/ InPlace(target, c) \/ c \in CellsIn(staging)
            \/ \E i \in DOMAIN todo : c \in CellsIn(todo[i])
        BY <1>9, <2>4 DEF Restoring
      <4>2. CASE InPlace(target, c)
        BY <1>11, <2>2, <2>4, <4>2
      <4>3. CASE c \in D
        BY <1>11, <2>2, <2>4, <4>3
      <4>4. CASE \E i \in DOMAIN todo : c \in CellsIn(todo[i])
        <5>1. c \in CellsIn(job) \/ \E i \in DOMAIN Tail(todo) : c \in CellsIn(Tail(todo)[i])
          BY <1>7, <4>4
        <5> QED BY <4>3, <5>1
      <4> QED BY <4>1, <4>2, <4>3, <4>4
    <3> QED BY <1>1, <1>11, <1>15, <1>22, <2>4, <3>2, <3>3 DEF Restoring
  <2>5. RestoreInv'
    <3>1. Complete' <=> Complete
      BY <1>1, SameImage
    <3> QED BY <1>1, <1>6, <1>7, <1>22, <2>4, <3>1 DEF RestoreInv, own
  <2> QED BY <1>17, <1>18, <1>19, <1>20, <1>21, <2>3, <2>5 DEF IInv
<1>23. CASE TornWrite(sent) /\ phase' = "failed" /\ UNCHANGED todo
  <2>1. TargetInv'
    BY <1>1, <1>12, <1>13, <1>14, <1>23, TargetTorn
  <2>2. RestoreInv'
    BY <1>23 DEF RestoreInv
  <2> QED BY <1>17, <1>18, <1>19, <1>20, <1>21, <2>1, <2>2 DEF IInv
<1> QED BY <1>1, <1>22, <1>23

\* A file that's filled up with zeros.
LEMMA PaddedFacts ==
  ASSUME NEW t, NEW size \in Nat, IsTarget(t, size), ~t.drive, NEW U, U \subseteq 0..size - 1, FreeKept(t, U),
         NEW new, new = [t EXCEPT !.cells =
                           [c \in 0..size - 1 |-> IF c \in DOMAIN t.cells THEN t.cells[c] ELSE Zero]]
  PROVE  /\ IsTarget(new, size) /\ FreeKept(new, U) /\ ~new.drive /\ DOMAIN new.cells = 0..size - 1
         /\ \A c \in U : InPlace(t, c) => InPlace(new, c)
<1> DEFINE cells == [c \in 0..size - 1 |-> IF c \in DOMAIN t.cells THEN t.cells[c] ELSE Zero]
<1>1. /\ t = [drive |-> t.drive, sector |-> t.sector, cells |-> t.cells] /\ t.drive = FALSE
      /\ t.sector = 1
  BY DEF IsTarget, Holds
<1>2. PICK k \in 0..size : t.cells \in [0..k - 1 -> Int]
  BY DEF IsTarget, Holds
<1>3. cells \in [0..size - 1 -> Int]
  BY <1>2 DEF Zero
<1>4. DOMAIN cells = 0..size - 1
      /\ \A c \in 0..size - 1 : cells[c] = IF c \in DOMAIN t.cells THEN t.cells[c] ELSE Zero
  OBVIOUS
<1>5. new = [drive |-> FALSE, sector |-> 1, cells |-> cells]
  BY <1>1
<1> HIDE DEF cells
<1>6. new.drive = FALSE /\ new.sector = 1 /\ new.cells = cells
  BY <1>5
<1>7. Holds(cells, FALSE, size, 1)
  <2>1. size \in 0..size /\ 1 \in Nat \ {0}
    OBVIOUS
  <2> QED BY <1>3, <2>1 DEF Holds
<1>8. IsTarget(new, size)
  BY <1>5, <1>6, <1>7 DEF IsTarget
<1>9. FreeKept(new, U)
  <2>1. \A c \in DOMAIN t.cells \ U : t.cells[c] = Zero
    BY <1>1 DEF FreeKept
  <2> QED BY <1>4, <1>6, <2>1 DEF FreeKept
<1>10. \A c \in U : InPlace(t, c) => InPlace(new, c)
  BY <1>4, <1>6 DEF InPlace
<1> QED BY <1>4, <1>6, <1>8, <1>9, <1>10

\* and the end of a restore (the last flush, and the padding of a file).
LEMMA InvRestoreDone == IInv /\ RestoreDone => IInv'
<1> SUFFICES ASSUME IInv, RestoreDone
             PROVE  IInv'
  OBVIOUS
<1> DEFINE last == IF staging.data = <<>> THEN <<>> ELSE <<staging>>
           cells == Written(target.cells, last)
           new == [target EXCEPT !.cells = Written(@, last)]
           padded == [target EXCEPT !.cells =
                        [c \in 0..source.size - 1 |-> IF c \in DOMAIN cells THEN cells[c] ELSE Zero]]
<1>1. /\ phase = "restore" /\ todo = <<>>
      /\ transfers' = OfDrive(TransfersTo(last), target.sector)
      /\ staging' = EmptyStaging
      /\ UNCHANGED <<source, chunk, found, layout, map, image, todo>>
  BY DEF RestoreDone
<1>2. \/ phase' = "done" /\ EndsWell /\ target' = [target EXCEPT !.cells =
                                IF target.drive THEN cells
                                ELSE [c \in 0..source.size - 1 |-> IF c \in DOMAIN cells THEN cells[c] ELSE Zero]]
      \/ phase' = "failed" /\ target' = [target EXCEPT !.cells = cells]
  BY DEF RestoreDone
<1>3. \/ phase' = "done" /\ EndsWell /\ target.drive /\ target' = new
      \/ phase' = "done" /\ EndsWell /\ ~target.drive /\ target' = padded
      \/ phase' = "failed" /\ target' = new
  BY <1>2
<1>4. StartInv /\ ImageInv /\ TargetInv /\ StagingInv /\ RestoreInv
  BY DEF IInv
<1>5. source \in Sources /\ chunk \in Chunks /\ IsMap(map) /\ image # NoImage /\ IsImage
  BY <1>1, <1>4 DEF StartInv, ImageInv
<1>6. source.size \in Nat /\ chunk \in Nat
  BY <1>5, ConstantFacts
<1>7. staging \in Buffers /\ CellsIn(staging) \subseteq Used
  BY <1>4 DEF StagingInv
<1>8. (image.version = 2 => Complete) /\ (Complete => Restoring)
  BY <1>1, <1>4 DEF RestoreInv
<1>9. PICK n : /\ IsTarget(target, n) /\ (~target.drive => n = source.size)
               /\ phase \in {"copy", "restore", "done"} => DataEnd(map) <= n
  BY <1>4 DEF TargetInv
<1>10. /\ n \in Nat /\ DataEnd(map) <= n /\ FreeKept(target, Used) /\ target.sector \in Nat \ {0}
       /\ target = [drive |-> target.drive, sector |-> target.sector, cells |-> target.cells]
       /\ target.drive \in BOOLEAN
  BY <1>1, <1>4, <1>9 DEF IsTarget, Holds, TargetInv
<1>11. /\ last \in Seq(Buffers)
       /\ \A i \in DOMAIN last : last[i] = staging /\ last[i].data # <<>>
       /\ staging.data # <<>> => 1 \in DOMAIN last /\ last[1] = staging
  BY <1>7
<1>12. \A c \in CellsIn(staging) : \E i \in DOMAIN last : c \in CellsIn(last[i])
  <2>1. CASE staging.data = <<>>
    <3>1. CellsIn(staging) = {}
      BY <1>7, <2>1, BufferFacts DEF CellsIn
    <3> QED BY <3>1
  <2>2. CASE staging.data # <<>>
    BY <1>11, <2>2
  <2> QED BY <2>1, <2>2
<1>13. new = [drive |-> target.drive, sector |-> target.sector, cells |-> cells]
  BY <1>10
<1> HIDE DEF last
<1>14. Among(last, Used, n)
  BY SMTT(40), <1>5, <1>6, <1>7, <1>10, <1>11, AmongUsed
<1>15. /\ IsTarget(new, n) /\ FreeKept(new, Used) /\ new.drive = target.drive
       /\ (\A i \in DOMAIN last : Own(last[i])) =>
            /\ \A c : InPlace(target, c) => InPlace(new, c)
            /\ \A i \in DOMAIN last : \A c \in CellsIn(last[i]) : InPlace(new, c)
  BY <1>9, <1>10, <1>14, TargetWritten
<1>16. padded = [new EXCEPT !.cells =
                   [c \in 0..source.size - 1 |-> IF c \in DOMAIN new.cells THEN new.cells[c] ELSE Zero]]
  BY <1>10, <1>13
<1> HIDE DEF cells, new, padded
<1>17. Used' = Used
  BY <1>1, SameMap
<1>18. phase' \in {"done", "failed"}
  BY <1>3
<1>19. StartInv'
  BY <1>1, <1>4, <1>18, SameMap DEF StartInv, Phases
<1>20. ImageInv'
  BY <1>1, <1>4, <1>5, <1>18, SameImage DEF ImageInv
<1>21. StagingInv'
  <2>1. /\ EmptyStaging \in Buffers /\ Len(EmptyStaging.data) <= chunk
        /\ CellsIn(EmptyStaging) \subseteq Used'
    BY <1>6, EmptyStagingFacts
  <2> QED BY <1>1, <2>1 DEF StagingInv
<1>22. CopyInv' /\ RestoreInv'
  BY <1>18 DEF CopyInv, RestoreInv
<1>23. Whole(transfers)'
  BY <1>1, <1>10, <1>11, WritesAreWhole
<1>24. ASSUME ~target.drive, target' = padded
       PROVE  /\ IsTarget(target', n) /\ FreeKept(target', Used) /\ ~target'.drive
              /\ DOMAIN target'.cells = 0..source.size - 1
              /\ \A c \in Used : InPlace(new, c) => InPlace(target', c)
  <2> DEFINE size == source.size
  <2>1. n = size /\ size \in Nat /\ ~new.drive /\ IsTarget(new, size) /\ Used \subseteq 0..size - 1
    BY <1>5, <1>6, <1>9, <1>15, <1>24, MapFacts
  <2>2. target' = [new EXCEPT !.cells =
                     [c \in 0..size - 1 |-> IF c \in DOMAIN new.cells THEN new.cells[c] ELSE Zero]]
    BY <1>16, <1>24
  <2> HIDE DEF size
  <2>3. /\ IsTarget(target', size) /\ FreeKept(target', Used) /\ ~target'.drive
        /\ DOMAIN target'.cells = 0..size - 1
        /\ \A c \in Used : InPlace(new, c) => InPlace(target', c)
    BY <1>15, <2>1, <2>2, PaddedFacts
  <2> QED BY <2>1, <2>3 DEF size
<1>25. TargetInv'
  <2>1. CASE target' = new
    BY <1>1, <1>9, <1>10, <1>15, <1>17, <2>1 DEF TargetInv
  <2>2. CASE ~target.drive /\ target' = padded
    BY <1>1, <1>9, <1>10, <1>17, <1>24, <2>2 DEF TargetInv
  <2> QED BY <1>3, <2>1, <2>2
<1>26. DoneInv'
  <2> SUFFICES ASSUME phase' = "done"
               PROVE  /\ \A c \in Used : InPlace(target', c)
                      /\ ~target'.drive => DOMAIN target'.cells = 0..source.size - 1
                      /\ Complete
    <3>1. Complete' <=> Complete
      BY <1>1, SameImage
    <3> QED BY <1>1, <1>17, <3>1 DEF DoneInv
  <2>1. Complete
    <3>1. EndsWell
      BY <1>3
    <3>2. CASE image.version = 2
      BY <1>8, <3>2
    <3>3. CASE image.version = 1
      <4>1. Unpacked = source.size
        BY <3>1, <3>3 DEF EndsWell
      <4>2. ~Short
        BY <1>6, <4>1 DEF Short
      <4> QED BY <1>5, <4>2 DEF IsImage
    <3> QED BY <1>5, <3>2, <3>3 DEF IsImage
  <2>2. Own(staging) /\ \A c \in Used : InPlace(target, c) \/ c \in CellsIn(staging)
    <3>1. DOMAIN todo = {}
      BY <1>1
    <3> QED BY <1>8, <2>1, <3>1 DEF Restoring
  <2>3. \A c \in Used : InPlace(new, c)
    BY <1>11, <1>12, <1>15, <2>2
  <2>4. CASE target.drive /\ target' = new
    BY <1>15, <2>1, <2>3, <2>4
  <2>5. CASE ~target.drive /\ target' = padded
    BY <1>24, <2>1, <2>3, <2>5
  <2> QED BY <1>3, <2>4, <2>5
<1> QED BY <1>19, <1>20, <1>21, <1>22, <1>23, <1>25, <1>26 DEF IInv

-------------------------------------------------------------------------------
(* Theorems *)

\* Whatever happens in a copy, an image or a restore, the invariant holds.
THEOREM InvHolds == Spec => []IInv
<1>1. Init => IInv
  BY InvInit
<1>2. IInv /\ [Next]_vars => IInv'
  BY InvAnalyze, InvMakeMap, InvOpenTarget, InvCopyPiece, InvCopyDone, InvMakeImage, InvDamage,
     InvOpenImage, InvRestoreFrame, InvRestoreDone, InvUnchanged DEF Next
<1> QED BY <1>1, <1>2, PTL DEF Spec

\* smart::run's layout keeps all that was found and both ends of the drive, in few enough
\* extents, and engine::tidy has nothing left to do.
THEOREM LayoutIsKept == Spec => []LayoutKeepsData
<1>1. IInv => LayoutKeepsData
  <2> SUFFICES ASSUME IInv, phase = "layout"
               PROVE  /\ (AllCells(found) \cup 0..Edge - 1 \cup source.size - Edge..source.size - 1)
                           \cap 0..source.size - 1 \subseteq AllCells(layout)
                      /\ \A i \in 2..Len(layout) : layout[i].start > End(layout[i - 1])
                      /\ Len(layout) <= MaxExtents
                      /\ Tidy(layout, source.size) = layout
    BY DEF LayoutKeepsData
  <2>1. source \in Sources /\ chunk \in Chunks /\ found \in Founds /\ layout = Layout(found, source.size)
    BY DEF IInv, StartInv
  <2> DEFINE size == source.size
             v == Layout(found, size)
  <2>2. size \in Nat /\ found \in Seq(Ext)
    BY <2>1, ConstantFacts, FoundFacts
  <2>3. /\ v \in Seq(Ext) /\ Full(v) /\ Apart(v, 0) /\ Within(v, size)
        /\ (AllCells(found) \cup 0..Edge - 1 \cup size - Edge..size - 1) \cap 0..size - 1 \subseteq AllCells(v)
        /\ Len(v) <= MaxExtents
    <3> HIDE DEF size
    <3> QED BY <2>2, LayoutFacts
  <2> HIDE DEF v, size
  <2>4. Tidy(v, size) = v
    BY <2>2, <2>3, TidyFacts
  <2>5. \A i \in 2..Len(v) : v[i].start > End(v[i - 1])
    <3> TAKE i \in 2..Len(v)
    <3>1. Len(v) \in Nat /\ \A j \in 1..Len(v) : v[j] \in Ext /\ v[j].start \in Nat
      BY <2>3, ExtFacts
    <3>2. i - 1 \in 1..Len(v) /\ i \in 1..Len(v)
      BY <3>1
    <3>3. End(v[i - 1]) \in Nat /\ v[i].start \in Nat
      BY <3>1, <3>2, EndIs
    <3>4. ~(v[i].start <= End(v[i - 1]))
      BY <2>3 DEF Apart, Joins
    <3> QED BY <3>3, <3>4
  <2>6. layout = v
    BY <2>1 DEF v, size
  <2> QED BY <2>3, <2>4, <2>5, <2>6 DEF size
<1> QED BY <1>1, InvHolds, PTL

\* Disk::read_at and write_at only ever give a drive transfers of whole sectors.
THEOREM SectorsAreWhole == Spec => []WholeSectors
<1>1. IInv => WholeSectors
  BY DEF IInv, Whole, WholeSectors
<1> QED BY <1>1, InvHolds, PTL

\* A drive keeps all that isn't copied onto it.
THEOREM FreeIsUntouched == Spec => []FreeUntouched
<1>1. IInv => FreeUntouched
  BY DEF IInv, TargetInv, FreeKept, FreeUntouched
<1> QED BY <1>1, InvHolds, PTL

\* After a copy or a restore that succeeded all of the data is in place.
THEOREM SuccessMeansComplete == Spec => []SuccessIsComplete
<1>1. IInv => SuccessIsComplete
  <2> SUFFICES ASSUME IInv, phase = "done"
               PROVE  /\ \A c \in Used : target.cells[c] = c
                      /\ ~target.drive => /\ DOMAIN target.cells = 0..source.size - 1
                                          /\ \A c \in DOMAIN target.cells \ Used : target.cells[c] = Zero
    BY DEF SuccessIsComplete
  <2>1. \A c \in Used : target.cells[c] = c
    BY DEF IInv, DoneInv, InPlace
  <2>2. ~target.drive => DOMAIN target.cells = 0..source.size - 1
    BY DEF IInv, DoneInv
  <2>3. ~target.drive => \A c \in DOMAIN target.cells \ Used : target.cells[c] = Zero
    BY DEF IInv, TargetInv, FreeKept
  <2> QED BY <2>1, <2>2, <2>3
<1> QED BY <1>1, InvHolds, PTL

\* An image that lost a part is never restored with success.
THEOREM DamageIsFound == Spec => []DamageIsReported
<1>1. IInv => DamageIsReported
  <2> SUFFICES ASSUME IInv, phase = "done", image # NoImage
               PROVE  Unpacked = source.size
    BY DEF DamageIsReported
  <2>1. source.size \in Nat
    BY ConstantFacts DEF IInv, StartInv
  <2>2. Covers(image.frames, 0, source.size)
    BY DEF IInv, DoneInv, Complete
  <2> DEFINE f == image.frames
             size == source.size
  <2>3. UnpackedOf(f) = size
    <3>1. Covers(f, 0, size) /\ size \in Nat
      BY <2>1, <2>2
    <3> HIDE DEF f, size
    <3> QED BY <3>1, UnpackedWhole
  <2> QED BY <2>3 DEF Unpacked, UnpackedOf
<1> QED BY <1>1, InvHolds, PTL

\* The variables hold what they can hold.
LEMMA TypesHold ==
  ASSUME IInv
  PROVE  TypeOK
<1>1. StartInv /\ ImageInv /\ TargetInv /\ StagingInv
  BY DEF IInv
<1>2. source \in Sources /\ chunk \in Chunks /\ phase \in Phases /\ IsMap(map)
  BY <1>1 DEF StartInv
<1>3. Used \subseteq 0..source.size - 1
  BY <1>2, ConstantFacts, MapFacts
<1>4. \A i \in DOMAIN image.frames : FrameFits(image.frames[i])
  <2>1. CASE image = NoImage
    <3>1. DOMAIN image.frames = {}
      BY <2>1 DEF NoImage
    <3> QED BY <3>1
  <2>2. CASE image # NoImage
    BY <1>1, <2>2 DEF ImageInv, IsImage, Filled
  <2> QED BY <2>1, <2>2
<1>5. target.drive => \E d \in Drives : DOMAIN target.cells = 0..d.size - 1
  <2>1. PICK n : IsTarget(target, n)
    BY <1>1 DEF TargetInv
  <2> QED BY <2>1 DEF IsTarget, Holds
<1>6. Len(staging.data) <= chunk
  BY <1>1 DEF StagingInv
<1> QED BY <1>2, <1>3, <1>4, <1>5, <1>6 DEF TypeOK, FrameFits, Phases

\* A smart image reads back as the map that went into it and, unpacked by anything, as the
\* whole drive, and every variable holds what it can hold.
THEOREM ImagesAreReadable == Spec => []ImageIsReadable
<1>1. ASSUME IInv
      PROVE  ImageIsReadable
  <2>1. TypeOK
    BY <1>1, TypesHold
  <2> DEFINE size == source.size
             f == image.frames
  <2>2. StartInv /\ ImageInv
    BY <1>1 DEF IInv
  <2>3. IsMap(map) /\ source.size \in Nat
    BY <2>2, ConstantFacts DEF StartInv
  <2>4. MapSurvives
    <3> SUFFICES ASSUME phase \in {"image", "damaged image"}
                 PROVE  Parse(image.text) = map
      BY DEF MapSurvives
    <3>1. image.text = ToText(map, source.size)
      BY <2>2 DEF ImageInv, IsImage
    <3>2. Parse(ToText(map, source.size)) = map
      BY <2>3, MapReadsBack DEF IsMap
    <3> QED BY <3>1, <3>2
  <2>5. PlainImage
    <3> SUFFICES ASSUME phase = "image"
                 PROVE  FlattenSeq(f) = [i \in 1..size |-> IF i - 1 \in Used THEN i - 1 ELSE Zero]
      BY DEF PlainImage
    <3>1. Covers(f, 0, size) /\ size \in Nat
      BY <2>2, <2>3 DEF ImageInv, Complete
    <3> HIDE DEF f, size
    <3>2. FlattenSeq(f) = [i \in 1..size |-> Plain(i - 1)]
      BY <3>1, UnpackedWhole
    <3> QED BY <3>2 DEF Plain
  <2> QED BY <2>1, <2>4, <2>5 DEF ImageIsReadable
<1> QED BY <1>1, InvHolds, PTL
===============================================================================
