---------------------------- MODULE ImagePipe_proofs ----------------------------
(* Proofs about ImagePipe, for any layout and any number of compressors: its  *)
(* inductive invariant IInv, the properties that follow from it, and that it   *)
(* implements OrderedCopy.                                                    *)
EXTENDS ImagePipe, FiniteSetTheorems, TLAPS

-------------------------------------------------------------------------------
(* What a channel of jobs and errors holds, and what sending to it and receiving from *)
(* it change. *)

\* The jobs among the messages in a channel.
Of(s) == {s[i] : i \in 1..Len(s)} \ {Error}
Distinct(s) == \A i, j \in 1..Len(s) : s[i] = s[j] /\ s[i] # Error => i = j
Faulted(s) == \E i \in 1..Len(s) : s[i] = Error

\* An empty channel holds nothing.
LEMMA Nothing ==
  \A S : <<>> \in Seq(S) /\ Of(<<>>) = {} /\ Distinct(<<>>) /\ ~Faulted(<<>>)
<1>1. \A i : i \notin 1..Len(<<>>)
  OBVIOUS
<1> QED
  BY <1>1 DEF Of, Distinct, Faulted

\* What sending a message adds to a channel.
LEMMA Sent ==
  ASSUME NEW S, NEW s \in Seq(S), NEW e \in S, Distinct(s), e = Error \/ e \notin Of(s)
  PROVE  /\ Append(s, e) \in Seq(S) /\ Distinct(Append(s, e))
         /\ Of(Append(s, e)) = Of(s) \cup ({e} \ {Error})
         /\ Faulted(Append(s, e)) <=> Faulted(s) \/ e = Error
         /\ Append(s, e) # <<>> /\ Len(Append(s, e)) = Len(s) + 1
<1> DEFINE r == Append(s, e)
           n == Len(s)
<1>1. /\ r \in Seq(S) /\ Len(r) = n + 1 /\ n \in Nat /\ r # <<>>
      /\ \A i \in 1..n : r[i] = s[i]
      /\ r[n + 1] = e
  OBVIOUS
<1> HIDE DEF r, n
<1>2. 1..n + 1 = (1..n) \cup {n + 1} /\ n + 1 \notin 1..n
  BY <1>1
<1>3. Of(s) = {s[i] : i \in 1..n} \ {Error}
  BY DEF Of, n
<1>4. Of(r) = Of(s) \cup ({e} \ {Error})
  BY <1>1, <1>2, <1>3 DEF Of
<1>5. Faulted(r) <=> Faulted(s) \/ e = Error
  BY <1>1, <1>2 DEF Faulted, n
<1>6. Distinct(r)
  <2> SUFFICES ASSUME NEW i \in 1..n + 1, NEW j \in 1..n + 1, r[i] = r[j], r[i] # Error
               PROVE  i = j
    BY <1>1 DEF Distinct
  <2>1. CASE i \in 1..n /\ j \in 1..n
    BY <1>1, <2>1 DEF Distinct, n
  <2>2. CASE i = n + 1 /\ j \in 1..n
    BY <1>1, <1>3, <2>2
  <2>3. CASE i \in 1..n /\ j = n + 1
    BY <1>1, <1>3, <2>3
  <2>4. CASE i = n + 1 /\ j = n + 1
    BY <2>4
  <2> QED
    BY <1>2, <2>1, <2>2, <2>3, <2>4
<1> QED
  BY <1>1, <1>4, <1>5, <1>6 DEF r, n

\* What receiving a message takes from a channel.
LEMMA Received ==
  ASSUME NEW S, NEW s \in Seq(S), s # <<>>, Distinct(s)
  PROVE  /\ Head(s) \in S /\ Tail(s) \in Seq(S) /\ Distinct(Tail(s))
         /\ Of(Tail(s)) = Of(s) \ {Head(s)}
         /\ Head(s) # Error => Head(s) \in Of(s)
         /\ Faulted(s) => Faulted(Tail(s)) \/ Head(s) = Error
         /\ Len(s) = Len(Tail(s)) + 1 /\ Len(Tail(s)) \in Nat
<1> DEFINE r == Tail(s)
           n == Len(s)
           h == Head(s)
<1>1. /\ r \in Seq(S) /\ n = Len(r) + 1 /\ Len(r) \in Nat /\ h = s[1] /\ h \in S
      /\ \A i \in 1..Len(r) : r[i] = s[i + 1]
  OBVIOUS
<1> HIDE DEF r, n, h
<1>2. /\ 1 \in 1..n /\ \A i \in 1..Len(r) : i + 1 \in 1..n /\ i + 1 # 1
      /\ \A j \in 1..n : j = 1 \/ \E i \in 1..Len(r) : j = i + 1
  <2>1. \A j \in 1..n : j # 1 => j - 1 \in 1..Len(r) /\ j = (j - 1) + 1
    BY <1>1
  <2> QED
    BY <1>1, <2>1
<1>3. Of(s) = {s[i] : i \in 1..n} \ {Error}
  BY DEF Of, n
<1>4. Distinct(r)
  <2> SUFFICES ASSUME NEW i \in 1..Len(r), NEW j \in 1..Len(r), r[i] = r[j], r[i] # Error
               PROVE  i = j
    BY DEF Distinct
  <2>1. s[i + 1] = s[j + 1] /\ s[i + 1] # Error /\ i + 1 \in 1..n /\ j + 1 \in 1..n
    BY <1>1, <1>2
  <2>2. i + 1 = j + 1
    BY <2>1 DEF Distinct, n
  <2> QED
    BY <2>2
<1>5. Of(r) = Of(s) \ {h}
  <2>1. ASSUME NEW x \in Of(r) PROVE x \in Of(s) /\ x # h
    <3>1. PICK i \in 1..Len(r) : x = r[i] /\ x # Error
      BY DEF Of
    <3>2. x = s[i + 1] /\ i + 1 \in 1..n /\ i + 1 # 1
      BY <1>1, <1>2, <3>1
    <3>3. x # s[1]
      BY <1>2, <3>1, <3>2 DEF Distinct, n
    <3> QED
      BY <1>1, <1>3, <3>1, <3>2, <3>3
  <2>2. ASSUME NEW x \in Of(s), x # h PROVE x \in Of(r)
    <3>1. PICK j \in 1..n : x = s[j] /\ x # Error
      BY <1>3
    <3>2. PICK i \in 1..Len(r) : j = i + 1
      BY <1>1, <1>2, <2>2, <3>1
    <3> QED
      BY <1>1, <3>1, <3>2 DEF Of
  <2> QED
    BY <2>1, <2>2
<1>6. h # Error => h \in Of(s)
  BY <1>1, <1>2, <1>3
<1>7. Faulted(s) => Faulted(r) \/ h = Error
  <2> SUFFICES ASSUME Faulted(s), h # Error PROVE Faulted(r)
    OBVIOUS
  <2>1. PICK j \in 1..n : s[j] = Error
    BY DEF Faulted, n
  <2>2. PICK i \in 1..Len(r) : j = i + 1
    BY <1>1, <1>2, <2>1
  <2> QED
    BY <1>1, <2>1, <2>2 DEF Faulted
<1> QED
  BY <1>1, <1>4, <1>5, <1>6, <1>7 DEF r, n, h

-------------------------------------------------------------------------------
(* The inductive invariant *)

Working == {work[t] : t \in Threads} \ {Error}
Compressing == {t \in Threads : compressor[t] = "compress"}
HeldBuffer == IF reader \in {"read", "send"} THEN 1 ELSE 0

\* Buffers are never made, even where a thread that ends drops one.
BuffersFit == pool + Len(jobs) + HeldBuffer + Cardinality(Compressing) <= T + 2

ReaderAt == ~ReaderGone => seq <= NPieces /\ (reader = "free" <=> Layout[seq] = "free")

\* A compressor holds a piece while it compresses it, and none while it has none to send.
Hands == \A t \in Threads : /\ compressor[t] \notin {"compress", "send"} => work[t] = Error
                            /\ compressor[t] = "compress" => work[t] # Error

\* What has been read is in one place at most until it's written.
OnePlace ==
  /\ Distinct(jobs) /\ Distinct(channel)
  /\ \A t, u \in Threads : work[t] = work[u] /\ work[t] # Error => t = u
  /\ Of(jobs) \cap Working = {} /\ Of(jobs) \cap Of(channel) = {} /\ Of(jobs) \cap pending = {}
  /\ Working \cap Of(channel) = {} /\ Working \cap pending = {} /\ Of(channel) \cap pending = {}
  /\ \A p \in Of(jobs) \cup Working \cup Of(channel) \cup pending : Len(out) < p /\ p < seq

InOrder == Len(out) < seq /\ \A i \in 1..Len(out) : out[i] = i

\* The calling thread has seen an error, or will see one.
Trouble == \/ main = "failed" \/ Faulted(channel)
           \/ \E t \in Threads : \/ compressor[t] = "last"
                                 \/ compressor[t] = "send" /\ work[t] = Error

\* Without one, nothing gets lost, and nobody ends early.
NothingLost == ~Trouble =>
  /\ \A p \in Pieces : p < seq =>
       p <= Len(out) \/ p \in Of(jobs) \cup Working \cup Of(channel) \cup pending
  /\ ReaderGone => seq = NPieces + 1
  /\ \A t \in Threads : compressor[t] = "gone" => ReaderGone /\ jobs = <<>>

MainSays ==
  /\ main = "map" => pending = {}
  /\ main = "receive" => Len(out) + 1 \notin pending
  /\ main \in {"table", "finished"} => NoSenders /\ channel = <<>> /\ Len(out) = NPieces
  /\ main \notin {"failed", "finished"} => result = "none"
  /\ main = "finished" => result \in {"none", "ok"}
  /\ main = "failed" => result \in {"thread error", "write error"}

Flow == OnePlace /\ NothingLost
IInv == /\ TypeOK /\ BuffersFit /\ ReaderAt /\ Hands /\ InOrder /\ Flow /\ MainSays
        /\ PermitsAddUp /\ BuffersAddUp

-------------------------------------------------------------------------------
(* What the numbers are *)

LEMMA Given ==
  /\ NPieces \in Nat /\ T \in Nat /\ 1 <= T /\ MaxPermits \in Nat /\ IsFiniteSet(Threads)
  /\ MaxPermits = 2 * T + 2
  /\ \A p \in Pieces : Layout[p] \in {"data", "free"} /\ p \in Nat /\ 1 <= p /\ p <= NPieces
  /\ \A p \in Nat : 1 <= p /\ p <= NPieces => p \in Pieces
  /\ Error \notin Pieces
<1>1. NPieces \in Nat /\ \A p \in 1..NPieces : Layout[p] \in {"data", "free"}
  BY ImageAssumption DEF NPieces
<1>2. T \in Nat /\ T # 0
  BY ImageAssumption, FS_CardinalityType, FS_EmptySet DEF T
<1> QED
  BY <1>1, <1>2, ImageAssumption DEF Pieces, MaxPermits, Error

LEMMA Numbers ==
  ASSUME TypeOK
  PROVE  /\ seq \in Nat /\ 1 <= seq /\ seq <= NPieces + 1
         /\ permits \in Nat /\ permits <= MaxPermits /\ pool \in Nat /\ pool <= T + 2
         /\ Len(jobs) \in Nat /\ Len(out) \in Nat
<1>1. seq \in 1..NPieces + 1 /\ permits \in 0..MaxPermits /\ pool \in 0..T + 2
  BY DEF TypeOK
<1>2. jobs \in Seq(Pieces) /\ out \in Seq(Pieces)
  BY DEF TypeOK
<1>3. Len(jobs) \in Nat /\ Len(out) \in Nat
  BY <1>2
<1> QED
  BY <1>1, <1>3, Given

LEMMA InFlight ==
  ASSUME TypeOK
  PROVE  /\ Of(jobs) \subseteq Pieces /\ Working \subseteq Pieces /\ Of(channel) \subseteq Pieces
         /\ pending \subseteq Pieces
<1>1. jobs \in Seq(Pieces) /\ channel \in Seq(Messages) /\ work \in [Threads -> Messages]
      /\ pending \subseteq Pieces
  BY DEF TypeOK
<1>2. Of(jobs) \subseteq Pieces
  <2>1. \A i \in 1..Len(jobs) : jobs[i] \in Pieces
    BY <1>1
  <2> QED
    BY <2>1 DEF Of
<1>3. Of(channel) \subseteq Pieces
  <2>1. \A i \in 1..Len(channel) : channel[i] \in Messages
    BY <1>1
  <2> QED
    BY <2>1 DEF Of, Messages
<1>4. Working \subseteq Pieces
  BY <1>1 DEF Working, Messages
<1> QED
  BY <1>1, <1>2, <1>3, <1>4

\* The piece at hand is one of the layout's, and isn't anywhere yet.
LEMMA AtHand ==
  ASSUME IInv, ~ReaderGone
  PROVE  /\ seq \in Pieces /\ seq + 1 \in 1..NPieces + 1
         /\ Layout[seq] = (IF reader = "free" THEN "free" ELSE "data")
         /\ seq \notin Of(jobs) /\ seq \notin Working /\ seq \notin Of(channel)
         /\ seq \notin pending /\ seq \notin 1..Len(out)
<1>1. seq \in Nat /\ 1 <= seq /\ seq <= NPieces
  BY Numbers DEF IInv, ReaderAt
<1>2. seq \in Pieces /\ Layout[seq] \in {"data", "free"}
  BY <1>1, Given
<1>3. seq + 1 \in 1..NPieces + 1
  BY <1>1, Given
<1>4. Layout[seq] = (IF reader = "free" THEN "free" ELSE "data")
  BY <1>2 DEF IInv, ReaderAt
<1>5. ~(seq < seq) /\ Len(out) < seq /\ Len(out) \in Nat
  BY <1>1, Numbers DEF IInv, InOrder
<1> QED
  BY <1>1, <1>2, <1>3, <1>4, <1>5 DEF IInv, Flow, OnePlace

\* Where the reader goes next.
LEMMA NextAt ==
  ASSUME IInv, ~ReaderGone, NextPiece
  PROVE  /\ seq' = seq + 1 /\ reader' \in {"free", "permit", "gone"}
         /\ seq' \in 1..NPieces + 1 /\ ReaderAt'
         /\ reader' = "gone" => seq' = NPieces + 1
<1>1. seq \in Nat /\ 1 <= seq /\ seq <= NPieces /\ seq + 1 \in 1..NPieces + 1
  BY Numbers, AtHand DEF IInv, ReaderAt
<1>2. CASE seq + 1 > NPieces
  BY <1>1, <1>2, Given DEF NextPiece, At, ReaderAt, ReaderGone
<1>3. CASE ~(seq + 1 > NPieces)
  <2>1. seq + 1 \in Pieces /\ Layout[seq + 1] \in {"data", "free"}
    BY <1>1, <1>3, Given
  <2>2. /\ seq' = seq + 1 /\ seq' <= NPieces
        /\ reader' = IF Layout[seq + 1] = "free" THEN "free" ELSE "permit"
    BY <1>1, <1>3, Given DEF NextPiece, At
  <2> QED
    BY <1>1, <2>1, <2>2 DEF ReaderAt, ReaderGone
<1> QED
  BY <1>2, <1>3

\* The data in memory, given the order of the image.
Memory(n, q, r) == {p \in Pieces : /\ Layout[p] = "data" /\ n < p
                                   /\ p < q \/ (p = q /\ r \in {"buffer", "read", "send"})}

LEMMA MemoryIs ==
  ASSUME NEW o \in Seq(Pieces), \A i \in 1..Len(o) : o[i] = i, NEW q, NEW r
  PROVE  {p \in Pieces : /\ Layout[p] = "data"
                         /\ p < q \/ (p = q /\ r \in {"buffer", "read", "send"})
                         /\ \A i \in DOMAIN o : o[i] # p} = Memory(Len(o), q, r)
<1>1. Len(o) \in Nat /\ DOMAIN o = 1..Len(o)
  OBVIOUS
<1>2. ASSUME NEW p \in Pieces
      PROVE  (\A i \in DOMAIN o : o[i] # p) <=> Len(o) < p
  <2>1. p \in Nat /\ 1 <= p
    BY Given
  <2>2. p \in 1..Len(o) <=> ~(Len(o) < p)
    BY <1>1, <2>1
  <2> QED
    BY <1>1, <2>2
<1> QED
  BY <1>2 DEF Memory

LEMMA InMemoryIs ==
  ASSUME TypeOK, InOrder
  PROVE  InMemory = Memory(Len(out), seq, reader)
<1>1. out \in Seq(Pieces) /\ \A i \in 1..Len(out) : out[i] = i
  BY DEF TypeOK, InOrder
<1> QED
  BY <1>1, MemoryIs DEF InMemory

LEMMA InMemoryWillBe ==
  ASSUME TypeOK', InOrder'
  PROVE  InMemory' = Memory(Len(out'), seq', reader')
<1>1. out' \in Seq(Pieces) /\ \A i \in 1..Len(out') : out'[i] = i
  BY DEF TypeOK, InOrder, Pieces
<1> QED
  BY <1>1, MemoryIs DEF InMemory, Pieces

LEMMA MemoryFinite == ASSUME NEW n, NEW q, NEW r PROVE IsFiniteSet(Memory(n, q, r))
<1>1. IsFiniteSet(Pieces)
  BY Given, FS_Interval DEF Pieces
<1> QED
  BY <1>1, FS_Subset DEF Memory

\* Permits that nobody takes or gives add up still.
LEMMA PermitsStay ==
  ASSUME IInv, TypeOK', InOrder', permits' = permits,
         ~ReaderGone' /\ main' # "failed" =>
           /\ ~ReaderGone /\ main # "failed"
           /\ Memory(Len(out'), seq', reader') = Memory(Len(out), seq, reader)
  PROVE  PermitsAddUp'
  BY InMemoryIs, InMemoryWillBe DEF IInv, PermitsAddUp, MaxPermits, T

\* So do buffers, unless the reader drops one as it ends.
LEMMA BuffersStay ==
  ASSUME IInv, TypeOK',
         \/ UNCHANGED <<pool, jobs, compressor>> /\ HeldBuffer' = HeldBuffer
            /\ (~ReaderGone' => ~ReaderGone)
         \/ UNCHANGED <<pool, jobs, compressor>> /\ ReaderGone'
  PROVE  BuffersFit' /\ BuffersAddUp'
<1>1. Compressing' = Compressing \/ ~UNCHANGED compressor
  BY DEF Compressing
<1>2. IsFiniteSet(Compressing)
  BY Given, FS_Subset DEF Compressing
<1>3. Cardinality(Compressing) \in Nat /\ T \in Nat
  BY <1>2, FS_CardinalityType, Given
<1>4. HeldBuffer \in {0, 1} /\ (ReaderGone' => HeldBuffer' = 0)
  BY DEF HeldBuffer, ReaderGone
<1>5. pool + Len(jobs) + HeldBuffer + Cardinality(Compressing) <= T + 2
  BY DEF IInv, BuffersFit
<1>6. BuffersFit'
  BY <1>1, <1>3, <1>4, <1>5, Numbers DEF BuffersFit, IInv, T
<1> QED
  BY <1>1, <1>6 DEF IInv, BuffersAddUp, HeldBuffer, T, Compressing

-------------------------------------------------------------------------------
(* The reader's steps *)

\* An end that nobody hears of comes after the calling thread's own.
LEMMA MainGoneIsFailed ==
  ASSUME IInv, MainGone, ~ReaderGone \/ ~CompressorsGone
  PROVE  main = "failed"
  BY DEF IInv, MainSays, MainGone, NoSenders

\* With its work and the channels as they were, a step loses nothing if it fails, or if
\* the reader stays at its piece.
LEMMA FlowStays ==
  ASSUME IInv, UNCHANGED <<seq, jobs, work, channel, pending, out, compressor>>,
         main' # "failed" => main # "failed" /\ ReaderGone' = ReaderGone
  PROVE  Flow'
<1>1. Working' = Working /\ Of(jobs)' = Of(jobs) /\ Of(channel)' = Of(channel)
  BY DEF Working, Of
<1>2. OnePlace'
  BY <1>1 DEF IInv, Flow, OnePlace, Distinct
<1>3. ~Trouble' => ~Trouble /\ ReaderGone' = ReaderGone
  BY DEF Trouble, Faulted
<1>4. NothingLost'
  BY <1>1, <1>3 DEF IInv, Flow, NothingLost
<1> QED
  BY <1>2, <1>4 DEF Flow

LEMMA SendFreeKeeps == ASSUME IInv, SendFree PROVE IInv'
<1>0. ~ReaderGone /\ reader = "free"
  BY DEF SendFree, ReaderGone
<1>1. UNCHANGED <<permits, pool, jobs, compressor, work, main, pending, out, result>>
  BY DEF SendFree, mainVars
<1>2. CASE MainGone /\ Leave /\ UNCHANGED channel
  <2>1. reader' = "gone" /\ seq' = seq /\ main = "failed"
    BY <1>0, <1>2, MainGoneIsFailed DEF Leave
  <2>2. TypeOK' /\ ReaderAt' /\ Hands' /\ InOrder' /\ MainSays' /\ ReaderGone'
    BY <1>1, <1>2, <2>1 DEF IInv, TypeOK, ReaderAt, Hands, InOrder, MainSays, ReaderGone
  <2>3. Flow'
    BY <1>1, <1>2, <2>1, FlowStays
  <2>4. BuffersFit' /\ BuffersAddUp'
    BY <1>1, <2>2, BuffersStay
  <2> QED
    BY <2>2, <2>3, <2>4 DEF IInv, PermitsAddUp
<1>3. CASE ~MainGone /\ NextPiece /\ channel' = Append(channel, seq)
  <2>1. /\ seq' = seq + 1 /\ reader' \in {"free", "permit", "gone"}
        /\ seq' \in 1..NPieces + 1 /\ ReaderAt'
        /\ reader' = "gone" => seq' = NPieces + 1
    BY <1>0, <1>3, NextAt
  <2>2. seq \in Pieces /\ seq # Error /\ seq \in Messages /\ channel \in Seq(Messages)
    BY <1>0, AtHand, Given DEF IInv, TypeOK, Messages
  <2>3. /\ channel' \in Seq(Messages) /\ Distinct(channel') /\ Of(channel') = Of(channel) \cup {seq}
        /\ Faulted(channel') <=> Faulted(channel)
    BY <1>0, <1>3, <2>2, AtHand, Sent DEF IInv, Flow, OnePlace
  <2>4. TypeOK'
    BY <1>1, <2>1, <2>3 DEF IInv, TypeOK, NPieces, MaxPermits, Pieces, Messages, T
  <2>5. seq \in Nat /\ Len(out) \in Nat
    BY Numbers DEF IInv
  <2>6. InOrder' /\ Hands'
    BY <1>1, <2>1, <2>5 DEF IInv, InOrder, Hands
  <2>7. MainSays'
    BY <1>0, <1>1 DEF IInv, MainSays, NoSenders, ReaderGone
  <2>8. Flow'
    <3>1. Of(jobs)' = Of(jobs) /\ Working' = Working /\ Of(channel)' = Of(channel) \cup {seq}
      BY <1>1, <2>3 DEF Of, Working
    <3>2. OnePlace'
      <4>1. \A p \in Of(jobs) \cup Working \cup Of(channel) \cup pending : p \in Nat /\ p < seq
        BY Given, InFlight DEF IInv, Flow, OnePlace
      <4>2. \A p \in (Of(jobs) \cup Working \cup Of(channel) \cup pending)' : Len(out) < p /\ p < seq'
        BY <1>1, <2>1, <2>5, <3>1, <4>1 DEF IInv, Flow, OnePlace, InOrder
      <4> QED
        BY <1>0, <1>1, <2>3, <3>1, <4>2, AtHand DEF IInv, Flow, OnePlace, Distinct
    <3>3. NothingLost'
      <4> SUFFICES ASSUME ~Trouble' PROVE NothingLost'
        BY DEF NothingLost
      <4>1. ~Trouble
        BY <1>1, <2>3 DEF Trouble
      <4>2. \A p \in Pieces : p < seq' => p < seq \/ p = seq
        BY <2>1, <2>5, Given
      <4> QED
        BY <1>0, <1>1, <2>1, <3>1, <4>1, <4>2 DEF IInv, Flow, NothingLost, ReaderGone, Pieces, NPieces
    <3> QED
      BY <3>2, <3>3 DEF Flow
  <2>9. BuffersFit' /\ BuffersAddUp'
    BY <1>0, <1>1, <2>1, <2>4, BuffersStay DEF HeldBuffer, ReaderGone
  <2>10. Memory(Len(out'), seq', reader') = Memory(Len(out), seq, reader)
    <3>1. Layout[seq] = "free"
      BY <1>0, AtHand
    <3>2. \A p \in Pieces : p # seq => (p < seq' <=> p < seq)
      BY <2>1, <2>5, Given
    <3> QED
      BY <1>0, <1>1, <2>1, <3>1, <3>2 DEF Memory
  <2>11. PermitsAddUp'
    BY <1>0, <1>1, <2>4, <2>6, <2>10, PermitsStay
  <2> QED
    BY <2>1, <2>4, <2>6, <2>7, <2>8, <2>9, <2>11 DEF IInv
<1> QED
  BY <1>2, <1>3 DEF SendFree

LEMMA TakePermitKeeps == ASSUME IInv, TakePermit PROVE IInv'
<1>0. ~ReaderGone /\ reader = "permit"
  BY DEF TakePermit, ReaderGone
<1>1. UNCHANGED <<seq, pool, jobs, compressor, work, channel, main, pending, out, result>>
  BY DEF TakePermit, mainVars
<1>2. CASE permits > 0 /\ permits' = permits - 1 /\ reader' = "buffer"
  <2>1. permits' \in 0..MaxPermits
    BY <1>2, Numbers, Given DEF IInv
  <2>2. TypeOK'
    BY <1>1, <1>2, <2>1 DEF IInv, TypeOK, NPieces, MaxPermits, Pieces, Messages, T
  <2>3. ReaderAt' /\ Hands' /\ InOrder' /\ MainSays'
    BY <1>0, <1>1, <1>2 DEF IInv, ReaderAt, Hands, InOrder, MainSays, ReaderGone, NoSenders
  <2>4. Flow'
    BY <1>0, <1>1, <1>2, FlowStays DEF ReaderGone
  <2>5. BuffersFit' /\ BuffersAddUp'
    BY <1>0, <1>1, <1>2, <2>2, BuffersStay DEF HeldBuffer, ReaderGone
  <2>6. PermitsAddUp'
    <3> DEFINE old == Memory(Len(out), seq, reader)
               new == Memory(Len(out'), seq', reader')
    <3>1. new = old \cup {seq} /\ seq \notin old
      <4>1. seq \in Pieces /\ Layout[seq] = "data" /\ Len(out) < seq /\ ~(seq < seq)
        BY <1>0, AtHand, Numbers DEF IInv, InOrder
      <4> QED
        BY <1>0, <1>1, <1>2, <4>1 DEF Memory
    <3>2. IsFiniteSet(old)
      BY MemoryFinite
    <3>3. Cardinality(new) = Cardinality(old) + 1 /\ Cardinality(old) \in Nat
      BY <3>1, <3>2, FS_AddElement, FS_CardinalityType
    <3>4. InMemory = old /\ InMemory' = new
      BY <2>2, <2>3, InMemoryIs, InMemoryWillBe DEF IInv
    <3> HIDE DEF old, new
    <3>5. main # "failed" => permits + Cardinality(old) = MaxPermits
      BY <1>0, <3>4 DEF IInv, PermitsAddUp
    <3>6. main # "failed" => permits' + Cardinality(new) = MaxPermits
      BY <1>2, <3>3, <3>5, Numbers, Given DEF IInv
    <3> QED
      BY <1>1, <3>4, <3>6 DEF PermitsAddUp, MaxPermits, T
  <2> QED
    BY <2>2, <2>3, <2>4, <2>5, <2>6 DEF IInv
<1>3. CASE MainGone /\ reader' = "gone" /\ UNCHANGED permits
  <2>1. main = "failed"
    BY <1>0, <1>3, MainGoneIsFailed
  <2>2. TypeOK' /\ ReaderAt' /\ Hands' /\ InOrder' /\ MainSays' /\ ReaderGone'
    BY <1>1, <1>3, <2>1 DEF IInv, TypeOK, ReaderAt, Hands, InOrder, MainSays, ReaderGone
  <2>3. Flow'
    BY <1>1, <2>1, FlowStays
  <2>4. BuffersFit' /\ BuffersAddUp'
    BY <1>1, <2>2, BuffersStay
  <2> QED
    BY <2>2, <2>3, <2>4 DEF IInv, PermitsAddUp
<1> QED
  BY <1>2, <1>3 DEF TakePermit

\* Compressors only end early with an error.
LEMMA TakeBufferKeeps == ASSUME IInv, TakeBuffer PROVE IInv'
<1>0. ~ReaderGone /\ reader = "buffer"
  BY DEF TakeBuffer, ReaderGone
<1>1. UNCHANGED <<seq, permits, jobs, compressor, work, channel, main, pending, out, result>>
  BY DEF TakeBuffer, mainVars
<1>2. CASE pool > 0 /\ pool' = pool - 1 /\ reader' = "read"
  <2>1. pool' \in 0..T + 2
    BY <1>2, Numbers, Given DEF IInv
  <2>2. TypeOK'
    BY <1>1, <1>2, <2>1 DEF IInv, TypeOK, NPieces, MaxPermits, Pieces, Messages, T
  <2>3. ReaderAt' /\ Hands' /\ InOrder' /\ MainSays'
    BY <1>0, <1>1, <1>2 DEF IInv, ReaderAt, Hands, InOrder, MainSays, ReaderGone, NoSenders
  <2>4. Flow'
    BY <1>0, <1>1, <1>2, FlowStays DEF ReaderGone
  <2>5. BuffersFit' /\ BuffersAddUp'
    <3> DEFINE busy == Cardinality(Compressing)
    <3>1. busy \in Nat
      <4>1. IsFiniteSet(Compressing)
        BY Given, FS_Subset DEF Compressing
      <4> QED
        BY <4>1, FS_CardinalityType
    <3>2. pool + Len(jobs) + 0 + busy = T + 2
      BY <1>0 DEF IInv, BuffersAddUp, Compressing
    <3>3. busy' = busy
      BY <1>1 DEF Compressing
    <3> HIDE DEF busy
    <3>4. pool' + Len(jobs) + 1 + busy = T + 2
      BY <1>2, <3>1, <3>2, Numbers, Given DEF IInv
    <3>5. Len(jobs') = Len(jobs) /\ T' = T
      BY <1>1 DEF T
    <3>6. pool' + Len(jobs') + 1 + busy' = T' + 2
      BY <3>3, <3>4, <3>5
    <3>7. pool' + Len(jobs') + 1 + busy' <= T' + 2
      BY <3>4, <3>6, <3>5, Given
    <3> QED
      BY <1>2, <3>6, <3>7 DEF BuffersFit, BuffersAddUp, HeldBuffer, busy, Compressing
  <2>6. Memory(Len(out'), seq', reader') = Memory(Len(out), seq, reader)
    BY <1>0, <1>1, <1>2 DEF Memory
  <2>7. PermitsAddUp'
    BY <1>0, <1>1, <2>2, <2>3, <2>6, PermitsStay
  <2> QED
    BY <2>2, <2>3, <2>4, <2>5, <2>7 DEF IInv
<1>3. CASE CompressorsGone /\ reader' = "gone" /\ UNCHANGED pool
  <2>1. TypeOK' /\ ReaderAt' /\ Hands' /\ InOrder' /\ ReaderGone'
    BY <1>1, <1>3 DEF IInv, TypeOK, ReaderAt, Hands, InOrder, ReaderGone
  <2>2. MainSays'
    BY <1>0, <1>1, <1>3 DEF IInv, MainSays, NoSenders, ReaderGone
  <2>3. Trouble
    <3>1. PICK t \in Threads : TRUE
      BY ImageAssumption
    <3> QED
      BY <1>0, <1>3, <3>1 DEF IInv, Flow, NothingLost, CompressorsGone
  <2>4. Flow'
    <3>1. Working' = Working /\ Of(jobs)' = Of(jobs) /\ Of(channel)' = Of(channel)
      BY <1>1 DEF Working, Of
    <3>2. OnePlace'
      BY <1>1, <3>1 DEF IInv, Flow, OnePlace, Distinct
    <3>3. Trouble'
      BY <1>1, <2>3 DEF Trouble, Faulted
    <3> QED
      BY <3>2, <3>3 DEF Flow, NothingLost
  <2>5. BuffersFit' /\ BuffersAddUp'
    BY <1>1, <1>3, <2>1, BuffersStay
  <2> QED
    BY <2>1, <2>2, <2>4, <2>5 DEF IInv, PermitsAddUp
<1> QED
  BY <1>2, <1>3 DEF TakeBuffer

\* A read that fails is an error on its way.
LEMMA ReadKeeps == ASSUME IInv, Read PROVE IInv'
<1>0. ~ReaderGone /\ reader = "read"
  BY DEF Read, ReaderGone
<1>1. UNCHANGED <<seq, permits, pool, jobs, compressor, work, main, pending, out, result>>
  BY DEF Read, mainVars
<1>2. CASE reader' = "send" /\ UNCHANGED channel
  <2>1. TypeOK'
    BY <1>1, <1>2 DEF IInv, TypeOK, NPieces, MaxPermits, Pieces, Messages, T
  <2>2. ReaderAt' /\ Hands' /\ InOrder' /\ MainSays'
    BY <1>0, <1>1, <1>2 DEF IInv, ReaderAt, Hands, InOrder, MainSays, ReaderGone, NoSenders
  <2>3. Flow'
    BY <1>0, <1>1, <1>2, FlowStays DEF ReaderGone
  <2>4. BuffersFit' /\ BuffersAddUp'
    BY <1>0, <1>1, <1>2, <2>1, BuffersStay DEF HeldBuffer, ReaderGone
  <2>5. Memory(Len(out'), seq', reader') = Memory(Len(out), seq, reader)
    BY <1>0, <1>1, <1>2 DEF Memory
  <2>6. PermitsAddUp'
    BY <1>0, <1>1, <2>1, <2>2, <2>5, PermitsStay
  <2> QED
    BY <2>1, <2>2, <2>3, <2>4, <2>6 DEF IInv
<1>3. CASE reader' = "gone" /\ channel' = Append(channel, Error)
  <2>1. channel \in Seq(Messages) /\ Error \in Messages
    BY DEF IInv, TypeOK, Messages
  <2>2. /\ channel' \in Seq(Messages) /\ Distinct(channel') /\ Of(channel') = Of(channel)
        /\ Faulted(channel')
    <3>1. Distinct(channel)
      BY DEF IInv, Flow, OnePlace
    <3>2. /\ Append(channel, Error) \in Seq(Messages) /\ Distinct(Append(channel, Error))
          /\ Of(Append(channel, Error)) = Of(channel) \cup ({Error} \ {Error})
          /\ Faulted(Append(channel, Error))
      BY <2>1, <3>1, Sent
    <3> QED
      BY <1>3, <3>2
  <2>3. TypeOK' /\ ReaderAt' /\ Hands' /\ InOrder' /\ ReaderGone'
    BY <1>1, <1>3, <2>2 DEF IInv, TypeOK, ReaderAt, Hands, InOrder, ReaderGone,
       NPieces, MaxPermits, Pieces, Messages, T
  <2>4. MainSays'
    BY <1>0, <1>1 DEF IInv, MainSays, NoSenders
  <2>5. Flow'
    <3>1. Working' = Working /\ Of(jobs)' = Of(jobs) /\ Of(channel)' = Of(channel)
      BY <1>1, <2>2 DEF Working, Of
    <3>2. OnePlace'
      BY <1>1, <2>2, <3>1 DEF IInv, Flow, OnePlace, Distinct
    <3>3. Trouble'
      BY <2>2 DEF Trouble
    <3> QED
      BY <3>2, <3>3 DEF Flow, NothingLost
  <2>6. BuffersFit' /\ BuffersAddUp'
    BY <1>1, <2>3, BuffersStay
  <2> QED
    BY <2>3, <2>4, <2>5, <2>6 DEF IInv, PermitsAddUp
<1> QED
  BY <1>2, <1>3 DEF Read

LEMMA SendJobKeeps == ASSUME IInv, SendJob PROVE IInv'
<1>0. ~ReaderGone /\ reader = "send"
  BY DEF SendJob, ReaderGone
<1>1. UNCHANGED <<permits, pool, compressor, work, channel, main, pending, out, result>>
  BY DEF SendJob, mainVars
<1>2. CASE MainGone /\ CompressorsGone /\ Leave /\ UNCHANGED jobs
  <2>1. reader' = "gone" /\ seq' = seq /\ main = "failed"
    BY <1>0, <1>2, MainGoneIsFailed DEF Leave
  <2>2. TypeOK' /\ ReaderAt' /\ Hands' /\ InOrder' /\ MainSays' /\ ReaderGone'
    BY <1>1, <1>2, <2>1 DEF IInv, TypeOK, ReaderAt, Hands, InOrder, MainSays, ReaderGone
  <2>3. Flow'
    BY <1>1, <1>2, <2>1, FlowStays
  <2>4. BuffersFit' /\ BuffersAddUp'
    BY <1>1, <1>2, <2>2, BuffersStay
  <2> QED
    BY <2>2, <2>3, <2>4 DEF IInv, PermitsAddUp
<1>3. CASE NextPiece /\ jobs' = Append(jobs, seq)
  <2>1. /\ seq' = seq + 1 /\ reader' \in {"free", "permit", "gone"}
        /\ seq' \in 1..NPieces + 1 /\ ReaderAt'
        /\ reader' = "gone" => seq' = NPieces + 1
    BY <1>0, <1>3, NextAt
  <2>2. seq \in Pieces /\ seq # Error /\ jobs \in Seq(Pieces)
    BY <1>0, AtHand, Given DEF IInv, TypeOK
  <2>3. /\ jobs' \in Seq(Pieces) /\ Distinct(jobs') /\ Of(jobs') = Of(jobs) \cup {seq}
        /\ Len(jobs') = Len(jobs) + 1
    BY <1>0, <1>3, <2>2, AtHand, Sent DEF IInv, Flow, OnePlace
  <2>4. TypeOK'
    BY <1>1, <2>1, <2>3 DEF IInv, TypeOK, NPieces, MaxPermits, Pieces, Messages, T
  <2>5. seq \in Nat /\ Len(out) \in Nat
    BY Numbers DEF IInv
  <2>6. InOrder' /\ Hands'
    BY <1>1, <2>1, <2>5 DEF IInv, InOrder, Hands
  <2>7. MainSays'
    BY <1>0, <1>1 DEF IInv, MainSays, NoSenders, ReaderGone
  <2>8. Flow'
    <3>1. Of(jobs)' = Of(jobs) \cup {seq} /\ Working' = Working /\ Of(channel)' = Of(channel)
      BY <1>1, <2>3 DEF Of, Working
    <3>2. OnePlace'
      <4>1. \A p \in Of(jobs) \cup Working \cup Of(channel) \cup pending : p \in Nat /\ p < seq
        BY Given, InFlight DEF IInv, Flow, OnePlace
      <4>2. \A p \in (Of(jobs) \cup Working \cup Of(channel) \cup pending)' : Len(out) < p /\ p < seq'
        BY <1>1, <2>1, <2>5, <3>1, <4>1 DEF IInv, Flow, OnePlace, InOrder
      <4> QED
        BY <1>0, <1>1, <2>3, <3>1, <4>2, AtHand DEF IInv, Flow, OnePlace, Distinct
    <3>3. NothingLost'
      <4> SUFFICES ASSUME ~Trouble' PROVE NothingLost'
        BY DEF NothingLost
      <4>1. ~Trouble
        BY <1>1 DEF Trouble, Faulted
      <4>2. \A p \in Pieces : p < seq' => p < seq \/ p = seq
        BY <2>1, <2>5, Given
      <4> QED
        BY <1>0, <1>1, <2>1, <3>1, <4>1, <4>2 DEF IInv, Flow, NothingLost, ReaderGone, Pieces, NPieces
    <3> QED
      BY <3>2, <3>3 DEF Flow
  <2>9. BuffersFit' /\ BuffersAddUp'
    <3> DEFINE busy == Cardinality(Compressing)
    <3>1. busy \in Nat
      <4>1. IsFiniteSet(Compressing)
        BY Given, FS_Subset DEF Compressing
      <4> QED
        BY <4>1, FS_CardinalityType
    <3>2. pool + Len(jobs) + 1 + busy = T + 2
      BY <1>0 DEF IInv, BuffersAddUp, Compressing
    <3>3. busy' = busy
      BY <1>1 DEF Compressing
    <3> HIDE DEF busy
    <3>4. pool + Len(jobs') + 0 + busy = T + 2
      BY <2>3, <3>1, <3>2, Numbers, Given DEF IInv
    <3>5. pool' = pool /\ T' = T
      BY <1>1 DEF T
    <3>6. pool' + Len(jobs') + 0 + busy' = T' + 2
      BY <3>3, <3>4, <3>5
    <3>7. pool' + Len(jobs') + 0 + busy' <= T' + 2
      BY <3>4, <3>6, <3>5, Given
    <3>8. HeldBuffer' = 0
      BY <2>1 DEF HeldBuffer
    <3> QED
      BY <3>6, <3>7, <3>8 DEF BuffersFit, BuffersAddUp, HeldBuffer, busy, Compressing
  <2>10. Memory(Len(out'), seq', reader') = Memory(Len(out), seq, reader)
    <3>1. Layout[seq] = "data"
      BY <1>0, AtHand
    <3>2. \A p \in Pieces : (p < seq' <=> p < seq \/ p = seq)
      BY <2>1, <2>5, Given
    <3> QED
      BY <1>0, <1>1, <2>1, <3>1, <3>2 DEF Memory
  <2>11. PermitsAddUp'
    BY <1>0, <1>1, <2>4, <2>6, <2>10, PermitsStay
  <2> QED
    BY <2>1, <2>4, <2>6, <2>7, <2>8, <2>9, <2>11 DEF IInv
<1> QED
  BY <1>2, <1>3 DEF SendJob

-------------------------------------------------------------------------------
(* The compressors' steps *)

\* While one of them runs, the calling thread doesn't take the data for complete.
LEMMA StillRunning ==
  ASSUME IInv, NEW t \in Threads, compressor[t] # "gone", UNCHANGED mainVars
  PROVE  MainSays' /\ main \notin {"table", "finished"}
  BY DEF IInv, MainSays, NoSenders, CompressorsGone, mainVars

\* Only a buffer that's taken or returned changes what Compressing counts.
LEMMA BuffersKept ==
  ASSUME IInv, UNCHANGED <<pool, jobs, reader>>, Compressing' = Compressing
  PROVE  BuffersFit' /\ BuffersAddUp'
<1>1. HeldBuffer' = HeldBuffer /\ (ReaderGone' <=> ReaderGone)
  BY DEF HeldBuffer, ReaderGone
<1>2. BuffersFit'
  BY <1>1 DEF IInv, BuffersFit, T
<1>3. Cardinality(Compressing') = Cardinality(Compressing)
  OBVIOUS
<1> QED
  BY <1>1, <1>2, <1>3 DEF IInv, BuffersAddUp, HeldBuffer, T, Compressing

LEMMA CreateKeeps == ASSUME IInv, NEW t \in Threads, Create(t) PROVE IInv'
<1>0. /\ compressor[t] = "create"
      /\ compressor \in [Threads -> {"create", "take", "compress", "send", "last", "gone"}]
  BY DEF Create, IInv, TypeOK
<1>1. UNCHANGED <<reader, seq, permits, pool, jobs, work, channel, main, pending, out, result>>
  BY DEF Create, readerVars, mainVars
<1>2. PICK next \in {"take", "last"} : compressor' = [compressor EXCEPT ![t] = next]
  BY DEF Create
<1>3. /\ compressor' \in [Threads -> {"create", "take", "compress", "send", "last", "gone"}]
      /\ compressor'[t] \in {"take", "last"}
      /\ \A u \in Threads : u # t => compressor'[u] = compressor[u]
  BY <1>0, <1>2
<1>4. TypeOK'
  BY <1>1, <1>3 DEF IInv, TypeOK, NPieces, MaxPermits, Pieces, Messages, T
<1>5. ReaderAt' /\ Hands' /\ InOrder'
  BY <1>0, <1>1, <1>3 DEF IInv, ReaderAt, Hands, InOrder, ReaderGone
<1>6. MainSays'
  BY <1>0, <1>1, StillRunning DEF mainVars
<1>7. BuffersFit' /\ BuffersAddUp'
  <2>1. Compressing' = Compressing
    BY <1>0, <1>3 DEF Compressing
  <2> QED
    BY <1>1, <2>1, BuffersKept
<1>8. Flow'
  <2>1. Working' = Working /\ Of(jobs)' = Of(jobs) /\ Of(channel)' = Of(channel)
    BY <1>1 DEF Working, Of
  <2>2. OnePlace'
    BY <1>1, <2>1 DEF IInv, Flow, OnePlace, Distinct
  <2>3. ~Trouble' => ~Trouble
    BY <1>0, <1>1, <1>3 DEF Trouble, Faulted
  <2>4. \A u \in Threads : compressor'[u] = "gone" => compressor[u] = "gone"
    BY <1>3
  <2>5. NothingLost'
    BY <1>1, <2>1, <2>3, <2>4 DEF IInv, Flow, NothingLost, ReaderGone, Pieces, NPieces
  <2> QED
    BY <2>2, <2>5 DEF Flow
<1>9. PermitsAddUp'
  BY <1>1, <1>4, <1>5, PermitsStay DEF ReaderGone
<1> QED
  BY <1>4, <1>5, <1>6, <1>7, <1>8, <1>9 DEF IInv

\* What the compressors hold, counted.
LEMMA BusyIs ==
  IsFiniteSet(Compressing) /\ Cardinality(Compressing) \in Nat
<1>1. IsFiniteSet(Compressing)
  BY Given, FS_Subset DEF Compressing
<1> QED
  BY <1>1, FS_CardinalityType

LEMMA TakeKeeps == ASSUME IInv, NEW t \in Threads, Take(t) PROVE IInv'
<1>0. /\ compressor[t] = "take" /\ work[t] = Error /\ work \in [Threads -> Messages]
      /\ compressor \in [Threads -> {"create", "take", "compress", "send", "last", "gone"}]
  BY DEF Take, IInv, TypeOK, Hands
<1>1. UNCHANGED <<reader, seq, permits, pool, channel, main, pending, out, result>>
  BY DEF Take, readerVars, mainVars
<1>2. MainSays'
  BY <1>0, <1>1, StillRunning DEF mainVars
<1>3. CASE /\ jobs # <<>> /\ jobs' = Tail(jobs)
           /\ work' = [work EXCEPT ![t] = Head(jobs)]
           /\ compressor' = [compressor EXCEPT ![t] = "compress"]
  <2> DEFINE h == Head(jobs)
  <2>1. Distinct(jobs) /\ jobs \in Seq(Pieces)
    BY DEF IInv, TypeOK, Flow, OnePlace
  <2>2. /\ h \in Pieces /\ jobs' \in Seq(Pieces) /\ Distinct(jobs')
        /\ Of(jobs') = Of(jobs) \ {h} /\ (h # Error => h \in Of(jobs))
        /\ Len(jobs) = Len(jobs') + 1 /\ Len(jobs') \in Nat
    BY <1>3, <2>1, Received
  <2>3. h # Error /\ h \in Of(jobs) /\ h \in Messages
    BY <2>2, Given DEF Messages
  <2>4. /\ work' \in [Threads -> Messages] /\ work'[t] = h
        /\ compressor' \in [Threads -> {"create", "take", "compress", "send", "last", "gone"}]
        /\ compressor'[t] = "compress"
        /\ \A u \in Threads : u # t => compressor'[u] = compressor[u] /\ work'[u] = work[u]
    BY <1>0, <1>3, <2>3
  <2> HIDE DEF h
  <2>5. TypeOK'
    BY <1>1, <2>2, <2>4 DEF IInv, TypeOK, NPieces, MaxPermits, Pieces, Messages, T
  <2>6. ReaderAt' /\ Hands' /\ InOrder'
    BY <1>1, <2>3, <2>4 DEF IInv, ReaderAt, Hands, InOrder, ReaderGone
  <2>7. Flow'
    <3>1. Working' = Working \cup {h} /\ Of(jobs)' = Of(jobs) \ {h} /\ Of(channel)' = Of(channel)
      <4>1. Of(jobs)' = Of(jobs) \ {h} /\ Of(channel)' = Of(channel)
        BY <1>1, <2>2 DEF Of
      <4>2. Working' \subseteq Working \cup {h}
        BY <2>4 DEF Working
      <4>3. Working \cup {h} \subseteq Working'
        BY <1>0, <2>3, <2>4 DEF Working
      <4> QED
        BY <4>1, <4>2, <4>3
    <3>2. h \notin Working /\ h \notin Of(channel) /\ h \notin pending
      BY <2>3 DEF IInv, Flow, OnePlace
    <3>3. \A u, v \in Threads : work'[u] = work'[v] /\ work'[u] # Error => u = v
      BY <2>4, <2>3, <3>2 DEF IInv, Flow, OnePlace, Working
    <3>4. (Of(jobs) \cup Working \cup Of(channel) \cup pending)'
            = Of(jobs) \cup Working \cup Of(channel) \cup pending
      BY <1>1, <2>3, <3>1
    <3>5. OnePlace'
      BY <1>1, <2>2, <3>1, <3>2, <3>3, <3>4 DEF IInv, Flow, OnePlace, Distinct
    <3>6. NothingLost'
      <4> SUFFICES ASSUME ~Trouble' PROVE NothingLost'
        BY DEF NothingLost
      <4>1. ~Trouble
        BY <1>0, <1>1, <2>4 DEF Trouble, Faulted
      <4>2. \A u \in Threads : compressor'[u] # "gone"
        <5>1. \A u \in Threads : compressor[u] # "gone"
          BY <1>3, <4>1 DEF IInv, Flow, NothingLost
        <5> QED
          BY <2>4, <5>1
      <4> QED
        BY <1>1, <3>4, <4>1, <4>2 DEF IInv, Flow, NothingLost, ReaderGone, Pieces, NPieces
    <3> QED
      BY <3>5, <3>6 DEF Flow
  <2>8. BuffersFit' /\ BuffersAddUp'
    <3> DEFINE busy == Cardinality(Compressing)
               will == Cardinality(Compressing')
    <3>1. Compressing' = Compressing \cup {t} /\ t \notin Compressing
      BY <1>0, <2>4 DEF Compressing
    <3>2. will = busy + 1 /\ busy \in Nat
      BY <3>1, BusyIs, FS_AddElement
    <3>3. pool + Len(jobs) + HeldBuffer + busy <= T + 2
      BY DEF IInv, BuffersFit
    <3>4. ~ReaderGone => pool + Len(jobs) + HeldBuffer + busy = T + 2
      BY DEF IInv, BuffersAddUp, HeldBuffer, Compressing
    <3>5. HeldBuffer \in Nat /\ HeldBuffer' = HeldBuffer /\ (ReaderGone' <=> ReaderGone)
          /\ pool' = pool /\ T' = T
      BY <1>1 DEF HeldBuffer, ReaderGone, T
    <3> HIDE DEF busy, will
    <3>n. pool \in Nat /\ Len(jobs') \in Nat /\ Len(jobs) = Len(jobs') + 1
      BY <2>2, Numbers DEF IInv
    <3>6. pool + Len(jobs') + HeldBuffer + will = pool + Len(jobs) + HeldBuffer + busy
      BY <3>2, <3>5, <3>n
    <3>7. /\ pool' + Len(jobs') + HeldBuffer' + will <= T' + 2
          /\ ~ReaderGone' => pool' + Len(jobs') + HeldBuffer' + will = T' + 2
      BY <3>3, <3>4, <3>5, <3>6
    <3> QED
      BY <3>7 DEF BuffersFit, BuffersAddUp, HeldBuffer, will, Compressing
  <2>9. PermitsAddUp'
    BY <1>1, <2>5, <2>6, PermitsStay DEF ReaderGone
  <2> QED
    BY <1>2, <2>5, <2>6, <2>7, <2>8, <2>9 DEF IInv
<1>4. CASE /\ jobs = <<>> /\ ReaderGone
           /\ compressor' = [compressor EXCEPT ![t] = "gone"]
           /\ UNCHANGED <<jobs, work>>
  <2>1. /\ compressor' \in [Threads -> {"create", "take", "compress", "send", "last", "gone"}]
        /\ compressor'[t] = "gone"
        /\ \A u \in Threads : u # t => compressor'[u] = compressor[u]
    BY <1>0, <1>4
  <2>2. TypeOK'
    BY <1>1, <1>4, <2>1 DEF IInv, TypeOK, NPieces, MaxPermits, Pieces, Messages, T
  <2>3. ReaderAt' /\ Hands' /\ InOrder'
    BY <1>0, <1>1, <1>4, <2>1 DEF IInv, ReaderAt, Hands, InOrder, ReaderGone
  <2>4. Compressing' = Compressing
    BY <1>0, <2>1 DEF Compressing
  <2>5. BuffersFit' /\ BuffersAddUp'
    BY <1>1, <1>4, <2>4, BuffersKept
  <2>6. Flow'
    <3>1. Working' = Working /\ Of(jobs)' = Of(jobs) /\ Of(channel)' = Of(channel)
      BY <1>1, <1>4 DEF Working, Of
    <3>2. OnePlace'
      BY <1>1, <1>4, <3>1 DEF IInv, Flow, OnePlace, Distinct
    <3>3. ~Trouble' => ~Trouble
      BY <1>0, <1>1, <1>4, <2>1 DEF Trouble, Faulted
    <3>4. NothingLost'
      BY <1>1, <1>4, <3>1, <3>3 DEF IInv, Flow, NothingLost, ReaderGone, Pieces, NPieces
    <3> QED
      BY <3>2, <3>4 DEF Flow
  <2>7. PermitsAddUp'
    BY <1>1, <2>2, <2>3, PermitsStay DEF ReaderGone
  <2> QED
    BY <1>2, <2>2, <2>3, <2>5, <2>6, <2>7 DEF IInv
<1> QED
  BY <1>3, <1>4 DEF Take

LEMMA CompressKeeps == ASSUME IInv, NEW t \in Threads, Compress(t) PROVE IInv'
<1>0. /\ compressor[t] = "compress" /\ work[t] # Error /\ work \in [Threads -> Messages]
      /\ compressor \in [Threads -> {"create", "take", "compress", "send", "last", "gone"}]
  BY DEF Compress, IInv, TypeOK, Hands
<1>1. UNCHANGED <<reader, seq, permits, jobs, channel, main, pending, out, result>>
  BY DEF Compress, readerVars, mainVars
<1>2. PICK ok \in BOOLEAN : /\ work' = [work EXCEPT ![t] = IF ok THEN @ ELSE Error]
                            /\ compressor' = [compressor EXCEPT ![t] = "send"]
                            /\ pool' = pool + 1
  BY DEF Compress, Compressed, Returned
<1>3. Error \in Messages /\ work[t] \in Messages
  BY <1>0 DEF Messages
<1>4. /\ work' \in [Threads -> Messages] /\ work'[t] = (IF ok THEN work[t] ELSE Error)
      /\ compressor' \in [Threads -> {"create", "take", "compress", "send", "last", "gone"}]
      /\ compressor'[t] = "send"
      /\ \A u \in Threads : u # t => compressor'[u] = compressor[u] /\ work'[u] = work[u]
  BY <1>0, <1>2, <1>3
<1>5. MainSays'
  BY <1>0, <1>1, StillRunning DEF mainVars
<1>6. pool' \in 0..T + 2 /\ BuffersFit' /\ BuffersAddUp'
  <2> DEFINE busy == Cardinality(Compressing)
             will == Cardinality(Compressing')
  <2>1. Compressing' = Compressing \ {t} /\ t \in Compressing
    BY <1>0, <1>4 DEF Compressing
  <2>2. busy \in Nat /\ will \in Nat /\ will = busy - 1
    <3>1. IsFiniteSet(Compressing')
      BY <2>1, BusyIs, FS_Subset
    <3> QED
      BY <2>1, <3>1, BusyIs, FS_RemoveElement, FS_CardinalityType
  <2>3. pool + Len(jobs) + HeldBuffer + busy <= T + 2
    BY DEF IInv, BuffersFit
  <2>4. ~ReaderGone => pool + Len(jobs) + HeldBuffer + busy = T + 2
    BY DEF IInv, BuffersAddUp, HeldBuffer, Compressing
  <2>5. HeldBuffer \in Nat /\ HeldBuffer' = HeldBuffer /\ (ReaderGone' <=> ReaderGone)
        /\ jobs' = jobs /\ T' = T
    BY <1>1 DEF HeldBuffer, ReaderGone, T
  <2> HIDE DEF busy, will
  <2>n. pool \in Nat /\ Len(jobs) \in Nat /\ pool' = pool + 1 /\ T \in Nat
    BY <1>2, Numbers, Given DEF IInv
  <2>6. pool' + Len(jobs) + HeldBuffer + will = pool + Len(jobs) + HeldBuffer + busy
        /\ pool' \in Nat /\ pool' <= pool + Len(jobs) + HeldBuffer + busy
    BY <2>2, <2>5, <2>n
  <2>7. pool' \in 0..T + 2
    BY <2>2, <2>3, <2>5, <2>6, <2>n
  <2>8. /\ pool' + Len(jobs') + HeldBuffer' + will <= T' + 2
        /\ ~ReaderGone' => pool' + Len(jobs') + HeldBuffer' + will = T' + 2
    BY <2>3, <2>4, <2>5, <2>6
  <2> QED
    BY <2>7, <2>8 DEF BuffersFit, BuffersAddUp, HeldBuffer, will, Compressing
<1>7. TypeOK'
  BY <1>1, <1>4, <1>6 DEF IInv, TypeOK, NPieces, MaxPermits, Pieces, Messages, T
<1>8. ReaderAt' /\ Hands' /\ InOrder'
  BY <1>1, <1>4 DEF IInv, ReaderAt, Hands, InOrder, ReaderGone
<1>9. Flow'
  <2>1. Of(jobs)' = Of(jobs) /\ Of(channel)' = Of(channel) /\ Working' \subseteq Working
        /\ (ok => Working' = Working)
    BY <1>1, <1>4 DEF Of, Working
  <2>2. \A u, v \in Threads : work'[u] = work'[v] /\ work'[u] # Error => u = v
    BY <1>4 DEF IInv, Flow, OnePlace
  <2>3. OnePlace'
    BY <1>1, <2>1, <2>2 DEF IInv, Flow, OnePlace, Distinct
  <2>4. ~Trouble' => ok /\ ~Trouble
    BY <1>0, <1>1, <1>4 DEF Trouble, Faulted
  <2>5. \A u \in Threads : compressor'[u] = "gone" => compressor[u] = "gone"
    BY <1>4
  <2>6. NothingLost'
    BY <1>1, <2>1, <2>4, <2>5 DEF IInv, Flow, NothingLost, ReaderGone, Pieces, NPieces
  <2> QED
    BY <2>3, <2>6 DEF Flow
<1>10. PermitsAddUp'
  BY <1>1, <1>7, <1>8, PermitsStay DEF ReaderGone
<1> QED
  BY <1>5, <1>6, <1>7, <1>8, <1>9, <1>10 DEF IInv

LEMMA SendPieceKeeps == ASSUME IInv, NEW t \in Threads, SendPiece(t) PROVE IInv'
<1>0. /\ compressor[t] \in {"send", "last"} /\ (compressor[t] = "last" => work[t] = Error)
      /\ work \in [Threads -> Messages] /\ work[t] \in Messages /\ Error \in Messages
      /\ compressor \in [Threads -> {"create", "take", "compress", "send", "last", "gone"}]
  BY DEF SendPiece, IInv, TypeOK, Hands, Messages
<1>1. UNCHANGED <<reader, seq, permits, pool, jobs, main, pending, out, result>>
  BY DEF SendPiece, readerVars, mainVars
<1>2. MainSays' /\ main \notin {"table", "finished"}
  BY <1>0, <1>1, StillRunning DEF mainVars
<1>3. work' = [work EXCEPT ![t] = Error]
  BY DEF SendPiece
<1>4. work' \in [Threads -> Messages] /\ work'[t] = Error
      /\ \A u \in Threads : u # t => work'[u] = work[u]
  BY <1>0, <1>3
<1>5. Of(jobs)' = Of(jobs) /\ Working' = Working \ {work[t]}
  <2>1. \A u \in Threads : u # t => work[u] # work[t] \/ work[u] = Error
    BY DEF IInv, Flow, OnePlace
  <2> QED
    BY <1>1, <1>4, <2>1 DEF Of, Working
<1>6. \A u, v \in Threads : work'[u] = work'[v] /\ work'[u] # Error => u = v
  BY <1>4 DEF IInv, Flow, OnePlace
<1>7. CASE MainGone /\ compressor' = [compressor EXCEPT ![t] = "gone"] /\ UNCHANGED channel
  <2>1. /\ compressor' \in [Threads -> {"create", "take", "compress", "send", "last", "gone"}]
        /\ compressor'[t] = "gone"
        /\ \A u \in Threads : u # t => compressor'[u] = compressor[u]
    BY <1>0, <1>7
  <2>2. TypeOK'
    BY <1>1, <1>4, <1>7, <2>1 DEF IInv, TypeOK, NPieces, MaxPermits, Pieces, Messages, T
  <2>3. ReaderAt' /\ Hands' /\ InOrder'
    BY <1>1, <1>4, <2>1 DEF IInv, ReaderAt, Hands, InOrder, ReaderGone
  <2>4. Compressing' = Compressing
    BY <1>0, <2>1 DEF Compressing
  <2>5. BuffersFit' /\ BuffersAddUp'
    BY <1>1, <2>4, BuffersKept
  <2>6. Flow'
    <3>1. Of(channel)' = Of(channel)
      BY <1>7 DEF Of
    <3>2. OnePlace'
      BY <1>1, <1>5, <1>6, <1>7, <3>1 DEF IInv, Flow, OnePlace, Distinct
    <3>3. Trouble'
      BY <1>1, <1>2, <1>7 DEF Trouble, MainGone
    <3> QED
      BY <3>2, <3>3 DEF Flow, NothingLost
  <2>7. PermitsAddUp'
    BY <1>1, <2>2, <2>3, PermitsStay DEF ReaderGone
  <2> QED
    BY <1>2, <2>2, <2>3, <2>5, <2>6, <2>7 DEF IInv
<1>8. CASE /\ compressor' = [compressor EXCEPT ![t] = IF @ = "last" THEN "gone" ELSE "take"]
           /\ channel' = Append(channel, work[t])
  <2>1. /\ compressor' \in [Threads -> {"create", "take", "compress", "send", "last", "gone"}]
        /\ compressor'[t] = (IF compressor[t] = "last" THEN "gone" ELSE "take")
        /\ \A u \in Threads : u # t => compressor'[u] = compressor[u]
    BY <1>0, <1>8
  <2>2. work[t] = Error \/ work[t] \in Working
    BY DEF Working
  <2>3. /\ channel' \in Seq(Messages) /\ Distinct(channel')
        /\ Of(channel') = Of(channel) \cup ({work[t]} \ {Error})
        /\ Faulted(channel') <=> Faulted(channel) \/ work[t] = Error
    <3>1. channel \in Seq(Messages) /\ Distinct(channel)
          /\ (work[t] = Error \/ work[t] \notin Of(channel))
      BY <2>2 DEF IInv, TypeOK, Flow, OnePlace
    <3> QED
      BY <1>0, <1>8, <3>1, Sent
  <2>4. TypeOK'
    BY <1>1, <1>4, <2>1, <2>3 DEF IInv, TypeOK, NPieces, MaxPermits, Pieces, Messages, T
  <2>5. ReaderAt' /\ Hands' /\ InOrder'
    BY <1>1, <1>4, <2>1 DEF IInv, ReaderAt, Hands, InOrder, ReaderGone
  <2>6. Compressing' = Compressing
    BY <1>0, <2>1 DEF Compressing
  <2>7. BuffersFit' /\ BuffersAddUp'
    BY <1>1, <2>6, BuffersKept
  <2>8. Flow'
    <3>1. Of(channel)' = Of(channel) \cup ({work[t]} \ {Error})
      BY <2>3 DEF Of
    <3>2. (Of(jobs) \cup Working \cup Of(channel) \cup pending)'
            = Of(jobs) \cup Working \cup Of(channel) \cup pending
      <4>1. Error \notin Working /\ Error \notin Of(channel)
        BY DEF Working, Of
      <4> QED
        BY <1>1, <1>5, <2>2, <3>1, <4>1
    <3>3. /\ (Of(jobs) \cap Of(channel))' = {} /\ (Working \cap Of(channel))' = {}
          /\ (Of(channel) \cap pending)' = {} /\ (Of(jobs) \cap Working)' = {}
          /\ (Working \cap pending)' = {} /\ (Of(jobs) \cap pending)' = {}
      BY <1>1, <1>5, <2>2, <3>1 DEF IInv, Flow, OnePlace
    <3>4. OnePlace'
      BY <1>1, <1>6, <2>3, <3>2, <3>3 DEF IInv, Flow, OnePlace, Distinct
    <3>5. NothingLost'
      <4> SUFFICES ASSUME ~Trouble' PROVE NothingLost'
        BY DEF NothingLost
      <4>1. work[t] # Error /\ ~Faulted(channel)
        BY <2>3 DEF Trouble
      <4>2. ~Trouble /\ compressor[t] = "send"
        BY <1>0, <1>1, <1>4, <2>1, <4>1 DEF Trouble
      <4>3. \A u \in Threads : compressor'[u] = "gone" => compressor[u] = "gone"
        BY <2>1, <4>2
      <4> QED
        BY <1>1, <3>2, <4>2, <4>3 DEF IInv, Flow, NothingLost, ReaderGone, Pieces, NPieces
    <3> QED
      BY <3>4, <3>5 DEF Flow
  <2>9. PermitsAddUp'
    BY <1>1, <2>4, <2>5, PermitsStay DEF ReaderGone
  <2> QED
    BY <1>2, <2>4, <2>5, <2>7, <2>8, <2>9 DEF IInv
<1> QED
  BY <1>7, <1>8 DEF SendPiece

-------------------------------------------------------------------------------
(* The calling thread's steps *)

\* What the other threads have stays as it is.
LEMMA OthersStay ==
  ASSUME IInv, UNCHANGED <<reader, seq, pool, jobs, compressor, work>>
  PROVE  ReaderAt' /\ Hands' /\ BuffersFit' /\ BuffersAddUp' /\ (ReaderGone' <=> ReaderGone)
<1>1. ReaderAt' /\ Hands' /\ (ReaderGone' <=> ReaderGone)
  BY DEF IInv, ReaderAt, Hands, ReaderGone
<1>2. Compressing' = Compressing
  BY DEF Compressing
<1> QED
  BY <1>1, <1>2, BuffersKept

LEMMA WriteErrorKeeps ==
  ASSUME IInv, Fail("write error"),
         UNCHANGED <<reader, seq, permits, pool, jobs, compressor, work, channel>>
  PROVE  IInv'
<1>1. main' = "failed" /\ result' = "write error" /\ UNCHANGED <<pending, out>>
  BY DEF Fail
<1>2. TypeOK' /\ InOrder'
  BY <1>1 DEF IInv, TypeOK, InOrder, NPieces, MaxPermits, Pieces, Messages, T
<1>3. Flow'
  BY <1>1, FlowStays
<1> QED
  BY <1>1, <1>2, <1>3, OthersStay DEF IInv, MainSays, PermitsAddUp

\* Nothing is lost by a step that only moves on.
LEMMA MovesOn ==
  ASSUME IInv, main # "failed",
         main' \in {"map", "receive", "put", "table", "finished"},
         result' \in {"none", "ok"}, MainSays',
         UNCHANGED <<reader, seq, permits, pool, jobs, compressor, work, channel, pending, out>>
  PROVE  IInv'
<1>1. TypeOK' /\ InOrder'
  BY DEF IInv, TypeOK, InOrder, NPieces, MaxPermits, Pieces, Messages, T
<1>2. Flow'
  BY FlowStays DEF ReaderGone
<1>3. PermitsAddUp'
  BY <1>1, PermitsStay DEF ReaderGone
<1> QED
  BY <1>1, <1>2, <1>3, OthersStay DEF IInv

LEMMA PutMapKeeps == ASSUME IInv, PutMap PROVE IInv'
<1>1. /\ main = "map"
      /\ UNCHANGED <<reader, seq, permits, pool, jobs, compressor, work, channel>>
  BY DEF PutMap, readerVars
<1>2. CASE main' = "receive" /\ UNCHANGED <<pending, out, result>>
  <2>1. pending = {} /\ result = "none"
    BY <1>1 DEF IInv, MainSays
  <2>2. MainSays'
    BY <1>2, <2>1 DEF MainSays
  <2> QED
    BY <1>1, <1>2, <2>1, <2>2, MovesOn
<1>3. CASE Fail("write error")
  BY <1>1, <1>3, WriteErrorKeeps
<1> QED
  BY <1>2, <1>3 DEF PutMap

\* Once all senders are gone without an error and nothing's left to receive, what
\* isn't pending is written: no part of the image goes missing.
LEMMA NothingMissing ==
  ASSUME IInv, main = "receive", channel = <<>>, NoSenders
  PROVE  pending = {} /\ Len(out) = NPieces
<1>1. ~Trouble
  BY DEF Trouble, Faulted, NoSenders, CompressorsGone
<1>2. PICK t \in Threads : TRUE
  BY ImageAssumption
<1>3. seq = NPieces + 1 /\ jobs = <<>>
  BY <1>1, <1>2 DEF IInv, Flow, NothingLost, NoSenders, CompressorsGone
<1>4. Of(jobs) = {} /\ Of(channel) = {} /\ Working = {}
  <2>1. Of(<<>>) = {}
    BY DEF Of
  <2>2. Working = {}
    BY DEF Working, IInv, Hands, NoSenders, CompressorsGone
  <2> QED
    BY <1>3, <2>1, <2>2
<1>5. \A p \in Pieces : p < seq => p <= Len(out) \/ p \in pending
  BY <1>1, <1>4 DEF IInv, Flow, NothingLost
<1>6. Len(out) + 1 \notin pending
  BY DEF IInv, MainSays
<1>7. Len(out) \in Nat /\ NPieces \in Nat /\ Len(out) < seq
  BY Numbers, Given DEF IInv, InOrder
<1>8. Len(out) = NPieces
  <2>1. Len(out) + 1 \in Pieces => Len(out) + 1 < seq /\ ~(Len(out) + 1 <= Len(out))
    BY <1>3, <1>7, Given
  <2>2. Len(out) + 1 \notin Pieces
    BY <1>5, <1>6, <2>1
  <2>3. ~(1 <= Len(out) + 1 /\ Len(out) + 1 <= NPieces)
    BY <1>7, <2>2, Given
  <2> QED
    BY <1>3, <1>7, <2>3
<1>9. pending = {}
  <2>1. \A p \in pending : Len(out) < p /\ p \in Pieces
    BY InFlight DEF IInv, Flow, OnePlace
  <2>2. \A p \in Pieces : p \in Nat /\ p <= NPieces
    BY Given
  <2> QED
    BY <1>7, <1>8, <2>1, <2>2
<1> QED
  BY <1>8, <1>9

LEMMA ReceiveKeeps == ASSUME IInv, Receive PROVE IInv'
<1>1. main = "receive" /\ UNCHANGED <<reader, seq, pool, jobs, compressor, work>>
  BY DEF Receive, readerVars
<1>2. Working' = Working /\ Of(jobs)' = Of(jobs) /\ Distinct(jobs)' = Distinct(jobs)
  BY <1>1 DEF Working, Of, Distinct
<1>3. result = "none" /\ channel \in Seq(Messages) /\ Distinct(channel)
  BY <1>1 DEF IInv, MainSays, TypeOK, Flow, OnePlace
<1>4. CASE channel # <<>> /\ channel' = Tail(channel)
  <2> DEFINE h == Head(channel)
  <2>1. /\ h \in Messages /\ channel' \in Seq(Messages) /\ Distinct(channel')
        /\ Of(channel)' = Of(channel) \ {h} /\ (h # Error => h \in Of(channel))
        /\ Faulted(channel) => Faulted(channel') \/ h = Error
    <3>1. Of(channel)' = Of(Tail(channel))
      BY <1>4 DEF Of
    <3> QED
      BY <1>3, <1>4, <3>1, Received
  <2>2. CASE h = Error /\ Fail("thread error") /\ UNCHANGED permits
    <3>1. main' = "failed" /\ result' = "thread error" /\ UNCHANGED <<pending, out, permits>>
      BY <2>2 DEF Fail
    <3>2. TypeOK' /\ InOrder'
      BY <1>1, <2>1, <3>1 DEF IInv, TypeOK, InOrder, NPieces, MaxPermits, Pieces, Messages, T
    <3>3. OnePlace'
      BY <1>1, <1>2, <2>1, <3>1 DEF IInv, Flow, OnePlace
    <3>4. Flow'
      BY <3>1, <3>3 DEF Flow, NothingLost, Trouble
    <3> QED
      BY <1>1, <3>1, <3>2, <3>4, OthersStay DEF IInv, MainSays, PermitsAddUp
  <2>3. CASE /\ h # Error /\ pending' = pending \cup {h} /\ main' = "put"
             /\ UNCHANGED <<permits, out, result>>
    <3>1. h \in Pieces /\ h \in Of(channel)
      BY <2>1, <2>3 DEF Messages
    <3> HIDE DEF h
    <3>2. TypeOK' /\ InOrder'
      BY <1>1, <2>1, <2>3, <3>1 DEF IInv, TypeOK, InOrder, NPieces, MaxPermits, Pieces, Messages, T
    <3>3. MainSays'
      BY <1>3, <2>3 DEF MainSays
    <3>4. (Of(jobs) \cup Working \cup Of(channel) \cup pending)'
            = Of(jobs) \cup Working \cup Of(channel) \cup pending
      BY <1>2, <2>1, <2>3, <3>1
    <3>5. OnePlace'
      <4>1. /\ (Of(jobs) \cap Of(channel))' = {} /\ (Working \cap Of(channel))' = {}
            /\ (Of(channel) \cap pending)' = {} /\ (Of(jobs) \cap Working)' = {}
            /\ (Working \cap pending)' = {} /\ (Of(jobs) \cap pending)' = {}
        BY <1>2, <2>1, <2>3, <3>1 DEF IInv, Flow, OnePlace
      <4> QED
        BY <1>1, <1>2, <2>1, <2>3, <3>4, <4>1 DEF IInv, Flow, OnePlace
    <3>6. ~Trouble' => ~Trouble
      BY <1>1, <2>1, <2>3 DEF Trouble
    <3>7. NothingLost'
      BY <1>1, <2>3, <3>4, <3>6 DEF IInv, Flow, NothingLost, ReaderGone, Pieces, NPieces
    <3>8. PermitsAddUp'
      BY <1>1, <2>3, <3>2, PermitsStay DEF ReaderGone
    <3> QED
      BY <1>1, <3>2, <3>3, <3>5, <3>7, <3>8, OthersStay DEF IInv, Flow
  <2> QED
    BY <1>4, <2>2, <2>3 DEF Receive, Arrived
<1>5. CASE channel = <<>> /\ NoSenders
  <2>1. pending = {} /\ Len(out) = NPieces
    BY <1>1, <1>5, NothingMissing
  <2>2. main' = "table" /\ UNCHANGED <<pending, out, result, channel, permits>>
    BY <1>5, <2>1 DEF Receive
  <2>3. NoSenders'
    BY <1>1, <1>5 DEF NoSenders, ReaderGone, CompressorsGone
  <2>4. MainSays'
    BY <1>3, <1>5, <2>1, <2>2, <2>3 DEF MainSays, NPieces
  <2> QED
    BY <1>1, <1>3, <2>2, <2>4, MovesOn
<1> QED
  BY <1>4, <1>5 DEF Receive

\* The next piece in order leaves the memory.
LEMMA PutKeeps == ASSUME IInv, Put PROVE IInv'
<1>1. /\ main = "put" /\ result = "none"
      /\ UNCHANGED <<reader, seq, pool, jobs, compressor, work, channel>>
  BY DEF Put, readerVars, IInv, MainSays
<1>2. CASE \E p \in pending : IsNext(p) /\ Fail("write error") /\ UNCHANGED permits
  BY <1>1, <1>2, WriteErrorKeeps
<1>3. CASE /\ \A p \in pending : ~IsNext(p)
           /\ main' = "receive"
           /\ UNCHANGED <<permits, pending, out, result>>
  <2>1. Len(out) + 1 \notin pending
    BY <1>3 DEF IsNext
  <2>2. MainSays'
    BY <1>1, <1>3, <2>1 DEF MainSays
  <2> QED
    BY <1>1, <1>3, <2>2, MovesOn
<1>4. ASSUME NEW p \in pending, IsNext(p), pending' = pending \ {p}, out' = Append(out, p),
             IF Layout[p] = "data" /\ ~ReaderGone
               THEN permits < MaxPermits /\ permits' = permits + 1
               ELSE UNCHANGED permits,
             UNCHANGED <<main, result>>
      PROVE  IInv'
  <2>1. /\ out \in Seq(Pieces) /\ p \in Pieces /\ p = Len(out) + 1 /\ p < seq /\ Len(out) \in Nat
        /\ \A i \in 1..Len(out) : out[i] = i
    BY <1>4, InFlight, Numbers DEF IInv, TypeOK, IsNext, InOrder, Flow, OnePlace
  <2>2. out' \in Seq(Pieces) /\ Len(out') = p /\ \A i \in 1..Len(out') : out'[i] = i
    BY <1>4, <2>1
  <2>3. permits' \in 0..MaxPermits
    BY <1>4, Numbers, Given DEF IInv
  <2>4. TypeOK' /\ InOrder'
    <3>1. InOrder'
      BY <1>1, <2>1, <2>2 DEF InOrder
    <3> QED
      BY <1>1, <1>4, <2>2, <2>3, <3>1 DEF IInv, TypeOK, NPieces, MaxPermits, Pieces, Messages, T
  <2>5. MainSays'
    BY <1>1, <1>4 DEF MainSays
  <2>6. Flow'
    <3>1. Working' = Working /\ Of(jobs)' = Of(jobs) /\ Of(channel)' = Of(channel)
      BY <1>1 DEF Working, Of
    <3>2. p \notin Of(jobs) \cup Working \cup Of(channel)
      BY <1>4 DEF IInv, Flow, OnePlace
    <3>3. \A q \in (Of(jobs) \cup Working \cup Of(channel) \cup pending)' :
            /\ q \in Of(jobs) \cup Working \cup Of(channel) \cup pending
            /\ q # p /\ q \in Nat
      BY <1>4, <3>1, <3>2, InFlight, Given DEF IInv
    <3>4. \A q \in Nat : Len(out) < q /\ q # p => p < q
      BY <2>1
    <3>5. \A q \in (Of(jobs) \cup Working \cup Of(channel) \cup pending)' :
            Len(out') < q /\ q < seq'
      BY <1>1, <2>2, <3>3, <3>4 DEF IInv, Flow, OnePlace
    <3>6. OnePlace'
      BY <1>1, <1>4, <3>1, <3>5 DEF IInv, Flow, OnePlace, Distinct
    <3>7. ~Trouble' => ~Trouble
      BY <1>1, <1>4 DEF Trouble, Faulted
    <3>8. \A q \in Pieces : q <= Len(out) \/ q = p => q <= Len(out')
      <4>1. \A q \in Pieces : q \in Nat
        BY Given
      <4> QED
        BY <2>1, <2>2, <4>1
    <3>9. NothingLost'
      BY <1>1, <1>4, <3>1, <3>7, <3>8 DEF IInv, Flow, NothingLost, ReaderGone, Pieces, NPieces
    <3> QED
      BY <3>6, <3>9 DEF Flow
  <2>7. PermitsAddUp'
    <3> DEFINE old == Memory(Len(out), seq, reader)
               new == Memory(Len(out'), seq', reader')
    <3>1. CASE ReaderGone
      BY <1>1, <3>1 DEF PermitsAddUp, ReaderGone
    <3>2. CASE ~ReaderGone /\ Layout[p] = "free"
      <4>1. \A q \in Pieces : q # p => (Len(out') < q <=> Len(out) < q)
        BY <2>1, <2>2, Given
      <4>2. new = old
        BY <1>1, <3>2, <4>1 DEF Memory
      <4> QED
        BY <1>1, <1>4, <2>4, <3>2, <4>2, PermitsStay
    <3>3. CASE ~ReaderGone /\ Layout[p] = "data"
      <4>1. \A q \in Pieces : Len(out') < q <=> Len(out) < q /\ q # p
        BY <2>1, <2>2, Given
      <4>2. new = old \ {p} /\ p \in old
        <5>1. p \in old
          BY <2>1, <3>3 DEF Memory
        <5> QED
          BY <1>1, <4>1, <5>1 DEF Memory
      <4>3. Cardinality(new) = Cardinality(old) - 1 /\ Cardinality(old) \in Nat
        BY <4>2, MemoryFinite, FS_RemoveElement, FS_CardinalityType
      <4>4. InMemory = old /\ InMemory' = new
        BY <2>4, InMemoryIs, InMemoryWillBe DEF IInv
      <4> HIDE DEF old, new
      <4>5. permits + Cardinality(old) = MaxPermits
        BY <1>1, <3>3, <4>4 DEF IInv, PermitsAddUp
      <4>6. permits' = permits + 1 /\ permits \in Nat
        BY <1>4, <3>3, Numbers DEF IInv
      <4>7. permits' + Cardinality(new) = MaxPermits
        BY <4>3, <4>5, <4>6
      <4> QED
        BY <4>4, <4>7 DEF PermitsAddUp, MaxPermits, T
    <3> QED
      BY <2>1, <3>1, <3>2, <3>3, Given
  <2> QED
    BY <1>1, <2>4, <2>5, <2>6, <2>7, OthersStay DEF IInv
<1> QED
  BY <1>2, <1>3, <1>4 DEF Put

LEMMA PutTableKeeps == ASSUME IInv, PutTable PROVE IInv'
<1>1. /\ main = "table" /\ result = "none"
      /\ UNCHANGED <<reader, seq, permits, pool, jobs, compressor, work, channel>>
  BY DEF PutTable, readerVars, IInv, MainSays
<1>2. CASE main' = "finished" /\ UNCHANGED <<pending, out, result>>
  <2>1. MainSays'
    BY <1>1, <1>2 DEF IInv, MainSays, NoSenders, ReaderGone, CompressorsGone, NPieces
  <2> QED
    BY <1>1, <1>2, <2>1, MovesOn
<1>3. CASE Fail("write error")
  BY <1>1, <1>3, WriteErrorKeeps
<1> QED
  BY <1>2, <1>3 DEF PutTable

LEMMA JoinKeeps == ASSUME IInv, Join PROVE IInv'
<1>1. /\ main = "finished" /\ main' = "finished" /\ result' = "ok"
      /\ UNCHANGED <<reader, seq, permits, pool, jobs, compressor, work, channel, pending, out>>
  BY DEF Join, readerVars
<1>2. MainSays'
  BY <1>1 DEF IInv, MainSays, NoSenders, ReaderGone, CompressorsGone, NPieces
<1> QED
  BY <1>1, <1>2, MovesOn

-------------------------------------------------------------------------------
(* The invariant *)

LEMMA Initial == Init => IInv
<1> SUFFICES ASSUME Init PROVE IInv
  OBVIOUS
<1>1. /\ seq = 1 /\ permits = MaxPermits /\ pool = T + 2 /\ jobs = <<>> /\ channel = <<>>
      /\ compressor = [t \in Threads |-> "create"] /\ work = [t \in Threads |-> Error]
      /\ main = "map" /\ pending = {} /\ out = <<>> /\ result = "none" /\ reader = At(1)
  BY DEF Init
<1>2. 1 \in 1..NPieces + 1 /\ MaxPermits \in 0..MaxPermits /\ T + 2 \in 0..T + 2
      /\ NPieces \in Nat /\ T \in Nat /\ MaxPermits \in Nat
  BY Given
<1>3. /\ reader \in {"free", "permit", "gone"} /\ ReaderAt
      /\ reader = "gone" => seq = NPieces + 1
  <2>1. CASE NPieces = 0
    BY <1>1, <2>1 DEF At, ReaderAt, ReaderGone
  <2>2. CASE NPieces # 0
    <3>1. ~(1 > NPieces) /\ 1 <= NPieces /\ 1 \in Pieces
      BY <1>2, <2>2, Given
    <3>2. reader = IF Layout[1] = "free" THEN "free" ELSE "permit"
      BY <1>1, <3>1 DEF At
    <3> QED
      BY <1>1, <3>1, <3>2, Given DEF ReaderAt, ReaderGone
  <2> QED
    BY <2>1, <2>2
<1>4. /\ jobs \in Seq(Pieces) /\ out \in Seq(Pieces) /\ channel \in Seq(Messages)
      /\ Len(jobs) = 0 /\ Len(out) = 0 /\ Len(channel) = 0 /\ Error \in Messages
  BY <1>1 DEF Messages
<1>5. TypeOK
  BY <1>1, <1>2, <1>3, <1>4 DEF TypeOK
<1>6. Compressing = {} /\ Cardinality(Compressing) = 0 /\ HeldBuffer = 0
  <2>1. Compressing = {}
    BY <1>1 DEF Compressing
  <2> QED
    BY <1>3, <2>1, FS_EmptySet DEF HeldBuffer
<1>7. BuffersFit /\ BuffersAddUp
  <2>1. pool + Len(jobs) + HeldBuffer + Cardinality(Compressing) = T + 2
    BY <1>1, <1>2, <1>4, <1>6
  <2>2. T + 2 <= T + 2
    BY <1>2
  <2> QED
    BY <2>1, <2>2 DEF BuffersFit, BuffersAddUp, HeldBuffer, Compressing
<1>8. InOrder /\ Hands /\ MainSays
  BY <1>1, <1>4 DEF InOrder, Hands, MainSays
<1>9. Of(jobs) = {} /\ Of(channel) = {} /\ Working = {}
  BY <1>1, <1>4 DEF Of, Working
<1>10. OnePlace
  BY <1>1, <1>4, <1>9 DEF OnePlace, Distinct
<1>11. NothingLost
  <2>1. \A p \in Pieces : ~(p < seq)
    BY <1>1, Given
  <2> QED
    BY <1>1, <1>3, <2>1 DEF NothingLost, ReaderGone
<1>12. PermitsAddUp
  <2>1. Memory(Len(out), seq, reader) = {}
    <3>1. \A p \in Pieces : ~(p < seq)
      BY <1>1, Given
    <3> QED
      BY <1>3, <3>1 DEF Memory
  <2>2. Cardinality(InMemory) = 0
    BY <1>5, <1>8, <2>1, InMemoryIs, FS_EmptySet
  <2> QED
    BY <1>1, <1>2, <2>2 DEF PermitsAddUp
<1> QED
  BY <1>3, <1>5, <1>7, <1>8, <1>10, <1>11, <1>12 DEF IInv, Flow

LEMMA Inductive == IInv /\ [Next]_vars => IInv'
<1> SUFFICES ASSUME IInv, [Next]_vars PROVE IInv'
  OBVIOUS
<1>1. CASE Reader
  BY <1>1, SendFreeKeeps, TakePermitKeeps, TakeBufferKeeps, ReadKeeps, SendJobKeeps DEF Reader
<1>2. CASE Main
  BY <1>2, PutMapKeeps, ReceiveKeeps, PutKeeps, PutTableKeeps, JoinKeeps DEF Main
<1>3. ASSUME NEW t \in Threads, Compressor(t) PROVE IInv'
  BY <1>3, CreateKeeps, TakeKeeps, CompressKeeps, SendPieceKeeps DEF Compressor
<1>4. CASE UNCHANGED vars
  <2>1. /\ UNCHANGED <<reader, seq, permits, pool, jobs, compressor, work, channel>>
        /\ UNCHANGED <<main, pending, out, result>>
    BY <1>4 DEF vars
  <2>2. TypeOK' /\ InOrder' /\ MainSays'
    BY <2>1 DEF IInv, TypeOK, InOrder, MainSays, NoSenders, ReaderGone, CompressorsGone,
       NPieces, MaxPermits, Pieces, Messages, T
  <2>3. Flow'
    BY <2>1, FlowStays DEF ReaderGone
  <2>4. PermitsAddUp'
    BY <2>1, <2>2, PermitsStay DEF ReaderGone
  <2> QED
    BY <2>1, <2>2, <2>3, <2>4, OthersStay DEF IInv
<1> QED
  BY <1>1, <1>2, <1>3, <1>4 DEF Next

LEMMA Invariance == Spec => []IInv
<1> QED
  BY Initial, Inductive, PTL DEF Spec

\* However the threads overtake each other and whatever fails, permits, buffers and
\* pieces add up (permit_tx, pool_tx of to_image).
THEOREM AddsUp == Spec => []Accounting
<1>1. IInv => Accounting
  BY DEF IInv, Accounting
<1> QED
  BY <1>1, Invariance, PTL

-------------------------------------------------------------------------------
(* Refinement *)

\* With the image in order, the target holds the pieces that are written.
LEMMA TargetIs ==
  ASSUME NEW o \in Seq(Pieces), \A i \in 1..Len(o) : o[i] = i
  PROVE  [p \in 1..Len(Layout) |-> IF p > Len(o) THEN "old"
                                   ELSE IF o[p] = p THEN "right" ELSE "wrong"]
           = [p \in 1..Len(Layout) |-> IF p > Len(o) THEN "old" ELSE "right"]
<1>1. Len(o) \in Nat
  OBVIOUS
<1>2. \A p \in 1..Len(Layout) : p > Len(o) \/ p \in 1..Len(o)
  BY <1>1, Given DEF NPieces
<1> QED
  BY <1>2

LEMMA PutRefines == ASSUME IInv, IInv', Put PROVE [Copy!Next]_Copy!vars
<1>1. result = "none" /\ main = "put"
  BY DEF Put, IInv, MainSays
<1>2. CASE \E p \in pending : Fail("write error")
  <2>1. result' = "write error" /\ out' = out
    BY <1>2 DEF Fail
  <2>2. Copy!Fail
    BY <1>1, <2>1 DEF Copy!Fail
  <2> QED
    BY <2>2 DEF Copy!Next
<1>3. CASE UNCHANGED <<out, result>>
  BY <1>3 DEF Copy!vars
<1>4. ASSUME NEW p \in pending, IsNext(p), out' = Append(out, p), UNCHANGED result
      PROVE  [Copy!Next]_Copy!vars
  <2>1. /\ p \in Pieces /\ p = Len(out) + 1 /\ out \in Seq(Pieces) /\ Len(out) \in Nat
        /\ \A i \in 1..Len(out) : out[i] = i
    BY <1>4, InFlight, Numbers DEF IInv, TypeOK, InOrder, IsNext
  <2>2. out' \in Seq(Pieces) /\ Len(out') = p /\ \A i \in 1..Len(out') : out'[i] = i
    BY <1>4, <2>1
  <2> DEFINE t(o) == [q \in 1..Len(Layout) |-> IF q > Len(o) THEN "old"
                                               ELSE IF o[q] = q THEN "right" ELSE "wrong"]
             f(n) == [q \in 1..Len(Layout) |-> IF q > n THEN "old" ELSE "right"]
  <2>3. t(out) = f(Len(out)) /\ t(out') = f(p)
    BY <2>1, <2>2, TargetIs
  <2>4. p \in 1..Len(Layout) /\ \A q \in 1..Len(Layout) : q \in Nat
    BY <2>1 DEF Pieces, NPieces
  <2>5. f(p) = [f(Len(out)) EXCEPT ![p] = "right"]
    <3>1. \A q \in 1..Len(Layout) : q # p => (q > p <=> q > Len(out))
      BY <2>1, <2>4
    <3>2. ~(p > p)
      BY <2>1, <2>4
    <3> QED
      BY <2>4, <3>1, <3>2
  <2>6. f(Len(out))[p] = "old" /\ \A q \in 1..Len(Layout) : q < p => f(Len(out))[q] = "right"
    BY <2>1, <2>4
  <2> HIDE DEF f
  <2>7. Copy!Write(p)
    <3>1. t(out)[p] = "old" /\ \A q \in 1..Len(Layout) : q < p => t(out)[q] = "right"
      BY <2>3, <2>6
    <3>2. t(out') = [t(out) EXCEPT ![p] = "right"]
      BY <2>3, <2>5
    <3>3. "right" \in {"right", "torn"}
      OBVIOUS
    <3> QED
      BY <1>1, <1>4, <3>1, <3>2, <3>3 DEF Copy!Write, Copy!Pieces
  <2> QED
    BY <2>4, <2>7 DEF Copy!Next, Copy!Pieces
<1> QED
  BY <1>2, <1>3, <1>4 DEF Put

LEMMA ReceiveRefines == ASSUME IInv, IInv', Receive PROVE [Copy!Next]_Copy!vars
<1>1. result = "none" /\ main = "receive" /\ out' = out
  BY DEF Receive, Fail, IInv, MainSays
<1>2. CASE result' = result
  BY <1>1, <1>2 DEF Copy!vars
<1>3. CASE result' = "thread error"
  BY <1>1, <1>3 DEF Copy!Next, Copy!Fail
<1>4. result' = result \/ result' = "thread error"
  BY NothingMissing, <1>1 DEF Receive, Fail
<1> QED
  BY <1>2, <1>3, <1>4

LEMMA JoinRefines == ASSUME IInv, IInv', Join PROVE [Copy!Next]_Copy!vars
<1>1. /\ result = "none" /\ result' = "ok" /\ out' = out /\ Len(out) = NPieces
      /\ out \in Seq(Pieces) /\ \A i \in 1..Len(out) : out[i] = i
  BY DEF Join, IInv, MainSays, TypeOK, InOrder
<1>2. \A p \in 1..Len(Layout) : ~(p > Len(out)) /\ out[p] = p
  BY <1>1, Given DEF NPieces
<1>3. Copy!Succeed
  BY <1>1, <1>2 DEF Copy!Succeed, Copy!Pieces
<1> QED
  BY <1>3 DEF Copy!Next

\* An image that to_image reports as written holds the parts of the drive in order,
\* each once, and it never ends with parts that went missing: to_image implements
\* OrderedCopy for any layout and any number of compressors.
THEOREM Refinement == Spec => ImplementsOrderedCopy
<1>1. Init => Copy!Init
  <2> SUFFICES ASSUME Init PROVE Copy!Init
    OBVIOUS
  <2>1. Len(out) = 0 /\ result = "none"
    BY DEF Init
  <2>2. \A p \in 1..Len(Layout) : p > Len(out)
    BY <2>1, Given DEF NPieces
  <2> QED
    BY <2>1, <2>2 DEF Copy!Init, Copy!Pieces
<1>2. IInv /\ IInv' /\ [Next]_vars => [Copy!Next]_Copy!vars
  <2> SUFFICES ASSUME IInv, IInv', [Next]_vars PROVE [Copy!Next]_Copy!vars
    OBVIOUS
  <2>1. CASE UNCHANGED <<out, result>>
    BY <2>1 DEF Copy!vars
  <2>2. CASE PutMap \/ PutTable
    <3>1. result = "none" /\ out' = out /\ result' \in {result, "write error"}
      BY <2>2 DEF PutMap, PutTable, Fail, IInv, MainSays
    <3> QED
      BY <2>1, <3>1 DEF Copy!Next, Copy!Fail
  <2>3. CASE Receive
    BY <2>3, ReceiveRefines
  <2>4. CASE Put
    BY <2>4, PutRefines
  <2>5. CASE Join
    BY <2>5, JoinRefines
  <2>6. CASE Reader
    <3>1. UNCHANGED mainVars
      BY <2>6 DEF Reader, SendFree, TakePermit, TakeBuffer, Read, SendJob
    <3> QED
      BY <2>1, <3>1 DEF mainVars
  <2>7. ASSUME NEW t \in Threads, Compressor(t) PROVE UNCHANGED <<out, result>>
    <3>1. UNCHANGED mainVars
      BY <2>7 DEF Compressor, Create, Take, Compress, SendPiece
    <3> QED
      BY <3>1 DEF mainVars
  <2>8. CASE UNCHANGED vars
    BY <2>1, <2>8 DEF vars
  <2> QED
    BY <2>1, <2>2, <2>3, <2>4, <2>5, <2>6, <2>7, <2>8 DEF Next, Main
<1> QED
  BY <1>1, <1>2, Invariance, PTL DEF Spec, Copy!Spec, ImplementsOrderedCopy
===============================================================================
