--------------------------- MODULE RestorePipe_proofs ---------------------------
(* Proofs about RestorePipe, for any number of frames and decoders: its inductive *)
(* invariant IInv, that the slots add up, and that it implements OrderedCopy.     *)
EXTENDS RestorePipe, FiniteSetTheorems, TLAPS

-------------------------------------------------------------------------------
(* What a channel of jobs and errors holds, and what sending to it and receiving from *)
(* it change. *)

\* The jobs among the messages in a channel.
Of(s) == {s[i] : i \in 1..Len(s)} \ {Error}
Distinct(s) == \A i, j \in 1..Len(s) : s[i] = s[j] /\ s[i] # Error => i = j
Faulted(s) == \E i \in 1..Len(s) : s[i] = Error

\* What a sequence holds is in its range.
LEMMA Members == \A S : \A s \in Seq(S) : \A i \in DOMAIN s : s[i] \in S
<1> QED
  OBVIOUS

\* An empty channel holds nothing.
LEMMA Nothing ==
  \A S : <<>> \in Seq(S) /\ Of(<<>>) = {} /\ Distinct(<<>>) /\ ~Faulted(<<>>)
<1>1. \A i : i \notin 1..Len(<<>>)
  OBVIOUS
<1> QED
  BY <1>1 DEF Of, Distinct, Faulted

\* What sending a message adds to a channel.
LEMMA Sent ==
  ASSUME NEW S, NEW s \in Seq(S), NEW e \in S, Distinct(s), e = Error \/ e \notin Of(s)
  PROVE  /\ Append(s, e) \in Seq(S) /\ Distinct(Append(s, e))
         /\ Of(Append(s, e)) = Of(s) \cup ({e} \ {Error})
         /\ Faulted(Append(s, e)) <=> Faulted(s) \/ e = Error
         /\ Append(s, e) # <<>> /\ Len(Append(s, e)) = Len(s) + 1
<1> DEFINE r == Append(s, e)
           n == Len(s)
<1>1. /\ r \in Seq(S) /\ Len(r) = n + 1 /\ n \in Nat /\ r # <<>>
      /\ \A i \in 1..n : r[i] = s[i]
      /\ r[n + 1] = e
  OBVIOUS
<1> HIDE DEF r, n
<1>2. 1..n + 1 = (1..n) \cup {n + 1} /\ n + 1 \notin 1..n
  BY <1>1
<1>3. Of(s) = {s[i] : i \in 1..n} \ {Error}
  BY DEF Of, n
<1>4. Of(r) = Of(s) \cup ({e} \ {Error})
  BY <1>1, <1>2, <1>3 DEF Of
<1>5. Faulted(r) <=> Faulted(s) \/ e = Error
  BY <1>1, <1>2 DEF Faulted, n
<1>6. Distinct(r)
  <2> SUFFICES ASSUME NEW i \in 1..n + 1, NEW j \in 1..n + 1, r[i] = r[j], r[i] # Error
               PROVE  i = j
    BY <1>1 DEF Distinct
  <2>1. CASE i \in 1..n /\ j \in 1..n
    BY <1>1, <2>1 DEF Distinct, n
  <2>2. CASE i = n + 1 /\ j \in 1..n
    BY <1>1, <1>3, <2>2
  <2>3. CASE i \in 1..n /\ j = n + 1
    BY <1>1, <1>3, <2>3
  <2>4. CASE i = n + 1 /\ j = n + 1
    BY <2>4
  <2> QED
    BY <1>2, <2>1, <2>2, <2>3, <2>4
<1> QED
  BY <1>1, <1>4, <1>5, <1>6 DEF r, n

\* What receiving a message takes from a channel.
LEMMA Received ==
  ASSUME NEW S, NEW s \in Seq(S), s # <<>>, Distinct(s)
  PROVE  /\ Head(s) \in S /\ Tail(s) \in Seq(S) /\ Distinct(Tail(s))
         /\ Of(Tail(s)) = Of(s) \ {Head(s)}
         /\ Head(s) # Error => Head(s) \in Of(s)
         /\ Faulted(s) => Faulted(Tail(s)) \/ Head(s) = Error
         /\ Len(s) = Len(Tail(s)) + 1 /\ Len(Tail(s)) \in Nat
<1> DEFINE r == Tail(s)
           n == Len(s)
           h == Head(s)
<1>1. /\ r \in Seq(S) /\ n = Len(r) + 1 /\ Len(r) \in Nat /\ h = s[1] /\ h \in S
      /\ \A i \in 1..Len(r) : r[i] = s[i + 1]
  OBVIOUS
<1> HIDE DEF r, n, h
<1>2. /\ 1 \in 1..n /\ \A i \in 1..Len(r) : i + 1 \in 1..n /\ i + 1 # 1
      /\ \A j \in 1..n : j = 1 \/ \E i \in 1..Len(r) : j = i + 1
  <2>1. \A j \in 1..n : j # 1 => j - 1 \in 1..Len(r) /\ j = (j - 1) + 1
    BY <1>1
  <2> QED
    BY <1>1, <2>1
<1>3. Of(s) = {s[i] : i \in 1..n} \ {Error}
  BY DEF Of, n
<1>4. Distinct(r)
  <2> SUFFICES ASSUME NEW i \in 1..Len(r), NEW j \in 1..Len(r), r[i] = r[j], r[i] # Error
               PROVE  i = j
    BY DEF Distinct
  <2>1. s[i + 1] = s[j + 1] /\ s[i + 1] # Error /\ i + 1 \in 1..n /\ j + 1 \in 1..n
    BY <1>1, <1>2
  <2>2. i + 1 = j + 1
    BY <2>1 DEF Distinct, n
  <2> QED
    BY <2>2
<1>5. Of(r) = Of(s) \ {h}
  <2>1. ASSUME NEW x \in Of(r) PROVE x \in Of(s) /\ x # h
    <3>1. PICK i \in 1..Len(r) : x = r[i] /\ x # Error
      BY DEF Of
    <3>2. x = s[i + 1] /\ i + 1 \in 1..n /\ i + 1 # 1
      BY <1>1, <1>2, <3>1
    <3>3. x # s[1]
      BY <1>2, <3>1, <3>2 DEF Distinct, n
    <3> QED
      BY <1>1, <1>3, <3>1, <3>2, <3>3
  <2>2. ASSUME NEW x \in Of(s), x # h PROVE x \in Of(r)
    <3>1. PICK j \in 1..n : x = s[j] /\ x # Error
      BY <1>3
    <3>2. PICK i \in 1..Len(r) : j = i + 1
      BY <1>1, <1>2, <2>2, <3>1
    <3> QED
      BY <1>1, <3>1, <3>2 DEF Of
  <2> QED
    BY <2>1, <2>2
<1>6. h # Error => h \in Of(s)
  BY <1>1, <1>2, <1>3
<1>7. Faulted(s) => Faulted(r) \/ h = Error
  <2> SUFFICES ASSUME Faulted(s), h # Error PROVE Faulted(r)
    OBVIOUS
  <2>1. PICK j \in 1..n : s[j] = Error
    BY DEF Faulted, n
  <2>2. PICK i \in 1..Len(r) : j = i + 1
    BY <1>1, <1>2, <2>1
  <2> QED
    BY <1>1, <2>1, <2>2 DEF Faulted
<1> QED
  BY <1>1, <1>4, <1>5, <1>6, <1>7 DEF r, n, h

\* A channel without errors holds as many jobs as messages.
LEMMA Counted ==
  ASSUME NEW S, NEW s \in Seq(S), Distinct(s), ~Faulted(s)
  PROVE  IsFiniteSet(Of(s)) /\ Cardinality(Of(s)) = Len(s)
<1> DEFINE n == Len(s)
           f == [i \in 1..n |-> s[i]]
<1>1. n \in Nat /\ IsFiniteSet(1..n) /\ Cardinality(1..n) = n
  <2>1. n \in Nat
    OBVIOUS
  <2>2. 0 \in Int /\ 1 \in Int /\ n \in Int
    BY <2>1
  <2>3. IsFiniteSet(1..n) /\ Cardinality(1..n) = IF 1 > n THEN 0 ELSE n - 1 + 1
    BY <2>2, FS_Interval
  <2> QED
    BY <2>1, <2>3
<1>2. Of(s) = {s[i] : i \in 1..n}
  BY DEF Of, Faulted
<1>3. \A i, j \in 1..n : f[i] = f[j] => i = j
  BY DEF Distinct, Faulted
<1>4. f \in Bijection(1..n, Of(s))
  BY <1>2, <1>3 DEF Bijection, Injection, Surjection, IsInjective
<1>5. ExistsBijection(1..n, Of(s))
  BY <1>4 DEF ExistsBijection
<1> QED
  BY <1>1, <1>5, FS_Bijection

-------------------------------------------------------------------------------
(* The inductive invariant *)

Jobs == 1..NJobs
Messages == Jobs \cup {Error}

Types ==
  /\ reader \in {"slot", "read", "send", "gone"} /\ seq \in 1..NJobs + 1
  /\ pool \in 0..Slots
  /\ jobs \in Seq(Jobs)
  /\ decoder \in [Threads -> {"create", "take", "decompress", "send", "last", "gone"}]
  /\ work \in [Threads -> Messages]
  /\ done \in Seq(Messages)
  /\ main \in {"receive", "put", "flush", "failed", "finished"}
  /\ pending \subseteq Jobs
  /\ out \in Seq(Jobs)
  /\ result \in {"none", "ok", "read error", "the writer stopped"}

Working == {work[t] : t \in Threads} \ {Error}

\* The frames that have been read and aren't with the writer yet.
Travelling == Of(jobs) \cup Working \cup Of(done) \cup pending

ReaderAt == ~ReaderGone => seq <= NJobs

\* A decoder has a slot while it decompresses, and none while it has nothing to send.
Hands == \A t \in Threads : /\ decoder[t] \notin {"decompress", "send"} => work[t] = Error
                            /\ decoder[t] = "decompress" => work[t] # Error

\* A frame is in one place only.
OnePlace ==
  /\ Distinct(jobs) /\ Distinct(done)
  /\ \A t, u \in Threads : work[t] = work[u] /\ work[t] # Error => t = u
  /\ Of(jobs) \cap Working = {} /\ Of(jobs) \cap Of(done) = {} /\ Of(jobs) \cap pending = {}
  /\ Working \cap Of(done) = {} /\ Working \cap pending = {} /\ Of(done) \cap pending = {}
  /\ \A j \in Travelling : Len(out) < j /\ j < seq

InOrder == Len(out) < seq /\ \A i \in 1..Len(out) : out[i] = i

\* Main has seen an error, or will see one.
Trouble == \/ main = "failed" \/ Faulted(done)
           \/ \E t \in Threads : \/ decoder[t] = "last"
                                 \/ decoder[t] = "send" /\ work[t] = Error

\* Without one, nothing gets lost, and nobody ends early.
NothingLost == ~Trouble =>
  /\ \A j \in Jobs : j < seq => j <= Len(out) \/ j \in Travelling
  /\ ReaderGone => seq = NJobs + 1
  /\ \A t \in Threads : decoder[t] = "gone" => ReaderGone /\ jobs = <<>>

MainSays ==
  /\ main = "receive" => Len(out) + 1 \notin pending
  /\ main \in {"flush", "finished"} => NoSenders /\ done = <<>> /\ Len(out) = NJobs
  /\ main \notin {"failed", "finished"} <=> result = "none"
  /\ main = "finished" => result = "ok"
  /\ main = "failed" => result \in {"read error", "the writer stopped"}

\* Slots are never made, even where a thread that ends drops one; until then none is lost.
Held == IF reader \in {"read", "send"} THEN 1 ELSE 0
Ending == \/ result # "none" \/ ReaderGone \/ Faulted(done)
          \/ \E t \in Threads : decoder[t] \in {"send", "last"} /\ work[t] = Error
SlotsFit == /\ pool + Held + Cardinality(Travelling) <= Slots
            /\ ~Ending => pool + Held + Cardinality(Travelling) = Slots

Flow == OnePlace /\ NothingLost
IInv == Types /\ ReaderAt /\ Hands /\ InOrder /\ Flow /\ MainSays /\ SlotsFit

-------------------------------------------------------------------------------
(* What the numbers are *)

LEMMA Given ==
  /\ NJobs \in Nat /\ T \in Nat /\ Slots \in Nat /\ IsFiniteSet(Threads) /\ Threads # {}
  /\ \A j \in Jobs : j \in Nat /\ 1 <= j /\ j <= NJobs
  /\ \A j \in Nat : 1 <= j /\ j <= NJobs => j \in Jobs
  /\ Error \notin Jobs /\ Messages = Error..NJobs
<1>1. NJobs \in Nat /\ T \in Nat /\ IsFiniteSet(Threads) /\ Threads # {}
  BY RestoreAssumption, FS_CardinalityType DEF T
<1>2. Slots \in Nat
  BY <1>1 DEF Slots
<1> QED
  BY <1>1, <1>2 DEF Jobs, Messages, Error

LEMMA Numbers ==
  ASSUME Types
  PROVE  /\ seq \in Nat /\ 1 <= seq /\ seq <= NJobs + 1
         /\ pool \in Nat /\ pool <= Slots /\ Len(jobs) \in Nat /\ Len(out) \in Nat
<1>1. seq \in 1..NJobs + 1 /\ pool \in 0..Slots
  BY DEF Types
<1>2. jobs \in Seq(Jobs) /\ out \in Seq(Jobs)
  BY DEF Types
<1>3. Len(jobs) \in Nat /\ Len(out) \in Nat
  BY <1>2
<1> QED
  BY <1>1, <1>3, Given

LEMMA InFlight ==
  ASSUME Types
  PROVE  /\ Travelling \subseteq Jobs /\ IsFiniteSet(Travelling) /\ Cardinality(Travelling) \in Nat
<1>1. jobs \in Seq(Jobs) /\ done \in Seq(Messages) /\ work \in [Threads -> Messages]
      /\ pending \subseteq Jobs
  BY DEF Types
<1>2. Of(jobs) \subseteq Jobs
  <2>1. \A i \in 1..Len(jobs) : jobs[i] \in Jobs
    BY <1>1
  <2> QED
    BY <2>1 DEF Of
<1>3. Of(done) \subseteq Jobs
  <2>1. \A i \in 1..Len(done) : done[i] \in Messages
    BY <1>1
  <2> QED
    BY <2>1 DEF Of, Messages
<1>4. Working \subseteq Jobs
  BY <1>1 DEF Working, Messages
<1>5. Travelling \subseteq Jobs
  BY <1>1, <1>2, <1>3, <1>4 DEF Travelling
<1>6. IsFiniteSet(Jobs)
  BY Given, FS_Interval DEF Jobs
<1>7. IsFiniteSet(Travelling)
  BY <1>5, <1>6, FS_Subset
<1> QED
  BY <1>5, <1>7, FS_CardinalityType

\* Main only stops before the others do because it failed.
LEMMA MainGoneIsFailed ==
  ASSUME IInv, MainGone, ~ReaderGone \/ ~DecodersGone
  PROVE  main = "failed"
  BY DEF IInv, MainSays, MainGone, NoSenders

\* A step that makes no slot and lets go of none unless something fails.
LEMMA SlotsStay ==
  ASSUME IInv, pool' \in Nat, pool' + Held' <= pool + Held, Travelling' \subseteq Travelling,
         ~Ending' => ~Ending /\ Travelling' = Travelling /\ pool' + Held' = pool + Held
  PROVE  SlotsFit'
<1> DEFINE n == Cardinality(Travelling)
           m == Cardinality(Travelling')
<1>1. n \in Nat /\ m \in Nat /\ m <= n
  BY InFlight, FS_Subset, FS_CardinalityType DEF IInv
<1>2. /\ pool \in Nat /\ Held \in Nat /\ Held' \in Nat /\ Slots \in Nat /\ Slots' = Slots
      /\ pool + Held + n <= Slots /\ (~Ending => pool + Held + n = Slots)
  BY Numbers, Given DEF IInv, SlotsFit, Held, Slots, T
<1>3. Travelling' = Travelling => m = n
  OBVIOUS
<1> HIDE DEF n, m
<1>4. pool' + Held' + m <= Slots'
  <2> DEFINE p == pool'
             h == Held'
             q == pool
             g == Held
             s == Slots
  <2>1. /\ p \in Nat /\ h \in Nat /\ q \in Nat /\ g \in Nat /\ s \in Nat
        /\ p + h <= q + g /\ q + g + n <= s /\ Slots' = s
    BY <1>2
  <2> HIDE DEF p, h, q, g, s
  <2>2. p + h + m <= s
    BY <1>1, <2>1
  <2> QED BY <2>1, <2>2 DEF p, h
<1>5. ~Ending' => pool' + Held' + m = Slots'
  BY <1>1, <1>2, <1>3
<1> QED
  BY <1>4, <1>5 DEF SlotsFit, m

LEMMA SameSlots ==
  ASSUME Types, pool' = pool, reader' = reader
  PROVE  pool' \in Nat /\ pool' + Held' = pool + Held /\ pool' + Held' <= pool + Held
<1>1. pool \in Nat /\ Held \in Nat /\ Held' = Held
  BY Numbers DEF Held
<1> QED
  BY <1>1

\* A step that moves no frame.
LEMMA FlowStays ==
  ASSUME IInv, UNCHANGED <<seq, jobs, work, done, pending, out>>,
         ~Trouble' => /\ ~Trouble /\ (ReaderGone' <=> ReaderGone)
                      /\ \A t \in Threads : decoder'[t] = "gone" =>
                           decoder[t] = "gone" \/ (ReaderGone /\ jobs = <<>>)
  PROVE  Flow' /\ Travelling' = Travelling /\ InOrder'
<1>1. Working' = Working /\ Of(jobs)' = Of(jobs) /\ Of(done)' = Of(done)
  BY DEF Working, Of
<1>2. Travelling' = Travelling
  BY <1>1 DEF Travelling
<1>3. OnePlace' /\ InOrder'
  BY <1>1, <1>2 DEF IInv, Flow, OnePlace, Distinct, InOrder
<1>4. NothingLost'
  BY <1>2 DEF IInv, Flow, NothingLost, Jobs
<1> QED
  BY <1>2, <1>3, <1>4 DEF Flow

\* Nor does one in which only the reader or main moves on.
LEMMA QuietStep ==
  ASSUME IInv, UNCHANGED <<seq, jobs, decoder, work, done, pending, out>>,
         main' # "failed" => main # "failed", ReaderGone' <=> ReaderGone
  PROVE  Flow' /\ Travelling' = Travelling /\ InOrder'
<1>1. ~Trouble' => ~Trouble
  BY DEF Trouble, Faulted
<1>2. \A t \in Threads : decoder'[t] = "gone" =>
        decoder[t] = "gone" \/ (ReaderGone /\ jobs = <<>>)
  <2>1. decoder' = decoder
    OBVIOUS
  <2> QED
    BY ONLY <2>1
<1>3. UNCHANGED <<seq, jobs, work, done, pending, out>>
  OBVIOUS
<1>4. ReaderGone' <=> ReaderGone
  OBVIOUS
<1> QED
  BY ONLY IInv, <1>1, <1>2, <1>3, <1>4, FlowStays

-------------------------------------------------------------------------------
(* The reader's steps *)

\* While the reader or a decoder runs, main doesn't take the frames for complete.
LEMMA StillRunning ==
  ASSUME IInv, ~NoSenders, UNCHANGED mainVars
  PROVE  MainSays' /\ main \notin {"flush", "finished"}
  BY DEF IInv, MainSays, mainVars

LEMMA TakeSlotKeeps == ASSUME IInv, TakeSlot PROVE IInv'
<1>0. ~ReaderGone /\ ~NoSenders /\ reader = "slot" /\ Held = 0
  BY DEF TakeSlot, ReaderGone, NoSenders, Held
<1>1. /\ UNCHANGED <<seq, jobs, decoder, work, done, main, pending, out, result>>
      /\ MainSays'
  BY <1>0, StillRunning DEF TakeSlot, mainVars
<1>2. CASE pool > 0 /\ pool' = pool - 1 /\ reader' = "read"
  <2>1. pool' \in 0..Slots /\ pool' \in Nat /\ pool' + 1 = pool + 0
    BY <1>2, Numbers, Given DEF IInv
  <2>2. Types' /\ ReaderAt' /\ Hands' /\ ~ReaderGone'
    BY <1>0, <1>1, <1>2, <2>1 DEF IInv, Types, ReaderAt, Hands, ReaderGone, Jobs, Messages, Slots, T
  <2>3. Flow' /\ Travelling' = Travelling /\ InOrder'
    BY <1>0, <1>1, <2>2, QuietStep
  <2>4. Held' = 1
    BY <1>2 DEF Held
  <2>5. ~Ending' => ~Ending
    BY <1>0, <1>1 DEF Ending, Faulted
  <2>6. pool' + Held' <= pool + Held /\ pool' + Held' = pool + Held
    BY <1>0, <2>1, <2>4, Numbers DEF IInv
  <2>7. SlotsFit'
    BY <2>1, <2>3, <2>5, <2>6, SlotsStay
  <2> QED
    BY <1>1, <2>2, <2>3, <2>7 DEF IInv
<1>3. CASE MainGone /\ reader' = "gone" /\ UNCHANGED pool
  <2>1. main = "failed" /\ Trouble'
    BY <1>0, <1>1, <1>3, MainGoneIsFailed DEF Trouble
  <2>2. Types' /\ ReaderAt' /\ Hands' /\ ReaderGone'
    BY <1>1, <1>3 DEF IInv, Types, ReaderAt, Hands, ReaderGone, Jobs, Messages, Slots, T
  <2>3. Flow' /\ Travelling' = Travelling /\ InOrder'
    BY <1>1, <2>1, FlowStays
  <2>4. SlotsFit'
    <3>1. pool' \in Nat /\ pool' + Held' <= pool + Held
      BY <1>0, <1>3, Numbers DEF IInv, Held
    <3> QED
      BY <2>2, <2>3, <3>1, SlotsStay DEF Ending
  <2> QED
    BY <1>1, <2>2, <2>3, <2>4 DEF IInv
<1> QED
  BY <1>2, <1>3 DEF TakeSlot

\* The slot of a read that fails is gone, with the reader.
LEMMA ReadKeeps == ASSUME IInv, Read PROVE IInv'
<1>0. ~ReaderGone /\ ~NoSenders /\ reader = "read" /\ Held = 1
  BY DEF Read, ReaderGone, NoSenders, Held
<1>1. UNCHANGED <<seq, pool, jobs, decoder, work, main, pending, out, result>> /\ MainSays'
  BY <1>0, StillRunning DEF Read, mainVars
<1>n. pool' \in Nat /\ pool' = pool
  BY <1>1, Numbers DEF IInv
<1>2. CASE reader' = "send" /\ UNCHANGED done
  <2>1. Types' /\ ReaderAt' /\ Hands' /\ ~ReaderGone' /\ Held' = 1
    BY <1>0, <1>1, <1>2 DEF IInv, Types, ReaderAt, Hands, ReaderGone, Held, Jobs, Messages, Slots, T
  <2>2. Flow' /\ Travelling' = Travelling /\ InOrder'
    BY <1>0, <1>1, <1>2, <2>1, QuietStep
  <2>3. ~Ending' => ~Ending
    BY <1>0, <1>1, <1>2 DEF Ending, Faulted
  <2>4. pool' + Held' = pool + Held /\ pool' + Held' <= pool + Held
    BY <1>0, <1>n, <2>1
  <2>5. SlotsFit'
    BY <1>n, <2>2, <2>3, <2>4, SlotsStay
  <2> QED
    BY <1>1, <2>1, <2>2, <2>5 DEF IInv
<1>3. CASE reader' = "gone" /\ ReadFailed
  <2>1. ReaderGone' /\ Ending' /\ Held' = 0
    BY <1>3 DEF ReaderGone, Ending, Held
  <2>2. pool' + Held' <= pool + Held
    BY <1>0, <1>n, <2>1
  <2>3. CASE MainGone /\ done' = done
    <3>1. main = "failed" /\ Trouble'
      BY <1>0, <1>1, <2>3, MainGoneIsFailed DEF Trouble
    <3>2. Types' /\ ReaderAt' /\ Hands'
      BY <1>1, <1>3, <2>1, <2>3 DEF IInv, Types, ReaderAt, Hands, Jobs, Messages, Slots, T
    <3>3. Flow' /\ Travelling' = Travelling /\ InOrder'
      BY <1>1, <2>3, <3>1, FlowStays
    <3>4. SlotsFit'
      BY <1>n, <2>1, <2>2, <3>3, SlotsStay
    <3> QED
      BY <1>1, <3>2, <3>3, <3>4 DEF IInv
  <2>4. CASE done' = Append(done, Error)
    <3>1. /\ done' \in Seq(Messages) /\ Distinct(done') /\ Of(done') = Of(done)
          /\ Faulted(done')
      <4>1. Distinct(done) /\ done \in Seq(Messages) /\ Error \in Messages
        BY DEF IInv, Types, Flow, OnePlace, Messages
      <4>2. /\ Append(done, Error) \in Seq(Messages) /\ Distinct(Append(done, Error))
            /\ Of(Append(done, Error)) = Of(done) \cup ({Error} \ {Error})
            /\ Faulted(Append(done, Error))
        BY <4>1, Sent
      <4> QED
        BY <2>4, <4>2
    <3>2. Types' /\ ReaderAt' /\ Hands' /\ InOrder'
      BY <1>1, <1>3, <2>1, <3>1 DEF IInv, Types, ReaderAt, Hands, InOrder, Jobs, Messages, Slots, T
    <3>3. Working' = Working /\ Of(jobs)' = Of(jobs) /\ Of(done)' = Of(done)
      BY <1>1, <3>1 DEF Working, Of
    <3>4. Travelling' = Travelling
      BY <1>1, <3>3 DEF Travelling
    <3>5. OnePlace'
      BY <1>1, <3>1, <3>3, <3>4 DEF IInv, Flow, OnePlace, Distinct
    <3>6. Flow'
      BY <3>1, <3>5 DEF Flow, NothingLost, Trouble
    <3>7. SlotsFit'
      BY <1>n, <2>1, <2>2, <3>4, SlotsStay
    <3> QED
      BY <1>1, <3>2, <3>6, <3>7 DEF IInv
  <2> QED
    BY <1>3, <2>3, <2>4 DEF ReadFailed
<1> QED
  BY <1>2, <1>3 DEF Read

LEMMA SendJobKeeps == ASSUME IInv, SendJob PROVE IInv'
<1>0. ~ReaderGone /\ ~NoSenders /\ reader = "send" /\ Held = 1
  BY DEF SendJob, ReaderGone, NoSenders, Held
<1>1. UNCHANGED <<pool, decoder, work, done, main, pending, out, result>> /\ MainSays'
  BY <1>0, StillRunning DEF SendJob, mainVars
<1>n. pool' \in Nat /\ pool' = pool
  BY <1>1, Numbers DEF IInv
<1>2. CASE MainGone /\ reader' = "gone" /\ UNCHANGED <<jobs, seq>>
  <2>1. main = "failed" /\ Trouble'
    BY <1>0, <1>1, <1>2, MainGoneIsFailed DEF Trouble
  <2>2. Types' /\ ReaderAt' /\ Hands' /\ ReaderGone' /\ Held' = 0
    BY <1>1, <1>2 DEF IInv, Types, ReaderAt, Hands, ReaderGone, Held, Jobs, Messages, Slots, T
  <2>3. Flow' /\ Travelling' = Travelling /\ InOrder'
    BY <1>1, <1>2, <2>1, FlowStays
  <2>4. pool' + Held' <= pool + Held
    BY <1>0, <1>n, <2>2
  <2>5. SlotsFit'
    BY <1>n, <2>2, <2>3, <2>4, SlotsStay DEF Ending
  <2> QED
    BY <1>1, <2>2, <2>3, <2>5 DEF IInv
<1>3. CASE jobs' = Append(jobs, seq) /\ seq' = seq + 1 /\ reader' = At(seq + 1)
  <2>1. /\ seq \in Nat /\ 1 <= seq /\ seq <= NJobs /\ Len(out) \in Nat /\ Len(out) < seq
        /\ NJobs \in Nat /\ seq + 1 \in 1..NJobs + 1
    BY <1>0, Numbers, Given DEF IInv, ReaderAt, InOrder
  <2>2. seq \in Jobs /\ seq # Error /\ ~(seq < seq)
    BY <2>1, Given
  <2>3. seq \notin Travelling /\ seq \notin Of(jobs)
    BY <2>2 DEF IInv, Flow, OnePlace, Travelling
  <2>4. /\ reader' \in {"slot", "gone"} /\ (reader' = "gone" => seq' = NJobs + 1) /\ ReaderAt'
        /\ Held' = 0
    BY <1>3, <2>1 DEF At, ReaderAt, ReaderGone, Held
  <2>5. /\ jobs' \in Seq(Jobs) /\ Distinct(jobs') /\ Of(jobs') = Of(jobs) \cup {seq}
    <3>1. jobs \in Seq(Jobs) /\ Distinct(jobs)
      BY DEF IInv, Types, Flow, OnePlace
    <3> QED
      BY <1>3, <2>2, <2>3, <3>1, Sent
  <2>6. Types'
    BY <1>1, <1>3, <2>1, <2>4, <2>5 DEF IInv, Types, Jobs, Messages, Slots, T
  <2>7. InOrder' /\ Hands'
    BY <1>1, <1>3, <2>1 DEF IInv, InOrder, Hands
  <2>8. Of(jobs)' = Of(jobs) \cup {seq} /\ Working' = Working /\ Of(done)' = Of(done)
    BY <1>1, <2>5 DEF Of, Working
  <2>9. Travelling' = Travelling \cup {seq}
    BY <1>1, <2>8 DEF Travelling
  <2>10. OnePlace'
    <3>1. \A j \in Travelling : j \in Nat /\ j < seq /\ Len(out) < j
      BY Given, InFlight DEF IInv, Flow, OnePlace
    <3>2. \A j \in Travelling' : Len(out') < j /\ j < seq'
      BY <1>1, <1>3, <2>1, <2>9, <3>1
    <3> QED
      BY <1>1, <2>3, <2>5, <2>8, <3>2 DEF IInv, Flow, OnePlace, Distinct, Travelling
  <2>11. NothingLost'
    <3> SUFFICES ASSUME ~Trouble' PROVE NothingLost'
      BY DEF NothingLost
    <3>1. ~Trouble
      BY <1>1 DEF Trouble, Faulted
    <3>2. \A j \in Jobs : j < seq' => j < seq \/ j = seq
      BY <1>3, <2>1, Given
    <3> QED
      BY <1>0, <1>1, <2>4, <2>9, <3>1, <3>2 DEF IInv, Flow, NothingLost, ReaderGone, Jobs
  <2>12. SlotsFit'
    <3> DEFINE n == Cardinality(Travelling)
               m == Cardinality(Travelling')
    <3>1. m = n + 1 /\ n \in Nat
      BY <2>3, <2>9, InFlight, FS_AddElement DEF IInv
    <3>2. /\ pool + Held + n <= Slots /\ (~Ending => pool + Held + n = Slots) /\ Slots' = Slots
      BY DEF IInv, SlotsFit, Slots, T
    <3>3. ~Ending' => ~Ending
      BY <1>0, <1>1 DEF Ending, Faulted
    <3> HIDE DEF n, m
    <3>4. pool' + Held' + m = pool + Held + n
      BY <1>0, <1>n, <2>4, <3>1
    <3> QED
      BY <3>2, <3>3, <3>4 DEF SlotsFit, m
  <2> QED
    BY <1>1, <2>4, <2>6, <2>7, <2>10, <2>11, <2>12 DEF IInv, Flow
<1> QED
  BY <1>2, <1>3 DEF SendJob

-------------------------------------------------------------------------------
(* The decoders' steps *)

LEMMA CreateKeeps == ASSUME IInv, NEW t \in Threads, Create(t) PROVE IInv'
<1>0. /\ decoder[t] = "create" /\ ~NoSenders
      /\ decoder \in [Threads -> {"create", "take", "decompress", "send", "last", "gone"}]
  BY DEF Create, IInv, Types, NoSenders, DecodersGone
<1>1. UNCHANGED <<reader, seq, pool, jobs, work, done, main, pending, out, result>> /\ MainSays'
  BY <1>0, StillRunning DEF Create, readerVars, mainVars
<1>2. PICK next \in {"take", "last"} : decoder' = [decoder EXCEPT ![t] = next]
  BY DEF Create
<1>3. /\ decoder' \in [Threads -> {"create", "take", "decompress", "send", "last", "gone"}]
      /\ decoder'[t] \in {"take", "last"}
      /\ \A u \in Threads : u # t => decoder'[u] = decoder[u]
  BY <1>0, <1>2
<1>4. Types' /\ ReaderAt'
  BY <1>1, <1>3 DEF IInv, Types, ReaderAt, ReaderGone, Jobs, Messages, Slots, T
<1>5. Hands'
  BY <1>0, <1>1, <1>3 DEF IInv, Hands
<1>6. ~Trouble' => ~Trouble
  BY <1>0, <1>1, <1>3 DEF Trouble, Faulted
<1>7. Flow' /\ Travelling' = Travelling /\ InOrder'
  BY <1>0, <1>1, <1>3, <1>6, FlowStays DEF ReaderGone
<1>8. ~Ending' => ~Ending
  BY <1>0, <1>1, <1>3 DEF Ending, Faulted, ReaderGone
<1>9. pool' \in Nat /\ pool' + Held' = pool + Held /\ pool' + Held' <= pool + Held
  BY <1>1, Numbers DEF IInv, Held
<1>10. SlotsFit'
  BY <1>7, <1>8, <1>9, SlotsStay
<1> QED
  BY <1>1, <1>4, <1>5, <1>7, <1>10 DEF IInv

LEMMA TakeKeeps == ASSUME IInv, NEW t \in Threads, Take(t) PROVE IInv'
<1>0. /\ decoder[t] = "take" /\ ~NoSenders /\ work[t] = Error /\ work \in [Threads -> Messages]
      /\ decoder \in [Threads -> {"create", "take", "decompress", "send", "last", "gone"}]
  BY DEF Take, IInv, Types, Hands, NoSenders, DecodersGone
<1>1. UNCHANGED <<reader, seq, pool, done, main, pending, out, result>> /\ MainSays'
  BY <1>0, StillRunning DEF Take, readerVars, mainVars
<1>n. pool' \in Nat /\ pool' + Held' = pool + Held /\ pool' + Held' <= pool + Held
  BY <1>1, Numbers DEF IInv, Held
<1>2. CASE /\ jobs # <<>> /\ jobs' = Tail(jobs)
           /\ work' = [work EXCEPT ![t] = Head(jobs)]
           /\ decoder' = [decoder EXCEPT ![t] = "decompress"]
  <2> DEFINE h == Head(jobs)
  <2>1. Distinct(jobs) /\ jobs \in Seq(Jobs)
    BY DEF IInv, Types, Flow, OnePlace
  <2>2. /\ h \in Jobs /\ jobs' \in Seq(Jobs) /\ Distinct(jobs')
        /\ Of(jobs') = Of(jobs) \ {h} /\ (h # Error => h \in Of(jobs))
    BY <1>2, <2>1, Received
  <2>3. h # Error /\ h \in Of(jobs) /\ h \in Messages
    BY <2>2, Given DEF Messages
  <2>4. /\ work' \in [Threads -> Messages] /\ work'[t] = h
        /\ decoder' \in [Threads -> {"create", "take", "decompress", "send", "last", "gone"}]
        /\ decoder'[t] = "decompress"
        /\ \A u \in Threads : u # t => decoder'[u] = decoder[u] /\ work'[u] = work[u]
    BY <1>0, <1>2, <2>3
  <2> HIDE DEF h
  <2>5. Types' /\ ReaderAt' /\ InOrder'
    BY <1>1, <2>2, <2>4 DEF IInv, Types, ReaderAt, InOrder, ReaderGone, Jobs, Messages, Slots, T
  <2>6. Hands'
    BY <2>3, <2>4 DEF IInv, Hands
  <2>7. Working' = Working \cup {h} /\ Of(jobs)' = Of(jobs) \ {h} /\ Of(done)' = Of(done)
    <3>1. Of(jobs)' = Of(jobs) \ {h} /\ Of(done)' = Of(done)
      BY <1>1, <2>2 DEF Of
    <3>2. Working' \subseteq Working \cup {h}
      BY <2>4 DEF Working
    <3>3. Working \cup {h} \subseteq Working'
      BY <1>0, <2>3, <2>4 DEF Working
    <3> QED
      BY <3>1, <3>2, <3>3
  <2>8. Travelling' = Travelling
    BY <1>1, <2>3, <2>7 DEF Travelling
  <2>9. OnePlace'
    <3>1. h \notin Working /\ h \notin Of(done) /\ h \notin pending
      BY <2>3 DEF IInv, Flow, OnePlace
    <3>2. \A u, v \in Threads : work'[u] = work'[v] /\ work'[u] # Error => u = v
      BY <2>3, <2>4, <3>1 DEF IInv, Flow, OnePlace, Working
    <3> QED
      BY <1>1, <2>2, <2>7, <2>8, <3>1, <3>2 DEF IInv, Flow, OnePlace, Distinct
  <2>10. NothingLost'
    <3> SUFFICES ASSUME ~Trouble' PROVE NothingLost'
      BY DEF NothingLost
    <3>1. ~Trouble
      BY <1>0, <1>1, <2>4 DEF Trouble, Faulted
    <3>2. \A u \in Threads : decoder'[u] # "gone"
      <4>1. \A u \in Threads : decoder[u] # "gone"
        BY <1>2, <3>1 DEF IInv, Flow, NothingLost
      <4> QED
        BY <2>4, <4>1
    <3> QED
      BY <1>1, <2>8, <3>1, <3>2 DEF IInv, Flow, NothingLost, ReaderGone, Jobs
  <2>11. ~Ending' => ~Ending
    BY <1>0, <1>1, <2>4 DEF Ending, Faulted, ReaderGone
  <2>12. SlotsFit'
    BY <1>n, <2>8, <2>11, SlotsStay
  <2> QED
    BY <1>1, <2>5, <2>6, <2>9, <2>10, <2>12 DEF IInv, Flow
<1>3. CASE /\ jobs = <<>> /\ ReaderGone
           /\ decoder' = [decoder EXCEPT ![t] = "gone"]
           /\ UNCHANGED <<jobs, work>>
  <2>1. /\ decoder' \in [Threads -> {"create", "take", "decompress", "send", "last", "gone"}]
        /\ decoder'[t] = "gone"
        /\ \A u \in Threads : u # t => decoder'[u] = decoder[u]
    BY <1>0, <1>3
  <2>2. Types' /\ ReaderAt' /\ Hands'
    BY <1>0, <1>1, <1>3, <2>1 DEF IInv, Types, ReaderAt, Hands, ReaderGone, Jobs, Messages, Slots, T
  <2>3. ~Trouble' => ~Trouble
    BY <1>0, <1>1, <1>3, <2>1 DEF Trouble, Faulted
  <2>4. Flow' /\ Travelling' = Travelling /\ InOrder'
    BY <1>1, <1>3, <2>3, FlowStays DEF ReaderGone
  <2>5. Ending'
    BY <1>1, <1>3 DEF Ending, ReaderGone
  <2>6. SlotsFit'
    BY <1>n, <2>4, <2>5, SlotsStay
  <2> QED
    BY <1>1, <2>2, <2>4, <2>6 DEF IInv
<1> QED
  BY <1>2, <1>3 DEF Take

LEMMA DecompressKeeps == ASSUME IInv, NEW t \in Threads, Decompress(t) PROVE IInv'
<1>0. /\ decoder[t] = "decompress" /\ ~NoSenders /\ work \in [Threads -> Messages]
      /\ decoder \in [Threads -> {"create", "take", "decompress", "send", "last", "gone"}]
  BY DEF Decompress, IInv, Types, NoSenders, DecodersGone
<1>1. UNCHANGED <<reader, seq, pool, jobs, done, main, pending, out, result>> /\ MainSays'
  BY <1>0, StillRunning DEF Decompress, readerVars, mainVars
<1>2. PICK ok \in BOOLEAN : /\ work' = [work EXCEPT ![t] = IF ok THEN @ ELSE Error]
                            /\ decoder' = [decoder EXCEPT ![t] = "send"]
  BY DEF Decompress
<1>3. Error \in Messages /\ work[t] \in Messages
  BY <1>0 DEF Messages
<1>4. /\ work' \in [Threads -> Messages] /\ work'[t] = (IF ok THEN work[t] ELSE Error)
      /\ decoder' \in [Threads -> {"create", "take", "decompress", "send", "last", "gone"}]
      /\ decoder'[t] = "send"
      /\ \A u \in Threads : u # t => decoder'[u] = decoder[u] /\ work'[u] = work[u]
  BY <1>0, <1>2, <1>3
<1>5. Types' /\ ReaderAt' /\ InOrder'
  BY <1>1, <1>4 DEF IInv, Types, ReaderAt, InOrder, ReaderGone, Jobs, Messages, Slots, T
<1>6. Hands'
  BY <1>4 DEF IInv, Hands
<1>7. /\ Of(jobs)' = Of(jobs) /\ Of(done)' = Of(done) /\ Working' \subseteq Working
      /\ ok => Working' = Working
  BY <1>1, <1>4 DEF Of, Working
<1>8. Travelling' \subseteq Travelling /\ (ok => Travelling' = Travelling)
  BY <1>1, <1>7 DEF Travelling
<1>9. OnePlace'
  <2>1. \A u, v \in Threads : work'[u] = work'[v] /\ work'[u] # Error => u = v
    BY <1>4 DEF IInv, Flow, OnePlace
  <2> QED
    BY <1>1, <1>7, <1>8, <2>1 DEF IInv, Flow, OnePlace, Distinct
<1>10. ~Trouble' => ok /\ ~Trouble
  BY <1>0, <1>1, <1>4 DEF Trouble, Faulted
<1>11. NothingLost'
  <2>1. \A u \in Threads : decoder'[u] = "gone" => decoder[u] = "gone"
    BY <1>4
  <2> QED
    BY <1>1, <1>8, <1>10, <2>1 DEF IInv, Flow, NothingLost, ReaderGone, Jobs
<1>12. ~Ending' => ok /\ ~Ending
  BY <1>0, <1>1, <1>4 DEF Ending, Faulted, ReaderGone
<1>13. pool' \in Nat /\ pool' + Held' = pool + Held /\ pool' + Held' <= pool + Held
  BY <1>1, Numbers DEF IInv, Held
<1>14. SlotsFit'
  BY <1>8, <1>12, <1>13, SlotsStay
<1> QED
  BY <1>1, <1>5, <1>6, <1>9, <1>11, <1>14 DEF IInv, Flow

LEMMA SendDoneKeeps == ASSUME IInv, NEW t \in Threads, SendDone(t) PROVE IInv'
<1>0. /\ decoder[t] \in {"send", "last"} /\ (decoder[t] = "last" => work[t] = Error)
      /\ ~NoSenders /\ ~DecodersGone
      /\ work \in [Threads -> Messages] /\ work[t] \in Messages /\ Error \in Messages
      /\ decoder \in [Threads -> {"create", "take", "decompress", "send", "last", "gone"}]
  BY DEF SendDone, IInv, Types, Hands, Messages, NoSenders, DecodersGone
<1>1. UNCHANGED <<reader, seq, pool, jobs, main, pending, out, result>> /\ MainSays'
  BY <1>0, StillRunning DEF SendDone, readerVars, mainVars
<1>2. /\ work' = [work EXCEPT ![t] = Error]
      /\ decoder' = [decoder EXCEPT ![t] = IF MainGone \/ @ = "last" THEN "gone" ELSE "take"]
  BY DEF SendDone
<1>3. /\ work' \in [Threads -> Messages] /\ work'[t] = Error
      /\ decoder' \in [Threads -> {"create", "take", "decompress", "send", "last", "gone"}]
      /\ decoder'[t] = (IF MainGone \/ decoder[t] = "last" THEN "gone" ELSE "take")
      /\ \A u \in Threads : u # t => work'[u] = work[u] /\ decoder'[u] = decoder[u]
  BY <1>0, <1>2
<1>4. Of(jobs)' = Of(jobs) /\ Working' = Working \ {work[t]}
  <2>1. \A u \in Threads : u # t => work[u] # work[t] \/ work[u] = Error
    BY DEF IInv, Flow, OnePlace
  <2> QED
    BY <1>1, <1>3, <2>1 DEF Of, Working
<1>5. \A u, v \in Threads : work'[u] = work'[v] /\ work'[u] # Error => u = v
  BY <1>3 DEF IInv, Flow, OnePlace
<1>6. Hands' /\ ReaderAt' /\ InOrder'
  BY <1>1, <1>3 DEF IInv, Hands, ReaderAt, InOrder, ReaderGone
<1>7. pool' \in Nat /\ pool' + Held' = pool + Held /\ pool' + Held' <= pool + Held
  BY <1>1, Numbers DEF IInv, Held
<1>8. CASE MainGone /\ done' = done
  <2>1. main' = "failed" /\ result' # "none"
    BY <1>0, <1>1, <1>8, MainGoneIsFailed DEF IInv, MainSays
  <2>2. Trouble' /\ Ending'
    BY <2>1 DEF Trouble, Ending
  <2>3. Types'
    BY <1>1, <1>3, <1>8 DEF IInv, Types, Jobs, Messages, Slots, T
  <2>4. Of(done)' = Of(done)
    BY <1>8 DEF Of
  <2>5. Travelling' \subseteq Travelling
    BY <1>1, <1>4, <2>4 DEF Travelling
  <2>6. OnePlace'
    BY <1>1, <1>4, <1>5, <1>8, <2>4, <2>5 DEF IInv, Flow, OnePlace, Distinct
  <2>7. Flow'
    BY <2>2, <2>6 DEF Flow, NothingLost
  <2>8. SlotsFit'
    BY <1>7, <2>2, <2>5, SlotsStay
  <2> QED
    BY <1>1, <1>6, <2>3, <2>7, <2>8 DEF IInv
<1>9. CASE ~MainGone /\ done' = Append(done, work[t])
  <2>1. work[t] = Error \/ work[t] \in Working
    BY DEF Working
  <2>2. /\ done' \in Seq(Messages) /\ Distinct(done')
        /\ Of(done') = Of(done) \cup ({work[t]} \ {Error})
        /\ Faulted(done') <=> Faulted(done) \/ work[t] = Error
    <3>1. done \in Seq(Messages) /\ Distinct(done)
          /\ (work[t] = Error \/ work[t] \notin Of(done))
      BY <2>1 DEF IInv, Types, Flow, OnePlace
    <3> QED
      BY <1>0, <1>9, <3>1, Sent
  <2>3. Types'
    BY <1>1, <1>3, <2>2 DEF IInv, Types, Jobs, Messages, Slots, T
  <2>4. Of(done)' = Of(done) \cup ({work[t]} \ {Error})
    BY <2>2 DEF Of
  <2>5. Travelling' = Travelling
    <3>1. Error \notin Working /\ Error \notin Of(done)
      BY DEF Working, Of
    <3> QED
      BY <1>1, <1>4, <2>1, <2>4, <3>1 DEF Travelling
  <2>6. OnePlace'
    <3>1. /\ (Of(jobs) \cap Of(done))' = {} /\ (Working \cap Of(done))' = {}
          /\ (Of(done) \cap pending)' = {} /\ (Of(jobs) \cap Working)' = {}
          /\ (Working \cap pending)' = {} /\ (Of(jobs) \cap pending)' = {}
      BY <1>1, <1>4, <2>1, <2>4 DEF IInv, Flow, OnePlace
    <3> QED
      BY <1>1, <1>5, <2>2, <2>5, <3>1 DEF IInv, Flow, OnePlace, Distinct
  <2>7. NothingLost'
    <3> SUFFICES ASSUME ~Trouble' PROVE NothingLost'
      BY DEF NothingLost
    <3>1. work[t] # Error /\ ~Faulted(done)
      BY <2>2 DEF Trouble
    <3>2. ~Trouble /\ decoder[t] = "send"
      BY <1>0, <1>1, <1>3, <3>1 DEF Trouble
    <3>3. \A u \in Threads : decoder'[u] = "gone" => decoder[u] = "gone"
      BY <1>3, <1>9, <3>2
    <3> QED
      BY <1>1, <2>5, <3>2, <3>3 DEF IInv, Flow, NothingLost, ReaderGone, Jobs
  <2>8. ~Ending' => ~Ending
    <3> SUFFICES ASSUME ~Ending' PROVE ~Ending
      OBVIOUS
    <3>1. work[t] # Error /\ ~Faulted(done)
      BY <2>2 DEF Ending
    <3> QED
      BY <1>1, <1>3, <3>1 DEF Ending, ReaderGone
  <2>9. SlotsFit'
    BY <1>7, <2>5, <2>8, SlotsStay
  <2> QED
    BY <1>1, <1>6, <2>3, <2>6, <2>7, <2>9 DEF IInv, Flow
<1> QED
  BY <1>8, <1>9 DEF SendDone

-------------------------------------------------------------------------------
(* Main's steps *)

\* Main tells why it ends, and nobody hears of what is still in done_rx.
LEMMA FailKeeps ==
  ASSUME IInv, NEW why \in {"read error", "the writer stopped"}, Fail(why),
         UNCHANGED <<reader, seq, pool, jobs, decoder, work, pending>>
  PROVE  IInv'
<1>1. /\ main' = "failed" /\ result' = why /\ done' = <<>> /\ out' = out
      /\ reader' = reader /\ seq' = seq /\ pool' = pool /\ jobs' = jobs
      /\ decoder' = decoder /\ work' = work /\ pending' = pending
  BY DEF Fail
<1>e. /\ done' \in Seq(Messages) /\ Of(done') = {} /\ Distinct(done')
      /\ result' \in {"none", "ok", "read error", "the writer stopped"} /\ result' # "none"
  BY <1>1, Nothing
<1>2. Types' /\ ReaderAt' /\ Hands' /\ InOrder'
  <2>1. Types'
    BY <1>1, <1>e DEF IInv, Types, Jobs, Messages, Slots, T
  <2> QED
    BY <1>1, <2>1 DEF IInv, ReaderAt, Hands, InOrder, ReaderGone
<1>3. Trouble' /\ Ending' /\ MainSays'
  BY <1>1, <1>e DEF Trouble, Ending, MainSays
<1>4. Of(jobs)' = Of(jobs) /\ Working' = Working /\ Of(done)' = {} /\ Distinct(done)'
  <2>1. Of(jobs)' = Of(jobs) /\ Working' = Working
    BY <1>1 DEF Of, Working
  <2>2. Of(done)' = {} /\ Distinct(done)'
    BY <1>e DEF Of, Distinct
  <2> QED
    BY <2>1, <2>2
<1>5. Travelling' \subseteq Travelling
  BY <1>1, <1>4 DEF Travelling
<1>6. OnePlace'
  <2>1. Distinct(jobs)' = Distinct(jobs)
    BY <1>1 DEF Distinct
  <2> QED
    BY <1>1, <1>4, <1>5, <2>1 DEF IInv, Flow, OnePlace
<1>7. pool' \in Nat /\ pool' + Held' <= pool + Held
  BY <1>1, SameSlots DEF IInv
<1>8. SlotsFit'
  BY <1>3, <1>5, <1>7, SlotsStay
<1> QED
  BY <1>2, <1>3, <1>6, <1>8 DEF IInv, Flow, NothingLost

\* A step in which only main moves on.
LEMMA MovesOn ==
  ASSUME IInv, main # "failed", main' \in {"receive", "put", "flush", "finished"},
         result' \in {"none", "ok"}, MainSays', result' = "none" => result = "none",
         UNCHANGED <<reader, seq, pool, jobs, decoder, work, done, pending, out>>
  PROVE  IInv'
<1>1. Types' /\ ReaderAt' /\ Hands'
  BY DEF IInv, Types, ReaderAt, Hands, ReaderGone, Jobs, Messages, Slots, T
<1>2. Flow' /\ Travelling' = Travelling /\ InOrder'
  BY QuietStep DEF ReaderGone
<1>3. ~Ending' => ~Ending
  BY DEF Ending, Faulted, ReaderGone
<1>4. pool' \in Nat /\ pool' + Held' = pool + Held /\ pool' + Held' <= pool + Held
  BY Numbers DEF IInv, Held
<1>5. SlotsFit'
  BY <1>2, <1>3, <1>4, SlotsStay
<1> QED
  BY <1>1, <1>2, <1>5 DEF IInv

\* Once all senders are gone without an error and nothing's left to receive, the writer
\* has got every frame: no part of the image goes missing.
LEMMA NothingMissing ==
  ASSUME IInv, main = "receive", done = <<>>, NoSenders
  PROVE  Len(out) = NJobs
<1>1. ~Trouble
  BY DEF Trouble, Faulted, NoSenders, DecodersGone
<1>2. PICK t \in Threads : TRUE
  BY Given
<1>3. seq = NJobs + 1 /\ jobs = <<>>
  BY <1>1, <1>2 DEF IInv, Flow, NothingLost, NoSenders, DecodersGone
<1>4. Travelling = pending
  <2>1. Of(<<>>) = {}
    BY DEF Of
  <2>2. Working = {}
    BY DEF Working, IInv, Hands, NoSenders, DecodersGone
  <2> QED
    BY <1>3, <2>1, <2>2 DEF Travelling
<1>5. \A j \in Jobs : j < seq => j <= Len(out) \/ j \in pending
  BY <1>1, <1>4 DEF IInv, Flow, NothingLost
<1>6. Len(out) + 1 \notin pending
  BY DEF IInv, MainSays
<1>7. Len(out) \in Nat /\ NJobs \in Nat /\ Len(out) < seq
  BY Numbers, Given DEF IInv, InOrder
<1>8. Len(out) + 1 \in Jobs => Len(out) + 1 < seq /\ ~(Len(out) + 1 <= Len(out))
  BY <1>3, <1>7, Given
<1>9. Len(out) + 1 \notin Jobs
  BY <1>5, <1>6, <1>8
<1>10. ~(1 <= Len(out) + 1 /\ Len(out) + 1 <= NJobs)
  BY <1>7, <1>9, Given
<1> QED
  BY <1>3, <1>7, <1>10

LEMMA ReceiveKeeps == ASSUME IInv, Receive PROVE IInv'
<1>1. main = "receive" /\ UNCHANGED <<reader, seq, pool, jobs, decoder, work>>
  BY DEF Receive, readerVars
<1>2. result = "none" /\ done \in Seq(Messages) /\ Distinct(done)
  BY <1>1 DEF IInv, MainSays, Types, Flow, OnePlace
<1>3. CASE done # <<>>
  <2> DEFINE h == Head(done)
  <2>1. CASE h = Error /\ Fail("read error") /\ UNCHANGED pending
    BY <1>1, <2>1, FailKeeps
  <2>2. CASE /\ h # Error /\ done' = Tail(done) /\ pending' = pending \cup {h} /\ main' = "put"
             /\ UNCHANGED <<out, result>>
    <3>1. /\ h \in Messages /\ done' \in Seq(Messages) /\ Distinct(done')
          /\ Of(done') = Of(done) \ {h} /\ h \in Of(done)
          /\ Faulted(done) => Faulted(done') \/ h = Error
      BY <1>2, <1>3, <2>2, Received
    <3>2. h \in Jobs /\ Of(done)' = Of(done) \ {h}
      BY <2>2, <3>1 DEF Messages, Of
    <3> HIDE DEF h
    <3>3. Types' /\ ReaderAt' /\ Hands' /\ InOrder'
      BY <1>1, <2>2, <3>1, <3>2 DEF IInv, Types, ReaderAt, Hands, InOrder, ReaderGone,
         Jobs, Messages, Slots, T
    <3>4. MainSays'
      BY <1>2, <2>2 DEF MainSays
    <3>5. Working' = Working /\ Of(jobs)' = Of(jobs)
      BY <1>1 DEF Working, Of
    <3>6. Travelling' = Travelling
      BY <2>2, <3>1, <3>2, <3>5 DEF Travelling
    <3>7. OnePlace'
      <4>1. /\ (Of(jobs) \cap Of(done))' = {} /\ (Working \cap Of(done))' = {}
            /\ (Of(done) \cap pending)' = {} /\ (Of(jobs) \cap Working)' = {}
            /\ (Working \cap pending)' = {} /\ (Of(jobs) \cap pending)' = {}
        BY <2>2, <3>1, <3>2, <3>5 DEF IInv, Flow, OnePlace
      <4> QED
        BY <1>1, <2>2, <3>1, <3>6, <4>1 DEF IInv, Flow, OnePlace, Distinct
    <3>8. ~Trouble' => ~Trouble
      BY <1>1, <2>2, <3>1 DEF Trouble
    <3>9. NothingLost'
      BY <1>1, <2>2, <3>6, <3>8 DEF IInv, Flow, NothingLost, ReaderGone, Jobs
    <3>10. ~Ending' => ~Ending
      BY <1>1, <2>2, <3>1 DEF Ending, ReaderGone
    <3>11. pool' \in Nat /\ pool' + Held' = pool + Held /\ pool' + Held' <= pool + Held
      BY <1>1, Numbers DEF IInv, Held
    <3>12. SlotsFit'
      BY <3>6, <3>10, <3>11, SlotsStay
    <3> QED
      BY <3>3, <3>4, <3>7, <3>9, <3>12 DEF IInv, Flow
  <2> QED
    BY <1>3, <2>1, <2>2 DEF Receive
<1>4. CASE done = <<>> /\ NoSenders
  <2>1. Len(out) = NJobs
    BY <1>1, <1>4, NothingMissing
  <2>2. main' = "flush" /\ UNCHANGED <<pending, out, result, done>>
    BY <1>4, <2>1 DEF Receive
  <2>3. NoSenders'
    BY <1>1, <1>4 DEF NoSenders, ReaderGone, DecodersGone
  <2>4. MainSays'
    BY <1>2, <1>4, <2>1, <2>2, <2>3 DEF MainSays
  <2> QED
    BY <1>1, <1>2, <2>2, <2>4, MovesOn
<1> QED
  BY <1>3, <1>4 DEF Receive

\* The next frame in order goes to the writer, its slot to the reader.
LEMMA PutKeeps == ASSUME IInv, Put PROVE IInv'
<1>1. main = "put" /\ result = "none" /\ UNCHANGED <<reader, seq, jobs, decoder, work>>
  BY DEF Put, readerVars, IInv, MainSays
<1>2. CASE Fail("the writer stopped") /\ UNCHANGED <<pool, pending>>
  BY <1>1, <1>2, FailKeeps
<1>3. CASE /\ \A j \in pending : ~IsNext(j)
           /\ main' = "receive"
           /\ UNCHANGED <<pool, pending, out, result, done>>
  <2>1. Len(out) + 1 \notin pending
    BY <1>3 DEF IsNext
  <2>2. MainSays'
    BY <1>1, <1>3, <2>1 DEF MainSays
  <2> QED
    BY <1>1, <1>3, <2>2, MovesOn
<1>4. ASSUME NEW j \in pending, IsNext(j), pending' = pending \ {j}, out' = Append(out, j),
             pool' = pool + 1, UNCHANGED <<main, result, done>>
      PROVE  IInv'
  <2>1. /\ out \in Seq(Jobs) /\ j \in Jobs /\ j = Len(out) + 1 /\ j < seq /\ Len(out) \in Nat
        /\ \A i \in 1..Len(out) : out[i] = i
        /\ j \in Travelling
    BY <1>4, InFlight, Numbers DEF IInv, Types, IsNext, InOrder, Flow, OnePlace, Travelling
  <2>2. out' \in Seq(Jobs) /\ Len(out') = j /\ \A i \in 1..Len(out') : out'[i] = i
    BY <1>4, <2>1
  <2>3. InOrder'
    BY <1>1, <2>1, <2>2 DEF InOrder
  <2>4. Of(jobs)' = Of(jobs) /\ Working' = Working /\ Of(done)' = Of(done)
    BY <1>1, <1>4 DEF Of, Working
  <2>5. Travelling' = Travelling \ {j}
    <3>1. j \notin Of(jobs) \cup Working \cup Of(done)
      BY <1>4 DEF IInv, Flow, OnePlace
    <3> QED
      BY <1>4, <2>4, <3>1 DEF Travelling
  <2>6. /\ pool' \in Nat /\ pool' <= Slots /\ SlotsFit'
    <3> DEFINE n == Cardinality(Travelling)
               m == Cardinality(Travelling')
    <3>1. IsFiniteSet(Travelling') /\ m = n - 1 /\ n \in Nat
      BY <2>1, <2>5, InFlight, FS_RemoveElement, FS_Subset DEF IInv
    <3>2. m \in Nat
      BY <3>1, FS_CardinalityType
    <3>3. /\ pool + Held + n <= Slots /\ (~Ending => pool + Held + n = Slots) /\ Slots' = Slots
          /\ Held' = Held /\ Held \in Nat /\ pool \in Nat /\ Slots \in Nat /\ pool' = pool + 1
      BY <1>1, <1>4, Numbers, Given DEF IInv, SlotsFit, Slots, T, Held
    <3>4. ~Ending' => ~Ending
      BY <1>1, <1>4 DEF Ending, Faulted, ReaderGone
    <3> HIDE DEF n, m
    <3>5. pool' + Held' + m = pool + Held + n
      BY ONLY <3>1, <3>3
    <3>6. pool' \in Nat /\ pool' <= Slots
      BY ONLY <3>2, <3>3, <3>5
    <3> QED
      BY <3>3, <3>4, <3>5, <3>6 DEF SlotsFit, m
  <2>7. pool' \in 0..Slots
    BY <2>6, Given
  <2>8. Types' /\ ReaderAt' /\ Hands' /\ MainSays'
    <3>1. Types'
      BY <1>1, <1>4, <2>2, <2>7 DEF IInv, Types, Jobs, Messages, Slots, T
    <3>2. ReaderAt' /\ Hands' /\ MainSays'
      BY <1>1, <1>4 DEF IInv, ReaderAt, Hands, MainSays, ReaderGone
    <3> QED
      BY <3>1, <3>2
  <2>9. OnePlace'
    <3>1. \A q \in Travelling' : q \in Nat /\ q # j /\ Len(out) < q /\ q < seq
      BY <2>5, InFlight, Given DEF IInv, Flow, OnePlace
    <3>2. \A q \in Nat : Len(out) < q /\ q # j => j < q
      BY <2>1
    <3>3. \A q \in Travelling' : Len(out') < q /\ q < seq'
      BY <1>1, <2>2, <3>1, <3>2
    <3> QED
      BY <1>1, <1>4, <2>4, <3>3 DEF IInv, Flow, OnePlace, Distinct
  <2>10. NothingLost'
    <3>1. ~Trouble' => ~Trouble
      BY <1>1, <1>4 DEF Trouble, Faulted
    <3>2. \A q \in Jobs : q <= Len(out) \/ q = j => q <= Len(out')
      <4>1. \A q \in Jobs : q \in Nat
        BY Given
      <4> QED
        BY <2>1, <2>2, <4>1
    <3> QED
      BY <1>1, <2>5, <3>1, <3>2 DEF IInv, Flow, NothingLost, ReaderGone, Jobs
  <2> QED
    BY <2>3, <2>6, <2>8, <2>9, <2>10 DEF IInv, Flow
<1> QED
  BY <1>2, <1>3, <1>4 DEF Put, Returned

LEMMA FlushKeeps == ASSUME IInv, Flush PROVE IInv'
<1>1. main = "flush" /\ UNCHANGED <<reader, seq, pool, jobs, decoder, work, pending>>
  BY DEF Flush, readerVars
<1>2. CASE main' = "finished" /\ result' = "ok" /\ UNCHANGED <<done, out>>
  <2>1. MainSays'
    BY <1>1, <1>2 DEF IInv, MainSays, NoSenders, ReaderGone, DecodersGone
  <2> QED
    BY <1>1, <1>2, <2>1, MovesOn
<1>3. CASE Fail("the writer stopped")
  BY <1>1, <1>3, FailKeeps
<1> QED
  BY <1>2, <1>3 DEF Flush

-------------------------------------------------------------------------------
(* The invariant *)

LEMMA Initial == Init => IInv
<1> SUFFICES ASSUME Init PROVE IInv
  OBVIOUS
<1>1. /\ seq = 1 /\ pool = Slots /\ jobs = <<>> /\ done = <<>> /\ reader = At(1)
      /\ decoder = [t \in Threads |-> "create"] /\ work = [t \in Threads |-> Error]
      /\ main = "receive" /\ pending = {} /\ out = <<>> /\ result = "none"
  BY DEF Init
<1>2. 1 \in 1..NJobs + 1 /\ Slots \in 0..Slots /\ NJobs \in Nat /\ Slots \in Nat
  BY Given
<1>3. /\ reader \in {"slot", "gone"} /\ ReaderAt /\ (reader = "gone" => seq = NJobs + 1)
      /\ Held = 0
  BY <1>1, <1>2 DEF At, ReaderAt, ReaderGone, Held
<1>4. /\ jobs \in Seq(Jobs) /\ out \in Seq(Jobs) /\ done \in Seq(Messages)
      /\ Len(jobs) = 0 /\ Len(out) = 0 /\ Len(done) = 0 /\ Error \in Messages
  BY <1>1 DEF Messages
<1>5. Types
  BY <1>1, <1>2, <1>3, <1>4 DEF Types
<1>6. Travelling = {}
  <2>1. Of(jobs) = {} /\ Of(done) = {} /\ Working = {}
    BY <1>1, <1>4 DEF Of, Working
  <2> QED
    BY <1>1, <2>1 DEF Travelling
<1>7. InOrder /\ Hands /\ MainSays
  BY <1>1, <1>4 DEF InOrder, Hands, MainSays
<1>8. OnePlace
  BY <1>1, <1>4, <1>6 DEF OnePlace, Distinct, Travelling
<1>9. NothingLost
  <2>1. \A j \in Jobs : ~(j < seq)
    BY <1>1, Given
  <2> QED
    BY <1>1, <1>3, <2>1 DEF NothingLost, ReaderGone
<1>10. SlotsFit
  <2>1. Cardinality(Travelling) = 0
    BY <1>6, FS_EmptySet
  <2>2. Slots + 0 + 0 = Slots /\ Slots <= Slots
    BY <1>2
  <2>3. pool + Held + Cardinality(Travelling) = Slots
    BY <1>1, <1>3, <2>1, <2>2
  <2> QED
    BY <2>2, <2>3 DEF SlotsFit
<1> QED
  BY <1>3, <1>5, <1>7, <1>8, <1>9, <1>10 DEF IInv, Flow

LEMMA Inductive == IInv /\ [Next]_vars => IInv'
<1> SUFFICES ASSUME IInv, [Next]_vars PROVE IInv'
  OBVIOUS
<1>1. CASE Reader
  BY <1>1, TakeSlotKeeps, ReadKeeps, SendJobKeeps DEF Reader
<1>2. CASE Main
  BY <1>2, ReceiveKeeps, PutKeeps, FlushKeeps DEF Main
<1>3. ASSUME NEW t \in Threads, Decoder(t) PROVE IInv'
  BY <1>3, CreateKeeps, TakeKeeps, DecompressKeeps, SendDoneKeeps DEF Decoder
<1>4. CASE UNCHANGED vars
  <2>1. /\ UNCHANGED <<reader, seq, pool, jobs, decoder, work, done, pending, out>>
        /\ UNCHANGED <<main, result>>
    BY <1>4 DEF vars
  <2>2. Types' /\ ReaderAt' /\ Hands' /\ MainSays'
    BY <2>1 DEF IInv, Types, ReaderAt, Hands, MainSays, NoSenders, ReaderGone, DecodersGone,
       Jobs, Messages, Slots, T
  <2>3. Flow' /\ Travelling' = Travelling /\ InOrder'
    BY <2>1, QuietStep DEF ReaderGone
  <2>4. ~Ending' => ~Ending
    BY <2>1 DEF Ending, Faulted, ReaderGone
  <2>5. pool' \in Nat /\ pool' + Held' = pool + Held /\ pool' + Held' <= pool + Held
    BY <2>1, Numbers DEF IInv, Held
  <2>6. SlotsFit'
    BY <2>3, <2>4, <2>5, SlotsStay
  <2> QED
    BY <2>2, <2>3, <2>6 DEF IInv
<1> QED
  BY <1>1, <1>2, <1>3, <1>4 DEF Next

LEMMA Invariance == Spec => []IInv
<1> QED
  BY Initial, Inductive, PTL DEF Spec

\* Counted place by place, as the code's channels hold them, the frames on their way
\* are as many as the slots that are out.
LEMMA PlaceByPlace ==
  ASSUME IInv, ~Faulted(done)
  PROVE  Cardinality(Travelling) =
           Len(jobs) + Len(done) + Cardinality(pending)
             + Cardinality({t \in Threads : work[t] # Error})
<1> DEFINE busy == {t \in Threads : work[t] # Error}
<1>1. /\ jobs \in Seq(Jobs) /\ done \in Seq(Messages) /\ Distinct(jobs) /\ Distinct(done)
      /\ Len(jobs) \in Nat /\ Len(done) \in Nat
  <2>1. jobs \in Seq(Jobs) /\ done \in Seq(Messages) /\ Distinct(jobs) /\ Distinct(done)
    BY DEF IInv, Types, Flow, OnePlace
  <2> QED
    BY <2>1
<1>2. ~Faulted(jobs)
  <2>1. \A i \in 1..Len(jobs) : jobs[i] \in Jobs
    BY <1>1
  <2> QED
    BY <2>1, Given DEF Faulted
<1>3. /\ IsFiniteSet(Of(jobs)) /\ Cardinality(Of(jobs)) = Len(jobs)
      /\ IsFiniteSet(Of(done)) /\ Cardinality(Of(done)) = Len(done)
  BY <1>1, <1>2, Counted
<1>4. IsFiniteSet(Working) /\ Cardinality(Working) = Cardinality(busy) /\ Cardinality(busy) \in Nat
  <2> DEFINE f == [t \in busy |-> work[t]]
  <2>1. IsFiniteSet(busy)
    BY Given, FS_Subset
  <2>2. \A t, u \in busy : f[t] = f[u] => t = u
    BY DEF IInv, Flow, OnePlace
  <2>3. f \in Bijection(busy, Working)
    BY <2>2 DEF Working, Bijection, Injection, Surjection, IsInjective
  <2>4. ExistsBijection(busy, Working)
    BY <2>3 DEF ExistsBijection
  <2> HIDE DEF busy
  <2> QED
    BY <2>1, <2>4, FS_Bijection, FS_CardinalityType
<1>5. IsFiniteSet(pending) /\ Cardinality(pending) \in Nat
  <2>1. IsFiniteSet(pending)
    BY InFlight, FS_Subset DEF IInv, Travelling
  <2> QED
    BY <2>1, FS_CardinalityType
<1> HIDE DEF busy
<1>6. Cardinality({}) = 0
  BY FS_EmptySet
<1>7. /\ IsFiniteSet(Of(jobs) \cup Working)
      /\ Cardinality(Of(jobs) \cup Working) = Len(jobs) + Cardinality(busy)
  <2>1. Of(jobs) \cap Working = {}
    BY DEF IInv, Flow, OnePlace
  <2>2. IsFiniteSet(Of(jobs) \cup Working) /\ Cardinality(Of(jobs) \cup Working)
          = Cardinality(Of(jobs)) + Cardinality(Working) - Cardinality(Of(jobs) \cap Working)
    BY <1>3, <1>4, FS_Union
  <2>3. Cardinality(Of(jobs) \cap Working) = 0
    BY ONLY <1>6, <2>1
  <2> QED
    BY ONLY <1>1, <1>3, <1>4, <2>2, <2>3
<1>8. /\ IsFiniteSet((Of(jobs) \cup Working) \cup Of(done))
      /\ Cardinality((Of(jobs) \cup Working) \cup Of(done))
           = Len(jobs) + Cardinality(busy) + Len(done)
  <2> DEFINE a == Of(jobs) \cup Working
  <2>1. a \cap Of(done) = {}
    BY DEF IInv, Flow, OnePlace
  <2> HIDE DEF a
  <2>2. IsFiniteSet(a \cup Of(done)) /\ Cardinality(a \cup Of(done))
          = Cardinality(a) + Cardinality(Of(done)) - Cardinality(a \cap Of(done))
    <3>1. IsFiniteSet(a)
      BY <1>7 DEF a
    <3> QED
      BY <1>3, <3>1, FS_Union
  <2>3. Cardinality(a) = Len(jobs) + Cardinality(busy)
    BY <1>7 DEF a
  <2>4. Cardinality(a \cup Of(done)) = Len(jobs) + Cardinality(busy) + Len(done)
    <3>1. Cardinality(a \cap Of(done)) = 0
      BY ONLY <1>6, <2>1
    <3> QED
      BY ONLY <1>1, <1>3, <1>4, <2>2, <2>3, <3>1
  <2> QED
    BY <2>2, <2>4 DEF a
<1>9. Cardinality(Travelling)
        = Len(jobs) + Cardinality(busy) + Len(done) + Cardinality(pending)
  <2> DEFINE a == (Of(jobs) \cup Working) \cup Of(done)
  <2>1. a \cap pending = {}
    BY DEF IInv, Flow, OnePlace
  <2>2. Travelling = a \cup pending
    BY DEF Travelling
  <2> HIDE DEF a
  <2>3. IsFiniteSet(a) /\ Cardinality(a) = Len(jobs) + Cardinality(busy) + Len(done)
    BY <1>8 DEF a
  <2>4. Cardinality(a \cup pending)
          = Cardinality(a) + Cardinality(pending) - Cardinality(a \cap pending)
    BY <1>5, <2>3, FS_Union
  <2>5. Cardinality(a \cap pending) = 0
    BY ONLY <1>6, <2>1
  <2> QED
    BY ONLY <1>1, <1>4, <1>5, <2>2, <2>3, <2>4, <2>5
<1>10. Len(jobs) + Cardinality(busy) + Len(done) + Cardinality(pending)
         = Len(jobs) + Len(done) + Cardinality(pending) + Cardinality(busy)
  BY <1>1, <1>4, <1>5
<1> QED
  BY <1>9, <1>10 DEF busy

\* While nothing fails, every slot of restore_smart_v2 is in the pool or with a frame that
\* is on its way, so memory stays bounded, for any number of frames and decoders.
THEOREM SlotsAlwaysAddUp == Spec => []SlotsAddUp
<1>1. IInv => SlotsAddUp
  <2> SUFFICES ASSUME IInv PROVE SlotsAddUp
    OBVIOUS
  <2>1. /\ \A i \in DOMAIN jobs : jobs[i] \in 1..NJobs
        /\ \A i \in DOMAIN done : done[i] \in Error..NJobs
    <3>1. jobs \in Seq(1..NJobs) /\ done \in Seq(Error..NJobs)
      BY Given DEF IInv, Types, Jobs
    <3> QED
      BY ONLY <3>1, Members
  <2>2. TypeOK
    BY <2>1, Given DEF IInv, Types, TypeOK, Jobs
  <2>3. ASSUME ~Failing
        PROVE  pool + (IF reader \in {"read", "send"} THEN 1 ELSE 0) + Len(jobs) + Len(done)
                 + Cardinality(pending) + Cardinality({t \in Threads : work[t] # Error}) = Slots
    <3> DEFINE busy == {t \in Threads : work[t] # Error}
    <3>1. DOMAIN done = 1..Len(done) /\ Len(done) \in Nat
      <4>1. done \in Seq(Messages)
        BY DEF IInv, Types
      <4> QED
        BY <4>1
    <3>2. ~Ending /\ ~Faulted(done)
      BY <2>3, <3>1 DEF Failing, Ending, Faulted
    <3>3. pool + Held + Cardinality(Travelling) = Slots
      BY <3>2 DEF IInv, SlotsFit
    <3>4. Cardinality(Travelling) = Len(jobs) + Len(done) + Cardinality(pending) + Cardinality(busy)
      BY <3>2, PlaceByPlace
    <3>5. /\ pool \in Nat /\ Held \in Nat /\ Len(jobs) \in Nat /\ Len(done) \in Nat
          /\ Cardinality(pending) \in Nat /\ Cardinality(busy) \in Nat
      <4>1. pool \in Nat /\ Held \in Nat /\ Len(jobs) \in Nat
        BY Numbers DEF IInv, Held
      <4>3. IsFiniteSet(pending) /\ IsFiniteSet(busy)
        BY InFlight, Given, FS_Subset DEF IInv, Travelling
      <4> QED
        BY <3>1, <4>1, <4>3, FS_CardinalityType
    <3> HIDE DEF busy
    <3>6. pool + Held + Len(jobs) + Len(done) + Cardinality(pending) + Cardinality(busy) = Slots
      BY ONLY <3>3, <3>4, <3>5
    <3> QED
      BY <3>6 DEF busy, Held
  <2> QED
    BY <2>2, <2>3 DEF SlotsAddUp
<1> QED
  BY <1>1, Invariance, PTL

-------------------------------------------------------------------------------
(* Refinement *)

\* With the frames in order, the target holds those that the writer has got.
LEMMA TargetIs ==
  ASSUME NEW o \in Seq(Jobs), \A i \in 1..Len(o) : o[i] = i
  PROVE  [j \in 1..NJobs |-> IF j > Len(o) THEN "old"
                             ELSE IF o[j] = j THEN "right" ELSE "wrong"]
           = [j \in 1..NJobs |-> IF j > Len(o) THEN "old" ELSE "right"]
<1>1. Len(o) \in Nat
  OBVIOUS
<1>2. \A j \in 1..NJobs : j > Len(o) \/ j \in 1..Len(o)
  BY <1>1, Given
<1> QED
  BY <1>2

LEMMA PutRefines == ASSUME IInv, IInv', Put PROVE [Copy!Next]_Copy!vars
<1>1. result = "none" /\ main = "put"
  BY DEF Put, IInv, MainSays
<1>2. CASE Fail("the writer stopped")
  BY <1>1, <1>2 DEF Fail, Copy!Fail, Copy!Next
<1>3. CASE UNCHANGED <<out, result>>
  BY <1>3 DEF Copy!vars
<1>4. ASSUME NEW p \in pending, IsNext(p), out' = Append(out, p), UNCHANGED result
      PROVE  [Copy!Next]_Copy!vars
  <2>1. /\ p \in Jobs /\ p = Len(out) + 1 /\ out \in Seq(Jobs) /\ Len(out) \in Nat
        /\ \A i \in 1..Len(out) : out[i] = i
    BY <1>4, InFlight, Numbers DEF IInv, Types, InOrder, IsNext
  <2>2. out' \in Seq(Jobs) /\ Len(out') = p /\ \A i \in 1..Len(out') : out'[i] = i
    BY <1>4, <2>1
  <2> DEFINE t(o) == [q \in 1..NJobs |-> IF q > Len(o) THEN "old"
                                         ELSE IF o[q] = q THEN "right" ELSE "wrong"]
             f(n) == [q \in 1..NJobs |-> IF q > n THEN "old" ELSE "right"]
  <2>3. t(out) = f(Len(out)) /\ t(out') = f(p)
    BY <2>1, <2>2, TargetIs
  <2>4. p \in 1..NJobs /\ \A q \in 1..NJobs : q \in Nat
    BY <2>1 DEF Jobs
  <2>5. f(p) = [f(Len(out)) EXCEPT ![p] = "right"]
    <3>1. \A q \in 1..NJobs : q # p => (q > p <=> q > Len(out))
      BY <2>1, <2>4
    <3>2. ~(p > p)
      BY <2>1, <2>4
    <3> QED
      BY <2>4, <3>1, <3>2
  <2>6. f(Len(out))[p] = "old" /\ \A q \in 1..NJobs : q < p => f(Len(out))[q] = "right"
    BY <2>1, <2>4
  <2> HIDE DEF f
  <2>7. Copy!Write(p)
    <3>1. t(out)[p] = "old" /\ \A q \in 1..NJobs : q < p => t(out)[q] = "right"
      BY <2>3, <2>6
    <3>2. t(out') = [t(out) EXCEPT ![p] = "right"]
      BY <2>3, <2>5
    <3>3. "right" \in {"right", "torn"}
      OBVIOUS
    <3> QED
      BY <1>1, <1>4, <3>1, <3>2, <3>3 DEF Copy!Write, Copy!Pieces
  <2> QED
    BY <2>4, <2>7 DEF Copy!Next, Copy!Pieces
<1> QED
  BY <1>2, <1>3, <1>4 DEF Put

LEMMA ReceiveRefines == ASSUME IInv, IInv', Receive PROVE [Copy!Next]_Copy!vars
<1>1. result = "none" /\ main = "receive" /\ out' = out
  BY DEF Receive, Fail, IInv, MainSays
<1>2. CASE result' = result
  BY <1>1, <1>2 DEF Copy!vars
<1>3. CASE result' = "read error"
  BY <1>1, <1>3 DEF Copy!Next, Copy!Fail
<1>4. result' = result \/ result' = "read error"
  BY NothingMissing, <1>1 DEF Receive, Fail
<1> QED
  BY <1>2, <1>3, <1>4

LEMMA FlushRefines == ASSUME IInv, IInv', Flush PROVE [Copy!Next]_Copy!vars
<1>1. /\ result = "none" /\ Len(out) = NJobs
      /\ out \in Seq(Jobs) /\ \A i \in 1..Len(out) : out[i] = i
  BY DEF Flush, IInv, MainSays, Types, InOrder
<1>2. CASE Fail("the writer stopped")
  BY <1>1, <1>2 DEF Fail, Copy!Fail, Copy!Next
<1>3. CASE result' = "ok" /\ out' = out
  <2>1. \A j \in 1..NJobs : ~(j > Len(out)) /\ out[j] = j
    BY <1>1, Given
  <2>2. Copy!Succeed
    BY <1>1, <1>3, <2>1 DEF Copy!Succeed, Copy!Pieces
  <2> QED
    BY <2>2 DEF Copy!Next
<1> QED
  BY <1>2, <1>3 DEF Flush

\* The writer gets the frames of a restore in the drive's order, each once, all of them
\* when it succeeds, and it never ends with parts that went missing: restore_smart_v2
\* implements OrderedCopy for any number of frames and decoders.
THEOREM Refinement == Spec => ImplementsOrderedCopy
<1>1. Init => Copy!Init
  <2> SUFFICES ASSUME Init PROVE Copy!Init
    OBVIOUS
  <2>1. Len(out) = 0 /\ result = "none"
    BY DEF Init
  <2>2. \A j \in 1..NJobs : j > Len(out)
    BY <2>1, Given
  <2> QED
    BY <2>1, <2>2 DEF Copy!Init, Copy!Pieces
<1>2. IInv /\ IInv' /\ [Next]_vars => [Copy!Next]_Copy!vars
  <2> SUFFICES ASSUME IInv, IInv', [Next]_vars PROVE [Copy!Next]_Copy!vars
    OBVIOUS
  <2>1. CASE UNCHANGED <<out, result>>
    BY <2>1 DEF Copy!vars
  <2>2. CASE Receive
    BY <2>2, ReceiveRefines
  <2>3. CASE Put
    BY <2>3, PutRefines
  <2>4. CASE Flush
    BY <2>4, FlushRefines
  <2>5. CASE Reader
    <3>1. UNCHANGED mainVars
      BY <2>5 DEF Reader, TakeSlot, Read, SendJob
    <3> QED
      BY <2>1, <3>1 DEF mainVars
  <2>6. ASSUME NEW t \in Threads, Decoder(t) PROVE UNCHANGED <<out, result>>
    <3>1. UNCHANGED mainVars
      BY <2>6 DEF Decoder, Create, Take, Decompress, SendDone
    <3> QED
      BY <3>1 DEF mainVars
  <2>7. CASE UNCHANGED vars
    BY <2>1, <2>7 DEF vars
  <2> QED
    BY <2>1, <2>2, <2>3, <2>4, <2>5, <2>6, <2>7 DEF Next, Main
<1> QED
  BY <1>1, <1>2, Invariance, PTL DEF Spec, Copy!Spec, ImplementsOrderedCopy
=================================================================================
