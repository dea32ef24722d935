--------------------------- MODULE WriterPipe_proofs ---------------------------
(* Proofs about WriterPipe, for any number of pieces, any finite pool, and a  *)
(* target of any size: its inductive invariant IInv, the safety properties    *)
(* that follow from it, and that it implements OrderedCopy.                   *)
EXTENDS WriterPipe, TLAPS

\* What Append, Head and Tail do to the entries of the queue.
LEMMA QueueAppend ==
  ASSUME NEW q \in Seq(Jobs), NEW e \in Jobs
  PROVE  /\ Append(q, e) \in Seq(Jobs)
         /\ Len(Append(q, e)) = Len(q) + 1
         /\ DOMAIN Append(q, e) = 1..Len(q) + 1
         /\ DOMAIN q = 1..Len(q)
         /\ \A i \in 1..Len(q) : Append(q, e)[i] = q[i] /\ q[i] \in Jobs
         /\ Append(q, e)[Len(q) + 1] = e
  OBVIOUS

\* ... and what is left of a queue is shifted by one.
LEMMA QueueTail ==
  ASSUME NEW q \in Seq(Jobs), q # <<>>
  PROVE  /\ Head(q) \in Jobs /\ Head(q) = q[1]
         /\ Tail(q) \in Seq(Jobs)
         /\ Len(Tail(q)) = Len(q) - 1
         /\ DOMAIN q = 1..Len(q) /\ 1 \in DOMAIN q
         /\ DOMAIN Tail(q) = 1..Len(q) - 1
         /\ \A i \in 1..Len(q) - 1 : Tail(q)[i] = q[i + 1] /\ i + 1 \in DOMAIN q
  OBVIOUS

\* Buffers in the queue, and the writer's, are buffers.
LEMMA Entries ==
  ASSUME TypeOK
  PROVE  /\ DOMAIN queue = 1..Len(queue)
         /\ \A i \in DOMAIN queue : /\ queue[i] \in Jobs
                                   /\ queue[i].buffer \in Buffers
                                   /\ queue[i].buffer # NoBuffer
                                   /\ queue[i].piece \in Pieces
         /\ job \in Jobs => job.buffer \in Buffers /\ job.buffer # NoBuffer
                           /\ job.piece \in Pieces
  <1>1. queue \in Seq(Jobs)
    BY DEF TypeOK
  <1>2. DOMAIN queue = 1..Len(queue) /\ \A i \in DOMAIN queue : queue[i] \in Jobs
    BY <1>1
  <1> QED
    BY <1>2, PipeAssumption DEF Jobs

\* The numbers in a state are those of pieces.
LEMMA Numbers ==
  ASSUME TypeOK, PieceOrder
  PROVE  /\ NPieces \in Nat /\ next \in Nat /\ job.piece \in 0..NPieces /\ Len(queue) \in Nat
         /\ Producing => next \in 0..NPieces /\ next \in Pieces /\ next + 1 \in 1..NPieces + 1
  <1>1. NPieces \in Nat
    BY PipeAssumption
  <1>2. next \in 1..NPieces + 1
    BY DEF TypeOK
  <1>3. Producing => next <= NPieces
    BY DEF PieceOrder
  <1>4. job.piece \in 0..NPieces
    <2>1. CASE job \in Jobs
      BY <1>1, <2>1 DEF Jobs, Pieces
    <2>2. CASE job = [piece |-> 0, buffer |-> NoBuffer]
      BY <1>1, <2>2
    <2> QED
      BY <2>1, <2>2 DEF TypeOK
  <1>5. Len(queue) \in Nat
    <2>1. queue \in Seq(Jobs)
      BY DEF TypeOK
    <2> QED
      BY <2>1
  <1> QED
    BY <1>1, <1>2, <1>3, <1>4, <1>5 DEF Pieces

\* The invariant holds before anything runs.
LEMMA InitIInv == Init => IInv
  <1> SUFFICES ASSUME Init PROVE IInv
    OBVIOUS
  <1> USE PipeAssumption DEF Init
  <1>1. TypeOK
    BY DEF TypeOK, Pieces, Jobs
  <1>2. BufferOwnership
    BY DEF BufferOwnership, AtWriter
  <1>3. PieceOrder
    BY DEF PieceOrder, Producing
  <1>4. Contents
    BY DEF Contents
  <1>5. WrittenSoFar
    BY DEF WrittenSoFar, Pieces
  <1>6. Endings
    BY DEF Endings
  <1> QED
    BY <1>1, <1>2, <1>3, <1>4, <1>5, <1>6 DEF IInv

\* Each step of the producer keeps it.
LEMMA GetBufferIInv == IInv /\ GetBuffer => IInv'
  <1> SUFFICES ASSUME IInv, GetBuffer PROVE IInv'
    OBVIOUS
  <1> USE PipeAssumption, Entries DEF IInv, GetBuffer
  <1>1. TypeOK'
    BY DEF TypeOK
  <1>2. BufferOwnership'
    <2>1. AtWriter' = AtWriter
      BY DEF AtWriter
    <2>2. CASE held' \in pool /\ pool' = pool \ {held'}
      <3>1. held' \notin pool' /\ held' \notin AtWriter /\ pool' \cap AtWriter = {}
        BY <2>2 DEF BufferOwnership
      <3>2. \A i \in DOMAIN queue : queue[i].buffer \notin pool' \cup {held'} \cup AtWriter
        BY <2>2 DEF BufferOwnership
      <3> QED
        BY <2>1, <3>1, <3>2 DEF BufferOwnership
    <2>3. CASE UNCHANGED <<held, pool>>
      BY <2>1, <2>3 DEF BufferOwnership
    <2> QED
      BY <2>2, <2>3
  <1>3. PieceOrder'
    BY DEF PieceOrder, Producing
  <1>4. Contents'
    <2>1. held' = NoBuffer <=> producer' \notin {"read", "send"}
      BY DEF Contents, TypeOK
    <2>2. /\ producer' = "read" => reads
          /\ reads => producer' # "send"
      BY DEF Contents
    <2> QED
      BY <2>1, <2>2 DEF Contents, Jobs
  <1>5. WrittenSoFar'
    BY DEF WrittenSoFar
  <1>6. Endings'
    BY DEF Endings, Producing, Writing, PoolClosed, TypeOK
  <1> QED
    BY <1>1, <1>2, <1>3, <1>4, <1>5, <1>6

\* Filling a buffer touches nobody else's: that's what BufferOwnership is for.
LEMMA ReadIInv == IInv /\ Read => IInv'
  <1> SUFFICES ASSUME IInv, Read PROVE IInv'
    OBVIOUS
  <1> USE PipeAssumption, Entries DEF IInv, Read
  <1>0. held \in Buffers /\ next \in 0..NPieces
    <2>1. held # NoBuffer
      BY DEF Contents
    <2>2. next \in 0..NPieces
      BY Numbers DEF Producing
    <2> QED
      BY <2>1, <2>2 DEF TypeOK
  <1>1. TypeOK'
    <2>1. data' \in [Buffers -> 0..NPieces]
      BY <1>0 DEF TypeOK
    <2> QED
      BY <2>1 DEF TypeOK
  <1>2. BufferOwnership'
    <2>1. AtWriter' = AtWriter
      BY DEF AtWriter
    <2>2. NoBuffer \notin pool \cup AtWriter
      BY DEF AtWriter, TypeOK, Contents
    <2>3. held' \in {held, NoBuffer}
      OBVIOUS
    <2> QED
      BY <2>1, <2>2, <2>3 DEF BufferOwnership
  <1>3. PieceOrder'
    BY DEF PieceOrder, Producing
  <1>4. Contents'
    <2>1. /\ held' = NoBuffer <=> producer' \notin {"read", "send"}
          /\ writer' \in {"write", "give"} => job' \in Jobs'
      BY <1>0 DEF Contents, Jobs
    <2>2. \A b \in Buffers : b # held => data'[b] = data[b]
      BY DEF TypeOK
    <2>3. reads /\ producer' = "send" => data'[held'] = next'
      BY <1>0 DEF TypeOK
    <2>4. reads => \A i \in DOMAIN queue : data'[queue[i].buffer] = queue[i].piece
      BY <2>2 DEF BufferOwnership, Contents
    <2>5. reads /\ writer' = "write" => data'[job'.buffer] = job'.piece
      BY <2>2 DEF BufferOwnership, Contents, AtWriter
    <2>6. reads
      BY DEF Contents
    <2> QED
      BY <2>1, <2>3, <2>4, <2>5, <2>6 DEF Contents
  <1>5. WrittenSoFar'
    BY DEF WrittenSoFar
  <1>6. Endings'
    BY DEF Endings, Producing, Writing
  <1> QED
    BY <1>1, <1>2, <1>3, <1>4, <1>5, <1>6

\* Feed::send puts the next piece at the end of the queue.
LEMMA SendIInv == IInv /\ Send => IInv'
  <1> SUFFICES ASSUME IInv, Send PROVE IInv'
    OBVIOUS
  <1> USE PipeAssumption, Entries DEF IInv, Send
  <1>0. /\ held \in Buffers /\ held # NoBuffer
        /\ next \in Pieces /\ next + 1 \in 1..NPieces + 1
        /\ AtWriter' = AtWriter /\ NoBuffer \notin pool \cup AtWriter
    <2>1. held # NoBuffer
      BY DEF Contents
    <2>2. next \in Pieces /\ next + 1 \in 1..NPieces + 1
      BY Numbers DEF Producing
    <2>3. AtWriter' = AtWriter
      BY DEF AtWriter
    <2>4. NoBuffer \notin AtWriter
      BY DEF AtWriter, Contents
    <2> QED
      BY <2>1, <2>2, <2>3, <2>4 DEF TypeOK
  <1>1. CASE Writing /\ producer' # "stopped"
    <2> DEFINE e == [piece |-> next, buffer |-> held]
    <2>1. /\ queue' = Append(queue, e) /\ next' = next + 1
          /\ producer' = IF next = NPieces THEN "ok" ELSE "buffer"
      BY <1>1 DEF Last
    <2>2. e \in Jobs /\ queue \in Seq(Jobs) /\ e.piece = next /\ e.buffer = held
      BY <1>0 DEF Jobs, TypeOK
    <2> HIDE DEF e
    <2>3. /\ queue' \in Seq(Jobs)
          /\ Len(queue') = Len(queue) + 1
          /\ DOMAIN queue' = 1..Len(queue) + 1
          /\ DOMAIN queue = 1..Len(queue)
          /\ \A i \in 1..Len(queue) : queue'[i] = queue[i]
          /\ queue'[Len(queue) + 1] = e
          /\ Len(queue) \in Nat
      BY <2>1, <2>2, QueueAppend
    <2>4. TypeOK'
      <3>1. next' \in 1..NPieces + 1 /\ held' = NoBuffer
        BY <1>0, <2>1
      <3> QED
        BY <2>1, <2>3, <3>1 DEF TypeOK, Jobs
    <2>5. BufferOwnership'
      BY <1>0, <2>2, <2>3 DEF BufferOwnership
    <2>6. PieceOrder'
      <3>0. next = job.piece + Len(queue) + 1
        BY <1>1 DEF PieceOrder, Writing
      <3>1. next' = job'.piece + Len(queue') + 1 /\ queue'[Len(queue) + 1].piece = next
        <4>1. job.piece \in Nat /\ Len(queue) \in Nat /\ job' = job
          BY Numbers
        <4>2. next' = next + 1 /\ Len(queue') = Len(queue) + 1
          BY <2>1, <2>3
        <4>3. queue'[Len(queue) + 1].piece = next
          BY <2>2, <2>3
        <4> QED
          BY ONLY <3>0, <4>1, <4>2, <4>3
      <3>2. ASSUME NEW i \in DOMAIN queue' PROVE queue'[i].piece = job.piece + i
        <4>1. CASE i = Len(queue) + 1
          <5>1. job.piece \in Nat /\ Len(queue) \in Nat
            BY Numbers
          <5> QED
            BY ONLY <3>0, <3>1, <4>1, <5>1
        <4>2. CASE i \in DOMAIN queue
          BY <2>3, <4>2 DEF PieceOrder
        <4> QED
          <5>1. i \in 1..Len(queue) + 1 /\ DOMAIN queue = 1..Len(queue) /\ Len(queue) \in Nat
            BY <2>3
          <5>2. i \in DOMAIN queue \/ i = Len(queue) + 1
            BY ONLY <5>1
          <5> QED
            BY <4>1, <4>2, <5>2
      <3>3. Producing' => next' <= NPieces
        BY <1>0, <2>1 DEF Producing, Pieces
      <3>4. producer' = "ok" => next' = NPieces + 1
        BY <2>1
      <3> QED
        BY <3>1, <3>2, <3>3, <3>4 DEF PieceOrder
    <2>7. Contents'
      BY <1>0, <2>1, <2>2, <2>3 DEF Contents, Jobs
    <2>8. WrittenSoFar'
      BY DEF WrittenSoFar
    <2>9. Endings'
      BY <1>1, <2>1 DEF Endings, Producing, Writing
    <2> QED
      BY <2>4, <2>5, <2>6, <2>7, <2>8, <2>9
  <1>2. CASE ~Writing /\ producer' = "stopped" /\ UNCHANGED <<queue, next>>
    <2>1. TypeOK'
      BY <1>2 DEF TypeOK, Jobs
    <2>2. BufferOwnership'
      BY <1>0, <1>2 DEF BufferOwnership
    <2>3. PieceOrder'
      BY <1>2 DEF PieceOrder, Producing
    <2>4. Contents'
      BY <1>2 DEF Contents, Jobs
    <2>5. WrittenSoFar'
      BY DEF WrittenSoFar
    <2>6. Endings'
      BY <1>2 DEF Endings, Producing, Writing, TypeOK
    <2> QED
      BY <2>1, <2>2, <2>3, <2>4, <2>5, <2>6
  <1> QED
    BY <1>1, <1>2

\* Each step of the writer keeps it.
LEMMA TakeIInv == IInv /\ Take => IInv'
  <1> SUFFICES ASSUME IInv, Take PROVE IInv'
    OBVIOUS
  <1> USE PipeAssumption, Entries DEF IInv, Take
  <1>1. CASE queue # <<>> /\ queue' = Tail(queue) /\ job' = Head(queue) /\ writer' = "write"
    <2>1. queue \in Seq(Jobs)
      BY DEF TypeOK
    <2>2. /\ job' \in Jobs /\ job' = queue[1] /\ 1 \in DOMAIN queue
          /\ queue' \in Seq(Jobs)
          /\ Len(queue') = Len(queue) - 1
          /\ DOMAIN queue' = 1..Len(queue) - 1
          /\ \A i \in 1..Len(queue) - 1 : queue'[i] = queue[i + 1] /\ i + 1 \in DOMAIN queue
          /\ Len(queue) \in Nat
      BY <1>1, <2>1, QueueTail
    <2>3. TypeOK'
      BY <1>1, <2>2 DEF TypeOK, Jobs
    <2>4. BufferOwnership'
      <3>1. AtWriter' = {queue[1].buffer}
        BY <1>1, <2>2 DEF AtWriter
      <3>2. held \notin AtWriter' /\ pool \cap AtWriter' = {}
        BY <2>2, <3>1 DEF BufferOwnership
      <3>3. ASSUME NEW i \in DOMAIN queue'
            PROVE  queue'[i].buffer \notin pool \cup {held} \cup AtWriter'
        <4>1. i \in 1..Len(queue) - 1 /\ queue'[i] = queue[i + 1] /\ i + 1 \in DOMAIN queue /\ i + 1 # 1
          BY <2>2
        <4> QED
          BY <2>2, <3>1, <4>1 DEF BufferOwnership
      <3>4. ASSUME NEW i \in DOMAIN queue', NEW j \in DOMAIN queue',
                   queue'[i].buffer = queue'[j].buffer
            PROVE  i = j
        <4>1. i + 1 = j + 1
          BY <2>2, <3>4 DEF BufferOwnership
        <4> QED
          BY <2>2, <4>1
      <3> QED
        BY <3>2, <3>3, <3>4 DEF BufferOwnership
    <2>5. job'.piece = job.piece + 1 /\ job.piece \in 0..NPieces
      <3>1. queue[1].piece = job.piece + 1
        BY <2>2 DEF PieceOrder
      <3> QED
        BY <2>2, <3>1, Numbers
    <2>6. PieceOrder'
      <3>1. ASSUME NEW i \in DOMAIN queue' PROVE queue'[i].piece = job'.piece + i
        <4>1. queue'[i].piece = job.piece + (i + 1) /\ i \in Int
          BY <2>2 DEF PieceOrder
        <4> QED
          BY <2>5, <4>1
      <3>2. next' = job'.piece + Len(queue') + 1
        BY <2>2, <2>5 DEF PieceOrder
      <3> QED
        BY <3>1, <3>2 DEF PieceOrder, Producing
    <2>7. Contents'
      BY <1>1, <2>2 DEF Contents, Jobs
    <2>8. WrittenSoFar'
      BY <1>1, <2>2, <2>5 DEF WrittenSoFar, Pieces
    <2>9. Endings'
      BY <1>1 DEF Endings, Producing, Writing
    <2> QED
      BY <2>3, <2>4, <2>6, <2>7, <2>8, <2>9
  <1>2. CASE Drained /\ writer' = "ok" /\ UNCHANGED <<job, queue>>
    <2>1. TypeOK'
      BY <1>2 DEF TypeOK, Jobs
    <2>2. BufferOwnership'
      BY <1>2 DEF BufferOwnership, AtWriter
    <2>3. PieceOrder'
      BY <1>2 DEF PieceOrder, Producing
    <2>4. Contents'
      BY <1>2 DEF Contents, Jobs
    <2>5. WrittenSoFar'
      BY <1>2 DEF WrittenSoFar
    <2>6. Endings'
      BY <1>2 DEF Endings, Drained, Producing, Writing
    <2> QED
      BY <2>1, <2>2, <2>3, <2>4, <2>5, <2>6
  <1> QED
    BY <1>1, <1>2

\* A write, whole or torn, changes the place of the writer's piece only.
LEMMA WriteIInv == IInv /\ Write => IInv'
  <1> SUFFICES ASSUME IInv, Write PROVE IInv'
    OBVIOUS
  <1> USE PipeAssumption DEF IInv, Write
  <1>0. /\ job \in Jobs /\ job.piece \in Pieces
        /\ target[job.piece] = "old"
        /\ ~reads => data[job.buffer] = 0
        /\ reads => data[job.buffer] = job.piece
    <2>1. job \in Jobs /\ job.piece \in Pieces /\ job.buffer \in Buffers
      BY Entries DEF Contents
    <2> QED
      BY <2>1 DEF Contents, WrittenSoFar
  <1>1. CASE /\ writer' = "failed" /\ queue' = <<>>
             /\ \/ UNCHANGED target
                \/ \E v \in {"old", "torn"} : target' = [target EXCEPT ![job.piece] = v]
    <2>1. /\ target' \in [Pieces -> {"old", "torn", "right", "wrong"}]
          /\ target'[job.piece] \in {"old", "torn"}
          /\ \A p \in Pieces : p # job.piece => target'[p] = target[p]
      BY <1>0, <1>1 DEF TypeOK
    <2>2. TypeOK'
      <3>1. queue' \in Seq(Jobs)
        BY <1>1
      <3> QED
        BY <1>1, <2>1, <3>1 DEF TypeOK, Jobs
    <2>3. BufferOwnership'
      BY <1>1 DEF BufferOwnership, AtWriter
    <2>4. PieceOrder'
      BY <1>1 DEF PieceOrder, Producing
    <2>5. Contents'
      BY <1>1 DEF Contents, Jobs
    <2>6. WrittenSoFar'
      BY <1>0, <1>1, <2>1 DEF WrittenSoFar, Pieces
    <2>7. Endings'
      BY <1>1 DEF Endings, Writing
    <2> QED
      BY <2>2, <2>3, <2>4, <2>5, <2>6, <2>7
  <1>2. CASE /\ target' = [target EXCEPT ![job.piece] = Written(job.piece, data[job.buffer])]
             /\ writer' = "give" /\ UNCHANGED queue
    <2>1. Written(job.piece, data[job.buffer]) = "right"
      BY <1>0 DEF Written
    <2>2. /\ target' \in [Pieces -> {"old", "torn", "right", "wrong"}]
          /\ target'[job.piece] = "right"
          /\ \A p \in Pieces : p # job.piece => target'[p] = target[p]
      BY <1>0, <1>2, <2>1 DEF TypeOK
    <2>3. TypeOK'
      BY <1>2, <2>2 DEF TypeOK, Jobs
    <2>4. BufferOwnership'
      BY <1>2 DEF BufferOwnership, AtWriter
    <2>5. PieceOrder'
      BY <1>2 DEF PieceOrder, Producing
    <2>6. Contents'
      BY <1>0, <1>2 DEF Contents, Jobs
    <2>7. WrittenSoFar'
      BY <1>0, <1>2, <2>2 DEF WrittenSoFar, Pieces
    <2>8. Endings'
      BY <1>2 DEF Endings, Writing
    <2> QED
      BY <2>3, <2>4, <2>5, <2>6, <2>7, <2>8
  <1> QED
    BY <1>1, <1>2 DEF WriterFails

\* A buffer that goes back to the pool is nobody else's.
LEMMA GiveIInv == IInv /\ Give => IInv'
  <1> SUFFICES ASSUME IInv, Give PROVE IInv'
    OBVIOUS
  <1> USE PipeAssumption DEF IInv, Give
  <1>0. job \in Jobs /\ job.buffer \in Buffers /\ AtWriter = {job.buffer} /\ AtWriter' = {}
    BY Entries DEF Contents, AtWriter
  <1>1. TypeOK'
    BY <1>0 DEF TypeOK, Jobs
  <1>2. BufferOwnership'
    BY <1>0 DEF BufferOwnership
  <1>3. PieceOrder'
    BY DEF PieceOrder, Producing
  <1>4. Contents'
    BY DEF Contents, Jobs
  <1>5. WrittenSoFar'
    BY DEF WrittenSoFar
  <1>6. Endings'
    BY DEF Endings, Writing
  <1> QED
    BY <1>1, <1>2, <1>3, <1>4, <1>5, <1>6

\* The result is that of the two threads, which have both ended.
LEMMA JoinIInv == IInv /\ Join => IInv'
  <1> SUFFICES ASSUME IInv, Join PROVE IInv'
    OBVIOUS
  <1> USE PipeAssumption DEF IInv, Join
  <1>1. TypeOK'
    BY DEF TypeOK, Jobs, Outcome, Produced, Producing
  <1>2. BufferOwnership'
    BY DEF BufferOwnership, AtWriter
  <1>3. PieceOrder'
    BY DEF PieceOrder, Producing
  <1>4. Contents'
    BY DEF Contents, Jobs
  <1>5. WrittenSoFar'
    BY DEF WrittenSoFar
  <1>6. Endings'
    <2>1. producer' = producer /\ writer' = writer /\ queue' = queue
      OBVIOUS
    <2>2. (Producing' <=> Producing) /\ (Writing' <=> Writing)
      BY ONLY <2>1 DEF Producing, Writing
    <2>3. Outcome' = Outcome
      BY ONLY <2>1 DEF Outcome, Produced
    <2> QED
      BY <2>1, <2>2, <2>3 DEF Endings
  <1> QED
    BY <1>1, <1>2, <1>3, <1>4, <1>5, <1>6

\* So every step of with_writer and its producers keeps the invariant, ...
LEMMA NextIInv == IInv /\ [Next]_vars => IInv'
  <1> SUFFICES ASSUME IInv, [Next]_vars PROVE IInv'
    OBVIOUS
  <1>1. CASE UNCHANGED vars
    <2> USE <1>1 DEF vars, IInv
    <2>1. TypeOK' /\ BufferOwnership'
      BY DEF TypeOK, Jobs, BufferOwnership, AtWriter
    <2>2. PieceOrder' /\ Contents' /\ WrittenSoFar'
      BY DEF PieceOrder, Producing, Contents, Jobs, WrittenSoFar
    <2>3. Endings'
      <3>1. (Producing <=> Producing') /\ (Writing <=> Writing') /\ Outcome' = Outcome
        BY DEF Producing, Writing, Outcome, Produced
      <3> QED
        BY <3>1 DEF Endings
    <2> QED
      BY <2>1, <2>2, <2>3
  <1> QED
    BY <1>1, GetBufferIInv, ReadIInv, SendIInv, TakeIInv, WriteIInv, GiveIInv, JoinIInv DEF Next

\* ... and it holds in every reachable state: the proof obligations of each
\* property below start from it.
THEOREM Invariance == Spec => []IInv
  <1> QED
    BY InitIInv, NextIInv, PTL DEF Spec

\* Every state has its type.
THEOREM TypeCorrect == Spec => []TypeOK
  <1>1. IInv => TypeOK
    BY DEF IInv
  <1> QED
    BY <1>1, Invariance, PTL

\* When with_writer succeeds, every piece is on the target with its own bytes.
LEMMA CompleteInv == IInv => SuccessIsComplete
  <1> SUFFICES ASSUME IInv, result = "ok", NEW p \in Pieces PROVE target[p] = "right"
    BY DEF SuccessIsComplete
  <1>1. writer = "ok" /\ producer = "ok" /\ queue = <<>>
    BY DEF IInv, Endings, Outcome, Produced, Producing, Writing, TypeOK
  <1>2. next = NPieces + 1 /\ next = job.piece + Len(queue) + 1
    BY <1>1 DEF IInv, PieceOrder
  <1>3. NPieces \in Nat /\ job.piece \in Nat /\ Len(queue) = 0
    BY <1>1, Numbers DEF IInv
  <1>4. p <= job.piece /\ p \in Nat
    BY ONLY <1>2, <1>3, p \in Pieces DEF Pieces
  <1> QED
    BY <1>1, <1>3, <1>4 DEF IInv, WrittenSoFar

\* with_writer never reports a success that left a piece out or mixed two up.
THEOREM SuccessComplete == Spec => []SuccessIsComplete
  <1> QED
    BY CompleteInv, Invariance, PTL

\* Nothing is written past the target's end. (IInv doesn't say so; the target only
\* ever changes at a piece that isn't past it.)
NothingPastEnd == \A p \in Pieces : PastEnd(p) => target[p] = "old"

\* No step writes there.
LEMMA PastEndInv == IInv /\ NothingPastEnd /\ [Next]_vars => NothingPastEnd'
  <1> SUFFICES ASSUME IInv, NothingPastEnd, [Next]_vars, NEW p \in Pieces, PastEnd(p)'
               PROVE  target'[p] = "old"
    BY DEF NothingPastEnd
  <1>1. fits' = fits
    BY DEF Next, vars, GetBuffer, Read, Send, Take, Write, Give, Join
  <1>2. PastEnd(p) /\ target[p] = "old"
    BY <1>1 DEF PastEnd, NothingPastEnd
  <1>3. CASE Write
    <2>1. target \in [Pieces -> {"old", "torn", "right", "wrong"}]
      BY DEF IInv, TypeOK
    <2>2. CASE UNCHANGED target
      BY <1>2, <2>2
    <2>3. CASE ~PastEnd(job.piece)
      <3>1. job.piece # p
        BY <1>2, <2>3
      <3>2. target'[p] = target[p]
        BY <1>3, <2>1, <3>1 DEF Write
      <3> QED
        BY <1>2, <3>2
    <2> QED
      BY <1>3, <2>2, <2>3 DEF Write
  <1>4. CASE ~Write
    <2>1. target' = target
      BY <1>4 DEF Next, vars, GetBuffer, Read, Send, Take, Give, Join
    <2> QED
      BY <1>2, <2>1
  <1> QED
    BY <1>3, <1>4

\* A target that's too small makes with_writer fail, whatever is produced for it.
THEOREM TooSmallIsReported == Spec => []TooSmallFails
  <1>1. Init => NothingPastEnd
    BY DEF Init, NothingPastEnd, Pieces
  <1>2. ASSUME IInv, NothingPastEnd PROVE TooSmallFails
    <2>1. NPieces \in Nat /\ fits \in 0..NPieces
      BY <1>2, PipeAssumption DEF IInv, TypeOK
    <2>2. ASSUME NEW p \in fits + 1..NPieces PROVE p \in Pieces /\ target[p] = "old"
      <3>1. p \in Pieces /\ p > fits
        BY <2>1 DEF Pieces
      <3> QED
        BY <1>2, <3>1 DEF NothingPastEnd, PastEnd
    <2>3. ASSUME NPieces > fits PROVE result # "ok"
      <3>1. NPieces \in Pieces /\ NPieces \in fits + 1..NPieces
        BY <2>1, <2>3 DEF Pieces
      <3>2. target[NPieces] = "old"
        BY <2>2, <3>1
      <3>3. SuccessIsComplete
        BY <1>2, CompleteInv
      <3> QED
        BY <3>1, <3>2, <3>3 DEF SuccessIsComplete
    <2> QED
      BY <2>2, <2>3 DEF TooSmallFails
  <1> QED
    BY <1>1, <1>2, Invariance, PastEndInv, PTL DEF Spec

\* A producer that finds the channel closed never hides the writer's error.
THEOREM WriterAlwaysExplains == Spec => []WriterExplains
  <1>1. IInv => WriterExplains
    BY DEF IInv, Endings, Outcome, Produced, Producing, TypeOK, WriterExplains
  <1> QED
    BY <1>1, Invariance, PTL

\* A write in the pipe is the abstract copy's write of the same piece.
LEMMA WriteRefines == IInv /\ Write => [Copy!Next]_Copy!vars
  <1> SUFFICES ASSUME IInv, Write PROVE [Copy!Next]_Copy!vars
    OBVIOUS
  <1>1. job.piece \in Pieces /\ job.buffer \in Buffers
    BY Entries DEF IInv, Contents, Write
  <1>2. /\ result = "none" /\ result' = result
        /\ target[job.piece] = "old"
        /\ \A q \in Pieces : q < job.piece => target[q] = "right"
    BY <1>1 DEF IInv, TypeOK, Endings, Writing, Write, WrittenSoFar
  <1>3. Written(job.piece, data[job.buffer]) = "right"
    BY <1>1, PipeAssumption DEF IInv, Contents, Write, Written
  <1>4. CASE \E v \in {"right", "torn"} : target' = [target EXCEPT ![job.piece] = v]
    <2>1. Copy!Write(job.piece)
      BY <1>1, <1>2, <1>4 DEF Copy!Write, Copy!Pieces, Pieces
    <2> QED
      BY <1>1, <2>1 DEF Copy!Next, Copy!Pieces, Pieces
  <1>5. CASE target' = [target EXCEPT ![job.piece] = "old"]
    <2>1. target' = target
      BY <1>1, <1>2, <1>5 DEF IInv, TypeOK
    <2> QED
      BY <1>2, <2>1 DEF Copy!vars
  <1>6. CASE target' = target
    BY <1>2, <1>6 DEF Copy!vars
  <1> QED
    BY <1>3, <1>4, <1>5, <1>6 DEF Write

\* with_writer's return is the abstract copy's success or failure.
LEMMA JoinRefines == IInv /\ IInv' /\ Join => Copy!Next
  <1> SUFFICES ASSUME IInv, IInv', Join PROVE Copy!Next
    OBVIOUS
  <1>1. result = "none" /\ target' = target /\ result' = Outcome
    BY DEF Join
  <1>2. result' \in {"ok", "read error", "write error"}
    BY <1>1 DEF Join, IInv, Endings, Outcome, Produced, Producing, TypeOK
  <1>3. CASE result' = "ok"
    <2>1. SuccessIsComplete'
      <3>1. IInv' => SuccessIsComplete'
        BY CompleteInv, PTL
      <3> QED
        BY <3>1
    <2>2. Copy!Succeed
      BY <1>1, <1>3, <2>1 DEF SuccessIsComplete, Copy!Succeed, Copy!Pieces, Pieces
    <2> QED
      BY <2>2 DEF Copy!Next
  <1>4. CASE result' # "ok"
    BY <1>1, <1>2, <1>4 DEF Copy!Fail, Copy!Next
  <1> QED
    BY <1>3, <1>4

\* The pipe with its two threads is one copy in order, for the outside.
THEOREM Refinement == Spec => ImplementsOrderedCopy
  <1>1. Init => Copy!Init
    BY DEF Init, Copy!Init, Copy!Pieces, Pieces
  <1>2. IInv /\ IInv' /\ [Next]_vars => [Copy!Next]_Copy!vars
    <2> SUFFICES ASSUME IInv, IInv', [Next]_vars PROVE [Copy!Next]_Copy!vars
      OBVIOUS
    <2>1. CASE GetBuffer \/ Read \/ Send \/ Take \/ Give \/ UNCHANGED vars
      BY <2>1 DEF GetBuffer, Read, Send, Take, Give, vars, Copy!vars
    <2>2. CASE Write
      BY <2>2, WriteRefines
    <2>3. CASE Join
      BY <2>3, JoinRefines
    <2> QED
      BY <2>1, <2>2, <2>3 DEF Next
  <1> QED
    BY <1>1, <1>2, Invariance, PTL DEF Spec, Copy!Spec, ImplementsOrderedCopy
===============================================================================
