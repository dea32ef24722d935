------------------------------ MODULE WriterPipe ------------------------------
(* with_writer of engine/copy.rs, with the producers of to_drive and zeros:   *)
(* one thread fills buffers from a pool and queues them, a second one writes  *)
(* them to the target and hands them back. Either side may fail at any time;  *)
(* each notices the other's end only by a channel that got closed.            *)
EXTENDS Integers, Sequences, FiniteSets

CONSTANTS
  NPieces,   \* the pieces `pieces` cuts the extents into, written in order
  Buffers,   \* the buffers of the pool
  NoBuffer   \* no buffer at all

ASSUME PipeAssumption == /\ NPieces \in Nat
                         /\ NoBuffer \notin Buffers
ASSUME BuffersAssumption == IsFiniteSet(Buffers)

VARIABLES
  reads,     \* TRUE for to_drive, FALSE for zeros, which never fills a buffer
  fits,      \* the first `fits` pieces lie within the target, the others don't
  producer,  \* what the producing thread is about to do, or how it ended
  next,      \* the piece it's at
  held,      \* the buffer it holds
  pool,      \* the buffers that wait in the pool's channel
  data,      \* data[b]: the piece whose bytes fill buffer b, 0 for zeros
  queue,     \* the channel to the writer
  writer,    \* what the writer thread is about to do, or how it ended
  job,       \* what it took from the queue last
  target,    \* target[p]: what the target holds where piece p belongs
  result     \* what with_writer returned

vars == <<reads, fits, producer, next, held, pool, data, queue, writer, job, target, result>>

Pieces == 1..NPieces

\* with_writer: sync_channel(buffers). (Definitions below called Faulty... are
\* bugs the code might have had; no specification uses them. The mutants of
\* PROJECT.json put each in the place of the definition that follows it.)
Capacity == Cardinality(Buffers)

\* The feed, with its ends of both channels, lives as long as `produce` runs;
\* the writer's ends live as long as its thread.
Producing == producer \in {"buffer", "read", "send"}
Writing == writer \in {"take", "write", "give"}

\* What piece p's place holds once buffer content d has been written there.
Written(p, d) == IF d = (IF reads THEN p ELSE 0) THEN "right" ELSE "wrong"

Init ==
  /\ reads \in BOOLEAN
  /\ fits \in 0..NPieces
  /\ producer = IF NPieces = 0 THEN "ok" ELSE "buffer"
  /\ next = 1
  /\ held = NoBuffer
  /\ pool = Buffers
  /\ data = [b \in Buffers |-> 0]
  /\ queue = <<>>
  /\ writer = "take"
  /\ job = [piece |-> 0, buffer |-> NoBuffer]
  /\ target = [p \in Pieces |-> "old"]
  /\ result = "none"

-------------------------------------------------------------------------------
(* The producer *)

\* recv on the pool fails: all senders are gone, and so is what they sent.
FaultyPoolClosed == FALSE
PoolClosed == pool = {} /\ ~Writing

\* Feed::buffer. What's left in a closed channel can still be received.
GetBuffer ==
  /\ producer = "buffer"
  /\ \/ \E b \in pool : /\ held' = b
                        /\ pool' = pool \ {b}
                        /\ producer' = IF reads THEN "read" ELSE "send"
     \/ /\ PoolClosed
        /\ producer' = "stopped"
        /\ UNCHANGED <<held, pool>>
  /\ UNCHANGED <<reads, fits, next, data, queue, writer, job, target, result>>

\* src.read_at fills the buffer or fails.
Read ==
  /\ producer = "read"
  /\ \/ /\ data' = [data EXCEPT ![held] = next]
        /\ producer' = "send"
        /\ UNCHANGED held
     \/ /\ producer' = "failed"
        /\ held' = NoBuffer
        /\ UNCHANGED data
  /\ UNCHANGED <<reads, fits, next, pool, queue, writer, job, target, result>>

Last(p) == p = NPieces

\* Feed::send, which waits while the queue is full.
Send ==
  /\ producer = "send"
  /\ held' = NoBuffer
  /\ \/ /\ Writing /\ Len(queue) < Capacity
        /\ queue' = Append(queue, [piece |-> next, buffer |-> held])
        /\ next' = next + 1
        /\ producer' = IF Last(next) THEN "ok" ELSE "buffer"
     \/ /\ ~Writing
        /\ producer' = "stopped"
        /\ UNCHANGED <<queue, next>>
  /\ UNCHANGED <<reads, fits, pool, data, writer, job, target, result>>

-------------------------------------------------------------------------------
(* The writer *)

\* The loop over chunk_rx ends when the feed is gone and the queue is empty.
FaultyDrained == ~Producing
Drained == queue = <<>> /\ ~Producing

Take ==
  /\ writer = "take"
  /\ \/ /\ queue # <<>>
        /\ job' = Head(queue)
        /\ queue' = Tail(queue)
        /\ writer' = "write"
     \/ /\ Drained
        /\ writer' = "ok"
        /\ UNCHANGED <<job, queue>>
  /\ UNCHANGED <<reads, fits, producer, next, held, pool, data, target, result>>

\* A failing writer drops its ends of the channels and what they hold.
FaultyWriterFails == writer' = "give" /\ UNCHANGED queue
WriterFails == writer' = "failed" /\ queue' = <<>>

FaultyPastEnd(p) == p > fits + 1
PastEnd(p) == p > fits

\* A drive that's too small, a write that fails (wherever it got), or a write.
Write ==
  /\ writer = "write"
  /\ \/ /\ PastEnd(job.piece)
        /\ WriterFails
        /\ UNCHANGED target
     \/ /\ ~PastEnd(job.piece)
        /\ WriterFails
        /\ \E v \in {"old", "torn"} : target' = [target EXCEPT ![job.piece] = v]
     \/ /\ ~PastEnd(job.piece)
        /\ target' = [target EXCEPT ![job.piece] = Written(job.piece, data[job.buffer])]
        /\ writer' = "give"
        /\ UNCHANGED queue
  /\ UNCHANGED <<reads, fits, producer, next, held, pool, data, job, result>>

\* pool_tx.send, for nothing once the feed is gone.
Give ==
  /\ writer = "give"
  /\ writer' = "take"
  /\ pool' = pool \cup {job.buffer}
  /\ UNCHANGED <<reads, fits, producer, next, held, data, queue, job, target, result>>

-------------------------------------------------------------------------------
\* with_writer joins the writer, whose error comes before the producer's.
Produced == CASE producer = "ok" -> "ok"
              [] producer = "failed" -> "read error"
              [] producer = "stopped" -> "the writer stopped"
Outcome == IF writer = "failed" THEN "write error" ELSE Produced

Join ==
  /\ ~Producing /\ ~Writing /\ result = "none"
  /\ result' = Outcome
  /\ UNCHANGED <<reads, fits, producer, next, held, pool, data, queue, writer, job, target>>

Next == GetBuffer \/ Read \/ Send \/ Take \/ Write \/ Give \/ Join

\* Both threads run: the system schedules each, and a transfer comes to an end.
Fairness == /\ WF_vars(GetBuffer \/ Read \/ Send)
            /\ WF_vars(Take \/ Write \/ Give)
            /\ WF_vars(Join)

Spec == Init /\ [][Next]_vars /\ Fairness

-------------------------------------------------------------------------------
(* Properties *)

\* The variables hold what the code's variables and channels can hold.
Jobs == [piece : Pieces, buffer : Buffers]
TypeOK ==
  /\ reads \in BOOLEAN /\ fits \in 0..NPieces
  /\ producer \in {"buffer", "read", "send", "ok", "failed", "stopped"}
  /\ next \in 1..NPieces + 1
  /\ held \in Buffers \cup {NoBuffer}
  /\ pool \in SUBSET Buffers
  /\ data \in [Buffers -> 0..NPieces]
  /\ queue \in Seq(Jobs)
  /\ writer \in {"take", "write", "give", "ok", "failed"}
  /\ job \in Jobs \cup {[piece |-> 0, buffer |-> NoBuffer]}
  /\ target \in [Pieces -> {"old", "torn", "right", "wrong"}]
  /\ result \in {"none", "ok", "read error", "write error", "the writer stopped"}

\* Success means that every piece is on the target, with its own bytes: the
\* writer empties the queue before it ends (with_writer's join).
SuccessIsComplete == result = "ok" => \A p \in Pieces : target[p] = "right"

\* A target that's too small for what's produced is always reported, and
\* nothing is written past its end.
TooSmallFails == /\ NPieces > fits => result # "ok"
                 /\ \A p \in fits + 1..NPieces : target[p] = "old"

\* "the writer stopped" never reaches the user: whoever sees a closed channel
\* finds the writer's own error in front of it (STOPPED's comment).
WriterExplains == result # "the writer stopped"

\* Whatever fails and whenever, with_writer returns: neither thread waits for
\* ever for one that has ended.
Terminates == <>(result # "none")

\* What makes these invariants inductive. A buffer is moved, never shared, so it is
\* in one place at a time (Rust sees to that); ...
AtWriter == IF writer \in {"write", "give"} THEN {job.buffer} ELSE {}
BufferOwnership ==
  /\ held \notin pool /\ held \notin AtWriter /\ pool \cap AtWriter = {}
  /\ \A i \in DOMAIN queue : queue[i].buffer \notin pool \cup {held} \cup AtWriter
  /\ \A i, j \in DOMAIN queue : queue[i].buffer = queue[j].buffer => i = j
\* ... the queue holds consecutive pieces from the writer's to the producer's; ...
PieceOrder ==
  /\ Producing => next <= NPieces
  /\ producer = "ok" => next = NPieces + 1
  /\ writer # "failed" => next = job.piece + Len(queue) + 1
  /\ \A i \in DOMAIN queue : queue[i].piece = job.piece + i
\* ... a buffer holds the bytes of the piece it's queued for; ...
Contents ==
  /\ held = NoBuffer <=> producer \notin {"read", "send"}
  /\ producer = "read" => reads
  /\ writer \in {"write", "give"} => job \in Jobs
  /\ reads => /\ producer = "send" => data[held] = next
              /\ \A i \in DOMAIN queue : data[queue[i].buffer] = queue[i].piece
              /\ writer = "write" => data[job.buffer] = job.piece
  /\ ~reads => \A b \in Buffers : data[b] = 0
\* ... the target holds what the writer has got to; ...
WrittenSoFar ==
  \A p \in Pieces :
    /\ p < job.piece => target[p] = "right"
    /\ p > job.piece => target[p] = "old"
    /\ p = job.piece => CASE writer = "write" -> target[p] = "old"
                          [] writer = "failed" -> target[p] \in {"old", "torn"}
                          [] OTHER -> target[p] = "right"
\* ... and each thread's end says how the other's went.
Endings ==
  /\ writer = "ok" => queue = <<>> /\ ~Producing
  /\ writer = "failed" => queue = <<>>
  /\ producer = "stopped" => writer = "failed"
  /\ result # "none" => ~Producing /\ ~Writing /\ result = Outcome

IInv == TypeOK /\ BufferOwnership /\ PieceOrder /\ Contents /\ WrittenSoFar /\ Endings

\* The two threads together are one copy in order (OrderedCopy).
Copy == INSTANCE OrderedCopy
ImplementsOrderedCopy == Copy!Spec
===============================================================================
