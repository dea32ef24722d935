------------------------------ MODULE RestorePipe ------------------------------
(* restore_smart_v2 of engine/restore.rs: a reader thread reads the frames that    *)
(* hold data, decoder threads decompress them, and the calling thread (`main`)     *)
(* brings them back into order and puts their used runs into the writer's buffers. *)
(* Slots, which hold a frame and what was in it, go round between them.            *)
(*                                                                                *)
(* Jobs are numbered from 1 (`seq` + 1); the frames' content and the writer are in *)
(* SmartCopy and WriterPipe.                                                       *)
EXTENDS Integers, Sequences, FiniteSets

CONSTANTS
  NJobs,      \* frames with data in them
  Threads     \* the decoder threads

ASSUME RestoreAssumption == NJobs \in Nat /\ IsFiniteSet(Threads) /\ Threads # {}

VARIABLES
  reader,     \* what the reader thread is about to do
  seq,        \* the job it's at
  pool,       \* slots in pool_rx
  jobs,       \* the channel to the decoders
  decoder,    \* decoder[t]: what thread t is about to do
  work,       \* work[t]: the job it has a slot for
  done,       \* done_rx: frames and errors on their way to main
  main,       \* what the calling thread is about to do
  pending,    \* frames that wait for their turn
  out,        \* the frames whose data the writer has got, in that order
  result      \* what restore_smart_v2 returned

vars == <<reader, seq, pool, jobs, decoder, work, done, main, pending, out, result>>
readerVars == <<reader, seq>>
mainVars == <<main, pending, out, result>>

T == Cardinality(Threads)
Slots == 2 * T + 2
Error == 0

ReaderGone == reader = "gone"
DecodersGone == \A t \in Threads : decoder[t] = "gone"
MainGone == main \in {"failed", "finished"}

At(j) == IF j > NJobs THEN "gone" ELSE "slot"

Init ==
  /\ reader = At(1) /\ seq = 1
  /\ pool = Slots /\ jobs = <<>>
  /\ decoder = [t \in Threads |-> "create"] /\ work = [t \in Threads |-> Error]
  /\ done = <<>>
  /\ main = "receive" /\ pending = {} /\ out = <<>> /\ result = "none"

-------------------------------------------------------------------------------
(* The reader *)

\* pool_rx gives the slots that are in it, also once main is gone.
TakeSlot ==
  /\ reader = "slot"
  /\ \/ /\ pool > 0
        /\ pool' = pool - 1
        /\ reader' = "read"
     \/ /\ pool = 0 /\ MainGone
        /\ reader' = "gone"
        /\ UNCHANGED pool
  /\ UNCHANGED <<seq, jobs, decoder, work, done, mainVars>>

\* A read that fails, or the seek to the start, ends the reader; main is told.
ReadFailed == done' = IF MainGone THEN done ELSE Append(done, Error)
Read ==
  /\ reader = "read"
  /\ \/ reader' = "send" /\ UNCHANGED done
     \/ reader' = "gone" /\ ReadFailed
  /\ UNCHANGED <<seq, pool, jobs, decoder, work, mainVars>>

\* job_tx.send waits while the channel holds a job per thread. Main has a clone of job_rx.
SendJob ==
  /\ reader = "send"
  /\ \/ /\ Len(jobs) < T
        /\ ~(MainGone /\ DecodersGone)
        /\ jobs' = Append(jobs, seq)
        /\ seq' = seq + 1
        /\ reader' = At(seq + 1)
     \/ /\ MainGone /\ DecodersGone
        /\ reader' = "gone"
        /\ UNCHANGED <<jobs, seq>>
  /\ UNCHANGED <<pool, decoder, work, done, mainVars>>

Reader == TakeSlot \/ Read \/ SendJob

-------------------------------------------------------------------------------
(* The decoders *)

\* Without a decompressor, a thread only says so ("last").
Create(t) ==
  /\ decoder[t] = "create"
  /\ \E next \in {"take", "last"} : decoder' = [decoder EXCEPT ![t] = next]
  /\ UNCHANGED <<readerVars, pool, jobs, work, done, mainVars>>

Take(t) ==
  /\ decoder[t] = "take"
  /\ \/ /\ jobs # <<>>
        /\ jobs' = Tail(jobs)
        /\ work' = [work EXCEPT ![t] = Head(jobs)]
        /\ decoder' = [decoder EXCEPT ![t] = "decompress"]
     \/ /\ jobs = <<>> /\ ReaderGone
        /\ decoder' = [decoder EXCEPT ![t] = "gone"]
        /\ UNCHANGED <<jobs, work>>
  /\ UNCHANGED <<readerVars, pool, done, mainVars>>

\* A damaged frame, or one that holds less than its size says, is sent on as an error.
Decompress(t) ==
  /\ decoder[t] = "decompress"
  /\ decoder' = [decoder EXCEPT ![t] = "send"]
  /\ \E ok \in BOOLEAN : work' = [work EXCEPT ![t] = IF ok THEN @ ELSE Error]
  /\ UNCHANGED <<readerVars, pool, jobs, done, mainVars>>

SendDone(t) ==
  /\ decoder[t] \in {"send", "last"}
  /\ done' = IF MainGone THEN done ELSE Append(done, work[t])
  /\ decoder' = [decoder EXCEPT ![t] = IF MainGone \/ @ = "last" THEN "gone" ELSE "take"]
  /\ work' = [work EXCEPT ![t] = Error]
  /\ UNCHANGED <<readerVars, pool, jobs, mainVars>>

Decoder(t) == Create(t) \/ Take(t) \/ Decompress(t) \/ SendDone(t)

-------------------------------------------------------------------------------
(* The calling thread *)

\* Its ends of the channels go, with what's in done_rx.
Fail(why) == main' = "failed" /\ result' = why /\ done' = <<>> /\ UNCHANGED out

FaultyNoSenders == FALSE
NoSenders == ReaderGone /\ DecodersGone
Receive ==
  /\ main = "receive"
  /\ \/ /\ done # <<>>
        /\ IF Head(done) = Error
           THEN Fail("read error") /\ UNCHANGED pending
           ELSE /\ done' = Tail(done)
                /\ pending' = pending \cup {Head(done)}
                /\ main' = "put"
                /\ UNCHANGED <<out, result>>
     \/ /\ done = <<>> /\ NoSenders
        /\ IF Len(out) # NJobs THEN Fail("internal error")
                               ELSE main' = "flush" /\ UNCHANGED <<done, out, result>>
        /\ UNCHANGED pending
  /\ UNCHANGED <<readerVars, pool, jobs, decoder, work>>

\* pending.remove(&next). Staging only gets a buffer while the writer runs.
FaultyIsNext(j) == \A k \in pending : j <= k
IsNext(j) == j = Len(out) + 1

\* The slot goes back to the reader as soon as its data is with the writer.
FaultyReturned == UNCHANGED pool
Returned == pool' = pool + 1
Put ==
  /\ main = "put"
  /\ \/ \E j \in pending :
          /\ IsNext(j)
          /\ \/ /\ pending' = pending \ {j}
                /\ out' = Append(out, j)
                /\ Returned
                /\ UNCHANGED <<main, result, done>>
             \/ Fail("the writer stopped") /\ UNCHANGED <<pool, pending>>
     \/ /\ \A j \in pending : ~IsNext(j)
        /\ main' = "receive"
        /\ UNCHANGED <<pool, pending, out, result, done>>
  /\ UNCHANGED <<readerVars, jobs, decoder, work>>

\* The last buffer; thread::scope returns once every thread has ended.
Flush ==
  /\ main = "flush"
  /\ \/ main' = "finished" /\ result' = "ok" /\ UNCHANGED <<done, out>>
     \/ Fail("the writer stopped")
  /\ UNCHANGED <<readerVars, pool, jobs, decoder, work, pending>>

Main == Receive \/ Put \/ Flush

Next == Reader \/ Main \/ \E t \in Threads : Decoder(t)

\* Every thread runs; a read, and what main asks of the writer, comes to an end.
Fairness == /\ WF_vars(Reader) /\ WF_vars(Main)
            /\ \A t \in Threads : WF_vars(Decoder(t))

Spec == Init /\ [][Next]_vars /\ Fairness

-------------------------------------------------------------------------------
(* Properties *)

\* The variables hold what the code's variables and channels can hold.
TypeOK ==
  /\ reader \in {"slot", "read", "send", "gone"} /\ seq \in 1..NJobs + 1
  /\ pool \in 0..Slots
  /\ \A i \in DOMAIN jobs : jobs[i] \in 1..NJobs
  /\ decoder \in [Threads -> {"create", "take", "decompress", "send", "last", "gone"}]
  /\ work \in [Threads -> Error..NJobs]
  /\ \A i \in DOMAIN done : done[i] \in Error..NJobs
  /\ main \in {"receive", "put", "flush", "failed", "finished"}
  /\ pending \subseteq 1..NJobs
  /\ result \in {"none", "ok", "read error", "the writer stopped", "internal error"}

\* The slots add up while all goes well: memory stays bounded by them, however late the
\* frame comes that the others wait for.
Failing == \/ result # "none" \/ ReaderGone
           \/ \E i \in DOMAIN done : done[i] = Error
           \/ \E t \in Threads : decoder[t] \in {"send", "last"} /\ work[t] = Error
SlotsAddUp ==
  /\ TypeOK
  /\ ~Failing =>
       pool + (IF reader \in {"read", "send"} THEN 1 ELSE 0) + Len(jobs) + Len(done)
         + Cardinality(pending) + Cardinality({t \in Threads : work[t] # Error}) = Slots

\* Whatever fails and whenever, the restore returns with all its threads ended.
Terminates == <>(result # "none" /\ ReaderGone /\ DecodersGone)

\* The writer gets the frames in the drive's order however the decoders overtake each
\* other, and all of them when the restore succeeds (OrderedCopy). "internal error: parts
\* of the image went missing" is none of its ends: whoever ends early has told main why.
Copy == INSTANCE OrderedCopy WITH
  NPieces <- NJobs,
  target <- [j \in 1..NJobs |-> IF j > Len(out) THEN "old"
                                ELSE IF out[j] = j THEN "right" ELSE "wrong"],
  result <- IF result = "the writer stopped" THEN "write error" ELSE result
ImplementsOrderedCopy == Copy!Spec
================================================================================
