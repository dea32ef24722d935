------------------------------- MODULE ImagePipe -------------------------------
(* to_image of engine/copy.rs: a reader thread reads the used parts of a      *)
(* drive in order, compressor threads make frames of them, and the calling    *)
(* thread (`main` here) brings the frames back into order and writes them,    *)
(* with the free space in between and the seek table at the end.              *)
(*                                                                            *)
(* Pieces are numbered from 1 (`seq` + 1). A channel's end is gone once all   *)
(* threads that own it have ended; receiving drains what's left in it first.  *)
EXTENDS Integers, Sequences, FiniteSets

CONSTANTS
  Layout,    \* Layout[p]: "data", up to IMAGE_CHUNK bytes of used data, or "free"
  Threads    \* the compressor threads

ASSUME ImageAssumption ==
  /\ Layout \in Seq({"data", "free"})
  /\ IsFiniteSet(Threads) /\ Threads # {}

VARIABLES
  reader,     \* what the reader thread is about to do
  seq,        \* the piece it's at
  permits,    \* permits in permit_rx
  pool,       \* buffers in pool_rx
  jobs,       \* the channel to the compressors
  compressor, \* compressor[t]: what thread t is about to do
  work,       \* work[t]: what thread t holds, or is about to send
  channel,    \* piece_rx: pieces and errors on their way to main
  main,       \* what the calling thread is about to do
  pending,    \* pieces that wait for their turn
  out,        \* the pieces in the image, in the order they were written
  result      \* what to_image returned

vars == <<reader, seq, permits, pool, jobs, compressor, work, channel, main, pending, out, result>>
readerVars == <<reader, seq>>
mainVars == <<main, pending, out, result>>

NPieces == Len(Layout)
T == Cardinality(Threads)
MaxPermits == 2 * T + 2

ReaderGone == reader = "gone"
CompressorsGone == \A t \in Threads : compressor[t] = "gone"
MainGone == main \in {"failed", "finished"}

Error == 0

\* Where the reader starts on piece p.
At(p) == IF p > NPieces THEN "gone"
         ELSE IF Layout[p] = "free" THEN "free" ELSE "permit"

Init ==
  /\ reader = At(1)
  /\ seq = 1
  /\ permits = MaxPermits
  /\ pool = T + 2
  /\ jobs = <<>>
  /\ compressor = [t \in Threads |-> "create"]
  /\ work = [t \in Threads |-> Error]
  /\ channel = <<>>
  /\ main = "map"
  /\ pending = {}
  /\ out = <<>>
  /\ result = "none"

-------------------------------------------------------------------------------
(* The reader *)

NextPiece == seq' = seq + 1 /\ reader' = At(seq + 1)
Leave == reader' = "gone" /\ UNCHANGED seq

\* tx.send of a free part fails only once main has dropped piece_rx.
SendFree ==
  /\ reader = "free"
  /\ IF MainGone THEN Leave /\ UNCHANGED channel
                 ELSE NextPiece /\ channel' = Append(channel, seq)
  /\ UNCHANGED <<permits, pool, jobs, compressor, work, mainVars>>

TakePermit ==
  /\ reader = "permit"
  /\ \/ /\ permits > 0
        /\ permits' = permits - 1
        /\ reader' = "buffer"
     \/ /\ permits = 0 /\ MainGone
        /\ reader' = "gone"
        /\ UNCHANGED permits
  /\ UNCHANGED <<seq, pool, jobs, compressor, work, channel, mainVars>>

TakeBuffer ==
  /\ reader = "buffer"
  /\ \/ /\ pool > 0
        /\ pool' = pool - 1
        /\ reader' = "read"
     \/ /\ pool = 0 /\ CompressorsGone
        /\ reader' = "gone"
        /\ UNCHANGED pool
  /\ UNCHANGED <<seq, permits, jobs, compressor, work, channel, mainVars>>

\* A read that fails ends the reader, with the error as the piece.
Read ==
  /\ reader = "read"
  /\ \/ reader' = "send" /\ UNCHANGED channel
     \/ reader' = "gone" /\ channel' = Append(channel, Error)
  /\ UNCHANGED <<seq, permits, pool, jobs, compressor, work, mainVars>>

\* job_tx.send waits while the channel holds a job per thread.
SendJob ==
  /\ reader = "send"
  /\ \/ /\ Len(jobs) < T
        /\ ~(MainGone /\ CompressorsGone)
        /\ jobs' = Append(jobs, seq)
        /\ NextPiece
     \/ /\ MainGone /\ CompressorsGone
        /\ Leave
        /\ UNCHANGED jobs
  /\ UNCHANGED <<permits, pool, compressor, work, channel, mainVars>>

Reader == SendFree \/ TakePermit \/ TakeBuffer \/ Read \/ SendJob

-------------------------------------------------------------------------------
(* The compressors *)

Create(t) ==
  /\ compressor[t] = "create"
  /\ \E next \in {"take", "last"} : compressor' = [compressor EXCEPT ![t] = next]
  /\ UNCHANGED <<readerVars, permits, pool, jobs, work, channel, mainVars>>

Take(t) ==
  /\ compressor[t] = "take"
  /\ \/ /\ jobs # <<>>
        /\ jobs' = Tail(jobs)
        /\ work' = [work EXCEPT ![t] = Head(jobs)]
        /\ compressor' = [compressor EXCEPT ![t] = "compress"]
     \/ /\ jobs = <<>> /\ ReaderGone
        /\ compressor' = [compressor EXCEPT ![t] = "gone"]
        /\ UNCHANGED <<jobs, work>>
  /\ UNCHANGED <<readerVars, permits, pool, channel, mainVars>>

\* A piece that can't be compressed is sent on as an error; its buffer goes back
\* either way. (As in WriterPipe, the Faulty... definitions are bugs the code might
\* have had: here a thread that keeps the buffer to itself.)
Compressed(t, ok) == compressor' = [compressor EXCEPT ![t] = "send"]

FaultyReturned(ok) == pool' = IF ok THEN pool + 1 ELSE pool
Returned(ok) == pool' = pool + 1

Compress(t) ==
  /\ compressor[t] = "compress"
  /\ \E ok \in BOOLEAN : /\ work' = [work EXCEPT ![t] = IF ok THEN @ ELSE Error]
                         /\ Compressed(t, ok)
                         /\ Returned(ok)
  /\ UNCHANGED <<readerVars, permits, jobs, channel, mainVars>>

\* "last": a thread without a compressor sends its error and ends.
SendPiece(t) ==
  /\ compressor[t] \in {"send", "last"}
  /\ IF MainGone
     THEN /\ compressor' = [compressor EXCEPT ![t] = "gone"]
          /\ UNCHANGED channel
     ELSE /\ compressor' = [compressor EXCEPT ![t] = IF @ = "last" THEN "gone" ELSE "take"]
          /\ channel' = Append(channel, work[t])
  /\ work' = [work EXCEPT ![t] = Error]
  /\ UNCHANGED <<readerVars, permits, pool, jobs, mainVars>>

Compressor(t) == Create(t) \/ Take(t) \/ Compress(t) \/ SendPiece(t)

-------------------------------------------------------------------------------
(* The calling thread *)

Fail(why) == main' = "failed" /\ result' = why /\ UNCHANGED <<pending, out>>

\* The first frame of the image is its map.
PutMap ==
  /\ main = "map"
  /\ \/ main' = "receive" /\ UNCHANGED <<pending, out, result>>
     \/ Fail("write error")
  /\ UNCHANGED <<readerVars, permits, pool, jobs, compressor, work, channel>>

\* All clones of piece_tx are gone. (Faulty: main keeps its own.)
FaultyNoSenders == FALSE
NoSenders == ReaderGone /\ CompressorsGone

\* A frame that waits to be written still holds its permit. (Faulty: it's given
\* back as soon as the frame arrives.)
FaultyArrived(p) == permits' = IF Layout[p] = "data" THEN permits + 1 ELSE permits
Arrived(p) == UNCHANGED permits

Receive ==
  /\ main = "receive"
  /\ \/ /\ channel # <<>>
        /\ channel' = Tail(channel)
        /\ IF Head(channel) = Error
           THEN Fail("thread error") /\ UNCHANGED permits
           ELSE /\ pending' = pending \cup {Head(channel)}
                /\ main' = "put"
                /\ Arrived(Head(channel))
                /\ UNCHANGED <<out, result>>
     \/ /\ channel = <<>> /\ NoSenders
        /\ IF pending # {} THEN Fail("internal error")
                           ELSE main' = "table" /\ UNCHANGED <<pending, out, result>>
        /\ UNCHANGED <<channel, permits>>
  /\ UNCHANGED <<readerVars, pool, jobs, compressor, work>>

\* pending.remove(&next), with `next` pieces written. (Faulty: any piece will do.)
FaultyIsNext(p) == TRUE
IsNext(p) == p = Len(out) + 1

\* Zeros::pieces for free space, a frame for data, whose permit goes back to the
\* reader while there is one.
Put ==
  /\ main = "put"
  /\ \/ \E p \in pending :
          /\ IsNext(p)
          /\ \/ /\ pending' = pending \ {p}
                /\ out' = Append(out, p)
                /\ IF Layout[p] = "data" /\ ~ReaderGone
                   THEN permits < MaxPermits /\ permits' = permits + 1
                   ELSE UNCHANGED permits
                /\ UNCHANGED <<main, result>>
             \/ Fail("write error") /\ UNCHANGED permits
     \/ /\ \A p \in pending : ~IsNext(p)
        /\ main' = "receive"
        /\ UNCHANGED <<permits, pending, out, result>>
  /\ UNCHANGED <<readerVars, pool, jobs, compressor, work, channel>>

PutTable ==
  /\ main = "table"
  /\ \/ main' = "finished" /\ UNCHANGED <<pending, out, result>>
     \/ Fail("write error")
  /\ UNCHANGED <<readerVars, permits, pool, jobs, compressor, work, channel>>

\* thread::scope returns once every thread has ended.
Join ==
  /\ main = "finished" /\ result = "none"
  /\ ReaderGone /\ CompressorsGone
  /\ result' = "ok"
  /\ UNCHANGED <<readerVars, permits, pool, jobs, compressor, work, channel, main, pending, out>>

Main == PutMap \/ Receive \/ Put \/ PutTable \/ Join

Next == Reader \/ Main \/ \E t \in Threads : Compressor(t)

\* Every thread runs, and every read, write and compression comes to an end.
Fairness == /\ WF_vars(Reader)
            /\ WF_vars(Main)
            /\ \A t \in Threads : WF_vars(Compressor(t))

Spec == Init /\ [][Next]_vars /\ Fairness

-------------------------------------------------------------------------------
(* Properties *)

Pieces == 1..NPieces
Messages == Pieces \cup {Error}

\* The variables hold what the code's variables and channels can hold.
TypeOK ==
  /\ reader \in {"free", "permit", "buffer", "read", "send", "gone"}
  /\ seq \in 1..NPieces + 1
  /\ permits \in 0..MaxPermits
  /\ pool \in 0..T + 2
  /\ jobs \in Seq(Pieces)
  /\ compressor \in [Threads -> {"create", "take", "compress", "send", "last", "gone"}]
  /\ work \in [Threads -> Messages]
  /\ channel \in Seq(Messages)
  /\ main \in {"map", "receive", "put", "table", "failed", "finished"}
  /\ pending \in SUBSET Pieces
  /\ out \in Seq(Pieces)
  /\ result \in {"none", "ok", "thread error", "write error", "internal error"}

\* The data that's read but not written yet, wherever it is, and the permits that
\* are left add up: main never waits to give one back, and no slow frame lets
\* more than 2 * T + 2 pieces pile up in memory (permit_tx, permit_rx).
InMemory == {p \in Pieces : /\ Layout[p] = "data"
                            /\ p < seq \/ (p = seq /\ reader \in {"buffer", "read", "send"})
                            /\ \A i \in DOMAIN out : out[i] # p}
PermitsAddUp == ~ReaderGone /\ main # "failed" => permits + Cardinality(InMemory) = MaxPermits

\* A buffer is in the pool, with the reader, in the channel to the compressors or
\* with one of them, until the reader ends: none gets lost, or the copy would stall.
BuffersAddUp ==
  ~ReaderGone => pool + Len(jobs) + (IF reader \in {"read", "send"} THEN 1 ELSE 0)
                 + Cardinality({t \in Threads : compressor[t] = "compress"}) = T + 2

\* What the three say together holds after every step of every thread: nothing that
\* is handed from one to the other (a permit, a buffer, a piece) is lost on the way.
Accounting == TypeOK /\ PermitsAddUp /\ BuffersAddUp

\* Whatever fails and whenever, to_image returns with all its threads ended. The
\* order permit, buffer, channel never has all of them wait for each other.
Terminates == <>(result # "none" /\ ReaderGone /\ CompressorsGone)

\* All together is a copy in order (OrderedCopy): the frames are in the image in
\* the order of the drive however the compressors overtake each other, and an
\* image is complete when to_image succeeds. "internal error: parts of the image went
\* missing" is none of OrderedCopy's ends: no thread ends early without an error.
Copy == INSTANCE OrderedCopy WITH
  NPieces <- Len(Layout),
  target <- [p \in 1..Len(Layout) |-> IF p > Len(out) THEN "old"
                                      ELSE IF out[p] = p THEN "right" ELSE "wrong"],
  result <- IF result = "thread error" THEN "read error" ELSE result
ImplementsOrderedCopy == Copy!Spec
===============================================================================
