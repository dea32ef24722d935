--------------------------- MODULE JobProtocol_proofs ---------------------------
(* Proofs about JobProtocol, for every kind of work, with crashes and kills or    *)
(* without: its inductive invariant IInv, PickedModeRuns, and that it implements  *)
(* JobContract.                                                                  *)
EXTENDS JobProtocol, TLAPS

-------------------------------------------------------------------------------
(* The inductive invariant *)

Lines == {"ready", "layout", "copy", "progress", "sync"}
InOut(line) == \E i \in 1..Len(out) : out[i] = line

\* What comes through stdin is what the user has picked, on every stage of its way.
Answers == {typed, answer, choice} \subseteq {"none", picked}

\* What the worker does follows from the answer it took.
Modes ==
  /\ main \in {"ready", "estimate", "answer", "prepare", "copy", "spawn"} => child = "none"
  /\ main = "copy" => choice # "full"
  /\ main \in {"spawn", "store", "poll"} \/ child # "none" => choice = "full"
  /\ work = "ask" /\ main \in {"prepare", "copy", "spawn", "store", "poll", "sync", "flush"}
       => choice # "none"
  /\ work = "ask" /\ (InOut("copy") \/ "Copying" \in events) => picked # "none"

\* How far the target is.
Written ==
  /\ main = "ready" => target = "untouched"
  /\ child = "ok" => target = "flushed" \/ (target = "complete" /\ sync)
  /\ main \in {"sync", "flush"} => child # "running" /\ target \in {"complete", "flushed"}
  /\ main = "sync" => Flushes \/ target = "flushed"
  /\ code = "ok" => child # "running" /\ target = "flushed"

\* The GUI hears of the end only once nothing is left that could write or report.
Ends ==
  /\ proc = "exited" <=> code # "none"
  /\ proc = "prompt" => main = "ready"
  /\ status = "ended" => Eof /\ out = <<>>
  /\ output = "ended" => Eof
  /\ waiter \in {"join output", "done"} => status = "ended"
  /\ waiter = "done" => output = "ended"
  /\ outcome # "none" <=> waiter = "done"

\* A worker that got past the prompt has said so.
Told == gui = "running" /\ main # "ready" => started \/ InOut("ready")

IInv == TypeOK /\ Answers /\ Modes /\ Written /\ Ends /\ Told

-------------------------------------------------------------------------------
(* The pipes *)

\* A line the worker says is in the pipe, if the GUI still holds its end.
LEMMA Said ==
  ASSUME TypeOK, NEW line \in Lines, Say(line)
  PROVE  /\ out' \in Seq(Lines) /\ (gui = "running" => out' # <<>>)
         /\ \A l : InOut(l)' => InOut(l) \/ l = line
         /\ InOut("ready") => InOut("ready")'
         /\ gui = "running" => InOut(line)'
<1>1. out \in Seq(Lines)
  BY DEF TypeOK, Lines
<1>2. CASE gui = "running" /\ out' = Append(out, line)
  <2>1. /\ out' \in Seq(Lines) /\ Len(out') = Len(out) + 1 /\ Len(out) \in Nat /\ out' # <<>>
        /\ \A i \in 1..Len(out) : out'[i] = out[i]
        /\ out'[Len(out) + 1] = line
    BY <1>1, <1>2
  <2>2. 1..Len(out') = (1..Len(out)) \cup {Len(out) + 1}
    BY <2>1
  <2> QED
    BY <2>1, <2>2 DEF InOut
<1>3. CASE gui # "running" /\ out' = out
  BY <1>1, <1>3 DEF InOut
<1> QED
  BY <1>2, <1>3 DEF Say

\* Taking the first line away brings no line, and takes no other.
LEMMA Read ==
  ASSUME TypeOK, out # <<>>, out' = Tail(out)
  PROVE  /\ out' \in Seq(Lines) /\ Head(out) \in Lines /\ InOut(Head(out))
         /\ \A l : InOut(l)' => InOut(l)
         /\ \A l : InOut(l) => InOut(l)' \/ l = Head(out)
<1>1. out \in Seq(Lines)
  BY DEF TypeOK, Lines
<1>2. /\ out' \in Seq(Lines) /\ Len(out) = Len(out') + 1 /\ Len(out') \in Nat
      /\ Head(out) = out[1] /\ Head(out) \in Lines
      /\ \A i \in 1..Len(out') : out'[i] = out[i + 1]
  BY <1>1
<1>3. /\ 1 \in 1..Len(out) /\ \A i \in 1..Len(out') : i + 1 \in 1..Len(out)
      /\ \A j \in 1..Len(out) : j # 1 => j - 1 \in 1..Len(out') /\ j = (j - 1) + 1
  BY <1>2
<1>4. \A l : InOut(l) => InOut(l)' \/ l = Head(out)
  <2> SUFFICES ASSUME NEW l, InOut(l), l # Head(out) PROVE InOut(l)'
    OBVIOUS
  <2>1. PICK j \in 1..Len(out) : out[j] = l
    BY DEF InOut
  <2>2. j - 1 \in 1..Len(out') /\ out'[j - 1] = l
    BY <1>2, <1>3, <2>1
  <2> QED
    BY <2>2 DEF InOut
<1> QED
  BY <1>2, <1>3, <1>4 DEF InOut
-------------------------------------------------------------------------------
(* Which actions change what *)

\* Who writes which group of variables: a step by anybody else leaves it alone.
LEMMA Touches ==
  ASSUME [Next]_vars
  PROVE  /\ Answer \/ Cancel \/ Terminate \/ Crash \/ ReadStatus \/ UNCHANGED guiVars
         /\ ReadStatus \/ ReadOutput \/ Wait \/ UNCHANGED readVars
         /\ Answer \/ WatchLine \/ WatchByte \/ UNCHANGED typed
         /\ SayReady \/ Estimate \/ Prepare \/ CopyOn \/ SaySync \/ ReadStatus \/ UNCHANGED out
         /\ CopyOn \/ ChildCopies \/ ReadOutput \/ UNCHANGED err
         /\ \/ Terminate \/ Prompt \/ Killed \/ Estimate \/ Prepare \/ CopyFails \/ Spawn \/ Poll
            \/ SaySync \/ Flush \/ MainCancels \/ WatchCancels \/ UNCHANGED <<proc, code>>
         /\ Main \/ Watch \/ UNCHANGED workerVars
         /\ Spawn \/ MainCancels \/ WatchCancels \/ ChildCopies \/ ChildNotices \/ UNCHANGED childVars
         /\ CopyOn \/ Flush \/ ChildCopies \/ UNCHANGED target
<1>1. CASE Environment
  BY <1>1 DEF Environment, Answer, Cancel, Terminate, Prompt, Crash, Killed, Stay, Exit, guiVars
<1>2. CASE Main
  BY <1>2 DEF Main, SayReady, Estimate, TakeAnswer, Prepare, CopyOn, CopyFails,
        Spawn, Store, Poll, SaySync, Flush, MainCancels, Report, Exit, Stay, childVars
<1>3. CASE Watch
  BY <1>3 DEF Watch, WatchLine, WatchByte, WatchCancels, Stay, Exit
<1>4. CASE ChildCopies
  BY <1>4 DEF ChildCopies
<1>5. CASE ChildNotices
  BY <1>5 DEF ChildNotices
<1>6. CASE ReadStatus
  BY <1>6 DEF ReadStatus
<1>7. CASE ReadOutput
  BY <1>7 DEF ReadOutput
<1>8. CASE Wait
  BY <1>8 DEF Wait
<1>9. CASE UNCHANGED vars
  BY <1>9 DEF vars
<1> QED
  BY <1>1, <1>2, <1>3, <1>4, <1>5, <1>6, <1>7, <1>8, <1>9 DEF Next

-------------------------------------------------------------------------------
(* The variables' types *)

GuiTypes ==
  /\ work \in {"dd", "copy", "ask"} /\ elevated \in BOOLEAN /\ sync \in BOOLEAN
  /\ gui \in {"running", "gone"} /\ ui \in {"idle", "terminate"}
  /\ cancelled \in BOOLEAN /\ started \in BOOLEAN /\ open \in BOOLEAN
  /\ picked \in {"none", "smart", "full"}

ReadTypes ==
  /\ status \in {"reading", "ended"} /\ output \in {"reading", "ended"}
  /\ waiter \in {"wait", "join status", "join output", "done"}
  /\ events \subseteq {"Started", "Layout", "Copying", "Progress", "Syncing"}
  /\ outcome \in {"none", "cancelled", "success", "not authorized", "failed"}

PipeTypes ==
  /\ typed \in {"none", "smart", "full"}
  /\ out \in Seq(Lines) /\ err \in Seq({"progress"})

WorkerTypes ==
  /\ proc \in {"prompt", "running", "exited"}
  /\ code \in {"none", "ok", "error", "signal", "cancelled"}
  /\ main \in {"ready", "estimate", "answer", "prepare", "copy", "spawn", "store", "poll",
               "sync", "flush", "kill", "print", "exit"}
  /\ watch \in {"line", "byte", "kill", "print", "exit", "dead"}
  /\ answer \in {"none", "smart", "full"} /\ choice \in {"none", "smart", "full"}
  /\ known \in BOOLEAN

CopyTypes ==
  /\ child \in {"none", "running", "ok", "failed", "killed"}
  /\ childWatch \in {"watching", "dead"}
  /\ target \in {"untouched", "partial", "complete", "flushed"}

\* TypeOK in parts, each no more than the provers take at once.
LEMMA Types ==
  /\ TypeOK <=> GuiTypes /\ ReadTypes /\ PipeTypes /\ WorkerTypes /\ CopyTypes
  /\ TypeOK' <=> GuiTypes' /\ ReadTypes' /\ PipeTypes' /\ WorkerTypes' /\ CopyTypes'
<1>1. TypeOK <=> GuiTypes /\ ReadTypes /\ PipeTypes /\ WorkerTypes /\ CopyTypes
  BY DEF TypeOK, GuiTypes, ReadTypes, PipeTypes, WorkerTypes, CopyTypes, Lines
<1> QED
  BY <1>1, PTL

\* Every action of the two processes and the pipes between them keeps to the types.
LEMMA TypeStays ==
  ASSUME TypeOK, [Next]_vars
  PROVE  TypeOK'
<1>1. GuiTypes /\ ReadTypes /\ PipeTypes /\ WorkerTypes /\ CopyTypes
  BY Types
<1>2. GuiTypes'
  <2>1. CASE Answer \/ Cancel \/ Terminate \/ Crash \/ ReadStatus
    BY <1>1, <2>1 DEF Answer, Cancel, Terminate, Crash, ReadStatus, GuiTypes
  <2>2. CASE UNCHANGED guiVars
    BY <1>1, <2>2 DEF guiVars, GuiTypes
  <2> QED
    BY <2>1, <2>2, Touches
<1>3. ReadTypes'
  <2>1. CASE ReadStatus
    <3>1. CASE out # <<>> /\ out' = Tail(out)
      <4>1. Head(out) \in Lines
        BY <3>1, Read
      <4>2. Event(Head(out)) \in {"Started", "Layout", "Copying", "Progress", "Syncing"}
        BY <4>1 DEF Event, Lines
      <4> QED
        BY <1>1, <2>1, <3>1, <4>2 DEF ReadStatus, ReadTypes
    <3>2. CASE UNCHANGED events
      BY <1>1, <2>1, <3>2 DEF ReadStatus, ReadTypes
    <3> QED
      BY <2>1, <3>1, <3>2 DEF ReadStatus
  <2>2. CASE ReadOutput \/ Wait
    BY <1>1, <2>2 DEF ReadOutput, Wait, Outcome, ReadTypes
  <2>3. CASE UNCHANGED readVars
    BY <1>1, <2>3 DEF readVars, ReadTypes
  <2> QED
    BY <2>1, <2>2, <2>3, Touches
<1>4. PipeTypes'
  <2>1. typed' \in {"none", "smart", "full"}
    BY <1>1, Touches DEF Answer, WatchLine, WatchByte, PipeTypes
  <2>2. ASSUME NEW line \in Lines, Say(line) PROVE out' \in Seq(Lines)
    BY <2>2, Said
  <2>3. out' \in Seq(Lines)
    <3>1. CASE SayReady \/ Estimate \/ Prepare \/ SaySync
      BY <1>1, <2>2, <3>1 DEF SayReady, Estimate, Prepare, SaySync, Lines, PipeTypes
    <3>2. CASE CopyOn
      BY <1>1, <2>2, <3>2 DEF CopyOn, Report, Lines, PipeTypes
    <3>3. CASE ReadStatus
      BY <1>1, <3>3 DEF ReadStatus, PipeTypes
    <3> QED
      BY <1>1, <3>1, <3>2, <3>3, Touches DEF PipeTypes
  <2>4. err' \in Seq({"progress"})
    <3>1. CASE CopyOn \/ ChildCopies
      <4>1. SayProgress \/ UNCHANGED err
        BY <3>1 DEF CopyOn, ChildCopies, Report
      <4> QED
        BY <1>1, <4>1 DEF SayProgress, PipeTypes
    <3>2. CASE ReadOutput
      <4>1. (err # <<>> /\ err' = Tail(err)) \/ err' = err
        BY <3>2 DEF ReadOutput
      <4>2. err \in Seq({"progress"})
        BY <1>1 DEF PipeTypes
      <4> QED
        BY ONLY <4>1, <4>2
    <3> QED
      BY <1>1, <3>1, <3>2, Touches DEF PipeTypes
  <2> QED
    BY <2>1, <2>3, <2>4 DEF PipeTypes
<1>5. WorkerTypes'
  <2>1. /\ proc' \in {"prompt", "running", "exited"}
        /\ code' \in {"none", "ok", "error", "signal", "cancelled"}
    BY <1>1, Touches DEF Terminate, Prompt, Killed, Estimate, Prepare, CopyFails, Spawn, Poll,
       SaySync, Flush, MainCancels, WatchCancels, Exit, Stay, WorkerTypes
  <2>2. CASE Main
    <3>1. main' \in {"ready", "estimate", "answer", "prepare", "copy", "spawn", "store", "poll",
                     "sync", "flush", "kill", "print", "exit"}
      BY <1>1, <2>2 DEF Main, SayReady, Estimate, TakeAnswer, Prepare, CopyOn, CopyFails, Spawn,
         Store,
         Poll, SaySync, Flush, MainCancels, MainGoes, workerVars, WorkerTypes
    <3>2. /\ watch' = watch /\ answer' = answer /\ choice' \in {choice, answer}
          /\ known' \in BOOLEAN
      BY <1>1, <2>2 DEF Main, SayReady, Estimate, TakeAnswer, Prepare, CopyOn, CopyFails, Spawn,
         Store,
         Poll, SaySync, Flush, MainCancels, MainGoes, workerVars, WorkerTypes
    <3> QED
      BY <1>1, <2>1, <3>1, <3>2 DEF WorkerTypes
  <2>3. CASE Watch
    <3>1. /\ main' = main /\ choice' = choice /\ known' = known
          /\ watch' \in {"line", "byte", "kill", "print", "exit", "dead"}
          /\ answer' \in {answer, typed}
      BY <1>1, <2>3 DEF Watch, WatchLine, WatchByte, WatchCancels, WatchGoes, AfterAnswer,
         AtEof, WorkerTypes
    <3> QED
      BY <1>1, <2>1, <3>1 DEF WorkerTypes, PipeTypes
  <2>4. CASE UNCHANGED workerVars
    BY <1>1, <2>1, <2>4 DEF workerVars, WorkerTypes
  <2> QED
    BY <2>2, <2>3, <2>4, Touches
<1>6. CopyTypes'
  <2>1. child' \in {"none", "running", "ok", "failed", "killed"} /\ childWatch' \in {"watching", "dead"}
    BY <1>1, Touches DEF Spawn, ChildWatch, MainCancels, WatchCancels, KillChild, ChildCopies,
       ChildNotices, childVars, CopyTypes
  <2>2. target' \in {"untouched", "partial", "complete", "flushed"}
    BY <1>1, Touches DEF CopyOn, Flush, ChildCopies, DdEnds, CopyTypes
  <2> QED
    BY <2>1, <2>2 DEF CopyTypes
<1> QED
  BY <1>2, <1>3, <1>4, <1>5, <1>6, Types
-------------------------------------------------------------------------------
(* Every other part of the invariant stays *)

\* The user picks once, and the one line then goes from typed through answer to choice.
LEMMA AnswersStay ==
  ASSUME IInv, [Next]_vars
  PROVE  Answers'
<1>1. CASE Answer
  BY <1>1 DEF IInv, Answers, Answer, workerVars
<1>2. CASE TakeAnswer
  BY <1>2 DEF IInv, Answers, TakeAnswer, guiVars
<1>3. CASE WatchLine \/ WatchByte
  BY <1>3 DEF IInv, Answers, WatchLine, WatchByte, WatchGoes, AtEof, guiVars
<1>4. ASSUME ~Answer, ~TakeAnswer, ~WatchLine, ~WatchByte
      PROVE  UNCHANGED <<picked, typed, answer, choice>>
  <2>1. UNCHANGED typed
    BY <1>4, Touches
  <2>2. UNCHANGED picked
    BY <1>4, Touches DEF Cancel, Terminate, Crash, ReadStatus, guiVars
  <2>3. UNCHANGED <<answer, choice>>
    BY <1>4, Touches DEF Main, SayReady, Estimate, TakeAnswer, Prepare, CopyOn, CopyFails, Spawn,
       Store, Poll, SaySync, Flush, MainCancels, Watch, WatchCancels, MainGoes, WatchGoes,
       workerVars
  <2> QED
    BY <2>1, <2>2, <2>3
<1> QED
  BY <1>1, <1>2, <1>3, <1>4 DEF IInv, Answers
\* The main thread's way into dd or a copy is decided by the answer it took.
LEMMA ModesStay ==
  ASSUME IInv, [Next]_vars
  PROVE  Modes'
<1>1. TypeOK /\ Answers /\ Modes
  BY DEF IInv
<1>2. ASSUME Main PROVE Modes'
  <2>1. UNCHANGED <<work, picked, events>>
    BY <1>2 DEF Main, SayReady, Estimate, TakeAnswer, Prepare, CopyOn, CopyFails, Spawn,
       Store, Poll, SaySync, Flush, MainCancels, guiVars, readVars
  <2>2. (main \in {"ready", "estimate", "answer", "prepare", "copy", "spawn"} => child = "none")'
    BY <1>1, <1>2 DEF Modes, Main, SayReady, Estimate, TakeAnswer, Prepare, CopyOn, CopyFails,
       Spawn, Store, Poll, SaySync, Flush, MainCancels, MainGoes, KillChild, workerVars, childVars
  <2>3. (main = "copy" => choice # "full")'
    BY <1>1, <1>2 DEF Modes, Main, SayReady, Estimate, TakeAnswer, Prepare, CopyOn, CopyFails,
       Spawn, Store, Poll, SaySync, Flush, MainCancels, MainGoes, RunsDd, workerVars
  <2>4. (main \in {"spawn", "store", "poll"} \/ child # "none" => choice = "full")'
    BY <1>1, <1>2 DEF Modes, Main, SayReady, Estimate, TakeAnswer, Prepare, CopyOn, CopyFails,
       Spawn, Store, Poll, SaySync, Flush, MainCancels, MainGoes, KillChild, RunsDd, workerVars,
       childVars
  <2>5. (work = "ask" /\ main \in {"prepare", "copy", "spawn", "store", "poll", "sync", "flush"}
           => choice # "none")'
    BY <1>1, <1>2, <2>1 DEF Modes, Main, SayReady, Estimate, TakeAnswer, Prepare, CopyOn,
       CopyFails,
       Spawn, Store, Poll, SaySync, Flush, MainCancels, MainGoes, Understood, Asks, workerVars
  <2>6. (work = "ask" /\ (InOut("copy") \/ "Copying" \in events) => picked # "none")'
    <3>1. ASSUME NEW line \in Lines, Say(line) PROVE InOut("copy")' => InOut("copy") \/ line = "copy"
      BY <1>1, <3>1, Said
    <3>2. InOut("copy")' => InOut("copy") \/ Prepare
      BY <1>1, <1>2, <3>1, Touches DEF SayReady, Estimate, CopyOn, Report, SaySync, ReadStatus,
         InOut, Lines
    <3>3. Prepare /\ work = "ask" => picked # "none"
      BY <1>1 DEF Prepare, Modes, Answers
    <3> QED
      BY <1>1, <2>1, <3>2, <3>3 DEF Modes
  <2> QED
    BY <2>2, <2>3, <2>4, <2>5, <2>6 DEF Modes
<1>3. ASSUME ReadStatus PROVE Modes'
  <2>1. UNCHANGED <<work, picked>> /\ UNCHANGED <<main, choice, child>>
    BY <1>3 DEF ReadStatus, workerVars, childVars
  <2>2. (InOut("copy") \/ "Copying" \in events)' => InOut("copy") \/ "Copying" \in events
    <3>1. CASE out # <<>> /\ out' = Tail(out) /\ events' = events \cup {Event(Head(out))}
      <4>1. Head(out) \in Lines /\ InOut(Head(out)) /\ (InOut("copy")' => InOut("copy"))
        BY <1>1, <3>1, Read
      <4>2. Event(Head(out)) = "Copying" => Head(out) = "copy"
        BY <4>1 DEF Event, Lines
      <4> QED
        BY <3>1, <4>1, <4>2
    <3>2. CASE UNCHANGED <<out, events>>
      BY <3>2 DEF InOut
    <3> QED
      BY <1>3, <3>1, <3>2 DEF ReadStatus
  <2> QED
    BY <1>1, <2>1, <2>2 DEF Modes
<1>4. ASSUME ~Main, ~ReadStatus PROVE Modes'
  <2>1. UNCHANGED <<work, main, choice, out>>
    BY <1>4, Touches DEF Answer, Cancel, Terminate, Crash, Main, Watch, WatchLine, WatchByte,
       WatchCancels,
       AtEof, WatchGoes, guiVars, workerVars
  <2>2. "Copying" \in events' => "Copying" \in events
    <3>1. events' = events \/ events' = events \cup {"Progress"}
      BY <1>4, Touches DEF ReadOutput, Wait, readVars
    <3> QED
      BY <3>1
  <2>3. picked' = "none" => picked = "none"
    BY <1>4, Touches DEF Answer, Cancel, Terminate, Crash, guiVars
  <2>4. child' = "none" <=> child = "none"
    BY <1>4, Touches DEF WatchCancels, KillChild, ChildCopies, ChildNotices, Main, childVars
  <2> QED
    BY <1>1, <2>1, <2>2, <2>3, <2>4 DEF Modes, InOut
<1> QED
  BY <1>2, <1>3, <1>4
\* A worker or dd gets to a good end only past the writes before it.
LEMMA WrittenStays ==
  ASSUME IInv, [Next]_vars
  PROVE  Written'
<1>1. TypeOK /\ Modes /\ Written /\ Ends
  BY DEF IInv
<1>2. CopyTypes /\ WorkerTypes
  BY <1>1, Types
<1>3. CASE CopyOn
  <2>1. /\ main = "copy" /\ choice # "full" /\ child = "none" /\ code # "ok" /\ UNCHANGED <<child, code>>
        /\ UNCHANGED <<sync, choice, work>>
    BY <1>1, <1>2, <1>3 DEF CopyOn, Running, Modes, Ends, childVars, workerVars, guiVars, MainGoes
  <2>2. \/ main' = "copy"
        \/ /\ main' = "sync" /\ target = "complete" /\ target' \in {"complete", "flushed"}
           /\ work # "dd" \/ sync \/ target' = "flushed"
    BY <1>3, <2>1 DEF CopyOn, DdEnds, MainGoes, workerVars
  <2> QED
    BY <1>1, <2>1, <2>2 DEF Written, Flushes, RunsDd
<1>4. CASE Flush
  <2>1. /\ main = "flush" /\ child # "running" /\ code # "ok" /\ target \in {"complete", "flushed"}
        /\ UNCHANGED <<main, child, sync, choice, work>>
        /\ target' = "flushed" \/ (target' = target /\ code' = "error")
    BY <1>1, <1>4 DEF Flush, Written, Ends, Running, Exit, workerVars, childVars, guiVars
  <2> QED
    BY <1>1, <2>1 DEF Written
<1>5. CASE ChildCopies
  <2>1. /\ child = "running" /\ main \notin {"ready", "sync", "flush"} /\ code # "ok"
        /\ UNCHANGED <<main, code, sync, choice, work>>
        /\ \/ child' = "ok" /\ (target' = "flushed" \/ (target' = "complete" /\ sync))
           \/ child' \in {"running", "failed"}
    BY <1>1, <1>5 DEF ChildCopies, DdEnds, Modes, Written, workerVars, guiVars
  <2> QED
    BY <2>1 DEF Written
<1>6. ASSUME ~CopyOn, ~Flush, ~ChildCopies PROVE Written'
  <2>1. UNCHANGED <<target, work, sync>>
    BY <1>6, Touches DEF Answer, Cancel, Terminate, Crash, ReadStatus, guiVars
  <2>2. /\ child' = "ok" => child = "ok"
        /\ child' = "running" => child = "running" \/ (Spawn /\ main' = "store" /\ code' = code)
    BY <1>6, Touches DEF Spawn, MainGoes, Stay, MainCancels, WatchCancels, KillChild,
       ChildNotices, childVars
  <2>3. \/ UNCHANGED <<main, choice>>
        \/ TakeAnswer /\ main' \in {"prepare", "kill"}
        \/ UNCHANGED choice /\ main # "ready" /\ main' = "sync" /\ Poll /\ child = "ok" /\ UNCHANGED child
        \/ UNCHANGED choice /\ main = "sync" /\ main' = "flush" /\ SaySync /\ UNCHANGED child
        \/ UNCHANGED choice /\ main' \notin {"ready", "sync", "flush"}
    <3>1. CASE SayReady \/ Estimate \/ Prepare \/ CopyFails \/ Spawn \/ Store
      BY <3>1 DEF SayReady, Estimate, Prepare, CopyFails, Spawn, Store, MainGoes, workerVars
    <3>2. CASE TakeAnswer
      BY <3>2 DEF TakeAnswer
    <3>3. CASE Poll
      BY <3>3 DEF Poll, ChildSucceeded, childVars
    <3>4. CASE SaySync
      BY <3>4 DEF SaySync, MainGoes, workerVars, childVars
    <3>5. CASE MainCancels
      BY <3>5 DEF MainCancels, MainGoes, workerVars
    <3>6. CASE Watch \/ UNCHANGED workerVars
      BY <3>6 DEF Watch, WatchLine, WatchByte, WatchCancels, AtEof, WatchGoes, workerVars
    <3> QED
      BY <1>6, <3>1, <3>2, <3>3, <3>4, <3>5, <3>6, Touches DEF Main
  <2>4. code' = "ok" => code = "ok" \/ (SaySync /\ ~Flushes)
    BY <1>6, Touches DEF Terminate, Prompt, Killed, Estimate, Prepare, CopyFails, Spawn, Poll,
       SaySync,
       MainCancels, WatchCancels, Exit, Stay
  <2>5. (main = "ready" => target = "untouched")'
    BY <1>1, <2>1, <2>3 DEF Written
  <2>6. (child = "ok" => target = "flushed" \/ (target = "complete" /\ sync))'
    BY <1>1, <2>1, <2>2 DEF Written
  <2>7. (main \in {"sync", "flush"} => child # "running" /\ target \in {"complete", "flushed"})'
    BY <1>1, <2>1, <2>2, <2>3 DEF Written, Spawn
  <2>8. (main = "sync" => Flushes \/ target = "flushed")'
    BY <1>1, <2>1, <2>3 DEF Written, Flushes, RunsDd
  <2>9. (code = "ok" => child # "running" /\ target = "flushed")'
    BY <1>1, <2>1, <2>2, <2>4 DEF Written, SaySync, Spawn, Running, Ends
  <2> QED
    BY <2>5, <2>6, <2>7, <2>8, <2>9 DEF Written
<1> QED
  BY <1>3, <1>4, <1>5, <1>6

\* The readers end after the processes, the waiter after the readers (job.rs:257-260).
LEMMA EndsStay ==
  ASSUME IInv, [Next]_vars
  PROVE  Ends'
<1>1. TypeOK /\ Ends
  BY DEF IInv
<1>2. WorkerTypes /\ ReadTypes
  BY <1>1, Types
<1>3. /\ proc = "exited" => UNCHANGED <<proc, code>>
      /\ proc' = "exited" <=> code' # "none"
  BY <1>1, <1>2, Touches DEF Terminate, Prompt, Killed, Estimate, Prepare, CopyFails, Spawn,
     Poll, SaySync,
     Flush, MainCancels, WatchCancels, Exit, Stay, Running, Ends
<1>4. proc' = "prompt" => proc = "prompt" /\ UNCHANGED main
  <2>1. Main \/ Watch => proc # "prompt"
    BY DEF Main, SayReady, Estimate, TakeAnswer, Prepare, CopyOn, CopyFails, Spawn, Store, Poll,
       SaySync,
       Flush, MainCancels, Watch, WatchLine, WatchByte, WatchCancels, Running
  <2>2. proc' = "prompt" => proc = "prompt"
    BY <1>2, Touches DEF Terminate, Prompt, Killed, Estimate, Prepare, CopyFails, Spawn, Poll,
       SaySync,
       Flush, MainCancels, WatchCancels, Exit, Stay
  <2> QED
    BY <2>1, <2>2, Touches DEF workerVars
<1>5. Eof => Eof' /\ (out = <<>> => out' = <<>>)
  <2>1. proc = "exited" => /\ ~SayReady /\ ~Estimate /\ ~Prepare /\ ~CopyOn /\ ~SaySync
                           /\ ~Spawn /\ ~MainCancels /\ ~WatchCancels
    BY DEF SayReady, Estimate, Prepare, CopyOn, SaySync, Spawn, MainCancels, WatchCancels, Running
  <2>2. Eof => child' # "running"
    BY <2>1, Touches DEF Eof, ChildCopies, ChildNotices, childVars
  <2>3. Eof => (out = <<>> => out' = <<>>)
    BY <2>1, Touches DEF Eof, ReadStatus
  <2> QED
    BY <1>3, <2>2, <2>3 DEF Eof
<1>6. /\ status' = "ended" => status = "ended" \/ (Eof /\ out = <<>>)
      /\ output' = "ended" => output = "ended" \/ Eof
      /\ status = "ended" => status' = "ended"
      /\ output = "ended" => output' = "ended"
  BY <1>2, Touches DEF ReadStatus, ReadOutput, Wait, readVars
<1>7. \/ UNCHANGED <<waiter, outcome>>
      \/ waiter # "done" /\ waiter' = "join status" /\ UNCHANGED outcome
      \/ waiter # "done" /\ waiter' = "join output" /\ status = "ended" /\ UNCHANGED outcome
      \/ waiter = "join output" /\ waiter' = "done" /\ output = "ended" /\ outcome' # "none"
  <2>1. Outcome # "none"
    BY DEF Outcome
  <2> QED
    BY <2>1, Touches DEF ReadStatus, ReadOutput, Wait, Joined, readVars
<1> QED
  BY <1>1, <1>3, <1>4, <1>5, <1>6, <1>7 DEF Ends

\* ready is said before anything else and gets lost only with the GUI.
LEMMA ToldStays ==
  ASSUME IInv, [Next]_vars
  PROVE  Told'
<1>1. TypeOK /\ Told
  BY DEF IInv
<1>2. gui' = "running" => gui = "running"
  BY Touches DEF Answer, Cancel, Terminate, Crash, ReadStatus, guiVars
<1>3. /\ main' = "ready" <=> main = "ready" /\ ~SayReady
      /\ SayReady => UNCHANGED gui
  BY Touches DEF Main, SayReady, Estimate, TakeAnswer, Prepare, CopyOn, CopyFails, Spawn, Store,
     Poll, SaySync,
     Flush, MainCancels, MainGoes, Watch, WatchLine, WatchByte, WatchCancels, AtEof, WatchGoes,
     workerVars, guiVars
<1>4. ASSUME NEW line \in Lines, Say(line)
      PROVE  InOut("ready") => InOut("ready")'
  BY <1>1, <1>4, Said
<1>5. SayReady /\ gui = "running" => InOut("ready")'
  <2>1. SayReady => Say("ready") /\ "ready" \in Lines
    BY DEF SayReady, Lines
  <2> QED
    BY <1>1, <2>1, Said
<1>6. InOut("ready") => InOut("ready")' \/ started'
  <2>1. CASE ReadStatus
    <3>1. CASE out # <<>> /\ out' = Tail(out) /\ started' = (started \/ Head(out) = "ready")
      BY <1>1, <3>1, Read
    <3>2. CASE UNCHANGED out
      BY <3>2 DEF InOut
    <3> QED
      BY <2>1, <3>1, <3>2 DEF ReadStatus
  <2>2. CASE ~ReadStatus
    BY <1>4, <2>2, Touches DEF SayReady, Estimate, Prepare, CopyOn, Report, SaySync, InOut, Lines
  <2> QED
    BY <2>1, <2>2
<1>7. started => started'
  BY Touches DEF Answer, Cancel, Terminate, Crash, ReadStatus, guiVars
<1> QED
  BY <1>1, <1>2, <1>3, <1>5, <1>6, <1>7 DEF Told
-------------------------------------------------------------------------------
(* The invariant *)

\* A job that has just been started fulfils the invariant.
LEMMA Initially == Init => IInv
<1> SUFFICES ASSUME Init PROVE IInv
  OBVIOUS
<1>1. TypeOK
  <2>1. GuiTypes
    BY JobAssumption DEF Init, GuiTypes, JobAssumption
  <2>2. ReadTypes
    BY DEF Init, ReadTypes
  <2>3. PipeTypes
    <3>1. <<>> \in Seq(Lines) /\ <<>> \in Seq({"progress"})
      OBVIOUS
    <3> QED
      BY <3>1 DEF Init, PipeTypes
  <2>4. WorkerTypes
    BY DEF Init, WorkerTypes
  <2>5. CopyTypes
    BY DEF Init, CopyTypes
  <2> QED
    BY <2>1, <2>2, <2>3, <2>4, <2>5, Types
<1>2. Answers
  BY DEF Init, Answers
<1>3. Modes
  <2>1. ~InOut("copy")
    BY DEF Init, InOut
  <2> QED
    BY <2>1 DEF Init, Modes
<1>4. Written
  BY DEF Init, Written
<1>5. Ends
  BY DEF Init, Ends
<1>6. Told
  BY DEF Init, Told
<1> QED
  BY <1>1, <1>2, <1>3, <1>4, <1>5, <1>6 DEF IInv

\* The invariant holds in all reachable states of a job.
THEOREM Invariance == Spec => []IInv
<1>1. IInv /\ [Next]_vars => IInv'
  <2> SUFFICES ASSUME IInv, [Next]_vars PROVE IInv'
    OBVIOUS
  <2>1. TypeOK'
    BY TypeStays DEF IInv
  <2> QED
    BY <2>1, AnswersStay, ModesStay, WrittenStays, EndsStay, ToldStays DEF IInv
<1> QED
  BY <1>1, Initially, PTL DEF Spec

\* The variables of a job always hold what they can hold (TypeOK).
THEOREM TypesHold == Spec => []TypeOK
<1>1. IInv => TypeOK
  BY DEF IInv
<1> QED
  BY <1>1, Invariance, PTL

\* The mode the user picked is the one that runs, and nothing is copied before
\* (PickedModeRuns; App::on_event's "Nothing may be copied before").
THEOREM PickedMode == Spec => []PickedModeRuns
<1>1. IInv => PickedModeRuns
  <2> SUFFICES ASSUME IInv PROVE PickedModeRuns
    OBVIOUS
  <2>1. /\ choice \in {"none", picked} /\ choice \in {"none", "smart", "full"} /\ Modes
    BY Types DEF IInv, Answers, WorkerTypes
  <2> QED
    BY <2>1 DEF PickedModeRuns, Modes
<1> QED
  BY <1>1, Invariance, PTL

-------------------------------------------------------------------------------
(* The contract *)

\* Before Finished, each write is the contract's; with the process and its dd gone,
\* there's none.
LEMMA Writes ==
  ASSUME IInv, CopyOn \/ Flush \/ ChildCopies
  PROVE  (Contract!Write \/ UNCHANGED target) /\ UNCHANGED <<work, picked, outcome>>
<1>1. TypeOK /\ Answers /\ Modes /\ Written /\ Ends
  BY DEF IInv
<1>2. UNCHANGED <<work, picked, outcome>>
  BY DEF CopyOn, Flush, ChildCopies, guiVars, readVars
<1>3. outcome = "none"
  BY <1>1 DEF CopyOn, Flush, ChildCopies, Running, Ends, Eof
<1>4. work # "ask" \/ picked # "none"
  BY <1>1 DEF CopyOn, Flush, ChildCopies, Modes, Answers
<1>5. \/ target = "untouched" /\ target' = "partial"
      \/ target = "partial" /\ target' = "complete"
      \/ target = "complete" /\ target' = "flushed"
      \/ target' = target
  BY DEF CopyOn, Flush, ChildCopies, DdEnds
<1> QED
  BY <1>2, <1>3, <1>4, <1>5 DEF Contract!Write

\* What the waiter makes of the exit code is true of the target (job.rs, the outcome
\* of Finished).
LEMMA Finishes ==
  ASSUME IInv, Wait
  PROVE  (Contract!Finish \/ UNCHANGED outcome) /\ UNCHANGED <<work, picked, target>>
<1>1. TypeOK /\ Written /\ Ends /\ Told
  BY DEF IInv
<1>2. UNCHANGED <<work, picked, target>>
  BY DEF Wait, guiVars
<1>3. CASE waiter = "join output" /\ Joined(output) /\ outcome' = Outcome
  <2>1. outcome = "none" /\ out = <<>> /\ gui = "running"
    BY <1>1, <1>3 DEF Ends, Wait
  <2>2. code = "ok" => target = "flushed"
    BY <1>1 DEF Written
  <2>3. ~started => target = "untouched"
    <3>1. ~InOut("ready")
      BY <2>1 DEF InOut
    <3> QED
      BY <1>1, <2>1, <3>1 DEF Told, Written
  <2>4. \/ Outcome = "success" /\ code = "ok"
        \/ Outcome = "not authorized" /\ ~started
        \/ Outcome \in {"cancelled", "failed"}
    BY DEF Outcome
  <2> QED
    BY <1>2, <1>3, <2>1, <2>2, <2>3, <2>4 DEF Contract!Finish
<1> QED
  BY <1>2, <1>3 DEF Wait

\* Two processes, five threads and three pipes do what the GUI relies on: nothing is
\* written before the mode is picked or after the end was reported, success means that
\* everything is flushed, a refused password that nothing was written, and Finished is
\* the last event (ImplementsContract).
THEOREM Refinement == Spec => ImplementsContract
<1>1. Init => Contract!Init
  BY DEF Init, Contract!Init
<1>2. IInv /\ [Next]_vars => [Contract!Next]_(Contract!vars)
  <2> SUFFICES ASSUME IInv, [Next]_vars PROVE [Contract!Next]_(Contract!vars)
    OBVIOUS
  <2>1. CASE Answer
    BY <2>1 DEF Answer, readVars, Contract!Next, Contract!Allow, Contract!vars
  <2>2. CASE CopyOn \/ Flush \/ ChildCopies
    BY <2>2, Writes DEF Contract!Next, Contract!vars
  <2>3. CASE Wait
    BY <2>3, Finishes DEF Contract!Next, Contract!vars
  <2>4. ASSUME ~Answer, ~CopyOn, ~Flush, ~ChildCopies, ~Wait
        PROVE  UNCHANGED <<work, picked, outcome, target>>
    BY <2>4, Touches DEF Cancel, Terminate, Crash, ReadStatus, ReadOutput, guiVars, readVars
  <2> QED
    BY <2>1, <2>2, <2>3, <2>4 DEF Contract!vars
<1>3. IInv /\ [Next]_vars => (outcome # "none" => UNCHANGED events)
  BY Touches DEF IInv, Ends, ReadStatus, ReadOutput, Wait, readVars
<1> QED
  BY <1>1, <1>2, <1>3, Invariance, PTL DEF Spec, Contract!Spec, ImplementsContract
=================================================================================
