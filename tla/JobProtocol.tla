------------------------------ MODULE JobProtocol ------------------------------
(* One job: job.rs in the GUI's process (start_piped, Linux and Windows), the *)
(* worker process it starts (worker.rs, engine/mod.rs), pkexec in between, and *)
(* the dd process that a worker starts for a copy sector by sector. The two    *)
(* sides share nothing but three pipes and the worker's exit code.            *)
(*                                                                            *)
(* A copy, an analysis and a password prompt take as long as they take: no    *)
(* fairness makes them end. Only one progress report of a copy is told apart. *)
EXTENDS Naturals, Sequences

CONSTANTS
  Works,    \* the kinds of work to look at, of "dd", "copy" and "ask"
  Crashes,  \* whether the GUI may crash
  Kills     \* whether something else may kill the worker

ASSUME JobAssumption == /\ Works \subseteq {"dd", "copy", "ask"}
                        /\ Crashes \in BOOLEAN /\ Kills \in BOOLEAN

VARIABLES
  \* The GUI's process
  work,       \* dd; copy: smart, restore or zeros; ask: smart with --ask
  elevated,   \* started through pkexec
  sync,       \* Spec::sync: the worker flushes the drive once dd is done; if not, the
              \* target is a file, and dd's own conv=fsync does that (Plan::sync_after)
  gui,        \* "running" or "gone"
  ui,         \* the UI thread: "idle", or in `cancel`, about to "terminate"
  cancelled, started,   \* Shared
  picked,     \* the mode the user has picked
  status, output,       \* the reader threads of stdout and stderr
  waiter,     \* the thread that waits for the worker
  events,     \* the events sent to the UI thread
  outcome,    \* that of the Finished event
  \* The pipes
  open,       \* the GUI's end of stdin
  typed,      \* a line in stdin
  out, err,   \* lines in stdout and stderr
  \* The worker's process
  proc,       \* "prompt" while it's still pkexec, "running", "exited"
  code,       \* the exit code
  main,       \* what its main thread is about to do
  watch,      \* what the thread that watches stdin is about to do
  answer,     \* the channel between them
  choice,     \* the answer the main thread took from it
  known,      \* CHILD holds the dd process
  \* The dd process, and what's copied
  child,      \* the process
  childWatch, \* its own thread that watches the worker (--ddgui-parent)
  target      \* what has become of the target

guiVars == <<work, elevated, sync, gui, ui, cancelled, started, picked, open>>
readVars == <<status, output, waiter, events, outcome>>
workerVars == <<main, watch, answer, choice, known>>
childVars == <<child, childWatch>>
vars == <<guiVars, readVars, typed, out, err, proc, code, workerVars, childVars, target>>

Running == proc = "running"

Init ==
  /\ work \in Works
  /\ elevated \in BOOLEAN /\ sync \in BOOLEAN
  /\ gui = "running" /\ ui = "idle"
  /\ cancelled = FALSE /\ started = FALSE
  /\ picked = "none"
  /\ status = "reading" /\ output = "reading" /\ waiter = "wait"
  /\ events = {} /\ outcome = "none"
  /\ open = TRUE /\ typed = "none"
  /\ out = <<>> /\ err = <<>>
  /\ proc = IF elevated THEN "prompt" ELSE "running"
  /\ code = "none"
  /\ main = "ready"
  /\ watch = IF work = "ask" THEN "line" ELSE "byte"
  /\ answer = "none" /\ choice = "none"
  /\ known = FALSE
  /\ child = "none" /\ childWatch = "watching"
  /\ target = "untouched"

Exit(c) == proc' = "exited" /\ code' = c
Stay == UNCHANGED <<proc, code>>

-------------------------------------------------------------------------------
(* The user, and what the system does *)

\* mode_start, once the dialog shows the layout: Job::answer.
Answer ==
  /\ gui = "running" /\ ui = "idle" /\ outcome = "none"
  /\ "Layout" \in events /\ picked = "none" /\ ~cancelled
  /\ picked' \in {"smart", "full"}
  /\ typed' = picked'
  /\ UNCHANGED <<work, elevated, sync, gui, ui, cancelled, started, open, readVars,
                 out, err, proc, code, workerVars, childVars, target>>

\* mode_cancel or cancel: Job::cancel, which reads `started` before it closes stdin.
Cancel ==
  /\ gui = "running" /\ ui = "idle" /\ outcome = "none" /\ ~cancelled
  /\ cancelled' = TRUE
  /\ open' = FALSE
  /\ ui' = IF started THEN "idle" ELSE "terminate"
  /\ UNCHANGED <<work, elevated, sync, gui, started, picked, readVars, typed,
                 out, err, proc, code, workerVars, childVars, target>>

\* `terminate`: SIGTERM, which an elevated worker doesn't take from us.
Terminate ==
  /\ gui = "running" /\ ui = "terminate"
  /\ ui' = "idle"
  /\ IF proc = "prompt" \/ (Running /\ ~elevated) THEN Exit("signal") ELSE Stay
  /\ UNCHANGED <<work, elevated, sync, gui, cancelled, started, picked, open, readVars, typed,
                 out, err, workerVars, childVars, target>>

\* pkexec's prompt ends: pkexec becomes the worker, or it exits with 126 or 127.
Prompt ==
  /\ proc = "prompt"
  /\ \/ proc' = "running" /\ UNCHANGED code
     \/ Exit("error")
  /\ UNCHANGED <<guiVars, readVars, typed, out, err, workerVars, childVars, target>>

\* The GUI's ends of all pipes close with its process.
Crash ==
  /\ Crashes /\ gui = "running"
  /\ gui' = "gone"
  /\ open' = FALSE
  /\ UNCHANGED <<work, elevated, sync, ui, cancelled, started, picked, readVars, typed,
                 out, err, proc, code, workerVars, childVars, target>>

Killed ==
  /\ Kills /\ Running
  /\ Exit("signal")
  /\ UNCHANGED <<guiVars, readVars, typed, out, err, workerVars, childVars, target>>

Environment == Answer \/ Cancel \/ Terminate \/ Prompt \/ Crash \/ Killed

-------------------------------------------------------------------------------
(* The worker's main thread *)

\* A line for the GUI; nobody minds when nobody reads it.
Say(line) == out' = IF gui = "running" THEN Append(out, line) ELSE out
SayProgress == err' = IF gui = "running" THEN Append(err, "progress") ELSE err

MainGoes(pc) == main' = pc /\ UNCHANGED <<watch, answer, choice, known>>

\* Args::ask. (As in WriterPipe, Faulty... definitions are bugs the code might
\* have had: here a worker that's never told to ask, ...)
Asks == work = "ask"

SayReady ==
  /\ Running /\ main = "ready"
  /\ Say("ready")
  /\ MainGoes(IF Asks THEN "estimate" ELSE "prepare")
  /\ UNCHANGED <<guiVars, readVars, typed, err, proc, code, childVars, target>>

Estimate ==
  /\ Running /\ main = "estimate"
  /\ \/ Say("layout") /\ MainGoes("answer") /\ Stay
     \/ Exit("error") /\ UNCHANGED <<out, workerVars>>
  /\ UNCHANGED <<guiVars, readVars, typed, err, childVars, target>>

\* (... or takes anything but "full" for "smart", ...)
FaultyUnderstood(a) == TRUE
Understood(a) == a \in {"smart", "full"}

\* recv on the answers: there's one, or the thread that could send it has died.
TakeAnswer ==
  /\ Running /\ main = "answer"
  /\ answer # "none" \/ watch = "dead"
  /\ choice' = answer
  /\ main' = IF Understood(answer) THEN "prepare" ELSE "kill"
  /\ UNCHANGED <<guiVars, readVars, typed, out, err, proc, code,
                 watch, answer, known, childVars, target>>

\* (... or that runs dd unless it's told not to, ...)
FaultyRunsDd == choice # "smart"
RunsDd == choice = "full"

\* Plumbing::prepare unmounts and locks, or the job fails.
Prepare ==
  /\ Running /\ main = "prepare"
  /\ \/ /\ Say("copy")
        /\ MainGoes(IF RunsDd THEN "spawn" ELSE "copy")
        /\ Stay
     \/ Exit("error") /\ UNCHANGED <<out, workerVars>>
  /\ UNCHANGED <<guiVars, readVars, typed, err, childVars, target>>

\* smart_copy, restore and zeros report on stdout, dd reports on stderr; both now
\* and then, and once more at the end.
Report == IF work = "dd" THEN SayProgress /\ UNCHANGED out
                         ELSE Say("progress") /\ UNCHANGED err

\* Bound: of the reports before the last one, the first is enough.
Unreported == "progress" \notin {out[i] : i \in DOMAIN out} /\ err = <<>> /\ "Progress" \notin events

\* dd ends with conv=fsync when nobody flushes the target after it.
DdEnds == target' = IF sync THEN target ELSE "flushed"

CopyOn ==
  /\ Running /\ main = "copy"
  /\ \/ target = "untouched" /\ target' = "partial" /\ UNCHANGED <<out, err, workerVars>>
     \/ /\ target = "partial" /\ Report /\ UNCHANGED workerVars
        /\ \/ Unreported /\ UNCHANGED target
           \/ target' = "complete"
     \/ /\ target = "complete" /\ MainGoes("sync") /\ UNCHANGED <<out, err>>
        /\ IF work = "dd" THEN DdEnds ELSE UNCHANGED target
  /\ UNCHANGED <<guiVars, readVars, typed, proc, code, childVars>>

CopyFails ==
  /\ Running /\ main = "copy"
  /\ Exit("error")
  /\ UNCHANGED <<guiVars, readVars, typed, out, err, workerVars, childVars, target>>

\* run_child: `*CHILD.lock() = Some(cmd.spawn()?)` spawns first, then locks. (A
\* dd that isn't told --ddgui-parent would watch nobody.)
FaultyChildWatch == "dead"
ChildWatch == "watching"

Spawn ==
  /\ Running /\ main = "spawn"
  /\ \/ /\ child' = "running" /\ childWatch' = ChildWatch
        /\ MainGoes("store") /\ Stay
     \/ Exit("error") /\ UNCHANGED <<childVars, workerVars>>
  /\ UNCHANGED <<guiVars, readVars, typed, out, err, target>>

Store ==
  /\ Running /\ main = "store"
  /\ known' = TRUE
  /\ main' = "poll"
  /\ UNCHANGED <<guiVars, readVars, typed, out, err, proc, code,
                 watch, answer, choice, childVars, target>>

\* (... or one that takes any end of dd for a good one.)
FaultyChildSucceeded == TRUE
ChildSucceeded == child = "ok"

Poll ==
  /\ Running /\ main = "poll" /\ child # "running"
  /\ known' = FALSE
  /\ IF ChildSucceeded THEN main' = "sync" /\ Stay
                       ELSE Exit("error") /\ UNCHANGED main
  /\ UNCHANGED <<guiVars, readVars, typed, out, err, watch, answer, choice, childVars, target>>

\* DD-GUI's own copies are always flushed, those of dd if the worker was told so.
Flushes == (work # "dd" /\ ~RunsDd) \/ sync

SaySync ==
  /\ Running /\ main = "sync"
  /\ IF Flushes THEN Say("sync") /\ MainGoes("flush") /\ Stay
                ELSE Exit("ok") /\ UNCHANGED <<out, workerVars>>
  /\ UNCHANGED <<guiVars, readVars, typed, err, childVars, target>>

Flush ==
  /\ Running /\ main = "flush"
  /\ \/ target' = (IF target = "complete" THEN "flushed" ELSE target) /\ Exit("ok")
     \/ Exit("error") /\ UNCHANGED target
  /\ UNCHANGED <<guiVars, readVars, typed, out, err, workerVars, childVars>>

\* cancel_now: kill and reap dd, say so, exit. (The main thread gets here when it
\* doesn't understand the answer.)
KillChild == child' = IF known /\ child = "running" THEN "killed" ELSE child

MainCancels ==
  /\ Running
  /\ \/ main = "kill" /\ KillChild /\ MainGoes("print") /\ Stay
     \/ /\ main = "print"
        /\ IF gui = "running" THEN MainGoes("exit") /\ Stay
                              ELSE Exit("error") /\ UNCHANGED workerVars
        /\ UNCHANGED child
     \/ main = "exit" /\ Exit("cancelled") /\ UNCHANGED <<workerVars, child>>
  /\ UNCHANGED <<guiVars, readVars, typed, out, err, childWatch, target>>

Main == SayReady \/ Estimate \/ TakeAnswer \/ Prepare \/ CopyOn \/ CopyFails
        \/ Spawn \/ Store \/ Poll \/ SaySync \/ Flush \/ MainCancels

-------------------------------------------------------------------------------
(* The thread that watches stdin *)

WatchGoes(pc) == watch' = pc /\ UNCHANGED <<main, choice, known>>

\* (A thread that stops reading once it has the answer, as without
\* --ddgui-watch-stdin.)
FaultyAfterAnswer == "dead"
AfterAnswer == "byte"

\* Stdin has closed before a whole line came. (Faulty: that's a line, too.)
FaultyAtEof == WatchGoes("byte") /\ answer' = "empty"
AtEof == WatchGoes("kill") /\ UNCHANGED answer

WatchLine ==
  /\ Running /\ watch = "line"
  /\ \/ typed # "none" /\ answer' = typed /\ typed' = "none" /\ WatchGoes(AfterAnswer)
     \/ typed = "none" /\ ~open /\ AtEof /\ UNCHANGED typed
  /\ UNCHANGED <<guiVars, readVars, out, err, proc, code, childVars, target>>

\* EOF, or any byte at all.
WatchByte ==
  /\ Running /\ watch = "byte"
  /\ typed # "none" \/ ~open
  /\ typed' = "none"
  /\ WatchGoes("kill")
  /\ UNCHANGED <<guiVars, readVars, out, err, proc, code, answer, childVars, target>>

\* cancel_now. `eprintln!` panics when nobody reads stderr: that's this thread's end,
\* but not the process's.
WatchCancels ==
  /\ Running
  /\ \/ watch = "kill" /\ KillChild /\ WatchGoes("print") /\ Stay
     \/ /\ watch = "print"
        /\ WatchGoes(IF gui = "running" THEN "exit" ELSE "dead")
        /\ UNCHANGED child /\ Stay
     \/ /\ watch = "exit" /\ Exit("cancelled")
        /\ UNCHANGED <<watch, main, choice, known, child>>
  /\ UNCHANGED <<guiVars, readVars, typed, out, err, answer, childWatch, target>>

Watch == WatchLine \/ WatchByte \/ WatchCancels

-------------------------------------------------------------------------------
(* The dd process of a full copy *)

ChildCopies ==
  /\ child = "running"
  /\ \/ target = "untouched" /\ target' = "partial" /\ UNCHANGED <<child, err>>
     \/ /\ target = "partial" /\ SayProgress
        /\ \/ Unreported /\ UNCHANGED target
           \/ target' = "complete"
        /\ UNCHANGED child
     \/ target = "complete" /\ DdEnds /\ child' = "ok" /\ UNCHANGED err
     \/ child' = "failed" /\ UNCHANGED <<target, err>>
  /\ UNCHANGED <<guiVars, readVars, typed, out, proc, code, workerVars, childWatch>>

\* Its cancel_now prints to the same stderr as the worker.
ChildNotices ==
  /\ child = "running" /\ childWatch = "watching"
  /\ proc = "exited"
  /\ IF gui = "running" THEN child' = "killed" /\ UNCHANGED childWatch
                        ELSE childWatch' = "dead" /\ UNCHANGED child
  /\ UNCHANGED <<guiVars, readVars, typed, out, err, proc, code, workerVars, target>>

-------------------------------------------------------------------------------
(* The GUI's threads *)

\* Both pipes stay open as long as the worker or its dd runs.
Eof == proc = "exited" /\ child # "running"

Event(line) == CASE line = "ready" -> "Started" [] line = "layout" -> "Layout"
                 [] line = "copy" -> "Copying"  [] line = "progress" -> "Progress"
                 [] line = "sync" -> "Syncing"

\* read_lines with on_status_line
ReadStatus ==
  /\ gui = "running" /\ status = "reading"
  /\ \/ /\ out # <<>>
        /\ out' = Tail(out)
        /\ started' = (started \/ Head(out) = "ready")
        /\ events' = events \cup {Event(Head(out))}
        /\ UNCHANGED status
     \/ out = <<>> /\ Eof /\ status' = "ended" /\ UNCHANGED <<out, started, events>>
  /\ UNCHANGED <<work, elevated, sync, gui, ui, cancelled, picked, open, output, waiter, outcome,
                 typed, err, proc, code, workerVars, childVars, target>>

\* read_lines with on_dd_line
ReadOutput ==
  /\ gui = "running" /\ output = "reading"
  /\ \/ err # <<>> /\ err' = Tail(err) /\ events' = events \cup {"Progress"} /\ UNCHANGED output
     \/ err = <<>> /\ Eof /\ output' = "ended" /\ UNCHANGED <<err, events>>
  /\ UNCHANGED <<guiVars, status, waiter, outcome,
                 typed, out, proc, code, workerVars, childVars, target>>

Outcome == CASE cancelled -> "cancelled"
             [] ~cancelled /\ code = "ok" -> "success"
             [] ~cancelled /\ code # "ok" /\ elevated /\ ~started -> "not authorized"
             [] OTHER -> "failed"

\* The waiter joins the readers. (Faulty: it does not.)
Joined(reader) == reader = "ended"

Wait ==
  /\ gui = "running"
  /\ \/ waiter = "wait" /\ proc = "exited" /\ waiter' = "join status" /\ UNCHANGED outcome
     \/ /\ waiter = "join status" /\ Joined(status)
        /\ waiter' = "join output" /\ UNCHANGED outcome
     \/ /\ waiter = "join output" /\ Joined(output)
        /\ waiter' = "done" /\ outcome' = Outcome
  /\ UNCHANGED <<guiVars, status, output, events,
                 typed, out, err, proc, code, workerVars, childVars, target>>

Next == Environment \/ Main \/ Watch \/ ChildCopies \/ ChildNotices
        \/ ReadStatus \/ ReadOutput \/ Wait

\* Threads that wait for something go on once it's there. The user, the prompt and
\* the copy itself are free to take for ever.
Fairness ==
  /\ WF_vars(Terminate) /\ WF_vars(Watch) /\ WF_vars(ChildNotices)
  /\ WF_vars(ReadStatus) /\ WF_vars(ReadOutput) /\ WF_vars(Wait)

Spec == Init /\ [][Next]_vars /\ Fairness

-------------------------------------------------------------------------------
(* Properties *)

\* The variables hold what the two processes' variables and pipes can hold.
TypeOK ==
  /\ work \in {"dd", "copy", "ask"} /\ elevated \in BOOLEAN /\ sync \in BOOLEAN
  /\ gui \in {"running", "gone"} /\ ui \in {"idle", "terminate"}
  /\ cancelled \in BOOLEAN /\ started \in BOOLEAN /\ open \in BOOLEAN /\ known \in BOOLEAN
  /\ {picked, typed, answer, choice} \subseteq {"none", "smart", "full"}
  /\ status \in {"reading", "ended"} /\ output \in {"reading", "ended"}
  /\ waiter \in {"wait", "join status", "join output", "done"}
  /\ events \subseteq {"Started", "Layout", "Copying", "Progress", "Syncing"}
  /\ outcome \in {"none", "cancelled", "success", "not authorized", "failed"}
  /\ out \in Seq({"ready", "layout", "copy", "progress", "sync"}) /\ err \in Seq({"progress"})
  /\ proc \in {"prompt", "running", "exited"}
  /\ code \in {"none", "ok", "error", "signal", "cancelled"}
  /\ main \in {"ready", "estimate", "answer", "prepare", "copy", "spawn", "store", "poll",
               "sync", "flush", "kill", "print", "exit"}
  /\ watch \in {"line", "byte", "kill", "print", "exit", "dead"}
  /\ child \in {"none", "running", "ok", "failed", "killed"}
  /\ childWatch \in {"watching", "dead"}
  /\ target \in {"untouched", "partial", "complete", "flushed"}

\* A cancelled job ends, however long its prompt, analysis or copy would still take.
CancelStops == cancelled ~> (outcome # "none" \/ gui = "gone")

\* However a worker ends, the GUI hears of it: dd doesn't keep the pipes open for long
\* (full_copy: "dd quits too if we're killed").
EndIsReported == (proc = "exited") ~> (outcome # "none" \/ gui = "gone")

\* The mode the user picked is the one that runs, by the process made for it, and no copy
\* is told of before (App::on_event: "Nothing may be copied before ...").
PickedModeRuns == /\ choice # "none" => choice = picked
                  /\ child # "none" => picked = "full"
                  /\ main = "copy" /\ work = "ask" => picked = "smart"
                  /\ "Copying" \in events /\ work = "ask" => picked # "none"

\* All of it is what the GUI relies on; Finished is the last event it hears of.
Contract == INSTANCE JobContract WITH allowed <- work # "ask" \/ picked # "none"
ImplementsContract == Contract!Spec /\ [][outcome # "none" => UNCHANGED events]_vars

(* What comments and messages say, and the code doesn't do *)

\* worker.rs:9, "an elevated worker never outlives a crashed GUI": once its watching
\* thread has reacted to the closed stdin, the worker writes no more.
NeverOutlivesGui == [][gui = "gone" /\ watch = "dead" => UNCHANGED target]_vars
================================================================================
