-------------------------------- MODULE AppJobs --------------------------------
(* Jobs as the UI thread sees them (app.rs): starting one, the dialog that    *)
(* asks how to copy, the job page, cancelling, and the events that workers    *)
(* post, which arrive whenever they do, even those of jobs given up long ago. *)
(* A dialog fades out for a moment after it closed. widgets.slint swallows    *)
(* clicks meanwhile; app.rs doesn't rely on it (app.rs:836), so neither does  *)
(* the model: here a dialog that fades may still be clicked.                  *)
(* A job itself keeps to JobContract. Which drive is chosen: see DriveChoice. *)
EXTENDS Naturals, Sequences, FiniteSets

CONSTANT MaxJobs   \* bound: how many jobs get started

ASSUME JobsAssumption == MaxJobs \in Nat

VARIABLES
  ui,    \* what the window shows: see TypeOK
  st,    \* State: rechecking, job_id, job (0: None), pending, run
  jobs   \* jobs[j]: the job with the id j and the events it has posted

vars == <<ui, st, jobs>>

Jobs == 1..MaxJobs
Alive(j) == jobs[j].outcome = "none"

Init ==
  /\ ui = [starting |-> FALSE, confirm |-> "closed", modes |-> "closed",
           page |-> 0, result |-> 0, cancelling |-> FALSE, alarm |-> FALSE]
  /\ st = [rechecking |-> FALSE, id |-> 0, job |-> 0, pending |-> "none", run |-> FALSE]
  /\ jobs = [j \in Jobs |-> [asks |-> FALSE, allowed |-> FALSE, cancelled |-> FALSE,
                             target |-> "untouched", outcome |-> "not started", inbox |-> <<>>]]

-------------------------------------------------------------------------------
(* The jobs *)

Posted(j, event) == Append(jobs[j].inbox, event)

\* The worker has read the drive's layout and waits for the answer.
Ask(j) ==
  /\ Alive(j) /\ jobs[j].asks /\ ~jobs[j].allowed
  /\ jobs[j].inbox = <<>> /\ (j = st.id => st.pending # "shown")
  /\ jobs' = [jobs EXCEPT ![j].inbox = Posted(j, "Layout")]
  /\ UNCHANGED <<ui, st>>

\* JobContract's Write. (As in WriterPipe, the Faulty... definitions below are bugs the
\* code might have had.)
MayCopy(j) == jobs[j].allowed

Copy(j) ==
  /\ Alive(j) /\ MayCopy(j)
  /\ \/ /\ jobs[j].target = "untouched"
        /\ jobs' = [jobs EXCEPT ![j].target = "partial", ![j].inbox = Posted(j, "Copying")]
     \/ /\ jobs[j].target = "partial"
        /\ jobs' = [jobs EXCEPT ![j].target = "flushed"]
  /\ UNCHANGED <<ui, st>>

\* JobContract's Finish.
Ends(j) == IF jobs[j].cancelled THEN {"cancelled"}
           ELSE {"failed"} \cup (IF jobs[j].target = "flushed" THEN {"success"} ELSE {})
                           \cup (IF jobs[j].target = "untouched" THEN {"not authorized"} ELSE {})

End(j) ==
  /\ Alive(j)
  /\ \E o \in Ends(j) :
       jobs' = [jobs EXCEPT ![j].outcome = o, ![j].inbox = Posted(j, "Finished")]
  /\ UNCHANGED <<ui, st>>

-------------------------------------------------------------------------------
(* Starting a job *)

Busy == st.job # 0 \/ st.pending # "none" \/ st.rechecking

Fade(dialog) == IF dialog = "open" THEN "fading" ELSE dialog

\* job::start gives the new job a worker. An id is used up even if that fails.
Worker(asks) == jobs' = [jobs EXCEPT ![st.id + 1].asks = asks, ![st.id + 1].allowed = ~asks,
                                     ![st.id + 1].outcome = "none"]

\* launch, with the window w: nothing happens if it's not the time for it, or the plan
\* has a problem by now; a worker that can't be started is finish_run's business.
Launch(w) ==
  \/ /\ ~Busy /\ st.id < MaxJobs
     /\ \/ /\ Worker(FALSE)
           /\ st' = [st EXCEPT !.id = @ + 1, !.job = st.id + 1, !.run = TRUE]
           /\ ui' = [w EXCEPT !.page = 1, !.result = 0, !.cancelling = FALSE]
        \/ /\ st' = [st EXCEPT !.id = @ + 1, !.run = FALSE]
           /\ ui' = [w EXCEPT !.page = 1, !.result = 2, !.cancelling = FALSE]
           /\ UNCHANGED jobs
  \/ ui' = w /\ UNCHANGED <<st, jobs>>

\* start: chosen drives get checked first; with files alone it goes on at once.
Start ==
  /\ ui.page = 0 /\ ui.modes # "open" /\ ui.confirm # "open"
  /\ ~ui.starting /\ ~Busy
  /\ \/ /\ st' = [st EXCEPT !.rechecking = TRUE]
        /\ ui' = [ui EXCEPT !.starting = TRUE]
        /\ UNCHANGED jobs
     \/ Launch(ui)

\* rechecked: that's it, or it asks before erasing, or begin_drive_copy starts a worker
\* that reads the drive and asks how to copy.
Rechecked ==
  /\ st.rechecking
  /\ \/ /\ ui' \in {[ui EXCEPT !.starting = FALSE],
                    [ui EXCEPT !.starting = FALSE, !.confirm = "open"]}
        /\ st' = [st EXCEPT !.rechecking = FALSE]
        /\ UNCHANGED jobs
     \/ /\ st.id < MaxJobs
        /\ \/ /\ Worker(TRUE)
              /\ st' = [st EXCEPT !.rechecking = FALSE, !.id = @ + 1, !.job = st.id + 1,
                                  !.pending = "waiting", !.run = FALSE]
              /\ ui' = [ui EXCEPT !.modes = "open"]
           \/ /\ st' = [st EXCEPT !.rechecking = FALSE, !.id = @ + 1, !.run = FALSE]
              /\ ui' = [ui EXCEPT !.starting = FALSE]
              /\ UNCHANGED jobs

Confirm == ui.confirm # "closed" /\ Launch([ui EXCEPT !.confirm = Fade(@)])

Dismiss == /\ ui.confirm = "open"
           /\ ui' = [ui EXCEPT !.confirm = "fading"]
           /\ UNCHANGED <<st, jobs>>

Faded == /\ \/ ui.confirm = "fading" /\ ui' = [ui EXCEPT !.confirm = "closed"]
            \/ ui.modes = "fading" /\ ui' = [ui EXCEPT !.modes = "closed"]
         /\ UNCHANGED <<st, jobs>>

-------------------------------------------------------------------------------
(* The dialog that asks how to copy *)

CloseModes == [ui EXCEPT !.modes = Fade(@), !.starting = FALSE]

\* Job::cancel, then the Job is dropped.
GiveUp(js) == IF st.job = 0 THEN js ELSE [js EXCEPT ![st.job].cancelled = TRUE]

\* mode_cancel, of which a click on a dialog that fades out is none.
GiveUpPending(js) ==
  IF st.pending = "none" THEN jobs' = js /\ UNCHANGED <<ui, st>>
  ELSE /\ jobs' = GiveUp(js)
       /\ st' = [st EXCEPT !.pending = "none", !.job = 0]
       /\ ui' = CloseModes

ModeCancel == ui.modes # "closed" /\ GiveUpPending(jobs)

\* mode_start: the image can't be created, or the worker gets its answer.
ModeStart ==
  /\ ui.modes # "closed" /\ st.pending = "shown"
  /\ \/ /\ jobs' = GiveUp(jobs)
        /\ st' = [st EXCEPT !.pending = "none", !.job = 0]
        /\ ui' = CloseModes
     \/ /\ jobs' = [jobs EXCEPT ![st.job].allowed = TRUE]
        /\ st' = [st EXCEPT !.pending = "none", !.run = TRUE]
        /\ ui' = [CloseModes EXCEPT !.page = 1, !.result = 0, !.cancelling = FALSE]

-------------------------------------------------------------------------------
(* The job page *)

\* cancel: the job stays until it has finished.
Cancelling == ui' = [ui EXCEPT !.cancelling = TRUE] /\ UNCHANGED st

Cancel ==
  /\ ui.page = 1 /\ ui.result = 0 /\ ~ui.cancelling /\ st.job # 0
  /\ jobs' = GiveUp(jobs)
  /\ Cancelling

Finish ==
  /\ ui.page = 1 /\ ui.result # 0
  /\ ui' = [ui EXCEPT !.page = 0]
  /\ st' = [st EXCEPT !.run = FALSE]
  /\ UNCHANGED jobs

-------------------------------------------------------------------------------
(* Events *)

\* "Events from other jobs than this one are stale and get ignored."
FaultyStale(j) == FALSE
Stale(j) == j # st.id

ResultOf(o) == CASE o = "success" -> 1 [] o = "failed" -> 2 [] o = "cancelled" -> 3

\* (Faulty: the button still says "Starting...".)
FaultyPendingOver == [ui EXCEPT !.modes = Fade(@)]
PendingOver == CloseModes

\* (Faulty: it stays on the job page.)
FaultyBackToSetup == ui
BackToSetup == [ui EXCEPT !.page = 0]

\* finish_pending or finish_run
Finished(j, js) ==
  /\ jobs' = js
  /\ IF st.pending # "none"
     THEN /\ st' = [st EXCEPT !.pending = "none", !.job = 0]
          /\ ui' = PendingOver
     ELSE /\ st' = [st EXCEPT !.job = 0, !.run = @ /\ jobs[j].outcome = "success"]
          /\ ui' = IF ~st.run THEN ui
                   ELSE IF jobs[j].outcome = "not authorized" THEN BackToSetup
                   ELSE [ui EXCEPT !.result = ResultOf(jobs[j].outcome)]

\* on_event
OnEvent(j) ==
  /\ jobs[j].inbox # <<>>
  /\ LET event == Head(jobs[j].inbox)
         rest == [jobs EXCEPT ![j].inbox = Tail(@)]
     IN IF Stale(j) THEN jobs' = rest /\ UNCHANGED <<ui, st>>
        ELSE \/ event = "Finished" /\ Finished(j, rest)
             \/ /\ event = "Layout"
                /\ jobs' = rest
                /\ st' = IF st.pending = "none" THEN st ELSE [st EXCEPT !.pending = "shown"]
                /\ UNCHANGED ui
             \/ event = "Layout" /\ GiveUpPending(rest)   \* it makes no sense
             \/ /\ event = "Copying" /\ st.pending = "none"
                /\ jobs' = rest /\ UNCHANGED <<ui, st>>
             \/ /\ event = "Copying" /\ st.pending # "none"
                /\ jobs' = GiveUp(rest)
                /\ st' = [st EXCEPT !.pending = "none", !.job = 0]
                /\ ui' = [CloseModes EXCEPT !.alarm = TRUE]

Next == \/ Start \/ Rechecked \/ Confirm \/ Dismiss \/ Faded
        \/ ModeCancel \/ ModeStart \/ Cancel \/ Finish
        \/ \E j \in Jobs : Ask(j) \/ Copy(j) \/ End(j) \/ OnEvent(j)

\* A scan comes to an end and so does a job; the UI thread handles what's posted.
Fairness == WF_vars(Rechecked) /\ \A j \in Jobs : WF_vars(End(j)) /\ WF_vars(OnEvent(j))

Spec == Init /\ [][Next]_vars /\ Fairness

-------------------------------------------------------------------------------
(* Properties *)

\* The variables hold what the window and State can hold, and the jobs' events.
TypeOK ==
  /\ ui \in [starting : BOOLEAN, confirm : {"closed", "open", "fading"},
             modes : {"closed", "open", "fading"}, page : 0..1, result : 0..3,
             cancelling : BOOLEAN, alarm : BOOLEAN]
  /\ st \in [rechecking : BOOLEAN, id : 0..MaxJobs, job : 0..MaxJobs,
             pending : {"none", "waiting", "shown"}, run : BOOLEAN]
  /\ \A j \in Jobs : /\ jobs[j].target \in {"untouched", "partial", "flushed"}
                     /\ jobs[j].inbox \in Seq({"Layout", "Copying", "Finished"})

\* A worker that hasn't been told to stop is the one State::job holds, so there's always
\* a button that stops it: stale events of earlier jobs don't make the App forget it.
LiveJobsAreOwned == \A j \in Jobs : Alive(j) /\ ~jobs[j].cancelled => st.job = j

\* At most one worker is writing, or may start to, and the window knows of it: a job given
\* up in the dialog never writes (its copy before a mode was chosen would show the alarm),
\* and one cancelled on the job page keeps the next from starting until it's gone.
OneWriter == /\ LiveJobsAreOwned
             /\ Cardinality({j \in Jobs : Alive(j) /\ jobs[j].allowed}) <= 1
             /\ ~ui.alarm

\* The Start button and the dialog show what's going on, whichever way it ends.
WindowTells == /\ TypeOK
               /\ ui.starting <=> st.rechecking \/ st.pending # "none"
               /\ ui.modes = "open" <=> st.pending # "none"
               /\ st.pending # "none" => st.job = st.id /\ ui.page = 0

\* Whoever sees a job running has a job to cancel, and a Finished event to come.
NeverStuck == ui.page = 1 /\ ui.result = 0 => st.run /\ st.job # 0 /\ st.job = st.id

\* The job page comes to a result, or closes.
JobPageEnds == (ui.page = 1 /\ ui.result = 0) ~> (ui.page = 0 \/ ui.result # 0)
================================================================================
