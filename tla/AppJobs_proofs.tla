---------------------------- MODULE AppJobs_proofs ----------------------------
(* What AppJobs promises, for any number of jobs.                             *)
EXTENDS AppJobs, FiniteSetTheorems, TLAPS

-------------------------------------------------------------------------------
(* The inductive invariant *)

Events == {"Layout", "Copying", "Finished"}
Over == {"success", "failed", "cancelled", "not authorized"}
JobType == [asks : BOOLEAN, allowed : BOOLEAN, cancelled : BOOLEAN,
            target : {"untouched", "partial", "flushed"},
            outcome : {"not started", "none"} \cup Over, inbox : Seq(Events)]

Unused == [asks |-> FALSE, allowed |-> FALSE, cancelled |-> FALSE,
           target |-> "untouched", outcome |-> "not started", inbox |-> <<>>]

UiType == [starting : BOOLEAN, confirm : {"closed", "open", "fading"},
           modes : {"closed", "open", "fading"}, page : 0..1, result : 0..3,
           cancelling : BOOLEAN, alarm : BOOLEAN]
StType == [rechecking : BOOLEAN, id : 0..MaxJobs, job : 0..MaxJobs,
           pending : {"none", "waiting", "shown"}, run : BOOLEAN]

\* State holds the newest job or none, and none while it checks the drives; the window
\* tells what State knows, and the job page has a job until there's a result.
Window == /\ ui \in UiType /\ st \in StType
          /\ st.job \in {0, st.id}
          /\ st.rechecking => st.job = 0 /\ st.pending = "none" /\ ui.page = 0
          /\ st.run => ui.page = 1
          /\ ui.starting <=> st.rechecking \/ st.pending # "none"
          /\ ui.modes = "open" <=> st.pending # "none"
          /\ st.pending # "none" => st.job = st.id /\ st.id # 0 /\ ui.page = 0
          /\ NeverStuck
          /\ ~ui.alarm

\* The ids that are still to come have no job.
Unborn == \A j \in Jobs : j > st.id => jobs[j] = Unused

\* While the dialog asks, the job hasn't been told to go on.
Unanswered == st.pending # "none" => ~jobs[st.id].allowed

\* A worker that may write is held, too, even if it was told to stop.
Owned == \A j \in Jobs : Alive(j) /\ (jobs[j].allowed \/ ~jobs[j].cancelled) => st.job = j

\* What a job has posted is true of it.
Meant(job) == \A i \in 1..Len(job.inbox) :
                /\ job.inbox[i] = "Finished" => job.outcome \in Over
                /\ job.inbox[i] = "Copying" => job.allowed
EventsMeant == \A j \in Jobs : Meant(jobs[j])

Workers == jobs \in [Jobs -> JobType] /\ Unborn /\ Unanswered /\ Owned /\ EventsMeant

IInv == Window /\ Workers

LEMMA WindowIsTyped == IInv => TypeOK /\ WindowTells
<1> SUFFICES ASSUME IInv PROVE TypeOK /\ WindowTells
  OBVIOUS
<1>1. ui \in UiType /\ st \in StType
  BY DEF IInv, Window
<1>2. ASSUME NEW j \in Jobs
      PROVE  jobs[j].target \in {"untouched", "partial", "flushed"} /\ jobs[j].inbox \in Seq(Events)
  <2>1. jobs[j] \in JobType
    BY DEF IInv, Workers
  <2> QED
    BY <2>1 DEF JobType
<1>3. TypeOK
  BY <1>1, <1>2 DEF TypeOK, UiType, StType, Events
<1> QED
  BY <1>3 DEF WindowTells, IInv, Window

-------------------------------------------------------------------------------
(* Jobs that differ in what they have posted only *)

\* js is jobs, but for the events that wait to be handled.
Like(js) == /\ js \in [Jobs -> JobType]
            /\ \A j \in Jobs : /\ js[j].allowed = jobs[j].allowed
                               /\ js[j].cancelled = jobs[j].cancelled
                               /\ js[j].outcome = jobs[j].outcome
                               /\ j > st.id => js[j] = Unused
                               /\ Meant(js[j])

LEMMA Ids ==
  ASSUME IInv
  PROVE  /\ st.id \in Int /\ st.job \in Int
         /\ 0 <= st.id /\ st.id <= MaxJobs
         /\ \A j \in Jobs : j \in Int /\ 1 <= j /\ j <= MaxJobs
<1>1. st.id \in 0..MaxJobs /\ st.job \in 0..MaxJobs
  BY DEF IInv, Window, StType
<1> QED
  BY <1>1, JobsAssumption DEF Jobs

LEMMA LikeItself == IInv => Like(jobs)
  BY DEF IInv, Workers, Unborn, EventsMeant, Like

\* Handling an event takes it away and nothing else.
LEMMA PoppedIsLike ==
  ASSUME IInv, NEW j \in Jobs, jobs[j].inbox # <<>>
  PROVE  Like([jobs EXCEPT ![j].inbox = Tail(@)])
<1> DEFINE job == [jobs[j] EXCEPT !.inbox = Tail(@)]
           js == [jobs EXCEPT ![j].inbox = Tail(@)]
<1>1. jobs \in [Jobs -> JobType] /\ jobs[j] \in JobType
  BY DEF IInv, Workers
<1>2. jobs[j].inbox \in Seq(Events)
  BY <1>1 DEF JobType
<1>3. /\ Tail(jobs[j].inbox) \in Seq(Events)
      /\ Len(Tail(jobs[j].inbox)) = Len(jobs[j].inbox) - 1
      /\ \A i \in 1..Len(Tail(jobs[j].inbox)) :
           Tail(jobs[j].inbox)[i] = jobs[j].inbox[i + 1] /\ i + 1 \in 1..Len(jobs[j].inbox)
  BY <1>2
<1>4. job \in JobType
  BY <1>1, <1>3 DEF JobType
<1>5. Meant(job)
  <2>1. Meant(jobs[j])
    BY DEF IInv, Workers, EventsMeant
  <2>2. job.inbox = Tail(jobs[j].inbox) /\ job.outcome = jobs[j].outcome
        /\ job.allowed = jobs[j].allowed
    BY <1>1 DEF JobType
  <2> QED
    BY <2>1, <2>2, <1>3 DEF Meant
<1>6. js = [jobs EXCEPT ![j] = job]
  BY <1>1
<1>7. ~(j > st.id)
  <2>1. Unused.inbox = <<>>
    BY DEF Unused
  <2> QED
    BY ONLY <2>1, IInv, j \in Jobs, jobs[j].inbox # <<>> DEF IInv, Workers, Unborn
<1>8. job.allowed = jobs[j].allowed /\ job.cancelled = jobs[j].cancelled
      /\ job.outcome = jobs[j].outcome
  BY <1>1 DEF JobType
<1> HIDE DEF job
<1>9. js \in [Jobs -> JobType]
  BY <1>1, <1>4, <1>6
<1>10. \A i \in Jobs : i # j => js[i] = jobs[i]
  BY <1>1, <1>6
<1>11. js[j] = job
  BY <1>1, <1>6
<1> HIDE DEF js
<1> SUFFICES ASSUME NEW i \in Jobs
             PROVE  /\ js[i].allowed = jobs[i].allowed
                    /\ js[i].cancelled = jobs[i].cancelled
                    /\ js[i].outcome = jobs[i].outcome
                    /\ i > st.id => js[i] = Unused
                    /\ Meant(js[i])
  BY <1>9 DEF Like, js
<1>12. CASE i = j
  BY <1>5, <1>7, <1>8, <1>11, <1>12
<1>13. CASE i # j
  BY <1>10, <1>13 DEF IInv, Workers, Unborn, EventsMeant
<1> QED
  BY <1>12, <1>13

\* Job::cancel tells one worker to stop.
Near(js) == /\ js \in [Jobs -> JobType]
            /\ \A j \in Jobs : /\ js[j].allowed = jobs[j].allowed
                               /\ j # st.job => js[j].cancelled = jobs[j].cancelled
                               /\ js[j].outcome = jobs[j].outcome
                               /\ j > st.id => js[j] = Unused
                               /\ Meant(js[j])

LEMMA LikeIsNear == ASSUME NEW js, Like(js) PROVE Near(js)
  BY DEF Like, Near

LEMMA GivenUp ==
  ASSUME IInv, NEW js, Like(js)
  PROVE  Near(GiveUp(js)) /\ (st.job # 0 => GiveUp(js)[st.job].cancelled)
<1>1. CASE st.job = 0
  BY <1>1, LikeIsNear DEF GiveUp
<1>2. CASE st.job # 0
  <2> DEFINE job == [js[st.job] EXCEPT !.cancelled = TRUE]
             gs == [js EXCEPT ![st.job] = job]
  <2>1. st.job \in Jobs /\ ~(st.job > st.id)
    BY <1>2, Ids DEF Jobs, IInv, Window
  <2>2. js \in [Jobs -> JobType] /\ js[st.job] \in JobType
    BY <2>1 DEF Like
  <2>3. /\ job \in JobType /\ job.cancelled /\ job.allowed = js[st.job].allowed
        /\ job.outcome = js[st.job].outcome /\ job.inbox = js[st.job].inbox
    BY <2>2 DEF JobType
  <2>4. GiveUp(js) = gs
    BY <1>2, <2>1, <2>2 DEF GiveUp
  <2> HIDE DEF job
  <2>5. gs \in [Jobs -> JobType] /\ gs[st.job] = job
        /\ \A i \in Jobs : i # st.job => gs[i] = js[i]
    BY <2>1, <2>2, <2>3
  <2>6. Meant(job)
    BY <2>1, <2>3 DEF Meant, Like
  <2> HIDE DEF gs
  <2>7. ASSUME NEW i \in Jobs
        PROVE  /\ gs[i].allowed = jobs[i].allowed
               /\ i # st.job => gs[i].cancelled = jobs[i].cancelled
               /\ gs[i].outcome = jobs[i].outcome
               /\ i > st.id => gs[i] = Unused
               /\ Meant(gs[i])
    <3>1. CASE i = st.job
      BY <2>1, <2>3, <2>5, <2>6, <3>1 DEF Like
    <3>2. CASE i # st.job
      BY <2>5, <3>2 DEF Like
    <3> QED
      BY <3>1, <3>2
  <2> QED
    BY <2>3, <2>4, <2>5, <2>7 DEF Near
<1> QED
  BY <1>1, <1>2

-------------------------------------------------------------------------------
(* What a step has to leave alone *)

\* The window hands the job on, or lets go of one that may not write any more.
LEMMA WorkersStay ==
  ASSUME IInv, Near(jobs'), st'.id = st.id,
         st'.pending # "none" => st.pending # "none",
         \/ st'.job = st.job
         \/ st.job # 0 => \/ ~jobs[st.job].allowed /\ (jobs')[st.job].cancelled
                          \/ ~Alive(st.job)
  PROVE  Workers'
<1>1. jobs' \in [Jobs -> JobType] /\ Unborn' /\ EventsMeant'
  BY DEF Near, Unborn, EventsMeant
<1>2. Unanswered'
  <2> SUFFICES ASSUME st'.pending # "none" PROVE ~jobs[st.id]'.allowed
    BY DEF Unanswered
  <2>1. ~jobs[st.id].allowed /\ st.id \in Jobs
    BY Ids DEF IInv, Workers, Unanswered, Window, Jobs
  <2> QED
    BY <2>1 DEF Near
<1>3. Owned'
  <2> SUFFICES ASSUME NEW j \in Jobs, Alive(j)', jobs[j]'.allowed \/ ~jobs[j]'.cancelled
               PROVE  st'.job = j
    BY DEF Owned
  <2>1. Alive(j) /\ jobs[j]'.allowed = jobs[j].allowed
    BY DEF Alive, Near
  <2>2. st.job = j
    <3>1. CASE j # st.job
      BY <2>1, <3>1 DEF Near, IInv, Workers, Owned
    <3> QED
      BY <3>1
  <2>3. st.job # 0
    BY <2>2, Ids
  <2> QED
    BY <2>1, <2>2, <2>3 DEF Alive
<1> QED
  BY <1>1, <1>2, <1>3 DEF Workers

\* A job goes on, and the window stays as it is.
LEMMA JobGoesOn ==
  ASSUME IInv, NEW j \in Jobs, NEW job \in JobType, UNCHANGED <<ui, st>>,
         jobs' = [jobs EXCEPT ![j] = job], Alive(j),
         job.allowed = jobs[j].allowed, job.cancelled = jobs[j].cancelled, Meant(job)
  PROVE  IInv'
<1>1. Window'
  BY DEF IInv, Window, NeverStuck
<1>2. /\ jobs' \in [Jobs -> JobType] /\ jobs[j]' = job
      /\ \A i \in Jobs : i # j => jobs[i]' = jobs[i]
  BY DEF IInv, Workers
<1>3. ~(j > st.id)
  <2>1. Unused.outcome = "not started"
    BY DEF Unused
  <2> QED
    BY <2>1 DEF Alive, IInv, Workers, Unborn
<1>4. Unborn' /\ EventsMeant'
  BY <1>2, <1>3 DEF IInv, Workers, Unborn, EventsMeant
<1>5. Unanswered'
  <2>1. st.pending # "none" => st.id \in Jobs
    BY Ids DEF IInv, Window, Jobs
  <2> QED
    BY <1>2, <2>1 DEF IInv, Workers, Unanswered
<1>6. Owned'
  <2> SUFFICES ASSUME NEW i \in Jobs, Alive(i)', jobs[i]'.allowed \/ ~jobs[i]'.cancelled
               PROVE  st.job = i
    BY DEF Owned
  <2>1. CASE i = j
    BY <1>2, <2>1 DEF IInv, Workers, Owned
  <2>2. CASE i # j
    BY <1>2, <2>2 DEF IInv, Workers, Owned, Alive
  <2> QED
    BY <2>1, <2>2
<1> QED
  BY <1>1, <1>2, <1>4, <1>5, <1>6 DEF IInv, Workers

\* A worker starts once no other one is held.
LEMMA WorkerStarts ==
  ASSUME IInv, st.job = 0, st.id < MaxJobs, NEW asks \in BOOLEAN, Worker(asks),
         st'.id = st.id + 1, st'.job = st.id + 1, st'.pending # "none" => asks
  PROVE  Workers'
<1> DEFINE n == st.id + 1
           job == [jobs[n] EXCEPT !.asks = asks, !.allowed = ~asks, !.outcome = "none"]
<1>1. n \in Jobs /\ n > st.id
  <2>1. st.id \in Int /\ 0 <= st.id
    BY Ids
  <2> QED
    BY ONLY <2>1, st.id < MaxJobs, JobsAssumption DEF Jobs
<1>2. jobs \in [Jobs -> JobType] /\ jobs[n] = Unused
  BY <1>1 DEF IInv, Workers, Unborn
<1>3. job \in JobType /\ job.allowed = ~asks /\ job.inbox = <<>>
  <2>1. Unused \in JobType
    BY <1>1, <1>2
  <2>2. job \in JobType /\ job.allowed = ~asks /\ job.inbox = Unused.inbox
    BY <1>2, <2>1 DEF JobType
  <2> QED
    BY <2>2 DEF Unused
<1>4. Meant(job)
  <2>1. Len(job.inbox) = 0
    BY ONLY <1>3
  <2> QED
    BY ONLY <2>1 DEF Meant
<1>5. jobs' = [jobs EXCEPT ![n] = job]
  BY <1>1, <1>2 DEF Worker
<1> HIDE DEF job
<1>6. /\ jobs' \in [Jobs -> JobType] /\ (jobs')[n] = job
      /\ \A i \in Jobs : i # n => jobs[i]' = jobs[i]
  BY <1>1, <1>2, <1>3, <1>5
<1>7. Unborn'
  <2> SUFFICES ASSUME NEW i \in Jobs, i > st'.id PROVE jobs[i]' = Unused
    BY DEF Unborn
  <2>1. i # n /\ i > st.id
    BY Ids
  <2> QED
    BY <1>6, <2>1 DEF IInv, Workers, Unborn
<1>8. Unanswered'
  BY <1>3, <1>6 DEF Unanswered
<1>9. EventsMeant'
  <2> SUFFICES ASSUME NEW i \in Jobs PROVE Meant((jobs')[i])
    BY DEF EventsMeant, Meant
  <2> QED
    BY <1>4, <1>6 DEF IInv, Workers, EventsMeant
<1>10. Owned'
  <2> SUFFICES ASSUME NEW i \in Jobs, Alive(i)', jobs[i]'.allowed \/ ~jobs[i]'.cancelled, i # n
               PROVE  FALSE
    BY DEF Owned
  <2>1. Alive(i) /\ (jobs[i].allowed \/ ~jobs[i].cancelled)
    BY <1>6 DEF Alive
  <2>2. st.job = i
    BY <2>1 DEF IInv, Workers, Owned
  <2> QED
    BY <2>2, Ids
<1> QED
  BY <1>6, <1>7, <1>8, <1>9, <1>10 DEF Workers

\* A worker that can't be started has used up its id.
LEMMA IdIsUsedUp ==
  ASSUME IInv, st.id < MaxJobs, st'.id = st.id + 1, st'.job = st.job,
         st'.pending = "none", UNCHANGED jobs
  PROVE  Workers'
<1>1. Unborn'
  BY Ids DEF IInv, Workers, Unborn
<1> QED
  BY <1>1 DEF IInv, Workers, Unanswered, Owned, EventsMeant, Alive

-------------------------------------------------------------------------------
(* The steps *)

LEMMA Initially == Init => IInv
<1> SUFFICES ASSUME Init PROVE IInv
  OBVIOUS
<1>1. jobs = [j \in Jobs |-> Unused]
  BY DEF Init, Unused
<1>2. Unused \in JobType /\ Unused.inbox = <<>> /\ Unused.outcome = "not started"
  BY DEF Unused, JobType
<1>3. Meant(Unused)
  <2>1. Len(<<>>) = 0
    OBVIOUS
  <2>2. Len(Unused.inbox) = 0
    BY ONLY <1>2, <2>1
  <2> QED
    BY ONLY <2>2 DEF Meant
<1>4. st.id = 0 /\ st.job = 0 /\ ~st.rechecking /\ st.pending = "none" /\ ~st.run
  BY DEF Init
<1>5. 0 \in 0..MaxJobs /\ 0 \in 0..1 /\ 0 \in 0..3
  BY JobsAssumption
<1>6. st \in StType
  BY <1>5 DEF Init, StType
<1>7. ui \in UiType
  BY <1>5 DEF Init, UiType
<1>8. /\ ~ui.starting /\ ~ui.alarm
      /\ ui.modes = "closed" /\ ui.page = 0
  BY DEF Init
<1>9. Window
  BY <1>4, <1>6, <1>7, <1>8 DEF Window, NeverStuck
<1>10. Unborn /\ Owned /\ EventsMeant /\ Unanswered
  BY <1>1, <1>2, <1>3, <1>4 DEF Unborn, Owned, Alive, EventsMeant, Unanswered
<1> QED
  BY <1>1, <1>2, <1>9, <1>10 DEF IInv, Workers

\* What a job posts is added to what the window hasn't seen yet.
LEMMA PostedMeans ==
  ASSUME NEW old \in JobType, NEW new \in JobType, NEW event \in Events, Meant(old),
         new.inbox = Append(old.inbox, event), new.allowed = old.allowed,
         old.outcome \in Over => new.outcome \in Over,
         event = "Finished" => new.outcome \in Over, event = "Copying" => new.allowed
  PROVE  Meant(new)
<1>1. old.inbox \in Seq(Events)
  BY DEF JobType
<1>2. /\ Len(new.inbox) = Len(old.inbox) + 1 /\ Len(old.inbox) \in Nat
      /\ new.inbox[Len(old.inbox) + 1] = event
      /\ \A i \in 1..Len(old.inbox) : new.inbox[i] = old.inbox[i]
  BY <1>1
<1> SUFFICES ASSUME NEW i \in 1..Len(new.inbox)
             PROVE  /\ new.inbox[i] = "Finished" => new.outcome \in Over
                    /\ new.inbox[i] = "Copying" => new.allowed
  BY DEF Meant
<1>3. CASE i = Len(old.inbox) + 1
  BY <1>2, <1>3
<1>4. CASE i # Len(old.inbox) + 1
  <2>1. i \in 1..Len(old.inbox)
    BY <1>2, <1>4
  <2> QED
    BY <1>2, <2>1 DEF Meant
<1> QED
  BY <1>3, <1>4

LEMMA PostedType ==
  ASSUME NEW j \in Jobs, jobs[j] \in JobType, NEW event \in Events
  PROVE  Posted(j, event) \in Seq(Events) /\ Posted(j, event) = Append(jobs[j].inbox, event)
<1>1. jobs[j].inbox \in Seq(Events)
  BY DEF JobType
<1> QED
  BY <1>1 DEF Posted

LEMMA AskKeeps == ASSUME IInv, NEW j \in Jobs, Ask(j) PROVE IInv'
<1> DEFINE new == Posted(j, "Layout")
           job == [jobs[j] EXCEPT !.inbox = new]
<1>1. jobs[j] \in JobType /\ Meant(jobs[j]) /\ jobs \in [Jobs -> JobType]
  BY DEF IInv, Workers, EventsMeant
<1>2. jobs' = [jobs EXCEPT ![j] = job] /\ Alive(j) /\ UNCHANGED <<ui, st>>
  BY <1>1 DEF Ask
<1>3. new \in Seq(Events) /\ new = Append(jobs[j].inbox, "Layout")
  BY <1>1, PostedType DEF Events
<1> HIDE DEF new
<1>4. /\ job \in JobType /\ job.inbox = new /\ job.outcome = jobs[j].outcome
      /\ job.allowed = jobs[j].allowed /\ job.cancelled = jobs[j].cancelled
  BY <1>1, <1>3 DEF JobType
<1> HIDE DEF job
<1>5. Meant(job)
  BY <1>1, <1>3, <1>4, PostedMeans DEF Events
<1> QED
  BY <1>2, <1>4, <1>5, JobGoesOn

LEMMA CopyKeeps == ASSUME IInv, NEW j \in Jobs, Copy(j) PROVE IInv'
<1>1. jobs[j] \in JobType /\ Meant(jobs[j]) /\ jobs \in [Jobs -> JobType]
  BY DEF IInv, Workers, EventsMeant
<1>2. CASE jobs[j].target = "untouched"
  <2> DEFINE new == Posted(j, "Copying")
             job == [jobs[j] EXCEPT !.target = "partial", !.inbox = new]
  <2>1. /\ jobs' = [jobs EXCEPT ![j] = job] /\ Alive(j) /\ jobs[j].allowed
        /\ UNCHANGED <<ui, st>>
    BY <1>1, <1>2 DEF Copy, MayCopy
  <2>2. new \in Seq(Events) /\ new = Append(jobs[j].inbox, "Copying")
    BY <1>1, PostedType DEF Events
  <2> HIDE DEF new
  <2>3. /\ job \in JobType /\ job.inbox = new /\ job.outcome = jobs[j].outcome
        /\ job.allowed = jobs[j].allowed /\ job.cancelled = jobs[j].cancelled
    BY <1>1, <2>2 DEF JobType
  <2> HIDE DEF job
  <2>4. Meant(job)
    BY <1>1, <2>1, <2>2, <2>3, PostedMeans DEF Events
  <2> QED
    BY <2>1, <2>3, <2>4, JobGoesOn
<1>3. CASE jobs[j].target # "untouched"
  <2> DEFINE job == [jobs[j] EXCEPT !.target = "flushed"]
  <2>1. /\ job \in JobType /\ job.inbox = jobs[j].inbox /\ job.outcome = jobs[j].outcome
        /\ job.allowed = jobs[j].allowed /\ job.cancelled = jobs[j].cancelled
    BY <1>1 DEF JobType
  <2>2. jobs' = [jobs EXCEPT ![j] = job] /\ Alive(j) /\ UNCHANGED <<ui, st>>
    BY <1>1, <1>3 DEF Copy
  <2> HIDE DEF job
  <2>3. Meant(job)
    BY <1>1, <2>1 DEF Meant
  <2> QED
    BY <2>1, <2>2, <2>3, JobGoesOn
<1> QED
  BY <1>2, <1>3

LEMMA EndKeeps == ASSUME IInv, NEW j \in Jobs, End(j) PROVE IInv'
<1>1. jobs[j] \in JobType /\ Meant(jobs[j]) /\ jobs \in [Jobs -> JobType]
  BY DEF IInv, Workers, EventsMeant
<1>2. PICK o \in Ends(j) :
        jobs' = [jobs EXCEPT ![j].outcome = o, ![j].inbox = Posted(j, "Finished")]
  BY DEF End
<1>3. o \in Over
  BY DEF Ends, Over
<1> DEFINE new == Posted(j, "Finished")
           job == [jobs[j] EXCEPT !.outcome = o, !.inbox = new]
<1>4. jobs' = [jobs EXCEPT ![j] = job] /\ Alive(j) /\ UNCHANGED <<ui, st>>
  BY <1>1, <1>2 DEF End
<1>5. new \in Seq(Events) /\ new = Append(jobs[j].inbox, "Finished")
  BY <1>1, PostedType DEF Events
<1> HIDE DEF new
<1>6. /\ job \in JobType /\ job.inbox = new /\ job.outcome = o
      /\ job.allowed = jobs[j].allowed /\ job.cancelled = jobs[j].cancelled
  BY <1>1, <1>3, <1>5 DEF JobType
<1> HIDE DEF job
<1>7. Meant(job)
  BY <1>1, <1>3, <1>5, <1>6, PostedMeans DEF Events
<1> QED
  BY <1>4, <1>6, <1>7, JobGoesOn

\* Steps of the window that tell no worker anything.
LEMMA JobsStay ==
  ASSUME IInv, UNCHANGED jobs, st'.id = st.id, st'.job = st.job,
         st'.pending # "none" => st.pending # "none"
  PROVE  Workers'
<1>1. Near(jobs')
  BY LikeItself, LikeIsNear
<1> QED
  BY <1>1, WorkersStay

\* The job page, with a result or without.
LEMMA PageType ==
  ASSUME NEW w \in UiType, NEW n \in {0, 2},
         ui' = [w EXCEPT !.page = 1, !.result = n, !.cancelling = FALSE]
  PROVE  /\ ui' \in UiType /\ ui'.starting = w.starting /\ ui'.modes = w.modes
         /\ ui'.page = 1 /\ ui'.result = n /\ ui'.alarm = w.alarm
<1>1. 1 \in 0..1 /\ n \in 0..3
  OBVIOUS
<1> QED
  BY <1>1 DEF UiType

LEMMA LaunchKeeps ==
  ASSUME IInv, NEW w \in {ui, [ui EXCEPT !.confirm = Fade(@)]}, Launch(w)
  PROVE  IInv'
<1>1. /\ w \in UiType /\ w.starting = ui.starting /\ w.modes = ui.modes
      /\ w.page = ui.page /\ w.result = ui.result /\ w.alarm = ui.alarm
  BY DEF IInv, Window, UiType, Fade
<1>2. CASE ~Busy /\ st.id < MaxJobs /\ Worker(FALSE)
           /\ st' = [st EXCEPT !.id = @ + 1, !.job = st.id + 1, !.run = TRUE]
           /\ ui' = [w EXCEPT !.page = 1, !.result = 0, !.cancelling = FALSE]
  <2>1. st.job = 0 /\ st.pending = "none" /\ ~st.rechecking
    BY <1>2 DEF Busy
  <2>2. st.id + 1 \in 0..MaxJobs
    BY <1>2, Ids, JobsAssumption
  <2>3. /\ st' \in StType /\ st'.id = st.id + 1 /\ st'.job = st.id + 1 /\ st'.pending = "none"
        /\ ~st'.rechecking /\ st'.run
    BY <1>2, <2>1, <2>2 DEF IInv, Window, StType
  <2>4. /\ ui' \in UiType /\ ui'.starting = ui.starting /\ ui'.modes = ui.modes
        /\ ui'.page = 1 /\ ui'.result = 0 /\ ui'.alarm = ui.alarm
    <3>1. ui' = [w EXCEPT !.page = 1, !.result = 0, !.cancelling = FALSE]
      BY <1>2
    <3> QED
      BY <1>1, <3>1, PageType
  <2>5. Workers'
    BY <1>2, <2>1, <2>3, WorkerStarts
  <2>6. Window'
    BY <2>1, <2>3, <2>4, Ids DEF IInv, Window, NeverStuck
  <2> QED
    BY <2>5, <2>6 DEF IInv
<1>3. CASE ~Busy /\ st.id < MaxJobs /\ UNCHANGED jobs
           /\ st' = [st EXCEPT !.id = @ + 1, !.run = FALSE]
           /\ ui' = [w EXCEPT !.page = 1, !.result = 2, !.cancelling = FALSE]
  <2>1. st.job = 0 /\ st.pending = "none" /\ ~st.rechecking
    BY <1>3 DEF Busy
  <2>2. st.id + 1 \in 0..MaxJobs
    BY <1>3, Ids, JobsAssumption
  <2>3. /\ st' \in StType /\ st'.id = st.id + 1 /\ st'.job = 0 /\ st'.pending = "none"
        /\ ~st'.rechecking /\ ~st'.run
    BY <1>3, <2>1, <2>2 DEF IInv, Window, StType
  <2>4. /\ ui' \in UiType /\ ui'.starting = ui.starting /\ ui'.modes = ui.modes
        /\ ui'.page = 1 /\ ui'.result = 2 /\ ui'.alarm = ui.alarm
    <3>1. ui' = [w EXCEPT !.page = 1, !.result = 2, !.cancelling = FALSE]
      BY <1>3
    <3> QED
      BY <1>1, <3>1, PageType
  <2>5. Workers'
    BY <1>3, <2>1, <2>3, IdIsUsedUp
  <2>6. Window'
    BY <2>1, <2>3, <2>4 DEF IInv, Window, NeverStuck
  <2> QED
    BY <2>5, <2>6 DEF IInv
<1>4. CASE ui' = w /\ UNCHANGED <<st, jobs>>
  <2>1. Window'
    BY <1>1, <1>4 DEF IInv, Window, NeverStuck
  <2>2. Workers'
    BY <1>4, JobsStay
  <2> QED
    BY <2>1, <2>2 DEF IInv
<1> QED
  BY <1>2, <1>3, <1>4 DEF Launch

LEMMA StartKeeps == ASSUME IInv, Start PROVE IInv'
<1>1. CASE Launch(ui)
  BY <1>1, LaunchKeeps
<1>2. CASE /\ st' = [st EXCEPT !.rechecking = TRUE]
           /\ ui' = [ui EXCEPT !.starting = TRUE]
           /\ UNCHANGED jobs
  <2>1. ui.page = 0 /\ st.job = 0 /\ st.pending = "none"
    BY DEF Start, Busy
  <2>2. /\ st' \in StType /\ st'.id = st.id /\ st'.job = 0 /\ st'.pending = "none"
        /\ st'.rechecking /\ st'.run = st.run
    BY <1>2, <2>1 DEF IInv, Window, StType
  <2>3. /\ ui' \in UiType /\ ui'.starting /\ ui'.modes = ui.modes
        /\ ui'.page = 0 /\ ui'.result = ui.result /\ ui'.alarm = ui.alarm
    BY <1>2, <2>1 DEF IInv, Window, UiType
  <2>4. Window'
    BY <2>1, <2>2, <2>3 DEF IInv, Window, NeverStuck
  <2>5. Workers'
    BY <1>2, <2>1, <2>2, JobsStay
  <2> QED
    BY <2>4, <2>5 DEF IInv
<1> QED
  BY <1>1, <1>2 DEF Start

LEMMA RecheckedKeeps == ASSUME IInv, Rechecked PROVE IInv'
<1>1. st.rechecking /\ st.job = 0 /\ st.pending = "none" /\ ui.page = 0 /\ ui.modes # "open"
      /\ ui.starting
  BY DEF Rechecked, IInv, Window
<1>2. CASE /\ ui' \in {[ui EXCEPT !.starting = FALSE],
                       [ui EXCEPT !.starting = FALSE, !.confirm = "open"]}
           /\ st' = [st EXCEPT !.rechecking = FALSE]
           /\ UNCHANGED jobs
  <2>1. /\ ui' \in UiType /\ ~ui'.starting /\ ui'.modes = ui.modes
        /\ ui'.page = 0 /\ ui'.alarm = ui.alarm
    BY <1>1, <1>2 DEF IInv, Window, UiType
  <2>2. /\ st' \in StType /\ st'.id = st.id /\ st'.job = 0 /\ st'.pending = "none"
        /\ ~st'.rechecking /\ st'.run = st.run
    BY <1>1, <1>2 DEF IInv, Window, StType
  <2>3. Window'
    BY <1>1, <2>1, <2>2 DEF IInv, Window, NeverStuck
  <2>4. Workers'
    BY <1>1, <1>2, <2>2, JobsStay
  <2> QED
    BY <2>3, <2>4 DEF IInv
<1>3. CASE /\ st.id < MaxJobs /\ Worker(TRUE)
           /\ st' = [st EXCEPT !.rechecking = FALSE, !.id = @ + 1, !.job = st.id + 1,
                               !.pending = "waiting", !.run = FALSE]
           /\ ui' = [ui EXCEPT !.modes = "open"]
  <2>1. st.id + 1 \in 0..MaxJobs /\ st.id + 1 # 0
    BY <1>3, Ids, JobsAssumption
  <2>2. /\ st' \in StType /\ st'.id = st.id + 1 /\ st'.job = st.id + 1
        /\ st'.pending = "waiting" /\ ~st'.rechecking /\ ~st'.run
    BY <1>3, <2>1 DEF IInv, Window, StType
  <2>3. /\ ui' \in UiType /\ ui'.starting /\ ui'.modes = "open"
        /\ ui'.page = 0 /\ ui'.alarm = ui.alarm
    BY <1>1, <1>3 DEF IInv, Window, UiType
  <2>4. Workers'
    BY <1>1, <1>3, <2>2, WorkerStarts
  <2>5. Window'
    BY <2>1, <2>2, <2>3 DEF IInv, Window, NeverStuck
  <2> QED
    BY <2>4, <2>5 DEF IInv
<1>4. CASE /\ st.id < MaxJobs
           /\ st' = [st EXCEPT !.rechecking = FALSE, !.id = @ + 1, !.run = FALSE]
           /\ ui' = [ui EXCEPT !.starting = FALSE]
           /\ UNCHANGED jobs
  <2>1. st.id + 1 \in 0..MaxJobs
    BY <1>4, Ids, JobsAssumption
  <2>2. /\ st' \in StType /\ st'.id = st.id + 1 /\ st'.job = 0 /\ st'.pending = "none"
        /\ ~st'.rechecking /\ ~st'.run
    BY <1>1, <1>4, <2>1 DEF IInv, Window, StType
  <2>3. /\ ui' \in UiType /\ ~ui'.starting /\ ui'.modes = ui.modes
        /\ ui'.page = 0 /\ ui'.alarm = ui.alarm
    BY <1>1, <1>4 DEF IInv, Window, UiType
  <2>4. Workers'
    BY <1>1, <1>4, <2>2, IdIsUsedUp
  <2>5. Window'
    BY <1>1, <2>2, <2>3 DEF IInv, Window, NeverStuck
  <2> QED
    BY <2>4, <2>5 DEF IInv
<1> QED
  BY <1>2, <1>3, <1>4 DEF Rechecked

\* A dialog is told to close, or has faded out.
LEMMA DialogKeeps == ASSUME IInv, Dismiss \/ Faded PROVE IInv'
<1>1. UNCHANGED <<st, jobs>>
  BY DEF Dismiss, Faded
<1>2. /\ ui' \in UiType /\ ui'.starting = ui.starting
      /\ ui'.page = ui.page /\ ui'.result = ui.result /\ ui'.alarm = ui.alarm
      /\ ui'.modes = "open" <=> ui.modes = "open"
  BY DEF Dismiss, Faded, IInv, Window, UiType
<1>3. Window'
  BY <1>1, <1>2 DEF IInv, Window, NeverStuck
<1> QED
  BY <1>1, <1>3, JobsStay DEF IInv

\* The dialog closes, with what was pending.
LEMMA Closing == ASSUME IInv PROVE
  /\ CloseModes \in UiType /\ ~CloseModes.starting /\ CloseModes.modes # "open"
  /\ CloseModes.page = ui.page /\ CloseModes.result = ui.result
  /\ CloseModes.alarm = ui.alarm
  BY DEF IInv, Window, UiType, CloseModes, Fade

LEMMA PendingEnds ==
  ASSUME IInv, st.pending # "none", NEW js, Like(js), jobs' = GiveUp(js),
         st' = [st EXCEPT !.pending = "none", !.job = 0], ui' = CloseModes
  PROVE  IInv'
<1>1. st.job = st.id /\ st.id # 0 /\ ui.page = 0 /\ ~st.rechecking /\ ~st.run
  BY DEF IInv, Window
<1>2. /\ st' \in StType /\ st'.id = st.id /\ st'.job = 0 /\ st'.pending = "none"
      /\ ~st'.rechecking /\ ~st'.run
  <2>1. st \in StType /\ 0 \in 0..MaxJobs
    BY JobsAssumption DEF IInv, Window
  <2> QED
    BY <1>1, <2>1 DEF StType
<1>3. Window'
  BY <1>1, <1>2, Closing DEF IInv, Window, NeverStuck
<1>4. Near(jobs') /\ (jobs')[st.job].cancelled /\ ~jobs[st.job].allowed
  BY <1>1, GivenUp DEF IInv, Workers, Unanswered
<1>5. Workers'
  BY <1>2, <1>4, WorkersStay
<1> QED
  BY <1>3, <1>5 DEF IInv

LEMMA GiveUpPendingKeeps ==
  ASSUME IInv, NEW js, Like(js), GiveUpPending(js)
  PROVE  IInv'
<1>1. CASE st.pending = "none"
  <2>1. jobs' = js /\ UNCHANGED <<ui, st>>
    BY <1>1 DEF GiveUpPending
  <2>2. Window'
    BY <2>1 DEF IInv, Window, NeverStuck
  <2>3. Workers'
    BY <2>1, LikeIsNear, WorkersStay
  <2> QED
    BY <2>2, <2>3 DEF IInv
<1>2. CASE st.pending # "none"
  BY <1>2, PendingEnds DEF GiveUpPending
<1> QED
  BY <1>1, <1>2

LEMMA ModeStartKeeps == ASSUME IInv, ModeStart PROVE IInv'
<1>1. st.pending = "shown" /\ st.job = st.id /\ st.id # 0 /\ ui.page = 0 /\ ~st.rechecking
  BY DEF ModeStart, IInv, Window
<1>2. CASE /\ jobs' = GiveUp(jobs)
           /\ st' = [st EXCEPT !.pending = "none", !.job = 0]
           /\ ui' = CloseModes
  BY <1>1, <1>2, LikeItself, PendingEnds
<1>3. CASE /\ jobs' = [jobs EXCEPT ![st.job].allowed = TRUE]
           /\ st' = [st EXCEPT !.pending = "none", !.run = TRUE]
           /\ ui' = [CloseModes EXCEPT !.page = 1, !.result = 0, !.cancelling = FALSE]
  <2>1. /\ st' \in StType /\ st'.id = st.id /\ st'.job = st.id /\ st'.pending = "none"
        /\ ~st'.rechecking /\ st'.run
    BY <1>1, <1>3 DEF IInv, Window, StType
  <2>2. /\ ui' \in UiType /\ ~ui'.starting /\ ui'.modes # "open"
        /\ ui'.page = 1 /\ ui'.result = 0 /\ ui'.alarm = ui.alarm
    <3>1. ui' = [CloseModes EXCEPT !.page = 1, !.result = 0, !.cancelling = FALSE]
      BY <1>3
    <3>2. /\ CloseModes \in UiType /\ ~CloseModes.starting /\ CloseModes.modes # "open"
          /\ CloseModes.alarm = ui.alarm
      BY Closing
    <3>3. /\ ui' \in UiType /\ ui'.starting = CloseModes.starting
          /\ ui'.modes = CloseModes.modes /\ ui'.page = 1 /\ ui'.result = 0
          /\ ui'.alarm = CloseModes.alarm
      BY <3>1, <3>2, PageType
    <3> QED
      BY <3>2, <3>3
  <2>3. Window'
    BY <1>1, <2>1, <2>2 DEF IInv, Window, NeverStuck
  <2> DEFINE job == [jobs[st.job] EXCEPT !.allowed = TRUE]
  <2>4. st.job \in Jobs /\ ~(st.job > st.id)
    BY <1>1, Ids DEF Jobs
  <2>5. jobs \in [Jobs -> JobType] /\ jobs[st.job] \in JobType /\ Meant(jobs[st.job])
    BY <2>4 DEF IInv, Workers, EventsMeant
  <2>6. /\ job \in JobType /\ job.allowed /\ job.outcome = jobs[st.job].outcome
        /\ job.inbox = jobs[st.job].inbox
    BY <2>5 DEF JobType
  <2>7. jobs' = [jobs EXCEPT ![st.job] = job]
    BY <1>3, <2>4, <2>5
  <2> HIDE DEF job
  <2>8. Meant(job)
    BY <2>5, <2>6 DEF Meant
  <2>9. /\ jobs' \in [Jobs -> JobType] /\ (jobs')[st.job] = job
        /\ \A i \in Jobs : i # st.job => jobs[i]' = jobs[i]
    BY <2>4, <2>5, <2>6, <2>7
  <2>10. Unborn'
    BY <2>1, <2>4, <2>9 DEF IInv, Workers, Unborn
  <2>11. EventsMeant'
    <3> SUFFICES ASSUME NEW i \in Jobs PROVE Meant((jobs')[i])
      BY DEF EventsMeant, Meant
    <3> QED
      BY <2>8, <2>9 DEF IInv, Workers, EventsMeant
  <2>12. Unanswered'
    BY <2>1 DEF Unanswered
  <2>13. Owned'
    <3> SUFFICES ASSUME NEW i \in Jobs, Alive(i)', jobs[i]'.allowed \/ ~jobs[i]'.cancelled,
                        i # st.job
                 PROVE  FALSE
      BY <1>1, <2>1 DEF Owned
    <3>1. Alive(i) /\ (jobs[i].allowed \/ ~jobs[i].cancelled)
      BY <2>9 DEF Alive
    <3> QED
      BY <3>1 DEF IInv, Workers, Owned
  <2> QED
    BY <2>3, <2>9, <2>10, <2>11, <2>12, <2>13 DEF IInv, Workers
<1> QED
  BY <1>2, <1>3 DEF ModeStart

LEMMA CancelKeeps == ASSUME IInv, Cancel PROVE IInv'
<1>1. /\ ui' \in UiType /\ ui'.starting = ui.starting /\ ui'.modes = ui.modes
      /\ ui'.page = ui.page /\ ui'.result = ui.result /\ ui'.alarm = ui.alarm
  BY DEF Cancel, Cancelling, IInv, Window, UiType
<1>2. st' = st /\ jobs' = GiveUp(jobs)
  BY DEF Cancel, Cancelling
<1>3. Window'
  BY <1>1, <1>2 DEF IInv, Window, NeverStuck
<1>4. Near(jobs')
  BY <1>2, LikeItself, GivenUp
<1> QED
  BY <1>2, <1>3, <1>4, WorkersStay DEF IInv

LEMMA FinishKeeps == ASSUME IInv, Finish PROVE IInv'
<1>1. ui.page = 1 /\ jobs' = jobs
  BY DEF Finish
<1>2. /\ ui' \in UiType /\ ui'.starting = ui.starting /\ ui'.modes = ui.modes
      /\ ui'.page = 0 /\ ui'.alarm = ui.alarm
  BY DEF Finish, IInv, Window, UiType
<1>3. /\ st' \in StType /\ st'.id = st.id /\ st'.job = st.job /\ st'.pending = st.pending
      /\ st'.rechecking = st.rechecking /\ ~st'.run
  BY DEF Finish, IInv, Window, StType
<1>4. Window'
  BY <1>1, <1>2, <1>3 DEF IInv, Window, NeverStuck
<1> QED
  BY <1>1, <1>3, <1>4, JobsStay DEF IInv

\* Events of a job given up or over already, and those that change nothing.
LEMMA EventTaken ==
  ASSUME IInv, NEW js, Like(js), jobs' = js, UNCHANGED ui, st'.id = st.id, st'.job = st.job,
         st'.rechecking = st.rechecking, st'.run = st.run, st' \in StType,
         st'.pending = "none" <=> st.pending = "none"
  PROVE  IInv'
<1>1. Window'
  BY DEF IInv, Window, NeverStuck
<1>2. Near(jobs')
  BY LikeIsNear
<1> QED
  BY <1>1, <1>2, WorkersStay DEF IInv

LEMMA FinishedKeeps ==
  ASSUME IInv, NEW j \in Jobs, NEW js, Like(js), j = st.id, jobs[j].outcome \in Over,
         Finished(j, js)
  PROVE  IInv'
<1>1. jobs' = js /\ Near(jobs')
  BY LikeIsNear DEF Finished
<1>2. ~Alive(j) /\ (st.job # 0 => st.job = j)
  BY DEF Alive, Over, IInv, Window
<1>3. st \in StType /\ 0 \in 0..MaxJobs /\ ui \in UiType
  BY JobsAssumption DEF IInv, Window
<1>4. CASE st.pending # "none"
  <2>1. st' = [st EXCEPT !.pending = "none", !.job = 0] /\ ui' = CloseModes
    BY <1>4 DEF Finished, PendingOver
  <2>2. /\ st' \in StType /\ st'.id = st.id /\ st'.job = 0 /\ st'.pending = "none"
        /\ st'.rechecking = st.rechecking /\ st'.run = st.run
    BY <1>3, <2>1 DEF StType
  <2>3. Window'
    BY <1>4, <2>1, <2>2, Closing DEF IInv, Window, NeverStuck
  <2>4. Workers'
    BY <1>1, <1>2, <2>2, WorkersStay
  <2> QED
    BY <2>3, <2>4 DEF IInv
<1>5. CASE st.pending = "none"
  <2> DEFINE run == st.run /\ jobs[j].outcome = "success"
  <2>1. st' = [st EXCEPT !.job = 0, !.run = run]
    BY <1>5 DEF Finished
  <2>2. run \in BOOLEAN
    OBVIOUS
  <2>3. run => st.run
    OBVIOUS
  <2> HIDE DEF run
  <2>4. /\ st' \in StType /\ st'.id = st.id /\ st'.job = 0 /\ st'.pending = "none"
        /\ st'.rechecking = st.rechecking /\ st'.run = run
    BY <1>3, <1>5, <2>1, <2>2 DEF StType
  <2>5. Workers'
    BY <1>1, <1>2, <2>4, WorkersStay
  <2>6. CASE ~st.run
    <3>1. ui' = ui
      BY <1>5, <2>6 DEF Finished
    <3> QED
      BY <1>5, <2>3, <2>4, <2>5, <2>6, <3>1 DEF IInv, Window, NeverStuck
  <2>7. CASE st.run /\ jobs[j].outcome = "not authorized"
    <3>1. ui' = [ui EXCEPT !.page = 0] /\ ~run
      BY <1>5, <2>7 DEF Finished, BackToSetup, run
    <3>2. /\ ui' \in UiType /\ ui'.starting = ui.starting /\ ui'.modes = ui.modes
          /\ ui'.page = 0 /\ ui'.alarm = ui.alarm
      BY <1>3, <3>1 DEF UiType
    <3> QED
      BY <1>5, <2>4, <2>5, <3>1, <3>2 DEF IInv, Window, NeverStuck
  <2>8. CASE st.run /\ jobs[j].outcome # "not authorized"
    <3> DEFINE result == ResultOf(jobs[j].outcome)
    <3>1. ui' = [ui EXCEPT !.result = result]
      BY <1>5, <2>8 DEF Finished
    <3>2. result \in {1, 2, 3}
      BY <2>8 DEF ResultOf, Over
    <3> HIDE DEF result
    <3>3. /\ ui' \in UiType /\ ui'.starting = ui.starting /\ ui'.modes = ui.modes
          /\ ui'.page = ui.page /\ ui'.alarm = ui.alarm /\ ui'.result # 0
      BY <1>3, <3>1, <3>2 DEF UiType
    <3> QED
      BY <1>5, <2>3, <2>4, <2>5, <3>3 DEF IInv, Window, NeverStuck
  <2> QED
    BY <2>6, <2>7, <2>8
<1> QED
  BY <1>4, <1>5

LEMMA OnEventKeeps == ASSUME IInv, NEW j \in Jobs, OnEvent(j) PROVE IInv'
<1> DEFINE event == Head(jobs[j].inbox)
           rest == [jobs EXCEPT ![j].inbox = Tail(@)]
<1>1. jobs[j].inbox # <<>> /\ Like(rest)
  BY PoppedIsLike DEF OnEvent
<1>2. /\ event = "Finished" => jobs[j].outcome \in Over
      /\ event = "Copying" => jobs[j].allowed
  <2>1. jobs[j].inbox \in Seq(Events) /\ Meant(jobs[j])
    BY DEF IInv, Workers, EventsMeant, JobType
  <2>2. 1 \in 1..Len(jobs[j].inbox) /\ event = jobs[j].inbox[1]
    BY <1>1, <2>1
  <2> HIDE DEF event
  <2> QED
    BY <2>1, <2>2 DEF Meant
<1>3. st \in StType
  BY DEF IInv, Window
<1>4. \/ Stale(j) /\ jobs' = rest /\ UNCHANGED <<ui, st>>
      \/ /\ ~Stale(j)
         /\ \/ event = "Finished" /\ Finished(j, rest)
            \/ /\ jobs' = rest /\ UNCHANGED ui
               /\ st' = IF st.pending = "none" THEN st ELSE [st EXCEPT !.pending = "shown"]
            \/ GiveUpPending(rest)
            \/ jobs' = rest /\ UNCHANGED <<ui, st>>
            \/ event = "Copying" /\ st.pending # "none"
  BY DEF OnEvent
<1> HIDE DEF event, rest
<1>5. CASE jobs' = rest /\ UNCHANGED <<ui, st>>
  BY <1>1, <1>3, <1>5, EventTaken
<1>6. CASE ~Stale(j) /\ event = "Finished" /\ Finished(j, rest)
  BY <1>1, <1>2, <1>6, FinishedKeeps DEF Stale
<1>7. CASE /\ jobs' = rest /\ UNCHANGED ui
           /\ st' = IF st.pending = "none" THEN st ELSE [st EXCEPT !.pending = "shown"]
  <2>1. /\ st' \in StType /\ st'.id = st.id /\ st'.job = st.job
        /\ st'.rechecking = st.rechecking /\ st'.run = st.run
        /\ st'.pending = "none" <=> st.pending = "none"
    BY <1>3, <1>7 DEF StType
  <2> QED
    BY <1>1, <1>7, <2>1, EventTaken
<1>8. CASE GiveUpPending(rest)
  BY <1>1, <1>8, GiveUpPendingKeeps
<1>9. ~(~Stale(j) /\ event = "Copying" /\ st.pending # "none")
  BY <1>2 DEF Stale, IInv, Workers, Unanswered
<1> QED
  BY <1>4, <1>5, <1>6, <1>7, <1>8, <1>9

LEMMA Inductive == IInv /\ [Next]_vars => IInv'
<1> SUFFICES ASSUME IInv, [Next]_vars PROVE IInv'
  OBVIOUS
<1>1. CASE Start
  BY <1>1, StartKeeps
<1>2. CASE Rechecked
  BY <1>2, RecheckedKeeps
<1>3. CASE Confirm
  BY <1>3, LaunchKeeps DEF Confirm
<1>4. CASE Dismiss \/ Faded
  BY <1>4, DialogKeeps
<1>5. CASE ModeCancel
  BY <1>5, LikeItself, GiveUpPendingKeeps DEF ModeCancel
<1>6. CASE ModeStart
  BY <1>6, ModeStartKeeps
<1>7. CASE Cancel
  BY <1>7, CancelKeeps
<1>8. CASE Finish
  BY <1>8, FinishKeeps
<1>9. ASSUME NEW j \in Jobs, Ask(j) \/ Copy(j) \/ End(j) \/ OnEvent(j)
      PROVE  IInv'
  BY <1>9, AskKeeps, CopyKeeps, EndKeeps, OnEventKeeps
<1>10. CASE UNCHANGED vars
  <2>1. Window'
    BY <1>10 DEF vars, IInv, Window, NeverStuck
  <2> QED
    BY <1>10, <2>1, JobsStay DEF vars, IInv
<1> QED
  BY <1>1, <1>2, <1>3, <1>4, <1>5, <1>6, <1>7, <1>8, <1>9, <1>10 DEF Next

LEMMA Invariance == Spec => []IInv
  BY Initially, Inductive, PTL DEF Spec

-------------------------------------------------------------------------------
(* The theorems *)

\* The Start button and the dialog tell what's going on: one says "Starting..." and the
\* other is open for as long as a check or a question is, whichever way it ends.
THEOREM ButtonsTell == Spec => []WindowTells
  BY Invariance, WindowIsTyped, PTL

\* As long as the job page shows no result there's a job to cancel, the newest one, whose
\* Finished event on_event won't take for a stale one.
THEOREM PageIsNeverStuck == Spec => []NeverStuck
<1>1. IInv => NeverStuck
  BY DEF IInv, Window
<1> QED
  BY Invariance, <1>1, PTL

\* However many jobs are started, given up and cancelled, whenever their events come: at
\* most one worker writes or may start to, and State::job is the one to stop it by.
THEOREM OnlyOneWrites == Spec => []OneWriter
<1>1. IInv => OneWriter
  <2> SUFFICES ASSUME IInv PROVE OneWriter
    OBVIOUS
  <2> DEFINE writers == {j \in Jobs : Alive(j) /\ jobs[j].allowed}
  <2>1. LiveJobsAreOwned /\ writers \subseteq {st.job} /\ ~ui.alarm
    BY DEF IInv, Workers, Window, Owned, LiveJobsAreOwned
  <2>2. Cardinality({st.job}) = 1 /\ IsFiniteSet({st.job})
    BY FS_Singleton
  <2>3. Cardinality(writers) <= 1
    <3> HIDE DEF writers
    <3> QED
      BY <2>1, <2>2, FS_Subset
  <2> QED
    BY <2>1, <2>3 DEF OneWriter
<1> QED
  BY Invariance, <1>1, PTL
================================================================================
