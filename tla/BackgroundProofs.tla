--------------------------- MODULE BackgroundProofs ---------------------------
(***************************************************************************)
(* Theorems about module BackgroundWork, for every number of jobs,         *)
(* cancellations and tasks, every interval and every size of the pool.     *)
(***************************************************************************)
EXTENDS BackgroundWork, SequenceTheorems, TLAPS

-----------------------------------------------------------------------------
(* The pool's queue.                                                        *)

LEMMA SpawnTypes ==
  ASSUME queue \in Seq(Work), NEW w \in Work, Spawn(w)
  PROVE  /\ queue' \in Seq(Work)
         /\ Len(queue') = Len(queue) + 1
         /\ \A i \in 1 .. Len(queue) : queue'[i] = queue[i]
         /\ queue'[Len(queue) + 1] = w
BY AppendProperties DEF Spawn

LEMMA TakeTypes ==
  ASSUME queue \in Seq(Work), Take
  PROVE  /\ queue' \in Seq(Work)
         /\ Len(queue') = Len(queue) - 1
         /\ \A i \in 1 .. Len(queue') : queue'[i] = queue[i + 1]
         /\ Head(queue) \in Work
         /\ Head(queue) = queue[1]
         /\ Len(queue) >= 1
<1>1. queue # << >> /\ queue' = Tail(queue)
  BY DEF Take
<1>2. /\ Head(queue) \in Work /\ Tail(queue) \in Seq(Work)
      /\ Len(Tail(queue)) = Len(queue) - 1
      /\ \A i \in 1 .. Len(Tail(queue)) : Tail(queue)[i] = queue[i + 1]
  BY <1>1, HeadTailProperties
<1>3. Len(queue) >= 1 /\ Head(queue) = queue[1]
  BY <1>1, EmptySeq, LenProperties
<1> QED BY <1>1, <1>2, <1>3

-----------------------------------------------------------------------------
(* Types.                                                                   *)

LEMMA TypeStep == TypeOK /\ [Next]_vars => TypeOK'
<1> SUFFICES ASSUME TypeOK, [Next]_vars PROVE TypeOK'
  OBVIOUS
<1>1. ASSUME NEW j \in Jobs, Submit(j) PROVE TypeOK'
  BY <1>1 DEF TypeOK, Submit, SetStatus, Job, Statuses, scheduleVars
<1>2. ASSUME NEW j \in Jobs, Begin(j) PROVE TypeOK'
  <2>1. << "job", j >> \in Work
    BY DEF Work
  <2>2. queue' \in Seq(Work)
    BY <1>2, <2>1, SpawnTypes DEF Begin, TypeOK
  <2> QED BY <1>2, <2>2 DEF TypeOK, Begin, SetStatus, Job, Statuses, scheduleVars
<1>3. ASSUME NEW j \in Jobs, Execute(j) PROVE TypeOK'
  <2>1. << "job", j >> \in Work
    BY DEF Work
  <2>2. busy' \in [Work -> Nat]
    BY <1>3, <2>1 DEF Execute, TypeOK
  <2>3. outcome' \in [Jobs -> {"none", "output", "error", "panic"}]
    BY <1>3 DEF Execute, TypeOK
  <2> QED BY <1>3, <2>2, <2>3 DEF TypeOK, Execute, scheduleVars
<1>4. ASSUME NEW j \in Jobs, FinishJob(j) PROVE TypeOK'
  <2>1. job' \in [Jobs -> Job]
    <3>1. job[j] \in Job /\ job \in [Jobs -> Job]
      BY DEF TypeOK
    <3>2. [job[j] EXCEPT !.status = "Completed", !.result = TRUE] \in Job
      BY <3>1 DEF Job, Statuses
    <3>3. [job[j] EXCEPT !.status = "Failed", !.error = TRUE] \in Job
      BY <3>1 DEF Job, Statuses
    <3>4. \/ job' = [job EXCEPT ![j] = [job[j] EXCEPT !.status = "Completed", !.result = TRUE]]
          \/ job' = [job EXCEPT ![j] = [job[j] EXCEPT !.status = "Failed", !.error = TRUE]]
      BY <1>4, <3>1, Zenon DEF FinishJob
    <3> QED BY <3>1, <3>2, <3>3, <3>4
  <2>2. thread' \in [Jobs -> {"none", "spawned", "waiting", "returned", "done"}]
    BY <1>4 DEF TypeOK, FinishJob
  <2> QED BY <1>4, <2>1, <2>2 DEF TypeOK, FinishJob, scheduleVars
<1>5. ASSUME NEW c \in Cancels, CancelWrite(c) PROVE TypeOK'
  BY <1>5 DEF TypeOK, CancelWrite, SetStatus, Job, Statuses, scheduleVars
<1>6. ASSUME NEW c \in Cancels, NEW j \in Jobs, CancelRead(c, j) PROVE TypeOK'
  BY <1>6 DEF TypeOK, CancelRead, scheduleVars
<1>7. ASSUME NEW t \in Tasks, AddTask(t) PROVE TypeOK'
  BY <1>7 DEF TypeOK, AddTask, jobVars
<1>8. ASSUME NEW t \in Tasks, RemoveTask(t) PROVE TypeOK'
  BY <1>8 DEF TypeOK, RemoveTask, jobVars
<1>9. ASSUME NEW t \in Tasks, RunEnds(t) PROVE TypeOK'
  <2>1. << "task", t >> \in Work
    BY DEF Work
  <2>2. busy' \in [Work -> Nat]
    BY <1>9, <2>1 DEF RunEnds, TypeOK
  <2> QED BY <1>9, <2>2 DEF TypeOK, RunEnds, jobVars, scheduleVars
<1>10. CASE Scan
  <2>1. \A t \in Tasks : Interval[t] \in Nat
    BY IntervalAssumption
  <2>2. \A t \in Tasks : wait'[t] \in 0 .. Interval[t]
    BY <1>10, <2>1 DEF Scan, TypeOK
  <2> QED BY <1>10, <2>2 DEF TypeOK, Scan, jobVars
<1>11. ASSUME NEW t \in Tasks, Launch(t) PROVE TypeOK'
  <2>1. << "task", t >> \in Work
    BY DEF Work
  <2>2. queue' \in Seq(Work)
    BY <1>11, <2>1, SpawnTypes DEF Launch, TypeOK
  <2> QED BY <1>11, <2>2 DEF TypeOK, Launch, jobVars
<1>12. CASE Sleep
  <2>1. \A t \in Tasks : Interval[t] \in Nat
    BY IntervalAssumption
  <2>2. \A t \in Tasks : wait'[t] \in 0 .. Interval[t]
    BY <1>12, <2>1 DEF Sleep, TypeOK
  <2> QED BY <1>12, <2>2 DEF TypeOK, Sleep, jobVars
<1>13. CASE Take
  <2>1. queue' \in Seq(Work) /\ Head(queue) \in Work
    BY <1>13, TakeTypes DEF TypeOK
  <2>2. busy' \in [Work -> Nat]
    BY <1>13, <2>1 DEF Take, TypeOK
  <2> QED BY <1>13, <2>1, <2>2 DEF TypeOK, Take, jobVars, scheduleVars
<1>14. CASE UNCHANGED vars
  BY <1>14 DEF TypeOK, vars
<1> QED
  BY <1>1, <1>2, <1>3, <1>4, <1>5, <1>6, <1>7, <1>8, <1>9, <1>10, <1>11,
     <1>12, <1>13, <1>14 DEF Next, JobStep, LoopStep

(* Jobs, tasks, the pool's queue and the loop's clock keep their types; a   *)
(* task never waits longer than its interval.                               *)
THEOREM TypesKept == Spec => []TypeOK
<1>1. Init => TypeOK
  <2> SUFFICES ASSUME Init PROVE TypeOK
    OBVIOUS
  <2>1. \A t \in Tasks : wait[t] \in 0 .. Interval[t]
    BY IntervalAssumption DEF Init
  <2>2. queue \in Seq(Work)
    BY EmptySeq DEF Init
  <2> QED BY <2>1, <2>2 DEF Init, TypeOK, Job, Statuses
<1> QED BY <1>1, TypeStep, PTL DEF Spec

-----------------------------------------------------------------------------
(* Removal of a task: only a clone taken before it can still be launched.   *)

LateBound ==
  \A t \in Tasks :
    /\ t \in due => task[t] # "none"
    /\ late[t] # 0 => task[t] = "removed" /\ t \notin due /\ late[t] = 1

LEMMA LateStep == TypeOK /\ LateBound /\ [Next]_vars => LateBound'
<1> SUFFICES ASSUME TypeOK, LateBound, [Next]_vars PROVE LateBound'
  OBVIOUS
<1>1. ASSUME NEW j \in Jobs, Submit(j) \/ JobStep(j) PROVE LateBound'
  <2>1. UNCHANGED scheduleVars
    <3>1. CASE Submit(j)
      BY <3>1 DEF Submit
    <3>2. CASE Begin(j)
      BY <3>2 DEF Begin
    <3>3. CASE Execute(j)
      BY <3>3 DEF Execute
    <3>4. CASE FinishJob(j)
      BY <3>4 DEF FinishJob
    <3> QED BY <1>1, <3>1, <3>2, <3>3, <3>4 DEF JobStep
  <2> QED BY <2>1 DEF LateBound, scheduleVars
<1>2. ASSUME NEW c \in Cancels, CancelWrite(c) \/ \E j \in Jobs : CancelRead(c, j)
      PROVE LateBound'
  BY <1>2 DEF LateBound, CancelWrite, CancelRead, scheduleVars
<1>3. ASSUME NEW t \in Tasks, AddTask(t) PROVE LateBound'
  BY <1>3 DEF LateBound, TypeOK, AddTask
<1>4. ASSUME NEW t \in Tasks, RemoveTask(t) PROVE LateBound'
  BY <1>4 DEF LateBound, TypeOK, RemoveTask
<1>5. ASSUME NEW t \in Tasks, RunEnds(t) PROVE LateBound'
  BY <1>5 DEF LateBound, RunEnds, scheduleVars
<1>6. CASE Scan
  BY <1>6 DEF LateBound, TypeOK, Scan, IsDue
<1>7. ASSUME NEW t \in Tasks, Launch(t) PROVE LateBound'
  BY <1>7 DEF LateBound, TypeOK, Launch
<1>8. CASE Sleep
  BY <1>8 DEF LateBound, Sleep
<1>9. CASE Take
  BY <1>9 DEF LateBound, Take, scheduleVars
<1>10. CASE UNCHANGED vars
  BY <1>10 DEF LateBound, vars
<1> QED
  BY <1>1, <1>2, <1>3, <1>4, <1>5, <1>6, <1>7, <1>8, <1>9, <1>10
  DEF Next, LoopStep

(* DELETE /schedule/:id stops a task: at most the launch of a clone the     *)
(* scheduler had already taken follows its answer.                          *)
THEOREM RemovalStops == Spec => []RemovedTasksStop
<1>1. Init => LateBound
  BY DEF Init, LateBound
<1>2. TypeOK /\ LateBound => RemovedTasksStop
  <2> SUFFICES ASSUME TypeOK, LateBound, NEW t \in Tasks PROVE late[t] <= 1
    BY DEF RemovedTasksStop
  <2>1. late[t] = 0 \/ late[t] = 1
    BY DEF LateBound
  <2> QED BY <2>1
<1> QED BY <1>1, <1>2, LateStep, TypesKept, PTL DEF Spec

-----------------------------------------------------------------------------
(* Jobs.  A job that waits is in the queue or with a thread once at most,   *)
(* so its statement is executed once.                                       *)

AJob(j) == << "job", j >>

OnceInPool ==
  /\ \A j \in Jobs, i \in 1 .. Len(queue) :
       queue[i] = AJob(j) => thread[j] = "waiting" /\ busy[AJob(j)] = 0
  /\ \A j \in Jobs, i, k \in 1 .. Len(queue) :
       queue[i] = AJob(j) /\ queue[k] = AJob(j) => i = k
  /\ \A j \in Jobs : busy[AJob(j)] # 0 => thread[j] = "waiting" /\ busy[AJob(j)] = 1

LEMMA Names ==
  /\ \A j \in Jobs : AJob(j) \in Work
  /\ \A t \in Tasks : << "task", t >> \in Work
  /\ \A j, k \in Jobs : AJob(j) = AJob(k) => j = k
  /\ \A j \in Jobs, t \in Tasks : AJob(j) # << "task", t >>
BY DEF AJob, Work

(* No cancellation of the job has read it as Pending. *)
Untouched(j) ==
  \A c \in Cancels : cancel[c].job = j => cancel[c].step \in {"none", "refused"}

(* What each stage of the task behind a job says of the job. *)
Stage(j) ==
  /\ job[j].status = "none" => thread[j] = "none"
  /\ j \in ran <=> thread[j] \in {"returned", "done"}
  /\ thread[j] # "done" => ~job[j].result /\ ~job[j].error
  /\ thread[j] = "none" /\ Untouched(j) => job[j].status = "none"
  /\ thread[j] = "spawned" /\ Untouched(j) => job[j].status = "Pending"
  /\ thread[j] \in {"waiting", "returned"} /\ Untouched(j) => job[j].status = "Running"
  /\ thread[j] = "done" /\ Untouched(j) =>
       \/ job[j].status = "Completed" /\ job[j].result /\ ~job[j].error
       \/ job[j].status = "Failed" /\ ~job[j].result /\ job[j].error

Stages == \A j \in Jobs : Stage(j)

LEMMA PoolStep == TypeOK /\ OnceInPool /\ Stages /\ [Next]_vars => OnceInPool'
<1> SUFFICES ASSUME TypeOK, OnceInPool, Stages, [Next]_vars PROVE OnceInPool'
  OBVIOUS
<1> USE Names
<1>0. Len(queue) \in Nat
  BY LenProperties DEF TypeOK
<1>1. ASSUME NEW j \in Jobs, Submit(j) PROVE OnceInPool'
  <2>1. thread[j] = "none"
    BY <1>1 DEF Submit, Stages, Stage
  <2>2. UNCHANGED << queue, busy >> /\ thread' = [thread EXCEPT ![j] = "spawned"]
    BY <1>1 DEF Submit
  <2>3. \A i \in 1 .. Len(queue) : queue[i] # AJob(j)
    BY <2>1 DEF OnceInPool
  <2>4. busy[AJob(j)] = 0
    BY <2>1 DEF OnceInPool
  <2>5. \A k \in Jobs : k # j => thread'[k] = thread[k]
    BY <2>2 DEF TypeOK
  <2> QED BY <2>2, <2>3, <2>4, <2>5 DEF OnceInPool
<1>2. ASSUME NEW j \in Jobs, Begin(j) PROVE OnceInPool'
  <2>1. /\ thread[j] = "spawned" /\ thread' = [thread EXCEPT ![j] = "waiting"]
        /\ busy' = busy /\ Spawn(AJob(j))
    BY <1>2 DEF Begin, AJob
  <2>2. /\ Len(queue') = Len(queue) + 1
        /\ \A i \in 1 .. Len(queue) : queue'[i] = queue[i]
        /\ queue'[Len(queue) + 1] = AJob(j)
    BY <2>1, SpawnTypes DEF TypeOK
  <2>3. \A i \in 1 .. Len(queue) : queue[i] # AJob(j)
    BY <2>1 DEF OnceInPool
  <2>4. busy[AJob(j)] = 0
    BY <2>1 DEF OnceInPool
  <2>5. thread'[j] = "waiting" /\ \A k \in Jobs : k # j => thread'[k] = thread[k]
    BY <2>1 DEF TypeOK
  <2>6. ASSUME NEW k \in Jobs, NEW i \in 1 .. Len(queue'), queue'[i] = AJob(k)
        PROVE  thread'[k] = "waiting" /\ busy'[AJob(k)] = 0
    <3>1. CASE i = Len(queue) + 1
      BY <2>1, <2>2, <2>4, <2>5, <2>6, <3>1
    <3>2. CASE i # Len(queue) + 1
      <4>1. i \in 1 .. Len(queue)
        BY <1>0, <2>2, <3>2
      <4> QED BY <2>1, <2>2, <2>5, <2>6, <4>1 DEF OnceInPool
    <3> QED BY <3>1, <3>2
  <2>7. ASSUME NEW k \in Jobs, NEW i \in 1 .. Len(queue'), NEW n \in 1 .. Len(queue'),
               queue'[i] = AJob(k), queue'[n] = AJob(k)
        PROVE  i = n
    <3>1. CASE k = j
      BY <1>0, <2>2, <2>3, <2>7, <3>1
    <3>2. CASE k # j
      <4>1. i \in 1 .. Len(queue) /\ n \in 1 .. Len(queue)
        BY <1>0, <2>2, <2>7, <3>2
      <4> QED BY <2>2, <2>7, <4>1 DEF OnceInPool
    <3> QED BY <3>1, <3>2
  <2>8. \A k \in Jobs : busy'[AJob(k)] # 0 => thread'[k] = "waiting" /\ busy'[AJob(k)] = 1
    BY <2>1, <2>5 DEF OnceInPool
  <2> QED BY <2>6, <2>7, <2>8 DEF OnceInPool
<1>3. ASSUME NEW j \in Jobs, Execute(j) PROVE OnceInPool'
  <2>1. /\ busy[AJob(j)] > 0 /\ busy' = [busy EXCEPT ![AJob(j)] = @ - 1]
        /\ thread' = [thread EXCEPT ![j] = "returned"] /\ queue' = queue
    BY <1>3 DEF Execute, AJob
  <2>2. busy[AJob(j)] = 1 /\ \A i \in 1 .. Len(queue) : queue[i] # AJob(j)
    BY <2>1 DEF OnceInPool, TypeOK
  <2>3. \A k \in Jobs : k # j => thread'[k] = thread[k] /\ busy'[AJob(k)] = busy[AJob(k)]
    BY <2>1 DEF TypeOK
  <2>4. busy'[AJob(j)] = 0
    BY <2>1, <2>2 DEF TypeOK
  <2> QED BY <2>1, <2>2, <2>3, <2>4 DEF OnceInPool
<1>4. ASSUME NEW j \in Jobs, FinishJob(j) PROVE OnceInPool'
  <2>1. /\ thread[j] = "returned" /\ thread' = [thread EXCEPT ![j] = "done"]
        /\ UNCHANGED << queue, busy >>
    BY <1>4 DEF FinishJob
  <2>2. \A i \in 1 .. Len(queue) : queue[i] # AJob(j)
    BY <2>1 DEF OnceInPool
  <2>3. busy[AJob(j)] = 0
    BY <2>1 DEF OnceInPool
  <2>4. \A k \in Jobs : k # j => thread'[k] = thread[k]
    BY <2>1 DEF TypeOK
  <2> QED BY <2>1, <2>2, <2>3, <2>4 DEF OnceInPool
<1>5. CASE UNCHANGED << thread, queue, busy >>
  BY <1>5 DEF OnceInPool
<1>6. ASSUME NEW t \in Tasks, RunEnds(t) PROVE OnceInPool'
  <2>1. /\ busy' = [busy EXCEPT ![<< "task", t >>] = @ - 1]
        /\ UNCHANGED << thread, queue >>
    BY <1>6 DEF RunEnds, jobVars
  <2> QED BY <2>1 DEF OnceInPool, TypeOK
<1>7. ASSUME NEW t \in Tasks, Launch(t) PROVE OnceInPool'
  <2>1. Spawn(<< "task", t >>) /\ UNCHANGED << thread, busy >>
    BY <1>7 DEF Launch, jobVars
  <2>2. /\ Len(queue') = Len(queue) + 1
        /\ \A i \in 1 .. Len(queue) : queue'[i] = queue[i]
        /\ queue'[Len(queue) + 1] = << "task", t >>
    BY <2>1, SpawnTypes DEF TypeOK
  <2> QED BY <1>0, <2>1, <2>2 DEF OnceInPool
<1>8. CASE Take
  <2>1. /\ Len(queue') = Len(queue) - 1 /\ Len(queue) >= 1
        /\ \A i \in 1 .. Len(queue') : queue'[i] = queue[i + 1]
        /\ Head(queue) \in Work /\ Head(queue) = queue[1]
    BY <1>8, TakeTypes DEF TypeOK
  <2>2. busy' = [busy EXCEPT ![queue[1]] = @ + 1] /\ thread' = thread
    BY <1>8, <2>1 DEF Take, jobVars
  <2>3. \A i \in 1 .. Len(queue') : i + 1 \in 1 .. Len(queue) /\ i + 1 # 1
    BY <1>0, <2>1
  <2>4. 1 \in 1 .. Len(queue)
    BY <1>0, <2>1
  <2>5. ASSUME NEW j \in Jobs, NEW i \in 1 .. Len(queue'), queue'[i] = AJob(j)
        PROVE  thread'[j] = "waiting" /\ busy'[AJob(j)] = 0
    <3>1. queue[i + 1] = AJob(j) /\ queue[1] # AJob(j)
      BY <2>1, <2>3, <2>4, <2>5 DEF OnceInPool
    <3> QED BY <2>2, <2>3, <3>1 DEF OnceInPool, TypeOK
  <2>6. ASSUME NEW j \in Jobs, NEW i \in 1 .. Len(queue'), NEW k \in 1 .. Len(queue'),
               queue'[i] = AJob(j), queue'[k] = AJob(j)
        PROVE  i = k
    <3>1. queue[i + 1] = AJob(j) /\ queue[k + 1] = AJob(j)
      BY <2>1, <2>6
    <3>2. i + 1 = k + 1
      BY <2>3, <3>1 DEF OnceInPool
    <3> QED BY <3>2
  <2>7. ASSUME NEW j \in Jobs, busy'[AJob(j)] # 0
        PROVE  thread'[j] = "waiting" /\ busy'[AJob(j)] = 1
    <3>1. CASE queue[1] = AJob(j)
      BY <2>1, <2>2, <2>4, <3>1 DEF OnceInPool, TypeOK
    <3>2. CASE queue[1] # AJob(j)
      BY <2>1, <2>2, <2>7, <3>2 DEF OnceInPool, TypeOK
    <3> QED BY <3>1, <3>2
  <2> QED BY <2>5, <2>6, <2>7 DEF OnceInPool
<1>9. ASSUME NEW c \in Cancels, CancelWrite(c) \/ \E j \in Jobs : CancelRead(c, j)
      PROVE UNCHANGED << thread, queue, busy >>
  BY <1>9 DEF CancelWrite, CancelRead
<1>10. ASSUME NEW t \in Tasks, AddTask(t) \/ RemoveTask(t)
       PROVE UNCHANGED << thread, queue, busy >>
  BY <1>10 DEF AddTask, RemoveTask, jobVars
<1>11. ASSUME Scan \/ Sleep PROVE UNCHANGED << thread, queue, busy >>
  BY <1>11 DEF Scan, Sleep, jobVars
<1>12. CASE UNCHANGED vars
  BY <1>5, <1>12 DEF vars
<1> QED
  BY <1>1, <1>2, <1>3, <1>4, <1>5, <1>6, <1>7, <1>8, <1>9, <1>10, <1>11, <1>12
  DEF Next, JobStep, LoopStep

LEMMA UntouchedBefore ==
  ASSUME TypeOK, cancel' = cancel \/ (\E c \in Cancels, k \in Jobs : CancelRead(c, k))
                                \/ (\E c \in Cancels : CancelWrite(c)),
         NEW j \in Jobs, Untouched(j)'
  PROVE  Untouched(j)
<1>1. CASE cancel' = cancel
  BY <1>1 DEF Untouched
<1>2. ASSUME NEW c \in Cancels, NEW k \in Jobs, CancelRead(c, k) PROVE Untouched(j)
  <2>1. cancel[c].step = "none" /\ \A d \in Cancels \ {c} : cancel'[d] = cancel[d]
    BY <1>2 DEF CancelRead, TypeOK
  <2> QED BY <2>1 DEF Untouched
<1>3. ASSUME NEW c \in Cancels, CancelWrite(c) PROVE Untouched(j)
  <2>1. /\ cancel'[c].job = cancel[c].job /\ cancel'[c].step = "cancelled"
        /\ \A d \in Cancels \ {c} : cancel'[d] = cancel[d]
    BY <1>3 DEF CancelWrite, TypeOK
  <2> QED BY <2>1 DEF Untouched
<1> QED BY <1>1, <1>2, <1>3

LEMMA StageKept ==
  ASSUME TypeOK, NEW j \in Jobs, Stage(j),
         UNCHANGED << job[j], thread[j] >>, j \in ran <=> j \in ran',
         Untouched(j)' => Untouched(j)
  PROVE  Stage(j)'
BY DEF Stage

LEMMA StageStep == TypeOK /\ OnceInPool /\ Stages /\ [Next]_vars => Stages'
<1> SUFFICES ASSUME TypeOK, OnceInPool, Stages, [Next]_vars, NEW j \in Jobs
             PROVE  Stage(j)'
  BY DEF Stages
<1> USE Names
<1>0. Stage(j) /\ job[j] \in Job
  BY DEF Stages, TypeOK
<1>1. ASSUME NEW k \in Jobs, Submit(k) PROVE Stage(j)'
  <2>1. /\ job' = [job EXCEPT ![k].status = "Pending"]
        /\ thread' = [thread EXCEPT ![k] = "spawned"]
        /\ UNCHANGED << ran, cancel >> /\ job[k].status = "none"
    BY <1>1 DEF Submit, SetStatus
  <2>2. CASE k = j
    <3>1. /\ job'[j].status = "Pending" /\ job'[j].result = job[j].result
          /\ job'[j].error = job[j].error /\ thread'[j] = "spawned"
      BY <1>0, <2>1, <2>2 DEF TypeOK, Job
    <3>2. thread[j] = "none"
      BY <1>0, <2>1, <2>2 DEF Stage
    <3> QED BY <1>0, <2>1, <3>1, <3>2 DEF Stage
  <2>3. CASE k # j
    <3>1. UNCHANGED << job[j], thread[j] >>
      BY <2>1, <2>3 DEF TypeOK
    <3> QED BY <1>0, <2>1, <3>1, StageKept DEF Untouched
  <2> QED BY <2>2, <2>3
<1>2. ASSUME NEW k \in Jobs, Begin(k) PROVE Stage(j)'
  <2>1. /\ job' = [job EXCEPT ![k].status = "Running"]
        /\ thread[k] = "spawned" /\ thread' = [thread EXCEPT ![k] = "waiting"]
        /\ UNCHANGED << ran, cancel >>
    BY <1>2 DEF Begin, SetStatus
  <2>2. CASE k = j
    <3>1. /\ job'[j].status = "Running" /\ job'[j].result = job[j].result
          /\ job'[j].error = job[j].error /\ thread'[j] = "waiting"
      BY <1>0, <2>1, <2>2 DEF TypeOK, Job
    <3> QED BY <1>0, <2>1, <2>2, <3>1 DEF Stage
  <2>3. CASE k # j
    <3>1. UNCHANGED << job[j], thread[j] >>
      BY <2>1, <2>3 DEF TypeOK
    <3> QED BY <1>0, <2>1, <3>1, StageKept DEF Untouched
  <2> QED BY <2>2, <2>3
<1>3. ASSUME NEW k \in Jobs, Execute(k) PROVE Stage(j)'
  <2>1. /\ thread' = [thread EXCEPT ![k] = "returned"] /\ ran' = ran \cup {k}
        /\ UNCHANGED << job, cancel >>
    BY <1>3 DEF Execute
  <2>2. thread[k] = "waiting"
    BY <1>3 DEF Execute, OnceInPool, AJob, TypeOK
  <2>3. CASE k = j
    <3>1. thread'[j] = "returned" /\ j \in ran' /\ (Untouched(j)' <=> Untouched(j))
      BY <2>1, <2>3 DEF TypeOK, Untouched
    <3> QED BY <1>0, <2>1, <2>2, <2>3, <3>1 DEF Stage
  <2>4. CASE k # j
    <3>1. UNCHANGED << job[j], thread[j] >> /\ (j \in ran <=> j \in ran')
      BY <2>1, <2>4 DEF TypeOK
    <3> QED BY <1>0, <2>1, <3>1, StageKept DEF Untouched
  <2> QED BY <2>3, <2>4
<1>4. ASSUME NEW k \in Jobs, FinishJob(k) PROVE Stage(j)'
  <2>1. /\ thread[k] = "returned" /\ thread' = [thread EXCEPT ![k] = "done"]
        /\ UNCHANGED << ran, cancel >>
        /\ job' = IF outcome[k] = "output"
                    THEN [job EXCEPT ![k].status = "Completed", ![k].result = TRUE]
                    ELSE [job EXCEPT ![k].status = "Failed", ![k].error = TRUE]
    BY <1>4 DEF FinishJob
  <2>2. CASE k = j
    <3>1. ~job[j].result /\ ~job[j].error /\ j \in ran
      BY <1>0, <2>1, <2>2 DEF Stage
    <3>2. \/ job'[j].status = "Completed" /\ job'[j].result /\ ~job'[j].error
          \/ job'[j].status = "Failed" /\ ~job'[j].result /\ job'[j].error
      <4>1. CASE outcome[k] = "output"
        BY <1>0, <2>1, <2>2, <3>1, <4>1 DEF TypeOK, Job
      <4>2. CASE outcome[k] # "output"
        BY <1>0, <2>1, <2>2, <3>1, <4>2 DEF TypeOK, Job
      <4> QED BY <4>1, <4>2
    <3>3. thread'[j] = "done" /\ j \in ran'
      BY <2>1, <2>2, <3>1 DEF TypeOK
    <3> QED BY <3>2, <3>3 DEF Stage
  <2>3. CASE k # j
    <3>1. UNCHANGED << job[j], thread[j] >>
      BY <2>1, <2>3 DEF TypeOK
    <3> QED BY <1>0, <2>1, <3>1, StageKept DEF Untouched
  <2> QED BY <2>2, <2>3
<1>5. ASSUME NEW c \in Cancels, CancelWrite(c) PROVE Stage(j)'
  <2>1. /\ cancel[c].step = "pending" /\ UNCHANGED << thread, ran >>
        /\ job' = [job EXCEPT ![cancel[c].job].status = "Failed"]
        /\ cancel' = [cancel EXCEPT ![c].step = "cancelled"]
    BY <1>5 DEF CancelWrite, SetStatus
  <2>2. Untouched(j)' => Untouched(j)
    BY <1>5, UntouchedBefore
  <2>3. CASE cancel[c].job = j
    <3>1. ~Untouched(j)'
      BY <2>1, <2>3 DEF Untouched, TypeOK
    <3>2. /\ job'[j].status = "Failed" /\ job'[j].result = job[j].result
          /\ job'[j].error = job[j].error
      BY <1>0, <2>1, <2>3 DEF TypeOK, Job
    <3> QED BY <1>0, <2>1, <3>1, <3>2 DEF Stage
  <2>4. CASE cancel[c].job # j
    <3>1. job'[j] = job[j]
      BY <2>1, <2>4 DEF TypeOK
    <3> QED BY <1>0, <2>1, <2>2, <3>1, StageKept
  <2> QED BY <2>3, <2>4
<1>6. ASSUME NEW c \in Cancels, NEW k \in Jobs, CancelRead(c, k) PROVE Stage(j)'
  <2>1. UNCHANGED << job, thread, ran >>
    BY <1>6 DEF CancelRead
  <2>2. Untouched(j)' => Untouched(j)
    BY <1>6, UntouchedBefore
  <2> QED BY <1>0, <2>1, <2>2, StageKept
<1>7. CASE UNCHANGED << job, thread, ran, cancel >>
  BY <1>0, <1>7, StageKept DEF Untouched
<1>8. ASSUME NEW t \in Tasks, AddTask(t) \/ RemoveTask(t) \/ RunEnds(t) \/ Launch(t)
      PROVE UNCHANGED << job, thread, ran, cancel >>
  BY <1>8 DEF AddTask, RemoveTask, RunEnds, Launch, jobVars
<1>9. ASSUME Scan \/ Sleep \/ Take PROVE UNCHANGED << job, thread, ran, cancel >>
  BY <1>9 DEF Scan, Sleep, Take, jobVars
<1>10. CASE UNCHANGED vars
  BY <1>7, <1>10 DEF vars
<1> QED
  BY <1>1, <1>2, <1>3, <1>4, <1>5, <1>6, <1>7, <1>8, <1>9, <1>10
  DEF Next, JobStep, LoopStep

(* What GET /jobs/:id reports has happened, once, unless a cancellation     *)
(* that had read the job as Pending set the status.                         *)
THEOREM ReportsHappened == Spec => []ReportsWhatHappened
<1>1. Init => OnceInPool /\ Stages
  <2> SUFFICES ASSUME Init PROVE OnceInPool /\ Stages
    OBVIOUS
  <2>1. Len(queue) = 0
    BY EmptySeq DEF Init
  <2>2. \A j \in Jobs : busy[AJob(j)] = 0
    BY Names DEF Init
  <2> QED BY <2>1, <2>2 DEF Init, OnceInPool, Stages, Stage, Untouched
<1>2. TypeOK /\ Stages => ReportsWhatHappened
  <2> SUFFICES ASSUME TypeOK, Stages, NEW j \in Jobs, Untouched(j)
               PROVE  /\ job[j].status = "Completed" <=> job[j].result
                      /\ job[j].status = "Failed" <=> job[j].error
                      /\ Terminal(j) => j \in ran
                      /\ job[j].status \in {"none", "Pending"} => j \notin ran
    BY DEF ReportsWhatHappened, Untouched
  <2>1. Stage(j) /\ thread[j] \in {"none", "spawned", "waiting", "returned", "done"}
        /\ job[j].result \in BOOLEAN /\ job[j].error \in BOOLEAN
    BY DEF Stages, TypeOK, Job
  <2> QED BY <2>1 DEF Stage, Terminal
<1> QED BY <1>1, <1>2, PoolStep, StageStep, TypesKept, PTL DEF Spec
=============================================================================
