--------------------------- MODULE BackgroundWork ---------------------------
(***************************************************************************)
(* What `linal serve` runs without a client waiting: jobs (server::jobs,   *)
(* submit_job, cancel_job, get_job) and scheduled tasks                    *)
(* (server::scheduler).  Both hand their statement to tokio's blocking     *)
(* pool, a first-in first-out queue served by a bounded number of threads; *)
(* what the statement does there is module SharedEngine's subject.         *)
(*                                                                         *)
(* A handler runs on an async worker thread next to the others: it reads   *)
(* the job table, and updates it later under another hold of its mutex.    *)
(* Time is the scheduler's: it passes while the loop sleeps.               *)
(***************************************************************************)
EXTENDS Integers, Sequences, SequencesExt

CONSTANTS
  Jobs,       \* POST /jobs (bound)
  Cancels,    \* DELETE /jobs/:id (bound)
  Tasks,      \* POST /schedule (bound)
  Interval,   \* interval_secs of each task, in rounds of the loop
  NoJob,
  PoolSize,   \* threads of the blocking pool
  MaxQueue    \* bound: work waiting for a thread when a task is launched

ASSUME IntervalAssumption == Interval \in [Tasks -> Nat]
ASSUME NoJobAssumption == NoJob \notin Jobs
ASSUME PoolAssumption == PoolSize \in Nat \ {0} /\ MaxQueue \in Nat \ {0}

VARIABLES
  job,      \* JobManager::jobs
  thread,   \* where the tokio task behind each job is
  outcome,  \* what executing the job's statement returned
  ran,      \* history: jobs whose statement has been executed
  cancel,   \* DELETE /jobs/:id requests
  queue,    \* statements waiting for a thread of the blocking pool
  busy,     \* statements being executed: how many of each
  task,     \* Scheduler::tasks
  wait,     \* rounds until last_run + interval_secs, 0 when due
  due,      \* tasks_to_run: clones taken under the lock, launched without it
  loop,     \* where the scheduler's loop is
  late      \* history: launches of a task after its removal was answered

jobVars == << job, thread, outcome, ran, cancel >>
scheduleVars == << task, wait, due, loop, late >>
vars == << job, thread, outcome, ran, cancel, queue, busy,
           task, wait, due, loop, late >>

Statuses == {"none", "Pending", "Running", "Completed", "Failed"}
Job == [status : Statuses, result : BOOLEAN, error : BOOLEAN]
Work == ({"job"} \X Jobs) \cup ({"task"} \X Tasks)

Init ==
  /\ job = [j \in Jobs |-> [status |-> "none", result |-> FALSE, error |-> FALSE]]
  /\ thread = [j \in Jobs |-> "none"]
  /\ outcome = [j \in Jobs |-> "none"]
  /\ ran = {}
  /\ cancel = [c \in Cancels |-> [job |-> NoJob, step |-> "none"]]
  /\ queue = << >>
  /\ busy = [w \in Work |-> 0]
  /\ task = [t \in Tasks |-> "none"]
  /\ wait = [t \in Tasks |-> 0]
  /\ due = {}
  /\ loop = "scan"
  /\ late = [t \in Tasks |-> 0]

-----------------------------------------------------------------------------
(* The blocking pool.                                                       *)
Threads == MapThenSumSet(LAMBDA w : busy[w], Work)

Spawn(work) == queue' = Append(queue, work)

(* Mutant of Take: the work that came last is taken first.                  *)
TakeLast ==
  /\ queue # << >> /\ Threads < PoolSize
  /\ busy' = [busy EXCEPT ![Last(queue)] = @ + 1]
  /\ queue' = Front(queue)
  /\ UNCHANGED << jobVars, scheduleVars >>

Take ==
  /\ queue # << >> /\ Threads < PoolSize
  /\ busy' = [busy EXCEPT ![Head(queue)] = @ + 1]
  /\ queue' = Tail(queue)
  /\ UNCHANGED << jobVars, scheduleVars >>

-----------------------------------------------------------------------------
(* Jobs.                                                                    *)
SetStatus(j, status) == job' = [job EXCEPT ![j].status = status]

Submit(j) ==
  /\ job[j].status = "none"
  /\ SetStatus(j, "Pending")
  /\ thread' = [thread EXCEPT ![j] = "spawned"]
  /\ UNCHANGED << outcome, ran, cancel, queue, busy, scheduleVars >>

(* The spawned task marks the job Running, whatever it is by now.           *)
Begin(j) ==
  /\ thread[j] = "spawned"
  /\ SetStatus(j, "Running")
  /\ Spawn(<< "job", j >>)
  /\ thread' = [thread EXCEPT ![j] = "waiting"]
  /\ UNCHANGED << outcome, ran, cancel, busy, scheduleVars >>

Execute(j) ==
  /\ busy[<< "job", j >>] > 0
  /\ busy' = [busy EXCEPT ![<< "job", j >>] = @ - 1]
  /\ ran' = ran \cup {j}
  /\ \E result \in {"output", "error", "panic"} : outcome' = [outcome EXCEPT ![j] = result]
  /\ thread' = [thread EXCEPT ![j] = "returned"]
  /\ UNCHANGED << job, cancel, queue, scheduleVars >>

(* Mutant of FinishJob: the status is set, the result or error is not.      *)
FinishJobStatusOnly(j) ==
  /\ thread[j] = "returned"
  /\ thread' = [thread EXCEPT ![j] = "done"]
  /\ SetStatus(j, IF outcome[j] = "output" THEN "Completed" ELSE "Failed")
  /\ UNCHANGED << outcome, ran, cancel, queue, busy, scheduleVars >>

FinishJob(j) ==
  /\ thread[j] = "returned"
  /\ thread' = [thread EXCEPT ![j] = "done"]
  /\ job' = IF outcome[j] = "output"
              THEN [job EXCEPT ![j].status = "Completed", ![j].result = TRUE]
              ELSE [job EXCEPT ![j].status = "Failed", ![j].error = TRUE]
  /\ UNCHANGED << outcome, ran, cancel, queue, busy, scheduleVars >>

(* cancel_job reads a copy of the job ...                                   *)
CancelRead(c, j) ==
  /\ cancel[c].step = "none" /\ job[j].status # "none"
  /\ cancel' = [cancel EXCEPT ![c] =
       [job |-> j, step |-> IF job[j].status = "Pending" THEN "pending" ELSE "refused"]]
  /\ UNCHANGED << job, thread, outcome, ran, queue, busy, scheduleVars >>

(* ... and marks it Failed later, without looking again.                    *)
CancelWrite(c) ==
  /\ cancel[c].step = "pending"
  /\ SetStatus(cancel[c].job, "Failed")
  /\ cancel' = [cancel EXCEPT ![c].step = "cancelled"]
  /\ UNCHANGED << thread, outcome, ran, queue, busy, scheduleVars >>

-----------------------------------------------------------------------------
(* Scheduled tasks.                                                         *)
AddTask(t) ==
  /\ task[t] = "none"
  /\ task' = [task EXCEPT ![t] = "listed"]
  /\ UNCHANGED << jobVars, queue, busy, wait, due, loop, late >>

RemoveTask(t) ==
  /\ task[t] = "listed"
  /\ task' = [task EXCEPT ![t] = "removed"]
  /\ UNCHANGED << jobVars, queue, busy, wait, due, loop, late >>

(* Mutant of IsDue: a task that has been removed meanwhile stays.           *)
IsDueRemoved(t) == task[t] # "none" /\ wait[t] = 0

IsDue(t) == task[t] = "listed" /\ wait[t] = 0

(* Mutant of Scan: every pass counts as a run of every task.                *)
ScanTouchesAll ==
  /\ loop = "scan"
  /\ due' = {t \in Tasks : IsDue(t)}
  /\ wait' = [t \in Tasks |-> IF task[t] = "listed" THEN Interval[t] ELSE wait[t]]
  /\ loop' = "launch"
  /\ UNCHANGED << jobVars, queue, busy, task, late >>

(* One pass under the lock: clone what is due, set its last_run.            *)
Scan ==
  /\ loop = "scan"
  /\ due' = {t \in Tasks : IsDue(t)}
  /\ wait' = [t \in Tasks |-> IF IsDue(t) THEN Interval[t] ELSE wait[t]]
  /\ loop' = "launch"
  /\ UNCHANGED << jobVars, queue, busy, task, late >>

(* The clones are launched, whether or not the task has been removed since  *)
(* or its previous run has ended.                                           *)
Launch(t) ==
  /\ loop = "launch" /\ t \in due
  /\ Len(queue) < MaxQueue
  /\ Spawn(<< "task", t >>)
  /\ due' = due \ {t}
  /\ late' = IF task[t] = "removed" THEN [late EXCEPT ![t] = @ + 1] ELSE late
  /\ UNCHANGED << jobVars, busy, task, wait, loop >>

Sleep ==
  /\ loop = "launch" /\ due = {}
  /\ wait' = [t \in Tasks |-> IF wait[t] = 0 THEN 0 ELSE wait[t] - 1]
  /\ loop' = "scan"
  /\ UNCHANGED << jobVars, queue, busy, task, due, late >>

RunEnds(t) ==
  /\ busy[<< "task", t >>] > 0
  /\ busy' = [busy EXCEPT ![<< "task", t >>] = @ - 1]
  /\ UNCHANGED << jobVars, queue, scheduleVars >>

-----------------------------------------------------------------------------
JobStep(j) == Begin(j) \/ Execute(j) \/ FinishJob(j)
LoopStep == Scan \/ (\E t \in Tasks : Launch(t)) \/ Sleep

Next ==
  \/ \E j \in Jobs : Submit(j) \/ JobStep(j)
  \/ \E c \in Cancels : CancelWrite(c) \/ \E j \in Jobs : CancelRead(c, j)
  \/ \E t \in Tasks : AddTask(t) \/ RemoveTask(t) \/ RunEnds(t)
  \/ LoopStep
  \/ Take

(* The runtime polls every task, the pool serves its queue, and statements  *)
(* end.                                                                     *)
Spec ==
  /\ Init /\ [][Next]_vars
  /\ WF_vars(Take) /\ WF_vars(LoopStep)
  /\ \A j \in Jobs : WF_vars(Begin(j)) /\ WF_vars(Execute(j)) /\ WF_vars(FinishJob(j))
  /\ \A t \in Tasks : WF_vars(RunEnds(t))

-----------------------------------------------------------------------------
(* Properties.                                                              *)

(* The shape of the state.                                                  *)
TypeOK ==
  /\ job \in [Jobs -> Job]
  /\ thread \in [Jobs -> {"none", "spawned", "waiting", "returned", "done"}]
  /\ outcome \in [Jobs -> {"none", "output", "error", "panic"}]
  /\ ran \subseteq Jobs
  /\ cancel \in [Cancels -> [job : Jobs \cup {NoJob},
                             step : {"none", "pending", "cancelled", "refused"}]]
  /\ queue \in Seq(Work)
  /\ busy \in [Work -> Nat]
  /\ task \in [Tasks -> {"none", "listed", "removed"}]
  /\ \A t \in Tasks : wait[t] \in 0 .. Interval[t]
  /\ due \subseteq Tasks /\ loop \in {"scan", "launch"}
  /\ late \in [Tasks -> Nat]

Terminal(j) == job[j].status \in {"Completed", "Failed"}

(* What GET /jobs/:id/result reports has happened: a result or an error is  *)
(* there when the status promises it and the statement has been executed,   *)
(* unless a cancellation set the status.                                    *)
ReportsWhatHappened ==
  \A j \in Jobs :
    (\A c \in Cancels : cancel[c].job = j => cancel[c].step \in {"none", "refused"}) =>
      /\ job[j].status = "Completed" <=> job[j].result
      /\ job[j].status = "Failed" <=> job[j].error
      /\ Terminal(j) => j \in ran
      /\ job[j].status \in {"none", "Pending"} => j \notin ran

(* Every accepted job comes to a terminal status and stays there, however   *)
(* cancellations and scheduled runs compete with it for threads.            *)
JobsEnd == \A j \in Jobs : job[j].status = "Pending" ~> [](Terminal(j))

(* A task runs again and again until it is removed.                         *)
TasksRecur ==
  \A t \in Tasks : [](task[t] = "listed" =>
    <>(task[t] = "removed" \/ \E i \in DOMAIN queue : queue[i] = << "task", t >>))

(* DELETE /schedule/:id stops a task: at most the launch that was already   *)
(* under way follows its answer.                                            *)
RemovedTasksStop == \A t \in Tasks : late[t] <= 1

=============================================================================
