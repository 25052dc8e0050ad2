--------------------------- MODULE TaskOrchestrator ---------------------------
(***************************************************************************)
(* The task orchestrator of the desktop process (src/orchestrator) with    *)
(* its worker pool, retry scheduler and state machine.                     *)
(*                                                                         *)
(* JavaScript runs one callback at a time, so a stretch of code between    *)
(* two awaits is one action.  startTask suspends twice: in                 *)
(* executor.execute and in registry.saveTask; pauseTask and resumeTask     *)
(* once, in saveTask.  Each suspended startTask call is a record of `runs` *)
(* (the worker id is a local variable of the call), each suspended         *)
(* pauseTask or resumeTask call is counted in pauseSaves or resumeSaves.   *)
(*                                                                         *)
(* The executor is any ITaskExecutor: it ends a run with success, with     *)
(* failure, with failure and retryPolicy.blocked, or with an exception.    *)
(***************************************************************************)
EXTENDS Naturals, Sequences, SequencesExt, TaskStateMachine

CONSTANTS
  Tasks,           \* task ids
  Workers,         \* worker ids
  NoWorker,        \* "this task has no worker"
  GateChildren,    \* the tasks that are early-gate browser children
  Monitors,        \* the tasks that run until they are stopped
  MaxRetries,      \* task.maxRetries
  MaxSaves,        \* bound: suspended pause (or resume) calls per task
  OrderedProgress, \* the executor reports success only after its progress
                   \* updates brought the task to a state that can complete
  ReliableSaves    \* registry.saveTask never throws

ASSUME OrchestratorAssumption ==
  /\ NoWorker \notin Workers
  /\ GateChildren \subseteq Tasks
  /\ Monitors \subseteq Tasks
  /\ MaxRetries \in Nat
  /\ MaxSaves \in Nat
  /\ OrderedProgress \in BOOLEAN
  /\ ReliableSaves \in BOOLEAN

VARIABLES
  state,         \* task.state, or ABSENT for an id not created yet
  retries,       \* task.retries
  retryBlocked,  \* task.config.data.retryPolicy.blocked
  pending,       \* pendingTaskIds (pendingTaskIdSet is the set of its elements)
  pausedRunning, \* pausedRunningTaskIds
  retryTimer,    \* tasks with a scheduled retry timer
  workers,       \* the workers added to the pool
  available,     \* the idle ones; which of them is taken makes no difference
  assignment,    \* WorkerPool.assignments: task to worker
  runs,          \* suspended startTask calls
  pauseSaves,    \* suspended pauseTask calls of a task
  resumeSaves    \* suspended resumeTask calls of a task

vars == <<state, retries, retryBlocked, pending, pausedRunning, retryTimer,
          workers, available, assignment, runs, pauseSaves, resumeSaves>>
taskVars == <<retries, retryBlocked>>
poolVars == <<workers, available, assignment, runs>>
saveVars == <<pauseSaves, resumeSaves>>

Run == [task : Tasks, worker : Workers, phase : {"executing", "saving"}]
NewRun(t, w) == [task |-> t, worker |-> w, phase |-> "executing"]

Executing(t) == \E r \in runs : r.task = t /\ r.phase = "executing"

\* The run of t was stopped by a pause or cancel: its result must not count.
Interrupted(t) == state[t] \in {"CANCELLED", "PAUSED"} \/ t \in pausedRunning

-------------------------------------------------------------------------------
(* The pending queue and the pool.                                         *)

Enqueue(queue, t) == IF t \in ToSet(queue) THEN queue ELSE Append(queue, t)

Without(queue, t) ==
  IF t \in ToSet(queue)
  THEN RemoveAt(queue, CHOOSE i \in DOMAIN queue : queue[i] = t)
  ELSE queue

\* hasAssignment, which assignTask and drainQueue ask before they hand out a worker:
\* the task's previous call has yet to return.
\* Slip: nobody asks.
OwnsWorkerIgnored(owner, t) == FALSE

OwnsWorker(owner, t) == owner[t] # NoWorker

\* The assignments after the worker of a returning call went back to the pool.
\* Slip: the worker becomes idle and the assignment stays.
ReleasedHalf(w) == assignment

Released(w) == [t \in Tasks |-> IF assignment[t] = w THEN NoWorker ELSE assignment[t]]

\* `order` lists queue positions from the front to the back of the queue.
Ascending(order) == \A i, j \in DOMAIN order : i < j => order[i] < order[j]

\* drainQueue, run when the queue, the idle workers, the assignments and the
\* suspended calls are `queue`, `idle`, `owner` and `calls`, and task states are
\* `st`.  The loop inspects a prefix of the queue and stops when it has inspected
\* every entry or has given away the last idle worker.  An inspected entry that is
\* not QUEUED is dropped, one whose task still owns a worker goes to the end of
\* the queue, any other one is started.
DrainQueue(st, queue, idle, owner, calls) ==
  \E n \in 0 .. Len(queue) :
    LET inspected == {i \in 1 .. n : st[queue[i]] = "QUEUED"}
        blocked   == {i \in inspected : OwnsWorker(owner, queue[i])}
        started   == {queue[i] : i \in inspected \ blocked}
    IN \E taken \in [started -> idle], order \in [1 .. Cardinality(blocked) -> blocked] :
         LET rest == idle \ {taken[t] : t \in started}
         IN /\ \A t, u \in started : t # u => taken[t] # taken[u]
            /\ Ascending(order)
            /\ IF rest = {} THEN n > 0 => n \in inspected \ blocked
                            ELSE n = Len(queue)
            /\ pending' = SubSeq(queue, n + 1, Len(queue))
                            \o [i \in DOMAIN order |-> queue[order[i]]]
            /\ available' = rest
            /\ state' = [t \in Tasks |-> IF t \in started THEN "RUNNING" ELSE st[t]]
            /\ assignment' = [t \in Tasks |-> IF t \in started THEN taken[t] ELSE owner[t]]
            /\ runs' = calls \cup {NewRun(t, taken[t]) : t \in started}

\* startTask on a task that is QUEUED in `st`: it runs at once on an idle worker,
\* unless there is none or the task still owns one; then it waits.
BeginTask(t, st) ==
  \/ /\ ~OwnsWorker(assignment, t)
     /\ \E w \in available :
          /\ available' = available \ {w}
          /\ assignment' = [assignment EXCEPT ![t] = w]
          /\ runs' = runs \cup {NewRun(t, w)}
     /\ state' = [st EXCEPT ![t] = "RUNNING"]
     /\ pending' = Without(pending, t)
  \/ /\ OwnsWorker(assignment, t) \/ available = {}
     /\ state' = st
     /\ pending' = Enqueue(pending, t)
     /\ UNCHANGED <<available, assignment, runs>>

\* The timers left after cancelRetry.
RetryCancelled(t) == retryTimer \ {t}

\* The marks after a pause: a task shown as running has a call that must be told, when
\* it returns, that it was interrupted, for the task may be QUEUED again by then.
\* Slip: no mark is left.
PauseUnmarked(t) == pausedRunning

PauseMarks(t) ==
  IF state[t] \in RunningLike THEN pausedRunning \cup {t} ELSE pausedRunning

-------------------------------------------------------------------------------
(* Start-up.                                                               *)

\* initialize on a task found in the store.
\* Slip: a task whose run ended with the program is left as it was shown.
RestoredActive(s) == IF s = "CREATED" THEN "QUEUED" ELSE s

Restored(s) ==
  IF s = "CREATED" THEN "QUEUED"
  ELSE IF s \in RecoverableActive THEN "PAUSED" ELSE s

Init ==
  /\ \E stored \in [Tasks -> TaskState \cup {"ABSENT"}] :
       state = [t \in Tasks |-> Restored(stored[t])]
  /\ retries \in [Tasks -> 0 .. MaxRetries]
  /\ retryBlocked \in [Tasks -> BOOLEAN]
  /\ \A t \in Tasks : state[t] = "ABSENT" => retries[t] = 0 /\ ~retryBlocked[t]
  /\ pending = <<>>
  /\ pausedRunning = {}
  /\ retryTimer = {}
  /\ workers = {}
  /\ available = {}
  /\ assignment = [t \in Tasks |-> NoWorker]
  /\ runs = {}
  /\ pauseSaves = [t \in Tasks |-> 0]
  /\ resumeSaves = [t \in Tasks |-> 0]

AddWorker(w) ==
  /\ w \notin workers
  /\ workers' = workers \cup {w}
  /\ DrainQueue(state, pending, available \cup {w}, assignment, runs)
  /\ UNCHANGED <<taskVars, pausedRunning, retryTimer, saveVars>>

-------------------------------------------------------------------------------
(* Commands of the user interface.                                         *)

CreateTask(t) ==
  /\ state[t] = "ABSENT"
  /\ state' = [state EXCEPT ![t] = "QUEUED"]
  /\ UNCHANGED <<taskVars, pending, pausedRunning, retryTimer, poolVars, saveVars>>

StartTask(t) ==
  /\ state[t] = "QUEUED"
  /\ BeginTask(t, state)
  /\ UNCHANGED <<taskVars, pausedRunning, retryTimer, workers, saveVars>>

PauseTask(t) ==
  /\ CanTransition(state[t], "PAUSED")
  /\ pauseSaves[t] < MaxSaves
  /\ pending' = Without(pending, t)
  /\ retryTimer' = RetryCancelled(t)
  /\ pausedRunning' = PauseMarks(t)
  /\ state' = [state EXCEPT ![t] = "PAUSED"]
  /\ pauseSaves' = [pauseSaves EXCEPT ![t] = @ + 1]
  /\ UNCHANGED <<taskVars, poolVars, resumeSaves>>

\* The queue entry and the timer are gone before the state is looked at.
PauseRefused(t) ==
  /\ state[t] \in TaskState
  /\ ~CanTransition(state[t], "PAUSED")
  /\ pending' = Without(pending, t)
  /\ retryTimer' = RetryCancelled(t)
  /\ UNCHANGED <<state, taskVars, pausedRunning, poolVars, saveVars>>

PauseSaved(t) ==
  /\ pauseSaves[t] > 0
  /\ pauseSaves' = [pauseSaves EXCEPT ![t] = @ - 1]
  /\ DrainQueue(state, pending, available, assignment, runs)
  /\ UNCHANGED <<taskVars, pausedRunning, retryTimer, workers, resumeSaves>>

ResumeTask(t) ==
  /\ state[t] = "PAUSED"
  /\ resumeSaves[t] < MaxSaves
  /\ state' = [state EXCEPT ![t] = "QUEUED"]
  /\ resumeSaves' = [resumeSaves EXCEPT ![t] = @ + 1]
  /\ UNCHANGED <<taskVars, pending, pausedRunning, retryTimer, poolVars, pauseSaves>>

\* The task is put in the queue whatever state it is in by now.
ResumeSaved(t) ==
  /\ resumeSaves[t] > 0
  /\ resumeSaves' = [resumeSaves EXCEPT ![t] = @ - 1]
  /\ DrainQueue(state, Enqueue(pending, t), available, assignment, runs)
  /\ UNCHANGED <<taskVars, pausedRunning, retryTimer, workers, pauseSaves>>

\* saveTask threw in pauseTask or resumeTask: what comes after it is not done.
SaveFails(t) ==
  /\ ~ReliableSaves
  /\ \/ /\ pauseSaves[t] > 0
        /\ pauseSaves' = [pauseSaves EXCEPT ![t] = @ - 1]
        /\ UNCHANGED resumeSaves
     \/ /\ resumeSaves[t] > 0
        /\ resumeSaves' = [resumeSaves EXCEPT ![t] = @ - 1]
        /\ UNCHANGED pauseSaves
  /\ UNCHANGED <<state, taskVars, pending, pausedRunning, retryTimer, poolVars>>

CancelTask(t) ==
  /\ state[t] \in TaskState
  /\ pending' = Without(pending, t)
  /\ pausedRunning' = pausedRunning \ {t}
  /\ retryTimer' = RetryCancelled(t)
  /\ state' = IF CanTransition(state[t], "CANCELLED")
              THEN [state EXCEPT ![t] = "CANCELLED"] ELSE state
  /\ UNCHANGED <<taskVars, poolVars, saveVars>>

-------------------------------------------------------------------------------
(* Progress and result of a run.                                           *)

\* setTaskQueueWaiting: the state shown once the executor says whether the task
\* waits in the shop's queue, and in which phase that queue is.
QueueDisplay(t, s, waiting, phase) ==
  IF waiting
  THEN IF s = "RUNNING" THEN "WAITING_QUEUE" ELSE s
  ELSE IF s = "WAITING_QUEUE" /\ t \in GateChildren /\ phase = "released"
  THEN "POST_QUEUE_DISCOVERY"
  ELSE IF s = "WAITING_QUEUE" /\ t \notin GateChildren /\ phase # "timed-out"
  THEN "RUNNING" ELSE s

\* applyEarlyGateFlowState: the stage of an early-gate child, when the table
\* allows it from the present state.
FlowDisplay(t, s, stage) ==
  IF t \in GateChildren /\ CanTransition(s, stage) THEN stage ELSE s

FlowStages == { "none", "POST_QUEUE_DISCOVERY", "PRODUCT_FOUND", "CART", "CHECKOUT" }

\* handleRuntimeTaskUpdate; the client drops updates of a task it does not execute.
ProgressUpdate(t, waiting, phase, stage) ==
  /\ Executing(t)
  /\ LET shown == QueueDisplay(t, state[t], waiting, phase)
     IN state' = [state EXCEPT ![t] = IF waiting THEN shown
                                      ELSE FlowDisplay(t, shown, stage)]
  /\ UNCHANGED <<taskVars, pending, pausedRunning, retryTimer, poolVars, saveVars>>

Progress(t) ==
  \E waiting \in BOOLEAN, phase \in {"waiting", "released", "timed-out"}, stage \in FlowStages :
    ProgressUpdate(t, waiting, phase, stage)

\* The call r goes on to its last await, registry.saveTask.
BeginSave(r) == runs' = (runs \ {r}) \cup {[r EXCEPT !.phase = "saving"]}

\* The finally block of startTask: releaseWorker, then drainQueue.
\* Slip: no drainQueue.
EndRunUndrained(r) ==
  /\ available' = available \cup {r.worker}
  /\ assignment' = Released(r.worker)
  /\ runs' = runs \ {r}
  /\ UNCHANGED <<state, pending>>

EndRun(r) ==
  DrainQueue(state, pending, available \cup {r.worker}, Released(r.worker), runs \ {r})

\* execute ended after the task was paused or cancelled.  If it was resumed in the
\* meantime, it is queued again; its state is left alone.
ReturnInterrupted(r) ==
  /\ r.phase = "executing" /\ Interrupted(r.task)
  /\ pausedRunning' = pausedRunning \ {r.task}
  /\ pending' = IF r.task \in pausedRunning /\ state[r.task] = "QUEUED"
                THEN Enqueue(pending, r.task) ELSE pending
  /\ retryBlocked' \in {retryBlocked, [retryBlocked EXCEPT ![r.task] = TRUE]}
  /\ BeginSave(r)
  /\ UNCHANGED <<state, retries, retryTimer, workers, available, assignment, saveVars>>

ReturnSuccess(r) ==
  /\ r.phase = "executing" /\ ~Interrupted(r.task)
  /\ CanComplete(state[r.task])
  /\ state' = [state EXCEPT ![r.task] = "SUCCESS"]
  /\ BeginSave(r)
  /\ UNCHANGED <<taskVars, pending, pausedRunning, retryTimer, workers, available,
                 assignment, saveVars>>

\* completeSuccessfulTask throws: the call ends without a save and without a
\* change of the task's state.
ReturnSuccessRefused(r) ==
  /\ ~OrderedProgress
  /\ r.phase = "executing" /\ ~Interrupted(r.task)
  /\ ~CanComplete(state[r.task])
  /\ EndRun(r)
  /\ UNCHANGED <<taskVars, pausedRunning, retryTimer, workers, saveVars>>

\* The taskFailed listener's decision on a failed run of t that left retryPolicy.blocked
\* set if `blocked`, or found it set by an earlier run.
\* Slips: one retry too many; only what this run reports is looked at.
MayRetryOnceMore(t, blocked) == ~(retryBlocked[t] \/ blocked) /\ retries[t] <= MaxRetries
MayRetryForgetful(t, blocked) == ~blocked /\ retries[t] < MaxRetries

MayRetry(t, blocked) == ~(retryBlocked[t] \/ blocked) /\ retries[t] < MaxRetries

\* execute returned false or threw.  The taskFailed listener of the constructor
\* runs inside the emit: a task with retries left goes on to RETRYING at once.
ReturnFailure(r, blocked) ==
  /\ r.phase = "executing" /\ ~Interrupted(r.task)
  /\ CanTransition(state[r.task], "FAILED")
  /\ retryBlocked' = [retryBlocked EXCEPT ![r.task] = @ \/ blocked]
  /\ IF MayRetry(r.task, blocked)
     THEN /\ retries' = [retries EXCEPT ![r.task] = @ + 1]
          /\ state' = [state EXCEPT ![r.task] = "RETRYING"]
          /\ retryTimer' = retryTimer \cup {r.task}
     ELSE /\ state' = [state EXCEPT ![r.task] = "FAILED"]
          /\ UNCHANGED <<retries, retryTimer>>
  /\ BeginSave(r)
  /\ UNCHANGED <<pending, pausedRunning, workers, available, assignment, saveVars>>

\* saveTask ended, one way or the other: the finally block runs.
RunSaved(r) ==
  /\ r.phase = "saving"
  /\ EndRun(r)
  /\ UNCHANGED <<taskVars, pausedRunning, retryTimer, workers, saveVars>>

\* The timer of scheduleRetry and the taskRetrying listener it emits to.
RetryFires(t) ==
  /\ t \in retryTimer
  /\ retryTimer' = retryTimer \ {t}
  /\ IF state[t] = "RETRYING"
     THEN BeginTask(t, [state EXCEPT ![t] = "QUEUED"])
     ELSE UNCHANGED <<state, pending, available, assignment, runs>>
  /\ UNCHANGED <<taskVars, pausedRunning, workers, saveVars>>

-------------------------------------------------------------------------------
Return(r) ==
  \/ ReturnInterrupted(r)
  \/ ReturnSuccess(r)
  \/ ReturnSuccessRefused(r)
  \/ \E blocked \in BOOLEAN : ReturnFailure(r, blocked)

Command(t) ==
  \/ CreateTask(t)
  \/ StartTask(t)
  \/ PauseTask(t)
  \/ PauseRefused(t)
  \/ ResumeTask(t)
  \/ CancelTask(t)

Next ==
  \/ \E w \in Workers : AddWorker(w)
  \/ \E t \in Tasks : Command(t) \/ PauseSaved(t) \/ ResumeSaved(t) \/ SaveFails(t)
                      \/ RetryFires(t) \/ Progress(t)
  \/ \E r \in runs : Return(r) \/ RunSaved(r)

Spec == Init /\ [][Next]_vars

\* Saves and timers complete and the start-up code adds every worker.  A browser run
\* ends, because the browser worker client puts a timeout on every request; a
\* monitor's run need not end before it is interrupted, which aborts it.  Nothing is
\* assumed of the user.
ReturnDue(t) == \E r \in runs : /\ r.task = t
                               /\ ~(t \in Monitors /\ ~Interrupted(t))
                               /\ Return(r)

Fairness ==
  /\ \A w \in Workers : WF_vars(AddWorker(w))
  /\ \A t \in Tasks : /\ WF_vars(PauseSaved(t))
                      /\ WF_vars(ResumeSaved(t))
                      /\ WF_vars(RetryFires(t))
                      /\ WF_vars(ReturnDue(t))
                      /\ WF_vars(\E r \in runs : r.task = t /\ RunSaved(r))

FairSpec == Spec /\ Fairness

-------------------------------------------------------------------------------
(* Properties.                                                             *)

TypeOK ==
  /\ state \in [Tasks -> TaskState \cup {"ABSENT"}]
  /\ retries \in [Tasks -> 0 .. MaxRetries]
  /\ retryBlocked \in [Tasks -> BOOLEAN]
  /\ pending \in Seq(Tasks)
  /\ pausedRunning \subseteq Tasks
  /\ retryTimer \subseteq Tasks
  /\ workers \subseteq Workers
  /\ available \subseteq workers
  /\ assignment \in [Tasks -> Workers \cup {NoWorker}]
  /\ runs \subseteq Run
  /\ pauseSaves \in [Tasks -> 0 .. MaxSaves]
  /\ resumeSaves \in [Tasks -> 0 .. MaxSaves]

\* No two calls of startTask for one task are ever suspended together, so a resumed
\* run never overlaps the paused run that is still unwinding, and no worker serves
\* two calls (startTask, assignTask, drainQueue).
OneRunPerTask ==
  \A r, s \in runs : r.task = s.task \/ r.worker = s.worker => r = s

\* The pool's bookkeeping agrees with the suspended calls: a task has an assignment
\* exactly while its call is suspended, and a worker is idle or serves a call, never
\* both and never neither - no worker is lost on any path out of startTask.
PoolConsistent ==
  /\ \A t \in Tasks, w \in Workers :
       assignment[t] = w <=> \E r \in runs : r.task = t /\ r.worker = w
  /\ \A r \in runs : r.worker \in workers
  /\ available = workers \ {r.worker : r \in runs}

\* A worker is never idle while a task that could use it waits: an entry of the queue
\* next to an idle worker can only be a task whose previous run has yet to end.
NoIdleWorkerWhileStartable ==
  available # {} =>
    \A t \in ToSet(pending) : state[t] = "QUEUED" /\ assignment[t] # NoWorker

\* No task is twice in the pending queue: pendingTaskIds and pendingTaskIdSet agree.
PendingDistinct == IsInjective(pending)

\* A task shown as running is being executed by a live call that no pause or cancel
\* has interrupted, and vice versa.
ShownRunningIsExecuting ==
  \A t \in Tasks : state[t] \in RunningLike <=> Executing(t) /\ ~Interrupted(t)

\* retryPolicy.blocked, once set, rules out every automatic retry, of that run and of
\* all later ones (the flag is stored with the task and never cleared).
BlockedNeverRetried == \A t \in Tasks : state[t] = "RETRYING" => ~retryBlocked[t]

\* Every worker of the program serves a monitor nobody has stopped.
MonitorsHoldPool ==
  \A w \in Workers : \E r \in runs :
    r.worker = w /\ r.task \in Monitors /\ ~Interrupted(r.task)

\* Once in the queue, or on its way there after a resume, a QUEUED task is started
\* (or paused or cancelled by the user) unless monitors hold every worker: no wake-up
\* is lost on the way through resumeTask, startTask and drainQueue.
QueuedEventuallyLeaves ==
  \A t \in Tasks :
    state[t] = "QUEUED" /\ (t \in ToSet(pending) \/ resumeSaves[t] > 0)
      ~> state[t] # "QUEUED" \/ MonitorsHoldPool

\* The orchestrator keeps the promise of TaskLifecycle: however callbacks interleave,
\* a task is started only while the user wants it run, never while its previous run is
\* live, never beyond the number of workers, and moved by the result of a run only
\* while that run is the one the user is shown.
Shown(s) ==
  CASE s = "ABSENT" -> "absent"
    [] s \in {"CREATED", "QUEUED"} -> "waiting"
    [] s \in RunningLike -> "running"
    [] s = "PAUSED" -> "held"
    [] s = "RETRYING" -> "retrying"
    [] OTHER -> "over"

Lifecycle == INSTANCE TaskLifecycle WITH
  MaxSlots <- Cardinality(Workers),
  status <- [t \in Tasks |-> Shown(state[t])],
  live <- {r.task : r \in runs},
  slots <- Cardinality(workers)

ImplementsLifecycle == Lifecycle!Spec

\* The states in which the user interface offers to stop a task (isStoppable).
Stoppable == RunningLike \cup { "RETRYING", "PAUSED" }

\* Stopping a task the user interface offers to stop cancels it.
StopCancels ==
  [][\A t \in Tasks : state[t] \in Stoppable /\ CancelTask(t) => state'[t] = "CANCELLED"]_vars
===============================================================================
