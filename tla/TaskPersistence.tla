--------------------------- MODULE TaskPersistence ---------------------------
(***************************************************************************)
(* What the program keeps of its tasks over the end of its process:        *)
(* the persistence coordinator (src/persistence) with its chain of         *)
(* snapshots, the direct saves of the registry, the start-up in            *)
(* orchestrator.initialize and the quit sequence of src/electron/main.ts.  *)
(*                                                                         *)
(* Every transition of a task queues a snapshot of it behind a promise;    *)
(* registry.saveTask writes at once.  SQLite is called synchronously, so   *)
(* the chain and the continuations of saveTask are microtasks: they may    *)
(* run in any order among each other, but all of them run before the next  *)
(* command, timer or result (Quiet).  The process may die anywhere.        *)
(*                                                                         *)
(* Of the orchestrator there is what decides on writes and on what runs    *)
(* after a restart; its pool is a number of slots (TaskOrchestrator has    *)
(* the rest).                                                              *)
(***************************************************************************)
EXTENDS Naturals, Sequences, SequencesExt, TaskStateMachine

CONSTANTS
  Tasks,          \* task ids
  Monitors,       \* the product monitors among them: they run until aborted
  Slots,          \* workers of the pool
  MaxRetries,     \* task.maxRetries
  WritesMayFail,  \* a statement may throw (disk full, database busy)
  MayCrash,       \* the process may die at any time
  MayQuit         \* the user may quit the program

ASSUME PersistenceAssumption ==
  /\ Monitors \subseteq Tasks
  /\ Slots \in Nat /\ MaxRetries \in Nat
  /\ WritesMayFail \in BOOLEAN /\ MayCrash \in BOOLEAN /\ MayQuit \in BOOLEAN

VARIABLES
  phase,     \* "up"; "closing" and "cleaned" while quitting; "down"
  mem,       \* the task objects of the registry
  row,       \* the rows of the table tasks
  chain,     \* TaskPersistenceCoordinator.writeQueue: snapshots still to be written
  lastError, \* the coordinator remembers a failed write
  cont,      \* the call, if any, whose saveTask has returned and which has yet to go on
  pending,   \* pendingTaskIds
  marked,    \* pausedRunningTaskIds
  timers,    \* tasks with a retry timer
  running,   \* tasks with a startTask call that holds a worker
  reported,  \* running tasks whose worker has reported a retry block and has yet to answer
  asked,     \* tasks the user has started or resumed since the program started
  held,      \* tasks whose pause command has been answered with success
  lost,      \* tasks whose latest write failed
  logged     \* state in the latest log entry of this session, "none" if it is not known

sched == <<pending, marked, timers, running, reported>>
ghosts == <<asked, held, lost, logged>>
vars == <<phase, mem, row, chain, lastError, cont, sched, ghosts>>

Rec == [state : TaskState \cup {"ABSENT"}, retries : 0 .. MaxRetries, blocked : BOOLEAN]
Absent == [state |-> "ABSENT", retries |-> 0, blocked |-> FALSE]
Snapshot == [task : Tasks, rec : Rec]
Call == [task : Tasks, kind : {"run", "pause", "resume"}]

Alive == phase # "down"
Quiet == Alive /\ chain = <<>> /\ cont = {}

-------------------------------------------------------------------------------
(* Writing.                                                                *)

\* The snapshots of a task that goes through the records `recs`, one per emit of
\* taskStateChanged; nobody listens any more once the coordinator is closed.
Snapshots(t, recs) ==
  IF phase = "cleaned" THEN <<>> ELSE [i \in DOMAIN recs |-> [task |-> t, rec |-> recs[i]]]

\* The records of t while its state goes through `states`.
Through(rec, states) == [i \in DOMAIN states |-> [rec EXCEPT !.state = states[i]]]

\* The transitions of one task in one stretch of code.
Move(t, recs) ==
  /\ mem' = [mem EXCEPT ![t] = Last(recs)]
  /\ chain' = chain \o Snapshots(t, recs)

\* registry.saveTask: the row is written as the task is now, whatever the chain
\* still holds of it.
SaveDone(t, rec) ==
  /\ row' = [row EXCEPT ![t] = rec]
  /\ lost' = lost \ {t}

SaveThrows(t) ==
  /\ WritesMayFail
  /\ lost' = lost \cup {t}
  /\ UNCHANGED row

\* recordTaskEvent of the oldest snapshot: row and log entry in one transaction.
\* The catch at the end of the chain keeps a failure from the entries behind it.
RecordDone(e) ==
  /\ row' = [row EXCEPT ![e.task] = e.rec]
  /\ logged' = [logged EXCEPT ![e.task] = e.rec.state]
  /\ lost' = lost \ {e.task}
  /\ lastError' = FALSE

RecordThrows(e) ==
  /\ WritesMayFail
  /\ lost' = lost \cup {e.task}
  /\ logged' = [logged EXCEPT ![e.task] = "none"]
  /\ lastError' = TRUE
  /\ UNCHANGED row

\* Slips: without the catch, the first failure ends every later write; the newest
\* snapshot is written first.
WriteNextPoisoned ==
  /\ Alive /\ chain # <<>>
  /\ chain' = Tail(chain)
  /\ IF lastError THEN UNCHANGED <<row, logged, lost, lastError>>
     ELSE RecordDone(Head(chain)) \/ RecordThrows(Head(chain))
  /\ UNCHANGED <<phase, mem, cont, sched, asked, held>>
WriteNextNewest ==
  /\ Alive /\ chain # <<>>
  /\ chain' = Front(chain)
  /\ RecordDone(Last(chain)) \/ RecordThrows(Last(chain))
  /\ UNCHANGED <<phase, mem, cont, sched, asked, held>>

WriteNext ==
  /\ Alive /\ chain # <<>>
  /\ chain' = Tail(chain)
  /\ RecordDone(Head(chain)) \/ RecordThrows(Head(chain))
  /\ UNCHANGED <<phase, mem, cont, sched, asked, held>>

-------------------------------------------------------------------------------
(* Starting runs.                                                          *)

Free(calls) == Slots - Cardinality(calls)

\* The queue entries drainQueue may start.
Startable(m, queue, calls) == {t \in queue : m[t].state = "QUEUED" /\ t \notin calls}

\* startTask up to executor.execute.
Begun(rec) == Through(rec, <<"STARTING", "RUNNING">>)

\* The snapshots of the tasks of `order`, begun one after the other.
Begins(m, order) ==
  [i \in 1 .. 2 * Len(order) |->
     LET t == order[(i + 1) \div 2] IN [task |-> t, rec |-> Begun(m[t])[2 - (i % 2)]]]

\* drainQueue while tasks, queue and suspended calls are `m`, `queue` and `calls`.
Drain(m, queue, calls) ==
  \E started \in SUBSET Startable(m, queue, calls) :
    LET able == Cardinality(Startable(m, queue, calls))
    IN /\ Cardinality(started) = IF able < Free(calls) THEN able ELSE Free(calls)
       /\ mem' = [t \in Tasks |-> IF t \in started THEN Last(Begun(m[t])) ELSE m[t]]
       /\ chain' = IF phase = "cleaned" THEN chain ELSE chain \o Begins(m, SetToSeq(started))
       /\ running' = calls \cup started
       /\ pending' = queue \ started

\* startTask of a task that has gone through `recs` to QUEUED.
BeginOrWait(t, recs) ==
  IF t \notin running /\ Free(running) > 0
  THEN /\ Move(t, recs \o Begun(Last(recs)))
       /\ running' = running \cup {t}
       /\ pending' = pending \ {t}
  ELSE /\ Move(t, recs)
       /\ pending' = pending \cup {t}
       /\ UNCHANGED running

-------------------------------------------------------------------------------
(* Commands.  Each runs alone, up to its saveTask.                         *)

CreateTask(t) ==
  /\ Quiet /\ mem[t].state = "ABSENT"
  /\ Move(t, Through(Absent, <<"CREATED", "QUEUED">>))
  /\ UNCHANGED <<phase, row, lastError, cont, sched, ghosts>>

StartTask(t) ==
  /\ Quiet /\ mem[t].state = "QUEUED"
  /\ IF t \notin running /\ Free(running) > 0
     THEN /\ Move(t, Begun(mem[t]))
          /\ running' = running \cup {t}
          /\ pending' = pending \ {t}
     ELSE /\ pending' = pending \cup {t}
          /\ UNCHANGED <<mem, chain, running>>
  /\ asked' = asked \cup {t}
  /\ UNCHANGED <<phase, row, lastError, cont, marked, timers, reported, held, lost, logged>>

\* Slip: the pause leaves the row to the chain.
PauseUnsaved(t) ==
  /\ Quiet /\ CanTransition(mem[t].state, "PAUSED")
  /\ Move(t, Through(mem[t], <<"PAUSED">>))
  /\ pending' = pending \ {t}
  /\ timers' = timers \ {t}
  /\ marked' = IF mem[t].state \in RunningLike THEN marked \cup {t} ELSE marked
  /\ cont' = {[task |-> t, kind |-> "pause"]}
  /\ UNCHANGED <<phase, row, lost, lastError, running, reported, asked, held, logged>>

PauseTask(t) ==
  /\ Quiet /\ CanTransition(mem[t].state, "PAUSED")
  /\ Move(t, Through(mem[t], <<"PAUSED">>))
  /\ pending' = pending \ {t}
  /\ timers' = timers \ {t}
  /\ marked' = IF mem[t].state \in RunningLike THEN marked \cup {t} ELSE marked
  /\ \/ SaveDone(t, [mem[t] EXCEPT !.state = "PAUSED"]) /\ cont' = {[task |-> t, kind |-> "pause"]}
     \/ SaveThrows(t) /\ UNCHANGED cont
  /\ UNCHANGED <<phase, lastError, running, reported, asked, held, logged>>

ResumeTask(t) ==
  /\ Quiet /\ mem[t].state = "PAUSED"
  /\ Move(t, Through(mem[t], <<"QUEUED">>))
  /\ asked' = asked \cup {t}
  /\ held' = held \ {t}
  /\ \/ SaveDone(t, [mem[t] EXCEPT !.state = "QUEUED"]) /\ cont' = {[task |-> t, kind |-> "resume"]}
     \/ SaveThrows(t) /\ UNCHANGED cont
  /\ UNCHANGED <<phase, lastError, sched, logged>>

\* A cancelled task is not saved by the command: only its snapshot is.
CancelTask(t) ==
  /\ Quiet /\ CanTransition(mem[t].state, "CANCELLED")
  /\ Move(t, Through(mem[t], <<"CANCELLED">>))
  /\ pending' = pending \ {t}
  /\ marked' = marked \ {t}
  /\ timers' = timers \ {t}
  /\ held' = held \ {t}
  /\ UNCHANGED <<phase, row, lastError, cont, running, reported, asked, lost, logged>>

\* What follows the saves: pauseTask and resumeTask drain the queue, startTask gives
\* its worker back first.
Continue ==
  /\ Alive
  /\ \E call \in cont :
       \/ /\ call.kind = "pause"
          /\ Drain(mem, pending, running)
          /\ held' = held \cup {call.task}
       \/ /\ call.kind = "resume"
          /\ Drain(mem, pending \cup {call.task}, running)
          /\ UNCHANGED held
       \/ /\ call.kind = "run"
          /\ Drain(mem, pending, running \ {call.task})
          /\ UNCHANGED held
  /\ cont' = {}
  /\ UNCHANGED <<phase, row, lastError, marked, timers, reported, asked, lost, logged>>

-------------------------------------------------------------------------------
(* Runs.                                                                   *)

Interrupted(t) == mem[t].state \in {"CANCELLED", "PAUSED"} \/ t \in marked

\* A task-update replaces the task's config, retryPolicy included, and may show the
\* queue of the shop (the only progress modelled); the block alone is neither saved nor
\* snapshot.  The router stops passing updates on as soon as it is closed, the client
\* still applies them.  A monitor has no checkout to report of.
Progress(t, block) ==
  /\ Quiet /\ phase \in {"up", "closing"} /\ t \in running
  /\ block => t \notin Monitors
  /\ LET told == [mem[t] EXCEPT !.blocked = @ \/ block]
     IN \/ mem' = [mem EXCEPT ![t] = told] /\ UNCHANGED chain
        \/ /\ phase = "up"
           /\ \/ told.state = "RUNNING" /\ Move(t, Through(told, <<"WAITING_QUEUE">>))
              \/ told.state = "WAITING_QUEUE" /\ Move(t, Through(told, <<"RUNNING">>))
  /\ reported' = IF block THEN reported \cup {t} ELSE reported
  /\ UNCHANGED <<phase, row, lastError, cont, pending, marked, timers, running, ghosts>>

\* The last await of startTask; its finally block runs whether the save throws or not.
SaveRun(t, rec) ==
  /\ SaveDone(t, rec) \/ SaveThrows(t)
  /\ cont' = {[task |-> t, kind |-> "run"]}

ReturnInterrupted(t) ==
  /\ Quiet /\ t \in running /\ Interrupted(t)
  /\ marked' = marked \ {t}
  /\ pending' = IF t \in marked /\ mem[t].state = "QUEUED" THEN pending \cup {t} ELSE pending
  /\ SaveRun(t, mem[t])
  /\ reported' = reported \ {t}
  /\ UNCHANGED <<phase, mem, chain, lastError, timers, running, asked, held, logged>>

\* A run that has reported a block answers with false.  A monitor's execute returns only
\* after its controller was aborted, and then with true; while the program is up, only a
\* pause or a cancel aborts it.
ReturnSuccess(t) ==
  /\ Quiet /\ t \in running \ reported /\ ~Interrupted(t)
  /\ t \in Monitors => phase # "up"
  /\ CanComplete(mem[t].state)
  /\ LET path == IF CanTransition(mem[t].state, "CHECKOUT") THEN <<"CHECKOUT", "SUCCESS">>
                                                        ELSE <<"SUCCESS">>
     IN /\ Move(t, Through(mem[t], path))
        /\ SaveRun(t, [mem[t] EXCEPT !.state = "SUCCESS"])
  /\ UNCHANGED <<phase, lastError, sched, asked, held, logged>>

\* False, or an exception (the worker may have died after its report).  The retry budget
\* is charged before the transition, so the snapshot has it.
ReturnFailure(t) ==
  /\ Quiet /\ t \in running /\ ~Interrupted(t)
  /\ CanTransition(mem[t].state, "FAILED")
  /\ LET failed == [mem[t] EXCEPT !.state = "FAILED"]
         retry  == [failed EXCEPT !.state = "RETRYING", !.retries = @ + 1]
     IN IF ~failed.blocked /\ failed.retries < MaxRetries
        THEN /\ Move(t, <<failed, retry>>)
             /\ SaveRun(t, retry)
             /\ timers' = timers \cup {t}
        ELSE /\ Move(t, <<failed>>)
             /\ SaveRun(t, failed)
             /\ UNCHANGED timers
  /\ reported' = reported \ {t}
  /\ UNCHANGED <<phase, lastError, pending, marked, running, asked, held, logged>>

\* The result cannot be booked in the state the task is in: completeSuccessfulTask or
\* transition throws and nothing is saved; only an exception of execute still saves.
ReturnRefused(t) ==
  /\ Quiet /\ t \in running /\ ~Interrupted(t)
  /\ \/ /\ \/ t \notin reported /\ ~CanComplete(mem[t].state)
           \/ ~CanTransition(mem[t].state, "FAILED")
        /\ cont' = {[task |-> t, kind |-> "run"]}
        /\ UNCHANGED <<row, lost>>
     \/ ~CanTransition(mem[t].state, "FAILED") /\ SaveRun(t, mem[t])
  /\ reported' = reported \ {t}
  /\ UNCHANGED <<phase, mem, chain, lastError, pending, marked, timers, running,
                 asked, held, logged>>

RetryFires(t) ==
  /\ Quiet /\ t \in timers
  /\ timers' = timers \ {t}
  /\ IF mem[t].state = "RETRYING"
     THEN BeginOrWait(t, Through(mem[t], <<"QUEUED">>))
     ELSE UNCHANGED <<mem, chain, running, pending>>
  /\ UNCHANGED <<phase, row, lastError, cont, marked, reported, ghosts>>

-------------------------------------------------------------------------------
(* End and start of the program.                                           *)

\* before-quit, up to commerceExecutor.close: from here on runs are aborted.
Quit ==
  /\ MayQuit /\ phase = "up"
  /\ phase' = "closing"
  /\ UNCHANGED <<mem, row, chain, lastError, cont, sched, ghosts>>

\* The executors are closed; orchestrator.cleanup and, in the same stretch, the
\* coordinator's unsubscribing.
Cleanup ==
  /\ phase = "closing"
  /\ phase' = "cleaned"
  /\ pending' = {} /\ marked' = {} /\ timers' = {}
  /\ UNCHANGED <<mem, row, chain, lastError, cont, running, reported, ghosts>>

Gone ==
  /\ phase' = "down"
  /\ mem' = [t \in Tasks |-> Absent]
  /\ chain' = <<>> /\ lastError' = FALSE /\ cont' = {}
  /\ pending' = {} /\ marked' = {} /\ timers' = {} /\ running' = {}
  /\ reported' = {}
  /\ asked' = {} /\ lost' = {} /\ logged' = [t \in Tasks |-> "none"]
  /\ UNCHANGED <<row, held>>

\* Slip: a failed write makes the flush throw, and nobody catches it.
CloseStoreUncaught == phase = "cleaned" /\ chain = <<>> /\ ~lastError /\ Gone

\* The chain is flushed, the store closed and the process ends.
CloseStore == phase = "cleaned" /\ chain = <<>> /\ Gone

Crash == MayCrash /\ Alive /\ Gone

\* initialize: what becomes of a task found in the store.
Restored(s) ==
  IF s = "CREATED" THEN "QUEUED"
  ELSE IF s \in RecoverableActive THEN "PAUSED" ELSE s

Reload(r) == [r EXCEPT !.state = Restored(@)]
Recovered == {t \in Tasks : Reload(row[t]) # row[t]}

\* Slip: what is found QUEUED goes into the queue, which addWorker drains.
RestartEnqueues ==
  /\ phase = "down"
  /\ phase' = "up"
  /\ row' = [t \in Tasks |-> Reload(row[t])]
  /\ Drain(row', {t \in Tasks : row'[t].state = "QUEUED"}, running)
  /\ UNCHANGED <<lastError, cont, marked, timers, reported, ghosts>>

Restart ==
  /\ phase = "down"
  /\ phase' = "up"
  /\ mem' = [t \in Tasks |-> Reload(row[t])]
  /\ row' = mem'
  /\ chain' = [i \in 1 .. Cardinality(Recovered) |->
                 LET t == SetToSeq(Recovered)[i] IN [task |-> t, rec |-> Reload(row[t])]]
  /\ UNCHANGED <<lastError, cont, sched, ghosts>>

\* A save throws: the start ends with an error box and app.quit, after some of the
\* recovered rows were written.
RestartFails ==
  /\ phase = "down" /\ WritesMayFail
  /\ \E written \in SUBSET Recovered :
       /\ written # Recovered
       /\ row' = [t \in Tasks |-> IF t \in written THEN Reload(row[t]) ELSE row[t]]
  /\ UNCHANGED <<phase, mem, chain, lastError, cont, sched, ghosts>>

-------------------------------------------------------------------------------
\* A new database, and the program about to start.
Init ==
  /\ phase = "down"
  /\ mem = [t \in Tasks |-> Absent]
  /\ row = [t \in Tasks |-> Absent]
  /\ chain = <<>> /\ lastError = FALSE /\ cont = {}
  /\ pending = {} /\ marked = {} /\ timers = {} /\ running = {} /\ reported = {}
  /\ asked = {} /\ held = {} /\ lost = {}
  /\ logged = [t \in Tasks |-> "none"]

Command(t) ==
  CreateTask(t) \/ StartTask(t) \/ PauseTask(t) \/ ResumeTask(t) \/ CancelTask(t)

Return(t) ==
  ReturnInterrupted(t) \/ ReturnSuccess(t) \/ ReturnFailure(t) \/ ReturnRefused(t)

Next ==
  \/ WriteNext \/ Continue
  \/ \E t \in Tasks : Command(t) \/ Return(t) \/ RetryFires(t)
  \/ \E t \in Tasks, block \in BOOLEAN : Progress(t, block)
  \/ Quit \/ Cleanup \/ CloseStore \/ Crash \/ Restart \/ RestartFails

Spec == Init /\ [][Next]_vars

\* Microtasks run; from commerceExecutor.close on the quit sequence goes on, for
\* closing a worker process has a timeout (client.close) and aborting a monitor none.
Fairness ==
  /\ WF_vars(WriteNext) /\ WF_vars(Continue)
  /\ WF_vars(Cleanup) /\ WF_vars(CloseStore)

FairSpec == Spec /\ Fairness

-------------------------------------------------------------------------------
(* Properties.                                                             *)

TypeOK ==
  /\ phase \in {"up", "closing", "cleaned", "down"}
  /\ mem \in [Tasks -> Rec]
  /\ row \in [Tasks -> Rec]
  /\ chain \in Seq(Snapshot)
  /\ lastError \in BOOLEAN
  /\ cont \subseteq Call /\ Cardinality(cont) <= 1
  /\ pending \subseteq Tasks /\ marked \subseteq Tasks /\ timers \subseteq Tasks
  /\ running \subseteq Tasks /\ reported \subseteq running
  /\ asked \subseteq Tasks /\ held \subseteq Tasks
  /\ lost \subseteq Tasks
  /\ logged \in [Tasks -> TaskState \cup {"ABSENT", "none"}]

\* The stored row of t is the task, but for the retry block its run has reported and
\* with which it has yet to come back.
OnFile(t) ==
  \/ row[t] = mem[t]
  \/ t \in reported /\ row[t] = [mem[t] EXCEPT !.blocked = FALSE]

\* Whenever the program is idle, every task is on file, except for one whose own latest
\* write failed: neither the order of direct saves and queued snapshots nor the failure
\* of another task's write leaves an old row behind, and what an update of a worker left
\* unsaved is on file once the run has ended.
SettledRowIsCurrent ==
  phase \in {"up", "closing"} /\ chain = <<>> =>
    \A t \in Tasks \ lost : OnFile(t) /\ (t \notin running => row[t] = mem[t])

\* Nothing runs by itself after a restart: a task executes only if the user has
\* started or resumed it since (initialize, drainQueue, the retry timer).
RunsOnlyWhenAsked == running \subseteq asked

\* A pause that was answered survives: if the process dies at any later moment, the
\* task is restored PAUSED, unless the user has resumed or cancelled it.
PauseSurvivesRestart == \A t \in held : Restored(row[t].state) = "PAUSED"

\* The log of a task is the path it took: within a session, and as long as no write
\* fails, each entry is a transition of the table from the entry before.
LogFollowsTable ==
  [][\A t \in Tasks :
       logged[t] # logged'[t] /\ logged[t] # "none" /\ logged'[t] # "none"
         => CanTransition(logged[t], logged'[t])]_vars

\* Quitting ends, whatever fails while the chain is flushed.
QuitEnds == phase = "closing" ~> phase = "down"

\* A monitor that was active when the user quit is not stored as finished: it is
\* restored PAUSED by the next start.
MonitorSurvivesQuit ==
  [][\A t \in Monitors :
       phase # "up" /\ row[t].state \in RecoverableActive => row'[t].state # "SUCCESS"]_vars
===============================================================================
