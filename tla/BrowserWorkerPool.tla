-------------------------- MODULE BrowserWorkerPool --------------------------
(***************************************************************************)
(* The worker processes as the main process sees them:                     *)
(* src/browser-worker/client.ts, below the executors that pass calls       *)
(* through (commerce/task-executor-router.ts,                              *)
(* payments/ephemeral-payment-executor.ts) and above worker.ts.            *)
(*                                                                         *)
(* A client has at most one child at a time; each spawn is a generation.   *)
(* A call waits for the child to be ready or for the answer to a request;  *)
(* an answer, a timeout, a failed write and the exit of the child each     *)
(* resume the calls they settle, up to their next await, in one step:      *)
(* these continuations are microtasks with nothing between them.           *)
(*                                                                         *)
(* FinalPurchase has what the worker does and the value of the permission; *)
(* here are the processes, requests, timeouts and the books kept of them.  *)
(***************************************************************************)
EXTENDS Naturals, FiniteSets

CONSTANTS
  ProcessCount,   \* processes of the pool
  Tasks,          \* task ids
  Side,           \* calls beside the runs: cancel, keywords, permission, health
  Slots,          \* workers of the orchestrator
  MaxFaults,      \* bound: deaths, hangs and timeouts of a process that does answer
  StartupMayHang  \* a child may neither become ready nor exit

ASSUME PoolAssumption ==
  /\ ProcessCount \in Nat \ {0}
  /\ Slots \in Nat /\ MaxFaults \in Nat /\ StartupMayHang \in BOOLEAN

VARIABLES
  phase,    \* "open"; "closing" while pool.close runs; "closed" after it
  proc,     \* the child of a client
  gen,      \* its generation, 0 before the first spawn
  ready,    \* this.ready has resolved
  late,     \* the exit event of an earlier child is still to come
  closing,  \* client.closing
  close,    \* how far client.close is
  beat,     \* generation the heartbeat request in flight was sent to, 0 if none
  run,      \* the pool.execute calls; `told` once the child, executing, got a cancel
  side,     \* the other calls
  owners,   \* taskOwners; 0 for no entry
  taskIds,  \* taskIds (and the keys of taskRefs) of a client
  waiting,  \* tasks in the orchestrator's queue
  faults    \* faults so far

children == <<proc, gen, ready, late>>
books == <<owners, taskIds>>
vars == <<phase, children, closing, close, beat, run, side, books, waiting, faults>>

Clients == 1 .. ProcessCount
MaxGen == MaxFaults + 2
SideKinds == {"cancel", "keywords", "permission", "health"}
Idle == [at |-> "idle", client |-> 1, gen |-> 0, told |-> FALSE]
SideIdle == [at |-> "idle", kind |-> "health", task |-> CHOOSE t \in Tasks : TRUE,
             client |-> 1, gen |-> 0]

\* Stages of pool.execute: the permission before it (line 453), then client.execute.
Executing == {"ready", "sync", "exec"}
Requesting == {"permitSync", "sync", "exec"}

Active(t) == run[t].at # "idle"
RunsOn(c) == {t \in Tasks : Active(t) /\ run[t].client = c}

\* A child that is set and not killed; what ensureReady looks at.
HasChild(c) == proc[c] \notin {"none", "killed"}

\* The child answers.
Responsive(c) == proc[c] = "up"

\* Slip: the shutdown request has no timeout.
InFlightButShutdown(c) ==
  \/ \E t \in RunsOn(c) : run[t].at \in Requesting
  \/ \E k \in Side : side[k].at = "wait" /\ side[k].client = c
  \/ beat[c] # 0

\* A request of client c is on its way.
InFlight(c) ==
  \/ \E t \in RunsOn(c) : run[t].at \in Requesting
  \/ \E k \in Side : side[k].at = "wait" /\ side[k].client = c
  \/ beat[c] # 0
  \/ close[c] = "shutdown"

-------------------------------------------------------------------------------
(* Children.                                                               *)

\* spawnWorker of client c.
Spawn(c) ==
  /\ proc' = [proc EXCEPT ![c] = "starting"]
  /\ gen' = [gen EXCEPT ![c] = @ + 1]
  /\ ready' = [ready EXCEPT ![c] = FALSE]

\* Slips: the calls waiting for an answer are not rejected; the pool is not told.
ExitedKeepingCalls(c, notify, respawn) ==
  /\ IF respawn
     THEN Spawn(c)
     ELSE /\ proc' = [proc EXCEPT ![c] = "none"]
          /\ ready' = [ready EXCEPT ![c] = FALSE]
          /\ UNCHANGED gen
  /\ owners' = [t \in Tasks |-> IF owners[t] = c /\ notify THEN 0 ELSE owners[t]]
  /\ taskIds' = [taskIds EXCEPT ![c] = {}]
  /\ closing' = [closing EXCEPT ![c] = FALSE]
  /\ close' = [close EXCEPT ![c] = IF @ = "no" THEN "no" ELSE "done"]
  /\ UNCHANGED <<run, side, beat>>
ExitedUntold(c, notify, respawn) ==
  /\ IF respawn
     THEN Spawn(c)
     ELSE /\ proc' = [proc EXCEPT ![c] = "none"]
          /\ ready' = [ready EXCEPT ![c] = FALSE]
          /\ UNCHANGED gen
  /\ run' = [t \in Tasks |-> IF t \in RunsOn(c) THEN Idle ELSE run[t]]
  /\ side' = [k \in Side |-> IF side[k].client = c THEN SideIdle ELSE side[k]]
  /\ beat' = [beat EXCEPT ![c] = 0]
  /\ owners' = [t \in Tasks |-> IF t \in RunsOn(c) /\ run[t].at \in Executing THEN 0 ELSE owners[t]]
  /\ taskIds' = [taskIds EXCEPT ![c] = {}]
  /\ closing' = [closing EXCEPT ![c] = FALSE]
  /\ close' = [close EXCEPT ![c] = IF @ = "no" THEN "no" ELSE "done"]

\* handleWorkerExit for the present child, with what the rejected calls do: execute
\* returns false and forgets the task; a permission call rejected before it does not.
Exited(c, notify, respawn) ==
  /\ IF respawn
     THEN Spawn(c)
     ELSE /\ proc' = [proc EXCEPT ![c] = "none"]
          /\ ready' = [ready EXCEPT ![c] = FALSE]
          /\ UNCHANGED gen
  /\ run' = [t \in Tasks |-> IF t \in RunsOn(c) THEN Idle ELSE run[t]]
  /\ side' = [k \in Side |-> IF side[k].client = c THEN SideIdle ELSE side[k]]
  /\ beat' = [beat EXCEPT ![c] = 0]
  /\ owners' = [t \in Tasks |->
                  IF \/ notify /\ owners[t] = c
                     \/ t \in RunsOn(c) /\ run[t].at \in Executing
                     \/ \E k \in Side : /\ side[k].at # "idle" /\ side[k].client = c
                                        /\ side[k].kind = "cancel" /\ side[k].task = t
                  THEN 0 ELSE owners[t]]
  /\ taskIds' = [taskIds EXCEPT ![c] = {}]
  /\ closing' = [closing EXCEPT ![c] = FALSE]
  /\ close' = [close EXCEPT ![c] = IF @ = "no" THEN "no" ELSE "done"]

Ready(c) ==
  /\ proc[c] = "starting"
  /\ proc' = [proc EXCEPT ![c] = "up"]
  /\ ready' = [ready EXCEPT ![c] = TRUE]
  /\ UNCHANGED <<phase, gen, late, closing, close, beat, run, side, books, waiting, faults>>

Fault ==
  /\ faults < MaxFaults
  /\ faults' = faults + 1

\* The child hangs, before it is ready or after.
Hang(c) ==
  /\ \/ proc[c] = "up"
     \/ StartupMayHang /\ proc[c] = "starting"
  /\ proc' = [proc EXCEPT ![c] = IF @ = "up" THEN "hung" ELSE "stuck"]
  /\ Fault
  /\ UNCHANGED <<phase, gen, ready, late, closing, close, beat, run, side, books, waiting>>

Die(c) ==
  /\ proc[c] \in {"starting", "up"}
  /\ proc' = [proc EXCEPT ![c] = "gone"]
  /\ Fault
  /\ UNCHANGED <<phase, gen, ready, late, closing, close, beat, run, side, books, waiting>>

\* The exit event of the present child; a new one is only spawned when it is needed.
ExitEvent(c) ==
  /\ proc[c] \in {"gone", "killed"}
  /\ Exited(c, ~closing[c], FALSE)
  /\ UNCHANGED <<phase, late, waiting, faults>>

\* The exit event of an earlier child is told from one of its successor.
LateExit(c) ==
  /\ late[c]
  /\ late' = [late EXCEPT ![c] = FALSE]
  /\ close' = [close EXCEPT ![c] = IF @ = "killed" THEN "done" ELSE @]
  /\ UNCHANGED <<phase, proc, gen, ready, closing, beat, run, side, books, waiting, faults>>

\* Slip: the request is given up and the child is kept.
RecycleNever(c) ==
  /\ InFlight(c)
  /\ ~Responsive(c) /\ UNCHANGED faults
  /\ run' = [t \in Tasks |-> IF t \in RunsOn(c) THEN Idle ELSE run[t]]
  /\ side' = [k \in Side |-> IF side[k].client = c THEN SideIdle ELSE side[k]]
  /\ beat' = [beat EXCEPT ![c] = 0]
  /\ close' = [close EXCEPT ![c] = IF @ = "no" THEN "no" ELSE "done"]
  /\ UNCHANGED <<phase, children, closing, books, waiting>>

\* A request times out, or cannot be written to a child that is gone: recycleWorker
\* kills the child and, unless the client is closing, spawns the next.
Recycle(c) ==
  /\ InFlight(c) /\ proc[c] # "none"
  /\ IF Responsive(c) THEN Fault ELSE UNCHANGED faults
  /\ Exited(c, ~closing[c], ~closing[c])
  /\ late' = [late EXCEPT ![c] = TRUE]
  /\ UNCHANGED <<phase, waiting>>

\* The interval timer, which runs from the ready message to the end of the child.
Heartbeat(c) ==
  /\ ready[c] /\ HasChild(c) /\ ~closing[c] /\ beat[c] = 0
  /\ beat' = [beat EXCEPT ![c] = gen[c]]
  /\ UNCHANGED <<phase, children, closing, close, run, side, books, waiting, faults>>

BeatAnswered(c) ==
  /\ Responsive(c) /\ beat[c] = gen[c]
  /\ beat' = [beat EXCEPT ![c] = 0]
  /\ UNCHANGED <<phase, children, closing, close, run, side, books, waiting, faults>>

-------------------------------------------------------------------------------
(* Runs.                                                                   *)

Load(c) == Cardinality(taskIds[c])

\* The first of the least loaded clients.
LeastLoadedClient ==
  CHOOSE c \in Clients : \A d \in Clients : Load(c) < Load(d) \/ (Load(c) = Load(d) /\ c <= d)

\* client.execute up to its first await.
Enter(t, c) ==
  /\ taskIds' = [taskIds EXCEPT ![c] = @ \cup {t}]
  /\ IF HasChild(c)
     THEN /\ run' = [run EXCEPT ![t] = [Idle EXCEPT !.at = "ready", !.client = c, !.gen = gen[c]]]
          /\ UNCHANGED children
     ELSE /\ run' = [run EXCEPT ![t] = [Idle EXCEPT !.at = "ready", !.client = c, !.gen = gen[c] + 1]]
          /\ Spawn(c)
          /\ late' = [late EXCEPT ![c] = @ \/ proc[c] = "killed"]

\* pool.execute: without a child the permission is only noted, with one it is sent first.
BeginRun(t) ==
  LET c == IF owners[t] # 0 THEN owners[t] ELSE LeastLoadedClient
  IN /\ ~Active(t)
     /\ owners' = [owners EXCEPT ![t] = c]
     /\ IF HasChild(c)
        THEN /\ run' = [run EXCEPT ![t] = [Idle EXCEPT !.at = "permitReady", !.client = c, !.gen = gen[c]]]
             /\ UNCHANGED <<taskIds, children>>
        ELSE Enter(t, c)
     /\ UNCHANGED <<phase, closing, close, beat, side, faults>>

FreeSlot == Cardinality({t \in Tasks : Active(t)}) < Slots

\* The orchestrator starts a task, or keeps it for the next free worker; until its
\* cleanup it also starts waiting tasks while the pool is being closed.
StartRun(t) ==
  /\ phase = "open" /\ t \notin waiting /\ ~Active(t)
  /\ IF FreeSlot
     THEN BeginRun(t) /\ UNCHANGED waiting
     ELSE /\ waiting' = waiting \cup {t}
          /\ UNCHANGED <<phase, children, closing, close, beat, run, side, books, faults>>

\* It does so in the turn in which a run has returned.
DrainDue == phase # "closed" /\ waiting # {} /\ FreeSlot

DrainQueue(t) ==
  /\ DrainDue /\ t \in waiting
  /\ BeginRun(t)
  /\ waiting' = waiting \ {t}

\* The child is ready: the call goes on with its request.
RunReady(t) ==
  /\ run[t].at \in {"permitReady", "ready"} /\ ready[run[t].client]
  /\ run' = [run EXCEPT ![t].at = IF @ = "ready" THEN "sync" ELSE "permitSync"]
  /\ UNCHANGED <<phase, children, closing, close, beat, side, books, waiting, faults>>

\* The child answers the request of a run. The answer to the permission before the run
\* lets client.execute begin; its ensureReady finds the child ready.
RunAnswered(t) ==
  LET c == run[t].client
  IN /\ Responsive(c) /\ run[t].at \in Requesting
     /\ \/ /\ run[t].at = "permitSync"
           /\ run' = [run EXCEPT ![t].at = "ready"]
           /\ taskIds' = [taskIds EXCEPT ![c] = @ \cup {t}]
           /\ UNCHANGED owners
        \/ /\ run[t].at = "sync"
           /\ run' = [run EXCEPT ![t].at = "exec"]
           /\ UNCHANGED books
        \/ /\ run[t].at = "exec"
           /\ run' = [run EXCEPT ![t] = Idle]
           /\ taskIds' = [taskIds EXCEPT ![c] = @ \ {t}]
           /\ owners' = [owners EXCEPT ![t] = 0]
     /\ UNCHANGED <<phase, children, closing, close, beat, side, waiting, faults>>

-------------------------------------------------------------------------------
(* Other calls.                                                            *)

SideStart(k, kind, t, c) ==
  /\ side[k].at = "idle"
  /\ side' = [side EXCEPT ![k] = [at |-> IF HasChild(c) THEN "ready" ELSE "idle", kind |-> kind,
                                  task |-> t, client |-> c, gen |-> gen[c]]]
  /\ UNCHANGED <<phase, children, closing, close, beat, run, waiting, faults>>

\* pool.cancelTask, from a pause or a stop while the router knows a run of t.
CancelTask(k, t) ==
  /\ Active(t) /\ owners[t] # 0
  /\ HasChild(owners[t])
  /\ SideStart(k, "cancel", t, owners[t])
  /\ UNCHANGED books

\* Keywords go to the owner if it counts the task among its own.
UpdateDiscoveryKeywords(k, t) ==
  /\ Active(t) /\ owners[t] # 0 /\ t \in taskIds[owners[t]] /\ HasChild(owners[t])
  /\ SideStart(k, "keywords", t, owners[t])
  /\ UNCHANGED books

\* setFinalPurchaseAllowed and health of a client that has a child.
AskClient(k, kind, c) ==
  /\ phase = "open" /\ kind \in {"permission", "health"} /\ HasChild(c)
  /\ SideStart(k, kind, SideIdle.task, c)
  /\ UNCHANGED books

SideReady(k) ==
  /\ side[k].at = "ready" /\ ready[side[k].client]
  /\ side' = [side EXCEPT ![k].at = "wait"]
  /\ LET t == side[k].task
     IN run' = [run EXCEPT ![t].told = @ \/ (side[k].kind = "cancel" /\ run[t].at = "exec")]
  /\ UNCHANGED <<phase, children, closing, close, beat, books, waiting, faults>>

\* The acknowledged cancel forgets the task, in the client and in the pool.
SideAnswered(k) ==
  LET c == side[k].client t == side[k].task
  IN /\ side[k].at = "wait" /\ Responsive(c)
     /\ side' = [side EXCEPT ![k] = SideIdle]
     /\ IF side[k].kind = "cancel"
        THEN /\ taskIds' = [taskIds EXCEPT ![c] = @ \ {t}]
             /\ owners' = [owners EXCEPT ![t] = 0]
        ELSE UNCHANGED books
     /\ UNCHANGED <<phase, children, closing, close, beat, run, waiting, faults>>

-------------------------------------------------------------------------------
(* The end.                                                                *)

\* pool.close up to its await: every client that has a living child asks it to end.
Close ==
  /\ phase = "open"
  /\ phase' = "closing"
  /\ owners' = [t \in Tasks |-> 0]
  /\ close' = [c \in Clients |-> IF proc[c] \in {"none", "gone"} THEN "done" ELSE "shutdown"]
  /\ closing' = [c \in Clients |-> close'[c] = "shutdown"]
  /\ UNCHANGED <<children, beat, run, side, taskIds, waiting, faults>>

\* The child has closed everything and exits; or it does not, and is killed in time.
ShutdownAnswered(c) ==
  /\ close[c] = "shutdown" /\ Responsive(c)
  /\ close' = [close EXCEPT ![c] = "exit"]
  /\ \/ proc' = [proc EXCEPT ![c] = "gone"] /\ UNCHANGED faults
     \/ proc' = [proc EXCEPT ![c] = "hung"] /\ Fault
  /\ UNCHANGED <<phase, gen, ready, late, closing, beat, run, side, books, waiting>>

KillAfterShutdown(c) ==
  /\ close[c] = "exit" /\ proc[c] = "hung"
  /\ proc' = [proc EXCEPT ![c] = "killed"]
  /\ close' = [close EXCEPT ![c] = "killed"]
  /\ UNCHANGED <<phase, gen, ready, late, closing, beat, run, side, books, waiting, faults>>

Closed ==
  /\ phase = "closing" /\ \A c \in Clients : close[c] = "done"
  /\ phase' = "closed"
  /\ waiting' = {}
  /\ UNCHANGED <<children, closing, close, beat, run, side, books, faults>>

-------------------------------------------------------------------------------
Init ==
  /\ phase = "open"
  /\ proc = [c \in Clients |-> "none"] /\ gen = [c \in Clients |-> 0]
  /\ ready = [c \in Clients |-> FALSE] /\ late = [c \in Clients |-> FALSE]
  /\ closing = [c \in Clients |-> FALSE] /\ close = [c \in Clients |-> "no"]
  /\ beat = [c \in Clients |-> 0]
  /\ run = [t \in Tasks |-> Idle] /\ side = [k \in Side |-> SideIdle]
  /\ owners = [t \in Tasks |-> 0] /\ taskIds = [c \in Clients |-> {}]
  /\ waiting = {} /\ faults = 0

Child(c) ==
  \/ Ready(c) \/ Hang(c) \/ Die(c) \/ ExitEvent(c) \/ LateExit(c)
  \/ Recycle(c) \/ Heartbeat(c) \/ BeatAnswered(c)

Run(t) == StartRun(t) \/ RunReady(t) \/ RunAnswered(t)

SideCall(k) ==
  \/ \E t \in Tasks : CancelTask(k, t) \/ UpdateDiscoveryKeywords(k, t)
  \/ \E c \in Clients, kind \in SideKinds : AskClient(k, kind, c)
  \/ SideReady(k) \/ SideAnswered(k)

Next ==
  \/ \E t \in Tasks : DrainQueue(t)
  \/ /\ ~DrainDue
     /\ \/ \E c \in Clients : Child(c) \/ ShutdownAnswered(c) \/ KillAfterShutdown(c)
        \/ \E t \in Tasks : Run(t)
        \/ \E k \in Side : SideCall(k)
        \/ Close \/ Closed

Spec == Init /\ [][Next]_vars

\* Timers fire, events are delivered, a child that works answers, resumed calls go on.
Fairness ==
  /\ \A c \in Clients :
       /\ WF_vars(Ready(c)) /\ WF_vars(ExitEvent(c)) /\ WF_vars(LateExit(c))
       /\ WF_vars(Heartbeat(c))
       /\ WF_vars(~Responsive(c) /\ Recycle(c))
       /\ WF_vars(BeatAnswered(c))
       /\ WF_vars(ShutdownAnswered(c)) /\ WF_vars(KillAfterShutdown(c))
  /\ \A t \in Tasks : WF_vars(DrainQueue(t)) /\ WF_vars(RunReady(t)) /\ WF_vars(RunAnswered(t))
  /\ \A k \in Side : WF_vars(SideReady(k)) /\ WF_vars(SideAnswered(k))
  /\ WF_vars(Closed)

FairSpec == Spec /\ Fairness

-------------------------------------------------------------------------------
(* Properties.                                                             *)

TypeOK ==
  /\ phase \in {"open", "closing", "closed"}
  /\ proc \in [Clients -> {"none", "starting", "up", "hung", "stuck", "gone", "killed"}]
  /\ gen \in [Clients -> 0 .. MaxGen]
  /\ ready \in [Clients -> BOOLEAN] /\ late \in [Clients -> BOOLEAN]
  /\ closing \in [Clients -> BOOLEAN]
  /\ close \in [Clients -> {"no", "shutdown", "exit", "killed", "done"}]
  /\ beat \in [Clients -> 0 .. MaxGen]
  /\ run \in [Tasks -> [at : {"idle", "permitReady", "permitSync"} \cup Executing,
                        client : Clients, gen : 0 .. MaxGen, told : BOOLEAN]]
  /\ side \in [Side -> [at : {"idle", "ready", "wait"}, kind : SideKinds, task : Tasks,
                        client : Clients, gen : 0 .. MaxGen]]
  /\ owners \in [Tasks -> Clients \cup {0}]
  /\ taskIds \in [Clients -> SUBSET Tasks]
  /\ waiting \subseteq Tasks /\ faults \in 0 .. MaxFaults

\* No entry outlives its run: until the pool is closed, what a client counts as its
\* load and what the pool keeps as an owner are runs on that client (least-loaded
\* routing and the routing of cancels read them).
BooksFollowRuns ==
  phase = "open" =>
    /\ \A c \in Clients : \A t \in taskIds[c] : t \in RunsOn(c) /\ run[t].at \in Executing
    /\ \A t \in Tasks : owners[t] # 0 => t \in RunsOn(owners[t])

\* Every call of pool.execute returns, whatever happens to the process it runs in.
RunEnds == \A t \in Tasks : Active(t) ~> ~Active(t)

\* An unresponsive child is replaced or removed, also if no task runs in it, as long as
\* the pool is open.
UnresponsiveReplaced ==
  \A c \in Clients :
    proc[c] \in {"hung", "stuck"} ~> proc[c] \notin {"hung", "stuck"} \/ phase # "open"

\* Closing the pool ends.
CloseEnds == phase = "closing" ~> phase = "closed"

\* The pool remembers where a task is executed for as long as the process has not been
\* told to stop it, so that a cancel reaches that process.
CancelReachesRun ==
  phase = "open" => \A t \in Tasks :
    run[t].at = "exec" /\ ~run[t].told => owners[t] = run[t].client

\* A task is routed to a process with the fewest runs.
RoutedToLeastLoaded ==
  [][\A t \in Tasks : ~Active(t) /\ (run'[t].at # "idle") /\ owners[t] = 0 =>
       \A c \in Clients : Cardinality(RunsOn(run'[t].client)) <= Cardinality(RunsOn(c))]_vars
===============================================================================
