# ARES: a TLA+ verification project

ARES is an Electron desktop program that runs purchase and monitoring *tasks*: a user
creates tasks in an Angular window, the main process schedules them on a pool of workers,
and browser worker processes drive a browser for each of them. The TLA+ modules in this
directory model how those tasks are scheduled, retried, paused, cancelled and stored, the
processes they run in, the monitors that create them, the way of a run through a shop up
to the order, and the user's records and browsers around them. Paths below are relative to
the repository (`src/...`), which has its own `src/` directory inside.

Contents: 1 inventory, 2 plan, 3 the modules and how they correspond to the code, 4 runs,
5 bounds, 6 fairness, 7 proofs, 8 what is only model-checked, 9 findings, 10 what is not
modelled.

## 1. Inventory

### 1.1 Components

| component | state it keeps | operations | interacts with | what makes it correct |
|---|---|---|---|---|
| **Task orchestrator** `src/orchestrator`, `worker-pool`, `retry-scheduler`, `state-machine`, `models` | pending queue, `pausedRunningTaskIds`, idle workers and assignments, one timer per task, the local variables of each suspended `startTask`, `pauseTask`, `resumeTask` call | `initialize`, `createTask`, `startTask`, `pauseTask`, `resumeTask`, `cancelTask`, `addWorker`, `handleRuntimeTaskUpdate`, `cleanup` | awaits the executor and the registry; emits events | one run per task; no worker lost or given twice; no queued task forgotten; the result of an interrupted run is ignored; blocked retries stay blocked |
| **Event bus, cancellation manager** | listeners / abort controllers | `emit`, `cancel` | every component of the main process | listeners run inside `emit`, before the emitting call goes on |
| **Legacy task executor and mocks** | none | `execute` | replaced in the desktop program by the executor router | |
| **Task persistence** `src/persistence`, `src/task-registry` | promise chain of snapshots, `lastError`; map of task objects; the SQLite tables | `subscribe`, `enqueue`, `flush`, `close`; `saveTask`, `loadAllTasks`; upserts | listens to every lifecycle event; the registry writes at once; main process closes it on quit | an idle program's rows are its tasks; a pause that was answered survives; nothing runs by itself after a restart |
| **Desktop program** `src/electron/main.ts` | the window, payment sessions, the objects above | IPC handlers, start-up, `before-quit` | everything | quitting loses no task and books no result; records in use are not deleted |
| **Browser worker client and pool** `src/browser-worker/client.ts` | child process, pending requests, heartbeat failures, the tasks each client owns, permission for the final purchase | `execute`, `cancelTask`, `setFinalPurchaseAllowed`, `updateDiscoveryKeywords`, `health`, `close`, process exit, timeouts | JSON lines over the standard streams of the child | every call returns; the books agree with the calls; a hanging process is replaced; closing ends |
| **Browser worker process** `src/browser-worker/worker.ts` | executors, their abort controllers | `handle` of each request | client; executors | a cancel reaches the run it is meant for |
| **Early-gate executor** `early-gate-task-executor.ts`, `final-submit-recovery.ts` | context per task, permission, keywords | `execute`, `cancelTask`, `updateDiscoveryKeywords`, `closeAll` | queue waiter, form filling, shop pages | the order is submitted at most once, with permission, for what was asked for, from a prepared checkout |
| **Shopify executors** `src/shopify` | the same | the same | the same | the same |
| **Queue waiter** `queue-waiter.ts`, `session-http-poller.ts` | first detection, last signal, response bodies, the task's `queueStatus` | `waitIfQueued` | page, task updates, the side process that asks over HTTP | a wait ends; it is left as released only when the shop admits; its window counts from its first detection |
| **Browser runtime and profile sessions** `seleniumbase-browser-worker.ts`, `profile-session-manager.ts`, `ares-browser-runtime.ts` | contexts, leases, lock files | `createContext`, `closeContext`, `shutdown`; `acquire`, `release`, `inspect` | other processes through the lock file | one browser per profile directory; a lock has a holder |
| **Product monitors** `src/monitor` | last seen product states, cycle per task, visible browsers | `execute`, `cancelTask`, `runCycle`, `runGateCycle` | shop, browser adapter, auto-checkout | every offer noted is used; no browser is left behind |
| **Auto-checkout coordinator** `auto-checkout-coordinator.ts` | children by parent, payment sessions | `handleProductEvent`, `handleGateEvent` | orchestrator | one child per monitor, none for a stopped one |
| **Executor router and product interfaces** `src/commerce` | none | routing by lane, `discover` of the adapters and journeys | executors, monitors | the product bought is one that was asked for |
| **Payments** `src/payments` | vault of cards, sessions per task | save, delete, materialise, take | executors, vault file | a card that was reported as saved is found again; a session serves the task it was made for |
| **Proxies, cookies, profiles** | repositories with their files, vault of snapshots, health checks | save, delete, test, assign | tasks, window, other records | nothing in use is deleted; nothing deleted comes back; edits are not undone |
| **Challenges** `src/challenges` | none | detection, external solving | pages | |
| **Form filling and interaction** `semantic-*`, `field-semantic-resolver.ts`, `interaction-engine.ts` | targets met and completed in one run | `prepare`, `click` | a page that changes meanwhile | each field holds its own value; success means the required fields hold theirs |
| **User interface** `src/app` | lists as last read, the purchase switch | commands | IPC handlers | what is shown settles to what is |
| **Vision runtime** `src/electron/seleniumbase-vision-runtime.ts` | the shared service, its address in the environment | `prepare`, `ensure`, `shutdown` | worker processes inherit the address | the address named is a service that runs |
| **Profile browsers** `seleniumbase-profile-browser-controller.ts` | manual browser per profile, its lease | `open`, `close`, `resetSession`, exit | lock file, directory of the profile | the browser keeps the lock as long as it runs |
| **Core library** `src/core` | an older task service | | not used by the desktop program | |
| **Browser driver** | vendored automation scripts | | browser runtime | |

### 1.2 How they interact

A command of the window reaches `main.ts`, which calls the orchestrator. The orchestrator
hands a task to an executor (`executor.execute(task)`) and keeps an entry in the pool for
as long as that call is suspended. The executor router chooses a browser worker process or
a monitor. Progress comes back as `task-update` messages that end in
`handleRuntimeTaskUpdate`, results as the value of `execute`. Every transition is emitted
on the event bus; listeners run synchronously inside `emit` (the orchestrator's own
`taskFailed` and `taskRetrying` listeners among them) and the persistence coordinator
queues a snapshot. `registry.saveTask` writes through directly.

A monitor's observation goes through `onEvent` of `main.ts` to the auto-checkout
coordinator, which creates and starts a checkout task and cancels the monitor. A checkout
run opens the profile's directory under a lock file shared with the manual profile browser
and with deletion, waits in the shop's queue, searches, fills the forms, and submits when
the setting in the main process, told to each worker by a request, allows it.

### 1.3 What is hard

* **Suspended calls.** A pause or cancel changes the task at once, but the run it
  interrupts unwinds later. In between the task can be resumed, started by another path,
  paused again, cancelled. `startTask` must recognise, when `execute` returns, whether the
  result still counts, although the state may look fresh again.
* **Several ways into `startTask`.** The user, `drainQueue` after a release, after a save,
  after `addWorker`, and the retry timer.
* **Re-entrancy.** A failure emits `taskFailed`, whose listener moves the task on to
  RETRYING and schedules a timer before the emitting call has saved the task.
* **Two writers of one row, failing saves, crashes, quitting** (persistence).
* **Requests that time out, workers that die or hang, answers that come late**, books that
  are cleaned up after an `await` (worker client).
* **Events on their way** to a monitor's coordinator while the monitor is paused or
  stopped; browsers that open while the run ends.
* **Pages that change** between reading a form, filling it, and judging it; signals of a
  queue that are old, contradict each other, or come from an earlier run.
* **At most once**: the order must not be sent twice by retry, resume or restart.
* **Copies**: records read before an `await`, or shown in a window, and saved after it.

The hazards are listed, each at its line, in `PROJECT.json`; the properties below are
aimed at them.

## 2. Plan

In this order, the most important behaviour first; all of it is done, the proofs of a part
after its runs.

1. `TaskStateMachine`, `TaskOrchestrator`, `TaskLifecycle` (what the orchestrator promises),
   composed by refinement; proofs in `TaskOrchestratorProofs`.
2. `FinalPurchase`: permission, submit, confirmation, retry block, composed with a task's
   lifecycle, its executor and the worker process; proofs in `FinalPurchaseProofs`.
3. `TaskPersistence`: chain, direct saves, crash, restart, quit; `TaskPersistenceProofs`.
4. `BrowserWorkerPool`: processes, requests, timeouts, ownership, closing;
   `BrowserWorkerPoolProofs`.
5. `MonitorCheckout`: commerce monitor, coordinator, parent and child;
   `MonitorCheckoutProofs`.
6. `ProfileSessions`, `DesktopRecords`, `VisionService`, `RuntimePanel`: the desktop program
   around the tasks, put together in `MCDesk`; `DeskProofs`.
7. `QueueWait`, `FormFill` (`MCPage`, `PageProofs`) and `EarlyGateSearch`,
   `CheckoutPreparation` (`MCCheckout`, `CheckoutProofs`): a run in a shop.

What remains worth doing: `TaskLifecycle` as the abstract task of `MonitorCheckout` and
`FinalPurchase`, which state the part they use of it themselves. Step by step it is not:
`Deliver` of `FinalPurchase` takes in one step what the orchestrator does in two, reporting
the result and ending the run, so the mapping needs a further variable.

## 3. Modules

| module | what it is |
|---|---|
| `TaskStateMachine` | the transition table and the classifications of task states |
| `TaskOrchestrator` | the orchestrator with worker pool, retry scheduler and registry |
| `TaskLifecycle` | abstract specification: what the orchestrator promises its user |
| `TaskPersistence` | what is kept of tasks over the end of the process |
| `FinalPurchase` | permission, requests to a worker, checkout runs up to the click that orders |
| `BrowserWorkerPool` | worker processes as the main process sees them |
| `MonitorCheckout` | a product monitor, its browsers and the checkouts it creates |
| `ProfileSessions` | who holds a profile's browser directory |
| `DesktopRecords` | profiles, proxies, cards, snapshots and the copies others hold of them |
| `VisionService` | the shared image-recognition service |
| `RuntimePanel` | the purchase switch and the setting it shows |
| `QueueWait` | waiting in a shop's queue over several runs |
| `FormFill` | filling of a form that changes |
| `EarlyGateSearch` | search and cart with keywords that change |
| `CheckoutPreparation` | preparation rounds of both executors |
| `MCTaskOrchestrator` | the orchestrator on small sets, for TLC |
| `MCDesk`, `MCPage`, `MCCheckout` | the modules of 3.6 and 3.7 put together, and their values for TLC |
| eight modules `*Proofs` | theorems and lemmas, section 7 |

The modules that are put together name their initial states, steps and specifications after
themselves (`WaitInit`, `FormNext`, `SessionsSpec`), so that the MC modules and the proofs
can extend several of them.

JavaScript runs one callback at a time, so in all modules a stretch of code between two
`await`s is one action, with every listener it triggers and, where nothing can come between,
the microtasks it resolves. A suspended call is state.

### 3.1 The orchestrator

| code | model |
|---|---|
| `task.state`, `task.retries`, `config.data.retryPolicy.blocked` | `state`, `retries`, `retryBlocked` |
| `pendingTaskIds` + `pendingTaskIdSet` | `pending` (the set is its range; `PendingDistinct`, proved as `NoDuplicates`, is what makes that true) |
| `pausedRunningTaskIds` | `pausedRunning` |
| `RetryScheduler.timers` | `retryTimer` |
| `WorkerPool.workers` / `assignments` | `workers`, `available`, `assignment` |
| a `startTask` call inside `executor.execute` / inside its last `saveTask` | a record of `runs` with phase `executing` / `saving`, with the worker id the call holds |
| a `pauseTask` / `resumeTask` call inside `saveTask` | `pauseSaves[t]` / `resumeSaves[t]` |

| action | code |
|---|---|
| `Init` | `initialize` on any stored table: CREATED becomes QUEUED, active states become PAUSED |
| `AddWorker` | `addWorker` and the `drainQueue` it ends in |
| `CreateTask`, `StartTask`, `PauseTask`, `PauseRefused`, `ResumeTask`, `CancelTask` | the commands up to their first `await`; `PauseRefused` is the early return that still clears queue and timer |
| `PauseSaved`, `ResumeSaved`, `SaveFails` | what follows the `await` of `saveTask`, or its exception |
| `Progress` | `handleRuntimeTaskUpdate` with any update |
| `ReturnInterrupted`, `ReturnSuccess`, `ReturnSuccessRefused`, `ReturnFailure` | the ways `execute` returns into `startTask`; failure contains the `taskFailed` listener |
| `RunSaved` | the `finally` block: `releaseWorker`, `drainQueue` |
| `RetryFires` | the timer and the `taskRetrying` listener |

`drainQueue` is a loop over a mutable list that rotates and drops entries and starts
tasks. `DrainQueue` states its result without a loop: it inspects a prefix of the queue;
entries that are not QUEUED are dropped, those whose task still owns a worker go to the
end in their order, the others are started on distinct idle workers; it stops at the end
of the queue or when the last idle worker is gone. Which idle worker is taken makes no
difference to the program, so the list of idle workers is the set `available`.

The executor is any `ITaskExecutor`. `OrderedProgress` separates two environments: an
executor that reports success only from a state that can complete (what the executors of
the program do by sending their stages first) and one that may report it at any time, so
that `completeSuccessfulTask` throws. `ReliableSaves` likewise separates a registry that
never throws from one that may.

`TaskLifecycle` knows six statuses, the tasks with a live run and the number of slots.
Its `Turn` says what scheduling may do: start only waiting or retrying tasks, none whose
previous run is live, never more than there are slots; `Report` says that only the run of
a task shown as running moves it.

### 3.2 Persistence

| code | model |
|---|---|
| registry map, rows of `tasks` | `mem`, `row` (state, retries, retry block) |
| a retry block a worker has reported (`task-update`) and not yet answered with | `reported` |
| `writeQueue` of the coordinator, `lastError` | `chain`, `lastError` |
| calls whose `saveTask` has returned | `cont` |
| queue, pause marks, timers, calls that hold a worker | `pending`, `marked`, `timers`, `running` |
| rows of the task log | `logged` |

`SaveDone`/`SaveThrows` are the registry's write, `WriteNext` takes the oldest snapshot
(`RecordDone`, `RecordThrows` with the catch that keeps the chain alive), `Continue` what a
call does after its save. SQLite is synchronous, so chain and continuations are microtasks:
they may run in any order among each other but before the next command (`Quiet`).
`Progress` is a `task-update` of the worker: it replaces the task's configuration, retry
block included, at once and without a save or a snapshot, also while the program is
closing; only the transitions of the shop's queue, if it brings one, are emitted. A run that
has reported a block answers with false or throws. The process goes `up`, `closing` (`Quit`: executors closed), `cleaned` (`Cleanup`), `down`
(`CloseStore`), or dies anywhere (`Crash`); `Restart` and `RestartFails` are
`initialize`. What the user was told (`held`, `asked`) and which writes failed (`lost`) is
history.

### 3.3 The final purchase

`FinalPurchase` follows the irreversible click through three processes. Of a task the
desktop process keeps a status as in `TaskLifecycle` and its one execute call; that there
is one is what `OneRunPerTask` shows for the orchestrator, and `Start` builds on it.

| code | model |
|---|---|
| `task.state`: QUEUED, running-like, RETRYING, PAUSED, final | `status`: waiting, running, retrying, held, over |
| the suspended `pool.execute`: before and after the permission is acknowledged | `call`: syncing, sent |
| `pausedRunningTaskIds`, `task.retries`, `retryPolicy.blocked` | `marked`, `retries`, `blocked` |
| `allowFinalPurchase` of `main.ts`, pool and client | `allow`; `unacked` while `setFinalPurchaseAllowed` is suspended |
| lines on the standard input of the worker | `inbox` |
| `allowFinalPurchase` of the two executors | `permission` |
| the suspended `execute` in the worker, then its result on the way back | `phase` |
| `AbortController` of the run | `aborted` |
| attempts of the click, looks for the confirmation | `tries` |
| clicks that reached the shop | `orders` |

| action | code |
|---|---|
| `Start`, `SendExecute` | `startTask` into `pool.execute` and `client.execute`: permission request, its answer, execute request |
| `PauseTask`, `CancelTask`, `ResumeTask`, `RetryDue` | the orchestrator's commands and timer, with the cancel request they send |
| `SetFinalPurchaseAllowed`, `SettingAcknowledged` | the IPC handler in `main.ts` |
| `Deliver` | the result with its configuration reaches `startTask`; the `taskFailed` listener decides on a retry |
| `WorkerDies` | crash, kill after a timeout, `handleWorkerExit`, and the fail-closed branch of the IPC handler |
| `Read` | one line of `worker.ts`: `ReadPermission`, `ReadExecute`, `ReadCancel` |
| `MonitorEnds` | a gate monitor returns, and `worker.ts` goes on to the early-gate checkout, or fails |
| `Advance`, `Throws`, `Stops` | a checkout run up to the point where everything is ready; its exceptions; its looks at the abort signal |
| `Submit`, `GuardPasses`, `GuardRefuses` | the loop around `submitOrder` and the callback it asks |
| `ClickDispatched`, `ClickAttemptFails`, `ClickGivenUp` | the attempts of `InteractionEngine.click` |
| `Look`, `Unconfirmed` | `confirmFinalSubmitWithRetries` and `blockRetryAfterAmbiguousSubmit` |

The Shopify and the early-gate executor are one set of actions, with the differences
where they are: who has an abort controller when (`Abortable`), whether the guard looks at
it (`Guard`), what an exception in the click becomes (`ClickGivenUp`), what follows when
nothing was submitted (`NotSubmitted`).

Pool and client each send a permission request before an execute; the second always
repeats the last word on its way, so the model sends one. One worker process is modelled:
a task stays with its process, and processes share nothing but the setting.

### 3.4 Worker processes

`BrowserWorkerPool` is `client.ts`. A client has at most one child; each spawn is a
generation.

| code | model |
|---|---|
| `child` of a client, its generation, `ready` promise, exits still to come | `proc`, `gen`, `ready`, `late` |
| `pool.close` and the `close` of each client | `phase`, `close`, `closing` |
| the heartbeat request in flight | `beat` |
| a `pool.execute` call: its place between the permission before it and the answer | `run` (`permitReady`, `permitSync`, `ready`, `sync`, `exec`) |
| other calls: cancel, keywords, permission, health | `side` |
| `taskOwners`, `taskIds` with `taskRefs` | `owners`, `taskIds` |

`StartRun`, `RunReady`, `RunAnswered` and `SideStart`, `SideReady`, `SideAnswered` carry a
call from one `await` to the next; `DrainQueue` starts a queued task when a slot is free.
`Die`, `Hang`, `ExitEvent`, `LateExit` are what happens to a child, `Recycle` is
`recycleWorker` with the rejection of everything pending, `Heartbeat` and `BeatAnswered`
the watchdog. An answer, a timeout, a failed write and an exit each resume all the calls
they settle in one step.

### 3.5 Monitors

`MonitorCheckout` has one monitor task with its states from the orchestrator, the cycle of
`commerce-monitor-service.ts` (`stage`: search, render, observe, wait, close),
`ProductMonitor.lastSeen`, the adapter's fallback session and the visible browser,
the browsers still ending (`ending`),
`onEvent` handlers on their way (`due`), the coordinator's `Handle`, and the `children` it
created with their payment sessions. `SearchAnswers`, `SearchFails`, `RenderAnswers`,
`RenderFails` are what the shop and the browser do; `Observe` is one candidate with
`recordProductMonitorEvent`, which may throw (`RecordFails`); `RunReturns` is the end of
`execute` in the orchestrator, with retry and pause mark. The adapter forgets a session at
once and waits up to eight seconds for its browser to close: `fallback` is `closing` while
the run itself waits for that (`EndLoop`, `FallbackClosed`), but a cancel moves the browser
to `ending` (`ForgetSession`), and then the run finds no session and does not wait.
`FallbackDies` is the exit of a browser nobody asked to close.

### 3.6 The desktop program around the tasks

* `ProfileSessions`: the lock file of one profile (`lock`), the manual browsers (`entry`,
  `child`, `leased`, `opening`, and the `close` calls `closer`), deletion of the directory
  (`removing`), and in each worker the contexts of tasks (`ctx`, `held`, `closing`, `dirs`).
  `Open`, `AskClose`, `CloseTimesOut`, `ChildExits`, `BeginRemove`/`EndRemove`,
  `CreateContext`, `CloseContext`, `Shutdown` are the functions of the controller, the
  session manager and the browser worker; `WorkerExits` is the end of a worker process, by
  itself or by `recycleWorker`, as the main process sees it (`handleWorkerExit`).
* `DesktopRecords`: the repositories in memory and their four files. Profiles and proxies
  are written in place, so a write may be refused or cut short by a crash
  (`CrashInWrite`); the two vaults write beside and rename. `DeleteProfile`, `DeleteData`
  and `DeleteCardData` are the steps of a deletion, which may put the profile back;
  `TestProxies`/`TestEnds` the health check, `BeginReset`/`ResetDone`/`ResetFails` the
  session reset of the panel with its copy.
* `VisionService`: services (`service`, `starter`), the one each process owns (`own`), those
  it waits for (`starts`) and the address in its environment (`url`).
* `RuntimePanel`: the setting (`allowed`), the switch (`shown`), status requests whose answers
  overtake each other (`asked`), and the user's change with its own refresh (`change`).

### 3.7 A run in a shop

* `QueueWait`: `waitIfQueued` for a checkout and for the gate monitor, over several runs.
  The shop queues its visitors and lets them in; `net` and `bodies` are the captured
  responses, `polled` the latest word of the side process, `blank` a page that shows
  nothing; `status` is what an earlier run left in `task.queueStatus`. `FirstReading`,
  `Poll`, `TimesOut` are the readings; a unit of time is one poll. A signal tells of the past:
  when the shop queues its visitors again, the answer that released them before may still be
  on its way or not yet forgotten, and the waiter believes it. `stale` remembers that there
  was such an answer when the queue was noticed.
* `FormFill`: one pass of the loop shared by `SemanticCheckoutPreparer.prepare` and
  `fillCheckoutProfile`: `Plan`, `Collect`, `LookSemantic`, `BeginNames`, `LookNamed`,
  `Write`, `Verify`, then the evaluation after the pass. The page inserts, shows, hides and
  resets controls between any two of them; controls are addressed by position, as in the
  code. `Collect` has the branch of a profile with KI AutoFill off (`kiAutofill`): nothing
  is listed, and only the fallback selectors are tried, in the order of the code's list
  (`Fallbacks`, a selector being an intent and its place in the list of that intent;
  `trying` is the intent whose list is being gone through, until one of them is filled).
  `Evaluate` begins an evaluation (`result`), `ReadBack` is one read of it, `Judge` and
  `Conclude` are its verdicts after a pass and after the loop: `unread` are the targets it
  has still to read, `wiped` what the page took back meanwhile. The order in which a pass
  looks at controls is stated, not computed: `InOrder` is the set of the sequences that
  have the items once each, by falling confidence; the order of the reads is left open.
  `OwnValue` is what a control may hold: the value of what its markup asks for, or, as far
  as it is not recognised as that, of what a selector takes it for. `calm` and `stirred`
  only watch: whether a whole pass met the page as it was left, and whether a control ever
  came between those of a pass.
* `EarlyGateSearch`: a run's `words`, the changes on their way to the worker (`wanted`) and
  the configurations and answers on their way back (`back`, `due`), the search and the cart.
* `CheckoutPreparation`: the rounds of both executors, with what each step read
  (`profileReady`, `paid`, `report`) beside what the page is (`page`) and whether it has
  moved since the round began (`still`).

## 4. Runs

| run | checks | shows |
|---|---|---|
| `pool` | `TypeOK` `OneRunPerTask` `PoolConsistent` `NoIdleWorkerWhileStartable` `BlockedNeverRetried` | with the worst executor and failing saves, pool, queue, timers and calls agree in every interleaving |
| `results` | `ShownRunningIsExecuting` `ImplementsLifecycle` `QueuedEventuallyLeaves` | with an orderly executor, a task is shown as running exactly while a live, uninterrupted call executes it; the orchestrator implements `TaskLifecycle`; with one worker shared with a monitor, no queued task is forgotten |
| `purchase_once` | `AtMostOneOrder` | loops, confirmation and automatic retries do not order twice |
| `purchase_liveness` | `PermissionReachesRuns` `OrderNeedsPermission` `PermissionReachesCheckout` `AbortedRunEnds` | with a worker that may die at any time and a user who does anything, the present word reaches every run, no submit passes its guard against it, a permission is not lost on a checkout that waits for it, an aborted checkout ends |
| `persistence` | `SettledRowIsCurrent` `RunsOnlyWhenAsked` `PauseSurvivesRestart` `LogFollowsTable` `QuitEnds` | with failing statements, crashes and quits anywhere, an idle program's rows are its tasks, but for a block reported by a call that still runs, a restart starts nothing by itself, an answered pause is found again, the log is a path of the table, quitting ends |
| `workers` | `BooksFollowRuns` `RunEnds` `UnresponsiveReplaced` `CloseEnds` | no entry outlives its run, every call returns, a hanging child is replaced, closing ends |
| `monitor` | `OneCheckoutPerParent` `NoBrowserLeftBehind` `SeenOfferIsUsed` | one checkout per monitor, no browser left that nobody has told to close, every offer noted is used |
| `desk` | `ManualBrowserKeepsLock` `LockHasHolder` `UsedRecordsExist` `AckedCardSurvives` `MainServiceIsNamed` `ShownSettles` | the four modules of 3.6, one part per behaviour |
| `page` | `ReleaseMeansAdmitted` `WindowSpansRuns` `WaitEnds` `OwnValuesOnly` `FailureHasCause` `SatisfiedMeansFilled` | `QueueWait` and `FormFill`, one part per behaviour |
| `checkout` | `KeywordsAgree` `ReadyMeansPrepared` `PreparationEnds` | `EarlyGateSearch` and `CheckoutPreparation`, one part per behaviour |
| `purchase_click`, `purchase_second_click` | one violated property each | section 9 |

`MCDesk`, `MCPage` and `MCCheckout` extend modules that share no state and run them
together. A variable `part` chooses the module a behaviour follows; the others rest in a
single initial state, so the state space is the sum of the parts and not their product.

`AtMostOneOrder` has three conditions, each a constant, because the code does not hold it
without them: a worker that dies after the click takes the retry block with it
(`WorkerMayDie`); a click that reached the shop and was answered with an error is repeated
(`ClicksReliable`, dropped in `purchase_second_click`); `resumeTask` does not ask for the
block, so a user may send out a task again that has ordered (`CarefulUser`).

`ShownRunningIsExecuting` needs `OrderedProgress`: when `completeSuccessfulTask` throws,
the call ends and the task stays in, say, WAITING_QUEUE with nobody working on it, until
the user pauses it. That is why the properties are split over two environments.

`SettledRowIsCurrent` has the exception it needs: a block that came by `task-update` is on
file only when the run has ended, so a row may lack it as long as the call still runs
(`reported`); of a task that is not running it allows no difference.
`SatisfiedMeansFilled` does not say that a satisfied form is a filled one, which the code
cannot know (section 9), but that nothing lost before the last evaluation is reported.
`FailureHasCause` separates profiles by KI AutoFill: a control only a selector knows is not
looked at again once it was met, so without recognition a failure on a page that moved may
have no other cause than a write that was lost.

`UnresponsiveReplaced` is checked without children that hang while they start; with them it
fails (section 9). A run is without deadlock except in `workers`, `monitor`, `desk`, `page` and
`checkout`, where the system may really stop: the pool is closed, the monitor has ended and
the shop's changes are used up, the runs are over.

Every property has a *slip*: an operator such as `EndRunUndrained`, `SeedForgotten` or
`MayPrepareLate`, placed before the definition it corrupts, that changes the model the way
a plausible bug would. `PROJECT.json` pairs them ("mutants"); TLC finds each property
violated by its slip.

## 5. Bounds

**Orchestrator.** Two tasks and two workers (one in `results`): with two tasks every pair of
calls, queue positions and the competition for a worker occurs; with two workers the loop
of `drainQueue` can start both, and one task can be unwinding while the other worker is
idle, which is the case rotation exists for. `MaxRetries = 1` gives both outcomes of the
retry decision. `MaxSaves = 1` bounds the suspended `pauseTask` and `resumeTask` calls per
task: a second call needs another pause/resume cycle of the same task inside one save and
meets the same code. One gate child beside an ordinary task (in `results` a monitor)
covers both branches of progress. Workers are symmetric in `pool`, which has no temporal
property; no state constraint is used anywhere.

**Final purchase.** `MaxInbox = 2` unread requests are enough for a permission behind an
execute, a cancel behind an execute, two contradictory permissions; a request beyond the
bound waits. `purchase_once` has two attempts, two looks and one retry, orders counted to
2, a Shopify task and a gate monitor that becomes an early-gate checkout. The other runs
have one task; permission and liveness do not depend on how often a click or look is tried.

**Persistence.** One task: rows of different tasks meet only in the order of the chain, and
the theorems of section 7 hold for any number. (13,353 distinct states.) Its one retry makes two runs of a task in
one process, and with pause, resume and restart any number. Crash and restart are not bounded.

**Workers.** Two processes (routing, and a close that waits for the slower one), two tasks
for one slot (a queue), one side call of any kind, two faults (a child that dies while its
predecessor's exit is still to come). `MaxFaults` also bounds the generations.

**Monitor.** Two items, one change of availability, one retry; `Variants` empty, since items
that share a key are covered by a hazard of their own; two browsers that end at one time
(`MaxEnding`), so that one more is opened, and taken away, while another still ends
(844,554 distinct states, the run that takes longest). **Desk.** One worker with one task
beside two closing calls and two manual browsers over time; one profile, proxy and task
with two versions of each record would only repeat (`EditsOnlyAdvance` in section 9 uses
two); three services, so that a dead one can be replaced while another starts; two status
requests and three changes. **Page.** A window of two polls, signals that live for one, two
queues (with one, no answer of an earlier release can be taken for one of the present
queue), two runs; a form of five controls, one with each way to be recognised and one, `note`,
that only a selector knows, beside one (`mail`) that two selectors of one list match; three
profiles: all addresses, the default address alone, and the same with KI AutoFill off;
three passes and two changes of the page (the code allows 6 and 12 passes; a pass begins
from the same state as the one before it, apart from what it remembers); with two changes
a field can be reset between two reads of an evaluation and another one hidden or put in
(1,080,912 distinct states).
**Checkout.** Two products, a wide and a narrow list of keywords, two changes under way,
two runs; the preparation has no bound.

## 6. Fairness

All of it is weak unless said otherwise: the actions stay enabled until taken. Nothing is
ever assumed of the user, of the shop, of a process's life or of the outcome of a step.

* `TaskOrchestrator`: saves and timers complete (`PauseSaved`, `ResumeSaved`, `RunSaved`,
  `RetryFires`): promises over synchronous SQLite calls and `setTimeout`. Each worker is
  added (start-up loop in `main.ts`). The run of a browser task ends (`ReturnDue`), because
  every request of the worker client carries a timeout; the run of a monitor ends only
  after `cancelTask` aborted it, so `QueuedEventuallyLeaves` allows for monitors that hold
  every worker.
* `FinalPurchase`: the worker reads its input; a checkout run takes its next step, since
  everything it awaits has a timeout; a result is delivered.
* `TaskPersistence`: microtasks run (`WriteNext`, `Continue`), and the quit sequence goes on
  (`Cleanup`, `CloseStore`).
* `BrowserWorkerPool`: a child that starts becomes ready or exits (`Ready`, `ExitEvent`,
  `LateExit`; one that does neither is the constant `StartupMayHang`, section 9); timers
  fire (`Heartbeat`, `Recycle` of a child that does not respond, `KillAfterShutdown`); a child that works answers (`BeatAnswered`, `RunAnswered`,
  `SideAnswered`, `ShutdownAnswered`); resumed calls go on (`RunReady`, `SideReady`,
  `DrainQueue`, `Closed`). That a child which responds is recycled is not assumed: its
  requests merely may time out.
* `MonitorCheckout`: microtasks (`Observe`, `CycleEnds`, `Handle`, `RunReturns`) and requests
  with timeouts (`SearchAnswers`, `RenderAnswers`). The end of a visible browser waits in the
  event loop while a cycle runs and is not passed over for ever: strong fairness of
  `VisibleClosed`. Likewise for `FallbackClosed`: `closeSession` gives a browser eight seconds,
  then kills it, whatever else happens meanwhile.
* `QueueWait`: polls and their pauses (`Tick`, `Poll`, `TimesOut`).
* `RuntimePanel`: the ten-second timer and the answers (`Tick`, `Answer(v)`, `Confirmed`,
  `Refreshed`), as health requests have a timeout.
* `CheckoutPreparation`: deadlines pass (`Clock`) and each step of a round ends, if only by
  its timeout.
* `FormFill` needs none: its properties are about what holds when it concludes.

## 7. Proofs

TLAPS checks eight modules to the last leaf. Assumptions beyond the types of the constants
are named with each theorem.

| module | theorem | states |
|---|---|---|
| `TaskOrchestratorProofs` | `Inductive` | `Spec => []IInv` |
| | `Typed`, `NoOverlap`, `PoolTruthful`, `NoIdle`, `NoDuplicates` | `[]TypeOK`, `[]OneRunPerTask`, `[]PoolConsistent`, `[]NoIdleWorkerWhileStartable`, `[]PendingDistinct` |
| | `NoBlockedRetry` | `[]BlockedNeverRetried` |
| | `ResultInductive`, `ShownIsLive` | `[]ResultInv`, `[]ShownRunningIsExecuting`; `OrderedProgress` |
| | `Refinement` | `Spec => ImplementsLifecycle`; `OrderedProgress`, finite `Workers` |
| `FinalPurchaseProofs` | `Typed`, `WordReachesRuns`, `GuardedOrders` | `[]TypeOK`, `[]PermissionReachesRuns`, `OrderNeedsPermission` |
| | `OneOrder` | `Orderly => (Spec => []AtMostOneOrder)`, `Orderly` being the conditions of section 4 |
| `TaskPersistenceProofs` | `OnlyAskedRuns` | `[]RunsOnlyWhenAsked` |
| | `RowsFollow`, `RowsAreCurrent`, `PausesSurvive` | `[](RowInv /\ AskedInv /\ BusyInv)`, `[]SettledRowIsCurrent`, `[]PauseSurvivesRestart`; finite `Tasks` |
| | `LogIsPath` | `LogFollowsTable`; finite `Tasks` |
| `BrowserWorkerPoolProofs` | `PoolHolds`, `BooksHold` | `[]PoolInv`, `[]BooksFollowRuns`; finite `Tasks` |
| `MonitorCheckoutProofs` | `CheckoutHolds`, `OneCheckout` | `[]CheckoutInv`, `[]OneCheckoutPerParent` |
| | `FallbackEnds` | `[]NoBrowserLeftBehind` |
| `DeskProofs` | `SessionsHold`, `ManualKeepsLock`, `LockIsHeld` | `[]SessionInv`, `[]ManualBrowserKeepsLock`, `[]LockHasHolder`; "main" is no worker |
| | `RecordsHold`, `CardsSurvive`, `RecordsExist` | `[]RecordInv`, `[]AckedCardSurvives`, `[]UsedRecordsExist` |
| | `ServicesOwned`, `NamedIsOwn` | `[]VisionInv`, `[]MainServiceIsNamed`; `MaxServices \in Nat` |
| | `PartsKeepTheirSpecs`, `DeskHolds` | `Spec` of `MCDesk` implies the specifications of its parts, and so all of this |
| `PageProofs` | `WaitHolds`, `ReleaseIsTrue`, `HourIsOne` | `[]WaitInv`, `[]ReleaseMeansAdmitted`, `[]WindowSpansRuns` |
| | `FormHolds`, `OwnValues`, `SatisfiedIsFilled` | `[]FormInv`, `[]OwnValuesOnly`, `SatisfiedMeansFilled` |
| | `FailureIsExplained` | `[]FailureHasCause`; what is visible at first is on the page |
| | `PageHolds` | the same of `MCPage` |
| `CheckoutProofs` | `KeywordsHold`, `SearchUsesShown` | `[]KeywordsInv`, `[]KeywordsAgree` |
| | `RoundsHold`, `ReadyIsPrepared` | `[]PrepInv`, `[]ReadyMeansPrepared` |
| | `CheckoutHolds` | the same of `MCCheckout` |

The theorems are about every value of the constants, also of the bounds and of the sets the
MC modules give TLC: a form of any controls, markup and profiles, any list of keywords,
any window and lifetime of signals.

**Orchestrator.** `IInv` is `TypeOK`, `Consistent` (a run's worker is in the pool,
assignments and runs agree in both directions, a worker is available exactly if no run
holds it), `PendingDistinct` and `NoIdleWorkerWhileStartable`. `OneRunPerTask` is not
inductive alone: that a second `startTask` of the same task is impossible is due to
`assignTask` refusing a task that has an assignment, so the proof needs that assignments
and suspended calls agree, and for that in turn that no worker is both idle and assigned.
`NoIdleWorkerWhileStartable` needs all of it, since `drainQueue` skips exactly those
entries whose task owns a worker. Lemmas about the helpers (`EnqueueFacts`, `WithoutFacts`,
`RemovalFacts`, `DrainFacts`) carry what handing out, giving back and keeping workers does
to `Consistent`, then there is one lemma per group of actions.

**Lifecycle.** `Starts` is what every way into `startTask` has in common. `BlockInv` adds to
`BlockedNeverRetried` that an executing task is running or was interrupted, so that no
late report meets a task that waits for its retry. `ResultInv` adds that marks, states and
calls agree: the mark is what tells a resumed task whose old call still unwinds from a
fresh one. For the refinement the slots of `TaskLifecycle` are the workers: `LiveFit` is the
injection of live runs into workers and the cardinalities that follow; `OneMove` and
`TurnStep` turn a step of the code into a move of the user, a report, a retry or a turn;
`StepMaps` and `InitMaps` are put together with PTL.

**Final purchase.** `Told`, which says `PermissionReachesRuns` of a call that has only begun,
is inductive with the types: `WordSent`, `WordKept`, `WordRead` say what one more or one
less request does to the last word on its way. For `GuardedOrders` a run must rely on a
call (`RunsBelong`), and for that an execute request may be read only once
(`RequestsBelong`). `OneOrder` adds what a called and a marked task are shown as (`Shown`),
from which it follows that the result of an uninterrupted call is the only way to a retry,
and where a task that has ordered can be (`OrderedOnce`).

**Persistence.** `AskedInv`: queue, timers, workers and the continuation of a resume only know
tasks that were asked for. `RowInv`: the last snapshot of a task in the chain is the task
(`ChainEnds`), a task without one is on file (`OnFile`: but for a block its run has reported)
unless its latest write failed (`RowFollows`),
and row, task and all snapshots of a paused task say so (`PauseKept`). The second alone is
not inductive, for a direct save may come before older snapshots are written. `BusyInv` says that a reported block cannot be left over:
only a task that holds a worker has one, and a call that holds a worker is about to give
it back, runs a task that can still fail, or was interrupted (`Out`), so that every way out
of it saves the task. `OrderFacts`
and `BeginsFacts` are about the snapshots of several tasks that `drainQueue` starts at once.

For the log, `LogInv` says that the chain continues it: the first snapshot of a task in the
chain follows what the log last said of it, each later one the snapshot before it, and the
task's state now is that of its last snapshot; so a new snapshot need only follow the
task. `PathFacts`, `TwoSteps` and `RunLog` show that every stretch of code queues a path of
the table; that a run reported as successful from CART goes through CHECKOUT, as
`completeSuccessfulTask` does, is what they need of `ReturnSuccess`. A failed write leaves
the log of its task unknown, which is why `LogFollowsTable` says nothing across one.

**Worker processes.** `PoolInv` adds to `BooksFollowRuns` the shapes of the books and that no
client is closing while the pool is open: the end of a child is then always reported to its
client, which forgets its owners. `LeastNatural` and the lemma on top of it show that the
least loaded client exists; loads are numbers if the tasks are finitely many.

**Monitor.** `CheckoutInv`: the coordinator's note and the one child come together, and what
the user, the orchestrator and the shop do later changes the child's state, session and
attempts only. `NoBrowserLeftBehind` is inductive: only a run that neither has
ended nor is ending opens a browser, and it ends only once the one it closes has ended.

**Desktop.** `SessionInv` has a half for the manual browser (its shape, that a listed browser
runs, that the directory is removed only while none does) and one for holders.
`RecordInv`: as long as no write failed file and memory agree, so that a crash brings no
deleted or missing record back, and a profile that a failed deletion puts back can be
saved; an acknowledged card is in memory and on file. `VisionInv`: a running service is
known to the process that started it.

**Page.** `EvidenceInv`: once the queue is noticed and until the shop lets anybody in, no reading
can hear of a release, unless one was on its way before (`stale`), and a page that shows
nothing is read at most once in a row, which is one reading short of a release; `WindowInv`:
the time a run counts is the time since the first run noticed the queue. `FormInv` has two
parts: the shapes, and, as long as no pass was stirred, `PassInv`: an item that is to be
looked at goes with the control it leads to (`Fits`); when selectors are tried, every
visible control that is recognised (`Known`, empty with KI AutoFill off) was met, so that
the selectors of an intent nothing was met for lead to none that would be recognised as it
(`Free`). That every control recognised is among the items (`InOrder`) is what carries this
from the list to the look. `ReadInv`, for `SatisfiedMeansFilled`, says of the targets an
evaluation has read and not forgotten that their value is on the page or was taken back
since it began; `wiped` is emptied when an evaluation begins, so nothing older excuses it.

`FailureHasCause` rests on `StillInv`, which has three parts. `GivenInv`: a control only
ever holds the one value `ValueOf` names; this takes that no pass was stirred and that no
control is taken for two things (`Contradictory`). `SettledInv`: in a pass over a page that
stands still, each visible control that is recognised and has a value is still among the
items, is being written, or holds it; the control being written is there; and with KI
AutoFill off, if the page never moved, everything met is settled. Looking at an item
settles it, and a write unsettles nothing, since two targets that find their values in one
control have the same value; the reads of an evaluation forget nothing that is settled.
`OrderInv`: controls are there before they are seen, nothing is met before the first pass,
and a run that concluded is over. Without the two conditions one still pass is not enough
(section 9).

**Checkout.** `KeywordsInv`: the words of the last message on the way back are the run's, and the
configuration a run begins with has no answer before it or behind it. `RoundInv` says what
each step of a round leaves for the next, of address and card, as long as the page is the
same.

## 8. What is only model-checked

Liveness under fairness and `ENABLED`, which are out of the prover's reach:
`QueuedEventuallyLeaves`, `PermissionReachesCheckout`, `AbortedRunEnds`, `QuitEnds`,
`RunEnds`, `UnresponsiveReplaced`, `CloseEnds`, `SeenOfferIsUsed`, `ShownSettles`,
`WaitEnds`, `PreparationEnds`. Every other property of the passing runs is a theorem.

## 9. Findings

The lines and quotations are in `PROJECT.json`. Two have runs:

* `purchase_click` (`ClickNeedsPermission`): between the guard and the click lie waits,
  pointer movement and a second attempt, so the permission may be gone when the click is
  made. The guarantee the code does give is `OrderNeedsPermission`, about the guard.
* `purchase_second_click` (`AtMostOneOrder`): `submitOrder` answers "not submitted" whenever
  the click throws, also if it reached the shop, and the loop submits again.

The others are violated when the property is added to the configuration named:

| property | where | what the code does |
|---|---|---|
| `StopCancels` | `OrchestratorPool.cfg` | stopping a task in RETRYING removes its timer but makes no transition, for the table has none; it stays until it is paused |
| `TwoLooksBeforeBlock` | `PurchaseClick.cfg`, `MaxOrders = 1` | an abort after submit blocks the retry without the two observations |
| `CheckoutAfterRelease` | `PurchaseOnce.cfg` | an aborted gate monitor returns `true`, which `worker.ts` takes for a release; the checkout it starts is beyond the cancel's reach |
| `MonitorSurvivesQuit` | `Persistence.cfg`, `Monitors = {t1}` | quitting aborts the monitor before the orchestrator is told: it is saved as SUCCESS |
| `UnresponsiveReplaced` | `WorkerPool.cfg`, `StartupMayHang = TRUE` | a child that hangs while it starts is never replaced, and everything waits for it |
| `CancelReachesRun` | `WorkerPool.cfg` | the cleanup after a cancel forgets a run that has not sent its request yet, or the next run of the task |
| `RoutedToLeastLoaded` | `WorkerPool.cfg`, `Slots = 2` | a client's load counts a task only after the permission before it was answered |
| `PaysAsPreferred` | `MonitorCheckout.cfg` | the payment session goes with every failed attempt; the retry and the checkout child pay by card |
| `OneBrowserPerProfile` | `Desk.cfg` | a context closed while it is created releases the lease of a browser that still comes up |
| `EditsOnlyAdvance` | `Desk.cfg`, `MaxEdits = 2` | the session reset saves an old copy of the profile |
| `DeletedProxyStaysAway` | `Desk.cfg` | a health check saves the proxy it read before the deletion |
| `MonitorProxyExists` | `Desk.cfg` | the proxy of a monitor that only reports can be deleted |
| `TaskRecordsExist` | `Desk.cfg` | a setup assigns records from lists that are out of date |
| `BlockedIsBlocked` | `Desk.cfg` | an older status answer replaces the user's change in the panel |
| `GatePageIsComplete` | `Checkout.cfg` | the early-gate executor never takes `profileReady` back |
| `ReviewPageIsReady` | `Checkout.cfg` | a review page without card fields is never ready |
| `FoundMatchesKeywords` | `Checkout.cfg` | a product found with earlier keywords is put in the cart |
| `FallbackIsRepeated` | `Page.cfg` | a field known by a selector alone, with KI AutoFill off any field, counts as met once it was looked at: a write that failed is not repeated |
| `ShippingKeepsItsAddress` | `Page.cfg` | a field of the shipping section that only a selector finds, with KI AutoFill off any of them, gets the default address |

State formulas are added as INVARIANTs, formulas with primes or temporal operators as
PROPERTYs.

Some further properties are stated because a reader would expect them, and fail; nothing
in the repository promises them, so they are observations: `DataGoesWithProfile` (after a
deletion that was interrupted the card or cookies of a profile remain), `OneServicePerWorker`,
`WorkerServiceLives` and `NoServiceAfterQuit` (a vision service may be started twice, die
unnoticed by workers that were told of it, or outlive the program), `OpenBrowserIsListed`,
`ShownPermissionIsCurrent`, `SatisfiedIsStillFilled` (a field that was read may be reset while
the evaluation still reads the others: the form is reported as filled, and is not),
`SubmitsPreparedPage` (the page may move on between the last
round and the submit), `CartHoldsOnePiece` (a later attempt adds the product once more).

Seen while modelling, without a property: a RETRYING monitor whose child exists can, after a
restart, create a second child, as the coordinator's memory of it is gone; a retry block that
a worker has reported is not on file before its run ends, so a program that dies in between
restores the task as PAUSED and without the block; the browser of a cancelled monitor may
outlive its run by up to eight seconds, and if the monitor is resumed meanwhile two browsers
use one directory; a monitor with `requireAvailable` does not notice that a product
is sold out; a control inserted in the middle of a pass puts values, and the marks of where
they were seen, into other controls, and if a value is then lost the marks mend one another
in a chain, a control per pass, of which there are six or twelve.

## 10. What is not modelled, and why

* Challenges: detection on pages and calls of an external service. Browser driver: vendored.
  Core library: an older service the desktop program does not use. Legacy executor, mocks
  and cancellation manager: replaced by the executor router. The event bus has no state of
  its own beside its listeners, which are part of the emitting action.
* `PassiveHttpPreCheckoutGate` and `handleGateEvent` have no caller in the desktop program.
* The window: any sequence of commands is allowed, except where the panel's copies and its
  switch matter. No component of it reads `finalPurchaseRuntime` or `checkoutPreparation`.
* Of a task's configuration `TaskPersistence` has the retry block; the rest a `task-update`
  replaces is like it not saved before the next transition. `QueueWait` leaves out the text
  on the page that tells of a release (`queue-waiter.ts`), which is taken to be shown only
  by a page that no longer shows the queue. `SeenOfferIsUsed` does not ask anything of a run
  that failed while recording an observation.
* Contents of tasks (URLs, products, profiles) and events, as far as no decision modelled
  depends on them; parsing of shop answers, the scoring of labels and product names, cookie
  formats, ciphers; the network probes of the health check; installation of the vision
  runtime; shop settings and handlers that only read.
* Taking a stale lock file (read, remove, create) is one step of `ProfileSessions`; two
  processes that do so at once are a hazard no property covers.
* `FinalPurchase` has one worker process and of its death only that it happens;
  `BrowserWorkerPool` has the processes and leaves out what their requests say.
