----------------------------- MODULE FinalPurchase -----------------------------
(***************************************************************************)
(* The way of the one irreversible step of the program, the click that     *)
(* submits an order: permission and task commands in the desktop process,  *)
(* the requests it writes to a browser worker process, and the checkout    *)
(* executors in there.                                                     *)
(*                                                                         *)
(* Of a task the desktop process keeps what TaskLifecycle says of it (how  *)
(* the orchestrator gets there is the subject of TaskOrchestrator) and its *)
(* suspended execute call.  The worker reads its requests one line at a    *)
(* time, between the awaits of the runs it serves.  One worker process is  *)
(* modelled, always there: a request to a fresh one and a request that is  *)
(* not sent because there is none have the same effect.                    *)
(***************************************************************************)
EXTENDS Naturals, Sequences

CONSTANTS
  Tasks,         \* task ids
  GateMonitors,  \* early-gate tasks that watch the shop's queue before they check out
  GateChildren,  \* early-gate tasks that check out; all others are Shopify checkouts
  Setting,       \* marks a permission request that no execute call waits for
  MaxRetries,    \* task.maxRetries
  MaxTries,      \* attempts of InteractionEngine.click
  MaxLooks,      \* attempts of confirmFinalSubmitWithRetries
  MaxOrders,     \* bound: orders are counted up to this number
  MaxInbox,      \* bound: requests the worker has yet to read
  WorkerMayDie,  \* the worker process may crash, or be killed after a timeout
  ClicksReliable,\* a click attempt that is reported as an error did not happen
  CarefulUser    \* nobody resumes a task that is being executed or has ordered

ASSUME PurchaseAssumption ==
  /\ GateMonitors \subseteq Tasks /\ GateChildren \subseteq Tasks
  /\ Setting \notin Tasks
  /\ {MaxRetries, MaxTries, MaxLooks, MaxOrders, MaxInbox} \subseteq Nat
  /\ {WorkerMayDie, ClicksReliable, CarefulUser} \subseteq BOOLEAN

VARIABLES
  \* the desktop process
  status,     \* what the user is shown of the task
  call,       \* its execute call: none, waiting for the permission, or sent
  marked,     \* paused while running (pausedRunningTaskIds)
  retries,    \* task.retries
  blocked,    \* task.config.data.retryPolicy.blocked
  allow,      \* allowFinalPurchase, as set in main.ts, the pool and the client
  unacked,    \* a change of it waits for the worker's answer
  inbox,      \* requests on their way to the worker
  \* the worker process
  permission, \* allowFinalPurchase of the checkout executors
  phase,      \* where the run of a task is, or which result is on its way back
  tries,      \* attempts of the click, or looks for the confirmation
  aborted,    \* the run's AbortController has been triggered
  released,   \* the monitor of the run has seen the shop's queue
  \* the shop
  orders      \* clicks on the final control that reached the shop

vars == <<status, call, marked, retries, blocked, allow, unacked, inbox,
          permission, phase, tries, aborted, released, orders>>
taskVars == <<status, call, marked, retries, blocked>>
settingVars == <<allow, unacked>>
runVars == <<phase, tries, aborted, released>>

Status == { "waiting", "running", "retrying", "held", "over" }
Call == { "none", "syncing", "sent" }
Result == { "succeeded", "failed", "ambiguous" }
Phase == { "none", "monitoring", "creating", "opening", "closed", "preparing", "armed",
           "finding", "clicking", "confirming" } \cup Result

EarlyGate == GateMonitors \cup GateChildren

\* The result of the call of t does not count any more.
Interrupted(t) == status[t] \in {"held", "over"} \/ t \in marked

Permit(b, for) == [type |-> "permission", allowed |-> b, task |-> for]
Execute(t) == [type |-> "execute", task |-> t]
Cancel(t) == [type |-> "cancel", task |-> t]

Unread(m) == \E i \in DOMAIN inbox : inbox[i] = m

Send(m) == Len(inbox) < MaxInbox /\ inbox' = Append(inbox, m)

Init ==
  /\ status = [t \in Tasks |-> "waiting"]
  /\ call = [t \in Tasks |-> "none"]
  /\ marked = {}
  /\ retries = [t \in Tasks |-> 0]
  /\ blocked = [t \in Tasks |-> FALSE]
  /\ allow = FALSE
  /\ unacked = FALSE
  /\ inbox = <<>>
  /\ permission = FALSE
  /\ phase = [t \in Tasks |-> "none"]
  /\ tries = [t \in Tasks |-> 0]
  /\ aborted = [t \in Tasks |-> FALSE]
  /\ released = [t \in Tasks |-> FALSE]
  /\ orders = [t \in Tasks |-> 0]

-------------------------------------------------------------------------------
(* The desktop process: commands.                                          *)

\* startTask up to the permission request of the execute call.  The pool and the client
\* each send one; the second repeats the last word the worker was sent, since a change
\* of the setting is sent too, so one stands for both.
\* Slip: the worker is believed to know.
StartUnsynced(t) ==
  /\ status[t] = "waiting" /\ call[t] = "none"
  /\ status' = [status EXCEPT ![t] = "running"]
  /\ call' = [call EXCEPT ![t] = "syncing"]
  /\ UNCHANGED <<marked, retries, blocked, settingVars, inbox, permission, runVars, orders>>

Start(t) ==
  /\ status[t] = "waiting" /\ call[t] = "none"
  /\ Send(Permit(allow, t))
  /\ status' = [status EXCEPT ![t] = "running"]
  /\ call' = [call EXCEPT ![t] = "syncing"]
  /\ UNCHANGED <<marked, retries, blocked, settingVars, permission, runVars, orders>>

\* The worker has answered; the call does not look whether it is still wanted.
SendExecute(t) ==
  /\ call[t] = "syncing"
  /\ \A b \in BOOLEAN : ~Unread(Permit(b, t))
  /\ Send(Execute(t))
  /\ call' = [call EXCEPT ![t] = "sent"]
  /\ UNCHANGED <<status, marked, retries, blocked, settingVars, permission, runVars, orders>>

\* The request to the worker, while the pool knows an owner of t: it knows one from the
\* beginning of the call, and may have forgotten it after an earlier cancel.
SendCancel(t) ==
  \/ call[t] # "none" /\ Send(Cancel(t))
  \/ UNCHANGED inbox

PauseTask(t) ==
  /\ status[t] \in {"waiting", "running", "retrying"}
  /\ status' = [status EXCEPT ![t] = "held"]
  /\ marked' = IF status[t] = "running" THEN marked \cup {t} ELSE marked
  /\ SendCancel(t)
  /\ UNCHANGED <<call, retries, blocked, settingVars, permission, runVars, orders>>

\* In RETRYING it removes the timer and no more: RetryDue need not come.
CancelTask(t) ==
  /\ status[t] # "retrying"
  /\ status' = [status EXCEPT ![t] = "over"]
  /\ marked' = marked \ {t}
  /\ SendCancel(t)
  /\ UNCHANGED <<call, retries, blocked, settingVars, permission, runVars, orders>>

\* retryPolicy.blocked is not asked for: it stops automatic retries only.
ResumeTask(t) ==
  /\ status[t] = "held"
  /\ CarefulUser => call[t] = "none" /\ orders[t] = 0
  /\ status' = [status EXCEPT ![t] = "waiting"]
  /\ UNCHANGED <<call, marked, retries, blocked, settingVars, inbox, permission, runVars,
                 orders>>

RetryDue(t) ==
  /\ status[t] = "retrying"
  /\ status' = [status EXCEPT ![t] = "waiting"]
  /\ UNCHANGED <<call, marked, retries, blocked, settingVars, inbox, permission, runVars,
                 orders>>

\* Slip: the worker is told with the next execute only.
SetFinalPurchaseLater(b) ==
  /\ allow' = b
  /\ UNCHANGED <<taskVars, unacked, inbox, permission, runVars, orders>>

SetFinalPurchaseAllowed(b) ==
  /\ Send(Permit(b, Setting))
  /\ allow' = b
  /\ unacked' = TRUE
  /\ UNCHANGED <<taskVars, permission, runVars, orders>>

SettingAcknowledged ==
  /\ unacked /\ \A b \in BOOLEAN : ~Unread(Permit(b, Setting))
  /\ unacked' = FALSE
  /\ UNCHANGED <<taskVars, allow, inbox, permission, runVars, orders>>

-------------------------------------------------------------------------------
(* The desktop process: results.                                           *)

\* What the taskFailed listener asks, once the result's configuration is the task's.
MayRetry(t) == ~blocked'[t] /\ retries[t] < MaxRetries

\* The calls of the tasks in `back` return, those of `failed` among them with failure.
Book(back, failed) ==
  LET counted == {t \in back : ~Interrupted(t)}
      again   == {t \in counted \cap failed : MayRetry(t)}
  IN /\ status' = [t \in Tasks |-> IF t \in again THEN "retrying"
                                   ELSE IF t \in counted THEN "over" ELSE status[t]]
     /\ retries' = [t \in Tasks |-> IF t \in again THEN retries[t] + 1 ELSE retries[t]]
     /\ marked' = marked \ back
     /\ call' = [t \in Tasks |-> IF t \in back THEN "none" ELSE call[t]]

\* The result of the run of t reaches the execute call, and with it the configuration
\* the worker sends along, whether the call was interrupted or not.
Deliver(t) ==
  /\ phase[t] \in Result
  /\ blocked' = [blocked EXCEPT ![t] = @ \/ phase[t] = "ambiguous"]
  /\ Book({t}, IF phase[t] = "succeeded" THEN {} ELSE {t})
  /\ phase' = [phase EXCEPT ![t] = "none"]
  /\ tries' = [tries EXCEPT ![t] = 0]
  /\ aborted' = [aborted EXCEPT ![t] = FALSE]
  /\ released' = [released EXCEPT ![t] = FALSE]
  /\ UNCHANGED <<settingVars, inbox, permission, orders>>

\* The process is gone, with its runs, requests and results; a new one starts without
\* permission.  Every execute call fails.  A blocked retry that was published before
\* the end may have been read.  main.ts fails closed if a change of the setting was
\* waiting for its answer.
WorkerDies ==
  /\ WorkerMayDie
  /\ \E told \in SUBSET {t \in Tasks : phase[t] = "ambiguous"} :
       blocked' = [t \in Tasks |-> blocked[t] \/ t \in told]
  /\ LET failed == {t \in Tasks : call[t] # "none"} IN Book(failed, failed)
  /\ allow' = (allow /\ ~unacked)
  /\ unacked' = FALSE
  /\ inbox' = IF unacked THEN <<Permit(FALSE, Setting)>> ELSE <<>>
  /\ permission' = FALSE
  /\ phase' = [t \in Tasks |-> "none"]
  /\ tries' = [t \in Tasks |-> 0]
  /\ aborted' = [t \in Tasks |-> FALSE]
  /\ released' = [t \in Tasks |-> FALSE]
  /\ UNCHANGED orders

-------------------------------------------------------------------------------
(* The worker process: requests.                                           *)

\* The phases of a run in which its executor has an AbortController registered.  The
\* Shopify checkout registers it only once the checkout page is open.
Abortable(t) ==
  IF t \in EarlyGate THEN Phase \ ({"none"} \cup Result)
  ELSE { "preparing", "armed", "finding", "clicking", "confirming" }

ReadPermission ==
  /\ Head(inbox).type = "permission"
  /\ permission' = Head(inbox).allowed
  /\ UNCHANGED runVars

ReadExecute ==
  /\ Head(inbox).type = "execute"
  /\ LET t == Head(inbox).task
     IN phase' = [phase EXCEPT ![t] = IF t \in GateMonitors THEN "monitoring" ELSE "creating"]
  /\ UNCHANGED <<permission, tries, aborted, released>>

\* Every executor is asked.  The context of a Shopify run that is on its way to the
\* checkout is closed under it; one that is still being created is missed.
ReadCancel ==
  /\ Head(inbox).type = "cancel"
  /\ LET t == Head(inbox).task
     IN /\ aborted' = [aborted EXCEPT ![t] = @ \/ phase[t] \in Abortable(t)]
        /\ phase' = IF t \notin EarlyGate /\ phase[t] = "opening"
                    THEN [phase EXCEPT ![t] = "closed"] ELSE phase
  /\ UNCHANGED <<permission, tries, released>>

Read ==
  /\ inbox # <<>>
  /\ inbox' = Tail(inbox)
  /\ ReadPermission \/ ReadExecute \/ ReadCancel
  /\ UNCHANGED <<taskVars, settingVars, orders>>

-------------------------------------------------------------------------------
(* The worker process: a run.                                              *)

RunStep == UNCHANGED <<taskVars, settingVars, inbox, permission>>

Goto(t, p) == phase' = [phase EXCEPT ![t] = p]

\* How an executor ends after an exception: an aborted run reports success.
Thrown(t) == IF aborted[t] THEN "succeeded" ELSE "failed"

\* The monitor ends because it has seen the queue, because it was aborted or with an
\* error.  The first two are one result, and after it worker.ts goes on to the checkout
\* executor, which registers an AbortController of its own.
MonitorEnds(t) ==
  /\ phase[t] = "monitoring"
  /\ \/ /\ Goto(t, "creating")
        /\ released' = [released EXCEPT ![t] = TRUE]
     \/ aborted[t] /\ Goto(t, "creating") /\ UNCHANGED released
     \/ ~aborted[t] /\ Goto(t, "failed") /\ UNCHANGED released
  /\ aborted' = [aborted EXCEPT ![t] = FALSE]
  /\ RunStep /\ UNCHANGED <<tries, orders>>

\* The context is there; the checkout page is open; address, payment and the final
\* control are ready.
Advance(t) ==
  /\ \/ phase[t] = "creating" /\ Goto(t, "opening")
     \/ phase[t] = "opening" /\ Goto(t, "preparing")
     \/ phase[t] = "preparing" /\ ~aborted[t] /\ Goto(t, "armed")
  /\ RunStep /\ UNCHANGED <<tries, aborted, released, orders>>

Throws(t) ==
  /\ phase[t] \in {"creating", "opening", "closed", "preparing", "finding"}
  /\ Goto(t, Thrown(t))
  /\ RunStep /\ UNCHANGED <<tries, aborted, released, orders>>

\* Where a run looks at its AbortController outside of a click.
\* Slip: not in the loop that waits for the permission.
LooksAtAbortEarly == { "opening", "preparing" }

LooksAtAbort == { "opening", "preparing", "armed" }

Stops(t) ==
  /\ phase[t] \in LooksAtAbort /\ aborted[t]
  /\ Goto(t, "succeeded")
  /\ RunStep /\ UNCHANGED <<tries, aborted, released, orders>>

\* The loop around submitOrder.
Submit(t) ==
  /\ phase[t] = "armed" /\ ~aborted[t] /\ permission
  /\ Goto(t, "finding")
  /\ RunStep /\ UNCHANGED <<tries, aborted, released, orders>>

\* The callback submitOrder asks once it has found the control.  The early-gate executor
\* passes the permission alone.
\* Slip: the loop has already asked.
GuardForgotten(t) == TRUE

Guard(t) == permission /\ (t \notin EarlyGate => ~aborted[t])

GuardPasses(t) ==
  /\ phase[t] = "finding" /\ Guard(t)
  /\ Goto(t, "clicking")
  /\ tries' = [tries EXCEPT ![t] = 0]
  /\ RunStep /\ UNCHANGED <<aborted, released, orders>>

\* submitOrder returned FALSE: Shopify prepares again if the control is gone.
NotSubmitted(t) == \/ Goto(t, "armed")
                   \/ t \notin EarlyGate /\ Goto(t, "preparing")

\* There is no final control, or the guard refuses.
GuardRefuses(t) ==
  /\ phase[t] = "finding"
  /\ NotSubmitted(t)
  /\ RunStep /\ UNCHANGED <<tries, aborted, released, orders>>

Ordered(t) == orders' = [orders EXCEPT ![t] = IF @ < MaxOrders THEN @ + 1 ELSE @]

\* InteractionEngine.click waits for the control, moves the pointer and clicks.
ClickDispatched(t) ==
  /\ phase[t] = "clicking" /\ tries[t] < MaxTries
  /\ Ordered(t)
  /\ Goto(t, "confirming")
  /\ tries' = [tries EXCEPT ![t] = 0]
  /\ RunStep /\ UNCHANGED <<aborted, released>>

\* The control was not ready, or the click was answered with an error or not at all,
\* though it may have happened.
ClickAttemptFails(t) ==
  /\ phase[t] = "clicking" /\ tries[t] < MaxTries
  /\ \/ UNCHANGED orders
     \/ ~ClicksReliable /\ Ordered(t)
  /\ tries' = [tries EXCEPT ![t] = @ + 1]
  /\ RunStep /\ UNCHANGED <<phase, aborted, released>>

\* The click throws; the Shopify journey makes that "not submitted".
ClickGivenUp(t) ==
  /\ phase[t] = "clicking" /\ tries[t] = MaxTries
  /\ IF t \in EarlyGate THEN Goto(t, Thrown(t)) ELSE NotSubmitted(t)
  /\ RunStep /\ UNCHANGED <<tries, aborted, released, orders>>

\* confirmFinalSubmitWithRetries: one look at the page.
Look(t) ==
  /\ phase[t] = "confirming" /\ tries[t] < MaxLooks /\ ~aborted[t]
  /\ tries' = [tries EXCEPT ![t] = @ + 1]
  /\ UNCHANGED phase \/ Goto(t, "succeeded")
  /\ RunStep /\ UNCHANGED <<aborted, released, orders>>

\* No confirmation was seen: failure.  Slip: without retryPolicy.blocked.
UnconfirmedUnblocked(t) ==
  /\ phase[t] = "confirming" /\ (tries[t] = MaxLooks \/ aborted[t])
  /\ Goto(t, "failed")
  /\ RunStep /\ UNCHANGED <<tries, aborted, released, orders>>

Unconfirmed(t) ==
  /\ phase[t] = "confirming" /\ (tries[t] = MaxLooks \/ aborted[t])
  /\ Goto(t, "ambiguous")
  /\ RunStep /\ UNCHANGED <<tries, aborted, released, orders>>

Checkout(t) ==
  \/ Advance(t) \/ Throws(t) \/ Stops(t)
  \/ Submit(t) \/ GuardPasses(t) \/ GuardRefuses(t)
  \/ ClickDispatched(t) \/ ClickAttemptFails(t) \/ ClickGivenUp(t)
  \/ Look(t) \/ Unconfirmed(t)

-------------------------------------------------------------------------------
Command(t) == PauseTask(t) \/ CancelTask(t) \/ ResumeTask(t)

Next ==
  \/ \E t \in Tasks : Start(t) \/ SendExecute(t) \/ Command(t) \/ RetryDue(t)
                      \/ Deliver(t) \/ MonitorEnds(t) \/ Checkout(t)
  \/ \E b \in BOOLEAN : SetFinalPurchaseAllowed(b)
  \/ SettingAcknowledged
  \/ WorkerDies
  \/ Read

Spec == Init /\ [][Next]_vars

\* The worker reads its standard input, and everything a run awaits has a timeout; the
\* monitor alone may watch for good.  Nothing is assumed of the user, and the worker
\* may die whenever it likes.
Fairness ==
  /\ WF_vars(Read)
  /\ \A t \in Tasks : /\ WF_vars(Checkout(t))
                      /\ WF_vars(Deliver(t))

FairSpec == Spec /\ Fairness

-------------------------------------------------------------------------------
(* Properties.                                                             *)

Message == [type : {"permission"}, allowed : BOOLEAN, task : Tasks \cup {Setting}]
             \cup [type : {"execute", "cancel"}, task : Tasks]

TypeOK ==
  /\ status \in [Tasks -> Status]
  /\ call \in [Tasks -> Call]
  /\ marked \subseteq Tasks
  /\ retries \in [Tasks -> 0 .. MaxRetries]
  /\ blocked \in [Tasks -> BOOLEAN]
  /\ allow \in BOOLEAN
  /\ unacked \in BOOLEAN
  /\ inbox \in Seq(Message)
  /\ permission \in BOOLEAN
  /\ phase \in [Tasks -> Phase]
  /\ tries \in [Tasks -> Nat]
  /\ aborted \in [Tasks -> BOOLEAN]
  /\ released \in [Tasks -> BOOLEAN]
  /\ orders \in [Tasks -> 0 .. MaxOrders]

\* The permission the worker holds when it has read everything sent to it.
LastWordIs(b) ==
  \/ /\ permission = b
     /\ \A i \in DOMAIN inbox : inbox[i].type # "permission"
  \/ \E i \in DOMAIN inbox :
       /\ inbox[i].type = "permission" /\ inbox[i].allowed = b
       /\ \A j \in DOMAIN inbox : j > i => inbox[j].type # "permission"

\* However crashes, restarts, starts of tasks and changes of the setting are interleaved,
\* a worker that executes a task was told the user's present word on final purchases,
\* or the word is on its way and nothing contradicts it after that.
PermissionReachesRuns ==
  \A t \in Tasks : call[t] = "sent" => LastWordIs(allow)

\* A submit passes its guard only while the user allows final purchases, or while the
\* worker has yet to read the revocation.
OrderNeedsPermission ==
  [][\A t \in Tasks :
       phase[t] = "finding" /\ phase'[t] = "clicking" =>
         allow \/ \E i \in DOMAIN inbox : inbox[i].type = "permission" /\ ~inbox[i].allowed]_vars

\* A task orders at most once: neither the loop around submitOrder nor the confirmation
\* nor an automatic retry submits again.
AtMostOneOrder == \A t \in Tasks : orders[t] <= 1

\* A permission given while a checkout waits for it is not lost.
PermissionReachesCheckout ==
  \A t \in Tasks : phase[t] = "armed" /\ allow ~> phase[t] # "armed" \/ ~allow

\* A checkout run whose cancellation has reached its executor comes to an end, even if
\* the permission it waits for is never given.
AbortedRunEnds ==
  \A t \in Tasks \ GateMonitors : aborted[t] ~> phase[t] \in Result \cup {"none"}

\* "Final order controls are never clicked unless the backend permission callback is
\* true immediately before click" (checkout-journey.ts).
ClickNeedsPermission ==
  [][\A t \in Tasks : orders'[t] > orders[t] => permission]_vars

\* "At least two observations are made before callers may mark the retry policy blocked"
\* (final-submit-recovery.ts).
TwoLooksBeforeBlock ==
  [][\A t \in Tasks :
       phase[t] = "confirming" /\ phase'[t] = "ambiguous" => tries[t] >= 2]_vars

\* A gate monitor lane is "monitorOnlyUntilRelease" (task-executor-router.ts): it checks
\* out only after the queue was seen.
CheckoutAfterRelease ==
  \A t \in GateMonitors : phase[t] \notin {"none", "monitoring", "failed"} => released[t]
===============================================================================
