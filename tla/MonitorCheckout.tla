--------------------------- MODULE MonitorCheckout ---------------------------
(***************************************************************************)
(* A product monitor that buys: src/monitor/commerce-monitor-service.ts    *)
(* and product-monitor.ts look at a shop in cycles, onEvent of             *)
(* src/electron/main.ts hands what they see to                             *)
(* src/monitor/auto-checkout-coordinator.ts, which creates a checkout task *)
(* and cancels the monitor. The tasks' states follow the orchestrator      *)
(* (TaskOrchestrator); a free worker is a matter of time here.             *)
(*                                                                         *)
(* Observing a candidate, recording the change and calling onEvent are     *)
(* microtasks: commands, timers and answers wait for them (Settled).       *)
(***************************************************************************)
EXTENDS Naturals, Sequences, FiniteSets

CONSTANTS
  Items,       \* what the shop lists and the criteria match
  Variants,    \* those that are variants of one product
  Preferred,   \* payment method of the profile
  MaxRetries,  \* maxRetries of the tasks
  MaxEnding,   \* bound: cancelled browsers that end at one time
  MaxChanges   \* bound: changes of availability

VARIABLES
  stock,     \* the shop: is the item available
  changes,   \* changes so far
  parent,    \* state of the monitor task
  retries,   \* its failed attempts
  timer,     \* its retry timer runs
  asked,     \* a start of it waits for a worker
  marked,    \* it is in pausedRunningTaskIds
  stage,     \* where CommerceMonitorService.execute is
  aborted,   \* the signal of the run
  result,    \* what the run will return
  todo,      \* candidates of this cycle still to be observed
  seen,      \* what the answer said of the items
  lastSeen,  \* ProductMonitor.lastSeen: none or one observation per key
  own,       \* history: the last observation of each item itself
  lost,      \* history: recording a change failed
  fallback,  \* the task's session in the monitor browser adapter, and its end in finally
  ending,    \* number of browsers a cancel has told to close and not waited for
  visible,   \* the visible browser of older tasks; "never" for the others
  awaits,    \* who waits for the visible browser to close
  due,       \* event handlers about to reach the coordinator
  session,   \* payment session of the monitor task
  triggered, \* triggeredParents, autoCheckoutRuntime.childTaskId
  children   \* the checkout tasks created

shop == <<stock, changes>>
task == <<parent, retries, timer, asked, marked>>
run == <<stage, aborted, result, todo, seen>>
told == <<lastSeen, own, lost>>
browsers == <<fallback, ending, visible, awaits>>
checkout == <<session, triggered, children>>
vars == <<shop, task, run, told, browsers, due, checkout>>

\* The key has the product's id, which its variants share.
KeyOf(i) == IF i \in Variants THEN Variants ELSE {i}

Keys == {KeyOf(i) : i \in Items}
Nothing == [k \in Keys |-> {}]
Unseen == [i \in Items |-> "never"]

Init ==
  /\ stock \in [Items -> BOOLEAN] /\ changes = 0
  /\ parent = "QUEUED" /\ retries = 0
  /\ timer = FALSE /\ asked = FALSE /\ marked = FALSE
  /\ stage = "none" /\ aborted = FALSE /\ result = TRUE
  /\ todo = {} /\ seen = Unseen
  /\ lastSeen = Nothing /\ own = Unseen /\ lost = FALSE
  /\ fallback = "none" /\ ending = 0 /\ visible \in {"never", "closed"} /\ awaits = "nobody"
  /\ due = 0 /\ session = "none" /\ triggered = FALSE /\ children = <<>>

Settled == due = 0 /\ stage # "observe"

Changes(i) ==
  /\ Settled /\ changes < MaxChanges
  /\ stock' = [stock EXCEPT ![i] = ~@] /\ changes' = changes + 1
  /\ UNCHANGED <<task, run, told, browsers, due, checkout>>

----------------------------------------------------------------------------
(* What every end of an attempt does: forwardTask, and the abort.          *)

HideVisible ==
  /\ visible' = IF visible = "open" THEN "closing" ELSE visible
  /\ UNCHANGED awaits

\* The adapter's cancelTask: the session is forgotten at once, its browser told to close.
\* Nobody but the caller waits for the end of that browser.
ForgetSession ==
  \/ /\ fallback = "open"
     /\ fallback' = "none" /\ ending' = ending + 1
  \/ /\ fallback # "open"
     /\ UNCHANGED <<fallback, ending>>

\* commerceMonitor.cancelTask; the router forwards it to a live run only.
AbortRun ==
  /\ aborted' = (stage \notin {"none", "close"} \/ aborted)
  /\ ForgetSession
  /\ UNCHANGED <<stage, result, todo, seen>>

\* orchestrator.cancelTask; from RETRYING and FAILED there is no way to CANCELLED.
CancelParent ==
  /\ parent' = IF parent \in {"QUEUED", "RUNNING", "PAUSED"} THEN "CANCELLED" ELSE parent
  /\ timer' = FALSE /\ asked' = FALSE /\ marked' = FALSE
  /\ AbortRun
  /\ UNCHANGED retries

----------------------------------------------------------------------------
(* The user and the orchestrator.                                          *)

\* The window prepares the payment session, the start command opens the visible browser.
ProfileSession == session' = Preferred

UserStarts ==
  /\ Settled /\ parent = "QUEUED" /\ ~asked /\ awaits # "start"
  /\ ProfileSession
  /\ \/ /\ visible # "closed"
        /\ asked' = TRUE
        /\ UNCHANGED <<visible, awaits>>
     \/ /\ visible = "closed" /\ awaits = "nobody"
        /\ visible' = "opening" /\ awaits' = "start"
        /\ UNCHANGED asked
  /\ UNCHANGED <<shop, parent, retries, timer, marked, run, told, fallback, ending,
                 due, triggered, children>>

\* startTask refuses a task that is no longer QUEUED, and the browser is closed again.
BrowserOpened ==
  /\ Settled /\ visible = "opening"
  /\ awaits' = "nobody"
  /\ asked' = (parent = "QUEUED")
  /\ visible' = IF parent = "QUEUED" THEN "open" ELSE "closing"
  /\ UNCHANGED <<shop, parent, retries, timer, marked, run, told, fallback, ending,
                 due, checkout>>

OpenFails ==
  /\ Settled /\ visible = "opening"
  /\ visible' = "closed" /\ awaits' = "nobody"
  /\ UNCHANGED <<shop, task, run, told, fallback, ending, due, checkout>>

BeginRun ==
  /\ Settled /\ stage = "none" /\ parent = "QUEUED" /\ asked
  /\ parent' = "RUNNING" /\ asked' = FALSE
  /\ stage' = "search" /\ aborted' = FALSE
  /\ UNCHANGED <<shop, retries, timer, marked, result, todo, seen, told, browsers, due,
                 checkout>>

RetryFires ==
  /\ Settled /\ timer
  /\ timer' = FALSE /\ parent' = "QUEUED" /\ asked' = TRUE
  /\ UNCHANGED <<shop, retries, marked, run, told, browsers, due, checkout>>

PauseMark == marked \/ parent = "RUNNING"

Pauses ==
  /\ Settled /\ parent \in {"QUEUED", "RUNNING", "RETRYING"}
  /\ parent' = "PAUSED" /\ timer' = FALSE /\ asked' = FALSE
  /\ marked' = PauseMark
  /\ AbortRun
  /\ UNCHANGED <<shop, retries, told, visible, awaits, due, checkout>>

Resumes ==
  /\ Settled /\ parent = "PAUSED"
  /\ parent' = "QUEUED" /\ asked' = TRUE
  /\ UNCHANGED <<shop, retries, timer, marked, run, told, browsers, due, checkout>>

\* The rest of stop-task: cancel, reset the monitor; forwardTask clears the session.
FinishStop ==
  /\ CancelParent
  /\ lastSeen' = Nothing /\ own' = Unseen
  /\ UNCHANGED lost

\* stop-task closes the visible browser first.
UserStops ==
  /\ Settled /\ awaits # "stop"
  /\ parent \in {"QUEUED", "RUNNING", "PAUSED", "RETRYING"}
  /\ session' = "none"
  /\ \/ /\ visible = "open"
        /\ visible' = "closing" /\ awaits' = "stop"
        /\ UNCHANGED <<task, run, fallback, ending, told>>
     \/ /\ visible # "open"
        /\ FinishStop
        /\ UNCHANGED <<visible, awaits>>
  /\ UNCHANGED <<shop, due, triggered, children>>

VisibleClosed ==
  /\ Settled /\ visible = "closing"
  /\ visible' = "closed" /\ awaits' = "nobody"
  /\ \/ /\ awaits = "stop"
        /\ FinishStop
        /\ UNCHANGED due
     \/ /\ awaits # "stop"
        /\ due' = IF awaits = "handler" THEN due + 1 ELSE due
        /\ UNCHANGED <<task, run, told, fallback, ending>>
  /\ UNCHANGED <<shop, checkout>>

----------------------------------------------------------------------------
(* The monitor loop.                                                       *)

Sights == {"in", "out", "unknown", "absent"}
Ranked(s) == {i \in Items : s[i] # "absent"}

\* A platform interface knows the state of what it lists; a page may not tell it.
ListingShows(i) == {IF stock[i] THEN "in" ELSE "out", "absent"}
PageShows(i) == ListingShows(i) \cup {"unknown"}
Listings == {s \in [Items -> Sights] : \A i \in Items : s[i] \in ListingShows(i)}
Pages == {s \in [Items -> Sights] : \A i \in Items : s[i] \in PageShows(i)}

\* The router takes the listing, or the page when the listing is empty or unreadable.
Answers == {s \in Listings : Ranked(s) # {}} \cup Pages

FallbackNeeded(s) == \A i \in Ranked(s) : s[i] = "unknown"

\* ensureSession; a browser of an earlier run that still ends is not waited for.
OpenFallback ==
  /\ ending < MaxEnding
  /\ fallback' = "open"

\* Slip: an error leaves the browser session to the next run.
EndLoopKeeping(ok) ==
  /\ stage' = "close" /\ result' = ok
  /\ fallback' = IF fallback = "open" /\ ok THEN "closing" ELSE fallback
  /\ todo' = {} /\ seen' = Unseen
  /\ UNCHANGED <<aborted, ending>>

\* The body of execute's try ends; finally takes the session away and awaits the end of
\* its browser, unless a cancel has already forgotten the session.
EndLoop(ok) ==
  /\ stage' = "close" /\ result' = ok
  /\ fallback' = IF fallback = "open" THEN "closing" ELSE fallback
  /\ todo' = {} /\ seen' = Unseen
  /\ UNCHANGED <<aborted, ending>>

\* closeSession: the browser says it is closed, exits, or is killed after 8 s.
FallbackClosed ==
  /\ Settled
  /\ \/ /\ fallback = "closing"
        /\ fallback' = "none"
        /\ UNCHANGED ending
     \/ /\ ending > 0
        /\ ending' = ending - 1
        /\ UNCHANGED fallback
  /\ UNCHANGED <<shop, task, run, told, visible, awaits, due, checkout>>

\* The browser dies by itself: its exit handler removes the session.
FallbackDies ==
  /\ Settled /\ fallback = "open"
  /\ fallback' = "none"
  /\ UNCHANGED <<shop, task, run, told, ending, visible, awaits, due, checkout>>

Consider(s) ==
  /\ stage' = "observe" /\ seen' = s /\ todo' = Ranked(s)
  /\ UNCHANGED <<aborted, result>>

SearchAnswers ==
  /\ Settled /\ stage = "search"
  /\ \/ aborted /\ EndLoop(TRUE)
     \/ /\ ~aborted
        /\ \E s \in Answers :
             \/ /\ ~FallbackNeeded(s)
                /\ Consider(s)
                /\ UNCHANGED <<fallback, ending>>
             \/ /\ FallbackNeeded(s)
                /\ stage' = "render" /\ seen' = s
                /\ OpenFallback
                /\ UNCHANGED <<aborted, result, todo, ending>>
  /\ UNCHANGED <<shop, task, told, visible, awaits, due, checkout>>

SearchFails ==
  /\ Settled /\ stage = "search"
  /\ EndLoop(aborted)
  /\ UNCHANGED <<shop, task, told, visible, awaits, due, checkout>>

\* Rendered pages that show nothing leave the answer as it was.
RenderAnswers ==
  /\ Settled /\ stage = "render"
  /\ \/ aborted /\ EndLoop(TRUE)
     \/ /\ ~aborted
        /\ \E s \in Pages : Consider(IF Ranked(s) = {} THEN seen ELSE s)
        /\ UNCHANGED <<fallback, ending>>
  /\ UNCHANGED <<shop, task, told, visible, awaits, due, checkout>>

\* A start that is not answered kills the browser, which is FallbackDies before this step;
\* a page that fails leaves it open.
RenderFails ==
  /\ Settled /\ stage = "render"
  /\ EndLoop(aborted)
  /\ UNCHANGED <<shop, task, told, visible, awaits, due, checkout>>

Told(i) == [item |-> i, available |-> seen[i] = "in"]
OwnView(i) == IF seen[i] = "in" THEN "in" ELSE "out"

\* detectChange: first seen, other availability, or other content (another variant).
Changed(i) == lastSeen[KeyOf(i)] # {Told(i)}

Remember(i) ==
  /\ lastSeen' = [lastSeen EXCEPT ![KeyOf(i)] = {Told(i)}]
  /\ own' = [own EXCEPT ![i] = OwnView(i)]

\* Slip: the handler is gone with the browser it waits for.
OnEventForgotten(i) ==
  \/ /\ seen[i] # "in"
     /\ UNCHANGED <<visible, awaits, due>>
  \/ /\ seen[i] = "in" /\ visible = "open"
     /\ visible' = "closing"
     /\ UNCHANGED <<awaits, due>>
  \/ /\ seen[i] = "in" /\ visible # "open"
     /\ due' = due + 1
     /\ UNCHANGED <<visible, awaits>>

\* onEvent: an available item first closes the visible browser, if there is one.
OnEvent(i) ==
  \/ /\ seen[i] # "in"
     /\ UNCHANGED <<visible, awaits, due>>
  \/ /\ seen[i] = "in" /\ visible = "open"
     /\ visible' = "closing" /\ awaits' = "handler"
     /\ UNCHANGED due
  \/ /\ seen[i] = "in" /\ visible # "open"
     /\ due' = due + 1
     /\ UNCHANGED <<visible, awaits>>

Observe(i) ==
  /\ stage = "observe" /\ ~aborted /\ i \in todo
  /\ todo' = todo \ {i}
  /\ Remember(i)
  /\ \/ Changed(i) /\ OnEvent(i)
     \/ ~Changed(i) /\ UNCHANGED <<visible, awaits, due>>
  /\ UNCHANGED <<shop, task, stage, aborted, result, seen, lost, fallback, ending, checkout>>

\* The change is remembered already when recording it throws.
RecordFails(i) ==
  /\ stage = "observe" /\ ~aborted /\ i \in todo /\ Changed(i)
  /\ Remember(i)
  /\ lost' = TRUE
  /\ EndLoop(FALSE)
  /\ UNCHANGED <<shop, task, visible, awaits, due, checkout>>

CycleEnds ==
  /\ stage = "observe" /\ due = 0
  /\ \/ /\ aborted
        /\ EndLoop(TRUE)
     \/ /\ ~aborted /\ todo = {}
        /\ stage' = "wait" /\ seen' = Unseen
        /\ UNCHANGED <<aborted, result, todo, fallback, ending>>
  /\ UNCHANGED <<shop, task, told, visible, awaits, due, checkout>>

\* abortableDelay ends at the abort or after the interval.
NextCycle ==
  /\ Settled /\ stage = "wait"
  /\ \/ aborted /\ EndLoop(TRUE)
     \/ /\ ~aborted
        /\ stage' = "search"
        /\ UNCHANGED <<aborted, result, todo, seen, fallback, ending>>
  /\ UNCHANGED <<shop, task, told, visible, awaits, due, checkout>>

MayRetry(n) == n < MaxRetries

\* startTask after the await; a final state ends the payment session (forwardTask).
RunReturns ==
  /\ Settled /\ stage = "close" /\ fallback # "closing"
  /\ stage' = "none"
  /\ \/ /\ marked \/ parent \in {"CANCELLED", "PAUSED"}
        /\ marked' = FALSE
        /\ asked' = (asked \/ (marked /\ parent = "QUEUED"))
        /\ UNCHANGED <<parent, retries, timer, session, visible, awaits>>
     \/ /\ ~marked /\ parent \notin {"CANCELLED", "PAUSED"}
        /\ session' = "none"
        /\ HideVisible
        /\ \/ /\ result
              /\ parent' = "SUCCESS"
              /\ UNCHANGED <<retries, timer>>
           \/ /\ ~result /\ MayRetry(retries)
              /\ parent' = "RETRYING" /\ retries' = retries + 1 /\ timer' = TRUE
           \/ /\ ~result /\ ~MayRetry(retries)
              /\ parent' = "FAILED"
              /\ UNCHANGED <<retries, timer>>
        /\ UNCHANGED <<asked, marked>>
  /\ UNCHANGED <<shop, aborted, result, todo, seen, told, fallback, ending, due,
                 triggered, children>>

----------------------------------------------------------------------------
(* The coordinator and the checkout tasks.                                 *)

NewChild == [state |-> "QUEUED", session |-> session, retries |-> 0, paid |-> {}]

\* Slip: that the parent is cancelled is taken for the note of its trigger.
MayTriggerUncancelled == parent # "CANCELLED"
MayTrigger == ~triggered

\* handleProductEvent.
Handle ==
  /\ due > 0
  /\ due' = due - 1
  /\ \/ /\ ~MayTrigger
        /\ UNCHANGED <<task, run, browsers, checkout>>
     \/ /\ MayTrigger
        /\ triggered' = TRUE
        /\ children' = Append(children, NewChild)
        /\ CancelParent
        /\ \/ parent' = "CANCELLED" /\ session' = "none" /\ HideVisible
           \/ parent' # "CANCELLED" /\ UNCHANGED <<session, visible, awaits>>
  /\ UNCHANGED <<shop, told>>

\* EphemeralPaymentExecutor: without a session the card of the profile.
Method(s) == IF s = "none" THEN "card" ELSE s

ChildBegins(c) ==
  /\ Settled /\ children[c].state \in {"QUEUED", "RETRYING"}
  /\ children' = [children EXCEPT ![c].state = "RUNNING",
                                  ![c].paid = @ \cup {Method(children[c].session)}]
  /\ UNCHANGED <<shop, task, run, told, browsers, due, session, triggered>>

ChildSucceeds(c) ==
  /\ Settled /\ children[c].state = "RUNNING"
  /\ children' = [children EXCEPT ![c].state = "SUCCESS", ![c].session = "none"]
  /\ UNCHANGED <<shop, task, run, told, browsers, due, session, triggered>>

\* The FAILED of an attempt that will be retried ends the payment session too.
ChildFails(c) ==
  /\ Settled /\ children[c].state = "RUNNING"
  /\ \/ /\ MayRetry(children[c].retries)
        /\ children' = [children EXCEPT ![c].state = "RETRYING", ![c].session = "none",
                                        ![c].retries = @ + 1]
     \/ /\ ~MayRetry(children[c].retries)
        /\ children' = [children EXCEPT ![c].state = "FAILED", ![c].session = "none"]
  /\ UNCHANGED <<shop, task, run, told, browsers, due, session, triggered>>

Next ==
  \/ \E i \in Items : Changes(i) \/ Observe(i) \/ RecordFails(i)
  \/ UserStarts \/ BrowserOpened \/ OpenFails \/ BeginRun \/ RetryFires
  \/ Pauses \/ Resumes \/ UserStops \/ VisibleClosed \/ FallbackClosed \/ FallbackDies
  \/ SearchAnswers \/ SearchFails \/ RenderAnswers \/ RenderFails
  \/ CycleEnds \/ NextCycle \/ RunReturns \/ Handle
  \/ \E c \in 1 .. Len(children) : ChildBegins(c) \/ ChildSucceeds(c) \/ ChildFails(c)

Spec == Init /\ [][Next]_vars

(* Microtasks and the end of a browser come by themselves; requests to the *)
(* shop have timeouts. The end of a browser waits in the event loop while  *)
(* a cycle runs, and is not passed over for ever (SF). Nothing is assumed  *)
(* of the user and the shop.                                               *)
Fairness ==
  /\ WF_vars(\E i \in Items : Observe(i)) /\ WF_vars(CycleEnds)
  /\ WF_vars(Handle) /\ SF_vars(VisibleClosed) /\ SF_vars(FallbackClosed)
  /\ WF_vars(RunReturns)
  /\ WF_vars(SearchAnswers) /\ WF_vars(RenderAnswers)

FairSpec == Spec /\ Fairness

----------------------------------------------------------------------------
TypeOK ==
  /\ stock \in [Items -> BOOLEAN] /\ changes \in 0 .. MaxChanges
  /\ parent \in {"QUEUED", "RUNNING", "PAUSED", "RETRYING", "FAILED", "CANCELLED", "SUCCESS"}
  /\ retries \in 0 .. MaxRetries
  /\ timer \in BOOLEAN /\ asked \in BOOLEAN /\ marked \in BOOLEAN
  /\ stage \in {"none", "search", "render", "observe", "wait", "close"}
  /\ aborted \in BOOLEAN /\ result \in BOOLEAN /\ todo \subseteq Items
  /\ seen \in [Items -> {"never", "in", "out", "unknown", "absent"}]
  /\ lastSeen \in [Keys -> SUBSET [item : Items, available : BOOLEAN]]
  /\ own \in [Items -> {"never", "in", "out"}] /\ lost \in BOOLEAN
  /\ fallback \in {"none", "open", "closing"} /\ ending \in 0 .. MaxEnding
  /\ visible \in {"never", "closed", "opening", "open", "closing"}
  /\ awaits \in {"nobody", "start", "handler", "stop"}
  /\ due \in Nat /\ session \in {"none", Preferred} /\ triggered \in BOOLEAN
  /\ children \in Seq([state : {"QUEUED", "RUNNING", "RETRYING", "SUCCESS", "FAILED"},
                       session : {"none", Preferred}, retries : 0 .. MaxRetries,
                       paid : SUBSET {"card", Preferred}])

\* However many offers are seen before the monitor has stopped, and whoever stops it
\* meanwhile, one checkout task is created for a monitor (auto-checkout-coordinator.ts).
OneCheckoutPerParent == Len(children) <= 1

\* Whichever way a run ends, it leaves no browser behind that nobody has told to close, and
\* a browser that the run takes away itself has ended before the run returns (execute's
\* finally). One that a cancel took away may outlive the run: it is counted in ending.
NoBrowserLeftBehind ==
  /\ fallback = "open" => stage \notin {"none", "close"}
  /\ fallback = "closing" => stage = "close"

Offered(k) == \E o \in lastSeen[k] : o.available

\* An offer that has been noted leads to a checkout task, unless it is noted as gone
\* or recording a change has failed (commerce-monitor-service.ts, runCycle).
SeenOfferIsUsed ==
  \A k \in Keys : Offered(k) ~> (children # <<>> \/ lost \/ ~Offered(k))

\* Every attempt of the checkout pays as the profile prefers.
PaysAsPreferred == \A c \in 1 .. Len(children) : children[c].paid \subseteq {Preferred}
=============================================================================
