------------------------------ MODULE QueueWait ------------------------------
(***************************************************************************)
(* Waiting in a shop's queue: src/browser-worker/queue-waiter.ts, as the   *)
(* checkout executors use it before a page and the gate monitor            *)
(* (src/monitor/browser-gate-monitor-executor.ts) in a loop, with the      *)
(* side process that asks the shop over HTTP                               *)
(* (src/monitor/session-http-poller.ts).                                   *)
(*                                                                         *)
(* A unit of time is one poll. Positions and texts are left out; a status  *)
(* text matters by what it matches, "released" or not.                     *)
(***************************************************************************)
EXTENDS Naturals

CONSTANTS
  MaxWait,    \* maxWaitMs, in polls
  Fresh,      \* NETWORK_SIGNAL_TTL_MS and getLatest's age, in polls
  MaxQueues,  \* bound: times the shop queues its visitors
  MaxRuns     \* bound: runs of the task

ASSUME WaitAssumption == MaxWait \in Nat /\ Fresh \in Nat

VARIABLES
  shop,     \* "open", "queue"
  queues,   \* times it has queued
  blank,    \* the page shows nothing of the queue; never at two polls in a row
  bodies,   \* response bodies still being read
  net,      \* networkSignal
  polled,   \* latest signal of the side process
  poller,   \* the side process runs
  kind,     \* which executor: "checkout", "monitor"
  runs,     \* runs so far
  stage,    \* where it is
  closed,   \* its page is closed: the run was cancelled
  slept,    \* the pause between two polls is over
  clear,    \* clearCount
  age,      \* time since startedAt
  status,   \* phase of the task's queueStatus
  outcome,  \* how the last wait ended
  waited,   \* history: time since the queue was first noticed
  through,  \* history: the shop has let visitors in since then
  stale     \* history: an answer of an earlier release was still about then

outside == <<shop, queues, blank>>
signals == <<bodies, net, polled, poller>>
wait == <<slept, clear, age, status, outcome, waited>>
run == <<kind, runs, stage, closed>>
noticed == <<through, stale>>
waitVars == <<outside, signals, wait, run, noticed>>

Silent == [says |-> "nothing", age |-> 0]
Heard(s) == [says |-> s, age |-> 0]

WaitInit ==
  /\ shop \in {"open", "queue"} /\ queues = (IF shop = "queue" THEN 1 ELSE 0) /\ blank = FALSE
  /\ bodies = {} /\ net = Silent /\ polled = Silent /\ poller = FALSE
  /\ kind \in {"checkout", "monitor"} /\ runs = 0 /\ stage = "off" /\ closed = FALSE
  /\ slept = FALSE /\ clear = 0 /\ age = 0 /\ status = "none" /\ outcome = "none"
  /\ waited = 0 /\ through = FALSE /\ stale = FALSE

----------------------------------------------------------------------------
(* Outside: the shop, its answers, time.                                   *)

QueueStarts ==
  /\ shop = "open" /\ queues < MaxQueues
  /\ shop' = "queue" /\ queues' = queues + 1
  /\ UNCHANGED <<blank, signals, wait, run, noticed>>

QueueEnds ==
  /\ shop = "queue" /\ shop' = "open" /\ through' = TRUE
  /\ UNCHANGED <<queues, blank, signals, wait, run, stale>>

Blank ==
  /\ ~blank /\ slept /\ clear = 0 /\ blank' = TRUE
  /\ UNCHANGED <<shop, queues, signals, wait, run, noticed>>

Listening == stage \in {"goto", "first", "loop", "rest"}

\* captureResponse: the address counts at once, the body when it has been read.
ResponseSeen ==
  /\ Listening /\ ~closed
  /\ net' = Heard("queue")
  /\ bodies' = bodies \cup {IF shop = "queue" THEN "queue" ELSE "released"}
  /\ shop = "queue" \/ queues > 0
  /\ UNCHANGED <<outside, polled, poller, wait, run, noticed>>

\* Bodies are read in any order, and the last one read counts.
BodyRead(b) ==
  /\ b \in bodies /\ bodies' = bodies \ {b}
  /\ net' \in {Heard(b), net}
  /\ UNCHANGED <<outside, polled, poller, wait, run, noticed>>

\* The side process; externalSignal passes on a queue and an explicit release only.
PollerTells ==
  /\ poller
  /\ polled' \in (IF shop = "queue" THEN {Heard("queue")}
                  ELSE {Heard("nothing")} \cup (IF queues > 0 THEN {Heard("released")} ELSE {}))
  /\ UNCHANGED <<outside, bodies, net, poller, wait, run, noticed>>

PollerDies ==
  /\ poller /\ poller' = FALSE
  /\ UNCHANGED <<outside, bodies, net, polled, wait, run, noticed>>

Older(n, top) == IF n < top THEN n + 1 ELSE n

Tick ==
  /\ ~slept \/ stage \notin {"loop", "rest"}
  /\ slept' = TRUE
  /\ age' = Older(age, MaxWait + 1) /\ waited' = Older(waited, MaxWait + 2)
  /\ net' = [net EXCEPT !.age = Older(@, Fresh + 1)]
  /\ polled' = [polled EXCEPT !.age = Older(@, Fresh + 1)]
  /\ UNCHANGED <<outside, bodies, poller, run, clear, status, outcome, noticed>>

----------------------------------------------------------------------------
(* One run: navigate, then waitIfQueued.                                   *)

\* A run may find the status another one has left with the task.
Start ==
  /\ stage \in {"off", "ended"} /\ runs < MaxRuns
  /\ runs' = runs + 1 /\ stage' = "goto" /\ closed' = FALSE
  /\ poller' \in (IF kind = "monitor" THEN BOOLEAN ELSE {FALSE})
  /\ net' = Silent /\ polled' = Silent /\ bodies' = {}
  /\ outcome' = "none"
  /\ UNCHANGED <<outside, kind, slept, clear, age, status, waited, noticed>>

Navigated ==
  /\ stage = "goto" /\ stage' = "first"
  /\ UNCHANGED <<outside, signals, wait, kind, runs, closed, noticed>>

Recent(s) == IF s.age <= Fresh THEN s.says ELSE "nothing"

\* readSignal: the side process, then the network, then the page.
Active ==
  /\ ~closed
  /\ Recent(polled) # "released"
  /\ \/ Recent(polled) = "queue"
     \/ /\ Recent(net) # "released"
        /\ Recent(net) = "queue" \/ (shop = "queue" /\ ~blank)

\* A reading that finds nothing ends the wait of the checkout; the monitor pauses.
NotQueued ==
  IF kind = "monitor" /\ ~closed
  THEN stage' = "rest" /\ slept' = FALSE /\ UNCHANGED outcome
  ELSE stage' = "ended" /\ outcome' = "undetected" /\ UNCHANGED slept

\* What is known of a release, or about to be.
ReleaseHeard == "released" \in bodies \/ net.says = "released" \/ polled.says = "released"

Seeded == status = "waiting"

SeedForgotten == age' = 0

\* The time since the queue was noticed goes on in the next run.
StartedAt == age' = IF Seeded THEN age ELSE 0

FirstReading ==
  /\ stage = "first"
  /\ IF Active \/ Seeded
     THEN /\ stage' = "loop" /\ clear' = 0 /\ slept' = TRUE /\ StartedAt
          /\ waited' = (IF Seeded THEN waited ELSE 0)
          /\ through' = ((Seeded /\ through) \/ shop = "open")
          /\ stale' = (IF Seeded THEN stale ELSE ReleaseHeard)
          /\ UNCHANGED outcome
     ELSE NotQueued /\ UNCHANGED <<clear, age, waited, noticed>>
  /\ blank' = FALSE
  /\ UNCHANGED <<shop, queues, signals, status, kind, runs, closed>>

OnceClear == 1

ReleaseConfirmations == 2

Cleared(a) == IF a THEN 0 ELSE clear + 1

Poll ==
  /\ stage = "loop" /\ slept /\ age <= MaxWait
  /\ clear' = Cleared(Active)
  /\ IF clear' >= ReleaseConfirmations
     THEN stage' = "ended" /\ status' = "released" /\ outcome' = "released" /\ UNCHANGED slept
     ELSE /\ slept' = FALSE /\ status' = (IF Active THEN "waiting" ELSE status)
          /\ UNCHANGED <<stage, outcome>>
  /\ blank' = FALSE
  /\ UNCHANGED <<shop, queues, signals, kind, runs, closed, age, waited, noticed>>

NeverOver == FALSE

WindowOver == age > MaxWait

TimesOut ==
  /\ stage = "loop" /\ slept /\ WindowOver
  /\ stage' = "ended" /\ status' = "timed-out" /\ outcome' = "timeout"
  /\ UNCHANGED <<outside, signals, kind, runs, closed, slept, clear, age, waited, noticed>>

\* The monitor looks again after its pause, or loads the page anew.
LookAgain ==
  /\ stage = "rest" /\ (slept \/ closed)
  /\ IF closed THEN stage' = "ended" /\ outcome' = "aborted" /\ poller' = FALSE
               ELSE stage' \in {"first", "goto"} /\ UNCHANGED <<outcome, poller>>
  /\ UNCHANGED <<outside, bodies, net, polled, kind, runs, closed, slept, clear, age, status,
                 waited, noticed>>

\* A cancel closes the page under the wait.
Cancel ==
  /\ Listening /\ ~closed /\ closed' = TRUE
  /\ UNCHANGED <<outside, signals, wait, kind, runs, stage, noticed>>

\* The worker process ends; the task keeps the status it has last told.
Crash ==
  /\ Listening
  /\ stage' = "ended" /\ outcome' = "aborted" /\ poller' = FALSE
  /\ UNCHANGED <<outside, bodies, net, polled, kind, runs, closed, slept, clear, age, status,
                 waited, noticed>>

WaitNext ==
  \/ QueueStarts \/ QueueEnds \/ Blank \/ ResponseSeen \/ PollerTells \/ PollerDies \/ Tick
  \/ \E b \in {"queue", "released"} : BodyRead(b)
  \/ Start \/ Navigated \/ FirstReading \/ Poll \/ TimesOut \/ LookAgain \/ Cancel \/ Crash

WaitSpec == WaitInit /\ [][WaitNext]_waitVars

(* Time passes, and timers and answers of the page come.                   *)
WaitFairness == WF_waitVars(Tick) /\ WF_waitVars(Poll) /\ WF_waitVars(TimesOut)

WaitFairSpec == WaitSpec /\ WaitFairness

----------------------------------------------------------------------------
Signals == [says : {"nothing", "queue", "released"}, age : 0 .. Fresh + 1]

\* Every variable keeps to its type.
WaitTypeOK ==
  /\ shop \in {"open", "queue"} /\ queues \in 0 .. MaxQueues /\ blank \in BOOLEAN
  /\ bodies \subseteq {"queue", "released"} /\ net \in Signals /\ polled \in Signals
  /\ poller \in BOOLEAN /\ kind \in {"checkout", "monitor"} /\ runs \in 0 .. MaxRuns
  /\ stage \in {"off", "goto", "first", "loop", "rest", "ended"} /\ closed \in BOOLEAN
  /\ slept \in BOOLEAN /\ clear \in 0 .. 2 /\ age \in 0 .. MaxWait + 1
  /\ status \in {"none", "waiting", "released", "timed-out"}
  /\ outcome \in {"none", "undetected", "released", "timeout", "aborted"}
  /\ waited \in 0 .. MaxWait + 2 /\ through \in BOOLEAN /\ stale \in BOOLEAN

\* A noticed queue is reported as left only if the shop has let its visitors in since,
\* although single readings between two pages see nothing and bodies are read in any
\* order (queue-waiter.ts); or on the word of an answer from before, when the shop has
\* queued its visitors again. A closed page is reported as left too.
ReleaseMeansAdmitted == outcome = "released" /\ ~closed => through \/ stale

\* The hour is counted from the first sight of the queue, also when the task is run
\* again meanwhile: no poll is made after it.
WindowSpansRuns == stage = "loop" /\ ~slept => waited <= MaxWait

\* A wait ends: with the release or with the end of its hour (waitIfQueued).
WaitEnds == stage = "loop" ~> stage # "loop"
=============================================================================
