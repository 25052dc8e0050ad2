---------------------------- MODULE TaskLifecycle ----------------------------
(***************************************************************************)
(* What the orchestrator promises its user, without queue, pool, timers or *)
(* suspended calls.  A task has a status the user sees; `live` holds the   *)
(* tasks an executor is still working for, which outlives the status: a    *)
(* paused, resumed or finished task stays live until its run has unwound.  *)
(***************************************************************************)
EXTENDS Naturals, FiniteSets

CONSTANTS Tasks, MaxSlots

VARIABLES status, live, slots
vars == <<status, live, slots>>

Status == { "absent", "waiting", "running", "held", "retrying", "over" }

\* What the user may do to a task, whatever its run is doing.
UserMoves ==
  { <<"absent", "waiting">>, <<"waiting", "held">>, <<"running", "held">>,
    <<"retrying", "held">>, <<"held", "waiting">>, <<"waiting", "over">>,
    <<"running", "over">>, <<"held", "over">> }

Init ==
  /\ status \in [Tasks -> Status \ {"running", "retrying"}]
  /\ live = {}
  /\ slots = 0

User(t) ==
  /\ \E new \in Status : /\ <<status[t], new>> \in UserMoves
                         /\ status' = [status EXCEPT ![t] = new]
  /\ UNCHANGED <<live, slots>>

\* The run of t reports its result; only the run of a task that is still to be run
\* may do so, and only once.
Report(t) ==
  /\ t \in live /\ status[t] = "running"
  /\ \E new \in {"over", "retrying"} : status' = [status EXCEPT ![t] = new]
  /\ UNCHANGED <<live, slots>>

\* The retry delay of t is over, and no slot is free.
RetryWaits(t) ==
  /\ status[t] = "retrying"
  /\ status' = [status EXCEPT ![t] = "waiting"]
  /\ UNCHANGED <<live, slots>>

\* At most one run unwinds, or one slot is added; tasks that wait start, as far as
\* there are slots, none of them while its previous run is live.
Turn(ended, started, added) ==
  /\ live' = (live \ ended) \cup started
  /\ slots' = slots + added
  /\ Cardinality(ended) + added \in 0 .. 1
  /\ ended \subseteq live /\ \A t \in ended : status[t] # "running"
  /\ started \cap (live \ ended) = {}
  /\ \A t \in started : status[t] \in {"waiting", "retrying"}
  /\ slots' <= MaxSlots
  /\ Cardinality(live') <= slots'
  /\ status' = [t \in Tasks |-> IF t \in started THEN "running" ELSE status[t]]

Next ==
  \/ \E t \in Tasks : User(t) \/ Report(t) \/ RetryWaits(t)
  \/ \E ended, started \in SUBSET Tasks, added \in 0 .. 1 : Turn(ended, started, added)

Spec == Init /\ [][Next]_vars
===============================================================================
