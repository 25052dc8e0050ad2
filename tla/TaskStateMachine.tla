--------------------------- MODULE TaskStateMachine ---------------------------
(***************************************************************************)
(* The transition table every state change of a task goes through          *)
(* (src/state-machine/index.ts) and the classifications of task states the *)
(* orchestrator uses (src/orchestrator/index.ts).                          *)
(***************************************************************************)

TaskState ==
  { "CREATED", "QUEUED", "STARTING", "RUNNING", "WAITING_QUEUE",
    "POST_QUEUE_DISCOVERY", "PAUSED", "PRODUCT_FOUND", "CART", "CHECKOUT",
    "SUCCESS", "FAILED", "CANCELLED", "RETRYING" }

\* Where a running task can always be taken out of its run.
Exits == { "FAILED", "CANCELLED", "PAUSED" }

Transitions ==
  [ CREATED              |-> { "QUEUED" },
    QUEUED               |-> { "STARTING", "CANCELLED", "PAUSED" },
    STARTING             |-> Exits \cup { "RUNNING" },
    RUNNING              |-> Exits \cup { "WAITING_QUEUE", "POST_QUEUE_DISCOVERY",
                               "PRODUCT_FOUND", "CART", "CHECKOUT", "SUCCESS" },
    WAITING_QUEUE        |-> Exits \cup { "RUNNING", "POST_QUEUE_DISCOVERY" },
    POST_QUEUE_DISCOVERY |-> Exits \cup { "PRODUCT_FOUND" },
    PRODUCT_FOUND        |-> Exits \cup { "CART" },
    CART                 |-> Exits \cup { "CHECKOUT" },
    CHECKOUT             |-> Exits \cup { "SUCCESS", "RETRYING" },
    PAUSED               |-> { "QUEUED", "CANCELLED" },
    RETRYING             |-> { "QUEUED", "RUNNING", "PAUSED" },
    FAILED               |-> { "RETRYING" },
    SUCCESS              |-> {},
    CANCELLED            |-> {} ]

CanTransition(from, to) == from \in TaskState /\ to \in Transitions[from]

\* States in which a task is shown as occupying a worker.
RunningLike ==
  { "STARTING", "RUNNING", "WAITING_QUEUE", "POST_QUEUE_DISCOVERY",
    "PRODUCT_FOUND", "CART", "CHECKOUT" }

\* States a restart turns into PAUSED.
RecoverableActive == RunningLike \cup { "RETRYING" }

\* completeSuccessfulTask: states from which a successful run can be booked.
CanComplete(s) ==
  \/ s = "CHECKOUT"
  \/ CanTransition(s, "CHECKOUT")
  \/ CanTransition(s, "SUCCESS")
===============================================================================
