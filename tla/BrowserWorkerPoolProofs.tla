----------------------- MODULE BrowserWorkerPoolProofs -----------------------
(***************************************************************************)
(* Theorems about BrowserWorkerPool, for any number of processes, slots,   *)
(* faults and calls and any finite set of tasks: the books of the pool     *)
(* follow the runs.                                                        *)
(***************************************************************************)
EXTENDS BrowserWorkerPool, FiniteSetTheorems, WellFoundedInduction,
        TLAPS

(* The values the books depend on. A generation only grows; its bound        *)
(* depends on the bound on faults and matters to nothing here.               *)
Calls == [at : {"idle", "permitReady", "permitSync"} \cup Executing,
          client : Clients, gen : Nat, told : BOOLEAN]

Shapes ==
  /\ gen \in [Clients -> Nat]
  /\ run \in [Tasks -> Calls]
  /\ owners \in [Tasks -> Clients \cup {0}]
  /\ taskIds \in [Clients -> SUBSET Tasks]
  /\ closing \in [Clients -> BOOLEAN]

(* A client is only closing while the pool is: as long as the pool is open   *)
(* the end of a child is reported to it, and it forgets the owner.           *)
ClosingInClose == phase = "open" => \A c \in Clients : ~closing[c]

PoolInv == Shapes /\ ClosingInClose /\ BooksFollowRuns

-------------------------------------------------------------------------------
(* The choice of a client.                                                 *)

\* Natural numbers that satisfy something have a least one that does.
LEMMA LeastNatural ==
  ASSUME NEW S \in SUBSET Nat, S # {}
  PROVE  \E m \in S : \A n \in S : m <= n
<1> DEFINE Segments == {0 .. n : n \in S}
<1>1. Segments \subseteq FiniteSubsetsOf(Nat) /\ Segments # {}
  <2>1. \A n \in S : 0 .. n \in SUBSET Nat /\ IsFiniteSet(0 .. n)
    BY FS_Interval
  <2> QED
    BY <2>1 DEF FiniteSubsetsOf
<1>2. PICK T \in Segments : \A U \in Segments : <<U, T>> \notin StrictSubsetOrdering(Nat)
  BY <1>1, WFMin, FS_StrictSubsetOrderingWellFounded
<1>3. PICK m \in S : T = 0 .. m
  BY <1>2
<1>4. ASSUME NEW n \in S PROVE m <= n
  <2>1. CASE n < m
    <3>1. 0 .. n \subseteq 0 .. m /\ m \notin 0 .. n /\ m \in 0 .. m
      BY <2>1
    <3>2. <<0 .. n, 0 .. m>> \in StrictSubsetOrdering(Nat)
      BY <3>1 DEF StrictSubsetOrdering
    <3> QED
      BY <1>2, <1>3, <3>2
  <2> QED
    BY <2>1
<1> QED
  BY <1>4

\* LeastLoadedClient finds one.
LEMMA LeastLoadedIsClient ==
  ASSUME IsFiniteSet(Tasks), Shapes
  PROVE  LeastLoadedClient \in Clients
<1>1. \A c \in Clients : Load(c) \in Nat
  BY FS_Subset, FS_CardinalityType DEF Load, Shapes
<1>2. Clients \in SUBSET Nat /\ 1 \in Clients
  BY PoolAssumption DEF Clients
<1>3. PICK m \in {Load(c) : c \in Clients} : \A n \in {Load(c) : c \in Clients} : m <= n
  <2>1. {Load(c) : c \in Clients} \in SUBSET Nat /\ {Load(c) : c \in Clients} # {}
    BY <1>1, <1>2
  <2> QED
    BY <2>1, LeastNatural
<1>4. PICK c \in {d \in Clients : Load(d) = m} : \A d \in {e \in Clients : Load(e) = m} : c <= d
  <2>1. {d \in Clients : Load(d) = m} \in SUBSET Nat /\ {d \in Clients : Load(d) = m} # {}
    BY <1>2, <1>3
  <2> QED
    BY <2>1, LeastNatural
<1>5. \A d \in Clients : Load(c) < Load(d) \/ (Load(c) = Load(d) /\ c <= d)
  <2> SUFFICES ASSUME NEW d \in Clients
               PROVE  Load(c) < Load(d) \/ (Load(c) = Load(d) /\ c <= d)
    OBVIOUS
  <2>1. m = Load(c) /\ m <= Load(d) /\ m \in Nat /\ Load(d) \in Nat
    BY <1>1, <1>3, <1>4
  <2>2. CASE Load(d) = m
    BY <2>1, <2>2, <1>4
  <2>3. CASE Load(d) # m
    BY <2>1, <2>3
  <2> QED
    BY <2>2, <2>3
<1> QED
  BY <1>4, <1>5 DEF LeastLoadedClient

-------------------------------------------------------------------------------
(* The steps.                                                              *)

LEMMA InitPool == Init => PoolInv
  BY PoolAssumption DEF Init, PoolInv, Shapes, ClosingInClose, BooksFollowRuns, Calls, Idle, Clients

\* Steps that leave the runs, the books and the phase alone.
LEMMA SamePool ==
  ASSUME PoolInv, UNCHANGED <<phase, gen, run, owners, taskIds, closing>>
  PROVE  PoolInv'
  BY DEF PoolInv, Shapes, ClosingInClose, BooksFollowRuns, RunsOn, Active

\* As long as the pool is open, the end of a child is told, and no entry of it stays.
LEMMA ExitedStep ==
  ASSUME PoolInv, NEW c \in Clients, NEW respawn,
         Exited(c, ~closing[c], respawn), UNCHANGED phase
  PROVE  PoolInv'
<1> USE DEF PoolInv
<1>1. Shapes'
  <2>1. gen' \in [Clients -> Nat]
    BY DEF Exited, Spawn, Shapes
  <2>2. run' \in [Tasks -> Calls]
    <3>1. Idle \in Calls
      BY PoolAssumption DEF Idle, Calls, Clients
    <3> QED
      BY <3>1 DEF Exited, Shapes
  <2>3. owners' \in [Tasks -> Clients \cup {0}]
    BY DEF Exited, Shapes
  <2>4. taskIds' \in [Clients -> SUBSET Tasks] /\ closing' \in [Clients -> BOOLEAN]
    BY DEF Exited, Shapes
  <2> QED
    BY <2>1, <2>2, <2>3, <2>4 DEF Shapes
<1>2. ClosingInClose'
  BY DEF Exited, Shapes, ClosingInClose
<1>3. BooksFollowRuns'
  <2> SUFFICES ASSUME phase = "open"
               PROVE  /\ \A d \in Clients : \A t \in taskIds'[d] :
                           /\ run'[t].at # "idle" /\ run'[t].client = d
                           /\ t \in Tasks /\ run'[t].at \in Executing
                      /\ \A t \in Tasks : owners'[t] # 0 =>
                           run'[t].at # "idle" /\ run'[t].client = owners'[t]
    BY DEF BooksFollowRuns, RunsOn, Active
  <2>1. ~closing[c]
    BY DEF ClosingInClose
  <2>2. \A t \in Tasks : run[t].client # c => run'[t] = run[t]
    BY DEF Exited, RunsOn
  <2>3. \A d \in Clients : \A t \in taskIds'[d] : d # c /\ t \in taskIds[d]
    BY DEF Exited, Shapes
  <2>4. \A t \in Tasks : owners'[t] # 0 => owners'[t] = owners[t] /\ owners[t] # c
    BY <2>1 DEF Exited
  <2> QED
    BY <2>2, <2>3, <2>4 DEF BooksFollowRuns, RunsOn, Active, Shapes
<1> QED
  BY <1>1, <1>2, <1>3

\* A run without an owner goes to the client it is noted for.
LEMMA BeginStep ==
  ASSUME IsFiniteSet(Tasks), PoolInv, NEW t \in Tasks, BeginRun(t)
  PROVE  PoolInv'
<1> USE DEF PoolInv
<1> DEFINE c == IF owners[t] # 0 THEN owners[t] ELSE LeastLoadedClient
<1>1. c \in Clients
  BY LeastLoadedIsClient DEF Shapes
<1>2. /\ ~Active(t) /\ owners' = [owners EXCEPT ![t] = c]
      /\ UNCHANGED <<phase, closing>>
  BY DEF BeginRun
<1>3. PICK call \in Calls :
        /\ call.client = c /\ call.at \in {"permitReady", "ready"}
        /\ run' = [run EXCEPT ![t] = call]
        /\ \/ taskIds' = taskIds /\ UNCHANGED gen
           \/ /\ call.at = "ready" /\ taskIds' = [taskIds EXCEPT ![c] = @ \cup {t}]
              /\ gen' \in [Clients -> Nat]
  <2>1. CASE HasChild(c)
    <3>1. [Idle EXCEPT !.at = "permitReady", !.client = c, !.gen = gen[c]] \in Calls
      BY <1>1 DEF Idle, Calls, Shapes
    <3> QED
      BY <2>1, <3>1 DEF BeginRun, Idle, children
  <2>2. CASE ~HasChild(c)
    <3>1. [Idle EXCEPT !.at = "ready", !.client = c, !.gen = gen[c] + 1] \in Calls
      <4>1. gen[c] + 1 \in Nat
        BY <1>1 DEF Shapes
      <4> QED
        BY <1>1, <4>1 DEF Idle, Calls, Executing
    <3>2. Enter(t, c)
      BY <2>2 DEF BeginRun
    <3>3. gen' \in [Clients -> Nat]
      BY <2>2, <3>2, <1>1 DEF Enter, Spawn, Shapes
    <3> QED
      BY <2>2, <3>1, <3>2, <3>3 DEF Enter, Idle
  <2> QED
    BY <2>1, <2>2
<1>4. Shapes'
  BY <1>1, <1>2, <1>3 DEF Shapes
<1>5. ClosingInClose'
  BY <1>2 DEF ClosingInClose
<1>6. BooksFollowRuns'
  <2> SUFFICES ASSUME phase = "open"
               PROVE  /\ \A d \in Clients : \A s \in taskIds'[d] :
                           /\ run'[s].at # "idle" /\ run'[s].client = d
                           /\ s \in Tasks /\ run'[s].at \in Executing
                      /\ \A s \in Tasks : owners'[s] # 0 =>
                           run'[s].at # "idle" /\ run'[s].client = owners'[s]
    BY <1>2 DEF BooksFollowRuns, RunsOn, Active
  <2>1. \A d \in Clients : t \notin taskIds[d]
    BY <1>2 DEF BooksFollowRuns, RunsOn
  <2>2. \A s \in Tasks : s # t => run'[s] = run[s] /\ owners'[s] = owners[s]
    BY <1>2, <1>3 DEF Shapes
  <2>3. run'[t].client = c /\ run'[t].at # "idle" /\ owners'[t] = c
    BY <1>2, <1>3 DEF Shapes
  <2>4. \A d \in Clients : \A s \in taskIds'[d] :
           s \in taskIds[d] \/ (s = t /\ d = c /\ run'[t].at = "ready")
    BY <1>1, <1>3 DEF Shapes
  <2> QED
    BY <2>1, <2>2, <2>3, <2>4 DEF BooksFollowRuns, RunsOn, Active, Shapes, Executing
<1> QED
  BY <1>4, <1>5, <1>6

\* A run goes on, or returns and is forgotten.
LEMMA RunStep ==
  ASSUME PoolInv, NEW t \in Tasks, RunReady(t) \/ RunAnswered(t)
  PROVE  PoolInv'
<1> USE DEF PoolInv
<1> DEFINE c == run[t].client
<1>0. c \in Clients /\ run[t] \in Calls /\ Idle \in Calls
  BY PoolAssumption DEF Shapes, Calls, Idle, Clients
<1>1. UNCHANGED <<phase, gen, closing>>
  BY DEF RunReady, RunAnswered, children
<1>2. CASE RunReady(t) \/ run[t].at = "sync"
  <2>1. PICK stage \in {"permitSync", "sync", "exec"} :
          run' = [run EXCEPT ![t].at = stage] /\ (stage \notin Executing => run[t].at \notin Executing)
    BY <1>2 DEF RunReady, RunAnswered, Shapes, Executing
  <2>2. UNCHANGED <<owners, taskIds>> /\ run[t].at # "idle"
    BY <1>2 DEF RunReady, RunAnswered, books
  <2>3. Shapes'
    BY <1>0, <1>1, <2>1, <2>2 DEF Shapes, Calls, Executing
  <2>4. /\ \A s \in Tasks : s # t => run'[s] = run[s]
        /\ run'[t].client = run[t].client /\ run'[t].at = stage
    BY <1>0, <2>1 DEF Shapes, Calls
  <2>5. \A s \in Tasks : /\ run'[s].client = run[s].client
                         /\ run[s].at # "idle" => run'[s].at # "idle"
                         /\ run[s].at \in Executing => run'[s].at \in Executing
    BY <2>1, <2>4
  <2> QED
    BY <1>1, <2>2, <2>3, <2>5 DEF ClosingInClose, BooksFollowRuns, RunsOn, Active, Shapes
<1>3. CASE RunAnswered(t) /\ run[t].at = "permitSync"
  <2>1. /\ run' = [run EXCEPT ![t].at = "ready"]
        /\ taskIds' = [taskIds EXCEPT ![c] = @ \cup {t}] /\ UNCHANGED owners
    BY <1>3 DEF RunAnswered
  <2>2. Shapes'
    BY <1>0, <1>1, <2>1 DEF Shapes, Calls, Executing
  <2>3. /\ \A s \in Tasks : s # t => run'[s] = run[s]
        /\ run'[t].client = run[t].client /\ run'[t].at = "ready"
    BY <1>0, <2>1 DEF Shapes, Calls
  <2>4. \A d \in Clients : \A s \in taskIds'[d] :
           s \in taskIds[d] \/ (s = t /\ d = c /\ run'[t].at = "ready")
    BY <1>0, <2>1 DEF Shapes
  <2> QED
    BY <1>0, <1>1, <1>3, <2>1, <2>2, <2>3, <2>4
       DEF ClosingInClose, BooksFollowRuns, RunsOn, Active, Shapes, Executing
<1>4. CASE RunAnswered(t) /\ run[t].at = "exec"
  <2>1. /\ run' = [run EXCEPT ![t] = Idle]
        /\ taskIds' = [taskIds EXCEPT ![c] = @ \ {t}] /\ owners' = [owners EXCEPT ![t] = 0]
    BY <1>4 DEF RunAnswered
  <2>2. Shapes'
    BY <1>0, <1>1, <2>1 DEF Shapes
  <2>3. \A s \in Tasks : s # t => run'[s] = run[s] /\ owners'[s] = owners[s]
    BY <2>1 DEF Shapes
  <2>4. phase = "open" => \A d \in Clients : \A s \in taskIds'[d] : s \in taskIds[d] /\ s # t
    BY <1>0, <2>1 DEF Shapes, BooksFollowRuns, RunsOn
  <2>5. owners'[t] = 0
    BY <2>1 DEF Shapes
  <2> QED
    BY <1>1, <2>2, <2>3, <2>4, <2>5 DEF ClosingInClose, BooksFollowRuns, RunsOn, Active, Shapes
<1> QED
  BY <1>2, <1>3, <1>4 DEF RunAnswered

\* A cancel that was acknowledged only takes entries away.
LEMMA SideStep ==
  ASSUME PoolInv, NEW k \in Side, SideReady(k) \/ SideAnswered(k)
  PROVE  PoolInv'
<1> USE DEF PoolInv
<1>1. UNCHANGED <<phase, gen, closing>>
  BY DEF SideReady, SideAnswered, children
<1>2. CASE SideReady(k)
  <2> DEFINE t == side[k].task
  <2>1. /\ run' = [run EXCEPT ![t].told = @ \/ (side[k].kind = "cancel" /\ run[t].at = "exec")]
        /\ UNCHANGED <<owners, taskIds>>
    BY <1>2 DEF SideReady, books
  <2>2. run' \in [Tasks -> Calls] /\ \A s \in Tasks : run'[s].at = run[s].at /\ run'[s].client = run[s].client
    BY <2>1 DEF Shapes, Calls
  <2> QED
    BY <1>1, <2>1, <2>2 DEF Shapes, ClosingInClose, BooksFollowRuns, RunsOn, Active
<1>3. CASE SideAnswered(k)
  <2>1. UNCHANGED run
    BY <1>3 DEF SideAnswered
  <2>2. /\ owners' \in [Tasks -> Clients \cup {0}] /\ taskIds' \in [Clients -> SUBSET Tasks]
        /\ \A d \in Clients : taskIds'[d] \subseteq taskIds[d]
        /\ \A s \in Tasks : owners'[s] \in {0, owners[s]}
    BY <1>3 DEF SideAnswered, Shapes, books
  <2> QED
    BY <1>1, <2>1, <2>2 DEF Shapes, ClosingInClose, BooksFollowRuns, RunsOn, Active
<1> QED
  BY <1>2, <1>3

\* While the pool is being closed, nothing is promised of the books.
LEMMA CloseStep ==
  ASSUME PoolInv, Close \/ Closed
  PROVE  PoolInv'
<1>1. phase' # "open" /\ Shapes'
  BY DEF PoolInv, Shapes, Close, Closed, children, books
<1> QED
  BY <1>1 DEF PoolInv, ClosingInClose, BooksFollowRuns

(* The books of the pool follow its runs: the inductive invariant adds that  *)
(* no client is closing in an open pool, for such a client would end its     *)
(* child without telling the pool.                                           *)
THEOREM PoolHolds == ASSUME IsFiniteSet(Tasks) PROVE Spec => []PoolInv
<1>1. ASSUME PoolInv, Next PROVE PoolInv'
  <2>1. ASSUME NEW t \in Tasks, DrainQueue(t) PROVE PoolInv'
    BY <1>1, <2>1, BeginStep DEF DrainQueue
  <2>2. ASSUME NEW c \in Clients, Child(c) PROVE PoolInv'
    <3>1. CASE ExitEvent(c)
      BY <1>1, <3>1, ExitedStep DEF ExitEvent
    <3>2. CASE Recycle(c)
      BY <1>1, <3>2, ExitedStep DEF Recycle
    <3>3. CASE Ready(c) \/ Hang(c) \/ Die(c) \/ LateExit(c) \/ Heartbeat(c) \/ BeatAnswered(c)
      BY <1>1, <3>3, SamePool DEF Ready, Hang, Die, LateExit, Heartbeat, BeatAnswered, books, children
    <3> QED
      BY <2>2, <3>1, <3>2, <3>3 DEF Child
  <2>3. ASSUME NEW c \in Clients, ShutdownAnswered(c) \/ KillAfterShutdown(c) PROVE PoolInv'
    BY <1>1, <2>3, SamePool DEF ShutdownAnswered, KillAfterShutdown, books
  <2>4. ASSUME NEW t \in Tasks, Run(t) PROVE PoolInv'
    <3>1. CASE StartRun(t)
      BY <1>1, <3>1, BeginStep, SamePool DEF StartRun, books, children
    <3>2. CASE RunReady(t) \/ RunAnswered(t)
      BY <1>1, <3>2, RunStep
    <3> QED
      BY <2>4, <3>1, <3>2 DEF Run
  <2>5. ASSUME NEW k \in Side, SideCall(k) PROVE PoolInv'
    <3>1. CASE \E t \in Tasks : CancelTask(k, t) \/ UpdateDiscoveryKeywords(k, t)
      BY <1>1, <3>1, SamePool DEF CancelTask, UpdateDiscoveryKeywords, SideStart, books, children
    <3>2. CASE \E c \in Clients, kind \in SideKinds : AskClient(k, kind, c)
      BY <1>1, <3>2, SamePool DEF AskClient, SideStart, books, children
    <3>3. CASE SideReady(k) \/ SideAnswered(k)
      BY <1>1, <3>3, SideStep
    <3> QED
      BY <2>5, <3>1, <3>2, <3>3 DEF SideCall
  <2> QED
    BY <1>1, <2>1, <2>2, <2>3, <2>4, <2>5, CloseStep DEF Next
<1>2. PoolInv /\ UNCHANGED vars => PoolInv'
  BY SamePool DEF vars, books, children
<1> QED
  BY InitPool, <1>1, <1>2, PTL DEF Spec

(* No entry outlives its run: what a client counts as its load and what the  *)
(* pool keeps as an owner are runs on that client, whatever dies, hangs,     *)
(* times out or answers late (client.ts: execute, cancelTask,                *)
(* handleWorkerExit, the exit listener of the pool).                         *)
THEOREM BooksHold == ASSUME IsFiniteSet(Tasks) PROVE Spec => []BooksFollowRuns
<1>1. PoolInv => BooksFollowRuns
  BY DEF PoolInv
<1> QED
  BY PoolHolds, <1>1, PTL
=============================================================================
