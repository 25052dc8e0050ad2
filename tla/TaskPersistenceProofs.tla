------------------------ MODULE TaskPersistenceProofs ------------------------
(***************************************************************************)
(* Theorems about TaskPersistence, for any tasks, slots and retries, with  *)
(* or without failing writes, crashes and quitting: what runs after a      *)
(* restart, what the stored rows say of the tasks, and that the log of     *)
(* their states is a path of the lifecycle.                                *)
(***************************************************************************)
EXTENDS TaskPersistence, FiniteSetTheorems, FunctionTheorems, TLAPS

-------------------------------------------------------------------------------
(* What runs.                                                              *)

\* Whatever may start a task was asked for: its worker, queue entry, timer and the
\* continuation of a resume.
AskedInv ==
  /\ running \cup pending \cup timers \subseteq asked /\ asked \subseteq Tasks
  /\ \A call \in cont : call.kind = "resume" => call.task \in asked

LEMMA DrainAsked ==
  ASSUME NEW m, NEW queue, NEW calls, Drain(m, queue, calls)
  PROVE  running' \subseteq queue \cup calls /\ pending' \subseteq queue
  BY DEF Drain, Startable

LEMMA InitAsked == Init => AskedInv
  BY DEF Init, AskedInv

LEMMA StepAsked ==
  ASSUME AskedInv, [Next]_vars
  PROVE  AskedInv'
<1> USE DEF AskedInv
<1>1. CASE UNCHANGED vars
  BY <1>1 DEF vars, sched, ghosts
<1>2. CASE WriteNext
  BY <1>2 DEF WriteNext, sched
<1>3. CASE Continue
  <2>1. asked' = asked /\ timers' = timers /\ cont' = {}
    BY <1>3 DEF Continue
  <2>2. \E call \in cont :
          \/ Drain(mem, pending, running)
          \/ call.kind = "resume" /\ Drain(mem, pending \cup {call.task}, running)
          \/ Drain(mem, pending, running \ {call.task})
    BY <1>3 DEF Continue
  <2>3. running' \subseteq asked /\ pending' \subseteq asked
    BY <2>2, DrainAsked
  <2> QED
    BY <2>1, <2>3
<1>4. ASSUME NEW t \in Tasks, Command(t) PROVE AskedInv'
  <2>1. CASE CreateTask(t)
    BY <2>1 DEF CreateTask, sched, ghosts
  <2>2. CASE StartTask(t)
    BY <2>2 DEF StartTask
  <2>3. CASE PauseTask(t)
    BY <2>3 DEF PauseTask
  <2>4. CASE ResumeTask(t)
    BY <2>4 DEF ResumeTask, sched
  <2>5. CASE CancelTask(t)
    BY <2>5 DEF CancelTask
  <2> QED
    BY <1>4, <2>1, <2>2, <2>3, <2>4, <2>5 DEF Command
<1>5. ASSUME NEW t \in Tasks, NEW block \in BOOLEAN, Progress(t, block) PROVE AskedInv'
  BY <1>5 DEF Progress, ghosts
<1>6. ASSUME NEW t \in Tasks, Return(t) PROVE AskedInv'
  <2>1. CASE ReturnInterrupted(t)
    BY <2>1 DEF ReturnInterrupted, SaveRun
  <2>2. CASE ReturnSuccess(t)
    BY <2>2 DEF ReturnSuccess, SaveRun, sched
  <2>3. CASE ReturnFailure(t)
    <3>1. timers' \subseteq timers \cup {t} /\ t \in running
      BY <2>3 DEF ReturnFailure
    <3>2. UNCHANGED <<running, pending, asked>> /\ cont' = {[task |-> t, kind |-> "run"]}
      BY <2>3 DEF ReturnFailure, SaveRun
    <3> QED
      BY <3>1, <3>2
  <2>4. CASE ReturnRefused(t)
    BY <2>4 DEF ReturnRefused, SaveRun
  <2> QED
    BY <1>6, <2>1, <2>2, <2>3, <2>4 DEF Return
<1>7. ASSUME NEW t \in Tasks, RetryFires(t) PROVE AskedInv'
  BY <1>7 DEF RetryFires, BeginOrWait, ghosts
<1>8. CASE Quit
  BY <1>8 DEF Quit, sched, ghosts
<1>9. CASE Cleanup
  BY <1>9 DEF Cleanup, ghosts
<1>10. CASE CloseStore \/ Crash
  BY <1>10 DEF CloseStore, Crash, Gone
<1>11. CASE Restart \/ RestartFails
  BY <1>11 DEF Restart, RestartFails, sched, ghosts
<1> QED
  BY <1>1, <1>2, <1>3, <1>4, <1>5, <1>6, <1>7, <1>8, <1>9, <1>10, <1>11 DEF Next

(* Nothing runs by itself after a restart: the queue, the retry timers and   *)
(* the continuation of a resume only know tasks that were started or resumed *)
(* since (initialize, drainQueue, resumeTask).                               *)
THEOREM OnlyAskedRuns == Spec => []RunsOnlyWhenAsked
<1>1. AskedInv => RunsOnlyWhenAsked
  BY DEF AskedInv, RunsOnlyWhenAsked
<1> QED
  BY InitAsked, StepAsked, <1>1, PTL DEF Spec

-------------------------------------------------------------------------------
(* What is written.                                                        *)

\* The tasks, the rows and the chain keep to their types.
Typed == mem \in [Tasks -> Rec] /\ row \in [Tasks -> Rec] /\ chain \in Seq(Snapshot)

LEMMA SeqFacts ==
  ASSUME NEW S, NEW n \in Nat, NEW f \in [1 .. n -> S]
  PROVE  f \in Seq(S) /\ Len(f) = n
  OBVIOUS

LEMMA RecFacts ==
  ASSUME NEW rec \in Rec, NEW s \in TaskState \cup {"ABSENT"}
  PROVE  /\ [rec EXCEPT !.state = s] \in Rec
         /\ [rec EXCEPT !.state = s].state = s
         /\ \A b \in BOOLEAN : [rec EXCEPT !.blocked = b] \in Rec
         /\ \A b \in BOOLEAN : [rec EXCEPT !.blocked = b].state = rec.state
  BY DEF Rec

LEMMA ThroughFacts ==
  ASSUME NEW rec \in Rec, NEW states \in Seq(TaskState \cup {"ABSENT"})
  PROVE  /\ Through(rec, states) \in Seq(Rec) /\ Len(Through(rec, states)) = Len(states)
         /\ \A i \in 1 .. Len(states) : Through(rec, states)[i].state = states[i]
<1>1. \A i \in 1 .. Len(states) :
        [rec EXCEPT !.state = states[i]] \in Rec /\ [rec EXCEPT !.state = states[i]].state = states[i]
  BY RecFacts
<1>2. Through(rec, states) = [i \in 1 .. Len(states) |-> [rec EXCEPT !.state = states[i]]]
  BY DEF Through
<1>3. Through(rec, states) \in [1 .. Len(states) -> Rec]
  BY <1>1, <1>2
<1>4. Len(states) \in Nat
  OBVIOUS
<1> QED
  BY <1>1, <1>2, <1>3, <1>4, SeqFacts

LEMMA BegunFacts ==
  ASSUME NEW rec \in Rec
  PROVE  /\ Begun(rec) \in Seq(Rec) /\ Len(Begun(rec)) = 2
         /\ Begun(rec)[1] \in Rec /\ Begun(rec)[2] \in Rec
         /\ Last(Begun(rec)) = Begun(rec)[2]
<1>1. <<"STARTING", "RUNNING">> \in Seq(TaskState \cup {"ABSENT"})
  BY DEF TaskState
<1>2. Begun(rec) \in Seq(Rec) /\ Len(Begun(rec)) = 2
  BY <1>1, ThroughFacts DEF Begun
<1> QED
  BY <1>2 DEF Last

(* The snapshots of one stretch of code are snapshots of its task.           *)
LEMMA SnapshotsFacts ==
  ASSUME NEW t \in Tasks, NEW recs \in Seq(Rec)
  PROVE  /\ Snapshots(t, recs) \in Seq(Snapshot)
         /\ phase = "cleaned" => Snapshots(t, recs) = <<>>
         /\ phase # "cleaned" =>
              /\ Len(Snapshots(t, recs)) = Len(recs)
              /\ \A i \in 1 .. Len(recs) : Snapshots(t, recs)[i] = [task |-> t, rec |-> recs[i]]
<1> DEFINE f == [i \in DOMAIN recs |-> [task |-> t, rec |-> recs[i]]]
<1>1. f \in [1 .. Len(recs) -> Snapshot] /\ \A i \in 1 .. Len(recs) : f[i] = [task |-> t, rec |-> recs[i]]
  BY DEF Snapshot
<1>2. Len(recs) \in Nat
  OBVIOUS
<1>3. f \in Seq(Snapshot) /\ Len(f) = Len(recs)
  BY <1>1, <1>2, SeqFacts
<1>4. Snapshots(t, recs) = IF phase = "cleaned" THEN <<>> ELSE f
  BY DEF Snapshots
<1> HIDE DEF f
<1> QED
  BY <1>1, <1>3, <1>4

(* An order of a finite set of tasks, each of them once.                     *)
LEMMA OrderFacts ==
  ASSUME NEW S, IsFiniteSet(S)
  PROVE  /\ SetToSeq(S) \in Seq(S) /\ Len(SetToSeq(S)) = Cardinality(S)
         /\ \A i, j \in 1 .. Cardinality(S) : SetToSeq(S)[i] = SetToSeq(S)[j] => i = j
         /\ \A x \in S : \E i \in 1 .. Cardinality(S) : SetToSeq(S)[i] = x
<1> DEFINE n == Cardinality(S)
<1>1. n \in Nat /\ ExistsBijection(1 .. n, S)
  BY FS_CardinalityType
<1>2. PICK f : f \in Bijection(1 .. n, S)
  BY <1>1, Fun_ExistsBij
<1>3. f \in [1 .. n -> S] /\ IsInjective(f)
  BY <1>2, Fun_BijectionProperties DEF Injection
<1>4. SetToSeq(S) \in [1 .. n -> S] /\ IsInjective(SetToSeq(S))
  BY <1>3 DEF SetToSeq
<1> DEFINE g == SetToSeq(S)
<1> HIDE DEF n, g
<1>5. g \in Bijection(1 .. n, Range(g))
  BY <1>4, Fun_InjMeansBijImage DEF Injection, g
<1>6. Range(g) \subseteq S /\ Range(g) \in SUBSET S
  BY <1>4, Fun_RangeProperties DEF g
<1>7. Cardinality(Range(g)) = n
  BY <1>1, <1>5, Fun_ExistsBij, FS_CountingElements
<1>8. Range(g) = S
  BY <1>6, <1>7, FS_Subset DEF n
<1>9. \A x \in S : \E i \in 1 .. n : g[i] = x
  <2>1. \A x \in Range(g) : \E i \in 1 .. n : g[i] = x
    <3>1. g \in [1 .. n -> S]
      BY <1>4 DEF g
    <3> QED
      BY <3>1 DEF Range
  <2> QED
    BY <1>8, <2>1
<1>10. g \in Seq(S) /\ Len(g) = n
  BY <1>1, <1>4 DEF g
<1> QED
  BY <1>4, <1>9, <1>10 DEF g, n, IsInjective

(* The snapshots of a drain: each begun task has two, and after its second   *)
(* there is none.                                                            *)
LEMMA BeginsFacts ==
  ASSUME NEW m \in [Tasks -> Rec], NEW S \in SUBSET Tasks, IsFiniteSet(S),
         NEW order, order = SetToSeq(S)
  PROVE  /\ Begins(m, order) \in Seq(Snapshot)
         /\ \A i \in 1 .. Len(Begins(m, order)) :
              /\ Begins(m, order)[i].task \in S
              /\ \/ Begins(m, order)[i].rec = Last(Begun(m[Begins(m, order)[i].task]))
                 \/ \E j \in i + 1 .. Len(Begins(m, order)) :
                      Begins(m, order)[j].task = Begins(m, order)[i].task
         /\ \A t \in S : \E i \in 1 .. Len(Begins(m, order)) : Begins(m, order)[i].task = t
<1> DEFINE n == Len(order)
           b == Begins(m, order)
<1>1. n \in Nat /\ order \in Seq(S) /\ \A t \in S : \E i \in 1 .. n : order[i] = t
  BY OrderFacts, FS_CardinalityType
<1>2. \A i \in 1 .. 2 * n : (i + 1) \div 2 \in 1 .. n
  BY <1>1
<1>3. \A i \in 1 .. n : (2 * i + 1) \div 2 = i /\ 2 - ((2 * i) % 2) = 2
  BY <1>1
<1>4. \A i \in 1 .. 2 * n : 2 - (i % 2) \in {1, 2}
  BY <1>1
<1>5. \A i \in 1 .. 2 * n : 2 - (i % 2) = 1 => i + 1 \in 1 .. 2 * n /\ (i + 2) \div 2 = (i + 1) \div 2
  BY <1>1
<1>6. \A i \in 1 .. 2 * n : order[(i + 1) \div 2] \in S
  BY <1>1, <1>2
<1>7. b = [i \in 1 .. 2 * n |->
            [task |-> order[(i + 1) \div 2],
             rec |-> Begun(m[order[(i + 1) \div 2]])[2 - (i % 2)]]]
  BY DEF Begins
<1>8. \A i \in 1 .. 2 * n :
        /\ b[i].task = order[(i + 1) \div 2]
        /\ b[i].rec = Begun(m[b[i].task])[2 - (i % 2)]
        /\ b[i] = [task |-> b[i].task, rec |-> b[i].rec]
  BY <1>7
<1> HIDE DEF n, b
<1>9. \A i \in 1 .. 2 * n : b[i].task \in S /\ b[i].rec \in Rec
  <2> SUFFICES ASSUME NEW i \in 1 .. 2 * n PROVE b[i].task \in S /\ b[i].rec \in Rec
    OBVIOUS
  <2>1. b[i].task \in S
    BY <1>6, <1>8
  <2>2. m[b[i].task] \in Rec
    BY <2>1
  <2>3. Begun(m[b[i].task])[1] \in Rec /\ Begun(m[b[i].task])[2] \in Rec
    BY <2>2, BegunFacts
  <2> QED
    BY <1>4, <1>8, <2>1, <2>3
<1>10. b \in Seq(Snapshot) /\ Len(b) = 2 * n
  <2>1. ASSUME NEW i \in 1 .. 2 * n PROVE b[i] \in Snapshot
    <3>1. b[i].task \in Tasks /\ b[i].rec \in Rec /\ b[i] = [task |-> b[i].task, rec |-> b[i].rec]
      BY <1>8, <1>9
    <3>2. [task |-> b[i].task, rec |-> b[i].rec] \in Snapshot
      BY <3>1 DEF Snapshot
    <3> QED
      BY <3>1, <3>2
  <2>2. b \in [1 .. 2 * n -> Snapshot]
    BY <1>7, <2>1
  <2> QED
    BY <1>1, <2>2, SeqFacts
<1>11. \A t \in S : \E i \in 1 .. 2 * n : b[i].task = t
  <2> SUFFICES ASSUME NEW t \in S PROVE \E i \in 1 .. 2 * n : b[i].task = t
    OBVIOUS
  <2>1. PICK i \in 1 .. n : order[i] = t
    BY <1>1
  <2>2. 2 * i \in 1 .. 2 * n
    BY <1>1, <2>1
  <2> QED
    BY <1>3, <1>8, <2>1, <2>2
<1>12. ASSUME NEW i \in 1 .. 2 * n
       PROVE  \/ b[i].rec = Last(Begun(m[b[i].task]))
              \/ \E j \in i + 1 .. 2 * n : b[j].task = b[i].task
  <2>1. CASE 2 - (i % 2) = 2
    <3>1. m[b[i].task] \in Rec
      BY <1>9
    <3> QED
      <4>1. b[i].rec = Begun(m[b[i].task])[2]
        BY <1>8, <2>1
      <4>2. Last(Begun(m[b[i].task])) = Begun(m[b[i].task])[2]
        BY <3>1, BegunFacts
      <4> QED
        BY <4>1, <4>2
  <2>2. CASE 2 - (i % 2) = 1
    <3>1. i + 1 \in i + 1 .. 2 * n /\ i + 1 \in 1 .. 2 * n /\ (i + 1) + 1 = i + 2
      BY <1>1, <1>5, <2>2
    <3>2. b[i + 1].task = b[i].task
      <4>1. b[i + 1].task = order[((i + 1) + 1) \div 2]
        BY <1>8, <3>1
      <4>2. ((i + 1) + 1) \div 2 = (i + 1) \div 2
        BY <1>5, <2>2, <3>1
      <4> QED
        BY <1>8, <4>1, <4>2
    <3> QED
      BY <3>1, <3>2
  <2> QED
    BY <1>4, <2>1, <2>2
<1> QED
  BY <1>9, <1>10, <1>11, <1>12 DEF b

-------------------------------------------------------------------------------
(* The rows follow the tasks.                                              *)

\* The snapshot of the chain that is written last of a task is the task as it is now, and
\* a task with no snapshot under way is on file, unless its latest write failed.
ChainEnds ==
  \A i \in 1 .. Len(chain) :
    \/ chain[i].rec = mem[chain[i].task]
    \/ \E j \in i + 1 .. Len(chain) : chain[j].task = chain[i].task

RowFollows ==
  \A t \in Tasks \ lost :
    OnFile(t) \/ \E i \in 1 .. Len(chain) : chain[i].task = t

Settled == phase \in {"up", "closing"} => ChainEnds /\ RowFollows

\* A pause that was answered: the row, the task and all that is still to be written say so.
Kept(t) ==
  /\ Restored(row[t].state) = "PAUSED"
  /\ Alive => mem[t].state = "PAUSED"
              /\ \A i \in 1 .. Len(chain) : chain[i].task = t => chain[i].rec.state = "PAUSED"

PauseKept ==
  /\ \A t \in held : Kept(t)
  /\ \A call \in cont : call.kind = "pause" => Kept(call.task)

RowInv == Typed /\ held \subseteq Tasks /\ cont \subseteq Call /\ Settled /\ PauseKept

\* At most one call has yet to go on.  A call that holds a worker is about to give it back,
\* runs a task that can still fail, or was interrupted; only such a run has reported a block.
Out(t) ==
  \/ [task |-> t, kind |-> "run"] \in cont
  \/ mem[t].state \in RunningLike \cup {"CANCELLED"}
  \/ mem[t].state \in {"PAUSED", "QUEUED"} /\ t \in marked

BusyInv ==
  /\ \A c, d \in cont : c = d
  /\ running \subseteq Tasks /\ reported \subseteq running
  /\ \A call \in cont : call.kind = "run" => call.task \notin reported
  /\ phase \in {"up", "closing"} => \A t \in running : Out(t)
  /\ phase = "down" => running = {}

LEMMA RestoredPaused == Restored("PAUSED") = "PAUSED" /\ Restored("QUEUED") = "QUEUED"
  BY DEF Restored, RecoverableActive, RunningLike

(* One task moves while the chain is empty, and at most its own row is       *)
(* written.                                                                  *)
LEMMA MoveSettles ==
  ASSUME RowInv, Quiet, UNCHANGED phase, NEW t \in Tasks, NEW recs \in Seq(Rec), recs # <<>>,
         Move(t, recs), row' \in [Tasks -> Rec],
         \A u \in Tasks \ {t} : row'[u] = row[u] /\ (u \in lost' <=> u \in lost),
         reported \ {t} \subseteq reported'
  PROVE  /\ Typed' /\ Settled'
         /\ mem'[t] = Last(recs) /\ \A u \in Tasks \ {t} : mem'[u] = mem[u]
         /\ \A i \in 1 .. Len(chain') :
              chain'[i].task = t /\ \E j \in 1 .. Len(recs) : chain'[i].rec = recs[j]
<1>1. Len(recs) \in Nat /\ Len(recs) > 0 /\ Last(recs) \in Rec /\ Last(recs) = recs[Len(recs)]
  BY DEF Last
<1>2. mem' \in [Tasks -> Rec] /\ mem'[t] = Last(recs) /\ \A u \in Tasks \ {t} : mem'[u] = mem[u]
  BY <1>1 DEF Move, RowInv, Typed
<1>3. chain' = Snapshots(t, recs)
  BY SnapshotsFacts DEF Move, Quiet
<1>4. Typed'
  BY <1>2, <1>3, SnapshotsFacts DEF Typed
<1>5. CASE phase = "cleaned"
  <2>1. chain' = <<>>
    BY <1>3, <1>5, SnapshotsFacts
  <2> QED
    BY <1>2, <1>4, <1>5, <2>1 DEF Settled
<1>6. CASE phase # "cleaned"
  <2>1. Len(chain') = Len(recs)
    BY <1>3, <1>6, SnapshotsFacts
  <2>2. ASSUME NEW i \in 1 .. Len(recs) PROVE chain'[i].task = t /\ chain'[i].rec = recs[i]
    <3>1. chain'[i] = [task |-> t, rec |-> recs[i]]
      BY <1>3, <1>6, SnapshotsFacts
    <3> QED
      BY <3>1
  <2>3. ChainEnds'
    BY <1>1, <1>2, <2>1, <2>2 DEF ChainEnds
  <2>4. ASSUME phase' \in {"up", "closing"} PROVE RowFollows'
    <3>1. chain'[1].task = t /\ 1 \in 1 .. Len(chain')
      BY <1>1, <2>1, <2>2
    <3>2. RowFollows /\ Len(chain) = 0
      BY <2>4 DEF RowInv, Settled, Quiet
    <3> QED
      <4> SUFFICES ASSUME NEW u \in Tasks \ lost'
                   PROVE  OnFile(u)' \/ \E i \in 1 .. Len(chain') : chain'[i].task = u
        BY DEF RowFollows
      <4>1. CASE u = t
        BY <3>1, <4>1
      <4>2. CASE u # t
        <5>1. /\ OnFile(u) /\ row'[u] = row[u] /\ mem'[u] = mem[u]
              /\ u \in reported => u \in reported'
          BY <1>2, <3>2, <4>2 DEF RowFollows
        <5> QED
          BY <5>1 DEF OnFile
      <4> QED
        BY <4>1, <4>2
  <2> QED
    BY <1>2, <1>4, <2>1, <2>2, <2>3, <2>4 DEF Settled
<1> QED
  BY <1>5, <1>6

(* A direct save writes one row, or leaves it and the task is lost.          *)
LEMMA SaveFacts ==
  ASSUME Typed, NEW t \in Tasks, NEW rec \in Rec, SaveDone(t, rec) \/ SaveThrows(t)
  PROVE  /\ row' \in [Tasks -> Rec]
         /\ \A u \in Tasks \ {t} : row'[u] = row[u] /\ (u \in lost' <=> u \in lost)
         /\ (row'[t] = rec /\ t \notin lost') \/ (row'[t] = row[t] /\ t \in lost')
<1>1. CASE SaveDone(t, rec)
  BY <1>1 DEF SaveDone, Typed
<1>2. CASE SaveThrows(t)
  BY <1>2 DEF SaveThrows, Typed
<1> QED
  BY <1>1, <1>2

LEMMA PausedStays ==
  ASSUME RowInv, Quiet, NEW t \in Tasks
  PROVE  /\ cont = {} /\ Len(chain) = 0 /\ \A i \in 1 .. Len(chain) : FALSE
         /\ t \in held => mem[t].state = "PAUSED" /\ Restored(row[t].state) = "PAUSED"
  BY DEF RowInv, PauseKept, Kept, Quiet

(* A task that is not held moves.                                            *)
LEMMA MoveInv ==
  ASSUME RowInv, Quiet, UNCHANGED phase, NEW t \in Tasks, NEW recs \in Seq(Rec), recs # <<>>,
         Move(t, recs), row' \in [Tasks -> Rec],
         \A u \in Tasks \ {t} : row'[u] = row[u] /\ (u \in lost' <=> u \in lost),
         reported \ {t} \subseteq reported', held' \subseteq held, t \notin held',
         cont' \subseteq Call, \A call \in cont' : call.kind # "pause"
  PROVE  RowInv'
<1>1. /\ Typed' /\ Settled' /\ \A u \in Tasks \ {t} : mem'[u] = mem[u]
      /\ \A i \in 1 .. Len(chain') : chain'[i].task = t
  BY MoveSettles
<1>2. ASSUME NEW u \in held' PROVE Kept(u)'
  <2>1. u \in Tasks \ {t} /\ u \in held /\ Kept(u)
    BY <1>2 DEF RowInv, PauseKept
  <2> QED
    BY <1>1, <2>1 DEF Kept, Alive
<1> QED
  BY <1>1, <1>2 DEF RowInv, PauseKept

LEMMA MarkedKinds ==
  ASSUME NEW t \in Tasks, NEW k \in {"run", "pause", "resume"}
  PROVE  {[task |-> t, kind |-> k]} \subseteq Call
  BY DEF Call

LEMMA PathFacts ==
  ASSUME NEW rec \in Rec
  PROVE  /\ \A s \in TaskState \cup {"ABSENT"} :
              /\ Through(rec, <<s>>) \in Seq(Rec) /\ Through(rec, <<s>>) # <<>>
              /\ Len(Through(rec, <<s>>)) = 1 /\ Through(rec, <<s>>)[1].state = s
              /\ Through(rec, <<s>>)[1] = [rec EXCEPT !.state = s]
         /\ \A r, s \in TaskState \cup {"ABSENT"} :
              Through(rec, <<r, s>>) \in Seq(Rec) /\ Through(rec, <<r, s>>) # <<>>
<1>1. ASSUME NEW s \in TaskState \cup {"ABSENT"}
      PROVE  /\ Through(rec, <<s>>) \in Seq(Rec) /\ Through(rec, <<s>>) # <<>>
             /\ Len(Through(rec, <<s>>)) = 1 /\ Through(rec, <<s>>)[1].state = s
             /\ Through(rec, <<s>>)[1] = [rec EXCEPT !.state = s]
  <2>1. <<s>> \in Seq(TaskState \cup {"ABSENT"}) /\ Len(<<s>>) = 1 /\ <<s>>[1] = s
    OBVIOUS
  <2> DEFINE path == <<s>>
             recs == Through(rec, path)
  <2>2. recs[1] = [rec EXCEPT !.state = s]
    BY <2>1 DEF Through
  <2> HIDE DEF path
  <2>3. path \in Seq(TaskState \cup {"ABSENT"}) /\ Len(path) = 1 /\ path[1] = s
    BY <2>1 DEF path
  <2>4. recs \in Seq(Rec) /\ Len(recs) = 1 /\ recs[1].state = s
    BY <2>3, ThroughFacts
  <2> HIDE DEF recs
  <2>5. recs # <<>>
    BY <2>4
  <2> QED
    BY <2>2, <2>4, <2>5 DEF recs, path
<1>2. ASSUME NEW r \in TaskState \cup {"ABSENT"}, NEW s \in TaskState \cup {"ABSENT"}
      PROVE  Through(rec, <<r, s>>) \in Seq(Rec) /\ Through(rec, <<r, s>>) # <<>>
  <2>1. <<r, s>> \in Seq(TaskState \cup {"ABSENT"}) /\ Len(<<r, s>>) = 2
    OBVIOUS
  <2> DEFINE path == <<r, s>>
             recs == Through(rec, path)
  <2> HIDE DEF path
  <2>2. recs \in Seq(Rec) /\ Len(recs) = 2
    BY <2>1, ThroughFacts DEF path
  <2> HIDE DEF recs
  <2>3. recs # <<>>
    <3>1. Len(<<>>) = 0 /\ 2 # 0
      OBVIOUS
    <3> QED
      BY <2>2, <3>1, Zenon
  <2> QED
    BY <2>2, <2>3 DEF recs, path
<1> QED
  BY <1>1, <1>2

LEMMA AbsentRec == Absent \in Rec
  BY PersistenceAssumption DEF Absent, Rec

LEMMA CreateStep == ASSUME RowInv, NEW t \in Tasks, CreateTask(t) PROVE RowInv'
<1> DEFINE recs == Through(Absent, <<"CREATED", "QUEUED">>)
<1>1. recs \in Seq(Rec) /\ recs # <<>>
  BY AbsentRec, PathFacts DEF TaskState
<1>2. /\ Quiet /\ mem[t].state = "ABSENT" /\ Move(t, recs)
      /\ UNCHANGED <<phase, row, cont, held, lost, reported>>
  BY DEF CreateTask, sched, ghosts
<1>3. cont = {} /\ t \notin held /\ row' \in [Tasks -> Rec]
  BY <1>2, PausedStays DEF RowInv, Typed
<1> HIDE DEF recs
<1> QED
  BY <1>1, <1>2, <1>3, MoveInv

LEMMA StartStep == ASSUME RowInv, NEW t \in Tasks, StartTask(t) PROVE RowInv'
<1>1. Quiet /\ mem[t].state = "QUEUED" /\ UNCHANGED <<phase, row, cont, held, lost, reported>>
  BY DEF StartTask
<1>2. cont = {} /\ t \notin held /\ row' \in [Tasks -> Rec] /\ mem[t] \in Rec
  BY <1>1, PausedStays DEF RowInv, Typed
<1>3. CASE UNCHANGED <<mem, chain>>
  BY <1>1, <1>3 DEF RowInv, Typed, Settled, ChainEnds, RowFollows, OnFile, PauseKept, Kept, Alive
<1>4. CASE Move(t, Begun(mem[t]))
  <2>1. Begun(mem[t]) \in Seq(Rec) /\ Begun(mem[t]) # <<>>
    BY <1>2, PathFacts DEF Begun, TaskState
  <2> QED
    BY <1>1, <1>2, <1>4, <2>1, MoveInv
<1> QED
  BY <1>3, <1>4 DEF StartTask

LEMMA PauseStep == ASSUME RowInv, NEW t \in Tasks, PauseTask(t) PROVE RowInv'
<1> DEFINE recs == Through(mem[t], <<"PAUSED">>)
           rec == [mem[t] EXCEPT !.state = "PAUSED"]
<1>1. Quiet /\ Move(t, recs) /\ UNCHANGED <<phase, held, reported>>
  BY DEF PauseTask
<1>2. mem[t] \in Rec /\ "PAUSED" \in TaskState
  BY DEF RowInv, Typed, TaskState
<1>3. recs \in Seq(Rec) /\ recs # <<>> /\ Len(recs) = 1 /\ recs[1].state = "PAUSED"
      /\ recs[1] = rec /\ rec \in Rec
  BY <1>2, PathFacts, RecFacts
<1>4. \/ SaveDone(t, rec) /\ cont' = {[task |-> t, kind |-> "pause"]}
      \/ SaveThrows(t) /\ cont' = {}
  BY PausedStays DEF PauseTask
<1>5. /\ row' \in [Tasks -> Rec]
      /\ \A u \in Tasks \ {t} : row'[u] = row[u] /\ (u \in lost' <=> u \in lost)
  BY <1>3, <1>4, SaveFacts DEF RowInv
<1> HIDE DEF recs
<1>6. /\ Typed' /\ Settled'
      /\ mem'[t] = Last(recs) /\ \A u \in Tasks \ {t} : mem'[u] = mem[u]
      /\ \A i \in 1 .. Len(chain') :
           chain'[i].task = t /\ \E j \in 1 .. Len(recs) : chain'[i].rec = recs[j]
  BY <1>1, <1>3, <1>5, MoveSettles
<1>7. mem'[t].state = "PAUSED" /\ \A i \in 1 .. Len(chain') : chain'[i].rec.state = "PAUSED"
  <2>1. Last(recs) = recs[1] /\ \A j \in 1 .. Len(recs) : j = 1
    BY <1>3 DEF Last
  <2>2. recs[1].state = "PAUSED"
    BY <1>3
  <2> QED
    BY <1>6, <2>1, <2>2
<1>8. ASSUME NEW u \in held PROVE Kept(u)'
  <2>1. Kept(u) /\ Quiet /\ u \in Tasks
    BY <1>1 DEF RowInv, PauseKept
  <2>2. u # t
    BY <2>1 DEF Kept, Quiet, PauseTask, CanTransition, Transitions, TaskState
  <2> QED
    BY <1>1, <1>5, <1>6, <2>1, <2>2 DEF Kept, Alive
<1>9. ASSUME SaveDone(t, rec) PROVE Kept(t)'
  <2>1. row'[t] = rec /\ rec.state = "PAUSED"
    BY <1>2, <1>3, <1>9, RecFacts DEF SaveDone, RowInv, Typed
  <2> QED
    BY <1>7, <2>1, RestoredPaused DEF Kept
<1>10. cont' \subseteq Call /\ \A call \in cont' : SaveDone(t, rec) /\ call.task = t
  <2>1. {[task |-> t, kind |-> "pause"]} \subseteq Call
    BY MarkedKinds
  <2>2. [task |-> t, kind |-> "pause"].task = t
    OBVIOUS
  <2> HIDE DEF rec
  <2> QED
    BY <1>4, <2>1, <2>2
<1> QED
  BY <1>1, <1>6, <1>8, <1>9, <1>10 DEF RowInv, PauseKept

LEMMA ResumeStep == ASSUME RowInv, NEW t \in Tasks, ResumeTask(t) PROVE RowInv'
<1> DEFINE recs == Through(mem[t], <<"QUEUED">>)
           rec == [mem[t] EXCEPT !.state = "QUEUED"]
<1>1. Quiet /\ Move(t, recs) /\ UNCHANGED <<phase, reported>> /\ held' = held \ {t}
  BY DEF ResumeTask, sched
<1>2. mem[t] \in Rec /\ "QUEUED" \in TaskState
  BY DEF RowInv, Typed, TaskState
<1>3. recs \in Seq(Rec) /\ recs # <<>> /\ rec \in Rec
  BY <1>2, PathFacts, RecFacts
<1>4. \/ SaveDone(t, rec) /\ cont' = {[task |-> t, kind |-> "resume"]}
      \/ SaveThrows(t) /\ cont' = {}
  BY PausedStays DEF ResumeTask
<1>5. /\ row' \in [Tasks -> Rec]
      /\ \A u \in Tasks \ {t} : row'[u] = row[u] /\ (u \in lost' <=> u \in lost)
  BY <1>3, <1>4, SaveFacts DEF RowInv
<1>6. cont' \subseteq Call /\ \A call \in cont' : call.kind # "pause"
  <2>1. {[task |-> t, kind |-> "resume"]} \subseteq Call
    BY MarkedKinds
  <2>2. [task |-> t, kind |-> "resume"].kind = "resume"
    OBVIOUS
  <2> QED
    BY <1>4, <2>1, <2>2
<1> HIDE DEF recs, rec
<1> QED
  BY <1>1, <1>3, <1>5, <1>6, MoveInv

LEMMA CancelStep == ASSUME RowInv, NEW t \in Tasks, CancelTask(t) PROVE RowInv'
<1> DEFINE recs == Through(mem[t], <<"CANCELLED">>)
<1>1. Quiet /\ Move(t, recs) /\ UNCHANGED <<phase, row, lost, cont, reported>> /\ held' = held \ {t}
  BY DEF CancelTask
<1>2. mem[t] \in Rec /\ "CANCELLED" \in TaskState /\ cont = {} /\ row' \in [Tasks -> Rec]
  BY <1>1, PausedStays DEF RowInv, Typed, TaskState
<1>3. recs \in Seq(Rec) /\ recs # <<>>
  BY <1>2, PathFacts
<1> HIDE DEF recs
<1> QED
  BY <1>1, <1>2, <1>3, MoveInv

LEMMA ToldFacts ==
  ASSUME NEW rec \in Rec, NEW block \in BOOLEAN
  PROVE  /\ [rec EXCEPT !.blocked = @ \/ block] \in Rec
         /\ [rec EXCEPT !.blocked = @ \/ block].state = rec.state
         /\ ~block => [rec EXCEPT !.blocked = @ \/ block] = rec
         /\ [[rec EXCEPT !.blocked = @ \/ block] EXCEPT !.blocked = FALSE]
              = [rec EXCEPT !.blocked = FALSE]
         /\ rec.blocked \/ [rec EXCEPT !.blocked = FALSE] = rec
         /\ rec.blocked => [rec EXCEPT !.blocked = @ \/ block] = rec
<1>1. PICK b \in BOOLEAN : b = (rec.blocked \/ block)
  OBVIOUS
<1>2. [rec EXCEPT !.blocked = @ \/ block] = [rec EXCEPT !.blocked = b]
  BY <1>1, Zenon
<1>3. rec.blocked \in BOOLEAN /\ (b <=> rec.blocked \/ block)
  BY <1>1 DEF Rec
<1>4. /\ [rec EXCEPT !.blocked = b] \in Rec /\ [rec EXCEPT !.blocked = b].state = rec.state
      /\ [[rec EXCEPT !.blocked = b] EXCEPT !.blocked = FALSE] = [rec EXCEPT !.blocked = FALSE]
      /\ [rec EXCEPT !.blocked = rec.blocked] = rec
  BY DEF Rec
<1>5. /\ ~block => b = rec.blocked
      /\ rec.blocked => b = rec.blocked
      /\ ~rec.blocked => rec.blocked = FALSE
  BY <1>3
<1> QED
  BY <1>2, <1>4, <1>5

(* An update of a worker: either it moves the task, and the snapshot carries *)
(* the block too, or it changes the block alone, and the row lags by it.     *)
LEMMA ProgressStep ==
  ASSUME RowInv, NEW t \in Tasks, NEW block \in BOOLEAN, Progress(t, block)
  PROVE  RowInv'
<1> DEFINE told == [mem[t] EXCEPT !.blocked = @ \/ block]
<1>1. Quiet /\ UNCHANGED <<phase, row, lost, cont, held>>
  BY DEF Progress, ghosts
<1>2. mem[t] \in Rec /\ cont = {} /\ Len(chain) = 0 /\ row' \in [Tasks -> Rec]
  BY <1>1, PausedStays DEF RowInv, Typed
<1>3. reported' = IF block THEN reported \cup {t} ELSE reported
  BY DEF Progress
<1>4. told \in Rec /\ told.state = mem[t].state
  BY <1>2, ToldFacts
<1>5. \/ mem' = [mem EXCEPT ![t] = told] /\ chain' = chain
      \/ /\ told.state # "PAUSED"
         /\ \E s \in {"WAITING_QUEUE", "RUNNING"} : Move(t, Through(told, <<s>>))
  BY DEF Progress
<1>6. /\ ~block => told = mem[t]
      /\ [told EXCEPT !.blocked = FALSE] = [mem[t] EXCEPT !.blocked = FALSE]
      /\ told = mem[t] \/ [mem[t] EXCEPT !.blocked = FALSE] = mem[t]
  BY <1>2, ToldFacts
<1> HIDE DEF told
<1>7. CASE mem' = [mem EXCEPT ![t] = told] /\ chain' = chain
  <2>1. mem' \in [Tasks -> Rec] /\ mem'[t] = told /\ \A u \in Tasks \ {t} : mem'[u] = mem[u]
    BY <1>4, <1>7 DEF RowInv, Typed
  <2>2. Typed'
    BY <1>2, <1>7, <2>1 DEF RowInv, Typed
  <2>3. ASSUME phase \in {"up", "closing"} PROVE RowFollows'
    <3> SUFFICES ASSUME NEW u \in Tasks \ lost PROVE OnFile(u)'
      BY <1>1 DEF RowFollows
    <3>1. OnFile(u)
      BY <1>2, <2>3 DEF RowInv, Settled, RowFollows
    <3>2. CASE u # t
      BY <1>1, <1>3, <2>1, <3>1, <3>2 DEF OnFile
    <3>3. CASE u = t /\ block
      <4>1. row[t] = mem[t] \/ row[t] = [mem[t] EXCEPT !.blocked = FALSE]
        BY <3>1, <3>3 DEF OnFile
      <4>2. row[t] = told \/ row[t] = [told EXCEPT !.blocked = FALSE]
        BY <1>6, <4>1
      <4> QED
        BY <1>1, <1>3, <2>1, <3>3, <4>2 DEF OnFile
    <3>4. CASE u = t /\ ~block
      BY <1>1, <1>3, <1>6, <2>1, <3>1, <3>4 DEF OnFile
    <3> QED
      BY <3>2, <3>3, <3>4
  <2>4. Settled'
    BY <1>1, <1>2, <1>7, <2>3 DEF Settled, ChainEnds
  <2>5. ASSUME NEW u \in held PROVE Kept(u)'
    <3>1. u \in Tasks /\ mem[u].state = "PAUSED" /\ Restored(row[u].state) = "PAUSED"
      BY <1>1, PausedStays DEF RowInv
    <3> QED
      BY <1>1, <1>2, <1>4, <1>7, <2>1, <3>1 DEF Kept
  <2> QED
    BY <1>1, <1>2, <2>2, <2>4, <2>5 DEF RowInv, PauseKept
<1>8. ASSUME told.state # "PAUSED", NEW s \in {"WAITING_QUEUE", "RUNNING"},
             Move(t, Through(told, <<s>>))
      PROVE  RowInv'
  <2>1. Through(told, <<s>>) \in Seq(Rec) /\ Through(told, <<s>>) # <<>>
    BY <1>4, PathFacts DEF TaskState
  <2>2. t \notin held
    BY <1>1, <1>4, <1>8, PausedStays
  <2> QED
    BY <1>1, <1>2, <1>3, <1>8, <2>1, <2>2, MoveInv
<1> QED
  BY <1>5, <1>7, <1>8

LEMMA RunSaveFacts ==
  ASSUME Typed, NEW t \in Tasks, NEW rec \in Rec, SaveRun(t, rec)
  PROVE  /\ row' \in [Tasks -> Rec]
         /\ \A u \in Tasks \ {t} : row'[u] = row[u] /\ (u \in lost' <=> u \in lost)
         /\ (row'[t] = rec /\ t \notin lost') \/ (row'[t] = row[t] /\ t \in lost')
         /\ cont' \subseteq Call /\ \A call \in cont' : call.kind # "pause"
<1>1. {[task |-> t, kind |-> "run"]} \subseteq Call
  BY MarkedKinds
<1>2. [task |-> t, kind |-> "run"].kind = "run"
  OBVIOUS
<1>3. (SaveDone(t, rec) \/ SaveThrows(t)) /\ cont' = {[task |-> t, kind |-> "run"]}
  BY DEF SaveRun
<1> QED
  BY <1>1, <1>2, <1>3, SaveFacts

(* A run ends without a move of its task, and the task is saved.             *)
LEMMA SavedRunStep ==
  ASSUME RowInv, NEW t \in Tasks, Quiet, UNCHANGED <<phase, mem, chain, held>>,
         reported' = reported \ {t}, SaveRun(t, mem[t])
  PROVE  RowInv'
<1>1. mem[t] \in Rec /\ Len(chain) = 0
  BY PausedStays DEF RowInv, Typed
<1>2. /\ row' \in [Tasks -> Rec]
      /\ \A u \in Tasks \ {t} : row'[u] = row[u] /\ (u \in lost' <=> u \in lost)
      /\ (row'[t] = mem[t] /\ t \notin lost') \/ (row'[t] = row[t] /\ t \in lost')
      /\ cont' \subseteq Call /\ \A call \in cont' : call.kind # "pause"
  BY <1>1, RunSaveFacts DEF RowInv
<1>3. Typed'
  BY <1>2 DEF RowInv, Typed
<1>4. Settled'
  BY <1>1, <1>2 DEF RowInv, Settled, ChainEnds, RowFollows, OnFile
<1>5. ASSUME NEW u \in held PROVE Kept(u)'
  <2>1. u \in Tasks /\ mem[u].state = "PAUSED" /\ Restored(row[u].state) = "PAUSED"
    BY PausedStays DEF RowInv
  <2>2. Restored(row'[u].state) = "PAUSED"
    BY <1>2, <2>1, RestoredPaused
  <2> QED
    BY <1>1, <2>1, <2>2 DEF Kept
<1> QED
  BY <1>2, <1>3, <1>4, <1>5 DEF RowInv, PauseKept

LEMMA InterruptedStep == ASSUME RowInv, NEW t \in Tasks, ReturnInterrupted(t) PROVE RowInv'
<1>1. Quiet /\ UNCHANGED <<phase, mem, chain, held>> /\ reported' = reported \ {t}
  BY DEF ReturnInterrupted
<1>2. SaveRun(t, mem[t])
  BY DEF ReturnInterrupted
<1> QED
  BY <1>1, <1>2, SavedRunStep

LEMMA SuccessStep ==
  ASSUME RowInv, NEW t \in Tasks, ReturnSuccess(t)
  PROVE  RowInv'
<1> DEFINE path == IF CanTransition(mem[t].state, "CHECKOUT") THEN <<"CHECKOUT", "SUCCESS">>
                                                        ELSE <<"SUCCESS">>
           recs == Through(mem[t], path)
           rec == [mem[t] EXCEPT !.state = "SUCCESS"]
<1>1. Quiet /\ Move(t, recs) /\ SaveRun(t, rec) /\ UNCHANGED <<phase, held, reported>>
  BY DEF ReturnSuccess, sched
<1>2. mem[t] \in Rec /\ {"CHECKOUT", "SUCCESS"} \subseteq TaskState
  BY DEF RowInv, Typed, TaskState
<1>3. t \notin held
  BY <1>1, PausedStays DEF ReturnSuccess, CanComplete, CanTransition, Transitions
<1>4. recs \in Seq(Rec) /\ recs # <<>>
  <2>1. CASE CanTransition(mem[t].state, "CHECKOUT")
    BY <1>2, <2>1, PathFacts
  <2>2. CASE ~CanTransition(mem[t].state, "CHECKOUT")
    BY <1>2, <2>2, PathFacts
  <2> QED
    BY <2>1, <2>2
<1>5. rec \in Rec
  BY <1>2, RecFacts
<1> HIDE DEF recs, rec
<1>6. /\ row' \in [Tasks -> Rec]
      /\ \A u \in Tasks \ {t} : row'[u] = row[u] /\ (u \in lost' <=> u \in lost)
      /\ cont' \subseteq Call /\ \A call \in cont' : call.kind # "pause"
  BY <1>1, <1>5, RunSaveFacts DEF RowInv
<1> QED
  BY <1>1, <1>3, <1>4, <1>6, MoveInv

LEMMA FailedFacts ==
  ASSUME NEW rec \in Rec
  PROVE  [rec EXCEPT !.state = "FAILED"] \in Rec
  BY DEF Rec, TaskState

LEMMA RetryFacts ==
  ASSUME NEW rec \in Rec, rec.retries < MaxRetries
  PROVE  [rec EXCEPT !.state = "RETRYING", !.retries = @ + 1] \in Rec
<1>1. rec.retries + 1 \in 0 .. MaxRetries
  BY PersistenceAssumption DEF Rec
<1> QED
  BY <1>1 DEF Rec, TaskState

LEMMA FailureStep == ASSUME RowInv, NEW t \in Tasks, ReturnFailure(t) PROVE RowInv'
<1> DEFINE failed == [mem[t] EXCEPT !.state = "FAILED"]
           retry == [failed EXCEPT !.state = "RETRYING", !.retries = @ + 1]
<1>1. Quiet /\ UNCHANGED <<phase, held>> /\ reported' = reported \ {t}
  BY DEF ReturnFailure
<1>2. mem[t] \in Rec
  BY DEF RowInv, Typed
<1>3. t \notin held
  BY <1>1, PausedStays DEF ReturnFailure, CanTransition, Transitions, Exits
<1>4. failed \in Rec
  BY <1>2, FailedFacts
<1>5. \/ /\ failed.retries < MaxRetries
         /\ Move(t, <<failed, retry>>) /\ SaveRun(t, retry)
      \/ Move(t, <<failed>>) /\ SaveRun(t, failed)
  BY DEF ReturnFailure
<1> HIDE DEF failed
<1>6. failed.retries < MaxRetries => retry \in Rec
  BY <1>4, RetryFacts
<1> HIDE DEF retry
<1>7. CASE failed.retries < MaxRetries /\ Move(t, <<failed, retry>>) /\ SaveRun(t, retry)
  <2>1. <<failed, retry>> \in Seq(Rec) /\ <<failed, retry>> # <<>>
    BY <1>4, <1>6, <1>7
  <2> QED
    BY <1>1, <1>3, <1>6, <1>7, <2>1, MoveInv, RunSaveFacts DEF RowInv
<1>8. CASE Move(t, <<failed>>) /\ SaveRun(t, failed)
  <2>1. <<failed>> \in Seq(Rec) /\ <<failed>> # <<>>
    BY <1>4
  <2> QED
    BY <1>1, <1>3, <1>4, <1>8, <2>1, MoveInv, RunSaveFacts DEF RowInv
<1> QED
  BY <1>5, <1>7, <1>8

(* Nothing is saved of a run that reported a block and cannot be booked; but *)
(* while the rows matter, such a run can always be booked as failed.         *)
LEMMA RefusedStep ==
  ASSUME RowInv, BusyInv, NEW t \in Tasks, ReturnRefused(t)
  PROVE  RowInv'
<1>1. Quiet /\ UNCHANGED <<phase, mem, chain, held>> /\ reported' = reported \ {t}
  BY DEF ReturnRefused
<1>2. mem[t] \in Rec /\ cont = {} /\ Len(chain) = 0
  BY <1>1, PausedStays DEF RowInv, Typed
<1>3. CASE /\ t \notin reported \/ ~CanTransition(mem[t].state, "FAILED")
           /\ UNCHANGED <<row, lost>> /\ cont' = {[task |-> t, kind |-> "run"]}
  <2>1. cont' \subseteq Call /\ \A call \in cont' : call.kind # "pause"
    <3>1. {[task |-> t, kind |-> "run"]} \subseteq Call
      BY MarkedKinds
    <3>2. [task |-> t, kind |-> "run"].kind = "run"
      OBVIOUS
    <3> QED
      BY <1>3, <3>1, <3>2
  <2>2. ASSUME phase \in {"up", "closing"} PROVE t \notin reported
    BY <1>2, <1>3, <2>2
       DEF ReturnRefused, BusyInv, Out, Interrupted, CanTransition, Transitions, Exits, RunningLike,
           TaskState
  <2>3. Settled'
    BY <1>1, <1>2, <1>3, <2>2 DEF RowInv, Settled, ChainEnds, RowFollows, OnFile
  <2> QED
    BY <1>1, <1>3, <2>1, <2>3 DEF RowInv, Typed, PauseKept, Kept, Alive
<1>4. CASE SaveRun(t, mem[t])
  BY <1>1, <1>4, SavedRunStep
<1> QED
  BY <1>3, <1>4 DEF ReturnRefused

LEMMA ConcatFacts ==
  ASSUME NEW S, NEW a \in Seq(S), a # <<>>, NEW b \in Seq(S)
  PROVE  a \o b \in Seq(S) /\ a \o b # <<>>
<1>1. a \o b \in Seq(S) /\ Len(a \o b) = Len(a) + Len(b) /\ Len(a) \in Nat /\ Len(b) \in Nat
  OBVIOUS
<1>2. Len(a) > 0
  OBVIOUS
<1>3. Len(a \o b) > 0
  BY <1>1, <1>2
<1>4. Len(<<>>) = 0 /\ ~(0 > 0)
  OBVIOUS
<1> QED
  BY <1>1, <1>3, <1>4, Zenon

LEMMA LastJoined ==
  ASSUME NEW a \in Seq(Rec), NEW b \in Seq(Rec)
  PROVE  Len(b) = 2 => Last(a \o b) = Last(b)
<1>1. /\ Len(a) \in Nat /\ Len(b) \in Nat /\ Len(a \o b) = Len(a) + Len(b)
      /\ \A i \in 1 .. Len(b) : (a \o b)[Len(a) + i] = b[i]
  OBVIOUS
<1>2. Len(b) = 2 => (a \o b)[Len(a \o b)] = b[Len(b)]
  BY <1>1
<1> QED
  BY <1>2 DEF Last

LEMMA RetryStep == ASSUME RowInv, NEW t \in Tasks, RetryFires(t) PROVE RowInv'
<1> DEFINE recs == Through(mem[t], <<"QUEUED">>)
<1>1. Quiet /\ UNCHANGED <<phase, row, lost, cont, held, reported>>
  BY DEF RetryFires, ghosts
<1>2. mem[t] \in Rec /\ cont = {} /\ row' \in [Tasks -> Rec]
  BY <1>1, PausedStays DEF RowInv, Typed
<1>3. CASE UNCHANGED <<mem, chain>>
  BY <1>1, <1>3 DEF RowInv, Typed, Settled, ChainEnds, RowFollows, OnFile, PauseKept, Kept, Alive
<1>4. CASE mem[t].state = "RETRYING" /\ BeginOrWait(t, recs)
  <2>1. recs \in Seq(Rec) /\ recs # <<>> /\ Last(recs) \in Rec
    <3>1. recs \in Seq(Rec) /\ recs # <<>> /\ Len(recs) = 1
      BY <1>2, PathFacts DEF TaskState
    <3> HIDE DEF recs
    <3> QED
      BY <3>1 DEF Last
  <2>2. Begun(Last(recs)) \in Seq(Rec)
    BY <2>1, BegunFacts
  <2>3. t \notin held
    BY <1>1, <1>4, PausedStays
  <2>4. \/ Move(t, recs \o Begun(Last(recs)))
        \/ Move(t, recs)
    BY <1>4 DEF BeginOrWait
  <2> HIDE DEF recs
  <2>5. recs \o Begun(Last(recs)) \in Seq(Rec) /\ recs \o Begun(Last(recs)) # <<>>
    BY <2>1, <2>2, ConcatFacts
  <2> QED
    BY <1>1, <1>2, <2>1, <2>3, <2>4, <2>5, MoveInv
<1> QED
  BY <1>3, <1>4 DEF RetryFires

(* What drainQueue does to tasks and chain: the begun tasks were QUEUED, and *)
(* their last snapshots are what they are now.                               *)
LEMMA DrainFacts ==
  ASSUME Typed, IsFiniteSet(Tasks), NEW queue \in SUBSET Tasks, NEW calls,
         Drain(mem, queue, calls)
  PROVE  \E S \in SUBSET Tasks, b \in Seq(Snapshot) :
           /\ mem' \in [Tasks -> Rec] /\ \A t \in Tasks \ S : mem'[t] = mem[t]
           /\ \A t \in S : mem[t].state = "QUEUED"
           /\ chain' = IF phase = "cleaned" THEN chain ELSE chain \o b
           /\ \A i \in 1 .. Len(b) :
                /\ b[i].task \in S
                /\ \/ b[i].rec = mem'[b[i].task]
                   \/ \E j \in i + 1 .. Len(b) : b[j].task = b[i].task
           /\ \A t \in S : \E i \in 1 .. Len(b) : b[i].task = t
<1>1. PICK S \in SUBSET Startable(mem, queue, calls) :
        /\ mem' = [t \in Tasks |-> IF t \in S THEN Last(Begun(mem[t])) ELSE mem[t]]
        /\ chain' = IF phase = "cleaned" THEN chain ELSE chain \o Begins(mem, SetToSeq(S))
  BY DEF Drain
<1> DEFINE b == Begins(mem, SetToSeq(S))
<1>2. S \in SUBSET Tasks /\ \A t \in S : mem[t].state = "QUEUED"
  BY DEF Startable
<1>3. IsFiniteSet(S)
  BY <1>2, FS_Subset
<1>4. mem \in [Tasks -> Rec]
  BY DEF Typed
<1>5. /\ b \in Seq(Snapshot)
      /\ \A i \in 1 .. Len(b) :
           /\ b[i].task \in S
           /\ \/ b[i].rec = Last(Begun(mem[b[i].task]))
              \/ \E j \in i + 1 .. Len(b) : b[j].task = b[i].task
      /\ \A t \in S : \E i \in 1 .. Len(b) : b[i].task = t
  BY <1>2, <1>3, <1>4, BeginsFacts
<1>6. \A t \in Tasks : Last(Begun(mem[t])) \in Rec
  BY <1>4, BegunFacts
<1>7. mem' \in [Tasks -> Rec] /\ \A t \in Tasks \ S : mem'[t] = mem[t]
  BY <1>1, <1>4, <1>6
<1>8. \A t \in S : mem'[t] = Last(Begun(mem[t]))
  BY <1>1, <1>2
<1>9. chain' = IF phase = "cleaned" THEN chain ELSE chain \o b
  BY <1>1
<1> HIDE DEF b
<1>10. \A i \in 1 .. Len(b) :
         /\ b[i].task \in S
         /\ b[i].rec = mem'[b[i].task] \/ \E j \in i + 1 .. Len(b) : b[j].task = b[i].task
  BY <1>5, <1>8
<1> QED
  BY <1>2, <1>5, <1>7, <1>9, <1>10

LEMMA DrainStep ==
  ASSUME RowInv, IsFiniteSet(Tasks), Alive, UNCHANGED <<phase, row, lost, reported>>,
         NEW queue \in SUBSET Tasks, NEW calls, Drain(mem, queue, calls)
  PROVE  Typed' /\ Settled' /\ \A t \in Tasks : Kept(t) => Kept(t)'
<1>1. PICK S \in SUBSET Tasks, b \in Seq(Snapshot) :
        /\ mem' \in [Tasks -> Rec] /\ \A t \in Tasks \ S : mem'[t] = mem[t]
        /\ \A t \in S : mem[t].state = "QUEUED"
        /\ chain' = IF phase = "cleaned" THEN chain ELSE chain \o b
        /\ \A i \in 1 .. Len(b) :
             /\ b[i].task \in S
             /\ b[i].rec = mem'[b[i].task] \/ \E j \in i + 1 .. Len(b) : b[j].task = b[i].task
        /\ \A t \in S : \E i \in 1 .. Len(b) : b[i].task = t
  BY DrainFacts DEF RowInv
<1> DEFINE n == Len(chain)
<1>2. chain \in Seq(Snapshot) /\ n \in Nat /\ Len(b) \in Nat
      /\ \A i \in 1 .. n : chain[i].task \in Tasks
  <2>1. chain \in Seq(Snapshot)
    BY DEF RowInv, Typed
  <2>2. ASSUME NEW e \in Snapshot PROVE e.task \in Tasks
    BY DEF Snapshot
  <2> QED
    BY <2>1, <2>2
<1>3. Typed'
  BY <1>1, <1>2 DEF RowInv, Typed
<1>4. CASE phase = "cleaned"
  <2>1. chain' = chain /\ Settled'
    BY <1>1, <1>4 DEF Settled
  <2>2. ASSUME NEW t \in Tasks, Kept(t) PROVE Kept(t)'
    <3>1. t \notin S
      BY <1>1, <2>2 DEF Kept
    <3> QED
      BY <1>1, <2>1, <2>2, <3>1 DEF Kept, Alive
  <2> QED
    BY <1>3, <2>1, <2>2
<1>5. CASE phase # "cleaned"
  <2>1. chain' = chain \o b
    BY <1>1, <1>5
  <2>2. /\ Len(chain') = n + Len(b)
        /\ \A i \in 1 .. n : chain'[i] = chain[i]
        /\ \A i \in 1 .. Len(b) : chain'[n + i] = b[i]
    BY <1>2, <2>1
  <2>3. \A i \in 1 .. Len(chain') : i \in 1 .. n \/ (i - n \in 1 .. Len(b) /\ chain'[i] = b[i - n])
    BY <1>2, <2>2
  <2> HIDE DEF n
  <2>4. ASSUME NEW t \in S PROVE \E j \in n + 1 .. Len(chain') : chain'[j].task = t
    <3>1. PICK i \in 1 .. Len(b) : b[i].task = t
      BY <1>1
    <3>2. n + i \in n + 1 .. Len(chain')
      BY <1>2, <2>2
    <3> QED
      BY <2>2, <3>1, <3>2
  <2>5. ASSUME phase \in {"up", "closing"} PROVE ChainEnds'
    <3> SUFFICES ASSUME NEW i \in 1 .. Len(chain')
                 PROVE  \/ chain'[i].rec = mem'[chain'[i].task]
                        \/ \E j \in i + 1 .. Len(chain') : chain'[j].task = chain'[i].task
      BY DEF ChainEnds
    <3>1. CASE i \in 1 .. n /\ chain[i].task \in S
      <4>1. \A j \in n + 1 .. Len(chain') : j \in i + 1 .. Len(chain')
        BY <1>2, <2>2, <3>1
      <4> QED
        BY <2>2, <2>4, <3>1, <4>1
    <3>2. CASE i \in 1 .. n /\ chain[i].task \notin S
      <4>1. \/ chain[i].rec = mem[chain[i].task]
            \/ \E j \in i + 1 .. n : chain[j].task = chain[i].task
        BY <2>5, <3>2 DEF RowInv, Settled, ChainEnds, n
      <4>2. \A j \in i + 1 .. n : j \in 1 .. n /\ j \in i + 1 .. Len(chain')
        BY <1>2, <2>2, <3>2
      <4>3. mem'[chain[i].task] = mem[chain[i].task]
        BY <1>1, <1>2, <3>2
      <4> QED
        BY <2>2, <3>2, <4>1, <4>2, <4>3
    <3>3. CASE i - n \in 1 .. Len(b) /\ chain'[i] = b[i - n]
      <4>1. CASE b[i - n].rec = mem'[b[i - n].task]
        BY <3>3, <4>1
      <4>2. CASE \E j \in (i - n) + 1 .. Len(b) : b[j].task = b[i - n].task
        <5>1. PICK j \in (i - n) + 1 .. Len(b) : b[j].task = b[i - n].task
          BY <4>2
        <5>2. j \in 1 .. Len(b) /\ n + j \in i + 1 .. Len(chain')
          BY <1>2, <2>2, <3>3
        <5> QED
          BY <2>2, <3>3, <5>1, <5>2
      <4> QED
        BY <1>1, <3>3, <4>1, <4>2
    <3> QED
      BY <2>3, <3>1, <3>2, <3>3
  <2>6. ASSUME phase \in {"up", "closing"} PROVE RowFollows'
    <3> SUFFICES ASSUME NEW t \in Tasks \ lost
                 PROVE  OnFile(t)' \/ \E i \in 1 .. Len(chain') : chain'[i].task = t
      BY DEF RowFollows
    <3>1. CASE t \in S
      <4>1. n + 1 .. Len(chain') \subseteq 1 .. Len(chain')
        BY <1>2
      <4> QED
        BY <2>4, <3>1, <4>1
    <3>2. CASE t \notin S
      <4>1. OnFile(t) \/ \E i \in 1 .. n : chain[i].task = t
        BY <2>6 DEF RowInv, Settled, RowFollows, n
      <4>2. 1 .. n \subseteq 1 .. Len(chain')
        BY <1>2, <2>2
      <4> QED
        BY <1>1, <2>2, <3>2, <4>1, <4>2 DEF OnFile
    <3> QED
      BY <3>1, <3>2
  <2>7. ASSUME NEW t \in Tasks, Kept(t) PROVE Kept(t)'
    <3>1. t \notin S /\ mem[t].state = "PAUSED" /\ Restored(row[t].state) = "PAUSED"
      BY <1>1, <2>7 DEF Kept
    <3>2. ASSUME NEW i \in 1 .. Len(chain'), chain'[i].task = t PROVE chain'[i].rec.state = "PAUSED"
      <4>1. CASE i \in 1 .. n
        BY <2>2, <2>7, <3>2, <4>1 DEF Kept, n
      <4>2. CASE i - n \in 1 .. Len(b) /\ chain'[i] = b[i - n]
        BY <1>1, <3>1, <3>2, <4>2
      <4> QED
        BY <2>3, <4>1, <4>2
    <3> QED
      BY <1>1, <3>1, <3>2 DEF Kept
  <2> QED
    BY <1>3, <2>5, <2>6, <2>7 DEF Settled
<1> QED
  BY <1>4, <1>5

LEMMA ContinueStep ==
  ASSUME RowInv, AskedInv, IsFiniteSet(Tasks), Continue
  PROVE  RowInv'
<1>1. Alive /\ UNCHANGED <<phase, row, lost, reported>> /\ cont' = {}
  BY DEF Continue
<1>2. PICK call \in cont :
        \/ call.kind = "pause" /\ Drain(mem, pending, running) /\ held' = held \cup {call.task}
        \/ Drain(mem, pending \cup {call.task}, running) /\ held' = held
        \/ Drain(mem, pending, running \ {call.task}) /\ held' = held
  BY DEF Continue
<1>3. call.task \in Tasks /\ pending \in SUBSET Tasks /\ pending \cup {call.task} \in SUBSET Tasks
  BY DEF RowInv, AskedInv, Call
<1>4. Typed' /\ Settled' /\ \A t \in Tasks : Kept(t) => Kept(t)'
  <2>1. \E queue \in SUBSET Tasks : \E calls : Drain(mem, queue, calls)
    BY <1>2, <1>3
  <2> QED
    BY <1>1, <2>1, DrainStep
<1>5. held' \subseteq Tasks /\ \A t \in held' : Kept(t)
  BY <1>2, <1>3 DEF RowInv, PauseKept
<1> QED
  BY <1>1, <1>4, <1>5 DEF RowInv, PauseKept

(* The oldest snapshot is written, or its task is lost.                      *)
LEMMA WriteStep == ASSUME RowInv, WriteNext PROVE RowInv'
<1> DEFINE e == Head(chain)
           n == Len(chain)
<1>1. Alive /\ chain # <<>> /\ chain' = Tail(chain) /\ UNCHANGED <<phase, mem, cont, held, reported>>
  BY DEF WriteNext, sched
<1>2. \/ row' = [row EXCEPT ![e.task] = e.rec] /\ lost' = lost \ {e.task}
      \/ row' = row /\ lost' = lost \cup {e.task}
  BY DEF WriteNext, RecordDone, RecordThrows
<1>3. /\ chain \in Seq(Snapshot) /\ row \in [Tasks -> Rec] /\ mem \in [Tasks -> Rec]
      /\ cont \subseteq Call /\ held \subseteq Tasks
  BY DEF RowInv, Typed
<1>4. /\ n \in Nat /\ n > 0 /\ e = chain[1] /\ e \in Snapshot /\ chain' \in Seq(Snapshot)
      /\ Len(chain') = n - 1 /\ \A i \in 1 .. n - 1 : chain'[i] = chain[i + 1]
  BY <1>1, <1>3
<1>5. e.task \in Tasks /\ e.rec \in Rec
  BY <1>4 DEF Snapshot
<1> HIDE DEF e, n
<1>6. row' \in [Tasks -> Rec] /\ \A t \in Tasks \ {e.task} : row'[t] = row[t] /\ (t \in lost' <=> t \in lost)
  BY <1>2, <1>3, <1>5
<1>7. Typed'
  BY <1>1, <1>3, <1>4, <1>6 DEF Typed
<1>8. ASSUME phase \in {"up", "closing"} PROVE ChainEnds' /\ RowFollows'
  <2>1. /\ \A i \in 1 .. n : \/ chain[i].rec = mem[chain[i].task]
                             \/ \E j \in i + 1 .. n : chain[j].task = chain[i].task
        /\ \A t \in Tasks \ lost : OnFile(t) \/ \E i \in 1 .. n : chain[i].task = t
    BY <1>8 DEF RowInv, Settled, ChainEnds, RowFollows, n
  <2>2. ChainEnds'
    <3> SUFFICES ASSUME NEW i \in 1 .. n - 1
                 PROVE  \/ chain'[i].rec = mem[chain'[i].task]
                        \/ \E j \in i + 1 .. n - 1 : chain'[j].task = chain'[i].task
      BY <1>1, <1>4 DEF ChainEnds
    <3>1. i + 1 \in 1 .. n /\ chain'[i] = chain[i + 1]
      BY <1>4
    <3>2. CASE \E j \in (i + 1) + 1 .. n : chain[j].task = chain[i + 1].task
      <4>1. PICK j \in (i + 1) + 1 .. n : chain[j].task = chain[i + 1].task
        BY <3>2
      <4>2. j - 1 \in i + 1 .. n - 1 /\ j - 1 \in 1 .. n - 1 /\ (j - 1) + 1 = j
        BY <1>4, <3>1
      <4> QED
        BY <1>4, <3>1, <4>1, <4>2
    <3> QED
      BY <2>1, <3>1, <3>2
  <2>3. ASSUME NEW t \in Tasks, NEW j \in 2 .. n, chain[j].task = t
        PROVE  \E i \in 1 .. n - 1 : chain'[i].task = t
    <3>1. j - 1 \in 1 .. n - 1 /\ (j - 1) + 1 = j
      BY <1>4
    <3> QED
      BY <1>4, <2>3, <3>1
  <2>4. ASSUME NEW t \in Tasks \ lost'
        PROVE  OnFile(t)' \/ \E i \in 1 .. n - 1 : chain'[i].task = t
    <3>1. CASE t = e.task
      <4>1. row'[t] = e.rec
        BY <1>2, <1>3, <2>4, <3>1
      <4>2. \/ e.rec = mem[e.task]
            \/ \E j \in 2 .. n : chain[j].task = e.task
        BY <1>4, <2>1
      <4> QED
        BY <1>1, <2>3, <3>1, <4>1, <4>2 DEF OnFile
    <3>2. CASE t # e.task
      <4>1. row'[t] = row[t] /\ t \notin lost
        BY <1>6, <2>4, <3>2
      <4>2. OnFile(t) \/ \E i \in 1 .. n : chain[i].task = t
        BY <2>1, <4>1
      <4>3. \A i \in 1 .. n : chain[i].task = t => i \in 2 .. n
        BY <1>4, <3>2
      <4> QED
        BY <1>1, <2>3, <4>1, <4>2, <4>3 DEF OnFile
    <3> QED
      BY <3>1, <3>2
  <2> QED
    BY <1>1, <1>4, <2>2, <2>4 DEF RowFollows
<1>9. ASSUME NEW t \in Tasks, Kept(t) PROVE Kept(t)'
  <2>1. /\ Restored(row[t].state) = "PAUSED" /\ mem[t].state = "PAUSED"
        /\ \A i \in 1 .. n : chain[i].task = t => chain[i].rec.state = "PAUSED"
    BY <1>1, <1>9 DEF Kept, n
  <2>2. Restored(row'[t].state) = "PAUSED"
    <3>1. t = e.task => e.rec.state = "PAUSED"
      BY <1>4, <2>1
    <3>2. CASE t = e.task
      BY <1>2, <1>3, <2>1, <3>1, <3>2, RestoredPaused
    <3>3. CASE t # e.task
      BY <1>6, <2>1, <3>3
    <3> QED
      BY <3>2, <3>3
  <2>3. \A i \in 1 .. n - 1 : chain'[i].task = t => chain'[i].rec.state = "PAUSED"
    <3>1. \A i \in 1 .. n - 1 : i + 1 \in 1 .. n
      BY <1>4
    <3> QED
      BY <1>4, <2>1, <3>1
  <2> QED
    BY <1>1, <1>4, <2>1, <2>2, <2>3 DEF Kept
<1>10. \A call \in cont : call.task \in Tasks
  BY <1>3 DEF Call
<1> QED
  BY <1>1, <1>3, <1>7, <1>8, <1>9, <1>10 DEF RowInv, PauseKept, Settled

LEMMA ReloadFacts ==
  ASSUME NEW rec \in Rec
  PROVE  Reload(rec) \in Rec /\ Reload(rec).state = Restored(rec.state)
<1>1. rec.state \in TaskState \cup {"ABSENT"}
  BY DEF Rec
<1>2. Restored(rec.state) \in TaskState \cup {"ABSENT"}
  BY <1>1 DEF Restored, TaskState
<1>3. Reload(rec) = [rec EXCEPT !.state = Restored(rec.state)]
  BY DEF Reload
<1> QED
  BY <1>2, <1>3, RecFacts

LEMMA EndStep == ASSUME RowInv, Quit \/ Cleanup \/ CloseStore \/ Crash PROVE RowInv'
<1>1. CASE Quit \/ Cleanup
  <2>1. UNCHANGED <<mem, row, chain, cont, held, lost, reported>> /\ Alive /\ Alive'
    BY <1>1 DEF Quit, Cleanup, sched, ghosts, Alive
  <2>2. phase' \in {"up", "closing"} => phase \in {"up", "closing"}
    BY <1>1 DEF Quit, Cleanup
  <2> QED
    BY <2>1, <2>2 DEF RowInv, Typed, Settled, ChainEnds, RowFollows, OnFile, PauseKept, Kept
<1>2. CASE Gone
  <2>1. mem' \in [Tasks -> Rec] /\ chain' = <<>> /\ cont' = {} /\ UNCHANGED <<row, held>>
        /\ phase' = "down"
    BY <1>2, AbsentRec DEF Gone
  <2>2. Typed' /\ Settled'
    BY <2>1 DEF RowInv, Typed, Settled
  <2>3. \A t \in held : Kept(t)'
    BY <2>1 DEF RowInv, PauseKept, Kept, Alive
  <2> QED
    BY <2>1, <2>2, <2>3 DEF RowInv, PauseKept
<1> QED
  BY <1>1, <1>2 DEF CloseStore, Crash

(* A start reads each row, moves what was active to PAUSED and writes it.    *)
LEMMA BootStep ==
  ASSUME RowInv, IsFiniteSet(Tasks), Restart \/ RestartFails
  PROVE  RowInv'
<1>1. row \in [Tasks -> Rec] /\ \A t \in Tasks : Reload(row[t]) \in Rec
  BY ReloadFacts DEF RowInv, Typed
<1>2. \A t \in Tasks : /\ Reload(row[t]).state = Restored(row[t].state)
                       /\ Restored(row[t].state) = "PAUSED" =>
                            Restored(Reload(row[t]).state) = "PAUSED"
  BY <1>1, ReloadFacts, RestoredPaused
<1>3. UNCHANGED <<cont, held>> /\ \A call \in cont : call.task \in Tasks
  BY DEF Restart, RestartFails, ghosts, RowInv, Call
<1>4. CASE RestartFails
  <2>1. UNCHANGED <<mem, chain, phase>> /\ phase = "down"
    BY <1>4 DEF RestartFails
  <2>2. PICK W \in SUBSET Recovered :
          row' = [t \in Tasks |-> IF t \in W THEN Reload(row[t]) ELSE row[t]]
    BY <1>4 DEF RestartFails
  <2>3. row' \in [Tasks -> Rec] /\ \A t \in Tasks : row'[t] \in {row[t], Reload(row[t])}
    BY <1>1, <2>2
  <2>4. Typed' /\ Settled'
    BY <2>1, <2>3 DEF RowInv, Typed, Settled
  <2>5. ASSUME NEW t \in Tasks, Kept(t) PROVE Kept(t)'
    BY <1>2, <2>1, <2>3, <2>5 DEF Kept, Alive
  <2> QED
    BY <1>3, <2>4, <2>5 DEF RowInv, PauseKept
<1>5. CASE Restart
  <2> DEFINE n == Cardinality(Recovered)
             task(i) == SetToSeq(Recovered)[i]
  <2>1. mem' = [t \in Tasks |-> Reload(row[t])] /\ row' = mem' /\ phase' = "up" /\ phase = "down"
    BY <1>5 DEF Restart
  <2>2. mem' \in [Tasks -> Rec] /\ \A t \in Tasks : mem'[t] = Reload(row[t])
    BY <1>1, <2>1
  <2>3. Recovered \in SUBSET Tasks /\ IsFiniteSet(Recovered)
    BY FS_Subset DEF Recovered
  <2>4. n \in Nat /\ \A i \in 1 .. n : task(i) \in Tasks
    BY <2>3, OrderFacts, FS_CardinalityType
  <2>5. chain' = [i \in 1 .. n |-> [task |-> task(i), rec |-> Reload(row[task(i)])]]
    BY <1>5 DEF Restart
  <2> HIDE DEF n, task
  <2>6. \A i \in 1 .. n : [task |-> task(i), rec |-> Reload(row[task(i)])] \in Snapshot
    BY <1>1, <2>4 DEF Snapshot
  <2>7. chain' \in Seq(Snapshot) /\ Len(chain') = n
    BY <2>4, <2>5, <2>6, SeqFacts
  <2>8. \A i \in 1 .. n : chain'[i].task \in Tasks /\ chain'[i].rec = mem'[chain'[i].task]
    BY <2>2, <2>4, <2>5
  <2>9. Typed' /\ Settled'
    BY <2>1, <2>2, <2>7, <2>8 DEF Typed, Settled, ChainEnds, RowFollows, OnFile
  <2>10. ASSUME NEW t \in Tasks, Kept(t) PROVE Kept(t)'
    <3>1. mem'[t].state = "PAUSED" /\ Restored(row'[t].state) = "PAUSED"
      BY <1>2, <2>1, <2>2, <2>10 DEF Kept
    <3> QED
      BY <2>7, <2>8, <3>1 DEF Kept
  <2> QED
    BY <1>3, <2>9, <2>10 DEF RowInv, PauseKept
<1> QED
  BY <1>4, <1>5

LEMMA InitRows == Init => RowInv
<1> SUFFICES ASSUME Init PROVE RowInv
  OBVIOUS
<1>1. mem \in [Tasks -> Rec] /\ row \in [Tasks -> Rec] /\ chain = <<>> /\ held = {} /\ cont = {}
      /\ phase = "down"
  BY AbsentRec DEF Init
<1> QED
  BY <1>1 DEF RowInv, Typed, Settled, PauseKept

LEMMA StepRows ==
  ASSUME RowInv, AskedInv, BusyInv, IsFiniteSet(Tasks), [Next]_vars
  PROVE  RowInv'
<1>1. CASE UNCHANGED vars
  BY <1>1 DEF vars, sched, ghosts, RowInv, Typed, Settled, ChainEnds, RowFollows, OnFile,
              PauseKept, Kept, Alive
<1>2. ASSUME NEW t \in Tasks, Command(t) PROVE RowInv'
  BY <1>2, CreateStep, StartStep, PauseStep, ResumeStep, CancelStep DEF Command
<1>3. ASSUME NEW t \in Tasks, Return(t) PROVE RowInv'
  BY <1>3, InterruptedStep, SuccessStep, FailureStep, RefusedStep DEF Return
<1> QED
  BY <1>1, <1>2, <1>3, WriteStep, ContinueStep, ProgressStep, RetryStep, EndStep, BootStep DEF Next

LEMMA MovedFacts ==
  ASSUME Typed, NEW t \in Tasks, NEW recs \in Seq(Rec), recs # <<>>, Move(t, recs)
  PROVE  mem'[t] = Last(recs) /\ \A u \in Tasks \ {t} : mem'[u] = mem[u]
  BY DEF Move, Typed

LEMMA LastFacts ==
  ASSUME NEW rec \in Rec
  PROVE  /\ \A s \in TaskState : Last(Through(rec, <<s>>)).state = s
         /\ Last(Begun(rec)).state = "RUNNING"
<1>1. ASSUME NEW s \in TaskState PROVE Last(Through(rec, <<s>>)).state = s
  <2> DEFINE recs == Through(rec, <<s>>)
  <2>1. recs \in Seq(Rec) /\ Len(recs) = 1 /\ recs[1].state = s
    BY PathFacts
  <2> HIDE DEF recs
  <2>2. Last(recs).state = s
    BY <2>1 DEF Last
  <2> QED
    BY <2>2 DEF recs
<1>2. Last(Begun(rec)).state = "RUNNING"
  <2> DEFINE path == <<"STARTING", "RUNNING">>
  <2>1. path \in Seq(TaskState \cup {"ABSENT"}) /\ Len(path) = 2 /\ path[2] = "RUNNING"
    BY DEF TaskState
  <2>2. Begun(rec) = Through(rec, path)
    BY DEF Begun
  <2> HIDE DEF path
  <2>3. Begun(rec)[2].state = "RUNNING"
    BY <2>1, <2>2, ThroughFacts
  <2> QED
    BY <2>3, BegunFacts
<1> QED
  BY <1>1, <1>2

LEMMA InitBusy == Init => BusyInv
  BY DEF Init, BusyInv

\* A command or timer moves t to one of the states it leaves a call of t in.
LEMMA MoveBusy ==
  ASSUME Typed, BusyInv, Quiet, UNCHANGED <<phase, reported>>, NEW t \in Tasks,
         \A u \in Tasks \ {t} : mem'[u] = mem[u] /\ (u \in marked => u \in marked'),
         running' \subseteq running \cup {t}, running \subseteq running',
         t \in running' => \/ mem'[t].state \in RunningLike \cup {"CANCELLED"}
                           \/ mem'[t].state \in {"PAUSED", "QUEUED"} /\ t \in marked'
                           \/ [task |-> t, kind |-> "run"] \in cont',
         \A c, d \in cont' : c = d, \A call \in cont' : call.kind # "run"
  PROVE  BusyInv'
<1>1. cont = {}
  BY DEF Quiet
<1>2. running' \subseteq Tasks /\ reported' \subseteq running'
  BY DEF BusyInv
<1>3. ASSUME phase \in {"up", "closing"}, NEW u \in running' PROVE Out(u)'
  <2>1. CASE u = t
    BY <1>3, <2>1 DEF Out
  <2>2. CASE u # t
    BY <1>1, <1>2, <1>3, <2>2 DEF BusyInv, Out
  <2> QED
    BY <2>1, <2>2
<1> QED
  BY <1>2, <1>3 DEF BusyInv, Quiet, Alive

LEMMA CommandBusy == ASSUME RowInv, BusyInv, NEW t \in Tasks, Command(t) PROVE BusyInv'
<1>1. mem[t] \in Rec /\ Typed /\ Quiet /\ cont = {}
  BY DEF RowInv, Typed, Command, CreateTask, StartTask, PauseTask, ResumeTask, CancelTask, Quiet
<1>2. phase \in {"up", "closing"} /\ t \in running => Out(t)
  BY DEF BusyInv
<1>3. {"PAUSED", "QUEUED", "CANCELLED"} \subseteq TaskState
  BY DEF TaskState
<1>4. ASSUME NEW s \in {"PAUSED", "QUEUED", "CANCELLED"}, Move(t, Through(mem[t], <<s>>))
      PROVE  mem'[t].state = s /\ \A u \in Tasks \ {t} : mem'[u] = mem[u]
  <2>1. Through(mem[t], <<s>>) \in Seq(Rec) /\ Through(mem[t], <<s>>) # <<>>
    BY <1>1, <1>3, PathFacts
  <2>2. mem'[t] = Last(Through(mem[t], <<s>>)) /\ \A u \in Tasks \ {t} : mem'[u] = mem[u]
    BY <1>1, <1>4, <2>1, MovedFacts
  <2> QED
    BY <1>1, <1>3, <2>2, LastFacts
<1>5. CASE phase \notin {"up", "closing"}
  <2>1. phase' = phase /\ reported' = reported /\ running' \subseteq running \cup {t}
        /\ running \subseteq running'
    BY DEF Command, CreateTask, StartTask, PauseTask, ResumeTask, CancelTask, sched
  <2>2. cont' = {} \/ \E k \in {"pause", "resume"} : cont' = {[task |-> t, kind |-> k]}
    BY <1>1 DEF Command, CreateTask, StartTask, PauseTask, ResumeTask, CancelTask
  <2>3. (\A c, d \in cont' : c = d) /\ \A call \in cont' : call.kind # "run"
    BY <2>2
  <2> QED
    BY <1>1, <1>5, <2>1, <2>3 DEF BusyInv, Quiet, Alive
<1>6. CASE phase \in {"up", "closing"}
  <2>1. CASE CreateTask(t)
    <3>1. mem[t].state = "ABSENT" /\ UNCHANGED <<phase, cont, sched>> /\ chain = <<>>
          /\ Move(t, Through(Absent, <<"CREATED", "QUEUED">>))
      BY <2>1 DEF CreateTask, Quiet
    <3>2. t \notin running
      BY <1>1, <1>2, <1>6, <3>1 DEF Out, RunningLike
    <3>3. \A u \in Tasks \ {t} : mem'[u] = mem[u]
      <4>1. /\ Through(Absent, <<"CREATED", "QUEUED">>) \in Seq(Rec)
            /\ Through(Absent, <<"CREATED", "QUEUED">>) # <<>>
        BY AbsentRec, PathFacts DEF TaskState
      <4> QED
        BY <1>1, <3>1, <4>1, MovedFacts
    <3> QED
      BY <1>1, <3>1, <3>2, <3>3, MoveBusy DEF sched
  <2>2. CASE StartTask(t)
    <3>1. UNCHANGED <<phase, cont, marked, reported>> /\ mem[t].state = "QUEUED"
      BY <2>2 DEF StartTask
    <3>2. CASE UNCHANGED <<mem, running>>
      BY <1>1, <1>2, <1>6, <3>1, <3>2, MoveBusy DEF Out
    <3>3. CASE Move(t, Begun(mem[t])) /\ running' = running \cup {t}
      <4>1. Begun(mem[t]) \in Seq(Rec) /\ Begun(mem[t]) # <<>>
        BY <1>1, PathFacts DEF Begun, TaskState
      <4>2. mem'[t].state = "RUNNING" /\ \A u \in Tasks \ {t} : mem'[u] = mem[u]
        BY <1>1, <3>3, <4>1, MovedFacts, LastFacts
      <4> QED
        BY <1>1, <3>1, <3>3, <4>2, MoveBusy DEF RunningLike
    <3> QED
      BY <2>2, <3>2, <3>3 DEF StartTask
  <2>3. CASE PauseTask(t)
    <3>1. /\ UNCHANGED <<phase, running, reported>> /\ Move(t, Through(mem[t], <<"PAUSED">>))
          /\ CanTransition(mem[t].state, "PAUSED")
          /\ marked' = IF mem[t].state \in RunningLike THEN marked \cup {t} ELSE marked
      BY <2>3 DEF PauseTask
    <3>2. cont' = {} \/ cont' = {[task |-> t, kind |-> "pause"]}
      BY <1>1, <2>3 DEF PauseTask
    <3>3. (\A c, d \in cont' : c = d) /\ \A call \in cont' : call.kind # "run"
      BY <3>2
    <3>4. mem[t].state \notin {"CANCELLED", "PAUSED"}
      BY <3>1 DEF CanTransition, Transitions, TaskState
    <3>5. t \in running => t \in marked'
      BY <1>1, <1>2, <1>6, <3>1, <3>4 DEF Out
    <3>6. mem'[t].state = "PAUSED" /\ \A u \in Tasks \ {t} : mem'[u] = mem[u]
      BY <1>4, <3>1
    <3> QED
      BY <1>1, <3>1, <3>3, <3>5, <3>6, MoveBusy
  <2>4. CASE ResumeTask(t)
    <3>1. /\ UNCHANGED <<phase, running, reported, marked>> /\ mem[t].state = "PAUSED"
          /\ Move(t, Through(mem[t], <<"QUEUED">>))
      BY <2>4 DEF ResumeTask, sched
    <3>2. cont' = {} \/ cont' = {[task |-> t, kind |-> "resume"]}
      BY <1>1, <2>4 DEF ResumeTask
    <3>3. (\A c, d \in cont' : c = d) /\ \A call \in cont' : call.kind # "run"
      BY <3>2
    <3>4. t \in running => t \in marked
      BY <1>1, <1>2, <1>6, <3>1 DEF Out, RunningLike
    <3>5. mem'[t].state = "QUEUED" /\ \A u \in Tasks \ {t} : mem'[u] = mem[u]
      BY <1>4, <3>1
    <3> QED
      BY <1>1, <3>1, <3>3, <3>4, <3>5, MoveBusy
  <2>5. CASE CancelTask(t)
    <3>1. /\ UNCHANGED <<phase, running, reported, cont>> /\ marked' = marked \ {t}
          /\ Move(t, Through(mem[t], <<"CANCELLED">>))
      BY <2>5 DEF CancelTask
    <3>2. mem'[t].state = "CANCELLED" /\ \A u \in Tasks \ {t} : mem'[u] = mem[u]
      BY <1>4, <3>1
    <3> QED
      BY <1>1, <3>1, <3>2, MoveBusy
  <2> QED
    BY <2>1, <2>2, <2>3, <2>4, <2>5 DEF Command
<1> QED
  BY <1>5, <1>6

\* A call that begins to end leaves the others as they are.
LEMMA ReturnBusy ==
  ASSUME BusyInv, Quiet, UNCHANGED <<phase, running>>, NEW t \in running,
         \A u \in Tasks \ {t} : mem'[u] = mem[u] /\ (u \in marked => u \in marked'),
         reported' \subseteq reported \ {t}, cont' = {[task |-> t, kind |-> "run"]}
  PROVE  BusyInv'
<1>1. cont = {} /\ [task |-> t, kind |-> "run"].task = t
  BY DEF Quiet
<1>2. running' \subseteq Tasks /\ reported' \subseteq running'
  BY DEF BusyInv
<1>3. ASSUME phase \in {"up", "closing"}, NEW u \in running' PROVE Out(u)'
  <2>1. CASE u = t
    BY <2>1 DEF Out
  <2>2. CASE u # t
    BY <1>1, <1>2, <1>3, <2>2 DEF BusyInv, Out
  <2> QED
    BY <2>1, <2>2
<1> QED
  BY <1>1, <1>2, <1>3 DEF BusyInv

LEMMA RunBusy ==
  ASSUME RowInv, BusyInv, NEW t \in Tasks,
         (\E block \in BOOLEAN : Progress(t, block)) \/ Return(t) \/ RetryFires(t)
  PROVE  BusyInv'
<1>1. mem[t] \in Rec /\ Typed
  BY DEF RowInv, Typed
<1>2. ASSUME NEW block \in BOOLEAN, Progress(t, block) PROVE BusyInv'
  <2> DEFINE told == [mem[t] EXCEPT !.blocked = @ \/ block]
  <2>1. /\ Quiet /\ t \in running /\ UNCHANGED <<phase, cont, marked, running>>
        /\ reported' \subseteq reported \cup {t}
    BY <1>2 DEF Progress
  <2>2. told \in Rec /\ told.state = mem[t].state
    BY <1>1, ToldFacts
  <2>3. \/ mem' = [mem EXCEPT ![t] = told]
        \/ \E s \in {"WAITING_QUEUE", "RUNNING"} : Move(t, Through(told, <<s>>))
    BY <1>2 DEF Progress
  <2> HIDE DEF told
  <2>4. /\ \A u \in Tasks \ {t} : mem'[u] = mem[u]
        /\ mem'[t].state \in {mem[t].state} \cup RunningLike
    <3>1. CASE mem' = [mem EXCEPT ![t] = told]
      BY <1>1, <2>2, <3>1 DEF Typed
    <3>2. ASSUME NEW s \in {"WAITING_QUEUE", "RUNNING"}, Move(t, Through(told, <<s>>))
          PROVE  mem'[t].state = s /\ \A u \in Tasks \ {t} : mem'[u] = mem[u]
      <4>1. Through(told, <<s>>) \in Seq(Rec) /\ Through(told, <<s>>) # <<>>
        BY <2>2, PathFacts DEF TaskState
      <4>2. mem'[t] = Last(Through(told, <<s>>)) /\ \A u \in Tasks \ {t} : mem'[u] = mem[u]
        BY <1>1, <3>2, <4>1, MovedFacts
      <4>3. Last(Through(told, <<s>>)).state = s
        BY <2>2, LastFacts DEF TaskState
      <4> QED
        BY <4>2, <4>3
    <3> QED
      BY <2>3, <3>1, <3>2 DEF RunningLike
  <2>5. cont = {} /\ running \subseteq Tasks /\ reported \subseteq running
    BY <2>1 DEF Quiet, BusyInv
  <2>6. ASSUME phase \in {"up", "closing"}, NEW u \in running PROVE Out(u)'
    <3>1. Out(u)
      BY <2>6 DEF BusyInv
    <3> QED
      BY <2>1, <2>4, <2>5, <3>1 DEF Out
  <2> QED
    BY <2>1, <2>5, <2>6 DEF BusyInv
<1>3. CASE Return(t)
  <2>1. Quiet /\ t \in running /\ UNCHANGED <<phase, running>>
    BY <1>3 DEF Return, ReturnInterrupted, ReturnSuccess, ReturnFailure, ReturnRefused, sched
  <2>2. cont' = {[task |-> t, kind |-> "run"]} /\ reported' \subseteq reported \ {t}
    BY <1>3 DEF Return, ReturnInterrupted, ReturnSuccess, ReturnFailure, ReturnRefused, SaveRun, sched
  <2>3. \A u \in Tasks \ {t} : u \in marked => u \in marked'
    BY <1>3 DEF Return, ReturnInterrupted, ReturnSuccess, ReturnFailure, ReturnRefused, sched
  <2>4. mem' = mem \/ \E rec : mem' = [mem EXCEPT ![t] = rec]
    BY <1>3 DEF Return, ReturnInterrupted, ReturnSuccess, ReturnFailure, ReturnRefused, Move
  <2>5. \A u \in Tasks \ {t} : mem'[u] = mem[u]
    BY <1>1, <2>4 DEF Typed
  <2> QED
    BY <2>1, <2>2, <2>3, <2>5, ReturnBusy
<1>4. CASE RetryFires(t)
  <2> DEFINE recs == Through(mem[t], <<"QUEUED">>)
  <2>1. Quiet /\ cont = {} /\ UNCHANGED <<phase, cont, marked, reported>>
    BY <1>4 DEF RetryFires, Quiet
  <2>2. CASE UNCHANGED <<mem, running>>
    BY <1>1, <2>1, <2>2, MoveBusy DEF BusyInv, Out
  <2>3. CASE mem[t].state = "RETRYING" /\ BeginOrWait(t, recs)
    <3>1. recs \in Seq(Rec) /\ recs # <<>> /\ Last(recs) \in Rec
      <4>1. recs \in Seq(Rec) /\ recs # <<>> /\ Len(recs) = 1
        BY <1>1, PathFacts DEF TaskState
      <4> HIDE DEF recs
      <4> QED
        BY <4>1 DEF Last
    <3>2. /\ Begun(Last(recs)) \in Seq(Rec) /\ Len(Begun(Last(recs))) = 2
          /\ Last(Begun(Last(recs))).state = "RUNNING"
      BY <3>1, BegunFacts, LastFacts
    <3>3. \/ /\ t \notin running /\ running' = running \cup {t}
             /\ Move(t, recs \o Begun(Last(recs)))
          \/ Move(t, recs) /\ running' = running
      BY <2>3 DEF BeginOrWait
    <3> DEFINE begun == Begun(Last(recs))
    <3> HIDE DEF recs
    <3>4. CASE Move(t, recs) /\ running' = running
      <4>1. \A u \in Tasks \ {t} : mem'[u] = mem[u]
        BY <1>1, <3>1, <3>4, MovedFacts
      <4>2. phase \in {"up", "closing"} => t \notin running
        BY <2>1, <2>3 DEF BusyInv, Out, RunningLike
      <4>3. CASE t \notin running
        BY <1>1, <2>1, <3>4, <4>1, <4>3, MoveBusy
      <4>4. CASE phase \notin {"up", "closing"}
        BY <2>1, <3>4, <4>4 DEF BusyInv
      <4> QED
        BY <4>2, <4>3, <4>4
    <3>5. CASE running' = running \cup {t} /\ Move(t, recs \o begun)
      <4> HIDE DEF begun
      <4>1. begun \in Seq(Rec) /\ Len(begun) = 2 /\ Last(begun).state = "RUNNING"
        BY <3>2 DEF begun
      <4>2. recs \o begun \in Seq(Rec) /\ recs \o begun # <<>>
        BY <3>1, <4>1, ConcatFacts
      <4>3. Last(recs \o begun) = Last(begun)
        BY <3>1, <4>1, LastJoined
      <4>4. mem'[t].state = "RUNNING" /\ \A u \in Tasks \ {t} : mem'[u] = mem[u]
        BY <1>1, <3>5, <4>1, <4>2, <4>3, MovedFacts
      <4> QED
        BY <1>1, <2>1, <3>5, <4>4, MoveBusy DEF RunningLike
    <3> QED
      BY <3>3, <3>4, <3>5 DEF begun
  <2> QED
    BY <1>4, <2>2, <2>3 DEF RetryFires
<1> QED
  BY <1>2, <1>3, <1>4

LEMMA ContinueBusy == ASSUME RowInv, AskedInv, BusyInv, Continue PROVE BusyInv'
<1>1. UNCHANGED <<phase, marked, reported>> /\ cont' = {} /\ mem \in [Tasks -> Rec]
  BY DEF Continue, RowInv, Typed
<1>2. PICK call \in cont :
        \/ call.kind = "pause" /\ Drain(mem, pending, running)
        \/ call.kind = "resume" /\ Drain(mem, pending \cup {call.task}, running)
        \/ call.kind = "run" /\ Drain(mem, pending, running \ {call.task})
  BY DEF Continue
<1>3. (\A c \in cont : c = call) /\ call.task \in Tasks /\ pending \subseteq Tasks
  BY DEF BusyInv, RowInv, AskedInv, Call
<1>4. PICK queue \in SUBSET Tasks, calls \in SUBSET running :
        /\ Drain(mem, queue, calls)
        /\ calls = IF call.kind = "run" THEN running \ {call.task} ELSE running
  <2>1. pending \in SUBSET Tasks /\ pending \cup {call.task} \in SUBSET Tasks
    BY <1>3
  <2> QED
    BY <1>2, <2>1
<1>5. reported \subseteq calls /\ running \subseteq Tasks
  BY <1>4 DEF BusyInv
<1>6. PICK S \in SUBSET Startable(mem, queue, calls) :
        /\ mem' = [u \in Tasks |-> IF u \in S THEN Last(Begun(mem[u])) ELSE mem[u]]
        /\ running' = calls \cup S
  BY <1>4 DEF Drain
<1>7. S \subseteq Tasks /\ \A u \in S : u \notin calls
  BY <1>6 DEF Startable
<1>8. ASSUME phase \in {"up", "closing"}, NEW u \in running' PROVE Out(u)'
  <2>1. CASE u \in S
    <3>1. mem'[u] = Last(Begun(mem[u])) /\ mem[u] \in Rec
      BY <1>1, <1>6, <1>7, <2>1
    <3>2. mem'[u].state = "RUNNING"
      BY <3>1, LastFacts
    <3> QED
      BY <3>2 DEF Out, RunningLike
  <2>2. CASE u \in calls
    <3>1. mem'[u] = mem[u]
      BY <1>5, <1>6, <1>7, <2>2
    <3>2. [task |-> u, kind |-> "run"] \notin cont
      <4> SUFFICES ASSUME [task |-> u, kind |-> "run"] \in cont PROVE FALSE
        OBVIOUS
      <4>1. call = [task |-> u, kind |-> "run"]
        BY <1>3
      <4>2. call.kind = "run" /\ call.task = u
        BY <4>1
      <4> QED
        BY <1>4, <2>2, <4>2
    <3>3. Out(u)
      BY <1>8, <2>2 DEF BusyInv
    <3> QED
      BY <1>1, <3>1, <3>2, <3>3 DEF Out
  <2> QED
    BY <1>6, <2>1, <2>2
<1> QED
  BY <1>1, <1>5, <1>6, <1>7, <1>8 DEF BusyInv, Continue, Alive

LEMMA StepBusy ==
  ASSUME RowInv, AskedInv, BusyInv, [Next]_vars
  PROVE  BusyInv'
<1>1. CASE UNCHANGED vars
  BY <1>1 DEF vars, sched, BusyInv, Out
<1>2. CASE WriteNext
  BY <1>2 DEF WriteNext, sched, BusyInv, Out
<1>3. CASE Quit \/ Cleanup
  <2>1. /\ UNCHANGED <<mem, cont, running, reported>> /\ phase' # "down"
        /\ (phase' = "closing" => marked' = marked)
        /\ (phase' \in {"up", "closing"} => phase \in {"up", "closing"} /\ phase' = "closing")
    BY <1>3 DEF Quit, Cleanup, sched
  <2> QED
    BY <2>1 DEF BusyInv, Out
<1>4. CASE CloseStore \/ Crash
  BY <1>4 DEF CloseStore, Crash, Gone, BusyInv
<1>5. CASE RestartFails
  BY <1>5 DEF RestartFails, sched, BusyInv, Out
<1>6. CASE Restart
  BY <1>6 DEF Restart, sched, BusyInv, Out
<1> QED
  BY <1>1, <1>2, <1>3, <1>4, <1>5, <1>6, ContinueBusy, CommandBusy, RunBusy DEF Next

(* Tasks, rows and chain agree in the way the two theorems below need.       *)
THEOREM RowsFollow == ASSUME IsFiniteSet(Tasks) PROVE Spec => [](RowInv /\ AskedInv /\ BusyInv)
<1>1. RowInv /\ AskedInv /\ BusyInv /\ [Next]_vars => (RowInv /\ AskedInv /\ BusyInv)'
  BY StepRows, StepAsked, StepBusy
<1> QED
  BY InitRows, InitAsked, InitBusy, <1>1, PTL DEF Spec

(* Whenever the chain of snapshots is empty, each row is its task, except    *)
(* for one whose own latest write failed and for a retry block whose run has *)
(* yet to answer: a direct save is never overwritten by an older snapshot,   *)
(* one failed write costs no other, and what an update of a worker left      *)
(* unsaved is saved by the time its run has ended                            *)
(* (TaskPersistenceCoordinator.enqueue, TaskRegistry.saveTask, startTask).   *)
THEOREM RowsAreCurrent == ASSUME IsFiniteSet(Tasks) PROVE Spec => []SettledRowIsCurrent
<1>1. RowInv /\ BusyInv => SettledRowIsCurrent
  <2> SUFFICES ASSUME RowInv, BusyInv, phase \in {"up", "closing"}, chain = <<>>,
                      NEW t \in Tasks \ lost
               PROVE  OnFile(t) /\ (t \notin running => row[t] = mem[t])
    BY DEF SettledRowIsCurrent
  <2>1. OnFile(t)
    BY DEF RowInv, Settled, RowFollows
  <2>2. reported \subseteq running
    BY DEF BusyInv
  <2> QED
    BY <2>1, <2>2 DEF OnFile
<1> QED
  BY RowsFollow, <1>1, PTL

(* A pause that was answered with success is found by the next start,        *)
(* however the process ends: what is still to be written of the task after   *)
(* the answer says the same (pauseTask, initialize).                         *)
THEOREM PausesSurvive == ASSUME IsFiniteSet(Tasks) PROVE Spec => []PauseSurvivesRestart
<1>1. RowInv => PauseSurvivesRestart
  BY DEF RowInv, PauseKept, Kept, PauseSurvivesRestart
<1> QED
  BY RowsFollow, <1>1, PTL

-------------------------------------------------------------------------------
(* What the log says.                                                      *)

\* Nothing can be said of what follows an entry that failed, or no entry at all.
Follows(s, r) == s \in {"none", "ABSENT"} \/ CanTransition(s, r)

\* The first snapshot of a task in c follows what is known of it, every other one the
\* snapshot of the same task before it.
FollowsKnown(c, known) ==
  \A j \in 1 .. Len(c) :
    (\A i \in 1 .. j - 1 : c[i].task # c[j].task) => Follows(known[c[j].task], c[j].rec.state)

FollowsPrevious(c) ==
  \A i, j \in 1 .. Len(c) :
    /\ i < j /\ c[i].task = c[j].task
    /\ \A k \in i + 1 .. j - 1 : c[k].task # c[j].task
    => CanTransition(c[i].rec.state, c[j].rec.state)

Linked(c, known) == FollowsKnown(c, known) /\ FollowsPrevious(c)

NoneAbsent(c) == \A i \in 1 .. Len(c) : c[i].rec.state # "ABSENT"
Mentions(c, t) == \E i \in 1 .. Len(c) : c[i].task = t
StatesNow == [t \in Tasks |-> mem[t].state]

\* The log continues with the chain, and a task of which nothing is under way was
\* last logged as what it is.
LogInv ==
  /\ phase \in {"up", "closing", "cleaned", "down"}
  /\ logged \in [Tasks -> TaskState \cup {"none"}]
  /\ Linked(chain, logged) /\ NoneAbsent(chain)
  /\ phase \in {"up", "closing"} =>
       \A t \in Tasks : Mentions(chain, t) \/ logged[t] \in {"none", mem[t].state}
  /\ phase = "down" => \A t \in Tasks : logged[t] = "none"

LEMMA EntryFacts ==
  ASSUME NEW e \in Snapshot
  PROVE  e.task \in Tasks /\ e.rec \in Rec /\ e.rec.state \in TaskState \cup {"ABSENT"}
         /\ e.rec.state # "none"
<1>1. e.task \in Tasks /\ e.rec \in Rec
  BY DEF Snapshot
<1>2. e.rec.state \in TaskState \cup {"ABSENT"}
  BY <1>1 DEF Rec
<1> QED
  BY <1>1, <1>2 DEF TaskState

(* Snapshots that follow what the tasks are now can be put behind a chain    *)
(* that ends with what they are.                                             *)
LEMMA AppendLinked ==
  ASSUME NEW c \in Seq(Snapshot), NEW b \in Seq(Snapshot), NEW known, NEW now,
         Linked(c, known), Linked(b, now), NoneAbsent(c), NoneAbsent(b),
         \A t \in Tasks : Mentions(c, t) \/ known[t] \in {"none", now[t]},
         \A i \in 1 .. Len(c) : \/ c[i].rec.state = now[c[i].task]
                                \/ \E j \in i + 1 .. Len(c) : c[j].task = c[i].task
  PROVE  Linked(c \o b, known) /\ NoneAbsent(c \o b)
<1> DEFINE n == Len(c)
           m == Len(b)
           d == c \o b
<1>1. n \in Nat /\ m \in Nat /\ Len(d) = n + m
      /\ (\A i \in 1 .. n : d[i] = c[i]) /\ (\A i \in 1 .. m : d[n + i] = b[i])
  OBVIOUS
<1>2. /\ \A i \in 1 .. n : c[i] \in Snapshot
      /\ \A i \in 1 .. m : b[i] \in Snapshot
  OBVIOUS
<1> HIDE DEF n, m, d
<1>3. ASSUME NEW j \in 1 .. Len(d), j \notin 1 .. n
      PROVE  j - n \in 1 .. m /\ d[j] = b[j - n]
  <2>1. j - n \in 1 .. m /\ n + (j - n) = j
    BY <1>1, <1>3
  <2> QED
    BY <1>1, <2>1
<1>4. NoneAbsent(d)
  <2> SUFFICES ASSUME NEW i \in 1 .. Len(d) PROVE d[i].rec.state # "ABSENT"
    BY DEF NoneAbsent
  <2> QED
    BY <1>1, <1>3 DEF NoneAbsent, n, m
<1>5. FollowsKnown(d, known)
  <2> SUFFICES ASSUME NEW j \in 1 .. Len(d), \A i \in 1 .. j - 1 : d[i].task # d[j].task
               PROVE  Follows(known[d[j].task], d[j].rec.state)
    BY DEF FollowsKnown
  <2>1. CASE j \in 1 .. n
    <3>1. \A i \in 1 .. j - 1 : i \in 1 .. n /\ c[i].task # c[j].task
      BY <1>1, <2>1
    <3> QED
      BY <1>1, <2>1, <3>1 DEF Linked, FollowsKnown, n
  <2>2. CASE j \notin 1 .. n
    <3> DEFINE h == j - n
    <3>1. h \in 1 .. m /\ d[j] = b[h] /\ n < j
      BY <1>1, <1>3, <2>2
    <3>2. \A i \in 1 .. h - 1 : b[i].task # b[h].task
      <4> SUFFICES ASSUME NEW i \in 1 .. h - 1 PROVE b[i].task # b[h].task
        OBVIOUS
      <4>1. i \in 1 .. m /\ n + i \in 1 .. j - 1 /\ d[n + i] = b[i]
        BY <1>1, <3>1
      <4> QED
        BY <3>1, <4>1
    <3>3. Follows(now[b[h].task], b[h].rec.state)
      BY <3>1, <3>2 DEF Linked, FollowsKnown, m
    <3>4. ~Mentions(c, b[h].task)
      <4>1. \A i \in 1 .. n : i \in 1 .. j - 1 /\ d[i] = c[i]
        BY <1>1, <3>1
      <4>2. \A i \in 1 .. n : c[i].task # b[h].task
        BY <3>1, <4>1
      <4> QED
        BY <4>2 DEF Mentions, n
    <3>5. b[h].task \in Tasks
      BY <1>2, <3>1, EntryFacts
    <3>6. known[b[h].task] \in {"none", now[b[h].task]}
      BY <3>4, <3>5
    <3> QED
      BY <3>1, <3>3, <3>6 DEF Follows
  <2> QED
    BY <2>1, <2>2
<1>6. FollowsPrevious(d)
  <2> SUFFICES ASSUME NEW i \in 1 .. Len(d), NEW j \in 1 .. Len(d),
                      i < j, d[i].task = d[j].task,
                      \A k \in i + 1 .. j - 1 : d[k].task # d[j].task
               PROVE  CanTransition(d[i].rec.state, d[j].rec.state)
    BY DEF FollowsPrevious
  <2>1. CASE j \in 1 .. n
    <3>1. i \in 1 .. n /\ \A k \in i + 1 .. j - 1 : k \in 1 .. n
      BY <1>1, <2>1
    <3>2. \A k \in i + 1 .. j - 1 : c[k].task # c[j].task
      BY <1>1, <2>1, <3>1
    <3> QED
      BY <1>1, <2>1, <3>1, <3>2 DEF Linked, FollowsPrevious, n
  <2>2. CASE i \notin 1 .. n
    <3> DEFINE g == i - n
               h == j - n
    <3>1. g \in 1 .. m /\ h \in 1 .. m /\ d[i] = b[g] /\ d[j] = b[h] /\ g < h
      BY <1>1, <1>3, <2>2
    <3>2. \A k \in g + 1 .. h - 1 : b[k].task # b[h].task
      <4> SUFFICES ASSUME NEW k \in g + 1 .. h - 1 PROVE b[k].task # b[h].task
        OBVIOUS
      <4>1. k \in 1 .. m /\ n + k \in i + 1 .. j - 1 /\ d[n + k] = b[k]
        BY <1>1, <3>1
      <4> QED
        BY <3>1, <4>1
    <3> HIDE DEF g, h
    <3> QED
      BY <3>1, <3>2 DEF Linked, FollowsPrevious, m
  <2>3. CASE i \in 1 .. n /\ j \notin 1 .. n
    <3> DEFINE h == j - n
    <3>1. h \in 1 .. m /\ d[j] = b[h] /\ n < j /\ d[i] = c[i]
      BY <1>1, <1>3, <2>3
    <3>2. \A k \in 1 .. h - 1 : b[k].task # b[h].task
      <4> SUFFICES ASSUME NEW k \in 1 .. h - 1 PROVE b[k].task # b[h].task
        OBVIOUS
      <4>1. k \in 1 .. m /\ n + k \in i + 1 .. j - 1 /\ d[n + k] = b[k]
        BY <1>1, <2>3, <3>1
      <4> QED
        BY <3>1, <4>1
    <3>3. Follows(now[b[h].task], b[h].rec.state)
      BY <3>1, <3>2 DEF Linked, FollowsKnown, m
    <3>4. ASSUME NEW k \in i + 1 .. n PROVE c[k].task # c[i].task
      <4>1. k \in i + 1 .. j - 1 /\ k \in 1 .. n
        BY <1>1, <2>3, <3>1
      <4> QED
        BY <1>1, <3>1, <4>1
    <3>5. c[i].rec.state = now[c[i].task]
      BY <2>3, <3>4 DEF n
    <3>6. c[i].rec.state # "none" /\ c[i].rec.state # "ABSENT"
      BY <1>2, <2>3, EntryFacts DEF NoneAbsent, n
    <3> QED
      BY <3>1, <3>3, <3>5, <3>6 DEF Follows
  <2> QED
    BY <2>1, <2>2, <2>3
<1> QED
  BY <1>4, <1>5, <1>6 DEF Linked, d

(* The snapshots of one stretch of code of one task are linked when its      *)
(* states are a path of the table.                                           *)
Path(s, recs) ==
  /\ Follows(s, recs[1].state)
  /\ \A i \in 1 .. Len(recs) - 1 : CanTransition(recs[i].state, recs[i + 1].state)
  /\ \A i \in 1 .. Len(recs) : recs[i].state # "ABSENT"

LEMMA PathLinked ==
  ASSUME NEW t \in Tasks, NEW recs \in Seq(Rec), NEW known, Path(known[t], recs),
         NEW b \in Seq(Snapshot), Len(b) = Len(recs),
         \A i \in 1 .. Len(recs) : b[i] = [task |-> t, rec |-> recs[i]]
  PROVE  Linked(b, known) /\ NoneAbsent(b)
<1>1. Len(recs) \in Nat /\ \A i \in 1 .. Len(b) : b[i].task = t /\ b[i].rec = recs[i]
  <2>1. ASSUME NEW i \in 1 .. Len(b) PROVE b[i].task = t /\ b[i].rec = recs[i]
    <3>1. b[i] = [task |-> t, rec |-> recs[i]]
      OBVIOUS
    <3> QED
      BY <3>1
  <2>2. Len(recs) \in Nat
    OBVIOUS
  <2> QED
    BY <2>1, <2>2
<1>2. NoneAbsent(b)
  BY <1>1 DEF NoneAbsent, Path
<1>3. FollowsKnown(b, known)
  <2> SUFFICES ASSUME NEW j \in 1 .. Len(b), \A i \in 1 .. j - 1 : b[i].task # b[j].task
               PROVE  Follows(known[b[j].task], b[j].rec.state)
    BY DEF FollowsKnown
  <2>1. j = 1
    <3> SUFFICES ASSUME j # 1 PROVE FALSE
      OBVIOUS
    <3>1. 1 \in 1 .. j - 1 /\ 1 \in 1 .. Len(b)
      BY <1>1
    <3> QED
      BY <1>1, <3>1
  <2> QED
    BY <1>1, <2>1 DEF Path
<1>4. FollowsPrevious(b)
  <2> SUFFICES ASSUME NEW i \in 1 .. Len(b), NEW j \in 1 .. Len(b), i < j,
                      \A k \in i + 1 .. j - 1 : b[k].task # b[j].task
               PROVE  CanTransition(b[i].rec.state, b[j].rec.state)
    BY DEF FollowsPrevious
  <2>1. j = i + 1
    <3> SUFFICES ASSUME j # i + 1 PROVE FALSE
      OBVIOUS
    <3>1. i + 1 \in i + 1 .. j - 1 /\ i + 1 \in 1 .. Len(b)
      BY <1>1
    <3> QED
      BY <1>1, <3>1
  <2>2. i \in 1 .. Len(recs) - 1
    BY <1>1, <2>1
  <2> QED
    BY <1>1, <2>1, <2>2 DEF Path
<1> QED
  BY <1>2, <1>3, <1>4 DEF Linked

LEMMA EmptyLinked == \A known : Linked(<<>>, known) /\ NoneAbsent(<<>>) /\ \A t : ~Mentions(<<>>, t)
  BY DEF Linked, FollowsKnown, FollowsPrevious, NoneAbsent, Mentions

(* One task moves along the table while the chain is empty.                  *)
LEMMA MoveLog ==
  ASSUME Typed, LogInv, Quiet, UNCHANGED <<phase, logged>>,
         NEW t \in Tasks, NEW recs \in Seq(Rec), recs # <<>>,
         Path(mem[t].state, recs), Move(t, recs)
  PROVE  LogInv'
<1>1. Len(recs) \in Nat /\ Len(recs) > 0
  OBVIOUS
<1>2. \A u \in Tasks \ {t} : mem'[u] = mem[u]
  BY DEF Move, Typed
<1>3. chain = <<>> /\ chain' = Snapshots(t, recs)
  BY SnapshotsFacts DEF Move, Quiet
<1>4. CASE phase = "cleaned"
  <2>1. chain' = <<>>
    BY <1>3, <1>4, SnapshotsFacts
  <2> QED
    BY <1>4, <2>1, EmptyLinked DEF LogInv
<1>5. CASE phase # "cleaned"
  <2>1. /\ chain' \in Seq(Snapshot) /\ Len(chain') = Len(recs)
        /\ \A i \in 1 .. Len(recs) : chain'[i] = [task |-> t, rec |-> recs[i]]
    BY <1>3, <1>5, SnapshotsFacts
  <2>2. phase \in {"up", "closing"} /\ \A u \in Tasks : logged[u] \in {"none", mem[u].state}
    BY <1>3, <1>5, EmptyLinked DEF LogInv, Quiet, Alive
  <2>3. Path(logged[t], recs)
    BY <2>2 DEF Path, Follows
  <2>4. Linked(chain', logged) /\ NoneAbsent(chain')
    BY <2>1, <2>3, PathLinked
  <2>5. Mentions(chain', t)
    <3>1. 1 \in 1 .. Len(chain') /\ chain'[1] = [task |-> t, rec |-> recs[1]]
      BY <1>1, <2>1
    <3>2. chain'[1].task = t
      BY <3>1
    <3> QED
      BY <3>1, <3>2 DEF Mentions
  <2> QED
    BY <1>2, <2>2, <2>4, <2>5 DEF LogInv
<1> QED
  BY <1>4, <1>5

LEMMA TwoSteps ==
  ASSUME NEW rec \in Rec, NEW q, NEW r \in TaskState, NEW s \in TaskState,
         Follows(q, r), CanTransition(r, s)
  PROVE  Path(q, Through(rec, <<r, s>>))
<1> DEFINE path == <<r, s>>
           recs == Through(rec, path)
<1>1. path \in Seq(TaskState \cup {"ABSENT"}) /\ Len(path) = 2 /\ path[1] = r /\ path[2] = s
  OBVIOUS
<1> HIDE DEF path
<1>2. Len(recs) = 2 /\ recs[1].state = r /\ recs[2].state = s
  BY <1>1, ThroughFacts
<1> HIDE DEF recs
<1>3. r # "ABSENT" /\ s # "ABSENT"
  BY DEF TaskState
<1>4. Path(q, recs)
  <2>1. 1 .. Len(recs) = {1, 2} /\ 1 .. Len(recs) - 1 = {1} /\ 1 + 1 = 2
    BY <1>2
  <2> QED
    BY <1>2, <1>3, <2>1 DEF Path
<1> QED
  BY <1>4 DEF recs, path

LEMMA OneStep ==
  ASSUME NEW rec \in Rec, NEW s \in TaskState, CanTransition(rec.state, s)
  PROVE  Path(rec.state, Through(rec, <<s>>))
<1> DEFINE recs == Through(rec, <<s>>)
<1>1. Len(recs) = 1 /\ recs[1].state = s
  BY PathFacts
<1> HIDE DEF recs
<1>2. s # "ABSENT"
  BY DEF TaskState
<1>3. 1 .. Len(recs) = {1} /\ 1 .. Len(recs) - 1 = {}
  BY <1>1
<1>4. Path(rec.state, recs)
  BY <1>1, <1>2, <1>3 DEF Path, Follows
<1> QED
  BY <1>4 DEF recs

LEMMA CommandLog ==
  ASSUME RowInv, LogInv, NEW t \in Tasks, Command(t)
  PROVE  LogInv'
<1>1. mem[t] \in Rec /\ Typed
  BY DEF RowInv, Typed
<1>2. CASE CreateTask(t)
  <2> DEFINE recs == Through(Absent, <<"CREATED", "QUEUED">>)
  <2>1. recs \in Seq(Rec) /\ recs # <<>>
    BY AbsentRec, PathFacts DEF TaskState
  <2>2. Path(mem[t].state, recs)
    <3>1. mem[t].state = "ABSENT"
      BY <1>2 DEF CreateTask
    <3>2. Follows("ABSENT", "CREATED") /\ CanTransition("CREATED", "QUEUED")
      BY DEF Follows, CanTransition, Transitions, TaskState
    <3> QED
      BY <3>1, <3>2, AbsentRec, TwoSteps DEF TaskState
  <2>3. Quiet /\ UNCHANGED <<phase, logged>> /\ Move(t, recs)
    BY <1>2 DEF CreateTask, ghosts
  <2> HIDE DEF recs
  <2> QED
    BY <1>1, <2>1, <2>2, <2>3, MoveLog
<1>3. CASE StartTask(t)
  <2>1. Quiet /\ UNCHANGED <<phase, logged>> /\ mem[t].state = "QUEUED"
    BY <1>3 DEF StartTask
  <2>2. CASE Move(t, Begun(mem[t]))
    <3>1. Begun(mem[t]) \in Seq(Rec) /\ Begun(mem[t]) # <<>>
      BY <1>1, PathFacts DEF Begun, TaskState
    <3>2. Path(mem[t].state, Begun(mem[t]))
      <4>1. Follows("QUEUED", "STARTING") /\ CanTransition("STARTING", "RUNNING")
        BY DEF Follows, CanTransition, Transitions, TaskState
      <4> QED
        BY <1>1, <2>1, <4>1, TwoSteps DEF Begun, TaskState
    <3> QED
      BY <1>1, <2>1, <2>2, <3>1, <3>2, MoveLog
  <2>3. CASE UNCHANGED <<mem, chain>>
    BY <2>1, <2>3 DEF LogInv, Linked
  <2> QED
    BY <1>3, <2>2, <2>3 DEF StartTask
<1>4. ASSUME NEW s \in TaskState, Quiet, UNCHANGED <<phase, logged>>,
             CanTransition(mem[t].state, s), Move(t, Through(mem[t], <<s>>))
      PROVE  LogInv'
  <2> DEFINE recs == Through(mem[t], <<s>>)
  <2>1. recs \in Seq(Rec) /\ recs # <<>> /\ Path(mem[t].state, recs)
    BY <1>1, <1>4, PathFacts, OneStep
  <2>2. Move(t, recs)
    BY <1>4
  <2> HIDE DEF recs
  <2> QED
    BY <1>1, <1>4, <2>1, <2>2, MoveLog
<1>5. {"PAUSED", "QUEUED", "CANCELLED"} \subseteq TaskState
  BY DEF TaskState
<1>6. CASE PauseTask(t)
  BY <1>4, <1>5, <1>6 DEF PauseTask
<1>7. CASE ResumeTask(t)
  <2>1. CanTransition(mem[t].state, "QUEUED")
    BY <1>7 DEF ResumeTask, CanTransition, Transitions, TaskState
  <2> QED
    BY <1>4, <1>5, <1>7, <2>1 DEF ResumeTask
<1>8. CASE CancelTask(t)
  BY <1>4, <1>5, <1>8 DEF CancelTask
<1> QED
  BY <1>2, <1>3, <1>6, <1>7, <1>8 DEF Command

LEMMA JoinedFacts ==
  ASSUME NEW S, NEW a \in Seq(S), NEW b \in Seq(S)
  PROVE  /\ Len(a) \in Nat /\ Len(b) \in Nat /\ Len(a \o b) = Len(a) + Len(b)
         /\ \A i \in 1 .. Len(a) : (a \o b)[i] = a[i]
         /\ \A i \in 1 .. Len(b) : (a \o b)[Len(a) + i] = b[i]
  OBVIOUS

LEMMA OneMore ==
  ASSUME NEW a \in Seq(Rec), NEW b \in Seq(Rec)
  PROVE  Len(a) = 1 /\ Len(b) = 2 =>
         /\ a \o b \in Seq(Rec) /\ Len(a \o b) = 3
         /\ (a \o b)[1] = a[1] /\ (a \o b)[2] = b[1] /\ (a \o b)[3] = b[2]
<1>1. /\ Len(a) \in Nat /\ Len(b) \in Nat /\ Len(a \o b) = Len(a) + Len(b)
      /\ \A i \in 1 .. Len(a) : (a \o b)[i] = a[i]
      /\ \A i \in 1 .. Len(b) : (a \o b)[Len(a) + i] = b[i]
  OBVIOUS
<1>2. a \o b \in Seq(Rec)
  OBVIOUS
<1> DEFINE c == a \o b
<1>3. /\ Len(c) = Len(a) + Len(b)
      /\ \A i \in 1 .. Len(a) : c[i] = a[i]
      /\ \A i \in 1 .. Len(b) : c[Len(a) + i] = b[i]
  BY <1>1
<1>4. c \in Seq(Rec)
  BY <1>2
<1> HIDE DEF c
<1>5. Len(a) = 1 /\ Len(b) = 2 =>
        c \in Seq(Rec) /\ Len(c) = 3 /\ c[1] = a[1] /\ c[2] = b[1] /\ c[3] = b[2]
  BY <1>3, <1>4
<1> QED
  BY <1>5 DEF c

LEMMA RunLog ==
  ASSUME RowInv, LogInv, NEW t \in Tasks,
         (\E block \in BOOLEAN : Progress(t, block)) \/ Return(t) \/ RetryFires(t)
  PROVE  LogInv'
<1>1. mem[t] \in Rec /\ Typed /\ mem[t].state \in TaskState \cup {"ABSENT"}
  BY DEF RowInv, Typed, Rec
<1>2. ASSUME NEW s \in TaskState, Quiet, UNCHANGED <<phase, logged>>, NEW rec \in Rec,
             rec.state = mem[t].state, CanTransition(mem[t].state, s), Move(t, Through(rec, <<s>>))
      PROVE  LogInv'
  <2> DEFINE recs == Through(rec, <<s>>)
  <2>1. recs \in Seq(Rec) /\ recs # <<>> /\ Path(mem[t].state, recs)
    BY <1>2, PathFacts, OneStep
  <2>2. Move(t, recs)
    BY <1>2
  <2> HIDE DEF recs
  <2> QED
    BY <1>1, <1>2, <2>1, <2>2, MoveLog
<1>3. ASSUME NEW block \in BOOLEAN, Progress(t, block) PROVE LogInv'
  <2> DEFINE told == [mem[t] EXCEPT !.blocked = @ \/ block]
  <2>1. told \in Rec /\ told.state = mem[t].state
    BY <1>1, ToldFacts
  <2>2. \/ mem' = [mem EXCEPT ![t] = told] /\ chain' = chain
        \/ \E s \in {"WAITING_QUEUE", "RUNNING"} :
             CanTransition(told.state, s) /\ Move(t, Through(told, <<s>>))
    BY <1>3 DEF Progress, CanTransition, Transitions, TaskState
  <2>3. Quiet /\ UNCHANGED <<phase, logged>>
    BY <1>3 DEF Progress, ghosts
  <2> HIDE DEF told
  <2>4. CASE mem' = [mem EXCEPT ![t] = told] /\ chain' = chain
    <3>1. \A u \in Tasks : mem'[u].state = mem[u].state
      BY <1>1, <2>1, <2>4 DEF Typed
    <3> QED
      BY <2>3, <2>4, <3>1 DEF LogInv, Linked
  <2>5. CASE \E s \in {"WAITING_QUEUE", "RUNNING"} :
               CanTransition(told.state, s) /\ Move(t, Through(told, <<s>>))
    BY <1>2, <2>1, <2>3, <2>5 DEF TaskState
  <2> QED
    BY <2>2, <2>4, <2>5
<1>4. CASE ReturnInterrupted(t)
  BY <1>4 DEF ReturnInterrupted, LogInv, Linked
<1>5. CASE ReturnSuccess(t)
  <2> DEFINE path == IF CanTransition(mem[t].state, "CHECKOUT") THEN <<"CHECKOUT", "SUCCESS">>
                                                                ELSE <<"SUCCESS">>
             recs == Through(mem[t], path)
  <2>1. {"CHECKOUT", "SUCCESS"} \subseteq TaskState
    BY DEF TaskState
  <2>2. Quiet /\ UNCHANGED <<phase, logged>> /\ Move(t, recs) /\ CanComplete(mem[t].state)
    BY <1>5 DEF ReturnSuccess
  <2>3. CASE CanTransition(mem[t].state, "CHECKOUT")
    <3>1. Follows(mem[t].state, "CHECKOUT") /\ CanTransition("CHECKOUT", "SUCCESS")
      BY <2>3 DEF Follows, CanTransition, Transitions, TaskState
    <3>2. /\ Through(mem[t], <<"CHECKOUT", "SUCCESS">>) \in Seq(Rec)
          /\ Through(mem[t], <<"CHECKOUT", "SUCCESS">>) # <<>>
          /\ Path(mem[t].state, Through(mem[t], <<"CHECKOUT", "SUCCESS">>))
      BY <1>1, <2>1, <3>1, PathFacts, TwoSteps
    <3>3. Move(t, Through(mem[t], <<"CHECKOUT", "SUCCESS">>))
      BY <2>2, <2>3
    <3> QED
      BY <1>1, <2>2, <3>2, <3>3, MoveLog
  <2>4. CASE ~CanTransition(mem[t].state, "CHECKOUT")
    <3>1. CanTransition(mem[t].state, "SUCCESS")
      BY <2>2, <2>4 DEF CanComplete, CanTransition, Transitions, TaskState
    <3>2. Move(t, Through(mem[t], <<"SUCCESS">>))
      BY <2>2, <2>4
    <3> QED
      BY <1>1, <1>2, <2>1, <2>2, <3>1, <3>2
  <2> QED
    BY <2>3, <2>4
<1>6. CASE ReturnFailure(t)
  <2> DEFINE failed == [mem[t] EXCEPT !.state = "FAILED"]
             retry == [failed EXCEPT !.state = "RETRYING", !.retries = @ + 1]
  <2>1. Quiet /\ UNCHANGED <<phase, logged>> /\ CanTransition(mem[t].state, "FAILED")
    BY <1>6 DEF ReturnFailure
  <2>2. \/ failed.retries < MaxRetries /\ Move(t, <<failed, retry>>)
        \/ Move(t, <<failed>>)
    BY <1>6 DEF ReturnFailure
  <2>3. failed \in Rec
    BY <1>1, FailedFacts
  <2>4. failed.state = "FAILED" /\ retry.state = "RETRYING"
    BY <1>1 DEF Rec
  <2>5. Follows(mem[t].state, "FAILED") /\ CanTransition("FAILED", "RETRYING")
    BY <2>1 DEF Follows, CanTransition, Transitions, TaskState
  <2> HIDE DEF failed
  <2>6. failed.retries < MaxRetries => retry \in Rec
    BY <2>3, RetryFacts
  <2> HIDE DEF retry
  <2>7. ASSUME failed.retries < MaxRetries, Move(t, <<failed, retry>>) PROVE LogInv'
    <3> DEFINE recs == <<failed, retry>>
    <3>1. recs \in Seq(Rec) /\ Len(recs) = 2 /\ recs[1] = failed /\ recs[2] = retry /\ recs # <<>>
      BY <2>3, <2>6, <2>7
    <3>2. Move(t, recs)
      BY <2>7
    <3> HIDE DEF recs
    <3>3. 1 .. Len(recs) = {1, 2} /\ 1 .. Len(recs) - 1 = {1} /\ 1 + 1 = 2
      BY <3>1
    <3>4. Path(mem[t].state, recs)
      BY <2>4, <2>5, <3>1, <3>3 DEF Path
    <3> QED
      BY <1>1, <2>1, <3>1, <3>2, <3>4, MoveLog
  <2>8. ASSUME Move(t, <<failed>>) PROVE LogInv'
    <3> DEFINE recs == <<failed>>
    <3>1. recs \in Seq(Rec) /\ Len(recs) = 1 /\ recs[1] = failed /\ recs # <<>>
      BY <2>3
    <3>2. Move(t, recs)
      BY <2>8
    <3> HIDE DEF recs
    <3>3. 1 .. Len(recs) = {1} /\ 1 .. Len(recs) - 1 = {}
      BY <3>1
    <3>4. Path(mem[t].state, recs)
      BY <2>4, <2>5, <3>1, <3>3 DEF Path
    <3> QED
      BY <1>1, <2>1, <3>1, <3>2, <3>4, MoveLog
  <2> QED
    BY <2>2, <2>7, <2>8
<1>7. CASE ReturnRefused(t)
  BY <1>7 DEF ReturnRefused, LogInv, Linked
<1>8. CASE RetryFires(t)
  <2>1. Quiet /\ UNCHANGED <<phase, logged>>
    BY <1>8 DEF RetryFires, ghosts
  <2>2. CASE UNCHANGED <<mem, chain>>
    BY <2>1, <2>2 DEF LogInv, Linked
  <2>3. CASE mem[t].state = "RETRYING" /\ BeginOrWait(t, Through(mem[t], <<"QUEUED">>))
    <3> DEFINE recs == Through(mem[t], <<"QUEUED">>)
               begun == Begun(Last(recs))
    <3>1. CanTransition(mem[t].state, "QUEUED") /\ "QUEUED" \in TaskState
      BY <2>3 DEF CanTransition, Transitions, TaskState
    <3>2. recs \in Seq(Rec) /\ recs # <<>> /\ Len(recs) = 1 /\ recs[1].state = "QUEUED"
      BY <1>1, <3>1, PathFacts
    <3>3. Last(recs) \in Rec
      <4> HIDE DEF recs
      <4> QED
        BY <3>2 DEF Last
    <3>4. /\ begun \in Seq(Rec) /\ Len(begun) = 2
          /\ begun[1].state = "STARTING" /\ begun[2].state = "RUNNING"
      <4> DEFINE path == <<"STARTING", "RUNNING">>
      <4>1. path \in Seq(TaskState \cup {"ABSENT"}) /\ Len(path) = 2
            /\ path[1] = "STARTING" /\ path[2] = "RUNNING"
        BY DEF TaskState
      <4>2. begun = Through(Last(recs), path)
        BY DEF Begun
      <4> HIDE DEF path, recs, begun
      <4> QED
        BY <3>3, <4>1, <4>2, ThroughFacts
    <3>5. Move(t, recs) \/ Move(t, recs \o begun)
      BY <2>3 DEF BeginOrWait
    <3> HIDE DEF recs, begun
    <3>6. CASE Move(t, recs)
      BY <1>1, <1>2, <2>1, <3>1, <3>6 DEF recs
    <3>7. CASE Move(t, recs \o begun)
      <4> DEFINE all == recs \o begun
      <4>1. all \in Seq(Rec) /\ Len(all) = 3 /\ all[1] = recs[1] /\ all[2] = begun[1] /\ all[3] = begun[2]
        BY <3>2, <3>4, OneMore
      <4>2. all # <<>>
        BY <3>2, <3>4, ConcatFacts
      <4>3. Move(t, all)
        BY <3>7
      <4> HIDE DEF all
      <4>4. 1 .. Len(all) = {1, 2, 3} /\ 1 .. Len(all) - 1 = {1, 2} /\ 1 + 1 = 2 /\ 2 + 1 = 3
        BY <4>1
      <4>5. /\ CanTransition("QUEUED", "STARTING") /\ CanTransition("STARTING", "RUNNING")
            /\ Follows(mem[t].state, "QUEUED")
        BY <3>1 DEF CanTransition, Transitions, TaskState, Follows
      <4>6. Path(mem[t].state, all)
        BY <3>2, <3>4, <4>1, <4>4, <4>5 DEF Path
      <4> QED
        BY <1>1, <2>1, <4>1, <4>2, <4>3, <4>6, MoveLog
    <3> QED
      BY <3>5, <3>6, <3>7
  <2> QED
    BY <1>8, <2>2, <2>3 DEF RetryFires
<1> QED
  BY <1>3, <1>4, <1>5, <1>6, <1>7, <1>8 DEF Return

(* What drainQueue begins follows what its tasks are: each of them is        *)
(* QUEUED, and is begun once.                                                *)
LEMMA BeginsLinked ==
  ASSUME Typed, NEW S \in SUBSET Tasks, IsFiniteSet(S), \A t \in S : mem[t].state = "QUEUED",
         NEW order, order = SetToSeq(S)
  PROVE  /\ Begins(mem, order) \in Seq(Snapshot)
         /\ Linked(Begins(mem, order), StatesNow) /\ NoneAbsent(Begins(mem, order))
         /\ \A t \in S : Mentions(Begins(mem, order), t)
<1> DEFINE n == Len(order)
           b == Begins(mem, order)
<1>1. n \in Nat /\ n = Cardinality(S) /\ \A i \in 1 .. n : order[i] \in S
  BY OrderFacts, FS_CardinalityType
<1>2. \A i, j \in 1 .. n : order[i] = order[j] => i = j
  BY <1>1, OrderFacts
<1>3. b = [i \in 1 .. 2 * n |->
            [task |-> order[(i + 1) \div 2],
             rec |-> Begun(mem[order[(i + 1) \div 2]])[2 - (i % 2)]]]
  BY DEF Begins
<1>4. b \in Seq(Snapshot) /\ \A t \in S : Mentions(b, t)
  BY BeginsFacts DEF Typed, Mentions
<1>5. Len(b) = 2 * n
  BY <1>1, <1>3
<1>6. ASSUME NEW rec \in Rec
      PROVE  Begun(rec)[1].state = "STARTING" /\ Begun(rec)[2].state = "RUNNING"
  <2> DEFINE path == <<"STARTING", "RUNNING">>
  <2>1. path \in Seq(TaskState \cup {"ABSENT"}) /\ Len(path) = 2
        /\ path[1] = "STARTING" /\ path[2] = "RUNNING"
    BY DEF TaskState
  <2>2. Begun(rec) = Through(rec, path)
    BY DEF Begun
  <2> HIDE DEF path
  <2> QED
    BY <2>1, <2>2, ThroughFacts
<1>7. \A i \in 1 .. 2 * n : (i + 1) \div 2 \in 1 .. n
  BY <1>1
<1>8. ASSUME NEW i \in 1 .. 2 * n
      PROVE  /\ b[i].task = order[(i + 1) \div 2] /\ b[i].task \in S
             /\ b[i].rec.state = IF i % 2 = 1 THEN "STARTING" ELSE "RUNNING"
  <2>1. /\ b[i].task = order[(i + 1) \div 2]
        /\ b[i].rec = Begun(mem[order[(i + 1) \div 2]])[2 - (i % 2)]
    BY <1>3
  <2>2. order[(i + 1) \div 2] \in S
    BY <1>1, <1>7
  <2>3. mem[order[(i + 1) \div 2]] \in Rec
    BY <2>2 DEF Typed
  <2>4. (i % 2 = 1 /\ 2 - (i % 2) = 1) \/ (i % 2 = 0 /\ 2 - (i % 2) = 2)
    BY <1>1
  <2> HIDE DEF b, n
  <2> QED
    BY <1>6, <2>1, <2>2, <2>3, <2>4
<1> HIDE DEF b, n
<1>9. NoneAbsent(b)
  BY <1>5, <1>8 DEF NoneAbsent
<1>10. ASSUME NEW i \in 1 .. 2 * n, i % 2 = 0
       PROVE  i - 1 \in 1 .. 2 * n /\ b[i - 1].task = b[i].task /\ (i - 1) % 2 = 1
  <2>1. i - 1 \in 1 .. 2 * n /\ (i - 1) % 2 = 1 /\ ((i - 1) + 1) \div 2 = (i + 1) \div 2
    BY <1>1, <1>10
  <2> QED
    BY <1>8, <2>1
<1>11. FollowsKnown(b, StatesNow)
  <2> SUFFICES ASSUME NEW j \in 1 .. 2 * n, \A i \in 1 .. j - 1 : b[i].task # b[j].task
               PROVE  Follows(StatesNow[b[j].task], b[j].rec.state)
    BY <1>5 DEF FollowsKnown
  <2>1. j % 2 = 1
    <3> SUFFICES ASSUME j % 2 # 1 PROVE FALSE
      OBVIOUS
    <3>1. j % 2 = 0
      BY <1>1
    <3>2. j - 1 \in 1 .. j - 1 /\ b[j - 1].task = b[j].task
      BY <1>1, <1>10, <3>1
    <3> QED
      BY <3>2
  <2>2. b[j].rec.state = "STARTING" /\ StatesNow[b[j].task] = "QUEUED"
    BY <1>8, <2>1 DEF StatesNow
  <2>3. Follows("QUEUED", "STARTING")
    BY DEF Follows, CanTransition, Transitions, TaskState
  <2> QED
    BY <2>2, <2>3
<1>12. FollowsPrevious(b)
  <2> SUFFICES ASSUME NEW i \in 1 .. 2 * n, NEW j \in 1 .. 2 * n, i < j, b[i].task = b[j].task,
                      \A k \in i + 1 .. j - 1 : b[k].task # b[j].task
               PROVE  CanTransition(b[i].rec.state, b[j].rec.state)
    BY <1>5 DEF FollowsPrevious
  <2>1. (i + 1) \div 2 = (j + 1) \div 2
    BY <1>2, <1>7, <1>8
  <2>2. i % 2 = 1 /\ j % 2 = 0
    BY <1>1, <2>1
  <2>3. CanTransition("STARTING", "RUNNING")
    BY DEF CanTransition, Transitions, TaskState
  <2> QED
    BY <1>8, <2>2, <2>3
<1> QED
  BY <1>4, <1>9, <1>11, <1>12 DEF Linked, b

LEMMA MentionsJoined ==
  ASSUME NEW c \in Seq(Snapshot), NEW b \in Seq(Snapshot), NEW t
  PROVE  Mentions(c, t) \/ Mentions(b, t) => Mentions(c \o b, t)
<1>1. /\ Len(c) \in Nat /\ Len(b) \in Nat /\ Len(c \o b) = Len(c) + Len(b)
      /\ \A i \in 1 .. Len(c) : (c \o b)[i] = c[i]
      /\ \A i \in 1 .. Len(b) : (c \o b)[Len(c) + i] = b[i]
  OBVIOUS
<1>2. \A i \in 1 .. Len(c) : i \in 1 .. Len(c \o b)
  BY <1>1
<1>3. \A i \in 1 .. Len(b) : Len(c) + i \in 1 .. Len(c \o b)
  BY <1>1
<1>4. ASSUME Mentions(c, t) PROVE Mentions(c \o b, t)
  <2>1. PICK i \in 1 .. Len(c) : c[i].task = t
    BY <1>4 DEF Mentions
  <2>2. i \in 1 .. Len(c \o b) /\ (c \o b)[i].task = t
    BY <1>1, <1>2, <2>1
  <2> QED
    BY <2>2 DEF Mentions
<1>5. ASSUME Mentions(b, t) PROVE Mentions(c \o b, t)
  <2>1. PICK i \in 1 .. Len(b) : b[i].task = t
    BY <1>5 DEF Mentions
  <2>2. Len(c) + i \in 1 .. Len(c \o b) /\ (c \o b)[Len(c) + i].task = t
    BY <1>1, <1>3, <2>1
  <2> QED
    BY <2>2 DEF Mentions
<1> QED
  BY <1>4, <1>5

LEMMA ContinueLog ==
  ASSUME RowInv, AskedInv, LogInv, IsFiniteSet(Tasks), Continue
  PROVE  LogInv'
<1>1. Alive /\ UNCHANGED <<phase, logged>>
  BY DEF Continue
<1>2. PICK queue \in SUBSET Tasks, calls \in SUBSET running : Drain(mem, queue, calls)
  <2>1. PICK call \in cont : \/ Drain(mem, pending, running)
                            \/ Drain(mem, pending \cup {call.task}, running)
                            \/ Drain(mem, pending, running \ {call.task})
    BY DEF Continue
  <2>2. pending \in SUBSET Tasks /\ pending \cup {call.task} \in SUBSET Tasks
    BY DEF RowInv, AskedInv, Call
  <2> QED
    BY <2>1, <2>2
<1>3. PICK S \in SUBSET Startable(mem, queue, calls) :
        /\ mem' = [t \in Tasks |-> IF t \in S THEN Last(Begun(mem[t])) ELSE mem[t]]
        /\ chain' = IF phase = "cleaned" THEN chain ELSE chain \o Begins(mem, SetToSeq(S))
  BY <1>2 DEF Drain
<1> DEFINE b == Begins(mem, SetToSeq(S))
<1>4. S \in SUBSET Tasks /\ \A t \in S : mem[t].state = "QUEUED"
  BY DEF Startable
<1>5. IsFiniteSet(S) /\ Typed
  BY <1>4, FS_Subset DEF RowInv
<1>6. b \in Seq(Snapshot) /\ Linked(b, StatesNow) /\ NoneAbsent(b) /\ \A t \in S : Mentions(b, t)
  BY <1>4, <1>5, BeginsLinked
<1> HIDE DEF b
<1>7. CASE phase = "cleaned"
  BY <1>1, <1>3, <1>7 DEF LogInv, Linked
<1>8. CASE phase # "cleaned"
  <2>1. phase \in {"up", "closing"} /\ chain' = chain \o b
    BY <1>1, <1>3, <1>8 DEF LogInv, Alive, b
  <2>2. chain \in Seq(Snapshot) /\ Linked(chain, logged) /\ NoneAbsent(chain)
    BY DEF RowInv, Typed, LogInv
  <2>3. \A t \in Tasks : StatesNow[t] = mem[t].state
    BY DEF StatesNow
  <2>4. \A i \in 1 .. Len(chain) : \/ chain[i].rec.state = StatesNow[chain[i].task]
                                   \/ \E j \in i + 1 .. Len(chain) : chain[j].task = chain[i].task
    <3>1. \A i \in 1 .. Len(chain) : chain[i].task \in Tasks
      BY <2>2, EntryFacts
    <3> QED
      BY <2>1, <2>3, <3>1 DEF RowInv, Settled, ChainEnds
  <2>5. \A t \in Tasks : Mentions(chain, t) \/ logged[t] \in {"none", StatesNow[t]}
    BY <2>1, <2>3 DEF LogInv
  <2>6. Linked(chain \o b, logged) /\ NoneAbsent(chain \o b)
    BY <1>6, <2>2, <2>4, <2>5, AppendLinked
  <2>7. ASSUME NEW t \in Tasks
        PROVE  Mentions(chain', t) \/ logged[t] \in {"none", mem'[t].state}
    <3>1. /\ Mentions(chain, t) => Mentions(chain \o b, t)
          /\ Mentions(b, t) => Mentions(chain \o b, t)
      BY <1>6, <2>2, MentionsJoined
    <3>2. t \notin S => mem'[t] = mem[t]
      BY <1>3
    <3> QED
      BY <1>6, <2>1, <2>3, <2>5, <3>1, <3>2
  <2> QED
    BY <1>1, <2>1, <2>6, <2>7 DEF LogInv
<1> QED
  BY <1>7, <1>8

(* The oldest snapshot becomes the latest entry of its task.                 *)
LEMMA WriteLog == ASSUME RowInv, LogInv, WriteNext PROVE LogInv'
<1> DEFINE e == Head(chain)
           n == Len(chain)
<1>1. Alive /\ chain # <<>> /\ chain' = Tail(chain) /\ UNCHANGED <<phase, mem>>
  BY DEF WriteNext
<1>2. \E s \in {e.rec.state, "none"} : logged' = [logged EXCEPT ![e.task] = s]
  BY DEF WriteNext, RecordDone, RecordThrows
<1>3. chain \in Seq(Snapshot) /\ NoneAbsent(chain) /\ logged \in [Tasks -> TaskState \cup {"none"}]
  BY DEF RowInv, Typed, LogInv
<1>4. /\ n \in Nat /\ n > 0 /\ e = chain[1] /\ e \in Snapshot
      /\ Len(chain') = n - 1 /\ \A i \in 1 .. n - 1 : chain'[i] = chain[i + 1]
  BY <1>1, <1>3
<1>5. e.task \in Tasks /\ e.rec.state \in TaskState
  BY <1>3, <1>4, EntryFacts DEF NoneAbsent
<1> HIDE DEF e, n
<1>6. /\ logged' \in [Tasks -> TaskState \cup {"none"}]
      /\ logged'[e.task] \in {e.rec.state, "none"}
      /\ \A t \in Tasks \ {e.task} : logged'[t] = logged[t]
  BY <1>2, <1>3, <1>5
<1>7. NoneAbsent(chain')
  <2> SUFFICES ASSUME NEW i \in 1 .. n - 1 PROVE chain'[i].rec.state # "ABSENT"
    BY <1>4 DEF NoneAbsent
  <2>1. i + 1 \in 1 .. n
    BY <1>4
  <2> QED
    BY <1>3, <1>4, <2>1 DEF NoneAbsent, n
<1>8. FollowsPrevious(chain')
  <2> SUFFICES ASSUME NEW i \in 1 .. n - 1, NEW j \in 1 .. n - 1, i < j,
                      chain'[i].task = chain'[j].task,
                      \A k \in i + 1 .. j - 1 : chain'[k].task # chain'[j].task
               PROVE  CanTransition(chain'[i].rec.state, chain'[j].rec.state)
    BY <1>4 DEF FollowsPrevious
  <2>1. i + 1 \in 1 .. n /\ j + 1 \in 1 .. n /\ i + 1 < j + 1
    BY <1>4
  <2>2. ASSUME NEW k \in (i + 1) + 1 .. (j + 1) - 1 PROVE chain[k].task # chain[j + 1].task
    <3>1. k - 1 \in i + 1 .. j - 1 /\ k - 1 \in 1 .. n - 1 /\ (k - 1) + 1 = k
      BY <1>4
    <3> QED
      BY <1>4, <3>1
  <2>3. CanTransition(chain[i + 1].rec.state, chain[j + 1].rec.state)
    BY <1>4, <2>1, <2>2 DEF LogInv, Linked, FollowsPrevious, n
  <2> QED
    BY <1>4, <2>3
<1>9. FollowsKnown(chain', logged')
  <2> SUFFICES ASSUME NEW j \in 1 .. n - 1, \A i \in 1 .. j - 1 : chain'[i].task # chain'[j].task
               PROVE  Follows(logged'[chain'[j].task], chain'[j].rec.state)
    BY <1>4 DEF FollowsKnown
  <2>1. j + 1 \in 1 .. n /\ 1 \in 1 .. n /\ 1 < j + 1 /\ chain'[j] = chain[j + 1]
    BY <1>4
  <2>2. ASSUME NEW k \in 1 + 1 .. (j + 1) - 1 PROVE chain[k].task # chain[j + 1].task
    <3>1. k - 1 \in 1 .. j - 1 /\ k - 1 \in 1 .. n - 1 /\ (k - 1) + 1 = k
      BY <1>4
    <3> QED
      BY <1>4, <2>1, <3>1
  <2>3. CASE chain[j + 1].task = e.task
    <3>1. CanTransition(e.rec.state, chain[j + 1].rec.state)
      BY <1>4, <2>1, <2>2, <2>3 DEF LogInv, Linked, FollowsPrevious, n
    <3> QED
      BY <1>6, <2>1, <2>3, <3>1 DEF Follows
  <2>4. CASE chain[j + 1].task # e.task
    <3>1. \A i \in 1 .. (j + 1) - 1 : i = 1 \/ i \in 1 + 1 .. (j + 1) - 1
      BY <1>4
    <3>2. Follows(logged[chain[j + 1].task], chain[j + 1].rec.state)
      BY <1>4, <2>1, <2>2, <2>4, <3>1 DEF LogInv, Linked, FollowsKnown, n
    <3>3. chain[j + 1].task \in Tasks
      BY <1>3, <2>1, EntryFacts DEF n
    <3> QED
      BY <1>6, <2>1, <2>4, <3>2, <3>3
  <2> QED
    BY <2>3, <2>4
<1>10. ASSUME phase \in {"up", "closing"}, NEW t \in Tasks, ~Mentions(chain', t)
       PROVE  logged'[t] \in {"none", mem[t].state}
  <2>1. ASSUME NEW j \in 2 .. n PROVE chain[j].task # t
    <3>1. j - 1 \in 1 .. n - 1 /\ (j - 1) + 1 = j
      BY <1>4
    <3> QED
      BY <1>4, <1>10, <3>1 DEF Mentions
  <2>2. CASE t = e.task
    <3>1. e.rec = mem[t]
      <4>1. 1 \in 1 .. n /\ 1 + 1 = 2
        BY <1>4
      <4> QED
        BY <1>4, <1>10, <2>1, <2>2, <4>1 DEF RowInv, Settled, ChainEnds, n
    <3> QED
      BY <1>6, <2>2, <3>1
  <2>3. CASE t # e.task
    <3>1. ~Mentions(chain, t)
      <4>1. \A j \in 1 .. n : j = 1 \/ j \in 2 .. n
        BY <1>4
      <4> QED
        BY <1>4, <2>1, <2>3, <4>1 DEF Mentions, n
    <3> QED
      BY <1>6, <1>10, <2>3, <3>1 DEF LogInv
  <2> QED
    BY <2>2, <2>3
<1> QED
  BY <1>1, <1>6, <1>7, <1>8, <1>9, <1>10 DEF LogInv, Linked, Alive

(* A session begins with an empty log: nothing is known of any task, and     *)
(* each task that is recovered has one snapshot.                             *)
LEMMA BoundaryLog ==
  ASSUME RowInv, LogInv, IsFiniteSet(Tasks),
         Quit \/ Cleanup \/ CloseStore \/ Crash \/ Restart \/ RestartFails
  PROVE  LogInv'
<1>1. CASE Quit \/ Cleanup
  <2>1. UNCHANGED <<mem, chain, logged>> /\ phase' \in {"closing", "cleaned"}
        /\ (phase' = "closing" => phase = "up")
    BY <1>1 DEF Quit, Cleanup, ghosts
  <2> QED
    BY <2>1 DEF LogInv, Linked
<1>2. CASE CloseStore \/ Crash
  <2>1. phase' = "down" /\ chain' = <<>> /\ logged' = [t \in Tasks |-> "none"]
    BY <1>2 DEF CloseStore, Crash, Gone
  <2> QED
    BY <2>1, EmptyLinked DEF LogInv
<1>3. CASE RestartFails
  BY <1>3 DEF RestartFails, ghosts, LogInv, Linked
<1>4. CASE Restart
  <2> DEFINE n == Cardinality(Recovered)
             task(i) == SetToSeq(Recovered)[i]
  <2>1. phase = "down" /\ phase' = "up" /\ logged' = logged
    BY <1>4 DEF Restart, ghosts
  <2>2. logged \in [Tasks -> TaskState \cup {"none"}] /\ \A t \in Tasks : logged[t] = "none"
    BY <2>1 DEF LogInv
  <2>3. Recovered \in SUBSET Tasks /\ IsFiniteSet(Recovered)
    BY FS_Subset DEF Recovered
  <2>4. /\ n \in Nat /\ \A i \in 1 .. n : task(i) \in Recovered
        /\ \A i, j \in 1 .. n : task(i) = task(j) => i = j
    BY <2>3, OrderFacts, FS_CardinalityType
  <2>5. chain' = [i \in 1 .. n |-> [task |-> task(i), rec |-> Reload(row[task(i)])]]
    BY <1>4 DEF Restart
  <2> HIDE DEF n, task
  <2>6. Len(chain') = n /\ \A i \in 1 .. n : /\ chain'[i].task = task(i)
                                          /\ chain'[i].rec = Reload(row[task(i)])
    BY <2>4, <2>5
  <2>7. FollowsKnown(chain', logged') /\ FollowsPrevious(chain')
    BY <2>1, <2>2, <2>3, <2>4, <2>6 DEF FollowsKnown, FollowsPrevious, Follows
  <2>8. ASSUME NEW t \in Recovered PROVE Reload(row[t]).state # "ABSENT"
    <3>1. row[t] \in Rec /\ Reload(row[t]) # row[t]
      BY DEF Recovered, RowInv, Typed
    <3>2. Reload(row[t]) = [row[t] EXCEPT !.state = Restored(row[t].state)]
      BY DEF Reload
    <3>3. row[t] = [row[t] EXCEPT !.state = row[t].state]
      BY <3>1 DEF Rec
    <3>4. Restored(row[t].state) # row[t].state
      BY <3>1, <3>2, <3>3
    <3>5. Restored(row[t].state) # "ABSENT"
      BY <3>4 DEF Restored
    <3> QED
      BY <3>1, <3>5, ReloadFacts
  <2>9. NoneAbsent(chain')
    BY <2>4, <2>6, <2>8 DEF NoneAbsent
  <2> QED
    BY <2>1, <2>2, <2>7, <2>9 DEF LogInv, Linked
<1> QED
  BY <1>1, <1>2, <1>3, <1>4

LEMMA InitLog == Init => LogInv
<1> SUFFICES ASSUME Init PROVE LogInv
  OBVIOUS
<1>1. phase = "down" /\ chain = <<>> /\ logged = [t \in Tasks |-> "none"]
  BY DEF Init
<1> QED
  BY <1>1, EmptyLinked DEF LogInv

LEMMA StepLog ==
  ASSUME RowInv, AskedInv, LogInv, IsFiniteSet(Tasks), [Next]_vars
  PROVE  LogInv'
<1>1. CASE UNCHANGED vars
  BY <1>1 DEF vars, ghosts, LogInv, Linked
<1> QED
  BY <1>1, WriteLog, ContinueLog, CommandLog, RunLog, BoundaryLog DEF Next

(* Only a write makes an entry, and the end of a session forgets them all.   *)
LEMMA EntryStep ==
  ASSUME RowInv, LogInv, [Next]_vars, NEW t \in Tasks,
         logged[t] # logged'[t], logged[t] # "none", logged'[t] # "none"
  PROVE  CanTransition(logged[t], logged'[t])
<1>1. CASE WriteNext
  <2> DEFINE e == Head(chain)
  <2>1. chain \in Seq(Snapshot) /\ chain # <<>>
    BY <1>1 DEF WriteNext, RowInv, Typed
  <2>2. Len(chain) \in Nat /\ 1 \in 1 .. Len(chain) /\ e = chain[1] /\ \A i \in 1 .. 1 - 1 : FALSE
    BY <2>1
  <2>3. e.task \in Tasks
    BY <2>1, <2>2, EntryFacts
  <2>4. \E s \in {e.rec.state, "none"} : logged' = [logged EXCEPT ![e.task] = s]
    BY <1>1 DEF WriteNext, RecordDone, RecordThrows
  <2> HIDE DEF e
  <2>5. t = e.task /\ logged'[t] = e.rec.state
    BY <2>3, <2>4 DEF LogInv
  <2>6. Follows(logged[t], e.rec.state)
    BY <2>2, <2>5 DEF LogInv, Linked, FollowsKnown
  <2>7. logged[t] # "ABSENT"
    BY DEF LogInv, TaskState
  <2> QED
    BY <2>5, <2>6, <2>7 DEF Follows
<1>2. CASE ~WriteNext
  <2>1. logged' = logged \/ logged' = [u \in Tasks |-> "none"]
    <3>1. CASE UNCHANGED vars
      BY <3>1 DEF vars, ghosts
    <3>2. CASE Continue
      BY <3>2 DEF Continue
    <3>3. ASSUME NEW u \in Tasks,
                 Command(u) \/ RetryFires(u) \/ \E block \in BOOLEAN : Progress(u, block)
          PROVE  logged' = logged
      BY <3>3 DEF Command, CreateTask, StartTask, PauseTask, ResumeTask, CancelTask, Progress,
                  RetryFires, ghosts
    <3>4. ASSUME NEW u \in Tasks, Return(u) PROVE logged' = logged
      BY <3>4 DEF Return, ReturnSuccess, ReturnRefused, ReturnInterrupted, ReturnFailure
    <3>5. CASE Quit \/ Cleanup \/ Restart \/ RestartFails
      BY <3>5 DEF Quit, Cleanup, Restart, RestartFails, ghosts
    <3>6. CASE CloseStore \/ Crash
      BY <3>6 DEF CloseStore, Crash, Gone
    <3> QED
      BY <1>2, <3>1, <3>2, <3>3, <3>4, <3>5, <3>6 DEF Next
  <2> QED
    BY <2>1
<1> QED
  BY <1>1, <1>2

(* The log of a session is, for each task and as long as no write fails, a   *)
(* path of the transition table: the chain keeps the order of the emits,     *)
(* whatever is begun, paused or saved directly in between                    *)
(* (TaskPersistenceCoordinator.enqueue, StateMachine.transition).            *)
THEOREM LogIsPath == ASSUME IsFiniteSet(Tasks) PROVE Spec => LogFollowsTable
<1>1. RowInv /\ AskedInv /\ LogInv /\ [Next]_vars => LogInv'
  BY StepLog
<1>2. ASSUME RowInv, LogInv, [Next]_vars
      PROVE  [\A t \in Tasks :
                logged[t] # logged'[t] /\ logged[t] # "none" /\ logged'[t] # "none"
                  => CanTransition(logged[t], logged'[t])]_vars
  BY <1>2, EntryStep
<1> QED
  BY RowsFollow, InitLog, <1>1, <1>2, PTL DEF Spec, LogFollowsTable
===============================================================================
