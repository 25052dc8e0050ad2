------------------------------ MODULE DeskProofs ------------------------------
(***************************************************************************)
(* Theorems about the parts of the desktop program, for any workers,       *)
(* tasks, closers, profiles and proxies and any bounds: who holds the lock *)
(* of a profile (ProfileSessions), which records survive (DesktopRecords), *)
(* which service the main process names (VisionService).                   *)
(***************************************************************************)
EXTENDS MCDesk, TLAPS

-------------------------------------------------------------------------------
(***************************************************************************)
(* ProfileSessions: who holds the lock of a profile.                       *)
(***************************************************************************)

\* The main process is none of the workers.
Apart == "main" \notin Workers

LEMMA NamesDiffer ==
  ASSUME Apart
  PROVE  /\ Manual \notin Contexts /\ Remover \notin Contexts
         /\ Manual # Remover
  BY DEF Apart, Manual, Remover, Contexts

(* A lock names its owner.                                                   *)
Locks == [owner : {Nobody, Manual, Remover} \cup Contexts, live : BOOLEAN]
LockShape == lock \in Locks

LEMMA LockFacts ==
  /\ NoLock \in Locks /\ LockOf(Manual) \in Locks /\ LockOf(Remover) \in Locks
  /\ \A c \in Contexts : LockOf(c) \in Locks
  /\ \A l \in Locks : [l EXCEPT !.live = FALSE] \in Locks /\ ~[l EXCEPT !.live = FALSE].live
  /\ ~NoLock.live
  /\ \A l \in Locks : \A o : l = LockOf(o) <=> l.live /\ l.owner = o
<1>1. \A l \in Locks : [l EXCEPT !.live = FALSE] \in Locks /\ ~[l EXCEPT !.live = FALSE].live
  BY DEF Locks
<1>2. \A l \in Locks : \A o : l = LockOf(o) <=> l.live /\ l.owner = o
  BY DEF Locks, LockOf
<1>3. NoLock \in Locks /\ ~NoLock.live /\ LockOf(Manual) \in Locks /\ LockOf(Remover) \in Locks
  BY DEF Locks, LockOf, NoLock
<1>4. \A c \in Contexts : LockOf(c) \in Locks
  BY DEF Locks, LockOf
<1> QED
  BY <1>1, <1>2, <1>3, <1>4

(* The manual browsers: a listed one runs, a call that waits for the answer  *)
(* of one does so while it runs, and the directory is never removed beside   *)
(* one.                                                                      *)
Call == [at : {"idle", "closed", "exit", "remove"}, of : {0} \cup Sess, reset : BOOLEAN]

ManualShape ==
  /\ entry \in {0} \cup Sess /\ opening \subseteq Sess
  /\ child \in [Sess -> {"unused", "starting", "ready", "signalled", "gone"}]
  /\ leased \in [Sess -> BOOLEAN]
  /\ closer \in [Closers -> Call]

ListedRuns ==
  /\ entry # 0 => ManualRuns(entry)
  /\ \A k \in Closers : closer[k].at = "closed" => closer[k].of \in Sess /\ ManualRuns(closer[k].of)

RemovedAlone == removing # "no" => \A s \in Sess : ~ManualRuns(s)

ManualInv == LockShape /\ ManualShape /\ ListedRuns /\ RemovedAlone /\ ManualBrowserKeepsLock

LEMMA InitManual == SessionsInit => ManualInv
<1> SUFFICES ASSUME SessionsInit PROVE ManualInv
  OBVIOUS
<1> USE DEF SessionsInit
<1>1. LockShape
  BY LockFacts DEF LockShape
<1>2. ManualShape
  BY DEF ManualShape, Call, Sess, NotClosing
<1>3. \A s \in Sess : ~ManualRuns(s)
  BY DEF ManualRuns
<1>4. ListedRuns
  BY DEF ListedRuns, NotClosing
<1> QED
  BY <1>1, <1>2, <1>3, <1>4 DEF ManualInv, RemovedAlone, ManualBrowserKeepsLock

(* What the workers do changes nothing of the manual browsers, and the lock  *)
(* only if it is the lock of one of their contexts or free.                  *)
LEMMA WorkerLeaves ==
  ASSUME Apart, LockShape, Worker
  PROVE  /\ UNCHANGED <<manual, main>> /\ LockShape'
         /\ lock = LockOf(Manual) \/ lock = LockOf(Remover) => lock' = lock
         /\ lock' # lock /\ lock'.live => lock'.owner \in Contexts
<1> USE DEF LockShape, LockOf, Released, NoLock, Free
<1>1. ASSUME NEW c \in Contexts,
             \/ CreateContext(c) \/ ContextReady(c) \/ ContextFails(c) \/ CloseContext(c)
             \/ \E how \in {"leased", "bare"} : CloseDone(c, how)
      PROVE  /\ UNCHANGED <<manual, main>> /\ LockShape'
             /\ lock = LockOf(Manual) \/ lock = LockOf(Remover) => lock' = lock
             /\ lock' # lock /\ lock'.live => lock'.owner \in Contexts
  <2>1. UNCHANGED <<manual, main>>
    BY <1>1 DEF CreateContext, ContextReady, ContextFails, CloseContext, CloseDone
  <2>2. lock' \in {lock, NoLock} \/ (Free /\ lock' = LockOf(c))
    BY <1>1 DEF CreateContext, ContextReady, ContextFails, CloseContext, CloseDone
  <2>3. lock' # lock => ~lock.live \/ lock.owner = c
    BY <1>1 DEF CreateContext, ContextReady, ContextFails, CloseContext, CloseDone
  <2>4. LockShape'
    <3> HIDE DEF LockOf, NoLock, Free
    <3> QED
      BY <2>2, LockFacts
  <2>5. lock = LockOf(Manual) \/ lock = LockOf(Remover) => lock' = lock
    BY <2>3, NamesDiffer
  <2>6. lock' # lock /\ lock'.live => lock'.owner \in Contexts
    BY <2>2
  <2> QED
    BY <2>1, <2>4, <2>5, <2>6
<1>2. ASSUME NEW w \in Workers, ShutdownWorker(w) \/ ShutdownEnds(w) \/ WorkerExits(w)
      PROVE  /\ UNCHANGED <<manual, main>> /\ LockShape'
             /\ lock = LockOf(Manual) \/ lock = LockOf(Remover) => lock' = lock
             /\ lock' # lock /\ lock'.live => lock'.owner \in Contexts
  <2>1. UNCHANGED <<manual, main>>
    BY <1>2 DEF ShutdownWorker, ShutdownEnds, WorkerExits
  <2>2. lock' \in {lock, NoLock, [lock EXCEPT !.live = FALSE]}
    BY <1>2 DEF ShutdownWorker, ShutdownEnds, WorkerExits
  <2>3. Of(w) \subseteq Contexts
    BY DEF Of, Contexts
  <2>4. lock' # lock => lock.owner \in Of(w)
    BY <1>2 DEF ShutdownWorker, ShutdownEnds, WorkerExits
  <2>5. LockShape'
    <3> HIDE DEF LockOf, NoLock, Free
    <3> QED
      BY <2>2, LockFacts
  <2>6. lock = LockOf(Manual) \/ lock = LockOf(Remover) => lock' = lock
    BY <2>3, <2>4, NamesDiffer
  <2>7. lock' # lock => ~lock'.live
    <3> HIDE DEF LockOf, NoLock, Free
    <3> QED
      BY <2>2, LockFacts
  <2> QED
    BY <2>1, <2>5, <2>6, <2>7
<1> QED
  BY <1>1, <1>2 DEF Worker

(* While a directory is being removed, or its lock is free, no manual        *)
(* browser runs.                                                             *)
LEMMA NoneRuns ==
  ASSUME ManualInv, Free \/ removing # "no", NEW s \in Sess PROVE ~ManualRuns(s)
  BY LockFacts DEF ManualInv, LockShape, RemovedAlone, ManualBrowserKeepsLock, Free

(* Steps that begin or end no manual browser and leave the lock alone.       *)
LEMMA SameManual ==
  ASSUME ManualInv, UNCHANGED <<lock, entry, leased, removing>>, ManualShape',
         \A s \in Sess : ManualRuns(s) <=> ManualRuns(s)',
         \A k \in Closers : closer'[k].at = "closed" =>
                              closer'[k].of \in Sess /\ ManualRuns(closer'[k].of)
  PROVE  ManualInv'
<1> USE DEF ManualInv
<1>1. ListedRuns'
  BY DEF ListedRuns, ManualShape
<1>2. RemovedAlone'
  BY DEF RemovedAlone
<1>3. ManualBrowserKeepsLock'
  BY DEF ManualBrowserKeepsLock
<1> QED
  BY <1>1, <1>2, <1>3 DEF LockShape

(* A manual browser begins.                                                  *)
LEMMA OpenStep == ASSUME ManualInv, Open PROVE ManualInv'
<1> USE DEF ManualInv
<1>1. CASE UNCHANGED <<lock, manual>>
  BY <1>1, SameManual DEF Open, manual, ManualShape, ListedRuns, ManualRuns
<1>2. CASE entry = 0 /\ Free /\ \E s \in Sess : SpawnManual(s)
  <2> PICK s \in Sess : SpawnManual(s)
    BY <1>2
  <2>1. \A r \in Sess : ~ManualRuns(r)
    BY <1>2, NoneRuns
  <2>2. ManualShape'
    BY DEF SpawnManual, ManualShape
  <2>3. \A r \in Sess : ManualRuns(r)' <=> r = s
    BY <2>1 DEF SpawnManual, ManualShape, ManualRuns
  <2>4. ListedRuns'
    BY <2>1, <2>3 DEF SpawnManual, ListedRuns, Sess
  <2>5. removing = "no" /\ UNCHANGED removing
    BY <1>2 DEF Open, MainFree
  <2>6. RemovedAlone'
    BY <2>5 DEF RemovedAlone
  <2>7. ManualBrowserKeepsLock'
    BY <2>3 DEF ManualBrowserKeepsLock, SpawnManual, ManualShape
  <2>8. LockShape'
    BY LockFacts DEF LockShape, SpawnManual
  <2> QED
    BY <2>2, <2>4, <2>6, <2>7, <2>8
<1> QED
  BY <1>1, <1>2 DEF Open

(* It exits: the call that waits for its answer goes on.                     *)
LEMMA ExitStep == ASSUME ManualInv, NEW s \in Sess, ChildExits(s) PROVE ManualInv'
<1> USE DEF ManualInv
<1>1. \A r \in Sess : ManualRuns(r) <=> r = s
  BY DEF ChildExits, ManualBrowserKeepsLock
<1>2. PICK coded \in BOOLEAN : closer' = [k \in Closers |-> AfterExit(k, s, coded)]
  BY DEF ChildExits
<1>3. ManualShape'
  <2>1. closer' \in [Closers -> Call]
    BY <1>2 DEF AfterExit, NotClosing, ManualShape, Call
  <2> QED
    BY <2>1 DEF ChildExits, ExitHandler, ManualShape
<1>4. \A r \in Sess : ~ManualRuns(r)'
  BY <1>1 DEF ChildExits, ManualRuns, ManualShape
<1>5. \A k \in Closers : closer'[k].at # "closed"
  <2> TAKE k \in Closers
  <2>1. closer'[k] = AfterExit(k, s, coded)
    BY <1>2
  <2>2. closer[k].at = "closed" => closer[k].of = s
    BY <1>1 DEF ListedRuns
  <2> QED
    BY <2>1, <2>2 DEF AfterExit, NotClosing, ManualShape, Call
<1>6. entry' = 0
  BY <1>1 DEF ChildExits, ListedRuns, ManualShape
<1>7. LockShape'
  BY LockFacts DEF ChildExits, ExitHandler, Released, LockShape
<1> QED
  BY <1>3, <1>4, <1>5, <1>6, <1>7 DEF ListedRuns, RemovedAlone, ManualBrowserKeepsLock

(* The directory is removed.                                                 *)
LEMMA RemoveStep ==
  ASSUME ManualInv, ManualShape', UNCHANGED <<entry, child, leased>>,
         \A k \in Closers : closer'[k].at = "closed" => closer'[k] = closer[k],
         \/ BeginRemove
         \/ removing # "no" /\ lock' \in {NoLock, Released(Remover)}
  PROVE  ManualInv'
<1> USE DEF ManualInv
<1>1. LockShape'
  BY LockFacts DEF LockShape, BeginRemove, Released
<1>2. ListedRuns'
  BY DEF ListedRuns, ManualRuns
<1>3. CASE lock' = lock /\ removing' = removing
  BY <1>1, <1>2, <1>3 DEF RemovedAlone, ManualBrowserKeepsLock, ManualRuns
<1>4. CASE Free \/ removing # "no"
  <2>1. \A s \in Sess : ~ManualRuns(s)'
    BY <1>4, NoneRuns DEF ManualRuns
  <2> QED
    BY <1>1, <1>2, <2>1 DEF RemovedAlone, ManualBrowserKeepsLock
<1> QED
  BY <1>3, <1>4 DEF BeginRemove

LEMMA MainStep == ASSUME ManualInv, Main PROVE ManualInv'
<1> USE DEF ManualInv
<1>1. CASE TasksChange \/ AskOpen
  BY <1>1, SameManual DEF TasksChange, AskOpen, manual, main, ManualShape, ListedRuns, ManualRuns
<1>2. CASE Open
  BY <1>2, OpenStep
<1>3. CASE DeleteDirectory \/ RemoveLock \/ EndRemove
  BY <1>3, RemoveStep DEF DeleteDirectory, RemoveLock, EndRemove, manual, ManualShape
<1>4. ASSUME NEW s \in Sess, Ready(s) PROVE ManualInv'
  <2>1. ManualShape'
    BY <1>4 DEF Ready, main, ManualShape
  <2>2. \A r \in Sess : ManualRuns(r) <=> ManualRuns(r)'
    BY <1>4 DEF Ready, ManualRuns, ManualShape
  <2> QED
    BY <1>4, <2>1, <2>2, SameManual DEF Ready, main, ListedRuns
<1>5. ASSUME NEW s \in Sess, ReadyFails(s) PROVE ManualInv'
  <2>1. ManualShape'
    BY <1>5 DEF ReadyFails, main, ManualShape
  <2>2. \A r \in Sess : ManualRuns(r) <=> ManualRuns(r)'
    BY <1>5 DEF ReadyFails, ManualRuns, ManualShape
  <2>3. ListedRuns'
    BY <1>5, <2>2 DEF ReadyFails, ListedRuns
  <2> QED
    BY <1>5, <2>1, <2>2, <2>3 DEF ReadyFails, main, RemovedAlone, ManualBrowserKeepsLock, LockShape
<1>6. ASSUME NEW s \in Sess, ChildExits(s) PROVE ManualInv'
  BY <1>6, ExitStep
<1>7. ASSUME NEW k \in Closers, NEW again \in BOOLEAN, AskClose(k, again) PROVE ManualInv'
  <2>0. PICK c \in Call : closer' = [closer EXCEPT ![k] = c]
    BY <1>7 DEF AskClose, ManualShape, Call
  <2>1. ManualShape'
    BY <1>7, <2>0 DEF AskClose, main, ManualShape
  <2>2. \A j \in Closers : closer'[j].at = "closed" =>
                            closer'[j].of \in Sess /\ ManualRuns(closer'[j].of)
    BY <1>7 DEF AskClose, ListedRuns, ManualShape, Call
  <2> QED
    BY <1>7, <2>1, <2>2, SameManual DEF AskClose, main, ManualRuns
<1>8. ASSUME NEW k \in Closers, CloseAnswered(k) PROVE ManualInv'
  <2> DEFINE s == closer[k].of
  <2>1. s \in Sess /\ ManualRuns(s)
    BY <1>8 DEF CloseAnswered, ListedRuns
  <2>2. child' \in {child, [child EXCEPT ![s] = "signalled"]}
    <3>1. PICK c \in {child[s], "signalled"} : child' = [child EXCEPT ![s] = c]
      BY <1>8 DEF CloseAnswered
    <3>2. [child EXCEPT ![s] = child[s]] = child
      BY <2>1 DEF ManualShape
    <3> QED
      BY <3>1, <3>2
  <2>6. PICK c \in Call : closer' = [closer EXCEPT ![k] = c]
    <3>1. closer[k] \in Call
      BY DEF ManualShape
    <3>2. [closer[k] EXCEPT !.at = "exit"] \in Call
      BY <3>1 DEF Call
    <3> QED
      BY <1>8, <3>2 DEF CloseAnswered
  <2> HIDE DEF s
  <2>3. ManualShape'
    <3>1. child' \in [Sess -> {"unused", "starting", "ready", "signalled", "gone"}]
      BY <2>1, <2>2 DEF ManualShape
    <3>2. closer' \in [Closers -> Call]
      BY <2>6 DEF ManualShape
    <3>3. UNCHANGED <<entry, opening, leased>>
      BY <1>8 DEF CloseAnswered
    <3> QED
      BY <3>1, <3>2, <3>3 DEF ManualShape
  <2>4. \A r \in Sess : ManualRuns(r) <=> ManualRuns(r)'
    BY <2>1, <2>2 DEF ManualRuns, ManualShape
  <2>5. \A j \in Closers : closer'[j].at = "closed" => closer'[j] = closer[j]
    BY <1>8 DEF CloseAnswered, ManualShape, Call
  <2> QED
    BY <1>8, <2>3, <2>4, <2>5, SameManual DEF CloseAnswered, main, ListedRuns
<1>9. ASSUME NEW k \in Closers, CloseTimesOut(k) PROVE ManualInv'
  <2>1. ManualShape'
    BY <1>9 DEF CloseTimesOut, ReleaseIfExited, NotClosing, main, ManualShape, Call
  <2>2. \A r \in Sess : ManualRuns(r) <=> ManualRuns(r)'
    BY <1>9 DEF CloseTimesOut, ManualRuns, ManualShape
  <2>3. \A j \in Closers : closer'[j].at = "closed" => closer'[j] = closer[j]
    BY <1>9 DEF CloseTimesOut, NotClosing, ManualShape, Call
  <2>4. ListedRuns'
    BY <1>9, <2>2, <2>3 DEF CloseTimesOut, ListedRuns
  <2> QED
    BY <1>9, <2>1, <2>2, <2>4 DEF CloseTimesOut, ReleaseIfExited, main, RemovedAlone,
       ManualBrowserKeepsLock, LockShape
<1>10. ASSUME NEW k \in Closers, ResetRemoves(k) PROVE ManualInv'
  <2>1. ManualShape'
    BY <1>10 DEF ResetRemoves, NotClosing, ManualShape, Call
  <2>2. \A j \in Closers : closer'[j].at = "closed" => closer'[j] = closer[j]
    BY <1>10 DEF ResetRemoves, NotClosing, ManualShape, Call
  <2> QED
    BY <1>10, <2>1, <2>2, RemoveStep DEF ResetRemoves
<1> QED
  BY <1>1, <1>2, <1>3, <1>4, <1>5, <1>6, <1>7, <1>8, <1>9, <1>10 DEF Main

(* The workers' side: what a lock of a context needs to find its release.    *)
HeldShape ==
  /\ ctx \in [Contexts -> {"off", "pending", "open"}]
  /\ DOMAIN held = Contexts /\ held = [c \in Contexts |-> held[c]]
  /\ DOMAIN closing = Contexts /\ closing = [c \in Contexts |-> closing[c]]

Holds(c) == (ctx[c] # "off" /\ held[c]) \/ "leased" \in closing[c]

HolderInv == HeldShape /\ LockHasHolder

SessionInv == ManualInv /\ HolderInv

LEMMA InitHolder == SessionsInit => HolderInv
  BY DEF SessionsInit, HolderInv, HeldShape, LockHasHolder, NoLock

LEMMA OwnerHolds ==
  ASSUME Apart, LockHasHolder, lock.live, NEW c \in Contexts, lock.owner = c PROVE Holds(c)
  BY NamesDiffer DEF LockHasHolder, Holds

(* A context that gives up its lease releases the lock or leaves it to the   *)
(* close under way, and touches no other context's.                          *)
LEMMA ContextStep ==
  ASSUME Apart, LockShape, HolderInv, NEW c \in Contexts,
         \/ CreateContext(c) \/ ContextReady(c) \/ ContextFails(c) \/ CloseContext(c)
         \/ \E how \in {"leased", "bare"} : CloseDone(c, how),
         NEW d \in Contexts, lock'.live, lock'.owner = d
  PROVE  Holds(d)'
<1> USE DEF HolderInv, HeldShape
<1>1. d # c => (Holds(d)' <=> Holds(d))
  BY DEF CreateContext, ContextReady, ContextFails, CloseContext, CloseDone, Holds
<1>2. CASE CreateContext(c)
  <2>1. Holds(c)'
    BY <1>2 DEF CreateContext, Holds
  <2>2. lock'.owner = c
    BY <1>2 DEF CreateContext, LockOf
  <2> QED
    BY <2>1, <2>2
<1>3. CASE \/ ContextReady(c) \/ ContextFails(c) \/ CloseContext(c)
           \/ \E how \in {"leased", "bare"} : CloseDone(c, how)
  <2>1. ~NoLock.live
    BY DEF NoLock
  <2>2. lock' = lock
    BY <1>3, <2>1 DEF ContextReady, ContextFails, CloseContext, CloseDone, Released
  <2>3. Holds(d)
    BY <2>2, OwnerHolds
  <2>4. CASE d = c
    <3>1. lock = LockOf(c)
      BY <2>2, <2>4, LockFacts DEF LockShape
    <3>2. CASE ContextReady(c)
      BY <2>3, <2>4, <3>2 DEF ContextReady, Holds
    <3>3. CASE ContextFails(c)
      BY <2>1, <2>2, <2>3, <2>4, <3>1, <3>3 DEF ContextFails, Holds, Released
    <3>4. CASE CloseContext(c)
      <4>1. ctx[c] = "open" /\ closing'[c] = Settling(c)
        BY <2>1, <2>2, <3>1, <3>4 DEF CloseContext, Released
      <4> QED
        BY <2>3, <2>4, <4>1 DEF Holds, Settling
    <3>5. CASE \E how \in {"leased", "bare"} : CloseDone(c, how)
      BY <2>1, <2>2, <2>3, <2>4, <3>1, <3>5 DEF CloseDone, Holds, Released
    <3> QED
      BY <1>3, <3>2, <3>3, <3>4, <3>5
  <2> QED
    BY <1>1, <2>3, <2>4
<1> QED
  BY <1>2, <1>3

(* A worker that ends: its open contexts are closed first, the others'       *)
(* leases released, and the lock of a process that is gone is stale.         *)
LEMMA EndStep ==
  ASSUME Apart, LockShape, HolderInv, NEW w \in Workers,
         ShutdownWorker(w) \/ ShutdownEnds(w) \/ WorkerExits(w),
         NEW d \in Contexts, lock'.live, lock'.owner = d
  PROVE  Holds(d)'
<1> USE DEF HolderInv, HeldShape
<1>1. CASE ShutdownWorker(w)
  <2>1. Holds(d)
    BY <1>1, OwnerHolds DEF ShutdownWorker
  <2> QED
    BY <1>1, <2>1 DEF ShutdownWorker, Holds, Settling
<1>2. CASE ShutdownEnds(w)
  <2>1. lock' = lock
    BY <1>2 DEF ShutdownEnds, NoLock
  <2>2. Holds(d) /\ lock = LockOf(d)
    BY <2>1, OwnerHolds, LockFacts DEF LockShape
  <2>3. d \notin Of(w)
    <3> SUFFICES ASSUME d \in Of(w) PROVE FALSE
      OBVIOUS
    <3>1. held[d]
      BY <1>2, <2>2 DEF ShutdownEnds, Holds
    <3>2. lock' = NoLock
      BY <1>2, <2>2, <3>1 DEF ShutdownEnds
    <3> QED
      BY <3>2 DEF NoLock
  <2> QED
    BY <1>2, <2>2, <2>3 DEF ShutdownEnds, Holds
<1>3. CASE WorkerExits(w)
  <2>1. lock' = lock /\ d \notin Of(w)
    BY <1>3 DEF WorkerExits, LockShape, Locks
  <2>2. Holds(d)
    BY <2>1, OwnerHolds
  <2> QED
    BY <1>3, <2>1, <2>2 DEF WorkerExits, Holds
<1> QED
  BY <1>1, <1>2, <1>3

(* The records of the contexts keep their form.                              *)
LEMMA HeldStep == HeldShape /\ [SessionsNext]_sessionsVars => HeldShape'
<1> SUFFICES ASSUME HeldShape, [SessionsNext]_sessionsVars PROVE HeldShape'
  OBVIOUS
<1> USE DEF HeldShape
<1>1. CASE UNCHANGED sessionsVars
  BY <1>1 DEF sessionsVars, worker
<1>2. CASE Main
  <2>1. UNCHANGED worker
    BY <1>2 DEF Main, TasksChange, AskOpen, Open, DeleteDirectory, RemoveLock, EndRemove, Ready,
       ReadyFails, ChildExits, AskClose, CloseAnswered, CloseTimesOut, ResetRemoves
  <2> QED
    BY <2>1 DEF worker
<1>3. ASSUME NEW c \in Contexts,
             \/ CreateContext(c) \/ ContextReady(c) \/ ContextFails(c) \/ CloseContext(c)
             \/ \E how \in {"leased", "bare"} : CloseDone(c, how)
      PROVE  HeldShape'
  BY <1>3 DEF CreateContext, ContextReady, ContextFails, CloseContext, CloseDone
<1>4. ASSUME NEW w \in Workers, ShutdownWorker(w) \/ ShutdownEnds(w) \/ WorkerExits(w)
      PROVE  HeldShape'
  BY <1>4 DEF ShutdownWorker, ShutdownEnds, WorkerExits
<1> QED
  BY <1>1, <1>2, <1>3, <1>4 DEF SessionsNext, Worker

(* What the main process does to the lock: a browser, or a removal, that     *)
(* takes it keeps it as long as it lasts.                                    *)
LEMMA KeptHolder ==
  ASSUME LockHasHolder, lock' = lock, UNCHANGED worker,
         \A s \in Sess : ManualRuns(s) /\ leased[s] => ManualRuns(s)' /\ leased'[s],
         lock.live /\ lock.owner = Remover => removing' # "no"
  PROVE  LockHasHolder'
<1> SUFFICES ASSUME lock.live PROVE LockHasHolder'
  BY DEF LockHasHolder
<1>1. CASE lock.owner = Manual /\ \E s \in Sess : ManualRuns(s) /\ leased[s]
  BY <1>1 DEF LockHasHolder
<1>2. CASE lock.owner = Remover /\ removing # "no"
  BY <1>2 DEF LockHasHolder
<1>3. CASE \E c \in Contexts : lock.owner = c /\ Holds(c)
  <2>1. PICK c \in Contexts : lock.owner = c /\ Holds(c)
    BY <1>3
  <2>2. lock'.owner = c /\ (((ctx[c] # "off" /\ held[c]) \/ "leased" \in closing[c])')
    BY <2>1 DEF Holds, worker
  <2> QED
    BY <2>2 DEF LockHasHolder
<1> QED
  BY <1>1, <1>2, <1>3 DEF LockHasHolder, Holds

LEMMA MainHolder ==
  ASSUME Apart, ManualInv, LockHasHolder, Main PROVE LockHasHolder'
<1>1. UNCHANGED worker
  BY DEF Main, TasksChange, AskOpen, Open, DeleteDirectory, RemoveLock, EndRemove, Ready,
     ReadyFails, ChildExits, AskClose, CloseAnswered, CloseTimesOut, ResetRemoves
<1>2. lock' = NoLock => LockHasHolder'
  BY DEF LockHasHolder, NoLock
<1>3. ASSUME lock' = LockOf(Remover), removing' # "no" PROVE LockHasHolder'
  BY <1>3 DEF LockHasHolder, LockOf
<1>4. lock.live /\ lock.owner = Remover => removing # "no"
  BY NamesDiffer DEF LockHasHolder
<1>5. ASSUME UNCHANGED <<lock, leased, removing>>, \A s \in Sess : ManualRuns(s) => ManualRuns(s)'
      PROVE  LockHasHolder'
  BY <1>1, <1>4, <1>5, KeptHolder
<1>6. CASE TasksChange \/ AskOpen
  BY <1>5, <1>6 DEF TasksChange, AskOpen, manual, main, ManualRuns
<1>7. CASE Open
  <2>1. CASE UNCHANGED <<lock, manual>>
    BY <1>5, <1>7, <2>1 DEF Open, manual, ManualRuns
  <2>2. ASSUME NEW s \in Sess, SpawnManual(s) PROVE LockHasHolder'
    BY <2>2 DEF SpawnManual, LockHasHolder, LockOf, ManualRuns, ManualInv, ManualShape
  <2> QED
    BY <1>7, <2>1, <2>2 DEF Open
<1>8. ASSUME UNCHANGED <<child, leased>>, BeginRemove PROVE LockHasHolder'
  BY <1>3, <1>5, <1>8 DEF BeginRemove, ManualRuns
<1>9. CASE DeleteDirectory
  BY <1>8, <1>9 DEF DeleteDirectory, manual
<1>10. CASE RemoveLock
  BY <1>2, <1>10 DEF RemoveLock
<1>11. CASE EndRemove
  <2>1. lock' = lock => ~(lock.live /\ lock.owner = Remover)
    BY <1>11, LockFacts DEF EndRemove, Released, NoLock, ManualInv, LockShape
  <2>2. lock' \in {NoLock, lock} /\ UNCHANGED <<child, leased>>
    BY <1>11 DEF EndRemove, Released, manual
  <2> QED
    BY <1>1, <1>2, <2>1, <2>2, KeptHolder DEF ManualRuns
<1>12. ASSUME NEW s \in Sess, Ready(s) \/ ReadyFails(s) PROVE LockHasHolder'
  <2>1. \A r \in Sess : ManualRuns(r) => ManualRuns(r)'
    BY <1>12 DEF Ready, ReadyFails, ManualRuns, ManualInv, ManualShape
  <2> QED
    BY <1>5, <1>12, <2>1 DEF Ready, ReadyFails, main
<1>13. ASSUME NEW s \in Sess, ChildExits(s) PROVE LockHasHolder'
  BY <1>2, <1>13 DEF ChildExits, ExitHandler, Released, ManualInv, ManualBrowserKeepsLock
<1>14. ASSUME NEW k \in Closers, (\E again \in BOOLEAN : AskClose(k, again)) PROVE LockHasHolder'
  BY <1>5, <1>14 DEF AskClose, main, ManualRuns
<1>15. ASSUME NEW k \in Closers, CloseAnswered(k) PROVE LockHasHolder'
  <2>1. closer[k].of \in Sess /\ ManualRuns(closer[k].of)
    BY <1>15 DEF CloseAnswered, ManualInv, ListedRuns
  <2>2. PICK c \in {child[closer[k].of], "signalled"} : child' = [child EXCEPT ![closer[k].of] = c]
    BY <1>15 DEF CloseAnswered
  <2>3. \A r \in Sess : ManualRuns(r) => ManualRuns(r)'
    BY <2>1, <2>2 DEF ManualRuns, ManualInv, ManualShape
  <2> QED
    BY <1>5, <1>15, <2>3 DEF CloseAnswered, main
<1>16. ASSUME NEW k \in Closers, CloseTimesOut(k) PROVE LockHasHolder'
  <2>1. \A r \in Sess : ManualRuns(r) => ManualRuns(r)'
    BY <1>16 DEF CloseTimesOut, ManualRuns
  <2> QED
    BY <1>5, <1>16, <2>1 DEF CloseTimesOut, ReleaseIfExited, main
<1>17. ASSUME NEW k \in Closers, ResetRemoves(k) PROVE LockHasHolder'
  BY <1>8, <1>17 DEF ResetRemoves
<1> QED
  BY <1>6, <1>7, <1>9, <1>10, <1>11, <1>12, <1>13, <1>14, <1>15, <1>16, <1>17 DEF Main

(* The workers' steps: what the main process holds stays.                    *)
LEMMA WorkerHolder ==
  ASSUME Apart, ManualInv, HolderInv, Worker PROVE LockHasHolder'
<1> USE DEF HolderInv
<1>1. /\ UNCHANGED <<manual, main>> /\ LockShape'
      /\ lock' # lock /\ lock'.live => lock'.owner \in Contexts
  BY WorkerLeaves DEF ManualInv
<1>2. SUFFICES ASSUME lock'.live PROVE LockHasHolder'
  BY DEF LockHasHolder
<1>3. \A c \in Contexts : lock'.owner = c => Holds(c)'
  BY <1>2, ContextStep, EndStep DEF Worker, ManualInv
<1>4. CASE lock'.owner \in Contexts
  <2>1. Holds(lock.owner)'
    BY <1>3, <1>4
  <2> QED
    BY <1>4, <2>1 DEF LockHasHolder, Holds
<1>5. CASE lock'.owner \notin Contexts
  <2>1. lock' = lock
    BY <1>1, <1>2, <1>5
  <2> QED
    BY <1>1, <1>2, <1>5, <2>1 DEF LockHasHolder, manual, main, ManualRuns
<1> QED
  BY <1>4, <1>5

(* Both invariants together are inductive.                                   *)
THEOREM SessionsHold == ASSUME Apart PROVE SessionsSpec => []SessionInv
<1>1. SessionsInit => SessionInv
  BY InitManual, InitHolder DEF SessionInv
<1>2. ASSUME SessionInv, [SessionsNext]_sessionsVars PROVE SessionInv'
  <2> USE DEF SessionInv
  <2>1. HeldShape'
    BY <1>2, HeldStep DEF HolderInv
  <2>2. CASE Main
    BY <1>2, <2>1, <2>2, MainStep, MainHolder DEF HolderInv
  <2>3. CASE Worker
    <3>1. /\ UNCHANGED <<manual, main>> /\ LockShape'
          /\ lock = LockOf(Manual) \/ lock = LockOf(Remover) => lock' = lock
      BY <1>2, <2>3, WorkerLeaves DEF ManualInv
    <3>2. ManualInv'
      BY <1>2, <3>1 DEF ManualInv, ManualShape, ListedRuns, RemovedAlone, ManualBrowserKeepsLock,
         ManualRuns, manual, main
    <3> QED
      BY <1>2, <2>1, <2>3, <3>2, WorkerHolder DEF HolderInv
  <2>4. CASE UNCHANGED sessionsVars
    BY <1>2, <2>1, <2>4 DEF sessionsVars, manual, main, worker, ManualInv, LockShape, ManualShape, ListedRuns,
       RemovedAlone, ManualBrowserKeepsLock, HolderInv, LockHasHolder, ManualRuns
  <2> QED
    BY <1>2, <2>2, <2>3, <2>4 DEF SessionsNext
<1> QED
  BY <1>1, <1>2, PTL DEF SessionsSpec

(* A manual browser that has not exited has the lock of its profile and is   *)
(* the only one: close(), reset, timeouts, signals and the workers leave it  *)
(* alone (seleniumbase-profile-browser-controller.ts).                       *)
THEOREM ManualKeepsLock == ASSUME Apart PROVE SessionsSpec => []ManualBrowserKeepsLock
<1>1. SessionInv => ManualBrowserKeepsLock
  BY DEF SessionInv, ManualInv
<1> QED
  BY SessionsHold, <1>1, PTL

(* A lock that blocks the profile has a holder that will release it: no      *)
(* path out of a context, a browser or a removal leaves the lock behind.     *)
THEOREM LockIsHeld == ASSUME Apart PROVE SessionsSpec => []LockHasHolder
<1>1. SessionInv => LockHasHolder
  BY DEF SessionInv, HolderInv
<1> QED
  BY SessionsHold, <1>1, PTL

-------------------------------------------------------------------------------
(***************************************************************************)
(* DesktopRecords: a confirmed card survives, and no deletion takes a      *)
(* record that is in use.                                                  *)
(***************************************************************************)

Parts == {"profiles", "proxies", "cards", "snaps"}

(* The variables with several parts have them.                               *)
Shapes ==
  /\ Parts \subseteq DOMAIN file
  /\ deleting # None => {"profile", "record", "at"} \subseteq DOMAIN deleting
  /\ DOMAIN task = Tasks

(* A card that was confirmed is in the vault's memory too, from which the    *)
(* next write of the file is made.                                           *)
CardInv == acked \subseteq cards /\ AckedCardSurvives

(* As long as no write was lost, a restart finds what was in memory; and the *)
(* profile that a deletion may put back has a proxy that is still there.     *)
UseInv ==
  /\ intact => file.profiles = profiles /\ file.proxies = proxies
  /\ intact /\ deleting # None => CanSave(deleting.record)
  /\ UsedRecordsExist

RecordInv == Shapes /\ CardInv /\ UseInv

LEMMA PutFacts ==
  ASSUME NEW f, NEW k, NEW v
  PROVE  /\ DOMAIN Put(f, k, v) = DOMAIN f \cup {k}
         /\ \A x \in DOMAIN f \cup {k} : Put(f, k, v)[x] = IF x = k THEN v ELSE f[x]
  BY DEF Put

LEMMA WithoutFacts ==
  ASSUME NEW f, NEW k
  PROVE  /\ DOMAIN Without(f, k) = DOMAIN f \ {k}
         /\ \A x \in DOMAIN f \ {k} : Without(f, k)[x] = f[x]
  BY DEF Without, Restrict

LEMMA InitRecords == RecordsInit => RecordInv
  BY DEF RecordsInit, RecordInv, Shapes, Parts, CardInv, AckedCardSurvives, UseInv, UsedRecordsExist,
     EmptyFiles

(* Saving a profile whose proxy exists, or putting back the deleted one.     *)
LEMMA StoreStep ==
  ASSUME RecordInv, NEW p, NEW r, intact => CanSave(r), Store(p, r),
         UNCHANGED <<proxies, task>>, deleting' = None
  PROVE  UseInv'
<1> USE DEF RecordInv, Shapes, Parts, UseInv, Store, ProfilesWritten
<1>1. intact' => intact /\ file' = [file EXCEPT !.profiles = profiles']
  OBVIOUS
<1>2. /\ DOMAIN profiles' = DOMAIN profiles \cup {p}
      /\ \A q \in DOMAIN profiles' : profiles'[q] = IF q = p THEN r ELSE profiles[q]
  <2>1. profiles' = Put(profiles, p, r)
    OBVIOUS
  <2> HIDE DEF RecordInv, Shapes, UseInv, Store, ProfilesWritten
  <2> QED
    BY <2>1 DEF Put
<1>3. ASSUME intact', NEW q \in DOMAIN profiles' PROVE profiles'[q].proxy \in DOMAIN proxies' \cup {None}
  <2>1. profiles'[q] = IF q = p THEN r ELSE profiles[q]
    BY <1>2, <1>3
  <2>2. q # p => profiles[q].proxy \in DOMAIN proxies \cup {None}
    BY <1>1, <1>2, <1>3 DEF UsedRecordsExist
  <2>3. r.proxy \in DOMAIN proxies \cup {None}
    BY <1>1, <1>3 DEF CanSave
  <2> QED
    BY <2>1, <2>2, <2>3
<1>4. intact' => file'.profiles = profiles' /\ file'.proxies = proxies'
  BY <1>1
<1> QED
  BY <1>1, <1>2, <1>3, <1>4 DEF UsedRecordsExist, Exist

(* Steps that leave profiles, proxies and tasks alone.                       *)
LEMMA QuietStep ==
  ASSUME RecordInv, UNCHANGED <<profiles, proxies, task, intact>>,
         file'.profiles = file.profiles, file'.proxies = file.proxies,
         \/ deleting' \in {deleting, None}
         \/ deleting # None /\ deleting' = [deleting EXCEPT !.at = "card"]
  PROVE  UseInv'
<1>1. deleting' # None => deleting # None /\ deleting'.record = deleting.record
  BY DEF RecordInv, Shapes
<1> QED
  BY <1>1 DEF RecordInv, Shapes, UseInv, UsedRecordsExist, Exist, CanSave

(* The two ways in which a record goes: nothing that is in use refers to it. *)
LEMMA DeleteProfileStep ==
  ASSUME RecordInv, NEW p, DeleteProfile(p) PROVE UseInv'
<1> USE DEF RecordInv, Shapes, Parts, UseInv, DeleteProfile, ProfilesWritten, users
<1>1. intact' => intact /\ file' = [file EXCEPT !.profiles = profiles']
  OBVIOUS
<1>2. DOMAIN profiles' = DOMAIN profiles \ {p} /\ \A q \in DOMAIN profiles' : profiles'[q] = profiles[q]
  BY WithoutFacts
<1>3. intact' => CanSave(deleting.record)'
  BY <1>1 DEF UsedRecordsExist, CanSave
<1>4. intact' => UsedRecordsExist'
  BY <1>1, <1>2 DEF UsedRecordsExist, Exist, Assigned
<1> QED
  BY <1>1, <1>3, <1>4 DEF UsedRecordsExist

LEMMA DeleteProxyStep ==
  ASSUME RecordInv, NEW x, DeleteProxy(x) PROVE UseInv'
<1> USE DEF RecordInv, Shapes, Parts, UseInv, DeleteProxy, ProxiesWritten, ProxiesRefused, users
<1>1. intact' => intact /\ file' = [file EXCEPT !.proxies = proxies']
  OBVIOUS
<1>2. DOMAIN proxies' = DOMAIN proxies \ {x}
  BY WithoutFacts
<1>3. deleting' = None
  BY DEF Idle
<1>4. intact' => UsedRecordsExist'
  BY <1>1, <1>2 DEF UsedRecordsExist, Exist, InUse, Chosen, Selected
<1> QED
  BY <1>1, <1>3, <1>4 DEF UsedRecordsExist

(* A proxy is added or written again.                                        *)
LEMMA PutProxyStep ==
  ASSUME RecordInv, Idle, NEW x, NEW v, proxies' = Put(proxies, x, v),
         ProxiesWritten \/ ProxiesRefused, UNCHANGED <<profiles, deleting, task>>
  PROVE  UseInv'
<1> USE DEF RecordInv, Shapes, Parts, UseInv, ProxiesWritten, ProxiesRefused
<1>1. intact' => intact /\ file' = [file EXCEPT !.proxies = proxies']
  OBVIOUS
<1>2. DOMAIN proxies' = DOMAIN proxies \cup {x}
  BY PutFacts
<1>3. deleting' = None
  BY DEF Idle
<1>4. intact' => UsedRecordsExist'
  BY <1>1, <1>2 DEF UsedRecordsExist, Exist
<1> QED
  BY <1>1, <1>3, <1>4 DEF UsedRecordsExist

(* A task is created, from a list that may be old, or ends.                  *)
LEMMA TaskStep ==
  ASSUME RecordInv, NEW t \in Tasks,
         \/ \E k \in {"checkout", "monitor"}, p \in Profiles, x \in Choices : CreateTask(t, k, p, x)
         \/ TaskEnds(t)
  PROVE  RecordInv'
<1> USE DEF RecordInv, Shapes, Parts, CardInv, AckedCardSurvives, UseInv, CreateTask, TaskEnds,
            records
<1>1. UNCHANGED <<profiles, proxies, cards, file, deleting, intact, acked>> /\ DOMAIN task' = Tasks
  OBVIOUS
<1>2. ASSUME NEW u \in Tasks, task'[u] # None, task'[u].sound, task'[u].kind # "monitor", intact
      PROVE  Exist(task'[u].profile, task'[u].proxy)
  <2>1. CASE task'[u] = task[u]
    BY <1>2, <2>1 DEF UsedRecordsExist
  <2>2. CASE \E k \in {"checkout", "monitor"}, p \in Profiles, x \in Choices :
               task'[u] = [kind |-> k, profile |-> p, proxy |-> x, sound |-> Exist(p, x)]
    BY <1>2, <2>2
  <2>3. CASE task'[u] = None
    BY <1>2, <2>3
  <2> QED
    BY <2>1, <2>2, <2>3
<1>3. UsedRecordsExist'
  BY <1>1, <1>2 DEF UsedRecordsExist, Exist
<1> QED
  BY <1>1, <1>3 DEF CanSave

(* A crash, in a write of the two repositories or elsewhere.                 *)
LEMMA CrashStep ==
  ASSUME RecordInv, Crash \/ \E piece \in InPlace : CrashInWrite(piece)
  PROVE  RecordInv'
<1> USE DEF RecordInv, Shapes, Parts, CardInv, AckedCardSurvives, UseInv, Crash, CrashInWrite,
            InPlace, Restart
<1>1. Parts \subseteq DOMAIN file' /\ file'.cards = file.cards
  OBVIOUS
<1>2. intact' => intact /\ profiles' = profiles /\ proxies' = proxies /\ file' = file
  OBVIOUS
<1>3. deleting' = None /\ task' = task /\ acked' = acked /\ cards' = file'.cards
  OBVIOUS
<1>4. intact' => UsedRecordsExist'
  BY <1>2, <1>3 DEF UsedRecordsExist, Exist
<1> QED
  BY <1>1, <1>2, <1>3, <1>4 DEF UsedRecordsExist

(* Shapes and cards, for all other steps: each of them leaves the vault and  *)
(* its file alone, or writes the file from the vault.                        *)
LEMMA StepShapes == RecordInv /\ [RecordsNext]_recordsVars => Shapes'
<1> SUFFICES ASSUME RecordInv, [RecordsNext]_recordsVars PROVE Shapes'
  OBVIOUS
<1> USE DEF RecordInv, Shapes, Parts
<1>1. CASE UNCHANGED recordsVars
  BY <1>1 DEF recordsVars, users
<1>2. ASSUME NEW p, NEW r, Store(p, r), UNCHANGED task, deleting' \in {deleting, None} PROVE Shapes'
  BY <1>2 DEF Store, ProfilesWritten
<1>3. ASSUME NEW p \in Profiles,
             \/ \E x \in Choices : SaveProfile(p, x)
             \/ BeginReset(p) \/ DeleteProfile(p) \/ SaveCard(p) \/ DeleteCard(p)
             \/ SaveSnapshot(p) \/ DeleteSnapshot(p)
      PROVE  Shapes'
  BY <1>2, <1>3 DEF SaveProfile, BeginReset, DeleteProfile, SaveCard, DeleteCard, SaveSnapshot,
     DeleteSnapshot, ProfilesWritten, users
<1>4. ASSUME NEW x \in Proxies, SaveProxy(x) \/ DeleteProxy(x) \/ TestEnds(x) PROVE Shapes'
  BY <1>4 DEF SaveProxy, DeleteProxy, TestEnds, ProxiesWritten, ProxiesRefused, users
<1>5. ASSUME NEW X, TestProxies(X) PROVE Shapes'
  BY <1>5 DEF TestProxies
<1>6. CASE \E t \in Tasks :
             \/ \E k \in {"checkout", "monitor"}, p \in Profiles, x \in Choices : CreateTask(t, k, p, x)
             \/ TaskEnds(t)
  BY <1>6, TaskStep
<1>7. CASE DeleteData \/ DeleteCardData
  BY <1>2, <1>7 DEF DeleteData, DeleteCardData, PutBack, users
<1>8. CASE PanelReads \/ ResetDone \/ ResetFails
  BY <1>2, <1>8 DEF PanelReads, ResetDone, ResetFails
<1>9. CASE Crash \/ \E piece \in InPlace : CrashInWrite(piece)
  BY <1>9, CrashStep
<1> QED
  BY <1>1, <1>3, <1>4, <1>5, <1>6, <1>7, <1>8, <1>9 DEF RecordsNext

LEMMA StepCards == RecordInv /\ [RecordsNext]_recordsVars => CardInv'
<1> SUFFICES ASSUME RecordInv, [RecordsNext]_recordsVars PROVE CardInv'
  OBVIOUS
<1> USE DEF RecordInv, Shapes, Parts, CardInv, AckedCardSurvives
<1>1. CASE UNCHANGED recordsVars
  BY <1>1 DEF recordsVars, records
<1>2. ASSUME UNCHANGED <<cards, acked>>, file'.cards = file.cards PROVE CardInv'
  BY <1>2
<1>3. ASSUME NEW p, NEW r, Store(p, r) PROVE file'.cards = file.cards
  BY <1>3 DEF Store, ProfilesWritten
<1>4. ASSUME NEW p \in Profiles,
             \/ \E x \in Choices : SaveProfile(p, x)
             \/ BeginReset(p) \/ DeleteProfile(p) \/ SaveSnapshot(p) \/ DeleteSnapshot(p)
      PROVE  CardInv'
  BY <1>2, <1>3, <1>4 DEF SaveProfile, BeginReset, DeleteProfile, SaveSnapshot, DeleteSnapshot,
     ProfilesWritten
<1>5. ASSUME NEW p \in Profiles, SaveCard(p) \/ DeleteCard(p) PROVE CardInv'
  BY <1>5 DEF SaveCard, DeleteCard
<1>6. ASSUME NEW x \in Proxies, SaveProxy(x) \/ DeleteProxy(x) \/ TestEnds(x) PROVE CardInv'
  BY <1>2, <1>6 DEF SaveProxy, DeleteProxy, TestEnds, ProxiesWritten, ProxiesRefused
<1>7. ASSUME NEW X, TestProxies(X) PROVE CardInv'
  BY <1>2, <1>7 DEF TestProxies, records
<1>8. CASE \E t \in Tasks :
             \/ \E k \in {"checkout", "monitor"}, p \in Profiles, x \in Choices : CreateTask(t, k, p, x)
             \/ TaskEnds(t)
  BY <1>8, TaskStep
<1>9. CASE DeleteData
  BY <1>2, <1>3, <1>9 DEF DeleteData, PutBack
<1>10. CASE DeleteCardData
  BY <1>3, <1>10 DEF DeleteCardData, PutBack
<1>11. CASE PanelReads \/ ResetDone \/ ResetFails
  BY <1>2, <1>3, <1>11 DEF PanelReads, ResetDone, ResetFails, records
<1>12. CASE Crash \/ \E piece \in InPlace : CrashInWrite(piece)
  BY <1>12, CrashStep
<1> QED
  BY <1>1, <1>4, <1>5, <1>6, <1>7, <1>8, <1>9, <1>10, <1>11, <1>12 DEF RecordsNext

LEMMA StepUse == RecordInv /\ [RecordsNext]_recordsVars => UseInv'
<1> SUFFICES ASSUME RecordInv, [RecordsNext]_recordsVars PROVE UseInv'
  OBVIOUS
<1> USE DEF Idle, users
<1>1. CASE UNCHANGED recordsVars
  BY <1>1, QuietStep DEF recordsVars, records
<1>2. ASSUME NEW p \in Profiles, (\E x \in Choices : SaveProfile(p, x)) \/ BeginReset(p)
      PROVE  UseInv'
  BY <1>2, StoreStep DEF SaveProfile, BeginReset
<1>3. ASSUME NEW p \in Profiles, SaveCard(p) \/ DeleteCard(p) \/ SaveSnapshot(p) \/ DeleteSnapshot(p)
      PROVE  UseInv'
  BY <1>3, QuietStep DEF SaveCard, DeleteCard, SaveSnapshot, DeleteSnapshot, RecordInv, Shapes, Parts
<1>4. ASSUME NEW x \in Proxies, SaveProxy(x) \/ TestEnds(x) PROVE UseInv'
  BY <1>4, PutProxyStep DEF SaveProxy, TestEnds
<1>5. ASSUME NEW X, TestProxies(X) PROVE UseInv'
  BY <1>5, QuietStep DEF TestProxies, records
<1>6. CASE \E t \in Tasks :
             \/ \E k \in {"checkout", "monitor"}, p \in Profiles, x \in Choices : CreateTask(t, k, p, x)
             \/ TaskEnds(t)
  BY <1>6, TaskStep DEF RecordInv
<1>7. CASE DeleteData
  <2>1. CASE PutBack /\ UNCHANGED proxies
    BY <1>7, <2>1, StoreStep DEF DeleteData, PutBack, RecordInv, UseInv
  <2>2. CASE ~PutBack
    BY <1>7, <2>2, QuietStep DEF DeleteData, RecordInv, Shapes, Parts
  <2> QED
    BY <1>7, <2>1, <2>2 DEF DeleteData
<1>8. CASE DeleteCardData
  <2>1. CASE PutBack /\ UNCHANGED proxies
    BY <1>8, <2>1, StoreStep DEF DeleteCardData, PutBack, RecordInv, UseInv
  <2>2. CASE ~PutBack
    BY <1>8, <2>2, QuietStep DEF DeleteCardData, RecordInv, Shapes, Parts
  <2> QED
    BY <1>8, <2>1, <2>2 DEF DeleteCardData
<1>9. CASE PanelReads \/ ResetDone
  BY <1>9, QuietStep DEF PanelReads, ResetDone, records, RecordInv, Shapes, Parts
<1>10. CASE ResetFails
  <2>1. CASE CanSave(reset.record)
    BY <1>10, <2>1, StoreStep DEF ResetFails
  <2>2. CASE ~CanSave(reset.record)
    BY <1>10, <2>2, QuietStep DEF ResetFails
  <2> QED
    BY <2>1, <2>2
<1>11. CASE Crash \/ \E piece \in InPlace : CrashInWrite(piece)
  BY <1>11, CrashStep DEF RecordInv
<1> QED
  BY <1>1, <1>2, <1>3, <1>4, <1>5, <1>6, <1>7, <1>8, <1>9, <1>10, <1>11, DeleteProfileStep,
     DeleteProxyStep DEF RecordsNext

(* The inductive invariant of the records.                                   *)
THEOREM RecordsHold == RecordsSpec => []RecordInv
<1>1. RecordInv /\ [RecordsNext]_recordsVars => RecordInv'
  BY StepShapes, StepCards, StepUse DEF RecordInv
<1> QED
  BY InitRecords, <1>1, PTL DEF RecordsSpec

(* A card whose saving was confirmed, and which was not deleted since, is on *)
(* file: the vault writes a second file and renames it, and no failed save   *)
(* or crash of another record comes between (profile-payment-vault.ts).      *)
THEOREM CardsSurvive == RecordsSpec => []AckedCardSurvives
<1>1. RecordInv => AckedCardSurvives
  BY DEF RecordInv, CardInv
<1> QED
  BY RecordsHold, <1>1, PTL

(* As long as no write of the two repositories is lost, what a profile or an *)
(* active checkout refers to exists: the checks of save-profile,             *)
(* delete-profile and delete-proxy suffice, with health checks, old copies   *)
(* and restarts in between (main.ts).                                        *)
THEOREM RecordsExist == RecordsSpec => []UsedRecordsExist
<1>1. RecordInv => UsedRecordsExist
  BY DEF RecordInv, UseInv
<1> QED
  BY RecordsHold, <1>1, PTL

-------------------------------------------------------------------------------
(***************************************************************************)
(* VisionService: what the main process names in its environment is its    *)
(* own running service.                                                    *)
(***************************************************************************)

(* What a process holds, or waits for, it started: nobody else's exit        *)
(* handler clears it, and the end of a start touches its own process only.   *)
Owned ==
  \A o \in Owners :
    /\ own[o] # 0 => starter[own[o]] = o /\ service[own[o]] # "unused"
    /\ \A s \in starts[o] : service[s] = "starting" /\ starter[s] = o

VisionInv == VisionTypeOK /\ Owned /\ MainServiceIsNamed

LEMMA InitVision == ASSUME MaxServices \in Nat PROVE VisionInit => VisionInv
<1> SUFFICES ASSUME VisionInit PROVE VisionInv
  OBVIOUS
<1> USE DEF VisionInit, Owners, Ids
<1>1. VisionTypeOK
  BY DEF VisionTypeOK
<1>2. Owned
  BY DEF Owned
<1>3. MainServiceIsNamed
  BY DEF MainServiceIsNamed, Alive
<1> QED
  BY <1>1, <1>2, <1>3 DEF VisionInv

(* A process that asks for its service keeps it or starts the only one.      *)
LEMMA EnsureStep ==
  ASSUME MaxServices \in Nat, VisionInv, NEW o \in Owners, OwnerRuns(o), EnsureService(o),
         UNCHANGED ending, preparing' \in BOOLEAN
  PROVE  VisionInv'
<1> USE DEF VisionInv, VisionTypeOK, Owners, Ids, OwnerRuns
<1>1. CASE Adopt(o, own[o])
  BY <1>1 DEF Adopt, Owned, MainServiceIsNamed, Alive
<1>2. CASE own[o] = 0 /\ url[o] = 0 /\ starts[o] = {} /\ SpawnService(o)
  <2> PICK s \in Ids :
        /\ service[s] = "unused"
        /\ service' = [service EXCEPT ![s] = "starting"]
        /\ starter' = [starter EXCEPT ![s] = o]
        /\ starts' = [starts EXCEPT ![o] = @ \cup {s}]
        /\ UNCHANGED <<own, url>>
    BY <1>2 DEF SpawnService
  <2>1. VisionTypeOK'
    OBVIOUS
  <2>2. Owned'
    BY <1>2 DEF Owned
  <2>3. ASSUME o = "main" PROVE MainServiceIsNamed'
    <3>1. \A r \in Ids : Alive(r) => starter[r] # "main"
      BY <1>2, <2>3 DEF MainServiceIsNamed
    <3>2. url'["main"] = 0 /\ own'["main"] = 0 /\ starts'["main"] = {s}
      BY <1>2, <2>3
    <3>3. \A r \in Ids : Alive(r)' /\ starter'[r] = "main" => r = s
      BY <3>1 DEF Alive
    <3> QED
      BY <3>2, <3>3 DEF MainServiceIsNamed
  <2>4. ASSUME o = "worker" PROVE MainServiceIsNamed'
    <3>1. \A r \in Ids : Alive(r)' /\ starter'[r] = "main" => Alive(r) /\ starter[r] = "main"
      BY <2>4 DEF Alive
    <3>2. own["main"] # 0 => own["main"] # s
      BY DEF MainServiceIsNamed
    <3>3. own' = own /\ url' = url /\ starts'["main"] = starts["main"] /\ ending' = ending
      BY <2>4
    <3> QED
      BY <3>1, <3>2, <3>3 DEF MainServiceIsNamed
  <2> QED
    BY <2>1, <2>2, <2>3, <2>4
<1> QED
  BY <1>1, <1>2 DEF EnsureService

(* How a start ends, and how a service does.                                 *)
LEMMA ServiceStep ==
  ASSUME MaxServices \in Nat, VisionInv, NEW s \in Ids,
         Started(s) \/ StartFails(s) \/ Exits(s)
  PROVE  VisionInv'
<1> USE DEF VisionInv, VisionTypeOK, Owners, Ids, OwnerRuns
<1> DEFINE o == starter[s]
<1>1. o \in Owners
  OBVIOUS
<1>2. CASE Started(s)
  <2>1. VisionTypeOK'
    BY <1>2 DEF Started
  <2>2. Owned'
    BY <1>2 DEF Started, Owned
  <2>3. MainServiceIsNamed'
    BY <1>2 DEF Started, Owned, MainServiceIsNamed, Alive
  <2> QED
    BY <2>1, <2>2, <2>3
<1>3. CASE StartFails(s)
  <2>1. VisionTypeOK'
    BY <1>3 DEF StartFails
  <2>2. Owned'
    BY <1>3 DEF StartFails, Owned
  <2>3. MainServiceIsNamed'
    BY <1>3 DEF StartFails, Owned, MainServiceIsNamed, Alive
  <2> QED
    BY <2>1, <2>2, <2>3
<1>4. CASE Exits(s)
  <2>1. VisionTypeOK'
    BY <1>4 DEF Exits, Cleared
  <2>2. Owned'
    BY <1>4 DEF Exits, Owned
  <2>3. MainServiceIsNamed'
    BY <1>4 DEF Exits, Cleared, Owned, MainServiceIsNamed, Alive
  <2> QED
    BY <2>1, <2>2, <2>3
<1> QED
  BY <1>2, <1>3, <1>4

(* How the two processes end, and how a worker begins.                       *)
LEMMA ProcessStep ==
  ASSUME MaxServices \in Nat, VisionInv,
         \/ WorkerStarts \/ WorkerEnds \/ MainEnds \/ Prepare
         \/ \E o \in Owners : ShutdownVision(o) \/ StopService(o)
  PROVE  VisionInv'
<1> USE DEF VisionInv, VisionTypeOK, Owners, Ids, OwnerRuns
<1>1. CASE WorkerStarts \/ Prepare
  <2>1. VisionTypeOK'
    <3>1. CASE WorkerStarts
      BY <3>1 DEF WorkerStarts
    <3>2. CASE Prepare
      BY <3>2 DEF Prepare
    <3> QED
      BY <1>1, <3>1, <3>2
  <2>2. UNCHANGED <<service, starter, own, starts, url["main"], ending["main"]>>
    BY <1>1 DEF WorkerStarts, Prepare
  <2> QED
    BY <2>1, <2>2 DEF Owned, MainServiceIsNamed, Alive
<1>2. CASE WorkerEnds
  <2>1. VisionTypeOK'
    BY <1>2 DEF WorkerEnds, Forgotten
  <2>2. Owned'
    BY <1>2 DEF WorkerEnds, Forgotten, Owned
  <2>3. /\ UNCHANGED <<service, starter, own["main"], starts["main"], url["main"]>>
        /\ UNCHANGED ending["main"]
    BY <1>2 DEF WorkerEnds, Forgotten
  <2> QED
    BY <2>1, <2>2, <2>3 DEF MainServiceIsNamed, Alive
<1>5. CASE MainEnds
  <2>1. VisionTypeOK'
    BY <1>5 DEF MainEnds, Forgotten
  <2>2. Owned'
    BY <1>5 DEF MainEnds, Forgotten, Owned
  <2>3. own'["main"] = 0 /\ url'["main"] = 0 /\ ending'["main"] = "gone"
    BY <1>5 DEF MainEnds, Forgotten
  <2> QED
    BY <2>1, <2>2, <2>3 DEF MainServiceIsNamed
<1>3. ASSUME NEW o \in Owners, ShutdownVision(o) PROVE VisionInv'
  BY <1>3 DEF ShutdownVision, Owned, MainServiceIsNamed, Alive
<1>4. ASSUME NEW o \in Owners, StopService(o) PROVE VisionInv'
  <2>1. VisionTypeOK'
    BY <1>4 DEF StopService, Cleared
  <2>2. Owned'
    BY <1>4 DEF StopService, Owned
  <2>3. MainServiceIsNamed'
    BY <1>4 DEF StopService, Cleared, Owned, MainServiceIsNamed, Alive
  <2> QED
    BY <2>1, <2>2, <2>3
<1> QED
  BY <1>1, <1>2, <1>3, <1>4, <1>5

(* The invariant needs to know who started what: a process whose service     *)
(* ends forgets it by comparing it with its own.                             *)
THEOREM ServicesOwned == ASSUME MaxServices \in Nat PROVE VisionSpec => []VisionInv
<1>1. VisionInv /\ UNCHANGED visionVars => VisionInv'
  BY DEF VisionInv, visionVars, VisionTypeOK, Owned, MainServiceIsNamed, Alive, OwnerRuns
<1>2. ASSUME VisionInv, VisionNext PROVE VisionInv'
  <2>1. CASE Prepared
    <3>1. CASE EnsureService("main")
      BY <1>2, <2>1, <3>1, EnsureStep DEF Prepared, Owners
    <3>2. CASE UNCHANGED <<service, starter, own, starts, url>>
      BY <1>2, <2>1, <3>2 DEF Prepared, VisionInv, VisionTypeOK, Owned, MainServiceIsNamed, Alive,
         OwnerRuns
    <3> QED
      BY <2>1, <3>1, <3>2 DEF Prepared
  <2>2. ASSUME NEW o \in Owners, Ensure(o) PROVE VisionInv'
    BY <1>2, <2>2, EnsureStep DEF Ensure, VisionInv, VisionTypeOK
  <2> QED
    BY <1>2, <2>1, <2>2, ServiceStep, ProcessStep DEF VisionNext
<1> QED
  BY InitVision, <1>1, <1>2, PTL DEF VisionSpec

(* The main process names no service but its own running one, and has no     *)
(* other: a worker never inherits a service that has ended                   *)
(* (ensureSharedService, the "exit" handler, shutdown).                      *)
THEOREM NamedIsOwn == ASSUME MaxServices \in Nat PROVE VisionSpec => []MainServiceIsNamed
<1>1. VisionInv => MainServiceIsNamed
  BY DEF VisionInv
<1> QED
  BY ServicesOwned, <1>1, PTL

-------------------------------------------------------------------------------
(***************************************************************************)
(* The parts together.                                                     *)
(***************************************************************************)

(* The composition adds nothing to its parts: each takes its own steps only, *)
(* whatever the others do.                                                   *)
THEOREM PartsKeepTheirSpecs == Spec => SessionsSpec /\ RecordsSpec /\ VisionSpec
<1>1. Init => SessionsInit /\ RecordsInit /\ VisionInit
  BY DEF Init
<1>2. [Next]_vars => [SessionsNext]_sessionsVars
  BY DEF Next, vars
<1>3. [Next]_vars => [RecordsNext]_recordsVars
  BY DEF Next, vars
<1>4. [Next]_vars => [VisionNext]_visionVars
  BY DEF Next, vars
<1> QED
  BY <1>1, <1>2, <1>3, <1>4, PTL DEF Spec, SessionsSpec, RecordsSpec, VisionSpec

(* What is proved of the parts holds of the desktop program they make up.    *)
THEOREM DeskHolds ==
  ASSUME Apart, MaxServices \in Nat
  PROVE  Spec => [](/\ ManualBrowserKeepsLock /\ LockHasHolder
                    /\ UsedRecordsExist /\ AckedCardSurvives
                    /\ MainServiceIsNamed)
<1> QED
  BY PartsKeepTheirSpecs, ManualKeepsLock, LockIsHeld, RecordsExist, CardsSurvive, NamedIsOwn, PTL
=============================================================================
