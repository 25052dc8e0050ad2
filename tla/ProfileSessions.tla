--------------------------- MODULE ProfileSessions ---------------------------
(***************************************************************************)
(* Who uses the browser directory of one profile. The main process opens a *)
(* manual browser in it (src/electron/seleniumbase-profile-browser-        *)
(* controller.ts), resets or deletes it; the browser worker processes open *)
(* it for tasks (src/browser-worker/seleniumbase-browser-worker.ts). A     *)
(* lock file with the owner and its process keeps them apart               *)
(* (profile-session-manager.ts); taking, reading and removing that file is *)
(* one step here, rmSync of the directory is not.                          *)
(*                                                                         *)
(* An "exit" event and the promise continuations it resolves are one step. *)
(***************************************************************************)
EXTENDS Naturals, FiniteSets

CONSTANTS
  Workers,    \* browser worker processes
  ProfileTasks,      \* tasks with this profile
  Closers,    \* bound: calls of close() or resetSession() under way at a time
  MaxOpens    \* bound: manual browsers ever spawned

VARIABLES
  lock,      \* the lock file: its owner, and whether the owner's process lives
  known,     \* the profile is in the repository
  active,    \* tasks that are neither SUCCESS nor FAILED nor CANCELLED
  asks,      \* open() calls that passed the checks and wait for the vision service
  entry,     \* sessions.get(profileId): the manual browser listed, 0 for none
  child,     \* state of each manual browser process
  leased,    \* its lease is not released
  opening,   \* those whose open() waits for "ready"
  closer,    \* the close() calls
  removing,  \* where rmSync of the directory is; the main process is blocked
  mode,      \* state of the browser core in each worker
  dirs,      \* activeProfileDirs has the directory
  ctx,       \* the context of a task in a worker: off, pending, open
  held,      \* its lease is in profileLeases
  closing    \* closeContext calls past their session's removal, with or without lease

manual == <<entry, child, leased, opening, closer>>
main == <<known, asks, removing>>
worker == <<mode, dirs, ctx, held, closing>>
sessionsVars == <<lock, active, manual, main, worker>>

Contexts == Workers \X ProfileTasks
Sess == 1 .. MaxOpens
Manual == <<"main", "manual">>
Remover == <<"main", "delete">>
Nobody == <<"main", "nobody">>
NoLock == [owner |-> Nobody, live |-> FALSE]
LockOf(o) == [owner |-> o, live |-> TRUE]
NotClosing == [at |-> "idle", of |-> 0, reset |-> FALSE]

ManualRuns(s) == child[s] \in {"starting", "ready", "signalled"}

SessionsInit ==
  /\ lock = NoLock /\ known = TRUE /\ active = {} /\ asks = 0
  /\ entry = 0 /\ child = [s \in Sess |-> "unused"] /\ leased = [s \in Sess |-> FALSE]
  /\ opening = {} /\ closer = [k \in Closers |-> NotClosing] /\ removing = "no"
  /\ mode = [w \in Workers |-> "healthy"] /\ dirs = [w \in Workers |-> FALSE]
  /\ ctx = [c \in Contexts |-> "off"] /\ held = [c \in Contexts |-> FALSE]
  /\ closing = [c \in Contexts |-> {}]

----------------------------------------------------------------------------
(* The lock file: a lock whose process has ended is stale.                  *)

Free == ~lock.live

Released(o) == IF lock = LockOf(o) THEN NoLock ELSE lock

----------------------------------------------------------------------------
(* The manual browser.                                                     *)

MainFree == removing = "no" /\ \A k \in Closers : closer[k].at # "remove"

TasksChange ==
  /\ active' \in SUBSET ProfileTasks /\ active' # active /\ known
  /\ UNCHANGED <<lock, manual, main, worker>>

\* The handler checks before it waits for the vision service.
AskOpen ==
  /\ MainFree /\ known /\ active = {} /\ asks = 0
  /\ asks' = 1
  /\ UNCHANGED <<lock, active, manual, known, removing, worker>>

SpawnManual(s) ==
  /\ \A r \in Sess : r < s => child[r] # "unused"
  /\ child[s] = "unused"
  /\ lock' = LockOf(Manual) /\ entry' = s
  /\ child' = [child EXCEPT ![s] = "starting"]
  /\ leased' = [leased EXCEPT ![s] = TRUE]
  /\ opening' = opening \cup {s}
  /\ UNCHANGED closer

\* A listed browser is only reported; a lock in place refuses the call.
Open ==
  /\ MainFree /\ asks = 1 /\ asks' = 0
  /\ \/ (entry # 0 \/ ~Free) /\ UNCHANGED <<lock, manual>>
     \/ entry = 0 /\ Free /\ \E s \in Sess : SpawnManual(s)
  /\ UNCHANGED <<active, known, removing, worker>>

Ready(s) ==
  /\ MainFree /\ s \in opening /\ child[s] = "starting"
  /\ child' = [child EXCEPT ![s] = "ready"] /\ opening' = opening \ {s}
  /\ UNCHANGED <<lock, active, entry, leased, closer, main, worker>>

\* An error message, or no answer in 30 s: the browser is signalled, its exit frees the lock.
ReadyFails(s) ==
  /\ MainFree /\ s \in opening /\ ManualRuns(s)
  /\ entry' = 0 /\ opening' = opening \ {s}
  /\ child' = [child EXCEPT ![s] = "signalled"]
  /\ UNCHANGED <<lock, active, leased, closer, main, worker>>

\* What a close() does when the process it waits for exits. A process ended by a
\* signal has no exit code: a call that learns of its end while it waits for "closed"
\* goes on to wait for an exit that has been.
AfterExit(k, s, coded) ==
  LET c == closer[k] IN
  IF c.of # s THEN c
  ELSE IF c.at = "closed" /\ ~coded THEN [c EXCEPT !.at = "exit"]
  ELSE IF c.reset THEN [c EXCEPT !.at = "remove"] ELSE NotClosing

ExitedIfListed(s) ==
  /\ leased' = IF entry = s THEN [leased EXCEPT ![s] = FALSE] ELSE leased
  /\ lock' = IF entry = s THEN Released(Manual) ELSE lock

\* The "exit" handler of open().
ExitHandler(s) ==
  /\ leased' = [leased EXCEPT ![s] = FALSE]
  /\ lock' = Released(Manual)

ChildExits(s) ==
  /\ MainFree /\ ManualRuns(s)
  /\ child' = [child EXCEPT ![s] = "gone"]
  /\ ExitHandler(s)
  /\ \E coded \in (IF child[s] = "signalled" THEN {FALSE} ELSE BOOLEAN) :
       closer' = [k \in Closers |-> AfterExit(k, s, coded)]
  /\ entry' = IF entry = s THEN 0 ELSE entry
  /\ opening' = opening \ {s}
  /\ UNCHANGED <<active, main, worker>>

AskClose(k, reset) ==
  /\ MainFree /\ closer[k] = NotClosing
  /\ \/ /\ entry # 0
        /\ closer' = [closer EXCEPT ![k] = [at |-> "closed", of |-> entry, reset |-> reset]]
     \/ /\ entry = 0 /\ reset
        /\ closer' = [closer EXCEPT ![k] = [at |-> "remove", of |-> 0, reset |-> TRUE]]
  /\ UNCHANGED <<lock, active, entry, child, leased, opening, main, worker>>

\* "closed" arrives, or it does not in 10 s and the browser gets SIGTERM.
CloseAnswered(k) ==
  /\ MainFree /\ closer[k].at = "closed"
  /\ closer' = [closer EXCEPT ![k].at = "exit"]
  /\ \E c \in {child[closer[k].of], "signalled"} : child' = [child EXCEPT ![closer[k].of] = c]
  /\ UNCHANGED <<lock, active, entry, leased, opening, main, worker>>

ReleaseAfterKill(s) ==
  /\ leased' = [leased EXCEPT ![s] = FALSE] /\ lock' = Released(Manual)

\* No exit code, no release: the exit is still to come.
ReleaseIfExited(s) == UNCHANGED <<lock, leased>>

\* 4 s without the event: SIGKILL, and the entry goes, whichever browser it lists.
CloseTimesOut(k) ==
  /\ MainFree /\ closer[k].at = "exit"
  /\ entry' = 0
  /\ child' = [s \in Sess |-> IF s = closer[k].of /\ ManualRuns(s) THEN "signalled" ELSE child[s]]
  /\ ReleaseIfExited(closer[k].of)
  /\ closer' = [closer EXCEPT ![k] = IF closer[k].reset THEN [@ EXCEPT !.at = "remove"] ELSE NotClosing]
  /\ UNCHANGED <<active, opening, main, worker>>

----------------------------------------------------------------------------
(* Removing the directory: resetSession, and the deletion of the profile,  *)
(* whose record comes back when the lock refuses it.                       *)

BeginRemove ==
  IF Free THEN lock' = LockOf(Remover) /\ removing' = "files"
          ELSE UNCHANGED <<lock, removing>>

ResetRemoves(k) ==
  /\ removing = "no" /\ closer[k].at = "remove"
  /\ BeginRemove
  /\ closer' = [closer EXCEPT ![k] = NotClosing]
  /\ UNCHANGED <<active, entry, child, leased, opening, known, asks, worker>>

DeleteDirectory ==
  /\ MainFree /\ known /\ entry = 0 /\ active = {}
  /\ BeginRemove
  /\ known' = ~Free
  /\ UNCHANGED <<active, manual, asks, worker>>

RemoveLock ==
  /\ removing = "files" /\ removing' = "directory"
  /\ lock' = NoLock
  /\ UNCHANGED <<active, manual, known, asks, worker>>

\* The rest goes, a lock file created meanwhile with it if it is met; the lease's own
\* release looks at the owner.
EndRemove ==
  /\ removing = "directory" /\ removing' = "no"
  /\ lock' \in {NoLock, Released(Remover)}
  /\ UNCHANGED <<active, manual, known, asks, worker>>

----------------------------------------------------------------------------
(* The contexts of the workers.                                            *)

CreateContext(c) ==
  /\ c[2] \in active /\ mode[c[1]] = "healthy"
  /\ ctx[c] = "off" /\ ~dirs[c[1]] /\ Free
  /\ lock' = LockOf(c)
  /\ ctx' = [ctx EXCEPT ![c] = "pending"] /\ held' = [held EXCEPT ![c] = TRUE]
  /\ dirs' = [dirs EXCEPT ![c[1]] = TRUE]
  /\ UNCHANGED <<active, manual, main, mode, closing>>

ContextReady(c) ==
  /\ ctx[c] = "pending"
  /\ ctx' = [ctx EXCEPT ![c] = "open"]
  /\ UNCHANGED <<lock, active, manual, main, mode, dirs, held, closing>>

ContextFails(c) ==
  /\ ctx[c] = "pending"
  /\ ctx' = [ctx EXCEPT ![c] = "off"] /\ held' = [held EXCEPT ![c] = FALSE]
  /\ lock' = IF held[c] THEN Released(c) ELSE lock
  /\ dirs' = [dirs EXCEPT ![c[1]] = FALSE]
  /\ UNCHANGED <<active, manual, main, mode, closing>>

Settling(c) == closing[c] \cup {IF held[c] THEN "leased" ELSE "bare"}

\* A context still being created loses its lease, and its browser goes on.
CloseContext(c) ==
  /\ \/ /\ ctx[c] = "pending" /\ held[c]
        /\ lock' = Released(c) /\ UNCHANGED <<ctx, dirs, closing>>
     \/ /\ ctx[c] = "open"
        /\ ctx' = [ctx EXCEPT ![c] = "off"]
        /\ closing' = [closing EXCEPT ![c] = Settling(c)]
        /\ dirs' = [dirs EXCEPT ![c[1]] = FALSE] /\ UNCHANGED lock
  /\ held' = [held EXCEPT ![c] = FALSE]
  /\ UNCHANGED <<active, manual, main, mode>>

CloseDone(c, how) ==
  /\ how \in closing[c]
  /\ closing' = [closing EXCEPT ![c] = @ \ {how}]
  /\ lock' = IF how = "leased" THEN Released(c) ELSE lock
  /\ UNCHANGED <<active, manual, main, mode, dirs, ctx, held>>

Of(w) == {w} \X ProfileTasks

ShutdownWorker(w) ==
  /\ mode[w] = "healthy" /\ mode' = [mode EXCEPT ![w] = "stopping"]
  /\ LET opened == {c \in Of(w) : ctx[c] = "open"} IN
     /\ ctx' = [c \in Contexts |-> IF c \in opened THEN "off" ELSE ctx[c]]
     /\ held' = [c \in Contexts |-> held[c] /\ c \notin opened]
     /\ closing' = [c \in Contexts |-> IF c \in opened THEN Settling(c) ELSE closing[c]]
     /\ dirs' = [dirs EXCEPT ![w] = @ /\ opened = {}]
  /\ UNCHANGED <<lock, active, manual, main>>

\* The leases of contexts still being created are released.
ShutdownEnds(w) ==
  /\ mode[w] = "stopping" /\ \A c \in Of(w) : closing[c] = {}
  /\ mode' = [mode EXCEPT ![w] = "stopped"]
  /\ lock' = IF \E c \in Of(w) : held[c] /\ lock = LockOf(c) THEN NoLock ELSE lock
  /\ held' = [c \in Contexts |-> held[c] /\ c \notin Of(w)]
  /\ dirs' = [dirs EXCEPT ![w] = FALSE]
  /\ UNCHANGED <<active, manual, main, ctx, closing>>

\* The process ends, at its stop or by itself, and another takes its place; browsers
\* end with the pipe to their parent.
WorkerExits(w) ==
  /\ mode' = [mode EXCEPT ![w] = "healthy"] /\ dirs' = [dirs EXCEPT ![w] = FALSE]
  /\ ctx' = [c \in Contexts |-> IF c \in Of(w) THEN "off" ELSE ctx[c]]
  /\ held' = [c \in Contexts |-> held[c] /\ c \notin Of(w)]
  /\ closing' = [c \in Contexts |-> IF c \in Of(w) THEN {} ELSE closing[c]]
  /\ lock' = IF lock.owner \in Of(w) THEN [lock EXCEPT !.live = FALSE] ELSE lock
  /\ UNCHANGED <<active, manual, main>>

----------------------------------------------------------------------------
Main ==
  \/ TasksChange \/ AskOpen \/ Open \/ DeleteDirectory \/ RemoveLock \/ EndRemove
  \/ \E s \in Sess : Ready(s) \/ ReadyFails(s) \/ ChildExits(s)
  \/ \E k \in Closers :
       (\E reset \in BOOLEAN : AskClose(k, reset)) \/ CloseAnswered(k) \/ CloseTimesOut(k)
       \/ ResetRemoves(k)

Worker ==
  \/ \E c \in Contexts :
       CreateContext(c) \/ ContextReady(c) \/ ContextFails(c) \/ CloseContext(c)
       \/ \E how \in {"leased", "bare"} : CloseDone(c, how)
  \/ \E w \in Workers : ShutdownWorker(w) \/ ShutdownEnds(w) \/ WorkerExits(w)

SessionsNext == Main \/ Worker

SessionsSpec == SessionsInit /\ [][SessionsNext]_sessionsVars


----------------------------------------------------------------------------
\* Every variable keeps to its type.
SessionsTypeOK ==
  /\ lock \in [owner : {Nobody, Manual, Remover} \cup Contexts, live : BOOLEAN]
  /\ known \in BOOLEAN /\ active \subseteq ProfileTasks /\ asks \in 0 .. 1
  /\ entry \in {0} \cup Sess
  /\ child \in [Sess -> {"unused", "starting", "ready", "signalled", "gone"}]
  /\ leased \in [Sess -> BOOLEAN] /\ opening \subseteq Sess
  /\ closer \in [Closers -> [at : {"idle", "closed", "exit", "remove"},
                             of : {0} \cup Sess, reset : BOOLEAN]]
  /\ removing \in {"no", "files", "directory"}
  /\ mode \in [Workers -> {"healthy", "stopping", "stopped"}] /\ dirs \in [Workers -> BOOLEAN]
  /\ ctx \in [Contexts -> {"off", "pending", "open"}] /\ held \in [Contexts -> BOOLEAN]
  /\ closing \in [Contexts -> SUBSET {"leased", "bare"}]

\* A manual browser that has not exited has the profile's lock and is the only one,
\* however open(), close(), reset and the signals interleave
\* (seleniumbase-profile-browser-controller.ts).
ManualBrowserKeepsLock ==
  \A s \in Sess : ManualRuns(s) =>
    leased[s] /\ lock = LockOf(Manual) /\ \A r \in Sess \ {s} : ~ManualRuns(r)

\* A lock that blocks the profile has a holder that will release it: a browser that
\* runs, a context, a removal under way.
LockHasHolder ==
  lock.live =>
    \/ lock.owner = Manual /\ \E s \in Sess : ManualRuns(s) /\ leased[s]
    \/ lock.owner = Remover /\ removing # "no"
    \/ \E c \in Contexts :
         lock.owner = c /\ ((ctx[c] # "off" /\ held[c]) \/ "leased" \in closing[c])

\* No two browsers use the profile at a time: manual, a task's, or one closing.
OneBrowserPerProfile ==
  Cardinality({s \in Sess : ManualRuns(s)})
    + Cardinality({c \in Contexts : ctx[c] # "off" \/ closing[c] # {}}) <= 1

\* A browser that is ready and that nobody closes is listed.
OpenBrowserIsListed ==
  \A s \in Sess : child[s] = "ready" /\ (\A k \in Closers : closer[k].of # s) => entry = s
=============================================================================
