---------------------------- MODULE VisionService ----------------------------
(***************************************************************************)
(* The local image-recognition services. The main process and each browser *)
(* worker process start one when they need it and find none named in their *)
(* environment; a worker inherits the environment the main process has     *)
(* when it starts the worker (src/electron/seleniumbase-vision-runtime.ts, *)
(* src/browser-worker/ares-browser-runtime.ts). A service watches neither  *)
(* its parent nor its standard input: it ends on a signal or by itself.    *)
(***************************************************************************)
EXTENDS Naturals

CONSTANT MaxServices   \* bound: services ever started

VARIABLES
  service,    \* state of each service
  starter,    \* the process that started it
  own,        \* sharedService of a process, 0 for none
  starts,     \* services whose startup line the process waits for
  url,        \* the service its environment names, 0 for none
  ending,     \* how far shutdown is
  preparing   \* a prepare() of the main process runs

visionVars == <<service, starter, own, starts, url, ending, preparing>>

Owners == {"main", "worker"}
Ids == 1 .. MaxServices
Alive(s) == service[s] \in {"starting", "up"}

VisionInit ==
  /\ service = [s \in Ids |-> "unused"] /\ starter = [s \in Ids |-> "main"]
  /\ own = [o \in Owners |-> 0] /\ starts = [o \in Owners |-> {}]
  /\ url = [o \in Owners |-> 0]
  /\ ending = [o \in Owners |-> IF o = "main" THEN "no" ELSE "gone"]
  /\ preparing = FALSE

OwnerRuns(o) == ending[o] # "gone"

SpawnService(o) ==
  \E s \in Ids :
    /\ service[s] = "unused" /\ \A r \in Ids : r < s => service[r] # "unused"
    /\ service' = [service EXCEPT ![s] = "starting"]
    /\ starter' = [starter EXCEPT ![s] = o]
    /\ starts' = [starts EXCEPT ![o] = @ \cup {s}]
    /\ UNCHANGED <<own, url>>

Adopt(o, s) ==
  /\ url' = [url EXCEPT ![o] = s]
  /\ UNCHANGED <<service, starter, own, starts>>

\* Without looking for a start under way.
EnsureAgain(o) ==
  IF own[o] # 0 THEN Adopt(o, own[o])
  ELSE /\ url[o] = 0
       /\ SpawnService(o)

\* A service named in the environment that is not one's own is never replaced.
EnsureService(o) ==
  IF own[o] # 0 THEN Adopt(o, own[o])
  ELSE /\ url[o] = 0 /\ starts[o] = {}
       /\ SpawnService(o)

\* A manual browser, a context, or the start of a worker asks for the service;
\* neither process refuses at its end.
Ensure(o) ==
  /\ OwnerRuns(o) /\ EnsureService(o)
  /\ UNCHANGED <<ending, preparing>>

Prepare ==
  /\ OwnerRuns("main") /\ ~preparing /\ preparing' = TRUE
  /\ UNCHANGED <<service, starter, own, starts, url, ending>>

\* The models are there after up to 10 min, or they are not.
Prepared ==
  /\ OwnerRuns("main") /\ preparing /\ preparing' = FALSE
  /\ UNCHANGED ending
  /\ EnsureService("main") \/ UNCHANGED <<service, starter, own, starts, url>>

Started(s) ==
  LET o == starter[s] IN
  /\ OwnerRuns(o) /\ s \in starts[o] /\ service[s] = "starting"
  /\ service' = [service EXCEPT ![s] = "up"]
  /\ starts' = [starts EXCEPT ![o] = @ \ {s}]
  /\ own' = [own EXCEPT ![o] = s] /\ url' = [url EXCEPT ![o] = s]
  /\ UNCHANGED <<starter, ending, preparing>>

\* A bad line, or none in 8 s.
StartFails(s) ==
  LET o == starter[s] IN
  /\ OwnerRuns(o) /\ s \in starts[o] /\ service[s] = "starting"
  /\ service' = [service EXCEPT ![s] = "signalled"]
  /\ starts' = [starts EXCEPT ![o] = @ \ {s}]
  /\ UNCHANGED <<starter, own, url, ending, preparing>>

Cleared(o, s) == IF url[o] = s THEN [url EXCEPT ![o] = 0] ELSE url

Exits(s) ==
  LET o == starter[s]
      listed == own[o] = s IN
  /\ Alive(s) \/ service[s] = "signalled"
  /\ service' = [service EXCEPT ![s] = "gone"]
  /\ starts' = [starts EXCEPT ![o] = @ \ {s}]
  /\ own' = IF listed THEN [own EXCEPT ![o] = 0] ELSE own
  /\ url' = IF listed THEN Cleared(o, s) ELSE url
  /\ UNCHANGED <<starter, ending, preparing>>

----------------------------------------------------------------------------
(* The end of a process: it waits for a start under way, then up to 3 s    *)
(* for its service.                                                        *)

ShutdownVision(o) ==
  /\ ending[o] = "no" /\ ending' = [ending EXCEPT ![o] = "waiting"]
  /\ UNCHANGED <<service, starter, own, starts, url, preparing>>

StopService(o) ==
  /\ ending[o] = "waiting" /\ starts[o] = {}
  /\ ending' = [ending EXCEPT ![o] = "stopped"]
  /\ own' = [own EXCEPT ![o] = 0]
  /\ IF own[o] = 0 THEN UNCHANGED <<service, url>>
     ELSE /\ service' = [service EXCEPT ![own[o]] = "signalled"]
          /\ url' = Cleared(o, own[o])
  /\ UNCHANGED <<starter, starts, preparing>>

Forgotten(o) ==
  /\ ending' = [ending EXCEPT ![o] = "gone"]
  /\ own' = [own EXCEPT ![o] = 0] /\ starts' = [starts EXCEPT ![o] = {}]
  /\ url' = [url EXCEPT ![o] = 0]

\* The worker ends after its shutdown, by itself, or by SIGKILL of the main process.
WorkerEnds ==
  /\ OwnerRuns("worker") /\ Forgotten("worker")
  /\ UNCHANGED <<service, starter, preparing>>

\* The main process ends when its executors have closed.
MainEnds ==
  /\ ending["main"] = "stopped" /\ ~OwnerRuns("worker")
  /\ Forgotten("main") /\ preparing' = FALSE
  /\ UNCHANGED <<service, starter>>

WorkerStarts ==
  /\ OwnerRuns("main") /\ ~OwnerRuns("worker")
  /\ ending' = [ending EXCEPT !["worker"] = "no"]
  /\ url' = [url EXCEPT !["worker"] = url["main"]]
  /\ UNCHANGED <<service, starter, own, starts, preparing>>

----------------------------------------------------------------------------
VisionNext ==
  \/ Prepare \/ Prepared \/ WorkerStarts \/ WorkerEnds \/ MainEnds
  \/ \E o \in Owners : Ensure(o) \/ ShutdownVision(o) \/ StopService(o)
  \/ \E s \in Ids : Started(s) \/ StartFails(s) \/ Exits(s)

VisionSpec == VisionInit /\ [][VisionNext]_visionVars

----------------------------------------------------------------------------
\* Every variable keeps to its type.
VisionTypeOK ==
  /\ service \in [Ids -> {"unused", "starting", "up", "signalled", "gone"}]
  /\ starter \in [Ids -> Owners] /\ own \in [Owners -> {0} \cup Ids]
  /\ starts \in [Owners -> SUBSET Ids] /\ url \in [Owners -> {0} \cup Ids]
  /\ ending \in [Owners -> {"no", "waiting", "stopped", "gone"}]
  /\ preparing \in BOOLEAN

\* The main process has at most one service, starting or up and still to be stopped by it,
\* and names none other in its environment than its own, so that no worker inherits a
\* service that has ended (ensureSharedService, the "exit" handler and shutdown).
MainServiceIsNamed ==
  /\ \A s \in Ids : Alive(s) /\ starter[s] = "main" /\ OwnerRuns("main") =>
       IF own["main"] # 0 THEN s = own["main"] ELSE starts["main"] = {s}
  /\ url["main"] = own["main"]
  /\ own["main"] # 0 => service[own["main"]] = "up"

\* One service per worker, the one of a predecessor included.
OneServicePerWorker ==
  \A r, s \in Ids : (r # s /\ starter[r] = "worker" /\ starter[s] = "worker") =>
                      ~(service[r] = "up" /\ service[s] = "up")

\* No service outlives the program.
NoServiceAfterQuit == ~OwnerRuns("main") => \A s \in Ids : ~Alive(s)

\* The service a worker's environment names exists, or will be forgotten.
WorkerServiceLives == url["worker"] # 0 => service[url["worker"]] # "gone"
=============================================================================
