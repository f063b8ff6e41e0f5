------------------------------ MODULE Shutdown -------------------------------
(***************************************************************************)
(* The end of main: on a signal the HTTP server is given a window to       *)
(* drain, then the deferred calls close the broker, the worker pool, the   *)
(* browser pool and the store, in this order.  Meanwhile handlers, a scan  *)
(* and its tasks go on.  The parts are seen from outside here: a stream    *)
(* ends when the broker is closed (Broker), a fetch panics once the        *)
(* browser pool is (BrowserPool), a scan has a task for every source       *)
(* (Scanner).                                                              *)
(*                                                                         *)
(* The worker pool is pond's, with the signal's context: once that is done *)
(* its workers drop what is queued.  Whether Submit already refuses then   *)
(* is left open; on a stopped pool it panics, and nobody recovers a panic  *)
(* of the goroutine of a scan.                                             *)
(*                                                                         *)
(* A task of a source submits others to the same pool.  Such a Submit may  *)
(* block while sources hold all workers, and then looks at no context, be  *)
(* it the signal's or the task's own: see TaskGroups.                      *)
(***************************************************************************)
EXTENDS FiniteSets, Naturals

CONSTANTS Streams,     \* GET /api/scan/stream
          Pages,       \* GET /, each of which starts a scan if none runs
          Sources,     \* what a scan has tasks for
          ScanWorkers

ASSUME ShutdownAssumption == ScanWorkers \in Nat \ {0}

VARIABLES pc,       \* where main is
          signal,   \* rootCtx is done
          open,     \* services that have not been closed
          stream, page,
          scan,     \* where the goroutine of the scan is
          todo,     \* sources it has not submitted
          task

shutdownVars == <<pc, signal, open, stream, page, scan, todo, task>>

Connection == {"none", "open", "ended"}

ShutdownTypeOK ==
  /\ pc \in {"serving", "draining", "closing", "stoppingPool", "poolStopped",
             "browserClosed", "exited", "crashed"}
  /\ signal \in BOOLEAN
  /\ open \subseteq {"broker", "pool", "browser", "repo"}
  /\ stream \in [Streams -> Connection]
  /\ page \in [Pages -> Connection]
  /\ scan \in {"idle", "listing", "submitting", "waiting", "ended"}
  /\ todo \subseteq Sources
  /\ task \in [Sources -> {"none", "queued", "late", "running", "blocked", "done",
                           "dropped"}]

ShutdownInit ==
  /\ pc = "serving"
  /\ signal = FALSE
  /\ open = {"broker", "pool", "browser", "repo"}
  /\ stream = [s \in Streams |-> "none"]
  /\ page = [p \in Pages |-> "none"]
  /\ scan = "idle"
  /\ todo = {}
  /\ task = [s \in Sources |-> "none"]

Alive == pc \notin {"exited", "crashed"}
InPool == {s \in Sources : task[s] \in {"queued", "late", "running", "blocked"}}
OnWorker == {s \in Sources : task[s] \in {"running", "blocked"}}
WorkerIsFree == Cardinality(OnWorker) < ScanWorkers

------------------------------------------------------------------------------
(* Connections.  Shutdown closes the listener first.                        *)

StreamOpens(s) ==
  /\ pc = "serving" /\ stream[s] = "none"
  /\ stream' = [stream EXCEPT ![s] = "open"]
  /\ UNCHANGED <<pc, signal, open, page, scan, todo, task>>

ClientLeaves(s) ==
  /\ Alive /\ stream[s] = "open"
  /\ stream' = [stream EXCEPT ![s] = "ended"]
  /\ UNCHANGED <<pc, signal, open, page, scan, todo, task>>

BrokerDismisses(s) ==
  /\ Alive /\ stream[s] = "open" /\ "broker" \notin open
  /\ stream' = [stream EXCEPT ![s] = "ended"]
  /\ UNCHANGED <<pc, signal, open, page, scan, todo, task>>

PageRequested(p) ==
  /\ pc = "serving" /\ page[p] = "none"
  /\ page' = [page EXCEPT ![p] = "open"]
  /\ UNCHANGED <<pc, signal, open, stream, scan, todo, task>>

\* The handler may come to StartScan while the server drains or is done with it.
ServePage(p) ==
  /\ Alive /\ page[p] = "open"
  /\ page' = [page EXCEPT ![p] = "ended"]
  /\ scan' = IF scan \in {"idle", "ended"} THEN "listing" ELSE scan
  /\ UNCHANGED <<pc, signal, open, stream, todo, task>>

------------------------------------------------------------------------------
(* The scan, whose context is its own.                                      *)

ListSources ==
  /\ Alive /\ scan = "listing" /\ "repo" \in open
  /\ scan' = "submitting"
  /\ todo' = Sources
  /\ UNCHANGED <<pc, signal, open, stream, page, task>>

ListSourcesFails ==
  /\ Alive /\ scan = "listing"
  /\ scan' = "ended"
  /\ UNCHANGED <<pc, signal, open, stream, page, todo, task>>

\* A task that comes after the signal may find that the workers have dropped what
\* was queued and left.
Submit(s) ==
  /\ Alive /\ scan = "submitting" /\ s \in todo
  /\ "pool" \in open
  /\ task' = [task EXCEPT ![s] = IF signal THEN "late" ELSE "queued"]
  /\ todo' = todo \ {s}
  /\ scan' = IF todo = {s} THEN "waiting" ELSE scan
  /\ UNCHANGED <<pc, signal, open, stream, page>>

SubmitPanics ==
  /\ Alive /\ scan = "submitting"
  /\ signal \/ "pool" \notin open
  /\ pc' = "crashed"
  /\ UNCHANGED <<signal, open, stream, page, scan, todo, task>>

TakeTask(s) ==
  /\ Alive /\ task[s] \in {"queued", "late"} /\ WorkerIsFree
  /\ task' = [task EXCEPT ![s] = "running"]
  /\ UNCHANGED <<pc, signal, open, stream, page, scan, todo>>

DropTask(s) ==
  /\ Alive /\ task[s] \in {"queued", "late"} /\ WorkerIsFree /\ signal
  /\ task' = [task EXCEPT ![s] = "dropped"]
  /\ UNCHANGED <<pc, signal, open, stream, page, scan, todo>>

\* The task is in Submit, the queue is full and no worker empties it.
TaskBlocks(s) ==
  /\ Alive /\ task[s] = "running" /\ ~WorkerIsFree
  /\ task' = [task EXCEPT ![s] = "blocked"]
  /\ UNCHANGED <<pc, signal, open, stream, page, scan, todo>>

\* A task that is not in Submit ends by its deadline of 300 s at the latest, also
\* when it waits for tasks of a group of its own that were dropped; one that is in
\* Submit first needs a worker that empties the queue.
TaskEnds(s) ==
  /\ Alive
  /\ task[s] = "running" \/ (task[s] = "blocked" /\ WorkerIsFree)
  /\ task' = [task EXCEPT ![s] = "done"]
  /\ UNCHANGED <<pc, signal, open, stream, page, scan, todo>>

\* A dropped task never gives back its place in the group the scan waits for.
ScanEnds ==
  /\ Alive /\ scan = "waiting"
  /\ \A s \in Sources : task[s] = "done"
  /\ scan' = "ended"
  /\ UNCHANGED <<pc, signal, open, stream, page, todo, task>>

------------------------------------------------------------------------------
(* main *)

SignalComes ==
  /\ Alive /\ ~signal
  /\ signal' = TRUE
  /\ UNCHANGED <<pc, open, stream, page, scan, todo, task>>

BeginDrain ==
  /\ pc = "serving" /\ signal
  /\ pc' = "draining"
  /\ UNCHANGED <<signal, open, stream, page, scan, todo, task>>


\* httpSrv.Shutdown returns when no connection is left, or with its context,
\* which takes ShutdownTimeout; either way main goes on.
EndDrain ==
  /\ pc = "draining"
  /\ pc' = "closing"
  /\ UNCHANGED <<signal, open, stream, page, scan, todo, task>>

CloseBroker ==
  /\ pc = "closing" /\ "broker" \in open
  /\ open' = open \ {"broker"}
  /\ UNCHANGED <<pc, signal, stream, page, scan, todo, task>>

BeginStopPool ==
  /\ pc = "closing" /\ "broker" \notin open
  /\ open' = open \ {"pool"}
  /\ pc' = "stoppingPool"
  /\ UNCHANGED <<signal, stream, page, scan, todo, task>>

\* Stop in place of StopAndWait (mutant).
EndStopPoolAtOnce ==
  /\ pc = "stoppingPool"
  /\ pc' = "poolStopped"
  /\ UNCHANGED <<signal, open, stream, page, scan, todo, task>>

EndStopPool ==
  /\ pc = "stoppingPool" /\ InPool = {}
  /\ pc' = "poolStopped"
  /\ UNCHANGED <<signal, open, stream, page, scan, todo, task>>

CloseBrowser ==
  /\ pc = "poolStopped"
  /\ open' = open \ {"browser"}
  /\ pc' = "browserClosed"
  /\ UNCHANGED <<signal, stream, page, scan, todo, task>>

CloseRepo ==
  /\ pc = "browserClosed"
  /\ open' = open \ {"repo"}
  /\ pc' = "exited"
  /\ UNCHANGED <<signal, stream, page, scan, todo, task>>

------------------------------------------------------------------------------

Main == BeginDrain \/ EndDrain \/ CloseBroker \/ BeginStopPool \/ EndStopPool
          \/ CloseBrowser \/ CloseRepo

Scan == ListSources \/ ListSourcesFails \/ SubmitPanics \/ ScanEnds
          \/ \E s \in Sources : Submit(s)

ShutdownNext ==
  \/ SignalComes \/ Main \/ Scan
  \/ \E s \in Streams : StreamOpens(s) \/ ClientLeaves(s) \/ BrokerDismisses(s)
  \/ \E p \in Pages : PageRequested(p) \/ ServePage(p)
  \/ \E s \in Sources : TakeTask(s) \/ DropTask(s) \/ TaskBlocks(s) \/ TaskEnds(s)

\* Main goes on, a task ends by its deadline unless it is blocked, and a worker that
\* is free takes what was queued before the signal or drops it.  Nothing is assumed
\* of a task that is blocked, nor of one submitted after the signal, which may meet
\* no worker; and no connection ends by itself.
ShutdownFairness ==
  /\ WF_shutdownVars(Main)
  /\ \A s \in Sources :
       /\ WF_shutdownVars(task[s] = "queued" /\ (TakeTask(s) \/ DropTask(s)))
       /\ WF_shutdownVars(TaskEnds(s))

ShutdownSpec == ShutdownInit /\ [][ShutdownNext]_shutdownVars /\ ShutdownFairness

------------------------------------------------------------------------------

\* No task of the pool is left when the services it works with are closed,
\* although the scan goes on submitting and pages go on starting scans while
\* main shuts down: a fetch would panic, a listing would be lost (main.go:80).
NoTaskOutlivesItsServices ==
  Alive => (InPool # {} => {"browser", "repo"} \subseteq open)

\* StopAndWait cannot return: sources hold all workers and none can go on, or a task
\* came after the signal and no worker has met it.
HeldUp ==
  \/ Cardinality({s \in Sources : task[s] = "blocked"}) = ScanWorkers
  \/ \E s \in Sources : task[s] = "late"

==============================================================================
