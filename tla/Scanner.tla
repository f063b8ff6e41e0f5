------------------------------ MODULE Scanner ------------------------------
(***************************************************************************)
(* A scan: StartScan, the goroutine that lists the sources and submits one *)
(* task per source to the worker pool, the tasks that file the listings of *)
(* their source, and the end of the scan, over the store and beside a user *)
(* who deletes jobs.                                                       *)
(*                                                                         *)
(* A step is one statement, one critical section of Scanner.mu, one atomic *)
(* counter operation or one call into a source.  A listing is named by the *)
(* job id it gets if it is stored, so its company and URL are CompanyOf    *)
(* and CanonOf of that id.                                                 *)
(***************************************************************************)
EXTENDS JobStore, FiniteSets, Functions

CONSTANTS
  Boards,         (* names of the registered aggregators                   *)
  NoJob,          (* no current listing                                    *)
  Workers,        (* workers of the shared pool                            *)
  Queue,          (* capacity of its task queue                            *)
  Filed,          (* jobs of earlier sessions, a row each unless its       *)
                  (* company was deleted                                   *)
  StatementsFail, (* whether a statement may fail that is not cancelled    *)
  MaxScans        (* bound on the scans started                            *)

ASSUME ScannerAssumption ==
  /\ NoJob \notin Jobs
  /\ Workers \in Nat \ {0} /\ Queue \in Nat
  /\ IsFiniteSet(Companies) /\ IsFiniteSet(Boards) /\ IsFiniteSet(Jobs)
  /\ Filed \subseteq Jobs
  /\ \A i, j \in Filed : SamePosting(i, j) => i = j
  /\ StatementsFail \in BOOLEAN
  /\ MaxScans \in Nat

(* What NewJobSource is called with: a company or an aggregator.           *)
Sources == [kind : {"company"}, name : Companies] \union
           [kind : {"board"}, name : Boards]

VARIABLES
  state,      (* Scanner.state, guarded by mu                              *)
  run,        (* the goroutine of the scan: "idle", "list" or "wait"       *)
  cancelled,  (* the scan's context                                        *)
  src,        (* per source: its task in this scan                         *)
  found,      (* the counters the tasks share                              *)
  done,
  calls,      (* callbacks started as goroutines that have not run yet     *)
  announced,  (* history: job_found callbacks started by this scan         *)
  stored,     (* history: ids that got a row                               *)
  scans       (* history: scans started                                    *)

scanVars == <<state, run, cancelled, src, found, done, calls>>
scanHistory == <<announced, stored, scans>>
vars == <<storeVars, scanVars, scanHistory>>

-----------------------------------------------------------------------------

IdleState == [running |-> FALSE, percent |-> 0, found |-> 0, total |-> 0,
              error |-> FALSE]

(* The locals of a task: the listings not yet reached, the one in hand,    *)
(* the new jobs so far, whether its 300 s are over, and the values its two *)
(* atomic additions returned.                                              *)
NewTask == [pc |-> "off", todo |-> {}, cur |-> NoJob, newN |-> 0,
            late |-> FALSE, sum |-> 0, nth |-> 0]

Over == {"off", "counted", "abandoned"}
Working == {"find", "loop", "check", "parse", "resolve", "store", "announce",
            "addDone", "publish"}

InScan == {s \in Sources : src[s].pc # "off"}
Busy == {s \in Sources : src[s].pc \in Working}
Waiting == {s \in Sources : src[s].pc = "queued"}

Late(s) == cancelled \/ src[s].late

(* A statement under the task's context may fail, and does once the        *)
(* context is done.                                                        *)
MayFail(s) == StatementsFail \/ Late(s)

At(s, pc) == src[s].pc = pc
GoTo(s, pc) == src' = [src EXCEPT ![s].pc = pc]
NextListing(s) == src' = [src EXCEPT ![s] = [@ EXCEPT !.pc = "loop", !.cur = NoJob]]

(* appendWarn: the last message replaces the one before.                   *)
Warn == state' = [state EXCEPT !.error = TRUE]

-----------------------------------------------------------------------------
(* The scan.                                                               *)

(* Idempotent: nothing happens while a scan is running.                    *)
StartScan ==
  /\ ~state.running
  /\ scans < MaxScans
  /\ state' = [IdleState EXCEPT !.running = TRUE]
  /\ cancelled' = FALSE
  /\ run' = "list"
  /\ src' = [s \in Sources |-> NewTask]
  /\ found' = 0 /\ done' = 0
  /\ announced' = 0
  /\ scans' = scans + 1
  /\ UNCHANGED <<storeVars, calls, stored>>

FinishWithErr ==
  /\ state' = [state EXCEPT !.running = FALSE, !.error = TRUE]
  /\ run' = "idle"
  /\ UNCHANGED calls

FinishOK(n) ==
  /\ state' = [state EXCEPT !.running = FALSE, !.percent = 100, !.found = n]
  /\ run' = "idle"
  /\ calls' = calls \union {[kind |-> "complete", found |-> n]}

(* ListCompanies, the aggregators, setTotal; with no source at all the     *)
(* scan is over.                                                           *)
ListSources ==
  LET listed == {s \in Sources : s.kind = "board" \/ s.name \in ActiveCompanies} IN
  /\ run = "list" /\ ~cancelled
  /\ IF listed = {}
       THEN FinishOK(0) /\ UNCHANGED src
       ELSE /\ state' = [state EXCEPT !.total = Cardinality(listed)]
            /\ run' = "wait"
            /\ src' = [s \in Sources |-> IF s \in listed
                                            THEN [NewTask EXCEPT !.pc = "unsent"]
                                            ELSE NewTask]
            /\ UNCHANGED calls
  /\ UNCHANGED <<storeVars, cancelled, found, done, scanHistory>>

ListSourcesFails ==
  /\ run = "list" /\ (StatementsFail \/ cancelled)
  /\ FinishWithErr
  /\ UNCHANGED <<storeVars, cancelled, src, found, done, scanHistory>>

(* Submit blocks while every worker is busy and the queue is full.         *)
SubmitTask(s) ==
  /\ run = "wait" /\ At(s, "unsent")
  /\ Cardinality(Busy) + Cardinality(Waiting) < Workers + Queue
  /\ GoTo(s, "queued")
  /\ UNCHANGED <<storeVars, state, run, cancelled, found, done, calls, scanHistory>>

WorkerTakes(s) ==
  /\ At(s, "queued")
  /\ Cardinality(Busy) < Workers
  /\ GoTo(s, "find")
  /\ UNCHANGED <<storeVars, state, run, cancelled, found, done, calls, scanHistory>>

(* Mutants of Finish: wg.Done comes before the progress is published; the  *)
(* total is taken from the published progress.                             *)
FinishEarly ==
  /\ run = "wait"
  /\ \A s \in Sources : src[s].pc \in Over \union {"publish"}
  /\ IF cancelled THEN FinishWithErr ELSE FinishOK(found)
  /\ UNCHANGED <<storeVars, cancelled, src, found, done, scanHistory>>

FinishAsPublished ==
  /\ run = "wait"
  /\ \A s \in Sources : src[s].pc \in Over
  /\ IF cancelled THEN FinishWithErr ELSE FinishOK(state.found)
  /\ UNCHANGED <<storeVars, cancelled, src, found, done, scanHistory>>

(* wg.Wait, then the end the context asks for.                             *)
Finish ==
  /\ run = "wait"
  /\ \A s \in Sources : src[s].pc \in Over
  /\ IF cancelled THEN FinishWithErr ELSE FinishOK(found)
  /\ UNCHANGED <<storeVars, cancelled, src, found, done, scanHistory>>

(* Stop cancels the context; the tasks find out at their next statement.   *)
Stop ==
  /\ run # "idle" /\ ~cancelled
  /\ cancelled' = TRUE
  /\ UNCHANGED <<storeVars, state, run, src, found, done, calls, scanHistory>>

-----------------------------------------------------------------------------
(* The task of one source.                                                 *)

(* Listings no task has in hand and that were never stored.  Sources drop  *)
(* those with a blank URL.  A company's page lists its own jobs.           *)
Listable(s) ==
  {j \in Jobs \ minted :
     /\ CanonOf[j] # NoUrl
     /\ s.kind = "company" => CompanyOf[j] = s.name
     /\ \A t \in Sources : j \notin src[t].todo \union {src[t].cur}}

FindJobs(s) ==
  /\ At(s, "find")
  /\ \E listings \in SUBSET Listable(s) :
       src' = [src EXCEPT ![s] = [@ EXCEPT !.pc = "loop", !.todo = listings]]
  /\ UNCHANGED <<storeVars, state, run, cancelled, found, done, calls, scanHistory>>

(* An error that is not the task's own deadline is shown.                  *)
FindJobsFails(s) ==
  /\ At(s, "find")
  /\ IF Late(s) THEN UNCHANGED state ELSE Warn
  /\ GoTo(s, "loop")
  /\ UNCHANGED <<storeVars, run, cancelled, found, done, calls, scanHistory>>

TakeListing(s, j) ==
  /\ At(s, "loop") /\ j \in src[s].todo
  /\ ~Late(s)
  /\ src' = [src EXCEPT ![s] = [@ EXCEPT !.pc = "check", !.cur = j,
                                         !.todo = src[s].todo \ {j}]]
  /\ UNCHANGED <<storeVars, state, run, cancelled, found, done, calls, scanHistory>>

(* Mutant of Abandon: the loop is continued instead of left.               *)
AbandonContinues(s) ==
  /\ At(s, "loop") /\ src[s].todo # {}
  /\ Late(s)
  /\ Warn
  /\ UNCHANGED <<storeVars, run, cancelled, src, found, done, calls, scanHistory>>

(* The deadline is noticed between two listings: the task returns without  *)
(* being counted, though what it has stored stays.                         *)
Abandon(s) ==
  /\ At(s, "loop") /\ src[s].todo # {}
  /\ Late(s)
  /\ Warn
  /\ src' = [src EXCEPT ![s] = [@ EXCEPT !.pc = "abandoned", !.todo = {}]]
  /\ UNCHANGED <<storeVars, run, cancelled, found, done, calls, scanHistory>>

SkipKnown(s) ==
  /\ At(s, "check") /\ ~Late(s)
  /\ JobURLExists(CanonOf[src[s].cur])
  /\ NextListing(s)
  /\ UNCHANGED <<storeVars, state, run, cancelled, found, done, calls, scanHistory>>

(* The URL is not there, or the look-up fails: the listing is filed.       *)
IsUnknown(s) ==
  /\ At(s, "check")
  /\ ~JobURLExists(CanonOf[src[s].cur]) \/ MayFail(s)
  /\ GoTo(s, "parse")
  /\ UNCHANGED <<storeVars, state, run, cancelled, found, done, calls, scanHistory>>

(* ParseJobMetadata of a company's source goes on without the details of a *)
(* page that neither the browser nor a plain request can get.              *)
ParseCompanyPage(s) ==
  /\ At(s, "parse") /\ s.kind = "company"
  /\ GoTo(s, "store")
  /\ UNCHANGED <<storeVars, state, run, cancelled, found, done, calls, scanHistory>>

(* A listing of a board still needs its company's id.                      *)
ParseBoardListing(s) ==
  /\ At(s, "parse") /\ s.kind = "board"
  /\ GoTo(s, "resolve")
  /\ UNCHANGED <<storeVars, state, run, cancelled, found, done, calls, scanHistory>>

(* The scanner is ready for an error, though no source gives one yet.      *)
ParseJobMetadataFails(s) ==
  /\ At(s, "parse")
  /\ NextListing(s)
  /\ UNCHANGED <<storeVars, state, run, cancelled, found, done, calls, scanHistory>>

ResolveCompany(s) ==
  /\ At(s, "resolve") /\ ~Late(s)
  /\ UpsertCompanyByName(CompanyOf[src[s].cur])
  /\ GoTo(s, "store")
  /\ UNCHANGED <<state, run, cancelled, found, done, calls, scanHistory>>

(* Without a company the listing is skipped.  The row may be there all the *)
(* same: the id is read back in a second statement.                        *)
ResolveCompanyFails(s) ==
  /\ At(s, "resolve") /\ MayFail(s)
  /\ UpsertCompanyByName(CompanyOf[src[s].cur]) \/ UNCHANGED storeVars
  /\ Warn
  /\ NextListing(s)
  /\ UNCHANGED <<run, cancelled, found, done, calls, scanHistory>>

StoreJob(s) ==
  /\ At(s, "store") /\ ~Late(s)
  /\ UpsertJob(src[s].cur)
  /\ stored' = stored \union (rows' \ rows)
  /\ GoTo(s, "announce")
  /\ UNCHANGED <<state, run, cancelled, found, done, calls, announced, scans>>

StoreJobFails(s) ==
  /\ At(s, "store") /\ MayFail(s)
  /\ Warn
  /\ NextListing(s)
  /\ UNCHANGED <<storeVars, run, cancelled, found, done, calls, scanHistory>>

(* job_found goes out for whatever the upsert accepted.                    *)
Announce(s) ==
  /\ At(s, "announce")
  /\ calls' = calls \union {[kind |-> "job", id |-> src[s].cur]}
  /\ announced' = announced + 1
  /\ src' = [src EXCEPT ![s] = [@ EXCEPT !.pc = "loop", !.cur = NoJob,
                                         !.newN = src[s].newN + 1]]
  /\ UNCHANGED <<storeVars, state, run, cancelled, found, done, stored, scans>>

AddFound(s) ==
  /\ At(s, "loop") /\ src[s].todo = {}
  /\ found' = found + src[s].newN
  /\ src' = [src EXCEPT ![s] = [@ EXCEPT !.pc = "addDone", !.sum = found']]
  /\ UNCHANGED <<storeVars, state, run, cancelled, done, calls, scanHistory>>

AddDone(s) ==
  /\ At(s, "addDone")
  /\ done' = done + 1
  /\ src' = [src EXCEPT ![s] = [@ EXCEPT !.pc = "publish", !.nth = done']]
  /\ UNCHANGED <<storeVars, state, run, cancelled, found, calls, scanHistory>>

(* setProgress, and wg.Done on return.                                     *)
SetProgress(s) ==
  LET pct == (src[s].nth * 100) \div state.total IN
  /\ At(s, "publish")
  /\ state' = [state EXCEPT !.percent = pct, !.found = src[s].sum]
  /\ calls' = calls \union {[kind |-> "status", running |-> state.running,
                             percent |-> pct, found |-> src[s].sum]}
  /\ src' = [src EXCEPT ![s] = [@ EXCEPT !.pc = "counted", !.sum = 0, !.nth = 0]]
  /\ UNCHANGED <<storeVars, run, cancelled, found, done, scanHistory>>

(* The 300 seconds of a task are over.                                     *)
Expire(s) ==
  /\ src[s].pc \in Working /\ ~src[s].late
  /\ src' = [src EXCEPT ![s].late = TRUE]
  /\ UNCHANGED <<storeVars, state, run, cancelled, found, done, calls, scanHistory>>

-----------------------------------------------------------------------------
(* Beside the scan.                                                        *)

(* A callback goroutine gets its turn, in any order.                       *)
CallbackRuns(c) ==
  /\ c \in calls
  /\ calls' = calls \ {c}
  /\ UNCHANGED <<storeVars, state, run, cancelled, src, found, done, scanHistory>>

UserDeletes(j) ==
  /\ j \in rows
  /\ DeleteJobs({j})
  /\ UNCHANGED <<scanVars, scanHistory>>

-----------------------------------------------------------------------------

Scan ==
  \/ ListSources \/ ListSourcesFails
  \/ \E s \in Sources : SubmitTask(s)
  \/ Finish

Task(s) ==
  \/ \E j \in Jobs : TakeListing(s, j)
  \/ Abandon(s)
  \/ SkipKnown(s) \/ IsUnknown(s)
  \/ ParseCompanyPage(s) \/ ParseBoardListing(s) \/ ParseJobMetadataFails(s)
  \/ ResolveCompany(s) \/ ResolveCompanyFails(s)
  \/ StoreJob(s) \/ StoreJobFails(s)
  \/ Announce(s)
  \/ AddFound(s) \/ AddDone(s) \/ SetProgress(s)

Find(s) == FindJobs(s) \/ FindJobsFails(s)

(* The companies and jobs of earlier sessions are in the database.         *)
Init ==
  /\ companies \in SUBSET Companies
  /\ minted = Filed /\ applied = {} /\ banned = {}
  /\ rows = {j \in Filed : CompanyOf[j] \in companies}
  /\ queue = [j \in Jobs |-> "out"]
  /\ state = IdleState
  /\ run = "idle"
  /\ cancelled = FALSE
  /\ src = [s \in Sources |-> NewTask]
  /\ found = 0 /\ done = 0
  /\ calls = {}
  /\ announced = 0 /\ stored = {} /\ scans = 0

Next ==
  \/ StartScan \/ Scan \/ Stop
  \/ \E s \in Sources : WorkerTakes(s) \/ Find(s) \/ Task(s) \/ Expire(s)
  \/ \E c \in calls : CallbackRuns(c)
  \/ \E j \in Jobs : UserDeletes(j)

Spec == Init /\ [][Next]_vars

(* Statements return (busy_timeout), the pool's workers run their tasks,   *)
(* goroutines get their turn.  A source is not assumed to return.          *)
Fairness ==
  /\ WF_vars(Scan)
  /\ \A s \in Sources : WF_vars(Task(s))
  /\ WF_vars(\E s \in Sources : WorkerTakes(s))

FairSpec == Spec /\ Fairness

-----------------------------------------------------------------------------
(* Type invariant.                                                         *)

TaskPc == Over \union Working \union {"unsent", "queued"}

TaskType ==
  [pc : TaskPc, todo : SUBSET Jobs, cur : Jobs \union {NoJob}, newN : Nat,
   late : BOOLEAN, sum : Nat, nth : Nat]

CallType ==
  [kind : {"job"}, id : Jobs] \union
  [kind : {"status"}, running : BOOLEAN, percent : 0..100, found : Nat] \union
  [kind : {"complete"}, found : Nat]

TypeOK ==
  /\ StoreTypeOK
  /\ state \in [running : BOOLEAN, percent : 0..100, found : Nat, total : Nat,
                error : BOOLEAN]
  /\ run \in {"idle", "list", "wait"}
  /\ cancelled \in BOOLEAN
  /\ src \in [Sources -> TaskType]
  /\ found \in Nat /\ done \in Nat
  /\ calls \subseteq CallType
  /\ announced \in Nat /\ stored \subseteq Jobs /\ scans \in 0..MaxScans

(* Running tells whether the scan's goroutine is alive, and once it is     *)
(* FALSE no task of the scan is left behind in the pool, whatever was      *)
(* cancelled or abandoned: the next StartScan owns the counters alone.     *)
NoStragglers ==
  /\ state.running <=> run # "idle"
  /\ ~state.running => Busy = {} /\ Waiting = {}

NewJobs(S) == SumFunctionOnSet([s \in Sources |-> src[s].newN], S)

(* No job is lost or counted twice between the tasks' locals, the shared   *)
(* counter and the total a completed scan reports: the total is the number *)
(* of job_found callbacks, but for those of tasks cut off by their         *)
(* deadline, whose jobs are stored and never counted.                      *)
FoundAddsUp ==
  /\ announced = NewJobs(Sources)
  /\ found = NewJobs({s \in Sources : src[s].pc \in {"addDone", "publish", "counted"}})
  /\ ~state.running /\ ~cancelled => state.found = found

(* Once a scan has ended, its published state stays as finishOK or         *)
(* finishWithErr left it until the next StartScan: no late setProgress or  *)
(* appendWarn of a task overwrites the final percent and total.            *)
FinalStateStays ==
  [][~state.running /\ ~state'.running => state' = state]_vars

(* scanner.go:265, "Check if URL already exists in DB - skip if it does": *)
(* the look-up before the upsert keeps every URL to one row, whichever     *)
(* company or board lists it.                                              *)
UrlsStayUnique ==
  \A i, j \in rows : CanonOf[i] = CanonOf[j] /\ CanonOf[i] # NoUrl => i = j

(* Every scan ends, over failed statements, deadlines and a full pool,     *)
(* unless a source never returns from FindJobs.                            *)
ScanEnds ==
  (\A s \in Sources : []<>(src[s].pc # "find")) => (state.running ~> ~state.running)
=============================================================================
