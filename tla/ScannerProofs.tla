---------------------------- MODULE ScannerProofs ----------------------------
(***************************************************************************)
(* Proofs about the scan: whatever is cancelled, abandoned or failing, and *)
(* for any sources, workers and queue, a scan that reports its end has no  *)
(* task left in the pool, and what it reported stays.                      *)
(*                                                                         *)
(* NoStragglers is not inductive as it stands: that a task may only be in  *)
(* the pool while the scan waits needs to be known of the "list" phase,    *)
(* too, from which the wait begins with the tasks it creates.              *)
(*                                                                         *)
(* That no job is miscounted (FoundInv) is a fact about sums over the      *)
(* sources, whose laws are in FiniteSums.  With the types the statements a *)
(* task issues turn out to be statements of the store, so that its         *)
(* theorems hold of a scan.  And a scan stands still only in its sources,  *)
(* which rests on the listings in hand being nobody else's (Fresh), and it *)
(* takes only so many steps (StepsLeft).                                   *)
(***************************************************************************)
EXTENDS Scanner, JobStoreProofs, FiniteSums

(* The fields that the updates of the state and of a task keep.            *)
Shape ==
  /\ DOMAIN state = {"running", "percent", "found", "total", "error"}
  /\ state.running \in BOOLEAN
  /\ DOMAIN src = Sources
  /\ \A s \in Sources :
       DOMAIN src[s] = {"pc", "todo", "cur", "newN", "late", "sum", "nth"}

(* Tasks are in the pool only while the scan waits for them.               *)
TasksAreWaitedFor ==
  run # "wait" => \A s \in Sources : src[s].pc \in Over

ScanInv ==
  /\ Shape
  /\ run \in {"idle", "list", "wait"}
  /\ state.running <=> run # "idle"
  /\ TasksAreWaitedFor

LEMMA InitScanInv == Init => ScanInv
  BY DEF Init, ScanInv, Shape, TasksAreWaitedFor, IdleState, NewTask, Over

LEMMA ScanInvStep == ScanInv /\ [Next]_vars => ScanInv'
<1> SUFFICES ASSUME ScanInv, [Next]_vars PROVE ScanInv'
  OBVIOUS
<1> USE DEF ScanInv, Shape, TasksAreWaitedFor, Over
<1>1. CASE StartScan
  BY <1>1 DEF StartScan, IdleState, NewTask
<1>2. CASE ListSources
  BY <1>2 DEF ListSources, FinishOK, NewTask
<1>3. CASE ListSourcesFails
  BY <1>3 DEF ListSourcesFails, FinishWithErr
<1>4. CASE Finish
  BY <1>4 DEF Finish, FinishWithErr, FinishOK
<1>5. CASE Stop
  BY <1>5 DEF Stop
<1>6. ASSUME NEW s \in Sources, SubmitTask(s) PROVE ScanInv'
  BY <1>6 DEF SubmitTask, At, GoTo
<1>7. ASSUME NEW s \in Sources, WorkerTakes(s) PROVE ScanInv'
  BY <1>7 DEF WorkerTakes, At, GoTo
<1>8. ASSUME NEW s \in Sources, Find(s) PROVE ScanInv'
  <2>1. CASE FindJobs(s)
    BY <2>1 DEF FindJobs, At
  <2>2. CASE FindJobsFails(s)
    BY <2>2 DEF FindJobsFails, At, GoTo, Warn
  <2>3. QED
    BY <1>8, <2>1, <2>2 DEF Find
<1>9. ASSUME NEW s \in Sources, Task(s) PROVE ScanInv'
  <2>1. ASSUME NEW j \in Jobs, TakeListing(s, j) PROVE ScanInv'
    BY <2>1 DEF TakeListing, At
  <2>2. CASE Abandon(s)
    BY <2>2 DEF Abandon, At, Warn
  <2>3. CASE SkipKnown(s) \/ IsUnknown(s)
    BY <2>3 DEF SkipKnown, IsUnknown, At, GoTo, NextListing
  <2>4. CASE ParseCompanyPage(s) \/ ParseBoardListing(s) \/ ParseJobMetadataFails(s)
    BY <2>4 DEF ParseCompanyPage, ParseBoardListing, ParseJobMetadataFails, At, GoTo, NextListing
  <2>5. CASE ResolveCompany(s)
    BY <2>5 DEF ResolveCompany, At, GoTo
  <2>6. CASE ResolveCompanyFails(s)
    BY <2>6 DEF ResolveCompanyFails, At, Warn, NextListing
  <2>7. CASE StoreJob(s)
    BY <2>7 DEF StoreJob, At, GoTo
  <2>8. CASE StoreJobFails(s)
    BY <2>8 DEF StoreJobFails, At, Warn, NextListing
  <2>9. CASE Announce(s)
    BY <2>9 DEF Announce, At
  <2>10. CASE AddFound(s)
    BY <2>10 DEF AddFound, At
  <2>11. CASE AddDone(s)
    BY <2>11 DEF AddDone, At
  <2>12. CASE SetProgress(s)
    BY <2>12 DEF SetProgress, At
  <2>13. QED
    BY <1>9, <2>1, <2>2, <2>3, <2>4, <2>5, <2>6, <2>7, <2>8, <2>9, <2>10,
       <2>11, <2>12 DEF Task
<1>10. ASSUME NEW s \in Sources, Expire(s) PROVE ScanInv'
  BY <1>10 DEF Expire, Working
<1>11. CASE \E c \in calls : CallbackRuns(c)
  BY <1>11 DEF CallbackRuns
<1>12. ASSUME NEW j \in Jobs, UserDeletes(j) PROVE ScanInv'
  BY <1>12 DEF UserDeletes, scanVars
<1>13. CASE UNCHANGED vars
  BY <1>13 DEF vars, scanVars
<1>14. QED
  BY <1>1, <1>2, <1>3, <1>4, <1>5, <1>6, <1>7, <1>8, <1>9, <1>10, <1>11,
     <1>12, <1>13 DEF Next, Scan

LEMMA ScanInvAlways == Spec => []ScanInv
  BY InitScanInv, ScanInvStep, PTL DEF Spec

(* When the state says that no scan is running, no task of the last one is *)
(* in the pool.                                                            *)
THEOREM NoTaskIsLeftBehind == Spec => []NoStragglers
<1>1. ScanInv => NoStragglers
  BY DEF ScanInv, Shape, TasksAreWaitedFor, NoStragglers, Busy, Waiting, Over,
     Working
<1>2. QED
  BY <1>1, ScanInvAlways, PTL

(* What a scan reported when it ended stays until the next one starts.     *)
THEOREM TheResultStays == Spec => FinalStateStays
<1>1. ASSUME ScanInv, [Next]_vars, ~state.running, ~state'.running
      PROVE  state' = state
  <2>1. run = "idle" /\ \A s \in Sources : src[s].pc \in Over
    BY <1>1 DEF ScanInv, TasksAreWaitedFor
  <2>2. CASE StartScan
    BY <1>1, <2>2 DEF StartScan, IdleState
  <2>3. ASSUME NEW s \in Sources PROVE ~Task(s) \/ state' = state
    BY <2>1 DEF Task, TakeListing, Abandon, SkipKnown, IsUnknown,
       ParseCompanyPage, ParseBoardListing, ParseJobMetadataFails, ResolveCompany,
       ResolveCompanyFails, StoreJob, StoreJobFails, Announce, AddFound,
       AddDone, SetProgress, At, Over
  <2>4. ASSUME NEW s \in Sources PROVE ~Find(s)
    BY <2>1 DEF Find, FindJobs, FindJobsFails, At, Over
  <2>5. ~ListSources /\ ~ListSourcesFails /\ ~Finish
    BY <2>1 DEF ListSources, ListSourcesFails, Finish
  <2>6. CASE \E j \in Jobs : UserDeletes(j)
    BY <2>6 DEF UserDeletes, scanVars
  <2>7. QED
    BY <1>1, <2>2, <2>3, <2>4, <2>5, <2>6 DEF Next, Scan, SubmitTask,
       WorkerTakes, Expire, Stop, CallbackRuns, vars, scanVars
<1>2. QED
  BY <1>1, ScanInvAlways, PTL DEF Spec, FinalStateStays

-----------------------------------------------------------------------------
(* The number of new jobs.  A task's own count changes when it announces a *)
(* job, and goes into the shared counter once, when its listings are done. *)
(* Before the scan lists its sources there is nothing to count.            *)

News == [s \in Sources |-> src[s].newN]
HasAdded(pc) == pc \in {"addDone", "publish", "counted"}
Added == {s \in Sources : HasAdded(src[s].pc)}

FoundInv ==
  /\ \A s \in Sources : src[s].newN \in Nat
  /\ announced = SumFunctionOnSet(News, Sources)
  /\ found = SumFunctionOnSet(News, Added)
  /\ run = "list" => /\ state.found = 0
                     /\ \A s \in Sources : src[s].newN = 0 /\ src[s].pc = "off"
  /\ ~state.running /\ ~cancelled => state.found = found

LEMMA SourcesFinite == IsFiniteSet(Sources)
<1> DEFINE C == [kind : {"company"}, name : Companies]
           B == [kind : {"board"}, name : Boards]
           f == [c \in Companies |-> [kind |-> "company", name |-> c]]
           g == [b \in Boards |-> [kind |-> "board", name |-> b]]
<1>1. f \in Surjection(Companies, C) /\ g \in Surjection(Boards, B)
  BY DEF Surjection
<1>2. IsFiniteSet(C) /\ IsFiniteSet(B)
  BY <1>1, FS_Surjection, ScannerAssumption DEF ScannerAssumption
<1>3. QED
  BY <1>2, FS_Union DEF Sources

(* When nobody has found anything both sums are zero.                      *)
LEMMA NothingFoundYet ==
  ASSUME NEW tasks, \A s \in Sources : tasks[s].newN = 0 /\ ~HasAdded(tasks[s].pc)
  PROVE  LET n == [s \in Sources |-> tasks[s].newN]
         IN  /\ SumFunctionOnSet(n, Sources) = 0
             /\ SumFunctionOnSet(n, {s \in Sources : HasAdded(tasks[s].pc)}) = 0
<1> DEFINE n == [s \in Sources |-> tasks[s].newN]
<1>1. \A s \in Sources : n[s] = 0
  OBVIOUS
<1>2. {s \in Sources : HasAdded(tasks[s].pc)} = {}
  OBVIOUS
<1> HIDE DEF n
<1>3. SumFunctionOnSet(n, Sources) = 0
  BY <1>1, SourcesFinite, SumOfZeros
<1>4. SumFunctionOnSet(n, {s \in Sources : HasAdded(tasks[s].pc)}) = 0
  BY <1>2, SumEmpty
<1>5. QED
  BY <1>3, <1>4 DEF n

LEMMA InitFoundInv == Init => FoundInv
<1> SUFFICES ASSUME Init PROVE FoundInv
  OBVIOUS
<1>1. \A s \in Sources : src[s].newN = 0 /\ ~HasAdded(src[s].pc)
  BY DEF Init, NewTask, HasAdded
<1>2. QED
  <2>1. announced = SumFunctionOnSet(News, Sources) /\ found = SumFunctionOnSet(News, Added)
    BY <1>1, NothingFoundYet DEF Init, News, Added
  <2>2. state.found = 0 /\ found = 0 /\ \A s \in Sources : src[s].newN \in Nat
    BY <1>1 DEF Init, IdleState
  <2>3. QED
    BY <2>1, <2>2 DEF FoundInv, Init

(* A step of a task that neither announces nor adds.                       *)
LEMMA TaskGoesOn ==
  ASSUME ScanInv, FoundInv, NEW s \in Sources, run = "wait",
         UNCHANGED <<run, found, announced>>, state'.running = state.running,
         \A t \in Sources : src'[t].newN = src[t].newN,
         \A t \in Sources : HasAdded(src'[t].pc) <=> HasAdded(src[t].pc)
  PROVE  FoundInv'
<1>1. News' = News /\ Added' = Added
  BY DEF News, Added
<1>2. QED
  BY <1>1 DEF FoundInv, ScanInv

LEMMA AnnounceStep ==
  ASSUME ScanInv, FoundInv, NEW s \in Sources, Announce(s), run = "wait"
  PROVE  FoundInv'
<1>1. /\ src'[s].newN = src[s].newN + 1 /\ src'[s].pc = "loop" /\ src[s].pc = "announce"
      /\ \A t \in Sources \ {s} : src'[t] = src[t]
      /\ announced' = announced + 1 /\ found' = found /\ run' = run /\ state' = state
  BY DEF Announce, At, ScanInv, Shape
<1>2. \A t \in Sources : News[t] \in Nat /\ News'[t] \in Nat
  BY <1>1 DEF FoundInv, News
<1>3. News'[s] = News[s] + 1 /\ \A t \in Sources \ {s} : News'[t] = News[t]
  BY <1>1 DEF News
<1>4. SumFunctionOnSet(News', Sources) + News[s] = SumFunctionOnSet(News, Sources) + News'[s]
  BY <1>2, <1>3, SourcesFinite, SumUpdate
<1>5. SumFunctionOnSet(News, Sources) \in Nat /\ SumFunctionOnSet(News', Sources) \in Nat
  BY <1>2, SourcesFinite, SumIsNat
<1>6. announced' = SumFunctionOnSet(News', Sources)
  BY <1>1, <1>2, <1>3, <1>4, <1>5 DEF FoundInv
<1>7. Added' = Added /\ s \notin Added
  BY <1>1 DEF Added, HasAdded
<1>8. SumFunctionOnSet(News', Added) = SumFunctionOnSet(News, Added)
  <2>1. IsFiniteSet(Added) /\ \A t \in Added : News'[t] = News[t]
    BY <1>3, <1>7, SourcesFinite, FS_Subset DEF Added
  <2>2. QED
    BY <2>1, SumSame
<1>9. QED
  BY <1>1, <1>2, <1>6, <1>7, <1>8 DEF FoundInv, ScanInv, News

LEMMA AddFoundStep ==
  ASSUME ScanInv, FoundInv, NEW s \in Sources, AddFound(s), run = "wait"
  PROVE  FoundInv'
<1>1. /\ src'[s].newN = src[s].newN /\ src'[s].pc = "addDone" /\ src[s].pc = "loop"
      /\ \A t \in Sources \ {s} : src'[t] = src[t]
      /\ found' = found + src[s].newN
      /\ announced' = announced /\ run' = run /\ state' = state
  <2>1. src[s].pc = "loop" /\ found' = found + src[s].newN /\ state' = state /\ run' = run
    BY DEF AddFound, At
  <2>2. src' = [src EXCEPT ![s] = [src[s] EXCEPT !.pc = "addDone", !.sum = found']]
    BY DEF AddFound
  <2>3. DOMAIN src = Sources /\ "pc" \in DOMAIN src[s] /\ "newN" \in DOMAIN src[s]
    BY DEF ScanInv, Shape
  <2>4. /\ src'[s].newN = src[s].newN /\ src'[s].pc = "addDone"
        /\ \A t \in Sources \ {s} : src'[t] = src[t]
    BY <2>2, <2>3
  <2>5. QED
    BY <2>1, <2>4 DEF AddFound, scanHistory
<1>2. News' = News /\ \A t \in Sources : News[t] \in Nat
  BY <1>1 DEF FoundInv, News
<1>3. Added' = Added \union {s} /\ s \notin Added /\ IsFiniteSet(Added)
  BY <1>1, SourcesFinite, FS_Subset DEF Added, HasAdded
<1>4. SumFunctionOnSet(News, Added') = News[s] + SumFunctionOnSet(News, Added)
  BY <1>2, <1>3, SumPutIn DEF Added
<1>5. SumFunctionOnSet(News, Added) \in Nat
  BY <1>2, <1>3, SumIsNat DEF Added
<1>6. found' = SumFunctionOnSet(News', Added')
  BY <1>1, <1>2, <1>4, <1>5 DEF FoundInv, News
<1>7. QED
  BY <1>1, <1>2, <1>6 DEF FoundInv, ScanInv, News

LEMMA FoundInvStep == ScanInv /\ FoundInv /\ [Next]_vars => FoundInv'
<1> SUFFICES ASSUME ScanInv, FoundInv, [Next]_vars PROVE FoundInv'
  OBVIOUS
<1>1. CASE StartScan
  <2>1. \A s \in Sources : src'[s].newN = 0 /\ src'[s].pc = "off"
    BY <1>1 DEF StartScan, NewTask
  <2>2. SumFunctionOnSet(News', Sources) = 0 /\ SumFunctionOnSet(News', Added') = 0
    BY <2>1, NothingFoundYet DEF HasAdded, News, Added
  <2>3. QED
    BY <1>1, <2>1, <2>2 DEF StartScan, FoundInv, IdleState
<1>2. CASE ListSources
  <2>1. \A s \in Sources : src[s].newN = 0 /\ ~HasAdded(src[s].pc)
    BY <1>2 DEF ListSources, FoundInv, HasAdded
  <2>2. \A s \in Sources : src'[s].newN = 0 /\ ~HasAdded(src'[s].pc)
    BY <1>2, <2>1 DEF ListSources, NewTask, HasAdded
  <2>3. announced = 0 /\ found = 0
    BY <2>1, NothingFoundYet DEF FoundInv, News, Added
  <2>4. SumFunctionOnSet(News', Sources) = 0 /\ SumFunctionOnSet(News', Added') = 0
    BY <2>2, NothingFoundYet DEF News, Added
  <2>5. /\ announced' = announced /\ found' = found /\ run' # "list"
        /\ ~state'.running => state'.found = 0
    BY <1>2 DEF ListSources, FinishOK, scanHistory, ScanInv, Shape
  <2>6. QED
    BY <2>2, <2>3, <2>4, <2>5 DEF FoundInv
<1>3. CASE ListSourcesFails
  <2>1. found = 0
    BY <1>3, NothingFoundYet DEF ListSourcesFails, FoundInv, HasAdded, News, Added
  <2>2. /\ run' = "idle" /\ found' = found /\ announced' = announced /\ src' = src
        /\ state'.found = state.found /\ state.found = 0
    BY <1>3 DEF ListSourcesFails, FinishWithErr, scanHistory, ScanInv, Shape, FoundInv
  <2>3. News' = News /\ Added' = Added
    BY <2>2 DEF News, Added
  <2>4. QED
    BY <2>1, <2>2, <2>3 DEF FoundInv
<1>4. CASE Finish
  <2>1. /\ run' = "idle" /\ found' = found /\ announced' = announced /\ src' = src
        /\ cancelled' = cancelled
        /\ ~cancelled => state'.found = found
    BY <1>4 DEF Finish, FinishWithErr, FinishOK, scanHistory, ScanInv, Shape
  <2>2. News' = News /\ Added' = Added
    BY <2>1 DEF News, Added
  <2>3. QED
    BY <2>1, <2>2 DEF FoundInv
<1>5. ASSUME UNCHANGED <<state, run, src, found, announced>>,
             cancelled' = cancelled \/ run # "idle"
      PROVE  FoundInv'
  <2>1. News' = News /\ Added' = Added
    BY <1>5 DEF News, Added
  <2>2. QED
    BY <1>5, <2>1 DEF FoundInv, ScanInv
<1>6. ASSUME NEW s \in Sources, SubmitTask(s) PROVE FoundInv'
  BY <1>6, TaskGoesOn DEF SubmitTask, At, GoTo, HasAdded, scanHistory, ScanInv, Shape
<1>7. ASSUME NEW s \in Sources, src[s].pc \notin Over PROVE run = "wait"
  BY <1>7 DEF ScanInv, TasksAreWaitedFor
<1>8. ASSUME NEW s \in Sources, WorkerTakes(s) \/ Find(s) \/ Expire(s) PROVE FoundInv'
  <2>1. run = "wait"
    BY <1>7, <1>8 DEF WorkerTakes, Find, FindJobs, FindJobsFails, Expire, At, Over, Working
  <2> USE TaskGoesOn, <2>1 DEF At, GoTo, HasAdded, scanHistory, ScanInv, Shape
  <2>2. CASE WorkerTakes(s)
    BY <2>2 DEF WorkerTakes
  <2>3. CASE FindJobs(s)
    BY <2>3 DEF FindJobs
  <2>4. CASE FindJobsFails(s)
    BY <2>4 DEF FindJobsFails, Warn
  <2>5. CASE Expire(s)
    BY <2>5 DEF Expire
  <2>6. QED
    BY <1>8, <2>2, <2>3, <2>4, <2>5 DEF Find
<1>9. ASSUME NEW s \in Sources, Task(s) PROVE FoundInv'
  <2>1. run = "wait"
    BY <1>7, <1>9 DEF Task, TakeListing, Abandon, SkipKnown, IsUnknown, ParseCompanyPage,
       ParseBoardListing, ParseJobMetadataFails, ResolveCompany, ResolveCompanyFails,
       StoreJob, StoreJobFails, Announce, AddFound, AddDone, SetProgress, At, Over
  <2> USE TaskGoesOn, <2>1 DEF At, GoTo, NextListing, HasAdded, scanHistory, ScanInv, Shape
  <2>2. ASSUME NEW j \in Jobs, TakeListing(s, j) PROVE FoundInv'
    BY <2>2 DEF TakeListing
  <2>3. CASE Abandon(s)
    BY <2>3 DEF Abandon, Warn
  <2>4. CASE SkipKnown(s)
    BY <2>4 DEF SkipKnown
  <2>5. CASE IsUnknown(s)
    BY <2>5 DEF IsUnknown
  <2>6. CASE ParseCompanyPage(s)
    BY <2>6 DEF ParseCompanyPage
  <2>7. CASE ParseBoardListing(s)
    BY <2>7 DEF ParseBoardListing
  <2>8. CASE ParseJobMetadataFails(s)
    BY <2>8 DEF ParseJobMetadataFails
  <2>9. CASE ResolveCompany(s)
    BY <2>9 DEF ResolveCompany
  <2>10. CASE ResolveCompanyFails(s)
    BY <2>10 DEF ResolveCompanyFails, Warn
  <2>11. CASE StoreJob(s)
    BY <2>11 DEF StoreJob
  <2>12. CASE StoreJobFails(s)
    BY <2>12 DEF StoreJobFails, Warn
  <2>13. CASE AddDone(s)
    BY <2>13 DEF AddDone
  <2>14. CASE SetProgress(s)
    BY <2>14 DEF SetProgress
  <2>15. QED
    BY <1>9, <2>2, <2>3, <2>4, <2>5, <2>6, <2>7, <2>8, <2>9, <2>10,
       <2>11, <2>12, <2>13, <2>14,
       AnnounceStep, AddFoundStep DEF Task
<1>10. CASE Stop \/ (\E c \in calls : CallbackRuns(c)) \/ UNCHANGED vars
  BY <1>5, <1>10 DEF Stop, CallbackRuns, vars, scanVars, scanHistory
<1>11. ASSUME NEW j \in Jobs, UserDeletes(j) PROVE FoundInv'
  BY <1>5, <1>11 DEF UserDeletes, scanVars, scanHistory
<1>12. QED
  BY <1>1, <1>2, <1>3, <1>4, <1>6, <1>8, <1>9, <1>10, <1>11 DEF Next, Scan

(* Nothing that was announced is lost or counted twice on its way to the   *)
(* total a scan reports.                                                   *)
THEOREM NothingIsMiscounted == Spec => []FoundAddsUp
<1>1. FoundInv => FoundAddsUp
  <2>1. Added = {s \in Sources : src[s].pc \in {"addDone", "publish", "counted"}}
    BY DEF Added, HasAdded
  <2>2. QED
    BY <2>1 DEF FoundInv, FoundAddsUp, NewJobs, News
<1>2. QED
  BY <1>1, InitScanInv, ScanInvStep, InitFoundInv, FoundInvStep, PTL DEF Spec

-----------------------------------------------------------------------------
(* The types, the progress in percent and the store.  That the percentage  *)
(* stays within 100 takes the count of the tasks that are past their last  *)
(* listing, and that none of them is counted in but those the scan has     *)
(* listed; that the scan only issues statements of the store takes the     *)
(* type of the listing in hand.                                            *)

StateType ==
  [running : BOOLEAN, percent : 0..100, found : Nat, total : Nat, error : BOOLEAN]

Handling == {"check", "parse", "resolve", "store", "announce"}
IsPast(pc) == pc \in {"publish", "counted"}
Past == {s \in Sources : IsPast(src[s].pc)}

ScanTypes ==
  /\ StoreInv
  /\ state \in StateType
  /\ run \in {"idle", "list", "wait"} /\ cancelled \in BOOLEAN
  /\ src \in [Sources -> TaskType]
  /\ \A s \in Sources : src[s].pc \in Handling => src[s].cur \in Jobs
  /\ found \in Nat /\ calls \subseteq CallType
  /\ announced \in Nat /\ stored \subseteq Jobs /\ scans \in 0..MaxScans

Progress ==
  /\ state.total = Cardinality(InScan)
  /\ done = Cardinality(Past)
  /\ \A s \in Sources : src[s].nth <= done

TypeInv == ScanTypes /\ Progress

LEMMA ANewTask ==
  /\ NewTask \in TaskType /\ [NewTask EXCEPT !.pc = "unsent"] \in TaskType
  /\ NewTask.pc = "off" /\ NewTask.nth = 0
  /\ [NewTask EXCEPT !.pc = "unsent"].pc = "unsent"
  /\ [NewTask EXCEPT !.pc = "unsent"].nth = 0
  BY DEF NewTask, TaskType, TaskPc, Over, Working

LEMMA SizesOfSources ==
  ASSUME NEW S \in SUBSET Sources
  PROVE  IsFiniteSet(S) /\ Cardinality(S) \in Nat
  BY SourcesFinite, FS_Subset, FS_CardinalityType

LEMMA InitTypeInv == Init => TypeInv
<1> SUFFICES ASSUME Init PROVE TypeInv
  OBVIOUS
<1>1. StoreInv
  BY StoreAssumption, ScannerAssumption
     DEF Init, StoreInv, StoreTypeOK, Integrity, QueueState, Queued, SamePosting,
         StoreAssumption, ScannerAssumption
<1>2. state \in StateType
  BY DEF Init, IdleState, StateType
<1>3. /\ src \in [Sources -> TaskType]
      /\ \A s \in Sources : src[s].pc = "off" /\ src[s].nth = 0
  BY ANewTask DEF Init
<1>4. InScan = {} /\ Past = {}
  BY <1>3 DEF InScan, Past, IsPast
<1>5. Progress
  BY <1>3, <1>4, FS_EmptySet DEF Progress, Init, IdleState
<1>6. /\ run \in {"idle", "list", "wait"} /\ cancelled \in BOOLEAN
      /\ found \in Nat /\ calls \subseteq CallType
      /\ announced \in Nat /\ stored \subseteq Jobs
  BY DEF Init
<1>7. scans \in 0..MaxScans
  BY ScannerAssumption DEF Init, ScannerAssumption
<1>8. QED
  BY <1>1, <1>2, <1>3, <1>5, <1>6, <1>7 DEF TypeInv, ScanTypes, Handling

(* A step of one task that does not take it past its last listing.         *)
LEMMA ATaskMoves ==
  ASSUME TypeInv, [StoreNext]_storeVars,
         NEW s \in Sources, NEW t \in TaskType,
         src' = [src EXCEPT ![s] = t],
         src[s].pc # "off", t.pc # "off", IsPast(t.pc) <=> IsPast(src[s].pc),
         t.pc \in Handling => t.cur \in Jobs,
         t.nth <= done, done' = done,
         state' \in StateType, state'.total = state.total,
         UNCHANGED <<run, cancelled, scans>>,
         found' \in Nat, calls' \subseteq CallType,
         announced' \in Nat, stored' \subseteq Jobs
  PROVE  TypeInv'
<1>1. /\ src' \in [Sources -> TaskType] /\ src'[s] = t
      /\ \A u \in Sources \ {s} : src'[u] = src[u]
  BY DEF TypeInv, ScanTypes
<1>2. InScan' = InScan /\ Past' = Past
  BY <1>1 DEF InScan, Past
<1>3. StoreInv'
  BY StoreStepInv DEF TypeInv, ScanTypes
<1>4. ScanTypes'
  BY <1>1, <1>3 DEF TypeInv, ScanTypes
<1>5. Progress'
  BY <1>1, <1>2 DEF TypeInv, Progress
<1>6. QED
  BY <1>4, <1>5 DEF TypeInv

LEMMA OnlyThePlaceChanges ==
  ASSUME NEW s \in Sources, NEW pc \in TaskPc, src \in [Sources -> TaskType], GoTo(s, pc)
  PROVE  LET t == [src[s] EXCEPT !.pc = pc]
         IN  /\ t \in TaskType /\ src' = [src EXCEPT ![s] = t]
             /\ t.pc = pc /\ t.cur = src[s].cur /\ t.nth = src[s].nth
<1>1. src[s] \in TaskType
  OBVIOUS
<1>2. src' = [src EXCEPT ![s] = [src[s] EXCEPT !.pc = pc]]
  BY DEF GoTo
<1>3. QED
  BY <1>1, <1>2 DEF TaskType

LEMMA TheListingIsLeft ==
  ASSUME NEW s \in Sources, src \in [Sources -> TaskType], NextListing(s)
  PROVE  LET t == [src[s] EXCEPT !.pc = "loop", !.cur = NoJob]
         IN  /\ t \in TaskType /\ src' = [src EXCEPT ![s] = t]
             /\ t.pc = "loop" /\ t.nth = src[s].nth
<1>1. src[s] \in TaskType
  OBVIOUS
<1>2. src' = [src EXCEPT ![s] = [src[s] EXCEPT !.pc = "loop", !.cur = NoJob]]
  BY DEF NextListing
<1>3. "loop" \in TaskPc
  BY DEF TaskPc, Working
<1>4. QED
  BY <1>1, <1>2, <1>3 DEF TaskType

(* A warning leaves the numbers of the state.                              *)
LEMMA AWarningIsShown ==
  ASSUME state \in StateType, Warn \/ UNCHANGED state
  PROVE  state' \in StateType /\ state'.total = state.total
  BY DEF Warn, StateType

LEMMA TheScanEnds ==
  ASSUME state \in StateType, calls \subseteq CallType, NEW n \in Nat, FinishOK(n)
  PROVE  /\ state' \in StateType /\ state'.total = state.total
         /\ run' = "idle" /\ calls' \subseteq CallType
<1>1. state' = [running |-> FALSE, percent |-> 100, found |-> n,
                total |-> state.total, error |-> state.error]
  BY DEF FinishOK, StateType
<1>2. state.total \in Nat /\ state.error \in BOOLEAN /\ 100 \in 0..100
  BY DEF StateType
<1>3. state' \in StateType /\ state'.total = state.total
  BY ONLY <1>1, <1>2, n \in Nat DEF StateType
<1>4. QED
  BY <1>3 DEF FinishOK, CallType

LEMMA TypesOfTheScan ==
  ASSUME TypeInv, FoundInv,
         StartScan \/ ListSources \/ ListSourcesFails \/ Finish \/ Stop
  PROVE  TypeInv'
<1> USE DEF TypeInv, ScanTypes
<1>1. CASE StartScan
  <2>1. /\ src' \in [Sources -> TaskType]
        /\ \A s \in Sources : src'[s].pc = "off" /\ src'[s].nth = 0
    BY <1>1, ANewTask DEF StartScan
  <2>2. InScan' = {} /\ Past' = {}
    BY <2>1 DEF InScan, Past, IsPast
  <2>3. state' \in StateType /\ state'.total = 0
    <3>1. state' = [running |-> TRUE, percent |-> 0, found |-> 0, total |-> 0,
                    error |-> FALSE]
      BY <1>1 DEF StartScan, IdleState
    <3>2. 0 \in 0..100 /\ 0 \in Nat
      OBVIOUS
    <3>3. QED
      BY <3>1, <3>2 DEF StateType
  <2>4. Progress'
    BY <1>1, <2>1, <2>2, <2>3, FS_EmptySet DEF Progress, StartScan
  <2>5. StoreInv'
    BY <1>1, StoreStepInv DEF StartScan
  <2>6. scans' \in 0..MaxScans
    BY <1>1, ScannerAssumption DEF StartScan, ScannerAssumption
  <2>7. /\ run' = "list" /\ cancelled' = FALSE /\ found' = 0 /\ announced' = 0
        /\ calls' = calls /\ stored' = stored
    BY <1>1 DEF StartScan
  <2>8. QED
    BY <2>1, <2>3, <2>4, <2>5, <2>6, <2>7 DEF Handling
<1>2. CASE ListSources
  <2> DEFINE listed == {s \in Sources : s.kind = "board" \/ s.name \in ActiveCompanies}
  <2>1. /\ run = "list" /\ StoreInv'
        /\ UNCHANGED <<cancelled, found, done, announced, stored, scans>>
    BY <1>2, StoreStepInv DEF ListSources, scanHistory
  (* Before the sources are listed no task is in the scan.                 *)
  <2>2. InScan = {} /\ Past = {} /\ done = 0
    <3>1. \A s \in Sources : src[s].pc = "off"
      BY <2>1 DEF FoundInv
    <3>2. QED
      BY <3>1, FS_EmptySet DEF InScan, Past, IsPast, Progress
  <2>3. CASE listed = {}
    <3>1. /\ FinishOK(0) /\ src' = src
      BY <1>2, <2>3 DEF ListSources
    <3>2. state' \in StateType /\ state'.total = state.total
      BY <3>1, TheScanEnds
    <3>3. calls' \subseteq CallType /\ run' = "idle"
      BY <3>1, TheScanEnds
    <3>4. Progress'
      BY <2>1, <3>1, <3>2 DEF Progress, InScan, Past
    <3>5. QED
      BY <2>1, <3>1, <3>2, <3>3, <3>4
  <2>4. CASE listed # {}
    <3>1. /\ state' = [state EXCEPT !.total = Cardinality(listed)]
          /\ run' = "wait" /\ calls' = calls
          /\ src' = [s \in Sources |-> IF s \in listed
                                          THEN [NewTask EXCEPT !.pc = "unsent"]
                                          ELSE NewTask]
      BY <1>2, <2>4 DEF ListSources
    <3>2. listed \subseteq Sources /\ Cardinality(listed) \in Nat
      BY SizesOfSources
    <3> HIDE DEF listed
    <3>3. state' \in StateType /\ state'.total = Cardinality(listed)
      BY <3>1, <3>2 DEF StateType
    <3>4. /\ src' \in [Sources -> TaskType]
          /\ \A s \in Sources : /\ src'[s].pc = IF s \in listed THEN "unsent" ELSE "off"
                                /\ src'[s].nth = 0
      BY <3>1, ANewTask
    <3>5. InScan' = listed /\ Past' = {}
      BY <3>2, <3>4 DEF InScan, Past, IsPast
    <3>6. Progress'
      BY <2>1, <2>2, <3>3, <3>4, <3>5, FS_EmptySet DEF Progress
    <3>7. QED
      BY <2>1, <3>1, <3>3, <3>4, <3>6 DEF Handling
  <2>5. QED
    BY <2>3, <2>4
<1>3. ASSUME [StoreNext]_storeVars, state' \in StateType, state'.total = state.total,
             run' \in {"idle", "list", "wait"}, cancelled' \in BOOLEAN,
             UNCHANGED <<src, found, done, announced, stored, scans>>,
             calls' \subseteq CallType
      PROVE  TypeInv'
  <2>1. StoreInv'
    BY <1>3, StoreStepInv
  <2>2. Progress'
    BY <1>3 DEF Progress, InScan, Past
  <2>3. QED
    BY <1>3, <2>1, <2>2
<1>4. ASSUME FinishWithErr
      PROVE  /\ state' \in StateType /\ state'.total = state.total
             /\ run' = "idle" /\ calls' = calls
  BY <1>4 DEF FinishWithErr, StateType
<1>5. ASSUME FinishOK(found)
      PROVE  /\ state' \in StateType /\ state'.total = state.total
             /\ run' = "idle" /\ calls' \subseteq CallType
  BY <1>5, TheScanEnds
<1>6. CASE ListSourcesFails
  BY <1>3, <1>4, <1>6 DEF ListSourcesFails, scanHistory
<1>7. CASE Finish
  BY <1>3, <1>4, <1>5, <1>7 DEF Finish, scanHistory
<1>8. CASE Stop
  BY <1>3, <1>8 DEF Stop, scanHistory
<1>9. QED
  BY <1>1, <1>2, <1>6, <1>7, <1>8

(* The steps of a task that only go on to another place.                   *)
LEMMA ATaskGoesTo ==
  ASSUME TypeInv, [StoreNext]_storeVars, NEW s \in Sources, NEW pc \in TaskPc, GoTo(s, pc),
         src[s].pc # "off", pc # "off", ~IsPast(pc), ~IsPast(src[s].pc),
         pc \in Handling => src[s].pc \in Handling,
         done' = done, Warn \/ UNCHANGED state, UNCHANGED <<run, cancelled, scans>>,
         found' = found, calls' = calls, announced' = announced, stored' \subseteq Jobs
  PROVE  TypeInv'
<1> DEFINE t == [src[s] EXCEPT !.pc = pc]
<1>1. /\ t \in TaskType /\ src' = [src EXCEPT ![s] = t]
      /\ t.pc = pc /\ t.cur = src[s].cur /\ t.nth = src[s].nth
  BY OnlyThePlaceChanges DEF TypeInv, ScanTypes
<1>2. state' \in StateType /\ state'.total = state.total
  BY AWarningIsShown DEF TypeInv, ScanTypes
<1>3. src[s].nth <= done /\ (src[s].pc \in Handling => src[s].cur \in Jobs)
      /\ found \in Nat /\ calls \subseteq CallType /\ announced \in Nat
  BY DEF TypeInv, ScanTypes, Progress
<1> HIDE DEF t
<1>4. QED
  BY <1>1, <1>2, <1>3, ATaskMoves

(* The steps that leave the listing in hand, but for Announce.             *)
LEMMA ATaskLeavesTheListing ==
  ASSUME TypeInv, [StoreNext]_storeVars, NEW s \in Sources, NextListing(s),
         src[s].pc # "off", ~IsPast(src[s].pc),
         done' = done, Warn \/ UNCHANGED state, UNCHANGED <<run, cancelled, scans>>,
         found' = found, calls' = calls, announced' = announced, stored' = stored
  PROVE  TypeInv'
<1> DEFINE t == [src[s] EXCEPT !.pc = "loop", !.cur = NoJob]
<1>1. /\ t \in TaskType /\ src' = [src EXCEPT ![s] = t]
      /\ t.pc = "loop" /\ t.nth = src[s].nth
  BY TheListingIsLeft DEF TypeInv, ScanTypes
<1>2. state' \in StateType /\ state'.total = state.total
  BY AWarningIsShown DEF TypeInv, ScanTypes
<1>3. src[s].nth <= done /\ ~IsPast("loop") /\ "loop" \notin Handling
      /\ found \in Nat /\ calls \subseteq CallType /\ announced \in Nat /\ stored \subseteq Jobs
  BY DEF TypeInv, ScanTypes, Progress, IsPast, Handling
<1> HIDE DEF t
<1>4. QED
  BY <1>1, <1>2, <1>3, ATaskMoves

(* The fields of a task, each with its type.                               *)
LEMMA FieldsOfATask ==
  ASSUME NEW t \in TaskType
  PROVE  /\ t.pc \in TaskPc /\ t.todo \in SUBSET Jobs /\ t.cur \in Jobs \union {NoJob}
         /\ t.newN \in Nat /\ t.late \in BOOLEAN /\ t.sum \in Nat /\ t.nth \in Nat
  BY DEF TaskType

(* The statements a task issues are statements of the store.               *)
LEMMA ATaskIssuesStatements ==
  ASSUME ScanTypes, NEW s \in Sources, Task(s)
  PROVE  [StoreNext]_storeVars
<1>1. src[s].pc \in Handling => src[s].cur \in Jobs /\ CompanyOf[src[s].cur] \in Companies
  BY StoreAssumption DEF ScanTypes, StoreAssumption
<1>2. CASE ResolveCompany(s) \/ ResolveCompanyFails(s)
  BY <1>1, <1>2 DEF ResolveCompany, ResolveCompanyFails, At, Handling, StoreNext
<1>3. CASE StoreJob(s)
  BY <1>1, <1>3 DEF StoreJob, At, Handling, StoreNext
<1>4. CASE ~(ResolveCompany(s) \/ ResolveCompanyFails(s) \/ StoreJob(s))
  BY <1>4 DEF Task, TakeListing, Abandon, SkipKnown, IsUnknown, ParseCompanyPage,
     ParseBoardListing, ParseJobMetadataFails, StoreJobFails, Announce, AddFound,
     AddDone, SetProgress, storeVars
<1>5. QED
  BY <1>2, <1>3, <1>4

LEMMA Percent ==
  ASSUME NEW n \in Nat, NEW m \in Nat, m # 0, n <= m
  PROVE  (n * 100) \div m \in 0..100
<1> DEFINE q == (n * 100) \div m
<1>1. q \in Nat /\ m * q <= n * 100
  OBVIOUS
<1>2. SUFFICES ASSUME q >= 101 PROVE FALSE
  BY <1>1
<1>3. m * q >= m * 101
  BY <1>1, <1>2
<1>4. QED
  BY <1>1, <1>3

(* What a task publishes as done is not more than was listed.              *)
LEMMA ThePercentage ==
  ASSUME TypeInv, NEW s \in Sources, src[s].pc # "off"
  PROVE  /\ state.total \in Nat \ {0}
         /\ src[s].nth \in Nat
         /\ (src[s].nth * 100) \div state.total \in 0..100
<1>1. Past \subseteq InScan
  BY DEF Past, InScan, IsPast
<1>2. done <= state.total /\ done \in Nat /\ state.total \in Nat
  <2>1. IsFiniteSet(InScan) /\ Cardinality(InScan) \in Nat /\ Cardinality(Past) \in Nat
    BY SizesOfSources DEF InScan, Past
  <2>2. Cardinality(Past) <= Cardinality(InScan)
    BY <1>1, <2>1, FS_Subset
  <2>3. QED
    BY <2>1, <2>2 DEF TypeInv, Progress
<1>3. state.total # 0
  <2>1. s \in InScan /\ IsFiniteSet(InScan)
    BY SizesOfSources DEF InScan
  <2>2. Cardinality(InScan) # 0
    BY <2>1, FS_EmptySet
  <2>3. QED
    BY <2>2 DEF TypeInv, Progress
<1>4. src[s].nth \in Nat /\ src[s].nth <= done
  BY DEF TypeInv, ScanTypes, Progress, TaskType
<1>5. src[s].nth <= state.total
  BY <1>2, <1>4
<1>6. (src[s].nth * 100) \div state.total \in 0..100
  BY <1>2, <1>3, <1>4, <1>5, Percent
<1>7. QED
  BY <1>2, <1>3, <1>4, <1>6

LEMMA TypesOfATask ==
  ASSUME TypeInv, NEW s \in Sources, Task(s)
  PROVE  TypeInv'
<1> DEFINE q == src[s]
<1>1. /\ q \in TaskType /\ q.nth <= done
      /\ q.pc \in Handling => q.cur \in Jobs
      /\ state \in StateType /\ found \in Nat /\ done \in Nat /\ announced \in Nat
      /\ calls \subseteq CallType /\ stored \subseteq Jobs
  <2>1. done \in Nat
    BY SizesOfSources DEF TypeInv, Progress, Past
  <2>2. QED
    BY <2>1 DEF TypeInv, ScanTypes, Progress
<1>2. [StoreNext]_storeVars
  BY ATaskIssuesStatements DEF TypeInv
<1>3. /\ q.pc \in TaskPc /\ q.todo \in SUBSET Jobs /\ q.cur \in Jobs \union {NoJob}
      /\ q.newN \in Nat /\ q.late \in BOOLEAN /\ q.sum \in Nat /\ q.nth \in Nat
  BY <1>1, FieldsOfATask
<1>4. {"loop", "check", "parse", "resolve", "store", "announce", "addDone", "publish",
       "abandoned", "counted"} \subseteq TaskPc
  BY DEF TaskPc, Working, Over
<1>5. ASSUME NEW j \in Jobs, TakeListing(s, j) PROVE TypeInv'
  <2> DEFINE t == [q EXCEPT !.pc = "check", !.cur = j, !.todo = q.todo \ {j}]
  <2>1. /\ src' = [src EXCEPT ![s] = t] /\ q.pc = "loop"
        /\ UNCHANGED <<state, run, cancelled, found, done, calls, announced, stored, scans>>
    BY <1>5 DEF TakeListing, At, scanHistory
  <2>3. t \in TaskType /\ t.pc = "check" /\ t.cur = j /\ t.nth = q.nth
    BY <1>1, <1>3, <1>4 DEF TaskType
  <2> HIDE DEF t
  <2>4. QED
    BY <1>1, <1>2, <2>1, <2>3, ATaskMoves DEF IsPast
<1>6. CASE Abandon(s)
  <2> DEFINE t == [q EXCEPT !.pc = "abandoned", !.todo = {}]
  <2>1. /\ src' = [src EXCEPT ![s] = t] /\ q.pc = "loop" /\ Warn
        /\ UNCHANGED <<run, cancelled, found, done, calls, announced, stored, scans>>
    BY <1>6 DEF Abandon, At, scanHistory
  <2>3. t \in TaskType /\ t.pc = "abandoned" /\ t.nth = q.nth
    BY <1>1, <1>3, <1>4 DEF TaskType
  <2>4. state' \in StateType /\ state'.total = state.total
    BY <1>1, <2>1, AWarningIsShown
  <2> HIDE DEF t
  <2>5. QED
    BY <1>1, <1>2, <2>1, <2>3, <2>4, ATaskMoves DEF IsPast, Handling
<1>7. CASE SkipKnown(s)
  BY <1>2, <1>7, ATaskLeavesTheListing DEF SkipKnown, At, IsPast, scanHistory
<1>8. CASE IsUnknown(s)
  BY <1>1, <1>2, <1>4, <1>8, ATaskGoesTo DEF IsUnknown, At, IsPast, Handling, scanHistory
<1>9. CASE ParseCompanyPage(s)
  BY <1>1, <1>2, <1>4, <1>9, ATaskGoesTo
     DEF ParseCompanyPage, At, IsPast, Handling, scanHistory
<1>10. CASE ParseBoardListing(s)
  BY <1>1, <1>2, <1>4, <1>10, ATaskGoesTo
     DEF ParseBoardListing, At, IsPast, Handling, scanHistory
<1>11. CASE ParseJobMetadataFails(s)
  BY <1>2, <1>11, ATaskLeavesTheListing DEF ParseJobMetadataFails, At, IsPast, scanHistory
<1>12. CASE ResolveCompany(s)
  BY <1>1, <1>2, <1>4, <1>12, ATaskGoesTo
     DEF ResolveCompany, At, IsPast, Handling, scanHistory
<1>13. CASE ResolveCompanyFails(s)
  BY <1>2, <1>13, ATaskLeavesTheListing
     DEF ResolveCompanyFails, At, IsPast, scanHistory
<1>14. CASE StoreJob(s)
  <2>1. rows' \subseteq Jobs
    BY <1>2, StoreStepInv DEF TypeInv, ScanTypes, StoreInv, StoreTypeOK
  <2>2. stored' \subseteq Jobs
    BY <1>1, <1>14, <2>1 DEF StoreJob
  <2>3. /\ GoTo(s, "announce") /\ q.pc = "store"
        /\ UNCHANGED <<state, run, cancelled, found, done, calls, announced, scans>>
    BY <1>14 DEF StoreJob, At
  <2>4. QED
    BY <1>2, <1>4, <2>2, <2>3, ATaskGoesTo DEF IsPast, Handling
<1>15. CASE StoreJobFails(s)
  BY <1>2, <1>15, ATaskLeavesTheListing DEF StoreJobFails, At, IsPast, scanHistory
<1>16. CASE Announce(s)
  <2>0. PICK n \in Nat : n = q.newN + 1
    BY <1>3
  <2> DEFINE t == [q EXCEPT !.pc = "loop", !.cur = NoJob, !.newN = n]
  <2>1. /\ src' = [src EXCEPT ![s] = t] /\ q.pc = "announce"
        /\ announced' = announced + 1
        /\ calls' = calls \union {[kind |-> "job", id |-> q.cur]}
        /\ UNCHANGED <<state, run, cancelled, found, done, stored, scans>>
    BY <1>16, <2>0 DEF Announce, At
  <2>3. t \in TaskType /\ t.pc = "loop" /\ t.nth = q.nth
    BY <1>1, <1>3, <1>4 DEF TaskType
  <2>4. calls' \subseteq CallType
    BY <1>1, <2>1 DEF CallType, Handling
  <2>5. announced' \in Nat
    BY <1>1, <2>1
  <2> HIDE DEF t
  <2>6. QED
    BY <1>1, <1>2, <2>1, <2>3, <2>4, <2>5, ATaskMoves DEF IsPast, Handling
<1>17. CASE AddFound(s)
  <2>0. PICK n \in Nat : n = found + q.newN
    BY <1>1, <1>3
  <2> DEFINE t == [q EXCEPT !.pc = "addDone", !.sum = n]
  <2>1. /\ src' = [src EXCEPT ![s] = t] /\ q.pc = "loop" /\ found' = n
        /\ UNCHANGED <<state, run, cancelled, done, calls, announced, stored, scans>>
    BY <1>17, <2>0 DEF AddFound, At, scanHistory
  <2>3. found' \in Nat
    BY <2>1
  <2>4. t \in TaskType /\ t.pc = "addDone" /\ t.nth = q.nth
    BY <1>1, <1>3, <1>4, <2>3 DEF TaskType
  <2> HIDE DEF t
  <2>5. QED
    BY <1>1, <1>2, <2>1, <2>3, <2>4, ATaskMoves DEF IsPast, Handling
(* The counter and the tasks behind it change together.                    *)
<1>18. CASE AddDone(s)
  <2>0. PICK n \in Nat : n = done + 1
    BY <1>1
  <2> DEFINE t == [q EXCEPT !.pc = "publish", !.nth = n]
  <2>1. /\ src' = [src EXCEPT ![s] = t] /\ q.pc = "addDone" /\ done' = n
        /\ UNCHANGED <<storeVars, state, run, cancelled, found, calls, announced, stored, scans>>
    BY <1>18, <2>0 DEF AddDone, At, scanHistory
  <2>3. t \in TaskType /\ t.pc = "publish" /\ t.nth = n
    BY <1>1, <1>3, <1>4 DEF TaskType
  <2> HIDE DEF t
  <2>4. /\ src' \in [Sources -> TaskType] /\ src'[s] = t
        /\ \A u \in Sources \ {s} : src'[u] = src[u]
    BY <2>1, <2>3 DEF TypeInv, ScanTypes
  <2>5. InScan' = InScan
    BY <2>1, <2>3, <2>4 DEF InScan
  <2>6. Past' = Past \union {s} /\ s \notin Past
    BY <2>1, <2>3, <2>4 DEF Past, IsPast
  <2>7. done' = Cardinality(Past')
    <3>1. Past \in SUBSET Sources
      BY DEF Past
    <3>2. IsFiniteSet(Past)
      BY <3>1, SizesOfSources
    <3>3. QED
      BY <2>0, <2>1, <2>6, <3>2, FS_AddElement DEF TypeInv, Progress
  <2>8. Progress'
    <3>1. \A u \in Sources : src'[u].nth <= done'
      <4>1. \A u \in Sources : src[u].nth \in Nat /\ src[u].nth <= done
        BY DEF TypeInv, ScanTypes, Progress, TaskType
      <4>2. QED
        BY <1>1, <2>0, <2>1, <2>3, <2>4, <4>1
    <3>2. QED
      BY <2>1, <2>5, <2>7, <3>1 DEF TypeInv, Progress
  <2>9. StoreInv'
    BY <1>2, StoreStepInv DEF TypeInv, ScanTypes
  <2>10. ScanTypes'
    BY <2>1, <2>3, <2>4, <2>9 DEF TypeInv, ScanTypes, Handling
  <2>11. QED
    BY <2>8, <2>10 DEF TypeInv
<1>19. CASE SetProgress(s)
  <2> DEFINE t == [q EXCEPT !.pc = "counted", !.sum = 0, !.nth = 0]
             pct == (q.nth * 100) \div state.total
  <2>1. /\ src' = [src EXCEPT ![s] = t] /\ q.pc = "publish"
        /\ state' = [state EXCEPT !.percent = pct, !.found = q.sum]
        /\ calls' = calls \union {[kind |-> "status", running |-> state.running,
                                   percent |-> pct, found |-> q.sum]}
        /\ UNCHANGED <<run, cancelled, found, done, announced, stored, scans>>
    BY <1>19 DEF SetProgress, At, scanHistory
  <2>3. t \in TaskType /\ t.pc = "counted" /\ t.nth = 0
    BY <1>1, <1>3, <1>4 DEF TaskType
  <2>4. pct \in 0..100
    BY <2>1, ThePercentage
  <2> HIDE DEF t, pct
  <2>5. /\ state.running \in BOOLEAN /\ state.total \in Nat /\ state.error \in BOOLEAN
        /\ state' = [running |-> state.running, percent |-> pct, found |-> q.sum,
                     total |-> state.total, error |-> state.error]
    BY <1>1, <2>1 DEF StateType
  <2>6. state' \in StateType /\ state'.total = state.total
    BY <1>3, <2>4, <2>5 DEF StateType
  <2>7. calls' \subseteq CallType
    <3>1. [kind |-> "status", running |-> state.running, percent |-> pct, found |-> q.sum]
            \in CallType
      BY <1>3, <2>4, <2>5 DEF CallType
    <3>2. QED
      BY <1>1, <2>1, <3>1
  <2>8. t.nth <= done
    BY <1>1, <2>3
  <2>9. QED
    BY <1>1, <1>2, <2>1, <2>3, <2>6, <2>7, <2>8, ATaskMoves DEF IsPast, Handling
<1>20. QED
  BY <1>5, <1>6, <1>7, <1>8, <1>9, <1>10, <1>11, <1>12, <1>13, <1>14, <1>15, <1>16,
     <1>17, <1>18, <1>19 DEF Task

(* The steps around a task, before it begins to file and beside it.        *)
LEMMA TypesBesideTheTasks ==
  ASSUME TypeInv, NEW s \in Sources,
         SubmitTask(s) \/ WorkerTakes(s) \/ Find(s) \/ Expire(s)
  PROVE  TypeInv' /\ [StoreNext]_storeVars
<1> DEFINE q == src[s]
<1>1. /\ q \in TaskType /\ q.nth <= done
      /\ q.pc \in Handling => q.cur \in Jobs
      /\ state \in StateType /\ found \in Nat /\ announced \in Nat
      /\ calls \subseteq CallType /\ stored \subseteq Jobs
  BY DEF TypeInv, ScanTypes, Progress
<1>2. {"queued", "find", "loop"} \subseteq TaskPc
  BY DEF TaskPc, Working
<1>3. UNCHANGED storeVars
  BY DEF SubmitTask, WorkerTakes, Find, FindJobs, FindJobsFails, Expire, storeVars
<1>4. CASE SubmitTask(s)
  BY <1>1, <1>2, <1>3, <1>4, ATaskGoesTo
     DEF SubmitTask, At, IsPast, Handling, scanHistory
<1>5. CASE WorkerTakes(s)
  BY <1>1, <1>2, <1>3, <1>5, ATaskGoesTo
     DEF WorkerTakes, At, IsPast, Handling, scanHistory
<1>6. CASE FindJobsFails(s)
  BY <1>1, <1>2, <1>3, <1>6, ATaskGoesTo
     DEF FindJobsFails, At, IsPast, Handling, scanHistory
<1>7. CASE FindJobs(s)
  <2>1. PICK listings \in SUBSET Listable(s) :
          src' = [src EXCEPT ![s] = [q EXCEPT !.pc = "loop", !.todo = listings]]
    BY <1>7 DEF FindJobs
  <2> DEFINE t == [q EXCEPT !.pc = "loop", !.todo = listings]
  <2>2. listings \in SUBSET Jobs
    BY DEF Listable
  <2>3. t \in TaskType /\ t.pc = "loop" /\ t.nth = q.nth
    BY <1>1, <1>2, <2>2 DEF TaskType
  <2>4. /\ q.pc = "find"
        /\ UNCHANGED <<state, run, cancelled, found, done, calls, announced, stored, scans>>
    BY <1>7 DEF FindJobs, At, scanHistory
  <2> HIDE DEF t
  <2>5. src' = [src EXCEPT ![s] = t]
    BY <2>1 DEF t
  <2>6. QED
    BY <1>1, <1>3, <2>3, <2>4, <2>5, ATaskMoves DEF IsPast, Handling
<1>8. CASE Expire(s)
  <2> DEFINE t == [q EXCEPT !.late = TRUE]
  <2>1. t \in TaskType /\ t.pc = q.pc /\ t.cur = q.cur /\ t.nth = q.nth
    BY <1>1 DEF TaskType
  <2>2. src' = [src EXCEPT ![s] = t]
    BY <1>8 DEF Expire, TypeInv, ScanTypes
  <2>3. /\ q.pc # "off"
        /\ UNCHANGED <<state, run, cancelled, found, done, calls, announced, stored, scans>>
    BY <1>8 DEF Expire, Working, scanHistory
  <2> HIDE DEF t
  <2>4. QED
    BY <1>1, <1>3, <2>1, <2>2, <2>3, ATaskMoves
<1>9. QED
  BY <1>3, <1>4, <1>5, <1>6, <1>7, <1>8 DEF Find

(* Every step of the scan and of the user beside it keeps the types and is *)
(* a statement of the store or none.                                       *)
LEMMA TypeInvStep ==
  TypeInv /\ FoundInv /\ [Next]_vars => TypeInv' /\ [StoreNext]_storeVars
<1> SUFFICES ASSUME TypeInv, FoundInv, [Next]_vars
             PROVE  TypeInv' /\ [StoreNext]_storeVars
  OBVIOUS
<1>1. CASE StartScan \/ ListSources \/ ListSourcesFails \/ Finish \/ Stop
  BY <1>1, TypesOfTheScan
     DEF StartScan, ListSources, ListSourcesFails, Finish, Stop, storeVars
<1>2. ASSUME NEW s \in Sources, SubmitTask(s) \/ WorkerTakes(s) \/ Find(s) \/ Expire(s)
      PROVE  TypeInv' /\ [StoreNext]_storeVars
  BY <1>2, TypesBesideTheTasks
<1>3. ASSUME NEW s \in Sources, Task(s)
      PROVE  TypeInv' /\ [StoreNext]_storeVars
  BY <1>3, TypesOfATask, ATaskIssuesStatements DEF TypeInv
<1>4. ASSUME [StoreNext]_storeVars, calls' \subseteq calls,
             UNCHANGED <<state, run, cancelled, src, found, done, announced, stored, scans>>
      PROVE  TypeInv'
  <2>1. StoreInv'
    BY <1>4, StoreStepInv DEF TypeInv, ScanTypes
  <2>2. InScan' = InScan /\ Past' = Past
    BY <1>4 DEF InScan, Past
  <2>3. QED
    BY <1>4, <2>1, <2>2 DEF TypeInv, ScanTypes, Progress
<1>5. CASE (\E c \in calls : CallbackRuns(c)) \/ UNCHANGED vars
  BY <1>4, <1>5 DEF CallbackRuns, vars, scanVars, scanHistory, storeVars
<1>6. ASSUME NEW j \in Jobs, UserDeletes(j)
      PROVE  TypeInv' /\ [StoreNext]_storeVars
  BY <1>4, <1>6 DEF UserDeletes, scanVars, scanHistory, StoreNext
<1>7. QED
  BY <1>1, <1>2, <1>3, <1>5, <1>6 DEF Next, Scan

LEMMA TypeInvAlways == Spec => [](TypeInv /\ ScanInv /\ FoundInv)
  BY InitTypeInv, InitScanInv, InitFoundInv, TypeInvStep, ScanInvStep, FoundInvStep,
     PTL DEF Spec

(* Every value a scan keeps and publishes has its type, and the percentage *)
(* it shows never passes 100: what a task publishes was counted with the   *)
(* tasks the scan has listed (scanner.go:377).                             *)
THEOREM TypeCorrect == Spec => []TypeOK
<1>1. TypeInv => TypeOK
  <2>1. TypeInv => done \in Nat
    BY SizesOfSources DEF TypeInv, Progress, Past
  <2>2. QED
    BY <2>1 DEF TypeInv, ScanTypes, StateType, StoreInv, TypeOK
<1>2. QED
  BY <1>1, TypeInvAlways, PTL

(* The scan and the user beside it are clients of the store: from the      *)
(* companies and jobs of earlier sessions on, each of their steps is one   *)
(* of its statements or none.                                              *)
THEOREM ScanUsesTheStore == Spec => []StoreInv /\ [][StoreNext]_storeVars
<1>1. TypeInv => StoreInv
  BY DEF TypeInv, ScanTypes
<1>2. QED
  BY <1>1, TypeInvAlways, TypeInvStep, PTL DEF Spec

(* So the unique index and the foreign keys hold in every state of a scan. *)
COROLLARY TablesStayWhole == Spec => []Integrity
<1>1. StoreInv => Integrity
  BY DEF StoreInv
<1>2. QED
  BY <1>1, ScanUsesTheStore, PTL

(* A scan forgets no decision: what was applied to or banned stays so      *)
(* while the same postings are found again (scanner.go:346).               *)
COROLLARY ScansKeepDecisions == Spec => DecisionsSurvive
<1>1. StoreInv /\ [StoreNext]_storeVars
        => [\A j \in rows :
              /\ j \in rows' /\ j \in applied => j \in applied'
              /\ j \in rows' /\ j \in banned => j \in banned'
              /\ \A i \in rows' \ rows : ~SamePosting(i, j)]_storeVars
  BY AStatementKeepsDecisions
<1>2. QED
  BY <1>1, ScanUsesTheStore, PTL DEF DecisionsSurvive

-----------------------------------------------------------------------------
(* What may hold a scan up.                                                *)

(* The listings a task still has before it, the one in hand included until *)
(* it is stored.                                                           *)
Filing == {"check", "parse", "resolve", "store"}
InHand(t) == t.todo \union (IF t.pc \in Filing THEN {t.cur} ELSE {})

(* No listing is in two hands, none was stored before, and the one in hand *)
(* is not reached again.                                                   *)
Fresh ==
  /\ \A s \in Sources : InHand(src[s]) \intersect minted = {}
  /\ \A s, t \in Sources : s # t => InHand(src[s]) \intersect InHand(src[t]) = {}
  /\ \A s \in Sources : src[s].pc \in Filing => src[s].cur \notin src[s].todo

(* The guards of Task, but for the place: a statement has an outcome for   *)
(* its failure, so that only the upsert asks for more, an unused id.       *)
TaskCanGo(s) ==
  /\ src[s].pc \in Working \ {"find"}
  /\ At(s, "store") /\ ~Late(s) => src[s].cur \notin minted

ScanCanGo ==
  \/ run = "list"
  \/ run = "wait" /\ \A s \in Sources : src[s].pc \in Over
  \/ \E s \in Sources : /\ run = "wait" /\ At(s, "unsent")
                        /\ Cardinality(Busy) + Cardinality(Waiting) < Workers + Queue

AWorkerCanTake == \E s \in Sources : At(s, "queued") /\ Cardinality(Busy) < Workers

(* While a scan is running and neither it, nor a worker of the pool, nor a *)
(* task can go on, every busy worker is in FindJobs, and one is.           *)
OnlySourcesHoldUp ==
  \/ run = "idle" \/ ScanCanGo \/ AWorkerCanTake
  \/ \E s \in Sources : TaskCanGo(s)
  \/ Busy # {} /\ \A s \in Busy : At(s, "find")

LEMMA InitFresh == Init => Fresh
<1>1. NewTask.todo = {} /\ NewTask.pc = "off"
  BY DEF NewTask
<1>2. InHand(NewTask) = {}
  BY <1>1 DEF InHand, Filing
<1>3. QED
  BY <1>1, <1>2 DEF Init, Fresh, Filing

(* A step after which every task has in hand what it had, or less.         *)
LEMMA NothingIsTakenUp ==
  ASSUME Fresh, minted' = minted,
         \A s \in Sources : InHand(src'[s]) \subseteq InHand(src[s]),
         \A s \in Sources : src'[s].pc \in Filing => src'[s].cur \notin src'[s].todo
  PROVE  Fresh'
  BY DEF Fresh

LEMMA ATaskKeepsItsHand ==
  ASSUME Fresh, src \in [Sources -> TaskType], minted' = minted,
         NEW s \in Sources, NEW t, src' = [src EXCEPT ![s] = t],
         InHand(t) \subseteq InHand(src[s]),
         t.pc \in Filing => t.cur \notin t.todo
  PROVE  Fresh'
<1>1. src'[s] = t /\ \A u \in Sources \ {s} : src'[u] = src[u]
  OBVIOUS
<1>2. \A u \in Sources : InHand(src'[u]) \subseteq InHand(src[u])
  BY <1>1
<1>3. \A u \in Sources : src'[u].pc \in Filing => src'[u].cur \notin src'[u].todo
  BY <1>1 DEF Fresh
<1>4. QED
  BY <1>2, <1>3, NothingIsTakenUp

LEMMA AMoveKeepsTheHand ==
  ASSUME Fresh, src \in [Sources -> TaskType], minted' = minted,
         NEW s \in Sources, NEW pc \in TaskPc, GoTo(s, pc),
         pc \in Filing => src[s].pc \in Filing
  PROVE  Fresh'
<1> DEFINE t == [src[s] EXCEPT !.pc = pc]
<1>1. src' = [src EXCEPT ![s] = t] /\ t.pc = pc /\ t.cur = src[s].cur /\ t.todo = src[s].todo
  BY DEF GoTo, TaskType
<1> HIDE DEF t
<1>2. InHand(t) \subseteq InHand(src[s])
  BY <1>1 DEF InHand
<1>3. t.pc \in Filing => t.cur \notin t.todo
  BY <1>1 DEF Fresh
<1>4. QED
  BY <1>1, <1>2, <1>3, ATaskKeepsItsHand

(* A step that leaves the task with its list and nothing in hand.          *)
LEMMA AnEmptyHand ==
  ASSUME Fresh, src \in [Sources -> TaskType], minted' = minted,
         NEW s \in Sources, NEW t, src' = [src EXCEPT ![s] = t],
         t.todo \subseteq src[s].todo, t.pc \notin Filing
  PROVE  Fresh'
<1>1. InHand(t) \subseteq InHand(src[s])
  BY DEF InHand
<1>2. QED
  BY <1>1, ATaskKeepsItsHand

LEMMA FreshTask ==
  ASSUME TypeInv, Fresh, NEW s \in Sources, Task(s)
  PROVE  Fresh'
<1> DEFINE q == src[s]
<1>0. src \in [Sources -> TaskType] /\ q \in TaskType
  BY DEF TypeInv, ScanTypes
<1>1. ASSUME NEW j \in Jobs, TakeListing(s, j) PROVE Fresh'
  <2> DEFINE t == [q EXCEPT !.pc = "check", !.cur = j, !.todo = q.todo \ {j}]
  <2>1. /\ src' = [src EXCEPT ![s] = t] /\ minted' = minted /\ j \in q.todo
        /\ t.pc = "check" /\ t.cur = j /\ t.todo = q.todo \ {j}
    BY <1>0, <1>1 DEF TakeListing, storeVars, TaskType
  <2> HIDE DEF t
  <2>2. InHand(t) \subseteq InHand(q) /\ t.cur \notin t.todo
    BY <2>1 DEF InHand
  <2>3. QED
    BY <1>0, <2>1, <2>2, ATaskKeepsItsHand
<1>2. CASE Abandon(s)
  <2> DEFINE t == [q EXCEPT !.pc = "abandoned", !.todo = {}]
  <2>1. /\ src' = [src EXCEPT ![s] = t] /\ minted' = minted
        /\ t.pc = "abandoned" /\ t.todo = {}
    BY <1>0, <1>2 DEF Abandon, storeVars, TaskType
  <2> HIDE DEF t
  <2>2. t.pc \notin Filing
    BY <2>1 DEF Filing
  <2>3. QED
    BY <1>0, <2>1, <2>2, AnEmptyHand
<1>3. CASE SkipKnown(s) \/ ParseJobMetadataFails(s) \/ ResolveCompanyFails(s) \/ StoreJobFails(s)
  <2> DEFINE t == [q EXCEPT !.pc = "loop", !.cur = NoJob]
  <2>1. NextListing(s) /\ minted' = minted
    BY <1>3 DEF SkipKnown, ParseJobMetadataFails, ResolveCompanyFails, StoreJobFails, storeVars,
       UpsertCompanyByName
  <2>2. src' = [src EXCEPT ![s] = t] /\ t.pc = "loop" /\ t.todo = q.todo
    BY <1>0, <2>1 DEF NextListing, TaskType
  <2> HIDE DEF t
  <2>3. t.pc \notin Filing
    BY <2>2 DEF Filing
  <2>4. QED
    BY <1>0, <2>1, <2>2, <2>3, AnEmptyHand
<1>4. CASE IsUnknown(s) \/ ParseCompanyPage(s) \/ ParseBoardListing(s) \/ ResolveCompany(s)
  <2>1. /\ minted' = minted /\ q.pc \in Filing
        /\ GoTo(s, "parse") \/ GoTo(s, "store") \/ GoTo(s, "resolve")
    BY <1>4 DEF IsUnknown, ParseCompanyPage, ParseBoardListing, ResolveCompany, storeVars,
       UpsertCompanyByName, At, Filing
  <2>2. "parse" \in TaskPc /\ "store" \in TaskPc /\ "resolve" \in TaskPc
    BY DEF TaskPc, Working
  <2>3. QED
    BY <1>0, <2>1, <2>2, AMoveKeepsTheHand
<1>5. CASE StoreJob(s)
  <2>1. /\ q.pc = "store" /\ minted' = minted \union {q.cur}
        /\ src' = [src EXCEPT ![s].pc = "announce"]
    BY <1>5 DEF StoreJob, UpsertJob, GoTo, At
  <2>2. /\ src'[s].pc = "announce" /\ src'[s].todo = q.todo
        /\ \A u \in Sources \ {s} : src'[u] = src[u]
    BY <1>0, <2>1 DEF TaskType
  <2>3. InHand(q) = q.todo \union {q.cur} /\ InHand(src'[s]) = q.todo /\ q.cur \notin q.todo
    BY <2>1, <2>2 DEF InHand, Filing, Fresh
  <2>4. \A u \in Sources : /\ InHand(src'[u]) \subseteq InHand(src[u])
                           /\ q.cur \notin InHand(src'[u])
    BY <2>2, <2>3 DEF Fresh
  <2>5. \A u \in Sources : src'[u].pc \in Filing => src'[u].cur \notin src'[u].todo
    BY <2>2 DEF Fresh, Filing
  <2>6. \A u \in Sources : InHand(src'[u]) \intersect minted' = {}
    BY <2>1, <2>4 DEF Fresh
  <2>7. \A u, v \in Sources : u # v => InHand(src'[u]) \intersect InHand(src'[v]) = {}
    BY <2>4 DEF Fresh
  <2>8. QED
    BY <2>5, <2>6, <2>7 DEF Fresh
<1>6. CASE Announce(s)
  <2> DEFINE t == [q EXCEPT !.pc = "loop", !.cur = NoJob, !.newN = q.newN + 1]
  <2>1. /\ src' = [src EXCEPT ![s] = t] /\ minted' = minted
        /\ t.pc = "loop" /\ t.todo = q.todo
    BY <1>0, <1>6 DEF Announce, storeVars, TaskType
  <2> HIDE DEF t
  <2>2. t.pc \notin Filing
    BY <2>1 DEF Filing
  <2>3. QED
    BY <1>0, <2>1, <2>2, AnEmptyHand
<1>7. CASE AddFound(s)
  <2> DEFINE t == [q EXCEPT !.pc = "addDone", !.sum = found']
  <2>1. /\ src' = [src EXCEPT ![s] = t] /\ minted' = minted
        /\ t.pc = "addDone" /\ t.todo = q.todo
    BY <1>0, <1>7 DEF AddFound, storeVars, TaskType
  <2> HIDE DEF t
  <2>2. t.pc \notin Filing
    BY <2>1 DEF Filing
  <2>3. QED
    BY <1>0, <2>1, <2>2, AnEmptyHand
<1>8. CASE AddDone(s)
  <2> DEFINE t == [q EXCEPT !.pc = "publish", !.nth = done']
  <2>1. /\ src' = [src EXCEPT ![s] = t] /\ minted' = minted
        /\ t.pc = "publish" /\ t.todo = q.todo
    BY <1>0, <1>8 DEF AddDone, storeVars, TaskType
  <2> HIDE DEF t
  <2>2. t.pc \notin Filing
    BY <2>1 DEF Filing
  <2>3. QED
    BY <1>0, <2>1, <2>2, AnEmptyHand
<1>9. CASE SetProgress(s)
  <2> DEFINE t == [q EXCEPT !.pc = "counted", !.sum = 0, !.nth = 0]
  <2>1. /\ src' = [src EXCEPT ![s] = t] /\ minted' = minted
        /\ t.pc = "counted" /\ t.todo = q.todo
    BY <1>0, <1>9 DEF SetProgress, storeVars, TaskType
  <2> HIDE DEF t
  <2>2. t.pc \notin Filing
    BY <2>1 DEF Filing
  <2>3. QED
    BY <1>0, <2>1, <2>2, AnEmptyHand
<1>10. QED
  BY <1>1, <1>2, <1>3, <1>4, <1>5, <1>6, <1>7, <1>8, <1>9 DEF Task

LEMMA FreshFind ==
  ASSUME TypeInv, Fresh, NEW s \in Sources, Find(s)
  PROVE  Fresh'
<1>0. src \in [Sources -> TaskType] /\ src[s] \in TaskType
  BY DEF TypeInv, ScanTypes
<1>1. CASE FindJobs(s)
  <2>1. PICK listings \in SUBSET Listable(s) :
          src' = [src EXCEPT ![s] = [@ EXCEPT !.pc = "loop", !.todo = listings]]
    BY <1>1 DEF FindJobs
  <2>2. /\ src'[s].pc = "loop" /\ src'[s].todo = listings
        /\ \A u \in Sources \ {s} : src'[u] = src[u]
    BY <1>0, <2>1 DEF TaskType
  <2>3. InHand(src'[s]) = listings
    BY <2>2 DEF InHand, Filing
  <2>4. \A u \in Sources : listings \intersect InHand(src[u]) = {}
    BY <2>1 DEF Listable, InHand
  <2>5. listings \intersect minted = {} /\ minted' = minted
    BY <1>1, <2>1 DEF Listable, FindJobs, storeVars
  <2>6. /\ \A u \in Sources : InHand(src'[u]) \intersect minted' = {}
        /\ \A u, v \in Sources : u # v => InHand(src'[u]) \intersect InHand(src'[v]) = {}
    BY <2>2, <2>3, <2>4, <2>5 DEF Fresh
  <2>7. \A u \in Sources : src'[u].pc \in Filing => src'[u].cur \notin src'[u].todo
    BY <2>2 DEF Fresh, Filing
  <2>8. QED
    BY <2>6, <2>7 DEF Fresh
<1>2. CASE FindJobsFails(s)
  <2>1. GoTo(s, "loop") /\ minted' = minted /\ "loop" \in TaskPc /\ "loop" \notin Filing
    BY <1>2 DEF FindJobsFails, storeVars, TaskPc, Working, Filing
  <2>2. QED
    BY <1>0, <2>1, AMoveKeepsTheHand
<1>3. QED
  BY <1>1, <1>2 DEF Find

LEMMA FreshStep == TypeInv /\ Fresh /\ [Next]_vars => Fresh'
<1> SUFFICES ASSUME TypeInv, Fresh, [Next]_vars PROVE Fresh'
  OBVIOUS
<1>0. src \in [Sources -> TaskType]
  BY DEF TypeInv, ScanTypes
<1>a. /\ NewTask.todo = {} /\ NewTask.pc = "off"
      /\ [NewTask EXCEPT !.pc = "unsent"].todo = {}
      /\ [NewTask EXCEPT !.pc = "unsent"].pc = "unsent"
  BY DEF NewTask
<1>b. ASSUME minted' = minted, \A s \in Sources : src'[s].todo = {} /\ src'[s].pc \notin Filing
      PROVE  Fresh'
  <2>1. \A s \in Sources : InHand(src'[s]) = {}
    BY <1>b DEF InHand
  <2>2. QED
    BY <1>b, <2>1, NothingIsTakenUp
<1>c. CASE UNCHANGED <<minted, src>>
  BY <1>c DEF Fresh
<1>1. CASE StartScan
  <2>1. minted' = minted /\ \A s \in Sources : src'[s] = NewTask
    BY <1>1 DEF StartScan, storeVars
  <2>2. QED
    BY <1>a, <1>b, <2>1 DEF Filing
<1>2. CASE ListSources
  <2>1. /\ minted' = minted
        /\ UNCHANGED src
           \/ \A s \in Sources : src'[s] \in {NewTask, [NewTask EXCEPT !.pc = "unsent"]}
    BY <1>2 DEF ListSources, storeVars
  <2>2. QED
    BY <1>a, <1>b, <1>c, <2>1 DEF Filing
<1>3. CASE ListSourcesFails \/ Finish \/ Stop \/ UNCHANGED vars
            \/ \E c \in calls : CallbackRuns(c)
  BY <1>c, <1>3 DEF ListSourcesFails, Finish, Stop, CallbackRuns, vars, scanVars, storeVars
<1>4. ASSUME NEW s \in Sources, SubmitTask(s) \/ WorkerTakes(s) PROVE Fresh'
  <2>1. minted' = minted /\ (GoTo(s, "queued") \/ GoTo(s, "find"))
    BY <1>4 DEF SubmitTask, WorkerTakes, storeVars
  <2>2. /\ "queued" \in TaskPc /\ "queued" \notin Filing
        /\ "find" \in TaskPc /\ "find" \notin Filing
    BY DEF TaskPc, Working, Filing
  <2>3. QED
    BY <1>0, <2>1, <2>2, AMoveKeepsTheHand
<1>5. ASSUME NEW s \in Sources, Expire(s) PROVE Fresh'
  <2> DEFINE t == [src[s] EXCEPT !.late = TRUE]
  <2>1. /\ src' = [src EXCEPT ![s] = t] /\ minted' = minted
        /\ t.pc = src[s].pc /\ t.cur = src[s].cur /\ t.todo = src[s].todo
    BY <1>0, <1>5 DEF Expire, storeVars, TaskType
  <2> HIDE DEF t
  <2>2. InHand(t) = InHand(src[s])
    BY <2>1 DEF InHand
  <2>3. t.pc \in Filing => t.cur \notin t.todo
    BY <2>1 DEF Fresh
  <2>4. QED
    BY <1>0, <2>1, <2>2, <2>3, ATaskKeepsItsHand
<1>6. ASSUME NEW s \in Sources, Find(s) \/ Task(s) PROVE Fresh'
  BY <1>6, FreshFind, FreshTask
<1>7. ASSUME NEW j \in Jobs, UserDeletes(j) PROVE Fresh'
  BY <1>c, <1>7 DEF UserDeletes, DeleteJobs, scanVars
<1>8. QED
  BY <1>1, <1>2, <1>3, <1>4, <1>5, <1>6, <1>7 DEF Next, Scan

(* A scan stands still only in its sources: however many there are, however*)
(* small the pool and its queue, whatever has been cancelled or has run out*)
(* of time, a running scan has a step to take unless every busy worker is  *)
(* inside FindJobs.  That is ScanEnds short of fairness: Submit blocking on*)
(* a full pool (scanner.go:391) and wg.Wait never wait for each other.     *)
THEOREM OnlySourcesHoldUpAScan == Spec => []OnlySourcesHoldUp
<1>1. ASSUME TypeInv, ScanInv, Fresh PROVE OnlySourcesHoldUp
  <2> SUFFICES ASSUME run # "idle", ~ScanCanGo, ~AWorkerCanTake,
                      \A s \in Sources : ~TaskCanGo(s)
               PROVE  Busy # {} /\ \A s \in Busy : At(s, "find")
    BY DEF OnlySourcesHoldUp
  <2>1. \A s \in Busy : At(s, "find")
    <3>1. SUFFICES ASSUME NEW s \in Sources, src[s].pc \in Working \ {"find"} PROVE TaskCanGo(s)
      BY DEF Busy, At
    <3>2. At(s, "store") => src[s].cur \notin minted
      BY <1>1 DEF At, Fresh, InHand, Filing
    <3>3. QED
      BY <3>1, <3>2 DEF TaskCanGo
  <2>2. run = "wait"
    BY <1>1 DEF ScanInv, ScanCanGo
  <2>3. PICK s \in Sources : src[s].pc \notin Over
    BY <2>2 DEF ScanCanGo
  <2>4. src[s].pc \in Working \/ At(s, "queued") \/ At(s, "unsent")
    BY <1>1, <2>3 DEF TypeInv, ScanTypes, TaskType, TaskPc, At
  <2>5. ASSUME Busy = {} PROVE FALSE
    <3>1. Cardinality(Busy) = 0 /\ Workers \in Nat \ {0} /\ Queue \in Nat
      BY <2>5, FS_EmptySet, ScannerAssumption DEF ScannerAssumption
    <3>2. \A t \in Sources : ~At(t, "queued")
      BY <3>1 DEF AWorkerCanTake
    <3>3. Waiting = {}
      BY <3>2 DEF Waiting, At
    <3>4. Cardinality(Waiting) = 0
      BY <3>3, FS_EmptySet
    <3>5. ~At(s, "unsent")
      BY <2>2, <3>1, <3>4 DEF ScanCanGo
    <3>6. QED
      BY <2>4, <2>5, <3>2, <3>5 DEF Busy
  <2>6. QED
    BY <2>1, <2>5
<1>2. QED
  BY <1>1, InitFresh, FreshStep, InitTypeInv, TypeInvAlways, PTL DEF Spec

(* The steps a task still has before it, at most: seven for a listing,     *)
(* those of its place, and the end of its time.                            *)
Places(t) ==
  CASE t.pc = "unsent" -> 7 * Cardinality(Jobs) + 7
    [] t.pc = "queued" -> 7 * Cardinality(Jobs) + 6
    [] t.pc = "find" -> 7 * Cardinality(Jobs) + 5
    [] t.pc = "check" -> 7 * Cardinality(t.todo) + 10
    [] t.pc = "parse" -> 7 * Cardinality(t.todo) + 9
    [] t.pc = "resolve" -> 7 * Cardinality(t.todo) + 8
    [] t.pc = "store" -> 7 * Cardinality(t.todo) + 7
    [] t.pc = "announce" -> 7 * Cardinality(t.todo) + 6
    [] t.pc = "loop" -> 7 * Cardinality(t.todo) + 4
    [] t.pc = "addDone" -> 3
    [] t.pc = "publish" -> 2
    [] OTHER -> 0

StepsLeft(t) == Places(t) + (IF t.late THEN 0 ELSE 1)

GoesOn(s) ==
  /\ StepsLeft(src[s]) \in Nat
  /\ src'[s] = src[s] \/ StepsLeft(src'[s]) < StepsLeft(src[s])

EveryTaskGoesOn == run = "wait" => \A s \in Sources : GoesOn(s)

LEMMA ListingsAreCounted ==
  ASSUME NEW S \in SUBSET Jobs
  PROVE  /\ IsFiniteSet(S) /\ Cardinality(S) \in Nat
         /\ Cardinality(S) <= Cardinality(Jobs) /\ Cardinality(Jobs) \in Nat
         /\ \A j \in S : Cardinality(S \ {j}) = Cardinality(S) - 1
  BY ScannerAssumption, FS_Subset, FS_CardinalityType, FS_RemoveElement DEF ScannerAssumption

LEMMA StepsAreCounted ==
  ASSUME NEW t \in TaskType
  PROVE  Places(t) \in Nat /\ StepsLeft(t) \in Nat
<1>1. Cardinality(t.todo) \in Nat /\ Cardinality(Jobs) \in Nat
  BY ListingsAreCounted DEF TaskType
<1>2. Places(t) \in Nat
  BY <1>1 DEF Places
<1>3. QED
  BY <1>2 DEF StepsLeft

(* A step down the line in no more time than was left.                     *)
LEMMA FurtherDown ==
  ASSUME NEW t \in TaskType, NEW u \in TaskType, u.late = t.late, Places(u) < Places(t)
  PROVE  StepsLeft(u) < StepsLeft(t)
<1>1. Places(t) \in Nat /\ Places(u) \in Nat
  BY StepsAreCounted
<1>2. QED
  BY <1>1 DEF StepsLeft

(* The steps that only change the place.                                   *)
LEMMA APlaceDown ==
  ASSUME NEW t \in TaskType, NEW u \in TaskType, u.late = t.late, u.todo = t.todo,
         \/ t.pc = "unsent" /\ u.pc = "queued"
         \/ t.pc = "queued" /\ u.pc = "find"
         \/ t.pc = "find" /\ u.pc = "loop"
         \/ t.pc = "check" /\ u.pc \in {"parse", "loop"}
         \/ t.pc = "parse" /\ u.pc \in {"resolve", "store", "loop"}
         \/ t.pc = "resolve" /\ u.pc \in {"store", "loop"}
         \/ t.pc = "store" /\ u.pc \in {"announce", "loop"}
         \/ t.pc = "announce" /\ u.pc = "loop"
         \/ t.pc = "loop" /\ u.pc = "addDone"
         \/ t.pc = "addDone" /\ u.pc = "publish"
         \/ t.pc = "publish" /\ u.pc = "counted"
  PROVE  StepsLeft(u) < StepsLeft(t)
<1>1. PICK n \in Nat : n = Cardinality(t.todo)
  BY ListingsAreCounted DEF TaskType
<1>2. PICK m \in Nat : m = Cardinality(Jobs)
  BY ListingsAreCounted
<1>3. n <= m
  BY <1>1, <1>2, ListingsAreCounted DEF TaskType
<1>4. Places(u) < Places(t)
  BY <1>1, <1>2, <1>3 DEF Places
<1>5. QED
  BY <1>4, FurtherDown

LEMMA ATaskStepCounts ==
  ASSUME TypeInv, NEW s \in Sources, Task(s) \/ Find(s) \/ SubmitTask(s) \/ WorkerTakes(s)
  PROVE  StepsLeft(src'[s]) < StepsLeft(src[s])
<1> DEFINE q == src[s]
<1>0. src \in [Sources -> TaskType] /\ q \in TaskType
  BY DEF TypeInv, ScanTypes
<1>1. ASSUME NEW pc \in TaskPc, GoTo(s, pc)
      PROVE  LET u == src'[s]
             IN  u \in TaskType /\ u.pc = pc /\ u.late = q.late /\ u.todo = q.todo
  BY <1>0, <1>1 DEF GoTo, TaskType
<1>2. ASSUME NextListing(s)
      PROVE  LET u == src'[s]
             IN  u \in TaskType /\ u.pc = "loop" /\ u.late = q.late /\ u.todo = q.todo
  <2>1. "loop" \in TaskPc
    BY DEF TaskPc, Working
  <2>2. QED
    BY <1>0, <1>2, <2>1 DEF NextListing, TaskType
<1>3. /\ "queued" \in TaskPc /\ "find" \in TaskPc /\ "loop" \in TaskPc /\ "parse" \in TaskPc
      /\ "resolve" \in TaskPc /\ "store" \in TaskPc /\ "announce" \in TaskPc
      /\ "check" \in TaskPc /\ "abandoned" \in TaskPc /\ "addDone" \in TaskPc
      /\ "publish" \in TaskPc /\ "counted" \in TaskPc
  BY DEF TaskPc, Working, Over
<1>4. CASE SubmitTask(s) \/ WorkerTakes(s) \/ FindJobsFails(s)
  <2>1. \/ q.pc = "unsent" /\ GoTo(s, "queued")
        \/ q.pc = "queued" /\ GoTo(s, "find")
        \/ q.pc = "find" /\ GoTo(s, "loop")
    BY <1>4 DEF SubmitTask, WorkerTakes, FindJobsFails, At
  <2>2. QED
    BY <1>0, <1>1, <1>3, <2>1, APlaceDown
<1>5. CASE FindJobs(s)
  <2>1. PICK listings \in SUBSET Jobs :
          src' = [src EXCEPT ![s] = [q EXCEPT !.pc = "loop", !.todo = listings]]
    BY <1>5 DEF FindJobs, Listable
  <2>2. LET u == src'[s]
        IN  u \in TaskType /\ u.pc = "loop" /\ u.late = q.late /\ u.todo = listings
    BY <1>0, <1>3, <2>1 DEF TaskType
  <2>3. Places(src'[s]) = 7 * Cardinality(listings) + 4
    BY <2>2 DEF Places
  <2>4. Places(q) = 7 * Cardinality(Jobs) + 5
    BY <1>5 DEF FindJobs, At, Places
  <2>5. /\ Cardinality(listings) <= Cardinality(Jobs)
        /\ Cardinality(listings) \in Nat /\ Cardinality(Jobs) \in Nat
    BY ListingsAreCounted
  <2>6. Places(src'[s]) < Places(q)
    BY <2>3, <2>4, <2>5
  <2>7. QED
    BY <1>0, <2>2, <2>6, FurtherDown
<1>6. ASSUME NEW j \in Jobs, TakeListing(s, j) PROVE StepsLeft(src'[s]) < StepsLeft(q)
  <2>1. /\ q.pc = "loop" /\ j \in q.todo
        /\ src' = [src EXCEPT ![s] = [q EXCEPT !.pc = "check", !.cur = j, !.todo = q.todo \ {j}]]
    BY <1>6 DEF TakeListing, At
  <2>2. LET u == src'[s]
        IN  u \in TaskType /\ u.pc = "check" /\ u.late = q.late /\ u.todo = q.todo \ {j}
    BY <1>0, <1>3, <2>1 DEF TaskType
  <2>3. PICK n \in Nat : n = Cardinality(q.todo)
    BY <1>0, ListingsAreCounted DEF TaskType
  <2>4. Cardinality(q.todo \ {j}) = n - 1
    BY <1>0, <2>1, <2>3, ListingsAreCounted DEF TaskType
  <2>5. Places(q) = 7 * n + 4 /\ Places(src'[s]) = 7 * (n - 1) + 10
    BY <2>1, <2>2, <2>3, <2>4 DEF Places
  <2>6. Places(src'[s]) < Places(q)
    BY <2>5
  <2>7. QED
    BY <1>0, <2>2, <2>6, FurtherDown
<1>7. CASE Abandon(s)
  <2>1. q.pc = "loop" /\ src' = [src EXCEPT ![s] = [q EXCEPT !.pc = "abandoned", !.todo = {}]]
    BY <1>7 DEF Abandon, At
  <2>2. LET u == src'[s]
        IN  u \in TaskType /\ u.pc = "abandoned" /\ u.late = q.late
    BY <1>0, <1>3, <2>1 DEF TaskType
  <2>3. Cardinality(q.todo) \in Nat
    BY <1>0, ListingsAreCounted DEF TaskType
  <2>4. Places(src'[s]) < Places(q)
    BY <2>1, <2>2, <2>3 DEF Places
  <2>5. QED
    BY <1>0, <2>2, <2>4, FurtherDown
<1>8. CASE SkipKnown(s) \/ ParseJobMetadataFails(s) \/ ResolveCompanyFails(s) \/ StoreJobFails(s)
  <2>1. q.pc \in {"check", "parse", "resolve", "store"} /\ NextListing(s)
    BY <1>8 DEF SkipKnown, ParseJobMetadataFails, ResolveCompanyFails, StoreJobFails, At
  <2>2. QED
    BY <1>0, <1>2, <2>1, APlaceDown
<1>9. CASE \/ IsUnknown(s) \/ ParseCompanyPage(s) \/ ParseBoardListing(s)
           \/ ResolveCompany(s) \/ StoreJob(s)
  <2>1. \/ q.pc = "check" /\ GoTo(s, "parse")
        \/ q.pc = "parse" /\ (GoTo(s, "store") \/ GoTo(s, "resolve"))
        \/ q.pc = "resolve" /\ GoTo(s, "store")
        \/ q.pc = "store" /\ GoTo(s, "announce")
    BY <1>9 DEF IsUnknown, ParseCompanyPage, ParseBoardListing, ResolveCompany, StoreJob, At
  <2>2. QED
    BY <1>0, <1>1, <1>3, <2>1, APlaceDown
<1>a. ASSUME Task(s) PROVE src'[s] \in TaskType
  <2>1. TypeInv'
    BY <1>a, TypesOfATask
  <2>2. QED
    BY <2>1 DEF TypeInv, ScanTypes
<1>10. CASE Announce(s)
  <2>1. /\ q.pc = "announce"
        /\ src' = [src EXCEPT ![s] = [q EXCEPT !.pc = "loop", !.cur = NoJob, !.newN = q.newN + 1]]
    BY <1>10 DEF Announce, At
  <2>2. src'[s] = [q EXCEPT !.pc = "loop", !.cur = NoJob, !.newN = q.newN + 1]
    BY <1>0, <2>1
  <2>3. src'[s].pc = "loop" /\ src'[s].late = q.late /\ src'[s].todo = q.todo
    BY <1>0, <2>2 DEF TaskType
  <2>4. QED
    BY <1>0, <1>a, <1>10, <2>1, <2>3, APlaceDown DEF Task
<1>11. CASE AddFound(s)
  <2>1. q.pc = "loop" /\ src'[s] = [q EXCEPT !.pc = "addDone", !.sum = found']
    BY <1>0, <1>11 DEF AddFound, At
  <2>2. src'[s].pc = "addDone" /\ src'[s].late = q.late /\ src'[s].todo = q.todo
    BY <1>0, <2>1 DEF TaskType
  <2>3. QED
    BY <1>0, <1>a, <1>11, <2>1, <2>2, APlaceDown DEF Task
<1>12. CASE AddDone(s)
  <2>1. q.pc = "addDone" /\ src'[s] = [q EXCEPT !.pc = "publish", !.nth = done']
    BY <1>0, <1>12 DEF AddDone, At
  <2>2. src'[s].pc = "publish" /\ src'[s].late = q.late /\ src'[s].todo = q.todo
    BY <1>0, <2>1 DEF TaskType
  <2>3. QED
    BY <1>0, <1>a, <1>12, <2>1, <2>2, APlaceDown DEF Task
<1>13. CASE SetProgress(s)
  <2>1. q.pc = "publish" /\ src'[s] = [q EXCEPT !.pc = "counted", !.sum = 0, !.nth = 0]
    BY <1>0, <1>13 DEF SetProgress, At
  <2>2. src'[s].pc = "counted" /\ src'[s].late = q.late /\ src'[s].todo = q.todo
    BY <1>0, <2>1 DEF TaskType
  <2>3. QED
    BY <1>0, <1>a, <1>13, <2>1, <2>2, APlaceDown DEF Task
<1>14. QED
  BY <1>4, <1>5, <1>6, <1>7, <1>8, <1>9, <1>10, <1>11, <1>12, <1>13 DEF Task, Find

LEMMA OneTaskMoves ==
  ASSUME TypeInv, NEW s \in Sources, NEW u \in Sources \ {s},
         Task(s) \/ Find(s) \/ SubmitTask(s) \/ WorkerTakes(s) \/ Expire(s)
  PROVE  src'[u] = src[u]
  BY DEF TypeInv, ScanTypes, Task, Find, TakeListing, Abandon, SkipKnown, IsUnknown,
     ParseCompanyPage, ParseBoardListing, ParseJobMetadataFails, ResolveCompany,
     ResolveCompanyFails, StoreJob, StoreJobFails, Announce, AddFound, AddDone, SetProgress,
     FindJobs, FindJobsFails, SubmitTask, WorkerTakes, Expire, GoTo, NextListing

LEMMA EveryTaskGoesOnStep == TypeInv /\ ScanInv /\ [Next]_vars => EveryTaskGoesOn
<1> SUFFICES ASSUME TypeInv, ScanInv, [Next]_vars, run = "wait", NEW u \in Sources
             PROVE  GoesOn(u)
  BY DEF EveryTaskGoesOn
<1>0. /\ src \in [Sources -> TaskType] /\ src[u] \in TaskType
      /\ StepsLeft(src[u]) \in Nat
  BY StepsAreCounted DEF TypeInv, ScanTypes
<1>1. ASSUME NEW s \in Sources, Task(s) \/ Find(s) \/ SubmitTask(s) \/ WorkerTakes(s)
      PROVE  GoesOn(u)
  BY <1>0, <1>1, ATaskStepCounts, OneTaskMoves DEF GoesOn
<1>2. ASSUME NEW s \in Sources, Expire(s) PROVE GoesOn(u)
  <2>1. CASE u = s
    <3>1. src'[u] = [src[u] EXCEPT !.late = TRUE] /\ src[u].late = FALSE
      BY <1>0, <1>2, <2>1 DEF Expire, TaskType
    <3>2. src'[u].pc = src[u].pc /\ src'[u].todo = src[u].todo /\ src'[u].late = TRUE
      BY <1>0, <3>1 DEF TaskType
    <3>3. Places(src'[u]) = Places(src[u]) /\ Places(src[u]) \in Nat
      BY <1>0, <3>2, StepsAreCounted DEF Places
    <3>4. StepsLeft(src'[u]) < StepsLeft(src[u])
      BY <3>1, <3>2, <3>3 DEF StepsLeft
    <3>5. QED
      BY <1>0, <3>4 DEF GoesOn
  <2>2. QED
    BY <1>0, <1>2, <2>1, OneTaskMoves DEF GoesOn
<1>3. CASE UNCHANGED src
  BY <1>0, <1>3 DEF GoesOn
<1>4. ~StartScan /\ ~ListSources /\ ~ListSourcesFails
  BY DEF ScanInv, StartScan, ListSources, ListSourcesFails
<1>5. CASE Finish \/ Stop \/ (\E c \in calls : CallbackRuns(c))
            \/ (\E j \in Jobs : UserDeletes(j)) \/ UNCHANGED vars
  BY <1>3, <1>5 DEF Finish, Stop, CallbackRuns, UserDeletes, vars, scanVars
<1>6. QED
  BY <1>1, <1>2, <1>4, <1>5 DEF Next, Scan

(* A scan is finite: while it waits for its tasks, every step of one       *)
(* lowers a natural number fixed by the listings it may get, and nothing   *)
(* raises it: not Stop, a deadline, a callback nor a user who deletes the  *)
(* jobs that come in.  With OnlySourcesHoldUpAScan this is ScanEnds short  *)
(* of fairness.                                                            *)
THEOREM AScanIsFinite == Spec => [][EveryTaskGoesOn]_vars
  BY EveryTaskGoesOnStep, TypeInvAlways, PTL DEF Spec
=============================================================================
