--------------------------- MODULE ShutdownProofs ----------------------------
(***************************************************************************)
(* Proof that no task is left when the services it works with are closed.   *)
(*                                                                          *)
(* The scan submits while the pool takes tasks, whatever main does.  So the *)
(* invariant says that the pool has stopped to take any when main waits for *)
(* those that are there, and that none is there once it has waited.         *)
(*                                                                          *)
(* And about the browser pool, which is closed next: every job it accepted  *)
(* is in one place until Close has returned, and none is left behind then.  *)
(* The counts of the property become facts about pairs (OnePlaceEach).  A   *)
(* Close under way can always go on, or those it waits for can, and a       *)
(* natural number says how many steps are left at most (WorkLeft).          *)
(***************************************************************************)
EXTENDS Shutdown, BrowserPool, FiniteSums

BeforeBrowser == {"serving", "draining", "closing", "stoppingPool", "poolStopped"}

ShutdownInv ==
  /\ task \in [Sources -> {"none", "queued", "late", "running", "blocked", "done",
                           "dropped"}]
  /\ pc \in BeforeBrowser \union {"browserClosed", "exited", "crashed"}
  /\ pc \in BeforeBrowser => {"browser", "repo"} \subseteq open
  /\ pc \in {"stoppingPool", "poolStopped", "browserClosed"} => "pool" \notin open
  /\ pc \in {"poolStopped", "browserClosed"} => InPool = {}

LEMMA InitShutdownInv == ShutdownInit => ShutdownInv
  BY DEF ShutdownInit, ShutdownInv, BeforeBrowser

LEMMA ShutdownInvStep == ShutdownInv /\ [ShutdownNext]_shutdownVars => ShutdownInv'
<1> SUFFICES ASSUME ShutdownInv, [ShutdownNext]_shutdownVars PROVE ShutdownInv'
  OBVIOUS
<1> USE DEF ShutdownInv, BeforeBrowser, InPool, Alive
<1>1. ASSUME NEW s \in Streams, StreamOpens(s) \/ ClientLeaves(s) \/ BrokerDismisses(s)
      PROVE ShutdownInv'
  BY <1>1 DEF StreamOpens, ClientLeaves, BrokerDismisses
<1>2. ASSUME NEW p \in Pages, PageRequested(p) \/ ServePage(p) PROVE ShutdownInv'
  BY <1>2 DEF PageRequested, ServePage
<1>3. CASE ListSources \/ ListSourcesFails \/ SubmitPanics \/ ScanEnds \/ SignalComes
  BY <1>3 DEF ListSources, ListSourcesFails, SubmitPanics, ScanEnds, SignalComes
<1>4. ASSUME NEW s \in Sources, Submit(s) PROVE ShutdownInv'
  BY <1>4 DEF Submit
<1>5. ASSUME NEW s \in Sources, TakeTask(s) \/ DropTask(s) \/ TaskBlocks(s) \/ TaskEnds(s)
      PROVE ShutdownInv'
  BY <1>5 DEF TakeTask, DropTask, TaskBlocks, TaskEnds
<1>6. CASE BeginDrain \/ EndDrain \/ CloseBroker \/ BeginStopPool
  BY <1>6 DEF BeginDrain, EndDrain, CloseBroker, BeginStopPool
<1>7. CASE EndStopPool \/ CloseBrowser \/ CloseRepo
  BY <1>7 DEF EndStopPool, CloseBrowser, CloseRepo
<1>8. CASE UNCHANGED shutdownVars
  BY <1>8 DEF shutdownVars
<1> QED
  BY <1>1, <1>2, <1>3, <1>4, <1>5, <1>6, <1>7, <1>8 DEF ShutdownNext, Main, Scan

(* No task outlives the browser pool and the store, for any streams, pages, *)
(* sources and workers, without any fairness (main.go:80).                  *)
THEOREM TasksEndFirst == ShutdownSpec => []NoTaskOutlivesItsServices
<1>1. ShutdownInv => NoTaskOutlivesItsServices
  BY DEF ShutdownInv, NoTaskOutlivesItsServices, Alive, BeforeBrowser
<1> QED
  BY <1>1, InitShutdownInv, ShutdownInvStep, PTL DEF ShutdownSpec

----------------------------------------------------------------------------
(* The browser pool.                                                        *)

InChannel(f) == \E k \in DOMAIN jobs : jobs[k] = f
AtTab(f) == \E w \in Tabs : job[w] = f

OnePlaceEach ==
  /\ \A k, l \in DOMAIN jobs : jobs[k] = jobs[l] => k = l
  /\ \A v, w \in Tabs : job[v] = job[w] /\ job[v] # Idle => v = w
  /\ \A f \in Fetches : InChannel(f) => ~AtTab(f)
  /\ \A f \in Fetches : InChannel(f) \/ AtTab(f) => answer[f] = "none"
  /\ \A f \in Fetches : call[f] \in {"idle", "refused", "panic"} <=>
                          ~InChannel(f) /\ ~AtTab(f) /\ answer[f] = "none"

ExitsInOrder ==
  /\ \A w \in exited : job[w] = Idle
  /\ exited # {} => closing # "open" /\ jobs = <<>>
  /\ closing = "closed" => exited = Tabs

PoolInv ==
  /\ TypeOK
  /\ OnePlaceEach
  /\ ExitsInOrder

LEMMA InitPoolInv == Init => PoolInv
  BY BrowserPoolAssumption
     DEF Init, PoolInv, TypeOK, OnePlaceEach, ExitsInOrder, InChannel, AtTab

(* A fetch whose job is accepted joins the channel, and is nowhere else.    *)
LEMMA FetchKeepsPoolInv ==
  ASSUME PoolInv, NEW f \in Fetches, Fetch(f)
  PROVE  PoolInv'
<1>1. /\ call[f] = "idle" /\ ~InChannel(f) /\ ~AtTab(f) /\ answer[f] = "none"
      /\ UNCHANGED <<ctxDone, job, result, answer, closing, cancelled, exited>>
  BY DEF Fetch, PoolInv, OnePlaceEach
<1>2. CASE closing = "open" /\ Len(jobs) < Queue
  <2>1. call' = [call EXCEPT ![f] = "wait"] /\ jobs' = Append(jobs, f)
    BY <1>2 DEF Fetch, OfferJob
  <2>2. jobs \in Seq(Fetches)
    BY DEF PoolInv, TypeOK
  <2>3. /\ jobs' \in Seq(Fetches) /\ Len(jobs') <= Queue
        /\ \A k : k \in DOMAIN jobs' <=> k \in DOMAIN jobs \/ k = Len(jobs) + 1
        /\ \A k \in DOMAIN jobs : jobs'[k] = jobs[k]
        /\ jobs'[Len(jobs) + 1] = f
    BY <1>2, <2>1, <2>2, BrowserPoolAssumption
  <2>4. \A g : InChannel(g)' <=> InChannel(g) \/ g = f
    BY <2>3 DEF InChannel
  <2>5. TypeOK'
    BY <1>1, <2>1, <2>3 DEF PoolInv, TypeOK
  <2>6. \A k, l \in DOMAIN jobs' : jobs'[k] = jobs'[l] => k = l
    BY <1>1, <2>3 DEF PoolInv, OnePlaceEach, InChannel
  <2>7. OnePlaceEach'
    BY <1>1, <2>1, <2>4, <2>6 DEF PoolInv, TypeOK, OnePlaceEach, AtTab
  <2>8. ExitsInOrder'
    BY <1>1, <1>2 DEF PoolInv, ExitsInOrder
  <2> QED
    BY <2>5, <2>7, <2>8 DEF PoolInv
<1>3. CASE ~(closing = "open" /\ Len(jobs) < Queue)
  <2>1. /\ UNCHANGED jobs
        /\ \/ call' = [call EXCEPT ![f] = "panic"]
           \/ call' = [call EXCEPT ![f] = "refused"]
    BY <1>3 DEF Fetch, OfferJob
  <2> QED
    BY <1>1, <2>1 DEF PoolInv, TypeOK, OnePlaceEach, ExitsInOrder, InChannel, AtTab
<1> QED
  BY <1>2, <1>3

(* A worker takes the first job: it leaves the channel for good, as no      *)
(* other place in the channel holds it.                                     *)
LEMMA TakeKeepsPoolInv ==
  ASSUME PoolInv, NEW w \in Tabs, Take(w)
  PROVE  PoolInv'
<1>0. PICK f1 : f1 = jobs[1]
  OBVIOUS
<1>1. /\ w \notin exited /\ job[w] = Idle /\ jobs # <<>>
      /\ job' = [job EXCEPT ![w] = f1] /\ jobs' = Tail(jobs)
      /\ UNCHANGED <<call, ctxDone, result, answer, closing, cancelled, exited>>
  BY <1>0 DEF Take
<1>2. jobs \in Seq(Fetches)
  BY DEF PoolInv, TypeOK
<1>3. /\ jobs' \in Seq(Fetches) /\ Len(jobs') <= Queue
      /\ 1 \in DOMAIN jobs /\ f1 = jobs[1] /\ f1 \in Fetches
      /\ \A k \in DOMAIN jobs' : k \in Nat \ {0} /\ k + 1 \in DOMAIN jobs /\ jobs'[k] = jobs[k + 1]
      /\ \A k \in DOMAIN jobs : k \in Nat /\ (k # 1 => k - 1 \in DOMAIN jobs')
  BY <1>0, <1>1, <1>2, BrowserPoolAssumption DEF PoolInv, TypeOK
<1>4. \A k, l \in DOMAIN jobs' : jobs'[k] = jobs'[l] => k = l
  <2> SUFFICES ASSUME NEW k \in DOMAIN jobs', NEW l \in DOMAIN jobs', jobs'[k] = jobs'[l]
               PROVE k = l
    OBVIOUS
  <2>1. k + 1 = l + 1
    BY <1>3 DEF PoolInv, OnePlaceEach
  <2> QED
    BY <1>3, <2>1
<1>5. ~InChannel(f1)'
  <2> SUFFICES ASSUME NEW k \in DOMAIN jobs', jobs'[k] = f1 PROVE FALSE
    BY DEF InChannel
  <2>1. k + 1 = 1
    BY <1>3 DEF PoolInv, OnePlaceEach
  <2> QED
    BY <1>3, <2>1
<1>6. \A f : InChannel(f)' => InChannel(f)
  BY <1>3 DEF InChannel
<1>7. \A f : InChannel(f) => f = f1 \/ InChannel(f)'
  <2> SUFFICES ASSUME NEW f, NEW k \in DOMAIN jobs, jobs[k] = f, k # 1 PROVE InChannel(f)'
    BY <1>3 DEF InChannel
  <2>1. k - 1 \in DOMAIN jobs' /\ jobs'[k - 1] = jobs[(k - 1) + 1]
    BY <1>3
  <2> QED
    BY <1>3, <2>1 DEF InChannel
<1>8. InChannel(f1) /\ ~AtTab(f1) /\ f1 # Idle
  BY <1>3, BrowserPoolAssumption DEF InChannel, PoolInv, OnePlaceEach
<1>9. \A f \in Fetches : AtTab(f)' <=> AtTab(f) \/ f = f1
  BY <1>1, BrowserPoolAssumption DEF AtTab, PoolInv, TypeOK
<1>10. \A v, u \in Tabs : job'[v] = job'[u] /\ job'[v] # Idle => v = u
  BY <1>1, <1>8 DEF AtTab, PoolInv, TypeOK, OnePlaceEach
<1>11. TypeOK'
  BY <1>1, <1>3, <1>8 DEF PoolInv, TypeOK
<1>12. OnePlaceEach'
  BY <1>1, <1>3, <1>4, <1>5, <1>6, <1>7, <1>8, <1>9, <1>10 DEF PoolInv, OnePlaceEach
<1>13. ExitsInOrder'
  BY <1>1 DEF PoolInv, TypeOK, ExitsInOrder
<1> QED
  BY <1>11, <1>12, <1>13 DEF PoolInv

(* The job of a page that has ended leaves its worker for its answer.       *)
LEMMA AnswerKeepsPoolInv ==
  ASSUME PoolInv, NEW w \in Tabs, Answer(w)
  PROVE  PoolInv'
<1>1. /\ result[w] # "none" /\ job[w] # Idle /\ job[w] \in Fetches /\ AtTab(job[w])
      /\ answer' = [answer EXCEPT ![job[w]] = result[w]]
      /\ job' = [job EXCEPT ![w] = Idle]
      /\ result' = [result EXCEPT ![w] = "none"]
      /\ UNCHANGED <<call, ctxDone, jobs, closing, cancelled, exited>>
  BY DEF Answer, PoolInv, TypeOK, AtTab
<1>2. \A f \in Fetches : AtTab(f)' <=> AtTab(f) /\ f # job[w]
  BY <1>1, BrowserPoolAssumption DEF AtTab, PoolInv, TypeOK, OnePlaceEach
<1>3. TypeOK'
  BY <1>1 DEF PoolInv, TypeOK
<1>4. OnePlaceEach'
  BY <1>1, <1>2 DEF PoolInv, TypeOK, OnePlaceEach, InChannel
<1>5. ExitsInOrder'
  BY <1>1 DEF PoolInv, TypeOK, ExitsInOrder
<1> QED
  BY <1>3, <1>4, <1>5 DEF PoolInv

(* The steps that move no job.                                              *)
LEMMA OthersKeepPoolInv ==
  ASSUME PoolInv,
         \/ \E f \in Fetches : ContextEnds(f) \/ Return(f)
         \/ \E w \in Tabs : PageLoads(w) \/ PageFails(w) \/ PageIsCut(w) \/ Exit(w)
         \/ Close
         \/ UNCHANGED vars
  PROVE  PoolInv'
<1> USE DEF PoolInv, TypeOK, OnePlaceEach, ExitsInOrder, InChannel, AtTab
<1>1. ASSUME NEW f \in Fetches, ContextEnds(f) PROVE PoolInv'
  BY <1>1 DEF ContextEnds
<1>2. ASSUME NEW f \in Fetches, Return(f) PROVE PoolInv'
  BY <1>2 DEF Return
<1>3. ASSUME NEW w \in Tabs, PageLoads(w) \/ PageFails(w) \/ PageIsCut(w) PROVE PoolInv'
  BY <1>3 DEF PageLoads, PageFails, PageIsCut
<1>4. ASSUME NEW w \in Tabs, Exit(w) PROVE PoolInv'
  BY <1>4 DEF Exit
<1>5. CASE Close
  BY <1>5, BrowserPoolAssumption DEF Close, CloseJobs, CancelTab, WaitGroup
<1>6. CASE UNCHANGED vars
  BY <1>6 DEF vars
<1> QED
  BY <1>1, <1>2, <1>3, <1>4, <1>5, <1>6

LEMMA AlwaysPoolInv == Spec => []PoolInv
<1>1. PoolInv /\ [Next]_vars => PoolInv'
  BY FetchKeepsPoolInv, TakeKeepsPoolInv, AnswerKeepsPoolInv, OthersKeepPoolInv
     DEF Next, Caller, Tab, Page
<1> QED
  BY <1>1, InitPoolInv, PTL DEF Spec

(* The channel, the workers and the answers hold every accepted job once,   *)
(* and no other: for any calls, tabs and capacity (browserpool.go:86).      *)
THEOREM JobsAreInOnePlace == Spec => []EveryJobIsInOnePlace
<1>1. PoolInv => EveryJobIsInOnePlace
  <2> SUFFICES ASSUME PoolInv, NEW f \in Fetches
               PROVE LET places == Cardinality({k \in DOMAIN jobs : jobs[k] = f})
                                     + Cardinality({w \in Tabs : job[w] = f})
                                     + (IF answer[f] = "none" THEN 0 ELSE 1)
                     IN  places = IF call[f] \in {"idle", "refused", "panic"} THEN 0 ELSE 1
    BY DEF EveryJobIsInOnePlace
  <2> DEFINE inChannel == {k \in DOMAIN jobs : jobs[k] = f}
             atTab == {w \in Tabs : job[w] = f}
  <2>1. Cardinality(inChannel) = IF InChannel(f) THEN 1 ELSE 0
    <3>1. CASE InChannel(f)
      <4>1. PICK k \in DOMAIN jobs : jobs[k] = f
        BY <3>1 DEF InChannel
      <4>2. inChannel = {k}
        BY <4>1 DEF PoolInv, OnePlaceEach
      <4> QED
        BY <3>1, <4>2, FS_Singleton
    <3>2. CASE ~InChannel(f)
      <4>1. inChannel = {}
        BY <3>2 DEF InChannel
      <4> QED
        BY <3>2, <4>1, FS_EmptySet
    <3> QED
      BY <3>1, <3>2
  <2>2. Cardinality(atTab) = IF AtTab(f) THEN 1 ELSE 0
    <3>1. CASE AtTab(f)
      <4>1. PICK w \in Tabs : job[w] = f
        BY <3>1 DEF AtTab
      <4>2. f # Idle
        BY BrowserPoolAssumption
      <4>3. atTab = {w}
        BY <4>1, <4>2 DEF PoolInv, OnePlaceEach
      <4> QED
        BY <3>1, <4>3, FS_Singleton
    <3>2. CASE ~AtTab(f)
      <4>1. atTab = {}
        BY <3>2 DEF AtTab
      <4> QED
        BY <3>2, <4>1, FS_EmptySet
    <3> QED
      BY <3>1, <3>2
  <2> HIDE DEF inChannel, atTab
  <2>3. Cardinality(inChannel) + Cardinality(atTab) + (IF answer[f] = "none" THEN 0 ELSE 1)
          = IF call[f] \in {"idle", "refused", "panic"} THEN 0 ELSE 1
    BY <2>1, <2>2 DEF PoolInv, OnePlaceEach
  <2> QED
    BY <2>3 DEF inChannel, atTab
<1> QED
  BY <1>1, AlwaysPoolInv, PTL

(* When Close has returned, no job is in the channel or in a worker, and no *)
(* caller waits without an answer (browserpool.go:96).                      *)
THEOREM CloseLeavesNothing == Spec => []NothingIsLeftBehind
<1>1. PoolInv => NothingIsLeftBehind
  <2> SUFFICES ASSUME PoolInv, closing = "closed" PROVE
        /\ jobs = <<>> /\ \A w \in Tabs : job[w] = Idle
        /\ \A f \in Fetches : call[f] = "wait" => answer[f] # "none"
    BY DEF NothingIsLeftBehind
  <2>1. jobs = <<>> /\ \A w \in Tabs : job[w] = Idle
    BY BrowserPoolAssumption DEF PoolInv, ExitsInOrder
  <2>2. ASSUME NEW f \in Fetches, call[f] = "wait" PROVE answer[f] # "none"
    <3>1. ~InChannel(f) /\ ~AtTab(f)
      BY <2>1, BrowserPoolAssumption DEF InChannel, AtTab
    <3> QED
      BY <2>2, <3>1 DEF PoolInv, OnePlaceEach
  <2> QED
    BY <2>1, <2>2
<1> QED
  BY <1>1, AlwaysPoolInv, PTL

----------------------------------------------------------------------------
(* The end of the pool.  Close waits for workers whose pages may hang; what *)
(* makes it return is that no page outlasts its context, and that a closed  *)
(* channel only gets shorter.                                               *)

CancelsInOrder ==
  /\ closing = "open" => cancelled = {}
  /\ closing = "cancel" => cancelled # Tabs
  /\ closing \in {"wait", "closed"} => cancelled = Tabs

LEMMA AlwaysCancelsInOrder == Spec => []CancelsInOrder
<1>1. Init => CancelsInOrder
  BY DEF Init, CancelsInOrder
<1>2. PoolInv /\ CancelsInOrder /\ [Next]_vars => CancelsInOrder'
  <2> SUFFICES ASSUME PoolInv, CancelsInOrder, [Next]_vars PROVE CancelsInOrder'
    OBVIOUS
  <2> USE DEF CancelsInOrder
  <2>1. ASSUME NEW f \in Fetches, Caller(f) PROVE CancelsInOrder'
    BY <2>1 DEF Caller, Fetch, OfferJob, ContextEnds, Return
  <2>2. ASSUME NEW w \in Tabs, Tab(w) \/ Page(w) PROVE CancelsInOrder'
    BY <2>2 DEF Tab, Page, Take, PageLoads, PageFails, PageIsCut, Answer, Exit
  <2>3. CASE CloseJobs
    <3>1. cancelled # Tabs
      BY <2>3, BrowserPoolAssumption DEF CloseJobs
    <3> QED
      BY <2>3, <3>1 DEF CloseJobs
  <2>4. ASSUME NEW w \in Tabs, CancelTab(w) PROVE CancelsInOrder'
    BY <2>4 DEF CancelTab
  <2>5. CASE WaitGroup \/ UNCHANGED vars
    BY <2>5 DEF WaitGroup, vars
  <2> QED
    BY <2>1, <2>2, <2>3, <2>4, <2>5 DEF Next, Close
<1> QED
  BY <1>1, <1>2, AlwaysPoolInv, PTL DEF Spec

(* The guards of the steps of a worker that need no page.                   *)
TabCanGo(w) ==
  \/ w \notin exited /\ job[w] = Idle /\ jobs # <<>>
  \/ job[w] # Idle /\ result[w] = "none" /\ w \in cancelled
  \/ result[w] # "none"
  \/ w \notin exited /\ job[w] = Idle /\ closing # "open" /\ jobs = <<>>

(* While Close is under way either it can go on itself, or every worker it  *)
(* waits for can, whatever its page does (browserpool.go:96).               *)
NobodyHoldsUpClose ==
  /\ closing = "cancel" => \E w \in Tabs : w \notin cancelled
  /\ closing = "wait" => \A w \in Tabs \ exited : TabCanGo(w)

(* What is left to do: the pages to get, each worker's way out, the         *)
(* contexts to cancel and the return.                                       *)
WayOut == [w \in Tabs |-> IF w \in exited THEN 0
                          ELSE IF job[w] = Idle THEN 1
                          ELSE IF result[w] = "none" THEN 3 ELSE 2]

WorkLeft == 3 * Len(jobs) + SumFunctionOnSet(WayOut, Tabs)
              + Cardinality(Tabs \ cancelled) + (IF closing = "closed" THEN 0 ELSE 1)

(* Once the channel is closed every step of a worker, a page or Close       *)
(* leaves less to do, and no caller makes more of it.                       *)
EveryStepHelps ==
  [][closing # "open" =>
       /\ WorkLeft \in Nat
       /\ WorkLeft' < WorkLeft \/ UNCHANGED <<jobs, job, result, closing, cancelled, exited>>]_vars

(* Close and the workers it waits for never wait for a page or a caller.    *)
THEOREM CloseIsNotHeldUp == Spec => []NobodyHoldsUpClose
<1>1. PoolInv /\ CancelsInOrder => NobodyHoldsUpClose
  BY DEF PoolInv, TypeOK, CancelsInOrder, NobodyHoldsUpClose, TabCanGo
<1> QED
  BY <1>1, AlwaysPoolInv, AlwaysCancelsInOrder, PTL

LEMMA WorkIsNat ==
  ASSUME PoolInv
  PROVE  /\ Len(jobs) \in Nat
         /\ \A w \in Tabs : WayOut[w] \in Nat
         /\ SumFunctionOnSet(WayOut, Tabs) \in Nat
         /\ Cardinality(Tabs \ cancelled) \in Nat
         /\ WorkLeft \in Nat
<1>1. Len(jobs) \in Nat
  BY DEF PoolInv, TypeOK
<1>2. \A w \in Tabs : WayOut[w] \in Nat
  BY DEF WayOut
<1>3. SumFunctionOnSet(WayOut, Tabs) \in Nat
  BY <1>2, BrowserPoolAssumption, SumIsNat DEF BrowserPoolAssumption
<1>4. Cardinality(Tabs \ cancelled) \in Nat
  <2>1. IsFiniteSet(Tabs \ cancelled)
    BY BrowserPoolAssumption, FS_Difference DEF BrowserPoolAssumption
  <2> QED
    BY <2>1, FS_CardinalityType
<1> QED
  BY <1>1, <1>2, <1>3, <1>4 DEF WorkLeft

(* A step of one worker changes the sum by what it changes of its own way.  *)
LEMMA OneWayChanges ==
  ASSUME NEW w \in Tabs, WayOut[w] \in Nat, WayOut'[w] \in Nat,
         \A v \in Tabs : WayOut[v] \in Nat,
         \A v \in Tabs \ {w} : WayOut'[v] = WayOut[v]
  PROVE  SumFunctionOnSet(WayOut', Tabs) + WayOut[w] = SumFunctionOnSet(WayOut, Tabs) + WayOut'[w]
<1>1. \A v \in Tabs : WayOut[v] \in Nat /\ WayOut'[v] \in Nat
  OBVIOUS
<1> QED
  BY <1>1, BrowserPoolAssumption, SumUpdate DEF BrowserPoolAssumption

LEMMA WorkerWorks ==
  ASSUME PoolInv, PoolInv', NEW w \in Tabs, Tab(w) \/ Page(w), closing # "open"
  PROVE  WorkLeft' < WorkLeft
<1>1. /\ \A v \in Tabs \ {w} : WayOut'[v] = WayOut[v]
      /\ UNCHANGED <<cancelled, closing>>
      /\ 3 * Len(jobs') + WayOut'[w] < 3 * Len(jobs) + WayOut[w]
  <2> USE DEF PoolInv, TypeOK, WayOut
  <2>1. CASE Take(w)
    <3>1. Len(jobs') = Len(jobs) - 1 /\ Len(jobs) \in Nat /\ Len(jobs') \in Nat
      BY <2>1 DEF Take
    <3>2. /\ WayOut[w] = 1 /\ WayOut'[w] = 3
          /\ \A v \in Tabs \ {w} : WayOut'[v] = WayOut[v]
      <4>1. Head(jobs) \in Fetches
        BY <2>1 DEF Take
      <4>2. Head(jobs) # Idle /\ result[w] = "none"
        BY <2>1, <4>1, BrowserPoolAssumption DEF Take
      <4> QED
        BY <2>1, <4>2 DEF Take
    <3> HIDE DEF WayOut
    <3> QED
      BY <2>1, <3>1, <3>2 DEF Take
  <2>2. CASE PageLoads(w) \/ PageFails(w) \/ PageIsCut(w)
    BY <2>2 DEF PageLoads, PageFails, PageIsCut, ExitsInOrder
  <2>3. CASE Answer(w)
    BY <2>3 DEF Answer, ExitsInOrder
  <2>4. CASE Exit(w)
    BY <2>4 DEF Exit
  <2> QED
    BY <2>1, <2>2, <2>3, <2>4 DEF Tab, Page
<1>2. SumFunctionOnSet(WayOut', Tabs) + WayOut[w] = SumFunctionOnSet(WayOut, Tabs) + WayOut'[w]
  <2>1. \A v \in Tabs : WayOut[v] \in Nat /\ WayOut'[v] \in Nat
    BY DEF WayOut
  <2> QED
    BY <1>1, <2>1, OneWayChanges
<1>3. /\ Len(jobs) \in Nat /\ Len(jobs') \in Nat
      /\ WayOut[w] \in Nat /\ WayOut'[w] \in Nat
      /\ SumFunctionOnSet(WayOut, Tabs) \in Nat /\ SumFunctionOnSet(WayOut', Tabs) \in Nat
      /\ Cardinality(Tabs \ cancelled) \in Nat
  <2>1. WayOut[w] \in Nat /\ WayOut'[w] \in Nat /\ \A v \in Tabs : WayOut'[v] \in Nat
    BY DEF WayOut
  <2>2. SumFunctionOnSet(WayOut', Tabs) \in Nat
    BY <2>1, BrowserPoolAssumption, SumIsNat DEF BrowserPoolAssumption
  <2> QED
    BY <2>1, <2>2, WorkIsNat DEF PoolInv, TypeOK
<1>4. 3 * Len(jobs') + SumFunctionOnSet(WayOut', Tabs) < 3 * Len(jobs) + SumFunctionOnSet(WayOut, Tabs)
  BY <1>1, <1>2, <1>3
<1>5. cancelled' = cancelled /\ closing' = closing
  BY <1>1
<1> QED
  BY <1>3, <1>4, <1>5 DEF WorkLeft

(* Close returns after a number of steps that its beginning fixes, whatever *)
(* hangs: for any calls, tabs and capacity.                                 *)
THEOREM CloseIsBounded == Spec => EveryStepHelps
<1> DEFINE Helps == closing # "open" =>
                      /\ WorkLeft \in Nat
                      /\ \/ WorkLeft' < WorkLeft
                         \/ UNCHANGED <<jobs, job, result, closing, cancelled, exited>>
<1>1. PoolInv /\ PoolInv' /\ [Next]_vars => [Helps]_vars
  <2> SUFFICES ASSUME PoolInv, PoolInv', Next, closing # "open"
               PROVE  \/ WorkLeft' < WorkLeft
                      \/ UNCHANGED <<jobs, job, result, closing, cancelled, exited>>
    BY WorkIsNat
  <2>1. ASSUME NEW f \in Fetches, Caller(f)
        PROVE UNCHANGED <<jobs, job, result, closing, cancelled, exited>>
    BY <2>1 DEF Caller, Fetch, OfferJob, ContextEnds, Return
  <2>2. ASSUME NEW w \in Tabs, Tab(w) \/ Page(w) PROVE WorkLeft' < WorkLeft
    BY <2>2, WorkerWorks
  <2>3. ASSUME NEW w \in Tabs, CancelTab(w) PROVE WorkLeft' < WorkLeft
    <3>1. WayOut' = WayOut /\ jobs' = jobs /\ closing # "closed" /\ closing' # "closed"
      BY <2>3 DEF CancelTab, WayOut
    <3>2. Cardinality(Tabs \ cancelled') = Cardinality(Tabs \ cancelled) - 1
      <4>1. Tabs \ cancelled' = (Tabs \ cancelled) \ {w} /\ w \in Tabs \ cancelled
        BY <2>3 DEF CancelTab
      <4>2. IsFiniteSet(Tabs \ cancelled)
        BY BrowserPoolAssumption, FS_Difference DEF BrowserPoolAssumption
      <4> QED
        BY <4>1, <4>2, FS_RemoveElement
    <3> QED
      BY <3>1, <3>2, WorkIsNat DEF WorkLeft
  <2>4. CASE WaitGroup
    <3>1. /\ WayOut' = WayOut /\ jobs' = jobs /\ cancelled' = cancelled
          /\ closing = "wait" /\ closing' = "closed"
      BY <2>4 DEF WaitGroup, WayOut
    <3> QED
      BY <3>1, WorkIsNat DEF WorkLeft
  <2> QED
    BY <2>1, <2>2, <2>3, <2>4 DEF Next, Close, CloseJobs
<1> QED
  BY <1>1, AlwaysPoolInv, PTL DEF Spec, EveryStepHelps
=============================================================================
